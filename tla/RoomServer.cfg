SPECIFICATION Spec
CONSTANTS
    Pid = {a, b, c}
    Privileged = {a}
    Sock = {s, t}
    Rest = Rest
    Worker = {v, w}
    None = None
    Cap = 1
    MaxCalls = 3
    Ops = {"wsJoin", "restJoin", "wsLeave", "restLeave", "signal", "joinSignal", "leaveSignal", "lock", "kick", "ban", "unban"}
INVARIANTS RosterHolds ViewsAgree OvershootBounded RelayMatchesLog DropDetaches
SYMMETRY Symmetry
CHECK_DEADLOCK FALSE
CONSTRAINT OneLives
