---------------------------- MODULE DataChannels ----------------------------
(***************************************************************************)
(* The data channel bus between two peers of a mesh call                    *)
(* (packages/core/src/data-channel-bus.ts, wired by mesh-transport.ts), and *)
(* what a room sends over it and over signaling as well                     *)
(* (sendTranscript, room.ts).  Each side creates a channel and prefers the  *)
(* one the other side created once it has arrived, so four ends of two      *)
(* channels are in play.  The channels themselves and the signaling path    *)
(* are external: each keeps its own order, and nothing orders one after     *)
(* another.                                                                 *)
(***************************************************************************)
EXTENDS Naturals, Sequences, FiniteSets

CONSTANTS MaxSent      \* bound on the messages of both sides together

Side == {"p", "q"}
Other(s) == IF s = "p" THEN "q" ELSE "p"

VARIABLES bus,       \* of each side: "up" or "closed"
          adopted,   \* the side has adopted the channel the other one created
          end,       \* end[c][s]: state of s's end of the channel c created
          wired,     \* wired[c][s]: the bus of s listens on that end
          wire,      \* wire[c][s]: messages on that channel under way to s
          relay,     \* envelopes under way to each side through signaling
          waiter,    \* open() of each side: "idle", "waiting", "opened" or "failed"
          sent,      \* messages each side sent (history): [kind, bus] in order
          heard,     \* messages each side's listeners got (history): [n, leg], in order
          cut        \* a side closed its bus (history)
vars == <<bus, adopted, end, wired, wire, relay, waiter, sent, heard, cut>>
links == <<end, wired, adopted>>

-----------------------------------------------------------------------------
\* ensurePeer on both sides: each bus creates its channel and listens on it; the far end
\* of a channel is not known yet
Init ==
  /\ bus = [s \in Side |-> "up"] /\ adopted = [s \in Side |-> FALSE]
  /\ end = [c \in Side |-> [s \in Side |-> IF s = c THEN "connecting" ELSE "none"]]
  /\ wired = [c \in Side |-> [s \in Side |-> s = c]]
  /\ wire = [c \in Side |-> [s \in Side |-> <<>>]] /\ relay = [s \in Side |-> <<>>]
  /\ waiter = [s \in Side |-> "idle"]
  /\ sent = [s \in Side |-> <<>>] /\ heard = [s \in Side |-> <<>>] /\ cut = FALSE

\* The remote channel wins
activeChannel(s) == IF adopted[s] THEN Other(s) ELSE s
IsOpen(s) == end[activeChannel(s)][s] = "open"

\* The open and close events of an end the bus listens on settle open()
Settled(c, s, outcome) ==
  IF wired[c][s] /\ bus[s] = "up" /\ waiter[s] = "waiting" THEN outcome ELSE waiter[s]

---- \* the channels (external)

\* adopt of a channel the other side created: listen on it, and on the old one still
ListenOnlyThere(s) == [wired EXCEPT ![Other(s)][s] = TRUE, ![s][s] = FALSE]
Listen(s) == [wired EXCEPT ![Other(s)][s] = TRUE]

Announce(c) ==
  LET s == Other(c) IN
  /\ end[c][s] = "none" /\ end[c][c] # "closed"
  /\ end' = [end EXCEPT ![c][s] = "connecting"]
  /\ IF bus[s] = "up" THEN adopted' = [adopted EXCEPT ![s] = TRUE] /\ wired' = Listen(s)
                      ELSE UNCHANGED <<adopted, wired>>
  /\ UNCHANGED <<bus, wire, relay, waiter, sent, heard, cut>>

OpenEnd(c, s) ==
  /\ end[c][s] = "connecting" /\ end[c][Other(s)] # "none"
  /\ end' = [end EXCEPT ![c][s] = "open"]
  /\ waiter' = [waiter EXCEPT ![s] = Settled(c, s, "opened")]
  /\ UNCHANGED <<bus, adopted, wired, wire, relay, sent, heard, cut>>

\* The other end was closed and everything it had sent has arrived
CloseEnd(c, s) ==
  /\ end[c][s] \in {"connecting", "open"} /\ end[c][Other(s)] = "closed" /\ wire[c][s] = <<>>
  /\ end' = [end EXCEPT ![c][s] = "closed"]
  /\ waiter' = [waiter EXCEPT ![s] = Settled(c, s, "failed")]
  /\ UNCHANGED <<bus, adopted, wired, wire, relay, sent, heard, cut>>

---- \* the bus

\* open(): at once, or when an event settles it, or the timer does
AskOpen(s) ==
  /\ waiter[s] = "idle" /\ bus[s] = "up"
  /\ waiter' = [waiter EXCEPT ![s] = IF IsOpen(s) THEN "opened" ELSE "waiting"]
  /\ UNCHANGED <<bus, links, wire, relay, sent, heard, cut>>

TimeOut(s) ==
  /\ waiter[s] = "waiting" /\ waiter' = [waiter EXCEPT ![s] = "failed"]
  /\ UNCHANGED <<bus, links, wire, relay, sent, heard, cut>>

Message(s) == Len(sent[s]) + 1
onBus(s) == [wire EXCEPT ![activeChannel(s)][Other(s)] = Append(@, Message(s))]

\* send(): throws unless the active channel is open
send(s) ==
  /\ Len(sent["p"]) + Len(sent["q"]) < MaxSent /\ IsOpen(s)
  /\ wire' = onBus(s)
  /\ sent' = [sent EXCEPT ![s] = Append(@, [kind |-> "data", bus |-> TRUE])]
  /\ UNCHANGED <<bus, links, relay, waiter, heard, cut>>

\* sendTranscript of the room: over the bus if it is open, and through signaling anyway
sendTranscript(s) ==
  /\ Len(sent["p"]) + Len(sent["q"]) < MaxSent /\ bus[s] = "up"
  /\ wire' = IF IsOpen(s) THEN onBus(s) ELSE wire
  /\ relay' = [relay EXCEPT ![Other(s)] = Append(@, Message(s))]
  /\ sent' = [sent EXCEPT ![s] = Append(@, [kind |-> "transcript", bus |-> IsOpen(s)])]
  /\ UNCHANGED <<bus, links, waiter, heard, cut>>

\* handleRaw: to the listeners of the bus, whichever channel it came on
handleRaw(c, s) ==
  /\ wire[c][s] # <<>> /\ end[c][s] = "open"
  /\ wire' = [wire EXCEPT ![c][s] = Tail(@)]
  /\ heard' = IF wired[c][s] /\ bus[s] = "up"
              THEN [heard EXCEPT ![s] = Append(@, [n |-> Head(wire[c][s]), leg |-> c])]
              ELSE heard
  /\ UNCHANGED <<bus, links, relay, waiter, sent, cut>>

\* The transcript envelope of the room
handleEnvelope(s) ==
  /\ relay[s] # <<>>
  /\ relay' = [relay EXCEPT ![s] = Tail(@)]
  /\ heard' = [heard EXCEPT ![s] = Append(@, [n |-> Head(relay[s]), leg |-> "relay"])]
  /\ UNCHANGED <<bus, links, wire, waiter, sent, cut>>

\* close(), from handleRemoteLeave: both channels, and every listener of the bus with them
close(s) ==
  /\ bus[s] = "up" /\ bus' = [bus EXCEPT ![s] = "closed"] /\ cut' = TRUE
  /\ end' = [c \in Side |-> [end[c] EXCEPT
               ![s] = IF c = s \/ adopted[s] THEN "closed" ELSE @]]
  /\ UNCHANGED <<adopted, wired, wire, relay, waiter, sent, heard>>

Next ==
  \E s \in Side : \/ Announce(s) \/ AskOpen(s) \/ TimeOut(s) \/ send(s) \/ sendTranscript(s)
                  \/ handleEnvelope(s) \/ close(s)
                  \/ \E c \in Side : OpenEnd(c, s) \/ CloseEnd(c, s) \/ handleRaw(c, s)

Spec == Init /\ [][Next]_vars

-----------------------------------------------------------------------------
Heard(s, n, legs) == Cardinality({i \in DOMAIN heard[s] : heard[s][i].n = n /\ heard[s][i].leg \in legs})
Delivered == \A s \in Side : relay[s] = <<>> /\ \A c \in Side : wire[c][s] = <<>>

\* Of two messages of one sender heard over the bus in the wrong order, the later one came
\* over the channel the other side created and the earlier one over the sender's own: the
\* order breaks at the switch only.
OrderUntilSwitch ==
  \A s \in Side : \A i, j \in DOMAIN heard[s] :
    LET a == heard[s][i]
        b == heard[s][j]
    IN i < j /\ a.leg \in Side /\ b.leg \in Side /\ a.n > b.n
         => a.leg = s /\ b.leg = Other(s)

\* While both buses are up, a message sent on an open channel is heard exactly once, even
\* when the sides switched channels around it, and a transcript once more through
\* signaling; messages cross only where the sender switched
\* (data-channel-bus.ts:119-149; room.ts:930-938).
HeardOnce ==
  /\ Delivered /\ ~cut =>
       \A s \in Side : \A n \in DOMAIN sent[s] :
         /\ Heard(Other(s), n, Side) = (IF sent[s][n].bus THEN 1 ELSE 0)
         /\ Heard(Other(s), n, {"relay"}) = (IF sent[s][n].kind = "transcript" THEN 1 ELSE 0)
  /\ OrderUntilSwitch

\* open() does not go on waiting for a channel that is open: whichever of the two channels
\* is preferred by then, its opening settles it (154-179).
WaitsForOpen ==
  \A s \in Side : bus[s] = "up" /\ waiter[s] = "waiting" => ~IsOpen(s)
=============================================================================
