------------------------------ MODULE ClientView ------------------------------
(***************************************************************************)
(* What an application sees of a Room: the snapshot store.  The room's     *)
(* live state (its lifecycle, the remote participants, the local track,    *)
(* the quality tier) is copied into an immutable snapshot when one of a    *)
(* fixed list of events fires; listeners are called when the copy differs. *)
(* A listener may throw, subscribe, unsubscribe and change the room again  *)
(* while it is being called.  Muting and the devices facade's restartTrack *)
(* change live state as well, without an event of that list.               *)
(*                                                                         *)
(* Handlers run to completion: while listeners are being called only they  *)
(* act.  A track is a number; its sender per peer holds that number.       *)
(***************************************************************************)
EXTENDS Naturals, Sequences, SequencesExt

CONSTANTS Remote,       \* remote participants
          Conn,         \* peer connections with a sender of the local track
          Listener,     \* listeners
          MaxTracks, MaxChanges    \* bounds: tracks acquired, events

VARIABLES life,     \* joining, joined, closed
          rem,      \* remoteById: what the snapshot shows of each
          meta, level,              \* local metadata; current quality tier
          pub,      \* the local publication, or None
          on,       \* tracks with enabled = true
          ended,    \* tracks stopped
          send,     \* track each peer connection sends, 0 for none
          used,     \* tracks acquired so far
          swap,     \* restartTrack in progress
          snap, ref,    \* current snapshot and its identity
          dirty,    \* snapshotDirty
          subs,     \* the store's listeners in order of subscription
          pass,     \* notify loops in progress, innermost first
          informed, \* history: snapshot each listener was last called with
          silent,   \* history: changed by a mute or a track swap since
          raced,    \* history: the local track or its peers changed mid-swap
          changes
viewVars == <<life, rem, meta, level, pub, on, ended, send, used, swap, snap, ref,
              dirty, subs, pass, informed, silent, raced, changes>>
local == <<pub, on, ended, send, used, swap, raced>>
store == <<snap, ref, dirty, subs, pass, informed, silent>>

None == [at |-> "none"]
NoSwap == [at |-> "idle"]
Toggled(x) == 1 - x

Status(l) == IF l.closed THEN "closed" ELSE IF l.joined THEN "joined"
             ELSE IF l.joining THEN "joining" ELSE "new"
buildSnapshot == [status |-> Status(life), rem |-> rem, meta |-> meta,
                  tier |-> level, pub |-> pub]

ViewInit ==
    /\ life = [joining |-> FALSE, joined |-> FALSE, closed |-> FALSE]
    /\ rem = <<>> /\ meta = 0 /\ level = 0
    /\ pub = None /\ on = {} /\ ended = {} /\ used = 0 /\ swap = NoSwap
    /\ send = [c \in Conn |-> 0]
    /\ snap = buildSnapshot /\ ref = 0 /\ dirty = FALSE
    /\ subs = <<>> /\ pass = <<>> /\ informed = [l \in Listener |-> 0]
    /\ silent = FALSE /\ raced = FALSE /\ changes = 0

----------------------------------------------------------------------------
(* The store.  refreshSnapshot keeps the old reference when nothing        *)
(* differs; invalidateSnapshot only marks dirty while nobody listens.      *)

\* Every field of every record compared.
roomSnapshotsEqual(a, b) == a = b

refreshSnapshot ==
    /\ dirty' = FALSE /\ silent' = FALSE
    /\ IF roomSnapshotsEqual(snap, buildSnapshot')
       THEN UNCHANGED <<snap, ref, pass>>
       ELSE /\ snap' = buildSnapshot' /\ ref' = ref + 1
            /\ pass' = <<subs>> \o pass
invalidateSnapshot ==
    IF subs = <<>> THEN dirty' = TRUE /\ UNCHANGED <<snap, ref, pass, silent>>
                   ELSE refreshSnapshot

Change == pass = <<>> /\ changes < MaxChanges /\ changes' = changes + 1

subscribe(l) == /\ subs' = IF Contains(subs, l) THEN subs ELSE Append(subs, l)
                /\ informed' = [informed EXCEPT ![l] = ref]
\* The listeners are a set: one is in the order once at most
SubsWithout(l) ==
    IF Contains(subs, l) THEN RemoveAt(subs, CHOOSE i \in DOMAIN subs : subs[i] = l) ELSE subs
unsubscribe(l) == subs' = SubsWithout(l) /\ UNCHANGED informed

Subscribe(l) ==
    /\ Change
    /\ subscribe(l) \/ unsubscribe(l)
    /\ UNCHANGED <<life, rem, meta, level, local, snap, ref, dirty, pass, silent>>
getSnapshot ==
    /\ pass = <<>> /\ dirty
    /\ UNCHANGED <<life, rem, meta, level, local, subs, informed, changes>>
    /\ refreshSnapshot

\* Bug: the loop ends at the first listener that throws.
NotifyUntilThrow ==
    /\ pass # <<>> /\ Head(pass) # <<>>
    /\ informed' = [informed EXCEPT ![Head(Head(pass))] = ref]
    /\ \/ pass' = <<Tail(Head(pass))>> \o Tail(pass)
       \/ pass' = Tail(pass)
    /\ UNCHANGED <<life, rem, meta, level, local, subs, snap, ref, dirty,
                   silent, changes>>
\* One listener of the innermost loop is called.  It may return or throw
\* (the loop goes on either way), touch the subscriptions (the loop runs over
\* a copy), or change the room, which starts a loop of its own.
Notify ==
    /\ pass # <<>> /\ Head(pass) # <<>>
    /\ UNCHANGED <<life, rem, level, local>>
    /\ LET l == Head(Head(pass))
           rest == <<Tail(Head(pass))>> \o Tail(pass)
       IN \/ /\ informed' = [informed EXCEPT ![l] = ref] /\ pass' = rest
             /\ UNCHANGED <<meta, subs, snap, ref, dirty, silent, changes>>
          \/ /\ changes < MaxChanges /\ changes' = changes + 1 /\ pass' = rest
             /\ \E k \in Listener :
                 \/ subs' = SubsWithout(k)
                 \/ ~Contains(subs, k) /\ subs' = Append(subs, k)
             /\ informed' = [k \in Listener |-> IF k = l \/ ~Contains(subs, k)
                                                 THEN ref ELSE informed[k]]
             /\ UNCHANGED <<meta, snap, ref, dirty, silent>>
          \/ /\ changes < MaxChanges /\ changes' = changes + 1
             /\ informed' = [informed EXCEPT ![l] = ref]
             /\ meta' = Toggled(meta)
             /\ UNCHANGED subs
             /\ IF subs = <<>>
                THEN dirty' = TRUE /\ pass' = rest
                     /\ UNCHANGED <<snap, ref, silent>>
                ELSE /\ snap' = buildSnapshot' /\ ref' = ref + 1
                     /\ pass' = <<subs>> \o rest
                     /\ dirty' = FALSE /\ silent' = FALSE
LoopEnds ==
    /\ pass # <<>> /\ Head(pass) = <<>>
    /\ pass' = Tail(pass)
    /\ UNCHANGED <<life, rem, meta, level, local, subs, informed, snap, ref, dirty,
                   silent, changes>>

----------------------------------------------------------------------------
(* Changes that fire an event of the list, or invalidate by themselves.    *)

\* join(): joining, then joined or back; leave() at any moment wins.
Lifecycle ==
    /\ Change
    /\ \/ /\ ~life.joining /\ ~life.joined /\ ~life.closed
          /\ life' = [life EXCEPT !.joining = TRUE]
       \/ /\ life.joining
          /\ life' = [life EXCEPT !.joining = FALSE, !.joined = TRUE]
       \/ life.joining /\ life' = [life EXCEPT !.joining = FALSE]
       \/ /\ ~life.closed
          /\ life' = [life EXCEPT !.closed = TRUE, !.joining = FALSE]
    /\ UNCHANGED <<rem, meta, level, local, subs, informed>>
    /\ invalidateSnapshot

Room(rem1) ==
    /\ Change /\ rem' = rem1
    /\ UNCHANGED <<life, meta, level, local, subs, informed>>
    /\ invalidateSnapshot
At(p, i) == i \in 1..Len(rem) /\ rem[i].id = p
Known(p) == \E i \in 1..Len(rem) : At(p, i)
Changed(p, f) == [i \in 1..Len(rem) |->
    IF At(p, i) THEN [id |-> p, is |-> [rem[i].is EXCEPT ![f] = Toggled(@)]]
    ELSE rem[i]]

handleRemoteJoin(p) ==
    Room(IF Known(p) THEN Changed(p, "name")
         ELSE Append(rem, [id |-> p, is |-> [name |-> 0, pres |-> 0,
                                              conn |-> 0, pubs |-> 0]]))
handleRemoteLeave(p) ==
    Known(p) /\ Room(SelectSeq(rem, LAMBDA x : x.id # p))
handlePresence(p) == Known(p) /\ Room(Changed(p, "pres"))
onConnectionState(p) == Known(p) /\ Room(Changed(p, "conn"))
\* A remote track arrives, or ends.
handleRemoteTrack(p) == Known(p) /\ Room(Changed(p, "pubs"))

setPresence ==
    /\ Change /\ meta' = Toggled(meta)
    /\ UNCHANGED <<life, rem, level, local, subs, informed>>
    /\ invalidateSnapshot
qualityChanged ==
    /\ Change /\ level' = Toggled(level)
    /\ UNCHANGED <<life, rem, meta, local, subs, informed>>
    /\ invalidateSnapshot
devicesChanged ==
    /\ Change
    /\ UNCHANGED <<life, rem, meta, level, local, subs, informed>>
    /\ invalidateSnapshot

Racing == raced' = (raced \/ swap # NoSwap)
publish ==
    /\ Change /\ ~life.closed /\ pub = None /\ used < MaxTracks
    /\ used' = used + 1 /\ on' = on \cup {used'}
    /\ pub' = [at |-> "live", track |-> used', muted |-> FALSE]
    /\ send' = [c \in Conn |-> IF send[c] = 0 THEN 0 ELSE used']
    /\ Racing
    /\ UNCHANGED <<life, rem, meta, level, ended, swap, subs, informed>>
    /\ invalidateSnapshot
unpublish ==
    /\ Change /\ pub # None
    /\ pub' = None
    /\ send' = [c \in Conn |-> 0]
    /\ ended' = ended \cup {pub.track}
    /\ Racing
    /\ UNCHANGED <<life, rem, meta, level, on, used, swap, subs, informed>>
    /\ invalidateSnapshot
\* A peer connection opens with the published track, or closes.
ensurePeer(c) ==
    /\ Change /\ pub # None
    /\ send' = [send EXCEPT ![c] = IF @ = 0 THEN pub.track ELSE 0]
    /\ Racing
    /\ UNCHANGED <<life, rem, meta, level, pub, on, ended, used, swap, store>>

----------------------------------------------------------------------------
(* Changes that fire none.                                                 *)

setMuted ==
    /\ Change /\ pub # None
    /\ pub' = [pub EXCEPT !.muted = ~@]
    /\ on' = IF pub.muted THEN on \cup {pub.track} ELSE on \ {pub.track}
    /\ silent' = TRUE /\ Racing
    /\ UNCHANGED <<life, rem, meta, level, ended, send, used, swap, snap, ref,
                   dirty, subs, pass, informed>>

\* restartTrack: note the senders and the enabled state, await the new track,
\* replace it sender by sender, stop the old ones.
restartTrack ==
    /\ Change /\ swap = NoSwap /\ used < MaxTracks
    /\ LET todo == {c \in Conn : send[c] # 0}
       IN /\ todo # {}
          /\ swap' = [at |-> "media", todo |-> todo, new |-> 0,
                      old |-> {send[c] : c \in todo},
                      live |-> \A c \in todo : send[c] \in on]
    /\ raced' = (raced \/ pub = None)
    /\ UNCHANGED <<life, rem, meta, level, pub, on, ended, send, used, store>>
Acquired ==
    /\ pass = <<>> /\ swap.at = "media" /\ used < MaxTracks
    /\ used' = used + 1
    /\ on' = IF swap.live THEN on \cup {used'} ELSE on
    /\ swap' = [swap EXCEPT !.at = "replace", !.new = used']
    /\ UNCHANGED <<life, rem, meta, level, pub, ended, send, raced, store, changes>>
\* getUserMedia refuses, or a replaceTrack does (its connection closed):
\* the senders replaced so far keep the new track, the old is not stopped.
RestartFails ==
    /\ pass = <<>>
    /\ \/ swap.at = "media"
       \/ swap.at = "replace" /\ \E c \in swap.todo : send[c] = 0
    /\ swap' = NoSwap
    /\ UNCHANGED <<life, rem, meta, level, pub, on, ended, send, used, raced,
                   store, changes>>
Replaced(c) ==
    /\ pass = <<>> /\ swap.at = "replace" /\ c \in swap.todo /\ send[c] # 0
    /\ send' = [send EXCEPT ![c] = swap.new]
    /\ IF pub # None /\ pub.track = send[c]
       THEN pub' = [pub EXCEPT !.track = swap.new] /\ silent' = TRUE
       ELSE UNCHANGED <<pub, silent>>
    /\ swap' = [swap EXCEPT !.todo = @ \ {c}]
    /\ UNCHANGED <<life, rem, meta, level, on, ended, used, raced, snap, ref,
                   dirty, subs, pass, informed, changes>>
\* A sender whose track was removed in the meantime is passed over.
Skipped(c) ==
    /\ pass = <<>> /\ swap.at = "replace" /\ c \in swap.todo /\ send[c] = 0
    /\ swap' = [swap EXCEPT !.todo = @ \ {c}]
    /\ UNCHANGED <<life, rem, meta, level, pub, on, ended, send, used, raced,
                   store, changes>>
Restarted ==
    /\ pass = <<>> /\ swap.at = "replace" /\ swap.todo = {}
    /\ ended' = ended \cup (swap.old \ {swap.new})
    /\ swap' = NoSwap
    /\ UNCHANGED <<life, rem, meta, level, pub, on, send, used, raced, store,
                   changes>>

----------------------------------------------------------------------------
ViewNext ==
    \/ getSnapshot \/ Notify \/ LoopEnds
    \/ \E l \in Listener : Subscribe(l)
    \/ \E p \in Remote : \/ handleRemoteJoin(p) \/ handleRemoteLeave(p)
                         \/ handlePresence(p) \/ onConnectionState(p)
                         \/ handleRemoteTrack(p)
    \/ Lifecycle \/ setPresence \/ qualityChanged \/ devicesChanged
    \/ publish \/ unpublish \/ setMuted
    \/ restartTrack \/ Acquired \/ RestartFails \/ Restarted
    \/ \E c \in Conn : ensurePeer(c) \/ Replaced(c) \/ Skipped(c)
ViewSpec == ViewInit /\ [][ViewNext]_viewVars

----------------------------------------------------------------------------
(* The snapshot an application reads is the room's live state, unless the  *)
(* local track was muted, unmuted or swapped since the snapshot was built  *)
(* (or a rebuild is due at the next read).                                 *)
Fresh == dirty \/ silent \/ snap = buildSnapshot

(* Whatever listeners throw, subscribe, unsubscribe or change while they   *)
(* are called, everyone subscribed ends up having been called with the     *)
(* current snapshot, or subscribed when it was current already.            *)
Told == pass = <<>> => \A l \in Range(subs) : informed[l] = ref

(* With no swap in progress the published track is live, enabled exactly   *)
(* when it is not muted, and what every peer is sent, unless muting,       *)
(* publishing or a peer coming or going crossed a swap.                    *)
SwapKept ==
    (swap = NoSwap /\ pub # None /\ ~raced) =>
        /\ pub.track \notin ended
        /\ pub.track \in on <=> ~pub.muted
        /\ \A c \in Conn : send[c] \in {0, pub.track}
=============================================================================
