------------------------------ MODULE RoomMesh ------------------------------
(***************************************************************************)
(* Rooms of one call over a full mesh: the life cycle of Room              *)
(* (packages/core/src/room.ts) on top of BaseSignalingTransport            *)
(* (packages/transport/src/base.ts), the roster it keeps and the peer      *)
(* connections of MeshMediaTransport (core/src/media/mesh-transport.ts).   *)
(*                                                                         *)
(* An async method is cut at its awaits: a join stands at life[p].joinAt,  *)
(* a leave at life[p].leaveAt, an envelope handler or a publish waits in   *)
(* tasks[p] until the model resumes it.  Channels keep the order of one    *)
(* sender ('guaranteed' backends) and lose nothing; a crashed tab sends no *)
(* leave of its own, the server sends one for it with seq 0.  The          *)
(* offer/answer machine is PeerNegotiation: here an offer is what shows    *)
(* the other side the tracks of a connection, and answers and candidates,  *)
(* which go to the peer an offer made, are left out.                       *)
(***************************************************************************)
EXTENDS Integers, Sequences, FiniteSets

CONSTANTS
  Peer,        \* participant ids
  Track,       \* local tracks a peer may publish
  MaxSess,     \* bound: Room objects (sessions) a peer creates, one by one
  MaxTries,    \* bound: join() attempts of one Room
  MaxEvents    \* bound: publish, unpublish and leave calls, failures and crashes
               \* in one behaviour

ASSUME RoomAssumption ==
  /\ MaxSess \in Nat \ {0}
  /\ MaxTries \in Nat \ {0}
  /\ MaxEvents \in Nat
  /\ Track \cap {"join", "offer"} = {}

VARIABLES
  life,     \* life cycle of the Room and its transport, per peer
  seq,      \* Room.seq: next sequence number
  seen,     \* OrderedMessageBuffer: last accepted seq per sender and session
  remotes,  \* Room.remoteById
  pubs,     \* LocalParticipant publications
  peers,    \* MeshMediaTransport.peers: ids with a stored entry
  open,     \* RTCPeerConnections alive per id, stored or not
  sent,     \* tracks on the stored connection, per id
  heard,    \* publications of each RemoteParticipant
  tasks,    \* suspended handlers and publish() calls
  visited,  \* ids a running publish() has added its track for
  wire,     \* wire[p][q]: envelopes from p to q, in order
  crossed,  \* ids whose peer something crossed while it was being set up
  gone,     \* last session of each id whose leave was accepted
  early,    \* ids whose offer came when they were not in the roster
  events    \* events so far, s

media == <<remotes, pubs, peers, open, sent, heard, visited>>
hist == <<crossed, gone, early>>
vars == <<life, seq, seen, media, tasks, wire, hist, events>>

Session == Peer \X (1 .. MaxSess)
None == [p \in Peer |-> {}]

(***************************************************************************)
(* State of a Room object that was just constructed, and of its transport. *)
(***************************************************************************)
Fresh(s) ==
  [sess |-> s, joinAt |-> "idle", leaveAt |-> "none", tries |-> 0,
   joined |-> FALSE, closed |-> FALSE, mediaClosed |-> FALSE,
   bound |-> FALSE,     \* BaseSignalingTransport.currentRoom is set
   timers |-> FALSE,    \* heartbeat and sweeper run
   sampling |-> FALSE,  \* quality and active-speaker samplers run
   attached |-> 0,      \* handler pairs registered on the transport
   tracked |-> 0,       \* of those, the ones in Room.unsubscribers
   failed |-> 0,        \* attempts that failed with handlers registered
   told |-> FALSE,      \* envelopes of an earlier attempt or session went out
                        \* and no leave that is last ended it
   raced |-> FALSE]     \* leave() was called while join() was suspended

Init ==
  /\ life = [p \in Peer |-> Fresh(1)]
  /\ seq = [p \in Peer |-> 0]
  /\ seen = [p \in Peer |-> [k \in Session |-> -1]]
  /\ remotes = None /\ pubs = None /\ peers = None
  /\ open = [p \in Peer |-> [q \in Peer |-> 0]]
  /\ sent = [p \in Peer |-> None]
  /\ heard = [p \in Peer |-> None]
  /\ visited = [p \in Peer |-> [t \in Track |-> {}]]
  /\ tasks = None
  /\ wire = [p \in Peer |-> [q \in Peer |-> <<>>]]
  /\ crossed = None /\ early = None
  /\ gone = [p \in Peer |-> [q \in Peer |-> 0]]
  /\ events = 0

-----------------------------------------------------------------------------
(* Sending.                                                                *)

\* Envelopes of type `type' from p to the bound transports of `to', on top of w.
\* BaseSignalingTransport.emit() throws when p itself is in no room.
Post(w, p, to, n, type, tracks) ==
  [w EXCEPT ![p] = [q \in Peer |->
     IF q \in to \ {p} /\ life[p].bound /\ life[q].bound
     THEN Append(w[p][q], [type |-> type, seq |-> n, sess |-> life[p].sess,
                           tracks |-> tracks])
     ELSE w[p][q]]]

Emit(p, to, type, tracks) ==
  /\ wire' = Post(wire, p, to, seq[p], type, tracks)
  /\ seq' = [seq EXCEPT ![p] = @ + 1]

\* Frames on their way to a transport that leaves its room are never read.
Unsubscribed(p) == [q \in Peer |-> [wire[q] EXCEPT ![p] = <<>>]]

Event == events < MaxEvents /\ events' = events + 1

Set(p, new) == life' = [life EXCEPT ![p] = new]

-----------------------------------------------------------------------------
(* Room.join(): runJoin, one attempt at a time on joinChain.               *)

Join(p) ==
  LET l == life[p] IN
  /\ l.joinAt = "idle" /\ ~l.joined /\ ~l.closed /\ l.tries < MaxTries
  /\ Set(p, [l EXCEPT !.tries = @ + 1,
               !.joinAt = IF l.bound THEN "rollback" ELSE "transport",
               !.bound = TRUE])
  /\ UNCHANGED <<seq, seen, media, tasks, wire, hist, events>>

\* doJoin() resolved: timers start although leave() may have cleared the room;
\* the handlers are registered; setPresence() throws without a room.
JoinTransport(p) ==
  LET l == life[p] IN
  /\ l.joinAt = "transport"
  /\ Set(p, [l EXCEPT !.timers = TRUE, !.attached = @ + 1,
               !.tracked = IF l.bound THEN @ + 1 ELSE 0,
               !.failed = IF l.bound THEN @ ELSE @ + 1,
               !.joinAt = IF l.bound THEN "presence"
                          ELSE IF l.closed THEN "idle" ELSE "rollback"])
  /\ UNCHANGED <<seq, seen, media, tasks, wire, hist, events>>

\* setPresence() resolved: the join envelope is broadcast (seq 0 on a first
\* attempt); emit() throws when leave() has unbound the transport.
JoinAnnounce(p) ==
  LET l == life[p] IN
  /\ l.joinAt = "presence"
  /\ Set(p, IF l.bound THEN [l EXCEPT !.joinAt = "announce"]
            ELSE [l EXCEPT !.joinAt = "idle", !.tracked = 0,
                           !.failed = @ + 1])
  /\ Emit(p, Peer, "join", {})
  /\ UNCHANGED <<seen, media, tasks, hist, events>>

\* The join settled: the samplers start, closed or not.
JoinDone(p) ==
  /\ life[p].joinAt = "announce"
  /\ Set(p, [life[p] EXCEPT !.joinAt = "idle", !.joined = TRUE,
                            !.sampling = TRUE])
  /\ UNCHANGED <<seq, seen, media, tasks, wire, hist, events>>

\* An await of runJoin rejects, or checkAborted() throws after it: the catch
\* forgets the unsubscribers of the attempt without calling them, and leaves
\* the transport unless the room was closed meanwhile.
JoinFail(p) ==
  LET l == life[p] IN
  /\ Event /\ l.joinAt \in {"transport", "presence", "announce"}
  /\ \E unbound \in IF l.joinAt = "transport" THEN BOOLEAN ELSE {FALSE} :
       /\ Set(p, [l EXCEPT !.tracked = 0,
                    !.failed = IF l.joinAt = "transport" THEN @ ELSE @ + 1,
                    !.bound = @ /\ ~unbound,
                    !.timers = @ \/ (l.joinAt = "transport" /\ ~unbound),
                    !.joinAt = IF l.closed THEN "idle" ELSE "rollback"])
       /\ wire' = IF unbound THEN Unsubscribed(p) ELSE wire
  /\ UNCHANGED <<seq, seen, media, tasks, hist>>

\* transport.leave() of the rollback, best effort: it may fail and stay bound.
Rollback(p) ==
  LET l == life[p] IN
  /\ l.joinAt = "rollback"
  /\ \E ok \in BOOLEAN :
       /\ IF ok THEN UNCHANGED events ELSE Event
       /\ Set(p, [l EXCEPT !.joinAt = "idle", !.told = @ \/ seq[p] > 0,
                           !.bound = @ /\ ~ok,
                           !.timers = @ /\ ~(l.bound /\ ok)])
       /\ wire' = IF ok THEN Unsubscribed(p) ELSE wire
  /\ UNCHANGED <<seq, seen, media, tasks, hist>>

-----------------------------------------------------------------------------
(* Room.leave().                                                           *)

Creating(p) == {t.who : t \in {u \in tasks[p] : u.at \in {"ice", "setup"}}}

\* Up to the awaits of the recording: samplers stop, the mesh closes.
Leave(p) ==
  LET l == life[p] IN
  /\ ~l.closed /\ Event
  /\ Set(p, [l EXCEPT !.closed = TRUE, !.mediaClosed = TRUE,
               !.sampling = FALSE, !.leaveAt = "announce",
               !.raced = l.joinAt # "idle"])
  /\ peers' = [peers EXCEPT ![p] = {}]
  /\ open' = [open EXCEPT ![p] =
                [q \in Peer |-> IF q \in peers[p] THEN @[q] - 1 ELSE @[q]]]
  /\ sent' = [sent EXCEPT ![p] = None]
  /\ crossed' = [crossed EXCEPT ![p] = @ \cup Creating(p)]
  /\ UNCHANGED <<seq, seen, remotes, pubs, heard, visited, tasks, wire, gone, early>>

\* setPresence('offline') and the leave envelope, whose failures are ignored.
LeaveAnnounce(p) ==
  /\ life[p].leaveAt = "announce"
  /\ Set(p, [life[p] EXCEPT !.leaveAt = "transport"])
  /\ Emit(p, Peer, "leave", {})
  /\ UNCHANGED <<seen, media, tasks, hist, events>>

\* The tracked handlers are unsubscribed, then transport.leave(), which
\* returns at once in no room and may fail.
LeaveTransport(p) ==
  LET l == life[p] IN
  /\ l.leaveAt = "transport"
  /\ \E ok \in BOOLEAN :
       /\ IF ok THEN UNCHANGED events ELSE Event
       /\ Set(p, [l EXCEPT !.leaveAt = "done", !.attached = @ - l.tracked,
                    !.tracked = 0, !.bound = @ /\ ~ok,
                    !.timers = @ /\ ~(l.bound /\ ok)])
       /\ wire' = IF ok THEN Unsubscribed(p) ELSE wire
  /\ UNCHANGED <<seq, seen, media, tasks, hist>>

\* The tab dies with all the Room holds; the server's leave for it is built
\* with seq 0.
Wipe(p) ==
  /\ remotes' = [remotes EXCEPT ![p] = {}]
  /\ pubs' = [pubs EXCEPT ![p] = {}]
  /\ peers' = [peers EXCEPT ![p] = {}]
  /\ open' = [open EXCEPT ![p] = [q \in Peer |-> 0]]
  /\ sent' = [sent EXCEPT ![p] = None]
  /\ heard' = [heard EXCEPT ![p] = None]
  /\ visited' = [visited EXCEPT ![p] = [t \in Track |-> {}]]
  /\ tasks' = [tasks EXCEPT ![p] = {}]
  /\ seen' = [seen EXCEPT ![p] = [k \in Session |-> -1]]
  /\ gone' = [gone EXCEPT ![p] = [q \in Peer |-> 0]]
  /\ seq' = [seq EXCEPT ![p] = 0]

Crash(p) ==
  /\ life[p].bound /\ Event /\ Wipe(p)
  /\ Set(p, [Fresh(life[p].sess) EXCEPT
               !.closed = TRUE, !.leaveAt = "crashed", !.raced = life[p].raced,
               !.told = life[p].told \/ seq[p] > 0])
  /\ wire' = Post(Unsubscribed(p), p, Peer, 0, "leave", {})
  /\ UNCHANGED <<crossed, early>>

\* The app builds the participant's next Room, on a transport of its own.
Reopen(p) ==
  /\ life[p].leaveAt \in {"done", "crashed"} /\ life[p].sess < MaxSess
  /\ life[p].joinAt = "idle" /\ tasks[p] = {} /\ Wipe(p)
  /\ Set(p, [Fresh(life[p].sess + 1) EXCEPT !.told = life[p].told \/ life[p].raced])
  /\ wire' = Unsubscribed(p)
  /\ UNCHANGED <<crossed, early, events>>

-----------------------------------------------------------------------------
(* Peer connections.  A task is one suspended call: `who' it is about,     *)
(* `why' (the envelope's type, or the track being published), where it     *)
(* stands, the tracks it snapshot, those its offer carried, and an id.     *)

Task(q, why, at, got, id) ==
  [who |-> q, why |-> why, at |-> at, tracks |-> {}, got |-> got, id |-> id]

\* The caller of ensurePeer() goes on with the stored connection, which now
\* carries `base': an offer is applied, any other reason makes a new offer.
UsePeer(p, t, w, base) ==
  LET q == t.who
      publishing == t.why \in Track
      now == IF publishing THEN base \cup {t.why} ELSE base
      rest == tasks[p] \ {t}
  IN /\ sent' = [sent EXCEPT ![p][q] = now]
     /\ heard' = IF t.why = "offer" /\ q \in remotes[p]
                  THEN [heard EXCEPT ![p][q] = @ \cup t.got] ELSE heard
     /\ visited' = IF publishing THEN [visited EXCEPT ![p][t.why] = @ \cup {q}]
                    ELSE visited
     /\ tasks' = [tasks EXCEPT ![p] =
                    IF publishing
                    THEN rest \cup {[t EXCEPT !.who = p, !.at = "loop",
                                               !.tracks = {}]}
                    ELSE rest]
     /\ IF t.why = "offer" THEN wire' = w /\ UNCHANGED seq
        ELSE /\ wire' = Post(w, p, {q}, seq[p], "offer", now)
             /\ seq' = [seq EXCEPT ![p] = @ + 1]

\* ensurePeer(): the stored entry; else "Room is closed"; else a shell
\* participant if need be, and the wait for the ICE servers.  `t' replaces
\* `old' among the tasks.
EnsurePeer(p, old, t, w) ==
  LET q == t.who IN
  \/ /\ q \in peers[p]
     /\ UsePeer(p, t, w, sent[p][q])
     /\ UNCHANGED <<remotes, peers, open, crossed>>
  \/ /\ q \notin peers[p]
     /\ LET in == IF life[p].mediaClosed THEN {} ELSE {[t EXCEPT !.at = "ice"]}
        IN tasks' = [tasks EXCEPT ![p] = (@ \ {old}) \cup in]
     /\ wire' = w
     /\ remotes' = IF life[p].mediaClosed THEN remotes
                    ELSE [remotes EXCEPT ![p] = @ \cup {q}]
     /\ crossed' = IF q \in Creating(p) /\ ~life[p].mediaClosed
                    THEN [crossed EXCEPT ![p] = @ \cup {q}] ELSE crossed
     /\ UNCHANGED <<seq, peers, open, sent, heard, visited>>

\* The ICE servers are there: the connection is built with the tracks
\* published by now.
BuildPeer(p, t) ==
  /\ t.at = "ice"
  /\ open' = [open EXCEPT ![p][t.who] = @ + 1]
  /\ tasks' = [tasks EXCEPT ![p] = (@ \ {t}) \cup
                 {[t EXCEPT !.at = "setup", !.tracks = pubs[p]]}]
  /\ UNCHANGED <<life, seq, seen, remotes, pubs, peers, sent, heard, visited,
                 wire, hist, events>>

\* attachTrack and the E2EE set-up are done: the entry is stored, whatever
\* happened to the participant or the transport meanwhile.
StorePeer(p, t) ==
  /\ t.at = "setup"
  /\ peers' = [peers EXCEPT ![p] = @ \cup {t.who}]
  /\ UsePeer(p, t, wire, t.tracks)
  /\ UNCHANGED <<life, seen, remotes, pubs, open, hist, events>>

-----------------------------------------------------------------------------
(* Room.handleEnvelope() on the next envelope from q.                      *)

Pop(q, p) == [wire EXCEPT ![q][p] = Tail(@)]

Accepts(p, q) ==
  /\ wire[q][p] # <<>> /\ life[p].attached > 0
  /\ Head(wire[q][p]).seq > seen[p][<<q, Head(wire[q][p]).sess>>]

Accept(p, q, type) ==
  LET m == Head(wire[q][p]) IN
  /\ Accepts(p, q) /\ m.type = type
  /\ seen' = [seen EXCEPT ![p][<<q, m.sess>>] = m.seq]
  /\ UNCHANGED <<life, pubs, events>>

Refuse(p, q) ==
  /\ wire[q][p] # <<>> /\ ~Accepts(p, q)
  /\ wire' = Pop(q, p)
  /\ UNCHANGED <<life, seq, seen, media, tasks, hist, events>>

\* handleRemoteJoin: a known participant is updated; a new one is added,
\* answered with a join of our own, and the handler waits for that emit.
RemoteJoin(p, q) ==
  LET m == Head(wire[q][p]) IN
  /\ Accept(p, q, "join")
  /\ IF q \in remotes[p]
     THEN wire' = Pop(q, p) /\ UNCHANGED <<seq, remotes, tasks, crossed>>
     ELSE /\ remotes' = [remotes EXCEPT ![p] = @ \cup {q}]
          /\ wire' = Post(Pop(q, p), p, {q}, seq[p], "join", {})
          /\ seq' = [seq EXCEPT ![p] = @ + 1]
          /\ tasks' = [tasks EXCEPT ![p] = @ \cup
                         {Task(q, "join", "reply", {}, <<m.sess, m.seq>>)}]
          /\ crossed' = IF life[p].closed
                         THEN [crossed EXCEPT ![p] = @ \cup {q}] ELSE crossed
  /\ UNCHANGED <<peers, open, sent, heard, visited, gone, early>>

\* Faulty variant: the newcomer is not called.
NoCall(p, t) ==
  /\ t.at = "reply"
  /\ tasks' = [tasks EXCEPT ![p] = @ \ {t}]
  /\ UNCHANGED <<life, seq, seen, media, wire, hist, events>>

\* The reply is out: with local tracks the newcomer is called.
CallNewcomer(p, t) ==
  /\ t.at = "reply"
  /\ IF pubs[p] = {}
     THEN /\ tasks' = [tasks EXCEPT ![p] = @ \ {t}]
          /\ UNCHANGED <<seq, remotes, peers, open, sent, heard, visited, wire,
                         crossed>>
     ELSE EnsurePeer(p, t, t, wire)
  /\ UNCHANGED <<life, seen, pubs, gone, early, events>>

\* Faulty variant: the mesh forgets the peer, the room keeps the participant.
RemoteLeaveHalf(p, q) ==
  /\ Accept(p, q, "leave")
  /\ wire' = Pop(q, p)
  /\ peers' = [peers EXCEPT ![p] = @ \ {q}]
  /\ open' = IF q \in peers[p] THEN [open EXCEPT ![p][q] = @ - 1] ELSE open
  /\ gone' = [gone EXCEPT ![p][q] = Head(wire[q][p]).sess]
  /\ UNCHANGED <<seq, remotes, sent, heard, visited, tasks, crossed, early>>

\* handleRemoteLeave in room and mesh.
RemoteLeave(p, q) ==
  /\ Accept(p, q, "leave")
  /\ wire' = Pop(q, p)
  /\ remotes' = [remotes EXCEPT ![p] = @ \ {q}]
  /\ heard' = [heard EXCEPT ![p][q] = {}]
  /\ peers' = [peers EXCEPT ![p] = @ \ {q}]
  /\ open' = IF q \in peers[p] THEN [open EXCEPT ![p][q] = @ - 1] ELSE open
  /\ sent' = [sent EXCEPT ![p][q] = {}]
  /\ visited' = [visited EXCEPT ![p] = [t \in Track |-> @[t] \ {q}]]
  /\ gone' = [gone EXCEPT ![p][q] = Head(wire[q][p]).sess]
  /\ crossed' = IF \E t \in tasks[p] : t.who = q
                 THEN [crossed EXCEPT ![p] = @ \cup {q}] ELSE crossed
  /\ UNCHANGED <<seq, tasks, early>>

\* An offer goes to its peer, which is created if it is not there.
RemoteOffer(p, q) ==
  LET m == Head(wire[q][p])
      t == Task(q, "offer", "ice", m.tracks, <<m.sess, m.seq>>)
  IN /\ Accept(p, q, "offer")
     /\ EnsurePeer(p, t, t, Pop(q, p))
     /\ early' = IF q \in remotes[p] THEN early ELSE [early EXCEPT ![p] = @ \cup {q}]
     /\ UNCHANGED gone

-----------------------------------------------------------------------------
(* Room.publish() and unpublish().                                         *)

Publish(p, t) ==
  /\ Event /\ ~life[p].closed /\ t \notin pubs[p]
  /\ ~\E u \in tasks[p] : u.why = t
  /\ tasks' = [tasks EXCEPT ![p] = @ \cup {Task(p, t, "loop", {}, <<0, 0>>)}]
  /\ UNCHANGED <<life, seq, seen, media, wire, hist>>

\* The loop over Map.keys() also meets the ids added while it waits.
PublishNext(p, t) ==
  /\ t.at = "loop"
  /\ \E q \in remotes[p] \ visited[p][t.why] :
       EnsurePeer(p, t, [t EXCEPT !.who = q], wire)
  /\ UNCHANGED <<life, seen, pubs, gone, early, events>>

PublishDone(p, t) ==
  /\ t.at = "loop" /\ remotes[p] \subseteq visited[p][t.why]
  /\ pubs' = [pubs EXCEPT ![p] = @ \cup {t.why}]
  /\ visited' = [visited EXCEPT ![p][t.why] = {}]
  /\ tasks' = [tasks EXCEPT ![p] = @ \ {t}]
  /\ UNCHANGED <<life, seq, seen, remotes, peers, open, sent, heard, wire, hist,
                 events>>

\* Faulty variant: the sender is not removed.
UnpublishQuiet(p, t) ==
  /\ t \in pubs[p] /\ Event
  /\ pubs' = [pubs EXCEPT ![p] = @ \ {t}]
  /\ crossed' = [crossed EXCEPT ![p] = @ \cup Creating(p)]
  /\ UNCHANGED <<life, seq, seen, remotes, peers, open, sent, heard, visited,
                 tasks, wire, gone, early>>

\* Every stored connection drops the track and is negotiated again; one still
\* being set up is not reached.
Unpublish(p, t) ==
  /\ t \in pubs[p] /\ Event
  /\ pubs' = [pubs EXCEPT ![p] = @ \ {t}]
  /\ sent' = [sent EXCEPT ![p] = [q \in Peer |-> @[q] \ {t}]]
  /\ wire' = Post(wire, p, peers[p], seq[p], "offer", pubs[p] \ {t})
  /\ seq' = [seq EXCEPT ![p] = @ + 1]
  /\ crossed' = [crossed EXCEPT ![p] = @ \cup Creating(p)]
  /\ UNCHANGED <<life, seen, remotes, peers, open, heard, visited, tasks, gone, early>>

-----------------------------------------------------------------------------
Resume(p) ==
  \E t \in tasks[p] :
    \/ CallNewcomer(p, t) \/ BuildPeer(p, t) \/ StorePeer(p, t)
    \/ PublishNext(p, t) \/ PublishDone(p, t)

Receive(p, q) ==
  Refuse(p, q) \/ RemoteJoin(p, q) \/ RemoteLeave(p, q) \/ RemoteOffer(p, q)

Proceed(p) ==
  \/ JoinTransport(p) \/ JoinAnnounce(p) \/ JoinDone(p) \/ Rollback(p)
  \/ LeaveAnnounce(p) \/ LeaveTransport(p)

Next ==
  \E p \in Peer :
    \/ Join(p) \/ JoinFail(p) \/ Leave(p) \/ Crash(p) \/ Reopen(p)
    \/ Proceed(p) \/ Resume(p)
    \/ \E q \in Peer \ {p} : Receive(p, q)
    \/ \E t \in Track : Publish(p, t) \/ Unpublish(p, t)

Spec == Init /\ [][Next]_vars

-----------------------------------------------------------------------------
(* Properties.                                                             *)

TypeOK ==
  /\ \A p \in Peer :
       /\ life[p].sess \in 1 .. MaxSess /\ life[p].tries \in 0 .. MaxTries
       /\ life[p].joinAt \in {"idle", "transport", "presence", "announce",
                              "rollback"}
       /\ life[p].leaveAt \in {"none", "announce", "transport", "done",
                               "crashed"}
       /\ life[p].attached \in 0 .. MaxTries
       /\ life[p].tracked \in 0 .. life[p].attached
       /\ remotes[p] \subseteq Peer \ {p} /\ peers[p] \subseteq Peer \ {p}
       /\ pubs[p] \subseteq Track /\ \A q \in Peer : open[p][q] \in Nat
       /\ \A t \in tasks[p] : t.why \in {"join", "offer"} \cup Track

\* A peer nothing crossed while ensurePeer() waited (a second ensurePeer, a
\* leave, close(), an unpublish) is exact: one connection iff one is stored,
\* only for a participant of the roster, carrying exactly what is published or
\* already added by a publish() under way.
PeersExact ==
  \A p \in Peer : \A q \in Peer \ (crossed[p] \cup Creating(p)) :
    /\ open[p][q] = IF q \in peers[p] THEN 1 ELSE 0
    /\ q \in peers[p] =>
         /\ q \in remotes[p]
         /\ sent[p][q] = pubs[p] \cup {t \in Track : q \in visited[p][t]}

\* Who has left stays out of the roster, unless the leave was handled while a
\* handler about it was suspended, or it left in the middle of its own join or
\* went on answering while it left.
NoGhost ==
  \A p, q \in Peer :
    q \in remotes[p] /\ gone[p][q] = life[q].sess
      => q \in crossed[p] \/ p \in crossed[q] \/ life[q].raced

\* After leave() nothing of the Room is left running or registered, except the
\* handlers of failed join attempts and what a join still under way starts.
LeaveIsFinal ==
  \A p \in Peer :
    life[p].leaveAt = "done" /\ ~life[p].raced
      => /\ ~life[p].sampling
         /\ life[p].attached = life[p].failed /\ life[p].tracked = 0
         /\ life[p].timers => life[p].bound

\* A leave is the end of it, here and with everybody else: nothing goes on, nobody shows him.
LeaveHolds == NoGhost /\ LeaveIsFinal

\* A call at rest: nothing in flight, nobody in the middle of a call.
Settled(p) == life[p].joined /\ ~life[p].closed

AtRest ==
  \A p \in Peer :
    /\ life[p].joinAt = "idle" /\ life[p].leaveAt \in {"none", "done", "crashed"}
    /\ tasks[p] = {} /\ \A q \in Peer : wire[p][q] = <<>>

\* What leaves p and q apart: an earlier session or attempt of p announced
\* itself and vanished without a leave envelope, a leave crossed a handler of p,
\* or an offer of q to an earlier session of p met this one before q's join.
Missed(p, q) == life[p].told \/ q \in crossed[p] \/ q \in early[p]

\* The code's exact promise: so they do, unless they missed each other.
RosterAtRest ==
  AtRest => \A p, q \in Peer :
              p # q /\ Settled(p) /\ Settled(q)
                => q \in remotes[p] \/ Missed(p, q) \/ Missed(q, p)

\* ... and whatever one publishes the other has received, whoever came first
\* and whichever joins, publishes and offers overlapped.
MediaAtRest ==
  AtRest => \A p, q \in Peer :
              p # q /\ Settled(p) /\ Settled(q)
                => pubs[p] \subseteq heard[q][p] \/ Missed(p, q) \/ Missed(q, p)

\* At rest, Rooms that joined at the same time, or in the middle of each other's calls, list
\* one another and receive one another's tracks.
CallAtRest == RosterAtRest /\ MediaAtRest
=============================================================================
