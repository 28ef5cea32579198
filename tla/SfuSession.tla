----------------------------- MODULE SfuSession -----------------------------
(***************************************************************************)
(* One participant's way to an SFU: the SfuMediaTransports its Room makes  *)
(* (packages/core/src/media/sfu-transport.ts, topology.ts and room.ts      *)
(* switchMediaTransport), and on the other side MediasoupAdapter and       *)
(* SfuRouter (packages/sfu-gateway).                                       *)
(*                                                                         *)
(* Transports are numbered; number k joins the gateway once, so k is also  *)
(* its session.  Every offer reaches the session twice, directly and as an *)
(* envelope through the router, which is what sfu-transport.ts does.  The  *)
(* browser and mediasoup are external: negotiationneeded fires in stable,  *)
(* produce() on a closed transport rejects.  All tracks are of one kind,   *)
(* so that any offer has the m-line any pending track waits for.           *)
(***************************************************************************)
EXTENDS Integers, FiniteSets

CONSTANTS
  Track,       \* local tracks
  MaxT,        \* bound: SfuMediaTransports the Room makes
  MaxEvents    \* bound: sfu envelopes and leaves

ASSUME SessionAssumption == MaxT \in Nat \ {0}

VARIABLES
  auto,      \* TopologyConfig.topology is 'auto', else 'sfu'
  media,     \* Room.media: 0 for the mesh, else a transport
  made,      \* transports made so far
  left,      \* Room.leave() was called
  local,     \* published tracks the Room lists
  tr,        \* the transports
  ss,        \* their gateway sessions
  current,   \* MediasoupAdapter.sessions: the session of this participant
  byRoom,    \* MediasoupAdapter.producersByRoom, as <<track, session>>
  pubs,      \* publish() calls under way
  offers,    \* handleOffer() calls under way
  answers,   \* whether an answer is on its way, per session
  router,    \* SfuRouter.sessions and tracks
  history,   \* what the exceptions of the properties refer to
  events

client == <<auto, media, made, left, local, tr, pubs>>
server == <<ss, current, byRoom, offers, answers, router>>
sessionVars == <<client, server, history, events>>

T == 1 .. MaxT

\* A transport before init(); `at' is where init() stands.
NewTransport ==
  [at |-> "none", live |-> FALSE, closed |-> FALSE, onPc |-> {}, sig |-> "stable",
   offered |-> {}, needed |-> "no", neg |-> "idle", todo |-> {}, waiting |-> {}]

NewSession == [open |-> FALSE, pending |-> {}, producers |-> [t \in Track |-> 0]]

SessionInit ==
  /\ auto \in BOOLEAN
  /\ media = IF auto THEN 0 ELSE 1
  /\ made = IF auto THEN 0 ELSE 1
  /\ left = FALSE /\ local = {}
  /\ tr = [k \in T |-> IF k <= made THEN [NewTransport EXCEPT !.at = "joining"]
                       ELSE NewTransport]
  /\ ss = [k \in T |-> NewSession]
  /\ current = 0 /\ byRoom = {} /\ pubs = {} /\ offers = {}
  /\ answers = [k \in T |-> FALSE]
  /\ router = [session |-> 0, tracks |-> {}]
  /\ history = [orphaned |-> {}, unheard |-> {}, twice |-> {}]
  /\ events = 0

Event == events < MaxEvents /\ events' = events + 1

Set(k, new) == tr' = [tr EXCEPT ![k] = new]

-----------------------------------------------------------------------------
(* Topology.                                                               *)

\* The transport is still the mesh, a closed one while a switch is under way.
OnMesh == media = 0

\* maybeMigrate() on participant-joined, beyond the threshold: the mesh closes
\* and a new transport calls gateway.join().  A switch under way is not seen.
Migrate ==
  /\ auto /\ OnMesh /\ ~left /\ made < MaxT
  /\ made' = made + 1
  /\ Set(made + 1, [tr[made + 1] EXCEPT
                      !.at = IF current # 0 THEN "failed" ELSE "joining"])
  /\ history' = [history EXCEPT !.orphaned =
                   IF made > 0 THEN @ \cup 1 .. made + 1 ELSE @]
  /\ UNCHANGED <<auto, media, left, local, pubs, server, events>>

\* Faulty variant: what waited for the session is not published.
StartIgnoring(k) ==
  [tr[k] EXCEPT !.at = "local", !.live = TRUE, !.todo = {}]

\* init() goes on: publish what the Room lists.
Start(k) == [tr[k] EXCEPT !.at = "local", !.live = TRUE, !.todo = local]

\* createWebRtcTransport() answered: the session is stored, over another one if
\* two joins overlapped, and perhaps registered with a router; init() goes on
\* although close() may have been called.
Joined(k) ==
  /\ tr[k].at = "joining"
  /\ Set(k, Start(k))
  /\ ss' = [ss EXCEPT ![k].open = TRUE]
  /\ current' = k
  /\ router' \in {router, [router EXCEPT !.session = k]}
  /\ UNCHANGED <<auto, media, made, left, local, pubs, byRoom, offers, answers,
                 history, events>>

\* addTrack(): in stable the browser queues negotiationneeded.
AddTrack(k, t) ==
  [tr[k] EXCEPT !.onPc = @ \cup {t},
                !.needed = IF tr[k].sig = "stable" /\ @ = "no" THEN "queued" ELSE @]

\* init() publishes one track after the other: first the listed ones, then
\* those that were published before there was a session.  The two overlap: a
\* track that is on the connection already makes addTrack throw.
InitStep(k) ==
  /\ tr[k].at \in {"local", "waiting"} /\ ~\E u \in pubs : u.k = k /\ u.init
  /\ \/ \E t \in tr[k].todo :
          IF tr[k].closed \/ t \in tr[k].onPc
          THEN Set(k, [tr[k] EXCEPT !.at = "failed"]) /\ UNCHANGED <<media, pubs>>
          ELSE /\ Set(k, [AddTrack(k, t) EXCEPT !.todo = @ \ {t}])
               /\ pubs' = pubs \cup {[k |-> k, t |-> t, at |-> "announce", init |-> TRUE]}
               /\ UNCHANGED media
     \/ /\ tr[k].todo = {} /\ tr[k].at = "local"
        /\ Set(k, [tr[k] EXCEPT !.at = "waiting", !.todo = tr[k].waiting, !.waiting = {}])
        /\ UNCHANGED <<media, pubs>>
     \/ /\ tr[k].todo = {} /\ tr[k].at = "waiting"
        /\ Set(k, [tr[k] EXCEPT !.at = "ready"])
        /\ media' = IF auto THEN k ELSE media
        /\ UNCHANGED pubs
  /\ UNCHANGED <<auto, made, left, local, server, history, events>>

-----------------------------------------------------------------------------
(* Publishing and negotiating.                                             *)

\* Room.publish(): on the mesh it is the mesh's business; a transport without
\* a session remembers the track and says it is published.
Publish(t) ==
  /\ ~left /\ t \notin local /\ ~\E u \in pubs : u.t = t
  /\ IF media = 0
     THEN /\ made = 0
          /\ local' = local \cup {t} /\ UNCHANGED <<tr, pubs>>
     ELSE /\ ~tr[media].closed /\ t \notin tr[media].onPc
          /\ IF ~tr[media].live
             THEN /\ local' = local \cup {t} /\ UNCHANGED pubs
                  /\ Set(media, [tr[media] EXCEPT !.waiting = @ \cup {t}])
             ELSE /\ Set(media, AddTrack(media, t))
                  /\ pubs' = pubs \cup {[k |-> media, t |-> t, at |-> "announce",
                                         init |-> FALSE]}
                  /\ UNCHANGED local
  /\ UNCHANGED <<auto, media, made, left, server, history, events>>

\* negotiate() does nothing while one is in flight.
Negotiates(k) == tr[k].neg = "idle" /\ tr[k].live

\* sender.setParameters(), awaited for simulcast and svc, is back: the session
\* learns of the track, and negotiate().  An offer in flight that has the track
\* already may have come too early for that.
Announced(u) ==
  /\ u.at = "announce"
  /\ ss' = [ss EXCEPT ![u.k].pending =
              IF ss[u.k].producers[u.t] = 0 THEN @ \cup {u.t} ELSE @]
  /\ LET starts == Negotiates(u.k) IN
     /\ Set(u.k, IF starts THEN [tr[u.k] EXCEPT !.neg = "creating"] ELSE tr[u.k])
     /\ pubs' = (pubs \ {u}) \cup IF starts THEN {[u EXCEPT !.at = "negotiate"]} ELSE {}
     /\ local' = IF starts \/ u.init THEN local ELSE local \cup {u.t}
  /\ history' = IF tr[u.k].neg = "handling" /\ u.t \in tr[u.k].offered
                THEN [history EXCEPT !.unheard = @ \cup {u.k}] ELSE history
  /\ UNCHANGED <<auto, media, made, left, current, byRoom, offers, answers, router, events>>

\* publish() returns: to the Room, which lists the track, or to init().
Published(u) ==
  /\ u.at = "negotiate" /\ tr[u.k].neg = "idle"
  /\ pubs' = pubs \ {u}
  /\ local' = IF u.init THEN local ELSE local \cup {u.t}
  /\ UNCHANGED <<auto, media, made, left, tr, server, history, events>>

\* The browser fires negotiationneeded, not while createOffer() is on its
\* operations chain; while handleOffer() is awaited the handler drops it.
Needed(k) ==
  /\ tr[k].needed = "queued" /\ tr[k].sig = "stable" /\ tr[k].live /\ tr[k].neg # "creating"
  /\ Set(k, [tr[k] EXCEPT !.needed = "fired",
               !.neg = IF Negotiates(k) THEN "creating" ELSE @])
  /\ history' = IF Negotiates(k) THEN history
                ELSE [history EXCEPT !.unheard = @ \cup {k}]
  /\ UNCHANGED <<auto, media, made, left, local, pubs, server, events>>

\* The offer is made and goes out twice: as an envelope, which the router hands
\* to the registered session, and to the session itself.
Offer(k) ==
  /\ tr[k].neg = "creating"
  /\ IF ~tr[k].live
     THEN Set(k, [tr[k] EXCEPT !.neg = "idle"]) /\ UNCHANGED <<offers, history>>
     ELSE /\ Set(k, [tr[k] EXCEPT !.neg = "handling", !.sig = "have-local-offer",
                                  !.offered = tr[k].onPc, !.needed = "no"])
          /\ offers' = offers \cup {[k |-> k, via |-> "client", at |-> "start", rest |-> {}]}
               \cup IF router.session # 0
                    THEN {[k |-> router.session, via |-> "router", at |-> "start",
                           rest |-> {}]} ELSE {}
          /\ history' = IF router.session # 0 \/ \E o \in offers : o.k = k
                        THEN [history EXCEPT !.twice = @ \cup {k, router.session}]
                        ELSE history
  /\ UNCHANGED <<auto, media, made, left, local, pubs, ss, current, byRoom, answers,
                 router, events>>

\* The Room hands the answer to its transport: one that comes before the Room
\* has switched is lost.  It sets the connection stable, and tracks added since
\* the offer make it need another one; in stable an answer is an error.
Answer(k) ==
  /\ answers[k] /\ answers' = [answers EXCEPT ![k] = FALSE]
  /\ IF media = k /\ tr[k].live /\ tr[k].sig = "have-local-offer"
     THEN Set(k, [tr[k] EXCEPT !.sig = "stable",
                    !.needed = IF tr[k].onPc \subseteq tr[k].offered THEN "no" ELSE "queued"])
     ELSE UNCHANGED tr
  /\ history' = IF media # k THEN [history EXCEPT !.unheard = @ \cup {k}] ELSE history
  /\ UNCHANGED <<auto, media, made, left, local, pubs, ss, current, byRoom, offers,
                 router, events>>

\* Faulty variant: close() leaves no session.
LeavesNever(k) == FALSE

\* close() leaves the session it has by now.
Leaves(k) == k # 0 /\ tr[k].live

\* Room.leave(): only the current transport is closed.  The session leaves and
\* the adapter forgets the participant's session and producers, by its name.
Closed(k) == [tr[k] EXCEPT !.closed = TRUE, !.live = FALSE]

EndSession(k) ==
  IF ss[k].open
  THEN /\ ss' = [ss EXCEPT ![k] = NewSession]
       /\ current' = 0 /\ byRoom' = {}
  ELSE UNCHANGED <<ss, current, byRoom>>

Leave ==
  /\ ~left /\ left' = TRUE /\ Event
  /\ IF media = 0 THEN UNCHANGED tr ELSE Set(media, Closed(media))
  /\ IF Leaves(media) THEN EndSession(media) ELSE UNCHANGED <<ss, current, byRoom>>
  /\ history' = [history EXCEPT !.orphaned = @ \cup
                   {k \in T : tr[k].at = "joining" \/ (k # media /\ tr[k].live)}]
  /\ UNCHANGED <<auto, media, made, local, pubs, offers, answers, router>>

-----------------------------------------------------------------------------
(* The gateway.                                                            *)

Finish(o) ==
  tr' = IF o.via = "client" THEN [tr EXCEPT ![o.k].neg = "idle"] ELSE tr

\* handleOffer() after connect(): the pending tracks as they are now.
OfferStarts(o) ==
  /\ o.at = "start"
  /\ offers' = (offers \ {o}) \cup {[o EXCEPT !.at = "producing", !.rest = ss[o.k].pending]}
  /\ UNCHANGED <<client, ss, current, byRoom, answers, router, history, events>>

EnteredAs(t, k) == {e \in byRoom : e[1] # t} \cup {<<t, k>>}

\* produce() answers, or rejects on a closed transport, which ends the call.
Produced(o) ==
  /\ o.at = "producing"
  /\ \E t \in o.rest :
       IF ~ss[o.k].open
       THEN offers' = offers \ {o} /\ Finish(o) /\ UNCHANGED <<ss, byRoom>>
       ELSE /\ ss' = [ss EXCEPT ![o.k].producers[t] = @ + 1, ![o.k].pending = @ \ {t}]
            /\ byRoom' = EnteredAs(t, o.k)
            /\ offers' = (offers \ {o}) \cup {[o EXCEPT !.rest = @ \ {t}]}
            /\ UNCHANGED tr
  /\ UNCHANGED <<auto, media, made, left, local, pubs, current, answers, router, history, events>>

\* Nothing left to produce: the answer goes out.
Answered(o) ==
  /\ o.at = "producing" /\ o.rest = {}
  /\ offers' = offers \ {o} /\ Finish(o)
  /\ answers' = [answers EXCEPT ![o.k] = TRUE]
  /\ UNCHANGED <<auto, media, made, left, local, pubs, ss, current, byRoom, router, history, events>>

\* An sfu envelope reaches an action only with a session registered for its
\* sender; a refusal (not a member, room locked, codec, unknown action) changes
\* nothing.
Registered == router.session # 0

\* A publish action for t: the session learns of it and the router lists it, if
\* the session did not produce it already, which is an error.
RoutePublish(t) ==
  /\ Registered /\ Event
  /\ ss[router.session].producers[t] = 0
  /\ ss' = [ss EXCEPT ![router.session].pending = @ \cup {t}]
  /\ router' = [router EXCEPT !.tracks = @ \cup {t}]
  /\ UNCHANGED <<client, current, byRoom, offers, answers, history>>

Unregister == [session |-> 0, tracks |-> {}]

\* A leave action: the session leaves, then its registration goes.
RouteLeave ==
  /\ Registered /\ Event
  /\ EndSession(router.session)
  /\ router' = Unregister
  /\ UNCHANGED <<client, offers, answers, history>>

-----------------------------------------------------------------------------
SessionNext ==
  \/ Migrate \/ Leave \/ RouteLeave
  \/ \E k \in T : Joined(k) \/ InitStep(k) \/ Needed(k) \/ Offer(k) \/ Answer(k)
  \/ \E t \in Track : Publish(t) \/ RoutePublish(t)
  \/ \E u \in pubs : Announced(u) \/ Published(u)
  \/ \E o \in offers : OfferStarts(o) \/ Produced(o) \/ Answered(o)

SessionSpec == SessionInit /\ [][SessionNext]_sessionVars

\* Bound: two switches that overlap are explored with one event and no track.
SmallSecondSwitch == made = 2 => events < 2 /\ local = {} /\ pubs = {}

-----------------------------------------------------------------------------
(* Properties.                                                             *)

AtRest ==
  /\ pubs = {} /\ offers = {} /\ \A k \in T : ~answers[k]
  /\ \A k \in T : tr[k].at \in {"none", "ready", "failed"} /\ tr[k].neg = "idle"
                  /\ ~(tr[k].live /\ tr[k].needed = "queued" /\ tr[k].sig = "stable")

\* The gateway holds a session of this participant only for the transport its
\* Room uses, and none after leave(), unless two switches overlapped or the
\* Room left while a transport was still joining or not yet its own.
OneSession ==
  \A k \in T \ history.orphaned :
    ss[k].open /\ tr[k].at \in {"ready", "failed"} => k = media /\ ~left

\* At rest every track the Room lists is produced exactly once by its session,
\* unless init() failed, negotiationneeded fired while a negotiation was in
\* flight, or two handleOffer() of the session could overlap.
TracksForwarded ==
  AtRest /\ media # 0 /\ ~left /\ media \notin history.orphaned =>
    \A t \in local :
      \/ ss[media].producers[t] = 1
      \/ ~ss[media].open
      \/ media \in history.unheard \cup history.twice

\* What the room offers to subscribe to is being produced: every entry of the
\* room's map belongs to an open session, and every track the router lists to
\* a registered one, unless a publish action was suspended across the leave.
NothingOutlives ==
  /\ \A e \in byRoom : ss[e[2]].open /\ ss[e[2]].producers[e[1]] > 0
  /\ AtRest => \A k \in T : ss[k].open /\ k = current =>
       \A t \in Track : ss[k].producers[t] > 0 => \E e \in byRoom : e[1] = t
  /\ router.tracks # {} => router.session # 0
=============================================================================
