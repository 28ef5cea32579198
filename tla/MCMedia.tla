------------------------------ MODULE MCMedia ------------------------------
(***************************************************************************)
(* TLC instance of what a client's connections carry: E2EE, the session     *)
(* with an SFU, the WHIP publisher, the data channels, trickled candidates, *)
(* and the fake connection of the tests.  They share no state: every        *)
(* behaviour is of one of them, chosen by `part`.  The variables of E2ee    *)
(* and of SfuSession move in their own part only; v1, v2, ... are those of  *)
(* the others in the order of their declaration, 0 in these two.            *)
(***************************************************************************)
EXTENDS E2ee, SfuSession, TLC

CONSTANTS Part,      \* the parts to check
          None

VARIABLES part,      \* the part this behaviour is of
          v1, v2, v3, v4, v5, v6, v7, v8, v9, v10, v11, v12, v13, v14, v15, v16, v17, v18, v19,
          v20, v21
others == <<v1, v2, v3, v4, v5, v6, v7, v8, v9, v10, v11, v12, v13, v14, v15, v16, v17, v18, v19,
            v20, v21>>

Whip == INSTANCE WhipIngest WITH
  pc <- v1, closed <- v2, senders <- v3, sections <- v4, pending <- v5, carried <- v6, at <- v7,
  last <- v8, offered <- v9, records <- v10, fails <- v11, patching <- v12,
  T <- {"a", "b", "c"}, MaxFails <- 1
Channels == INSTANCE DataChannels WITH
  bus <- v1, adopted <- v2, end <- v3, wired <- v4, wire <- v5, relay <- v6, waiter <- v7,
  sent <- v8, heard <- v9, cut <- v10, MaxSent <- 2
Ice == INSTANCE IceTrickle WITH
  polite <- v1, fires <- v2, signaling <- v3, chain <- v4, making <- v5, ignoreOffer <- v6,
  restarting <- v7, pendingRestart <- v8, pendingCandidates <- v9, inForce <- v10, added <- v11,
  wanted <- v12, offered <- v13, wire <- v14, ours <- v15, gen <- v16, own <- v17, sent <- v18,
  handled <- v19, crossed <- v20, calls <- v21, MaxGen <- 3, MaxCands <- 2, MaxCalls <- 2
Fake == INSTANCE FakePeer WITH
  sig <- v1, conn <- v2, made <- v3, senders <- v4, receivers <- v5, live <- v6, needed <- v7,
  timer <- v8, micro <- v9, chan <- v10, fired <- v11, owed <- v12, unsent <- v13,
  swapped <- v14, shut <- v15, early <- v16, ops <- v17, Track <- {"t", "u"}, Chan <- {"c"},
  MaxOps <- 5

\* A variable the part does not use
Off(v) == v = 0

OtherInit ==
  \/ part \in {"e2ee", "session"}
     /\ Off(v1) /\ Off(v2) /\ Off(v3) /\ Off(v4) /\ Off(v5) /\ Off(v6) /\ Off(v7) /\ Off(v8)
     /\ Off(v9) /\ Off(v10) /\ Off(v11) /\ Off(v12) /\ Off(v13) /\ Off(v14) /\ Off(v15)
     /\ Off(v16) /\ Off(v17) /\ Off(v18) /\ Off(v19) /\ Off(v20) /\ Off(v21)
  \/ part = "whip" /\ Whip!Init
     /\ Off(v13) /\ Off(v14) /\ Off(v15) /\ Off(v16) /\ Off(v17) /\ Off(v18) /\ Off(v19)
     /\ Off(v20) /\ Off(v21)
  \/ part = "channels" /\ Channels!Init
     /\ Off(v11) /\ Off(v12) /\ Off(v13) /\ Off(v14) /\ Off(v15) /\ Off(v16) /\ Off(v17)
     /\ Off(v18) /\ Off(v19) /\ Off(v20) /\ Off(v21)
  \/ part = "ice" /\ Ice!Init
  \/ part = "fake" /\ Fake!Init
     /\ Off(v18) /\ Off(v19) /\ Off(v20) /\ Off(v21)
PartsInit ==
  /\ part \in Part /\ OtherInit
  /\ Init /\ (part # "e2ee" => processor)
  /\ SessionInit /\ (part # "session" => ~auto)

OtherNext ==
  \/ part = "whip" /\ Whip!Next /\ UNCHANGED <<v13, v14, v15, v16, v17, v18, v19, v20, v21>>
  \/ part = "channels" /\ Channels!Next /\ UNCHANGED <<v11, v12, v13, v14, v15, v16, v17, v18, v19, v20, v21>>
  \/ part = "ice" /\ Ice!Next
  \/ part = "fake" /\ Fake!Next /\ UNCHANGED <<v18, v19, v20, v21>>

PartsNext ==
  /\ UNCHANGED part
  /\ \/ part = "e2ee" /\ Next /\ UNCHANGED <<sessionVars, others>>
     \/ part = "session" /\ SessionNext /\ UNCHANGED <<vars, others>>
     \/ OtherNext /\ UNCHANGED <<vars, sessionVars>>

PartsSpec == PartsInit /\ [][PartsNext]_<<part, vars, sessionVars, others>>

-----------------------------------------------------------------------------
MediaSymmetry == Permutations(Track)
MediaBound == SmallSecondSwitch

\* The gateway keeps one session of a participant, and neither the room's map nor the router
\* offers what no session produces.
SessionsOwned == OneSession /\ NothingOutlives

\* Candidates reach the description they belong to and a restart asked for is offered; a track
\* whose WHIP publish() resolved is carried by the connection.
NegotiationComplete ==
  /\ part = "ice" => Ice!CandidatesInForce /\ Ice!RestartOffered
  /\ part = "whip" => Whip!PublishedIsCarried

\* A message over the bus is heard once, and open() waits for no open channel; the fake
\* connection fires its events once and leaves both ends of a channel in one state.
EndsAgree ==
  /\ part = "channels" => Channels!HeardOnce /\ Channels!WaitsForOpen
  /\ part = "fake" => Fake!TracksTold /\ Fake!NothingOwed /\ Fake!ChannelsAgree
=============================================================================
