------------------------------ MODULE WhipIngest ------------------------------
(***************************************************************************)
(* A WhipMediaTransport (packages/core/src/media/whip-transport.ts) and the  *)
(* route that answers it (packages/server/src/http.ts, whipHandler): every   *)
(* publish() renegotiates the one connection by POSTing its offer, every     *)
(* unpublish() by PATCHing it, which no route of the server takes.  Calls    *)
(* overlap: each is cut at its awaits, and answers come back in any order.   *)
(*                                                                          *)
(* The connection is external: it sets the offer it created last, and takes  *)
(* an answer only while an offer is pending and only to one with as many     *)
(* media sections (a sender once added keeps its own).                       *)
(***************************************************************************)
EXTENDS Naturals, FiniteSets

CONSTANTS T,        \* tracks, each published once
          None,
          MaxFails  \* bound on refused or lost requests

VARIABLES pc,       \* the connection: none, open, closed (null again after close())
          closed,
          senders,  \* tracks with a sender
          sections, \* tracks that ever had one: media sections of an offer
          pending,  \* sections of the offer set and not answered, {} if stable
          carried,  \* sections of the last answered offer
          at,       \* of publish(t): idle, offering, posting, answered, published, failed
          last,     \* whose offer was created last
          offered,  \* the sections publish(t) offered
          records,  \* egress records the POSTs left with the server
          fails,
          patching  \* tracks whose unpublish() awaits
vars == <<pc, closed, senders, sections, pending, carried, at, last, offered, records, fails, patching>>
connection == <<pc, senders, sections, pending, carried, last>>

Init ==
  /\ pc = "none" /\ closed = FALSE /\ senders = {} /\ sections = {} /\ pending = {} /\ carried = {}
  /\ at = [t \in T |-> "idle"] /\ last = None /\ offered = [t \in T |-> {}]
  /\ records = 0 /\ fails = 0 /\ patching = {}

Goes(t, where) == at' = [at EXCEPT ![t] = where]

\* publish() up to createOffer, which takes the senders of that moment
publish(t) ==
  /\ at[t] = "idle" /\ ~closed /\ pc' = "open"
  /\ senders' = senders \cup {t} /\ sections' = sections \cup {t}
  /\ offered' = [offered EXCEPT ![t] = sections \cup {t}] /\ Goes(t, "offering")
  /\ last' = t
  /\ UNCHANGED <<closed, pending, carried, records, fails, patching>>

\* setLocalDescription, and the POST of localDescription
Post(t) ==
  /\ at[t] = "offering"
  /\ IF pc = "open" /\ last = t THEN pending' = offered[t] /\ Goes(t, "posting")
                    ELSE UNCHANGED pending /\ Goes(t, "failed")
  /\ UNCHANGED <<pc, closed, senders, sections, carried, last, offered, records, fails, patching>>

\* The route answers and leaves an egress record, or the request fails
whipHandler(t) ==
  /\ at[t] = "posting"
  /\ \/ records' = records + 1 /\ Goes(t, "answered") /\ UNCHANGED fails
     \/ fails < MaxFails /\ fails' = fails + 1 /\ Goes(t, "failed") /\ UNCHANGED records
  /\ UNCHANGED <<connection, closed, offered, patching>>

\* setRemoteDescription: publish() resolves if the connection takes the answer
Takes(sec) == pc = "open" /\ pending # {} /\ Cardinality(pending) = Cardinality(sec)
Answered(t) ==
  /\ at[t] = "answered"
  /\ IF Takes(offered[t]) THEN carried' = pending /\ pending' = {} /\ Goes(t, "published")
                          ELSE Goes(t, "failed") /\ UNCHANGED <<pending, carried>>
  /\ UNCHANGED <<pc, closed, senders, sections, last, offered, records, fails, patching>>

\* unpublish(): the sender goes; the answer to the PATCH is not read, nor its failure
unpublish(t) ==
  /\ at[t] = "published" /\ pc = "open" /\ t \in senders /\ senders' = senders \ {t}
  /\ patching' = patching \cup {t}
  /\ UNCHANGED <<pc, closed, sections, pending, carried, at, last, offered, records, fails>>
Patch(t) ==
  /\ t \in patching /\ patching' = patching \ {t}
  /\ IF pc = "open" THEN pending' = sections /\ last' = None ELSE UNCHANGED <<pending, last>>
  /\ UNCHANGED <<pc, closed, senders, sections, carried, at, offered, records, fails>>

close ==
  /\ ~closed /\ closed' = TRUE /\ pc' = "closed"
  /\ UNCHANGED <<senders, sections, pending, carried, at, last, offered, records, fails, patching>>

Next == \/ \E t \in T : publish(t) \/ Post(t) \/ whipHandler(t) \/ Answered(t) \/ unpublish(t) \/ Patch(t)
        \/ close
Spec == Init /\ [][Next]_vars

-----------------------------------------------------------------------------
\* A track whose publish() resolved is in an offer the connection has an answer to, however
\* calls overlap, answers cross, and other publish() calls fail (72-101).
PublishedIsCarried == \A t \in T : at[t] = "published" => t \in carried
=============================================================================
