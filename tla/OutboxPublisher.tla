--------------------------- MODULE OutboxPublisher ---------------------------
(***************************************************************************)
(* outbox.py: each API process (and the standalone publisher) polls the    *)
(* rows with published_at null and sends them to Redis, at least once.     *)
(* The list is read without a lock, so two publishers can send the same    *)
(* row; a failed row stays for a later poll.                               *)
(***************************************************************************)
EXTENDS Store

CONSTANTS
  Publishers,  \* running copies of run_outbox_publisher
  BatchLimit   \* publish_pending_events(limit=...)

ASSUME BatchAssumption == BatchLimit \in Nat \ {0}

VARIABLE publishers  \* what each has still to publish of its list

PublisherState == [batch : SUBSET Nat, phase : {"send", "announce", "mark"}]

PublisherInit ==
  publishers = [p \in Publishers |-> [batch |-> {}, phase |-> "send"]]

Busy(p)    == publishers[p].batch # {}
Current(p) == Min(publishers[p].batch)

Phase(p, phase) ==
  /\ Busy(p)
  /\ publishers[p].phase = phase

GoTo(p, phase) == publishers' = [publishers EXCEPT ![p].phase = phase]

NextRow(p) ==
  publishers' = [publishers EXCEPT ![p].batch = @ \ {Current(p)},
                                   ![p].phase = "send"]

\* Mutant of Unpublished: polls after the last row that was published.
UnpublishedTail == {i \in DOMAIN outbox : \A j \in published : j < i}

Unpublished == DOMAIN outbox \ published

FetchPending(p) ==
  /\ ~Busy(p)
  /\ Unpublished # {}
  /\ publishers' = [publishers EXCEPT ![p].batch =
       {i \in Unpublished :
          Cardinality({j \in Unpublished : j < i}) < BatchLimit}]
  /\ UNCHANGED storeVars

\* Mutant of BuildPacket: leaves the itinerary version at its default.
BuildPacketWithoutItinerary(turn, cv, pref) ==
  [turn |-> turn, cv |-> cv, pref |-> pref, itin |-> 0]

\* The packet of a turn is built when the event is sent, not when the turn
\* was stored: its itinerary version is the one confirmed now.
BuildPacket(turn, cv, pref) ==
  [turn |-> turn, cv |-> cv, pref |-> pref, itin |-> ConfirmedItinerary]

\* Mutant of Routed: task.queued reaches no stream of its own.
RoutedWithoutTasks(e) == e.type \in {"turn.finalized", "task.succeeded"}

Routed(e) == e.type \in {"turn.finalized", "task.queued", "task.succeeded"}

Route(p) ==
  LET e == outbox[Current(p)]
  IN /\ Phase(p, "send")
     /\ Routed(e)
     /\ CASE e.type = "turn.finalized" ->
               XAdd("plan", BuildPacket(e.turn, e.cv, e.pref))
          [] e.type = "task.queued"    -> XAdd("tasks", Head(e.ref))
          [] e.type = "task.succeeded" ->
               XAdd("compose", [turn |-> e.turn, cv |-> e.cv,
                                pref |-> 0, itin |-> 0])
     /\ GoTo(p, "announce")
     /\ UNCHANGED <<dbVars, published, delivered, announced, cancelKeys,
                    faults>>

Announce(p) ==
  /\ \/ Phase(p, "announce")
     \/ Phase(p, "send") /\ ~Routed(outbox[Current(p)])
  /\ announced' = announced \cup {Current(p)}
  /\ GoTo(p, "mark")
  /\ UNCHANGED <<dbVars, published, stream, delivered, cancelKeys, faults>>

MarkPublished(p) ==
  /\ Phase(p, "mark")
  /\ published' = published \cup {Current(p)}
  /\ NextRow(p)
  /\ UNCHANGED <<dbVars, redisVars, faults>>

\* Mutant of PublishFails: the row is marked although the send failed.
PublishFailsMarked(p) ==
  /\ Busy(p)
  /\ Fault
  /\ NextRow(p)
  /\ published' = published \cup {Current(p)}
  /\ UNCHANGED <<dbVars, redisVars>>

\* Redis or PostgreSQL refuses a call: the row is skipped, still unpublished.
PublishFails(p) ==
  /\ Busy(p)
  /\ Fault
  /\ NextRow(p)
  /\ UNCHANGED <<dbVars, published, redisVars>>

PublisherCrash(p) ==
  /\ Busy(p)
  /\ Fault
  /\ publishers' = [publishers EXCEPT ![p].batch = {}, ![p].phase = "send"]
  /\ UNCHANGED <<dbVars, published, redisVars>>

PublisherStep(p) ==
  \/ FetchPending(p)
  \/ Route(p)
  \/ Announce(p)
  \/ MarkPublished(p)
=============================================================================
