------------------------- MODULE LivePilotProperties -------------------------
(***************************************************************************)
(* What the backend promises.                                              *)
(***************************************************************************)
EXTENDS LivePilot

IsContext(i) == outbox[i].type \in ContextEvents
IsWork(i)    == outbox[i].type \in WorkEvents

-----------------------------------------------------------------------------
(* The event log.                                                          *)

\* The session's event_seq numbers its events without gaps or repetition and
\* in commit order, whichever process wrote them: a client that asks for the
\* events after N misses none (every writer locks the session row first).
LogGapFree ==
  /\ session.seq = Len(outbox)
  /\ \A i \in DOMAIN outbox : outbox[i].seq = i

\* No two events carry one dedupe_key: outside the gateway's own unique
\* violation, no transaction ever hits the constraint and is rolled back.
LogKeysUnique ==
  \A i, j \in DOMAIN outbox :
    outbox[i].type = outbox[j].type /\ outbox[i].ref = outbox[j].ref => i = j

\* Each context version was made by exactly one turn, preference update or
\* interrupt, and the log holds them in order: no two writers ever got one
\* version and none was skipped.
ContextAuthored ==
  /\ \A i \in DOMAIN outbox : IsContext(i) => outbox[i].cv \in 1..session.cv
  /\ \A c \in 1..session.cv :
       \E i \in DOMAIN outbox : IsContext(i) /\ outbox[i].cv = c
  /\ \A i, j \in DOMAIN outbox :
       IsContext(i) /\ IsContext(j) /\ i < j => outbox[i].cv < outbox[j].cv

\* Once a newer context is in the log, nothing of an older one follows it: no
\* task is queued, no result accepted, no itinerary confirmed and no reply
\* given for a turn that was interrupted or overtaken meanwhile.
StaleWorkSilent ==
  \A i, j \in DOMAIN outbox :
    IsContext(i) /\ IsWork(j) /\ i < j => outbox[i].cv <= outbox[j].cv

EntryKind(type) ==
  IF type \in ContextEvents THEN "context"
  ELSE IF type \in WorkEvents THEN "work" ELSE "quiet"

LogEntry(e) == [seq |-> e.seq, kind |-> EntryKind(e.type), cv |-> e.cv]

Log == INSTANCE EventLog WITH
         log <- [i \in DOMAIN outbox |-> LogEntry(outbox[i])],
         context <- session.cv

\* Gateways, publishers, planners, composers and workers together are one log:
\* each of their transactions is one step of it, which no other transaction
\* can fall into, and none reports work in a version that has passed.
ImplementsEventLog == Log!Spec

-----------------------------------------------------------------------------
(* Requests.                                                               *)

\* Requests with one client_event_id that succeed get one answer, however
\* they interleave, and it is an event of the log.
IdempotentAnswers ==
  \A q, r \in Requests :
    /\ Kind[q] = Kind[r] /\ ClientId[q] = ClientId[r]
    /\ requests[q].outcome = "ok" /\ requests[r].outcome = "ok"
    => /\ requests[q].seq = requests[r].seq
       /\ requests[q].seq \in DOMAIN outbox
       /\ outbox[requests[q].seq].type = Committed(q)

\* A preference patch that was accepted is part of the active preferences for
\* ever: concurrent updates do not lose each other's patch.
NoLostPatch ==
  \A r \in Requests :
    Kind[r] = "preference" /\ requests[r].outcome = "ok"
      => ClientId[r] \in prefs[ActivePref]

-----------------------------------------------------------------------------
(* Planning, execution, composition.                                       *)

\* A composed itinerary rests on results: all its source tasks belong to the
\* one user turn of its context, ran with its preference version against the
\* version it replaced, and they and their tool calls stay succeeded.
ItineraryProvenance ==
  \A v \in DOMAIN itins : \A t \in itins[v].sources :
    /\ t \in DOMAIN tasks
    /\ turns[tasks[t].turn].cv = itins[v].cv
    /\ tasks[t].cv = itins[v].cv
    /\ tasks[t].pref = itins[v].pref
    /\ tasks[t].itin = v - 1
    /\ tasks[t].status = "succeeded" /\ tasks[t].tool = "succeeded"

\* A user turn gets at most one reply and one itinerary, also when its events,
\* its plan or its task are delivered twice.
OneReplyPerTurn ==
  \A m, n \in DOMAIN turns :
    turns[m].kind = "agent_reply" =>
      /\ turns[n].kind = "agent_reply" /\ turns[n].parent = turns[m].parent
           => m = n
      /\ Cardinality({v \in DOMAIN itins : /\ itins[v].cv = turns[m].cv
                                           /\ itins[v].sources # {}}) = 1

Executing(w) ==
  workers[w].pc \in {"check", "load_mark", "mark", "execute", "load_commit",
                     "commit", "load_fail", "fail"}

\* Two workers never execute one task, though both can be given a message for
\* it and both can have loaded it as queued.
OneExecutor ==
  \A v, w \in Workers :
    Executing(v) /\ Executing(w) /\ workers[v].task = workers[w].task => v = w

\* A result that was accepted stays accepted (as long as nobody else edits
\* itineraries): composition finds the itinerary its tasks were planned on.
SucceededIsFinal ==
  [][\A t \in DOMAIN tasks :
       tasks[t].status = "succeeded" => tasks'[t].status = "succeeded"]_tasks

Run == INSTANCE ToolRun WITH
         calls <- [t \in DOMAIN tasks |-> tasks[t].tool],
         accepted <- {t \in DOMAIN tasks : tasks[t].status = "succeeded"}

\* The workers together run each tool call at most once and write its outcome
\* once, whatever happens to the task's own status: start, cancellation and
\* commit of several workers overwrite that, crash and are repeated.
ImplementsToolRun == Run!Spec

-----------------------------------------------------------------------------
(* The outbox.                                                             *)

Sent(i) ==
  LET e == outbox[i]
  IN CASE e.type = "turn.finalized" ->
            \E k \in DOMAIN stream.plan : stream.plan[k].turn = e.turn
       [] e.type = "task.queued" ->
            \E k \in DOMAIN stream.tasks : stream.tasks[k] = Head(e.ref)
       [] e.type = "task.succeeded" ->
            \E k \in DOMAIN stream.compose : stream.compose[k].turn = e.turn
       [] OTHER -> TRUE

\* An event is marked published only after it reached its stream and
\* session.events, whatever call failed or process died in between.
PublishedWasSent ==
  \A i \in published : i \in announced /\ Sent(i)

\* Every event is published in the end: a failure leaves the row for a retry.
EveryEventPublished == <>[](published = DOMAIN outbox)

-----------------------------------------------------------------------------
(* Progress.                                                               *)

Settled(n) ==
  \/ turns[n].kind = "agent_reply"
  \/ Replied(n, turns[n].cv)
  \/ turns[n].cv < session.cv

\* Somebody else confirmed an itinerary in the context of turn n: a plan made
\* against the one before is dropped when it is checked, without a word.
EditedSince(n) ==
  \E v \in DOMAIN itins : itins[v].sources = {} /\ itins[v].cv = turns[n].cv

\* Every user turn is answered when nothing more happens, unless a newer turn,
\* update or interrupt overtook it or somebody else confirmed an itinerary in
\* its context: no plan, task or result was lost on the way.
EveryTurnAnswered ==
  <>[](\A n \in DOMAIN turns : Settled(n) \/ EditedSince(n))

\* Results that were given up for an itinerary somebody else confirmed were
\* made again: the turn they were for is answered all the same, or overtaken.
ConflictIsReplanned ==
  <>[](\A t \in DOMAIN tasks :
         tasks[t].status = "discarded" => Settled(tasks[t].turn))

Terminal == {"cancelled", "succeeded", "discarded", "failed"}

\* Every task reaches a terminal status: none is left queued, running or with
\* a cancellation requested and never done.
EveryTaskSettles ==
  <>[](\A t \in DOMAIN tasks : tasks[t].status \in Terminal)
=============================================================================
