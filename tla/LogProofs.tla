------------------------------ MODULE LogProofs -------------------------------
(***************************************************************************)
(* The event log: LogGapFree, ContextAuthored, StaleWorkSilent and         *)
(* ImplementsEventLog for any number of processes and requests.  Every     *)
(* step of every process is shown to be a LogStep, one of three ways to    *)
(* extend the log, and a LogStep to keep the invariants and to be a step   *)
(* of EventLog.                                                            *)
(***************************************************************************)
EXTENDS TypeProofs

\* Neither makes a context nor reports work.
Quiet(e) == e.type \notin ContextEvents \cup WorkEvents

\* A transaction that stays in the session's context: what it reports of work
\* is of that context.
WithinContext(events) ==
  /\ Emit(events, session.cv)
  /\ \A i \in 1..Len(events) :
       Quiet(events[i]) \/ (/\ events[i].type \in WorkEvents
                            /\ events[i].cv = session.cv)

\* A transaction that makes the next context, and says so last.
NextContext(events, own) ==
  /\ Emit(Append(events, own), session.cv + 1)
  /\ \A i \in 1..Len(events) : Quiet(events[i])
  /\ own.type \in ContextEvents /\ own.cv = session.cv + 1

LogStep ==
  \/ UNCHANGED <<session, outbox>>
  \/ \E events \in Seq(EventRow) : WithinContext(events)
  \/ \E events \in Seq(EventRow), own \in EventRow : NextContext(events, own)

-----------------------------------------------------------------------------
(* Every step of every process is a LogStep.                               *)

\* An accepted request ends its transaction with the event that makes the
\* next context.
LEMMA AcceptLog ==
  ASSUME TypeOK, NEW r \in Requests, NEW events \in Seq(EventRow),
         NEW ids \in SUBSET Nat,
         \A i \in 1..Len(events) : Quiet(events[i]),
         Accept(r, events, ids)
  PROVE  LogStep
<1> DEFINE n    == IF Kind[r] = "interrupt" THEN requests[r].arg
                   ELSE IF Kind[r] = "turn" THEN Len(turns) + 1 ELSE 0
           pref == IF Kind[r] = "preference" THEN ActivePref + 1
                   ELSE ActivePref
           own  == Event(Committed(r), <<ClientId[r]>>, n, session.cv + 1,
                         pref, ids)
<1>1. Committed(r) \in EventTypes /\ Committed(r) \in ContextEvents
  BY KindAssumption DEF Committed, EventTypes, ContextEvents
<1>2. <<ClientId[r]>> \in Seq(ClientIds \cup Nat)
  BY ClientIdAssumption, SingleReference
<1>3. requests[r].arg \in Nat
  BY DEF TypeOK, ProcessTypeOK, RequestState
<1>4. n \in Nat /\ pref \in Nat /\ session.cv + 1 \in Nat
  BY <1>3, RowNumbers
<1>5. Emit(Append(events, own), session.cv + 1)
  BY DEF Accept
<1> HIDE DEF n, pref
<1>6. own \in EventRow
  BY <1>1, <1>2, <1>4, EventType
<1>7. own.type \in ContextEvents /\ own.cv = session.cv + 1
  BY <1>1 DEF Event
<1> HIDE DEF own
<1>8. NextContext(events, own)
  BY <1>5, <1>7 DEF NextContext
<1> QED
  BY <1>6, <1>8 DEF LogStep

\* Every step of a handler is a LogStep.
LEMMA GatewayLog ==
  ASSUME TypeOK, NEW r \in Requests, GatewayStep(r)
  PROVE  LogStep
<1>1. UNCHANGED storeVars => LogStep
  BY DEF storeVars, dbVars, LogStep
<1>2. /\ <<>> \in Seq(EventRow) /\ {} \in SUBSET Nat
      /\ \A i \in 1..Len(<<>>) : Quiet(<<>>[i])
  BY EmptySeq
<1>3. Accept(r, <<>>, {}) => LogStep
  BY <1>2, AcceptLog
<1>4. CASE Receive(r)
  BY <1>1, <1>4 DEF Receive
<1>5. CASE FinalizeTurn(r)
  BY <1>1, <1>3, <1>5 DEF FinalizeTurn, UniqueViolation
<1>6. CASE UpdatePreferences(r)
  BY <1>1, <1>3, <1>6 DEF UpdatePreferences, UniqueViolation
<1>7. CASE RegisterInterrupt(r)
  <2> DEFINE n   == requests[r].arg
             ids == Interruptible(n)
  <2>1. ASSUME NEW order \in SetToSeqs(ids),
               Accept(r, EventPerTask("task.cancel_requested", order, n,
                                      session.cv), ids)
        PROVE  LogStep
    <3> DEFINE events == EventPerTask("task.cancel_requested", order, n,
                                      session.cv)
    <3>1. ids \subseteq DOMAIN tasks
      BY DEF Interruptible
    <3>2. ids \in SUBSET Nat
      BY <3>1, TaskSetFinite
    <3>3. n \in Nat /\ session.cv \in Nat
      BY RowNumbers DEF TypeOK, ProcessTypeOK, RequestState
    <3>4. Accept(r, events, ids)
      BY <2>1
    <3> HIDE DEF n, ids
    <3>5. order \in Seq(Nat)
      BY <3>1, OrderOfTasks
    <3>6. "task.cancel_requested" \in EventTypes
      BY DEF EventTypes, OtherEvents
    <3>7. /\ events \in Seq(EventRow)
          /\ \A i \in 1..Len(events) : events[i].type = "task.cancel_requested"
      BY <3>3, <3>5, <3>6, EventPerTaskTypes
    <3> HIDE DEF events
    <3>8. \A i \in 1..Len(events) : Quiet(events[i])
      BY <3>7 DEF Quiet, ContextEvents, WorkEvents
    <3> QED
      BY <3>2, <3>4, <3>7, <3>8, AcceptLog
  <2> QED
    BY <1>1, <1>7, <2>1 DEF RegisterInterrupt, UniqueViolation
<1>8. CASE WriteCancelKeys(r)
  BY <1>8 DEF WriteCancelKeys, dbVars, LogStep
<1> QED
  BY <1>4, <1>5, <1>6, <1>7, <1>8 DEF GatewayStep

\* Every step of a publisher is a LogStep: it writes no event.
LEMMA PublisherLog ==
  ASSUME NEW p \in Publishers,
         PublisherStep(p) \/ PublishFails(p) \/ PublisherCrash(p)
  PROVE  LogStep
<1>1. UNCHANGED dbVars => LogStep
  BY DEF dbVars, LogStep
<1>2. UNCHANGED dbVars
  BY DEF PublisherStep, PublishFails, PublisherCrash, FetchPending, Route,
         Announce, MarkPublished, storeVars
<1> QED
  BY <1>1, <1>2

\* Every step of an agent worker is a LogStep: the planner queues a task and
\* the composer answers only in the context of their message.
LEMMA AgentLog ==
  ASSUME TypeOK, NEW a \in Agents, AgentStep(a) \/ AgentCrash(a)
  PROVE  LogStep
<1>1. UNCHANGED dbVars => LogStep
  BY DEF dbVars, LogStep
<1>2. session.cv \in Nat /\ ActivePref \in Nat /\ Len(tasks) \in Nat
  BY RowNumbers
<1>3. CASE ReadStreams(a)
  BY <1>1, <1>3 DEF ReadStreams
<1>4. CASE CreateTasks(a)
  <2> DEFINE k == InHand(a)
             e == Event("task.queued", <<NewTask>>, k.turn, k.cv, k.pref, {})
  <2>1. CASE UNCHANGED dbVars
    BY <1>1, <2>1
  <2>2. CASE PacketCurrent(k) /\ Emit(<<e>>, session.cv)
    <3>1. agents[a] # <<>>
      BY <1>4 DEF CreateTasks, Working
    <3>2. k.turn \in Nat /\ k.cv \in Nat /\ k.pref \in Nat
      BY <3>1, MessageInHand DEF Packet
    <3>3. k.cv = session.cv
      BY <2>2 DEF PacketCurrent
    <3> HIDE DEF k
    <3>4. <<NewTask>> \in Seq(ClientIds \cup Nat)
      BY <1>2, SingleReference DEF NewTask
    <3>5. "task.queued" \in EventTypes
      BY DEF EventTypes, WorkEvents
    <3>6. e \in EventRow
      BY <3>2, <3>4, <3>5, EventType
    <3>7. e.type = "task.queued" /\ e.cv = session.cv
      BY <3>3 DEF Event
    <3>8. Emit(<<e>>, session.cv)
      BY <2>2
    <3> HIDE DEF e
    <3>9. <<e>> \in Seq(EventRow)
      BY <3>6
    <3>10. WithinContext(<<e>>)
      BY <3>7, <3>8 DEF WithinContext, WorkEvents
    <3> QED
      BY <3>9, <3>10 DEF LogStep
  <2> QED
    BY <1>4, <2>1, <2>2 DEF CreateTasks
<1>5. CASE ComposeNothing(a)
  BY <1>1, <1>5 DEF ComposeNothing, storeVars
<1>6. CASE ComposeReply(a)
  <2> DEFINE n       == InHand(a).turn
             cv      == InHand(a).cv
             sources == Ready(n, cv)
             e1 == Event("itinerary.confirmed", <<n, cv>>, n, cv, ActivePref,
                         sources)
             e2 == Event("agent.reply.created", <<n, cv>>, n, cv, ActivePref,
                         sources)
  <2>1. agents[a] # <<>> /\ cv = session.cv /\ Emit(<<e1, e2>>, session.cv)
    BY <1>6 DEF ComposeReply, Working, Composable
  <2>2. n \in Nat /\ cv \in Nat
    BY <2>1, MessageInHand
  <2>3. sources \subseteq DOMAIN tasks
    BY DEF Ready
  <2>4. sources \in SUBSET Nat
    BY <2>3, TaskSetFinite
  <2> HIDE DEF n, cv, sources
  <2>5. /\ "itinerary.confirmed" \in EventTypes
        /\ "agent.reply.created" \in EventTypes
        /\ <<n, cv>> \in Seq(ClientIds \cup Nat)
    BY <2>2 DEF EventTypes, WorkEvents
  <2>6. e1 \in EventRow /\ e2 \in EventRow
    BY <1>2, <2>2, <2>4, <2>5, EventType
  <2>7. /\ e1.type \in WorkEvents /\ e1.cv = session.cv
        /\ e2.type \in WorkEvents /\ e2.cv = session.cv
    BY <2>1 DEF Event, WorkEvents
  <2> HIDE DEF e1, e2
  <2>8. <<e1, e2>> \in Seq(EventRow)
    BY <2>6
  <2>9. WithinContext(<<e1, e2>>)
    BY <2>1, <2>7 DEF WithinContext
  <2> QED
    BY <2>8, <2>9 DEF LogStep
<1>7. CASE ComposeConflict(a)
  <2> DEFINE n     == InHand(a).turn
             cv    == InHand(a).cv
             stale == Ready(n, cv)
  <2>1. /\ agents[a] # <<>>
        /\ \E order \in SetToSeqs(stale) :
             Emit(EventPerTask("task.result.discarded", order, n, cv), session.cv)
    BY <1>7 DEF ComposeConflict, Working
  <2>2. n \in Nat /\ cv \in Nat
    BY <2>1, MessageInHand
  <2>3. stale \subseteq DOMAIN tasks
    BY DEF Ready
  <2> HIDE DEF n, cv, stale
  <2>4. PICK order \in SetToSeqs(stale) :
          Emit(EventPerTask("task.result.discarded", order, n, cv), session.cv)
    BY <2>1
  <2> DEFINE events == EventPerTask("task.result.discarded", order, n, cv)
  <2>5. order \in Seq(Nat)
    BY <2>3, OrderOfTasks
  <2>6. "task.result.discarded" \in EventTypes
    BY DEF EventTypes, OtherEvents
  <2>7. /\ events \in Seq(EventRow)
        /\ \A i \in 1..Len(events) : events[i].type = "task.result.discarded"
    BY <2>2, <2>5, <2>6, EventPerTaskTypes
  <2>8. Emit(events, session.cv)
    BY <2>4
  <2> HIDE DEF events
  <2>9. \A i \in 1..Len(events) : Quiet(events[i])
    BY <2>7 DEF Quiet, ContextEvents, WorkEvents
  <2>10. WithinContext(events)
    BY <2>8, <2>9 DEF WithinContext
  <2> QED
    BY <2>7, <2>10 DEF LogStep
<1>8. CASE RebuildPacket(a)
  BY <1>1, <1>8 DEF RebuildPacket, storeVars
<1>9. CASE AgentCrash(a)
  BY <1>1, <1>9 DEF AgentCrash
<1> QED
  BY <1>3, <1>4, <1>5, <1>6, <1>7, <1>8, <1>9 DEF AgentStep

\* A worker's transaction reports work only when it says a result counts,
\* and then in the session's context.
LEMMA SettleLog ==
  ASSUME TypeOK, NEW t \in DOMAIN tasks, NEW status, NEW tool,
         NEW type \in OtherEvents \cup {"task.succeeded"},
         type = "task.succeeded" => tasks[t].cv = session.cv,
         Settle(t, status, tool, type)
  PROVE  LogStep
<1> DEFINE events == TaskEvent(type, t)
<1>1. type \in EventTypes /\ type # "task.queued"
  BY DEF EventTypes, OtherEvents, WorkEvents
<1>2. /\ events \in Seq(EventRow)
      /\ \A i \in 1..Len(events) : /\ events[i].type = type
                                   /\ events[i].cv = tasks[t].cv
  BY <1>1, TaskEventTypes
<1>3. Emit(events, session.cv)
  BY DEF Settle
<1> HIDE DEF events
<1>4. type # "task.succeeded" => type \notin ContextEvents \cup WorkEvents
  BY DEF OtherEvents, ContextEvents, WorkEvents
<1>5. WithinContext(events)
  BY <1>2, <1>3, <1>4 DEF WithinContext, Quiet, WorkEvents
<1> QED
  BY <1>2, <1>5 DEF LogStep

\* Every step of a task worker is a LogStep: it accepts a result only when
\* the session is still in the task's context.
LEMMA WorkerLog ==
  ASSUME TypeOK, NEW w \in Workers,
         WorkerStep(w) \/ Raise(w) \/ WorkerCrash(w)
  PROVE  LogStep
<1> DEFINE t == workers[w].task
<1>1. UNCHANGED dbVars => LogStep
  BY DEF dbVars, LogStep
<1>2. UNCHANGED storeVars => LogStep
  BY <1>1 DEF storeVars
<1>3. ASSUME ~On(w, "idle"), NEW status, NEW tool, NEW type \in OtherEvents,
             Settle(t, status, tool, type)
      PROVE  LogStep
  <2>1. t \in DOMAIN tasks /\ type # "task.succeeded"
    BY <1>3, TaskInHand DEF OtherEvents
  <2> QED
    BY <1>3, <2>1, SettleLog
<1>4. /\ "task.running" \in OtherEvents /\ "task.cancelled" \in OtherEvents
      /\ "task.result.discarded" \in OtherEvents /\ "task.failed" \in OtherEvents
  BY DEF OtherEvents
<1>5. CASE ReceiveTask(w)
  BY <1>1, <1>5 DEF ReceiveTask
<1>6. CASE StartTask(w)
  <2>1. ~On(w, "idle")
    BY <1>6 DEF StartTask, On
  <2>2. \/ Settle(t, "running", "running", "task.running")
        \/ Settle(t, "cancelled", tasks[t].tool, "task.cancelled")
        \/ UNCHANGED storeVars
    BY <1>6 DEF StartTask
  <2> QED
    BY <1>2, <1>3, <1>4, <2>1, <2>2
<1>7. CASE CheckCancelled(w)
  BY <1>2, <1>7 DEF CheckCancelled
<1>8. CASE LoadToMark(w)
  BY <1>2, <1>8 DEF LoadToMark, Load
<1>9. CASE MarkCancelled(w)
  <2> DEFINE tool == IF tasks[t].tool = "running" THEN "cancelled" ELSE tasks[t].tool
  <2>1. ~On(w, "idle")
    BY <1>9 DEF MarkCancelled, On
  <2>2. Settle(t, "cancelled", tool, "task.cancelled") \/ UNCHANGED storeVars
    BY <1>9 DEF MarkCancelled
  <2> QED
    BY <1>2, <1>3, <1>4, <2>1, <2>2
<1>10. CASE Execute(w)
  BY <1>2, <1>10 DEF Execute
<1>11. CASE LoadToCommit(w)
  BY <1>2, <1>11 DEF LoadToCommit, Load
<1>12. CASE CommitResult(w)
  <2>1. ~On(w, "idle")
    BY <1>12 DEF CommitResult, On
  <2>2. \/ Settle(t, "discarded", "discarded", "task.result.discarded")
        \/ /\ ContextCurrent(t)
           /\ Settle(t, "succeeded", "succeeded", "task.succeeded")
    BY <1>12 DEF CommitResult
  <2>3. CASE ContextCurrent(t) /\ Settle(t, "succeeded", "succeeded", "task.succeeded")
    <3>1. t \in DOMAIN tasks /\ tasks[t].cv = session.cv
      BY <2>1, <2>3, TaskInHand DEF ContextCurrent
    <3> QED
      BY <2>3, <3>1, SettleLog
  <2> QED
    BY <1>3, <1>4, <2>1, <2>2, <2>3
<1>13. CASE LoadToFail(w)
  BY <1>2, <1>13 DEF LoadToFail, Load
<1>14. CASE RecordFailure(w)
  <2>1. ~On(w, "idle")
    BY <1>14 DEF RecordFailure, On
  <2>2. \/ Settle(t, "cancelled", "cancelled", "task.cancelled")
        \/ Settle(t, "failed", "failed", "task.failed")
        \/ UNCHANGED storeVars
    BY <1>14 DEF RecordFailure
  <2> QED
    BY <1>2, <1>3, <1>4, <2>1, <2>2
<1>15. CASE Raise(w)
  BY <1>1, <1>15 DEF Raise
<1>16. CASE WorkerCrash(w)
  BY <1>1, <1>16 DEF WorkerCrash
<1> QED
  BY <1>5, <1>6, <1>7, <1>8, <1>9, <1>10, <1>11, <1>12, <1>13, <1>14, <1>15,
     <1>16 DEF WorkerStep

\* Every step of the system is a LogStep.
LEMMA StepLog ==
  ASSUME TypeOK, [Next]_vars
  PROVE  LogStep
<1>1. CASE UNCHANGED vars
  BY <1>1 DEF vars, storeVars, dbVars, LogStep
<1>2. CASE \E r \in Requests : HandleRequest(r)
  BY <1>2, GatewayLog DEF HandleRequest
<1>3. CASE \E p \in Publishers : Publish(p)
  BY <1>3, PublisherLog DEF Publish
<1>4. CASE \E a \in Agents : RunAgent(a)
  BY <1>4, AgentLog DEF RunAgent
<1>5. CASE \E w \in Workers : RunWorker(w)
  BY <1>5, WorkerLog DEF RunWorker
<1>6. CASE GoWrong
  BY <1>6, PublisherLog, AgentLog, WorkerLog DEF GoWrong
<1>7. CASE ConfirmByHand
  BY <1>7 DEF ConfirmByHand, LogStep
<1> QED
  BY <1>1, <1>2, <1>3, <1>4, <1>5, <1>6, <1>7 DEF Next
-----------------------------------------------------------------------------
(* What a LogStep does to the rows of the log.                             *)

\* The log grows by k rows that continue the numbering.
Grows(k) ==
  /\ DOMAIN outbox' = 1..(Len(outbox) + k) /\ Len(outbox') = Len(outbox) + k
  /\ \A i \in 1..Len(outbox) : outbox'[i] = outbox[i]
  /\ session'.seq = session.seq + k
  /\ \A i \in 1..k : outbox'[Len(outbox) + i].seq = session.seq + i

\* The new rows stay in the session's context, or the last makes the next.
GrowsWithin(k) ==
  /\ session'.cv = session.cv
  /\ \A i \in 1..k : LET e == outbox'[Len(outbox) + i]
                     IN Quiet(e) \/ (e.type \in WorkEvents /\ e.cv = session.cv)

GrowsNext(k) ==
  /\ session'.cv = session.cv + 1
  /\ k > 0
  /\ \A i \in 1..(k - 1) : Quiet(outbox'[Len(outbox) + i])
  /\ outbox'[Len(outbox) + k].type \in ContextEvents
  /\ outbox'[Len(outbox) + k].cv = session.cv + 1

\* A row keeps its type and context version when it is numbered.
LEMMA NumberedRow ==
  ASSUME NEW e \in EventRow, NEW n \in Nat
  PROVE  /\ [e EXCEPT !.seq = n].seq = n
         /\ [e EXCEPT !.seq = n].type = e.type
         /\ [e EXCEPT !.seq = n].cv = e.cv
BY DEF EventRow

\* The rows Emit appends continue the numbering and keep what they say.
LEMMA EmitGrows ==
  ASSUME TypeOK, NEW events \in Seq(EventRow), NEW cv \in Nat, Emit(events, cv)
  PROVE  /\ Len(events) \in Nat /\ Grows(Len(events)) /\ session'.cv = cv
         /\ \A i \in 1..Len(events) :
              /\ outbox'[Len(outbox) + i].type = events[i].type
              /\ outbox'[Len(outbox) + i].cv = events[i].cv
<1>1. session \in [cv : Nat, seq : Nat] /\ outbox \in Seq(EventRow)
  BY DEF TypeOK, StoreTypeOK
<1>2. Len(events) \in Nat /\ session.seq \in Nat
  BY <1>1, LenProperties
<1>3. /\ session'.cv = cv /\ session'.seq = session.seq + Len(events)
      /\ Len(outbox') = Len(outbox) + Len(events)
      /\ DOMAIN outbox' = 1..(Len(outbox) + Len(events))
      /\ \A i \in 1..Len(outbox) : outbox'[i] = outbox[i]
      /\ \A i \in 1..Len(events) : outbox'[Len(outbox) + i] =
           [events[i] EXCEPT !.seq = session.seq + i]
  BY <1>1, EmitLog
<1>4. ASSUME NEW i \in 1..Len(events)
      PROVE  /\ outbox'[Len(outbox) + i].seq = session.seq + i
             /\ outbox'[Len(outbox) + i].type = events[i].type
             /\ outbox'[Len(outbox) + i].cv = events[i].cv
  <2>1. events[i] \in EventRow /\ session.seq + i \in Nat
    BY <1>2, ElementOfSeq
  <2>2. outbox'[Len(outbox) + i] = [events[i] EXCEPT !.seq = session.seq + i]
    BY <1>3
  <2> QED
    BY <2>1, <2>2, NumberedRow
<1> QED
  BY <1>2, <1>3, <1>4 DEF Grows

\* A step that leaves the log alone, or lets it grow in one of the two ways.
LEMMA LogStepGrows ==
  ASSUME TypeOK, LogStep
  PROVE  \/ UNCHANGED <<session, outbox>>
         \/ \E k \in Nat : Grows(k) /\ (GrowsWithin(k) \/ GrowsNext(k))
<1>1. session.cv \in Nat
  BY RowNumbers
<1>2. ASSUME NEW events \in Seq(EventRow), WithinContext(events)
      PROVE  \E k \in Nat : Grows(k) /\ GrowsWithin(k)
  <2>1. /\ Len(events) \in Nat /\ Grows(Len(events)) /\ session'.cv = session.cv
        /\ \A i \in 1..Len(events) :
             /\ outbox'[Len(outbox) + i].type = events[i].type
             /\ outbox'[Len(outbox) + i].cv = events[i].cv
    BY <1>1, <1>2, EmitGrows DEF WithinContext
  <2>2. GrowsWithin(Len(events))
    BY <1>2, <2>1 DEF WithinContext, GrowsWithin, Quiet
  <2> QED
    BY <2>1, <2>2
<1>3. ASSUME NEW events \in Seq(EventRow), NEW own \in EventRow,
             NextContext(events, own)
      PROVE  \E k \in Nat : Grows(k) /\ GrowsNext(k)
  <2> DEFINE all == Append(events, own)
  <2>1. /\ all \in Seq(EventRow) /\ Len(all) = Len(events) + 1
        /\ \A i \in 1..(Len(events) + 1) :
             all[i] = IF i = Len(events) + 1 THEN own ELSE events[i]
    BY AppendProperties, LenProperties
  <2>2. Len(events) \in Nat
    BY LenProperties
  <2>3. Emit(all, session.cv + 1) /\ session.cv + 1 \in Nat
    BY <1>1, <1>3 DEF NextContext
  <2> HIDE DEF all
  <2>4. /\ Grows(Len(all)) /\ session'.cv = session.cv + 1
        /\ \A i \in 1..Len(all) :
             /\ outbox'[Len(outbox) + i].type = all[i].type
             /\ outbox'[Len(outbox) + i].cv = all[i].cv
    BY <2>1, <2>3, EmitGrows
  <2>5. all[Len(all)] = own /\ \A i \in 1..(Len(all) - 1) : all[i] = events[i]
    BY <2>1, <2>2
  <2>6. Len(all) > 0 /\ Len(all) \in Nat /\ Len(all) \in 1..Len(all)
        /\ \A i \in 1..(Len(all) - 1) : i \in 1..Len(all) /\ i \in 1..Len(events)
    BY <2>1, <2>2
  <2>7. \A i \in 1..(Len(all) - 1) : Quiet(outbox'[Len(outbox) + i])
    BY <1>3, <2>4, <2>5, <2>6 DEF NextContext, Quiet
  <2>8. GrowsNext(Len(all))
    BY <1>3, <2>4, <2>5, <2>6, <2>7 DEF NextContext, GrowsNext
  <2> QED
    BY <2>4, <2>6, <2>8
<1> QED
  BY <1>2, <1>3 DEF LogStep

-----------------------------------------------------------------------------
(* The invariants of the log.                                              *)

\* A LogStep keeps the numbering.
LEMMA GapFreeStep ==
  ASSUME TypeOK, LogGapFree, LogStep
  PROVE  LogGapFree'
<1>1. /\ session.seq = Len(outbox) /\ Len(outbox) \in Nat
      /\ DOMAIN outbox = 1..Len(outbox)
      /\ \A i \in 1..Len(outbox) : outbox[i].seq = i
  BY RowNumbers DEF LogGapFree
<1>2. CASE UNCHANGED <<session, outbox>>
  BY <1>2 DEF LogGapFree
<1>3. ASSUME NEW k \in Nat, Grows(k)
      PROVE  LogGapFree'
  <2>1. session'.seq = Len(outbox')
    BY <1>1, <1>3 DEF Grows
  <2>2. ASSUME NEW i \in DOMAIN outbox'
        PROVE  outbox'[i].seq = i
    <3>1. i \in 1..(Len(outbox) + k)
      BY <1>3 DEF Grows
    <3>2. CASE i <= Len(outbox)
      BY <1>1, <1>3, <3>1, <3>2 DEF Grows
    <3>3. CASE ~(i <= Len(outbox))
      <4>1. i - Len(outbox) \in 1..k /\ i = Len(outbox) + (i - Len(outbox))
        BY <1>1, <3>1, <3>3
      <4>2. outbox'[Len(outbox) + (i - Len(outbox))].seq =
              session.seq + (i - Len(outbox))
        BY <1>3, <4>1 DEF Grows
      <4> QED
        BY <1>1, <3>1, <4>1, <4>2
    <3> QED
      BY <3>2, <3>3
  <2> QED
    BY <2>1, <2>2 DEF LogGapFree
<1> QED
  BY <1>2, <1>3, LogStepGrows

\* event_seq numbers the session's events without gap or repetition, in
\* commit order, however many processes write them.
THEOREM GapFreeLog == Spec => []LogGapFree
<1>1. Init => LogGapFree
  BY DEF Init, StoreInit, LogGapFree, Event
<1>2. TypeOK /\ LogGapFree /\ [Next]_vars => LogGapFree'
  BY StepLog, GapFreeStep
<1> QED
  BY <1>1, <1>2, TypeCorrect, PTL DEF Spec

\* A row of the grown log is an old one, or one of the k new ones.
LEMMA OldOrNew ==
  ASSUME TypeOK, NEW k \in Nat, Grows(k), NEW i \in DOMAIN outbox'
  PROVE  \/ i \in DOMAIN outbox /\ outbox'[i] = outbox[i]
         \/ i > Len(outbox) /\ i - Len(outbox) \in 1..k
            /\ outbox'[i] = outbox'[Len(outbox) + (i - Len(outbox))]
<1>1. Len(outbox) \in Nat /\ DOMAIN outbox = 1..Len(outbox)
  BY RowNumbers
<1>2. i \in 1..(Len(outbox) + k)
  BY DEF Grows
<1>3. CASE i <= Len(outbox)
  BY <1>1, <1>2, <1>3 DEF Grows
<1>4. CASE ~(i <= Len(outbox))
  <2>1. i > Len(outbox) /\ i - Len(outbox) \in 1..k
        /\ i = Len(outbox) + (i - Len(outbox))
    BY <1>1, <1>2, <1>4
  <2> QED
    BY <2>1
<1> QED
  BY <1>3, <1>4

\* A new row that makes a context is the last of a transaction that makes the
\* next one.
LEMMA NewContextRow ==
  ASSUME TypeOK, NEW k \in Nat, Grows(k), GrowsWithin(k) \/ GrowsNext(k),
         NEW i \in DOMAIN outbox', i \notin DOMAIN outbox,
         outbox'[i].type \in ContextEvents
  PROVE  GrowsNext(k) /\ i = Len(outbox) + k /\ outbox'[i].cv = session.cv + 1
<1>1. Len(outbox) \in Nat
  BY RowNumbers
<1> DEFINE j == i - Len(outbox)
<1>2. j \in 1..k /\ outbox'[i] = outbox'[Len(outbox) + j]
  BY OldOrNew
<1>3. i \in Nat
  BY DEF Grows
<1>4. \A e : Quiet(e) \/ e.type \in WorkEvents => e.type \notin ContextEvents
  BY DEF Quiet, WorkEvents, ContextEvents
<1>5. ~GrowsWithin(k)
  BY <1>2, <1>4 DEF GrowsWithin
<1>6. ~(j \in 1..(k - 1))
  <2>1. GrowsNext(k)
    BY <1>5
  <2> HIDE DEF j
  <2>2. ASSUME j \in 1..(k - 1)
        PROVE  FALSE
    <3>1. Quiet(outbox'[Len(outbox) + j])
      BY <2>1, <2>2 DEF GrowsNext
    <3> QED
      BY <1>2, <1>4, <3>1
  <2> QED
    BY <2>2
<1>7. j = k
  BY <1>2, <1>6
<1> QED
  BY <1>1, <1>2, <1>3, <1>5, <1>7 DEF GrowsNext

\* A new row that reports work is of the session's context, in a transaction
\* that makes none.
LEMMA NewWorkRow ==
  ASSUME TypeOK, NEW k \in Nat, Grows(k), GrowsWithin(k) \/ GrowsNext(k),
         NEW i \in DOMAIN outbox', i \notin DOMAIN outbox,
         outbox'[i].type \in WorkEvents
  PROVE  GrowsWithin(k) /\ outbox'[i].cv = session.cv
<1> DEFINE j == i - Len(outbox)
<1>1. j \in 1..k /\ outbox'[i] = outbox'[Len(outbox) + j]
  BY OldOrNew
<1> HIDE DEF j
<1>2. \A e : Quiet(e) => e.type \notin WorkEvents
  BY DEF Quiet
<1>3. outbox'[i].type \notin ContextEvents
  BY DEF WorkEvents, ContextEvents
<1>4. ASSUME GrowsNext(k)
      PROVE  FALSE
  <2>1. CASE j = k
    BY <1>1, <1>3, <1>4, <2>1 DEF GrowsNext
  <2>2. CASE j # k
    <3>1. j \in 1..(k - 1)
      BY <1>1, <2>2
    <3>2. Quiet(outbox'[Len(outbox) + j])
      BY <1>4, <3>1 DEF GrowsNext
    <3> QED
      BY <1>1, <1>2, <3>2
  <2> QED
    BY <2>1, <2>2
<1> QED
  BY <1>1, <1>2, <1>4 DEF GrowsWithin

\* A LogStep keeps one event per context version, in order.
LEMMA ContextStep ==
  ASSUME TypeOK, ContextAuthored, LogStep
  PROVE  ContextAuthored'
<1>1. Len(outbox) \in Nat /\ DOMAIN outbox = 1..Len(outbox) /\ session.cv \in Nat
  BY RowNumbers
<1>2. CASE UNCHANGED <<session, outbox>>
  BY <1>2 DEF ContextAuthored, IsContext
<1>3. ASSUME NEW k \in Nat, Grows(k), GrowsWithin(k) \/ GrowsNext(k)
      PROVE  ContextAuthored'
  <2>1. \A i \in DOMAIN outbox : i \in DOMAIN outbox' /\ outbox'[i] = outbox[i]
    BY <1>1, <1>3 DEF Grows
  <2>2. \A i \in DOMAIN outbox : outbox[i].type \in ContextEvents =>
          outbox[i].cv \in 1..session.cv
    BY DEF ContextAuthored, IsContext
  <2>3. \/ session'.cv = session.cv
        \/ session'.cv = session.cv + 1 /\ GrowsNext(k)
    BY <1>3 DEF GrowsWithin, GrowsNext
  <2>4. GrowsNext(k) => session'.cv = session.cv + 1
    BY DEF GrowsNext
  <2>5. \A i \in DOMAIN outbox' : outbox'[i].type \in ContextEvents =>
          outbox'[i].cv \in 1..session'.cv
    <3> SUFFICES ASSUME NEW i \in DOMAIN outbox',
                        outbox'[i].type \in ContextEvents
                 PROVE  outbox'[i].cv \in 1..session'.cv
      OBVIOUS
    <3>1. CASE i \in DOMAIN outbox
      BY <1>1, <2>1, <2>2, <2>3, <3>1
    <3>2. CASE i \notin DOMAIN outbox
      BY <1>1, <1>3, <2>4, <3>2, NewContextRow
    <3> QED
      BY <3>1, <3>2
  <2>6. \A c \in 1..session'.cv : \E i \in DOMAIN outbox' :
          outbox'[i].type \in ContextEvents /\ outbox'[i].cv = c
    <3> SUFFICES ASSUME NEW c \in 1..session'.cv
                 PROVE  \E i \in DOMAIN outbox' :
                          outbox'[i].type \in ContextEvents /\ outbox'[i].cv = c
      OBVIOUS
    <3>1. CASE c \in 1..session.cv
      <4>1. PICK i \in DOMAIN outbox : IsContext(i) /\ outbox[i].cv = c
        BY <3>1 DEF ContextAuthored
      <4> QED
        BY <2>1, <4>1 DEF IsContext
    <3>2. CASE c \notin 1..session.cv
      <4>1. GrowsNext(k) /\ c = session.cv + 1
        BY <1>1, <2>3, <3>2
      <4>2. Len(outbox) + k \in DOMAIN outbox'
        BY <1>1, <1>3, <4>1 DEF Grows, GrowsNext
      <4> QED
        BY <4>1, <4>2 DEF GrowsNext
    <3> QED
      BY <3>1, <3>2
  <2>7. \A i, j \in DOMAIN outbox' :
          /\ outbox'[i].type \in ContextEvents
          /\ outbox'[j].type \in ContextEvents
          /\ i < j
          => outbox'[i].cv < outbox'[j].cv
    <3> SUFFICES ASSUME NEW i \in DOMAIN outbox', NEW j \in DOMAIN outbox',
                        outbox'[i].type \in ContextEvents,
                        outbox'[j].type \in ContextEvents, i < j
                 PROVE  outbox'[i].cv < outbox'[j].cv
      OBVIOUS
    <3>1. i \in Nat /\ j \in Nat /\ j <= Len(outbox) + k
      BY <1>1, <1>3 DEF Grows
    <3>2. CASE i \in DOMAIN outbox /\ j \in DOMAIN outbox
      BY <2>1, <3>2 DEF ContextAuthored, IsContext
    <3>3. CASE i \in DOMAIN outbox /\ j \notin DOMAIN outbox
      <4>1. outbox'[j].cv = session.cv + 1
        BY <1>3, <3>3, NewContextRow
      <4>2. outbox'[i].cv \in 1..session.cv
        BY <2>1, <2>2, <3>3
      <4> QED
        BY <1>1, <4>1, <4>2
    <3>4. CASE i \notin DOMAIN outbox
      <4>1. i = Len(outbox) + k
        BY <1>3, <3>4, NewContextRow
      <4> QED
        BY <1>1, <3>1, <4>1
    <3> QED
      BY <3>2, <3>3, <3>4
  <2> QED
    BY <2>5, <2>6, <2>7 DEF ContextAuthored, IsContext
<1> QED
  BY <1>2, <1>3, LogStepGrows

\* Every context version of the session was made by exactly one turn, update
\* or interrupt, and the log holds them in order.
THEOREM ContextsAuthored == Spec => []ContextAuthored
<1>1. Init => ContextAuthored
  <2> SUFFICES ASSUME Init PROVE ContextAuthored
    OBVIOUS
  <2>1. session.cv = 0 /\ DOMAIN outbox = {1}
        /\ outbox[1].type = "session.created"
    BY DEF Init, StoreInit, Event
  <2>2. ~IsContext(1) /\ 1..session.cv = {}
    BY <2>1 DEF IsContext, ContextEvents
  <2> QED
    BY <2>1, <2>2 DEF ContextAuthored
<1>2. TypeOK /\ ContextAuthored /\ [Next]_vars => ContextAuthored'
  BY StepLog, ContextStep
<1> QED
  BY <1>1, <1>2, TypeCorrect, PTL DEF Spec

\* A LogStep reports no work of a context older than one in the log: all of
\* those are at most the session's (the first conjunct of ContextAuthored).
LEMMA StaleWorkStep ==
  ASSUME TypeOK, ContextAuthored, StaleWorkSilent, LogStep
  PROVE  StaleWorkSilent'
<1>1. Len(outbox) \in Nat /\ DOMAIN outbox = 1..Len(outbox) /\ session.cv \in Nat
  BY RowNumbers
<1>2. CASE UNCHANGED <<session, outbox>>
  BY <1>2 DEF StaleWorkSilent, IsContext, IsWork
<1>3. ASSUME NEW k \in Nat, Grows(k), GrowsWithin(k) \/ GrowsNext(k)
      PROVE  StaleWorkSilent'
  <2>1. \A i \in DOMAIN outbox : outbox'[i] = outbox[i]
    BY <1>1, <1>3 DEF Grows
  <2>2. \A i, j \in DOMAIN outbox' :
          /\ outbox'[i].type \in ContextEvents
          /\ outbox'[j].type \in WorkEvents
          /\ i < j
          => outbox'[i].cv <= outbox'[j].cv
    <3> SUFFICES ASSUME NEW i \in DOMAIN outbox', NEW j \in DOMAIN outbox',
                        outbox'[i].type \in ContextEvents,
                        outbox'[j].type \in WorkEvents, i < j
                 PROVE  outbox'[i].cv <= outbox'[j].cv
      OBVIOUS
    <3>1. i \in Nat /\ j \in Nat /\ j <= Len(outbox) + k
      BY <1>1, <1>3 DEF Grows
    <3>2. CASE i \in DOMAIN outbox /\ j \in DOMAIN outbox
      BY <2>1, <3>2 DEF StaleWorkSilent, IsContext, IsWork
    <3>3. CASE i \in DOMAIN outbox /\ j \notin DOMAIN outbox
      <4>1. outbox'[j].cv = session.cv
        BY <1>3, <3>3, NewWorkRow
      <4>2. outbox'[i].cv \in 1..session.cv
        BY <2>1, <3>3 DEF ContextAuthored, IsContext
      <4> QED
        BY <1>1, <4>1, <4>2
    <3>4. CASE i \notin DOMAIN outbox
      <4>1. i = Len(outbox) + k
        BY <1>3, <3>4, NewContextRow
      <4> QED
        BY <1>1, <3>1, <4>1
    <3> QED
      BY <3>2, <3>3, <3>4
  <2> QED
    BY <2>2 DEF StaleWorkSilent, IsContext, IsWork
<1> QED
  BY <1>2, <1>3, LogStepGrows

\* Nothing of an older context follows a newer one in the log: no task is
\* queued, no result accepted, no itinerary confirmed and no reply given for
\* a turn that was interrupted or overtaken.
THEOREM StaleWorkIsSilent == Spec => []StaleWorkSilent
<1>1. Init => StaleWorkSilent
  <2> SUFFICES ASSUME Init PROVE StaleWorkSilent
    OBVIOUS
  <2>1. DOMAIN outbox = {1}
    BY DEF Init, StoreInit
  <2> QED
    BY <2>1 DEF StaleWorkSilent
<1>2. TypeOK /\ ContextAuthored /\ StaleWorkSilent /\ [Next]_vars
        => StaleWorkSilent'
  BY StepLog, StaleWorkStep
<1> QED
  BY <1>1, <1>2, TypeCorrect, ContextsAuthored, PTL DEF Spec

-----------------------------------------------------------------------------
(* The backend implements EventLog: every step of every process is one     *)
(* step of the abstract log or leaves it alone.                            *)

Entries(rows) == [i \in DOMAIN rows |-> LogEntry(rows[i])]

\* The abstract log has an entry for each row.
LEMMA EntriesOfRows ==
  ASSUME NEW rows \in Seq(EventRow)
  PROVE  /\ Len(Entries(rows)) = Len(rows) /\ Len(rows) \in Nat
         /\ DOMAIN rows = 1..Len(rows)
         /\ \A i \in 1..Len(rows) : Entries(rows)[i] = LogEntry(rows[i])
<1>1. Len(rows) \in Nat /\ DOMAIN rows = 1..Len(rows)
  BY LenProperties
<1>2. Entries(rows) = [i \in 1..Len(rows) |-> LogEntry(rows[i])]
  BY <1>1 DEF Entries
<1>3. Len(Entries(rows)) = Len(rows)
  BY <1>1, <1>2
<1> QED
  BY <1>1, <1>2, <1>3

\* What an entry says of its row.
LEMMA EntryFields ==
  ASSUME NEW e
  PROVE  /\ LogEntry(e).seq = e.seq /\ LogEntry(e).cv = e.cv
         /\ Quiet(e) => LogEntry(e).kind = "quiet"
         /\ e.type \in WorkEvents => LogEntry(e).kind = "work"
         /\ e.type \in ContextEvents => LogEntry(e).kind = "context"
<1>1. e.type \in WorkEvents => e.type \notin ContextEvents
  BY DEF WorkEvents, ContextEvents
<1> QED
  BY <1>1 DEF LogEntry, EntryKind, Quiet

\* The rows a transaction appends extend the abstract log.
LEMMA GrowsGrow ==
  ASSUME TypeOK, TypeOK', LogGapFree, NEW k \in Nat, Grows(k)
  PROVE  /\ Log!Grow /\ Log!Fresh = (Len(outbox) + 1)..(Len(outbox) + k)
         /\ Len(Entries(outbox)) = Len(outbox) /\ Len(outbox) \in Nat
         /\ Len(Entries(outbox')) = Len(outbox) + k
         /\ \A j \in 1..k : Entries(outbox')[Len(outbox) + j] =
                              LogEntry(outbox'[Len(outbox) + j])
<1>1. outbox \in Seq(EventRow) /\ outbox' \in Seq(EventRow)
  BY DEF TypeOK, StoreTypeOK
<1>2. /\ Len(Entries(outbox)) = Len(outbox) /\ Len(outbox) \in Nat
      /\ \A i \in 1..Len(outbox) : Entries(outbox)[i] = LogEntry(outbox[i])
  BY <1>1, EntriesOfRows
<1>3. /\ Len(Entries(outbox')) = Len(outbox') /\ Len(outbox') \in Nat
      /\ \A i \in 1..Len(outbox') : Entries(outbox')[i] = LogEntry(outbox'[i])
  BY <1>1, EntriesOfRows
<1>4. /\ Len(outbox') = Len(outbox) + k /\ session.seq = Len(outbox)
      /\ \A i \in 1..Len(outbox) : outbox'[i] = outbox[i]
      /\ \A j \in 1..k : outbox'[Len(outbox) + j].seq = session.seq + j
  BY <1>1, LenProperties DEF Grows, LogGapFree
<1>5. \A i \in 1..Len(outbox) : Entries(outbox')[i] = Entries(outbox)[i]
  BY <1>2, <1>3, <1>4
<1>6. ASSUME NEW i \in (Len(outbox) + 1)..(Len(outbox) + k)
      PROVE  Entries(outbox')[i].seq = i
  <2>1. /\ i - Len(outbox) \in 1..k /\ i = Len(outbox) + (i - Len(outbox))
        /\ i \in 1..Len(outbox')
    <3>1. Len(outbox) \in Nat /\ Len(outbox') = Len(outbox) + k
      BY <1>2, <1>4
    <3> QED
      BY <3>1
  <2>2. outbox'[Len(outbox) + (i - Len(outbox))].seq =
          Len(outbox) + (i - Len(outbox))
    BY <1>4, <2>1
  <2>3. outbox'[i].seq = i
    BY <2>1, <2>2
  <2> QED
    BY <1>3, <2>1, <2>3, EntryFields
<1>7. Log!Fresh = (Len(outbox) + 1)..(Len(outbox) + k)
  BY <1>2, <1>3, <1>4 DEF Log!Fresh, Entries
<1>8. Log!Grow
  <2>1. /\ Len(Entries(outbox)) <= Len(Entries(outbox'))
        /\ \A i \in 1..Len(Entries(outbox)) :
             Entries(outbox')[i] = Entries(outbox)[i]
        /\ \A i \in Log!Fresh : Entries(outbox')[i].seq = i
    BY <1>2, <1>3, <1>4, <1>5, <1>6, <1>7
  <2> QED
    BY <2>1 DEF Log!Grow, Entries
<1>9. \A j \in 1..k : Entries(outbox')[Len(outbox) + j] =
                        LogEntry(outbox'[Len(outbox) + j])
  <2> SUFFICES ASSUME NEW j \in 1..k
               PROVE  Len(outbox) + j \in 1..Len(outbox')
    BY <1>3
  <2> QED
    BY <1>2, <1>4
<1> QED
  BY <1>2, <1>3, <1>4, <1>7, <1>8, <1>9

\* A step of the backend is a step of the abstract log, or none.
LEMMA LogStepRefines ==
  ASSUME TypeOK, TypeOK', LogGapFree, LogStep
  PROVE  Log!Next \/ UNCHANGED <<Entries(outbox), session.cv>>
<1>1. CASE UNCHANGED <<session, outbox>>
  BY <1>1 DEF Entries
<1>2. ASSUME NEW k \in Nat, Grows(k), GrowsWithin(k)
      PROVE  Log!Report
  <2>1. /\ Log!Grow /\ Log!Fresh = (Len(outbox) + 1)..(Len(outbox) + k)
        /\ Len(outbox) \in Nat
        /\ \A j \in 1..k : Entries(outbox')[Len(outbox) + j] =
                             LogEntry(outbox'[Len(outbox) + j])
    BY <1>2, GrowsGrow
  <2>2. ASSUME NEW i \in Log!Fresh
        PROVE  \/ Entries(outbox')[i].kind = "quiet"
               \/ /\ Entries(outbox')[i].kind = "work"
                  /\ Entries(outbox')[i].cv = session.cv
    <3>1. i - Len(outbox) \in 1..k /\ i = Len(outbox) + (i - Len(outbox))
      BY <2>1
    <3>2. Entries(outbox')[i] = LogEntry(outbox'[i])
      BY <2>1, <3>1
    <3>3. \/ Quiet(outbox'[i])
          \/ outbox'[i].type \in WorkEvents /\ outbox'[i].cv = session.cv
      BY <1>2, <3>1 DEF GrowsWithin
    <3> QED
      BY <3>2, <3>3, EntryFields
  <2>3. session'.cv = session.cv
    BY <1>2 DEF GrowsWithin
  <2> QED
    BY <2>1, <2>2, <2>3 DEF Log!Report, Entries
<1>3. ASSUME NEW k \in Nat, Grows(k), GrowsNext(k)
      PROVE  Log!Advance
  <2>1. /\ Log!Grow /\ Log!Fresh = (Len(outbox) + 1)..(Len(outbox) + k)
        /\ Len(Entries(outbox)) = Len(outbox) /\ Len(outbox) \in Nat
        /\ Len(Entries(outbox')) = Len(outbox) + k
        /\ \A j \in 1..k : Entries(outbox')[Len(outbox) + j] =
                             LogEntry(outbox'[Len(outbox) + j])
    BY <1>3, GrowsGrow
  <2>2. /\ k > 0 /\ session'.cv = session.cv + 1
        /\ outbox'[Len(outbox) + k].type \in ContextEvents
        /\ outbox'[Len(outbox) + k].cv = session.cv + 1
    BY <1>3 DEF GrowsNext
  <2>3. Entries(outbox')[Len(outbox) + k] = LogEntry(outbox'[Len(outbox) + k])
    BY <2>1, <2>2
  <2>4. /\ Entries(outbox')[Len(outbox) + k].kind = "context"
        /\ Entries(outbox')[Len(outbox) + k].cv = session'.cv
    BY <2>2, <2>3, EntryFields
  <2>5. ASSUME NEW i \in Log!Fresh, i # Len(outbox) + k
        PROVE  Entries(outbox')[i].kind = "quiet"
    <3>1. /\ i - Len(outbox) \in 1..(k - 1) /\ i - Len(outbox) \in 1..k
          /\ i = Len(outbox) + (i - Len(outbox))
      BY <2>1, <2>5
    <3>2. Entries(outbox')[i] = LogEntry(outbox'[i])
      BY <2>1, <3>1
    <3>3. Quiet(outbox'[i])
      BY <1>3, <3>1 DEF GrowsNext
    <3> QED
      BY <3>2, <3>3, EntryFields
  <2>6. Len(Entries(outbox)) < Len(Entries(outbox'))
    BY <2>1, <2>2
  <2> QED
    BY <2>1, <2>2, <2>4, <2>5, <2>6 DEF Log!Advance, Entries
<1> QED
  BY <1>1, <1>2, <1>3, LogStepGrows DEF Log!Next

\* Gateways, publishers, planners, composers and workers together implement
\* the abstract log, however many run: each transaction is one step of it.
THEOREM LogImplemented == Spec => ImplementsEventLog
<1>1. Init => Log!Init
  <2> SUFFICES ASSUME Init PROVE Log!Init
    OBVIOUS
  <2>1. /\ session.cv = 0 /\ DOMAIN outbox = {1} /\ outbox[1].seq = 1
        /\ outbox[1].cv = 0 /\ outbox[1].type = "session.created"
    BY DEF Init, StoreInit, Event
  <2>2. LogEntry(outbox[1]) = [seq |-> 1, kind |-> "quiet", cv |-> 0]
    BY <2>1 DEF LogEntry, EntryKind, ContextEvents, WorkEvents
  <2>3. Entries(outbox) = <<[seq |-> 1, kind |-> "quiet", cv |-> 0]>>
    BY <2>1, <2>2 DEF Entries
  <2> QED
    BY <2>1, <2>3 DEF Log!Init, Entries
<1>2. TypeOK /\ TypeOK' /\ LogGapFree /\ [Next]_vars
        => [Log!Next]_<<Entries(outbox), session.cv>>
  BY StepLog, LogStepRefines
<1> QED
  BY <1>1, <1>2, TypeCorrect, GapFreeLog, PTL
     DEF Spec, ImplementsEventLog, Log!Spec, Entries
=============================================================================
