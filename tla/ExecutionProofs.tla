---------------------------- MODULE ExecutionProofs ----------------------------
(***************************************************************************)
(* Executing tasks: OneExecutor and ImplementsToolRun for any number of    *)
(* workers, of copies of a message and of interrupts.  The steps of other  *)
(* processes are first reduced to what they do to task rows (Rewrites or   *)
(* Plans), those of a worker to Moves, Starts, Cancels or Ends.            *)
(***************************************************************************)
EXTENDS LogProofs

-----------------------------------------------------------------------------
(* The inductive invariant.                                                *)

\* The tool call of a task somebody executes runs: it was made in the
\* transaction that started the execution, and ends in the one that ends it.
ExecutorsRun ==
  \A w \in Workers : Executing(w) => tasks[workers[w].task].tool = "running"

\* A result is accepted in the transaction that ends its tool call.
SucceededRan ==
  \A t \in DOMAIN tasks :
    tasks[t].status = "succeeded" => tasks[t].tool = "succeeded"

\* The result of a task of an older context is not accepted any more.
Overtaken(t) == tasks[t].cv < session.cv /\ tasks[t].status # "succeeded"

\* A cancellation was requested in the transaction that made a newer context;
\* so it was for a worker that has loaded the row since.
CancelledOvertaken ==
  /\ \A t \in DOMAIN tasks :
       /\ tasks[t].cv <= session.cv
       /\ tasks[t].status = "cancel_requested" => Overtaken(t)
  /\ \A w \in Workers :
       ~On(w, "idle") /\ workers[w].seen = "cancel_requested"
         => Overtaken(workers[w].task)

ExecutionInv ==
  OneExecutor /\ ExecutorsRun /\ SucceededRan /\ CancelledOvertaken

-----------------------------------------------------------------------------
(* What a step does to the task rows.                                      *)

\* What a task was planned for does not change.
SamePlan(t) ==
  /\ tasks'[t].turn = tasks[t].turn /\ tasks'[t].cv = tasks[t].cv
  /\ tasks'[t].pref = tasks[t].pref /\ tasks'[t].itin = tasks[t].itin

\* Statuses are rewritten by an interrupt, which makes a newer context, or by
\* a composer that gives results up; tool calls are left alone.
Rewrites ==
  /\ session.cv <= session'.cv
  /\ DOMAIN tasks' = DOMAIN tasks
  /\ \A t \in DOMAIN tasks :
       /\ SamePlan(t) /\ tasks'[t].tool = tasks[t].tool
       /\ \/ tasks'[t].status = tasks[t].status
          \/ /\ tasks'[t].status = "cancel_requested"
             /\ tasks[t].status # "succeeded" /\ tasks[t].cv < session'.cv
          \/ tasks'[t].status = "discarded"

\* A task is planned in the session's context, on the confirmed itinerary.
Plans ==
  /\ session'.cv = session.cv
  /\ \E k \in Packet :
       /\ k.cv = session.cv /\ k.itin = ConfirmedItinerary
       /\ tasks' = Append(tasks, [turn |-> k.turn, cv |-> k.cv,
            pref |-> k.pref, itin |-> k.itin, status |-> "queued",
            tool |-> "none"])

\* A task row and its fields.
LEMMA TaskRow ==
  ASSUME TypeOK, NEW t \in DOMAIN tasks
  PROVE  /\ tasks[t] \in Task /\ t \in Nat
         /\ tasks[t].turn \in Nat /\ tasks[t].cv \in Nat
         /\ tasks[t].pref \in Nat /\ tasks[t].itin \in Nat
         /\ tasks[t].status \in TaskStatus /\ tasks[t].tool \in ToolStatus
<1>1. tasks \in Seq(Task) /\ DOMAIN tasks = 1..Len(tasks) /\ Len(tasks) \in Nat
  BY RowNumbers DEF TypeOK, StoreTypeOK
<1>2. tasks[t] \in Task /\ t \in Nat
  BY <1>1, ElementOfSeq
<1> QED
  BY <1>2 DEF Task

\* Giving some rows another status changes nothing else of any row.
LEMMA NewStatus ==
  ASSUME TypeOK, NEW ids, NEW status,
         tasks' = [t \in DOMAIN tasks |->
                     IF t \in ids THEN [tasks[t] EXCEPT !.status = status]
                     ELSE tasks[t]]
  PROVE  /\ DOMAIN tasks' = DOMAIN tasks
         /\ \A t \in DOMAIN tasks :
              /\ SamePlan(t) /\ tasks'[t].tool = tasks[t].tool
              /\ tasks'[t].status = IF t \in ids THEN status
                                    ELSE tasks[t].status
<1>1. DOMAIN tasks' = DOMAIN tasks
  OBVIOUS
<1>2. ASSUME NEW t \in DOMAIN tasks
      PROVE  /\ SamePlan(t) /\ tasks'[t].tool = tasks[t].tool
             /\ tasks'[t].status = IF t \in ids THEN status
                                   ELSE tasks[t].status
  <2>1. tasks[t] \in Task
    BY TaskRow
  <2>2. tasks'[t] = IF t \in ids THEN [tasks[t] EXCEPT !.status = status]
                    ELSE tasks[t]
    OBVIOUS
  <2> QED
    BY <2>1, <2>2 DEF Task, SamePlan
<1> QED
  BY <1>1, <1>2

\* The context version of a transaction's session row.
LEMMA EmittedContext ==
  ASSUME NEW events, NEW cv, Emit(events, cv)
  PROVE  session'.cv = cv
BY DEF Emit

\* A step that leaves the rows alone rewrites none.
LEMMA KeptTasks ==
  ASSUME TypeOK, UNCHANGED tasks,
         session'.cv = session.cv \/ session'.cv = session.cv + 1
  PROVE  Rewrites
<1>1. session.cv <= session'.cv
  BY RowNumbers
<1> QED
  BY <1>1 DEF Rewrites, SamePlan

\* Handlers rewrite the status of tasks they interrupt, and of no other.
LEMMA GatewayRewrites ==
  ASSUME TypeOK, NEW r \in Requests, GatewayStep(r)
  PROVE  Rewrites
<1>1. session.cv \in Nat
  BY RowNumbers
<1>2. UNCHANGED storeVars => Rewrites
  BY KeptTasks DEF storeVars, dbVars
<1>3. ASSUME NEW events, NEW ids, Accept(r, events, ids)
      PROVE  session'.cv = session.cv + 1
  BY <1>3, EmittedContext DEF Accept
<1>4. ASSUME NEW events, NEW ids, Accept(r, events, ids), UNCHANGED tasks
      PROVE  Rewrites
  BY <1>3, <1>4, KeptTasks
<1>5. CASE Receive(r)
  BY <1>2, <1>5 DEF Receive
<1>6. CASE FinalizeTurn(r)
  BY <1>2, <1>4, <1>6 DEF FinalizeTurn, UniqueViolation
<1>7. CASE UpdatePreferences(r)
  BY <1>2, <1>4, <1>7 DEF UpdatePreferences, UniqueViolation
<1>8. CASE RegisterInterrupt(r)
  <2> DEFINE n   == requests[r].arg
             ids == Interruptible(n)
  <2>1. ASSUME NEW order \in SetToSeqs(ids),
               Accept(r, EventPerTask("task.cancel_requested", order, n,
                                      session.cv), ids),
               tasks' = [t \in DOMAIN tasks |->
                 IF t \in ids
                 THEN [tasks[t] EXCEPT !.status = "cancel_requested"]
                 ELSE tasks[t]]
        PROVE  Rewrites
    <3>1. session'.cv = session.cv + 1
      BY <1>3, <2>1
    <3>2. \A t \in ids : /\ tasks[t].cv = session.cv
                         /\ tasks[t].status \in {"queued", "running"}
      BY DEF Interruptible
    <3> HIDE DEF ids
    <3>3. /\ DOMAIN tasks' = DOMAIN tasks
          /\ \A t \in DOMAIN tasks :
               /\ SamePlan(t) /\ tasks'[t].tool = tasks[t].tool
               /\ tasks'[t].status = IF t \in ids THEN "cancel_requested"
                                     ELSE tasks[t].status
      BY <2>1, NewStatus
    <3>4. session.cv <= session'.cv
          /\ \A t \in ids : tasks[t].cv < session'.cv
      BY <1>1, <3>1, <3>2
    <3> QED
      BY <3>2, <3>3, <3>4 DEF Rewrites
  <2> QED
    BY <1>2, <1>8, <2>1 DEF RegisterInterrupt, UniqueViolation
<1>9. CASE WriteCancelKeys(r)
  BY <1>9, KeptTasks DEF WriteCancelKeys, dbVars
<1> QED
  BY <1>5, <1>6, <1>7, <1>8, <1>9 DEF GatewayStep

\* Publishers write no row of a task.
LEMMA PublisherRewrites ==
  ASSUME TypeOK, NEW p \in Publishers,
         PublisherStep(p) \/ PublishFails(p) \/ PublisherCrash(p)
  PROVE  Rewrites
<1>1. UNCHANGED dbVars
  BY DEF PublisherStep, PublishFails, PublisherCrash, FetchPending, Route,
         Announce, MarkPublished, storeVars
<1> QED
  BY <1>1, KeptTasks DEF dbVars

\* Agents plan tasks and give results up.
LEMMA AgentRewrites ==
  ASSUME TypeOK, NEW a \in Agents, AgentStep(a) \/ AgentCrash(a)
  PROVE  Rewrites \/ Plans
<1>1. session.cv \in Nat
  BY RowNumbers
<1>2. UNCHANGED dbVars => Rewrites
  BY KeptTasks DEF dbVars
<1>3. CASE ReadStreams(a)
  BY <1>2, <1>3 DEF ReadStreams
<1>4. CASE CreateTasks(a)
  <2> DEFINE k == InHand(a)
  <2>1. CASE UNCHANGED dbVars
    BY <1>2, <2>1
  <2>2. CASE /\ PacketCurrent(k)
             /\ tasks' = Append(tasks, [turn |-> k.turn, cv |-> k.cv,
                  pref |-> k.pref, itin |-> k.itin, status |-> "queued",
                  tool |-> "none"])
             /\ Emit(<<Event("task.queued", <<NewTask>>, k.turn, k.cv,
                             k.pref, {})>>, session.cv)
    <3>1. k \in Packet
      BY <1>4, MessageInHand DEF CreateTasks, Working
    <3>2. k.cv = session.cv /\ session'.cv = session.cv
          /\ k.itin = ConfirmedItinerary
      BY <2>2, EmittedContext DEF PacketCurrent
    <3> HIDE DEF k
    <3> QED
      BY <2>2, <3>1, <3>2 DEF Plans
  <2> QED
    BY <1>4, <2>1, <2>2 DEF CreateTasks
<1>5. CASE ComposeNothing(a)
  BY <1>2, <1>5 DEF ComposeNothing, storeVars
<1>6. CASE ComposeReply(a)
  BY <1>6, EmittedContext, KeptTasks DEF ComposeReply
<1>7. CASE ComposeConflict(a)
  <2> DEFINE n     == InHand(a).turn
             cv    == InHand(a).cv
             stale == Ready(n, cv)
  <2>1. /\ tasks' = [t \in DOMAIN tasks |-> IF t \in stale
                      THEN [tasks[t] EXCEPT !.status = "discarded"]
                      ELSE tasks[t]]
        /\ session'.cv = session.cv
    BY <1>7, EmittedContext DEF ComposeConflict
  <2> HIDE DEF stale
  <2>2. /\ DOMAIN tasks' = DOMAIN tasks
        /\ \A t \in DOMAIN tasks :
             /\ SamePlan(t) /\ tasks'[t].tool = tasks[t].tool
             /\ tasks'[t].status = IF t \in stale THEN "discarded"
                                   ELSE tasks[t].status
    BY <2>1, NewStatus
  <2>3. session.cv <= session'.cv
    BY <1>1, <2>1
  <2> QED
    BY <2>2, <2>3 DEF Rewrites
<1>8. CASE RebuildPacket(a)
  BY <1>2, <1>8 DEF RebuildPacket, storeVars
<1>9. CASE AgentCrash(a)
  BY <1>2, <1>9 DEF AgentCrash
<1> QED
  BY <1>3, <1>4, <1>5, <1>6, <1>7, <1>8, <1>9 DEF AgentStep

-----------------------------------------------------------------------------
(* What a step of a worker does.                                           *)

\* One task gets a status and its tool call one: no other row changes.
SettledAs(t, status, tool) ==
  /\ session'.cv = session.cv
  /\ DOMAIN tasks' = DOMAIN tasks
  /\ SamePlan(t) /\ tasks'[t].status = status /\ tasks'[t].tool = tool
  /\ \A u \in DOMAIN tasks \ {t} : tasks'[u] = tasks[u]

\* The worker writes no row.  It becomes idle, goes on with the task it
\* executes, or has received one and loaded it.
Moves(w) ==
  /\ UNCHANGED <<session, tasks>>
  /\ \/ workers'[w].pc = "idle"
     \/ /\ Executing(w) /\ workers'[w].pc # "start"
        /\ workers'[w].task = workers[w].task
        /\ \/ workers'[w].seen = workers[w].seen
           \/ workers'[w].seen = tasks[workers[w].task].status
     \/ /\ workers'[w].pc = "start"
        /\ workers'[w].task \in DOMAIN tasks
        /\ workers'[w].seen = tasks[workers'[w].task].status

\* The first worker that finds the task queued makes its tool call.
Starts(w) ==
  LET t == workers[w].task
  IN /\ ~On(w, "idle") /\ workers[w].seen = "queued"
     /\ tasks[t].tool = "none" /\ SettledAs(t, "running", "running")
     /\ workers'[w].task = t /\ workers'[w].seen = "queued"

\* A task whose cancellation was requested is not started.
Cancels(w) ==
  LET t == workers[w].task
  IN /\ ~On(w, "idle") /\ workers[w].seen = "cancel_requested"
     /\ SettledAs(t, "cancelled", tasks[t].tool)
     /\ workers'[w].pc = "idle"

\* The worker that executes the task writes its outcome.
Ends(w) ==
  LET t == workers[w].task
  IN /\ Executing(w)
     /\ \E o \in Run!Outcomes :
          /\ SettledAs(t, o, o)
          /\ o = "succeeded" => tasks[t].cv = session.cv
     /\ workers'[w].pc = "idle"

\* A worker's transaction settles its task and no other.
LEMMA SettleRows ==
  ASSUME TypeOK, NEW t \in DOMAIN tasks, NEW status, NEW tool, NEW type,
         Settle(t, status, tool, type)
  PROVE  SettledAs(t, status, tool)
<1>1. tasks' = [tasks EXCEPT ![t] =
                  [tasks[t] EXCEPT !.status = status, !.tool = tool]]
      /\ session'.cv = session.cv
  BY TaskRow, EmittedContext DEF Settle, SetTask
<1>2. tasks[t] \in Task
  BY TaskRow
<1>3. tasks'[t] = [tasks[t] EXCEPT !.status = status, !.tool = tool]
  BY <1>1
<1>4. SamePlan(t) /\ tasks'[t].status = status /\ tasks'[t].tool = tool
  BY <1>2, <1>3 DEF SamePlan, Task
<1> QED
  BY <1>1, <1>4 DEF SettledAs

\* A worker's next state.
LEMMA BecomeState ==
  ASSUME TypeOK, NEW w \in Workers, NEW pc, NEW task, NEW seen, NEW late,
         Become(w, pc, task, seen, late)
  PROVE  /\ workers'[w].pc = pc /\ workers'[w].task = task
         /\ workers'[w].seen = seen
         /\ \A v \in Workers \ {w} : workers'[v] = workers[v]
BY DEF Become, TypeOK, ProcessTypeOK

\* A worker that leaves its task.
LEMMA LeaveState ==
  ASSUME TypeOK, NEW w \in Workers, Leave(w)
  PROVE  /\ workers'[w].pc = "idle"
         /\ \A v \in Workers \ {w} : workers'[v] = workers[v]
BY BecomeState DEF Leave

\* Every step of a worker is one of the four.
LEMMA WorkerMoves ==
  ASSUME TypeOK, ExecutorsRun, NEW w \in Workers,
         WorkerStep(w) \/ Raise(w) \/ WorkerCrash(w)
  PROVE  /\ Moves(w) \/ Starts(w) \/ Cancels(w) \/ Ends(w)
         /\ \A v \in Workers \ {w} : workers'[v] = workers[v]
<1> DEFINE t      == workers[w].task
           Others == \A v \in Workers \ {w} : workers'[v] = workers[v]
           Goal   == (Moves(w) \/ Starts(w) \/ Cancels(w) \/ Ends(w)) /\ Others
<1>1. UNCHANGED storeVars => UNCHANGED <<session, tasks>>
  BY DEF storeVars, dbVars
<1>2. UNCHANGED dbVars => UNCHANGED <<session, tasks>>
  BY DEF dbVars
<1>3. ASSUME UNCHANGED <<session, tasks>>, Leave(w)
      PROVE  Goal
  BY <1>3, LeaveState DEF Moves
<1>4. ASSUME UNCHANGED <<session, tasks>>, Executing(w), NEW pc, NEW seen,
             NEW late, pc # "start", Become(w, pc, t, seen, late),
             seen = workers[w].seen \/ seen = tasks[t].status
      PROVE  Goal
  BY <1>4, BecomeState DEF Moves
<1>5. ASSUME UNCHANGED <<session, tasks>>, Executing(w), NEW pc, pc # "start",
             Goto(w, pc)
      PROVE  Goal
  BY <1>4, <1>5 DEF Goto
<1>6. ~On(w, "idle") => t \in DOMAIN tasks
  BY TaskInHand
<1>7. ASSUME Executing(w), NEW o \in Run!Outcomes, NEW type,
             Settle(t, o, o, type), o = "succeeded" => tasks[t].cv = session.cv,
             Leave(w)
      PROVE  Goal
  <2>1. ~On(w, "idle")
    BY <1>7 DEF Executing, On
  <2>2. SettledAs(t, o, o)
    BY <1>6, <1>7, <2>1, SettleRows
  <2>3. workers'[w].pc = "idle" /\ Others
    BY <1>7, LeaveState
  <2> QED
    BY <1>7, <2>2, <2>3 DEF Ends
<1>8. /\ "cancelled" \in Run!Outcomes /\ "discarded" \in Run!Outcomes
      /\ "failed" \in Run!Outcomes /\ "succeeded" \in Run!Outcomes
  BY DEF Run!Outcomes
<1>9. CASE ReceiveTask(w)
  <2> DEFINE u == NextEntry("tasks")
  <2>1. /\ Become(w, "start", u, tasks[u].status, FALSE)
        /\ UNCHANGED <<session, tasks>>
    BY <1>2, <1>9 DEF ReceiveTask
  <2>2. /\ workers'[w].pc = "start" /\ workers'[w].task = u
        /\ workers'[w].seen = tasks[u].status /\ Others
    BY <2>1, BecomeState
  <2>3. u \in DOMAIN tasks
    <3>1. stream \in [plan : Seq(Packet), tasks : Seq(Nat), compose : Seq(Packet)]
          /\ delivered \in [plan : Nat, tasks : Nat, compose : Nat]
      BY DEF TypeOK, StoreTypeOK
    <3>2. stream["tasks"] = stream.tasks /\ delivered["tasks"] = delivered.tasks
          /\ stream.tasks \in Seq(Nat) /\ delivered.tasks \in Nat
      BY <3>1
    <3>3. delivered.tasks + 1 \in DOMAIN stream.tasks
      BY <1>9, <3>2, LenProperties DEF ReceiveTask, Undelivered
    <3>4. stream.tasks[delivered.tasks + 1] \in DOMAIN tasks
      BY <3>3 DEF TypeOK, ReferencesOK
    <3> QED
      BY <3>2, <3>4 DEF NextEntry
  <2> QED
    BY <2>1, <2>2, <2>3 DEF Moves
<1>10. CASE StartTask(w)
  <2>1. On(w, "start") /\ ~On(w, "idle") /\ t \in DOMAIN tasks
    BY <1>6, <1>10 DEF StartTask, On
  <2>2. CASE /\ workers[w].seen = "queued" /\ ~ToolCallExists(t)
             /\ Settle(t, "running", "running", "task.running")
             /\ Goto(w, "check")
    <3>1. SettledAs(t, "running", "running")
      BY <2>1, <2>2, SettleRows
    <3>2. /\ workers'[w].task = t /\ workers'[w].seen = "queued" /\ Others
      BY <2>2, BecomeState DEF Goto
    <3> QED
      BY <2>1, <2>2, <3>1, <3>2 DEF Starts, ToolCallExists
  <2>3. CASE /\ workers[w].seen = "cancel_requested"
             /\ Settle(t, "cancelled", tasks[t].tool, "task.cancelled")
             /\ Leave(w)
    <3>1. SettledAs(t, "cancelled", tasks[t].tool)
      BY <2>1, <2>3, SettleRows
    <3> QED
      BY <2>1, <2>3, <3>1, LeaveState DEF Cancels
  <2>4. CASE UNCHANGED storeVars /\ Leave(w)
    BY <1>1, <1>3, <2>4
  <2> QED
    BY <1>10, <2>2, <2>3, <2>4 DEF StartTask
<1>11. CASE CheckCancelled(w)
  <2>1. Executing(w) /\ UNCHANGED <<session, tasks>>
    BY <1>1, <1>11 DEF CheckCancelled, On, Executing
  <2>2. Goto(w, "load_mark") \/ Goto(w, "execute")
    BY <1>11 DEF CheckCancelled
  <2> QED
    BY <1>5, <2>1, <2>2
<1>12. CASE LoadToMark(w)
  BY <1>1, <1>4, <1>12 DEF LoadToMark, Load, On, Executing
<1>13. CASE MarkCancelled(w)
  <2>1. On(w, "mark") /\ Executing(w) /\ Leave(w)
    BY <1>13 DEF MarkCancelled, On, Executing
  <2>2. tasks[t].tool = "running"
    BY <2>1 DEF ExecutorsRun
  <2>3. \/ Settle(t, "cancelled", "cancelled", "task.cancelled")
        \/ UNCHANGED storeVars
    BY <1>13, <2>2 DEF MarkCancelled
  <2> QED
    BY <1>1, <1>3, <1>7, <1>8, <2>1, <2>3
<1>14. CASE Execute(w)
  <2>1. Executing(w) /\ UNCHANGED <<session, tasks>>
    BY <1>1, <1>14 DEF Execute, On, Executing
  <2>2. PICK cancelled :
          Become(w, "load_commit", t, workers[w].seen, cancelled)
    BY <1>14 DEF Execute
  <2> QED
    BY <1>4, <2>1, <2>2
<1>15. CASE LoadToCommit(w)
  BY <1>1, <1>4, <1>15 DEF LoadToCommit, Load, On, Executing
<1>16. CASE CommitResult(w)
  <2>1. Executing(w) /\ Leave(w)
    BY <1>16 DEF CommitResult, On, Executing
  <2>2. \/ Settle(t, "discarded", "discarded", "task.result.discarded")
        \/ /\ ContextCurrent(t)
           /\ Settle(t, "succeeded", "succeeded", "task.succeeded")
    BY <1>16 DEF CommitResult
  <2> QED
    BY <1>7, <1>8, <2>1, <2>2 DEF ContextCurrent
<1>17. CASE LoadToFail(w)
  BY <1>1, <1>4, <1>17 DEF LoadToFail, Load, On, Executing
<1>18. CASE RecordFailure(w)
  <2>1. Executing(w) /\ Leave(w)
    BY <1>18 DEF RecordFailure, On, Executing
  <2>2. \/ Settle(t, "cancelled", "cancelled", "task.cancelled")
        \/ Settle(t, "failed", "failed", "task.failed")
        \/ UNCHANGED storeVars
    BY <1>18 DEF RecordFailure
  <2> QED
    BY <1>1, <1>3, <1>7, <1>8, <2>1, <2>2
<1>19. CASE Raise(w)
  <2>1. Executing(w) /\ UNCHANGED <<session, tasks>> /\ Goto(w, "load_fail")
    BY <1>2, <1>19 DEF Raise, Executing
  <2> QED
    BY <1>5, <2>1
<1>20. CASE WorkerCrash(w)
  BY <1>2, <1>3, <1>20 DEF WorkerCrash
<1> QED
  BY <1>9, <1>10, <1>11, <1>12, <1>13, <1>14, <1>15, <1>16, <1>17, <1>18,
     <1>19, <1>20 DEF WorkerStep

-----------------------------------------------------------------------------
(* Every step keeps the invariant.                                         *)

\* A task that was overtaken stays so: its result could be accepted only in
\* its context.
LEMMA StillOvertaken ==
  ASSUME TypeOK, NEW t \in DOMAIN tasks, Overtaken(t),
         session.cv <= session'.cv, session'.cv \in Nat,
         tasks'[t].cv = tasks[t].cv,
         tasks'[t].status = "succeeded" => tasks[t].status = "succeeded"
                                           \/ tasks[t].cv = session.cv
  PROVE  Overtaken(t)'
<1>1. tasks[t].cv \in Nat /\ session.cv \in Nat
  BY TaskRow, RowNumbers
<1>2. tasks'[t].status # "succeeded"
  BY <1>1 DEF Overtaken
<1> QED
  BY <1>1, <1>2 DEF Overtaken

\* Who rewrites statuses leaves executions alone.
LEMMA RewritesExecution ==
  ASSUME TypeOK, TypeOK', ExecutionInv, Rewrites, UNCHANGED workers
  PROVE  ExecutionInv'
<1>1. session.cv \in Nat /\ session'.cv \in Nat /\ session.cv <= session'.cv
  BY RowNumbers DEF Rewrites, TypeOK, StoreTypeOK
<1>2. \A w \in Workers : ~On(w, "idle") => workers[w].task \in DOMAIN tasks
  BY TaskInHand
<1>3. \A w \in Workers : Executing(w) => ~On(w, "idle")
  BY DEF Executing, On
<1>4. \A t \in DOMAIN tasks : tasks[t].cv \in Nat
  BY TaskRow
<1>5. OneExecutor'
  BY DEF ExecutionInv, OneExecutor, Executing
<1>6. ExecutorsRun'
  BY <1>2, <1>3 DEF ExecutionInv, ExecutorsRun, Executing, Rewrites
<1>7. SucceededRan'
  BY DEF ExecutionInv, SucceededRan, Rewrites
<1>8. \A t \in DOMAIN tasks : Overtaken(t) => Overtaken(t)'
  BY <1>1, <1>4, StillOvertaken DEF Rewrites, SamePlan
<1>9. ASSUME NEW t \in DOMAIN tasks'
      PROVE  /\ tasks'[t].cv <= session'.cv
             /\ tasks'[t].status = "cancel_requested" => Overtaken(t)'
  <2>1. t \in DOMAIN tasks /\ tasks'[t].cv = tasks[t].cv
    BY DEF Rewrites, SamePlan
  <2>2. tasks[t].cv <= session.cv
        /\ (tasks[t].status = "cancel_requested" => Overtaken(t))
    BY <2>1 DEF ExecutionInv, CancelledOvertaken
  <2>3. tasks'[t].cv <= session'.cv
    BY <1>1, <1>4, <2>1, <2>2
  <2>4. ASSUME tasks'[t].status = "cancel_requested"
        PROVE  Overtaken(t)'
    <3>1. CASE tasks'[t].status = tasks[t].status
      BY <1>8, <2>1, <2>2, <2>4, <3>1
    <3>2. CASE tasks[t].cv < session'.cv
      BY <2>1, <2>4, <3>2 DEF Overtaken
    <3> QED
      BY <2>1, <2>4, <3>1, <3>2 DEF Rewrites
  <2> QED
    BY <2>3, <2>4
<1>10. CancelledOvertaken'
  <2>1. \A w \in Workers :
          ~On(w, "idle") /\ workers[w].seen = "cancel_requested"
            => Overtaken(workers[w].task)
    BY DEF ExecutionInv, CancelledOvertaken
  <2>2. ASSUME NEW w \in Workers, ~On(w, "idle")',
               workers'[w].seen = "cancel_requested"
        PROVE  Overtaken(workers[w].task)'
    <3>1. ~On(w, "idle") /\ workers[w].seen = "cancel_requested"
      BY <2>2 DEF On
    <3>2. workers[w].task \in DOMAIN tasks /\ Overtaken(workers[w].task)
      BY <1>2, <2>1, <3>1
    <3>3. Overtaken(workers[w].task)'
      BY <1>8, <3>2 DEF Overtaken
    <3> QED
      BY <3>3
  <2> QED
    BY <1>9, <2>2 DEF CancelledOvertaken
<1> QED
  BY <1>5, <1>6, <1>7, <1>10 DEF ExecutionInv

\* The row a planner adds.
LEMMA PlannedRow ==
  ASSUME TypeOK, Plans
  PROVE  /\ session'.cv = session.cv
         /\ DOMAIN tasks' = 1..(Len(tasks) + 1) /\ Len(tasks') = Len(tasks) + 1
         /\ \A t \in DOMAIN tasks : tasks'[t] = tasks[t]
         /\ tasks'[Len(tasks) + 1].cv = session.cv
         /\ tasks'[Len(tasks) + 1].itin = ConfirmedItinerary
         /\ tasks'[Len(tasks) + 1].status = "queued"
         /\ tasks'[Len(tasks) + 1].tool = "none"
<1>1. tasks \in Seq(Task) /\ Len(tasks) \in Nat /\ DOMAIN tasks = 1..Len(tasks)
  BY RowNumbers DEF TypeOK, StoreTypeOK
<1>2. PICK k \in Packet :
        /\ k.cv = session.cv /\ k.itin = ConfirmedItinerary
        /\ tasks' = Append(tasks, [turn |-> k.turn, cv |-> k.cv,
             pref |-> k.pref, itin |-> k.itin, status |-> "queued",
             tool |-> "none"])
  BY DEF Plans
<1> DEFINE row == [turn |-> k.turn, cv |-> k.cv, pref |-> k.pref,
                   itin |-> k.itin, status |-> "queued", tool |-> "none"]
<1>3. /\ row.cv = session.cv /\ row.itin = ConfirmedItinerary
      /\ row.status = "queued" /\ row.tool = "none"
  BY <1>2
<1>4. row \in Task
  BY DEF Task, Packet, TaskStatus, ToolStatus
<1>5. tasks' = Append(tasks, row)
  BY <1>2
<1> HIDE DEF row
<1>6. /\ tasks' \in Seq(Task) /\ Len(tasks') = Len(tasks) + 1
      /\ \A i \in 1..Len(tasks) : tasks'[i] = tasks[i]
      /\ tasks'[Len(tasks) + 1] = row
  BY <1>1, <1>4, <1>5, AppendProperties
<1> QED
  BY <1>1, <1>3, <1>6, LenProperties DEF Plans

\* A new task is nobody's yet.
LEMMA PlansExecution ==
  ASSUME TypeOK, TypeOK', ExecutionInv, Plans, UNCHANGED workers
  PROVE  ExecutionInv'
<1>1. /\ session'.cv = session.cv /\ session.cv \in Nat /\ Len(tasks) \in Nat
      /\ DOMAIN tasks = 1..Len(tasks) /\ DOMAIN tasks' = 1..(Len(tasks) + 1)
      /\ \A t \in DOMAIN tasks : tasks'[t] = tasks[t]
      /\ tasks'[Len(tasks) + 1].cv = session.cv
      /\ tasks'[Len(tasks) + 1].status = "queued"
  BY PlannedRow, RowNumbers
<1>2. \A w \in Workers : ~On(w, "idle") => workers[w].task \in DOMAIN tasks
  BY TaskInHand
<1>3. \A w \in Workers : Executing(w) => ~On(w, "idle")
  BY DEF Executing, On
<1>4. \A t \in DOMAIN tasks' : t \in DOMAIN tasks \/ t = Len(tasks) + 1
  BY <1>1
<1>5. OneExecutor'
  BY DEF ExecutionInv, OneExecutor, Executing
<1>6. ExecutorsRun'
  BY <1>1, <1>2, <1>3 DEF ExecutionInv, ExecutorsRun, Executing
<1>7. SucceededRan'
  BY <1>1, <1>4 DEF ExecutionInv, SucceededRan
<1>8. \A t \in DOMAIN tasks : Overtaken(t) => Overtaken(t)'
  BY <1>1 DEF Overtaken
<1>9. CancelledOvertaken'
  <2>1. ASSUME NEW t \in DOMAIN tasks'
        PROVE  /\ tasks'[t].cv <= session'.cv
               /\ tasks'[t].status = "cancel_requested" => Overtaken(t)'
    BY <1>1, <1>4, <1>8 DEF ExecutionInv, CancelledOvertaken
  <2>2. \A w \in Workers :
          ~On(w, "idle") /\ workers[w].seen = "cancel_requested"
            => Overtaken(workers[w].task)
    BY DEF ExecutionInv, CancelledOvertaken
  <2>3. ASSUME NEW w \in Workers, ~On(w, "idle"),
               workers[w].seen = "cancel_requested"
        PROVE  Overtaken(workers[w].task)'
    <3>1. workers[w].task \in DOMAIN tasks /\ Overtaken(workers[w].task)
      BY <1>2, <2>2, <2>3
    <3> QED
      BY <1>1, <3>1 DEF Overtaken
  <2> QED
    BY <2>1, <2>3 DEF CancelledOvertaken, On
<1> QED
  BY <1>5, <1>6, <1>7, <1>9 DEF ExecutionInv

\* What a worker's transaction leaves of the tasks' contexts.
LEMMA SettledRows ==
  ASSUME TypeOK, CancelledOvertaken, NEW t \in DOMAIN tasks,
         NEW status, NEW tool, SettledAs(t, status, tool),
         status # "cancel_requested",
         status = "succeeded" => tasks[t].cv = session.cv
  PROVE  /\ \A u \in DOMAIN tasks : Overtaken(u) => Overtaken(u)'
         /\ \A u \in DOMAIN tasks' :
              /\ tasks'[u].cv <= session'.cv
              /\ tasks'[u].status = "cancel_requested" => Overtaken(u)'
<1>1. session.cv \in Nat /\ session'.cv = session.cv
  BY RowNumbers DEF SettledAs
<1>2. ASSUME NEW u \in DOMAIN tasks
      PROVE  /\ tasks'[u].cv = tasks[u].cv /\ tasks[u].cv \in Nat
             /\ tasks'[u].status = "succeeded" =>
                  tasks[u].status = "succeeded" \/ tasks[u].cv = session.cv
             /\ tasks'[u].status = "cancel_requested" =>
                  tasks[u].status = "cancel_requested"
  BY TaskRow DEF SettledAs, SamePlan
<1>3. \A u \in DOMAIN tasks : Overtaken(u) => Overtaken(u)'
  BY <1>1, <1>2 DEF Overtaken
<1>4. \A u \in DOMAIN tasks' :
        /\ tasks'[u].cv <= session'.cv
        /\ tasks'[u].status = "cancel_requested" => Overtaken(u)'
  BY <1>1, <1>2, <1>3 DEF SettledAs, CancelledOvertaken
<1> QED
  BY <1>3, <1>4

\* Workers keep what they have loaded of cancelled tasks right.
LEMMA WorkerCancelled ==
  ASSUME TypeOK, TypeOK', ExecutionInv, NEW w \in Workers,
         Moves(w) \/ Starts(w) \/ Cancels(w) \/ Ends(w),
         \A v \in Workers \ {w} : workers'[v] = workers[v]
  PROVE  CancelledOvertaken'
<1> DEFINE t == workers[w].task
<1>1. /\ CancelledOvertaken
      /\ \A v \in Workers : ~On(v, "idle") => workers[v].task \in DOMAIN tasks
  BY TaskInHand DEF ExecutionInv
<1>2. Executing(w) => ~On(w, "idle")
  BY DEF Executing, On
\* It is enough that nothing overtaken is not so any more.
<1>3. ASSUME \A u \in DOMAIN tasks : Overtaken(u) => Overtaken(u)',
             \A u \in DOMAIN tasks' :
               /\ tasks'[u].cv <= session'.cv
               /\ tasks'[u].status = "cancel_requested" => Overtaken(u)',
             \/ workers'[w].pc = "idle"
             \/ workers'[w].seen # "cancel_requested"
             \/ /\ workers'[w].task \in DOMAIN tasks
                /\ Overtaken(workers'[w].task)
      PROVE  CancelledOvertaken'
  <2>1. ASSUME NEW v \in Workers, workers'[v].pc # "idle",
               workers'[v].seen = "cancel_requested"
        PROVE  /\ tasks'[workers'[v].task].cv < session'.cv
               /\ tasks'[workers'[v].task].status # "succeeded"
    <3>1. workers'[v].task \in DOMAIN tasks /\ Overtaken(workers'[v].task)
      BY <1>1, <1>3, <2>1 DEF CancelledOvertaken, On
    <3> QED
      BY <1>3, <3>1 DEF Overtaken
  <2> QED
    BY <1>3, <2>1 DEF CancelledOvertaken, On, Overtaken
<1>4. CASE Moves(w)
  <2>1. \A u \in DOMAIN tasks : Overtaken(u) => Overtaken(u)'
    BY <1>4 DEF Moves, Overtaken
  <2>2. \A u \in DOMAIN tasks' :
          /\ tasks'[u].cv <= session'.cv
          /\ tasks'[u].status = "cancel_requested" => Overtaken(u)'
    BY <1>1, <1>4, <2>1 DEF Moves, CancelledOvertaken
  <2>3. \/ workers'[w].pc = "idle"
        \/ workers'[w].seen # "cancel_requested"
        \/ /\ workers'[w].task \in DOMAIN tasks
           /\ Overtaken(workers'[w].task)
    BY <1>1, <1>2, <1>4 DEF Moves, CancelledOvertaken
  <2> QED
    BY <1>3, <2>1, <2>2, <2>3
<1>5. CASE Starts(w)
  BY <1>1, <1>3, <1>5, SettledRows DEF Starts
<1>6. CASE Cancels(w)
  BY <1>1, <1>3, <1>6, SettledRows DEF Cancels
<1>7. CASE Ends(w)
  <2>1. PICK o \in Run!Outcomes :
          SettledAs(t, o, o) /\ (o = "succeeded" => tasks[t].cv = session.cv)
    BY <1>7 DEF Ends
  <2>2. t \in DOMAIN tasks /\ workers'[w].pc = "idle" /\ o # "cancel_requested"
    BY <1>1, <1>2, <1>7 DEF Ends, Run!Outcomes
  <2> QED
    BY <1>1, <1>3, <2>1, <2>2, SettledRows
<1> QED
  BY <1>4, <1>5, <1>6, <1>7

\* Workers keep executions apart: one starts only where no tool call was made,
\* and a tool call that was made stays.
LEMMA WorkerExecutes ==
  ASSUME TypeOK, TypeOK', ExecutionInv, NEW w \in Workers,
         Moves(w) \/ Starts(w) \/ Cancels(w) \/ Ends(w),
         \A v \in Workers \ {w} : workers'[v] = workers[v]
  PROVE  OneExecutor' /\ ExecutorsRun' /\ SucceededRan'
<1> DEFINE t == workers[w].task
<1>1. /\ OneExecutor /\ ExecutorsRun /\ SucceededRan
      /\ \A v \in Workers : ~On(v, "idle") => workers[v].task \in DOMAIN tasks
  BY TaskInHand DEF ExecutionInv
<1>2. \A v \in Workers : Executing(v) => ~On(v, "idle") /\ ~On(v, "start")
  BY DEF Executing, On
\* The worker stops executing, or does not begin to.
<1>3. ASSUME \/ ~Executing(w)'
             \/ Executing(w) /\ workers'[w].task = workers[w].task
      PROVE  /\ OneExecutor'
             /\ \A v \in Workers : Executing(v)' =>
                  Executing(v) /\ workers'[v].task = workers[v].task
  <2>1. \A v \in Workers : Executing(v)' =>
          Executing(v) /\ workers'[v].task = workers[v].task
    BY <1>3 DEF Executing
  <2> QED
    BY <1>1, <2>1 DEF OneExecutor
<1>4. CASE Moves(w)
  <2>1. \/ ~Executing(w)'
        \/ Executing(w) /\ workers'[w].task = workers[w].task
    BY <1>4 DEF Moves, Executing
  <2> QED
    BY <1>1, <1>3, <1>4, <2>1 DEF Moves, ExecutorsRun, SucceededRan
<1>5. CASE Starts(w)
  <2>1. /\ t \in DOMAIN tasks /\ tasks[t].tool = "none"
        /\ SettledAs(t, "running", "running") /\ workers'[w].task = t
    BY <1>1, <1>5 DEF Starts
  <2>2. \A v \in Workers : Executing(v) => workers[v].task # t
    BY <1>1, <2>1 DEF ExecutorsRun
  <2>3. \A v \in Workers \ {w} : Executing(v)' =>
          Executing(v) /\ workers'[v].task = workers[v].task
    BY DEF Executing
  <2>4. OneExecutor'
    BY <1>1, <2>1, <2>2, <2>3 DEF OneExecutor
  <2>5. \A v \in Workers \ {w} : Executing(v)' =>
          tasks'[workers'[v].task].tool = "running"
    BY <1>1, <1>2, <2>1, <2>2, <2>3 DEF ExecutorsRun, SettledAs
  <2>6. tasks'[workers'[w].task].tool = "running"
    BY <2>1 DEF SettledAs
  <2>7. SucceededRan'
    BY <1>1, <2>1 DEF SucceededRan, SettledAs
  <2> QED
    BY <2>4, <2>5, <2>6, <2>7 DEF ExecutorsRun
<1>6. CASE Cancels(w)
  <2>1. /\ t \in DOMAIN tasks /\ ~Executing(w)'
        /\ SettledAs(t, "cancelled", tasks[t].tool)
    BY <1>1, <1>6 DEF Cancels, Executing
  <2>2. \A v \in Workers : Executing(v)' =>
          Executing(v) /\ workers'[v].task = workers[v].task
    BY <1>3, <2>1
  <2>3. \A u \in DOMAIN tasks : tasks'[u].tool = tasks[u].tool
    BY <2>1 DEF SettledAs
  <2>4. ExecutorsRun'
    BY <1>1, <1>2, <2>2, <2>3 DEF ExecutorsRun
  <2>5. SucceededRan'
    BY <1>1, <2>1 DEF SucceededRan, SettledAs
  <2> QED
    BY <1>3, <2>1, <2>4, <2>5
<1>7. CASE Ends(w)
  <2>1. PICK o \in Run!Outcomes : SettledAs(t, o, o)
    BY <1>7 DEF Ends
  <2>2. t \in DOMAIN tasks /\ Executing(w) /\ ~Executing(w)'
    BY <1>1, <1>2, <1>7 DEF Ends, Executing
  <2>3. \A v \in Workers : Executing(v)' =>
          Executing(v) /\ workers'[v].task = workers[v].task
    BY <1>3, <2>2
  <2>4. \A v \in Workers : Executing(v)' => workers[v].task # t
    BY <1>1, <2>2, <2>3 DEF OneExecutor
  <2>5. ExecutorsRun'
    BY <1>1, <1>2, <2>1, <2>3, <2>4 DEF ExecutorsRun, SettledAs
  <2>6. SucceededRan'
    BY <1>1, <2>1, <2>2 DEF SucceededRan, SettledAs
  <2> QED
    BY <1>3, <2>2, <2>5, <2>6
<1> QED
  BY <1>4, <1>5, <1>6, <1>7

\* Every step of the system keeps the invariant.
LEMMA StepExecution ==
  ASSUME TypeOK, TypeOK', ExecutionInv, [Next]_vars
  PROVE  ExecutionInv'
<1>1. CASE UNCHANGED vars
  BY <1>1, KeptTasks, RewritesExecution DEF vars, processVars, storeVars, dbVars
<1>2. CASE \E r \in Requests : HandleRequest(r)
  BY <1>2, GatewayRewrites, RewritesExecution DEF HandleRequest
<1>3. CASE \E p \in Publishers : Publish(p)
  BY <1>3, PublisherRewrites, RewritesExecution DEF Publish
<1>4. CASE \E a \in Agents : RunAgent(a)
  BY <1>4, AgentRewrites, RewritesExecution, PlansExecution DEF RunAgent
<1>5. ASSUME NEW w \in Workers, WorkerStep(w) \/ Raise(w) \/ WorkerCrash(w)
      PROVE  ExecutionInv'
  <2>1. /\ Moves(w) \/ Starts(w) \/ Cancels(w) \/ Ends(w)
        /\ \A v \in Workers \ {w} : workers'[v] = workers[v]
    BY <1>5, WorkerMoves DEF ExecutionInv
  <2> QED
    BY <2>1, WorkerCancelled, WorkerExecutes DEF ExecutionInv
<1>6. CASE \E w \in Workers : RunWorker(w)
  BY <1>5, <1>6 DEF RunWorker
<1>7. CASE GoWrong
  BY <1>5, <1>7, PublisherRewrites, AgentRewrites, RewritesExecution,
     PlansExecution DEF GoWrong
<1>8. CASE ConfirmByHand
  BY <1>8, KeptTasks, RewritesExecution DEF ConfirmByHand, processVars
<1> QED
  BY <1>1, <1>2, <1>3, <1>4, <1>6, <1>7, <1>8 DEF Next

\* Executions, tool calls and cancellations fit together in every state.
LEMMA ExecutionHolds == Spec => []ExecutionInv
<1>1. Init => ExecutionInv
  <2> SUFFICES ASSUME Init PROVE ExecutionInv
    OBVIOUS
  <2>1. DOMAIN tasks = {} /\ \A w \in Workers : workers[w].pc = "idle"
    BY DEF Init, StoreInit, WorkerInit
  <2> QED
    BY <2>1 DEF ExecutionInv, OneExecutor, ExecutorsRun, SucceededRan,
                CancelledOvertaken, Executing, On
<1>2. TypeOK /\ TypeOK' /\ ExecutionInv /\ [Next]_vars => ExecutionInv'
  BY StepExecution
<1> QED
  BY <1>1, <1>2, TypeCorrect, PTL DEF Spec

\* Two workers never execute one task, however often its message is sent and
\* whoever loaded the row as queued.
THEOREM OneExecutes == Spec => []OneExecutor
BY ExecutionHolds, PTL DEF ExecutionInv

-----------------------------------------------------------------------------
(* The workers implement ToolRun.                                          *)

Calls    == [t \in DOMAIN tasks |-> tasks[t].tool]
Accepted == {t \in DOMAIN tasks : tasks[t].status = "succeeded"}

\* The tool calls are a sequence, one for each task.
LEMMA CallsType ==
  ASSUME TypeOK
  PROVE  /\ Calls \in Seq(ToolStatus) /\ Len(Calls) = Len(tasks)
         /\ DOMAIN Calls = DOMAIN tasks
<1>1. Len(tasks) \in Nat /\ DOMAIN tasks = 1..Len(tasks)
  BY RowNumbers
<1>2. \A t \in DOMAIN tasks : tasks[t].tool \in ToolStatus
  BY TaskRow
<1>3. Calls \in [1..Len(tasks) -> ToolStatus]
  BY <1>1, <1>2 DEF Calls
<1>4. Calls \in Seq(ToolStatus)
  BY <1>1, <1>3, SeqDef
<1> QED
  BY <1>1, <1>3, <1>4, LenProperties DEF Calls

\* Rewriting statuses accepts nothing and touches no tool call.
LEMMA RewritesRun ==
  ASSUME TypeOK, Rewrites
  PROVE  Run!GiveUp
<1>1. Calls' = Calls
  BY DEF Calls, Rewrites
<1>2. Accepted' \in SUBSET Accepted
  BY DEF Accepted, Rewrites
<1> QED
  BY <1>1, <1>2 DEF Run!GiveUp, Calls, Accepted

\* A planned task has no tool call.
LEMMA PlansRun ==
  ASSUME TypeOK, TypeOK', Plans
  PROVE  Run!Plan
<1>1. /\ Len(tasks) \in Nat /\ DOMAIN tasks = 1..Len(tasks)
      /\ DOMAIN tasks' = 1..(Len(tasks) + 1)
      /\ \A t \in DOMAIN tasks : tasks'[t] = tasks[t]
      /\ tasks'[Len(tasks) + 1].status = "queued"
      /\ tasks'[Len(tasks) + 1].tool = "none"
      /\ Len(tasks') = Len(tasks) + 1
  BY PlannedRow, RowNumbers
<1>2. Accepted' = Accepted
  BY <1>1 DEF Accepted
<1>3. Calls' \in Seq(ToolStatus) /\ Len(Calls') = Len(tasks) + 1
  <2>1. \A t \in DOMAIN tasks' : tasks'[t].tool \in ToolStatus
    <3>1. \A t \in DOMAIN tasks : tasks[t].tool \in ToolStatus
      BY TaskRow
    <3>2. \A t \in DOMAIN tasks' : t \in DOMAIN tasks \/ t = Len(tasks) + 1
      BY <1>1
    <3> QED
      BY <1>1, <3>1, <3>2 DEF ToolStatus
  <2>2. Calls' \in [1..(Len(tasks) + 1) -> ToolStatus]
    BY <1>1, <2>1 DEF Calls
  <2>3. Len(tasks) + 1 \in Nat
    BY <1>1
  <2>4. Calls' \in Seq(ToolStatus)
    BY <2>2, <2>3, SeqDef
  <2>5. DOMAIN Calls' = 1..(Len(tasks) + 1)
    BY <2>2
  <2> QED
    BY <2>3, <2>4, <2>5, LenProperties
<1>4. Calls \in Seq(ToolStatus) /\ Len(Calls) = Len(tasks)
  BY CallsType
<1>5. /\ Append(Calls, "none") \in Seq(ToolStatus)
      /\ Len(Append(Calls, "none")) = Len(tasks) + 1
      /\ \A t \in 1..Len(tasks) : Append(Calls, "none")[t] = Calls[t]
      /\ Append(Calls, "none")[Len(tasks) + 1] = "none"
  BY <1>4, AppendProperties DEF ToolStatus
<1>6. \A t \in 1..(Len(tasks) + 1) : Calls'[t] = Append(Calls, "none")[t]
  <2> TAKE t \in 1..(Len(tasks) + 1)
  <2>1. Calls'[t] = tasks'[t].tool
    <3>1. t \in DOMAIN tasks'
      BY <1>1
    <3> QED
      BY <3>1 DEF Calls
  <2>2. CASE t \in 1..Len(tasks)
    BY <1>1, <1>5, <2>1, <2>2 DEF Calls
  <2>3. CASE t = Len(tasks) + 1
    <3>1. tasks'[t].tool = "none"
      BY <1>1, <2>3
    <3> QED
      BY <1>5, <2>1, <2>3, <3>1
  <2>4. t \in 1..Len(tasks) \/ t = Len(tasks) + 1
    <3>1. Len(tasks) \in Nat
      BY <1>1
    <3> QED
      BY <3>1
  <2> QED
    BY <2>2, <2>3, <2>4
<1>7. Calls' = Append(Calls, "none")
  BY <1>3, <1>5, <1>6, SeqEqual
<1> QED
  BY <1>2, <1>7 DEF Run!Plan, Calls, Accepted

\* What a worker's transaction makes of one tool call.
LEMMA SettledRun ==
  ASSUME TypeOK, SucceededRan, NEW t \in DOMAIN tasks, NEW status, NEW tool,
         SettledAs(t, status, tool)
  PROVE  /\ Calls' = [Calls EXCEPT ![t] = tool]
         /\ status = "succeeded" => Accepted' = Accepted \cup {t}
         /\ status # "succeeded" => Accepted' = Accepted \ {t}
         /\ tasks[t].tool # "succeeded" => t \notin Accepted
<1>1. /\ DOMAIN tasks' = DOMAIN tasks
      /\ tasks'[t].status = status /\ tasks'[t].tool = tool
      /\ \A u \in DOMAIN tasks \ {t} : tasks'[u] = tasks[u]
  BY DEF SettledAs
<1>2. Calls' = [Calls EXCEPT ![t] = tool]
  BY <1>1 DEF Calls
<1>3. /\ status = "succeeded" => Accepted' = Accepted \cup {t}
      /\ status # "succeeded" => Accepted' = Accepted \ {t}
  BY <1>1 DEF Accepted
<1>4. tasks[t].tool # "succeeded" => t \notin Accepted
  BY DEF Accepted, SucceededRan
<1> QED
  BY <1>2, <1>3, <1>4

\* A step of a worker starts a tool call that was not made, ends one that
\* runs, gives a result up, or does nothing to any.
LEMMA WorkerRun ==
  ASSUME TypeOK, TypeOK', ExecutionInv, NEW w \in Workers,
         Moves(w) \/ Starts(w) \/ Cancels(w) \/ Ends(w)
  PROVE  Run!Next
<1> DEFINE t == workers[w].task
<1>1. SucceededRan /\ (~On(w, "idle") => t \in DOMAIN tasks /\ t \in DOMAIN Calls)
  BY TaskInHand, CallsType DEF ExecutionInv
<1>2. CASE Moves(w)
  <2>1. Run!GiveUp
    BY <1>2 DEF Moves, Run!GiveUp
  <2> QED
    BY <2>1 DEF Run!Next
<1>3. CASE Starts(w)
  <2>1. /\ t \in DOMAIN tasks /\ t \in DOMAIN Calls /\ tasks[t].tool = "none"
        /\ SettledAs(t, "running", "running")
    BY <1>1, <1>3 DEF Starts
  <2>2. Calls' = [Calls EXCEPT ![t] = "running"] /\ Accepted' = Accepted
    BY <1>1, <2>1, SettledRun
  <2>3. Calls[t] = "none"
    BY <2>1 DEF Calls
  <2>4. Run!Start(t)
    BY <2>2, <2>3 DEF Run!Start, Calls, Accepted
  <2> QED
    <3>1. \E u \in DOMAIN Calls : Run!Start(u)
      BY <2>1, <2>4 DEF Run!Start
    <3> QED
      BY <3>1 DEF Run!Next, Calls
<1>4. CASE Cancels(w)
  <2>1. t \in DOMAIN tasks /\ SettledAs(t, "cancelled", tasks[t].tool)
    BY <1>1, <1>4 DEF Cancels
  <2>2. /\ Calls' = [Calls EXCEPT ![t] = tasks[t].tool]
        /\ Accepted' = Accepted \ {t}
    BY <1>1, <2>1, SettledRun
  <2>3. Calls' = Calls
    BY <2>1, <2>2 DEF Calls
  <2>4. Run!GiveUp
    BY <2>2, <2>3 DEF Run!GiveUp, Calls, Accepted
  <2> QED
    BY <2>4 DEF Run!Next
<1>5. CASE Ends(w)
  <2>1. ~On(w, "idle")
    BY <1>5 DEF Ends, Executing, On
  <2>2. t \in DOMAIN tasks /\ t \in DOMAIN Calls /\ tasks[t].tool = "running"
    BY <1>1, <1>5, <2>1 DEF Ends, ExecutionInv, ExecutorsRun
  <2>3. PICK o \in Run!Outcomes : SettledAs(t, o, o)
    BY <1>5 DEF Ends
  <2>4. /\ Calls' = [Calls EXCEPT ![t] = o] /\ t \notin Accepted
        /\ Accepted' = IF o = "succeeded" THEN Accepted \cup {t}
                       ELSE Accepted \ {t}
    BY <1>1, <2>2, <2>3, SettledRun
  <2>5. Calls[t] = "running"
    BY <2>2 DEF Calls
  <2>6. Run!Finish(t, o)
    BY <2>4, <2>5 DEF Run!Finish, Calls, Accepted
  <2> QED
    <3>1. \E u \in DOMAIN Calls : \E p \in Run!Outcomes : Run!Finish(u, p)
      BY <2>2, <2>3, <2>6
    <3> QED
      BY <3>1 DEF Run!Next, Calls
<1> QED
  BY <1>2, <1>3, <1>4, <1>5

\* Every step rewrites statuses, plans a task, or is one of a worker.
LEMMA TaskSteps ==
  ASSUME TypeOK, ExecutionInv, [Next]_vars
  PROVE  \/ Rewrites
         \/ Plans
         \/ \E w \in Workers : Moves(w) \/ Starts(w) \/ Cancels(w) \/ Ends(w)
<1>1. CASE UNCHANGED vars
  BY <1>1, KeptTasks DEF vars, storeVars, dbVars
<1>2. CASE \E r \in Requests : HandleRequest(r)
  BY <1>2, GatewayRewrites DEF HandleRequest
<1>3. CASE \E p \in Publishers : Publish(p)
  BY <1>3, PublisherRewrites DEF Publish
<1>4. CASE \E a \in Agents : RunAgent(a)
  BY <1>4, AgentRewrites DEF RunAgent
<1>5. ASSUME NEW w \in Workers, WorkerStep(w) \/ Raise(w) \/ WorkerCrash(w)
      PROVE  Moves(w) \/ Starts(w) \/ Cancels(w) \/ Ends(w)
  BY <1>5, WorkerMoves DEF ExecutionInv
<1>6. CASE \E w \in Workers : RunWorker(w)
  BY <1>5, <1>6 DEF RunWorker
<1>7. CASE GoWrong
  BY <1>5, <1>7, PublisherRewrites, AgentRewrites DEF GoWrong
<1>8. CASE ConfirmByHand
  BY <1>8, KeptTasks DEF ConfirmByHand
<1> QED
  BY <1>1, <1>2, <1>3, <1>4, <1>6, <1>7, <1>8 DEF Next

\* A step of the backend is a step of ToolRun.
LEMMA StepRun ==
  ASSUME TypeOK, TypeOK', ExecutionInv, [Next]_vars
  PROVE  Run!Next
<1>1. Rewrites => Run!Next
  BY RewritesRun DEF Run!Next
<1>2. Plans => Run!Next
  BY PlansRun DEF Run!Next
<1>3. \A w \in Workers : Moves(w) \/ Starts(w) \/ Cancels(w) \/ Ends(w) => Run!Next
  BY WorkerRun
<1> QED
  BY <1>1, <1>2, <1>3, TaskSteps

\* Whatever interrupts, redelivered messages, crashes and stale loads do to a
\* task's status, its tool call is started at most once, its outcome is written
\* once and stays, and a result is accepted only with the outcome "succeeded".
THEOREM ToolRunImplemented == Spec => ImplementsToolRun
<1>1. Init => Run!Init
  <2> SUFFICES ASSUME Init PROVE Run!Init
    OBVIOUS
  <2>1. tasks = <<>>
    BY DEF Init, StoreInit
  <2>2. DOMAIN tasks = {}
    BY <2>1
  <2>3. Calls = <<>> /\ Accepted = {}
    BY <2>1, <2>2 DEF Calls, Accepted
  <2> QED
    BY <2>3 DEF Run!Init, Calls, Accepted
<1>2. TypeOK /\ TypeOK' /\ ExecutionInv /\ [Next]_vars
        => [Run!Next]_<<Calls, Accepted>>
  BY StepRun
<1> QED
  BY <1>1, <1>2, TypeCorrect, ExecutionHolds, PTL
     DEF Spec, ImplementsToolRun, Run!Spec, Calls, Accepted
=============================================================================
