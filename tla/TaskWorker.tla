----------------------------- MODULE TaskWorker ------------------------------
(***************************************************************************)
(* worker.py: executes a queued task around three transactions (start,     *)
(* commit or mark cancelled, fail).  Each transaction begins with          *)
(* _lock_task_and_session, which loads the Task row BEFORE it waits for    *)
(* the session lock; the SELECT ... FOR UPDATE of the same row that        *)
(* follows does not refresh the object already in the session's identity   *)
(* map.  So the status a transaction tests ("seen") is the one of the      *)
(* unlocked load, while its assignments overwrite the row as it is now.    *)
(***************************************************************************)
EXTENDS Store

CONSTANT Workers  \* running task workers

VARIABLE workers  \* the message each is processing

WorkerState ==
  [pc   : {"idle", "start", "check", "load_mark", "mark", "execute",
           "load_commit", "commit", "load_fail", "fail"},
   task : Nat,
   seen : TaskStatus,    \* status of the row when it was loaded
   late : BOOLEAN]       \* cancelled_after_execution

WorkerInit ==
  workers = [w \in Workers |->
    [pc |-> "idle", task |-> 0, seen |-> "queued", late |-> FALSE]]

On(w, pc) == workers[w].pc = pc

Become(w, pc, task, seen, late) ==
  workers' = [workers EXCEPT ![w] =
                [pc |-> pc, task |-> task, seen |-> seen, late |-> late]]

Goto(w, pc) ==
  Become(w, pc, workers[w].task, workers[w].seen, workers[w].late)

\* XACK and the next XREADGROUP; nothing the process remembers survives.
Leave(w) == Become(w, "idle", 0, "queued", FALSE)

\* The unlocked load of the Task row that opens every transaction.
Load(w, from, to) ==
  /\ On(w, from)
  /\ Become(w, to, workers[w].task, tasks[workers[w].task].status,
            workers[w].late)
  /\ UNCHANGED storeVars

\* Mutant of TaskEvent: the outbox is not searched for the key.
TaskEventAlways(type, t) ==
  <<Event(type, <<t>>, tasks[t].turn, tasks[t].cv, tasks[t].pref, {})>>

\* _append_task_event: skipped when the dedupe_key is already in the outbox.
TaskEvent(type, t) ==
  Unless(Logged(type, <<t>>), Event(type, <<t>>, tasks[t].turn, tasks[t].cv,
                                    tasks[t].pref, {}))

SetTask(t, status, tool) ==
  tasks' = [tasks EXCEPT ![t].status = status, ![t].tool = tool]

\* One of the worker's transactions: the row's new values and its event.
Settle(t, status, tool, type) ==
  /\ SetTask(t, status, tool)
  /\ Emit(TaskEvent(type, t), session.cv)
  /\ UNCHANGED <<prefs, turns, itins, published, redisVars, faults>>

-----------------------------------------------------------------------------

ReceiveTask(w) ==
  /\ On(w, "idle")
  /\ Undelivered("tasks")
  /\ delivered' = [delivered EXCEPT !.tasks = @ + 1]
  /\ LET t == NextEntry("tasks")
     IN Become(w, "start", t, tasks[t].status, FALSE)
  /\ UNCHANGED <<dbVars, published, stream, announced, cancelKeys, faults>>

\* Mutant of ToolCallExists: tool_calls has no unique constraint.
ToolCallAllowed(t) == FALSE

ToolCallExists(t) == tasks[t].tool # "none"

\* The first transaction.  A second tool call of the task would break the
\* unique constraint; that exception is not caught and ends the process.
StartTask(w) ==
  LET t == workers[w].task
  IN /\ On(w, "start")
     /\ \/ /\ workers[w].seen = "queued" /\ ~ToolCallExists(t)
           /\ Settle(t, "running", "running", "task.running")
           /\ Goto(w, "check")
        \/ /\ workers[w].seen = "queued" /\ ToolCallExists(t)
           /\ UNCHANGED storeVars
           /\ Leave(w)
        \/ /\ workers[w].seen = "cancel_requested"
           /\ Settle(t, "cancelled", tasks[t].tool, "task.cancelled")
           /\ Leave(w)
        \/ /\ workers[w].seen \notin {"queued", "cancel_requested"}
           /\ UNCHANGED storeVars
           /\ Leave(w)

\* _task_cancellation_requested: the Redis key, then the row, afresh.
CancellationAnswers(t) ==
  {key \/ tasks[t].status = "cancel_requested" : key \in CancelKeySeen(t)}

CheckCancelled(w) ==
  /\ On(w, "check")
  /\ \E cancelled \in CancellationAnswers(workers[w].task) :
       Goto(w, IF cancelled THEN "load_mark" ELSE "execute")
  /\ UNCHANGED storeVars

LoadToMark(w) == Load(w, "load_mark", "mark")

MarkCancelled(w) ==
  LET t == workers[w].task
  IN /\ On(w, "mark")
     /\ IF workers[w].seen = "cancel_requested"
        THEN Settle(t, "cancelled",
               IF tasks[t].tool = "running" THEN "cancelled"
               ELSE tasks[t].tool, "task.cancelled")
        ELSE UNCHANGED storeVars
     /\ Leave(w)

\* The tool call itself, then the second look for a cancellation.
Execute(w) ==
  /\ On(w, "execute")
  /\ \E cancelled \in CancellationAnswers(workers[w].task) :
       Become(w, "load_commit", workers[w].task, workers[w].seen, cancelled)
  /\ UNCHANGED storeVars

LoadToCommit(w) == Load(w, "load_commit", "commit")

\* Mutant of ContextCurrent: only the preference version is compared.
PreferenceCurrent(t) == ActivePref = tasks[t].pref

\* Both versions are read under the session lock.
ContextCurrent(t) == session.cv = tasks[t].cv /\ ActivePref = tasks[t].pref

CommitResult(w) ==
  LET t == workers[w].task
  IN /\ On(w, "commit")
     /\ \E key \in CancelKeySeen(t) :
          IF \/ workers[w].late \/ key \/ ~ContextCurrent(t)
             \/ workers[w].seen \in {"cancel_requested", "cancelled"}
          THEN Settle(t, "discarded", "discarded", "task.result.discarded")
          ELSE Settle(t, "succeeded", "succeeded", "task.succeeded")
     /\ Leave(w)

-----------------------------------------------------------------------------
(* Failures.                                                               *)

\* A database call inside the try block raises; its transaction rolls back.
Raise(w) ==
  /\ workers[w].pc \in {"check", "load_mark", "mark", "execute",
                        "load_commit", "commit"}
  /\ Fault
  /\ Goto(w, "load_fail")
  /\ UNCHANGED <<dbVars, published, redisVars>>

LoadToFail(w) == Load(w, "load_fail", "fail")

RecordFailure(w) ==
  LET t    == workers[w].task
      seen == workers[w].seen
  IN /\ On(w, "fail")
     /\ \/ /\ seen = "cancel_requested"
           /\ Settle(t, "cancelled", "cancelled", "task.cancelled")
        \/ /\ seen \notin {"cancel_requested", "cancelled", "discarded",
                           "succeeded"}
           /\ Settle(t, "failed", "failed", "task.failed")
        \/ /\ seen \in {"cancelled", "discarded", "succeeded"}
           /\ UNCHANGED storeVars
     /\ Leave(w)

WorkerCrash(w) ==
  /\ ~On(w, "idle")
  /\ Fault
  /\ Leave(w)
  /\ UNCHANGED <<dbVars, published, redisVars>>

WorkerStep(w) ==
  \/ ReceiveTask(w)
  \/ StartTask(w)
  \/ CheckCancelled(w)
  \/ LoadToMark(w)
  \/ MarkCancelled(w)
  \/ Execute(w)
  \/ LoadToCommit(w)
  \/ CommitResult(w)
  \/ LoadToFail(w)
  \/ RecordFailure(w)
=============================================================================
