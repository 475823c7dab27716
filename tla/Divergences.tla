----------------------------- MODULE Divergences -----------------------------
(***************************************************************************)
(* Statements of docs/LivePilotInstruction.md and docs/system-flows.md     *)
(* about the backend that the code does not keep.  Each is checked by one  *)
(* run that finds a behaviour against it.                                  *)
(***************************************************************************)
EXTENDS LivePilotProperties

TurnNumbers == 1..(2 * Cardinality(Requests))

\* "queued/running -> cancel_requested -> cancelled; a task whose version is
\* no longer valid may become discarded" (LivePilotInstruction.md:438): a
\* requested cancellation ends the task.  A start transaction that loaded the
\* row before the interrupt committed writes "running" over it; seen as
\* cancelled through its Redis key afterwards, the task is left running, its
\* message acknowledged.
CancelledTaskSettles ==
  \A t \in TurnNumbers :
    (t \in DOMAIN tasks /\ tasks[t].status = "cancel_requested") ~>
    (t \in DOMAIN tasks /\ tasks[t].status \in Terminal)

\* "A worker crash: XAUTOCLAIM assigns the message again; the task goes on or
\* is retried" (LivePilotInstruction.md:911, system-flows.md:213).  Nothing
\* claims a pending entry: a task whose worker died stays as it was.
CrashedTaskIsReclaimed ==
  \A t \in TurnNumbers :
    (t \in DOMAIN tasks /\ tasks[t].status = "running") ~>
    (t \in DOMAIN tasks /\ tasks[t].status # "running")

\* The idempotency key is "sha256(session_id + context_version + task_type +
\* canonical_payload)" (LivePilotInstruction.md:842): one task per context and
\* payload.  The code's key also holds the itinerary version, which a packet
\* rebuilt for a second delivery reads afresh.
OneTaskPerPlan ==
  \A s, t \in DOMAIN tasks :
    /\ tasks[s].cv = tasks[t].cv /\ tasks[s].turn = tasks[t].turn
    /\ tasks[s].pref = tasks[t].pref
    => s = t
=============================================================================
