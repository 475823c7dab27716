------------------------------- MODULE ToolRun --------------------------------
(***************************************************************************)
(* What executing tasks promises, however many workers receive, start,     *)
(* cancel, crash and retry them: the tool call of a task is started at     *)
(* most once, its outcome is written once and stays, and a result is       *)
(* accepted in the step that writes the outcome "succeeded".               *)
(***************************************************************************)
EXTENDS Naturals, Sequences

VARIABLES
  calls,    \* the tool call of each task, in the order they were planned
  accepted  \* tasks whose result counts

Outcomes == {"succeeded", "discarded", "cancelled", "failed"}

Init == calls = <<>> /\ accepted = {}

Plan ==
  /\ calls' = Append(calls, "none")
  /\ accepted' = accepted

Start(t) ==
  /\ calls[t] = "none"
  /\ calls' = [calls EXCEPT ![t] = "running"]
  /\ accepted' = accepted

Finish(t, outcome) ==
  /\ calls[t] = "running"
  /\ calls' = [calls EXCEPT ![t] = outcome]
  /\ accepted' = IF outcome = "succeeded" THEN accepted \cup {t} ELSE accepted

\* Results of an itinerary that was replaced meanwhile are planned again.
GiveUp ==
  /\ accepted' \in SUBSET accepted
  /\ calls' = calls

Next ==
  \/ Plan
  \/ \E t \in DOMAIN calls : \/ Start(t)
                             \/ \E o \in Outcomes : Finish(t, o)
  \/ GiveUp

Spec == Init /\ [][Next]_<<calls, accepted>>
=============================================================================
