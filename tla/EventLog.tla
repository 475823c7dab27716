------------------------------- MODULE EventLog -------------------------------
(***************************************************************************)
(* What the event log of a session promises, whoever writes it: it grows   *)
(* at its end by numbered entries, a new context version comes with the    *)
(* one entry that made it, and work is entered in the current version or   *)
(* not at all.                                                             *)
(***************************************************************************)
EXTENDS Naturals, Sequences

VARIABLES
  log,     \* entries: number, kind ("context", "work", "quiet"), version
  context  \* the current context version

Init ==
  /\ log = <<[seq |-> 1, kind |-> "quiet", cv |-> 0]>>
  /\ context = 0

Fresh == (Len(log) + 1)..Len(log')

\* The log is extended, never rewritten, and numbered by position.
Grow ==
  /\ Len(log) <= Len(log')
  /\ \A i \in 1..Len(log) : log'[i] = log[i]
  /\ \A i \in Fresh : log'[i].seq = i

\* A report of something done in the current version.
Report ==
  /\ Grow
  /\ context' = context
  /\ \A i \in Fresh :
       \/ log'[i].kind = "quiet"
       \/ log'[i].kind = "work" /\ log'[i].cv = context

\* A new version; only what it ends is reported with it.
Advance ==
  /\ Grow
  /\ Len(log) < Len(log')
  /\ context' = context + 1
  /\ log'[Len(log')].kind = "context" /\ log'[Len(log')].cv = context'
  /\ \A i \in Fresh : i # Len(log') => log'[i].kind = "quiet"

Next == Report \/ Advance

Spec == Init /\ [][Next]_<<log, context>>
=============================================================================
