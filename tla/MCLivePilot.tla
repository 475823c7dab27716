----------------------------- MODULE MCLivePilot -----------------------------
(***************************************************************************)
(* Instances of LivePilot for TLC.  Each run's cfg names the requests that *)
(* are sent; their kind and client_event_id are given here by name.        *)
(***************************************************************************)
EXTENDS Divergences

CONSTANTS turnA, turnB, retryA, prefA, prefB, prefRetry, intA, intRetry,
          a, b   \* client_event_ids

MCKind ==
  [r \in Requests |->
     IF r \in {turnA, turnB, retryA} THEN "turn"
     ELSE IF r \in {prefA, prefB, prefRetry} THEN "preference"
     ELSE "interrupt"]

\* A retry carries the id of the request it repeats.
MCClientId == [r \in Requests |-> IF r \in {turnB, prefB} THEN b ELSE a]

\* Publishers are interchangeable, and so are workers (safety runs only).
MCSymmetry == Permutations(Publishers) \cup Permutations(Workers)
=============================================================================
