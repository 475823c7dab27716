---------------------------- MODULE RealtimeToken ----------------------------
(***************************************************************************)
(* Single-use tokens for a session's realtime connection (realtime.py).    *)
(* Issuing counts the connection epoch of the session row up and then      *)
(* stores the token in Redis; redeeming takes the token out of Redis and   *)
(* then compares its epoch with the row's, without a lock.  Handlers of    *)
(* several clients interleave between the two stores, and fail there.      *)
(***************************************************************************)
EXTENDS Naturals, Sequences

CONSTANTS
  Attempts,  \* clients' attempts to connect, one call at a time each
  MaxEpoch,  \* bound on tokens issued
  MaxFaults  \* bound on failed calls and lost answers

ASSUME TokenAssumption == MaxEpoch \in Nat /\ MaxFaults \in Nat

VARIABLES
  epoch,   \* sessions.realtime_connection_epoch
  tokens,  \* Redis: the epochs whose token is there
  calls,   \* the handler that serves each attempt
  grants,  \* epochs of the redemptions that succeeded, in the order of checks
  faults   \* faults injected so far

tokenVars == <<epoch, tokens, calls, grants, faults>>

\* create_realtime_token and resume_session go from issue to granted,
\* redeem_session_realtime_token from take to redeemed, all maybe to refused.
Call ==
  [at    : {"none", "issue", "store", "load", "granted", "take", "check",
            "redeemed", "refused"},
   prev  : Nat,   \* previous_connection_epoch; 0: create_realtime_token
   epoch : Nat,   \* of the token issued or to be redeemed
   seen  : Nat]   \* realtime_connection_epoch in resume's snapshot

NoCall == [at |-> "none", prev |-> 0, epoch |-> 0, seen |-> 0]

TokenInit ==
  /\ epoch = 0
  /\ tokens = {}
  /\ calls = [c \in Attempts |-> NoCall]
  /\ grants = <<>>
  /\ faults = 0

Is(c, at) == calls[c].at = at
Go(c, at) == calls' = [calls EXCEPT ![c].at = at]

CallIssue(c, prev) ==
  calls' = [calls EXCEPT ![c] = [NoCall EXCEPT !.at = "issue", !.prev = prev]]

CallRedeem(c) == Go(c, "take")
Dismiss(c)    == calls' = [calls EXCEPT ![c] = NoCall]

EpochExpected(c) == calls[c].prev \in {0, epoch}

\* Mutant of CountEpoch: the row is not written.
CountEpochLost == UNCHANGED epoch

CountEpoch == epoch' = epoch + 1

\* issue_realtime_token's transaction, under the session lock.
IssueToken(c) ==
  /\ Is(c, "issue")
  /\ IF EpochExpected(c)
     THEN /\ epoch < MaxEpoch
          /\ CountEpoch
          /\ calls' = [calls EXCEPT ![c].at = "store", ![c].epoch = epoch + 1]
     ELSE Go(c, "refused") /\ UNCHANGED epoch
  /\ UNCHANGED <<tokens, grants, faults>>

\* SET NX EX, after the commit.
StoreToken(c) ==
  /\ Is(c, "store")
  /\ tokens' = tokens \cup {calls[c].epoch}
  /\ Go(c, IF calls[c].prev > 0 THEN "load" ELSE "granted")
  /\ UNCHANGED <<epoch, grants, faults>>

\* resume's snapshot, loaded after the token was issued.
LoadForResume(c) ==
  /\ Is(c, "load")
  /\ calls' = [calls EXCEPT ![c].at = "granted", ![c].seen = epoch]
  /\ UNCHANGED <<epoch, tokens, grants, faults>>

\* Mutant of Taken: GET instead of GETDEL.
TakenKept(e) == tokens

Taken(e) == tokens \ {e}

\* GETDEL.
TakeToken(c) ==
  /\ Is(c, "take")
  /\ IF calls[c].epoch \in tokens
     THEN tokens' = Taken(calls[c].epoch) /\ Go(c, "check")
     ELSE Go(c, "refused") /\ UNCHANGED tokens
  /\ UNCHANGED <<epoch, grants, faults>>

EpochCurrent(c) == calls[c].epoch = epoch

CheckEpoch(c) ==
  /\ Is(c, "check")
  /\ IF EpochCurrent(c)
     THEN grants' = Append(grants, calls[c].epoch) /\ Go(c, "redeemed")
     ELSE Go(c, "refused") /\ UNCHANGED grants
  /\ UNCHANGED <<epoch, tokens, faults>>

\* A token that was presented is presented again (test_realtime_token.py).
Repeat(c, d) ==
  /\ Is(c, "none") /\ calls[d].at \in {"check", "redeemed"}
  /\ faults < MaxFaults /\ faults' = faults + 1
  /\ calls' = [calls EXCEPT ![c] = [NoCall EXCEPT !.at = "take",
                                                 !.epoch = calls[d].epoch]]
  /\ UNCHANGED <<epoch, tokens, grants>>

\* The EX of a key, or expires_at, has passed.
Expire ==
  /\ faults < MaxFaults /\ faults' = faults + 1
  /\ \E e \in tokens : tokens' = tokens \ {e}
  /\ UNCHANGED <<epoch, calls, grants>>

\* A call fails between its two stores, or its answer is lost on the way.
CallFails(c) ==
  /\ calls[c].at \notin {"none", "refused"}
  /\ faults < MaxFaults /\ faults' = faults + 1
  /\ Go(c, "refused")
  /\ UNCHANGED <<epoch, tokens, grants>>

TokenStep(c) ==
  \/ IssueToken(c)
  \/ StoreToken(c)
  \/ LoadForResume(c)
  \/ TakeToken(c)
  \/ CheckEpoch(c)

\* Every variable keeps its type, and no token or call is of an epoch to come.
TokenTypeOK ==
  /\ epoch \in Nat
  /\ tokens \subseteq 1..epoch
  /\ calls \in [Attempts -> Call]
  /\ \A c \in Attempts : /\ calls[c].epoch <= epoch /\ calls[c].seen <= epoch
                         /\ Is(c, "store") => calls[c].epoch > 0
  /\ grants \in Seq(Nat)
  /\ faults \in 0..MaxFaults

\* A token is redeemed at most once, and never after a newer connection was
\* granted: the redemptions that succeed, in the order of their checks, have
\* ever newer epochs, though no lock holds the two stores together.
GrantsInOrder ==
  \A i, j \in DOMAIN grants : i < j => grants[i] < grants[j]
=============================================================================
