------------------------- MODULE SessionTransactions -------------------------
(***************************************************************************)
(* The transactions on the rows of one session, statement by statement: in *)
(* LivePilot each is one step, because it holds the lock on the session    *)
(* row; here a transaction has to take that lock, and what it read may be  *)
(* old when it commits.                                                    *)
(*                                                                         *)
(* The isolation is READ COMMITTED: a statement sees what is committed     *)
(* when it runs, a statement that takes a row waits for the row's holder   *)
(* and then sees the row as the holder left it, and what a transaction     *)
(* writes is seen, and its rows are let go, when it commits.  Each row     *)
(* name below stands for the rows of that table a transaction can meet.    *)
(***************************************************************************)
EXTENDS Naturals, Sequences, FiniteSets

CONSTANTS
  Transactions,  \* handlers that run at the same time
  Nobody         \* the holder of a row that is free

ASSUME NobodyAssumption == Nobody \notin Transactions

VARIABLES
  row,     \* the session row: context_version, last_event_seq, epoch
  pref,    \* version of the active preference
  log,     \* event_outbox
  holder,  \* the transaction that has each row locked
  txs      \* the transactions

vars == <<row, pref, log, holder, txs>>

-----------------------------------------------------------------------------
(* What each handler does, in its order: <<"lock", row>> takes a row with  *)
(* SELECT ... FOR UPDATE or by updating it, <<"compare", "session">> is    *)
(* UPDATE sessions ... WHERE context_version = base, "read" is a plain     *)
(* SELECT, "check" the comparison of what was read with what was asked.    *)

\* Mutant of TurnStatements: the preference is read before the lock.
TurnStatementsReadFirst == <<<<"read", "preference">>, <<"lock", "session">>>>

TurnStatements == <<<<"lock", "session">>, <<"read", "preference">>>>

PreferenceStatements ==
  <<<<"compare", "session">>, <<"read", "preference">>, <<"lock", "preference">>>>

\* Mutant of ConflictStatements: the versions are read in the other order.
ConflictStatementsSwapped ==
  <<<<"read", "preference">>, <<"read", "session">>>>

\* After an UPDATE that found no row, for the answer 409; no lock is held.
ConflictStatements == <<<<"read", "session">>, <<"read", "preference">>>>

InterruptStatements ==
  <<<<"lock", "session">>, <<"lock", "turn">>, <<"check", "session">>,
    <<"lock", "task">>>>

PlanStatements ==
  <<<<"lock", "session">>, <<"read", "preference">>, <<"check", "session">>>>

StartStatements == <<<<"lock", "session">>, <<"lock", "task">>>>

\* Mutant of FinishStatements: the task is taken before its session.
FinishStatementsTaskFirst ==
  <<<<"lock", "task">>, <<"lock", "session">>, <<"lock", "tool_call">>>>

\* A result that is accepted or discarded.
FinishStatements ==
  <<<<"lock", "session">>, <<"lock", "task">>, <<"lock", "tool_call">>>>

ComposeStatements ==
  <<<<"lock", "session">>, <<"check", "session">>, <<"read", "preference">>,
    <<"lock", "tool_call">>, <<"lock", "itinerary">>>>

\* A composition that finds another itinerary gives the tasks up.
GiveUpStatements ==
  <<<<"lock", "session">>, <<"check", "session">>, <<"read", "preference">>,
    <<"lock", "tool_call">>, <<"lock", "itinerary">>, <<"lock", "task">>>>

IssueStatements  == <<<<"lock", "session">>>>
ResumeStatements == <<<<"lock", "session">>, <<"check", "epoch">>>>

Kinds == {"turn", "preference", "interrupt", "plan", "start", "finish",
          "compose", "give up", "issue", "resume"}

Statements(kind) ==
  CASE kind = "turn"       -> TurnStatements
    [] kind = "preference" -> PreferenceStatements
    [] kind = "interrupt"  -> InterruptStatements
    [] kind = "plan"       -> PlanStatements
    [] kind = "start"      -> StartStatements
    [] kind = "finish"     -> FinishStatements
    [] kind = "compose"    -> ComposeStatements
    [] kind = "give up"    -> GiveUpStatements
    [] kind = "issue"      -> IssueStatements
    [] kind = "resume"     -> ResumeStatements

-----------------------------------------------------------------------------
Rows == {"session", "preference", "turn", "task", "tool_call", "itinerary"}

SessionRow == [cv : Nat, seq : Nat, epoch : Nat]

Entry == [seq : Nat, kind : {"context", "work", "quiet"}, cv : Nat,
          pref : Nat, by : Kinds \cup {"session"}]

Open  == {"running", "conflict"}
Ended == {"committed", "refused", "told", "collided", "aborted"}

Transaction ==
  [kind   : Kinds,
   status : {"idle"} \cup Open \cup Ended,
   next   : Nat,         \* the statement it runs next
   base   : Nat,         \* the version or epoch it was asked for
   seen   : SessionRow,  \* the session row it read
   pref   : Nat]         \* the preference version it read

Unread == [cv |-> 0, seq |-> 0, epoch |-> 0]

Fresh(kind) == [kind |-> kind, status |-> "idle", next |-> 1, base |-> 0,
                seen |-> Unread, pref |-> 0]

Is(t, status) == txs[t].status = status

Script(t) == IF Is(t, "conflict") THEN ConflictStatements
             ELSE Statements(txs[t].kind)

AtEnd(t)      == txs[t].next > Len(Script(t))
About(t, op, r) == /\ txs[t].status \in Open /\ ~AtEnd(t)
                   /\ Script(t)[txs[t].next] = <<op, r>>

\* Transaction t has run a statement and learnt what row r holds.
Learn(t, r) ==
  txs' = [txs EXCEPT ![t] =
    [kind |-> txs[t].kind, status |-> txs[t].status, next |-> txs[t].next + 1,
     base |-> txs[t].base,
     seen |-> IF r = "session" THEN row ELSE txs[t].seen,
     pref |-> IF r = "preference" THEN pref ELSE txs[t].pref]]

\* Mutant of Take: a plain SELECT.
TakeNothing(t, r) == UNCHANGED holder

Take(t, r) == holder[r] = Nobody /\ holder' = [holder EXCEPT ![r] = t]

\* Mutant of Release: an early return leaves the transaction open.
ReleaseNothing(t) == UNCHANGED holder

Release(t) ==
  holder' = [r \in Rows |-> IF holder[r] = t THEN Nobody ELSE holder[r]]

EndAs(t, status) == txs' = [txs EXCEPT ![t].status = status]

\* Ended without having written anything.
EndWithout(t, status) ==
  /\ EndAs(t, status)
  /\ Release(t)
  /\ UNCHANGED <<row, pref, log>>

-----------------------------------------------------------------------------
\* What a client, a packet, a task or a message may name: a version or epoch
\* there has been.
Named(kind) ==
  CASE kind \in {"turn", "start", "issue"} -> {0}
    [] kind = "resume"                     -> 0..row.epoch
    [] OTHER                               -> 0..row.cv

Receive(t) ==
  /\ Is(t, "idle")
  /\ \E base \in Named(txs[t].kind) :
       txs' = [txs EXCEPT ![t] =
                 [txs[t] EXCEPT !.status = "running", !.base = base]]
  /\ UNCHANGED <<row, pref, log, holder>>

Lock(t, r) ==
  /\ About(t, "lock", r)
  /\ Take(t, r)
  /\ Learn(t, r)
  /\ UNCHANGED <<row, pref, log>>

ReadRow(t, r) ==
  /\ About(t, "read", r)
  /\ Learn(t, r)
  /\ UNCHANGED <<row, pref, log, holder>>

\* An UPDATE that had to wait compares again with the row it then finds, and
\* keeps no lock on one that does not match.
Compare(t) ==
  /\ About(t, "compare", "session")
  /\ holder["session"] = Nobody
  /\ IF row.cv = txs[t].base
     THEN /\ Take(t, "session")
          /\ Learn(t, "session")
     ELSE /\ txs' = [txs EXCEPT ![t] =
                          [txs[t] EXCEPT !.status = "conflict", !.next = 1]]
          /\ UNCHANGED holder
  /\ UNCHANGED <<row, pref, log>>

\* Mutant of Stale: the version is not compared.
StaleNever(t) == FALSE

Stale(t) == txs[t].seen.cv # txs[t].base

Check(t) ==
  \/ /\ About(t, "check", "session") /\ Stale(t)
     /\ EndWithout(t, "refused")
  \/ /\ About(t, "check", "epoch") /\ txs[t].seen.epoch # txs[t].base
     /\ EndWithout(t, "refused")
  \/ /\ \/ About(t, "check", "session") /\ ~Stale(t)
        \/ About(t, "check", "epoch") /\ txs[t].seen.epoch = txs[t].base
     /\ txs' = [txs EXCEPT ![t].next = @ + 1]
     /\ UNCHANGED <<row, pref, log, holder>>

-----------------------------------------------------------------------------
(* The end.  The object in memory is counted up from what was read, and    *)
(* only the columns that were assigned are written.                        *)

NewContext(t) == txs[t].kind \in {"turn", "preference", "interrupt"}

\* The kinds of the events of t; an interrupt has a task to cancel.
EventKinds(t) ==
  CASE txs[t].kind \in {"turn", "preference"}  -> <<"context">>
    [] txs[t].kind = "interrupt"               -> <<"quiet", "context">>
    [] txs[t].kind = "plan"                    -> <<"work">>
    [] txs[t].kind \in {"start", "give up"}    -> <<"quiet">>
    [] txs[t].kind = "finish"  -> IF Stale(t) THEN <<"quiet">> ELSE <<"work">>
    [] txs[t].kind = "compose"                 -> <<"work", "work">>
    [] txs[t].kind \in {"issue", "resume"}     -> <<>>

\* The preference version in the payload; 0 where there is none.
NamedPreference(t) ==
  CASE txs[t].kind = "preference"                   -> txs[t].pref + 1
    [] txs[t].kind \in {"turn", "plan", "compose"} -> txs[t].pref
    [] OTHER                                        -> 0

Events(t) ==
  LET kinds == EventKinds(t)
  IN [i \in DOMAIN kinds |->
       [seq |-> txs[t].seen.seq + i, kind |-> kinds[i],
        cv |-> IF kinds[i] = "context" THEN txs[t].seen.cv + 1
               ELSE IF kinds[i] = "work" THEN txs[t].base
               ELSE txs[t].seen.cv,
        pref |-> NamedPreference(t), by |-> txs[t].kind]]

\* The constraints on (session_id, event_seq) and (session_id, version).
Collides(t) ==
  \/ \E i \in DOMAIN log, j \in DOMAIN Events(t) :
       log[i].seq = Events(t)[j].seq
  \/ txs[t].kind = "preference" /\ NamedPreference(t) <= pref

\* The UPDATE of the session row waits for it.
CanWrite(t) ==
  /\ Is(t, "running") /\ AtEnd(t)
  /\ holder["session"] \in {t, Nobody}

Write(t) ==
  /\ row' =
       [cv    |-> IF NewContext(t) THEN txs[t].seen.cv + 1 ELSE row.cv,
        seq   |-> IF Events(t) = <<>> THEN row.seq
                  ELSE txs[t].seen.seq + Len(Events(t)),
        epoch |-> IF txs[t].kind \in {"issue", "resume"}
                  THEN txs[t].seen.epoch + 1 ELSE row.epoch]
  /\ log' = log \o Events(t)
  /\ pref' = IF txs[t].kind = "preference" THEN NamedPreference(t) ELSE pref
  /\ EndAs(t, "committed")
  /\ Release(t)

Commit(t) ==
  /\ CanWrite(t)
  /\ IF Collides(t) THEN EndWithout(t, "collided") ELSE Write(t)

\* The answer 409 with the two versions that were read.
Tell(t) == Is(t, "conflict") /\ AtEnd(t) /\ EndWithout(t, "told")

\* An exception, a dedupe_key that is taken, or the end of the process.
Abort(t) == txs[t].status \in Open /\ EndWithout(t, "aborted")

-----------------------------------------------------------------------------
\* The session as create_session left it, and any handlers to come.
Init ==
  /\ row = [cv |-> 0, seq |-> 1, epoch |-> 0]
  /\ pref = 1
  /\ log = <<[seq |-> 1, kind |-> "quiet", cv |-> 0, pref |-> 1,
              by |-> "session"]>>
  /\ holder = [r \in Rows |-> Nobody]
  /\ txs \in [Transactions -> {Fresh(kind) : kind \in Kinds}]

Run(t) ==
  \/ \E r \in Rows : Lock(t, r) \/ ReadRow(t, r)
  \/ Compare(t) \/ Check(t)
  \/ Commit(t) \/ Tell(t)

Next == \E t \in Transactions : Receive(t) \/ Run(t) \/ Abort(t)

Spec == Init /\ [][Next]_vars

\* A handler that has begun runs its statements, and a row that is let go is
\* given to one that waits; nothing need be received, nothing need fail.
Fairness == \A t \in Transactions : WF_vars(Run(t))

FairSpec == Spec /\ Fairness

-----------------------------------------------------------------------------
(* Properties.                                                             *)

\* Every variable keeps its type, and a locked row is that of a transaction
\* that is still open.
TransactionsTypeOK ==
  /\ row \in SessionRow
  /\ pref \in Nat
  /\ log \in Seq(Entry)
  /\ holder \in [Rows -> Transactions \cup {Nobody}]
  /\ txs \in [Transactions -> Transaction]
  /\ \A r \in Rows : holder[r] # Nobody => txs[holder[r]].status \in Open

\* No transaction fails because another counted last_event_seq, or the
\* preference version, up from the same row: each reads the session row under
\* the lock with which it writes it back (interrupts.py:28 and its siblings).
\* The constraints would keep such a log whole, at the price of a request, a
\* plan or a result that is lost.
NothingCollides == \A t \in Transactions : ~Is(t, "collided")

PreferencesUpTo(i) == Cardinality({j \in 1..i : log[j].by = "preference"})

\* An event that names a preference version names the one in force at its
\* place in the log, though the preference is read by a statement of its own
\* (agent/service.py:95, main.py:697), and an update follows the one before.
EventsNamePreference ==
  \A i \in DOMAIN log :
    log[i].pref # 0 => log[i].pref = 1 + PreferencesUpTo(i)

Issued == {t \in Transactions : txs[t].kind \in {"issue", "resume"}
                                /\ Is(t, "committed")}

\* No two realtime tokens get one connection epoch (realtime.py:82), for which
\* no constraint stands in.
EpochsDistinct ==
  \A t, u \in Issued : t # u => txs[t].seen.epoch # txs[u].seen.epoch

\* The two versions of a 409 are read without a lock (main.py:675-695).  While
\* the context version it tells is the current one, an update based on it is
\* accepted, and the preference version it tells is then the active one.
ConflictTellsActive ==
  \A t \in Transactions :
    Is(t, "told") /\ txs[t].seen.cv = row.cv => txs[t].pref = pref

\* Statement by statement the transactions are still steps of the abstract
\* log: none enters work in, or counts up, a version another has ended.
Entries == [i \in DOMAIN log |->
              [seq |-> log[i].seq, kind |-> log[i].kind, cv |-> log[i].cv]]

Abstract == INSTANCE EventLog WITH log <- Entries, context <- row.cv

TransactionsImplementEventLog == Abstract!Spec

\* A transaction that has begun ends.  Their rows are taken in different
\* orders (worker.py:85 and 171 the task before the tool call, service.py:436
\* and 457 the tool calls before the tasks); they never wait for each other in
\* a circle because all take the session row first.
EveryTransactionEnds ==
  \A t \in Transactions :
    txs[t].status \in Open ~> txs[t].status \in Ended
=============================================================================
