--------------------------- MODULE TransactionProofs ---------------------------
(***************************************************************************)
(* What the lock on the session row gives, for any number of transactions  *)
(* of any kinds: what an open transaction has read of the session row is   *)
(* what is there, so nothing collides and no epoch is issued twice.        *)
(***************************************************************************)
EXTENDS SessionTransactions, SequenceTheorems, FiniteSetTheorems, TLAPS

-----------------------------------------------------------------------------
(* The scripts.                                                            *)

Takes == {<<"lock", "session">>, <<"compare", "session">>}

LockedFirst(script) ==
  /\ Len(script) \in 1..6
  /\ script[1] \in Takes
  /\ \A i \in 2..Len(script) : script[i] \notin Takes
  /\ \A i \in 1..Len(script) : script[i] # <<"read", "session">>

\* Every handler takes the session row first, and only then reads.
LEMMA SessionFirst ==
  ASSUME NEW kind \in Kinds
  PROVE  LockedFirst(Statements(kind))
<1>1. LockedFirst(TurnStatements) /\ LockedFirst(PlanStatements)
  BY DEF LockedFirst, Takes, TurnStatements, PlanStatements
<1>2. LockedFirst(PreferenceStatements)
  BY DEF LockedFirst, Takes, PreferenceStatements
<1>3. LockedFirst(InterruptStatements)
  BY DEF LockedFirst, Takes, InterruptStatements
<1>4. LockedFirst(StartStatements) /\ LockedFirst(FinishStatements)
  BY DEF LockedFirst, Takes, StartStatements, FinishStatements
<1>5. LockedFirst(ComposeStatements) /\ LockedFirst(GiveUpStatements)
  BY DEF LockedFirst, Takes, ComposeStatements, GiveUpStatements
<1>6. LockedFirst(IssueStatements) /\ LockedFirst(ResumeStatements)
  BY DEF LockedFirst, Takes, IssueStatements, ResumeStatements
<1> QED
  BY <1>1, <1>2, <1>3, <1>4, <1>5, <1>6 DEF Kinds, Statements

\* An update reads the active preference before it is replaced.
LEMMA PreferenceScript ==
  /\ Len(Statements("preference")) = 3
  /\ Statements("preference")[2] = <<"read", "preference">>
  /\ Statements("preference")[3] # <<"read", "preference">>
  BY DEF Statements, PreferenceStatements

LEMMA ConflictScript ==
  /\ Len(ConflictStatements) = 2
  /\ ConflictStatements[1] = <<"read", "session">>
  /\ ConflictStatements[2] = <<"read", "preference">>
  BY DEF ConflictStatements

-----------------------------------------------------------------------------
(* Types.                                                                  *)

\* The events of a transaction are numbered on from what it has read.
LEMMA EventsTyped ==
  ASSUME TransactionsTypeOK, NEW t \in Transactions
  PROVE  /\ Events(t) \in Seq(Entry) /\ Len(Events(t)) \in Nat
         /\ Len(Events(t)) = Len(EventKinds(t))
         /\ DOMAIN Events(t) = 1..Len(Events(t))
         /\ Events(t) = <<>> <=> Len(Events(t)) = 0
         /\ \A i \in 1..Len(Events(t)) :
              Events(t)[i].seq = txs[t].seen.seq + i
<1>1. /\ txs[t].kind \in Kinds /\ txs[t].base \in Nat /\ txs[t].pref \in Nat
      /\ txs[t].seen.cv \in Nat /\ txs[t].seen.seq \in Nat
  BY DEF TransactionsTypeOK, Transaction, SessionRow
<1>2. /\ EventKinds(t) \in Seq({"context", "work", "quiet"})
      /\ Len(EventKinds(t)) \in 0..2
  <2>1. EventKinds(t) \in
          {<<"context">>, <<"quiet", "context">>, <<"work">>, <<"quiet">>,
           <<"work", "work">>, <<>>}
    BY <1>1 DEF EventKinds, Kinds
  <2>2. /\ <<"context">> \in Seq({"context", "work", "quiet"})
        /\ <<"work">> \in Seq({"context", "work", "quiet"})
        /\ <<"quiet">> \in Seq({"context", "work", "quiet"})
        /\ <<>> \in Seq({"context", "work", "quiet"})
    OBVIOUS
  <2>3. /\ <<"quiet", "context">> \in Seq({"context", "work", "quiet"})
        /\ <<"work", "work">> \in Seq({"context", "work", "quiet"})
    OBVIOUS
  <2>4. \A s \in {<<"context">>, <<"quiet", "context">>, <<"work">>,
                  <<"quiet">>, <<"work", "work">>, <<>>} : Len(s) \in 0..2
    OBVIOUS
  <2>5. EventKinds(t) \in Seq({"context", "work", "quiet"})
    BY <2>1, <2>2, <2>3, Zenon
  <2> QED
    BY <2>1, <2>4, <2>5
<1>3. DOMAIN EventKinds(t) = 1..Len(EventKinds(t))
  BY <1>2, LenProperties
<1>4. NamedPreference(t) \in Nat
  BY <1>1 DEF NamedPreference
<1>5. ASSUME NEW i \in 1..Len(EventKinds(t))
      PROVE  Events(t)[i] \in Entry /\ Events(t)[i].seq = txs[t].seen.seq + i
  <2>1. EventKinds(t)[i] \in {"context", "work", "quiet"}
    BY <1>2, <1>3, <1>5, ElementOfSeq
  <2> QED
    BY <1>1, <1>3, <1>4, <1>5, <2>1 DEF Events, Entry
<1>6. DOMAIN Events(t) = 1..Len(EventKinds(t))
  BY <1>3 DEF Events
<1>7. Events(t) \in Seq(Entry) /\ Len(Events(t)) = Len(EventKinds(t))
  <2>1. Events(t) = [i \in 1..Len(EventKinds(t)) |-> Events(t)[i]]
    BY <1>3 DEF Events
  <2> QED
    BY <1>2, <1>5, <2>1
<1>8. Events(t) = <<>> <=> Len(Events(t)) = 0
  BY <1>7, EmptySeq
<1> QED
  BY <1>2, <1>5, <1>6, <1>7, <1>8

\* The transactions of a state, one of them changed.
Changes(t) ==
  /\ txs' \in [Transactions -> Transaction]
  /\ txs'[t].kind = txs[t].kind
  /\ \A u \in Transactions : u # t => txs'[u] = txs[u]

\* A transaction learns only what is typed.
LEMMA LearntTyped ==
  ASSUME TransactionsTypeOK, NEW t \in Transactions, NEW r \in Rows,
         Learn(t, r)
  PROVE  /\ Changes(t) /\ txs'[t].status = txs[t].status
         /\ txs'[t].next = txs[t].next + 1
         /\ txs'[t].base = txs[t].base
         /\ txs'[t].seen = IF r = "session" THEN row ELSE txs[t].seen
         /\ txs'[t].pref = IF r = "preference" THEN pref ELSE txs[t].pref
<1>1. /\ txs[t] \in Transaction /\ row \in SessionRow /\ pref \in Nat
      /\ txs \in [Transactions -> Transaction]
  BY DEF TransactionsTypeOK
<1> DEFINE seen == IF r = "session" THEN row ELSE txs[t].seen
           ver  == IF r = "preference" THEN pref ELSE txs[t].pref
           new  == [kind |-> txs[t].kind, status |-> txs[t].status,
                    next |-> txs[t].next + 1, base |-> txs[t].base,
                    seen |-> seen, pref |-> ver]
<1>2. seen \in SessionRow /\ ver \in Nat
  BY <1>1 DEF Transaction
<1>3. txs' = [txs EXCEPT ![t] = new]
  BY DEF Learn
<1> HIDE DEF seen, ver
<1>4. new \in Transaction
  BY <1>1, <1>2 DEF Transaction
<1>5. txs'[t] = new /\ \A u \in Transactions : u # t => txs'[u] = txs[u]
  BY <1>1, <1>3
<1>6. Changes(t)
  BY <1>1, <1>3, <1>4, <1>5 DEF Changes
<1> QED
  BY <1>5, <1>6 DEF seen, ver

\* A transaction ends and keeps what it has read.
LEMMA EndTyped ==
  ASSUME TransactionsTypeOK, NEW t \in Transactions,
         NEW status \in Ended, EndAs(t, status)
  PROVE  /\ Changes(t) /\ txs'[t].status = status
         /\ txs'[t].next = txs[t].next
         /\ txs'[t].seen = txs[t].seen /\ txs'[t].pref = txs[t].pref
  BY DEF TransactionsTypeOK, Transaction, EndAs, Changes

\* What a step can do to the transactions, the rows they hold and the
\* session.  Proofs below go through these five.
Begins(t) ==
  /\ Is(t, "idle")
  /\ Changes(t) /\ txs'[t].status = "running" /\ txs'[t].next = txs[t].next
  /\ txs'[t].pref = txs[t].pref
  /\ UNCHANGED <<row, pref, log, holder>>

Goes(t) ==
  /\ txs[t].status \in Open /\ ~AtEnd(t)
  /\ Changes(t) /\ txs'[t].status = txs[t].status
  /\ txs'[t].next = txs[t].next + 1 /\ txs'[t].base = txs[t].base
  /\ \/ \E r \in Rows :
          /\ \/ About(t, "read", r) /\ UNCHANGED holder
             \/ About(t, "lock", r) /\ Take(t, r)
             \/ /\ About(t, "compare", "session") /\ r = "session"
                /\ Take(t, r)
          /\ txs'[t].seen = IF r = "session" THEN row ELSE txs[t].seen
          /\ txs'[t].pref = IF r = "preference" THEN pref ELSE txs[t].pref
     \/ /\ \E r \in {"session", "epoch"} : About(t, "check", r)
        /\ About(t, "check", "session") => ~Stale(t)
        /\ txs'[t].seen = txs[t].seen /\ txs'[t].pref = txs[t].pref
        /\ UNCHANGED holder
  /\ UNCHANGED <<row, pref, log>>

Conflicts(t) ==
  /\ About(t, "compare", "session")
  /\ Changes(t) /\ txs'[t].status = "conflict" /\ txs'[t].next = 1
  /\ UNCHANGED <<row, pref, log, holder>>

Ends(t) ==
  /\ txs[t].status \in Open
  /\ Changes(t) /\ txs'[t].status \in Ended \ {"committed"}
  /\ txs'[t].next = txs[t].next
  /\ txs'[t].seen = txs[t].seen /\ txs'[t].pref = txs[t].pref
  /\ txs'[t].status = "told" => Is(t, "conflict") /\ AtEnd(t)
  /\ txs'[t].status = "collided" => CanWrite(t) /\ Collides(t)
  /\ Release(t)
  /\ UNCHANGED <<row, pref, log>>

Writes(t) ==
  /\ CanWrite(t) /\ Write(t)
  /\ Changes(t) /\ txs'[t].status = "committed"
  /\ txs'[t].next = txs[t].next
  /\ txs'[t].seen = txs[t].seen /\ txs'[t].pref = txs[t].pref

\* Every step of a transaction is one of these.
LEMMA StepKinds ==
  ASSUME TransactionsTypeOK, NEW t \in Transactions,
         Receive(t) \/ Run(t) \/ Abort(t)
  PROVE  Begins(t) \/ Goes(t) \/ Conflicts(t) \/ Ends(t) \/ Writes(t)
<1>1. /\ txs[t] \in Transaction /\ txs \in [Transactions -> Transaction]
      /\ row \in SessionRow
  BY DEF TransactionsTypeOK
<1>2. CASE Receive(t)
  <2>1. PICK base \in Named(txs[t].kind) :
          txs' = [txs EXCEPT ![t] =
                    [txs[t] EXCEPT !.status = "running", !.base = base]]
    BY <1>2 DEF Receive
  <2>2. base \in Nat
    BY <1>1 DEF Named, SessionRow
  <2>3. [txs[t] EXCEPT !.status = "running", !.base = base] \in Transaction
    BY <1>1, <2>2 DEF Transaction, Open
  <2> QED
    BY <1>1, <1>2, <2>1, <2>3 DEF Receive, Begins, Changes, Transaction
<1>3. ASSUME NEW r \in Rows, Lock(t, r) PROVE Goes(t)
  BY <1>3, LearntTyped DEF Lock, Goes, About
<1>4. ASSUME NEW r \in Rows, ReadRow(t, r) PROVE Goes(t)
  BY <1>4, LearntTyped DEF ReadRow, Goes, About
<1>5. CASE Compare(t)
  <2>1. CASE row.cv = txs[t].base
    <3>1. "session" \in Rows
      BY DEF Rows
    <3>2. Take(t, "session") /\ Learn(t, "session")
      BY <1>5, <2>1 DEF Compare
    <3> QED
      BY <1>5, <3>1, <3>2, LearntTyped DEF Compare, Goes, About
  <2>2. CASE row.cv # txs[t].base
    <3>1. [txs[t] EXCEPT !.status = "conflict", !.next = 1] \in Transaction
      BY <1>1 DEF Transaction, Open
    <3> QED
      BY <1>1, <1>5, <2>2, <3>1 DEF Compare, Conflicts, Changes, Transaction
  <2> QED
    BY <2>1, <2>2
<1>6. ASSUME NEW status \in {"refused", "collided", "told", "aborted"},
             EndWithout(t, status), txs[t].status \in Open,
             status = "told" => Is(t, "conflict") /\ AtEnd(t),
             status = "collided" => CanWrite(t) /\ Collides(t)
      PROVE  Ends(t)
  <2>1. status \in Ended \ {"committed"} /\ status \in Ended
    BY DEF Ended
  <2> QED
    BY <1>6, <2>1, EndTyped DEF EndWithout, Ends
<1>7. CASE Check(t)
  <2>1. CASE EndWithout(t, "refused")
    BY <1>6, <1>7, <2>1 DEF Check, About
  <2>2. CASE /\ \/ About(t, "check", "session") /\ ~Stale(t)
                \/ About(t, "check", "epoch") /\ txs[t].seen.epoch = txs[t].base
             /\ txs' = [txs EXCEPT ![t].next = @ + 1]
             /\ UNCHANGED <<row, pref, log, holder>>
    <3>1. [txs[t] EXCEPT !.next = @ + 1] \in Transaction
      BY <1>1 DEF Transaction
    <3> QED
      BY <1>1, <2>2, <3>1 DEF Goes, Changes, About, Transaction
  <2> QED
    BY <1>7, <2>1, <2>2 DEF Check
<1>8. CASE Commit(t)
  <2>1. txs[t].status \in Open
    BY <1>8 DEF Commit, CanWrite, Is, Open
  <2>2. CASE Collides(t)
    BY <1>6, <1>8, <2>1, <2>2 DEF Commit
  <2>3. CASE ~Collides(t)
    <3>1. "committed" \in Ended /\ EndAs(t, "committed")
      BY <1>8, <2>3 DEF Commit, Write, Ended
    <3> QED
      BY <1>8, <2>3, <3>1, EndTyped DEF Commit, Writes
  <2> QED
    BY <2>2, <2>3
<1>9. CASE Tell(t)
  BY <1>6, <1>9 DEF Tell, Is, Open
<1>10. CASE Abort(t)
  BY <1>6, <1>10 DEF Abort
<1> QED
  BY <1>2, <1>3, <1>4, <1>5, <1>7, <1>8, <1>9, <1>10 DEF Run

\* What is held by a transaction is held by one that is open.
LEMMA TypesKept ==
  ASSUME TransactionsTypeOK, [Next]_vars
  PROVE  TransactionsTypeOK'
<1>1. CASE UNCHANGED vars
  BY <1>1 DEF vars, TransactionsTypeOK
<1>2. ASSUME NEW t \in Transactions, Begins(t) PROVE TransactionsTypeOK'
  BY <1>2 DEF Begins, Changes, TransactionsTypeOK, Is, Open
<1>3. ASSUME NEW t \in Transactions, Goes(t) PROVE TransactionsTypeOK'
  <2>1. /\ holder' \in [Rows -> Transactions \cup {Nobody}]
        /\ \A r \in Rows : holder'[r] \in {holder[r], t}
    BY <1>3 DEF Goes, Take, TransactionsTypeOK
  <2> QED
    BY <1>3, <2>1 DEF Goes, Changes, TransactionsTypeOK
<1>4. ASSUME NEW t \in Transactions, Conflicts(t) PROVE TransactionsTypeOK'
  BY <1>4 DEF Conflicts, Changes, TransactionsTypeOK, Open
<1>5. ASSUME NEW t \in Transactions, Release(t), Changes(t)
      PROVE  /\ holder' \in [Rows -> Transactions \cup {Nobody}]
             /\ \A r \in Rows :
                  holder'[r] # Nobody => txs'[holder'[r]].status \in Open
  BY <1>5, NobodyAssumption DEF Release, Changes, TransactionsTypeOK
<1>6. ASSUME NEW t \in Transactions, Ends(t) PROVE TransactionsTypeOK'
  BY <1>5, <1>6 DEF Ends, Changes, TransactionsTypeOK
<1>7. ASSUME NEW t \in Transactions, Writes(t) PROVE TransactionsTypeOK'
  <2>1. /\ Events(t) \in Seq(Entry) /\ Len(Events(t)) \in Nat
        /\ txs[t].pref \in Nat /\ txs[t].seen \in SessionRow
        /\ row \in SessionRow /\ pref \in Nat /\ log \in Seq(Entry)
    BY EventsTyped DEF TransactionsTypeOK, Transaction
  <2>2. row' \in SessionRow
    <3> DEFINE cv    == IF NewContext(t) THEN txs[t].seen.cv + 1 ELSE row.cv
               seq   == IF Events(t) = <<>> THEN row.seq
                        ELSE txs[t].seen.seq + Len(Events(t))
               epoch == IF txs[t].kind \in {"issue", "resume"}
                        THEN txs[t].seen.epoch + 1 ELSE row.epoch
    <3>1. /\ txs[t].seen.cv \in Nat /\ txs[t].seen.seq \in Nat
          /\ txs[t].seen.epoch \in Nat
          /\ row.cv \in Nat /\ row.seq \in Nat /\ row.epoch \in Nat
      BY <2>1 DEF SessionRow
    <3>2. cv \in Nat
      BY <3>1
    <3>3. seq \in Nat
      BY <2>1, <3>1
    <3>4. epoch \in Nat
      BY <3>1
    <3>5. row' = [cv |-> cv, seq |-> seq, epoch |-> epoch]
      BY <1>7 DEF Writes, Write
    <3> HIDE DEF cv, seq, epoch
    <3> QED
      BY <3>2, <3>3, <3>4, <3>5 DEF SessionRow
  <2>3. pref' \in Nat
    BY <1>7, <2>1 DEF Writes, Write, NamedPreference
  <2>4. log' \in Seq(Entry)
    BY <1>7, <2>1, ConcatProperties DEF Writes, Write
  <2> QED
    BY <1>5, <1>7, <2>2, <2>3, <2>4 DEF Writes, Write, Changes, TransactionsTypeOK
<1> QED
  BY <1>1, <1>2, <1>3, <1>4, <1>6, <1>7, StepKinds DEF Next

-----------------------------------------------------------------------------
(* The lock.                                                               *)

\* Past its first statement a transaction has the session row.
Begun(t) == Is(t, "running") /\ txs[t].next > 1

LockInv ==
  /\ \A t \in Transactions : /\ txs[t].next >= 1
                             /\ Is(t, "idle") => txs[t].next = 1
  /\ \A t \in Transactions :
       Begun(t) => holder["session"] = t /\ txs[t].seen = row
  /\ \A t \in Transactions :
       Begun(t) /\ txs[t].kind = "preference" /\ txs[t].next > 2
         => txs[t].pref = pref

\* A statement on the session row is the first of a running transaction; what
\* it reads is then the row.
LEMMA FirstStatement ==
  ASSUME TransactionsTypeOK, LockInv, NEW t \in Transactions, Is(t, "running"),
         ~AtEnd(t)
  PROVE  /\ \A r \in Rows : <<"lock", r>> = Script(t)[txs[t].next] =>
              (r = "session" <=> txs[t].next = 1)
         /\ <<"compare", "session">> = Script(t)[txs[t].next]
              => txs[t].next = 1
         /\ Script(t)[txs[t].next] # <<"read", "session">>
         /\ txs[t].next = 1 => Script(t)[txs[t].next] \in Takes
<1>1. txs[t].kind \in Kinds /\ txs[t].next \in Nat /\ txs[t].next >= 1
  BY DEF TransactionsTypeOK, Transaction, LockInv
<1>2. Script(t) = Statements(txs[t].kind)
  BY DEF Script, Is
<1>3. LockedFirst(Script(t))
  BY <1>1, <1>2, SessionFirst
<1>4. txs[t].next \in 1..Len(Script(t)) /\ Len(Script(t)) \in 1..6
  BY <1>1, <1>3 DEF AtEnd, LockedFirst
<1>5. txs[t].next # 1 => Script(t)[txs[t].next] \notin Takes
  BY <1>3, <1>4 DEF LockedFirst
<1>6. txs[t].next = 1 => Script(t)[txs[t].next] \in Takes
  BY <1>3 DEF LockedFirst
<1>7. Script(t)[txs[t].next] # <<"read", "session">>
  BY <1>3, <1>4 DEF LockedFirst
<1>8. ASSUME NEW r \in Rows, <<"lock", r>> = Script(t)[txs[t].next]
      PROVE  r = "session" <=> txs[t].next = 1
  <2>1. <<"lock", r>> \in Takes <=> r = "session"
    BY DEF Takes
  <2> QED
    BY <1>5, <1>6, <1>8, <2>1
<1>9. <<"compare", "session">> = Script(t)[txs[t].next] => txs[t].next = 1
  BY <1>5 DEF Takes
<1> QED
  BY <1>6, <1>7, <1>8, <1>9

\* At its end a transaction has begun.
LEMMA EndBegun ==
  ASSUME TransactionsTypeOK, NEW t \in Transactions, CanWrite(t)
  PROVE  Begun(t) /\ (txs[t].kind = "preference" => txs[t].next > 2)
<1>1. txs[t].kind \in Kinds /\ txs[t].next \in Nat
  BY DEF TransactionsTypeOK, Transaction
<1>2. Is(t, "running") /\ txs[t].next > Len(Statements(txs[t].kind))
  BY DEF CanWrite, AtEnd, Script, Is
<1>3. Len(Statements(txs[t].kind)) \in 1..6
  BY <1>1, SessionFirst DEF LockedFirst
<1>4. txs[t].kind = "preference" => txs[t].next > 2
  BY <1>1, <1>2, PreferenceScript
<1>5. txs[t].next > 1
  <2> DEFINE n == Len(Statements(txs[t].kind))
  <2>1. n \in 1..6 /\ txs[t].next > n
    BY <1>2, <1>3
  <2> HIDE DEF n
  <2>2. n \in Nat /\ n >= 1
    BY <2>1
  <2> QED
    BY <1>1, <2>1, <2>2
<1> QED
  BY <1>2, <1>4, <1>5 DEF Begun

\* No two transactions have begun at the same time.
LEMMA OneBegun ==
  ASSUME LockInv, NEW t \in Transactions, NEW u \in Transactions,
         Begun(t), Begun(u)
  PROVE  t = u
  BY DEF LockInv

\* Only the holder of the session row changes it or the preferences, and it
\* lets go of the row with that.
LEMMA LockKept ==
  ASSUME TransactionsTypeOK, LockInv, [Next]_vars
  PROVE  LockInv'
<1>1. CASE UNCHANGED vars
  BY <1>1 DEF vars, LockInv, Begun, Is
<1>2. ASSUME NEW t \in Transactions, Begins(t) PROVE LockInv'
  BY <1>2 DEF Begins, Changes, LockInv, Begun, Is
<1>3. ASSUME NEW t \in Transactions, Goes(t) PROVE LockInv'
  <2>1. txs[t].next \in Nat /\ txs[t].next >= 1 /\ txs'[t].next > 1
    BY <1>3 DEF Goes, TransactionsTypeOK, Transaction, LockInv
  <2>2. \A u \in Transactions : u # t => txs'[u] = txs[u]
    BY <1>3 DEF Goes, Changes
  <2>3. CASE Is(t, "conflict")
    <3>1. ~Is(t, "running") /\ ~(Is(t, "running"))' /\ ~(Is(t, "idle"))'
      BY <1>3, <2>3 DEF Goes, Is
    <3>2. \A r \in Rows : ~About(t, "lock", r) /\ ~About(t, "compare", "session")
                          /\ ~About(t, "check", r) /\ ~About(t, "check", "epoch")
      <4>1. Script(t) = ConflictStatements
        BY <2>3 DEF Script
      <4>2. ~AtEnd(t) => txs[t].next \in {1, 2}
        BY <2>1, <4>1, ConflictScript DEF AtEnd
      <4> QED
        BY <4>1, <4>2, ConflictScript DEF About
    <3>3. UNCHANGED <<row, pref, holder>>
      BY <1>3, <3>2 DEF Goes
    <3>4. txs'[t].next >= 1
      BY <2>1, <1>3 DEF Goes
    <3>5. \A u \in Transactions : u # t => (Begun(u))' = Begun(u)
      BY <2>2 DEF Begun, Is
    <3>6. ~(Begun(t))'
      BY <3>1 DEF Begun
    <3> QED
      BY <2>2, <3>1, <3>3, <3>4, <3>5, <3>6 DEF LockInv, Is
  <2>4. CASE Is(t, "running")
    <3>1. /\ (Is(t, "running"))' /\ UNCHANGED <<row, pref>> /\ ~AtEnd(t)
          /\ txs'[t].next = txs[t].next + 1 /\ txs'[t].kind = txs[t].kind
      BY <1>3, <2>4 DEF Goes, Is, Changes
    <3>2. CASE txs[t].next = 1
      <4>1. Script(t)[1] \in Takes
        BY <2>4, <3>1, <3>2, FirstStatement
      <4>2. Take(t, "session") /\ txs'[t].seen = row
        BY <1>3, <3>2, <4>1, FirstStatement, <2>4, <3>1
           DEF Goes, About, Takes
      <4>3. holder["session"] = Nobody /\ holder'["session"] = t
        BY <4>2 DEF Take, TransactionsTypeOK, Rows
      <4>4. \A u \in Transactions : ~Begun(u)
        BY <4>3, NobodyAssumption DEF LockInv
      <4> QED
        BY <2>1, <2>2, <3>1, <3>2, <4>2, <4>3, <4>4 DEF LockInv, Begun, Is
    <3>3. CASE txs[t].next # 1
      <4>1. Begun(t) /\ holder["session"] = t /\ txs[t].seen = row
        BY <2>1, <2>4, <3>3 DEF Begun, LockInv
      <4>2. /\ ~About(t, "lock", "session") /\ ~About(t, "compare", "session")
            /\ ~About(t, "read", "session")
        BY <2>4, <3>1, <3>3, FirstStatement DEF About, Rows
      <4>3. holder'["session"] = t /\ txs'[t].seen = row
        BY <1>3, <4>1, <4>2 DEF Goes, Take, TransactionsTypeOK, Rows
      <4>4. \A u \in Transactions : u # t => ~Begun(u)
        BY <4>1, OneBegun
      <4>5. ASSUME txs[t].kind = "preference" PROVE txs'[t].pref = pref
        <5>1. Script(t) = Statements("preference")
          BY <2>4, <4>5 DEF Script, Is
        <5>2. txs[t].next \in {2, 3}
          <6> DEFINE n == Len(Script(t))
          <6>1. n = 3
            BY <5>1, PreferenceScript
          <6>2. ~(txs[t].next > n)
            BY <3>1 DEF AtEnd
          <6> HIDE DEF n
          <6> QED
            BY <2>1, <3>3, <6>1, <6>2
        <5>3. CASE txs[t].next = 2
          <6>1. About(t, "read", "preference")
            BY <1>3, <5>1, <5>3, PreferenceScript DEF Goes, About
          <6>2. /\ \A r \in Rows : About(t, "read", r) => r = "preference"
                /\ \A r \in Rows : ~About(t, "lock", r)
                /\ ~About(t, "check", "session") /\ ~About(t, "check", "epoch")
            BY <6>1 DEF About
          <6>3. ~\E r \in {"session", "epoch"} : About(t, "check", r)
            BY <6>2
          <6>4. PICK r \in Rows :
                  /\ \/ About(t, "read", r)
                     \/ About(t, "lock", r)
                     \/ About(t, "compare", "session")
                  /\ txs'[t].pref = IF r = "preference" THEN pref
                                    ELSE txs[t].pref
            BY <1>3, <6>3 DEF Goes
          <6>5. r = "preference"
            BY <4>2, <6>2, <6>4
          <6> QED
            BY <6>4, <6>5
        <5>4. CASE txs[t].next = 3
          <6>1. txs[t].pref = pref
            BY <4>1, <4>5, <5>4 DEF LockInv
          <6> QED
            BY <1>3, <6>1 DEF Goes
        <5> QED
          BY <5>2, <5>3, <5>4
      <4> QED
        BY <2>1, <2>2, <3>1, <4>1, <4>3, <4>4, <4>5 DEF LockInv, Begun, Is
    <3> QED
      BY <3>2, <3>3
  <2> QED
    BY <1>3, <2>3, <2>4 DEF Goes, Open, Is
<1>4. ASSUME NEW t \in Transactions, Conflicts(t) PROVE LockInv'
  BY <1>4 DEF Conflicts, Changes, LockInv, Begun, Is
<1>5. ASSUME NEW t \in Transactions, Ends(t) PROVE LockInv'
  <2>1. /\ ~(Is(t, "running"))' /\ ~(Is(t, "idle"))'
        /\ \A u \in Transactions : u # t => txs'[u] = txs[u]
        /\ UNCHANGED <<row, pref>> /\ Release(t)
    BY <1>5 DEF Ends, Changes, Is, Ended
  <2>2. \A u \in Transactions \ {t} : holder["session"] = u => holder'["session"] = u
    BY <2>1 DEF Release, Rows
  <2>3. txs'[t].next >= 1
    BY <1>5 DEF Ends, Changes, LockInv, TransactionsTypeOK
  <2> QED
    BY <2>1, <2>2, <2>3 DEF LockInv, Begun, Is
<1>6. ASSUME NEW t \in Transactions, Writes(t) PROVE LockInv'
  <2>1. Begun(t)
    BY <1>6, EndBegun DEF Writes
  <2>2. \A u \in Transactions : u # t => ~Begun(u) /\ txs'[u] = txs[u]
    BY <1>6, <2>1, OneBegun DEF Writes, Changes
  <2>3. ~(Is(t, "running"))' /\ ~(Is(t, "idle"))'
    BY <1>6 DEF Writes, Is
  <2>4. txs'[t].next >= 1
    BY <1>6 DEF Writes, Changes, LockInv, TransactionsTypeOK
  <2> QED
    BY <2>2, <2>3, <2>4 DEF LockInv, Begun, Is
<1> QED
  BY <1>1, <1>2, <1>3, <1>4, <1>5, <1>6, StepKinds DEF Next

-----------------------------------------------------------------------------
(* Numbers and epochs.                                                     *)

NumbersInv == /\ row.seq = Len(log)
              /\ \A i \in DOMAIN log : log[i].seq = i

EpochInv == \A t \in Issued : txs[t].seen.epoch < row.epoch

\* What a transaction writes is counted up from the row as it is.
LEMMA Written ==
  ASSUME TransactionsTypeOK, LockInv, NEW t \in Transactions, Writes(t)
  PROVE  /\ row'.seq = row.seq + Len(Events(t))
         /\ row'.cv = IF NewContext(t) THEN row.cv + 1 ELSE row.cv
         /\ row'.epoch = IF txs[t].kind \in {"issue", "resume"}
                         THEN row.epoch + 1 ELSE row.epoch
         /\ txs[t].seen = row
         /\ log' = log \o Events(t)
<1>1. Begun(t)
  BY EndBegun DEF Writes
<1>2. txs[t].seen = row /\ row.seq \in Nat
  BY <1>1 DEF LockInv, TransactionsTypeOK, SessionRow
<1>3. Events(t) = <<>> => row.seq = row.seq + Len(Events(t))
  BY <1>2, EventsTyped
<1> QED
  BY <1>2, <1>3 DEF Writes, Write

\* What is written comes behind what there is.
LEMMA Appended ==
  ASSUME TransactionsTypeOK, LockInv, NumbersInv, NEW t \in Transactions,
         Writes(t)
  PROVE  /\ Len(log) \in Nat /\ Len(Events(t)) \in Nat
         /\ DOMAIN log = 1..Len(log)
         /\ Len(log') = Len(log) + Len(Events(t))
         /\ DOMAIN log' = 1..(Len(log) + Len(Events(t)))
         /\ \A i \in 1..Len(log) : log'[i] = log[i]
         /\ \A i \in (Len(log) + 1)..(Len(log) + Len(Events(t))) :
              /\ i - Len(log) \in 1..Len(Events(t))
              /\ log'[i] = Events(t)[i - Len(log)]
              /\ log'[i].seq = i
<1>1. /\ log \in Seq(Entry) /\ row.seq \in Nat /\ row.seq = Len(log)
      /\ Events(t) \in Seq(Entry) /\ Len(Events(t)) \in Nat
      /\ \A i \in 1..Len(Events(t)) : Events(t)[i].seq = row.seq + i
  BY EventsTyped, Written DEF TransactionsTypeOK, SessionRow, NumbersInv
<1>2. log' = log \o Events(t)
  BY Written
<1> DEFINE n == Len(log)
           k == Len(Events(t))
<1>3. /\ n \in Nat /\ k \in Nat /\ DOMAIN log = 1..n
      /\ DOMAIN log' = 1..(n + k) /\ Len(log') = n + k
      /\ \A i \in 1..n : log'[i] = log[i]
      /\ \A i \in (n + 1)..(n + k) : log'[i] = Events(t)[i - n]
  BY <1>1, <1>2, LenProperties, ConcatProperties
<1>4. /\ row.seq = n
      /\ \A i \in 1..k : Events(t)[i].seq = row.seq + i
  BY <1>1
<1> HIDE DEF n, k
<1>5. ASSUME NEW i \in (n + 1)..(n + k)
      PROVE  i - n \in 1..k /\ log'[i].seq = i
  <2>1. i \in Int /\ i - n \in 1..k
    BY <1>3
  <2>2. log'[i].seq = row.seq + (i - n)
    BY <1>3, <1>4, <2>1
  <2> QED
    BY <1>3, <1>4, <2>1, <2>2
<1> QED
  BY <1>3, <1>5 DEF n, k

\* last_event_seq counts the log.
LEMMA NumbersKept ==
  ASSUME TransactionsTypeOK, LockInv, NumbersInv, [Next]_vars
  PROVE  NumbersInv'
<1>1. CASE UNCHANGED <<row, log>>
  BY <1>1 DEF NumbersInv
<1>2. ASSUME NEW t \in Transactions, Writes(t) PROVE NumbersInv'
  <2> DEFINE n == Len(log)
             k == Len(Events(t))
  <2>1. /\ n \in Nat /\ k \in Nat /\ DOMAIN log = 1..n /\ Len(log') = n + k
        /\ DOMAIN log' = 1..(n + k)
        /\ \A i \in 1..n : log'[i] = log[i]
        /\ \A i \in (n + 1)..(n + k) : log'[i].seq = i
    BY <1>2, Appended
  <2>2. row.seq = n /\ row'.seq = n + k
    BY <1>2, Written DEF NumbersInv
  <2>3. \A i \in 1..n : log'[i].seq = i
    BY <2>1 DEF NumbersInv
  <2> HIDE DEF n, k
  <2>4. \A i \in 1..(n + k) : i \in 1..n \/ i \in (n + 1)..(n + k)
    BY <2>1
  <2> QED
    BY <2>1, <2>2, <2>3, <2>4 DEF NumbersInv
<1>3. ASSUME NEW t \in Transactions,
             Begins(t) \/ Goes(t) \/ Conflicts(t) \/ Ends(t)
      PROVE  UNCHANGED <<row, log>>
  BY <1>3 DEF Begins, Goes, Conflicts, Ends
<1> QED
  BY <1>1, <1>2, <1>3, StepKinds DEF Next, vars

\* Nothing collides with what is counted up from the row as it is.
LEMMA NoCollision ==
  ASSUME TransactionsTypeOK, LockInv, NumbersInv, NEW t \in Transactions,
         CanWrite(t)
  PROVE  ~Collides(t)
<1>1. Begun(t) /\ (txs[t].kind = "preference" => txs[t].next > 2)
  BY EndBegun
<1>2. txs[t].seen = row /\ row.seq \in Nat /\ pref \in Nat
  BY <1>1 DEF LockInv, TransactionsTypeOK, SessionRow
<1>3. txs[t].kind = "preference" => NamedPreference(t) = pref + 1
  BY <1>1 DEF LockInv, NamedPreference
<1>4. ASSUME NEW i \in DOMAIN log, NEW j \in DOMAIN Events(t)
      PROVE  log[i].seq # Events(t)[j].seq
  <2>1. log[i].seq \in Nat /\ log[i].seq <= row.seq
    <3>1. log \in Seq(Entry)
      BY DEF TransactionsTypeOK
    <3>2. DOMAIN log = 1..Len(log) /\ Len(log) \in Nat
      BY <3>1, LenProperties
    <3> QED
      BY <3>2 DEF NumbersInv
  <2>2. Events(t)[j].seq = row.seq + j /\ j \in Nat /\ j >= 1
    BY <1>2, EventsTyped
  <2> QED
    BY <1>2, <2>1, <2>2
<1>5. ~(txs[t].kind = "preference" /\ NamedPreference(t) <= pref)
  BY <1>2, <1>3
<1> QED
  BY <1>4, <1>5 DEF Collides

LEMMA CollisionsKept ==
  ASSUME TransactionsTypeOK, LockInv, NumbersInv, NothingCollides, [Next]_vars
  PROVE  NothingCollides'
<1>1. CASE UNCHANGED vars
  BY <1>1 DEF vars, NothingCollides, Is
<1>2. ASSUME NEW t \in Transactions,
             Begins(t) \/ Goes(t) \/ Conflicts(t) \/ Ends(t) \/ Writes(t)
      PROVE  NothingCollides'
  <2>1. \A u \in Transactions : u # t => txs'[u] = txs[u]
    BY <1>2 DEF Begins, Goes, Conflicts, Ends, Writes, Changes
  <2>2. txs'[t].status # "collided"
    <3>1. CASE Begins(t) \/ Conflicts(t) \/ Writes(t)
      BY <3>1 DEF Begins, Conflicts, Writes
    <3>2. CASE Goes(t)
      BY <3>2 DEF Goes, Open
    <3>3. CASE Ends(t)
      BY <3>3, NoCollision DEF Ends
    <3> QED
      BY <1>2, <3>1, <3>2, <3>3
  <2> QED
    BY <2>1, <2>2 DEF NothingCollides, Is
<1> QED
  BY <1>1, <1>2, StepKinds DEF Next

\* An epoch is counted up from the row, which none has reached.
LEMMA EpochsKept ==
  ASSUME TransactionsTypeOK, LockInv, EpochInv, EpochsDistinct, [Next]_vars
  PROVE  EpochInv' /\ EpochsDistinct'
<1>1. CASE UNCHANGED vars
  BY <1>1 DEF vars, EpochInv, EpochsDistinct, Issued, Is
<1>2. ASSUME NEW t \in Transactions,
             Begins(t) \/ Goes(t) \/ Conflicts(t) \/ Ends(t)
      PROVE  EpochInv' /\ EpochsDistinct'
  <2>1. /\ \A u \in Transactions : u # t => txs'[u] = txs[u]
        /\ UNCHANGED row
    BY <1>2 DEF Begins, Goes, Conflicts, Ends, Changes
  <2>2. txs'[t].status # "committed"
    BY <1>2 DEF Begins, Goes, Conflicts, Ends, Open
  <2>3. \A u \in Issued' : u \in Issued /\ txs'[u] = txs[u]
    BY <2>1, <2>2 DEF Issued, Is
  <2> QED
    BY <2>1, <2>3 DEF EpochInv, EpochsDistinct
<1>3. ASSUME NEW t \in Transactions, Writes(t)
      PROVE  EpochInv' /\ EpochsDistinct'
  <2>1. /\ \A u \in Transactions : u # t => txs'[u] = txs[u]
        /\ txs'[t].kind = txs[t].kind /\ txs'[t].seen = txs[t].seen
    BY <1>3 DEF Writes, Changes
  <2>2. /\ txs[t].seen = row /\ row.epoch \in Nat
        /\ row'.epoch \in {row.epoch, row.epoch + 1}
        /\ txs[t].kind \in {"issue", "resume"} => row'.epoch = row.epoch + 1
    BY <1>3, Written DEF TransactionsTypeOK, SessionRow
  <2>3. /\ \A u \in Issued' : u # t => u \in Issued
        /\ t \in Issued' => txs[t].kind \in {"issue", "resume"}
    BY <2>1 DEF Issued, Is
  <2>4. \A u \in Issued : txs[u].seen.epoch \in Nat
                          /\ txs[u].seen.epoch < row.epoch
    BY DEF EpochInv, Issued, TransactionsTypeOK, Transaction, SessionRow
  <2>5. EpochInv'
    <3> SUFFICES ASSUME NEW u \in Issued' PROVE txs'[u].seen.epoch < row'.epoch
      BY DEF EpochInv
    <3>1. CASE u = t
      BY <2>1, <2>2, <2>3, <3>1
    <3>2. CASE u # t
      <4>1. u \in Issued /\ txs'[u] = txs[u]
        BY <2>1, <2>3, <3>2 DEF Issued
      <4> QED
        BY <2>2, <2>4, <4>1
    <3> QED
      BY <3>1, <3>2
  <2>6. EpochsDistinct'
    <3> SUFFICES ASSUME NEW u \in Issued', NEW v \in Issued', u # v
                 PROVE  txs'[u].seen.epoch # txs'[v].seen.epoch
      BY DEF EpochsDistinct
    <3>1. \A w \in {u, v} : w # t => w \in Issued /\ txs'[w] = txs[w]
                                      /\ txs'[w].seen.epoch < row.epoch
                                      /\ txs'[w].seen.epoch \in Nat
      BY <2>1, <2>3, <2>4 DEF Issued
    <3>2. txs'[t].seen.epoch = row.epoch
      BY <2>1, <2>2
    <3>3. CASE u # t /\ v # t
      BY <3>1, <3>3 DEF EpochsDistinct
    <3>4. CASE u = t \/ v = t
      BY <2>2, <3>1, <3>2, <3>4
    <3> QED
      BY <3>3, <3>4
  <2> QED
    BY <2>5, <2>6
<1> QED
  BY <1>1, <1>2, <1>3, StepKinds DEF Next

-----------------------------------------------------------------------------
(* The answer 409.                                                         *)

Answering(t) == Is(t, "conflict") \/ Is(t, "told")

\* The session row is read before the preference: while its version is still
\* the current one, nobody has replaced the preference.
ConflictInv ==
  \A t \in Transactions : Answering(t) =>
    /\ txs[t].next >= 2 => txs[t].seen.cv <= row.cv
    /\ txs[t].next >= 3 /\ txs[t].seen.cv = row.cv => txs[t].pref = pref
    /\ Is(t, "told") => txs[t].next >= 3

\* A preference is replaced only in a new context.
LEMMA ReplacedInContext ==
  ASSUME TransactionsTypeOK, LockInv, NEW t \in Transactions, Writes(t)
  PROVE  /\ row.cv \in Nat /\ row'.cv \in Nat /\ row'.cv >= row.cv
         /\ row'.cv = row.cv => pref' = pref
<1>1. row.cv \in Nat
  BY DEF TransactionsTypeOK, SessionRow
<1>2. row'.cv = IF NewContext(t) THEN row.cv + 1 ELSE row.cv
  BY Written
<1>3. ~NewContext(t) => pref' = pref
  BY DEF Writes, Write, NewContext
<1> QED
  BY <1>1, <1>2, <1>3

LEMMA ConflictsKept ==
  ASSUME TransactionsTypeOK, LockInv, ConflictInv, [Next]_vars
  PROVE  ConflictInv'
<1> DEFINE Told(u) ==
      /\ txs[u].next >= 2 => txs[u].seen.cv <= row.cv
      /\ txs[u].next >= 3 /\ txs[u].seen.cv = row.cv => txs[u].pref = pref
      /\ Is(u, "told") => txs[u].next >= 3
<1>1. CASE UNCHANGED vars
  BY <1>1 DEF vars, ConflictInv, Answering, Is
<1>2. \A u \in Transactions : /\ txs[u].seen.cv \in Nat /\ txs[u].next \in Nat
                              /\ row.cv \in Nat
  BY DEF TransactionsTypeOK, Transaction, SessionRow
<1>3. ASSUME NEW t \in Transactions, UNCHANGED <<row, pref>>,
             \A u \in Transactions : u # t => txs'[u] = txs[u],
             (Answering(t) => Told(t))'
      PROVE  ConflictInv'
  BY <1>3 DEF ConflictInv, Answering, Is
<1>4. ASSUME NEW t \in Transactions, Begins(t) PROVE ConflictInv'
  BY <1>3, <1>4 DEF Begins, Changes, Answering, Is
<1>5. ASSUME NEW t \in Transactions, Conflicts(t) PROVE ConflictInv'
  BY <1>3, <1>5 DEF Conflicts, Changes, Answering, Is
<1>6. ASSUME NEW t \in Transactions, Ends(t) PROVE ConflictInv'
  <2>1. CASE txs'[t].status = "told"
    <3>1. Is(t, "conflict") /\ txs[t].next > 2
      BY <1>6, <2>1, ConflictScript DEF Ends, AtEnd, Script
    <3>2. Told(t) /\ txs[t].next >= 3
      BY <1>2, <3>1 DEF ConflictInv, Answering, Is
    <3>3. (Answering(t) => Told(t))'
      BY <1>6, <3>2 DEF Ends, Is
    <3> QED
      BY <1>3, <1>6, <3>3 DEF Ends, Changes
  <2>2. CASE txs'[t].status # "told"
    BY <1>3, <1>6, <2>2 DEF Ends, Changes, Answering, Is, Ended
  <2> QED
    BY <2>1, <2>2
<1>7. ASSUME NEW t \in Transactions, Goes(t) PROVE ConflictInv'
  <2>1. CASE ~Is(t, "conflict")
    BY <1>3, <1>7, <2>1 DEF Goes, Changes, Answering, Is, Open
  <2>2. CASE Is(t, "conflict")
    <3>1. Script(t) = ConflictStatements
      BY <2>2 DEF Script
    <3>2. txs[t].next \in {1, 2}
      <4>1. txs[t].next \in Nat /\ txs[t].next >= 1
        BY <1>2 DEF LockInv
      <4>2. ~(txs[t].next > 2)
        BY <1>7, <3>1, ConflictScript DEF Goes, AtEnd
      <4> QED
        BY <4>1, <4>2
    <3>3. \A r \in Rows : ~About(t, "lock", r)
      BY <3>1, <3>2, ConflictScript DEF About
    <3>4. /\ ~About(t, "check", "session") /\ ~About(t, "check", "epoch")
          /\ ~About(t, "compare", "session")
      BY <3>1, <3>2, ConflictScript DEF About
    <3>5. PICK r \in Rows :
            /\ About(t, "read", r)
            /\ txs'[t].seen = IF r = "session" THEN row ELSE txs[t].seen
            /\ txs'[t].pref = IF r = "preference" THEN pref ELSE txs[t].pref
      <4>1. ~\E r \in {"session", "epoch"} : About(t, "check", r)
        BY <3>4
      <4> QED
        BY <1>7, <3>3, <3>4, <4>1 DEF Goes
    <3>6. /\ txs[t].next = 1 => r = "session"
          /\ txs[t].next = 2 => r = "preference"
      BY <3>1, <3>5, ConflictScript DEF About
    <3>7. txs'[t].next = txs[t].next + 1 /\ ~Is(t, "told")
          /\ txs'[t].status = "conflict" /\ UNCHANGED <<row, pref>>
          /\ \A u \in Transactions : u # t => txs'[u] = txs[u]
      BY <1>7, <2>2 DEF Goes, Is, Changes
    <3>8. CASE txs[t].next = 1
      <4>1. txs'[t].next = 2 /\ txs'[t].seen.cv <= row.cv
        BY <1>2, <3>5, <3>6, <3>7, <3>8
      <4> QED
        BY <1>3, <3>7, <4>1 DEF Is
    <3>9. CASE txs[t].next = 2
      <4>1. /\ txs'[t].next = 3 /\ txs'[t].seen = txs[t].seen
            /\ txs'[t].pref = pref
        BY <3>5, <3>6, <3>7, <3>9
      <4>2. txs[t].seen.cv <= row.cv
        BY <2>2, <3>9 DEF ConflictInv, Answering
      <4> QED
        BY <1>3, <3>7, <4>1, <4>2 DEF Is
    <3> QED
      BY <3>2, <3>8, <3>9
  <2> QED
    BY <2>1, <2>2
<1>8. ASSUME NEW t \in Transactions, Writes(t) PROVE ConflictInv'
  <2>1. /\ row'.cv \in Nat /\ row'.cv >= row.cv
        /\ row'.cv = row.cv => pref' = pref
    BY <1>8, ReplacedInContext
  <2>2. /\ ~(Answering(t))'
        /\ \A u \in Transactions : u # t => txs'[u] = txs[u]
    BY <1>8 DEF Writes, Changes, Answering, Is
  <2> SUFFICES ASSUME NEW u \in Transactions, (Answering(u))'
               PROVE  (Told(u))'
    BY DEF ConflictInv
  <2>3. txs'[u] = txs[u] /\ Answering(u)
    BY <2>2 DEF Answering, Is
  <2>4. Told(u)
    BY <2>3 DEF ConflictInv
  <2>5. txs[u].next >= 2 => txs[u].seen.cv <= row'.cv
    BY <1>2, <2>1, <2>4
  <2>6. txs[u].next >= 3 /\ txs[u].seen.cv = row'.cv
          => txs[u].seen.cv = row.cv /\ row'.cv = row.cv
    BY <1>2, <2>1, <2>4
  <2> QED
    BY <2>1, <2>3, <2>4, <2>5, <2>6 DEF Is
<1> QED
  BY <1>1, <1>4, <1>5, <1>6, <1>7, <1>8, StepKinds DEF Next

-----------------------------------------------------------------------------
(* What an open transaction has read is still so.                          *)

\* The statement that compares the context version.
CheckedAt == [plan |-> 3, compose |-> 2]

HeldInv ==
  \A t \in Transactions :
    /\ Is(t, "idle") \/ (Is(t, "running") /\ txs[t].next = 1)
         => txs[t].pref = 0
    /\ Begun(t) => txs[t].pref \in {0, pref}
    /\ Begun(t) /\ txs[t].kind \in DOMAIN CheckedAt
         => (txs[t].next > CheckedAt[txs[t].kind] => ~Stale(t))

LEMMA CheckScripts ==
  /\ Len(Statements("plan")) = 3 /\ Len(Statements("compose")) = 5
  /\ \A kind \in DOMAIN CheckedAt :
       /\ CheckedAt[kind] \in {2, 3}
       /\ Statements(kind)[CheckedAt[kind]] = <<"check", "session">>
<1>1. DOMAIN CheckedAt = {"plan", "compose"}
  BY DEF CheckedAt
<1>2. /\ Len(PlanStatements) = 3
      /\ PlanStatements[3] = <<"check", "session">>
  BY DEF PlanStatements
<1>3. /\ Len(ComposeStatements) = 5
      /\ ComposeStatements[2] = <<"check", "session">>
  BY DEF ComposeStatements
<1>4. /\ Statements("plan") = PlanStatements
      /\ Statements("compose") = ComposeStatements
  BY DEF Statements
<1>5. CheckedAt["plan"] = 3 /\ CheckedAt["compose"] = 2
  BY DEF CheckedAt
<1> QED
  BY <1>1, <1>2, <1>3, <1>4, <1>5

LEMMA HeldKept ==
  ASSUME TransactionsTypeOK, LockInv, HeldInv, [Next]_vars
  PROVE  HeldInv'
<1> DEFINE Held(u) ==
      /\ Is(u, "idle") \/ (Is(u, "running") /\ txs[u].next = 1)
           => txs[u].pref = 0
      /\ Begun(u) => txs[u].pref \in {0, pref}
      /\ Begun(u) /\ txs[u].kind \in DOMAIN CheckedAt
           => (txs[u].next > CheckedAt[txs[u].kind] => ~Stale(u))
<1>1. CASE UNCHANGED vars
  BY <1>1 DEF vars, HeldInv, Begun, Is, Stale
<1>2. ASSUME NEW t \in Transactions, UNCHANGED pref,
             \A u \in Transactions : u # t => txs'[u] = txs[u],
             (Held(t))'
      PROVE  HeldInv'
  BY <1>2 DEF HeldInv, Begun, Is, Stale
<1>3. ASSUME NEW t \in Transactions, Begins(t) PROVE HeldInv'
  <2>1. txs[t].pref = 0 /\ txs[t].next = 1
    BY <1>3 DEF Begins, HeldInv, LockInv
  <2>2. (Held(t))'
    BY <1>3, <2>1 DEF Begins, Begun, Is
  <2> QED
    BY <1>2, <1>3, <2>2 DEF Begins, Changes
<1>4. ASSUME NEW t \in Transactions, Conflicts(t) \/ Ends(t)
      PROVE  HeldInv'
  <2>1. (Held(t))'
    BY <1>4 DEF Conflicts, Ends, Begun, Is, Ended
  <2> QED
    BY <1>2, <1>4, <2>1 DEF Conflicts, Ends, Changes
<1>5. ASSUME NEW t \in Transactions, Writes(t) PROVE HeldInv'
  <2>1. Begun(t) /\ (Held(t))'
    BY <1>5, EndBegun DEF Writes, Begun, Is
  <2>2. \A u \in Transactions : u # t => ~Begun(u) /\ txs'[u] = txs[u]
    BY <1>5, <2>1, OneBegun DEF Writes, Changes
  <2> QED
    BY <2>1, <2>2 DEF HeldInv, Begun, Is
<1>6. ASSUME NEW t \in Transactions, Goes(t) PROVE HeldInv'
  <2>1. /\ txs[t].next \in Nat /\ txs[t].next >= 1
        /\ txs'[t].next = txs[t].next + 1 /\ txs'[t].next # 1
    BY <1>6 DEF Goes, TransactionsTypeOK, Transaction, LockInv
  <2>2. CASE Is(t, "conflict")
    <3>1. (Held(t))'
      BY <1>6, <2>2 DEF Goes, Begun, Is
    <3> QED
      BY <1>2, <1>6, <3>1 DEF Goes, Changes
  <2>3. CASE Is(t, "running")
    <3>1. /\ txs'[t].kind = txs[t].kind /\ txs'[t].base = txs[t].base
          /\ (Is(t, "running"))' /\ UNCHANGED <<row, pref>>
      BY <1>6, <2>3 DEF Goes, Changes, Is
    <3>2. txs[t].pref \in {0, pref}
      BY <2>1, <2>3 DEF HeldInv, Begun
    <3>3. txs'[t].pref \in {0, pref}
      BY <1>6, <3>2 DEF Goes
    <3>4. ASSUME txs[t].kind \in DOMAIN CheckedAt,
                 txs'[t].next > CheckedAt[txs[t].kind]
          PROVE  (~Stale(t))'
      <4>1. CheckedAt[txs[t].kind] \in {2, 3}
        BY <3>4, CheckScripts
      <4>2. txs[t].next >= CheckedAt[txs[t].kind] /\ txs[t].next > 1
        BY <2>1, <3>4, <4>1
      <4>3. Begun(t) /\ txs[t].seen = row
        BY <2>3, <4>2 DEF Begun, LockInv
      <4>4. ~Stale(t)
        <5>1. CASE txs[t].next > CheckedAt[txs[t].kind]
          BY <3>4, <4>3, <5>1 DEF HeldInv
        <5>2. CASE txs[t].next = CheckedAt[txs[t].kind]
          <6>1. Script(t)[txs[t].next] = <<"check", "session">>
            BY <2>3, <3>4, <5>2, CheckScripts DEF Script, Is
          <6>2. About(t, "check", "session")
            BY <1>6, <6>1 DEF Goes, About
          <6>3. /\ ~About(t, "compare", "session")
                /\ \A r \in Rows : ~About(t, "read", r) /\ ~About(t, "lock", r)
            BY <6>1 DEF About
          <6> QED
            BY <1>6, <6>2, <6>3 DEF Goes
        <5> QED
          BY <2>1, <4>1, <4>2, <5>1, <5>2
      <4>5. txs'[t].seen = row
        BY <1>6, <4>3 DEF Goes
      <4> QED
        BY <3>1, <4>3, <4>4, <4>5 DEF Stale
    <3>5. (Held(t))'
      BY <2>1, <3>1, <3>3, <3>4 DEF Is
    <3> QED
      BY <1>2, <1>6, <3>5 DEF Goes, Changes
  <2> QED
    BY <1>6, <2>2, <2>3 DEF Goes, Open, Is
<1> QED
  BY <1>1, <1>3, <1>4, <1>5, <1>6, StepKinds DEF Next

-----------------------------------------------------------------------------
(* Preferences in the log.                                                 *)

Updates(entries, i) ==
  Cardinality({j \in 1..i : entries[j].by = "preference"})

\* Each update in the log made one version.
VersionsInv == pref = 1 + Updates(log, Len(log))

\* What the events of a transaction say.
LEMMA EventFields ==
  ASSUME TransactionsTypeOK, NEW t \in Transactions,
         NEW i \in 1..Len(Events(t))
  PROVE  /\ Len(Events(t)) = Len(EventKinds(t))
         /\ Events(t)[i].by = txs[t].kind
         /\ Events(t)[i].pref = NamedPreference(t)
         /\ Events(t)[i].kind = EventKinds(t)[i]
         /\ Events(t)[i].cv = IF EventKinds(t)[i] = "context"
                               THEN txs[t].seen.cv + 1
                               ELSE IF EventKinds(t)[i] = "work"
                               THEN txs[t].base ELSE txs[t].seen.cv
<1>1. i \in DOMAIN EventKinds(t)
  BY EventsTyped DEF Events
<1>2. Len(Events(t)) = Len(EventKinds(t))
  BY EventsTyped
<1> QED
  BY <1>1, <1>2 DEF Events

\* The updates up to a place are counted once more if one is appended there.
LEMMA PreferencesCounted ==
  ASSUME TransactionsTypeOK, LockInv, NumbersInv, NEW t \in Transactions,
         Writes(t)
  PROVE  /\ \A i \in 0..Len(log) : Updates(log', i) = Updates(log, i)
         /\ txs[t].kind # "preference" =>
              \A i \in Len(log)..(Len(log) + Len(Events(t))) :
                Updates(log', i) = Updates(log, Len(log))
         /\ txs[t].kind = "preference" =>
              /\ Len(Events(t)) = 1
              /\ Updates(log', Len(log) + 1) =
                   Updates(log, Len(log)) + 1
         /\ Updates(log, Len(log)) \in Nat
<1> DEFINE n == Len(log)
           k == Len(Events(t))
           Of(i) == {j \in 1..i : log[j].by = "preference"}
           OfNew(i) == {j \in 1..i : log'[j].by = "preference"}
<1>1. /\ n \in Nat /\ k \in Nat
      /\ \A i \in 1..n : log'[i] = log[i]
      /\ \A i \in (n + 1)..(n + k) : log'[i].by = txs[t].kind
  <2>1. /\ n \in Nat /\ k \in Nat
        /\ \A i \in 1..n : log'[i] = log[i]
        /\ \A i \in (n + 1)..(n + k) : /\ i - n \in 1..k
                                       /\ log'[i] = Events(t)[i - n]
    BY Appended
  <2> QED
    BY <2>1, EventFields
<1>2. txs[t].kind = "preference" => k = 1
  <2> SUFFICES ASSUME txs[t].kind = "preference", k # 1 PROVE FALSE
    OBVIOUS
  <2>1. EventKinds(t) = <<"context">>
    BY DEF EventKinds
  <2>2. DOMAIN Events(t) = {1} /\ DOMAIN Events(t) = 1..k
    BY <2>1, EventsTyped DEF Events
  <2> QED
    BY <1>1, <2>2
<1> HIDE DEF n, k
<1>3. \A i \in 0..n : OfNew(i) = Of(i)
  BY <1>1
<1>4. txs[t].kind # "preference" =>
        \A i \in n..(n + k) : OfNew(i) = Of(n)
  <2> SUFFICES ASSUME txs[t].kind # "preference", NEW i \in n..(n + k)
               PROVE  OfNew(i) = Of(n)
    OBVIOUS
  <2>1. \A j \in 1..i : j \in 1..n \/ j \in (n + 1)..(n + k)
    BY <1>1
  <2>2. \A j \in 1..n : j \in 1..i
    BY <1>1
  <2> QED
    BY <1>1, <2>1, <2>2
<1>5. txs[t].kind = "preference" =>
        OfNew(n + 1) = Of(n) \cup {n + 1}
  <2>1. \A j : j \in 1..(n + 1) <=> j \in 1..n \/ j = n + 1
    BY <1>1
  <2>2. n + 1 \in (n + 1)..(n + 1)
    BY <1>1
  <2> QED
    BY <1>1, <1>2, <2>1, <2>2
<1>6. IsFiniteSet(Of(n)) /\ Cardinality(Of(n)) \in Nat
  <2>1. IsFiniteSet(1..n) /\ Of(n) \in SUBSET (1..n)
    BY <1>1, FS_Interval
  <2> QED
    BY <2>1, FS_Subset, FS_CardinalityType
<1>7. n + 1 \notin Of(n)
  BY <1>1
<1>8. Cardinality(Of(n) \cup {n + 1}) = Cardinality(Of(n)) + 1
  BY <1>6, <1>7, FS_AddElement
<1> QED
  BY <1>1, <1>2, <1>3, <1>4, <1>5, <1>6, <1>8 DEF Updates, n, k

LEMMA NamesKept ==
  ASSUME TransactionsTypeOK, LockInv, NumbersInv, HeldInv, VersionsInv,
         EventsNamePreference, [Next]_vars
  PROVE  VersionsInv' /\ EventsNamePreference'
<1>1. CASE UNCHANGED <<pref, log>>
  BY <1>1 DEF VersionsInv, EventsNamePreference, PreferencesUpTo, Updates
<1>2. ASSUME NEW t \in Transactions, Writes(t)
      PROVE  VersionsInv' /\ EventsNamePreference'
  <2> DEFINE n == Len(log)
             k == Len(Events(t))
  <2>1. /\ n \in Nat /\ k \in Nat /\ DOMAIN log = 1..n /\ Len(log') = n + k
        /\ DOMAIN log' = 1..(n + k)
        /\ \A i \in 1..n : log'[i] = log[i]
        /\ \A i \in (n + 1)..(n + k) : /\ i - n \in 1..k
                                       /\ log'[i] = Events(t)[i - n]
    BY <1>2, Appended
  <2>2. \A i \in (n + 1)..(n + k) : log'[i].pref = NamedPreference(t)
    BY <2>1, EventFields
  <2>3. /\ \A i \in 0..n : Updates(log', i) = Updates(log, i)
        /\ txs[t].kind # "preference" =>
             \A i \in n..(n + k) :
               Updates(log', i) = Updates(log, n)
        /\ txs[t].kind = "preference" =>
             k = 1 /\ Updates(log', n + 1) = Updates(log, n) + 1
        /\ Updates(log, n) \in Nat
    BY <1>2, PreferencesCounted
  <2>4. pref = 1 + Updates(log, n)
    BY DEF VersionsInv
  <2>5. Begun(t) /\ (txs[t].kind = "preference" => txs[t].pref = pref)
    BY <1>2, EndBegun DEF Writes, LockInv
  <2>6. /\ txs[t].kind = "preference" =>
             pref' = pref + 1 /\ NamedPreference(t) = pref + 1
        /\ txs[t].kind # "preference" =>
             pref' = pref /\ NamedPreference(t) \in {0, pref}
    BY <1>2, <2>5 DEF Writes, Write, NamedPreference, HeldInv
  <2>7. \A i \in 1..n : log[i].pref # 0 => log[i].pref = 1 + Updates(log, i)
    BY <2>1 DEF EventsNamePreference, PreferencesUpTo, Updates
  <2> HIDE DEF n, k
  <2>8. pref' = 1 + Updates(log', n + k)
    <3>1. CASE txs[t].kind = "preference"
      BY <2>1, <2>3, <2>4, <2>6, <3>1
    <3>2. CASE txs[t].kind # "preference"
      <4>1. n + k \in n..(n + k)
        BY <2>1
      <4> QED
        BY <2>3, <2>4, <2>6, <3>2, <4>1
    <3> QED
      BY <3>1, <3>2
  <2>9. \A i \in 1..n :
          log'[i].pref # 0 => log'[i].pref = 1 + Updates(log', i)
    <3> SUFFICES ASSUME NEW i \in 1..n
                 PROVE  log'[i] = log[i] /\
                        Updates(log', i) = Updates(log, i)
      BY <2>7
    <3>1. i \in 0..n
      BY <2>1
    <3> QED
      BY <2>1, <2>3, <3>1
  <2>10. \A i \in (n + 1)..(n + k) :
           log'[i].pref # 0 => log'[i].pref = 1 + Updates(log', i)
    <3> SUFFICES ASSUME NEW i \in (n + 1)..(n + k), log'[i].pref # 0
                 PROVE  log'[i].pref = 1 + Updates(log', i)
      OBVIOUS
    <3>1. CASE txs[t].kind = "preference"
      <4>1. i = n + 1
        BY <2>1, <2>3, <3>1
      <4> QED
        BY <2>2, <2>3, <2>4, <2>6, <3>1, <4>1
    <3>2. CASE txs[t].kind # "preference"
      <4>1. i \in n..(n + k)
        BY <2>1
      <4> QED
        BY <2>2, <2>3, <2>4, <2>6, <3>2, <4>1
    <3> QED
      BY <3>1, <3>2
  <2>11. \A i \in 1..(n + k) : i \in 1..n \/ i \in (n + 1)..(n + k)
    BY <2>1
  <2>12. EventsNamePreference'
    BY <2>1, <2>9, <2>10, <2>11 DEF EventsNamePreference, PreferencesUpTo, Updates
  <2>13. VersionsInv'
    BY <2>1, <2>8 DEF VersionsInv
  <2> QED
    BY <2>12, <2>13
<1>3. ASSUME NEW t \in Transactions,
             Begins(t) \/ Goes(t) \/ Conflicts(t) \/ Ends(t)
      PROVE  UNCHANGED <<pref, log>>
  BY <1>3 DEF Begins, Goes, Conflicts, Ends
<1> QED
  BY <1>1, <1>2, <1>3, StepKinds DEF Next, vars

-----------------------------------------------------------------------------
(* The abstract log.                                                       *)

EntriesOf(rows) ==
  [i \in DOMAIN rows |->
     [seq |-> rows[i].seq, kind |-> rows[i].kind, cv |-> rows[i].cv]]

\* An entry for each row, and what it keeps of it.
LEMMA EntriesOfRows ==
  ASSUME NEW rows \in Seq(Entry)
  PROVE  /\ Len(EntriesOf(rows)) = Len(rows) /\ Len(rows) \in Nat
         /\ \A i \in 1..Len(rows) :
              EntriesOf(rows)[i] = [seq |-> rows[i].seq,
                                    kind |-> rows[i].kind, cv |-> rows[i].cv]
<1>1. Len(rows) \in Nat /\ DOMAIN rows = 1..Len(rows)
  BY LenProperties
<1>2. EntriesOf(rows) = [i \in 1..Len(rows) |->
        [seq |-> rows[i].seq, kind |-> rows[i].kind, cv |-> rows[i].cv]]
  BY <1>1 DEF EntriesOf
<1> QED
  BY <1>1, <1>2

\* What a transaction reports is of the version it has read, or makes the next.
LEMMA ReportsCurrent ==
  ASSUME TransactionsTypeOK, LockInv, HeldInv, NEW t \in Transactions,
         Writes(t)
  PROVE  /\ ~NewContext(t) => \A i \in 1..Len(Events(t)) :
              \/ Events(t)[i].kind = "quiet"
              \/ Events(t)[i].kind = "work" /\ Events(t)[i].cv = row.cv
         /\ NewContext(t) =>
              /\ Len(Events(t)) > 0
              /\ Events(t)[Len(Events(t))].kind = "context"
              /\ Events(t)[Len(Events(t))].cv = row.cv + 1
              /\ \A i \in 1..Len(Events(t)) :
                   i # Len(Events(t)) => Events(t)[i].kind = "quiet"
<1>1. /\ Begun(t) /\ txs[t].seen = row /\ txs[t].kind \in Kinds
      /\ txs[t].next \in Nat
  BY EndBegun DEF Writes, LockInv, TransactionsTypeOK, Transaction
<1>2. /\ Len(Events(t)) \in Nat /\ DOMAIN Events(t) = 1..Len(Events(t))
      /\ DOMAIN Events(t) = DOMAIN EventKinds(t)
  BY EventsTyped DEF Events
<1>3. txs[t].kind \in {"plan", "compose"} => ~Stale(t)
  <2> SUFFICES ASSUME txs[t].kind \in {"plan", "compose"} PROVE ~Stale(t)
    OBVIOUS
  <2> DEFINE n == Len(Statements(txs[t].kind))
  <2>1. n \in {3, 5} /\ (txs[t].kind = "plan" => n = 3)
                    /\ (txs[t].kind = "compose" => n = 5)
    BY CheckScripts
  <2>2. txs[t].next > n
    BY DEF Writes, CanWrite, AtEnd, Script, Is
  <2>3. /\ txs[t].kind \in DOMAIN CheckedAt
        /\ txs[t].kind = "plan" => CheckedAt[txs[t].kind] = 3
        /\ txs[t].kind = "compose" => CheckedAt[txs[t].kind] = 2
    BY DEF CheckedAt
  <2> HIDE DEF n
  <2>4. txs[t].next > CheckedAt[txs[t].kind]
    BY <1>1, <2>1, <2>2, <2>3
  <2> QED
    BY <1>1, <2>3, <2>4 DEF HeldInv
<1>4. ASSUME ~NewContext(t), NEW i \in 1..Len(Events(t))
      PROVE  \/ Events(t)[i].kind = "quiet"
             \/ Events(t)[i].kind = "work" /\ Events(t)[i].cv = row.cv
  <2>1. /\ EventKinds(t) \in {<<"work">>, <<"quiet">>, <<"work", "work">>, <<>>}
        /\ EventKinds(t) \in {<<"quiet">>, <<>>}
             \/ txs[t].kind \in {"plan", "compose"} \/ ~Stale(t)
    BY <1>1, <1>4 DEF EventKinds, Kinds, NewContext
  <2>2. i \in 1..Len(EventKinds(t))
    BY EventsTyped
  <2>4. /\ \A s \in {<<"work">>, <<"quiet">>, <<"work", "work">>, <<>>} :
             \A j \in 1..Len(s) : s[j] \in {"quiet", "work"}
        /\ \A s \in {<<"quiet">>, <<>>} : \A j \in 1..Len(s) : s[j] = "quiet"
    OBVIOUS
  <2>5. EventKinds(t)[i] \in {"quiet", "work"}
    BY <2>1, <2>2, <2>4
  <2>6. EventKinds(t)[i] = "work" =>
          txs[t].kind \in {"plan", "compose"} \/ ~Stale(t)
    BY <2>1, <2>2, <2>4
  <2>3. EventKinds(t)[i] = "work" => txs[t].base = row.cv
    BY <1>1, <1>3, <2>6 DEF Stale
  <2> QED
    BY <2>3, <2>5, EventFields
<1>5. ASSUME NewContext(t)
      PROVE  /\ Len(Events(t)) \in {1, 2}
             /\ EventKinds(t)[Len(Events(t))] = "context"
             /\ Len(Events(t)) = 2 => EventKinds(t)[1] = "quiet"
  <2>1. EventKinds(t) \in {<<"context">>, <<"quiet", "context">>}
    BY <1>5 DEF NewContext, EventKinds
  <2>2. Len(Events(t)) = Len(EventKinds(t))
    BY EventsTyped
  <2>3. \A s \in {<<"context">>, <<"quiet", "context">>} :
          /\ Len(s) \in {1, 2} /\ s[Len(s)] = "context"
          /\ Len(s) = 2 => s[1] = "quiet"
    OBVIOUS
  <2> QED
    BY <2>1, <2>2, <2>3
<1>6. ASSUME NewContext(t)
      PROVE  /\ Events(t)[Len(Events(t))].kind = "context"
             /\ Events(t)[Len(Events(t))].cv = row.cv + 1
             /\ \A i \in 1..Len(Events(t)) :
                  i # Len(Events(t)) => Events(t)[i].kind = "quiet"
  <2>1. Len(Events(t)) \in 1..Len(Events(t))
    <3> DEFINE k == Len(Events(t))
    <3>1. k = 1 \/ k = 2
      BY <1>5, <1>6
    <3> HIDE DEF k
    <3>2. k \in 1..k
      BY <3>1
    <3> QED
      BY <3>2 DEF k
  <2>2. \A i \in 1..Len(Events(t)) :
          i # Len(Events(t)) => i = 1 /\ Len(Events(t)) = 2
    <3> DEFINE k == Len(Events(t))
    <3>1. k = 1 \/ k = 2
      BY <1>5, <1>6
    <3> HIDE DEF k
    <3>2. \A i \in 1..k : i # k => i = 1 /\ k = 2
      BY <3>1
    <3> QED
      BY <3>2 DEF k
  <2> QED
    BY <1>1, <1>5, <1>6, <2>1, <2>2, EventFields
<1> QED
  BY <1>4, <1>5, <1>6

\* What a transaction writes is one step of the abstract log.
LEMMA WritesRefine ==
  ASSUME TransactionsTypeOK, TransactionsTypeOK', LockInv, NumbersInv, HeldInv,
         NEW t \in Transactions, Writes(t)
  PROVE  Abstract!Next
<1> DEFINE n == Len(log)
           k == Len(Events(t))
<1>1. /\ n \in Nat /\ k \in Nat /\ Len(log') = n + k
      /\ \A i \in 1..n : log'[i] = log[i]
      /\ \A i \in (n + 1)..(n + k) :
           /\ i - n \in 1..k /\ log'[i] = Events(t)[i - n] /\ log'[i].seq = i
  BY Appended
<1>2. /\ Len(Entries) = n
      /\ \A i \in 1..n : Entries[i] = [seq |-> log[i].seq,
                           kind |-> log[i].kind, cv |-> log[i].cv]
  <2>1. log \in Seq(Entry) /\ Entries = EntriesOf(log)
    BY DEF TransactionsTypeOK, Entries, EntriesOf
  <2> QED
    BY <2>1, EntriesOfRows
<1>3. /\ Len(Entries') = n + k
      /\ \A i \in 1..(n + k) :
           Entries'[i] = [seq |-> log'[i].seq,
                          kind |-> log'[i].kind, cv |-> log'[i].cv]
  <2>1. log' \in Seq(Entry) /\ Entries' = EntriesOf(log')
    BY DEF TransactionsTypeOK, Entries, EntriesOf
  <2> QED
    BY <1>1, <2>1, EntriesOfRows
<1>4. Abstract!Fresh = (n + 1)..(n + k)
  BY <1>2, <1>3 DEF Abstract!Fresh
<1> HIDE DEF n, k
<1>5. \A i \in (n + 1)..(n + k) : i \in 1..(n + k)
  BY <1>1
<1>6. \A i \in 1..n : i \in 1..(n + k)
  BY <1>1
<1>7. Abstract!Grow
  <2>1. n <= n + k
    BY <1>1
  <2>2. \A i \in 1..n : Entries'[i] = Entries[i]
    BY <1>1, <1>2, <1>3, <1>6
  <2>3. \A i \in (n + 1)..(n + k) : Entries'[i].seq = i
    BY <1>1, <1>3, <1>5
  <2> QED
    BY <1>2, <1>3, <1>4, <2>1, <2>2, <2>3 DEF Abstract!Grow
<1>8. \A i \in (n + 1)..(n + k) :
        /\ i - n \in 1..k
        /\ Entries'[i].kind = Events(t)[i - n].kind
        /\ Entries'[i].cv = Events(t)[i - n].cv
  BY <1>1, <1>3, <1>5
<1>9. row.cv \in Nat /\ row'.cv = IF NewContext(t) THEN row.cv + 1 ELSE row.cv
  BY Written DEF TransactionsTypeOK, SessionRow
<1>10. CASE ~NewContext(t)
  <2>1. \A j \in 1..k :
          \/ Events(t)[j].kind = "quiet"
          \/ (Events(t)[j].kind = "work" /\ Events(t)[j].cv = row.cv)
    BY <1>10, ReportsCurrent DEF k
  <2>2. \A i \in (n + 1)..(n + k) :
          \/ Entries'[i].kind = "quiet"
          \/ Entries'[i].kind = "work" /\ Entries'[i].cv = row.cv
    BY <1>8, <2>1
  <2>3. Abstract!Report
    BY <1>4, <1>7, <1>9, <1>10, <2>2 DEF Abstract!Report
  <2> QED
    BY <2>3 DEF Abstract!Next
<1>11. CASE NewContext(t)
  <2>1. /\ k > 0 /\ Events(t)[k].kind = "context" /\ Events(t)[k].cv = row.cv + 1
        /\ \A j \in 1..k : j # k => Events(t)[j].kind = "quiet"
    BY <1>11, ReportsCurrent DEF k
  <2>2. n + k \in (n + 1)..(n + k) /\ (n + k) - n = k /\ n < n + k
    BY <1>1, <2>1
  <2>3. Entries'[n + k].kind = "context" /\ Entries'[n + k].cv = row'.cv
    BY <1>8, <1>9, <1>11, <2>1, <2>2
  <2>4. \A i \in (n + 1)..(n + k) : i # n + k => i - n # k
    BY <1>1
  <2>5. \A i \in (n + 1)..(n + k) : i # n + k => Entries'[i].kind = "quiet"
    BY <1>8, <2>1, <2>4
  <2>6. Abstract!Advance
    BY <1>2, <1>3, <1>4, <1>7, <1>9, <1>11, <2>2, <2>3, <2>5 DEF Abstract!Advance
  <2> QED
    BY <2>6 DEF Abstract!Next
<1> QED
  BY <1>10, <1>11

LEMMA StepRefines ==
  ASSUME TransactionsTypeOK, TransactionsTypeOK', LockInv, NumbersInv, HeldInv,
         [Next]_vars
  PROVE  Abstract!Next \/ UNCHANGED <<Entries, row.cv>>
<1>1. CASE UNCHANGED <<row, log>>
  BY <1>1 DEF Entries
<1>2. ASSUME NEW t \in Transactions,
             Begins(t) \/ Goes(t) \/ Conflicts(t) \/ Ends(t)
      PROVE  UNCHANGED <<row, log>>
  BY <1>2 DEF Begins, Goes, Conflicts, Ends
<1> QED
  BY <1>1, <1>2, StepKinds, WritesRefine DEF Next, vars

-----------------------------------------------------------------------------
(* The theorems.                                                           *)

TransactionInv ==
  /\ TransactionsTypeOK /\ LockInv /\ NumbersInv /\ NothingCollides
  /\ EpochInv /\ EpochsDistinct /\ ConflictInv
  /\ HeldInv /\ VersionsInv /\ EventsNamePreference

LEMMA TransactionInvInit ==
  ASSUME Init
  PROVE  TransactionInv
<1> DEFINE first == [seq |-> 1, kind |-> "quiet", cv |-> 0, pref |-> 1,
                     by |-> "session"]
<1>1. /\ row = [cv |-> 0, seq |-> 1, epoch |-> 0] /\ pref = 1
      /\ log = <<first>> /\ holder = [r \in Rows |-> Nobody]
      /\ txs \in [Transactions -> {Fresh(kind) : kind \in Kinds}]
  BY DEF Init
<1>2. \A t \in Transactions :
        /\ txs[t] \in Transaction /\ txs[t].status = "idle"
        /\ txs[t].next = 1 /\ txs[t].pref = 0
  BY <1>1 DEF Fresh, Transaction, Unread, SessionRow
<1>3. first \in Entry
  BY DEF Entry
<1>4. Len(log) = 1 /\ DOMAIN log = {1} /\ log[1] = first /\ log \in Seq(Entry)
  BY <1>1, <1>3
<1>5. TransactionsTypeOK
  BY <1>1, <1>2, <1>4 DEF TransactionsTypeOK, SessionRow
<1>6. LockInv /\ HeldInv
  BY <1>2 DEF LockInv, HeldInv, Begun, Is
<1>7. NumbersInv
  BY <1>1, <1>4 DEF NumbersInv
<1>8. NothingCollides /\ EpochInv /\ EpochsDistinct /\ ConflictInv
  BY <1>2 DEF NothingCollides, EpochInv, EpochsDistinct, Issued, ConflictInv,
              Answering, Is
<1>9. Updates(log, 1) = 0
  <2>1. {j \in 1..1 : log[j].by = "preference"} = {}
    BY <1>4
  <2> QED
    BY <2>1, FS_EmptySet DEF Updates
<1>10. VersionsInv
  BY <1>1, <1>4, <1>9 DEF VersionsInv
<1>11. EventsNamePreference
  <2>1. PreferencesUpTo(1) = 0
    BY <1>9 DEF PreferencesUpTo, Updates
  <2> QED
    BY <1>4, <2>1 DEF EventsNamePreference
<1> QED
  BY <1>5, <1>6, <1>7, <1>8, <1>10, <1>11 DEF TransactionInv

LEMMA TransactionsInvariant == Spec => []TransactionInv
<1>1. Init => TransactionInv
  BY TransactionInvInit
<1>2. TransactionInv /\ [Next]_vars => TransactionInv'
  BY TypesKept, LockKept, NumbersKept, CollisionsKept, EpochsKept,
     ConflictsKept, HeldKept, NamesKept DEF TransactionInv
<1> QED
  BY <1>1, <1>2, PTL DEF Spec

\* Whatever handlers run at the same time, the variables keep their types, and
\* a locked row is one an open transaction has.
THEOREM TransactionsTypeCorrect == Spec => []TransactionsTypeOK
<1>1. TransactionInv => TransactionsTypeOK
  BY DEF TransactionInv
<1> QED
  BY <1>1, TransactionsInvariant, PTL

\* No transaction of any handler fails because of another's event_seq or
\* preference version, for any number of them (interrupts.py:71, service.py:87,
\* main.py:655 and the other places that lock the session row).
THEOREM NothingEverCollides == Spec => []NothingCollides
<1>1. TransactionInv => NothingCollides
  BY DEF TransactionInv
<1> QED
  BY <1>1, TransactionsInvariant, PTL

\* Every event names the preference in force at its place in the log.
THEOREM PreferencesNamed == Spec => []EventsNamePreference
<1>1. TransactionInv => EventsNamePreference
  BY DEF TransactionInv
<1> QED
  BY <1>1, TransactionsInvariant, PTL

\* No connection epoch is given to two tokens (realtime.py:70-83).
THEOREM EpochsStayDistinct == Spec => []EpochsDistinct
<1>1. TransactionInv => EpochsDistinct
  BY DEF TransactionInv
<1> QED
  BY <1>1, TransactionsInvariant, PTL

\* The pair of versions in a 409 is that of the session as long as its context
\* version is current (main.py:673-695).
THEOREM ConflictsTellActive == Spec => []ConflictTellsActive
<1>1. TransactionInv => ConflictTellsActive
  BY DEF TransactionInv, ConflictInv, ConflictTellsActive, Answering
<1> QED
  BY <1>1, TransactionsInvariant, PTL

\* Statement by statement, with nothing but the row locks between them, any
\* number of transactions implement the abstract log.
THEOREM TransactionsImplemented == Spec => TransactionsImplementEventLog
<1>1. Init => Abstract!Init
  <2> SUFFICES ASSUME Init PROVE Abstract!Init
    OBVIOUS
  <2>1. /\ row.cv = 0
        /\ log = <<[seq |-> 1, kind |-> "quiet", cv |-> 0, pref |-> 1,
                    by |-> "session"]>>
    BY DEF Init
  <2>2. Entries = <<[seq |-> 1, kind |-> "quiet", cv |-> 0]>>
    BY <2>1 DEF Entries
  <2> QED
    BY <2>1, <2>2 DEF Abstract!Init
<1>2. TransactionInv /\ TransactionInv' /\ [Next]_vars
        => [Abstract!Next]_<<Entries, row.cv>>
  BY StepRefines DEF TransactionInv
<1> QED
  BY <1>1, <1>2, TransactionsInvariant, PTL
     DEF Spec, TransactionsImplementEventLog, Abstract!Spec
==============================================================================
