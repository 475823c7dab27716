----------------------------- MODULE TypeProofs ------------------------------
(***************************************************************************)
(* Type correctness of the backend: every variable keeps its type and      *)
(* every reference its row, for any number of processes and requests.      *)
(* One lemma per process; each rests on one about the transactions that    *)
(* process commits.                                                        *)
(***************************************************************************)
EXTENDS LivePilotProperties, FiniteSetTheorems, SequenceTheorems, TLAPS

-----------------------------------------------------------------------------
(* Data.                                                                   *)

\* A publisher takes a row that is in its list: a nonempty set of naturals
\* has a least element.
LEMMA LeastElement ==
  ASSUME NEW S \in SUBSET Nat, S # {}
  PROVE  Min(S) \in S
<1> DEFINE R == {p \in Nat \X Nat : p[1] < p[2]}
<1>1. IsWellFoundedOn(R, Nat)
  BY NatLessThanWellFounded, Zenon DEF OpToRel
<1>2. \E x \in S : \A y \in S : ~ (<<y, x>> \in R)
  BY <1>1, WFMin
<1>3. \A x, y \in Nat : y < x => <<y, x>> \in R
  OBVIOUS
<1> HIDE DEF R
<1>4. PICK x \in S : \A y \in S : ~ (<<y, x>> \in R)
  BY <1>2
<1>5. \A y \in S : ~ (y < x)
  BY <1>3, <1>4, Zenon
<1>6. \A y \in S : x =< y
  BY <1>5
<1> QED
  BY <1>6 DEF Min

\* An order of the elements of a finite set is a sequence of them.
LEMMA OrderIsSequence ==
  ASSUME NEW S, IsFiniteSet(S), NEW order \in SetToSeqs(S)
  PROVE  order \in Seq(S)
<1>1. Cardinality(S) \in Nat
  BY FS_CardinalityType
<1>2. order \in [1..Cardinality(S) -> S]
  BY DEF SetToSeqs
<1> QED
  BY <1>1, <1>2, SeqDef

\* What Emit appends: the old rows stay, the new ones are numbered on.
LEMMA EmitLog ==
  ASSUME session \in [cv : Nat, seq : Nat], outbox \in Seq(EventRow),
         NEW events \in Seq(EventRow), NEW cv \in Nat, Emit(events, cv)
  PROVE  /\ session' \in [cv : Nat, seq : Nat]
         /\ session'.cv = cv /\ session'.seq = session.seq + Len(events)
         /\ outbox' \in Seq(EventRow)
         /\ Len(outbox') = Len(outbox) + Len(events)
         /\ DOMAIN outbox' = 1..(Len(outbox) + Len(events))
         /\ \A i \in 1..Len(outbox) : outbox'[i] = outbox[i]
         /\ \A i \in 1..Len(events) :
              outbox'[Len(outbox) + i] =
                [events[i] EXCEPT !.seq = session.seq + i]
<1> DEFINE new == [i \in 1..Len(events) |->
                     [events[i] EXCEPT !.seq = session.seq + i]]
<1>1. Len(events) \in Nat /\ Len(outbox) \in Nat
  BY LenProperties
<1>2. \A i \in 1..Len(events) :
        [events[i] EXCEPT !.seq = session.seq + i] \in EventRow
  <2> TAKE i \in 1..Len(events)
  <2>1. events[i] \in EventRow
    BY ElementOfSeq
  <2>2. session.seq + i \in Nat
    BY <1>1
  <2> QED
    BY <2>1, <2>2 DEF EventRow
<1>3. new \in Seq(EventRow) /\ Len(new) = Len(events)
  BY <1>1, <1>2, SeqDef
<1>4. outbox' = outbox \o new
  BY DEF Emit
<1>5. outbox \o new \in Seq(EventRow)
  BY <1>3, ConcatProperties
<1>6. /\ Len(outbox \o new) = Len(outbox) + Len(events)
      /\ \A i \in 1..Len(outbox) + Len(events) : (outbox \o new)[i] =
           IF i <= Len(outbox) THEN outbox[i] ELSE new[i - Len(outbox)]
  BY <1>3, ConcatProperties
<1>7. session' = [cv |-> cv, seq |-> session.seq + Len(events)]
  BY DEF Emit
<1> HIDE DEF new
<1>8. \A i \in 1..Len(events) : outbox'[Len(outbox) + i] = new[i]
  BY <1>1, <1>4, <1>6
<1>9. \A i \in 1..Len(outbox) : outbox'[i] = outbox[i]
  BY <1>1, <1>4, <1>6
<1>10. \A i \in 1..Len(events) :
         outbox'[Len(outbox) + i] = [events[i] EXCEPT !.seq = session.seq + i]
  BY <1>1, <1>8 DEF new
<1>11. session' \in [cv : Nat, seq : Nat] /\ session'.cv = cv
       /\ session'.seq = session.seq + Len(events)
  BY <1>1, <1>7
<1> QED
  BY <1>1, <1>4, <1>5, <1>6, <1>9, <1>10, <1>11, LenProperties

\* An event is a row of the outbox once it is numbered, and before.
LEMMA EventType ==
  ASSUME NEW type \in EventTypes, NEW ref \in Seq(ClientIds \cup Nat),
         NEW turn \in Nat, NEW cv \in Nat, NEW pref \in Nat,
         NEW ids \in SUBSET Nat
  PROVE  Event(type, ref, turn, cv, pref, ids) \in EventRow
BY DEF Event, EventRow

\* The reference of an event about one request, or about one task.
LEMMA SingleReference ==
  ASSUME NEW x \in ClientIds \cup Nat
  PROVE  <<x>> \in Seq(ClientIds \cup Nat) /\ Len(<<x>>) = 1
         /\ Head(<<x>>) = x
OBVIOUS

\* A transaction that appends events and deletes no task keeps the types of
\* the log, and what its entries refer to.
LEMMA LogTypes ==
  ASSUME TypeOK, NEW events \in Seq(EventRow), NEW cv \in Nat,
         Emit(events, cv),
         tasks' \in Seq(Task), DOMAIN tasks \subseteq DOMAIN tasks',
         \A i \in 1..Len(events) : QueuedNamesTask(events[i], DOMAIN tasks')
  PROVE  /\ session' \in [cv : Nat, seq : Nat]
         /\ outbox' \in Seq(EventRow)
         /\ DOMAIN outbox \subseteq DOMAIN outbox'
         /\ \A i \in DOMAIN outbox' :
              QueuedNamesTask(outbox'[i], DOMAIN tasks')
<1>1. session \in [cv : Nat, seq : Nat] /\ outbox \in Seq(EventRow)
  BY DEF TypeOK, StoreTypeOK
<1>2. /\ session' \in [cv : Nat, seq : Nat]
      /\ outbox' \in Seq(EventRow)
      /\ DOMAIN outbox' = 1..(Len(outbox) + Len(events))
      /\ \A i \in 1..Len(outbox) : outbox'[i] = outbox[i]
      /\ \A i \in 1..Len(events) : outbox'[Len(outbox) + i] =
           [events[i] EXCEPT !.seq = session.seq + i]
  BY <1>1, EmitLog
<1>3. /\ Len(events) \in Nat /\ Len(outbox) \in Nat
      /\ DOMAIN outbox = 1..Len(outbox)
  BY <1>1, LenProperties
<1>4. ASSUME NEW i \in DOMAIN outbox'
      PROVE  QueuedNamesTask(outbox'[i], DOMAIN tasks')
  <2>1. CASE i <= Len(outbox)
    BY <1>2, <1>3, <2>1 DEF TypeOK, ReferencesOK, QueuedNamesTask
  <2>2. CASE ~(i <= Len(outbox))
    <3>1. PICK k \in 1..Len(events) : i = Len(outbox) + k
      <4>1. i - Len(outbox) \in 1..Len(events)
        BY <1>2, <1>3, <2>2
      <4> QED
        BY <1>2, <1>3, <4>1
    <3>2. events[k] \in EventRow
      BY ElementOfSeq
    <3>3. outbox'[i].type = events[k].type /\ outbox'[i].ref = events[k].ref
      BY <1>2, <3>1, <3>2 DEF EventRow
    <3> QED
      BY <3>3 DEF QueuedNamesTask
  <2> QED
    BY <2>1, <2>2
<1> QED
  BY <1>2, <1>3, <1>4
-----------------------------------------------------------------------------
(* Types: the gateway.                                                     *)

\* The numbers a handler reads off the rows.
LEMMA RowNumbers ==
  ASSUME TypeOK
  PROVE  /\ ActivePref \in Nat \ {0} /\ DOMAIN prefs = 1..ActivePref
         /\ ConfirmedItinerary \in Nat
         /\ session.cv \in Nat /\ session.seq \in Nat
         /\ Len(turns) \in Nat /\ DOMAIN turns = 1..Len(turns)
         /\ Len(tasks) \in Nat /\ DOMAIN tasks = 1..Len(tasks)
         /\ Len(outbox) \in Nat /\ DOMAIN outbox = 1..Len(outbox)
         /\ Len(itins) \in Nat /\ DOMAIN itins = 1..Len(itins)
<1>1. /\ session \in [cv : Nat, seq : Nat]
      /\ prefs \in Seq(SUBSET ClientIds) /\ prefs # <<>>
      /\ turns \in Seq(Turn) /\ tasks \in Seq(Task)
      /\ itins \in Seq(Itinerary) /\ outbox \in Seq(EventRow)
  BY DEF TypeOK, StoreTypeOK
<1>2. Len(prefs) # 0
  BY <1>1, EmptySeq
<1> QED
  BY <1>1, <1>2, LenProperties DEF ActivePref, ConfirmedItinerary

\* The answer of a handler is well typed.
LEMMA RespondTypes ==
  ASSUME TypeOK, NEW r \in Requests, NEW seq \in Nat, NEW ids \in SUBSET Nat,
         Respond(r, seq, ids)
  PROVE  requests' \in [Requests -> RequestState]
<1>1. requests \in [Requests -> RequestState]
  BY DEF TypeOK, ProcessTypeOK
<1>2. requests[r] \in RequestState
  BY <1>1
<1>3. [requests[r] EXCEPT
         !.pc = IF Kind[r] = "interrupt" THEN "keys" ELSE "done",
         !.keys = ids, !.outcome = "ok", !.seq = seq] \in RequestState
  BY <1>2 DEF RequestState
<1>4. requests' = [requests EXCEPT ![r] = [requests[r] EXCEPT
         !.pc = IF Kind[r] = "interrupt" THEN "keys" ELSE "done",
         !.keys = ids, !.outcome = "ok", !.seq = seq]]
  BY <1>1, <1>2 DEF Respond, RequestState
<1> QED
  BY <1>1, <1>3, <1>4

\* A refused request is well typed.
LEMMA AnswerTypes ==
  ASSUME TypeOK, NEW r \in Requests, NEW outcome \in {"conflict", "error", "invalid"},
         Answer(r, outcome)
  PROVE  requests' \in [Requests -> RequestState]
BY DEF TypeOK, ProcessTypeOK, Answer, RequestState

\* An answer read back from the log is well typed.
LEMMA ReplayTypes ==
  ASSUME TypeOK, NEW r \in Requests, Replay(r)
  PROVE  requests' \in [Requests -> RequestState]
<1>1. PICK i \in DOMAIN outbox : Respond(r, outbox[i].seq, outbox[i].ids)
  BY DEF Replay
<1>2. outbox[i] \in EventRow
  BY RowNumbers, ElementOfSeq DEF TypeOK, StoreTypeOK
<1> QED
  BY <1>1, <1>2, RespondTypes DEF EventRow

\* The transaction of an accepted request: the events before its own are
\* reports about tasks that exist.
LEMMA AcceptTypes ==
  ASSUME TypeOK, NEW r \in Requests,
         NEW events \in Seq(EventRow), NEW ids \in SUBSET Nat,
         \A i \in 1..Len(events) : events[i].type # "task.queued",
         Accept(r, events, ids),
         tasks' \in Seq(Task), DOMAIN tasks' = DOMAIN tasks
  PROVE  /\ session' \in [cv : Nat, seq : Nat]
         /\ outbox' \in Seq(EventRow)
         /\ DOMAIN outbox \subseteq DOMAIN outbox'
         /\ \A i \in DOMAIN outbox' :
              QueuedNamesTask(outbox'[i], DOMAIN tasks')
         /\ requests' \in [Requests -> RequestState]
<1> DEFINE n    == IF Kind[r] = "interrupt" THEN requests[r].arg
                   ELSE IF Kind[r] = "turn" THEN Len(turns) + 1 ELSE 0
           pref == IF Kind[r] = "preference" THEN ActivePref + 1
                   ELSE ActivePref
           own  == Event(Committed(r), <<ClientId[r]>>, n, session.cv + 1,
                         pref, ids)
<1>1. Committed(r) \in EventTypes /\ Committed(r) # "task.queued"
  BY KindAssumption DEF Committed, EventTypes, ContextEvents
<1>2. own \in EventRow /\ own.type # "task.queued"
  <2>1. <<ClientId[r]>> \in Seq(ClientIds \cup Nat)
    BY ClientIdAssumption, SingleReference
  <2>2. requests[r].arg \in Nat
    BY DEF TypeOK, ProcessTypeOK, RequestState
  <2>3. n \in Nat /\ pref \in Nat /\ session.cv + 1 \in Nat
    BY <2>2, RowNumbers
  <2> HIDE DEF n, pref
  <2>4. own \in EventRow
    BY <1>1, <2>1, <2>3, EventType
  <2> QED
    BY <1>1, <2>4 DEF Event
<1>3. /\ Append(events, own) \in Seq(EventRow)
      /\ Len(Append(events, own)) = Len(events) + 1
      /\ \A i \in 1..(Len(events) + 1) : Append(events, own)[i] =
           IF i = Len(events) + 1 THEN own ELSE events[i]
  BY <1>2, AppendProperties, LenProperties
<1>4. Emit(Append(events, own), session.cv + 1)
  BY DEF Accept
<1>5. Respond(r, session.seq + Len(events) + 1, ids)
  BY DEF Accept
<1> HIDE DEF own
<1>6. Len(events) \in Nat
  BY LenProperties
<1>7. \A i \in 1..Len(Append(events, own)) :
        QueuedNamesTask(Append(events, own)[i], DOMAIN tasks')
  BY <1>2, <1>3, <1>6 DEF QueuedNamesTask
<1> HIDE DEF n, pref
<1>8. requests' \in [Requests -> RequestState]
  <2>1. session.seq + Len(events) + 1 \in Nat
    BY <1>6, RowNumbers
  <2> DEFINE seq == session.seq + Len(events) + 1
  <2>2. Respond(r, seq, ids)
    BY <1>5
  <2>3. seq \in Nat
    BY <2>1
  <2> HIDE DEF seq
  <2> QED
    BY <2>2, <2>3, RespondTypes
<1>9. session.cv + 1 \in Nat
  BY RowNumbers
<1> QED
  BY <1>3, <1>4, <1>7, <1>8, <1>9, LogTypes

\* A step that leaves the streams and the publishers alone and keeps the
\* rows and the process states typed keeps TypeOK.
LEMMA TransactionTypes ==
  ASSUME TypeOK,
         session' \in [cv : Nat, seq : Nat],
         prefs' \in Seq(SUBSET ClientIds), prefs' # <<>>,
         turns' \in Seq(Turn), tasks' \in Seq(Task), itins' \in Seq(Itinerary),
         DOMAIN tasks \subseteq DOMAIN tasks',
         outbox' \in Seq(EventRow), DOMAIN outbox \subseteq DOMAIN outbox',
         \A i \in DOMAIN outbox' : QueuedNamesTask(outbox'[i], DOMAIN tasks'),
         UNCHANGED <<published, redisVars, publishers, manual>>,
         faults' \in 0..MaxFaults,
         requests' \in [Requests -> RequestState],
         agents' \in [Agents -> Seq(Message)],
         workers' \in [Workers -> WorkerState],
         \A w \in Workers :
           workers'[w].pc # "idle" => workers'[w].task \in DOMAIN tasks'
  PROVE  TypeOK'
<1>1. StoreTypeOK'
  BY DEF TypeOK, StoreTypeOK, redisVars
<1>2. ProcessTypeOK'
  BY DEF TypeOK, ProcessTypeOK
<1>3. CursorsOK'
  BY DEF TypeOK, CursorsOK, redisVars
<1>4. ReferencesOK'
  <2>1. \A k \in DOMAIN stream.tasks : stream.tasks[k] \in DOMAIN tasks
    BY DEF TypeOK, ReferencesOK
  <2> QED
    BY <2>1 DEF ReferencesOK, redisVars, On
<1> QED
  BY <1>1, <1>2, <1>3, <1>4 DEF TypeOK

\* A step that only moves processes along keeps TypeOK.
LEMMA ReadOnlyTypes ==
  ASSUME TypeOK,
         UNCHANGED <<dbVars, published, redisVars, publishers, manual>>,
         faults' \in 0..MaxFaults,
         requests' \in [Requests -> RequestState],
         agents' \in [Agents -> Seq(Message)],
         workers' \in [Workers -> WorkerState],
         \A w \in Workers :
           workers'[w].pc # "idle" => workers'[w].task \in DOMAIN tasks
  PROVE  TypeOK'
<1>1. /\ UNCHANGED <<session, prefs, turns, tasks, itins, outbox>>
      /\ UNCHANGED <<published, redisVars, publishers, manual>>
  BY DEF dbVars
<1>2. StoreTypeOK /\ ReferencesOK
  BY DEF TypeOK
<1>3. \A i \in DOMAIN outbox' : QueuedNamesTask(outbox'[i], DOMAIN tasks')
  BY <1>1, <1>2 DEF ReferencesOK
<1>4. /\ session' \in [cv : Nat, seq : Nat]
      /\ prefs' \in Seq(SUBSET ClientIds) /\ prefs' # <<>>
      /\ turns' \in Seq(Turn) /\ tasks' \in Seq(Task)
      /\ itins' \in Seq(Itinerary) /\ outbox' \in Seq(EventRow)
  BY <1>1, <1>2 DEF StoreTypeOK
<1>5. DOMAIN tasks \subseteq DOMAIN tasks' /\ DOMAIN outbox \subseteq DOMAIN outbox'
      /\ \A w \in Workers :
           workers'[w].pc # "idle" => workers'[w].task \in DOMAIN tasks'
  BY <1>1
<1> QED
  BY <1>1, <1>3, <1>4, <1>5, TransactionTypes

\* A handler that only answers keeps TypeOK.
LEMMA AnsweredTypes ==
  ASSUME TypeOK, requests' \in [Requests -> RequestState],
         UNCHANGED <<storeVars, publishers, agents, workers, manual>>
  PROVE  TypeOK'
<1>1. /\ UNCHANGED <<dbVars, published, redisVars, publishers, manual>>
      /\ faults' = faults /\ agents' = agents /\ workers' = workers
  BY DEF storeVars
<1>2. /\ faults \in 0..MaxFaults /\ agents \in [Agents -> Seq(Message)]
      /\ workers \in [Workers -> WorkerState]
      /\ \A w \in Workers :
           workers[w].pc # "idle" => workers[w].task \in DOMAIN tasks
  BY DEF TypeOK, StoreTypeOK, ProcessTypeOK, ReferencesOK, On
<1> QED
  BY <1>1, <1>2, ReadOnlyTypes

\* A handler whose transaction is accepted.
LEMMA AcceptedTypes ==
  ASSUME TypeOK, NEW r \in Requests,
         NEW events \in Seq(EventRow), NEW ids \in SUBSET Nat,
         \A i \in 1..Len(events) : events[i].type # "task.queued",
         Accept(r, events, ids),
         prefs' \in Seq(SUBSET ClientIds), prefs' # <<>>,
         turns' \in Seq(Turn), tasks' \in Seq(Task),
         DOMAIN tasks' = DOMAIN tasks,
         UNCHANGED <<publishers, agents, workers, manual>>
  PROVE  TypeOK'
<1>1. /\ session' \in [cv : Nat, seq : Nat]
      /\ outbox' \in Seq(EventRow)
      /\ DOMAIN outbox \subseteq DOMAIN outbox'
      /\ \A i \in DOMAIN outbox' : QueuedNamesTask(outbox'[i], DOMAIN tasks')
      /\ requests' \in [Requests -> RequestState]
  BY AcceptTypes
<1>2. UNCHANGED <<itins, published, redisVars, faults>>
  BY DEF Accept
<1>3. /\ itins \in Seq(Itinerary) /\ faults \in 0..MaxFaults
      /\ agents \in [Agents -> Seq(Message)]
      /\ workers \in [Workers -> WorkerState]
      /\ \A w \in Workers :
           workers[w].pc # "idle" => workers[w].task \in DOMAIN tasks
  BY DEF TypeOK, StoreTypeOK, ProcessTypeOK, ReferencesOK, On
<1>4. /\ itins' \in Seq(Itinerary) /\ faults' \in 0..MaxFaults
      /\ agents' \in [Agents -> Seq(Message)]
      /\ workers' \in [Workers -> WorkerState]
      /\ \A w \in Workers :
           workers'[w].pc # "idle" => workers'[w].task \in DOMAIN tasks'
  BY <1>2, <1>3
<1>5. UNCHANGED <<published, redisVars, publishers, manual>>
  BY <1>2
<1>6. DOMAIN tasks \subseteq DOMAIN tasks'
  OBVIOUS
<1> QED
  BY <1>1, <1>4, <1>5, <1>6, TransactionTypes

\* The tasks an interrupt cancels can be put in an order.
LEMMA TaskSetFinite ==
  ASSUME TypeOK, NEW ids, ids \subseteq DOMAIN tasks
  PROVE  IsFiniteSet(ids) /\ ids \in SUBSET Nat
<1>1. Len(tasks) \in Nat /\ DOMAIN tasks = 1..Len(tasks)
  BY RowNumbers
<1>2. IsFiniteSet(1..Len(tasks))
  BY <1>1, FS_Interval
<1> QED
  BY <1>1, <1>2, FS_Subset

\* The order in which a transaction walks through tasks is a list of their ids.
LEMMA OrderOfTasks ==
  ASSUME TypeOK, NEW ids, ids \subseteq DOMAIN tasks,
         NEW order \in SetToSeqs(ids)
  PROVE  order \in Seq(Nat)
<1>1. order \in Seq(ids) /\ ids \in SUBSET Nat
  BY TaskSetFinite, OrderIsSequence
<1> QED
  BY <1>1, SeqMonotonic

\* One event for each task of a list.
LEMMA EventPerTaskTypes ==
  ASSUME NEW order \in Seq(Nat), NEW type \in EventTypes,
         NEW n \in Nat, NEW cv \in Nat
  PROVE  /\ EventPerTask(type, order, n, cv) \in Seq(EventRow)
         /\ \A i \in 1..Len(EventPerTask(type, order, n, cv)) :
              EventPerTask(type, order, n, cv)[i].type = type
<1> DEFINE e(i) == Event(type, <<order[i]>>, n, cv, 0, {})
           events == [i \in 1..Len(order) |-> e(i)]
<1>1. Len(order) \in Nat /\ \A i \in 1..Len(order) : order[i] \in Nat
  BY LenProperties, ElementOfSeq
<1>2. \A i \in 1..Len(order) : e(i) \in EventRow
  BY <1>1, SingleReference, EventType
<1>3. events \in Seq(EventRow) /\ Len(events) = Len(order)
  BY <1>1, <1>2, SeqDef
<1>4. \A i \in 1..Len(order) : e(i).type = type
  BY DEF Event
<1> QED
  BY <1>1, <1>3, <1>4 DEF EventPerTask

\* Rows of a sequence rewritten in place are a sequence of the same length.
LEMMA RewrittenTasks ==
  ASSUME TypeOK, NEW ids, NEW status \in TaskStatus,
         tasks' = [t \in DOMAIN tasks |->
                     IF t \in ids THEN [tasks[t] EXCEPT !.status = status]
                     ELSE tasks[t]]
  PROVE  tasks' \in Seq(Task) /\ DOMAIN tasks' = DOMAIN tasks
<1>1. Len(tasks) \in Nat /\ DOMAIN tasks = 1..Len(tasks)
  BY RowNumbers
<1>2. \A t \in DOMAIN tasks : tasks[t] \in Task
  BY <1>1, ElementOfSeq DEF TypeOK, StoreTypeOK
<1>3. tasks' \in [1..Len(tasks) -> Task]
  BY <1>1, <1>2 DEF Task
<1> QED
  BY <1>1, <1>3, SeqDef

\* Every step of a handler keeps TypeOK.
LEMMA GatewayTypes ==
  ASSUME TypeOK, NEW r \in Requests, HandleRequest(r)
  PROVE  TypeOK'
<1> USE RowNumbers
<1>1. /\ prefs \in Seq(SUBSET ClientIds) /\ prefs # <<>>
      /\ turns \in Seq(Turn) /\ tasks \in Seq(Task)
      /\ requests \in [Requests -> RequestState]
  BY DEF TypeOK, StoreTypeOK, ProcessTypeOK
<1>2. requests[r].arg \in Nat /\ requests[r].keys \in SUBSET Nat
      /\ ClientId[r] \in ClientIds
  BY <1>1, ClientIdAssumption DEF RequestState
<1>3. UNCHANGED <<publishers, agents, workers, manual>>
  BY DEF HandleRequest
<1>4. /\ <<>> \in Seq(EventRow)
      /\ \A i \in 1..Len(<<>>) : <<>>[i].type # "task.queued"
      /\ {} \in SUBSET Nat
  BY EmptySeq
<1>5. ASSUME UniqueViolation(r)
      PROVE  TypeOK'
  BY <1>3, <1>5, AnswerTypes, AnsweredTypes DEF UniqueViolation
<1>6. CASE Receive(r)
  <2>1. UNCHANGED storeVars
    BY <1>6 DEF Receive
  <2>2. CASE Replay(r)
    BY <1>3, <2>1, <2>2, ReplayTypes, AnsweredTypes
  <2>3. CASE \E arg \in Arguments(r) :
               requests' = [requests EXCEPT ![r].pc = "locking", ![r].arg = arg]
    <3>1. PICK arg \in Arguments(r) :
            requests' = [requests EXCEPT ![r].pc = "locking", ![r].arg = arg]
      BY <2>3
    <3>2. arg \in Nat
      BY KindAssumption DEF Arguments
    <3>3. requests' \in [Requests -> RequestState]
      BY <1>1, <3>1, <3>2 DEF RequestState
    <3> QED
      BY <1>3, <2>1, <3>3, AnsweredTypes
  <2> QED
    BY <1>6, <2>2, <2>3 DEF Receive
<1>7. CASE FinalizeTurn(r)
  <2>1. CASE Accept(r, <<>>, {}) /\ UNCHANGED <<prefs, tasks>>
          /\ turns' = Append(turns, [kind |-> "user_text",
               status |-> "user_final", cv |-> session.cv + 1, parent |-> 0])
    <3>1. [kind |-> "user_text", status |-> "user_final",
           cv |-> session.cv + 1, parent |-> 0] \in Turn
      BY DEF Turn, TurnStatus
    <3>2. turns' \in Seq(Turn)
      BY <1>1, <2>1, <3>1, AppendProperties
    <3>3. /\ prefs' \in Seq(SUBSET ClientIds) /\ prefs' # <<>>
          /\ tasks' \in Seq(Task) /\ DOMAIN tasks' = DOMAIN tasks
      BY <1>1, <2>1
    <3> QED
      BY <1>3, <1>4, <2>1, <3>2, <3>3, AcceptedTypes
  <2> QED
    BY <1>5, <1>7, <2>1 DEF FinalizeTurn
<1>8. CASE UpdatePreferences(r)
  <2>1. CASE Accept(r, <<>>, {}) /\ prefs' = Append(prefs, Merged(r))
             /\ UNCHANGED <<turns, tasks>>
    <3>1. Merged(r) \in SUBSET ClientIds
      BY <1>1, <1>2, ElementOfSeq DEF Merged, ActivePref
    <3>2. prefs' \in Seq(SUBSET ClientIds) /\ prefs' # <<>>
      BY <1>1, <2>1, <3>1, AppendProperties
    <3>3. /\ turns' \in Seq(Turn)
          /\ tasks' \in Seq(Task) /\ DOMAIN tasks' = DOMAIN tasks
      BY <1>1, <2>1
    <3> QED
      BY <1>3, <1>4, <2>1, <3>2, <3>3, AcceptedTypes
  <2>2. CASE Replay(r) /\ UNCHANGED storeVars
    BY <1>3, <2>2, ReplayTypes, AnsweredTypes
  <2>3. CASE Answer(r, "conflict") /\ UNCHANGED storeVars
    BY <1>3, <2>3, AnswerTypes, AnsweredTypes
  <2> QED
    BY <1>5, <1>8, <2>1, <2>2, <2>3 DEF UpdatePreferences
<1>9. CASE RegisterInterrupt(r)
  <2> DEFINE n   == requests[r].arg
             ids == Interruptible(n)
  <2>1. CASE Answer(r, "invalid") /\ UNCHANGED storeVars
    BY <1>3, <2>1, AnswerTypes, AnsweredTypes
  <2>2. CASE Answer(r, "conflict") /\ UNCHANGED storeVars
    BY <1>3, <2>2, AnswerTypes, AnsweredTypes
  <2>3. ASSUME n \in DOMAIN turns, NEW order \in SetToSeqs(ids),
               Accept(r, EventPerTask("task.cancel_requested", order, n,
                                      session.cv), ids),
               turns' = [turns EXCEPT ![n].status = "interrupted"],
               tasks' = [t \in DOMAIN tasks |->
                    IF t \in ids
                    THEN [tasks[t] EXCEPT !.status = "cancel_requested"]
                    ELSE tasks[t]],
               UNCHANGED prefs
        PROVE  TypeOK'
    <3> DEFINE events == EventPerTask("task.cancel_requested", order, n,
                                     session.cv)
    <3>1. ids \subseteq DOMAIN tasks
      BY DEF Interruptible
    <3>2. ids \in SUBSET Nat
      BY <3>1, TaskSetFinite
    <3>3. /\ "task.cancel_requested" \in EventTypes
          /\ "task.cancel_requested" # "task.queued"
          /\ n \in Nat /\ session.cv \in Nat
      BY <1>2 DEF EventTypes, OtherEvents
    <3>4. /\ events \in Seq(EventRow)
          /\ \A i \in 1..Len(events) : events[i].type # "task.queued"
      <4> HIDE DEF n, ids
      <4>1. /\ events \in Seq(EventRow)
            /\ \A i \in 1..Len(events) :
                 events[i].type = "task.cancel_requested"
        BY <3>1, <3>3, OrderOfTasks, EventPerTaskTypes
      <4> QED
        BY <3>3, <4>1
    <3>5. turns' \in Seq(Turn)
      <4>1. turns[n] \in Turn /\ n \in 1..Len(turns)
        BY <1>1, <2>3, ElementOfSeq
      <4>2. [turns[n] EXCEPT !.status = "interrupted"] \in Turn
        BY <4>1 DEF Turn, TurnStatus
      <4> QED
        BY <1>1, <2>3, <4>1, <4>2, ExceptSeq
    <3>6. tasks' \in Seq(Task) /\ DOMAIN tasks' = DOMAIN tasks
      BY <2>3, RewrittenTasks DEF TaskStatus
    <3>7. prefs' \in Seq(SUBSET ClientIds) /\ prefs' # <<>>
      BY <1>1, <2>3
    <3>8. Accept(r, events, ids)
      BY <2>3
    <3> HIDE DEF events, ids
    <3> QED
      BY <1>3, <3>2, <3>4, <3>5, <3>6, <3>7, <3>8, AcceptedTypes
  <2> QED
    BY <1>5, <1>9, <2>1, <2>2, <2>3 DEF RegisterInterrupt
<1>10. CASE WriteCancelKeys(r)
  <2>1. /\ requests' = [requests EXCEPT ![r].pc = "done"]
        /\ cancelKeys' = cancelKeys \cup requests[r].keys
        /\ UNCHANGED <<session, prefs, turns, tasks, itins, outbox, published,
                       stream, delivered, announced, faults>>
    BY <1>10 DEF WriteCancelKeys, dbVars
  <2>2. StoreTypeOK'
    BY <1>2, <1>3, <2>1 DEF TypeOK, StoreTypeOK
  <2>3. ProcessTypeOK'
    BY <1>1, <1>3, <2>1 DEF TypeOK, ProcessTypeOK, RequestState
  <2>4. CursorsOK' /\ ReferencesOK'
    BY <1>3, <2>1 DEF TypeOK, CursorsOK, ReferencesOK, QueuedNamesTask, On
  <2> QED
    BY <2>2, <2>3, <2>4 DEF TypeOK
<1> QED
  BY <1>6, <1>7, <1>8, <1>9, <1>10 DEF HandleRequest, GatewayStep

-----------------------------------------------------------------------------
(* Types: the outbox publishers.                                           *)

\* A busy publisher is at a row of the outbox.
LEMMA CurrentRow ==
  ASSUME TypeOK, NEW p \in Publishers, Busy(p)
  PROVE  /\ Current(p) \in publishers[p].batch
         /\ Current(p) \in DOMAIN outbox
         /\ outbox[Current(p)] \in EventRow
<1>1. publishers[p].batch \subseteq DOMAIN outbox
  BY DEF TypeOK, CursorsOK
<1>2. outbox \in Seq(EventRow) /\ DOMAIN outbox = 1..Len(outbox)
      /\ Len(outbox) \in Nat
  BY RowNumbers DEF TypeOK, StoreTypeOK
<1>3. publishers[p].batch \in SUBSET Nat /\ publishers[p].batch # {}
  BY <1>1, <1>2 DEF Busy
<1>4. Current(p) \in publishers[p].batch
  BY <1>3, LeastElement DEF Current
<1> QED
  BY <1>1, <1>2, <1>4, ElementOfSeq

\* Appending a message of its kind keeps a stream's type.
LEMMA XAddTypes ==
  ASSUME TypeOK, NEW name \in StreamNames, NEW message,
         name = "tasks" => message \in DOMAIN tasks,
         name # "tasks" => message \in Packet,
         XAdd(name, message)
  PROVE  /\ stream' \in [plan : Seq(Packet), tasks : Seq(Nat),
                         compose : Seq(Packet)]
         /\ \A s \in StreamNames : Len(stream[s]) <= Len(stream'[s])
         /\ \A k \in DOMAIN stream'.tasks : stream'.tasks[k] \in DOMAIN tasks
<1>1. stream \in [plan : Seq(Packet), tasks : Seq(Nat), compose : Seq(Packet)]
  BY DEF TypeOK, StoreTypeOK
<1>2. DOMAIN tasks \subseteq Nat
  BY RowNumbers
<1>3. \A k \in DOMAIN stream.tasks : stream.tasks[k] \in DOMAIN tasks
  BY DEF TypeOK, ReferencesOK
<1>4. stream.plan \in Seq(Packet) /\ stream.tasks \in Seq(Nat)
      /\ stream.compose \in Seq(Packet)
  BY <1>1
<1>5. stream' = [stream EXCEPT ![name] = Append(stream[name], message)]
  BY DEF XAdd
<1>6. Len(stream.plan) \in Nat /\ Len(stream.tasks) \in Nat
      /\ Len(stream.compose) \in Nat
  BY <1>4, LenProperties
<1>7. ASSUME stream'.plan \in Seq(Packet), stream'.tasks \in Seq(Nat),
             stream'.compose \in Seq(Packet),
             stream' = [plan |-> stream'.plan, tasks |-> stream'.tasks,
                        compose |-> stream'.compose],
             Len(stream.plan) <= Len(stream'.plan),
             Len(stream.tasks) <= Len(stream'.tasks),
             Len(stream.compose) <= Len(stream'.compose),
             \A k \in DOMAIN stream'.tasks : stream'.tasks[k] \in DOMAIN tasks
      PROVE  /\ stream' \in [plan : Seq(Packet), tasks : Seq(Nat),
                             compose : Seq(Packet)]
             /\ \A s \in StreamNames : Len(stream[s]) <= Len(stream'[s])
             /\ \A k \in DOMAIN stream'.tasks : stream'.tasks[k] \in DOMAIN tasks
  <2>1. stream' \in [plan : Seq(Packet), tasks : Seq(Nat), compose : Seq(Packet)]
    <3>1. [plan |-> stream'.plan, tasks |-> stream'.tasks,
           compose |-> stream'.compose] \in
             [plan : Seq(Packet), tasks : Seq(Nat), compose : Seq(Packet)]
      BY <1>7, Zenon
    <3> QED
      BY <1>7, <3>1
  <2>2. \A s \in StreamNames : Len(stream[s]) <= Len(stream'[s])
    BY <1>7 DEF StreamNames
  <2> QED
    BY <1>7, <2>1, <2>2
<1>8. CASE name = "plan"
  <2>1. /\ stream'.plan = Append(stream.plan, message)
        /\ stream'.tasks = stream.tasks /\ stream'.compose = stream.compose
        /\ stream' = [plan |-> stream'.plan, tasks |-> stream'.tasks,
                      compose |-> stream'.compose]
    BY <1>1, <1>5, <1>8
  <2>2. Append(stream.plan, message) \in Seq(Packet)
        /\ Len(Append(stream.plan, message)) = Len(stream.plan) + 1
    BY <1>4, <1>8, AppendProperties
  <2> QED
    BY <1>3, <1>4, <1>6, <1>7, <2>1, <2>2
<1>9. CASE name = "compose"
  <2>1. /\ stream'.compose = Append(stream.compose, message)
        /\ stream'.tasks = stream.tasks /\ stream'.plan = stream.plan
        /\ stream' = [plan |-> stream'.plan, tasks |-> stream'.tasks,
                      compose |-> stream'.compose]
    BY <1>1, <1>5, <1>9
  <2>2. Append(stream.compose, message) \in Seq(Packet)
        /\ Len(Append(stream.compose, message)) = Len(stream.compose) + 1
    BY <1>4, <1>9, AppendProperties
  <2> QED
    BY <1>3, <1>4, <1>6, <1>7, <2>1, <2>2
<1>10. CASE name = "tasks"
  <2>1. /\ stream'.tasks = Append(stream.tasks, message)
        /\ stream'.plan = stream.plan /\ stream'.compose = stream.compose
        /\ stream' = [plan |-> stream'.plan, tasks |-> stream'.tasks,
                      compose |-> stream'.compose]
    BY <1>1, <1>5, <1>10
  <2>2. /\ Append(stream.tasks, message) \in Seq(Nat)
        /\ Len(Append(stream.tasks, message)) = Len(stream.tasks) + 1
        /\ \A k \in 1..Len(stream.tasks) + 1 : Append(stream.tasks, message)[k] =
             IF k = Len(stream.tasks) + 1 THEN message ELSE stream.tasks[k]
    BY <1>2, <1>4, <1>10, AppendProperties, LenProperties
  <2>3. DOMAIN stream.tasks = 1..Len(stream.tasks) /\ Len(stream.tasks) \in Nat
        /\ DOMAIN stream'.tasks = 1..Len(stream.tasks) + 1
    BY <1>4, <2>1, <2>2, LenProperties
  <2>4. \A k \in DOMAIN stream'.tasks : stream'.tasks[k] \in DOMAIN tasks
    BY <1>3, <1>10, <2>1, <2>2, <2>3
  <2> QED
    BY <1>4, <1>6, <1>7, <2>1, <2>2, <2>4
<1> QED
  BY <1>8, <1>9, <1>10 DEF StreamNames

\* Every step of a publisher keeps TypeOK, faults included.
LEMMA PublisherTypes ==
  ASSUME TypeOK, NEW p \in Publishers,
         PublisherStep(p) \/ PublishFails(p) \/ PublisherCrash(p),
         UNCHANGED <<requests, agents, workers, manual>>
  PROVE  TypeOK'
<1>1. publishers \in [Publishers -> PublisherState]
  BY DEF TypeOK, ProcessTypeOK
<1>2. publishers[p] \in PublisherState /\ publishers[p].batch \subseteq DOMAIN outbox
  BY <1>1 DEF TypeOK, CursorsOK
<1>3. DOMAIN outbox \subseteq Nat
  BY RowNumbers
\* What a step of a publisher has to keep: it writes no row but published_at.
<1>4. ASSUME UNCHANGED <<dbVars, delivered, cancelKeys>>,
             published' \subseteq DOMAIN outbox, announced' \subseteq DOMAIN outbox,
             stream' \in [plan : Seq(Packet), tasks : Seq(Nat),
                          compose : Seq(Packet)],
             \A s \in StreamNames : Len(stream[s]) <= Len(stream'[s]),
             \A k \in DOMAIN stream'.tasks : stream'.tasks[k] \in DOMAIN tasks,
             faults' \in 0..MaxFaults,
             publishers' \in [Publishers -> PublisherState],
             \A q \in Publishers : publishers'[q].batch \subseteq DOMAIN outbox
      PROVE  TypeOK'
  <2>1. UNCHANGED <<session, prefs, turns, tasks, itins, outbox, delivered,
                    cancelKeys, requests, agents, workers, manual>>
    BY <1>4 DEF dbVars
  <2>2. StoreTypeOK'
    BY <1>4, <2>1 DEF TypeOK, StoreTypeOK
  <2>3. ProcessTypeOK'
    BY <1>4, <2>1 DEF TypeOK, ProcessTypeOK
  <2>4. CursorsOK'
    <3>1. \A s \in StreamNames : delivered[s] <= Len(stream'[s])
      <4> TAKE s \in StreamNames
      <4>1. delivered[s] \in Nat /\ Len(stream[s]) \in Nat /\ Len(stream'[s]) \in Nat
        BY <1>4, LenProperties DEF TypeOK, StoreTypeOK, StreamNames
      <4>2. delivered[s] <= Len(stream[s]) /\ Len(stream[s]) <= Len(stream'[s])
        BY <1>4 DEF TypeOK, CursorsOK
      <4> QED
        BY <4>1, <4>2
    <3> QED
      BY <1>4, <2>1, <3>1 DEF CursorsOK
  <2>5. ReferencesOK'
    BY <1>4, <2>1 DEF TypeOK, ReferencesOK, QueuedNamesTask, On
  <2> QED
    BY <2>2, <2>3, <2>4, <2>5 DEF TypeOK
\* A step that only moves the publisher along its list.
<1>5. ASSUME UNCHANGED <<dbVars, redisVars>>, published' \subseteq DOMAIN outbox,
             faults' \in 0..MaxFaults,
             publishers' \in [Publishers -> PublisherState],
             \A q \in Publishers : publishers'[q].batch \subseteq DOMAIN outbox
      PROVE  TypeOK'
  <2>1. UNCHANGED <<stream, delivered, announced, cancelKeys>>
    BY <1>5 DEF redisVars
  <2>2. /\ announced \subseteq DOMAIN outbox
        /\ stream \in [plan : Seq(Packet), tasks : Seq(Nat),
                       compose : Seq(Packet)]
        /\ \A k \in DOMAIN stream.tasks : stream.tasks[k] \in DOMAIN tasks
    BY DEF TypeOK, StoreTypeOK, ReferencesOK
  <2>3. \A s \in StreamNames : Len(stream[s]) <= Len(stream'[s])
    BY <2>1, <2>2, LenProperties DEF StreamNames
  <2> QED
    BY <1>4, <1>5, <2>1, <2>2, <2>3
<1>6. published \subseteq DOMAIN outbox /\ announced \subseteq DOMAIN outbox
      /\ faults \in 0..MaxFaults
  BY DEF TypeOK, StoreTypeOK
<1>7. ASSUME NEW phase \in {"send", "announce", "mark"}, GoTo(p, phase)
      PROVE  /\ publishers' \in [Publishers -> PublisherState]
             /\ \A q \in Publishers : publishers'[q].batch \subseteq DOMAIN outbox
  BY <1>1, <1>7 DEF GoTo, PublisherState, TypeOK, CursorsOK
<1>8. ASSUME NextRow(p)
      PROVE  /\ publishers' \in [Publishers -> PublisherState]
             /\ \A q \in Publishers : publishers'[q].batch \subseteq DOMAIN outbox
  BY <1>1, <1>8 DEF NextRow, PublisherState, TypeOK, CursorsOK
<1>9. Fault => faults' \in 0..MaxFaults
  BY <1>6, FaultAssumption DEF Fault
<1>10. CASE FetchPending(p)
  <2> DEFINE batch == {i \in Unpublished :
               Cardinality({j \in Unpublished : j < i}) < BatchLimit}
  <2>1. batch \in SUBSET DOMAIN outbox
    BY DEF Unpublished
  <2>2. publishers' = [publishers EXCEPT ![p].batch = batch]
        /\ UNCHANGED storeVars
    BY <1>10 DEF FetchPending
  <2> HIDE DEF batch
  <2>3. publishers' \in [Publishers -> PublisherState]
        /\ \A q \in Publishers : publishers'[q].batch \subseteq DOMAIN outbox
    BY <1>1, <1>3, <2>1, <2>2 DEF PublisherState, TypeOK, CursorsOK
  <2>4. UNCHANGED <<dbVars, redisVars>> /\ published' = published
        /\ faults' = faults
    BY <2>2 DEF storeVars
  <2> QED
    BY <1>5, <1>6, <2>3, <2>4
<1>11. CASE Route(p)
  <2> DEFINE e == outbox[Current(p)]
  <2>1. Busy(p)
    BY <1>11 DEF Route, Phase
  <2>2. e \in EventRow /\ Current(p) \in DOMAIN outbox
    BY <2>1, CurrentRow
  <2>3. e.turn \in Nat /\ e.cv \in Nat /\ e.pref \in Nat
        /\ ConfirmedItinerary \in Nat
    BY <2>2, RowNumbers DEF EventRow
  <2>4. UNCHANGED <<dbVars, published, delivered, announced, cancelKeys, faults>>
        /\ GoTo(p, "announce")
    BY <1>11 DEF Route
  <2>5. /\ stream' \in [plan : Seq(Packet), tasks : Seq(Nat),
                        compose : Seq(Packet)]
        /\ \A s \in StreamNames : Len(stream[s]) <= Len(stream'[s])
        /\ \A k \in DOMAIN stream'.tasks : stream'.tasks[k] \in DOMAIN tasks
    <3>1. CASE e.type = "turn.finalized"
      <4>1. BuildPacket(e.turn, e.cv, e.pref) \in Packet
        BY <2>3 DEF BuildPacket, Packet
      <4>2. XAdd("plan", BuildPacket(e.turn, e.cv, e.pref))
        BY <1>11, <3>1 DEF Route
      <4> HIDE DEF e
      <4> QED
        BY <4>1, <4>2, XAddTypes DEF StreamNames
    <3>2. CASE e.type = "task.queued"
      <4>1. Head(e.ref) \in DOMAIN tasks
        BY <2>2, <3>2 DEF TypeOK, ReferencesOK, QueuedNamesTask
      <4>2. XAdd("tasks", Head(e.ref))
        BY <1>11, <3>2 DEF Route
      <4> HIDE DEF e
      <4> QED
        BY <4>1, <4>2, XAddTypes DEF StreamNames
    <3>3. CASE e.type = "task.succeeded"
      <4>1. [turn |-> e.turn, cv |-> e.cv, pref |-> 0, itin |-> 0] \in Packet
        BY <2>3 DEF Packet
      <4>2. XAdd("compose", [turn |-> e.turn, cv |-> e.cv, pref |-> 0, itin |-> 0])
        BY <1>11, <3>3 DEF Route
      <4> HIDE DEF e
      <4> QED
        BY <4>1, <4>2, XAddTypes DEF StreamNames
    <3> QED
      BY <1>11, <3>1, <3>2, <3>3 DEF Route, Routed
  <2> QED
    BY <1>4, <1>6, <1>7, <2>4, <2>5
<1>12. CASE Announce(p)
  <2>1. Busy(p) /\ GoTo(p, "mark") /\ announced' = announced \cup {Current(p)}
        /\ UNCHANGED <<dbVars, published, stream, delivered, cancelKeys, faults>>
    BY <1>12 DEF Announce, Phase
  <2>2. announced' \subseteq DOMAIN outbox
    BY <1>6, <2>1, CurrentRow
  <2>3. /\ stream \in [plan : Seq(Packet), tasks : Seq(Nat),
                       compose : Seq(Packet)]
        /\ \A k \in DOMAIN stream.tasks : stream.tasks[k] \in DOMAIN tasks
    BY DEF TypeOK, StoreTypeOK, ReferencesOK
  <2>4. \A s \in StreamNames : Len(stream[s]) <= Len(stream'[s])
    BY <2>1, <2>3, LenProperties DEF StreamNames
  <2> QED
    BY <1>4, <1>6, <1>7, <2>1, <2>2, <2>3, <2>4
<1>13. CASE MarkPublished(p)
  <2>1. Busy(p) /\ NextRow(p) /\ published' = published \cup {Current(p)}
        /\ UNCHANGED <<dbVars, redisVars, faults>>
    BY <1>13 DEF MarkPublished, Phase
  <2>2. published' \subseteq DOMAIN outbox
    BY <1>6, <2>1, CurrentRow
  <2> QED
    BY <1>5, <1>6, <1>8, <2>1, <2>2
<1>14. CASE PublishFails(p)
  BY <1>5, <1>6, <1>8, <1>9, <1>14 DEF PublishFails
<1>15. CASE PublisherCrash(p)
  <2>1. publishers' = [publishers EXCEPT ![p].batch = {}, ![p].phase = "send"]
        /\ Fault /\ UNCHANGED <<dbVars, published, redisVars>>
    BY <1>15 DEF PublisherCrash
  <2>2. publishers' \in [Publishers -> PublisherState]
        /\ \A q \in Publishers : publishers'[q].batch \subseteq DOMAIN outbox
    BY <1>1, <2>1 DEF PublisherState, TypeOK, CursorsOK
  <2> QED
    BY <1>5, <1>6, <1>9, <2>1, <2>2
<1> QED
  BY <1>10, <1>11, <1>12, <1>13, <1>14, <1>15 DEF PublisherStep

-----------------------------------------------------------------------------
(* Types: the agent workers.                                               *)

\* The message a working agent has in hand, and the rest of its batch.
LEMMA MessageInHand ==
  ASSUME TypeOK, NEW a \in Agents, agents[a] # <<>>
  PROVE  /\ InHand(a) \in Packet /\ Tail(agents[a]) \in Seq(Message)
         /\ InHand(a).turn \in Nat /\ InHand(a).cv \in Nat
<1>1. agents[a] \in Seq(Message)
  BY DEF TypeOK, ProcessTypeOK
<1>2. Head(agents[a]) \in Message /\ Tail(agents[a]) \in Seq(Message)
  BY <1>1, HeadTailProperties
<1> QED
  BY <1>2 DEF InHand, Message, Packet

\* An agent that drops its message keeps a list of messages.
LEMMA FinishTypes ==
  ASSUME TypeOK, NEW a \in Agents, agents[a] # <<>>, Finish(a)
  PROVE  agents' \in [Agents -> Seq(Message)]
BY MessageInHand DEF Finish, TypeOK, ProcessTypeOK

\* An agent that goes on with another message keeps a list of messages.
LEMMA ContinueTypes ==
  ASSUME TypeOK, NEW a \in Agents, agents[a] # <<>>,
         NEW from \in {"plan", "compose", "replan"}, NEW packet \in Packet,
         Continue(a, from, packet)
  PROVE  agents' \in [Agents -> Seq(Message)]
<1>1. [from |-> from, packet |-> packet] \in Message
  BY DEF Message
<1>2. <<[from |-> from, packet |-> packet]>> \in Seq(Message)
  BY <1>1
<1>3. <<[from |-> from, packet |-> packet]>> \o Tail(agents[a]) \in Seq(Message)
  BY <1>2, MessageInHand, ConcatProperties
<1>4. agents' = [agents EXCEPT ![a] =
                   <<[from |-> from, packet |-> packet]>> \o Tail(agents[a])]
  BY DEF Continue
<1> QED
  BY <1>3, <1>4 DEF TypeOK, ProcessTypeOK

\* A step of an agent that writes rows: it leaves streams and processes but
\* itself alone.
LEMMA AgentTransaction ==
  ASSUME TypeOK, agents' \in [Agents -> Seq(Message)],
         NEW events \in Seq(EventRow), Emit(events, session.cv),
         turns' \in Seq(Turn), tasks' \in Seq(Task), itins' \in Seq(Itinerary),
         DOMAIN tasks \subseteq DOMAIN tasks',
         \A i \in 1..Len(events) : QueuedNamesTask(events[i], DOMAIN tasks'),
         UNCHANGED <<prefs, published, redisVars, faults, requests, publishers,
                     workers, manual>>
  PROVE  TypeOK'
<1>1. session.cv \in Nat
  BY RowNumbers
<1>2. /\ session' \in [cv : Nat, seq : Nat]
      /\ outbox' \in Seq(EventRow)
      /\ DOMAIN outbox \subseteq DOMAIN outbox'
      /\ \A i \in DOMAIN outbox' : QueuedNamesTask(outbox'[i], DOMAIN tasks')
  BY <1>1, LogTypes
<1>3. /\ prefs \in Seq(SUBSET ClientIds) /\ prefs # <<>> /\ faults \in 0..MaxFaults
      /\ requests \in [Requests -> RequestState]
      /\ workers \in [Workers -> WorkerState]
      /\ \A w \in Workers :
           workers[w].pc # "idle" => workers[w].task \in DOMAIN tasks
  BY DEF TypeOK, StoreTypeOK, ProcessTypeOK, ReferencesOK, On
<1>4. /\ prefs' \in Seq(SUBSET ClientIds) /\ prefs' # <<>> /\ faults' \in 0..MaxFaults
      /\ requests' \in [Requests -> RequestState]
      /\ workers' \in [Workers -> WorkerState]
      /\ \A w \in Workers :
           workers'[w].pc # "idle" => workers'[w].task \in DOMAIN tasks'
  BY <1>3
<1>5. UNCHANGED <<published, redisVars, publishers, manual>>
  OBVIOUS
<1> QED
  BY <1>2, <1>4, <1>5, TransactionTypes

\* A step of an agent that writes nothing.
LEMMA AgentReads ==
  ASSUME TypeOK, agents' \in [Agents -> Seq(Message)],
         UNCHANGED <<dbVars, published, redisVars, requests, publishers,
                     workers, manual>>,
         faults' \in 0..MaxFaults
  PROVE  TypeOK'
<1>1. /\ requests \in [Requests -> RequestState]
      /\ workers \in [Workers -> WorkerState]
      /\ \A w \in Workers :
           workers[w].pc # "idle" => workers[w].task \in DOMAIN tasks
  BY DEF TypeOK, StoreTypeOK, ProcessTypeOK, ReferencesOK, On
<1>2. /\ requests' \in [Requests -> RequestState]
      /\ workers' \in [Workers -> WorkerState]
      /\ \A w \in Workers :
           workers'[w].pc # "idle" => workers'[w].task \in DOMAIN tasks
      /\ UNCHANGED <<dbVars, published, redisVars, publishers, manual>>
  BY <1>1
<1> QED
  BY <1>2, ReadOnlyTypes

\* The messages of a batch, and how far the group has been given its streams.
LEMMA ReadStreamsTypes ==
  ASSUME TypeOK, NEW a \in Agents, ReadStreams(a),
         UNCHANGED <<requests, publishers, workers, manual>>
  PROVE  TypeOK'
<1> DEFINE Take(s) == IF Undelivered(s)
                      THEN <<[from |-> s, packet |-> NextEntry(s)]>> ELSE <<>>
<1>1. /\ stream \in [plan : Seq(Packet), tasks : Seq(Nat), compose : Seq(Packet)]
      /\ delivered \in [plan : Nat, tasks : Nat, compose : Nat]
      /\ \A s \in StreamNames : delivered[s] <= Len(stream[s])
  BY DEF TypeOK, StoreTypeOK, CursorsOK
<1>2. ASSUME NEW s \in {"plan", "compose"}
      PROVE  /\ Take(s) \in Seq(Message) /\ Len(Take(s)) \in Nat
             /\ delivered[s] + Len(Take(s)) <= Len(stream[s])
  <2>1. delivered[s] \in Nat /\ stream[s] \in Seq(Packet)
        /\ Len(stream[s]) \in Nat /\ delivered[s] <= Len(stream[s])
    BY <1>1, LenProperties DEF StreamNames
  <2>2. CASE Undelivered(s)
    <3>1. delivered[s] + 1 \in 1..Len(stream[s])
      BY <2>1, <2>2 DEF Undelivered
    <3>2. NextEntry(s) \in Packet
      BY <2>1, <3>1, ElementOfSeq DEF NextEntry
    <3>3. [from |-> s, packet |-> NextEntry(s)] \in Message
      BY <3>2 DEF Message
    <3>4. Take(s) = <<[from |-> s, packet |-> NextEntry(s)]>>
      BY <2>2
    <3> HIDE DEF Take
    <3>5. Take(s) \in Seq(Message) /\ Len(Take(s)) = 1
      BY <3>3, <3>4
    <3> QED
      BY <2>1, <3>1, <3>5
  <2>3. CASE ~Undelivered(s)
    <3>1. Take(s) = <<>>
      BY <2>3
    <3> HIDE DEF Take
    <3> QED
      BY <2>1, <3>1, EmptySeq
  <2> QED
    BY <2>2, <2>3
<1>3. /\ agents' = [agents EXCEPT ![a] = Take("plan") \o Take("compose")]
      /\ delivered' = [delivered EXCEPT
           !.plan = delivered.plan + Len(Take("plan")),
           !.compose = delivered.compose + Len(Take("compose"))]
      /\ UNCHANGED <<session, prefs, turns, tasks, itins, outbox, published,
                     stream, announced, cancelKeys, faults>>
  BY DEF ReadStreams, dbVars
<1>4. "plan" \in {"plan", "compose"} /\ "compose" \in {"plan", "compose"}
  OBVIOUS
<1> HIDE DEF Take
<1>5. /\ Take("plan") \in Seq(Message) /\ Len(Take("plan")) \in Nat
      /\ delivered.plan + Len(Take("plan")) <= Len(stream.plan)
      /\ Take("compose") \in Seq(Message) /\ Len(Take("compose")) \in Nat
      /\ delivered.compose + Len(Take("compose")) <= Len(stream.compose)
  BY <1>2, <1>4
<1>6. Take("plan") \o Take("compose") \in Seq(Message)
  BY <1>5, ConcatProperties
<1>7. ProcessTypeOK'
  BY <1>3, <1>6 DEF TypeOK, ProcessTypeOK
<1>8. /\ delivered' \in [plan : Nat, tasks : Nat, compose : Nat]
      /\ delivered'.plan = delivered.plan + Len(Take("plan"))
      /\ delivered'.compose = delivered.compose + Len(Take("compose"))
      /\ delivered'.tasks = delivered.tasks
  <2> DEFINE p == delivered.plan + Len(Take("plan"))
             c == delivered.compose + Len(Take("compose"))
  <2>1. p \in Nat /\ c \in Nat /\ delivered.tasks \in Nat
    BY <1>1, <1>5
  <2>2. delivered' = [delivered EXCEPT !.plan = p, !.compose = c]
    BY <1>3
  <2> HIDE DEF p, c
  <2>3. delivered' = [plan |-> p, tasks |-> delivered.tasks, compose |-> c]
    BY <1>1, <2>2
  <2>4. delivered'.plan = p /\ delivered'.compose = c
        /\ delivered'.tasks = delivered.tasks
    BY <2>3
  <2> QED
    BY <2>1, <2>3, <2>4 DEF p, c
<1>9. StoreTypeOK'
  BY <1>3, <1>8 DEF TypeOK, StoreTypeOK
<1>10. CursorsOK'
  BY <1>1, <1>3, <1>5, <1>8 DEF TypeOK, CursorsOK, StreamNames
<1>11. ReferencesOK'
  BY <1>3 DEF TypeOK, ReferencesOK, QueuedNamesTask, On
<1> QED
  BY <1>7, <1>9, <1>10, <1>11 DEF TypeOK

\* Every step of an agent worker keeps TypeOK, its crash included.
LEMMA AgentTypes ==
  ASSUME TypeOK, NEW a \in Agents, AgentStep(a) \/ AgentCrash(a),
         UNCHANGED <<requests, publishers, workers, manual>>
  PROVE  TypeOK'
<1>1. /\ turns \in Seq(Turn) /\ tasks \in Seq(Task) /\ itins \in Seq(Itinerary)
      /\ faults \in 0..MaxFaults /\ agents \in [Agents -> Seq(Message)]
  BY DEF TypeOK, StoreTypeOK, ProcessTypeOK
<1>2. /\ session.cv \in Nat /\ ActivePref \in Nat /\ ConfirmedItinerary \in Nat
      /\ Len(tasks) \in Nat /\ DOMAIN tasks = 1..Len(tasks)
  BY RowNumbers
<1>3. CASE ReadStreams(a)
  BY <1>3, ReadStreamsTypes
<1>4. CASE CreateTasks(a)
  <2> DEFINE k == InHand(a)
  <2>1. agents[a] # <<>> /\ Finish(a) /\ UNCHANGED <<published, redisVars, faults>>
    BY <1>4 DEF CreateTasks, Working
  <2>2. agents' \in [Agents -> Seq(Message)]
    BY <2>1, FinishTypes
  <2>3. k \in Packet /\ k.turn \in Nat /\ k.cv \in Nat /\ k.pref \in Nat
        /\ k.itin \in Nat
    BY <2>1, MessageInHand DEF Packet
  <2>4. CASE UNCHANGED dbVars
    <3>1. faults' \in 0..MaxFaults
      BY <1>1, <2>1
    <3> QED
      BY <2>1, <2>2, <2>4, <3>1, AgentReads
  <2>5. CASE /\ tasks' = Append(tasks, [turn |-> k.turn, cv |-> k.cv,
                  pref |-> k.pref, itin |-> k.itin, status |-> "queued",
                  tool |-> "none"])
             /\ Emit(<<Event("task.queued", <<NewTask>>, k.turn, k.cv,
                             k.pref, {})>>, session.cv)
             /\ UNCHANGED <<prefs, turns, itins>>
    <3> DEFINE e == Event("task.queued", <<NewTask>>, k.turn, k.cv, k.pref, {})
    <3> HIDE DEF k
    <3>1. [turn |-> k.turn, cv |-> k.cv, pref |-> k.pref, itin |-> k.itin,
           status |-> "queued", tool |-> "none"] \in Task
      BY <2>3 DEF Task, TaskStatus, ToolStatus
    <3>2. tasks' \in Seq(Task) /\ Len(tasks') = Len(tasks) + 1
      BY <1>1, <2>5, <3>1, AppendProperties
    <3>3. DOMAIN tasks \subseteq DOMAIN tasks' /\ NewTask \in DOMAIN tasks'
      BY <1>2, <3>2, LenProperties DEF NewTask
    <3>4. NewTask \in Nat /\ "task.queued" \in EventTypes /\ {} \in SUBSET Nat
      BY <1>2 DEF NewTask, EventTypes, WorkEvents
    <3>5. <<NewTask>> \in Seq(ClientIds \cup Nat) /\ Len(<<NewTask>>) = 1
          /\ Head(<<NewTask>>) = NewTask
      BY <3>4, SingleReference
    <3>6. e \in EventRow
      BY <2>3, <3>4, <3>5, EventType
    <3>7. e.ref = <<NewTask>>
      BY DEF Event
    <3>8. QueuedNamesTask(e, DOMAIN tasks')
      BY <3>3, <3>5, <3>7 DEF QueuedNamesTask
    <3>9. Emit(<<e>>, session.cv)
      BY <2>5
    <3> HIDE DEF e
    <3>10. /\ <<e>> \in Seq(EventRow)
           /\ \A i \in 1..Len(<<e>>) : QueuedNamesTask(<<e>>[i], DOMAIN tasks')
      BY <3>6, <3>8
    <3>11. turns' \in Seq(Turn) /\ itins' \in Seq(Itinerary) /\ prefs' = prefs
      BY <1>1, <2>5
    <3> QED
      BY <2>1, <2>2, <3>2, <3>3, <3>9, <3>10, <3>11, AgentTransaction
  <2> QED
    BY <1>4, <2>4, <2>5 DEF CreateTasks
<1>5. CASE ComposeNothing(a)
  <2>1. agents[a] # <<>> /\ Finish(a)
        /\ UNCHANGED <<dbVars, published, redisVars, faults>>
    BY <1>5 DEF ComposeNothing, Working, storeVars
  <2>2. agents' \in [Agents -> Seq(Message)] /\ faults' \in 0..MaxFaults
    BY <1>1, <2>1, FinishTypes
  <2> QED
    BY <2>1, <2>2, AgentReads
<1>6. CASE ComposeReply(a)
  <2> DEFINE n       == InHand(a).turn
             cv      == InHand(a).cv
             sources == Ready(n, cv)
             e1 == Event("itinerary.confirmed", <<n, cv>>, n, cv, ActivePref,
                         sources)
             e2 == Event("agent.reply.created", <<n, cv>>, n, cv, ActivePref,
                         sources)
  <2>1. agents[a] # <<>> /\ Finish(a) /\ Emit(<<e1, e2>>, session.cv)
        /\ itins' = Append(itins, [cv |-> cv, pref |-> ActivePref,
                                   sources |-> sources])
        /\ turns' = Append(turns, [kind |-> "agent_reply",
             status |-> "completed", cv |-> cv, parent |-> n])
        /\ UNCHANGED <<prefs, tasks, published, redisVars, faults>>
    BY <1>6 DEF ComposeReply, Working
  <2>2. n \in Nat /\ cv \in Nat
    BY <2>1, MessageInHand
  <2>3. sources \subseteq DOMAIN tasks
    BY DEF Ready
  <2>4. sources \in SUBSET Nat
    BY <2>3, TaskSetFinite
  <2> HIDE DEF n, cv, sources
  <2>5. agents' \in [Agents -> Seq(Message)]
    BY <2>1, FinishTypes
  <2>6. /\ "itinerary.confirmed" \in EventTypes
        /\ "agent.reply.created" \in EventTypes
        /\ <<n, cv>> \in Seq(ClientIds \cup Nat)
    BY <2>2 DEF EventTypes, WorkEvents
  <2>7. e1 \in EventRow /\ e2 \in EventRow
    BY <1>2, <2>2, <2>4, <2>6, EventType
  <2>8. e1.type # "task.queued" /\ e2.type # "task.queued"
    BY DEF Event
  <2> HIDE DEF e1, e2
  <2>9. /\ <<e1, e2>> \in Seq(EventRow)
        /\ \A i \in 1..Len(<<e1, e2>>) :
             QueuedNamesTask(<<e1, e2>>[i], DOMAIN tasks')
    BY <2>7, <2>8 DEF QueuedNamesTask
  <2>10. [cv |-> cv, pref |-> ActivePref, sources |-> sources] \in Itinerary
    BY <1>2, <2>2, <2>4 DEF Itinerary
  <2>11. [kind |-> "agent_reply", status |-> "completed", cv |-> cv,
          parent |-> n] \in Turn
    BY <2>2 DEF Turn, TurnStatus
  <2>12. itins' \in Seq(Itinerary) /\ turns' \in Seq(Turn)
    BY <1>1, <2>1, <2>10, <2>11, AppendProperties
  <2>13. tasks' \in Seq(Task) /\ DOMAIN tasks \subseteq DOMAIN tasks'
    BY <1>1, <2>1
  <2> QED
    BY <2>1, <2>5, <2>9, <2>12, <2>13, AgentTransaction
<1>7. CASE ComposeConflict(a)
  <2> DEFINE n     == InHand(a).turn
             cv    == InHand(a).cv
             stale == Ready(n, cv)
  <2>1. /\ agents[a] # <<>> /\ Continue(a, "replan", InHand(a))
        /\ tasks' = [t \in DOMAIN tasks |-> IF t \in stale
                      THEN [tasks[t] EXCEPT !.status = "discarded"]
                      ELSE tasks[t]]
        /\ \E order \in SetToSeqs(stale) :
             Emit(EventPerTask("task.result.discarded", order, n, cv), session.cv)
        /\ UNCHANGED <<prefs, turns, itins, published, redisVars, faults>>
    BY <1>7 DEF ComposeConflict, Working
  <2>2. n \in Nat /\ cv \in Nat /\ InHand(a) \in Packet
    BY <2>1, MessageInHand
  <2>3. agents' \in [Agents -> Seq(Message)]
    BY <2>1, <2>2, ContinueTypes
  <2>4. stale \subseteq DOMAIN tasks
    BY DEF Ready
  <2> HIDE DEF n, cv, stale
  <2>5. tasks' \in Seq(Task) /\ DOMAIN tasks' = DOMAIN tasks
    BY <2>1, RewrittenTasks DEF TaskStatus
  <2>6. PICK order \in SetToSeqs(stale) :
          Emit(EventPerTask("task.result.discarded", order, n, cv), session.cv)
    BY <2>1
  <2> DEFINE events == EventPerTask("task.result.discarded", order, n, cv)
  <2>7. /\ "task.result.discarded" \in EventTypes
        /\ "task.result.discarded" # "task.queued"
    BY DEF EventTypes, OtherEvents
  <2>8. /\ events \in Seq(EventRow)
        /\ \A i \in 1..Len(events) : events[i].type = "task.result.discarded"
    <3>1. order \in Seq(Nat)
      BY <2>4, OrderOfTasks
    <3> QED
      BY <1>2, <2>2, <2>7, <3>1, EventPerTaskTypes
  <2>9. Emit(events, session.cv)
    BY <2>6
  <2> HIDE DEF events
  <2>10. \A i \in 1..Len(events) : QueuedNamesTask(events[i], DOMAIN tasks')
    BY <2>7, <2>8 DEF QueuedNamesTask
  <2>11. turns' \in Seq(Turn) /\ itins' \in Seq(Itinerary)
         /\ DOMAIN tasks \subseteq DOMAIN tasks'
    BY <1>1, <2>1, <2>5
  <2> QED
    BY <2>1, <2>3, <2>5, <2>8, <2>9, <2>10, <2>11, AgentTransaction
<1>8. CASE RebuildPacket(a)
  <2>1. agents[a] # <<>>
        /\ Continue(a, "plan", [InHand(a) EXCEPT !.pref = ActivePref,
                                                 !.itin = ConfirmedItinerary])
        /\ UNCHANGED <<dbVars, published, redisVars, faults>>
    BY <1>8 DEF RebuildPacket, Working, storeVars
  <2>2. [InHand(a) EXCEPT !.pref = ActivePref, !.itin = ConfirmedItinerary]
          \in Packet
    <3>1. InHand(a) \in Packet
      BY <2>1, MessageInHand
    <3> QED
      BY <1>2, <3>1 DEF Packet
  <2>3. agents' \in [Agents -> Seq(Message)] /\ faults' \in 0..MaxFaults
    BY <1>1, <2>1, <2>2, ContinueTypes
  <2> QED
    BY <2>1, <2>3, AgentReads
<1>9. CASE AgentCrash(a)
  <2>1. agents' = [agents EXCEPT ![a] = <<>>] /\ Fault
        /\ UNCHANGED <<dbVars, published, redisVars>>
    BY <1>9 DEF AgentCrash
  <2>2. agents' \in [Agents -> Seq(Message)]
    BY <1>1, <2>1, EmptySeq
  <2>3. faults' \in 0..MaxFaults
    BY <1>1, <2>1, FaultAssumption DEF Fault
  <2> QED
    BY <2>1, <2>2, <2>3, AgentReads
<1> QED
  BY <1>3, <1>4, <1>5, <1>6, <1>7, <1>8, <1>9 DEF AgentStep

-----------------------------------------------------------------------------
(* Types: the task workers.                                                *)

\* A worker that is not idle has a task.
LEMMA TaskInHand ==
  ASSUME TypeOK, NEW w \in Workers, ~On(w, "idle")
  PROVE  LET t == workers[w].task
         IN /\ t \in DOMAIN tasks /\ t \in Nat /\ tasks[t] \in Task
            /\ tasks[t].status \in TaskStatus /\ tasks[t].tool \in ToolStatus
            /\ tasks[t].turn \in Nat /\ tasks[t].cv \in Nat /\ tasks[t].pref \in Nat
<1>1. workers[w].task \in DOMAIN tasks
  <2>1. ReferencesOK
    BY DEF TypeOK
  <2>2. \A v \in Workers : ~On(v, "idle") => workers[v].task \in DOMAIN tasks
    BY <2>1, Zenon DEF ReferencesOK
  <2> QED
    BY <2>2, Zenon
<1>2. tasks \in Seq(Task) /\ DOMAIN tasks = 1..Len(tasks) /\ Len(tasks) \in Nat
  BY RowNumbers DEF TypeOK, StoreTypeOK
<1>3. tasks[workers[w].task] \in Task
  BY <1>1, <1>2, ElementOfSeq
<1>4. workers[w].task \in Nat
  BY <1>1, <1>2
<1> DEFINE t == workers[w].task
<1>5. t \in DOMAIN tasks /\ t \in Nat /\ tasks[t] \in Task
  BY <1>1, <1>3, <1>4
<1> HIDE DEF t
<1>6. /\ tasks[t].status \in TaskStatus /\ tasks[t].tool \in ToolStatus
      /\ tasks[t].turn \in Nat /\ tasks[t].cv \in Nat /\ tasks[t].pref \in Nat
  BY <1>5 DEF Task
<1> QED
  BY <1>5, <1>6 DEF t

\* The event a worker appends, if any.
LEMMA TaskEventTypes ==
  ASSUME TypeOK, NEW t \in DOMAIN tasks, NEW type \in EventTypes,
         type # "task.queued"
  PROVE  /\ TaskEvent(type, t) \in Seq(EventRow)
         /\ \A i \in 1..Len(TaskEvent(type, t)) :
              /\ TaskEvent(type, t)[i].type = type
              /\ TaskEvent(type, t)[i].cv = tasks[t].cv
         /\ \A i \in 1..Len(TaskEvent(type, t)) :
              QueuedNamesTask(TaskEvent(type, t)[i], DOMAIN tasks)
<1> DEFINE e == Event(type, <<t>>, tasks[t].turn, tasks[t].cv, tasks[t].pref, {})
<1>1. tasks \in Seq(Task) /\ DOMAIN tasks = 1..Len(tasks) /\ Len(tasks) \in Nat
  BY RowNumbers DEF TypeOK, StoreTypeOK
<1>2. t \in Nat /\ tasks[t] \in Task
  BY <1>1, ElementOfSeq
<1>3. e \in EventRow
  BY <1>2, SingleReference, EventType DEF Task
<1>4. e.type = type /\ e.cv = tasks[t].cv
  BY DEF Event
<1>5. TaskEvent(type, t) = IF Logged(type, <<t>>) THEN <<>> ELSE <<e>>
  BY DEF TaskEvent, Unless
<1> HIDE DEF e
<1>6. CASE TaskEvent(type, t) = <<>>
  BY <1>6, EmptySeq
<1>7. CASE TaskEvent(type, t) = <<e>>
  BY <1>3, <1>4, <1>7 DEF QueuedNamesTask
<1> QED
  BY <1>5, <1>6, <1>7

\* A transaction of a worker: one task's statuses and at most one event.
LEMMA SettleTypes ==
  ASSUME TypeOK, NEW t \in DOMAIN tasks, NEW status \in TaskStatus,
         NEW tool \in ToolStatus, NEW type \in EventTypes, type # "task.queued",
         Settle(t, status, tool, type),
         workers' \in [Workers -> WorkerState],
         \A w \in Workers :
           workers'[w].pc # "idle" => workers'[w].task \in DOMAIN tasks,
         UNCHANGED <<requests, publishers, agents, manual>>
  PROVE  TypeOK'
<1>1. tasks \in Seq(Task) /\ DOMAIN tasks = 1..Len(tasks) /\ Len(tasks) \in Nat
      /\ session.cv \in Nat
  BY RowNumbers DEF TypeOK, StoreTypeOK
<1>2. tasks' = [tasks EXCEPT ![t] =
                  [tasks[t] EXCEPT !.status = status, !.tool = tool]]
  BY <1>1 DEF Settle, SetTask
<1>3. tasks[t] \in Task
  BY <1>1, ElementOfSeq
<1>4. [tasks[t] EXCEPT !.status = status, !.tool = tool] \in Task
  BY <1>3 DEF Task
<1>5. tasks' \in Seq(Task) /\ DOMAIN tasks' = DOMAIN tasks
  BY <1>1, <1>2, <1>4, ExceptSeq, LenProperties
<1>6. /\ Emit(TaskEvent(type, t), session.cv)
      /\ UNCHANGED <<prefs, turns, itins, published, redisVars, faults>>
  BY DEF Settle
<1>7. /\ TaskEvent(type, t) \in Seq(EventRow)
      /\ \A i \in 1..Len(TaskEvent(type, t)) :
           QueuedNamesTask(TaskEvent(type, t)[i], DOMAIN tasks')
  BY <1>5, TaskEventTypes
<1>8. DOMAIN tasks \subseteq DOMAIN tasks'
  BY <1>5
<1>9. /\ session' \in [cv : Nat, seq : Nat]
      /\ outbox' \in Seq(EventRow)
      /\ DOMAIN outbox \subseteq DOMAIN outbox'
      /\ \A i \in DOMAIN outbox' : QueuedNamesTask(outbox'[i], DOMAIN tasks')
  BY <1>1, <1>5, <1>6, <1>7, <1>8, LogTypes
<1>10. /\ prefs \in Seq(SUBSET ClientIds) /\ prefs # <<>> /\ faults \in 0..MaxFaults
       /\ turns \in Seq(Turn) /\ itins \in Seq(Itinerary)
       /\ requests \in [Requests -> RequestState]
       /\ agents \in [Agents -> Seq(Message)]
  BY DEF TypeOK, StoreTypeOK, ProcessTypeOK
<1>11. /\ prefs' \in Seq(SUBSET ClientIds) /\ prefs' # <<>> /\ faults' \in 0..MaxFaults
       /\ turns' \in Seq(Turn) /\ itins' \in Seq(Itinerary)
       /\ requests' \in [Requests -> RequestState]
       /\ agents' \in [Agents -> Seq(Message)]
  BY <1>6, <1>10
<1>12. /\ UNCHANGED <<published, redisVars, publishers, manual>>
       /\ \A w \in Workers :
            workers'[w].pc # "idle" => workers'[w].task \in DOMAIN tasks'
  BY <1>5, <1>6
<1> QED
  BY <1>5, <1>8, <1>9, <1>11, <1>12, TransactionTypes

\* A worker goes on with its task, or leaves it.
LEMMA BecomeTypes ==
  ASSUME TypeOK, NEW w \in Workers, NEW task \in DOMAIN tasks,
         NEW pc \in {"start", "check", "load_mark", "mark", "execute",
                     "load_commit", "commit", "load_fail", "fail"},
         NEW seen \in TaskStatus, NEW late \in BOOLEAN,
         Become(w, pc, task, seen, late)
  PROVE  /\ workers' \in [Workers -> WorkerState]
         /\ \A v \in Workers :
              workers'[v].pc # "idle" => workers'[v].task \in DOMAIN tasks
<1>1. workers \in [Workers -> WorkerState]
      /\ \A v \in Workers : workers[v].pc # "idle" => workers[v].task \in DOMAIN tasks
  BY DEF TypeOK, ProcessTypeOK, ReferencesOK, On
<1>2. task \in Nat
  BY RowNumbers
<1>3. [pc |-> pc, task |-> task, seen |-> seen, late |-> late] \in WorkerState
  BY <1>2 DEF WorkerState
<1> QED
  BY <1>1, <1>3 DEF Become

\* A worker that goes back to its stream is idle and well typed.
LEMMA LeaveTypes ==
  ASSUME TypeOK, NEW w \in Workers, Leave(w)
  PROVE  /\ workers' \in [Workers -> WorkerState]
         /\ \A v \in Workers :
              workers'[v].pc # "idle" => workers'[v].task \in DOMAIN tasks
<1>1. workers \in [Workers -> WorkerState]
      /\ \A v \in Workers : workers[v].pc # "idle" => workers[v].task \in DOMAIN tasks
  BY DEF TypeOK, ProcessTypeOK, ReferencesOK, On
<1>2. [pc |-> "idle", task |-> 0, seen |-> "queued", late |-> FALSE] \in WorkerState
  BY DEF WorkerState, TaskStatus
<1> QED
  BY <1>1, <1>2 DEF Leave, Become

\* A step of a worker that writes nothing.
LEMMA WorkerReads ==
  ASSUME TypeOK, workers' \in [Workers -> WorkerState],
         \A w \in Workers :
           workers'[w].pc # "idle" => workers'[w].task \in DOMAIN tasks,
         UNCHANGED <<dbVars, published, redisVars, requests, publishers,
                     agents, manual>>,
         faults' \in 0..MaxFaults
  PROVE  TypeOK'
<1>1. requests \in [Requests -> RequestState] /\ agents \in [Agents -> Seq(Message)]
  BY DEF TypeOK, ProcessTypeOK
<1>2. /\ requests' \in [Requests -> RequestState]
      /\ agents' \in [Agents -> Seq(Message)]
      /\ UNCHANGED <<dbVars, published, redisVars, publishers, manual>>
  BY <1>1
<1> QED
  BY <1>2, ReadOnlyTypes

\* The task workers' group has been given one entry more.
LEMMA DeliveredTypes ==
  ASSUME NEW d \in [plan : Nat, tasks : Nat, compose : Nat], NEW k \in Nat
  PROVE  /\ [d EXCEPT !.tasks = k] \in [plan : Nat, tasks : Nat, compose : Nat]
         /\ [d EXCEPT !.tasks = k].tasks = k
         /\ [d EXCEPT !.tasks = k].plan = d.plan
         /\ [d EXCEPT !.tasks = k].compose = d.compose
OBVIOUS

\* Every step of a task worker keeps TypeOK, faults included.
LEMMA WorkerTypes ==
  ASSUME TypeOK, NEW w \in Workers,
         WorkerStep(w) \/ Raise(w) \/ WorkerCrash(w),
         UNCHANGED <<requests, publishers, agents, manual>>
  PROVE  TypeOK'
<1> DEFINE t    == workers[w].task
           busy == {"check", "load_mark", "mark", "execute", "load_commit",
                    "commit", "load_fail", "fail"}
\* The worker moved on, and its state is typed.
           Moved == /\ workers' \in [Workers -> WorkerState]
                    /\ \A v \in Workers :
                         workers'[v].pc # "idle" => workers'[v].task \in DOMAIN tasks
<1>1. /\ workers \in [Workers -> WorkerState] /\ faults \in 0..MaxFaults
      /\ workers[w].seen \in TaskStatus /\ workers[w].late \in BOOLEAN
      /\ workers[w] \in WorkerState
  BY DEF TypeOK, StoreTypeOK, ProcessTypeOK, WorkerState
<1>2. ASSUME ~On(w, "idle"), NEW pc \in busy, NEW seen \in TaskStatus,
             NEW late \in BOOLEAN, Become(w, pc, t, seen, late)
      PROVE  Moved
  BY <1>2, TaskInHand, BecomeTypes
<1>3. ASSUME ~On(w, "idle"), NEW pc \in busy, Goto(w, pc)
      PROVE  Moved
  BY <1>1, <1>2, <1>3 DEF Goto
<1>5. Leave(w) => Moved
  BY LeaveTypes
<1>6. ASSUME ~On(w, "idle")
      PROVE  /\ t \in DOMAIN tasks /\ tasks[t].status \in TaskStatus
             /\ tasks[t].tool \in ToolStatus
  BY <1>6, TaskInHand
<1>7. ASSUME UNCHANGED storeVars, Moved
      PROVE  TypeOK'
  <2>1. UNCHANGED <<dbVars, published, redisVars>> /\ faults' = faults
    BY <1>7 DEF storeVars
  <2> QED
    BY <1>1, <1>7, <2>1, WorkerReads
<1>8. ASSUME Fault, UNCHANGED <<dbVars, published, redisVars>>, Moved
      PROVE  TypeOK'
  <2>1. faults' \in 0..MaxFaults
    BY <1>1, <1>8, FaultAssumption DEF Fault
  <2> QED
    BY <1>8, <2>1, WorkerReads
<1>9. ASSUME ~On(w, "idle"), NEW status \in TaskStatus, NEW tool \in ToolStatus,
             NEW type \in OtherEvents \cup {"task.succeeded"},
             Settle(t, status, tool, type), Moved
      PROVE  TypeOK'
  <2>1. type \in EventTypes /\ type # "task.queued"
    BY DEF OtherEvents, EventTypes, WorkEvents
  <2> QED
    BY <1>6, <1>9, <2>1, SettleTypes
<1>10. ASSUME NEW from \in busy, NEW to \in busy, Load(w, from, to)
       PROVE  TypeOK'
  <2>1. ~On(w, "idle") /\ UNCHANGED storeVars
        /\ Become(w, to, t, tasks[t].status, workers[w].late)
    BY <1>10 DEF Load, On
  <2>2. Moved
    BY <1>1, <1>2, <1>6, <2>1
  <2> QED
    BY <1>7, <2>1, <2>2
<1>11. CASE ReceiveTask(w)
  <2> DEFINE m == NextEntry("tasks")
  <2>1. /\ Undelivered("tasks")
        /\ delivered' = [delivered EXCEPT !.tasks = delivered.tasks + 1]
        /\ Become(w, "start", m, tasks[m].status, FALSE)
        /\ UNCHANGED <<session, prefs, turns, tasks, itins, outbox, published,
                       stream, announced, cancelKeys, faults>>
    BY <1>11 DEF ReceiveTask, dbVars
  <2>2. /\ stream \in [plan : Seq(Packet), tasks : Seq(Nat), compose : Seq(Packet)]
        /\ delivered \in [plan : Nat, tasks : Nat, compose : Nat]
        /\ \A k \in DOMAIN stream.tasks : stream.tasks[k] \in DOMAIN tasks
        /\ \A s \in StreamNames : delivered[s] <= Len(stream[s])
    BY DEF TypeOK, StoreTypeOK, ReferencesOK, CursorsOK
  <2>3. Len(stream.tasks) \in Nat /\ DOMAIN stream.tasks = 1..Len(stream.tasks)
    BY <2>2, LenProperties
  <2>4. delivered.tasks + 1 \in DOMAIN stream.tasks
    BY <2>1, <2>2, <2>3 DEF Undelivered
  <2>5. m \in DOMAIN tasks
    BY <2>2, <2>4 DEF NextEntry
  <2>6. tasks \in Seq(Task) /\ DOMAIN tasks = 1..Len(tasks) /\ Len(tasks) \in Nat
    BY RowNumbers DEF TypeOK, StoreTypeOK
  <2> HIDE DEF m
  <2>7. m \in Nat /\ tasks[m].status \in TaskStatus
    <3>1. m \in 1..Len(tasks)
      BY <2>5, <2>6
    <3>2. tasks[m] \in Task
      BY <2>6, <3>1, ElementOfSeq
    <3> QED
      BY <2>6, <3>1, <3>2 DEF Task
  <2>10. Moved
    BY <2>1, <2>5, <2>7, BecomeTypes
  <2>11. delivered' \in [plan : Nat, tasks : Nat, compose : Nat]
         /\ delivered'.tasks = delivered.tasks + 1
         /\ delivered'.plan = delivered.plan /\ delivered'.compose = delivered.compose
    <3>1. delivered.tasks + 1 \in Nat
      BY <2>2
    <3> QED
      BY <2>1, <2>2, <3>1, DeliveredTypes
  <2>12. StoreTypeOK'
    BY <2>1, <2>11 DEF TypeOK, StoreTypeOK
  <2>13. ProcessTypeOK'
    BY <2>1, <2>10 DEF TypeOK, ProcessTypeOK
  <2>14. CursorsOK'
    BY <2>1, <2>2, <2>3, <2>4, <2>11 DEF TypeOK, CursorsOK, StreamNames
  <2>15. ReferencesOK'
    BY <2>1, <2>10 DEF TypeOK, ReferencesOK, QueuedNamesTask, On
  <2> QED
    BY <2>12, <2>13, <2>14, <2>15 DEF TypeOK
<1>12. CASE StartTask(w)
  <2>1. ~On(w, "idle")
    BY <1>12 DEF StartTask, On
  <2>2. CASE Settle(t, "running", "running", "task.running") /\ Goto(w, "check")
    <3>1. Moved
      BY <1>3, <2>1, <2>2
    <3>2. "running" \in TaskStatus /\ "running" \in ToolStatus
          /\ "task.running" \in OtherEvents \cup {"task.succeeded"}
      BY DEF TaskStatus, ToolStatus, OtherEvents
    <3> QED
      BY <1>9, <2>1, <2>2, <3>1, <3>2
  <2>3. CASE Settle(t, "cancelled", tasks[t].tool, "task.cancelled") /\ Leave(w)
    <3>1. "cancelled" \in TaskStatus /\ tasks[t].tool \in ToolStatus
          /\ "task.cancelled" \in OtherEvents \cup {"task.succeeded"}
      BY <1>6, <2>1 DEF TaskStatus, OtherEvents
    <3> QED
      BY <1>5, <1>9, <2>1, <2>3, <3>1
  <2>4. CASE UNCHANGED storeVars /\ Leave(w)
    BY <1>5, <1>7, <2>4
  <2> QED
    BY <1>12, <2>2, <2>3, <2>4 DEF StartTask
<1>13. CASE CheckCancelled(w)
  <2>1. ~On(w, "idle") /\ UNCHANGED storeVars
        /\ \E c \in CancellationAnswers(t) : Goto(w, IF c THEN "load_mark" ELSE "execute")
    BY <1>13 DEF CheckCancelled, On
  <2>2. Goto(w, "load_mark") \/ Goto(w, "execute")
    BY <2>1
  <2>3. Moved
    BY <1>3, <2>1, <2>2
  <2> QED
    BY <1>7, <2>1, <2>3
<1>14. CASE LoadToMark(w)
  BY <1>10, <1>14 DEF LoadToMark
<1>15. CASE MarkCancelled(w)
  <2> DEFINE tool == IF tasks[t].tool = "running" THEN "cancelled" ELSE tasks[t].tool
  <2>1. ~On(w, "idle") /\ Leave(w)
        /\ (Settle(t, "cancelled", tool, "task.cancelled") \/ UNCHANGED storeVars)
    BY <1>15 DEF MarkCancelled, On
  <2>2. tool \in ToolStatus
    BY <1>6, <2>1 DEF ToolStatus
  <2>3. "cancelled" \in TaskStatus
        /\ "task.cancelled" \in OtherEvents \cup {"task.succeeded"}
    BY DEF TaskStatus, OtherEvents
  <2> HIDE DEF tool
  <2>4. CASE Settle(t, "cancelled", tool, "task.cancelled")
    BY <1>5, <1>9, <2>1, <2>2, <2>3, <2>4
  <2> QED
    BY <1>5, <1>7, <2>1, <2>4
<1>16. CASE Execute(w)
  <2>1. PICK c \in CancellationAnswers(t) :
          Become(w, "load_commit", t, workers[w].seen, c)
    BY <1>16 DEF Execute
  <2>2. c \in BOOLEAN
    BY DEF CancellationAnswers, CancelKeySeen
  <2>3. ~On(w, "idle") /\ UNCHANGED storeVars
    BY <1>16 DEF Execute, On
  <2>4. Moved
    BY <1>1, <1>2, <2>1, <2>2, <2>3
  <2> QED
    BY <1>7, <2>3, <2>4
<1>17. CASE LoadToCommit(w)
  BY <1>10, <1>17 DEF LoadToCommit
<1>18. CASE CommitResult(w)
  <2>1. ~On(w, "idle") /\ Leave(w)
        /\ \/ Settle(t, "discarded", "discarded", "task.result.discarded")
           \/ Settle(t, "succeeded", "succeeded", "task.succeeded")
    BY <1>18 DEF CommitResult, On
  <2>2. /\ "discarded" \in TaskStatus /\ "succeeded" \in TaskStatus
        /\ "discarded" \in ToolStatus /\ "succeeded" \in ToolStatus
        /\ "task.result.discarded" \in OtherEvents \cup {"task.succeeded"}
        /\ "task.succeeded" \in OtherEvents \cup {"task.succeeded"}
    BY DEF TaskStatus, ToolStatus, OtherEvents
  <2> QED
    BY <1>5, <1>9, <2>1, <2>2
<1>19. CASE LoadToFail(w)
  BY <1>10, <1>19 DEF LoadToFail
<1>20. CASE RecordFailure(w)
  <2>1. ~On(w, "idle") /\ Leave(w)
        /\ \/ Settle(t, "cancelled", "cancelled", "task.cancelled")
           \/ Settle(t, "failed", "failed", "task.failed")
           \/ UNCHANGED storeVars
    BY <1>20 DEF RecordFailure, On
  <2>2. /\ "cancelled" \in TaskStatus /\ "failed" \in TaskStatus
        /\ "cancelled" \in ToolStatus /\ "failed" \in ToolStatus
        /\ "task.cancelled" \in OtherEvents \cup {"task.succeeded"}
        /\ "task.failed" \in OtherEvents \cup {"task.succeeded"}
    BY DEF TaskStatus, ToolStatus, OtherEvents
  <2> QED
    BY <1>5, <1>7, <1>9, <2>1, <2>2
<1>21. CASE Raise(w)
  <2>1. ~On(w, "idle") /\ Fault /\ Goto(w, "load_fail")
        /\ UNCHANGED <<dbVars, published, redisVars>>
    BY <1>21 DEF Raise, On
  <2>2. Moved
    BY <1>3, <2>1
  <2> QED
    BY <1>8, <2>1, <2>2
<1>22. CASE WorkerCrash(w)
  BY <1>5, <1>8, <1>22 DEF WorkerCrash
<1> QED
  BY <1>11, <1>12, <1>13, <1>14, <1>15, <1>16, <1>17, <1>18, <1>19, <1>20,
     <1>21, <1>22 DEF WorkerStep
-----------------------------------------------------------------------------
(* Types: the system.                                                      *)

\* An itinerary confirmed by hand adds one row and touches nothing else.
LEMMA ConfirmTypes ==
  ASSUME TypeOK, ConfirmByHand
  PROVE  TypeOK'
<1>1. /\ itins' = Append(itins, [cv |-> session.cv, pref |-> ActivePref,
                                 sources |-> {}])
      /\ manual < MaxManual /\ manual' = manual + 1
      /\ UNCHANGED <<session, prefs, turns, tasks, outbox, published, faults>>
      /\ UNCHANGED <<stream, delivered, announced, cancelKeys>>
      /\ UNCHANGED <<requests, publishers, agents, workers>>
  BY DEF ConfirmByHand, redisVars, processVars
<1>2. [cv |-> session.cv, pref |-> ActivePref, sources |-> {}] \in Itinerary
  BY RowNumbers DEF Itinerary
<1>3. itins' \in Seq(Itinerary)
  BY <1>1, <1>2, AppendProperties DEF TypeOK, StoreTypeOK
<1>4. manual' \in 0..MaxManual
  BY <1>1, ManualAssumption DEF TypeOK, StoreTypeOK
<1>5. StoreTypeOK'
  BY <1>1, <1>3, <1>4 DEF TypeOK, StoreTypeOK
<1>6. ProcessTypeOK'
  BY <1>1 DEF TypeOK, ProcessTypeOK
<1>7. CursorsOK' /\ ReferencesOK'
  BY <1>1 DEF TypeOK, CursorsOK, ReferencesOK, QueuedNamesTask, On
<1> QED
  BY <1>5, <1>6, <1>7 DEF TypeOK

\* A step that changes nothing keeps TypeOK.
LEMMA StutterTypes ==
  ASSUME TypeOK, UNCHANGED vars
  PROVE  TypeOK'
<1>1. /\ UNCHANGED <<storeVars, publishers, agents, workers, manual>>
      /\ requests' = requests
  BY DEF vars, processVars
<1>2. requests' \in [Requests -> RequestState]
  BY <1>1 DEF TypeOK, ProcessTypeOK
<1> QED
  BY <1>1, <1>2, AnsweredTypes

\* The state after POST /v1/sessions is well typed.
LEMMA InitTypes ==
  ASSUME Init
  PROVE  TypeOK
<1> DEFINE e == [Event("session.created", <<>>, 0, 0, 1, {}) EXCEPT !.seq = 1]
<1>1. /\ session = [cv |-> 0, seq |-> 1] /\ prefs = <<{}>>
      /\ turns = <<>> /\ tasks = <<>> /\ itins = <<>> /\ outbox = <<e>>
      /\ published = {} /\ announced = {} /\ cancelKeys = {} /\ faults = 0
      /\ stream = [plan |-> <<>>, tasks |-> <<>>, compose |-> <<>>]
      /\ delivered = [plan |-> 0, tasks |-> 0, compose |-> 0]
      /\ manual = 0
  BY DEF Init, StoreInit
<1>2. e \in EventRow /\ e.type = "session.created"
  <2>1. "session.created" \in EventTypes
    BY DEF EventTypes, OtherEvents
  <2>2. <<>> \in Seq(ClientIds \cup Nat)
    BY EmptySeq
  <2> QED
    BY <2>1, <2>2 DEF Event, EventRow
<1> HIDE DEF e
<1>3. outbox \in Seq(EventRow) /\ DOMAIN outbox = {1} /\ outbox[1] = e
  BY <1>1, <1>2
<1>4. prefs \in Seq(SUBSET ClientIds) /\ prefs # <<>>
  BY <1>1
<1>5. /\ turns \in Seq(Turn) /\ tasks \in Seq(Task) /\ itins \in Seq(Itinerary)
      /\ stream \in [plan : Seq(Packet), tasks : Seq(Nat), compose : Seq(Packet)]
      /\ \A s \in StreamNames : stream[s] = <<>>
  BY <1>1, EmptySeq DEF StreamNames
<1>6. faults \in 0..MaxFaults /\ manual \in 0..MaxManual
  BY <1>1, FaultAssumption, ManualAssumption
<1>7. StoreTypeOK
  BY <1>1, <1>3, <1>4, <1>5, <1>6 DEF StoreTypeOK
<1>8. requests \in [Requests -> RequestState]
  BY DEF Init, GatewayInit, RequestState
<1>9. publishers \in [Publishers -> PublisherState]
      /\ \A p \in Publishers : publishers[p].batch = {}
  BY DEF Init, PublisherInit, PublisherState
<1>10. agents \in [Agents -> Seq(Message)]
  BY EmptySeq DEF Init, AgentInit
<1>11. workers \in [Workers -> WorkerState]
       /\ \A w \in Workers : On(w, "idle")
  BY DEF Init, WorkerInit, WorkerState, TaskStatus, On
<1>12. ProcessTypeOK
  BY <1>8, <1>9, <1>10, <1>11 DEF ProcessTypeOK
<1>13. CursorsOK
  <2>1. \A s \in StreamNames : delivered[s] = 0 /\ Len(stream[s]) = 0
    BY <1>1, <1>5, EmptySeq DEF StreamNames
  <2> QED
    BY <1>9, <2>1 DEF CursorsOK
<1>14. ReferencesOK
  <2>1. DOMAIN stream.tasks = {}
    BY <1>1, EmptySeq
  <2> QED
    BY <1>2, <1>3, <1>11, <2>1 DEF ReferencesOK, QueuedNamesTask
<1> QED
  BY <1>7, <1>12, <1>13, <1>14 DEF TypeOK

\* Every step of the system keeps TypeOK.
LEMMA StepTypes ==
  ASSUME TypeOK, Next
  PROVE  TypeOK'
<1>1. CASE \E r \in Requests : HandleRequest(r)
  BY <1>1, GatewayTypes
<1>2. CASE \E p \in Publishers : Publish(p)
  BY <1>2, PublisherTypes DEF Publish
<1>3. CASE \E a \in Agents : RunAgent(a)
  BY <1>3, AgentTypes DEF RunAgent
<1>4. CASE \E w \in Workers : RunWorker(w)
  BY <1>4, WorkerTypes DEF RunWorker
<1>5. CASE GoWrong
  BY <1>5, PublisherTypes, AgentTypes, WorkerTypes DEF GoWrong
<1>6. CASE ConfirmByHand
  BY <1>6, ConfirmTypes
<1> QED
  BY <1>1, <1>2, <1>3, <1>4, <1>5, <1>6 DEF Next

\* In every reachable state every variable has its type, no consumer is ahead
\* of its stream, and every task id in the outbox, on a stream or in a worker
\* is that of a task row that was committed before it.
THEOREM TypeCorrect == Spec => []TypeOK
<1>1. Init => TypeOK
  BY InitTypes
<1>2. TypeOK /\ [Next]_vars => TypeOK'
  BY StepTypes, StutterTypes
<1> QED
  BY <1>1, <1>2, PTL DEF Spec
=============================================================================
