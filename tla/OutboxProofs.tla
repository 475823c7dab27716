----------------------------- MODULE OutboxProofs ------------------------------
(***************************************************************************)
(* The outbox, for any number of processes: PublishedWasSent (an event is  *)
(* marked only after it was sent), LogKeysUnique (no transaction but the   *)
(* gateway's own ever hits the unique constraint on dedupe_key), and what   *)
(* clients rely on for their retries, IdempotentAnswers and NoLostPatch.    *)
(***************************************************************************)
EXTENDS ExecutionProofs

-----------------------------------------------------------------------------
(* Publishing.                                                             *)

\* A publisher that announces a row has sent it, and one that marks it has
\* announced it too: three calls of one iteration, in this order.
InPlace(p) ==
  /\ ~Busy(p) => publishers[p].phase = "send"
  /\ Phase(p, "announce") => Sent(Current(p))
  /\ Phase(p, "mark") => Current(p) \in announced /\ Sent(Current(p))

SentBeforeMarked == \A p \in Publishers : InPlace(p)

PublishInv == PublishedWasSent /\ SentBeforeMarked

\* Nobody but p moves along its list.
OnlyMoves(p) == \A q \in Publishers \ {p} : publishers'[q] = publishers[q]

\* Entries of a stream stay where they are.
Extends(new, old) == \A k \in DOMAIN old : k \in DOMAIN new /\ new[k] = old[k]

StreamsGrow ==
  /\ Extends(stream'.plan, stream.plan)
  /\ Extends(stream'.tasks, stream.tasks)
  /\ Extends(stream'.compose, stream.compose)

RowsStay == \A i \in DOMAIN outbox : i \in DOMAIN outbox' /\ outbox'[i] = outbox[i]

\* No step rewrites or deletes a row of the log.
LEMMA RowsAlwaysStay ==
  ASSUME TypeOK, [Next]_vars
  PROVE  RowsStay
<1>1. Len(outbox) \in Nat /\ DOMAIN outbox = 1..Len(outbox)
  BY RowNumbers
<1>2. CASE UNCHANGED <<session, outbox>>
  BY <1>2 DEF RowsStay
<1>3. ASSUME NEW k \in Nat, Grows(k)
      PROVE  RowsStay
  BY <1>1, <1>3 DEF RowsStay, Grows
<1> QED
  BY <1>2, <1>3, StepLog, LogStepGrows

\* Appending to a stream keeps its entries and adds one.
LEMMA AppendExtends ==
  ASSUME NEW S, NEW s \in Seq(S), NEW m \in S
  PROVE  /\ Extends(Append(s, m), s)
         /\ \E k \in DOMAIN Append(s, m) : Append(s, m)[k] = m
<1>1. /\ Len(s) \in Nat /\ DOMAIN s = 1..Len(s)
      /\ DOMAIN Append(s, m) = 1..(Len(s) + 1)
      /\ \A k \in 1..(Len(s) + 1) :
           Append(s, m)[k] = IF k = Len(s) + 1 THEN m ELSE s[k]
  BY AppendProperties, LenProperties
<1>2. Extends(Append(s, m), s)
  BY <1>1 DEF Extends
<1>3. Len(s) + 1 \in DOMAIN Append(s, m) /\ Append(s, m)[Len(s) + 1] = m
  BY <1>1
<1> QED
  BY <1>2, <1>3

\* A message appended to one stream is in it, and nothing else has changed.
LEMMA XAddSends ==
  ASSUME TypeOK, NEW name \in StreamNames, NEW message,
         name = "tasks" => message \in Nat,
         name # "tasks" => message \in Packet,
         XAdd(name, message)
  PROVE  /\ StreamsGrow
         /\ name = "plan" => \E k \in DOMAIN stream'.plan : stream'.plan[k] = message
         /\ name = "tasks" => \E k \in DOMAIN stream'.tasks : stream'.tasks[k] = message
         /\ name = "compose" =>
              \E k \in DOMAIN stream'.compose : stream'.compose[k] = message
<1>1. stream \in [plan : Seq(Packet), tasks : Seq(Nat), compose : Seq(Packet)]
  BY DEF TypeOK, StoreTypeOK
<1>2. stream' = [stream EXCEPT ![name] = Append(stream[name], message)]
  BY DEF XAdd
<1>3. \A s : Extends(s, s)
  BY DEF Extends
<1>4. CASE name = "plan"
  <2>1. /\ stream'.plan = Append(stream.plan, message)
        /\ stream'.tasks = stream.tasks /\ stream'.compose = stream.compose
    BY <1>1, <1>2, <1>4
  <2>2. message \in Packet /\ stream.plan \in Seq(Packet)
    BY <1>1, <1>4
  <2>3. /\ Extends(stream'.plan, stream.plan)
        /\ \E k \in DOMAIN stream'.plan : stream'.plan[k] = message
    BY <2>1, <2>2, AppendExtends
  <2> QED
    BY <1>3, <1>4, <2>1, <2>3 DEF StreamsGrow
<1>5. CASE name = "compose"
  <2>1. /\ stream'.compose = Append(stream.compose, message)
        /\ stream'.tasks = stream.tasks /\ stream'.plan = stream.plan
    BY <1>1, <1>2, <1>5
  <2>2. message \in Packet /\ stream.compose \in Seq(Packet)
    BY <1>1, <1>5
  <2>3. /\ Extends(stream'.compose, stream.compose)
        /\ \E k \in DOMAIN stream'.compose : stream'.compose[k] = message
    BY <2>1, <2>2, AppendExtends
  <2> QED
    BY <1>3, <1>5, <2>1, <2>3 DEF StreamsGrow
<1>6. CASE name = "tasks"
  <2>1. /\ stream'.tasks = Append(stream.tasks, message)
        /\ stream'.plan = stream.plan /\ stream'.compose = stream.compose
    BY <1>1, <1>2, <1>6
  <2>2. message \in Nat /\ stream.tasks \in Seq(Nat)
    BY <1>1, <1>6
  <2>3. /\ Extends(stream'.tasks, stream.tasks)
        /\ \E k \in DOMAIN stream'.tasks : stream'.tasks[k] = message
    <3> DEFINE S == Nat
    <3>1. message \in S /\ stream.tasks \in Seq(S)
      BY <2>2
    <3> HIDE DEF S
    <3>2. /\ Extends(Append(stream.tasks, message), stream.tasks)
          /\ \E k \in DOMAIN Append(stream.tasks, message) :
               Append(stream.tasks, message)[k] = message
      BY <3>1, AppendExtends
    <3> QED
      BY <2>1, <3>2
  <2> QED
    BY <1>3, <1>6, <2>1, <2>3 DEF StreamsGrow
<1> QED
  BY <1>4, <1>5, <1>6 DEF StreamNames

\* What was sent stays sent.
LEMMA StillSent ==
  ASSUME RowsStay, StreamsGrow, NEW i \in DOMAIN outbox, Sent(i)
  PROVE  Sent(i)'
<1>1. outbox'[i] = outbox[i]
  BY DEF RowsStay
<1>2. CASE outbox[i].type = "turn.finalized"
  BY <1>1, <1>2 DEF Sent, StreamsGrow, Extends
<1>3. CASE outbox[i].type = "task.queued"
  BY <1>1, <1>3 DEF Sent, StreamsGrow, Extends
<1>4. CASE outbox[i].type = "task.succeeded"
  BY <1>1, <1>4 DEF Sent, StreamsGrow, Extends
<1>5. CASE outbox[i].type \notin {"turn.finalized", "task.queued", "task.succeeded"}
  BY <1>1, <1>5 DEF Sent
<1> QED
  BY <1>2, <1>3, <1>4, <1>5

\* A publisher goes on with its row.
LEMMA NextPhase ==
  ASSUME TypeOK, NEW p \in Publishers, NEW phase, GoTo(p, phase)
  PROVE  /\ publishers'[p].phase = phase
         /\ publishers'[p].batch = publishers[p].batch
         /\ OnlyMoves(p)
BY DEF TypeOK, ProcessTypeOK, PublisherState, OnlyMoves, GoTo

\* A publisher goes to another row, or to none.
LEMMA NextPlace ==
  ASSUME TypeOK, NEW p \in Publishers, NEW batch, NEW phase,
         publishers' = [publishers EXCEPT ![p].batch = batch, ![p].phase = phase]
  PROVE  /\ publishers'[p].phase = phase
         /\ OnlyMoves(p)
BY DEF TypeOK, ProcessTypeOK, PublisherState, OnlyMoves

\* What publishers have sent and announced stays so, and so does what another
\* one knows of its row.
LEMMA PlaceKept ==
  ASSUME TypeOK, PublishInv, RowsStay, StreamsGrow,
         announced \subseteq announced'
  PROVE  /\ \A i \in published : i \in announced' /\ Sent(i)'
         /\ \A q \in Publishers : publishers'[q] = publishers[q] => InPlace(q)'
<1>1. \A i \in DOMAIN outbox : Sent(i) => Sent(i)'
  BY StillSent
<1>2. \A i \in published : i \in announced' /\ Sent(i)'
  BY <1>1 DEF PublishInv, PublishedWasSent, TypeOK, StoreTypeOK
<1>3. ASSUME NEW q \in Publishers, publishers'[q] = publishers[q]
      PROVE  InPlace(q)'
  <2> DEFINE i == Current(q)
  <2>1. /\ Busy(q)' = Busy(q) /\ i' = i
        /\ \A phase : Phase(q, phase)' = Phase(q, phase)
    BY <1>3 DEF Busy, Current, Phase
  <2>2. Busy(q) => i \in DOMAIN outbox
    BY CurrentRow
  <2>3. /\ ~Busy(q) => publishers[q].phase = "send"
        /\ Phase(q, "announce") => Sent(i)
        /\ Phase(q, "mark") => i \in announced /\ Sent(i)
    BY DEF PublishInv, SentBeforeMarked, InPlace
  <2>4. Busy(q) /\ Sent(i) => Sent(i)'
    BY <1>1, <2>1, <2>2 DEF Sent
  <2> QED
    BY <1>3, <2>1, <2>3, <2>4 DEF InPlace, Phase
<1> QED
  BY <1>2, <1>3

\* Route leaves a message on the stream of its event.
LEMMA RouteSends ==
  ASSUME TypeOK, NEW p \in Publishers, Route(p)
  PROVE  StreamsGrow /\ Sent(Current(p))'
<1> DEFINE i == Current(p)
           e == outbox[i]
<1>1. Busy(p) /\ UNCHANGED <<outbox, prefs, itins>>
  BY DEF Route, Phase, dbVars
<1>2. i \in DOMAIN outbox /\ e \in EventRow
  BY <1>1, CurrentRow
<1>3. e.turn \in Nat /\ e.cv \in Nat /\ e.pref \in Nat /\ ConfirmedItinerary \in Nat
  BY <1>2, RowNumbers DEF EventRow
<1>4. publishers'[p].batch = publishers[p].batch
  BY NextPhase DEF Route
<1>5. i' = i /\ outbox'[i'] = e
  BY <1>1, <1>4 DEF Current
<1>6. CASE e.type = "turn.finalized"
  <2> DEFINE k == BuildPacket(e.turn, e.cv, e.pref)
  <2>1. XAdd("plan", k)
    BY <1>6 DEF Route
  <2>2. k \in Packet /\ k.turn = e.turn
    BY <1>3 DEF BuildPacket, Packet
  <2> HIDE DEF k, i
  <2>3. StreamsGrow /\ \E j \in DOMAIN stream'.plan : stream'.plan[j] = k
    BY <2>1, <2>2, XAddSends DEF StreamNames
  <2> QED
    BY <1>5, <1>6, <2>2, <2>3 DEF Sent, i
<1>7. CASE e.type = "task.queued"
  <2> DEFINE t == Head(e.ref)
  <2>1. XAdd("tasks", t)
    BY <1>7 DEF Route
  <2>2. t \in DOMAIN tasks
    BY <1>2, <1>7 DEF TypeOK, ReferencesOK, QueuedNamesTask
  <2>3. t \in Nat
    BY <2>2, RowNumbers
  <2> HIDE DEF t, i
  <2>4. StreamsGrow /\ \E j \in DOMAIN stream'.tasks : stream'.tasks[j] = t
    BY <2>1, <2>3, XAddSends DEF StreamNames
  <2> QED
    BY <1>5, <1>7, <2>4 DEF Sent, i, t
<1>8. CASE e.type = "task.succeeded"
  <2> DEFINE k == [turn |-> e.turn, cv |-> e.cv, pref |-> 0, itin |-> 0]
  <2>1. XAdd("compose", k)
    BY <1>8 DEF Route
  <2>2. k \in Packet /\ k.turn = e.turn
    BY <1>3 DEF Packet
  <2> HIDE DEF k, i
  <2>3. StreamsGrow /\ \E j \in DOMAIN stream'.compose : stream'.compose[j] = k
    BY <2>1, <2>2, XAddSends DEF StreamNames
  <2> QED
    BY <1>5, <1>8, <2>2, <2>3 DEF Sent, i
<1> QED
  BY <1>6, <1>7, <1>8 DEF Route, Routed

\* Every step of a publisher keeps the order of its calls: it marks a row it
\* has sent and announced, or none, and the others stay where they are.
LEMMA PublisherSends ==
  ASSUME TypeOK, PublishInv, RowsStay, NEW p \in Publishers,
         PublisherStep(p) \/ PublishFails(p) \/ PublisherCrash(p)
  PROVE  PublishInv'
<1>1. ASSUME StreamsGrow, announced \subseteq announced', OnlyMoves(p), InPlace(p)',
             \/ published' = published
             \/ Phase(p, "mark") /\ published' = published \cup {Current(p)}
      PROVE  PublishInv'
  <2>1. /\ \A i \in published : i \in announced' /\ Sent(i)'
        /\ \A q \in Publishers : publishers'[q] = publishers[q] => InPlace(q)'
    BY <1>1, PlaceKept
  <2>2. SentBeforeMarked'
    BY <1>1, <2>1 DEF SentBeforeMarked, OnlyMoves
  <2>3. ASSUME Phase(p, "mark")
        PROVE  \A i : i = Current(p) => i \in announced' /\ Sent(i)'
    <3> TAKE i
    <3> HAVE i = Current(p)
    <3>1. Current(p) \in announced /\ Sent(Current(p)) /\ Current(p) \in DOMAIN outbox
      BY <2>3, CurrentRow DEF PublishInv, SentBeforeMarked, InPlace, Phase
    <3>2. i \in announced /\ Sent(i) /\ i \in DOMAIN outbox
      BY <3>1
    <3> QED
      BY <1>1, <3>2, StillSent
  <2>4. PublishedWasSent'
    BY <1>1, <2>1, <2>3 DEF PublishedWasSent
  <2> QED
    BY <2>2, <2>4 DEF PublishInv
<1>2. UNCHANGED stream => StreamsGrow
  BY DEF StreamsGrow, Extends
<1>3. announced \subseteq announced \cup {Current(p)}
  OBVIOUS
<1>4. CASE FetchPending(p)
  <2>1. /\ UNCHANGED <<stream, announced, published>> /\ ~Busy(p)
        /\ \E b : publishers' = [publishers EXCEPT ![p].batch = b]
    BY <1>4 DEF FetchPending, storeVars, redisVars
  <2>2. publishers'[p].phase = "send" /\ OnlyMoves(p)
    <3>1. publishers[p].phase = "send"
      BY <2>1 DEF PublishInv, SentBeforeMarked, InPlace
    <3> QED
      BY <2>1, <3>1 DEF TypeOK, ProcessTypeOK, PublisherState, OnlyMoves
  <2>3. InPlace(p)'
    BY <2>2 DEF InPlace, Phase
  <2> QED
    BY <1>1, <1>2, <2>1, <2>2, <2>3
<1>5. CASE Route(p)
  <2>1. /\ UNCHANGED <<announced, published, outbox>> /\ Busy(p)
        /\ GoTo(p, "announce")
    BY <1>5 DEF Route, Phase, dbVars
  <2>2. StreamsGrow /\ Sent(Current(p))'
    BY <1>5, RouteSends
  <2>3. /\ publishers'[p].phase = "announce" /\ OnlyMoves(p)
        /\ publishers'[p].batch = publishers[p].batch
    BY <2>1, NextPhase
  <2>4. InPlace(p)'
    BY <2>1, <2>2, <2>3 DEF InPlace, Phase, Busy
  <2> QED
    BY <1>1, <2>1, <2>2, <2>3, <2>4
<1>6. CASE Announce(p)
  <2>1. /\ UNCHANGED <<stream, published, outbox>> /\ Busy(p)
        /\ announced' = announced \cup {Current(p)} /\ GoTo(p, "mark")
    BY <1>6 DEF Announce, Phase, dbVars
  <2>2. /\ publishers'[p].phase = "mark" /\ OnlyMoves(p)
        /\ publishers'[p].batch = publishers[p].batch
    BY <2>1, NextPhase
  <2>3. Current(p)' = Current(p) /\ Busy(p)' /\ Current(p) \in announced'
    BY <2>1, <2>2 DEF Current, Busy
  <2>4. Sent(Current(p))
    <3>1. CASE Phase(p, "announce")
      BY <3>1 DEF PublishInv, SentBeforeMarked, InPlace
    <3>2. CASE ~Routed(outbox[Current(p)])
      BY <3>2 DEF Sent, Routed
    <3> QED
      BY <1>6, <3>1, <3>2 DEF Announce
  <2>5. Sent(Current(p))'
    <3>1. Current(p) \in DOMAIN outbox
      BY <2>1, CurrentRow
    <3>2. StreamsGrow
      BY <1>2, <2>1
    <3> QED
      BY <2>1, <2>3, <2>4 DEF Sent
  <2>6. InPlace(p)'
    BY <2>2, <2>3, <2>5 DEF InPlace, Phase
  <2> QED
    BY <1>1, <1>2, <1>3, <2>1, <2>2, <2>6
\* The row is left: marked, skipped, or dropped with the process.
<1>7. ASSUME UNCHANGED <<stream, announced>>,
             \E b : publishers' = [publishers EXCEPT ![p].batch = b,
                                                     ![p].phase = "send"],
             \/ published' = published
             \/ Phase(p, "mark") /\ published' = published \cup {Current(p)}
      PROVE  PublishInv'
  <2>1. publishers'[p].phase = "send" /\ OnlyMoves(p)
    BY <1>7, NextPlace
  <2>2. InPlace(p)'
    BY <2>1 DEF InPlace, Phase
  <2> QED
    BY <1>1, <1>2, <1>7, <2>1, <2>2
<1>8. NextRow(p) => \E b : publishers' = [publishers EXCEPT ![p].batch = b,
                                                            ![p].phase = "send"]
  BY DEF NextRow
<1>9. CASE MarkPublished(p)
  BY <1>7, <1>8, <1>9 DEF MarkPublished, redisVars
<1>10. CASE PublishFails(p)
  BY <1>7, <1>8, <1>10 DEF PublishFails, redisVars
<1>11. CASE PublisherCrash(p)
  BY <1>7, <1>11 DEF PublisherCrash, redisVars
<1> QED
  BY <1>4, <1>5, <1>6, <1>9, <1>10, <1>11 DEF PublisherStep

\* Nobody else sends, announces or marks an event.
LEMMA OthersPublishNothing ==
  ASSUME [Next]_vars,
         ~(\E p \in Publishers :
             PublisherStep(p) \/ PublishFails(p) \/ PublisherCrash(p))
  PROVE  UNCHANGED <<published, stream, announced, publishers>>
<1>1. \A r \in Requests : GatewayStep(r) => UNCHANGED <<published, stream, announced>>
  BY DEF GatewayStep, Receive, FinalizeTurn, UpdatePreferences,
         RegisterInterrupt, WriteCancelKeys, UniqueViolation, Accept,
         storeVars, redisVars
<1>2. \A a \in Agents : AgentStep(a) \/ AgentCrash(a) =>
        UNCHANGED <<published, stream, announced>>
  BY DEF AgentStep, AgentCrash, ReadStreams, CreateTasks, ComposeNothing,
         ComposeReply, ComposeConflict, RebuildPacket, storeVars, redisVars
<1>3. \A w \in Workers : WorkerStep(w) \/ Raise(w) \/ WorkerCrash(w) =>
        UNCHANGED <<published, stream, announced>>
  BY DEF WorkerStep, Raise, WorkerCrash, ReceiveTask, StartTask, CheckCancelled,
         LoadToMark, MarkCancelled, Execute, LoadToCommit, CommitResult,
         LoadToFail, RecordFailure, Load, Settle, storeVars, redisVars
<1>4. CASE UNCHANGED vars
  BY <1>4 DEF vars, storeVars, redisVars, processVars
<1>5. CASE Next
  BY <1>1, <1>2, <1>3, <1>5 DEF Next, HandleRequest, Publish, RunAgent,
     RunWorker, GoWrong, ConfirmByHand, redisVars, processVars
<1> QED
  BY <1>4, <1>5

\* Every step of the system keeps the order of the publishers' calls.
LEMMA StepSends ==
  ASSUME TypeOK, PublishInv, [Next]_vars
  PROVE  PublishInv'
<1>1. RowsStay
  BY RowsAlwaysStay
<1>2. CASE \E p \in Publishers :
             PublisherStep(p) \/ PublishFails(p) \/ PublisherCrash(p)
  BY <1>1, <1>2, PublisherSends
<1>3. CASE UNCHANGED <<published, stream, announced, publishers>>
  <2>1. StreamsGrow /\ announced \subseteq announced'
    BY <1>3 DEF StreamsGrow, Extends
  <2> QED
    BY <1>1, <1>3, <2>1, PlaceKept DEF PublishInv, PublishedWasSent,
       SentBeforeMarked
<1> QED
  BY <1>2, <1>3, OthersPublishNothing

\* An event is marked published only after it reached its stream and
\* session.events, whichever call failed or process died in between.
THEOREM PublishedIsSent == Spec => []PublishedWasSent
<1>1. Init => PublishInv
  BY DEF Init, StoreInit, PublisherInit, PublishInv, PublishedWasSent,
         SentBeforeMarked, InPlace, Busy, Phase
<1>2. TypeOK /\ PublishInv /\ [Next]_vars => PublishInv'
  BY StepSends
<1>3. PublishInv => PublishedWasSent
  BY DEF PublishInv
<1> QED
  BY <1>1, <1>2, <1>3, TypeCorrect, PTL DEF Spec

-----------------------------------------------------------------------------
(* Keys: what a row of the log says of the other rows.                     *)

\* A result that was given up is not accepted again: its tool call is over.
GivenUp(t) ==
  /\ t \in DOMAIN tasks /\ tasks[t].status # "succeeded"
  /\ tasks[t].tool \in {"discarded", "succeeded"}

\* A task is interrupted once: in its own context, which that ends.
Interrupted(t) == t \in DOMAIN tasks /\ tasks[t].cv < session.cv

\* The same of the state after a step, about a task that step names.
GivenUpThen(t) ==
  /\ t \in DOMAIN tasks' /\ tasks'[t].status # "succeeded"
  /\ tasks'[t].tool \in {"discarded", "succeeded"}

InterruptedThen(t) == t \in DOMAIN tasks' /\ tasks'[t].cv < session'.cv

RowHolds(e) ==
  /\ e.type = "task.cancel_requested" => Interrupted(Head(e.ref))
  /\ e.type = "task.result.discarded" => GivenUp(Head(e.ref))
  /\ e.type = "itinerary.confirmed"   => Logged("agent.reply.created", e.ref)
  /\ e.type = "preference.updated"    => Head(e.ref) \in prefs[ActivePref]

KeysInv == LogKeysUnique /\ \A i \in DOMAIN outbox : RowHolds(outbox[i])

\* Keys that are neither in the log nor twice among the new events.
Fresh(events) ==
  /\ \A i \in 1..Len(events) : ~Logged(events[i].type, events[i].ref)
  /\ \A i, j \in 1..Len(events) :
       events[i].type = events[j].type /\ events[i].ref = events[j].ref => i = j

\* What a transaction's events say holds when it commits.
Truthful(events) ==
  \A i \in 1..Len(events) :
    LET e == events[i]
    IN /\ e.type = "task.cancel_requested" => InterruptedThen(Head(e.ref))
       /\ e.type = "task.result.discarded" => GivenUpThen(Head(e.ref))
       /\ e.type = "itinerary.confirmed"   =>
            \E j \in 1..Len(events) : /\ events[j].type = "agent.reply.created"
                                      /\ events[j].ref = e.ref
       /\ e.type = "preference.updated"    => Head(e.ref) \in (prefs[ActivePref])'

KeysStep ==
  \/ UNCHANGED <<session, outbox>>
  \/ \E events \in Seq(EventRow), cv \in Nat :
       Emit(events, cv) /\ Fresh(events) /\ Truthful(events)

\* What the log says of tasks and preferences stays true.
StaysTrue ==
  /\ \A t : Interrupted(t) => Interrupted(t)'
  /\ \A t : GivenUp(t) => GivenUp(t)'
  /\ prefs[ActivePref] \subseteq (prefs[ActivePref])'

\* The rows a transaction appends.
LEMMA EmittedRows ==
  ASSUME TypeOK, NEW events \in Seq(EventRow), NEW cv \in Nat, Emit(events, cv)
  PROVE  /\ Len(events) \in Nat /\ Grows(Len(events)) /\ RowsStay
         /\ \A i \in 1..Len(events) :
              /\ Len(outbox) + i \in DOMAIN outbox'
              /\ outbox'[Len(outbox) + i].type = events[i].type
              /\ outbox'[Len(outbox) + i].ref = events[i].ref
              /\ outbox'[Len(outbox) + i].turn = events[i].turn
              /\ outbox'[Len(outbox) + i].cv = events[i].cv
<1>1. session \in [cv : Nat, seq : Nat] /\ outbox \in Seq(EventRow)
      /\ Len(outbox) \in Nat /\ DOMAIN outbox = 1..Len(outbox)
  BY RowNumbers DEF TypeOK, StoreTypeOK
<1>2. Len(events) \in Nat /\ session.seq \in Nat
  BY <1>1, LenProperties
<1>3. /\ DOMAIN outbox' = 1..(Len(outbox) + Len(events))
      /\ \A i \in 1..Len(outbox) : outbox'[i] = outbox[i]
      /\ \A i \in 1..Len(events) : outbox'[Len(outbox) + i] =
           [events[i] EXCEPT !.seq = session.seq + i]
  BY <1>1, EmitLog
<1>4. Grows(Len(events))
  BY EmitGrows
<1>5. ASSUME NEW i \in 1..Len(events)
      PROVE  /\ Len(outbox) + i \in DOMAIN outbox'
             /\ outbox'[Len(outbox) + i].type = events[i].type
             /\ outbox'[Len(outbox) + i].ref = events[i].ref
             /\ outbox'[Len(outbox) + i].turn = events[i].turn
             /\ outbox'[Len(outbox) + i].cv = events[i].cv
  <2>1. events[i] \in EventRow /\ Len(outbox) + i \in DOMAIN outbox'
    BY <1>1, <1>2, <1>3, ElementOfSeq
  <2>2. outbox'[Len(outbox) + i] = [events[i] EXCEPT !.seq = session.seq + i]
    BY <1>3
  <2> QED
    BY <2>1, <2>2 DEF EventRow
<1>6. RowsStay
  BY <1>1, <1>2, <1>3 DEF RowsStay
<1> QED
  BY <1>2, <1>4, <1>5, <1>6

\* A step that only appends true rows with fresh keys keeps the invariant.
LEMMA KeysKept ==
  ASSUME TypeOK, KeysInv, StaysTrue, KeysStep
  PROVE  KeysInv'
<1>1. Len(outbox) \in Nat /\ DOMAIN outbox = 1..Len(outbox)
  BY RowNumbers
\* An old row still holds.
<1>2. ASSUME RowsStay, NEW i \in DOMAIN outbox
      PROVE  RowHolds(outbox[i])'
  <2>1. outbox'[i] = outbox[i] /\ RowHolds(outbox[i])
    BY <1>2 DEF RowsStay, KeysInv
  <2>2. \A type, ref : Logged(type, ref) => Logged(type, ref)'
    BY <1>2 DEF RowsStay, Logged
  <2> QED
    BY <2>1, <2>2 DEF RowHolds, StaysTrue
<1>3. CASE UNCHANGED <<session, outbox>>
  <2>1. RowsStay
    BY <1>3 DEF RowsStay
  <2> QED
    BY <1>2, <1>3, <2>1 DEF KeysInv, LogKeysUnique
<1>4. ASSUME NEW events \in Seq(EventRow), NEW cv \in Nat, Emit(events, cv),
             Fresh(events), Truthful(events)
      PROVE  KeysInv'
  <2>1. /\ Len(events) \in Nat /\ Grows(Len(events)) /\ RowsStay
        /\ \A i \in 1..Len(events) :
             /\ Len(outbox) + i \in DOMAIN outbox'
             /\ outbox'[Len(outbox) + i].type = events[i].type
             /\ outbox'[Len(outbox) + i].ref = events[i].ref
    BY <1>4, EmittedRows
  <2>2. ASSUME NEW i \in DOMAIN outbox', i \notin DOMAIN outbox
        PROVE  \E k \in 1..Len(events) : /\ i = Len(outbox) + k
                                         /\ outbox'[i].type = events[k].type
                                         /\ outbox'[i].ref = events[k].ref
    <3>1. i - Len(outbox) \in 1..Len(events) /\ i = Len(outbox) + (i - Len(outbox))
      BY <1>1, <2>1, <2>2 DEF Grows
    <3> QED
      BY <2>1, <3>1
  <2>3. ASSUME NEW i \in DOMAIN outbox'
        PROVE  RowHolds(outbox[i])'
    <3>1. CASE i \in DOMAIN outbox
      BY <1>2, <2>1, <3>1
    <3>2. CASE i \notin DOMAIN outbox
      <4>1. PICK k \in 1..Len(events) : /\ outbox'[i].type = events[k].type
                                        /\ outbox'[i].ref = events[k].ref
        BY <2>2, <3>2
      <4>2. \A type, ref : (\E j \in 1..Len(events) :
              events[j].type = type /\ events[j].ref = ref) => Logged(type, ref)'
        BY <2>1 DEF Logged
      <4> QED
        BY <1>4, <4>1, <4>2 DEF Truthful, RowHolds, Interrupted, GivenUp,
           InterruptedThen, GivenUpThen
    <3> QED
      BY <3>1, <3>2
  <2>4. LogKeysUnique'
    <3> SUFFICES ASSUME NEW i \in DOMAIN outbox', NEW j \in DOMAIN outbox',
                        outbox'[i].type = outbox'[j].type,
                        outbox'[i].ref = outbox'[j].ref
                 PROVE  i = j
      BY DEF LogKeysUnique
    <3>1. CASE i \in DOMAIN outbox /\ j \in DOMAIN outbox
      BY <2>1, <3>1 DEF RowsStay, KeysInv, LogKeysUnique
    <3>2. ASSUME NEW m \in DOMAIN outbox, NEW n \in DOMAIN outbox', n \notin DOMAIN outbox,
                 outbox'[m].type = outbox'[n].type, outbox'[m].ref = outbox'[n].ref
          PROVE  FALSE
      <4>1. PICK k \in 1..Len(events) : /\ outbox'[n].type = events[k].type
                                        /\ outbox'[n].ref = events[k].ref
        BY <2>2, <3>2
      <4>2. outbox[m].type = events[k].type /\ outbox[m].ref = events[k].ref
        BY <2>1, <3>2, <4>1 DEF RowsStay
      <4> QED
        BY <1>4, <4>2 DEF Fresh, Logged
    <3>3. CASE i \notin DOMAIN outbox /\ j \notin DOMAIN outbox
      BY <1>4, <2>2, <3>3 DEF Fresh
    <3> QED
      BY <3>1, <3>2, <3>3
  <2> QED
    BY <2>3, <2>4 DEF KeysInv
<1> QED
  BY <1>3, <1>4 DEF KeysStep

\* A version of the preferences holds every patch of the version before.
LEMMA PatchesStay ==
  ASSUME TypeOK, [Next]_vars
  PROVE  prefs[ActivePref] \subseteq (prefs[ActivePref])'
<1>1. CASE UNCHANGED prefs
  BY <1>1 DEF ActivePref
<1>2. ASSUME NEW r \in Requests, prefs' = Append(prefs, Merged(r))
      PROVE  prefs[ActivePref] \subseteq (prefs[ActivePref])'
  <2>1. prefs \in Seq(SUBSET ClientIds) /\ ActivePref \in DOMAIN prefs
        /\ ClientId[r] \in ClientIds
    BY RowNumbers, ClientIdAssumption DEF TypeOK, StoreTypeOK
  <2>2. Merged(r) \in SUBSET ClientIds
    BY <2>1, ElementOfSeq DEF Merged
  <2>3. Len(prefs') = Len(prefs) + 1 /\ prefs'[Len(prefs) + 1] = Merged(r)
    BY <1>2, <2>1, <2>2, AppendProperties
  <2> QED
    BY <2>3 DEF ActivePref, Merged
<1>3. \A r \in Requests : GatewayStep(r) =>
        UNCHANGED prefs \/ prefs' = Append(prefs, Merged(r))
  BY DEF GatewayStep, Receive, FinalizeTurn, UpdatePreferences,
         RegisterInterrupt, WriteCancelKeys, UniqueViolation, storeVars, dbVars
<1>4. \A p \in Publishers :
        PublisherStep(p) \/ PublishFails(p) \/ PublisherCrash(p) => UNCHANGED prefs
  BY DEF PublisherStep, PublishFails, PublisherCrash, FetchPending, Route,
         Announce, MarkPublished, storeVars, dbVars
<1>5. \A a \in Agents : AgentStep(a) \/ AgentCrash(a) => UNCHANGED prefs
  BY DEF AgentStep, AgentCrash, ReadStreams, CreateTasks, ComposeNothing,
         ComposeReply, ComposeConflict, RebuildPacket, storeVars, dbVars
<1>6. \A w \in Workers : WorkerStep(w) \/ Raise(w) \/ WorkerCrash(w) =>
        UNCHANGED prefs
  BY DEF WorkerStep, Raise, WorkerCrash, ReceiveTask, StartTask, CheckCancelled,
         LoadToMark, MarkCancelled, Execute, LoadToCommit, CommitResult,
         LoadToFail, RecordFailure, Load, Settle, storeVars, dbVars
<1>7. CASE UNCHANGED vars
  BY <1>1, <1>7 DEF vars, storeVars, dbVars
<1>8. CASE Next
  BY <1>1, <1>2, <1>3, <1>4, <1>5, <1>6, <1>8 DEF Next, HandleRequest, Publish,
     RunAgent, RunWorker, GoWrong, ConfirmByHand
<1> QED
  BY <1>7, <1>8

\* A task that was interrupted or given up is so for ever.
LEMMA TasksStayTrue ==
  ASSUME TypeOK, TypeOK', ExecutionInv, [Next]_vars, NEW t
  PROVE  (Interrupted(t) => Interrupted(t)') /\ (GivenUp(t) => GivenUp(t)')
<1>1. session.cv \in Nat /\ session'.cv \in Nat
  BY DEF TypeOK, StoreTypeOK
<1>2. \A u \in DOMAIN tasks : tasks[u].cv \in Nat
  BY TaskRow
<1>3. CASE Rewrites
  BY <1>1, <1>2, <1>3 DEF Rewrites, SamePlan, Interrupted, GivenUp
<1>4. CASE Plans
  <2>1. /\ session'.cv = session.cv
        /\ \A u \in DOMAIN tasks : u \in DOMAIN tasks' /\ tasks'[u] = tasks[u]
    BY <1>4, PlannedRow, RowNumbers
  <2> QED
    BY <2>1 DEF Interrupted, GivenUp
<1>5. ASSUME NEW u \in DOMAIN tasks, NEW status, NEW tool,
             SettledAs(u, status, tool),
             GivenUp(u) => status # "succeeded" /\ tool \in {"discarded", "succeeded"}
      PROVE  (Interrupted(t) => Interrupted(t)') /\ (GivenUp(t) => GivenUp(t)')
  <2>1. CASE t = u
    BY <1>5, <2>1 DEF SettledAs, SamePlan, Interrupted, GivenUp
  <2>2. CASE t # u
    BY <1>5, <2>2 DEF SettledAs, Interrupted, GivenUp
  <2> QED
    BY <2>1, <2>2
<1>6. ASSUME NEW w \in Workers, Moves(w) \/ Starts(w) \/ Cancels(w) \/ Ends(w)
      PROVE  (Interrupted(t) => Interrupted(t)') /\ (GivenUp(t) => GivenUp(t)')
  <2> DEFINE u == workers[w].task
  <2>1. ~On(w, "idle") => u \in DOMAIN tasks
    BY TaskInHand
  <2>2. CASE Moves(w)
    BY <2>2 DEF Moves, Interrupted, GivenUp
  <2>3. CASE Starts(w)
    BY <1>5, <2>1, <2>3 DEF Starts, GivenUp
  <2>4. CASE Cancels(w)
    BY <1>5, <2>1, <2>4 DEF Cancels, GivenUp
  <2>5. CASE Ends(w)
    <3>1. ~On(w, "idle") /\ tasks[u].tool = "running"
      BY <2>5 DEF Ends, Executing, On, ExecutionInv, ExecutorsRun
    <3> QED
      BY <1>5, <2>1, <2>5, <3>1 DEF Ends, GivenUp
  <2> QED
    BY <1>6, <2>2, <2>3, <2>4, <2>5
<1> QED
  BY <1>3, <1>4, <1>6, TaskSteps

\* Every step leaves what the log says true.
LEMMA StepStaysTrue ==
  ASSUME TypeOK, TypeOK', ExecutionInv, [Next]_vars
  PROVE  StaysTrue
BY TasksStayTrue, PatchesStay DEF StaysTrue

-----------------------------------------------------------------------------
(* Keys: every transaction writes fresh ones.                              *)

\* One event for each of some tasks, none of which has one of this type yet.
LEMMA PerTaskFresh ==
  ASSUME TypeOK, NEW ids, ids \subseteq DOMAIN tasks,
         NEW order \in SetToSeqs(ids), NEW type \in EventTypes,
         NEW n \in Nat, NEW cv \in Nat,
         \A t \in ids : ~Logged(type, <<t>>)
  PROVE  LET events == EventPerTask(type, order, n, cv)
         IN /\ events \in Seq(EventRow) /\ Fresh(events)
            /\ \A i \in 1..Len(events) :
                 /\ events[i].type = type
                 /\ \E t \in ids : events[i].ref = <<t>>
<1> DEFINE events == EventPerTask(type, order, n, cv)
<1>1. order \in Seq(Nat)
  BY OrderOfTasks
<1>2. /\ events \in Seq(EventRow)
      /\ \A i \in 1..Len(events) : events[i].type = type
  BY <1>1, EventPerTaskTypes
<1>3. /\ Len(order) \in Nat /\ Len(events) = Len(order)
      /\ \A i \in 1..Len(events) : events[i].ref = <<order[i]>>
  BY <1>1, LenProperties DEF EventPerTask, Event
<1>4. /\ \A i \in 1..Len(order) : order[i] \in ids
      /\ \A i, j \in 1..Len(order) : order[i] = order[j] => i = j
  <2>1. IsFiniteSet(ids)
    BY TaskSetFinite
  <2>2. /\ order \in [1..Cardinality(ids) -> ids]
        /\ \A i, j \in 1..Cardinality(ids) : i # j => order[i] # order[j]
    BY DEF SetToSeqs
  <2>3. Cardinality(ids) \in Nat
    BY <2>1, FS_CardinalityType
  <2>4. Len(order) = Cardinality(ids)
    BY <1>1, <2>2, <2>3, LenProperties
  <2> QED
    BY <2>2, <2>4
<1>5. \A s, t : <<s>> = <<t>> => s = t
  OBVIOUS
<1> HIDE DEF events
<1>6. Fresh(events)
  <2>1. ASSUME NEW i \in 1..Len(events)
        PROVE  ~Logged(events[i].type, events[i].ref)
    <3>1. order[i] \in ids
      BY <1>3, <1>4
    <3>2. events[i].type = type /\ events[i].ref = <<order[i]>>
      BY <1>2, <1>3
    <3> QED
      BY <3>1, <3>2
  <2>2. ASSUME NEW i \in 1..Len(events), NEW j \in 1..Len(events),
               events[i].ref = events[j].ref
        PROVE  i = j
    <3>1. order[i] = order[j]
      BY <1>3, <1>5, <2>2
    <3> QED
      BY <1>3, <1>4, <3>1
  <2> QED
    BY <2>1, <2>2 DEF Fresh
<1> QED
  BY <1>2, <1>3, <1>4, <1>6 DEF events

\* No event is fresh, and one alone is when its key is not in the log.
LEMMA SingleFresh ==
  ASSUME NEW e, ~Logged(e.type, e.ref)
  PROVE  Fresh(<<e>>)
BY DEF Fresh

\* An event of another type, with a key of its own, can follow.
LEMMA AppendFresh ==
  ASSUME NEW events \in Seq(EventRow), NEW own \in EventRow, Fresh(events),
         ~Logged(own.type, own.ref),
         \A i \in 1..Len(events) : events[i].type # own.type
  PROVE  Fresh(Append(events, own))
<1> DEFINE all == Append(events, own)
<1>1. /\ Len(events) \in Nat /\ Len(all) = Len(events) + 1
      /\ \A i \in 1..(Len(events) + 1) :
           all[i] = IF i = Len(events) + 1 THEN own ELSE events[i]
  BY AppendProperties, LenProperties
<1> HIDE DEF all
<1>2. \A i \in 1..Len(all) : i \in 1..Len(events) \/ i = Len(events) + 1
  BY <1>1
<1> QED
  BY <1>1, <1>2 DEF Fresh, all

\* A handler that accepts a request writes a key that was not taken, after
\* fresh ones of other types.
LEMMA AcceptKeys ==
  ASSUME TypeOK, NEW r \in Requests, NEW events \in Seq(EventRow),
         NEW ids \in SUBSET Nat, Accept(r, events, ids), Fresh(events),
         \A i \in 1..Len(events) :
           /\ events[i].type = "task.cancel_requested"
           /\ InterruptedThen(Head(events[i].ref)),
         Kind[r] = "preference" => ClientId[r] \in (prefs[ActivePref])'
  PROVE  KeysStep
<1> DEFINE n    == IF Kind[r] = "interrupt" THEN requests[r].arg
                   ELSE IF Kind[r] = "turn" THEN Len(turns) + 1 ELSE 0
           pref == IF Kind[r] = "preference" THEN ActivePref + 1
                   ELSE ActivePref
           own  == Event(Committed(r), <<ClientId[r]>>, n, session.cv + 1,
                         pref, ids)
           all  == Append(events, own)
<1>1. /\ Committed(r) \in EventTypes
      /\ Committed(r) \notin {"task.cancel_requested", "task.result.discarded",
                              "itinerary.confirmed"}
      /\ Committed(r) = "preference.updated" => Kind[r] = "preference"
  BY KindAssumption DEF Committed, EventTypes, ContextEvents
<1>2. <<ClientId[r]>> \in Seq(ClientIds \cup Nat) /\ Head(<<ClientId[r]>>) = ClientId[r]
  BY ClientIdAssumption, SingleReference
<1>3. n \in Nat /\ pref \in Nat /\ session.cv + 1 \in Nat
  BY RowNumbers DEF TypeOK, ProcessTypeOK, RequestState
<1>4. Emit(all, session.cv + 1) /\ ~Logged(Committed(r), <<ClientId[r]>>)
  BY DEF Accept, KeyTaken
<1> HIDE DEF n, pref
<1>5. own \in EventRow /\ own.type = Committed(r) /\ own.ref = <<ClientId[r]>>
  BY <1>1, <1>2, <1>3, EventType DEF Event
<1> HIDE DEF own
<1>6. /\ Fresh(all) /\ all \in Seq(EventRow) /\ Len(events) \in Nat
      /\ Len(all) = Len(events) + 1
      /\ \A i \in 1..(Len(events) + 1) :
           all[i] = IF i = Len(events) + 1 THEN own ELSE events[i]
  BY <1>1, <1>4, <1>5, AppendFresh, AppendProperties, LenProperties
<1> HIDE DEF all
<1>7. Truthful(all)
  <2> SUFFICES ASSUME NEW i \in 1..Len(all)
               PROVE  /\ all[i].type = "task.cancel_requested" =>
                           InterruptedThen(Head(all[i].ref))
                      /\ all[i].type # "task.result.discarded"
                      /\ all[i].type # "itinerary.confirmed"
                      /\ all[i].type = "preference.updated" =>
                           Head(all[i].ref) \in (prefs[ActivePref])'
    BY DEF Truthful
  <2>1. CASE i = Len(events) + 1
    BY <1>1, <1>2, <1>5, <1>6, <2>1
  <2>2. CASE i # Len(events) + 1
    <3>1. i \in 1..Len(events) /\ all[i] = events[i]
      BY <1>6, <2>2
    <3>2. all[i].type = "task.cancel_requested" /\ InterruptedThen(Head(all[i].ref))
      BY <3>1
    <3> QED
      BY <3>2
  <2> QED
    BY <2>1, <2>2
<1> QED
  BY <1>3, <1>4, <1>6, <1>7 DEF KeysStep

\* The handlers write fresh keys: an interrupt finds no task it cancels
\* cancelled before, for it is the first in their context.
LEMMA GatewayKeys ==
  ASSUME TypeOK, KeysInv, NEW r \in Requests, GatewayStep(r)
  PROVE  KeysStep
<1>1. UNCHANGED storeVars => KeysStep
  BY DEF storeVars, dbVars, KeysStep
<1>2. /\ <<>> \in Seq(EventRow) /\ {} \in SUBSET Nat /\ Fresh(<<>>)
      /\ \A i \in 1..Len(<<>>) : FALSE
  BY EmptySeq DEF Fresh
<1>3. Accept(r, <<>>, {}) /\ (Kind[r] = "preference" =>
         ClientId[r] \in (prefs[ActivePref])') => KeysStep
  BY <1>2, AcceptKeys
<1>4. CASE Receive(r)
  BY <1>1, <1>4 DEF Receive
<1>5. CASE FinalizeTurn(r)
  BY <1>1, <1>3, <1>5 DEF FinalizeTurn, UniqueViolation
<1>6. CASE UpdatePreferences(r)
  <2>1. ASSUME prefs' = Append(prefs, Merged(r))
        PROVE  ClientId[r] \in (prefs[ActivePref])'
    <3>1. prefs \in Seq(SUBSET ClientIds) /\ ActivePref \in DOMAIN prefs
          /\ ClientId[r] \in ClientIds
      BY RowNumbers, ClientIdAssumption DEF TypeOK, StoreTypeOK
    <3>2. Merged(r) \in SUBSET ClientIds
      BY <3>1, ElementOfSeq DEF Merged
    <3>3. Len(prefs') = Len(prefs) + 1 /\ prefs'[Len(prefs) + 1] = Merged(r)
      BY <2>1, <3>1, <3>2, AppendProperties
    <3> QED
      BY <3>3 DEF ActivePref, Merged
  <2> QED
    BY <1>1, <1>3, <1>6, <2>1 DEF UpdatePreferences, UniqueViolation
<1>7. CASE RegisterInterrupt(r)
  <2> DEFINE n   == requests[r].arg
             ids == Interruptible(n)
  <2>1. ASSUME NEW order \in SetToSeqs(ids), Kind[r] = "interrupt",
               Accept(r, EventPerTask("task.cancel_requested", order, n,
                                      session.cv), ids),
               tasks' = [t \in DOMAIN tasks |->
                 IF t \in ids
                 THEN [tasks[t] EXCEPT !.status = "cancel_requested"]
                 ELSE tasks[t]]
        PROVE  KeysStep
    <3> DEFINE events == EventPerTask("task.cancel_requested", order, n,
                                      session.cv)
    <3>1. ids \subseteq DOMAIN tasks /\ \A t \in ids : tasks[t].cv = session.cv
      BY DEF Interruptible
    <3>2. ids \in SUBSET Nat
      BY <3>1, TaskSetFinite
    <3>3. n \in Nat /\ session.cv \in Nat
      BY RowNumbers DEF TypeOK, ProcessTypeOK, RequestState
    <3>4. Accept(r, events, ids) /\ session'.cv = session.cv + 1
      BY <2>1, EmittedContext DEF Accept
    <3> HIDE DEF n, ids
    <3>5. \A t \in ids : ~Logged("task.cancel_requested", <<t>>)
      <4> SUFFICES ASSUME NEW t \in ids, NEW i \in DOMAIN outbox,
                          outbox[i].type = "task.cancel_requested",
                          outbox[i].ref = <<t>>
                   PROVE  FALSE
        BY DEF Logged
      <4>1. Interrupted(Head(outbox[i].ref)) /\ Head(outbox[i].ref) = t
        BY DEF KeysInv, RowHolds
      <4> QED
        BY <3>1, <3>3, <4>1 DEF Interrupted
    <3>6. "task.cancel_requested" \in EventTypes
      BY DEF EventTypes, OtherEvents
    <3>7. /\ events \in Seq(EventRow) /\ Fresh(events)
          /\ \A i \in 1..Len(events) :
               /\ events[i].type = "task.cancel_requested"
               /\ \E t \in ids : events[i].ref = <<t>>
      BY <3>1, <3>3, <3>5, <3>6, PerTaskFresh
    <3> HIDE DEF events
    <3>8. \A t \in ids : InterruptedThen(t)
      <4>1. /\ DOMAIN tasks' = DOMAIN tasks
            /\ \A t \in DOMAIN tasks : SamePlan(t)
        BY <2>1, NewStatus
      <4> QED
        BY <3>1, <3>3, <3>4, <4>1 DEF InterruptedThen, SamePlan
    <3>9. \A i \in 1..Len(events) :
            /\ events[i].type = "task.cancel_requested"
            /\ InterruptedThen(Head(events[i].ref))
      <4> TAKE i \in 1..Len(events)
      <4>1. PICK t \in ids : events[i].ref = <<t>>
        BY <3>7
      <4>2. Head(events[i].ref) = t
        BY <4>1
      <4> QED
        BY <3>7, <3>8, <4>2
    <3> QED
      BY <2>1, <3>2, <3>4, <3>7, <3>9, AcceptKeys
  <2> QED
    BY <1>1, <1>7, <2>1 DEF RegisterInterrupt, UniqueViolation
<1>8. CASE WriteCancelKeys(r)
  BY <1>8 DEF WriteCancelKeys, dbVars, KeysStep
<1> QED
  BY <1>4, <1>5, <1>6, <1>7, <1>8 DEF GatewayStep

\* An event about a task that is planned, started, cancelled, done or failed
\* says nothing but that; one about a result given up says so.
LEMMA TaskEventKeys ==
  ASSUME NEW events \in Seq(EventRow), NEW cv \in Nat, Emit(events, cv),
         Fresh(events),
         NEW type, type \notin {"task.cancel_requested", "itinerary.confirmed",
                               "preference.updated"},
         \A i \in 1..Len(events) :
           /\ events[i].type = type
           /\ type = "task.result.discarded" => GivenUpThen(Head(events[i].ref))
  PROVE  KeysStep
BY DEF Truthful, KeysStep

\* The planner writes a task's first event, the composer a turn's first reply
\* with its itinerary, or gives up results it finds accepted.
LEMMA AgentKeys ==
  ASSUME TypeOK, ExecutionInv, KeysInv, NEW a \in Agents,
         AgentStep(a) \/ AgentCrash(a)
  PROVE  KeysStep
<1>1. UNCHANGED dbVars => KeysStep
  BY DEF dbVars, KeysStep
<1>2. session.cv \in Nat /\ ActivePref \in Nat /\ Len(tasks) \in Nat
      /\ DOMAIN tasks = 1..Len(tasks)
  BY RowNumbers
<1>3. CASE ReadStreams(a)
  BY <1>1, <1>3 DEF ReadStreams
<1>4. CASE CreateTasks(a)
  <2> DEFINE k == InHand(a)
             e == Event("task.queued", <<NewTask>>, k.turn, k.cv, k.pref, {})
  <2>1. CASE UNCHANGED dbVars
    BY <1>1, <2>1
  <2>2. CASE Emit(<<e>>, session.cv)
    <3>1. k.turn \in Nat /\ k.cv \in Nat /\ k.pref \in Nat
      BY <1>4, MessageInHand DEF CreateTasks, Working, Packet
    <3> HIDE DEF k
    <3>2. /\ <<NewTask>> \in Seq(ClientIds \cup Nat) /\ Head(<<NewTask>>) = NewTask
          /\ "task.queued" \in EventTypes
      BY <1>2, SingleReference DEF NewTask, EventTypes, WorkEvents
    <3>3. e \in EventRow /\ e.type = "task.queued" /\ e.ref = <<NewTask>>
      BY <3>1, <3>2, EventType DEF Event
    <3>4. Emit(<<e>>, session.cv)
      BY <2>2
    <3> HIDE DEF e
    <3>5. ~Logged("task.queued", <<NewTask>>)
      <4> SUFFICES ASSUME NEW i \in DOMAIN outbox,
                          outbox[i].type = "task.queued",
                          outbox[i].ref = <<NewTask>>
                   PROVE  FALSE
        BY DEF Logged
      <4>1. Head(outbox[i].ref) \in DOMAIN tasks
        BY DEF TypeOK, ReferencesOK, QueuedNamesTask
      <4> QED
        BY <1>2, <3>2, <4>1 DEF NewTask
    <3>6. Fresh(<<e>>) /\ <<e>> \in Seq(EventRow)
      BY <3>3, <3>5, SingleFresh
    <3>7. \A i \in 1..Len(<<e>>) : <<e>>[i].type = "task.queued"
      BY <3>3
    <3> QED
      BY <1>2, <3>4, <3>6, <3>7, TaskEventKeys
  <2> QED
    BY <1>4, <2>1, <2>2 DEF CreateTasks
<1>5. CASE ComposeNothing(a)
  BY <1>1, <1>5 DEF ComposeNothing, storeVars
<1>6. CASE ComposeReply(a)
  <2> DEFINE n       == InHand(a).turn
             cv      == InHand(a).cv
             sources == Ready(n, cv)
             e1 == Event("itinerary.confirmed", <<n, cv>>, n, cv, ActivePref,
                         sources)
             e2 == Event("agent.reply.created", <<n, cv>>, n, cv, ActivePref,
                         sources)
             events == <<e1, e2>>
  <2>1. agents[a] # <<>> /\ ~Replied(n, cv) /\ Emit(<<e1, e2>>, session.cv)
    BY <1>6 DEF ComposeReply, Working, Composable
  <2>2. n \in Nat /\ cv \in Nat
    BY <2>1, MessageInHand
  <2>3. sources \subseteq DOMAIN tasks
    BY DEF Ready
  <2>4. sources \in SUBSET Nat
    BY <2>3, TaskSetFinite
  <2> HIDE DEF n, cv, sources
  <2>5. /\ "itinerary.confirmed" \in EventTypes
        /\ "agent.reply.created" \in EventTypes
        /\ <<n, cv>> \in Seq(ClientIds \cup Nat)
    BY <2>2 DEF EventTypes, WorkEvents
  <2>6. /\ e1 \in EventRow /\ e1.type = "itinerary.confirmed" /\ e1.ref = <<n, cv>>
        /\ e2 \in EventRow /\ e2.type = "agent.reply.created" /\ e2.ref = <<n, cv>>
    BY <1>2, <2>2, <2>4, <2>5, EventType DEF Event
  <2>7. Emit(events, session.cv)
    BY <2>1
  <2> HIDE DEF e1, e2
  <2>8. /\ events \in Seq(EventRow) /\ Len(events) = 2
        /\ events[1] = e1 /\ events[2] = e2
    BY <2>6
  <2> HIDE DEF events
  <2>9. ~Logged("agent.reply.created", <<n, cv>>)
    BY <2>1 DEF Replied
  <2>10. ~Logged("itinerary.confirmed", <<n, cv>>)
    <3> SUFFICES ASSUME NEW i \in DOMAIN outbox,
                        outbox[i].type = "itinerary.confirmed",
                        outbox[i].ref = <<n, cv>>
                 PROVE  FALSE
      BY DEF Logged
    <3>1. Logged("agent.reply.created", outbox[i].ref)
      BY DEF KeysInv, RowHolds
    <3> QED
      BY <2>9, <3>1
  <2>11. \A i \in 1..Len(events) : i = 1 \/ i = 2
    BY <2>8
  <2>12. Fresh(events)
    BY <2>6, <2>8, <2>9, <2>10, <2>11 DEF Fresh
  <2>13. Truthful(events)
    BY <2>6, <2>8, <2>11 DEF Truthful
  <2> QED
    BY <1>2, <2>7, <2>8, <2>12, <2>13 DEF KeysStep
<1>7. CASE ComposeConflict(a)
  <2> DEFINE n     == InHand(a).turn
             cv    == InHand(a).cv
             stale == Ready(n, cv)
  <2>1. /\ agents[a] # <<>>
        /\ tasks' = [t \in DOMAIN tasks |-> IF t \in stale
                       THEN [tasks[t] EXCEPT !.status = "discarded"]
                       ELSE tasks[t]]
        /\ \E order \in SetToSeqs(stale) :
             Emit(EventPerTask("task.result.discarded", order, n, cv), session.cv)
    BY <1>7 DEF ComposeConflict, Working
  <2>2. n \in Nat /\ cv \in Nat
    BY <2>1, MessageInHand
  <2>3. stale \subseteq DOMAIN tasks /\ \A t \in stale : tasks[t].status = "succeeded"
    BY DEF Ready
  <2> HIDE DEF n, cv, stale
  <2>4. PICK order \in SetToSeqs(stale) :
          Emit(EventPerTask("task.result.discarded", order, n, cv), session.cv)
    BY <2>1
  <2> DEFINE events == EventPerTask("task.result.discarded", order, n, cv)
  <2>5. \A t \in stale : ~Logged("task.result.discarded", <<t>>)
    <3> SUFFICES ASSUME NEW t \in stale, NEW i \in DOMAIN outbox,
                        outbox[i].type = "task.result.discarded",
                        outbox[i].ref = <<t>>
                 PROVE  FALSE
      BY DEF Logged
    <3>1. GivenUp(Head(outbox[i].ref)) /\ Head(outbox[i].ref) = t
      BY DEF KeysInv, RowHolds
    <3> QED
      BY <2>3, <3>1 DEF GivenUp
  <2>6. "task.result.discarded" \in EventTypes
    BY DEF EventTypes, OtherEvents
  <2>7. /\ events \in Seq(EventRow) /\ Fresh(events)
        /\ \A i \in 1..Len(events) :
             /\ events[i].type = "task.result.discarded"
             /\ \E t \in stale : events[i].ref = <<t>>
    BY <2>2, <2>3, <2>5, <2>6, PerTaskFresh, SMTT(60)
  <2>8. Emit(events, session.cv)
    BY <2>4
  <2> HIDE DEF events
  <2>9. \A t \in stale : GivenUpThen(t)
    <3>1. /\ DOMAIN tasks' = DOMAIN tasks
          /\ \A t \in DOMAIN tasks :
               /\ tasks'[t].tool = tasks[t].tool
               /\ tasks'[t].status = IF t \in stale THEN "discarded"
                                     ELSE tasks[t].status
      BY <2>1, NewStatus
    <3>2. \A t \in stale : tasks[t].tool = "succeeded"
      BY <2>3 DEF ExecutionInv, SucceededRan
    <3> QED
      BY <2>3, <3>1, <3>2 DEF GivenUpThen
  <2>10. \A i \in 1..Len(events) :
           /\ events[i].type = "task.result.discarded"
           /\ GivenUpThen(Head(events[i].ref))
    <3> TAKE i \in 1..Len(events)
    <3>1. PICK t \in stale : events[i].ref = <<t>>
      BY <2>7
    <3>2. Head(events[i].ref) = t
      BY <3>1
    <3> QED
      BY <2>7, <2>9, <3>2
  <2> QED
    BY <1>2, <2>7, <2>8, <2>10, TaskEventKeys
<1>8. CASE RebuildPacket(a)
  BY <1>1, <1>8 DEF RebuildPacket, storeVars
<1>9. CASE AgentCrash(a)
  BY <1>1, <1>9 DEF AgentCrash
<1> QED
  BY <1>3, <1>4, <1>5, <1>6, <1>7, <1>8, <1>9 DEF AgentStep

\* A worker's transaction writes an event at most once for each task.
LEMMA SettleKeys ==
  ASSUME TypeOK, NEW t \in DOMAIN tasks, NEW status, NEW tool,
         NEW type \in {"task.running", "task.cancelled", "task.succeeded",
                       "task.failed", "task.result.discarded"},
         type = "task.result.discarded" =>
           status = "discarded" /\ tool = "discarded",
         Settle(t, status, tool, type)
  PROVE  KeysStep
<1> DEFINE e == Event(type, <<t>>, tasks[t].turn, tasks[t].cv, tasks[t].pref, {})
<1>1. type \in EventTypes /\ type # "task.queued" /\ session.cv \in Nat
      /\ type \notin {"task.cancel_requested", "itinerary.confirmed",
                      "preference.updated"}
  BY RowNumbers DEF EventTypes, OtherEvents, WorkEvents
<1>2. TaskEvent(type, t) \in Seq(EventRow)
  BY <1>1, TaskEventTypes
<1>3. TaskEvent(type, t) = IF Logged(type, <<t>>) THEN <<>> ELSE <<e>>
  BY DEF TaskEvent, Unless
<1>4. Emit(TaskEvent(type, t), session.cv) /\ SettledAs(t, status, tool)
  BY SettleRows DEF Settle
<1>5. type = "task.result.discarded" => GivenUpThen(t)
  BY <1>4 DEF SettledAs, GivenUpThen
<1>6. e.type = type /\ e.ref = <<t>> /\ Head(<<t>>) = t
  BY DEF Event
<1> DEFINE events == TaskEvent(type, t)
<1> HIDE DEF e
<1>7. CASE events = <<>>
  <2>1. Fresh(events) /\ \A i \in 1..Len(events) : FALSE
    BY <1>7 DEF Fresh
  <2> QED
    BY <1>1, <1>2, <1>4, <2>1, TaskEventKeys
<1>8. CASE events = <<e>> /\ ~Logged(type, <<t>>)
  <2>1. Fresh(events)
    BY <1>6, <1>8, SingleFresh
  <2>2. \A i \in 1..Len(events) : events[i].type = type /\ events[i].ref = <<t>>
    BY <1>6, <1>8
  <2> QED
    BY <1>1, <1>2, <1>4, <1>5, <1>6, <2>1, <2>2, TaskEventKeys
<1> QED
  BY <1>3, <1>7, <1>8

\* Every step of a worker writes a fresh key, or none.
LEMMA WorkerKeys ==
  ASSUME TypeOK, NEW w \in Workers,
         WorkerStep(w) \/ Raise(w) \/ WorkerCrash(w)
  PROVE  KeysStep
<1> DEFINE t == workers[w].task
<1>1. UNCHANGED dbVars => KeysStep
  BY DEF dbVars, KeysStep
<1>2. UNCHANGED storeVars => KeysStep
  BY <1>1 DEF storeVars
<1>3. ~On(w, "idle") => t \in DOMAIN tasks
  BY TaskInHand
<1>4. ASSUME ~On(w, "idle"), NEW status, NEW tool,
             NEW type \in {"task.running", "task.cancelled", "task.succeeded",
                           "task.failed"},
             Settle(t, status, tool, type)
      PROVE  KeysStep
  <2> HIDE DEF t
  <2> QED
    BY <1>3, <1>4, SettleKeys
<1>5. ASSUME ~On(w, "idle"),
             Settle(t, "discarded", "discarded", "task.result.discarded")
      PROVE  KeysStep
  <2> HIDE DEF t
  <2> QED
    BY <1>3, <1>5, SettleKeys
<1>6. ReceiveTask(w) \/ Raise(w) \/ WorkerCrash(w) => UNCHANGED dbVars
  BY DEF ReceiveTask, Raise, WorkerCrash
<1>7. CheckCancelled(w) \/ LoadToMark(w) \/ Execute(w) \/ LoadToCommit(w)
        \/ LoadToFail(w) => UNCHANGED storeVars
  BY DEF CheckCancelled, LoadToMark, Execute, LoadToCommit, LoadToFail, Load
<1>8. CASE StartTask(w)
  <2>1. ~On(w, "idle")
    BY <1>8 DEF StartTask, On
  <2>2. \/ Settle(t, "running", "running", "task.running")
        \/ Settle(t, "cancelled", tasks[t].tool, "task.cancelled")
        \/ UNCHANGED storeVars
    BY <1>8 DEF StartTask
  <2> QED
    BY <1>2, <1>4, <2>1, <2>2
<1>9. CASE MarkCancelled(w)
  <2> DEFINE tool == IF tasks[t].tool = "running" THEN "cancelled" ELSE tasks[t].tool
  <2>1. ~On(w, "idle")
    BY <1>9 DEF MarkCancelled, On
  <2>2. Settle(t, "cancelled", tool, "task.cancelled") \/ UNCHANGED storeVars
    BY <1>9 DEF MarkCancelled
  <2> HIDE DEF tool
  <2> QED
    BY <1>2, <1>4, <2>1, <2>2
<1>10. CASE CommitResult(w)
  <2>1. ~On(w, "idle")
    BY <1>10 DEF CommitResult, On
  <2>2. \/ Settle(t, "discarded", "discarded", "task.result.discarded")
        \/ Settle(t, "succeeded", "succeeded", "task.succeeded")
    BY <1>10 DEF CommitResult
  <2> QED
    BY <1>4, <1>5, <2>1, <2>2
<1>11. CASE RecordFailure(w)
  <2>1. ~On(w, "idle")
    BY <1>11 DEF RecordFailure, On
  <2>2. \/ Settle(t, "cancelled", "cancelled", "task.cancelled")
        \/ Settle(t, "failed", "failed", "task.failed")
        \/ UNCHANGED storeVars
    BY <1>11 DEF RecordFailure
  <2> QED
    BY <1>2, <1>4, <2>1, <2>2
<1> QED
  BY <1>1, <1>2, <1>6, <1>7, <1>8, <1>9, <1>10, <1>11 DEF WorkerStep

\* Every step of the system writes fresh keys, or none.
LEMMA StepKeys ==
  ASSUME TypeOK, ExecutionInv, KeysInv, [Next]_vars
  PROVE  KeysStep
<1>1. UNCHANGED <<session, outbox>> => KeysStep
  BY DEF KeysStep
<1>2. \A p \in Publishers : PublisherStep(p) \/ PublishFails(p) \/ PublisherCrash(p)
        => UNCHANGED <<session, outbox>>
  BY DEF PublisherStep, PublishFails, PublisherCrash, FetchPending, Route,
         Announce, MarkPublished, storeVars, dbVars
<1>3. CASE UNCHANGED vars
  BY <1>1, <1>3 DEF vars, storeVars, dbVars
<1>4. CASE \E r \in Requests : HandleRequest(r)
  BY <1>4, GatewayKeys DEF HandleRequest
<1>5. CASE \E p \in Publishers : Publish(p)
  BY <1>1, <1>2, <1>5 DEF Publish
<1>6. CASE \E a \in Agents : RunAgent(a)
  BY <1>6, AgentKeys DEF RunAgent
<1>7. CASE \E w \in Workers : RunWorker(w)
  BY <1>7, WorkerKeys DEF RunWorker
<1>8. CASE GoWrong
  BY <1>1, <1>2, <1>8, AgentKeys, WorkerKeys DEF GoWrong
<1>9. CASE ConfirmByHand
  BY <1>1, <1>9 DEF ConfirmByHand
<1> QED
  BY <1>3, <1>4, <1>5, <1>6, <1>7, <1>8, <1>9 DEF Next

\* What a row of the log says of tasks, replies and preferences holds, and no
\* other row has its key.
LEMMA KeysHold == Spec => []KeysInv
<1>1. Init => KeysInv
  <2> SUFFICES ASSUME Init PROVE KeysInv
    OBVIOUS
  <2>1. DOMAIN outbox = {1} /\ outbox[1].type = "session.created"
    BY DEF Init, StoreInit, Event
  <2> QED
    BY <2>1 DEF KeysInv, LogKeysUnique, RowHolds
<1>2. TypeOK /\ TypeOK' /\ ExecutionInv /\ KeysInv /\ [Next]_vars => KeysInv'
  BY StepKeys, StepStaysTrue, KeysKept
<1> QED
  BY <1>1, <1>2, TypeCorrect, ExecutionHolds, PTL DEF Spec

\* No two events carry one dedupe_key: outside the gateway's own retries no
\* transaction ever hits the unique constraint and is rolled back.
THEOREM KeysUnique == Spec => []LogKeysUnique
BY KeysHold, PTL DEF KeysInv

-----------------------------------------------------------------------------
(* What clients are told.                                                  *)

\* A request that succeeded was answered with the event of its key.
Answered(r) ==
  LET seq == requests[r].seq
  IN /\ seq \in DOMAIN outbox
     /\ outbox[seq].type = Committed(r) /\ outbox[seq].ref = <<ClientId[r]>>

AnswersInv == \A r \in Requests : requests[r].outcome = "ok" => Answered(r)

\* A handler that does not answer with success, or did before, keeps what was
\* answered.
LEMMA OtherAnswers ==
  ASSUME TypeOK, AnswersInv, RowsStay, NEW r \in Requests,
         \A q \in Requests \ {r} : requests'[q] = requests[q],
         requests'[r].outcome = "ok" => Answered(r)'
  PROVE  AnswersInv'
<1>1. ASSUME NEW q \in Requests, requests'[q] = requests[q],
             requests'[q].outcome = "ok"
      PROVE  Answered(q)'
  BY <1>1 DEF AnswersInv, Answered, RowsStay, Committed
<1> QED
  BY <1>1 DEF AnswersInv

\* A handler answers with a row of the log that has its key.
LEMMA Responds ==
  ASSUME TypeOK, AnswersInv, RowsStay, NEW r \in Requests, NEW seq, NEW ids,
         Respond(r, seq, ids), seq \in DOMAIN outbox',
         outbox'[seq].type = Committed(r), outbox'[seq].ref = <<ClientId[r]>>
  PROVE  AnswersInv'
<1>1. /\ requests'[r].seq = seq
      /\ \A q \in Requests \ {r} : requests'[q] = requests[q]
  BY DEF Respond, TypeOK, ProcessTypeOK, RequestState
<1>2. Answered(r)'
  BY <1>1 DEF Answered, Committed
<1> QED
  BY <1>1, <1>2, OtherAnswers

\* The answer to an accepted request is the event its transaction wrote last.
LEMMA AcceptAnswers ==
  ASSUME TypeOK, LogGapFree, AnswersInv, NEW r \in Requests,
         NEW events \in Seq(EventRow), NEW ids \in SUBSET Nat,
         Accept(r, events, ids)
  PROVE  AnswersInv'
<1> DEFINE n    == IF Kind[r] = "interrupt" THEN requests[r].arg
                   ELSE IF Kind[r] = "turn" THEN Len(turns) + 1 ELSE 0
           pref == IF Kind[r] = "preference" THEN ActivePref + 1
                   ELSE ActivePref
           own  == Event(Committed(r), <<ClientId[r]>>, n, session.cv + 1,
                         pref, ids)
           all  == Append(events, own)
           seq  == session.seq + Len(events) + 1
<1>1. Committed(r) \in EventTypes
  BY KindAssumption DEF Committed, EventTypes, ContextEvents
<1>2. <<ClientId[r]>> \in Seq(ClientIds \cup Nat)
  BY ClientIdAssumption, SingleReference
<1>3. n \in Nat /\ pref \in Nat /\ session.cv + 1 \in Nat
  BY RowNumbers DEF TypeOK, ProcessTypeOK, RequestState
<1>4. Emit(all, session.cv + 1) /\ Respond(r, seq, ids)
  BY DEF Accept
<1> HIDE DEF n, pref
<1>5. own \in EventRow /\ own.type = Committed(r) /\ own.ref = <<ClientId[r]>>
  BY <1>1, <1>2, <1>3, EventType DEF Event
<1> HIDE DEF own
<1>6. /\ all \in Seq(EventRow) /\ Len(events) \in Nat /\ Len(all) = Len(events) + 1
      /\ all[Len(events) + 1] = own
  BY <1>5, AppendProperties, LenProperties
<1> HIDE DEF all
<1>7. /\ RowsStay
      /\ \A i \in 1..Len(all) :
           /\ Len(outbox) + i \in DOMAIN outbox'
           /\ outbox'[Len(outbox) + i].type = all[i].type
           /\ outbox'[Len(outbox) + i].ref = all[i].ref
  BY <1>3, <1>4, <1>6, EmittedRows
<1>8. seq = Len(outbox) + (Len(events) + 1) /\ Len(events) + 1 \in 1..Len(all)
  BY <1>6, RowNumbers DEF LogGapFree
<1>9. /\ seq \in DOMAIN outbox' /\ outbox'[seq].type = Committed(r)
      /\ outbox'[seq].ref = <<ClientId[r]>>
  BY <1>5, <1>6, <1>7, <1>8
<1>10. \E s : /\ s = seq /\ Respond(r, s, ids) /\ s \in DOMAIN outbox'
              /\ outbox'[s].type = Committed(r) /\ outbox'[s].ref = <<ClientId[r]>>
  BY <1>4, <1>9
<1> QED
  BY <1>7, <1>10, Responds

\* Every step of a handler that answers with success names its event.
LEMMA GatewayAnswers ==
  ASSUME TypeOK, LogGapFree, AnswersInv, RowsStay, NEW r \in Requests,
         GatewayStep(r)
  PROVE  AnswersInv'
<1>1. requests \in [Requests -> RequestState]
  BY DEF TypeOK, ProcessTypeOK
\* The request goes on, or ends without success.
<1>2. ASSUME \A q \in Requests \ {r} : requests'[q] = requests[q],
             \/ requests'[r].outcome # "ok"
             \/ /\ requests'[r].outcome = requests[r].outcome
                /\ requests'[r].seq = requests[r].seq
      PROVE  AnswersInv'
  <2>1. ASSUME requests'[r].outcome = "ok" PROVE Answered(r)'
    <3>1. requests[r].outcome = "ok" /\ requests'[r].seq = requests[r].seq
      BY <1>2, <2>1
    <3> QED
      BY <3>1 DEF AnswersInv, Answered, RowsStay, Committed
  <2> QED
    BY <1>2, <2>1, OtherAnswers
<1>3. ASSUME NEW outcome \in {"conflict", "error", "invalid"}, Answer(r, outcome)
      PROVE  AnswersInv'
  <2>1. /\ requests'[r].outcome # "ok"
        /\ \A q \in Requests \ {r} : requests'[q] = requests[q]
    BY <1>1, <1>3 DEF Answer, RequestState
  <2> QED
    BY <1>2, <2>1
<1>4. ASSUME Replay(r), UNCHANGED outbox
      PROVE  AnswersInv'
  <2>1. PICK i \in DOMAIN outbox :
          /\ outbox[i].type = Committed(r) /\ outbox[i].ref = <<ClientId[r]>>
          /\ Respond(r, outbox[i].seq, outbox[i].ids)
    BY <1>4 DEF Replay
  <2>2. outbox[i].seq = i
    BY DEF LogGapFree
  <2>3. \E ids : Respond(r, i, ids)
    BY <2>1, <2>2
  <2> QED
    BY <1>4, <2>1, <2>3, Responds
<1>5. UNCHANGED storeVars => UNCHANGED outbox
  BY DEF storeVars, dbVars
<1>6. <<>> \in Seq(EventRow) /\ {} \in SUBSET Nat
  OBVIOUS
<1>7. CASE Receive(r)
  <2>1. CASE Replay(r)
    BY <1>4, <1>5, <1>7, <2>1 DEF Receive
  <2>2. CASE \E arg : requests' = [requests EXCEPT ![r].pc = "locking", ![r].arg = arg]
    <3>1. /\ \A q \in Requests \ {r} : requests'[q] = requests[q]
          /\ requests'[r].outcome = requests[r].outcome
          /\ requests'[r].seq = requests[r].seq
      BY <1>1, <2>2 DEF RequestState
    <3> QED
      BY <1>2, <3>1
  <2> QED
    BY <1>7, <2>1, <2>2 DEF Receive
<1>8. CASE FinalizeTurn(r)
  BY <1>3, <1>6, <1>8, AcceptAnswers DEF FinalizeTurn, UniqueViolation
<1>9. CASE UpdatePreferences(r)
  BY <1>3, <1>4, <1>5, <1>6, <1>9, AcceptAnswers
     DEF UpdatePreferences, UniqueViolation
<1>10. CASE RegisterInterrupt(r)
  <2> DEFINE n   == requests[r].arg
             ids == Interruptible(n)
  <2>1. ASSUME NEW order \in SetToSeqs(ids),
               Accept(r, EventPerTask("task.cancel_requested", order, n,
                                      session.cv), ids)
        PROVE  AnswersInv'
    <3> DEFINE events == EventPerTask("task.cancel_requested", order, n,
                                      session.cv)
    <3>1. ids \subseteq DOMAIN tasks
      BY DEF Interruptible
    <3>2. ids \in SUBSET Nat
      BY <3>1, TaskSetFinite
    <3>3. n \in Nat /\ session.cv \in Nat
      BY RowNumbers DEF TypeOK, ProcessTypeOK, RequestState
    <3>4. Accept(r, events, ids)
      BY <2>1
    <3> HIDE DEF n, ids
    <3>5. order \in Seq(Nat)
      BY <3>1, OrderOfTasks
    <3>6. "task.cancel_requested" \in EventTypes
      BY DEF EventTypes, OtherEvents
    <3>7. events \in Seq(EventRow)
      BY <3>3, <3>5, <3>6, EventPerTaskTypes
    <3> HIDE DEF events
    <3> QED
      BY <3>2, <3>4, <3>7, AcceptAnswers
  <2> QED
    BY <1>3, <1>10, <2>1 DEF RegisterInterrupt, UniqueViolation
<1>11. CASE WriteCancelKeys(r)
  <2>1. /\ \A q \in Requests \ {r} : requests'[q] = requests[q]
        /\ requests'[r].outcome = requests[r].outcome
        /\ requests'[r].seq = requests[r].seq
    BY <1>1, <1>11 DEF WriteCancelKeys, RequestState
  <2> QED
    BY <1>2, <2>1
<1> QED
  BY <1>7, <1>8, <1>9, <1>10, <1>11 DEF GatewayStep

\* Answers stay right: no row of the log changes.
LEMMA AnswersHold == Spec => []AnswersInv
<1>1. Init => AnswersInv
  BY DEF Init, GatewayInit, AnswersInv
<1>2. ASSUME TypeOK, LogGapFree, AnswersInv, [Next]_vars
      PROVE  AnswersInv'
  <2>1. RowsStay
    BY <1>2, RowsAlwaysStay
  <2>2. CASE UNCHANGED requests
    BY <1>2, <2>1, <2>2 DEF AnswersInv, Answered, RowsStay, Committed
  <2>3. CASE \E r \in Requests : HandleRequest(r)
    BY <1>2, <2>1, <2>3, GatewayAnswers DEF HandleRequest
  <2> QED
    BY <1>2, <2>2, <2>3 DEF Next, Publish, RunAgent, RunWorker, GoWrong,
       ConfirmByHand, vars, processVars
<1> QED
  BY <1>1, <1>2, TypeCorrect, GapFreeLog, PTL DEF Spec

\* Requests with one client_event_id that succeed get one answer, however
\* they interleave, and it is the one event of the log that has their key.
THEOREM AnswersIdempotent == Spec => []IdempotentAnswers
<1>1. AnswersInv /\ LogKeysUnique => IdempotentAnswers
  <2> SUFFICES ASSUME AnswersInv, LogKeysUnique,
                      NEW q \in Requests, NEW r \in Requests,
                      Kind[q] = Kind[r], ClientId[q] = ClientId[r],
                      requests[q].outcome = "ok", requests[r].outcome = "ok"
               PROVE  /\ requests[q].seq = requests[r].seq
                      /\ requests[q].seq \in DOMAIN outbox
                      /\ outbox[requests[q].seq].type = Committed(q)
    BY DEF IdempotentAnswers
  <2>1. Answered(q) /\ Answered(r)
    BY DEF AnswersInv
  <2>2. Committed(q) = Committed(r)
    BY DEF Committed
  <2> QED
    BY <2>1, <2>2 DEF Answered, LogKeysUnique
<1> QED
  BY <1>1, AnswersHold, KeysUnique, PTL

\* A preference patch that was accepted is part of the active preferences for
\* ever: its event is in the log, and no later version drops a patch.
THEOREM PatchesKept == Spec => []NoLostPatch
<1>1. AnswersInv /\ KeysInv => NoLostPatch
  <2> SUFFICES ASSUME AnswersInv, KeysInv, NEW r \in Requests,
                      Kind[r] = "preference", requests[r].outcome = "ok"
               PROVE  ClientId[r] \in prefs[ActivePref]
    BY DEF NoLostPatch
  <2>1. PICK i \in DOMAIN outbox :
          outbox[i].type = "preference.updated" /\ outbox[i].ref = <<ClientId[r]>>
    BY DEF AnswersInv, Answered, Committed
  <2>2. Head(outbox[i].ref) \in prefs[ActivePref]
    BY <2>1 DEF KeysInv, RowHolds
  <2> QED
    BY <2>1, <2>2
<1> QED
  BY <1>1, AnswersHold, KeysHold, PTL
=============================================================================
