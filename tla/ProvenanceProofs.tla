--------------------------- MODULE ProvenanceProofs ---------------------------
(***************************************************************************)
(* From a user's turn to its itinerary: ItineraryProvenance,               *)
(* OneReplyPerTurn and SucceededIsFinal for any number of turns, of agents *)
(* and of copies of their messages.  Everything that travels through the   *)
(* outbox, the streams and the agents names a user turn and its context    *)
(* (TurnInv), so what is composed in a context is composed for one turn;   *)
(* a reply in the log then protects the results it rests on (ReplyInv).    *)
(***************************************************************************)
EXTENDS OutboxProofs

-----------------------------------------------------------------------------
(* Whatever is sent names a user turn.                                     *)

UserTurn(n, cv) ==
  n \in DOMAIN turns /\ turns[n].kind = "user_text" /\ turns[n].cv = cv

UserTurnThen(n, cv) ==
  n \in DOMAIN turns' /\ turns'[n].kind = "user_text" /\ turns'[n].cv = cv

TurnPackets  == {k \in Packet : UserTurn(k.turn, k.cv)}
TurnMessages == {m \in Message : m.packet \in TurnPackets}

LoggedForTurns ==
  \A i \in DOMAIN outbox :
    Routed(outbox[i]) => UserTurn(outbox[i].turn, outbox[i].cv)

SentForTurns ==
  stream.plan \in Seq(TurnPackets) /\ stream.compose \in Seq(TurnPackets)

InHandForTurns == \A a \in Agents : agents[a] \in Seq(TurnMessages)

PlannedForTurns ==
  \A t \in DOMAIN tasks : UserTurn(tasks[t].turn, tasks[t].cv)

\* A user turn has a context of its own: the one it made.
TurnContexts ==
  /\ \A n \in DOMAIN turns : turns[n].cv <= session.cv
  /\ \A m, n \in DOMAIN turns :
       /\ turns[m].kind = "user_text" /\ turns[n].kind = "user_text"
       /\ turns[m].cv = turns[n].cv
       => m = n

TurnInv ==
  /\ LoggedForTurns
  /\ SentForTurns
  /\ InHandForTurns
  /\ PlannedForTurns
  /\ TurnContexts

-----------------------------------------------------------------------------
(* What a step does to the turns.                                          *)

\* No turn is lost, and only the status of one changes.
TurnsKept ==
  \A n \in DOMAIN turns :
    /\ n \in DOMAIN turns' /\ turns'[n].kind = turns[n].kind
    /\ turns'[n].cv = turns[n].cv /\ turns'[n].parent = turns[n].parent

\* A new turn makes a context, or is the agent's and made in the current one.
TurnsStep ==
  /\ TurnsKept
  /\ session.cv <= session'.cv
  /\ \A n \in DOMAIN turns' :
       \/ n \in DOMAIN turns
       \/ /\ n = Len(turns) + 1 /\ turns'[n].kind = "user_text"
          /\ turns'[n].cv = session'.cv /\ session.cv < session'.cv
       \/ /\ n = Len(turns) + 1 /\ turns'[n].kind = "agent_reply"
          /\ turns'[n].cv = session.cv /\ session'.cv = session.cv

\* The rows a step adds to the outbox and that are routed name a user turn.
RowsForTurns ==
  \A i \in DOMAIN outbox' :
    \/ i \in DOMAIN outbox
    \/ Routed(outbox'[i]) => UserTurnThen(outbox'[i].turn, outbox'[i].cv)

\* What is known of a sequence with one more element.
LEMMA AppendedRow ==
  ASSUME NEW S, NEW s \in Seq(S), NEW m \in S
  PROVE  LET new == Append(s, m)
         IN /\ new \in Seq(S) /\ Len(s) \in Nat /\ Len(new) = Len(s) + 1
            /\ DOMAIN s = 1..Len(s) /\ DOMAIN new = 1..(Len(s) + 1)
            /\ \A i \in DOMAIN s : new[i] = s[i]
            /\ new[Len(s) + 1] = m
BY AppendProperties, LenProperties

\* A user turn stays one.
LEMMA UserTurnStays ==
  ASSUME TurnsKept, NEW n, NEW cv, UserTurn(n, cv)
  PROVE  UserTurnThen(n, cv)
BY DEF TurnsKept, UserTurn, UserTurnThen

\* Messages that named user turns go on to name them.
LEMMA PacketsStay ==
  ASSUME TurnsKept
  PROVE  TurnPackets \subseteq TurnPackets' /\ TurnMessages \subseteq TurnMessages'
<1>1. ASSUME NEW k \in Packet, UserTurn(k.turn, k.cv)
      PROVE  UserTurnThen(k.turn, k.cv)
  BY <1>1, UserTurnStays
<1>2. TurnPackets \subseteq TurnPackets'
  BY <1>1 DEF TurnPackets, UserTurn, UserTurnThen
<1> QED
  BY <1>2 DEF TurnMessages

\* A sequence over a set is one over a larger set.
LEMMA LargerSeq ==
  ASSUME NEW S, NEW T, S \subseteq T, NEW s \in Seq(S)
  PROVE  s \in Seq(T)
BY ElementOfSeq, SeqDef

\* A step that leaves the turns alone.
LEMMA SameTurns ==
  ASSUME TypeOK, UNCHANGED turns,
         session'.cv = session.cv \/ session'.cv = session.cv + 1
  PROVE  TurnsStep
<1>1. session.cv <= session'.cv
  BY RowNumbers
<1> QED
  BY <1>1 DEF TurnsStep, TurnsKept

\* A step that writes no row.
LEMMA NoRows ==
  ASSUME TypeOK, UNCHANGED dbVars
  PROVE  TurnsStep /\ RowsForTurns
BY SameTurns DEF dbVars, RowsForTurns

\* Events that name user turns, or that are not routed.
LEMMA EmitForTurns ==
  ASSUME TypeOK, NEW events \in Seq(EventRow), NEW cv \in Nat, Emit(events, cv),
         \A i \in 1..Len(events) :
           Routed(events[i]) => UserTurnThen(events[i].turn, events[i].cv)
  PROVE  RowsForTurns
<1>1. /\ Len(events) \in Nat /\ Grows(Len(events))
      /\ \A i \in 1..Len(events) :
           /\ outbox'[Len(outbox) + i].type = events[i].type
           /\ outbox'[Len(outbox) + i].turn = events[i].turn
           /\ outbox'[Len(outbox) + i].cv = events[i].cv
  BY EmittedRows
<1>2. DOMAIN outbox = 1..Len(outbox) /\ Len(outbox) \in Nat
  BY RowNumbers
<1> SUFFICES ASSUME NEW i \in DOMAIN outbox', i \notin DOMAIN outbox,
                    Routed(outbox'[i])
             PROVE  UserTurnThen(outbox'[i].turn, outbox'[i].cv)
  BY DEF RowsForTurns
<1>3. PICK j \in 1..Len(events) : outbox'[i] = outbox'[Len(outbox) + j]
  BY <1>1, <1>2, OldOrNew
<1>4. Routed(events[j])
  BY <1>1, <1>3 DEF Routed
<1> QED
  BY <1>1, <1>3, <1>4
-----------------------------------------------------------------------------
(* The steps of the processes, one by one.                                 *)

\* A request's transaction: what it cancels is not routed, and its own event
\* is, when it is a turn's.
LEMMA AcceptForTurns ==
  ASSUME TypeOK, NEW r \in Requests, NEW events \in Seq(EventRow),
         NEW ids \in SUBSET Nat, Accept(r, events, ids),
         \A i \in 1..Len(events) : ~Routed(events[i]),
         Kind[r] = "turn" => UserTurnThen(Len(turns) + 1, session.cv + 1)
  PROVE  RowsForTurns
<1> DEFINE n    == IF Kind[r] = "interrupt" THEN requests[r].arg
                   ELSE IF Kind[r] = "turn" THEN Len(turns) + 1 ELSE 0
           pref == IF Kind[r] = "preference" THEN ActivePref + 1
                   ELSE ActivePref
           own  == Event(Committed(r), <<ClientId[r]>>, n, session.cv + 1,
                         pref, ids)
           all  == Append(events, own)
<1>1. /\ Committed(r) \in EventTypes
      /\ Committed(r) \notin {"task.queued", "task.succeeded"}
      /\ Committed(r) = "turn.finalized" => Kind[r] = "turn"
  BY KindAssumption DEF Committed, EventTypes, ContextEvents
<1>2. <<ClientId[r]>> \in Seq(ClientIds \cup Nat)
  BY ClientIdAssumption, SingleReference
<1>3. /\ n \in Nat /\ pref \in Nat /\ session.cv + 1 \in Nat
      /\ Kind[r] = "turn" => n = Len(turns) + 1
  BY RowNumbers DEF TypeOK, ProcessTypeOK, RequestState
<1>4. Emit(all, session.cv + 1)
  BY DEF Accept
<1> HIDE DEF n, pref
<1>5. /\ own \in EventRow /\ own.type = Committed(r)
      /\ own.turn = n /\ own.cv = session.cv + 1
  BY <1>1, <1>2, <1>3, EventType DEF Event
<1> HIDE DEF own
<1>6. /\ all \in Seq(EventRow) /\ Len(events) \in Nat
      /\ Len(all) = Len(events) + 1
      /\ \A i \in 1..(Len(events) + 1) :
           all[i] = IF i = Len(events) + 1 THEN own ELSE events[i]
  BY <1>5, AppendProperties, LenProperties
<1> HIDE DEF all
<1>7. ASSUME NEW i \in 1..Len(all), Routed(all[i])
      PROVE  UserTurnThen(all[i].turn, all[i].cv)
  <2>1. all[i] = own
    <3>1. \/ i = Len(events) + 1
          \/ i \in 1..Len(events) /\ all[i] = events[i]
      BY <1>6
    <3> QED
      BY <1>6, <1>7, <3>1
  <2>2. own.type = "turn.finalized"
    BY <1>1, <1>5, <1>7, <2>1 DEF Routed
  <2> QED
    BY <1>1, <1>3, <1>5, <2>1, <2>2
<1> QED
  BY <1>3, <1>4, <1>6, <1>7, EmitForTurns

\* The handlers: a turn is added in the context it makes, and named by its
\* event; an interrupt changes a turn's status.
LEMMA GatewayTurns ==
  ASSUME TypeOK, NEW r \in Requests, GatewayStep(r)
  PROVE  TurnsStep /\ RowsForTurns
<1>1. UNCHANGED storeVars => TurnsStep /\ RowsForTurns
  BY NoRows DEF storeVars
<1>2. /\ turns \in Seq(Turn) /\ session.cv \in Nat
      /\ Len(turns) \in Nat /\ DOMAIN turns = 1..Len(turns)
      /\ <<>> \in Seq(EventRow) /\ {} \in SUBSET Nat
      /\ \A i \in 1..Len(<<>>) : FALSE
  BY RowNumbers, EmptySeq DEF TypeOK, StoreTypeOK
<1>3. ASSUME NEW events, NEW ids, Accept(r, events, ids)
      PROVE  session'.cv = session.cv + 1
  BY <1>3, EmittedContext DEF Accept
<1>4. CASE Receive(r)
  BY <1>1, <1>4 DEF Receive
<1>5. CASE FinalizeTurn(r)
  <2> DEFINE u == [kind |-> "user_text", status |-> "user_final",
                   cv |-> session.cv + 1, parent |-> 0]
  <2>1. ASSUME Accept(r, <<>>, {}), turns' = Append(turns, u)
        PROVE  TurnsStep /\ RowsForTurns
    <3>1. u \in Turn /\ u.kind = "user_text" /\ u.cv = session.cv + 1
      BY <1>2 DEF Turn, TurnStatus
    <3> HIDE DEF u
    <3>2. /\ DOMAIN turns' = 1..(Len(turns) + 1)
          /\ \A n \in DOMAIN turns : turns'[n] = turns[n]
          /\ turns'[Len(turns) + 1] = u
      BY <1>2, <2>1, <3>1, AppendedRow
    <3>3. session'.cv = session.cv + 1
      BY <1>3, <2>1
    <3>4. TurnsStep
      BY <1>2, <3>1, <3>2, <3>3 DEF TurnsStep, TurnsKept
    <3>5. UserTurnThen(Len(turns) + 1, session.cv + 1)
      BY <1>2, <3>1, <3>2 DEF UserTurnThen
    <3> QED
      BY <1>2, <2>1, <3>4, <3>5, AcceptForTurns
  <2> QED
    BY <1>1, <1>5, <2>1 DEF FinalizeTurn, UniqueViolation
<1>6. CASE UpdatePreferences(r)
  <2>1. ASSUME Accept(r, <<>>, {}), UNCHANGED turns, Kind[r] = "preference"
        PROVE  TurnsStep /\ RowsForTurns
    BY <1>2, <1>3, <2>1, AcceptForTurns, SameTurns
  <2> QED
    BY <1>1, <1>6, <2>1 DEF UpdatePreferences, UniqueViolation
<1>7. CASE RegisterInterrupt(r)
  <2> DEFINE n      == requests[r].arg
             ids    == Interruptible(n)
             Told(order) == EventPerTask("task.cancel_requested", order, n,
                                         session.cv)
  <2>1. ASSUME NEW order \in SetToSeqs(ids), Kind[r] = "interrupt",
               Accept(r, Told(order), ids), n \in DOMAIN turns,
               turns' = [turns EXCEPT ![n].status = "interrupted"]
        PROVE  TurnsStep /\ RowsForTurns
    <3>1. ids \subseteq DOMAIN tasks
      BY DEF Interruptible
    <3>2. n \in Nat /\ "task.cancel_requested" \in EventTypes
      BY RowNumbers DEF TypeOK, ProcessTypeOK, RequestState, EventTypes,
                        OtherEvents
    <3> HIDE DEF n, ids
    <3>3. ids \in SUBSET Nat /\ order \in Seq(Nat)
      BY <3>1, <2>1, TaskSetFinite, OrderOfTasks
    <3>4. /\ Told(order) \in Seq(EventRow)
          /\ \A i \in 1..Len(Told(order)) :
               Told(order)[i].type = "task.cancel_requested"
      BY <1>2, <3>2, <3>3, EventPerTaskTypes
    <3> HIDE DEF Told
    <3>5. RowsForTurns
      BY <2>1, <3>3, <3>4, AcceptForTurns DEF Routed
    <3>6. \A m \in DOMAIN turns : turns[m] \in Turn
      BY <1>2, ElementOfSeq
    <3>7. TurnsKept /\ DOMAIN turns' = DOMAIN turns
      BY <2>1, <3>6 DEF TurnsKept, Turn
    <3>8. session'.cv = session.cv + 1
      BY <1>3, <2>1
    <3> QED
      BY <1>2, <3>5, <3>7, <3>8 DEF TurnsStep
  <2> QED
    BY <1>1, <1>7, <2>1 DEF RegisterInterrupt, UniqueViolation
<1>8. CASE WriteCancelKeys(r)
  BY <1>8, NoRows DEF WriteCancelKeys
<1> QED
  BY <1>4, <1>5, <1>6, <1>7, <1>8 DEF GatewayStep
\* The message an agent handles names a user turn, and so do those it has
\* still to handle.
LEMMA MessageForTurn ==
  ASSUME TypeOK, TurnInv, NEW a \in Agents, agents[a] # <<>>
  PROVE  /\ InHand(a) \in TurnPackets /\ InHand(a) \in Packet
         /\ UserTurn(InHand(a).turn, InHand(a).cv)
         /\ Tail(agents[a]) \in Seq(TurnMessages)
<1>1. agents[a] \in Seq(TurnMessages)
  BY DEF TurnInv, InHandForTurns
<1>2. /\ Head(agents[a]) \in TurnMessages
      /\ Tail(agents[a]) \in Seq(TurnMessages)
  BY <1>1, HeadTailProperties
<1> QED
  BY <1>2 DEF InHand, TurnMessages, TurnPackets

\* What agents write: tasks and replies for the turn of their message.
LEMMA AgentTurns ==
  ASSUME TypeOK, TurnInv, NEW a \in Agents, AgentStep(a) \/ AgentCrash(a)
  PROVE  TurnsStep /\ RowsForTurns
<1>1. UNCHANGED dbVars => TurnsStep /\ RowsForTurns
  BY NoRows
<1>2. /\ turns \in Seq(Turn) /\ session.cv \in Nat /\ ActivePref \in Nat
      /\ Len(turns) \in Nat /\ DOMAIN turns = 1..Len(turns)
      /\ Len(tasks) \in Nat
  BY RowNumbers DEF TypeOK, StoreTypeOK
<1>3. CASE ReadStreams(a)
  BY <1>1, <1>3 DEF ReadStreams
<1>4. CASE CreateTasks(a)
  <2> DEFINE k == InHand(a)
             e == Event("task.queued", <<NewTask>>, k.turn, k.cv, k.pref, {})
  <2>1. k \in Packet /\ UserTurn(k.turn, k.cv)
    BY <1>4, MessageForTurn DEF CreateTasks, Working
  <2>2. CASE Emit(<<e>>, session.cv) /\ UNCHANGED turns
    <3>1. TurnsStep
      BY <2>2, EmittedContext, SameTurns
    <3>2. UserTurnThen(k.turn, k.cv)
      BY <2>1, <3>1, UserTurnStays DEF TurnsStep
    <3>3. k.turn \in Nat /\ k.cv \in Nat /\ k.pref \in Nat
      BY <2>1 DEF Packet
    <3> HIDE DEF k
    <3>4. <<NewTask>> \in Seq(ClientIds \cup Nat) /\ "task.queued" \in EventTypes
      BY <1>2, SingleReference DEF NewTask, EventTypes, WorkEvents
    <3>5. e \in EventRow /\ e.turn = k.turn /\ e.cv = k.cv
      BY <3>3, <3>4, EventType DEF Event
    <3>6. Emit(<<e>>, session.cv)
      BY <2>2
    <3> HIDE DEF e
    <3>7. /\ <<e>> \in Seq(EventRow)
          /\ \A i \in 1..Len(<<e>>) : UserTurnThen(<<e>>[i].turn, <<e>>[i].cv)
      BY <3>2, <3>5
    <3> QED
      BY <1>2, <3>1, <3>6, <3>7, EmitForTurns
  <2> QED
    BY <1>1, <1>4, <2>2 DEF CreateTasks
<1>5. CASE ComposeNothing(a)
  BY <1>1, <1>5 DEF ComposeNothing, storeVars
<1>6. CASE ComposeReply(a)
  <2> DEFINE n       == InHand(a).turn
             cv      == InHand(a).cv
             sources == Ready(n, cv)
             u  == [kind |-> "agent_reply", status |-> "completed", cv |-> cv,
                    parent |-> n]
             e1 == Event("itinerary.confirmed", <<n, cv>>, n, cv, ActivePref,
                         sources)
             e2 == Event("agent.reply.created", <<n, cv>>, n, cv, ActivePref,
                         sources)
  <2>1. /\ agents[a] # <<>> /\ session.cv = cv /\ Emit(<<e1, e2>>, session.cv)
        /\ turns' = Append(turns, u)
    BY <1>6 DEF ComposeReply, Working, Composable
  <2>2. n \in Nat /\ cv \in Nat
    BY <2>1, MessageInHand
  <2>3. sources \in SUBSET Nat
    <3>1. sources \subseteq DOMAIN tasks
      BY DEF Ready
    <3> QED
      BY <3>1, TaskSetFinite
  <2> HIDE DEF n, cv, sources
  <2>4. u \in Turn /\ u.kind = "agent_reply" /\ u.cv = session.cv
    BY <2>1, <2>2 DEF Turn, TurnStatus
  <2> HIDE DEF u
  <2>5. /\ DOMAIN turns' = 1..(Len(turns) + 1)
        /\ \A m \in DOMAIN turns : turns'[m] = turns[m]
        /\ turns'[Len(turns) + 1] = u
    BY <1>2, <2>1, <2>4, AppendedRow
  <2>6. session'.cv = session.cv
    BY <2>1, EmittedContext
  <2>7. TurnsStep
    BY <1>2, <2>4, <2>5, <2>6 DEF TurnsStep, TurnsKept
  <2>8. /\ "itinerary.confirmed" \in EventTypes
        /\ "agent.reply.created" \in EventTypes
        /\ <<n, cv>> \in Seq(ClientIds \cup Nat)
    BY <2>2 DEF EventTypes, WorkEvents
  <2>9. /\ e1 \in EventRow /\ e1.type = "itinerary.confirmed"
        /\ e2 \in EventRow /\ e2.type = "agent.reply.created"
    BY <1>2, <2>2, <2>3, <2>8, EventType DEF Event
  <2> HIDE DEF e1, e2
  <2>10. /\ <<e1, e2>> \in Seq(EventRow)
         /\ \A i \in 1..Len(<<e1, e2>>) : ~Routed(<<e1, e2>>[i])
    BY <2>9 DEF Routed
  <2> QED
    BY <1>2, <2>1, <2>7, <2>10, EmitForTurns
<1>7. CASE ComposeConflict(a)
  <2> DEFINE n     == InHand(a).turn
             cv    == InHand(a).cv
             stale == Ready(n, cv)
             Told(order) == EventPerTask("task.result.discarded", order, n, cv)
  <2>1. /\ agents[a] # <<>> /\ UNCHANGED turns
        /\ \E order \in SetToSeqs(stale) : Emit(Told(order), session.cv)
    BY <1>7 DEF ComposeConflict, Working
  <2>2. n \in Nat /\ cv \in Nat
    BY <2>1, MessageInHand
  <2>3. stale \subseteq DOMAIN tasks
    BY DEF Ready
  <2> HIDE DEF n, cv, stale
  <2>4. PICK order \in SetToSeqs(stale) : Emit(Told(order), session.cv)
    BY <2>1
  <2>5. order \in Seq(Nat)
    BY <2>3, OrderOfTasks
  <2>6. "task.result.discarded" \in EventTypes
    BY DEF EventTypes, OtherEvents
  <2>7. /\ Told(order) \in Seq(EventRow)
        /\ \A i \in 1..Len(Told(order)) :
             Told(order)[i].type = "task.result.discarded"
    BY <2>2, <2>5, <2>6, EventPerTaskTypes
  <2> HIDE DEF Told
  <2>8. TurnsStep
    BY <2>1, <2>4, EmittedContext, SameTurns
  <2> QED
    BY <1>2, <2>4, <2>7, <2>8, EmitForTurns DEF Routed
<1>8. CASE RebuildPacket(a)
  BY <1>1, <1>8 DEF RebuildPacket, storeVars
<1>9. CASE AgentCrash(a)
  BY <1>1, <1>9 DEF AgentCrash
<1> QED
  BY <1>3, <1>4, <1>5, <1>6, <1>7, <1>8, <1>9 DEF AgentStep
\* What agents have in hand: entries they read, and packets rebuilt for the
\* same turn and context.
LEMMA AgentMessages ==
  ASSUME TypeOK, TurnInv, NEW a \in Agents, AgentStep(a) \/ AgentCrash(a),
         NEW b \in Agents
  PROVE  agents'[b] \in Seq(TurnMessages)
<1>1. /\ agents \in [Agents -> Seq(Message)]
      /\ agents[b] \in Seq(TurnMessages)
  BY DEF TypeOK, ProcessTypeOK, TurnInv, InHandForTurns
<1>2. ASSUME NEW s \in Seq(TurnMessages), agents' = [agents EXCEPT ![a] = s]
      PROVE  agents'[b] \in Seq(TurnMessages)
  BY <1>1, <1>2
<1>3. Finish(a) /\ agents[a] # <<>> => agents'[b] \in Seq(TurnMessages)
  BY <1>2, MessageForTurn DEF Finish
<1>4. ASSUME agents[a] # <<>>, NEW from \in {"plan", "compose", "replan"},
             NEW packet \in TurnPackets, Continue(a, from, packet)
      PROVE  agents'[b] \in Seq(TurnMessages)
  <2> DEFINE m == [from |-> from, packet |-> packet]
  <2>1. m \in TurnMessages
    BY <1>4 DEF TurnMessages, TurnPackets, Message
  <2>2. agents' = [agents EXCEPT ![a] = <<m>> \o Tail(agents[a])]
    BY <1>4 DEF Continue
  <2> HIDE DEF m
  <2>3. <<m>> \in Seq(TurnMessages) /\ Tail(agents[a]) \in Seq(TurnMessages)
    BY <1>4, <2>1, MessageForTurn
  <2>4. <<m>> \o Tail(agents[a]) \in Seq(TurnMessages)
    BY <2>3, ConcatProperties
  <2> QED
    BY <1>2, <2>2, <2>4
<1>5. CASE ReadStreams(a)
  <2> DEFINE Take(s) == IF Undelivered(s)
                        THEN <<[from |-> s, packet |-> NextEntry(s)]>> ELSE <<>>
  <2>1. ASSUME NEW s \in {"plan", "compose"}
        PROVE  Take(s) \in Seq(TurnMessages)
    <3>1. delivered[s] \in Nat /\ stream[s] \in Seq(TurnPackets)
          /\ Len(stream[s]) \in Nat
      BY LenProperties DEF TypeOK, StoreTypeOK, TurnInv, SentForTurns
    <3>2. CASE Undelivered(s)
      <4>1. delivered[s] + 1 \in 1..Len(stream[s])
        BY <3>1, <3>2 DEF Undelivered
      <4>2. NextEntry(s) \in TurnPackets
        BY <3>1, <4>1, ElementOfSeq DEF NextEntry
      <4>3. [from |-> s, packet |-> NextEntry(s)] \in TurnMessages
        BY <4>2 DEF TurnMessages, TurnPackets, Message
      <4>4. Take(s) = <<[from |-> s, packet |-> NextEntry(s)]>>
        BY <3>2
      <4> HIDE DEF Take
      <4> QED
        BY <4>3, <4>4
    <3>3. CASE ~Undelivered(s)
      <4>1. Take(s) = <<>>
        BY <3>3
      <4> HIDE DEF Take
      <4> QED
        BY <4>1, EmptySeq
    <3> QED
      BY <3>2, <3>3
  <2>2. agents' = [agents EXCEPT ![a] = Take("plan") \o Take("compose")]
    BY <1>5 DEF ReadStreams
  <2>3. "plan" \in {"plan", "compose"} /\ "compose" \in {"plan", "compose"}
    OBVIOUS
  <2> HIDE DEF Take
  <2>4. Take("plan") \o Take("compose") \in Seq(TurnMessages)
    BY <2>1, <2>3, ConcatProperties
  <2> QED
    BY <1>2, <2>2, <2>4
<1>6. CASE CreateTasks(a) \/ ComposeNothing(a) \/ ComposeReply(a)
  BY <1>3, <1>6 DEF CreateTasks, ComposeNothing, ComposeReply, Working
<1>7. CASE ComposeConflict(a)
  BY <1>4, <1>7, MessageForTurn DEF ComposeConflict, Working
<1>8. CASE RebuildPacket(a)
  <2> DEFINE k   == InHand(a)
             new == [k EXCEPT !.pref = ActivePref, !.itin = ConfirmedItinerary]
  <2>1. agents[a] # <<>> /\ Continue(a, "plan", new)
    BY <1>8 DEF RebuildPacket, Working
  <2>2. k \in Packet /\ UserTurn(k.turn, k.cv)
    BY <2>1, MessageForTurn
  <2> HIDE DEF k
  <2>3. /\ new \in Packet /\ new.turn = k.turn /\ new.cv = k.cv
    BY <2>2, RowNumbers DEF Packet
  <2>4. new \in TurnPackets
    BY <2>2, <2>3 DEF TurnPackets
  <2> QED
    BY <1>4, <2>1, <2>4
<1>9. CASE AgentCrash(a)
  BY <1>2, <1>9, EmptySeq DEF AgentCrash
<1> QED
  BY <1>5, <1>6, <1>7, <1>8, <1>9 DEF AgentStep

\* The tasks are for user turns.
TasksForTurns ==
  \A t \in DOMAIN tasks' : UserTurnThen(tasks'[t].turn, tasks'[t].cv)

\* A task stays one for its turn.
LEMMA TasksStayForTurns ==
  ASSUME PlannedForTurns, TurnsKept, DOMAIN tasks' = DOMAIN tasks,
         \A t \in DOMAIN tasks : SamePlan(t)
  PROVE  TasksForTurns
BY UserTurnStays DEF PlannedForTurns, SamePlan, TasksForTurns

\* Agents plan tasks for the turn of their message.
LEMMA AgentTasks ==
  ASSUME TypeOK, TurnInv, NEW a \in Agents, AgentStep(a) \/ AgentCrash(a)
  PROVE  TasksForTurns
<1>1. TurnsKept
  BY AgentTurns DEF TurnsStep
<1>2. UNCHANGED tasks => TasksForTurns
  BY <1>1, TasksStayForTurns DEF SamePlan, TurnInv
<1>3. CASE CreateTasks(a)
  <2> DEFINE k == InHand(a)
             new == [turn |-> k.turn, cv |-> k.cv, pref |-> k.pref,
                     itin |-> k.itin, status |-> "queued", tool |-> "none"]
  <2>1. k \in Packet /\ UserTurn(k.turn, k.cv)
    BY <1>3, MessageForTurn DEF CreateTasks, Working
  <2>2. CASE tasks' = Append(tasks, new)
    <3> HIDE DEF k
    <3>1. UserTurnThen(k.turn, k.cv)
      BY <1>1, <2>1, UserTurnStays
    <3>2. new \in Task /\ new.turn = k.turn /\ new.cv = k.cv
      BY <2>1 DEF Task, Packet, TaskStatus, ToolStatus
    <3> HIDE DEF new
    <3>3. tasks \in Seq(Task)
      BY DEF TypeOK, StoreTypeOK
    <3>4. /\ DOMAIN tasks' = 1..(Len(tasks) + 1) /\ Len(tasks) \in Nat
          /\ DOMAIN tasks = 1..Len(tasks)
          /\ \A t \in DOMAIN tasks : tasks'[t] = tasks[t]
          /\ tasks'[Len(tasks) + 1] = new
      BY <2>2, <3>2, <3>3, AppendedRow
    <3>5. ASSUME NEW t \in DOMAIN tasks
          PROVE  UserTurnThen(tasks'[t].turn, tasks'[t].cv)
      BY <1>1, <3>4, UserTurnStays DEF TurnInv, PlannedForTurns
    <3>6. \A t \in DOMAIN tasks' : t \in DOMAIN tasks \/ t = Len(tasks) + 1
      BY <3>4
    <3> QED
      BY <3>1, <3>2, <3>4, <3>5, <3>6 DEF TasksForTurns
  <2> QED
    BY <1>2, <1>3, <2>2 DEF CreateTasks, dbVars
<1>4. CASE ComposeConflict(a)
  <2> DEFINE stale == Ready(InHand(a).turn, InHand(a).cv)
  <2>1. tasks' = [t \in DOMAIN tasks |-> IF t \in stale
                    THEN [tasks[t] EXCEPT !.status = "discarded"]
                    ELSE tasks[t]]
    BY <1>4 DEF ComposeConflict
  <2> HIDE DEF stale
  <2> QED
    BY <1>1, <2>1, NewStatus, TasksStayForTurns DEF TurnInv
<1>5. CASE ~CreateTasks(a) /\ ~ComposeConflict(a)
  <2>1. UNCHANGED tasks
    BY <1>5 DEF AgentStep, AgentCrash, ReadStreams, ComposeNothing,
                ComposeReply, RebuildPacket, storeVars, dbVars
  <2> QED
    BY <1>2, <2>1
<1> QED
  BY <1>3, <1>4, <1>5
\* The events of a worker's transactions, which write the row of one task.
TaskEvents == {"task.running", "task.cancelled", "task.succeeded",
               "task.failed", "task.result.discarded"}

SettlesOne ==
  \E t \in DOMAIN tasks, status \in TaskStatus, tool \in ToolStatus,
     type \in TaskEvents :
    Settle(t, status, tool, type)

\* That is all a worker's step does to the tables.
LEMMA WorkerSettles ==
  ASSUME TypeOK, NEW w \in Workers,
         WorkerStep(w) \/ Raise(w) \/ WorkerCrash(w)
  PROVE  UNCHANGED dbVars \/ SettlesOne
<1> DEFINE t == workers[w].task
<1>1. UNCHANGED storeVars => UNCHANGED dbVars
  BY DEF storeVars
<1>2. ~On(w, "idle") => t \in DOMAIN tasks /\ tasks[t].tool \in ToolStatus
  BY TaskInHand
<1>3. ASSUME ~On(w, "idle"), NEW status \in TaskStatus, NEW tool \in ToolStatus,
             NEW type \in TaskEvents, Settle(t, status, tool, type)
      PROVE  SettlesOne
  BY <1>2, <1>3 DEF SettlesOne
<1>4. TaskEvents = {"task.running", "task.cancelled", "task.succeeded",
                    "task.failed", "task.result.discarded"}
  BY DEF TaskEvents
<1>5. /\ {"running", "cancelled", "succeeded", "discarded", "failed"}
            \subseteq TaskStatus
      /\ {"running", "cancelled", "succeeded", "discarded", "failed"}
            \subseteq ToolStatus
  BY DEF TaskStatus, ToolStatus
<1>6. ReceiveTask(w) \/ Raise(w) \/ WorkerCrash(w) => UNCHANGED dbVars
  BY DEF ReceiveTask, Raise, WorkerCrash
<1>7. CheckCancelled(w) \/ LoadToMark(w) \/ Execute(w) \/ LoadToCommit(w)
        \/ LoadToFail(w) => UNCHANGED storeVars
  BY DEF CheckCancelled, LoadToMark, Execute, LoadToCommit, LoadToFail, Load
<1>8. CASE StartTask(w)
  <2>1. ~On(w, "idle")
    BY <1>8 DEF StartTask, On
  <2>2. \/ Settle(t, "running", "running", "task.running")
        \/ Settle(t, "cancelled", tasks[t].tool, "task.cancelled")
        \/ UNCHANGED storeVars
    BY <1>8 DEF StartTask
  <2> QED
    BY <1>1, <1>2, <1>3, <1>4, <1>5, <2>1, <2>2
<1>9. CASE MarkCancelled(w)
  <2> DEFINE tool == IF tasks[t].tool = "running" THEN "cancelled" ELSE tasks[t].tool
  <2>1. ~On(w, "idle")
    BY <1>9 DEF MarkCancelled, On
  <2>2. Settle(t, "cancelled", tool, "task.cancelled") \/ UNCHANGED storeVars
    BY <1>9 DEF MarkCancelled
  <2>3. tool \in ToolStatus
    BY <1>2, <1>5, <2>1
  <2> HIDE DEF tool
  <2> QED
    BY <1>1, <1>3, <1>4, <1>5, <2>1, <2>2, <2>3
<1>10. CASE CommitResult(w)
  <2>1. ~On(w, "idle")
    BY <1>10 DEF CommitResult, On
  <2>2. \/ Settle(t, "discarded", "discarded", "task.result.discarded")
        \/ Settle(t, "succeeded", "succeeded", "task.succeeded")
    BY <1>10 DEF CommitResult
  <2> QED
    BY <1>3, <1>4, <1>5, <2>1, <2>2
<1>11. CASE RecordFailure(w)
  <2>1. ~On(w, "idle")
    BY <1>11 DEF RecordFailure, On
  <2>2. \/ Settle(t, "cancelled", "cancelled", "task.cancelled")
        \/ Settle(t, "failed", "failed", "task.failed")
        \/ UNCHANGED storeVars
    BY <1>11 DEF RecordFailure
  <2> QED
    BY <1>1, <1>3, <1>4, <1>5, <2>1, <2>2
<1> QED
  BY <1>1, <1>6, <1>7, <1>8, <1>9, <1>10, <1>11 DEF WorkerStep

\* What a worker writes of a task is for the turn the task is for.
LEMMA WorkerTurns ==
  ASSUME TypeOK, TurnInv, NEW w \in Workers,
         WorkerStep(w) \/ Raise(w) \/ WorkerCrash(w)
  PROVE  TurnsStep /\ RowsForTurns /\ TasksForTurns
<1>1. CASE UNCHANGED dbVars
  <2>1. TurnsStep /\ RowsForTurns
    BY <1>1, NoRows
  <2>2. DOMAIN tasks' = DOMAIN tasks /\ \A t \in DOMAIN tasks : SamePlan(t)
    BY <1>1 DEF dbVars, SamePlan
  <2> QED
    BY <2>1, <2>2, TasksStayForTurns DEF TurnsStep, TurnInv
<1>2. CASE SettlesOne
  <2>1. PICK t \in DOMAIN tasks, status \in TaskStatus, tool \in ToolStatus,
             type \in TaskEvents : Settle(t, status, tool, type)
    BY <1>2 DEF SettlesOne
  <2> DEFINE e == Event(type, <<t>>, tasks[t].turn, tasks[t].cv,
                        tasks[t].pref, {})
             events == TaskEvent(type, t)
  <2>2. /\ Emit(events, session.cv) /\ UNCHANGED turns
        /\ SettledAs(t, status, tool)
    BY <2>1, SettleRows DEF Settle
  <2>3. TurnsStep
    BY <2>2, SameTurns DEF SettledAs
  <2>4. UserTurnThen(tasks[t].turn, tasks[t].cv)
    BY <2>3, UserTurnStays DEF TurnsStep, TurnInv, PlannedForTurns
  <2>5. e.turn = tasks[t].turn /\ e.cv = tasks[t].cv
    BY DEF Event
  <2>6. events \in Seq(EventRow)
    BY TaskEventTypes DEF TaskEvents, EventTypes, OtherEvents, WorkEvents
  <2>7. events = IF Logged(type, <<t>>) THEN <<>> ELSE <<e>>
    BY DEF TaskEvent, Unless
  <2> HIDE DEF events, e
  <2>8. \A i \in 1..Len(events) : events[i] = e
    BY <2>7
  <2>9. RowsForTurns
    BY <2>2, <2>4, <2>5, <2>6, <2>8, RowNumbers, EmitForTurns
  <2>10. DOMAIN tasks' = DOMAIN tasks /\ \A u \in DOMAIN tasks : SamePlan(u)
    BY <2>2 DEF SettledAs, SamePlan
  <2> QED
    BY <2>3, <2>9, <2>10, TasksStayForTurns DEF TurnsStep, TurnInv
<1> QED
  BY <1>1, <1>2, WorkerSettles

\* What a publisher sends is for the turn of the event.
LEMMA PublisherTurns ==
  ASSUME TypeOK, TurnInv, NEW p \in Publishers,
         PublisherStep(p) \/ PublishFails(p) \/ PublisherCrash(p)
  PROVE  /\ UNCHANGED dbVars
         /\ stream'.plan \in Seq(TurnPackets)
         /\ stream'.compose \in Seq(TurnPackets)
<1>1. UNCHANGED dbVars
  BY DEF PublisherStep, PublishFails, PublisherCrash, FetchPending, Route,
         Announce, MarkPublished, storeVars
<1>2. /\ stream \in [plan : Seq(Packet), tasks : Seq(Nat), compose : Seq(Packet)]
      /\ stream.plan \in Seq(TurnPackets) /\ stream.compose \in Seq(TurnPackets)
  BY DEF TypeOK, StoreTypeOK, TurnInv, SentForTurns
<1>3. CASE Route(p)
  <2> DEFINE e == outbox[Current(p)]
  <2>1. Busy(p) /\ Routed(e)
    BY <1>3 DEF Route, Phase
  <2>2. e \in EventRow /\ UserTurn(e.turn, e.cv)
    BY <2>1, CurrentRow DEF TurnInv, LoggedForTurns
  <2>3. e.turn \in Nat /\ e.cv \in Nat /\ e.pref \in Nat
        /\ ConfirmedItinerary \in Nat
    BY <2>2, RowNumbers DEF EventRow
  <2>4. \/ XAdd("plan", BuildPacket(e.turn, e.cv, e.pref))
        \/ XAdd("tasks", Head(e.ref))
        \/ XAdd("compose", [turn |-> e.turn, cv |-> e.cv, pref |-> 0, itin |-> 0])
    BY <1>3 DEF Route, Routed
  <2> HIDE DEF e
  <2>5. /\ BuildPacket(e.turn, e.cv, e.pref) \in TurnPackets
        /\ [turn |-> e.turn, cv |-> e.cv, pref |-> 0, itin |-> 0] \in TurnPackets
    BY <2>2, <2>3 DEF BuildPacket, TurnPackets, Packet
  <2>6. \A k \in TurnPackets : /\ Append(stream.plan, k) \in Seq(TurnPackets)
                               /\ Append(stream.compose, k) \in Seq(TurnPackets)
    BY <1>2, AppendedRow
  <2>7. \/ \E k \in TurnPackets : XAdd("plan", k)
        \/ \E m : XAdd("tasks", m)
        \/ \E k \in TurnPackets : XAdd("compose", k)
    BY <2>4, <2>5
  <2> QED
    BY <1>2, <2>6, <2>7, <1>1 DEF XAdd
<1>4. CASE ~Route(p)
  <2>1. UNCHANGED stream
    BY <1>4 DEF PublisherStep, PublishFails, PublisherCrash, FetchPending,
                Announce, MarkPublished, storeVars, redisVars
  <2> QED
    BY <1>1, <1>2, <2>1
<1> QED
  BY <1>3, <1>4
\* A new turn has a context of its own.
LEMMA ContextsKept ==
  ASSUME TypeOK, TypeOK', TurnContexts, TurnsStep
  PROVE  TurnContexts'
<1>1. /\ session.cv \in Nat /\ session'.cv \in Nat /\ Len(turns) \in Nat
      /\ DOMAIN turns = 1..Len(turns) /\ session.cv <= session'.cv
  BY RowNumbers DEF TypeOK, StoreTypeOK, TurnsStep
<1>2. \A n \in DOMAIN turns' : turns'[n].cv \in Nat
  <2>1. turns' \in Seq(Turn)
    BY DEF TypeOK, StoreTypeOK
  <2>2. \A n \in DOMAIN turns' : turns'[n] \in Turn
    BY <2>1, ElementOfSeq, LenProperties
  <2> QED
    BY <2>2 DEF Turn
<1>3. ASSUME NEW n \in DOMAIN turns'
      PROVE  \/ /\ n \in DOMAIN turns /\ turns'[n].kind = turns[n].kind
                /\ turns'[n].cv = turns[n].cv /\ turns[n].cv <= session.cv
             \/ /\ n = Len(turns) + 1
                /\ turns'[n].kind = "user_text" => turns'[n].cv > session.cv
                /\ turns'[n].cv <= session'.cv
  <2>1. CASE n \in DOMAIN turns
    BY <2>1 DEF TurnsStep, TurnsKept, TurnContexts
  <2>2. CASE n \notin DOMAIN turns
    BY <1>1, <1>2, <2>2 DEF TurnsStep
  <2> QED
    BY <2>1, <2>2
<1>4. \A n \in DOMAIN turns' : turns'[n].cv <= session'.cv
  BY <1>1, <1>2, <1>3
<1>5. ASSUME NEW m \in DOMAIN turns', NEW n \in DOMAIN turns',
             turns'[m].kind = "user_text", turns'[n].kind = "user_text",
             turns'[m].cv = turns'[n].cv
      PROVE  m = n
  <2>1. CASE m \in DOMAIN turns /\ n \in DOMAIN turns
    BY <1>5, <2>1 DEF TurnContexts, TurnsStep, TurnsKept
  <2>2. CASE m \notin DOMAIN turns \/ n \notin DOMAIN turns
    BY <1>1, <1>2, <1>3, <1>5, <2>2
  <2> QED
    BY <2>1, <2>2
<1> QED
  BY <1>4, <1>5 DEF TurnContexts

\* Every step keeps what travels tied to its turn.
LEMMA TurnsStayTied ==
  ASSUME TypeOK, TypeOK', TurnInv, RowsStay, TurnsStep, RowsForTurns,
         TasksForTurns,
         stream'.plan \in Seq(TurnPackets), stream'.compose \in Seq(TurnPackets),
         \A a \in Agents : agents'[a] \in Seq(TurnMessages)
  PROVE  TurnInv'
<1>1. TurnPackets \subseteq TurnPackets' /\ TurnMessages \subseteq TurnMessages'
  BY PacketsStay DEF TurnsStep
<1>2. LoggedForTurns'
  <2> SUFFICES ASSUME NEW i \in DOMAIN outbox', Routed(outbox[i])'
               PROVE  UserTurnThen(outbox'[i].turn, outbox'[i].cv)
    BY DEF LoggedForTurns, UserTurn, UserTurnThen
  <2>1. CASE i \in DOMAIN outbox
    <3>1. outbox'[i] = outbox[i]
      BY <2>1 DEF RowsStay
    <3>2. UserTurn(outbox[i].turn, outbox[i].cv)
      BY <2>1, <3>1 DEF TurnInv, LoggedForTurns, Routed
    <3> QED
      BY <3>1, <3>2, UserTurnStays DEF TurnsStep
  <2>2. CASE i \notin DOMAIN outbox
    BY <2>2 DEF RowsForTurns, Routed
  <2> QED
    BY <2>1, <2>2
<1>3. SentForTurns'
  BY <1>1, LargerSeq DEF SentForTurns
<1>4. InHandForTurns'
  BY <1>1, LargerSeq DEF InHandForTurns
<1>5. PlannedForTurns'
  BY DEF PlannedForTurns, TasksForTurns, UserTurn, UserTurnThen
<1>6. TurnContexts'
  BY ContextsKept DEF TurnInv
<1> QED
  BY <1>2, <1>3, <1>4, <1>5, <1>6 DEF TurnInv

\* The steps of all processes together.
LEMMA StepTurns ==
  ASSUME TypeOK, TypeOK', TurnInv, [Next]_vars
  PROVE  TurnsStep /\ TurnInv'
<1>1. RowsStay
  BY RowsAlwaysStay
<1>2. /\ stream.plan \in Seq(TurnPackets) /\ stream.compose \in Seq(TurnPackets)
      /\ \A a \in Agents : agents[a] \in Seq(TurnMessages)
  BY DEF TurnInv, SentForTurns, InHandForTurns
<1>3. ASSUME UNCHANGED <<stream, agents>>, TurnsStep, RowsForTurns, TasksForTurns
      PROVE  TurnsStep /\ TurnInv'
  BY <1>1, <1>2, <1>3, TurnsStayTied
<1>4. UNCHANGED tasks /\ TurnsStep => TasksForTurns
  BY TasksStayForTurns DEF TurnsStep, TurnInv, SamePlan
<1>5. UNCHANGED dbVars => TurnsStep /\ RowsForTurns /\ TasksForTurns
  BY <1>4, NoRows DEF dbVars
<1>6. CASE UNCHANGED vars
  BY <1>3, <1>5, <1>6 DEF vars, storeVars, redisVars, processVars
<1>7. ASSUME NEW r \in Requests, HandleRequest(r)
      PROVE  TurnsStep /\ TurnInv'
  <2>1. TurnsStep /\ RowsForTurns /\ UNCHANGED agents
    BY <1>7, GatewayTurns DEF HandleRequest
  <2>2. Rewrites /\ UNCHANGED stream
    BY <1>7, GatewayRewrites DEF HandleRequest, GatewayStep, Receive,
       FinalizeTurn, UpdatePreferences, RegisterInterrupt, WriteCancelKeys,
       UniqueViolation, Accept, storeVars, redisVars
  <2>3. TasksForTurns
    BY <2>1, <2>2, TasksStayForTurns DEF Rewrites, TurnsStep, TurnInv
  <2> QED
    BY <1>3, <2>1, <2>2, <2>3
<1>8. ASSUME NEW p \in Publishers, UNCHANGED agents,
             PublisherStep(p) \/ PublishFails(p) \/ PublisherCrash(p)
      PROVE  TurnsStep /\ TurnInv'
  BY <1>1, <1>2, <1>5, <1>8, PublisherTurns, TurnsStayTied
<1>9. ASSUME NEW a \in Agents, AgentStep(a) \/ AgentCrash(a)
      PROVE  TurnsStep /\ TurnInv'
  <2>1. UNCHANGED stream
    BY <1>9 DEF AgentStep, AgentCrash, ReadStreams, CreateTasks, ComposeNothing,
       ComposeReply, ComposeConflict, RebuildPacket, storeVars, redisVars
  <2>2. \A b \in Agents : agents'[b] \in Seq(TurnMessages)
    BY <1>9, AgentMessages
  <2> QED
    BY <1>1, <1>2, <1>9, <2>1, <2>2, AgentTurns, AgentTasks, TurnsStayTied
<1>10. ASSUME NEW w \in Workers, UNCHANGED agents,
              WorkerStep(w) \/ Raise(w) \/ WorkerCrash(w)
       PROVE  TurnsStep /\ TurnInv'
  <2>1. UNCHANGED stream
    BY <1>10 DEF WorkerStep, Raise, WorkerCrash, ReceiveTask, StartTask,
       CheckCancelled, LoadToMark, MarkCancelled, Execute, LoadToCommit,
       CommitResult, LoadToFail, RecordFailure, Load, Settle, storeVars,
       redisVars
  <2> QED
    BY <1>3, <1>10, <2>1, WorkerTurns
<1>11. CASE ConfirmByHand
  <2>1. UNCHANGED <<session, turns, tasks, outbox, stream, agents>>
    BY <1>11 DEF ConfirmByHand, redisVars, processVars
  <2>2. TurnsStep /\ RowsForTurns
    BY <2>1, SameTurns DEF RowsForTurns
  <2> QED
    BY <1>3, <1>4, <2>1, <2>2
<1> QED
  BY <1>6, <1>7, <1>8, <1>9, <1>10, <1>11
     DEF Next, Publish, RunAgent, RunWorker, GoWrong

\* Whatever travels names a user turn in the context that turn made.
LEMMA TurnsHold == Spec => []TurnInv
<1>1. Init => TurnInv
  <2> SUFFICES ASSUME Init PROVE TurnInv
    OBVIOUS
  <2>1. /\ DOMAIN outbox = {1} /\ outbox[1].type = "session.created"
        /\ turns = <<>> /\ tasks = <<>>
        /\ stream.plan = <<>> /\ stream.compose = <<>>
        /\ \A a \in Agents : agents[a] = <<>>
    BY DEF Init, StoreInit, AgentInit, Event
  <2>2. LoggedForTurns /\ PlannedForTurns /\ TurnContexts
    BY <2>1 DEF LoggedForTurns, PlannedForTurns, TurnContexts, Routed
  <2>3. SentForTurns /\ InHandForTurns
    BY <2>1, EmptySeq DEF SentForTurns, InHandForTurns
  <2> QED
    BY <2>2, <2>3 DEF TurnInv
<1>2. TypeOK /\ TypeOK' /\ TurnInv /\ [Next]_vars => TurnInv'
  BY StepTurns
<1> QED
  BY <1>1, <1>2, TypeCorrect, PTL DEF Spec
-----------------------------------------------------------------------------
(* What becomes of results.                                                *)

\* No task is lost or planned anew under its number.
TasksKept == \A t \in DOMAIN tasks : t \in DOMAIN tasks' /\ SamePlan(t)

\* No step of any process loses or replans a task.
LEMMA TasksAlwaysKept ==
  ASSUME TypeOK, ExecutionInv, [Next]_vars
  PROVE  TasksKept
<1>1. CASE Rewrites
  BY <1>1 DEF Rewrites, TasksKept
<1>2. CASE Plans
  <2>1. DOMAIN tasks = 1..Len(tasks) /\ Len(tasks) \in Nat
    BY RowNumbers
  <2>2. /\ DOMAIN tasks' = 1..(Len(tasks) + 1)
        /\ \A t \in DOMAIN tasks : tasks'[t] = tasks[t]
    BY <1>2, PlannedRow
  <2> QED
    BY <2>1, <2>2 DEF TasksKept, SamePlan
<1>3. ASSUME NEW w \in Workers, Moves(w) \/ Starts(w) \/ Cancels(w) \/ Ends(w)
      PROVE  TasksKept
  <2>1. ASSUME NEW t, NEW status, NEW tool, SettledAs(t, status, tool)
        PROVE  TasksKept
    BY <2>1 DEF SettledAs, TasksKept, SamePlan
  <2>2. CASE Moves(w)
    BY <2>2 DEF Moves, TasksKept, SamePlan
  <2> QED
    BY <1>3, <2>1, <2>2 DEF Starts, Cancels, Ends
<1> QED
  BY <1>1, <1>2, <1>3, TaskSteps

\* The composer gives up results for an itinerary somebody else confirmed.
Conflicting(n, cv) == Composable(n, cv) /\ ~TargetsConfirmed(n, cv)

GivesUp(t) ==
  \E n, cv : Conflicting(n, cv) /\ t \in Ready(n, cv)

\* No worker's late transaction and no interrupt takes an accepted result
\* back: a worker settles a task whose call is not made or still runs.
LEMMA ResultStays ==
  ASSUME TypeOK, ExecutionInv, [Next]_vars, NEW t \in DOMAIN tasks,
         tasks[t].status = "succeeded"
  PROVE  tasks'[t].status = "succeeded" \/ GivesUp(t)
<1>1. UNCHANGED tasks => tasks'[t].status = "succeeded"
  OBVIOUS
<1>2. UNCHANGED storeVars => UNCHANGED tasks
  BY DEF storeVars, dbVars
<1>3. tasks[t].tool = "succeeded"
  BY DEF ExecutionInv, SucceededRan
<1>4. ASSUME NEW r \in Requests, GatewayStep(r)
      PROVE  tasks'[t].status = "succeeded"
  <2>1. CASE RegisterInterrupt(r)
    <3> DEFINE ids == Interruptible(requests[r].arg)
    <3>1. \/ UNCHANGED tasks
          \/ tasks' = [u \in DOMAIN tasks |->
               IF u \in ids THEN [tasks[u] EXCEPT !.status = "cancel_requested"]
               ELSE tasks[u]]
      BY <1>2, <2>1 DEF RegisterInterrupt, UniqueViolation
    <3>2. t \notin ids
      BY DEF Interruptible
    <3> HIDE DEF ids
    <3> QED
      BY <1>1, <3>1, <3>2, NewStatus
  <2>2. CASE ~RegisterInterrupt(r)
    BY <1>1, <1>2, <1>4, <2>2 DEF GatewayStep, Receive, FinalizeTurn,
       UpdatePreferences, WriteCancelKeys, UniqueViolation, dbVars
  <2> QED
    BY <2>1, <2>2
<1>5. ASSUME NEW p \in Publishers,
             PublisherStep(p) \/ PublishFails(p) \/ PublisherCrash(p)
      PROVE  tasks'[t].status = "succeeded"
  BY <1>1, <1>5 DEF PublisherStep, PublishFails, PublisherCrash, FetchPending,
     Route, Announce, MarkPublished, storeVars, dbVars
<1>6. ASSUME NEW a \in Agents, AgentStep(a) \/ AgentCrash(a)
      PROVE  tasks'[t].status = "succeeded" \/ GivesUp(t)
  <2>1. CASE ComposeConflict(a)
    <3> DEFINE n     == InHand(a).turn
               cv    == InHand(a).cv
               stale == Ready(n, cv)
    <3>1. /\ tasks' = [u \in DOMAIN tasks |->
               IF u \in stale THEN [tasks[u] EXCEPT !.status = "discarded"]
               ELSE tasks[u]]
          /\ Conflicting(n, cv)
      BY <2>1 DEF ComposeConflict, Conflicting
    <3>2. t \in stale => GivesUp(t)
      BY <3>1 DEF GivesUp
    <3> HIDE DEF stale
    <3> QED
      BY <3>1, <3>2, NewStatus
  <2>2. CASE CreateTasks(a)
    <3>1. UNCHANGED tasks \/ \E new : tasks' = Append(tasks, new)
      BY <2>2 DEF CreateTasks, dbVars
    <3>2. tasks \in Seq(Task) /\ Len(tasks) \in Nat /\ t \in 1..Len(tasks)
      BY RowNumbers DEF TypeOK, StoreTypeOK
    <3>3. \A new : Append(tasks, new)[t] = tasks[t]
      BY <3>2
    <3> QED
      BY <3>1, <3>3
  <2>3. CASE ~ComposeConflict(a) /\ ~CreateTasks(a)
    BY <1>1, <1>6, <2>3 DEF AgentStep, AgentCrash, ReadStreams, ComposeNothing,
       ComposeReply, RebuildPacket, storeVars, dbVars
  <2> QED
    BY <2>1, <2>2, <2>3
<1>7. ASSUME NEW w \in Workers, WorkerStep(w) \/ Raise(w) \/ WorkerCrash(w)
      PROVE  tasks'[t].status = "succeeded"
  <2>1. Moves(w) \/ Starts(w) \/ Cancels(w) \/ Ends(w)
    BY <1>7, WorkerMoves DEF ExecutionInv
  <2>2. ASSUME NEW status, NEW tool, SettledAs(workers[w].task, status, tool),
               t # workers[w].task
        PROVE  tasks'[t].status = "succeeded"
    BY <2>2 DEF SettledAs
  <2>3. CASE Starts(w)
    BY <1>3, <2>2, <2>3 DEF Starts
  <2>4. CASE Cancels(w)
    <3>1. Overtaken(workers[w].task)
      BY <2>4 DEF Cancels, ExecutionInv, CancelledOvertaken
    <3> QED
      BY <2>2, <2>4, <3>1 DEF Cancels, Overtaken
  <2>5. CASE Ends(w)
    <3>1. tasks[workers[w].task].tool = "running"
      BY <2>5 DEF Ends, ExecutionInv, ExecutorsRun
    <3> QED
      BY <1>3, <2>2, <2>5, <3>1 DEF Ends
  <2> QED
    BY <1>1, <2>1, <2>3, <2>4, <2>5 DEF Moves
<1>8. CASE ConfirmByHand \/ UNCHANGED vars
  BY <1>1, <1>2, <1>8 DEF ConfirmByHand, vars
<1> QED
  BY <1>4, <1>5, <1>6, <1>7, <1>8
     DEF Next, HandleRequest, Publish, RunAgent, RunWorker, GoWrong
-----------------------------------------------------------------------------
(* Itineraries and replies.                                                *)

\* The results an itinerary rests on are for a turn that has its reply, which
\* keeps the composer from giving them up.
SourcesReplied ==
  \A v \in DOMAIN itins : \A t \in itins[v].sources :
    Replied(tasks[t].turn, tasks[t].cv)

\* A composed itinerary rests on something.
Composed(v) == v \in DOMAIN itins /\ itins[v].sources # {}

\* A reply is to a user turn, is in the log and came with an itinerary.
RepliesBacked ==
  \A m \in DOMAIN turns :
    turns[m].kind = "agent_reply" =>
      /\ UserTurn(turns[m].parent, turns[m].cv)
      /\ Replied(turns[m].parent, turns[m].cv)
      /\ \E v \in DOMAIN itins : Composed(v) /\ itins[v].cv = turns[m].cv

OneReply ==
  \A m, n \in DOMAIN turns :
    /\ turns[m].kind = "agent_reply" /\ turns[n].kind = "agent_reply"
    /\ turns[m].parent = turns[n].parent
    => m = n

OneItinerary ==
  \A v, u \in DOMAIN itins :
    Composed(v) /\ Composed(u) /\ itins[v].cv = itins[u].cv => v = u

ReplyInv ==
  /\ ItineraryProvenance
  /\ SourcesReplied
  /\ RepliesBacked
  /\ OneReply
  /\ OneItinerary

\* A step that adds no reply adds at most an itinerary made by hand.
NoReply ==
  /\ UNCHANGED itins \/ manual < MaxManual
  /\ \A n \in DOMAIN turns' :
       turns'[n].kind = "agent_reply" => n \in DOMAIN turns
  /\ \A v \in DOMAIN itins : v \in DOMAIN itins' /\ itins'[v] = itins[v]
  /\ \A v \in DOMAIN itins' : v \in DOMAIN itins \/ itins'[v].sources = {}

RepliedThen(n, cv) ==
  \E i \in DOMAIN outbox' :
    outbox'[i].type = "agent.reply.created" /\ outbox'[i].ref = <<n, cv>>

\* A reply is added together with the itinerary composed for it.
Composes(n, cv) ==
  /\ n \in Nat /\ UserTurn(n, cv)
  /\ Composable(n, cv) /\ TargetsConfirmed(n, cv)
  /\ itins' = Append(itins, [cv |-> cv, pref |-> ActivePref,
                             sources |-> Ready(n, cv)])
  /\ turns' = Append(turns, [kind |-> "agent_reply", status |-> "completed",
                             cv |-> cv, parent |-> n])
  /\ UNCHANGED tasks /\ session'.cv = session.cv
  /\ RepliedThen(n, cv)

\* A reply in the log stays there.
LEMMA ReplyStays ==
  ASSUME RowsStay, NEW n, NEW cv, Replied(n, cv)
  PROVE  RepliedThen(n, cv)
BY DEF RowsStay, Replied, RepliedThen, Logged

\* The composer's transaction puts the reply into the log.
LEMMA ReplyIsLogged ==
  ASSUME TypeOK, TurnInv, NEW a \in Agents, ComposeReply(a)
  PROVE  Composes(InHand(a).turn, InHand(a).cv)
<1> DEFINE n       == InHand(a).turn
           cv      == InHand(a).cv
           sources == Ready(n, cv)
           e1 == Event("itinerary.confirmed", <<n, cv>>, n, cv, ActivePref,
                       sources)
           e2 == Event("agent.reply.created", <<n, cv>>, n, cv, ActivePref,
                       sources)
<1>1. /\ agents[a] # <<>> /\ Emit(<<e1, e2>>, session.cv) /\ UNCHANGED tasks
      /\ Composable(n, cv) /\ TargetsConfirmed(n, cv)
      /\ itins' = Append(itins, [cv |-> cv, pref |-> ActivePref,
                                 sources |-> sources])
      /\ turns' = Append(turns, [kind |-> "agent_reply", status |-> "completed",
                                 cv |-> cv, parent |-> n])
  BY DEF ComposeReply, Working
<1>2. n \in Nat /\ cv \in Nat /\ UserTurn(n, cv)
  BY <1>1, MessageInHand, MessageForTurn
<1>3. sources \in SUBSET Nat
  <2>1. sources \subseteq DOMAIN tasks
    BY DEF Ready
  <2> QED
    BY <2>1, TaskSetFinite
<1>4. session.cv \in Nat /\ ActivePref \in Nat
  BY RowNumbers
<1>5. session'.cv = session.cv
  BY <1>1, EmittedContext
<1>6. RepliedThen(n, cv)
  <2> HIDE DEF n, cv, sources
  <2>1. /\ "itinerary.confirmed" \in EventTypes
        /\ "agent.reply.created" \in EventTypes
        /\ <<n, cv>> \in Seq(ClientIds \cup Nat)
    BY <1>2 DEF EventTypes, WorkEvents
  <2>2. /\ e1 \in EventRow /\ e2 \in EventRow
        /\ e2.type = "agent.reply.created" /\ e2.ref = <<n, cv>>
    BY <1>2, <1>3, <1>4, <2>1, EventType DEF Event
  <2> HIDE DEF e1, e2
  <2>3. /\ <<e1, e2>> \in Seq(EventRow) /\ 2 \in 1..Len(<<e1, e2>>)
        /\ <<e1, e2>>[2] = e2
    BY <2>2
  <2>4. /\ Len(outbox) + 2 \in DOMAIN outbox'
        /\ outbox'[Len(outbox) + 2].type = e2.type
        /\ outbox'[Len(outbox) + 2].ref = e2.ref
    BY <1>1, <1>4, <2>3, EmittedRows
  <2> QED
    BY <2>2, <2>4 DEF RepliedThen
<1> QED
  BY <1>1, <1>2, <1>5, <1>6 DEF Composes

\* Nobody else replies.
LEMMA ReplySteps ==
  ASSUME TypeOK, TypeOK', TurnInv, [Next]_vars
  PROVE  NoReply \/ \E n, cv : Composes(n, cv)
<1>1. UNCHANGED <<turns, itins>> => NoReply
  BY DEF NoReply
<1>2. UNCHANGED dbVars => NoReply
  BY <1>1 DEF dbVars
<1>3. ASSUME NEW r \in Requests, HandleRequest(r)
      PROVE  NoReply
  <2>1. UNCHANGED itins
    BY <1>3 DEF HandleRequest, GatewayStep, Receive, FinalizeTurn,
       UpdatePreferences, RegisterInterrupt, WriteCancelKeys, UniqueViolation,
       Accept, storeVars, dbVars
  <2>2. ASSUME NEW events, NEW ids, Accept(r, events, ids)
        PROVE  session'.cv = session.cv + 1
    BY <2>2, EmittedContext DEF Accept
  <2>3. UNCHANGED turns \/ session'.cv = session.cv + 1
    BY <1>3, <2>2 DEF HandleRequest, GatewayStep, Receive, FinalizeTurn,
       UpdatePreferences, RegisterInterrupt, WriteCancelKeys, UniqueViolation,
       storeVars, dbVars
  <2>4. CASE session'.cv = session.cv + 1
    <3>1. TurnsStep /\ session.cv \in Nat
      BY <1>3, GatewayTurns, RowNumbers DEF HandleRequest
    <3>2. session'.cv # session.cv
      BY <2>4, <3>1
    <3> QED
      BY <2>1, <3>1, <3>2 DEF TurnsStep, NoReply
  <2> QED
    BY <1>1, <2>1, <2>3, <2>4
<1>4. ASSUME NEW p \in Publishers,
             PublisherStep(p) \/ PublishFails(p) \/ PublisherCrash(p)
      PROVE  NoReply
  BY <1>2, <1>4, PublisherTurns
<1>5. ASSUME NEW a \in Agents, AgentStep(a) \/ AgentCrash(a)
      PROVE  NoReply \/ \E n, cv : Composes(n, cv)
  <2>1. CASE ComposeReply(a)
    BY <2>1, ReplyIsLogged
  <2>2. CASE ~ComposeReply(a)
    BY <1>1, <1>5, <2>2 DEF AgentStep, AgentCrash, ReadStreams, ComposeNothing,
       CreateTasks, ComposeConflict, RebuildPacket, storeVars, dbVars
  <2> QED
    BY <2>1, <2>2
<1>6. ASSUME NEW w \in Workers, WorkerStep(w) \/ Raise(w) \/ WorkerCrash(w)
      PROVE  NoReply
  BY <1>1, <1>2, <1>6, WorkerSettles DEF SettlesOne, Settle
<1>7. CASE ConfirmByHand
  <2> DEFINE new == [cv |-> session.cv, pref |-> ActivePref, sources |-> {}]
  <2>1. UNCHANGED turns /\ itins' = Append(itins, new) /\ manual < MaxManual
    BY <1>7 DEF ConfirmByHand
  <2>2. itins \in Seq(Itinerary) /\ new \in Itinerary /\ new.sources = {}
    BY RowNumbers DEF TypeOK, StoreTypeOK, Itinerary
  <2> HIDE DEF new
  <2>3. /\ DOMAIN itins' = 1..(Len(itins) + 1) /\ Len(itins) \in Nat
        /\ DOMAIN itins = 1..Len(itins)
        /\ \A v \in DOMAIN itins : itins'[v] = itins[v]
        /\ itins'[Len(itins) + 1] = new
    BY <2>1, <2>2, AppendedRow
  <2>4. /\ \A v \in DOMAIN itins : v \in DOMAIN itins' /\ itins'[v] = itins[v]
        /\ \A v \in DOMAIN itins' : v \in DOMAIN itins \/ itins'[v].sources = {}
    BY <2>2, <2>3
  <2> QED
    BY <2>1, <2>4, Zenon DEF NoReply
<1>8. CASE UNCHANGED vars
  BY <1>1, <1>8 DEF vars, storeVars, dbVars
<1> QED
  BY <1>3, <1>4, <1>5, <1>6, <1>7, <1>8
     DEF Next, Publish, RunAgent, RunWorker, GoWrong
\* The result t that itinerary v rests on, in the next state.
BacksThen(v, t) ==
  /\ t \in DOMAIN tasks'
  /\ turns'[tasks'[t].turn].cv = itins'[v].cv
  /\ tasks'[t].cv = itins'[v].cv /\ tasks'[t].pref = itins'[v].pref
  /\ tasks'[t].itin = v - 1
  /\ tasks'[t].status = "succeeded" /\ tasks'[t].tool = "succeeded"
  /\ RepliedThen(tasks'[t].turn, tasks'[t].cv)

\* The results of an itinerary stay: the composer could give one up only while
\* its turn has no reply.
LEMMA SourceStays ==
  ASSUME TypeOK, ExecutionInv, ExecutionInv', TurnInv, ReplyInv, [Next]_vars,
         TurnsKept, RowsStay, TasksKept,
         NEW v \in DOMAIN itins, itins'[v] = itins[v], NEW t \in itins[v].sources
  PROVE  BacksThen(v, t)
<1>1. /\ t \in DOMAIN tasks
      /\ turns[tasks[t].turn].cv = itins[v].cv
      /\ tasks[t].cv = itins[v].cv /\ tasks[t].pref = itins[v].pref
      /\ tasks[t].itin = v - 1 /\ tasks[t].status = "succeeded"
      /\ Replied(tasks[t].turn, tasks[t].cv)
  BY DEF ReplyInv, ItineraryProvenance, SourcesReplied
<1>2. /\ t \in DOMAIN tasks'
      /\ tasks'[t].turn = tasks[t].turn /\ tasks'[t].cv = tasks[t].cv
      /\ tasks'[t].pref = tasks[t].pref /\ tasks'[t].itin = tasks[t].itin
  BY <1>1 DEF TasksKept, SamePlan
<1>3. turns'[tasks[t].turn].cv = turns[tasks[t].turn].cv
  BY <1>1 DEF TurnInv, PlannedForTurns, UserTurn, TurnsKept
<1>4. ~GivesUp(t)
  BY <1>1 DEF GivesUp, Conflicting, Composable, Ready
<1>5. tasks'[t].status = "succeeded"
  BY <1>1, <1>4, ResultStays
<1>6. tasks'[t].tool = "succeeded"
  BY <1>2, <1>5 DEF ExecutionInv, SucceededRan
<1>7. RepliedThen(tasks'[t].turn, tasks'[t].cv)
  BY <1>1, <1>2, ReplyStays
<1> QED
  BY <1>1, <1>2, <1>3, <1>5, <1>6, <1>7 DEF BacksThen

\* What is known of every result of every itinerary.
LEMMA AllBacked ==
  ASSUME \A v \in DOMAIN itins' : \A t \in itins'[v].sources : BacksThen(v, t)
  PROVE  ItineraryProvenance' /\ SourcesReplied'
BY DEF BacksThen, ItineraryProvenance, SourcesReplied, RepliedThen, Replied,
       Logged

\* What RepliesBacked says of reply m, in the next state.
BackedThen(m) ==
  /\ UserTurnThen(turns'[m].parent, turns'[m].cv)
  /\ RepliedThen(turns'[m].parent, turns'[m].cv)
  /\ \E v \in DOMAIN itins' :
       itins'[v].sources # {} /\ itins'[v].cv = turns'[m].cv

\* An old reply keeps its turn, its row and its itinerary.
LEMMA ReplyKept ==
  ASSUME ReplyInv, TurnsKept, RowsStay,
         \A v \in DOMAIN itins : v \in DOMAIN itins' /\ itins'[v] = itins[v],
         NEW m \in DOMAIN turns, turns'[m].kind = "agent_reply"
  PROVE  BackedThen(m)
<1>1. /\ turns[m].kind = "agent_reply" /\ turns'[m].cv = turns[m].cv
      /\ turns'[m].parent = turns[m].parent
  BY DEF TurnsKept
<1>2. /\ UserTurn(turns[m].parent, turns[m].cv)
      /\ Replied(turns[m].parent, turns[m].cv)
      /\ \E v \in DOMAIN itins : Composed(v) /\ itins[v].cv = turns[m].cv
  BY <1>1 DEF ReplyInv, RepliesBacked
<1>3. /\ UserTurnThen(turns[m].parent, turns[m].cv)
      /\ RepliedThen(turns[m].parent, turns[m].cv)
  BY <1>2, UserTurnStays, ReplyStays
<1> QED
  BY <1>1, <1>2, <1>3 DEF BackedThen, Composed

\* What is known of every reply.
LEMMA AllReplies ==
  ASSUME \A m \in DOMAIN turns' :
           turns'[m].kind = "agent_reply" => BackedThen(m)
  PROVE  RepliesBacked'
BY DEF BackedThen, RepliesBacked, UserTurn, UserTurnThen, Replied, RepliedThen,
       Logged, Composed

\* Steps that add no reply keep what is known of itineraries and replies.
LEMMA NoReplyKeeps ==
  ASSUME TypeOK, ExecutionInv, ExecutionInv', TurnInv, ReplyInv, [Next]_vars,
         TurnsKept, RowsStay, TasksKept, NoReply
  PROVE  ReplyInv'
<1>1. /\ \A v \in DOMAIN itins : v \in DOMAIN itins' /\ itins'[v] = itins[v]
      /\ \A v \in DOMAIN itins' :
           itins'[v].sources # {} => v \in DOMAIN itins /\ Composed(v)
      /\ \A n \in DOMAIN turns' :
           turns'[n].kind = "agent_reply" =>
             /\ n \in DOMAIN turns /\ turns[n].kind = "agent_reply"
             /\ turns'[n].parent = turns[n].parent
  BY DEF NoReply, Composed, TurnsKept
<1>2. ItineraryProvenance' /\ SourcesReplied'
  <2>1. \A v \in DOMAIN itins' : \A t \in itins'[v].sources : BacksThen(v, t)
    BY <1>1, SourceStays
  <2> QED
    BY <2>1, AllBacked
<1>3. RepliesBacked'
  BY <1>1, ReplyKept, AllReplies
<1>4. OneReply'
  BY <1>1 DEF ReplyInv, OneReply
<1>5. OneItinerary'
  BY <1>1 DEF ReplyInv, OneItinerary, Composed
<1> QED
  BY <1>2, <1>3, <1>4, <1>5 DEF ReplyInv

\* A turn that is composed for had neither reply nor itinerary: both would be
\* in the log with its number and context.
LEMMA FirstReply ==
  ASSUME TurnInv, ReplyInv, NEW n, NEW cv, UserTurn(n, cv), ~Replied(n, cv)
  PROVE  /\ \A m \in DOMAIN turns :
              turns[m].kind = "agent_reply" => turns[m].parent # n
         /\ \A v \in DOMAIN itins : Composed(v) => itins[v].cv # cv
<1>1. ASSUME NEW m \in DOMAIN turns, turns[m].kind = "agent_reply",
             turns[m].parent = n
      PROVE  FALSE
  <2>1. UserTurn(n, turns[m].cv) /\ Replied(n, turns[m].cv)
    BY <1>1 DEF ReplyInv, RepliesBacked
  <2> QED
    BY <2>1 DEF UserTurn
<1>2. ASSUME NEW v \in DOMAIN itins, Composed(v), itins[v].cv = cv
      PROVE  FALSE
  <2>1. PICK t \in itins[v].sources : TRUE
    BY <1>2 DEF Composed
  <2>2. /\ t \in DOMAIN tasks /\ tasks[t].cv = cv
        /\ Replied(tasks[t].turn, tasks[t].cv)
    BY <1>2 DEF ReplyInv, ItineraryProvenance, SourcesReplied
  <2>3. UserTurn(tasks[t].turn, cv)
    BY <2>2 DEF TurnInv, PlannedForTurns
  <2>4. tasks[t].turn = n
    BY <2>3 DEF UserTurn, TurnInv, TurnContexts
  <2> QED
    BY <2>2, <2>4
<1> QED
  BY <1>1, <1>2
\* A reply and its itinerary are the turn's first, and rest on its results.
LEMMA ComposesKeeps ==
  ASSUME TypeOK, TypeOK', ExecutionInv, ExecutionInv', TurnInv, ReplyInv,
         [Next]_vars, TurnsKept, RowsStay, TasksKept,
         NEW n, NEW cv, Composes(n, cv)
  PROVE  ReplyInv'
<1> DEFINE sources == Ready(n, cv)
           i == [cv |-> cv, pref |-> ActivePref, sources |-> sources]
           u == [kind |-> "agent_reply", status |-> "completed", cv |-> cv,
                 parent |-> n]
<1>1. /\ n \in Nat /\ UserTurn(n, cv) /\ ~Replied(n, cv) /\ session.cv = cv
      /\ sources # {} /\ RepliedThen(n, cv) /\ UNCHANGED tasks
      /\ itins' = Append(itins, i) /\ turns' = Append(turns, u)
      /\ \A t \in sources :
           /\ t \in DOMAIN tasks /\ tasks[t].turn = n /\ tasks[t].cv = cv
           /\ tasks[t].pref = ActivePref /\ tasks[t].status = "succeeded"
           /\ tasks[t].tool = "succeeded" /\ tasks[t].itin = ConfirmedItinerary
  BY DEF Composes, Composable, TargetsConfirmed, Ready
<1>2. /\ itins \in Seq(Itinerary) /\ turns \in Seq(Turn)
      /\ session.cv \in Nat /\ ActivePref \in Nat
  BY RowNumbers DEF TypeOK, StoreTypeOK
<1>3. sources \in SUBSET Nat
  BY <1>1, TaskSetFinite
<1> HIDE DEF sources
<1>4. /\ i \in Itinerary /\ i.cv = cv /\ i.pref = ActivePref
      /\ i.sources = sources
      /\ u \in Turn /\ u.kind = "agent_reply" /\ u.cv = cv /\ u.parent = n
  BY <1>1, <1>2, <1>3 DEF Itinerary, Turn, TurnStatus
<1> HIDE DEF i, u
<1>5. /\ Len(itins) \in Nat /\ DOMAIN itins = 1..Len(itins)
      /\ DOMAIN itins' = 1..(Len(itins) + 1)
      /\ \A v \in DOMAIN itins : itins'[v] = itins[v]
      /\ itins'[Len(itins) + 1] = i
  BY <1>1, <1>2, <1>4, AppendedRow
<1>6. /\ Len(turns) \in Nat /\ DOMAIN turns = 1..Len(turns)
      /\ DOMAIN turns' = 1..(Len(turns) + 1)
      /\ \A m \in DOMAIN turns : turns'[m] = turns[m]
      /\ turns'[Len(turns) + 1] = u
  BY <1>1, <1>2, <1>4, AppendedRow
<1>7. /\ \A v \in DOMAIN itins' : v \in DOMAIN itins \/ v = Len(itins) + 1
      /\ \A m \in DOMAIN turns' : m \in DOMAIN turns \/ m = Len(turns) + 1
      /\ \A v \in DOMAIN itins : v \in DOMAIN itins'
      /\ Len(itins) + 1 \in DOMAIN itins'
  BY <1>5, <1>6
<1>8. ItineraryProvenance' /\ SourcesReplied'
  <2>1. ASSUME NEW t \in sources
        PROVE  BacksThen(Len(itins) + 1, t)
    <3>1. turns'[n].cv = cv
      BY <1>1, <1>6 DEF UserTurn
    <3>2. tasks[t].itin = (Len(itins) + 1) - 1
      BY <1>1, <1>5 DEF ConfirmedItinerary
    <3> QED
      BY <1>1, <1>4, <1>5, <3>1, <3>2 DEF BacksThen
  <2>2. ASSUME NEW v \in DOMAIN itins, NEW t \in itins[v].sources
        PROVE  BacksThen(v, t)
    BY <1>5, SourceStays
  <2>3. \A v \in DOMAIN itins' : \A t \in itins'[v].sources : BacksThen(v, t)
    BY <1>4, <1>5, <1>7, <2>1, <2>2
  <2> QED
    BY <2>3, AllBacked
<1>9. RepliesBacked'
  <2>1. UserTurnThen(n, cv)
    BY <1>1, UserTurnStays
  <2>2. BackedThen(Len(turns) + 1)
    BY <1>1, <1>4, <1>5, <1>6, <1>7, <2>1 DEF BackedThen
  <2>3. \A m \in DOMAIN turns : turns'[m].kind = "agent_reply" => BackedThen(m)
    BY <1>5, <1>7, ReplyKept
  <2> QED
    BY <1>7, <2>2, <2>3, AllReplies
<1>10. /\ \A m \in DOMAIN turns :
             turns[m].kind = "agent_reply" => turns[m].parent # n
       /\ \A v \in DOMAIN itins : Composed(v) => itins[v].cv # cv
  BY <1>1, FirstReply
<1>11. OneReply'
  BY <1>4, <1>6, <1>7, <1>10 DEF ReplyInv, OneReply
<1>12. OneItinerary'
  BY <1>4, <1>5, <1>7, <1>10 DEF ReplyInv, OneItinerary, Composed
<1> QED
  BY <1>8, <1>9, <1>11, <1>12 DEF ReplyInv

\* Itineraries and replies come in pairs, one pair for a turn, and rest on
\* results that stay.
LEMMA RepliesHold == Spec => []ReplyInv
<1>1. Init => ReplyInv
  <2> SUFFICES ASSUME Init PROVE ReplyInv
    OBVIOUS
  <2>1. turns = <<>> /\ itins = <<>>
    BY DEF Init, StoreInit
  <2> QED
    BY <2>1 DEF ReplyInv, ItineraryProvenance, SourcesReplied, RepliesBacked,
                OneReply, OneItinerary
<1>2. ASSUME TypeOK, TypeOK', ExecutionInv, ExecutionInv', TurnInv, ReplyInv,
             [Next]_vars
      PROVE  ReplyInv'
  <2>1. TurnsKept /\ RowsStay /\ TasksKept
    BY <1>2, StepTurns, RowsAlwaysStay, TasksAlwaysKept DEF TurnsStep
  <2>2. NoReply \/ \E n, cv : Composes(n, cv)
    BY <1>2, ReplySteps
  <2> QED
    BY <1>2, <2>1, <2>2, NoReplyKeeps, ComposesKeeps
<1>3. TypeOK /\ TypeOK' /\ ExecutionInv /\ ExecutionInv' /\ TurnInv /\ ReplyInv
        /\ [Next]_vars => ReplyInv'
  BY <1>2
<1> QED
  BY <1>1, <1>3, TypeCorrect, ExecutionHolds, TurnsHold, PTL DEF Spec

\* A composed itinerary rests on results of its turn, in its context, made
\* with its preferences against the version it replaced, and they stay
\* accepted: compose_reply never confirms an itinerary that its own source
\* tasks do not support, and nothing discards them afterwards.
THEOREM ItinerariesRestOnResults == Spec => []ItineraryProvenance
BY RepliesHold, PTL DEF ReplyInv

\* A turn gets one reply and one itinerary, however often its event, its plan
\* and its task's result are sent, read and handled.
THEOREM TurnsRepliedOnce == Spec => []OneReplyPerTurn
<1>1. ReplyInv => OneReplyPerTurn
  <2> SUFFICES ASSUME ReplyInv, NEW m \in DOMAIN turns,
                      turns[m].kind = "agent_reply"
               PROVE  /\ \A n \in DOMAIN turns :
                           /\ turns[n].kind = "agent_reply"
                           /\ turns[n].parent = turns[m].parent
                           => m = n
                      /\ Cardinality({v \in DOMAIN itins :
                           /\ itins[v].cv = turns[m].cv
                           /\ itins[v].sources # {}}) = 1
    BY DEF OneReplyPerTurn
  <2>1. PICK v \in DOMAIN itins : Composed(v) /\ itins[v].cv = turns[m].cv
    BY DEF ReplyInv, RepliesBacked
  <2>2. {u \in DOMAIN itins : /\ itins[u].cv = turns[m].cv
                              /\ itins[u].sources # {}} = {v}
    BY <2>1 DEF ReplyInv, OneItinerary, Composed
  <2>3. Cardinality({v}) = 1
    BY FS_Singleton
  <2>4. \A n \in DOMAIN turns :
          /\ turns[n].kind = "agent_reply"
          /\ turns[n].parent = turns[m].parent
          => m = n
    BY DEF ReplyInv, OneReply
  <2> QED
    BY <2>2, <2>3, <2>4
<1> QED
  BY <1>1, RepliesHold, PTL

-----------------------------------------------------------------------------
(* Results are final when nobody else edits itineraries.                   *)

\* The tasks of a turn that waits for its reply were planned on the itinerary
\* that is confirmed.
PlannedOnConfirmed ==
  \A t \in DOMAIN tasks :
    tasks[t].cv = session.cv /\ ~Replied(tasks[t].turn, tasks[t].cv)
      => tasks[t].itin = ConfirmedItinerary

\* A new itinerary comes with the reply of the only turn of its context.
LEMMA PlannedStep ==
  ASSUME TypeOK, TypeOK', ExecutionInv, TurnInv, PlannedOnConfirmed,
         MaxManual = 0, [Next]_vars
  PROVE  PlannedOnConfirmed'
<1>1. /\ session.cv \in Nat /\ session'.cv \in Nat /\ session.cv <= session'.cv
      /\ ~(manual < MaxManual)
  <2>1. session \in [cv : Nat, seq : Nat] /\ session' \in [cv : Nat, seq : Nat]
    BY DEF TypeOK, StoreTypeOK
  <2>2. session.cv <= session'.cv
    BY StepTurns DEF TurnsStep
  <2>3. manual \in 0..MaxManual
    BY DEF TypeOK, StoreTypeOK
  <2> QED
    BY <2>1, <2>2, <2>3
<1>2. TasksKept /\ RowsStay
  BY TasksAlwaysKept, RowsAlwaysStay
<1> SUFFICES ASSUME NEW t \in DOMAIN tasks', tasks'[t].cv = session'.cv,
                    ~RepliedThen(tasks'[t].turn, tasks'[t].cv)
             PROVE  tasks'[t].itin = Len(itins')
  BY DEF PlannedOnConfirmed, Replied, RepliedThen, Logged, ConfirmedItinerary
<1>3. ASSUME NEW n, NEW cv, Composes(n, cv)
      PROVE  FALSE
  <2>1. /\ t \in DOMAIN tasks /\ tasks'[t] = tasks[t] /\ cv = session.cv
        /\ session'.cv = session.cv /\ UserTurn(n, cv) /\ RepliedThen(n, cv)
    BY <1>3 DEF Composes, Composable
  <2>2. UserTurn(tasks[t].turn, cv)
    BY <2>1 DEF TurnInv, PlannedForTurns
  <2>3. tasks[t].turn = n
    BY <2>1, <2>2 DEF UserTurn, TurnInv, TurnContexts
  <2> QED
    BY <2>1, <2>3
<1>4. UNCHANGED itins
  BY <1>1, <1>3, ReplySteps DEF NoReply
<1>5. CASE t \in DOMAIN tasks
  <2>1. /\ tasks'[t].turn = tasks[t].turn /\ tasks'[t].cv = tasks[t].cv
        /\ tasks'[t].itin = tasks[t].itin
    BY <1>2, <1>5 DEF TasksKept, SamePlan
  <2>2. tasks[t].cv <= session.cv /\ tasks[t].cv \in Nat
    BY <1>5, TaskRow DEF ExecutionInv, CancelledOvertaken
  <2>3. tasks[t].cv = session.cv
    BY <1>1, <2>1, <2>2
  <2>4. ~Replied(tasks[t].turn, tasks[t].cv)
    BY <1>2, <2>1, ReplyStays
  <2> QED
    BY <1>4, <1>5, <2>1, <2>3, <2>4 DEF PlannedOnConfirmed, ConfirmedItinerary
<1>6. CASE t \notin DOMAIN tasks
  <2>1. ASSUME NEW w \in Workers, Moves(w) \/ Starts(w) \/ Cancels(w) \/ Ends(w)
        PROVE  FALSE
    BY <1>6, <2>1 DEF Moves, Starts, Cancels, Ends, SettledAs
  <2>2. Plans
    BY <1>6, <2>1, TaskSteps DEF Rewrites
  <2>3. t = Len(tasks) + 1 /\ tasks'[t].itin = ConfirmedItinerary
    BY <1>6, <2>2, PlannedRow, RowNumbers
  <2> QED
    BY <1>4, <2>3 DEF ConfirmedItinerary
<1> QED
  BY <1>5, <1>6

\* An accepted result stays accepted: neither a late worker nor an interrupt
\* takes it back, and the composer finds the itinerary it was planned on, as
\* long as compose_reply is the only one that confirms itineraries.
THEOREM ResultsAreFinal ==
  ASSUME MaxManual = 0
  PROVE  Spec => SucceededIsFinal
<1>1. Init => PlannedOnConfirmed
  <2> SUFFICES ASSUME Init PROVE PlannedOnConfirmed
    OBVIOUS
  <2>1. tasks = <<>>
    BY DEF Init, StoreInit
  <2> QED
    BY <2>1 DEF PlannedOnConfirmed
<1>2. TypeOK /\ TypeOK' /\ ExecutionInv /\ TurnInv /\ PlannedOnConfirmed
        /\ [Next]_vars => PlannedOnConfirmed'
  BY PlannedStep
<1>3. ASSUME TypeOK, ExecutionInv, PlannedOnConfirmed, [Next]_vars,
             NEW t \in DOMAIN tasks, tasks[t].status = "succeeded"
      PROVE  tasks'[t].status = "succeeded"
  <2>1. ~GivesUp(t)
    BY <1>3 DEF GivesUp, Conflicting, Composable, TargetsConfirmed, Ready,
                PlannedOnConfirmed
  <2> QED
    BY <1>3, <2>1, ResultStays
<1>4. TypeOK /\ ExecutionInv /\ PlannedOnConfirmed /\ [Next]_vars
        => [\A t \in DOMAIN tasks :
              tasks[t].status = "succeeded"
                => tasks'[t].status = "succeeded"]_tasks
  BY <1>3
<1> QED
  BY <1>1, <1>2, <1>4, TypeCorrect, ExecutionHolds, TurnsHold, PTL
     DEF Spec, SucceededIsFinal

=============================================================================
