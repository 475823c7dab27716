----------------------------- MODULE AgentWorker -----------------------------
(***************************************************************************)
(* agent/worker.py and the transactions of agent/service.py it calls: the  *)
(* planner turns a ContextPacket into a task, the composer turns succeeded *)
(* tasks into an itinerary version and a reply.                            *)
(***************************************************************************)
EXTENDS Store

CONSTANT Agents  \* running agent workers

VARIABLE agents  \* messages each has read and not finished, in order

\* "replan" is a compose message whose itinerary conflict is being handled.
Message == [from : {"plan", "compose", "replan"}, packet : Packet]

AgentInit == agents = [a \in Agents |-> <<>>]

Working(a, from) == agents[a] # <<>> /\ Head(agents[a]).from = from
InHand(a)        == Head(agents[a]).packet

Finish(a) == agents' = [agents EXCEPT ![a] = Tail(@)]

Continue(a, from, packet) ==
  agents' = [agents EXCEPT ![a] =
               <<[from |-> from, packet |-> packet]>> \o Tail(@)]

\* One XREADGROUP with count=1 returns up to one entry of EACH stream.
ReadStreams(a) ==
  LET Take(s) == IF Undelivered(s)
                 THEN <<[from |-> s, packet |-> NextEntry(s)]>> ELSE <<>>
      batch   == Take("plan") \o Take("compose")
  IN /\ agents[a] = <<>>
     /\ batch # <<>>
     /\ agents' = [agents EXCEPT ![a] = batch]
     /\ delivered' = [delivered EXCEPT
          !.plan = @ + Len(Take("plan")), !.compose = @ + Len(Take("compose"))]
     /\ UNCHANGED <<dbVars, published, stream, announced, cancelKeys, faults>>

-----------------------------------------------------------------------------
(* create_tasks_for_decision, under the session lock.                      *)

\* Mutant of PacketCurrent: the context version is not compared.
PacketAnyContext(k) == ActivePref = k.pref /\ ConfirmedItinerary = k.itin

PacketCurrent(k) == /\ session.cv = k.cv
                    /\ ActivePref = k.pref
                    /\ ConfirmedItinerary = k.itin

\* decide() plans one lookup; its payload, and so the idempotency key, is
\* given by the turn's text and the preference.
IdempotencyKey(k) == <<k.cv, k.itin, k.turn, k.pref>>

AlreadyPlanned(k) ==
  \E t \in DOMAIN tasks : IdempotencyKey(tasks[t]) = IdempotencyKey(k)

\* Mutant of NewTask: the id is taken before the row is inserted.
NewTaskBefore == Len(tasks)

NewTask == Len(tasks) + 1

CreateTasks(a) ==
  LET k == InHand(a)
  IN /\ Working(a, "plan")
     /\ IF PacketCurrent(k) /\ ~AlreadyPlanned(k)
        THEN /\ tasks' = Append(tasks, [turn |-> k.turn, cv |-> k.cv,
                  pref |-> k.pref, itin |-> k.itin, status |-> "queued",
                  tool |-> "none"])
             /\ Emit(<<Event("task.queued", <<NewTask>>, k.turn, k.cv,
                             k.pref, {})>>, session.cv)
             /\ UNCHANGED <<prefs, turns, itins>>
        ELSE UNCHANGED dbVars
     /\ Finish(a)
     /\ UNCHANGED <<published, redisVars, faults>>

-----------------------------------------------------------------------------
(* compose_reply, under the session lock.                                  *)

Ready(n, cv) ==   \* the tasks a reply to turn n can be composed from
  {t \in DOMAIN tasks :
     /\ tasks[t].turn = n /\ tasks[t].cv = cv
     /\ tasks[t].pref = ActivePref /\ tasks[t].status = "succeeded"}

\* Mutant of Replied: an existing reply is not looked up.
RepliedUnchecked(n, cv) == FALSE

Replied(n, cv) == Logged("agent.reply.created", <<n, cv>>)

Composable(n, cv) ==
  /\ session.cv = cv
  /\ ~Replied(n, cv)
  /\ Ready(n, cv) # {}
  /\ Cardinality({tasks[t].itin : t \in Ready(n, cv)}) = 1
  /\ \A t \in Ready(n, cv) : tasks[t].tool = "succeeded"

\* Mutants of TargetsConfirmed: no check, and a comparison off by one.
TargetsAnything(n, cv) == TRUE
TargetsNext(n, cv) ==
  \A t \in Ready(n, cv) : tasks[t].itin = ConfirmedItinerary + 1

TargetsConfirmed(n, cv) ==
  \A t \in Ready(n, cv) : tasks[t].itin = ConfirmedItinerary

\* A message of an older context, a reply that exists, or nothing to use.
ComposeNothing(a) ==
  /\ Working(a, "compose")
  /\ ~Composable(InHand(a).turn, InHand(a).cv)
  /\ Finish(a)
  /\ UNCHANGED storeVars

ComposeReply(a) ==
  LET n       == InHand(a).turn
      cv      == InHand(a).cv
      sources == Ready(n, cv)
  IN /\ Working(a, "compose")
     /\ Composable(n, cv) /\ TargetsConfirmed(n, cv)
     /\ itins' = Append(itins, [cv |-> cv, pref |-> ActivePref,
                                sources |-> sources])
     /\ turns' = Append(turns, [kind |-> "agent_reply",
          status |-> "completed", cv |-> cv, parent |-> n])
     /\ Emit(<<Event("itinerary.confirmed", <<n, cv>>, n, cv, ActivePref,
                     sources),
               Event("agent.reply.created", <<n, cv>>, n, cv, ActivePref,
                     sources)>>, session.cv)
     /\ Finish(a)
     /\ UNCHANGED <<prefs, tasks, published, redisVars, faults>>

\* Someone else confirmed an itinerary: give the results up and plan again.
ComposeConflict(a) ==
  LET n     == InHand(a).turn
      cv    == InHand(a).cv
      stale == Ready(n, cv)
  IN /\ Working(a, "compose")
     /\ Composable(n, cv) /\ ~TargetsConfirmed(n, cv)
     /\ tasks' = [t \in DOMAIN tasks |-> IF t \in stale
                    THEN [tasks[t] EXCEPT !.status = "discarded"]
                    ELSE tasks[t]]
     /\ \E order \in SetToSeqs(stale) :
          Emit(EventPerTask("task.result.discarded", order, n, cv), session.cv)
     /\ Continue(a, "replan", InHand(a))
     /\ UNCHANGED <<prefs, turns, itins, published, redisVars, faults>>

\* Mutant of RebuildPacket: the packet of the compose message is used.
RebuildPacketStale(a) ==
  /\ Working(a, "replan")
  /\ Continue(a, "plan", InHand(a))
  /\ UNCHANGED storeVars

\* The packet is read without a lock, then handled as a plan message is.
RebuildPacket(a) ==
  /\ Working(a, "replan")
  /\ Continue(a, "plan", [InHand(a) EXCEPT !.pref = ActivePref,
                                           !.itin = ConfirmedItinerary])
  /\ UNCHANGED storeVars

\* The process dies and is started again; what it had read is not read again.
AgentCrash(a) ==
  /\ agents[a] # <<>>
  /\ Fault
  /\ agents' = [agents EXCEPT ![a] = <<>>]
  /\ UNCHANGED <<dbVars, published, redisVars>>

AgentStep(a) ==
  \/ ReadStreams(a)
  \/ CreateTasks(a)
  \/ ComposeNothing(a)
  \/ ComposeReply(a)
  \/ ComposeConflict(a)
  \/ RebuildPacket(a)
=============================================================================
