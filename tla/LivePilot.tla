------------------------------ MODULE LivePilot ------------------------------
(***************************************************************************)
(* The backend of LivePilot: gateway handlers, outbox publishers, agent    *)
(* workers and task workers over one session's rows and streams, every     *)
(* process interleaving with every other between its transactions.         *)
(***************************************************************************)
EXTENDS Gateway, OutboxPublisher, AgentWorker, TaskWorker

CONSTANT MaxManual  \* bound on itineraries confirmed by someone else

ASSUME ManualAssumption == MaxManual \in Nat

VARIABLE manual     \* itineraries confirmed by someone else so far

processVars == <<requests, publishers, agents, workers>>
vars == <<storeVars, processVars, manual>>

Init ==
  /\ StoreInit
  /\ GatewayInit
  /\ PublisherInit
  /\ AgentInit
  /\ WorkerInit
  /\ manual = 0

\* An itinerary version confirmed by hand, as test_stage8_itinerary.py does;
\* no code of the repository writes one outside compose_reply.
ConfirmByHand ==
  /\ manual < MaxManual
  /\ manual' = manual + 1
  /\ itins' = Append(itins, [cv |-> session.cv, pref |-> ActivePref,
                             sources |-> {}])
  /\ UNCHANGED <<session, prefs, turns, tasks, outbox, published, redisVars,
                 faults, processVars>>

HandleRequest(r) ==
  GatewayStep(r) /\ UNCHANGED <<publishers, agents, workers, manual>>

Publish(p) ==
  PublisherStep(p) /\ UNCHANGED <<requests, agents, workers, manual>>

RunAgent(a) ==
  AgentStep(a) /\ UNCHANGED <<requests, publishers, workers, manual>>

RunWorker(w) ==
  WorkerStep(w) /\ UNCHANGED <<requests, publishers, agents, manual>>

GoWrong ==
  \/ /\ \E p \in Publishers : PublishFails(p) \/ PublisherCrash(p)
     /\ UNCHANGED <<requests, agents, workers, manual>>
  \/ /\ \E a \in Agents : AgentCrash(a)
     /\ UNCHANGED <<requests, publishers, workers, manual>>
  \/ /\ \E w \in Workers : Raise(w) \/ WorkerCrash(w)
     /\ UNCHANGED <<requests, publishers, agents, manual>>

Next ==
  \/ \E r \in Requests : HandleRequest(r)
  \/ \E p \in Publishers : Publish(p)
  \/ \E a \in Agents : RunAgent(a)
  \/ \E w \in Workers : RunWorker(w)
  \/ GoWrong
  \/ ConfirmByHand

Spec == Init /\ [][Next]_vars

\* Every process that has something to do keeps running: the servers loop for
\* ever, block only on an empty stream and hold no lock across a step.  A
\* request once received is carried to its end; nobody has to send one, and
\* faults and hand edits need not happen.
Fairness ==
  /\ \A r \in Requests : WF_vars(~At(r, "new") /\ HandleRequest(r))
  /\ \A p \in Publishers : WF_vars(Publish(p))
  /\ \A a \in Agents : WF_vars(RunAgent(a))
  /\ \A w \in Workers : WF_vars(RunWorker(w))

FairSpec == Spec /\ Fairness

-----------------------------------------------------------------------------
(* Types.                                                                  *)

StoreTypeOK ==
  /\ session \in [cv : Nat, seq : Nat]
  /\ prefs \in Seq(SUBSET ClientIds) /\ prefs # <<>>
  /\ turns \in Seq(Turn)
  /\ tasks \in Seq(Task)
  /\ itins \in Seq(Itinerary)
  /\ outbox \in Seq(EventRow)
  /\ published \subseteq DOMAIN outbox
  /\ announced \subseteq DOMAIN outbox
  /\ stream \in [plan : Seq(Packet), tasks : Seq(Nat), compose : Seq(Packet)]
  /\ delivered \in [plan : Nat, tasks : Nat, compose : Nat]
  /\ cancelKeys \subseteq Nat
  /\ faults \in 0..MaxFaults
  /\ manual \in 0..MaxManual

ProcessTypeOK ==
  /\ requests \in [Requests -> RequestState]
  /\ publishers \in [Publishers -> PublisherState]
  /\ agents \in [Agents -> Seq(Message)]
  /\ workers \in [Workers -> WorkerState]

\* A consumer is never ahead of its stream, and a publisher's list holds rows
\* of the outbox.
CursorsOK ==
  /\ \A s \in StreamNames : delivered[s] <= Len(stream[s])
  /\ \A p \in Publishers : publishers[p].batch \subseteq DOMAIN outbox

\* An id that names a task names one that was inserted: the task row is
\* committed before the event, the message and the worker that carry its id.
QueuedNamesTask(e, t) ==
  e.type = "task.queued" => Len(e.ref) = 1 /\ Head(e.ref) \in t

ReferencesOK ==
  /\ \A i \in DOMAIN outbox : QueuedNamesTask(outbox[i], DOMAIN tasks)
  /\ \A k \in DOMAIN stream.tasks : stream.tasks[k] \in DOMAIN tasks
  /\ \A w \in Workers : ~On(w, "idle") => workers[w].task \in DOMAIN tasks

\* Every variable keeps its type and every reference its row.
TypeOK == StoreTypeOK /\ ProcessTypeOK /\ CursorsOK /\ ReferencesOK
=============================================================================
