-------------------------------- MODULE Store --------------------------------
(***************************************************************************)
(* The state the processes of LivePilot share, for one travel session:     *)
(* the PostgreSQL rows (models.py) and the Redis streams and keys.  Rows    *)
(* are numbered by insertion, so a row's identity is its index.            *)
(*                                                                         *)
(* Every transaction that changes these rows first takes the session row   *)
(* with SELECT ... FOR UPDATE (or an UPDATE of it) and holds it to commit, *)
(* so a transaction is one step from the moment it holds that lock.  What  *)
(* a handler reads BEFORE it holds the lock is a step of its own.          *)
(***************************************************************************)
EXTENDS Naturals, Sequences, FiniteSets, SequencesExt

CONSTANTS
  ClientIds,  \* the client_event_ids clients put on their requests
  MaxFaults   \* bound on injected faults: crashes, failed calls

ASSUME FaultAssumption == MaxFaults \in Nat

VARIABLES
  session,    \* row of sessions: context_version (cv), last_event_seq (seq)
  prefs,      \* preferences: prefs[v] = ids of the patches merged into v
  turns,      \* turns, by sequence_no
  tasks,      \* tasks, each with its single tool call
  itins,      \* itineraries, by version
  outbox,     \* event_outbox, by id
  published,  \* ids of outbox rows whose published_at is set
  stream,     \* the streams agent.plan, travel.tasks and agent.compose
  delivered,  \* how far each consumer group has been given its stream
  announced,  \* outbox ids that were XADDed to session.events
  cancelKeys, \* tasks whose cancel:task:<id> key was written
  faults      \* faults injected so far

dbVars    == <<session, prefs, turns, tasks, itins, outbox>>
redisVars == <<stream, delivered, announced, cancelKeys>>
storeVars == <<dbVars, published, redisVars, faults>>

-----------------------------------------------------------------------------
(* The rows.                                                               *)

TaskStatus == {"queued", "running", "cancel_requested", "cancelled",
               "succeeded", "discarded", "failed"}
ToolStatus == {"none", "running", "cancelled", "succeeded", "discarded",
               "failed"}
TurnStatus == {"user_final", "completed", "interrupted"}

Turn == [kind : {"user_text", "agent_reply"}, status : TurnStatus,
         cv : Nat, parent : Nat]

Task == [turn : Nat, cv : Nat, pref : Nat, itin : Nat,
         status : TaskStatus, tool : ToolStatus]

Itinerary == [cv : Nat, pref : Nat, sources : SUBSET Nat]

\* Events that make a new context version, and events that report or cause
\* work done in one.
ContextEvents == {"turn.finalized", "preference.updated",
                  "agent.interrupt.accepted"}
WorkEvents    == {"task.queued", "task.succeeded", "itinerary.confirmed",
                  "agent.reply.created"}
OtherEvents   == {"session.created", "task.running", "task.cancel_requested",
                  "task.cancelled", "task.result.discarded", "task.failed"}
EventTypes    == ContextEvents \cup WorkEvents \cup OtherEvents

\* The plan message carries the whole ContextPacket; compose only turn, cv.
Packet == [turn : Nat, cv : Nat, pref : Nat, itin : Nat]

StreamNames == {"plan", "tasks", "compose"}

\* A preference row is superseded, and an itinerary row too, by the same
\* transaction that inserts its successor: the active one is the last.
ActivePref         == Len(prefs)
ConfirmedItinerary == Len(itins)

\* An event's dedupe_key is its type and ref: <<client_event_id>>, <<task id>>
\* or <<turn, context version>>.
EventRow == [type : EventTypes, ref : Seq(ClientIds \cup Nat), turn : Nat,
             cv : Nat, pref : Nat, ids : SUBSET Nat, seq : Nat]

Event(type, ref, turn, cv, pref, ids) ==
  [type |-> type, ref |-> ref, turn |-> turn, cv |-> cv, pref |-> pref,
   ids |-> ids, seq |-> 0]

\* One event for each task of a list.
EventPerTask(type, order, turn, cv) ==
  [i \in 1..Len(order) |-> Event(type, <<order[i]>>, turn, cv, 0, {})]

Logged(type, ref) ==
  \E i \in DOMAIN outbox : outbox[i].type = type /\ outbox[i].ref = ref

Unless(skip, e) == IF skip THEN <<>> ELSE <<e>>

\* Mutants of Emit: last_event_seq, or context_version, is not written back.
EmitSeqLost(events, cv) ==
  /\ session' = [cv |-> cv, seq |-> session.seq]
  /\ outbox' = outbox \o
       [i \in 1..Len(events) |-> [events[i] EXCEPT !.seq = session.seq + i]]
EmitContextLost(events, cv) ==
  /\ session' = [cv |-> session.cv, seq |-> session.seq + Len(events)]
  /\ outbox' = outbox \o
       [i \in 1..Len(events) |-> [events[i] EXCEPT !.seq = session.seq + i]]

\* Each event takes the next last_event_seq of the locked session row, and
\* the row gets context version cv.
Emit(events, cv) ==
  /\ session' = [cv |-> cv, seq |-> session.seq + Len(events)]
  /\ outbox' = outbox \o
       [i \in 1..Len(events) |-> [events[i] EXCEPT !.seq = session.seq + i]]

-----------------------------------------------------------------------------
(* Redis Streams: an append-only log and one consumer group.  XREADGROUP   *)
(* with ">" hands out each entry once; no code claims an entry that was    *)
(* handed out and not acknowledged, so XACK changes nothing a later read   *)
(* sees and is not a step.                                                 *)

XAdd(name, message) ==
  stream' = [stream EXCEPT ![name] = Append(@, message)]

Undelivered(name) == delivered[name] < Len(stream[name])
NextEntry(name)   == stream[name][delivered[name] + 1]

\* A cancel key can be missing because it expired or because the read failed:
\* has_task_cancel_key then answers False.
CancelKeySeen(t) == {FALSE, (t \in cancelKeys)}

Fault == faults < MaxFaults /\ faults' = faults + 1

-----------------------------------------------------------------------------
\* The state right after POST /v1/sessions committed.
StoreInit ==
  /\ session = [cv |-> 0, seq |-> 1]
  /\ prefs = <<{}>>
  /\ turns = <<>>
  /\ tasks = <<>>
  /\ itins = <<>>
  /\ outbox = <<[Event("session.created", <<>>, 0, 0, 1, {}) EXCEPT !.seq = 1]>>
  /\ published = {}
  /\ stream = [plan |-> <<>>, tasks |-> <<>>, compose |-> <<>>]
  /\ delivered = [plan |-> 0, tasks |-> 0, compose |-> 0]
  /\ announced = {}
  /\ cancelKeys = {}
  /\ faults = 0
=============================================================================
