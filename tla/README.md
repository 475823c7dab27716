# LivePilot in TLA+

LivePilot is a travel-planning backend that keeps working while its user talks
over it: turns, preference updates and interrupts make new *context versions*
of a session, background processes plan, look up and compose in one of them,
and whatever was done for an older one must not surface.  A
browser page follows the session over a WebSocket and can open a voice
connection to it.  This directory holds the model of that machinery, the TLC
runs that check it on small instances and the TLAPS proofs that carry most of
its safety to every instance.

Paths below are relative to the repository (`backend/app/...`) unless they name
a module of this directory.

- [1. Inventory](#1-inventory)
- [2. Modules and how they correspond to the code](#2-modules-and-how-they-correspond-to-the-code)
- [3. Properties](#3-properties)
- [4. Runs, bounds, fairness](#4-runs-bounds-fairness)
- [5. What the violation runs show](#5-what-the-violation-runs-show)
- [6. Proofs](#6-proofs)
- [7. Modelling decisions](#7-modelling-decisions)
- [8. Not modelled](#8-not-modelled)
- [9. Plan](#9-plan)

## 1. Inventory

### Processes and how they interact

```
 client --HTTP/WS--> gateway handlers --+            +--> agent.plan ----> agent worker --+
                        |               | PostgreSQL |                     (plan)         |
                        | cancel keys   |  sessions  |                        | tasks      |
                        v               |  turns     |--> travel.tasks --> task worker     |
                      Redis <-----------|  tasks     |                        | results    |
                        ^               |  outbox ---+--> agent.compose -> agent worker ---+
                        |               |  ...       |                     (compose)
                        +-- read by ----+            +--> session.events
                            task worker     (outbox publisher)
```

No background process calls another.  Handlers and workers change rows of
PostgreSQL and append to `event_outbox` in the same transaction; the outbox
publisher sends those rows to Redis Streams; the workers read the streams in
consumer groups.  The one message outside this path is the cancel key.

The page reads the same rows: `GET snapshot` and the WebSocket handler load
them, the handler polls `event_outbox` for what is newer than its cursor, and
the page loads a snapshot whenever it hears of an event.  For voice it asks for
a token, redeems it, and connects a transport; those two calls touch one column
of the session row (`realtime_connection_epoch`) and keys of their own in
Redis, and nothing of the pipeline.  So the project has three state machines
that share the session's event log as an interface: the pipeline (`LivePilot`),
the delivery of its log (`EventDelivery`) and voice (`VoiceLink`).  A fourth,
`SessionTransactions`, looks into the transactions that the pipeline takes as
single steps: it has the row locks, and shows that they are enough.

| Component | State it keeps | Operations | Hard behaviour | What makes it correct |
|---|---|---|---|---|
| Session store and event log (`models.py`, the transactions of every process) | sessions (`context_version`, `last_event_seq`), preferences, turns, tasks, tool_calls, itineraries, event_outbox | the transactions below | ten kinds of transaction count the same counters up from what they read; they take rows of several tables in different orders | no number lost to another transaction; gap-free, ordered log; one author per context version; unique dedupe keys; nothing of an old context after a newer one; no waiting in a circle |
| Gateway write handlers (`main.py`, `agent/service.py:finalize_text_turn`, `interrupts.py`) | none beyond a request | `finalize_turn`, `update_preferences`, `interrupt_session` | the lookup of `client_event_id` is done without a lock; retries race their originals; compare-and-set on the version | one answer per `client_event_id`; no lost preference patch |
| Cancellation keys (`cancellation.py`) | `cancel:task:<id>` in Redis | write (after the interrupt's commit), read | the write can fail or come late; keys expire | correctness must not depend on them |
| Outbox publisher (`outbox.py`) | the batch in hand | poll, route, announce, mark | several publishers poll the same rows without a lock; failure between two sends; crash before marking | sent before marked; everything is sent in the end |
| Agent worker (`agent/worker.py`, `agent/service.py`) | messages in hand | plan (`create_tasks_for_decision`), compose (`compose_reply`), replan after an itinerary conflict | packets that are stale when handled, compose messages of old contexts, redelivered messages, an itinerary changed by someone else | one reply and one itinerary per turn; provenance of every itinerary |
| Task worker (`worker.py`) | the task in hand | start, check, mark cancelled, execute, commit, fail | four transactions with the tool call between them; an ORM object loaded before the lock; cancellation at any point; crash | one executor per task; every task ends |
| Event delivery (`main.py` snapshot, resume, WebSocket) | a cursor per connection | load a snapshot, accept, poll, resume, submit | a cursor taken from one statement and events and rows from others; lost connections | no event is skipped; a cursor is covered by the rows it comes with |
| Frontend client (`frontend/src/App.tsx`) | session, snapshot, voice state, attempt counter, refs to streams and connection | create, restore, show, reconnect, submit, start and stop voice | answers that overtake each other; attempts given up at an await that go on | the page learns of every event; the microphone and the connection are those it shows |
| Realtime tokens (`realtime.py`) | token in Redis, epoch in PostgreSQL | issue, resume, redeem | issue and redeem are two stores each, without a common lock | a token is redeemed once, and never after a newer one |
| Mock realtime transport (`mockRealtime.ts`) | two peer connections, two candidate queues | connect, cancel, close | ICE candidates before the remote description; closing during an await | an undisturbed connection gets connected |
| Rate limiting (`rate_limit.py`) | counter with expiry | count | none: one atomic script | at most N per window |
| Input validation (`input_validation.py`) | none | recursive check of nested JSON | depth and size boundaries | accepts exactly what its reference definition does |
| Authentication, configuration, logging, metrics, tracing, migrations, itinerary view | see `PROJECT.json` | | | |

The first ten are modelled; section 8 says why the rest is not.

### Hazards

`PROJECT.json` lists, at its line, each behaviour of this code that a test
hardly reaches, and the properties that would catch it.  The main families are:

- **checked, then used**: `client_event_id` looked up before the lock; a task
  row loaded before the wait for the lock; a packet built before it is planned;
  an itinerary chosen before the results that were planned against it arrive;
- **read, then counted up**: `event_seq`, `context_version`, the preference's
  version and the connection epoch are computed from rows read before;
- **twice**: a retry of a request, a row sent by two publishers, a plan rebuilt
  with a different itinerary;
- **too late**: a result, a compose message or a cancel key after the context
  moved on;
- **in between**: a crash or a failing call between sending and marking,
  between committing and writing the cancel key, between reading and
  acknowledging a stream entry;
- **several statements**: a snapshot whose session row, tables and events are
  of different moments; a token whose epoch and key are in different stores;
- **late answers**: a snapshot answered after a newer one; a voice attempt that
  was given up and goes on after its `await`;
- **never**: transactions that wait for each other, tasks nobody picks up, turns
  nobody answers, events nobody is told, a page that says for ever that it
  connects.

## 2. Modules and how they correspond to the code

| Module | Models | Actions |
|---|---|---|
| `Store` | rows of one session, Redis streams, cancel keys; `Emit` is `interrupts._append_event` and its four siblings (increment `last_event_seq` on the locked row, insert the outbox row) | none |
| `Gateway` | the three write handlers: `Receive` is the unlocked lookup, then one action for each transaction, then `WriteCancelKeys` | `Receive`, `FinalizeTurn`, `UpdatePreferences`, `RegisterInterrupt`, `WriteCancelKeys` |
| `OutboxPublisher` | `publish_pending_events`: the fetched batch, then for each row send / announce / mark, each a step | `FetchPending`, `Route`, `Announce`, `MarkPublished`, `PublishFails`, `PublisherCrash` |
| `AgentWorker` | `agent/worker.py` with the transactions of `agent/service.py` | `ReadStreams`, `CreateTasks`, `ComposeNothing`, `ComposeReply`, `ComposeConflict`, `RebuildPacket`, `AgentCrash` |
| `TaskWorker` | `_process_task` around its transactions; each transaction has a load step before it and a step under the lock | `ReceiveTask`, `StartTask`, `CheckCancelled`, `LoadToMark`, `MarkCancelled`, `Execute`, `LoadToCommit`, `CommitResult`, `Raise`, `LoadToFail`, `RecordFailure`, `WorkerCrash` |
| `LivePilot` | the composition: any number of each process over one store; `Next`, `Spec`, `Fairness`, `TypeOK` | `HandleRequest`, `Publish`, `RunAgent`, `RunWorker`, `GoWrong`, `ConfirmByHand` |
| `SessionTransactions` | the ten transactions on a session's rows, each a list of statements; one action for each kind of statement and of end | `Receive`, `Lock`, `ReadRow`, `Compare`, `Check`, `Commit`, `Tell`, `Abort` |
| `EventLog` | abstract: a log that grows by numbered entries, in one version at a time | `Report`, `Advance` |
| `ToolRun` | abstract: a tool call is started once and its outcome written once | `Plan`, `Start`, `Finish`, `GiveUp` |
| `LivePilotProperties` | what the backend promises, with the refinement mappings to `EventLog` and `ToolRun` | |
| `Divergences` | what its documentation promises and the code does not do | |
| `EventDelivery` | `_load_session_snapshot`, `session_events`, and the page's side of them | `Read`; `Accept`, `Poll`, `SendPolled`, `Resume`, `Resumed`, `SubmitOnSocket`; `CreateSession`, `Connect`, `Receive`, `Response`, `Submit`, `StartNewSession`, `Reload`; `Commit`, `Drop`, `Refuse` |
| `RealtimeToken` | `realtime.py` and its three handlers | `IssueToken`, `StoreToken`, `LoadForResume`, `TakeToken`, `CheckEpoch`, `Repeat`, `Expire`, `CallFails` |
| `MockRealtime` | `connect()` of `mockRealtime.ts` between its awaits, and the candidates found meanwhile | `MakeOffer`, `TakeOffer`, `MakeAnswer`, `TakeAnswer`, `FindCandidate`, `Connects` |
| `VoiceLink` | `startVoice` and `stopVoice`, composing the two modules above for any number of tabs and attempts | `StartVoice`, `MicrophoneGranted`, `MicrophoneDenied`, `Granted`, `Refused`, `Redeemed`, `Negotiate`, `LinkFails`, `StopVoice`, `ShowSnapshot`, `Unheard`, `GatewayFails` |
| `MCLivePilot`, `MCTransactions`, `MCDelivery`, `MCVoice` | the TLC instances: named requests, their symmetry, the order of interchangeable transactions | |
| `TypeProofs`, `LogProofs`, `ExecutionProofs`, `OutboxProofs`, `ProvenanceProofs` | proofs about `LivePilot`, each extending the one before | |
| `TransactionProofs`, `DeliveryProofs`, `VoiceProofs` | proofs about `SessionTransactions`, `EventDelivery` and `VoiceLink` | |

**Granularity.**  Every transaction that changes rows first takes the session
row (`SELECT ... FOR UPDATE`, or `UPDATE sessions ... WHERE context_version =
:base`) and holds it to its commit.  From the moment it has the lock it is one
step; what a handler reads before is a step of its own, and other processes run
in between.  So the interleavings of the model are those the locks allow: the
retry that looks its key up before the original commits, the task loaded before
the interrupt, the two publishers.

That the locks make a transaction one step is presupposed there, so nothing in
`LivePilot` can show a lock that is missing.  `SessionTransactions` presupposes
no lock: every statement is a step, a transaction computes what it writes from
the values it read, however old, and `holder` says who has which row.
`TransactionsImplementEventLog` says that what comes out is a behaviour of the
same `EventLog` that `ImplementsEventLog` says of the pipeline.  With a version
not compared (`StaleNever`) it is not, and with the lock left out (`TakeNothing`)
it is saved only by unique constraints that fail a transaction, which
`NothingCollides` excludes, or, for epochs, by nothing (`EpochsDistinct`).

A snapshot is not one step: its statements run in a READ COMMITTED transaction
without a lock, each sees what is committed when it runs, and `Read` takes one
of three groups at a time (the session row; preference, turns, tasks, tool
calls and itinerary; the events).  In the browser one step is what runs between
two awaits.

**The log as interface.**  `EventDelivery` keeps of a session's log its last
`event_seq`.  That loses nothing: the events are 1, 2, 3, ... without a gap
(`GapFreeLog`), and every row changes in the transaction that appends the event
about it, so "the rows as of event n" is a number too.

**State.**  `session`, `prefs`, `turns`, `tasks`, `itins` and `outbox` are the
tables, rows numbered by insertion.  A preference (itinerary) row is superseded
in the transaction that inserts its successor, so the active (confirmed) one is
the last, and its version is the length of the sequence.  A task carries its
one tool call as field `tool`.  An event's `dedupe_key` is `type` and `ref`.
`published` is the set of rows with `published_at`; `stream` and `delivered`
are the streams and the position of their consumer groups; `announced` is the
set of rows sent to `session.events`.

## 3. Properties

Each of the four state machines has one type invariant.  `TypeOK` (module
`LivePilot`) holds, beside the types, that no consumer is ahead of its stream
and that every task id in the log, on a stream or in a worker's hand is that of
a committed row; `DeliveryTypeOK` that a busy load and an open socket are of a
session that exists; `VoiceTypeOK` that no page, token or call is of an epoch
to come and an attempt that waits has its page; `TransactionsTypeOK` that a row
is locked by a transaction that is still open.

| Property | Kind | Says |
|---|---|---|
| `LogGapFree` | invariant | `event_seq` is 1, 2, 3, ... in commit order |
| `LogKeysUnique` | invariant | no two events carry one dedupe key, and no worker transaction ever runs into the constraint that says so |
| `ContextAuthored` | invariant | each context version was made by exactly one turn, update or interrupt, in order |
| `StaleWorkSilent` | invariant | after a newer context no task, accepted result, itinerary or reply of an older one enters the log |
| `IdempotentAnswers` | invariant | requests with one `client_event_id` that succeed get the same event as answer |
| `NoLostPatch` | invariant | an accepted patch is in the active preferences for ever |
| `ItineraryProvenance` | invariant | the source tasks of an itinerary are of its turn, context, preference version and of the itinerary it replaced, and remain succeeded |
| `OneReplyPerTurn` | invariant | one reply and one itinerary per turn, whatever is delivered twice |
| `OneExecutor` | invariant | two workers never execute one task |
| `PublishedWasSent` | invariant | marked only after both sends |
| `SucceededIsFinal` | action property | a result once accepted is not taken back (with no hand edits) |
| `ImplementsEventLog` | refinement | all processes together are one behaviour of `EventLog` |
| `ImplementsToolRun` | refinement | all workers together are one behaviour of `ToolRun`, whatever they overwrite in the task's own status |
| `NothingCollides` | invariant | no transaction fails because another counted `last_event_seq` or the preference's version up from the same row |
| `EventsNamePreference` | invariant | the preference version an event names is the one in force at its place in the log |
| `EpochsDistinct` | invariant | no two tokens get one connection epoch |
| `ConflictTellsActive` | invariant | while the context version told by a 409 is the current one, the preference version told with it is the active one |
| `TransactionsImplementEventLog` | refinement | statement by statement, the transactions are a behaviour of `EventLog` |
| `EveryTransactionEnds` | liveness | a transaction that has begun ends: none wait for each other in a circle, none keeps a row |
| `EveryEventPublished` | liveness | every row is published in the end, failures notwithstanding |
| `EveryTurnAnswered` | liveness | a turn is answered or overtaken, or its plan met an itinerary confirmed by someone else |
| `ConflictIsReplanned` | liveness | a turn whose results were given up for such an itinerary is planned again and answered, or overtaken |
| `EveryTaskSettles` | liveness | a task reaches a terminal status |
| `ViewCoversCursor` | invariant | the event a view calls its last is in its rows |
| `NothingSkipped` | invariant | whatever is behind a connection's cursor was sent on it, or is in a snapshot that was |
| `EveryEventTold` | liveness | the page hears of every event of its session, connections lost and loads failed notwithstanding |
| `GrantsInOrder` | invariant | redemptions that succeed have ever newer epochs: once per token, never after a newer one |
| `MicrophoneShown` | invariant | the microphone is on only for the current attempt of a page that shows it |
| `LinkShown` | invariant | a connection is open only for the current attempt of its page; "live" is a connected one |
| `VoiceSettles` | liveness | an attempt that has its microphone ends: live, error or idle |
| `VoiceConnects` | liveness | an attempt with the newest token goes live unless something stops it: no candidate comes too early or is forgotten |

Each is checked in a run and broken there by a plausible bug in the code it is
about (`PROJECT.json`, "mutants"; the operators named "Mutant of ..." in the
modules).

## 4. Runs, bounds, fairness

The runs of the pipeline use module `MCLivePilot`; the named requests (`turnA`,
`prefA`, `retryA`, ...) are model values whose kind and `client_event_id` it
defines.  Those of the page use `MCDelivery` and `MCVoice`, that of the row locks
`MCTransactions`.

| Run | Expect | Instance | Properties |
|---|---|---|---|
| `gateway` | pass | 7 requests: a turn and its retry, two updates and a retry, an interrupt and its retry; no background process | `LogGapFree`, `ContextAuthored`, `IdempotentAnswers`, `NoLostPatch` |
| `pipeline` | pass | 2 turns, 1 update; one process of each kind; one itinerary confirmed by hand at any moment; no fault; fair | `TypeOK`, `StaleWorkSilent`, `ItineraryProvenance`, `ImplementsEventLog`, `EveryTurnAnswered`, `ConflictIsReplanned`, `EveryTaskSettles` |
| `redelivery` | pass | 1 turn, 1 interrupt; 2 publishers, 1 agent, 2 task workers | `StaleWorkSilent`, `LogKeysUnique`, `OneReplyPerTurn`, `OneExecutor` |
| `failures` | pass | 1 turn, 1 interrupt; 1 publisher, 1 agent, 2 workers; 2 faults; fair | `PublishedWasSent`, `SucceededIsFinal`, `ImplementsToolRun`, `EveryEventPublished` |
| `delivery` | pass | 2 sessions of up to 3 events; 1 request in flight beside the socket; 1 lost connection, reload or resume; 1 failed load; fair | `DeliveryTypeOK`, `ViewCoversCursor`, `NothingSkipped`, `EveryEventTold` |
| `transactions` | pass | 3 transactions of any of the 10 kinds; any of them may fail; fair | `TransactionsTypeOK`, `NothingCollides`, `EventsNamePreference`, `EpochsDistinct`, `ConflictTellsActive`, `TransactionsImplementEventLog`, `EveryTransactionEnds` |
| `voice` | pass | 1 tab, 2 attempts, 3 epochs, 1 fault; fair | `VoiceTypeOK`, `GrantsInOrder`, `MicrophoneShown`, `LinkShown`, `VoiceConnects`, `VoiceSettles` |
| `cancelled_stuck` | violation | 1 turn, 1 interrupt; one process of each kind; fair | `CancelledTaskSettles` |
| `crashed_task` | violation | 1 turn; one process of each kind; 1 fault; fair | `CrashedTaskIsReclaimed` |
| `second_task` | violation | 1 turn; 2 publishers | `OneTaskPerPlan` |
| `view_goes_back` | violation | 1 session of up to 3 events; 2 requests in flight; no fault; fair | `ViewSettles` |
| `voice_retry` | violation | 1 tab, 2 attempts, 3 epochs; no fault; fair, with users who retry | `VoiceRetryable` |

**Bounds.**

- `Requests`: the set of requests that may be sent; each at most once (a retry
  is a request of its own with the same `client_event_id`).  `gateway` has an
  original and a retry of each kind and a second, competing update, all of them
  concurrent.  The pipeline runs have what a task can meet: its turn, a turn or
  update that overtakes it, an interrupt of it.
- `Publishers`, `Agents`, `Workers`: two publishers send every row up to twice,
  so two workers can both hold a message for one task; a third adds no new
  pair.  The agent worker is one process in the deployment the repository
  describes; two of them interact only through the session lock and the same
  lookups that handle a message delivered twice.
- `BatchLimit` (the `limit` of `publish_pending_events`, 100 in the code): 2 or
  3, so that a batch both covers several rows and leaves some for the next poll.
- `MaxFaults`: crashes and failed calls, at any step of a process.  Two allow a
  failure during the recovery from a failure.
- `MaxManual`: itineraries confirmed by something other than `compose_reply`.
- `Fetches`, `MaxSessions`, `MaxEvents`, `MaxRecoveries`, `MaxRefused`
  (delivery): two sessions let an answer of the one arrive in the other; three
  events put one before, one during and one after any load, and `Commit`
  appends one or two of them in a transaction; one recovery (a lost
  connection, a reload or a resume) and one failed load, which may be that of
  the recovery.  Two recoveries make the run longer than it is worth with two
  sessions; the safety properties are proved for any number of them.  The
  cursor a `session.resume` names is any number up to `MaxEvents`, behind the
  log or ahead of it, whatever is still in flight.
- `Transactions`: three, each of any kind, begun at any moment with any version
  or epoch there has been.  Two are what a lost update and a circle of two rows
  need; the third makes the version that the other two race for, or holds a row
  they wait for.  `ConflictTellsActive` needs a writer and a refused update, and
  a third that commits between the refused one's two reads.  They are
  interchangeable, so `MCInit` keeps one of the initial states that differ only
  in who is of which kind; `Next` does not tell them apart, so this is sound.
  The proofs have no such bound.
- `Tabs`, `Attempts`, `MaxEpoch`, `MaxFaults` (voice): an attempt that was given
  up and a newer one; three epochs, so that two tokens can be overtaken by a
  third; one lost call, expiry, repeated redemption or failed connection.  Two
  tabs, which share the session's tokens, are left to the proofs: they need no
  bound.

Deadlock checking is off everywhere: with all requests sent and all events
published, told and shown the system rests, and so do transactions that have
ended.  Transactions that wait for each other are found by
`EveryTransactionEnds` instead.

**Symmetry** of publishers and of workers is used in `redelivery` only, which
checks no liveness.

**Fairness** (`Fairness` in `LivePilot`) is weak fairness of each process:
`run_outbox_publisher` and the `main` loops of the workers run for ever, block
only on an empty stream or poll, and hold no lock across a step, so a process
that continuously has something to do does it.  A request once received is
carried to its end, as FastAPI runs a handler to its end; nobody has to send
one (`Receive` is not fair).  Faults and hand edits need not happen.  A crashed
process is started again with nothing remembered.  `compose.yaml` starts only
the infrastructure, so that restart is an assumption about operation;
without it nothing after a crash is promised by anyone.

`EveryEventPublished` needs at least one publisher that goes on after a fault,
and the bound on faults: the code retries for ever and promises nothing against
a Redis that is always down.  `EveryTurnAnswered` and `EveryTaskSettles` are
claimed without faults and interrupts only: `crashed_task` and
`cancelled_stuck` show that they fail with a crash and with an interrupt.
`ConflictIsReplanned` is claimed for one hand edit: a second one, between the
replanner's packet and its check, drops the new plan (`agent/worker.py:83`).

**Transactions** (`Fairness` in `SessionTransactions`): a handler that has begun
runs its statements, and a row that is let go is given to one that waits
(PostgreSQL queues them).  None has to begin and none has to fail: `Receive`
and `Abort` are not fair.

**Delivery** (`Fairness` in `EventDelivery`): the WebSocket handler runs its
statements and polls every half second until it is closed; the page takes its
messages, reconnects after 1.2 s, and its requests are answered.  Users, other
processes and failures need not act.  `EveryEventTold` does not ask that the
last load succeeds, only that the message or snapshot came.

**Voice** (`Fairness` in `VoiceLink`): handlers run to their end, the browser
runs what it awaits, the peers find their candidates.  Users need not start,
stop, or answer the prompt for the microphone; failures need not happen.
`voice_retry` adds users who try again after an error and let the page have the
microphone, so that its counterexample is not mere idleness.

## 5. What the violation runs show

Each checks one statement of the documentation, and TLC finds a behaviour of
the code against it.  `PROJECT.json` ("findings") quotes the lines.

- **`cancelled_stuck`** (`worker.py:84`).  `_lock_task_and_session` loads the
  task, waits for the session lock, and selects the task again `FOR UPDATE`;
  SQLAlchemy does not refresh an object that is already in the identity map
  unless asked to (`populate_existing`).  An interrupt that commits during the
  wait sets `cancel_requested`; the start transaction still sees `queued` and
  writes `running` over it.  When the worker then sees the cancel key,
  `_mark_task_cancelled` finds `running`, does nothing, and the task stays
  `running` with its message acknowledged.  The result is not wrong (nothing
  stale is accepted, see `StaleWorkSilent`), but the task never ends.
- **`crashed_task`** (`worker.py:442`).  The worker reads new entries only
  (`">"`); the `XAUTOCLAIM` of the documentation is not there.
- **`second_task`** (`outbox.py:49`).  The packet is built when the row is sent.
  Sent again by another publisher after the turn's own itinerary was confirmed,
  it carries another itinerary version, hence another idempotency key, and the
  same lookup is queued and run again.  `OneReplyPerTurn` still holds.
- **`view_goes_back`** (`App.tsx:229`).  Each event starts a load and each
  answer is shown when it comes.  Of two loads in flight the one that was read
  first can be answered last; the page then shows an older state, with no event
  left that would start another load.  The run has one session and no failing
  load.  Two further ways for the page to show the wrong view, an answer of the
  session it has left (`App.tsx:505`) and a load that fails after the last event
  (`App.tsx:284`), have no run of their own: the code does nothing against
  either, and a property that excludes them could only be refuted again.
- **`voice_retry`** (`App.tsx:414`).  A retry names the epoch of the page's
  snapshot.  An attempt stopped after `issue_realtime_token` committed returns
  before it updates that snapshot; the retry is refused with 409, the error
  handler does not load the snapshot, and so is every later one.

## 6. Proofs

`tlapm` proves, for every number of requests, publishers, agents, workers,
transactions, sessions, loads in flight, tabs and attempts, every batch limit and every bound
on faults, hand edits, events and epochs:

| Theorem | Module | States |
|---|---|---|
| `TypeCorrect` | `TypeProofs` | `Spec => []TypeOK` |
| `GapFreeLog` | `LogProofs` | `Spec => []LogGapFree` |
| `ContextsAuthored` | `LogProofs` | `Spec => []ContextAuthored` |
| `StaleWorkIsSilent` | `LogProofs` | `Spec => []StaleWorkSilent` |
| `LogImplemented` | `LogProofs` | `Spec => ImplementsEventLog` |
| `OneExecutes` | `ExecutionProofs` | `Spec => []OneExecutor` |
| `ToolRunImplemented` | `ExecutionProofs` | `Spec => ImplementsToolRun` |
| `PublishedIsSent` | `OutboxProofs` | `Spec => []PublishedWasSent` |
| `KeysUnique` | `OutboxProofs` | `Spec => []LogKeysUnique` |
| `AnswersIdempotent` | `OutboxProofs` | `Spec => []IdempotentAnswers` |
| `PatchesKept` | `OutboxProofs` | `Spec => []NoLostPatch` |
| `ItinerariesRestOnResults` | `ProvenanceProofs` | `Spec => []ItineraryProvenance` |
| `TurnsRepliedOnce` | `ProvenanceProofs` | `Spec => []OneReplyPerTurn` |
| `ResultsAreFinal` | `ProvenanceProofs` | `Spec => SucceededIsFinal` if `MaxManual = 0` |
| `TransactionsTypeCorrect` | `TransactionProofs` | `Spec => []TransactionsTypeOK` |
| `NothingEverCollides` | `TransactionProofs` | `Spec => []NothingCollides` |
| `PreferencesNamed` | `TransactionProofs` | `Spec => []EventsNamePreference` |
| `EpochsStayDistinct` | `TransactionProofs` | `Spec => []EpochsDistinct` |
| `ConflictsTellActive` | `TransactionProofs` | `Spec => []ConflictTellsActive` |
| `TransactionsImplemented` | `TransactionProofs` | `Spec => TransactionsImplementEventLog` |
| `DeliveryTypeCorrect` | `DeliveryProofs` | `Spec => []DeliveryTypeOK` |
| `ViewCovers` | `DeliveryProofs` | `Spec => []ViewCoversCursor` |
| `NothingIsSkipped` | `DeliveryProofs` | `Spec => []NothingSkipped` |
| `VoiceTypeCorrect` | `VoiceProofs` | `Spec => []VoiceTypeOK` |
| `TokensGrantedInOrder` | `VoiceProofs` | `Spec => []GrantsInOrder` |
| `MicrophoneIsShown` | `VoiceProofs` | `Spec => []MicrophoneShown` |
| `LinkIsShown` | `VoiceProofs` | `Spec => []LinkShown` |

**Assumptions.**  Those the modules state of their constants:
`FaultAssumption`, `ManualAssumption`, `BatchAssumption`, `KindAssumption`,
`ClientIdAssumption`; `SocketAssumption`, `BoundsAssumption`;
`TokenAssumption`, `NoneAssumption`; `NobodyAssumption`.  Nothing is assumed of
the sets of processes, transactions, loads, tabs and attempts, finite or not.  `ResultsAreFinal` alone has
a hypothesis, `MaxManual = 0`: nobody but `compose_reply` confirms itineraries,
which is so in the code under `backend/app`.  With an itinerary made by hand the
composer does give results up (`ComposeConflict`), and the property is false.

**`TypeCorrect`.**  `TypeOK` is inductive as it stands, but only together with
its last two parts.  That an event, a message and a worker name a *task that
exists* is needed to type the worker's reads of the task row; it holds because
the row is committed in the transaction that writes the event, and is passed on
by reference only (`ReferencesOK`).  That cursors are not ahead of their
streams and batches hold outbox rows is needed to type what is read there
(`CursorsOK`).  One lemma for each action shows the parts it can disturb, one
lemma for each process adds what it leaves alone, and `StepTypes` combines them
over `Next`.

**The log.**  Four theorems share one argument.  `LogStep` is an abstract
step of the log: nothing is appended; or events are appended within the
session's context, those that report work naming that context
(`WithinContext`); or the next context is made, its event coming last
(`NextContext`).  `AcceptLog`, `SettleLog`, `AgentLog` and their siblings show
that each step of each process is a `LogStep`, which is where the guards of the
code enter: the planner's `PacketCurrent`, the composer's comparison of
`context_version`, the worker's `ContextCurrent`, all under the session lock.
After `StepLog` the proofs no longer see processes.

- `LogGapFree` is inductive relative to `TypeOK`.
- `ContextAuthored` is inductive relative to `TypeOK`: a new context event
  carries `session.cv + 1`, larger than every earlier one.
- `StaleWorkSilent` is **not** inductive: nothing in it bounds the context of
  the events already in the log.  Its strengthening is `StaleWorkSilent /\
  ContextAuthored /\ TypeOK`: every context event so far has `cv <=
  session.cv`, and new work has `cv = session.cv`.
- `ImplementsEventLog`: a `LogStep` of the rows is a step of `EventLog` on their
  entries (number, kind, version), or leaves them alone.

**Executing tasks.**  `OneExecutor` says nothing of a task nobody executes, so
it cannot exclude that a second worker starts it.  `ExecutionInv` adds that the
call of a task in execution is `running` (`ExecutorsRun`): a start needs a task
without a call, an end makes it something else.  A worker that has loaded
`cancel_requested` writes `cancelled` over the row *as it is then*; that this
row holds no accepted result needs `CancelledOvertaken`: a cancellation was
requested in a transaction that made a newer context, so the task's results are
not accepted any more (`ContextCurrent`).  `TaskSteps` reduces `Next` to six
kinds of steps on task rows (`Rewrites` and `Plans` by the others; `Moves`,
`Starts`, `Cancels` and `Ends` by a worker), and both
`ExecutionInv` and the steps of `ToolRun` follow from these.

**The outbox.**  `PublishedWasSent` needs where a publisher is
(`SentBeforeMarked`): one that announces a row has sent it, one that marks it
has done both.  Two publishers can be at the same row, at different calls; what
they did stays, because streams and the outbox only grow.  `LogKeysUnique` is
preserved by a transaction only if its keys are new, and for some types of
events no lookup says so.  `KeysInv` therefore states what a row *says*, and
that it remains true (`StepStaysTrue`): a task whose cancellation is in the log
is of an older context, so the interrupt, which looks in the current one, cannot
cancel it again; a task whose result was discarded is not accepted, so the
composer cannot discard it again; an itinerary's event comes with the reply that
`Composable` looks for; a patch in the log is in the active preferences.
The last is half of `NoLostPatch`, and unique keys are half of
`IdempotentAnswers`.  The other half of both is `AnswersInv`: a request that
succeeded has been answered with the number of an event with its own key.

**From turn to itinerary.**  `ItineraryProvenance` and `OneReplyPerTurn` compare
tasks, turns, itineraries and replies by context, number and parent, but what is
composed is decided by a message that came through the outbox, a publisher, a
stream and an agent's memory.  `TurnInv` follows it: the routed events, the
entries of both agent streams, the messages in hand (also a rebuilt one) and the
tasks all name a *user* turn and the context that turn made, and no two user
turns have one context.  So a context is composed for one turn only, however
often the message is there.  `ReplyInv` then adds to the two properties what
they rest on: the results of an itinerary are for a turn whose reply is in the
log (`SourcesReplied`), and a reply has its row and its itinerary
(`RepliesBacked`).  The look for an existing reply in `compose_reply` enters
twice, as what makes the reply the first (`FirstReply`), and as what keeps the
composer from discarding results already used (`SourceStays`).  That nobody else
takes a result back is `ResultStays`, from `ExecutionInv`.  `SucceededIsFinal`
finally needs `PlannedOnConfirmed`: a task that waits for its reply was planned
on the itinerary that is still the confirmed one, because a new one comes only
with the reply to the one turn of the context.

**Row locks.**  What a transaction writes is computed from `seen`, the session row
it read, so everything rests on `LockInv`: one past its first statement holds
the session row, and what it has seen *is* the row.  It is inductive because
every script begins with taking that row (`SessionFirst`), and because nobody
writes a row that another holds.  The rest of `TransactionInv` follows the values
read:

- `NumbersInv` (`last_event_seq` is the length of the log) and `VersionsInv` (the
  active preference's version is one more than the updates in the log) turn
  "counted up from what was read" into "the next number", hence
  `NothingCollides` and `EventsNamePreference`;
- `HeldInv` says that the preference a transaction read is still the current one
  (a new one comes only with the session row, which is held) and that past the
  comparison of versions it is not stale;
- `EpochInv` bounds the epochs issued by the row's, hence `EpochsDistinct`;
- `ConflictInv` is for the one transaction that reads without a lock: as long as
  the context version it was told is the row's, so is the preference, because
  the two change in one commit (`ReplacedInContext`) and the session row is
  read first.

`WritesRefine` then shows each commit to be a step of `EventLog`.

**Delivery.**  Neither `ViewCoversCursor` nor `NothingSkipped` is inductive: a
view is made of what a load read and a message carried.  The strengthening
(`DeliveryInv`) adds `Covering`: in every load the session row was read before
the rows, so what it says is covered by them, or the rows are still to be read
and the log is at least that long; every snapshot on the wire is covered
likewise; a polling load asks for events from the cursor.  This is where the
order of the statements in `_load_session_snapshot` enters: with the session
row read last both properties fail (the mutant `StatementsSessionLast`).

**Voice.**  Two arguments, joined in `VoiceInv`.

- *Tokens.*  A token's epoch is *carried* by the issuer that is to store it, by
  Redis, then by the redeemer that has taken it; `CarriedOnce` says that it is
  in one of these places only and `GrantedOnce` that a granted one is in none.
  Because GETDEL takes it away, a second redemption finds nothing; because the
  check compares with the row's epoch, what is granted is the newest.  Clients,
  lost answers and repeated requests carry nothing (`VoiceMoves`), so the
  argument sees only the five steps of the gateway.
- *The page.*  `MicrophoneShown` and `LinkShown` speak of attempts and tabs, but
  whether a step preserves them depends on calls in between.  `CallsAwaited`
  ties each call to the await of its attempt (a repeated request belongs to
  nobody), and `Held` says what a tab and its current attempt know of each
  other: a tab at rest holds nothing, one that is not holds its current attempt
  only; a live microphone is in one of the tab's two refs; an open connection
  is that of an attempt that waits for it.  The guard `attempt !==
  voiceAttemptRef.current` enters in one place, `OvertakenHoldsNothing`: an
  attempt its tab has given up has neither microphone nor connection.

These strengthenings were first checked with TLC as invariants of the passing
runs' instances.

**Only model-checked.**  Liveness (`EveryTransactionEnds`, `EveryEventPublished`,
`EveryTurnAnswered`, `ConflictIsReplanned`, `EveryTaskSettles`,
`EveryEventTold`, `VoiceConnects`, `VoiceSettles`): it needs the `ENABLED` conditions of fairness, which are out of
the prover's reach.  The violation runs are TLC's counterexamples.  Every
invariant and action property that a passing run checks is proved.

## 7. Modelling decisions

- **One session.**  Sessions share no row; the streams and the publisher's
  batches are shared, and other sessions' entries only delay.
- **Statements of a transaction** (`SessionTransactions`).  Kept are those that
  take a row, those whose value is written or answered, and the comparisons in
  the order they stand.  Left out are reads whose value neither decides nor
  enters anything the properties tell apart: turn numbers, the itinerary the
  planner reads, the task loaded before the lock (that load is `TaskWorker`'s),
  and the preference version the worker compares, which changes only together
  with the context version that `Stale` compares.  The lookups of
  `client_event_id` and `dedupe_key` are `Gateway`'s and `OutboxPublisher`'s;
  each transaction here is of an id of its own.
- **Rows and locks.**  A row's name stands for all rows of its table a
  transaction can meet, which lets more transactions wait for each other than
  in PostgreSQL.  An UPDATE issued at the flush takes its row where the flush
  comes.  The key-share locks of foreign keys are on the session row, which is
  held already.  The publisher locks rows of the outbox only, and only those it
  marks.  Deadlock detection, which would abort one of a circle, is not
  modelled: `EveryTransactionEnds` says that there is none to detect.
- **Unique numbers.**  The constraints on `(session_id, event_seq)` and
  `(session_id, version)` would turn a missing lock into a failed transaction
  (`Collides`), not a wrong log; hence `NothingCollides`.  Epochs have no
  constraint.
- **Kinds chosen up front.**  A composition that finds another itinerary is a
  transaction of the kind "give up", and an interrupt has one task to cancel.
- **Payloads.**  Texts, results, `attempt`, timestamps and deadlines are left
  out.  A patch is the id of the request that sent it, so the merged payload
  shows which patches it holds.  `decide()` plans one lookup from the turn's
  text and the preference, and one context version belongs to one turn, so the
  idempotency key is `<<cv, itin, turn, pref>>`.
- **`Receive`** merges a request's arrival and its unlocked lookup.  A failed
  compare-and-set of `update_preferences` and its second lookup are one step.
- **A unique violation** in a handler rolls its transaction back (HTTP 500).
  On `tool_calls` in the worker it is not caught and ends the process: `Leave`.
- **Cancel keys** expire and their reads and writes can fail; `CancelKeySeen`
  may therefore answer FALSE for a key that was written.
- **Streams.**  Consumer groups read with `">"` and nothing claims pending
  entries, so an acknowledgement changes nothing later and is no step.
- **The itinerary edited by someone else.**  No code under `backend/app` writes
  an itinerary outside `compose_reply`; `tests/test_stage8_itinerary.py:202-226`
  inserts one by hand to reach the conflict path.  `ConfirmByHand` is that, an
  external action, bounded by `MaxManual`.
- **Replanning** (`process_compose_message`) reads its packet in statements of a
  transaction without a lock; they are one step, since `create_tasks_for_decision`
  compares all three versions again under the lock.
- **The stale load** of `worker.py:74` is a step of its own in front of each of
  the worker's transactions; the assignments then overwrite the row as it is.
- **Snapshots.**  The statements of `_load_session_snapshot` are grouped into
  three reads; the session row comes first, as in the code.  The page uses the session row and the tables of an answer, the
  poll only its events; `Used` leaves out the reads whose result nobody looks
  at.  `missed_events` are the numbers after the one asked for.
- **Messages.**  An `error` message and a message without a number start
  nothing and are left out; an answer `turn.accepted` counts as its event, as
  the page only looks at the number.
- **The page's loads** run one for each element of `Fetches`; a load started by
  an event that cannot get one waits for one to be free, as browsers limit
  requests in flight.
- **One session per page** is current; `startNewSession` and a failed first
  load leave the others' loads in flight.
- **Voice attempts.**  `voiceAttemptRef` is a counter; an attempt is current as
  long as the counter has its number and it has not ended, which is what
  `current` names.  A reference to a connection that was disposed of is no
  reference: `close()` does nothing on it.
- **Tokens** are their epochs: each issue makes one of each.  A token that
  expires or is evicted disappears (`Expire`); the comparison of `expires_at`
  in the payload refuses what the key's expiry would.
- **ICE.**  A peer finds one candidate, at any time after its local description
  is set; adding one to a peer without a remote description is an error
  (`Rejected`), as the browsers' API has it.
- **Symmetric lists.**  The order in which an interrupt's tasks get their
  events is left open (`SetToSeqs`), as the query has no ORDER BY.

## 8. Not modelled

- 404, 422 and authentication answers: they change no state.
- **Rate limiting**: one Lua script counts and sets the expiry atomically, and
  nothing else reads or writes the counter.
- **Input validation**: a pure recursion over one JSON value, within reach of
  unit tests.
- **The smoke test**: a development endpoint with a session and a task of its
  own, without context, turn, preference or outbox row before it runs.  Its
  hazard, the XADD after the commit (`main.py:1152`), is the one no property
  covers.
- **In the browser**: rendering, form fields, audio playback, transcripts and
  the data channel's events, which change nothing the properties speak of.  A
  transcript that is submitted is `Submit`.
- **Authentication, configuration**: verification by a library, predicates over
  environment variables.  **Logging, metrics, tracing, migrations**: nothing
  reads them.  **The itinerary view**: a pure selection with a test of its own.

`PROJECT.json` has the reason for each.

## 9. Plan

Done: the pipeline, its transactions statement by statement, delivery, tokens and
voice, two abstract specifications, of which one is implemented by two
specifications, and the proofs of section 6, which cover every safety property the runs check.  What
is left, in this order:

1. **Lemmas towards liveness** that are safety properties themselves: for every
   turn not settled, where its work is (a row to be published, an entry to be
   read, a message in hand, a task under way), so that only fairness remains to
   be checked; likewise for a row that is not published.
2. **The smoke test** with the `smoke_test` path of the worker, if it is to
   become more than a development endpoint.
