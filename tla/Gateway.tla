------------------------------- MODULE Gateway -------------------------------
(***************************************************************************)
(* The FastAPI handlers that write a session: finalize_turn,               *)
(* update_preferences and interrupt_session (also reached by the WebSocket *)
(* messages of the same names).  A request first looks its client_event_id *)
(* up in the outbox without a lock, then runs its transaction; concurrent  *)
(* requests interleave between the two.                                    *)
(***************************************************************************)
EXTENDS Store

CONSTANTS
  Requests,  \* the requests clients send, a retry being one of its own
  Kind,      \* which handler each request calls
  ClientId   \* the client_event_id each request carries

ASSUME KindAssumption ==
  Kind \in [Requests -> {"turn", "preference", "interrupt"}]

ASSUME ClientIdAssumption == ClientId \in [Requests -> ClientIds]

VARIABLE requests  \* the handler of each request

Committed(r) ==   \* the event a successful request of this kind leaves
  CASE Kind[r] = "turn"       -> "turn.finalized"
    [] Kind[r] = "preference" -> "preference.updated"
    [] Kind[r] = "interrupt"  -> "agent.interrupt.accepted"

RequestState ==
  [pc      : {"new", "locking", "keys", "done"},
   arg     : Nat,                \* base_context_version, or the turn's row
   keys    : SUBSET Nat,         \* cancelled_task_ids of the answer
   outcome : {"none", "ok", "conflict", "error", "invalid"},
   seq     : Nat]                \* event_seq of the answer

GatewayInit ==
  requests = [r \in Requests |->
    [pc |-> "new", arg |-> 0, keys |-> {}, outcome |-> "none", seq |-> 0]]

At(r, pc) == requests[r].pc = pc

Answer(r, outcome) ==
  requests' = [requests EXCEPT ![r].pc = "done", ![r].outcome = outcome]

\* The stored answer: an interrupt goes on to write its cancel keys again.
Respond(r, seq, ids) ==
  requests' = [requests EXCEPT
    ![r].pc = IF Kind[r] = "interrupt" THEN "keys" ELSE "done",
    ![r].keys = ids, ![r].outcome = "ok", ![r].seq = seq]

\* Mutant of Replay: answers with the session's latest event.
ReplayLatest(r) == Logged(Committed(r), <<ClientId[r]>>) /\ Respond(r, session.seq, {})

Replay(r) ==
  \E i \in DOMAIN outbox :
    /\ outbox[i].type = Committed(r) /\ outbox[i].ref = <<ClientId[r]>>
    /\ Respond(r, outbox[i].seq, outbox[i].ids)

\* A client names a context version or a turn it may have seen earlier; turn
\* 0 is one that is not of this session.
Arguments(r) ==
  CASE Kind[r] = "turn"       -> {0}
    [] Kind[r] = "preference" -> 0..session.cv
    [] Kind[r] = "interrupt"  -> 0..Len(turns)

Receive(r) ==
  /\ At(r, "new")
  /\ \/ Replay(r)
     \/ /\ ~Logged(Committed(r), <<ClientId[r]>>)
        /\ \E arg \in Arguments(r) :
             requests' = [requests EXCEPT ![r].pc = "locking", ![r].arg = arg]
  /\ UNCHANGED storeVars

-----------------------------------------------------------------------------
(* The transactions.  Inserting a dedupe_key that is already there breaks  *)
(* the unique constraint and rolls the transaction back (HTTP 500).        *)

KeyTaken(r) == Logged(Committed(r), <<ClientId[r]>>)

UniqueViolation(r) ==
  /\ KeyTaken(r)
  /\ Answer(r, "error")
  /\ UNCHANGED storeVars

Accept(r, events, ids) ==
  /\ ~KeyTaken(r)
  /\ Emit(Append(events, Event(Committed(r), <<ClientId[r]>>,
                   IF Kind[r] = "interrupt" THEN requests[r].arg
                   ELSE IF Kind[r] = "turn" THEN Len(turns) + 1 ELSE 0,
                   session.cv + 1,
                   IF Kind[r] = "preference" THEN ActivePref + 1
                   ELSE ActivePref, ids)),
          session.cv + 1)
  /\ Respond(r, session.seq + Len(events) + 1, ids)
  /\ UNCHANGED <<itins, published, redisVars, faults>>

FinalizeTurn(r) ==
  /\ At(r, "locking") /\ Kind[r] = "turn"
  /\ \/ UniqueViolation(r)
     \/ /\ Accept(r, <<>>, {})
        /\ turns' = Append(turns, [kind |-> "user_text",
             status |-> "user_final", cv |-> session.cv + 1, parent |-> 0])
        /\ UNCHANGED <<prefs, tasks>>

\* Mutant of Merged: the patch replaces the payload.
MergedAlone(r) == {ClientId[r]}

Merged(r) == prefs[ActivePref] \cup {ClientId[r]}

\* UPDATE sessions ... WHERE context_version = base, then the new version.  A
\* retry that finds its key taken here would need a base version the client
\* could not have seen; one that lost the race finds base overtaken.
UpdatePreferences(r) ==
  /\ At(r, "locking") /\ Kind[r] = "preference"
  /\ IF requests[r].arg = session.cv
     THEN \/ UniqueViolation(r)
          \/ /\ Accept(r, <<>>, {})
             /\ prefs' = Append(prefs, Merged(r))
             /\ UNCHANGED <<turns, tasks>>
     ELSE /\ \/ Replay(r)
             \/ /\ ~Logged(Committed(r), <<ClientId[r]>>)
                /\ Answer(r, "conflict")
          /\ UNCHANGED storeVars

Interruptible(n) ==
  {t \in DOMAIN tasks : /\ tasks[t].turn = n /\ tasks[t].cv = session.cv
                        /\ tasks[t].status \in {"queued", "running"}}

RegisterInterrupt(r) ==
  LET n   == requests[r].arg
      ids == Interruptible(n)
  IN /\ At(r, "locking") /\ Kind[r] = "interrupt"
     /\ \/ /\ n \notin DOMAIN turns
           /\ Answer(r, "invalid")
           /\ UNCHANGED storeVars
        \/ /\ n \in DOMAIN turns /\ turns[n].cv # session.cv
           /\ Answer(r, "conflict")
           /\ UNCHANGED storeVars
        \/ /\ n \in DOMAIN turns /\ turns[n].cv = session.cv
           /\ \/ UniqueViolation(r)
              \/ \E order \in SetToSeqs(ids) :
                   /\ Accept(r, EventPerTask("task.cancel_requested", order,
                                             n, session.cv), ids)
                   /\ turns' = [turns EXCEPT ![n].status = "interrupted"]
                   /\ tasks' = [t \in DOMAIN tasks |->
                        IF t \in ids
                        THEN [tasks[t] EXCEPT !.status = "cancel_requested"]
                        ELSE tasks[t]]
                   /\ UNCHANGED prefs

\* Only after the commit: a key whose write fails is as good as unseen.
WriteCancelKeys(r) ==
  /\ At(r, "keys")
  /\ requests' = [requests EXCEPT ![r].pc = "done"]
  /\ cancelKeys' = cancelKeys \cup requests[r].keys
  /\ UNCHANGED <<dbVars, published, stream, delivered, announced, faults>>

GatewayStep(r) ==
  \/ Receive(r)
  \/ FinalizeTurn(r)
  \/ UpdatePreferences(r)
  \/ RegisterInterrupt(r)
  \/ WriteCancelKeys(r)
=============================================================================
