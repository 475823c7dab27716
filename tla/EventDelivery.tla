---------------------------- MODULE EventDelivery ----------------------------
(***************************************************************************)
(* How a browser page follows its session: the gateway loads snapshots and *)
(* polls the event log for a WebSocket (main.py), the page shows the last  *)
(* snapshot it was given (App.tsx).                                        *)
(*                                                                         *)
(* A session's log is its last_event_seq: the events are 1, 2, ... without *)
(* a gap (GapFreeLog), and a row changes in the transaction that appends   *)
(* its event, so rows read when the log ended at n are "the rows of n".    *)
(***************************************************************************)
EXTENDS Integers, Sequences, FiniteSets

CONSTANTS
  Fetches,      \* snapshot requests a page can have in flight
  Socket,       \* the loads of the WebSocket's own handler
  MaxSessions,  \* bound on sessions created
  MaxEvents,    \* bound on the events of one session
  MaxRecoveries, \* bound on lost connections, reloads and session.resume
  MaxRefused    \* bound on snapshot requests that fail

ASSUME SocketAssumption == Socket \notin Fetches

ASSUME BoundsAssumption ==
  MaxSessions \in Nat /\ MaxEvents \in Nat /\ MaxRecoveries \in Nat /\ MaxRefused \in Nat

VARIABLES
  last,    \* last_event_seq of each session, by number
  loads,   \* _load_session_snapshot, once for each reader
  socket,  \* the handler of the page's WebSocket
  wire,    \* messages sent on it and not received
  told,    \* events its messages have covered since it was opened
  page,    \* the page: its session (0: none) and the snapshot it shows
  recoveries,   \* connections lost, reloads and session.resume so far
  refused  \* snapshot requests failed so far

vars == <<last, loads, socket, wire, told, page, recoveries, refused>>

Readers == Fetches \cup {Socket}

-----------------------------------------------------------------------------
(* Loading a snapshot: the statements of one READ COMMITTED transaction,   *)
(* each of which sees what is committed when it runs.  "rows" stands for   *)
(* the preference, turns, tasks, tool calls and itinerary.                 *)

\* Mutant of Statements: the events and rows before the session row.
StatementsSessionLast == <<"events", "rows", "session">>

Statements == <<"session", "rows", "events">>

\* A load opens a session on the page, or follows its news.
Reasons == {"open", "news"}

Load == [at      : 0..4,  \* 0: free; 4: all statements done
         of      : Nat,
         why     : Reasons,
         session : Nat, rows : Nat, events : Nat]

FreeLoad == [at |-> 0, of |-> 0, why |-> "news",
             session |-> 0, rows |-> 0, events |-> 0]

LoadOf(s, why) == [FreeLoad EXCEPT !.at = 1, !.of = s, !.why = why]

Free(l) == loads[l].at = 0

Begin(l, s, why) == loads' = [loads EXCEPT ![l] = LoadOf(s, why)]
Release(l)         == loads' = [loads EXCEPT ![l] = FreeLoad]

\* The page looks at no missed_events, the poll at nothing else.
Used(l, f) ==
  IF f = "events" THEN l = Socket ELSE l # Socket \/ socket.phase # "polling"

\* Nothing that is still to be read is used.
Loaded(l) == ~Free(l) /\ \A k \in loads[l].at..3 : ~Used(l, Statements[k])

\* The next statement reads field f of the answer.
ReadField(l, f) ==
  LET now  == IF Used(l, f) THEN last[loads[l].of] ELSE 0
      next == [loads[l] EXCEPT !.at = @ + 1]
  IN loads' = [loads EXCEPT ![l] =
       CASE f = "session" -> [next EXCEPT !.session = now]
         [] f = "rows"    -> [next EXCEPT !.rows = now]
         [] f = "events"  -> [next EXCEPT !.events = now]]

Read(l) ==
  /\ ~Free(l) /\ ~Loaded(l)
  /\ ReadField(l, Statements[loads[l].at])
  /\ UNCHANGED <<last, socket, wire, told, page, recoveries, refused>>

-----------------------------------------------------------------------------
(* The WebSocket handler session_events.                                   *)

SocketState ==
  [phase  : {"down", "opening", "open", "polling", "resuming"},
   of     : Nat,
   after  : Nat,   \* after_event_seq the load in progress was asked for
   cursor : Nat]   \* after_event_seq of the next poll

Down == [phase |-> "down", of |-> 0, after |-> 0, cursor |-> 0]

Message == [type : {"session.snapshot", "event"}, seq : Nat, rows : Nat]

Event(seq) == [type |-> "event", seq |-> seq, rows |-> 0]

Newer(end, after) == IF end > after THEN end - after ELSE 0

\* Mutant of EventMessages: the newest event is left for the next poll.
EventMessagesButLast(after, end) ==
  [i \in 1..Newer(end - 1, after) |-> Event(after + i)]

\* The missed_events, as messages.
EventMessages(after, end) == [i \in 1..Newer(end, after) |-> Event(after + i)]

SnapshotMessage == [type |-> "session.snapshot",
                    seq |-> loads[Socket].session, rows |-> loads[Socket].rows]

\* The events a message is news of.
Content(m) == IF m.type = "event" THEN {m.seq} ELSE 1..m.rows

Send(messages) ==
  /\ wire' = wire \o messages
  /\ told' = told \cup UNION {Content(messages[i]) : i \in DOMAIN messages}

\* Mutant of CursorAfterSnapshot: the newest event known when it is sent.
CursorAfterSnapshotNow == last[socket.of]

\* The value _send_snapshot_and_missed_events returns.
CursorAfterSnapshot == loads[Socket].session

\* A snapshot, then the missed events; the poll goes on from the snapshot's
\* last_event_seq, so an event that was missed and is newer comes again.
SendSnapshot ==
  /\ Loaded(Socket)
  /\ Send(<<SnapshotMessage>>
            \o EventMessages(socket.after, loads[Socket].events))
  /\ socket' = [socket EXCEPT !.phase = "open", !.after = 0,
                              !.cursor = CursorAfterSnapshot]
  /\ Release(Socket)
  /\ UNCHANGED <<last, page, recoveries, refused>>

Accept == socket.phase = "opening" /\ SendSnapshot

\* 0.5 s without a message.
Poll ==
  /\ socket.phase = "open"
  /\ socket' = [socket EXCEPT !.phase = "polling", !.after = socket.cursor]
  /\ Begin(Socket, socket.of, "news")
  /\ UNCHANGED <<last, wire, told, page, recoveries, refused>>

PolledCursor(after, end) == IF end > after THEN end ELSE after

SendPolled ==
  /\ socket.phase = "polling" /\ Loaded(Socket)
  /\ LET end == loads[Socket].events
     IN /\ Send(EventMessages(socket.after, end))
        /\ socket' = [socket EXCEPT !.phase = "open", !.after = 0,
                        !.cursor = PolledCursor(socket.after, end)]
  /\ Release(Socket)
  /\ UNCHANGED <<last, page, recoveries, refused>>

\* A session.resume message names any number as after_event_seq, here one up
\* to MaxEvents, and is taken whatever is still on the wire.
Resume ==
  /\ socket.phase = "open" /\ recoveries < MaxRecoveries
  /\ recoveries' = recoveries + 1
  /\ \E after \in 0..MaxEvents :
       socket' = [socket EXCEPT !.phase = "resuming", !.after = after]
  /\ Begin(Socket, socket.of, "news")
  /\ UNCHANGED <<last, wire, told, page, refused>>

Resumed == socket.phase = "resuming" /\ SendSnapshot

\* A turn.finalized or agent.interrupt message: the answer carries its event.
SubmitOnSocket ==
  /\ socket.phase = "open" /\ last[socket.of] < MaxEvents
  /\ last' = [last EXCEPT ![socket.of] = @ + 1]
  /\ Send(EventMessages(last[socket.of], last[socket.of] + 1))
  /\ UNCHANGED <<loads, socket, page, recoveries, refused>>

-----------------------------------------------------------------------------
(* The page.                                                               *)

View   == [of : Nat, seq : Nat, rows : Nat]
NoView == [of |-> 0, seq |-> 0, rows |-> 0]

Show(s, seq, rows) ==
  page' = [page EXCEPT !.view = [of |-> s, seq |-> seq, rows |-> rows]]

HangUp ==
  /\ socket' = Down
  /\ wire' = <<>>
  /\ told' = {}

\* Mutant of NewSession: the id is taken before the row is inserted.
NewSessionBefore == Len(last)

NewSession == Len(last) + 1

\* POST /v1/sessions, then the first load, which fetch f carries.
CreateSession(f) ==
  /\ page.view = NoView /\ Len(last) < MaxSessions /\ Free(f)
  /\ last' = Append(last, 1)
  /\ page' = [page EXCEPT !.session = NewSession]
  /\ loads' = [loads EXCEPT ![f] = LoadOf(NewSession, "open"),
                            ![Socket] = FreeLoad]
  /\ HangUp
  /\ UNCHANGED <<recoveries, refused>>

\* The effect on sessionId, and the timer of a closed socket.
Connect ==
  /\ page.session # 0 /\ socket.phase = "down" /\ Free(Socket)
  /\ socket' = [phase |-> "opening", of |-> page.session,
                after |-> page.view.seq, cursor |-> 0]
  /\ Begin(Socket, page.session, "news")
  /\ UNCHANGED <<last, wire, told, page, recoveries, refused>>

\* A snapshot is shown as it is; any other numbered message starts a load.
Receive ==
  /\ wire # <<>>
  /\ wire' = Tail(wire)
  /\ \/ /\ Head(wire).type = "session.snapshot"
        /\ Show(socket.of, Head(wire).seq, Head(wire).rows)
        /\ UNCHANGED loads
     \/ /\ Head(wire).type = "event"
        /\ \E f \in Fetches : Free(f) /\ Begin(f, socket.of, "news")
        /\ UNCHANGED page
  /\ UNCHANGED <<last, socket, told, recoveries, refused>>

\* loadSnapshot shows what the answer holds, whatever is shown already.
Response(f) ==
  /\ Loaded(f)
  /\ Show(loads[f].of, loads[f].session, loads[f].rows)
  /\ Release(f)
  /\ UNCHANGED <<last, socket, wire, told, recoveries, refused>>

\* submitTurnText and interruptAgent: a request, then a load.
Submit(f) ==
  /\ page.session # 0 /\ page.view # NoView /\ Free(f)
  /\ last[page.session] < MaxEvents
  /\ last' = [last EXCEPT ![page.session] = @ + 1]
  /\ Begin(f, page.session, "news")
  /\ UNCHANGED <<socket, wire, told, page, recoveries, refused>>

\* Loads in flight, and one for the interrupt of stopVoice, go on.
StartNewSession ==
  /\ page.view # NoView
  /\ page' = [session |-> 0, view |-> NoView]
  /\ loads' = [loads EXCEPT ![Socket] = FreeLoad]
  /\ HangUp
  /\ UNCHANGED <<last, recoveries, refused>>

-----------------------------------------------------------------------------
(* The rest of the system, and what goes wrong.                            *)

\* Another process appends one or two events in a transaction.
Commit ==
  \E s \in DOMAIN last, n \in 1..2 :
    /\ last[s] + n <= MaxEvents
    /\ last' = [last EXCEPT ![s] = @ + n]
    /\ UNCHANGED <<loads, socket, wire, told, page, recoveries, refused>>

\* The network or the gateway's process ends the connection.
Drop ==
  /\ socket.phase # "down" /\ recoveries < MaxRecoveries
  /\ recoveries' = recoveries + 1
  /\ loads' = [loads EXCEPT ![Socket] = FreeLoad]
  /\ HangUp
  /\ UNCHANGED <<last, page, refused>>

\* The page is loaded again; localStorage still names its session.
Reload(f) ==
  /\ page.session # 0 /\ recoveries < MaxRecoveries
  /\ recoveries' = recoveries + 1
  /\ page' = [page EXCEPT !.view = NoView]
  /\ loads' = [[l \in Readers |-> FreeLoad] EXCEPT
                 ![f] = LoadOf(page.session, "open")]
  /\ HangUp
  /\ UNCHANGED <<last, refused>>

\* A first load that fails takes the page back to the start, whatever session
\* it has by then; the failure of any other load is not looked at.
Refuse(f) ==
  /\ loads[f].at \in 1..4 /\ refused < MaxRefused
  /\ refused' = refused + 1
  /\ \/ /\ loads[f].why = "open"
        /\ page' = [session |-> 0, view |-> NoView]
        /\ loads' = [loads EXCEPT ![f] = FreeLoad, ![Socket] = FreeLoad]
        /\ HangUp
     \/ /\ loads[f].why = "news"
        /\ Release(f)
        /\ UNCHANGED <<page, socket, wire, told>>
  /\ UNCHANGED <<last, recoveries>>

-----------------------------------------------------------------------------

Init ==
  /\ last = <<>>
  /\ loads = [l \in Readers |-> FreeLoad]
  /\ socket = Down
  /\ wire = <<>>
  /\ told = {}
  /\ page = [session |-> 0, view |-> NoView]
  /\ recoveries = 0
  /\ refused = 0

Serve == Accept \/ Poll \/ SendPolled \/ Resumed \/ Read(Socket)

Next ==
  \/ Serve \/ Resume \/ SubmitOnSocket
  \/ Connect \/ Receive \/ StartNewSession
  \/ \E f \in Fetches :
       \/ Read(f) \/ Response(f)
       \/ CreateSession(f) \/ Submit(f) \/ Reload(f) \/ Refuse(f)
  \/ Commit \/ Drop

Spec == Init /\ [][Next]_vars

\* A handler runs to its end and a WebSocket handler polls until it is closed;
\* the page reconnects after 1.2 s and takes its messages as they come.
\* Users, other processes and failures need not do anything.
Fairness ==
  /\ WF_vars(Serve)
  /\ WF_vars(Connect)
  /\ WF_vars(Receive)
  /\ \A f \in Fetches : WF_vars(Read(f) \/ Response(f))

FairSpec == Spec /\ Fairness

-----------------------------------------------------------------------------
(* Properties.                                                             *)

\* Every variable keeps its type, and a load or a socket that is busy is one
\* of a session that exists.
DeliveryTypeOK ==
  /\ last \in Seq(Nat \ {0})
  /\ loads \in [Readers -> Load]
  /\ socket \in SocketState
  /\ wire \in Seq(Message)
  /\ told \subseteq Nat
  /\ page \in [session : 0..Len(last), view : View]
  /\ recoveries \in 0..MaxRecoveries /\ refused \in 0..MaxRefused
  /\ \A l \in Readers : ~Free(l) => loads[l].of \in DOMAIN last
  /\ socket.phase # "down" \/ wire # <<>> => socket.of \in DOMAIN last

\* What a view calls its last event is in its rows: a page that resumes from
\* the view's last_event_seq has lost nothing, although the session row and
\* the other tables are read one after the other while events are committed.
ViewCoversCursor == page.view.seq <= page.view.rows

\* No event is skipped on a connection: whatever is older than the cursor of
\* the next poll was sent, or is in a snapshot that was.
NothingSkipped == socket.phase # "down" => 1..socket.cursor \subseteq told

Told == page.session # 0 => 1..last[page.session] \subseteq told /\ wire = <<>>

\* Every event is told: when the log comes to rest, the page has taken a
\* message or a snapshot for each event of its session, however often the
\* connection was lost and wherever between the statements of a load the
\* events were committed.
EveryEventTold == <>[]Told

-----------------------------------------------------------------------------
(* Not kept.                                                               *)

ViewIsNewest ==
  page.session # 0 =>
    page.view.of = page.session /\ page.view.seq = last[page.session]

\* "The front end consumes the events in order" (LivePilotInstruction.md:684)
\* and "a task's status is updated in real time" (dev_plan.md:12): when the log
\* comes to rest, the page shows its end.  A response is shown when it comes,
\* so one that was read earlier, or for another session, can be the last.
ViewSettles == <>[]ViewIsNewest
=============================================================================
