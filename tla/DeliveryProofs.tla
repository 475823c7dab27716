---------------------------- MODULE DeliveryProofs ----------------------------
(***************************************************************************)
(* Event delivery for any number of sessions, events, requests in flight   *)
(* and lost connections: types, ViewCoversCursor and NothingSkipped.  A    *)
(* step is taken apart by what it does to the logs, to the loads, to the   *)
(* socket and to the wire.                                                 *)
(***************************************************************************)
EXTENDS EventDelivery, SequenceTheorems, TLAPS

-----------------------------------------------------------------------------
(* Data.                                                                   *)

\* A session that exists has a number from 1 on.
LEMMA SessionNumbers ==
  ASSUME DeliveryTypeOK
  PROVE  /\ Len(last) \in Nat /\ DOMAIN last = 1..Len(last)
         /\ \A s \in DOMAIN last : last[s] \in Nat /\ last[s] > 0
         /\ page.session \in Nat
         /\ page.session # 0 => page.session \in DOMAIN last
<1>1. last \in Seq(Nat \ {0}) /\ page.session \in 0..Len(last)
  BY DEF DeliveryTypeOK
<1>2. Len(last) \in Nat /\ DOMAIN last = 1..Len(last)
  BY <1>1, LenProperties
<1>3. \A s \in DOMAIN last : last[s] \in Nat \ {0}
  BY <1>1, <1>2, ElementOfSeq
<1> QED
  BY <1>1, <1>2, <1>3

\* The missed events are messages, numbered on from the one asked for.
LEMMA MissedEvents ==
  ASSUME NEW after \in Nat, NEW end \in Nat
  PROVE  /\ EventMessages(after, end) \in Seq(Message)
         /\ \A i \in DOMAIN EventMessages(after, end) :
              EventMessages(after, end)[i].type = "event"
         /\ \A n \in (after + 1)..end :
              \E i \in DOMAIN EventMessages(after, end) :
                n \in Content(EventMessages(after, end)[i])
<1> DEFINE missed == EventMessages(after, end)
<1>1. Newer(end, after) \in Nat
  BY DEF Newer
<1>2. missed = [i \in 1..Newer(end, after) |-> Event(after + i)]
  BY DEF EventMessages
<1>3. \A i \in 1..Newer(end, after) :
        /\ missed[i] = Event(after + i) /\ Event(after + i) \in Message
        /\ missed[i].type = "event" /\ missed[i].seq = after + i
  BY <1>1, <1>2 DEF Event, Message
<1>4. missed \in Seq(Message) /\ DOMAIN missed = 1..Newer(end, after)
  BY <1>1, <1>2, <1>3
<1>5. ASSUME NEW n \in (after + 1)..end
      PROVE  \E i \in DOMAIN missed : n \in Content(missed[i])
  <2>1. n - after \in 1..Newer(end, after) /\ after + (n - after) = n
    BY DEF Newer
  <2>2. missed[n - after].type = "event" /\ missed[n - after].seq = n
    BY <1>3, <2>1
  <2> QED
    BY <1>4, <2>1, <2>2 DEF Content
<1> QED
  BY <1>3, <1>4, <1>5

-----------------------------------------------------------------------------
(* The logs.                                                               *)

LastGrows ==
  /\ last' \in Seq(Nat \ {0})
  /\ DOMAIN last \subseteq DOMAIN last' /\ Len(last) <= Len(last')
  /\ \A s \in DOMAIN last : last[s] <= last'[s]

\* Appending n events to the log of session s.
LEMMA EventsAppended ==
  ASSUME DeliveryTypeOK, NEW s \in DOMAIN last, NEW n \in Nat,
         last' = [last EXCEPT ![s] = @ + n]
  PROVE  LastGrows
<1>1. last \in Seq(Nat \ {0})
  BY DEF DeliveryTypeOK
<1>2. s \in 1..Len(last) /\ last[s] + n \in Nat \ {0}
  BY SessionNumbers
<1>3. /\ last' \in Seq(Nat \ {0}) /\ Len(last') = Len(last)
      /\ \A j \in 1..Len(last) : last'[j] = IF j = s THEN last[s] + n ELSE last[j]
  BY <1>1, <1>2, ExceptSeq
<1>4. DOMAIN last' = 1..Len(last')
  BY <1>3, LenProperties
<1> QED
  BY <1>3, <1>4, SessionNumbers DEF LastGrows

\* No step shortens a log or forgets a session.
LEMMA LogsGrow ==
  ASSUME DeliveryTypeOK, Next
  PROVE  LastGrows
<1>1. UNCHANGED last => LastGrows
  BY SessionNumbers DEF LastGrows, DeliveryTypeOK
<1>2. CASE \E f \in Fetches : CreateSession(f)
  <2>1. last' = Append(last, 1) /\ last \in Seq(Nat \ {0})
    BY <1>2 DEF CreateSession, DeliveryTypeOK
  <2>2. /\ last' \in Seq(Nat \ {0}) /\ Len(last') = Len(last) + 1
        /\ \A i \in 1..Len(last) : last'[i] = last[i]
    BY <2>1, SessionNumbers, AppendProperties
  <2>3. DOMAIN last' = 1..Len(last')
    BY <2>2, LenProperties
  <2> QED
    BY <2>2, <2>3, SessionNumbers DEF LastGrows
<1>3. CASE \E f \in Fetches : Submit(f)
  <2>1. /\ page.session \in DOMAIN last
        /\ last' = [last EXCEPT ![page.session] = @ + 1]
    BY <1>3, SessionNumbers DEF Submit
  <2> QED
    BY <2>1, EventsAppended
<1>4. CASE SubmitOnSocket
  <2>1. /\ socket.of \in DOMAIN last
        /\ last' = [last EXCEPT ![socket.of] = @ + 1]
    BY <1>4 DEF SubmitOnSocket, DeliveryTypeOK
  <2> QED
    BY <2>1, EventsAppended
<1>5. CASE Commit
  <2>1. PICK s \in DOMAIN last, n \in 1..2 : last' = [last EXCEPT ![s] = @ + n]
    BY <1>5 DEF Commit
  <2>2. n \in Nat
    OBVIOUS
  <2> QED
    BY <2>1, <2>2, EventsAppended
<1>6. CASE Serve
  BY <1>1, <1>6
     DEF Serve, Accept, SendSnapshot, Poll, SendPolled, Resumed, Read
<1>7. CASE Resume \/ Connect \/ Receive \/ StartNewSession \/ Drop
  BY <1>1, <1>7 DEF Resume, Connect, Receive, StartNewSession, Drop
<1>8. CASE \E f \in Fetches : Read(f) \/ Response(f) \/ Reload(f) \/ Refuse(f)
  BY <1>1, <1>8 DEF Read, Response, Reload, Refuse
<1> QED
  BY <1>2, <1>3, <1>4, <1>5, <1>6, <1>7, <1>8 DEF Next

-----------------------------------------------------------------------------
(* The loads.                                                              *)

\* A load is left alone, or given up, or begun anew.
LoadKept(l) ==
  \/ loads'[l] = loads[l]
  \/ loads'[l] = FreeLoad
  \/ \E s \in DOMAIN last', why \in Reasons : loads'[l] = LoadOf(s, why)

LoadsKept ==
  /\ loads' = [l \in Readers |-> loads'[l]]
  /\ \A l \in Readers : LoadKept(l)

\* The readers are the page's requests and the socket; why they load.
LEMMA ReaderKinds ==
  /\ Socket \in Readers
  /\ \A f \in Fetches : f \in Readers /\ f # Socket
  /\ "open" \in Reasons /\ "news" \in Reasons
BY SocketAssumption DEF Readers, Reasons

\* Records of a load with fields changed.
LEMMA LoadChanged ==
  ASSUME NEW x \in Load, NEW k \in 0..4, NEW n \in Nat, NEW why \in Reasons
  PROVE  /\ [x EXCEPT !.at = k, !.session = n] \in Load
         /\ [x EXCEPT !.at = k, !.rows = n] \in Load
         /\ [x EXCEPT !.at = k, !.events = n] \in Load
         /\ [x EXCEPT !.at = k, !.of = n, !.why = why] \in Load
<1>1. [x EXCEPT !.at = k, !.session = n] \in Load
  BY DEF Load
<1>2. [x EXCEPT !.at = k, !.rows = n] \in Load
  BY DEF Load
<1>3. [x EXCEPT !.at = k, !.events = n] \in Load
  BY DEF Load
<1>4. [x EXCEPT !.at = k, !.of = n, !.why = why] \in Load
  BY DEF Load
<1> QED
  BY <1>1, <1>2, <1>3, <1>4

\* A free load, and one that was just begun.
LEMMA LoadStarts ==
  /\ FreeLoad \in Load /\ FreeLoad.at = 0
  /\ \A s \in Nat, why \in Reasons :
       /\ LoadOf(s, why) \in Load
       /\ LoadOf(s, why).at = 1 /\ LoadOf(s, why).of = s
       /\ LoadOf(s, why).session = 0
<1>1. FreeLoad \in Load /\ FreeLoad.at = 0
  BY DEF FreeLoad, Load, Reasons
<1>2. ASSUME NEW s \in Nat, NEW why \in Reasons
      PROVE  LoadOf(s, why) \in Load
  <2>1. 1 \in 0..4
    OBVIOUS
  <2> QED
    BY <1>1, <2>1, LoadChanged DEF LoadOf
<1>3. ASSUME NEW s \in Nat, NEW why \in Reasons
      PROVE  /\ LoadOf(s, why).at = 1 /\ LoadOf(s, why).of = s
             /\ LoadOf(s, why).session = 0
  BY DEF LoadOf, FreeLoad
<1> QED
  BY <1>1, <1>2, <1>3

\* What starting and ending a load does.
LEMMA LoadsBegin ==
  ASSUME DeliveryTypeOK, LastGrows, NEW l \in Readers,
         \/ UNCHANGED loads
         \/ Release(l)
         \/ \E s \in DOMAIN last', why \in Reasons : Begin(l, s, why)
  PROVE  LoadsKept
<1>1. loads = [k \in Readers |-> loads[k]]
  BY DEF DeliveryTypeOK
<1> QED
  BY <1>1 DEF LoadsKept, LoadKept, Release, Begin

\* Every step but a read keeps, ends or begins loads.
LEMMA LoadsStep ==
  ASSUME DeliveryTypeOK, Next, ~ \E l \in Readers : Read(l)
  PROVE  LoadsKept
<1>1. LastGrows /\ loads = [k \in Readers |-> loads[k]]
  BY LogsGrow DEF DeliveryTypeOK
<1>2. /\ page.session # 0 => page.session \in DOMAIN last'
      /\ socket.phase # "down" \/ wire # <<>> => socket.of \in DOMAIN last'
  BY <1>1, SessionNumbers DEF LastGrows, DeliveryTypeOK
<1>3. CASE UNCHANGED loads
  BY <1>1, <1>3, ReaderKinds, LoadsBegin
<1>4. CASE \E l \in Readers : Release(l)
  BY <1>1, <1>4, LoadsBegin
<1>5. ASSUME NEW l \in Readers, NEW s \in DOMAIN last', NEW why \in Reasons,
             Begin(l, s, why)
      PROVE  LoadsKept
  BY <1>1, <1>5, LoadsBegin
<1>6. CASE Serve
  BY <1>2, <1>4, <1>5, <1>6, ReaderKinds
     DEF Serve, Accept, SendSnapshot, Poll, SendPolled, Resumed
<1>7. CASE Resume \/ Connect
  BY <1>2, <1>5, <1>7, ReaderKinds DEF Resume, Connect
<1>8. CASE SubmitOnSocket \/ Commit
  BY <1>3, <1>8 DEF SubmitOnSocket, Commit
<1>9. CASE Receive
  <2>1. wire # <<>> /\ wire \in Seq(Message)
    BY <1>9 DEF Receive, DeliveryTypeOK
  <2> QED
    BY <1>2, <1>3, <1>5, <1>9, ReaderKinds DEF Receive
<1>10. CASE StartNewSession \/ Drop
  BY <1>1, <1>10 DEF StartNewSession, Drop, LoadsKept, LoadKept
<1>11. ASSUME NEW f \in Fetches, CreateSession(f)
       PROVE  LoadsKept
  <2>1. /\ last' = Append(last, 1) /\ NewSession = Len(last) + 1
        /\ last \in Seq(Nat \ {0})
    BY <1>11 DEF CreateSession, NewSession, DeliveryTypeOK
  <2>2. Len(last') = Len(last) + 1 /\ DOMAIN last' = 1..Len(last')
    BY <1>1, <2>1, AppendProperties, LenProperties DEF LastGrows
  <2>3. NewSession \in DOMAIN last'
    BY <2>1, <2>2, SessionNumbers
  <2>4. loads' = [loads EXCEPT ![f] = LoadOf(NewSession, "open"),
                               ![Socket] = FreeLoad]
    BY <1>11 DEF CreateSession
  <2> QED
    BY <1>1, <2>3, <2>4, ReaderKinds DEF LoadsKept, LoadKept
<1>12. ASSUME NEW f \in Fetches, Submit(f)
       PROVE  LoadsKept
  BY <1>2, <1>5, <1>12, ReaderKinds DEF Submit
<1>13. ASSUME NEW f \in Fetches, Reload(f)
       PROVE  LoadsKept
  <2>1. /\ page.session \in DOMAIN last'
        /\ loads' = [[l \in Readers |-> FreeLoad] EXCEPT
                       ![f] = LoadOf(page.session, "open")]
    BY <1>2, <1>13 DEF Reload
  <2> QED
    BY <2>1, ReaderKinds DEF LoadsKept, LoadKept
<1>14. ASSUME NEW f \in Fetches, Refuse(f)
       PROVE  LoadsKept
  BY <1>1, <1>4, <1>14, ReaderKinds DEF Refuse, LoadsKept, LoadKept
<1>15. ASSUME NEW f \in Fetches, Response(f)
       PROVE  LoadsKept
  BY <1>4, <1>15, ReaderKinds DEF Response
<1>16. \A f \in Fetches : ~Read(f)
  BY ReaderKinds
<1> QED
  BY <1>6, <1>7, <1>8, <1>9, <1>10, <1>11, <1>12, <1>13, <1>14, <1>15, <1>16
     DEF Next

\* What the next statement answers of field f.
Seen(l, f) == IF Used(l, f) THEN last[loads[l].of] ELSE 0

\* A read fills in the field of its statement.
LEMMA ReadStep ==
  ASSUME DeliveryTypeOK, NEW l \in Readers, Read(l)
  PROVE  /\ loads' \in [Readers -> Load]
         /\ \A k \in Readers : k # l => loads'[k] = loads[k]
         /\ loads[l].at \in 1..3
         /\ loads[l].of \in DOMAIN last /\ last[loads[l].of] \in Nat
         /\ loads'[l].at = loads[l].at + 1 /\ loads'[l].of = loads[l].of
         /\ loads'[l].session =
              IF loads[l].at = 1 THEN Seen(l, "session") ELSE loads[l].session
         /\ loads'[l].rows =
              IF loads[l].at = 2 THEN Seen(l, "rows") ELSE loads[l].rows
<1>1. loads \in [Readers -> Load] /\ loads[l] \in Load
  BY DEF DeliveryTypeOK
<1>2. loads[l].at \in 1..3
  BY <1>1 DEF Read, Free, Loaded, Load
<1>3. loads[l].of \in DOMAIN last /\ last[loads[l].of] \in Nat
  BY <1>2, SessionNumbers DEF DeliveryTypeOK, Free
<1>4. \A f \in {"session", "rows", "events"} : Seen(l, f) \in Nat
  BY <1>3 DEF Seen
<1>5. ReadField(l, Statements[loads[l].at])
  BY DEF Read
<1>6. CASE loads[l].at = 1
  <2> DEFINE next == [loads[l] EXCEPT !.at = 2, !.session = Seen(l, "session")]
  <2>1. loads' = [loads EXCEPT ![l] = next]
    BY <1>1, <1>5, <1>6 DEF ReadField, Statements, Seen
  <2>2. next \in Load
    <3>1. Seen(l, "session") \in Nat /\ 2 \in 0..4 /\ "news" \in Reasons
      BY <1>4 DEF Reasons
    <3> QED
      BY <1>1, <3>1, LoadChanged
  <2>3. /\ next.at = 2 /\ next.of = loads[l].of
        /\ next.session = Seen(l, "session")
        /\ next.rows = loads[l].rows
    BY <1>1 DEF Load
  <2> HIDE DEF next
  <2> QED
    BY <1>1, <1>2, <1>3, <1>6, <2>1, <2>2, <2>3
<1>7. CASE loads[l].at = 2
  <2> DEFINE next == [loads[l] EXCEPT !.at = 3, !.rows = Seen(l, "rows")]
  <2>1. loads' = [loads EXCEPT ![l] = next]
    BY <1>1, <1>5, <1>7 DEF ReadField, Statements, Seen
  <2>2. next \in Load
    <3>1. Seen(l, "rows") \in Nat /\ 3 \in 0..4 /\ "news" \in Reasons
      BY <1>4 DEF Reasons
    <3> QED
      BY <1>1, <3>1, LoadChanged
  <2>3. /\ next.at = 3 /\ next.of = loads[l].of
        /\ next.session = loads[l].session
        /\ next.rows = Seen(l, "rows")
    BY <1>1 DEF Load
  <2> HIDE DEF next
  <2> QED
    BY <1>1, <1>2, <1>3, <1>7, <2>1, <2>2, <2>3
<1>8. CASE loads[l].at = 3
  <2> DEFINE next == [loads[l] EXCEPT !.at = 4, !.events = Seen(l, "events")]
  <2>1. loads' = [loads EXCEPT ![l] = next]
    BY <1>1, <1>5, <1>8 DEF ReadField, Statements, Seen
  <2>2. next \in Load
    <3>1. Seen(l, "events") \in Nat /\ 4 \in 0..4 /\ "news" \in Reasons
      BY <1>4 DEF Reasons
    <3> QED
      BY <1>1, <3>1, LoadChanged
  <2>3. /\ next.at = 4 /\ next.of = loads[l].of
        /\ next.session = loads[l].session
        /\ next.rows = loads[l].rows
    BY <1>1 DEF Load
  <2> HIDE DEF next
  <2> QED
    BY <1>1, <1>2, <1>3, <1>8, <2>1, <2>2, <2>3
<1> QED
  BY <1>2, <1>6, <1>7, <1>8

\* After any step the loads have their type, and one in use is of a session.
LEMMA LoadsTyped ==
  ASSUME DeliveryTypeOK, Next
  PROVE  /\ loads' \in [Readers -> Load]
         /\ \A l \in Readers : loads'[l].at # 0 => loads'[l].of \in DOMAIN last'
<1>1. LastGrows /\ loads \in [Readers -> Load]
  BY LogsGrow DEF DeliveryTypeOK
<1>2. CASE \E l \in Readers : Read(l)
  <2>1. PICK l \in Readers : Read(l)
    BY <1>2
  <2> QED
    BY <1>1, <2>1, ReadStep DEF LastGrows, DeliveryTypeOK, Free
<1>3. CASE ~ \E l \in Readers : Read(l)
  <2>1. LoadsKept
    BY <1>3, LoadsStep
  <2>2. DOMAIN last' \subseteq Nat
    BY <1>1, LenProperties DEF LastGrows
  <2>3. ASSUME NEW l \in Readers
        PROVE  /\ loads'[l] \in Load
               /\ loads'[l].at # 0 => loads'[l].of \in DOMAIN last'
    <3>1. LoadKept(l)
      BY <2>1 DEF LoadsKept
    <3>2. CASE loads'[l] = loads[l]
      BY <1>1, <3>2 DEF LastGrows, DeliveryTypeOK, Free
    <3> QED
      BY <2>2, <3>1, <3>2, LoadStarts DEF LoadKept
  <2> QED
    BY <2>1, <2>3 DEF LoadsKept
<1> QED
  BY <1>2, <1>3

-----------------------------------------------------------------------------
(* The socket, the wire and the page.                                      *)

\* What is sent is messages, and they are news of events.
LEMMA SentTyped ==
  ASSUME DeliveryTypeOK, NEW messages \in Seq(Message), Send(messages)
  PROVE  /\ wire' \in Seq(Message) /\ told' \subseteq Nat
         /\ Len(wire') = Len(wire) + Len(messages)
         /\ \A i \in DOMAIN wire' :
              \/ i \in DOMAIN wire /\ wire'[i] = wire[i]
              \/ \E j \in DOMAIN messages : wire'[i] = messages[j]
<1>1. wire \in Seq(Message) /\ wire' = wire \o messages
  BY DEF DeliveryTypeOK, Send
<1>2. /\ wire' \in Seq(Message) /\ Len(wire') = Len(wire) + Len(messages)
      /\ \A i \in 1..Len(wire') :
           wire'[i] = IF i <= Len(wire) THEN wire[i]
                                        ELSE messages[i - Len(wire)]
  BY <1>1, ConcatProperties
<1>3. /\ Len(wire) \in Nat /\ Len(messages) \in Nat
      /\ DOMAIN wire = 1..Len(wire) /\ DOMAIN messages = 1..Len(messages)
      /\ DOMAIN wire' = 1..Len(wire')
  BY <1>1, <1>2, LenProperties
<1>4. ASSUME NEW i \in DOMAIN wire'
      PROVE  \/ i \in DOMAIN wire /\ wire'[i] = wire[i]
             \/ \E j \in DOMAIN messages : wire'[i] = messages[j]
  <2>1. CASE i <= Len(wire)
    BY <1>2, <1>3, <2>1
  <2>2. CASE ~(i <= Len(wire))
    <3>1. i - Len(wire) \in DOMAIN messages /\ wire'[i] = messages[i - Len(wire)]
      BY <1>2, <1>3, <2>2
    <3> QED
      BY <3>1
  <2> QED
    BY <2>1, <2>2
<1>5. told' \subseteq Nat
  <2>1. ASSUME NEW i \in DOMAIN messages
        PROVE  Content(messages[i]) \subseteq Nat
    <3>1. messages[i] \in Message
      BY <1>3, ElementOfSeq
    <3> QED
      BY <3>1 DEF Content, Message
  <2> QED
    BY <2>1 DEF Send, DeliveryTypeOK
<1> QED
  BY <1>2, <1>4, <1>5

\* The session row of a snapshot is not newer than its rows.
MessageCovers(m) == m.type = "session.snapshot" => m.seq <= m.rows

\* A snapshot with the missed events behind it.
Answer(seq, rows, after, end) ==
  <<[type |-> "session.snapshot", seq |-> seq, rows |-> rows]>>
    \o EventMessages(after, end)

LEMMA AnswerTyped ==
  ASSUME NEW seq \in Nat, NEW rows \in Nat, NEW after \in Nat, NEW end \in Nat,
         NEW answer, answer = Answer(seq, rows, after, end)
  PROVE  /\ answer \in Seq(Message)
         /\ \A n \in 1..rows : \E i \in DOMAIN answer : n \in Content(answer[i])
         /\ seq <= rows => \A i \in DOMAIN answer : MessageCovers(answer[i])
<1> DEFINE first  == [type |-> "session.snapshot", seq |-> seq, rows |-> rows]
           missed == EventMessages(after, end)
<1>1. first \in Message /\ <<first>> \in Seq(Message)
  BY DEF Message
<1>2. missed \in Seq(Message)
  BY MissedEvents
<1>3. answer = <<first>> \o missed
  BY DEF Answer
<1>4. /\ answer \in Seq(Message) /\ Len(answer) = 1 + Len(missed)
      /\ answer[1] = first
      /\ \A i \in 1..Len(answer) : i > 1 => answer[i] = missed[i - 1]
  <2>1. Len(<<first>>) = 1 /\ <<first>>[1] = first
    OBVIOUS
  <2> HIDE DEF first, missed
  <2> QED
    BY <1>1, <1>2, <1>3, <2>1, ConcatProperties, LenProperties
<1>5. /\ DOMAIN answer = 1..Len(answer) /\ DOMAIN missed = 1..Len(missed)
      /\ Len(missed) \in Nat
  BY <1>2, <1>4, LenProperties
<1>6. ASSUME NEW i \in DOMAIN answer, i > 1
      PROVE  answer[i].type = "event"
  <2>1. i - 1 \in DOMAIN missed /\ answer[i] = missed[i - 1]
    BY <1>4, <1>5, <1>6
  <2>2. missed[i - 1].type = "event"
    BY <2>1, MissedEvents
  <2> QED
    BY <2>1, <2>2
<1> HIDE DEF missed
<1>7. /\ 1 \in DOMAIN answer
      /\ \A i \in DOMAIN answer :
           answer[i].type = "session.snapshot" => answer[i] = first
  BY <1>4, <1>5, <1>6
<1>8. Content(answer[1]) = 1..rows
  BY <1>4 DEF Content
<1>9. ASSUME seq <= rows, NEW i \in DOMAIN answer
      PROVE  MessageCovers(answer[i])
  BY <1>7, <1>9 DEF MessageCovers
<1> QED
  BY <1>4, <1>7, <1>8, <1>9

\* What a step may leave the socket, the wire and the page as.
RestTyped ==
  /\ socket' \in SocketState
  /\ wire' \in Seq(Message)
  /\ told' \subseteq Nat
  /\ page' \in [session : 0..Len(last'), view : View]
  /\ socket'.phase # "down" \/ wire' # <<>> => socket'.of \in DOMAIN last'

\* The connection is closed, or opened anew.
LEMMA HangUpTyped ==
  ASSUME HangUp
  PROVE  /\ socket' \in SocketState /\ socket'.phase = "down"
         /\ wire' = <<>> /\ wire' \in Seq(Message) /\ told' = {}
BY DEF HangUp, Down, SocketState

\* The socket answers what it has loaded.
LEMMA AnsweringTyped ==
  ASSUME DeliveryTypeOK, LastGrows, SendSnapshot \/ SendPolled,
         socket.phase # "down"
  PROVE  RestTyped
<1>1. /\ socket \in SocketState /\ loads[Socket] \in Load
      /\ page \in [session : 0..Len(last), view : View]
      /\ socket.of \in DOMAIN last
  BY ReaderKinds DEF DeliveryTypeOK
<1>2. /\ socket.after \in Nat
      /\ loads[Socket].session \in Nat /\ loads[Socket].rows \in Nat
      /\ loads[Socket].events \in Nat
  BY <1>1 DEF SocketState, Load
<1>3. UNCHANGED page /\ page' \in [session : 0..Len(last'), view : View]
  BY <1>1, LenProperties DEF SendSnapshot, SendPolled, LastGrows, DeliveryTypeOK
<1>4. CASE SendSnapshot
  <2>1. Send(Answer(loads[Socket].session, loads[Socket].rows,
                    socket.after, loads[Socket].events))
    BY <1>4 DEF SendSnapshot, SnapshotMessage, Answer
  <2>2. wire' \in Seq(Message) /\ told' \subseteq Nat
    <3>1. Answer(loads[Socket].session, loads[Socket].rows,
                 socket.after, loads[Socket].events) \in Seq(Message)
      BY <1>2, AnswerTyped
    <3> QED
      BY <2>1, <3>1, SentTyped
  <2>3. /\ socket' \in SocketState /\ socket'.of = socket.of
    BY <1>1, <1>2, <1>4 DEF SendSnapshot, CursorAfterSnapshot, SocketState
  <2> QED
    BY <1>1, <1>3, <2>2, <2>3 DEF RestTyped, LastGrows
<1>5. CASE SendPolled
  <2>1. wire' \in Seq(Message) /\ told' \subseteq Nat
    BY <1>2, <1>5, MissedEvents, SentTyped DEF SendPolled
  <2>2. PolledCursor(socket.after, loads[Socket].events) \in Nat
    BY <1>2 DEF PolledCursor
  <2>3. /\ socket' \in SocketState /\ socket'.of = socket.of
    BY <1>1, <1>5, <2>2 DEF SendPolled, SocketState
  <2> QED
    BY <1>1, <1>3, <2>1, <2>3 DEF RestTyped, LastGrows
<1> QED
  BY <1>4, <1>5

\* Every step keeps their types.
LEMMA RestStep ==
  ASSUME DeliveryTypeOK, Next
  PROVE  RestTyped
<1>1. /\ LastGrows /\ last \in Seq(Nat \ {0})
      /\ Len(last) \in Nat /\ Len(last') \in Nat /\ DOMAIN last' = 1..Len(last')
  BY LogsGrow, SessionNumbers, LenProperties DEF DeliveryTypeOK, LastGrows
<1>2. /\ socket \in SocketState /\ wire \in Seq(Message) /\ told \subseteq Nat
      /\ page \in [session : 0..Len(last), view : View]
      /\ page \in [session : 0..Len(last'), view : View]
      /\ socket.phase # "down" \/ wire # <<>> => socket.of \in DOMAIN last'
      /\ \A l \in Readers : loads[l] \in Load
  BY <1>1 DEF DeliveryTypeOK, LastGrows
<1>3. CASE UNCHANGED <<socket, wire, told, page>>
  BY <1>2, <1>3 DEF RestTyped
<1>4. CASE Serve
  <2>1. CASE Accept \/ SendPolled \/ Resumed
    BY <1>1, <2>1, AnsweringTyped DEF Accept, SendPolled, Resumed
  <2>2. CASE Poll
    BY <1>2, <2>2 DEF Poll, SocketState, RestTyped
  <2>3. CASE Read(Socket)
    BY <1>3, <2>3 DEF Read
  <2> QED
    BY <1>4, <2>1, <2>2, <2>3 DEF Serve
<1>5. CASE Resume
  <2>1. PICK after \in 0..MaxEvents :
          socket' = [socket EXCEPT !.phase = "resuming", !.after = after]
    BY <1>5 DEF Resume
  <2>2. after \in Nat
    BY BoundsAssumption
  <2>3. socket' \in SocketState /\ socket'.of = socket.of
    BY <1>2, <2>1, <2>2 DEF SocketState
  <2> QED
    BY <1>2, <1>5, <2>3 DEF Resume, RestTyped
<1>6. CASE SubmitOnSocket
  <2>1. last[socket.of] \in Nat
    BY <1>6, SessionNumbers DEF SubmitOnSocket, DeliveryTypeOK
  <2>2. wire' \in Seq(Message) /\ told' \subseteq Nat
    <3>1. EventMessages(last[socket.of], last[socket.of] + 1) \in Seq(Message)
      BY <2>1, MissedEvents
    <3> QED
      BY <1>6, <3>1, SentTyped DEF SubmitOnSocket
  <2> QED
    BY <1>2, <1>6, <2>2 DEF SubmitOnSocket, RestTyped
<1>7. CASE Connect
  <2>1. page.session \in DOMAIN last' /\ page.view.seq \in Nat
    BY <1>1, <1>2, <1>7, SessionNumbers DEF Connect, View, LastGrows
  <2>2. socket' \in SocketState /\ socket'.of = page.session
    BY <1>1, <1>7, <2>1 DEF Connect, SocketState
  <2> QED
    BY <1>2, <1>7, <2>1, <2>2 DEF Connect, RestTyped
<1>8. CASE Receive
  <2>1. /\ Head(wire) \in Message /\ wire' \in Seq(Message)
        /\ UNCHANGED <<socket, told, last>>
        /\ socket.of \in DOMAIN last'
    BY <1>2, <1>8, HeadTailProperties DEF Receive
  <2>2. page' \in [session : 0..Len(last'), view : View]
    <3>1. CASE UNCHANGED page
      BY <1>2, <3>1
    <3>2. CASE Show(socket.of, Head(wire).seq, Head(wire).rows)
      BY <1>2, <2>1, <3>2 DEF Show, View, Message, SocketState
    <3> QED
      BY <1>8, <3>1, <3>2 DEF Receive
  <2> QED
    BY <1>2, <2>1, <2>2 DEF RestTyped
<1>9. ASSUME NEW f \in Fetches, Response(f)
      PROVE  RestTyped
  <2>1. loads[f].of \in Nat /\ loads[f].session \in Nat /\ loads[f].rows \in Nat
    BY <1>2, ReaderKinds DEF Load
  <2>2. page' \in [session : 0..Len(last'), view : View]
    BY <1>2, <1>9, <2>1 DEF Response, Show, View
  <2> QED
    BY <1>2, <1>9, <2>2 DEF Response, RestTyped
<1>10. ASSUME NEW f \in Fetches, CreateSession(f)
       PROVE  RestTyped
  <2>1. NewSession \in 0..Len(last')
    <3>1. last' = Append(last, 1) /\ NewSession = Len(last) + 1
      BY <1>10 DEF CreateSession, NewSession
    <3> QED
      BY <1>1, <3>1, AppendProperties
  <2>2. page' \in [session : 0..Len(last'), view : View]
    BY <1>2, <1>10, <2>1 DEF CreateSession
  <2> QED
    BY <1>10, <2>2, HangUpTyped DEF CreateSession, RestTyped
<1>11. CASE StartNewSession \/ \E f \in Fetches : Reload(f)
  <2>1. NoView \in View /\ 0 \in 0..Len(last')
    BY <1>1 DEF NoView, View
  <2>2. page' \in [session : 0..Len(last'), view : View] /\ HangUp
    BY <1>2, <1>11, <2>1 DEF StartNewSession, Reload
  <2> QED
    BY <2>2, HangUpTyped DEF RestTyped
<1>12. ASSUME NEW f \in Fetches, Refuse(f)
       PROVE  RestTyped
  <2>1. NoView \in View /\ 0 \in 0..Len(last')
    BY <1>1 DEF NoView, View
  <2> QED
    BY <1>3, <1>12, <2>1, HangUpTyped DEF Refuse, RestTyped
<1>13. CASE Drop
  BY <1>2, <1>13, HangUpTyped DEF Drop, RestTyped
<1>14. CASE Commit \/ \E f \in Fetches : Read(f) \/ Submit(f)
  BY <1>3, <1>14 DEF Commit, Read, Submit
<1> QED
  BY <1>4, <1>5, <1>6, <1>7, <1>8, <1>9, <1>10, <1>11, <1>12, <1>13, <1>14
     DEF Next

LEMMA TypedStep ==
  DeliveryTypeOK /\ [Next]_vars => DeliveryTypeOK'
<1> SUFFICES ASSUME DeliveryTypeOK, [Next]_vars
             PROVE  DeliveryTypeOK'
  OBVIOUS
<1>1. CASE Next
  <2>1. RestTyped /\ LastGrows
    BY <1>1, RestStep, LogsGrow
  <2>2. /\ loads' \in [Readers -> Load]
        /\ \A l \in Readers : loads'[l].at # 0 => loads'[l].of \in DOMAIN last'
    BY <1>1, LoadsTyped
  <2>3. recoveries' \in 0..MaxRecoveries /\ refused' \in 0..MaxRefused
    <3>1. recoveries \in 0..MaxRecoveries /\ refused \in 0..MaxRefused
      BY DEF DeliveryTypeOK
    <3>2. CASE Serve \/ SubmitOnSocket \/ Connect \/ Receive \/ StartNewSession
      BY <3>1, <3>2 DEF Serve, Accept, SendSnapshot, Poll, SendPolled, Resumed,
                        Read, SubmitOnSocket, Connect, Receive, StartNewSession
    <3>3. CASE Commit \/ \E f \in Fetches : \/ Read(f) \/ Response(f)
                                            \/ CreateSession(f) \/ Submit(f)
      BY <3>1, <3>3 DEF Commit, Read, Response, CreateSession, Submit
    <3>4. CASE Resume \/ Drop \/ \E f \in Fetches : Reload(f)
      <4>1. /\ recoveries < MaxRecoveries /\ recoveries' = recoveries + 1
            /\ UNCHANGED refused
        BY <3>4 DEF Resume, Drop, Reload
      <4> QED
        BY <3>1, <4>1, BoundsAssumption
    <3>5. CASE \E f \in Fetches : Refuse(f)
      BY <3>1, <3>5, BoundsAssumption DEF Refuse
    <3> QED
      BY <1>1, <3>2, <3>3, <3>4, <3>5 DEF Next
  <2> QED
    BY <2>1, <2>2, <2>3 DEF RestTyped, LastGrows, DeliveryTypeOK, Free
<1>2. CASE UNCHANGED vars
  BY <1>2 DEF vars, DeliveryTypeOK, Free
<1> QED
  BY <1>1, <1>2

LEMMA TypedInit ==
  Init => DeliveryTypeOK
<1> SUFFICES ASSUME Init
             PROVE  DeliveryTypeOK
  OBVIOUS
<1>1. last = <<>> /\ last \in Seq(Nat \ {0}) /\ Len(last) = 0
  BY DEF Init
<1>2. loads \in [Readers -> Load] /\ \A l \in Readers : Free(l)
  BY LoadStarts DEF Init, Free
<1>3. socket \in SocketState /\ socket.phase = "down"
  BY DEF Init, Down, SocketState
<1>4. page \in [session : 0..Len(last), view : View]
  BY <1>1 DEF Init, NoView, View
<1> QED
  BY <1>1, <1>2, <1>3, <1>4, BoundsAssumption DEF Init, DeliveryTypeOK

\* Every variable of the delivery keeps its type, and a load, a socket or a
\* message on the wire is one of a session that exists (main.py:437-512 and
\* 868-1115, App.tsx:208-328), for any number of sessions and requests.
THEOREM DeliveryTypeCorrect == Spec => []DeliveryTypeOK
<1> QED
  BY TypedInit, TypedStep, PTL DEF Spec

-----------------------------------------------------------------------------
(* What was read of a session is not ahead of what was read of it later.   *)

\* Nor is the session row of a load newer than the rows read after it.
LoadCovers(l) ==
  /\ loads[l].at = 2 => loads[l].session <= last[loads[l].of]
  /\ loads[l].at \in 3..4 => loads[l].session <= loads[l].rows

Covering ==
  /\ \A l \in Readers : LoadCovers(l)
  /\ socket.phase = "polling" => /\ loads[Socket].session = 0
                                 /\ socket.after = socket.cursor
  /\ \A i \in DOMAIN wire : MessageCovers(wire[i])
  /\ ViewCoversCursor

DeliveryInv == DeliveryTypeOK /\ Covering /\ NothingSkipped

\* What a finished load has read.
LEMMA LoadedCovers ==
  ASSUME DeliveryTypeOK, Covering, NEW l \in Readers, Loaded(l),
         l # Socket \/ socket.phase # "polling"
  PROVE  loads[l].session <= loads[l].rows
<1>1. loads[l].at \in 0..4
  BY DEF DeliveryTypeOK, Load
<1>2. Used(l, "session") /\ Used(l, "rows")
  BY DEF Used
<1>3. loads[l].at \notin {0, 1, 2}
  <2>1. Statements[1] = "session" /\ Statements[2] = "rows"
    BY DEF Statements
  <2>2. loads[l].at # 0
    BY DEF Loaded, Free
  <2>3. loads[l].at # 1
    <3>1. ASSUME loads[l].at = 1
          PROVE  FALSE
      <4>1. 1 \in loads[l].at..3
        BY <3>1
      <4> QED
        BY <1>2, <2>1, <4>1 DEF Loaded
    <3> QED
      BY <3>1
  <2>4. loads[l].at # 2
    <3>1. ASSUME loads[l].at = 2
          PROVE  FALSE
      <4>1. 2 \in loads[l].at..3
        BY <3>1
      <4> QED
        BY <1>2, <2>1, <4>1 DEF Loaded
    <3> QED
      BY <3>1
  <2> QED
    BY <2>2, <2>3, <2>4
<1> QED
  BY <1>1, <1>3 DEF Covering, LoadCovers

LEMMA LoadsCover ==
  ASSUME DeliveryTypeOK, Covering, Next
  PROVE  \A l \in Readers : LoadCovers(l)'
<1> SUFFICES ASSUME NEW l \in Readers
             PROVE  LoadCovers(l)'
  OBVIOUS
<1>1. /\ loads[l] \in Load /\ LoadCovers(l) /\ LastGrows
      /\ loads[l].at # 0 =>
           /\ loads[l].of \in DOMAIN last
           /\ last[loads[l].of] \in Nat /\ last'[loads[l].of] \in Nat
           /\ last[loads[l].of] <= last'[loads[l].of]
  <2>1. LastGrows /\ DOMAIN last \subseteq DOMAIN last'
    BY LogsGrow DEF LastGrows
  <2>2. \A s \in DOMAIN last' : last'[s] \in Nat
    BY <2>1, LenProperties, ElementOfSeq DEF LastGrows
  <2> QED
    BY <2>1, <2>2, SessionNumbers DEF Covering, LastGrows, DeliveryTypeOK, Free
<1>2. CASE loads'[l] = loads[l]
  BY <1>1, <1>2 DEF LoadCovers, Load
<1>3. CASE Read(l)
  <2>1. /\ loads[l].at \in 1..3 /\ loads[l].session \in Nat
        /\ loads'[l].at = loads[l].at + 1 /\ loads'[l].of = loads[l].of
        /\ loads'[l].session =
             IF loads[l].at = 1 THEN Seen(l, "session") ELSE loads[l].session
        /\ loads'[l].rows =
             IF loads[l].at = 2 THEN Seen(l, "rows") ELSE loads[l].rows
        /\ UNCHANGED last
    BY <1>1, <1>3, ReadStep DEF Read, Load
  <2>2. Seen(l, "session") <= last[loads[l].of]
    BY <1>1, <2>1 DEF Seen
  <2>3. CASE Used(l, "rows")
    <3>1. Seen(l, "rows") = last[loads[l].of]
      BY <2>3 DEF Seen
    <3> QED
      BY <1>1, <2>1, <2>2, <3>1 DEF LoadCovers
  <2>4. CASE ~Used(l, "rows")
    <3>1. Seen(l, "rows") = 0 /\ loads[l].session = 0
      BY <2>4 DEF Seen, Used, Covering
    <3> QED
      BY <1>1, <2>1, <2>2, <3>1 DEF LoadCovers
  <2> QED
    BY <2>3, <2>4
<1>4. CASE /\ ~Read(l)
           /\ loads'[l] # loads[l]
  <2>1. LoadKept(l)
    <3>1. CASE \E k \in Readers : Read(k)
      BY <1>4, <3>1, ReadStep
    <3>2. CASE ~ \E k \in Readers : Read(k)
      BY <3>2, LoadsStep DEF LoadsKept
    <3> QED
      BY <3>1, <3>2
  <2>2. DOMAIN last' \subseteq Nat
    BY <1>1, LenProperties DEF LastGrows
  <2>3. loads'[l].at \in {0, 1}
    BY <1>4, <2>1, <2>2, LoadStarts DEF LoadKept
  <2> QED
    BY <2>3 DEF LoadCovers
<1> QED
  BY <1>2, <1>3, <1>4

\* The polls of a socket, which read nothing but the events.
LEMMA PollingKept ==
  ASSUME DeliveryTypeOK, Covering, Next
  PROVE  socket'.phase = "polling" => /\ loads'[Socket].session = 0
                                      /\ socket'.after = socket'.cursor
<1> USE ReaderKinds
<1>1. /\ loads \in [Readers -> Load] /\ socket \in SocketState
      /\ socket.phase = "polling" => /\ loads[Socket].session = 0
                                     /\ socket.after = socket.cursor
  BY DEF DeliveryTypeOK, Covering
<1>2. CASE UNCHANGED <<socket, loads>>
  BY <1>1, <1>2
<1>3. CASE HangUp
  BY <1>3, HangUpTyped
<1>4. CASE SendSnapshot \/ SendPolled
  BY <1>1, <1>4 DEF SendSnapshot, SendPolled, SocketState
<1>5. CASE Poll
  <2>1. loads'[Socket] = LoadOf(socket.of, "news")
    BY <1>1, <1>5 DEF Poll, Begin
  <2> QED
    BY <1>1, <1>5, <2>1, LoadStarts DEF Poll, SocketState
<1>6. CASE Read(Socket)
  <2>1. UNCHANGED socket
    BY <1>6 DEF Read
  <2>2. loads'[Socket].session =
          IF loads[Socket].at = 1 THEN Seen(Socket, "session")
                                  ELSE loads[Socket].session
    BY <1>6, ReadStep
  <2> QED
    BY <1>1, <2>1, <2>2 DEF Seen, Used
<1>7. CASE Resume \/ Connect
  <2>1. socket'.phase \in {"resuming", "opening"}
    <3>1. CASE Resume
      <4>1. PICK after : socket' = [socket EXCEPT !.phase = "resuming",
                                                  !.after = after]
        BY <3>1 DEF Resume
      <4> QED
        BY <1>1, <4>1 DEF SocketState
    <3>2. CASE Connect
      BY <3>2 DEF Connect
    <3> QED
      BY <1>7, <3>1, <3>2
  <2> QED
    BY <2>1
<1>8. ASSUME NEW f \in Fetches,
             \/ Read(f)
             \/ Release(f) /\ UNCHANGED socket
             \/ \E s \in Nat : Begin(f, s, "news") /\ UNCHANGED socket
      PROVE  UNCHANGED socket /\ loads'[Socket] = loads[Socket]
  BY <1>1, <1>8, ReadStep DEF Read, Release, Begin
<1>9. CASE SubmitOnSocket \/ Commit
  BY <1>2, <1>9 DEF SubmitOnSocket, Commit
<1>10. CASE Receive
  <2>1. socket.of \in Nat
    BY <1>1 DEF SocketState
  <2> QED
    BY <1>1, <1>2, <1>8, <1>10, <2>1 DEF Receive
<1>11. CASE \E f \in Fetches : Read(f) \/ Response(f) \/ Submit(f)
  BY <1>1, <1>8, <1>11, SessionNumbers DEF Response, Submit
<1>12. CASE \E f \in Fetches : CreateSession(f) \/ Reload(f) \/ Refuse(f)
  BY <1>1, <1>3, <1>8, <1>12 DEF CreateSession, Reload, Refuse
<1>13. CASE StartNewSession \/ Drop
  BY <1>3, <1>13 DEF StartNewSession, Drop
<1> QED
  BY <1>4, <1>5, <1>6, <1>7, <1>9, <1>10, <1>11, <1>12, <1>13
     DEF Next, Serve, Accept, Resumed

\* Sending adds to what was told.
LEMMA SentTold ==
  ASSUME NEW messages, Send(messages)
  PROVE  /\ told \subseteq told'
         /\ \A i \in DOMAIN messages : Content(messages[i]) \subseteq told'
BY DEF Send

\* The messages on their way.
LEMMA WireCovers ==
  ASSUME DeliveryTypeOK, Covering, Next
  PROVE  \A i \in DOMAIN wire' : MessageCovers(wire'[i])
<1> USE ReaderKinds
<1>1. /\ wire \in Seq(Message) /\ loads[Socket] \in Load
      /\ \A i \in DOMAIN wire : MessageCovers(wire[i])
  BY DEF DeliveryTypeOK, Covering
<1>2. CASE UNCHANGED wire
  BY <1>1, <1>2
<1>3. CASE HangUp
  BY <1>3 DEF HangUp
<1>4. ASSUME NEW messages \in Seq(Message), Send(messages),
             \A i \in DOMAIN messages : MessageCovers(messages[i])
      PROVE  \A i \in DOMAIN wire' : MessageCovers(wire'[i])
  BY <1>1, <1>4, SentTyped
<1>5. ASSUME NEW after \in Nat, NEW end \in Nat
      PROVE  /\ EventMessages(after, end) \in Seq(Message)
             /\ \A i \in DOMAIN EventMessages(after, end) :
                  MessageCovers(EventMessages(after, end)[i])
  BY MissedEvents DEF MessageCovers
<1>6. socket.after \in Nat /\ loads[Socket].events \in Nat
      /\ loads[Socket].session \in Nat /\ loads[Socket].rows \in Nat
  BY <1>1 DEF DeliveryTypeOK, SocketState, Load
<1>7. CASE Accept \/ Resumed
  <2>1. /\ SendSnapshot /\ Loaded(Socket) /\ socket.phase # "polling"
        /\ Send(Answer(loads[Socket].session, loads[Socket].rows,
                       socket.after, loads[Socket].events))
    BY <1>7 DEF Accept, Resumed, SendSnapshot, SnapshotMessage, Answer
  <2>2. loads[Socket].session <= loads[Socket].rows
    BY <2>1, LoadedCovers
  <2> DEFINE answer == Answer(loads[Socket].session, loads[Socket].rows,
                              socket.after, loads[Socket].events)
  <2>3. /\ answer \in Seq(Message) /\ Send(answer)
        /\ \A i \in DOMAIN answer : MessageCovers(answer[i])
    BY <1>6, <2>1, <2>2, AnswerTyped
  <2> HIDE DEF answer
  <2> QED
    BY <1>4, <2>3
<1>8. CASE SendPolled
  BY <1>4, <1>5, <1>6, <1>8 DEF SendPolled
<1>9. CASE SubmitOnSocket
  <2>1. last[socket.of] \in Nat /\ last[socket.of] + 1 \in Nat
    BY <1>9, SessionNumbers DEF SubmitOnSocket, DeliveryTypeOK
  <2> QED
    BY <1>4, <1>5, <1>9, <2>1 DEF SubmitOnSocket
<1>10. CASE Receive
  <2>1. /\ wire # <<>> /\ wire' = Tail(wire)
    BY <1>10 DEF Receive
  <2>2. /\ Len(wire') = Len(wire) - 1 /\ wire' \in Seq(Message)
        /\ \A i \in 1..Len(wire') : wire'[i] = wire[i + 1]
    BY <1>1, <2>1, HeadTailProperties
  <2>3. \A i \in DOMAIN wire' : i + 1 \in DOMAIN wire /\ wire'[i] = wire[i + 1]
    BY <1>1, <2>2, LenProperties
  <2> QED
    BY <1>1, <2>3
<1>11. CASE Poll \/ Read(Socket) \/ Resume \/ Connect \/ Commit
  BY <1>2, <1>11 DEF Poll, Read, Resume, Connect, Commit
<1>12. CASE StartNewSession \/ Drop
  BY <1>3, <1>12 DEF StartNewSession, Drop
<1>13. CASE \E f \in Fetches : \/ Read(f) \/ Response(f) \/ CreateSession(f)
                               \/ Submit(f) \/ Reload(f) \/ Refuse(f)
  BY <1>2, <1>3, <1>13
     DEF Read, Response, CreateSession, Submit, Reload, Refuse
<1> QED
  BY <1>7, <1>8, <1>9, <1>10, <1>11, <1>12, <1>13 DEF Next, Serve

\* The view.
LEMMA ViewKept ==
  ASSUME DeliveryTypeOK, Covering, Next
  PROVE  ViewCoversCursor'
<1>1. page.view.seq <= page.view.rows /\ page \in [session : 0..Len(last), view : View]
  BY DEF Covering, ViewCoversCursor, DeliveryTypeOK
<1>2. CASE UNCHANGED page
  BY <1>1, <1>2 DEF ViewCoversCursor
<1>3. CASE page'.view = page.view \/ page'.view = NoView
  BY <1>1, <1>3 DEF ViewCoversCursor, NoView
<1>4. ASSUME NEW s, NEW seq \in Nat, NEW rows \in Nat, seq <= rows,
             Show(s, seq, rows)
      PROVE  ViewCoversCursor'
  BY <1>1, <1>4 DEF Show, ViewCoversCursor
<1>5. CASE Receive
  <2>1. CASE UNCHANGED page
    BY <1>2, <2>1
  <2>2. CASE /\ Head(wire).type = "session.snapshot"
             /\ Show(socket.of, Head(wire).seq, Head(wire).rows)
    <3>1. wire \in Seq(Message) /\ wire # <<>>
      BY <1>5 DEF Receive, DeliveryTypeOK
    <3>2. 1 \in DOMAIN wire /\ Head(wire) = wire[1] /\ wire[1] \in Message
      BY <3>1, HeadTailProperties, LenProperties, EmptySeq
    <3>3. Head(wire).seq <= Head(wire).rows
      BY <2>2, <3>2 DEF Covering, MessageCovers
    <3> QED
      BY <1>4, <2>2, <3>2, <3>3 DEF Message
  <2> QED
    BY <1>5, <2>1, <2>2 DEF Receive
<1>6. ASSUME NEW f \in Fetches, Response(f)
      PROVE  ViewCoversCursor'
  <2>1. loads[f] \in Load /\ loads[f].session <= loads[f].rows
    BY <1>6, ReaderKinds, LoadedCovers DEF Response, DeliveryTypeOK
  <2> QED
    BY <1>4, <1>6, <2>1 DEF Response, Load
<1>7. CASE \E f \in Fetches : CreateSession(f) \/ Reload(f) \/ Refuse(f)
  BY <1>1, <1>2, <1>3, <1>7 DEF CreateSession, Reload, Refuse
<1>8. CASE StartNewSession
  BY <1>1, <1>3, <1>8 DEF StartNewSession
<1>9. CASE \/ Serve \/ Resume \/ SubmitOnSocket \/ Connect \/ Commit \/ Drop
           \/ \E f \in Fetches : Read(f) \/ Submit(f)
  BY <1>2, <1>9 DEF Serve, Accept, SendSnapshot, Poll, SendPolled, Resumed,
     Read, Resume, SubmitOnSocket, Connect, Commit, Drop, Submit
<1> QED
  BY <1>5, <1>6, <1>7, <1>8, <1>9 DEF Next

\* The cursor of the poll.
LEMMA CursorTold ==
  ASSUME DeliveryTypeOK, Covering, NothingSkipped, Next
  PROVE  NothingSkipped'
<1> USE ReaderKinds
<1>1. /\ socket \in SocketState /\ loads[Socket] \in Load
      /\ loads[Socket].session \in Nat /\ loads[Socket].rows \in Nat
      /\ loads[Socket].events \in Nat
      /\ socket.after \in Nat /\ socket.cursor \in Nat
  BY DEF DeliveryTypeOK, SocketState, Load
<1>2. CASE told \subseteq told' /\ UNCHANGED socket
  BY <1>2 DEF NothingSkipped
<1>3. CASE HangUp
  BY <1>3, HangUpTyped DEF NothingSkipped
<1>4. CASE Accept \/ Resumed
  <2>1. /\ SendSnapshot /\ Loaded(Socket) /\ socket.phase # "polling"
        /\ Send(Answer(loads[Socket].session, loads[Socket].rows,
                       socket.after, loads[Socket].events))
    BY <1>4 DEF Accept, Resumed, SendSnapshot, SnapshotMessage, Answer
  <2>2. loads[Socket].session <= loads[Socket].rows
    BY <2>1, LoadedCovers
  <2>3. PICK answer : answer = Answer(loads[Socket].session, loads[Socket].rows,
                                      socket.after, loads[Socket].events)
    OBVIOUS
  <2>4. 1..loads[Socket].rows \subseteq told'
    <3>1. \A n \in 1..loads[Socket].rows :
            \E i \in DOMAIN answer : n \in Content(answer[i])
      BY <1>1, <2>3, AnswerTyped
    <3>2. Send(answer)
      BY <2>1, <2>3
    <3> QED
      BY <3>1, <3>2, SentTold
  <2>5. socket'.cursor = loads[Socket].session
    BY <1>1, <2>1 DEF SendSnapshot, CursorAfterSnapshot, SocketState
  <2> QED
    BY <1>1, <2>2, <2>4, <2>5 DEF NothingSkipped
<1>5. CASE SendPolled
  <2>1. /\ Send(EventMessages(socket.after, loads[Socket].events))
        /\ socket'.cursor = PolledCursor(socket.after, loads[Socket].events)
        /\ socket.after = socket.cursor /\ socket.phase # "down"
    BY <1>1, <1>5 DEF SendPolled, SocketState, Covering
  <2>2. 1..socket.cursor \subseteq told'
    BY <2>1, SentTold DEF NothingSkipped
  <2>3. ASSUME NEW n \in (socket.after + 1)..loads[Socket].events
        PROVE  n \in told'
    <3> DEFINE missed == EventMessages(socket.after, loads[Socket].events)
    <3>1. PICK i \in DOMAIN missed : n \in Content(missed[i])
      BY <1>1, MissedEvents
    <3> QED
      BY <2>1, <3>1, SentTold
  <2>4. \A n \in 1..socket'.cursor :
          n \in 1..socket.cursor \/ n \in (socket.after + 1)..loads[Socket].events
    BY <1>1, <2>1 DEF PolledCursor
  <2> QED
    BY <2>2, <2>3, <2>4 DEF NothingSkipped
<1>6. CASE Poll \/ Resume
  <2>1. socket'.cursor = socket.cursor /\ socket.phase # "down" /\ told' = told
    BY <1>1, <1>6 DEF Poll, Resume, SocketState
  <2> QED
    BY <2>1 DEF NothingSkipped
<1>7. CASE Connect
  <2>1. socket'.cursor = 0
    BY <1>7 DEF Connect
  <2> QED
    BY <2>1 DEF NothingSkipped
<1>8. CASE SubmitOnSocket
  BY <1>2, <1>8, SentTold DEF SubmitOnSocket
<1>9. CASE StartNewSession \/ Drop
  BY <1>3, <1>9 DEF StartNewSession, Drop
<1>10. CASE Read(Socket) \/ Receive \/ Commit
  BY <1>2, <1>10 DEF Read, Receive, Commit
<1>11. CASE \E f \in Fetches : \/ Read(f) \/ Response(f) \/ CreateSession(f)
                               \/ Submit(f) \/ Reload(f) \/ Refuse(f)
  BY <1>2, <1>3, <1>11
     DEF Read, Response, CreateSession, Submit, Reload, Refuse
<1> QED
  BY <1>4, <1>5, <1>6, <1>7, <1>8, <1>9, <1>10, <1>11 DEF Next, Serve

-----------------------------------------------------------------------------

LEMMA DeliveryInvariant ==
  Spec => []DeliveryInv
<1>1. Init => DeliveryInv
  <2> SUFFICES ASSUME Init
               PROVE  DeliveryInv
    OBVIOUS
  <2>1. \A l \in Readers : LoadCovers(l)
    BY DEF Init, FreeLoad, LoadCovers
  <2>2. wire = <<>> /\ socket.phase = "down" /\ page.view = NoView
    BY DEF Init, Down
  <2>3. \A i \in DOMAIN wire : MessageCovers(wire[i])
    BY <2>2
  <2> QED
    BY <2>1, <2>2, <2>3, TypedInit
       DEF DeliveryInv, Covering, NothingSkipped, ViewCoversCursor, NoView
<1>2. DeliveryInv /\ [Next]_vars => DeliveryInv'
  <2> SUFFICES ASSUME DeliveryInv, [Next]_vars
               PROVE  DeliveryInv'
    OBVIOUS
  <2>1. DeliveryTypeOK'
    BY TypedStep DEF DeliveryInv
  <2>2. CASE Next
    <3>1. Covering'
      BY <2>2, LoadsCover, PollingKept, WireCovers, ViewKept
         DEF DeliveryInv, Covering
    <3>2. NothingSkipped'
      BY <2>2, CursorTold DEF DeliveryInv
    <3> QED
      BY <2>1, <3>1, <3>2 DEF DeliveryInv
  <2>3. CASE UNCHANGED vars
    BY <2>1, <2>3 DEF DeliveryInv, Covering, LoadCovers, MessageCovers,
                      ViewCoversCursor, NothingSkipped, vars
  <2> QED
    BY <2>2, <2>3
<1> QED
  BY <1>1, <1>2, PTL DEF Spec

\* What a page calls the last event of its view is in the rows it shows,
\* although a load reads the session row and the other tables in statements
\* that see different states of the database (main.py:437-512).
THEOREM ViewCovers == Spec => []ViewCoversCursor
<1>1. DeliveryInv => ViewCoversCursor
  BY DEF DeliveryInv, Covering
<1> QED
  BY <1>1, DeliveryInvariant, PTL

\* The poll of a WebSocket starts behind nothing that was not sent on it
\* (main.py:868-1115), wherever events are committed between the statements of
\* a load and however often the page resumes or reconnects.
THEOREM NothingIsSkipped == Spec => []NothingSkipped
<1>1. DeliveryInv => NothingSkipped
  BY DEF DeliveryInv
<1> QED
  BY <1>1, DeliveryInvariant, PTL
=============================================================================
