------------------------------ MODULE VoiceLink ------------------------------
(***************************************************************************)
(* Voice in the browser (App.tsx): each start of startVoice is an attempt, *)
(* a coroutine that waits for the microphone, the token, its redemption    *)
(* and the transport.  stopVoice does not end it: it goes on after its     *)
(* await and must find out by itself that it was given up.  The pages may  *)
(* be tabs of one user: they share the session, its epoch and its tokens.  *)
(***************************************************************************)
EXTENDS RealtimeToken

CONSTANTS
  Tabs,  \* pages that show the session
  None   \* no attempt, no tab

ASSUME NoneAssumption == None \notin Attempts \cup Tabs

VARIABLES
  links,       \* the transport of each attempt
  attempts,    \* where each attempt waits, and in which tab
  microphones, \* attempts whose microphone stream has live tracks
  tabs         \* state and refs of each page

INSTANCE MockRealtime WITH Links <- Attempts

vars == <<tokenVars, links, attempts, microphones, tabs>>

VoiceState == {"idle", "requesting", "connecting", "live", "error"}
Ref        == Attempts \cup {None}

Tab ==
  [voice      : VoiceState,  \* voiceState
   current    : Ref,         \* the attempt voiceAttemptRef counts as current
   microphone : Ref,         \* microphoneStreamRef
   realtime   : Ref,         \* realtimeRef
   epoch      : Nat]         \* realtime_connection_epoch of the snapshot

Attempt == [waits : {"no", "microphone", "grant", "redemption", "link"},
            tab   : Tabs \cup {None}]

NoAttempt == [waits |-> "no", tab |-> None]

Waits(a, for)   == attempts[a].waits = for
TabOf(a)        == attempts[a].tab
WaitFor(a, for) == attempts' = [attempts EXCEPT ![a].waits = for]
Ends(a)         == attempts' = [attempts EXCEPT ![a] = NoAttempt]

\* Mutant of Overtaken: the attempt is not compared.
OvertakenNever(a) == FALSE

\* attempt !== voiceAttemptRef.current
Overtaken(a) == tabs[TabOf(a)].current # a

-----------------------------------------------------------------------------
(* Starting.                                                               *)

StartVoice(t, a) ==
  /\ tabs[t].voice \in {"idle", "error"}
  /\ Waits(a, "no") /\ Is(a, "none") /\ ~Open(a)
  /\ \A u \in Tabs : tabs[u].current # a
  /\ attempts' = [attempts EXCEPT ![a] = [waits |-> "microphone", tab |-> t]]
  /\ tabs' = [tabs EXCEPT ![t].voice = "requesting", ![t].current = a]
  /\ UNCHANGED <<tokenVars, links, microphones>>

\* Mutant of ShowError: voiceState is not set.
ShowErrorSilent(t) ==
  tabs' = [tabs EXCEPT ![t].current = None, ![t].microphone = None,
                       ![t].realtime = None]

\* Everything the failure of an attempt leaves in the tab that waits for it.
ShowError(t) ==
  tabs' = [tabs EXCEPT ![t].voice = "error", ![t].current = None,
                       ![t].microphone = None, ![t].realtime = None]

\* getUserMedia; the stream of an attempt given up is stopped at once.
MicrophoneGranted(a) ==
  /\ Waits(a, "microphone")
  /\ IF Overtaken(a)
     THEN Ends(a) /\ UNCHANGED <<calls, microphones, tabs>>
     ELSE /\ microphones' = microphones \cup {a}
          /\ tabs' = [tabs EXCEPT ![TabOf(a)].microphone = a]
          /\ CallIssue(a, tabs[TabOf(a)].epoch)
          /\ WaitFor(a, "grant")
  /\ UNCHANGED <<epoch, tokens, grants, faults, links>>

MicrophoneDenied(a) ==
  /\ Waits(a, "microphone")
  /\ IF Overtaken(a) THEN UNCHANGED tabs ELSE ShowError(TabOf(a))
  /\ Ends(a)
  /\ UNCHANGED <<tokenVars, links, microphones>>

\* The answer to a request that was refused or failed: the catch block.
Refused(a) ==
  /\ Is(a, "refused") /\ ~Waits(a, "no")
  /\ IF Overtaken(a)
     THEN UNCHANGED <<microphones, tabs>>
     ELSE microphones' = microphones \ {a} /\ ShowError(TabOf(a))
  /\ Ends(a) /\ Dismiss(a)
  /\ UNCHANGED <<epoch, tokens, grants, faults, links>>

\* The epoch the snapshot has after a grant: that of resume's own snapshot.
SnapshotEpoch(a) ==
  IF calls[a].prev > 0 THEN calls[a].seen ELSE calls[a].epoch

Granted(a) ==
  /\ Is(a, "granted")
  /\ IF Overtaken(a)
     THEN Ends(a) /\ Dismiss(a) /\ UNCHANGED tabs
     ELSE /\ tabs' = [tabs EXCEPT ![TabOf(a)].epoch = SnapshotEpoch(a)]
          /\ CallRedeem(a) /\ WaitFor(a, "redemption")
  /\ UNCHANGED <<epoch, tokens, grants, faults, links, microphones>>

\* The connection takes the stream over.
Redeemed(a) ==
  /\ Is(a, "redeemed") /\ ~Waits(a, "no")
  /\ IF Overtaken(a)
     THEN Ends(a) /\ UNCHANGED <<links, tabs>>
     ELSE /\ tabs' = [tabs EXCEPT ![TabOf(a)].voice = "connecting",
                                  ![TabOf(a)].realtime = a,
                                  ![TabOf(a)].microphone = None]
          /\ Opened(a) /\ WaitFor(a, "link")
  /\ Dismiss(a)
  /\ UNCHANGED <<epoch, tokens, grants, faults, microphones>>

-----------------------------------------------------------------------------
(* The connection.                                                         *)

Negotiate(a) ==
  /\ LinkStep(a)
  /\ tabs' = IF At(a, "ready") /\ links'[a].step = "connected" /\ ~Overtaken(a)
             THEN [tabs EXCEPT ![TabOf(a)].voice = "live"] ELSE tabs
  /\ UNCHANGED <<tokenVars, attempts, microphones>>

\* dispose("failed"): a candidate was rejected, or the peers lost each other.
LinkFails(a) ==
  /\ Open(a)
  /\ \/ At(a, "failed") /\ UNCHANGED faults
     \/ ~At(a, "failed") /\ faults < MaxFaults /\ faults' = faults + 1
  /\ Closed(a) /\ Ends(a)
  /\ microphones' = microphones \ {a}
  /\ IF Overtaken(a) THEN UNCHANGED tabs ELSE ShowError(TabOf(a))
  /\ UNCHANGED <<epoch, tokens, calls, grants>>

\* Mutant of StoppedMicrophones: the stream no connection has taken stays on.
StoppedWithConnection(t) == {tabs[t].realtime}

\* close() of the connection, and the stream no connection has taken yet.
StoppedMicrophones(t) == {tabs[t].realtime, tabs[t].microphone}

StopVoice(t) ==
  /\ tabs[t].voice # "idle"
  /\ tabs' = [tabs EXCEPT ![t].voice = "idle", ![t].current = None,
                          ![t].microphone = None, ![t].realtime = None]
  /\ microphones' = microphones \ StoppedMicrophones(t)
  /\ LET closed == {a \in Attempts : a = tabs[t].realtime /\ Open(a)}
     IN /\ links' = [a \in Attempts |-> IF a \in closed THEN NoLink ELSE links[a]]
        /\ attempts' = [a \in Attempts |->
                           IF a \in closed THEN NoAttempt ELSE attempts[a]]
  /\ UNCHANGED tokenVars

\* The page shows another snapshot, loaded now or a while ago.
ShowSnapshot(t) ==
  /\ \E e \in 0..epoch : tabs' = [tabs EXCEPT ![t].epoch = e]
  /\ UNCHANGED <<tokenVars, links, attempts, microphones>>

Gateway(a) ==
  TokenStep(a) /\ UNCHANGED <<links, attempts, microphones, tabs>>

\* The answer to a repeated request is nobody's.
Unheard(a) ==
  /\ Is(a, "refused") \/ Is(a, "redeemed")
  /\ Waits(a, "no")
  /\ Dismiss(a)
  /\ UNCHANGED <<epoch, tokens, grants, faults, links, attempts, microphones, tabs>>

GatewayFails ==
  /\ \/ Expire
     \/ \E a \in Attempts : CallFails(a)
     \/ \E a, b \in Attempts : Waits(a, "no") /\ Repeat(a, b)
  /\ UNCHANGED <<links, attempts, microphones, tabs>>

-----------------------------------------------------------------------------

Init ==
  /\ TokenInit
  /\ LinksInit
  /\ attempts = [a \in Attempts |-> NoAttempt]
  /\ microphones = {}
  /\ tabs = [t \in Tabs |-> [voice |-> "idle", current |-> None,
                             microphone |-> None, realtime |-> None,
                             epoch |-> 0]]

\* What happens to an attempt without anybody's doing.
Proceed(a) ==
  Gateway(a) \/ Unheard(a) \/ Refused(a) \/ Granted(a) \/ Redeemed(a) \/ Negotiate(a)

Next ==
  \/ \E t \in Tabs : \/ \E a \in Attempts : StartVoice(t, a)
                     \/ StopVoice(t)
                     \/ ShowSnapshot(t)
  \/ \E a \in Attempts : \/ MicrophoneGranted(a) \/ MicrophoneDenied(a)
                         \/ Proceed(a) \/ LinkFails(a)
  \/ GatewayFails

Spec == Init /\ [][Next]_vars

\* Requests are answered and the browser runs what it awaits; users need not
\* start, answer the prompt for the microphone or stop.
Fairness ==
  \A a \in Attempts : WF_vars(Proceed(a)) /\ WF_vars(At(a, "failed") /\ LinkFails(a))

FairSpec == Spec /\ Fairness

-----------------------------------------------------------------------------
(* Properties.                                                             *)

\* Every variable keeps its type; no page shows an epoch to come, and an
\* attempt that waits has its page.
VoiceTypeOK ==
  /\ TokenTypeOK
  /\ links \in [Attempts -> Link]
  /\ attempts \in [Attempts -> Attempt]
  /\ microphones \subseteq Attempts
  /\ tabs \in [Tabs -> Tab] /\ \A t \in Tabs : tabs[t].epoch <= epoch
  /\ \A a \in Attempts : ~Waits(a, "no") => TabOf(a) # None

\* The microphone is never on behind the user's back: a stream with live
\* tracks belongs to the current attempt of a tab that says so, whatever was
\* under way when the user stopped and whichever step failed.
MicrophoneShown ==
  \A a \in microphones :
    \E t \in Tabs : /\ tabs[t].current = a
                    /\ tabs[t].voice \in {"requesting", "connecting", "live"}

\* A connection is open only for the current attempt of its tab, which holds
\* it: one given up neither survives in the background nor opens late over a
\* newer one, and "live" is what the page shows of a connected one.
LinkShown ==
  /\ \A a \in Attempts : Open(a) =>
       \E t \in Tabs : tabs[t].current = a /\ tabs[t].realtime = a
  /\ \A t \in Tabs : tabs[t].voice = "live" => At(tabs[t].current, "connected")

\* An attempt that has its microphone ends: the page does not go on saying
\* that it connects.
VoiceSettles ==
  \A t \in Tabs :
    (tabs[t].voice \in {"requesting", "connecting"} /\ tabs[t].current \in microphones)
      ~> (tabs[t].voice \in {"live", "error", "idle"} \/ epoch = MaxEpoch)

Holds(t, e) ==
  LET a == tabs[t].current
  IN a # None /\ Is(a, "take") /\ calls[a].epoch = e

\* An attempt that holds the newest token goes live, unless it is stopped, a
\* newer token is issued or something fails: no candidate of either peer comes
\* too early or is forgotten.
VoiceConnects ==
  \A t \in Tabs, e \in 1..MaxEpoch :
    Holds(t, e) ~> (tabs[t].voice \in {"live", "idle"} \/ epoch > e \/ faults > 0)

-----------------------------------------------------------------------------
(* Not kept.                                                               *)

\* Users who try again after an error, and let the page have the microphone.
Persistence ==
  /\ \A t \in Tabs : WF_vars(tabs[t].voice = "error" /\ \E a \in Attempts : StartVoice(t, a))
  /\ \A a \in Attempts : SF_vars(MicrophoneGranted(a))

RetrySpec == FairSpec /\ Persistence

\* "Show that the voice connection failed; it can be tried again"
\* (LivePilotInstruction.md:908).  The epoch of the snapshot a retry names is
\* older than the session's once an attempt was stopped between the issue and
\* its answer; the retry is refused as a stale resume and nothing in it loads
\* the snapshot again.
VoiceRetryable ==
  \A t \in Tabs :
    tabs[t].voice = "error" ~>
      (tabs[t].voice \in {"live", "idle"} \/ epoch = MaxEpoch)
=============================================================================
