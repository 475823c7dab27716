----------------------------- MODULE VoiceProofs -----------------------------
(***************************************************************************)
(* The voice connection for any number of attempts, tabs, tokens and       *)
(* faults: types, GrantsInOrder, MicrophoneShown and LinkShown.            *)
(*                                                                         *)
(* A token is carried: by the issuer that is to store it, by Redis, then   *)
(* by the redeemer that has taken it.  It is carried once, and no more     *)
(* once it is granted; what the clients and the lost or repeated requests  *)
(* do never carries one.  In the browser the strengthening (Held) says     *)
(* what a tab, its current attempt, the call it waits for, its microphone  *)
(* and its connection know of each other.                                  *)
(***************************************************************************)
EXTENDS VoiceLink, SequenceTheorems, TLAPS

-----------------------------------------------------------------------------
(* The calls.                                                              *)

Carrying == {"store", "check"}
Carries(c) == calls[c].at \in Carrying

\* One call is replaced.
LEMMA CallReplaced ==
  ASSUME calls \in [Attempts -> Call], NEW c \in Attempts, NEW call \in Call,
         calls' = [calls EXCEPT ![c] = call]
  PROVE  /\ calls' \in [Attempts -> Call] /\ calls'[c] = call
         /\ \A d \in Attempts : d # c => calls'[d] = calls[d]
OBVIOUS

States == {"none", "issue", "store", "load", "granted", "take", "check",
           "redeemed", "refused"}

\* One call goes on to another state.
LEMMA CallGoes ==
  ASSUME calls \in [Attempts -> Call], NEW c \in Attempts, NEW at \in States,
         Go(c, at)
  PROVE  /\ calls' \in [Attempts -> Call]
         /\ calls'[c].at = at /\ calls'[c].epoch = calls[c].epoch
         /\ calls'[c].seen = calls[c].seen
         /\ \A d \in Attempts : d # c => calls'[d] = calls[d]
<1> DEFINE call == [calls[c] EXCEPT !.at = at]
<1>1. calls' = [calls EXCEPT ![c] = call]
  BY DEF Go
<1>2. call \in Call /\ call.at = at /\ call.epoch = calls[c].epoch
      /\ call.seen = calls[c].seen
  BY DEF Call, States
<1> HIDE DEF call
<1> QED
  BY <1>1, <1>2, CallReplaced

-----------------------------------------------------------------------------
(* The steps as the tokens see them.                                       *)

\* A client or a lost answer: one call, which carries nothing afterwards.
ClientMove ==
  /\ UNCHANGED <<epoch, tokens, grants>>
  /\ calls' \in [Attempts -> Call]
  /\ \A c \in Attempts :
       calls'[c] = calls[c] \/ calls'[c].at \notin Carrying
  /\ \A c \in Attempts : calls'[c].epoch <= epoch /\ calls'[c].seen <= epoch

ExpiryMove ==
  /\ UNCHANGED <<epoch, calls, grants>>
  /\ tokens' \subseteq tokens

TokenMove ==
  \/ ClientMove
  \/ ExpiryMove
  \/ \E c \in Attempts : TokenStep(c)

LEMMA NoCallTyped ==
  /\ NoCall \in Call /\ NoCall.at = "none"
  /\ NoCall.epoch = 0 /\ NoCall.seen = 0
BY DEF NoCall, Call

\* Of the steps of VoiceLink those of the gateway alone carry tokens.
LEMMA VoiceMoves ==
  ASSUME VoiceTypeOK, Next
  PROVE  TokenMove
<1>1. /\ calls \in [Attempts -> Call] /\ epoch \in Nat
      /\ \A c \in Attempts : /\ calls[c].epoch <= epoch /\ calls[c].epoch \in Nat
                             /\ calls[c].seen <= epoch /\ calls[c].seen \in Nat
      /\ tabs \in [Tabs -> Tab]
  BY DEF VoiceTypeOK, TokenTypeOK, Call
<1>2. CASE UNCHANGED <<epoch, tokens, grants, calls>>
  BY <1>1, <1>2 DEF TokenMove, ClientMove
<1>3. ASSUME NEW c \in Attempts, NEW call \in Call, call.at \notin Carrying,
             call.epoch <= epoch, call.seen <= epoch,
             calls' = [calls EXCEPT ![c] = call],
             UNCHANGED <<epoch, tokens, grants>>
      PROVE  TokenMove
  BY <1>1, <1>3, CallReplaced DEF TokenMove, ClientMove
<1>4. ASSUME NEW c \in Attempts, Dismiss(c), UNCHANGED <<epoch, tokens, grants>>
      PROVE  TokenMove
  <2>1. NoCall.at \notin Carrying /\ NoCall.epoch <= epoch /\ NoCall.seen <= epoch
    BY <1>1, NoCallTyped DEF Carrying
  <2> QED
    BY <1>3, <1>4, <2>1, NoCallTyped DEF Dismiss
<1>5. ASSUME NEW c \in Attempts, NEW at \in States \ Carrying, Go(c, at),
             UNCHANGED <<epoch, tokens, grants>>
      PROVE  TokenMove
  BY <1>1, <1>5, CallGoes DEF TokenMove, ClientMove
<1>6. ASSUME NEW a \in Attempts, MicrophoneGranted(a)
      PROVE  TokenMove
  <2>1. CASE CallIssue(a, tabs[TabOf(a)].epoch)
    <3> DEFINE call == [NoCall EXCEPT !.at = "issue", !.prev = tabs[TabOf(a)].epoch]
    <3>1. TabOf(a) \in Tabs /\ tabs[TabOf(a)].epoch \in Nat
      <4>1. Waits(a, "microphone") /\ attempts[a] \in Attempt /\ TabOf(a) # None
        BY <1>6 DEF MicrophoneGranted, VoiceTypeOK, Waits
      <4> QED
        BY <1>1, <4>1 DEF Attempt, TabOf, Tab
    <3>2. call \in Call /\ call.at = "issue" /\ call.epoch = 0
          /\ call.seen = 0
      BY <3>1 DEF NoCall, Call
    <3>3. calls' = [calls EXCEPT ![a] = call]
      BY <2>1 DEF CallIssue
    <3>4. call.at \notin Carrying /\ call.epoch <= epoch /\ call.seen <= epoch
      BY <1>1, <3>2 DEF Carrying
    <3> HIDE DEF call
    <3> QED
      BY <1>3, <1>6, <3>2, <3>3, <3>4 DEF MicrophoneGranted
  <2>2. CASE UNCHANGED calls
    BY <1>2, <1>6, <2>2 DEF MicrophoneGranted
  <2> QED
    BY <1>6, <2>1, <2>2 DEF MicrophoneGranted
<1>7. ASSUME NEW a \in Attempts, Granted(a)
      PROVE  TokenMove
  <2>1. Go(a, "take") \/ Dismiss(a)
    BY <1>7 DEF Granted, CallRedeem
  <2>2. "take" \in States \ Carrying /\ UNCHANGED <<epoch, tokens, grants>>
    BY <1>7 DEF Granted, States, Carrying
  <2> QED
    BY <1>4, <1>5, <2>1, <2>2
<1>8. ASSUME NEW a \in Attempts, Refused(a) \/ Redeemed(a) \/ Unheard(a)
      PROVE  TokenMove
  BY <1>4, <1>8 DEF Refused, Redeemed, Unheard
<1>9. ASSUME NEW a \in Attempts, Gateway(a)
      PROVE  TokenMove
  BY <1>9 DEF Gateway, TokenMove
<1>10. CASE GatewayFails
  <2>1. CASE Expire
    BY <2>1 DEF Expire, TokenMove, ExpiryMove
  <2>2. ASSUME NEW a \in Attempts, CallFails(a)
        PROVE  TokenMove
    <3>1. "refused" \in States \ Carrying
      BY DEF States, Carrying
    <3> QED
      BY <1>5, <2>2, <3>1 DEF CallFails
  <2>3. ASSUME NEW a \in Attempts, NEW b \in Attempts, Repeat(a, b)
        PROVE  TokenMove
    <3> DEFINE call == [NoCall EXCEPT !.at = "take", !.epoch = calls[b].epoch]
    <3>1. call \in Call /\ call.at = "take" /\ call.epoch = calls[b].epoch
          /\ call.seen = 0
      BY <1>1 DEF NoCall, Call
    <3>2. calls' = [calls EXCEPT ![a] = call] /\ UNCHANGED <<epoch, tokens, grants>>
      BY <2>3 DEF Repeat
    <3>3. call.at \notin Carrying /\ call.epoch <= epoch /\ call.seen <= epoch
      BY <1>1, <3>1 DEF Carrying
    <3> HIDE DEF call
    <3> QED
      BY <1>3, <3>1, <3>2, <3>3
  <2> QED
    BY <1>10, <2>1, <2>2, <2>3 DEF GatewayFails
<1>11. ASSUME NEW t \in Tabs, NEW a \in Attempts, StartVoice(t, a)
       PROVE  TokenMove
  BY <1>2, <1>11 DEF StartVoice, tokenVars
<1>12. ASSUME NEW t \in Tabs, StopVoice(t) \/ ShowSnapshot(t)
       PROVE  TokenMove
  BY <1>2, <1>12 DEF StopVoice, ShowSnapshot, tokenVars
<1>13. ASSUME NEW a \in Attempts,
              MicrophoneDenied(a) \/ Negotiate(a) \/ LinkFails(a)
       PROVE  TokenMove
  BY <1>2, <1>13 DEF MicrophoneDenied, Negotiate, LinkFails, tokenVars
<1> QED
  BY <1>6, <1>7, <1>8, <1>9, <1>10, <1>11, <1>12, <1>13 DEF Next, Proceed

-----------------------------------------------------------------------------
(* Types.                                                                  *)

\* TokenTypeOK without the fault counter.
TokensTyped ==
  /\ epoch \in Nat
  /\ tokens \subseteq 1..epoch
  /\ calls \in [Attempts -> Call]
  /\ \A c \in Attempts : /\ calls[c].epoch <= epoch /\ calls[c].seen <= epoch
                         /\ Is(c, "store") => calls[c].epoch > 0
  /\ grants \in Seq(Nat)

\* What a step of the gateway does to the epoch, the tokens and the call.
LEMMA IssueStep ==
  ASSUME TokensTyped, NEW c \in Attempts, IssueToken(c), EpochExpected(c)
  PROVE  /\ epoch' = epoch + 1 /\ UNCHANGED <<tokens, grants>>
         /\ calls' \in [Attempts -> Call]
         /\ calls'[c].at = "store" /\ calls'[c].epoch = epoch + 1
         /\ calls'[c].seen = calls[c].seen
         /\ \A d \in Attempts : d # c => calls'[d] = calls[d]
<1> DEFINE call == [calls[c] EXCEPT !.at = "store", !.epoch = epoch + 1]
<1>1. calls' = [calls EXCEPT ![c] = call]
  BY DEF IssueToken
<1>2. call \in Call /\ call.at = "store" /\ call.epoch = epoch + 1
      /\ call.seen = calls[c].seen
  <2>1. epoch + 1 \in Nat /\ calls[c] \in Call
    BY DEF TokensTyped
  <2> QED
    BY <2>1 DEF Call
<1>3. epoch' = epoch + 1 /\ UNCHANGED <<tokens, grants>>
  BY DEF IssueToken, CountEpoch
<1> HIDE DEF call
<1> QED
  BY <1>1, <1>2, <1>3, CallReplaced DEF TokensTyped

LEMMA LoadStep ==
  ASSUME TokensTyped, NEW c \in Attempts, LoadForResume(c)
  PROVE  /\ UNCHANGED <<epoch, tokens, grants>>
         /\ calls' \in [Attempts -> Call]
         /\ calls'[c].at = "granted" /\ calls'[c].epoch = calls[c].epoch
         /\ calls'[c].seen = epoch
         /\ \A d \in Attempts : d # c => calls'[d] = calls[d]
<1> DEFINE call == [calls[c] EXCEPT !.at = "granted", !.seen = epoch]
<1>1. calls' = [calls EXCEPT ![c] = call] /\ UNCHANGED <<epoch, tokens, grants>>
  BY DEF LoadForResume
<1>2. call \in Call /\ call.at = "granted" /\ call.epoch = calls[c].epoch
      /\ call.seen = epoch
  <2>1. epoch \in Nat /\ calls[c] \in Call
    BY DEF TokensTyped
  <2> QED
    BY <2>1 DEF Call
<1> HIDE DEF call
<1> QED
  BY <1>1, <1>2, CallReplaced DEF TokensTyped

\* A step of the gateway issues, stores, takes or grants one token, or none.
LEMMA GatewayMoves ==
  ASSUME TokensTyped, NEW c \in Attempts, TokenStep(c)
  PROVE  /\ calls' \in [Attempts -> Call]
         /\ \A d \in Attempts : d # c => calls'[d] = calls[d]
         /\ calls'[c].seen \in {calls[c].seen, epoch}
         /\ \/ /\ epoch' = epoch + 1 /\ UNCHANGED <<tokens, grants>>
               /\ calls'[c].at = "store" /\ calls'[c].epoch = epoch + 1
            \/ /\ UNCHANGED <<epoch, grants>> /\ calls'[c].at \notin Carrying
               /\ calls'[c].epoch = calls[c].epoch
               /\ calls[c].at = "store" /\ tokens' = tokens \cup {calls[c].epoch}
            \/ /\ UNCHANGED <<epoch, grants>> /\ calls'[c].at = "check"
               /\ calls'[c].epoch = calls[c].epoch
               /\ calls[c].epoch \in tokens /\ tokens' = tokens \ {calls[c].epoch}
            \/ /\ UNCHANGED <<epoch, tokens>> /\ calls'[c].at \notin Carrying
               /\ calls'[c].epoch = calls[c].epoch
               /\ calls[c].at = "check" /\ calls[c].epoch = epoch
               /\ grants' = Append(grants, epoch)
            \/ /\ UNCHANGED <<epoch, tokens, grants>>
               /\ calls'[c].at \notin Carrying
               /\ calls'[c].epoch = calls[c].epoch
<1>1. calls \in [Attempts -> Call]
  BY DEF TokensTyped
<1>2. /\ \A at \in {"load", "granted", "refused", "redeemed"} :
           at \in States /\ at \notin Carrying
      /\ "check" \in States
  BY DEF States, Carrying
<1>3. CASE IssueToken(c)
  <2>1. CASE EpochExpected(c)
    BY <1>3, <2>1, IssueStep
  <2>2. CASE ~EpochExpected(c)
    BY <1>1, <1>2, <1>3, <2>2, CallGoes DEF IssueToken
  <2> QED
    BY <2>1, <2>2
<1>4. CASE StoreToken(c)
  <2>1. PICK at \in {"load", "granted"} : Go(c, at)
    BY <1>4 DEF StoreToken
  <2> QED
    BY <1>1, <1>2, <1>4, <2>1, CallGoes DEF StoreToken, Is
<1>5. CASE LoadForResume(c)
  BY <1>2, <1>5, LoadStep
<1>6. CASE TakeToken(c)
  <2>1. CASE calls[c].epoch \in tokens
    BY <1>1, <1>2, <1>6, <2>1, CallGoes DEF TakeToken, Taken
  <2>2. CASE calls[c].epoch \notin tokens
    BY <1>1, <1>2, <1>6, <2>2, CallGoes DEF TakeToken
  <2> QED
    BY <2>1, <2>2
<1>7. CASE CheckEpoch(c)
  <2>1. CASE EpochCurrent(c)
    BY <1>1, <1>2, <1>7, <2>1, CallGoes DEF CheckEpoch, EpochCurrent, Is
  <2>2. CASE ~EpochCurrent(c)
    BY <1>1, <1>2, <1>7, <2>2, CallGoes DEF CheckEpoch
  <2> QED
    BY <2>1, <2>2
<1> QED
  BY <1>3, <1>4, <1>5, <1>6, <1>7 DEF TokenStep

LEMMA TokensTypedStep ==
  ASSUME TokensTyped, TokenMove
  PROVE  TokensTyped' /\ epoch <= epoch'
<1>1. /\ calls \in [Attempts -> Call] /\ epoch \in Nat /\ tokens \subseteq 1..epoch
      /\ \A c \in Attempts : /\ calls[c].epoch <= epoch /\ calls[c].epoch \in Nat
                             /\ calls[c].seen <= epoch /\ calls[c].seen \in Nat
                             /\ calls[c].at = "store" => calls[c].epoch > 0
      /\ grants \in Seq(Nat)
  BY DEF TokensTyped, Call, Is
<1>2. CASE ClientMove
  BY <1>1, <1>2 DEF ClientMove, TokensTyped, Is, Carrying
<1>3. CASE ExpiryMove
  BY <1>1, <1>3 DEF ExpiryMove, TokensTyped, Is
<1>4. ASSUME NEW c \in Attempts, TokenStep(c)
      PROVE  TokensTyped' /\ epoch <= epoch'
  <2>1. /\ calls' \in [Attempts -> Call]
        /\ \A d \in Attempts : d # c => calls'[d] = calls[d]
    BY <1>4, GatewayMoves
  <2>2. /\ epoch' \in Nat /\ epoch <= epoch' /\ calls'[c].epoch <= epoch'
        /\ calls'[c].seen <= epoch'
        /\ calls'[c].at = "store" => calls'[c].epoch > 0
    BY <1>1, <1>4, GatewayMoves DEF Carrying
  <2>3. \A d \in Attempts : /\ calls'[d].epoch <= epoch' /\ calls'[d].seen <= epoch'
                            /\ Is(d, "store")' => calls'[d].epoch > 0
    <3>1. ASSUME NEW d \in Attempts, d # c
          PROVE  /\ calls'[d].epoch <= epoch' /\ calls'[d].seen <= epoch'
                 /\ calls'[d].at = "store" => calls'[d].epoch > 0
      <4>1. /\ calls[d].epoch <= epoch /\ calls[d].epoch \in Nat
            /\ calls[d].seen <= epoch /\ calls[d].seen \in Nat
            /\ calls[d].at = "store" => calls[d].epoch > 0
        BY <1>1
      <4> QED
        BY <1>1, <2>1, <2>2, <3>1, <4>1
    <3> QED
      BY <2>2, <3>1 DEF Is
  <2>4. tokens' \subseteq 1..epoch'
    <3>1. \A e \in tokens' : e \in tokens \/ (e = calls[c].epoch /\ Is(c, "store"))
      BY <1>4, GatewayMoves DEF Is
    <3>2. ASSUME NEW e \in tokens'
          PROVE  e \in 1..epoch
      <4>1. CASE e \in tokens
        BY <1>1, <4>1
      <4>2. CASE e = calls[c].epoch /\ Is(c, "store")
        <5>1. e \in Nat /\ e <= epoch /\ e > 0
          BY <1>1, <4>2 DEF Is
        <5> QED
          BY <1>1, <5>1
      <4> QED
        BY <3>1, <4>1, <4>2
    <3> QED
      BY <1>1, <2>2, <3>2
  <2>5. grants' \in Seq(Nat)
    <3>1. UNCHANGED grants \/ grants' = Append(grants, epoch)
      BY <1>4, GatewayMoves
    <3> QED
      BY <1>1, <3>1, AppendProperties
  <2> QED
    BY <2>1, <2>2, <2>3, <2>4, <2>5 DEF TokensTyped
<1> QED
  BY <1>2, <1>3, <1>4 DEF TokenMove

-----------------------------------------------------------------------------
(* A token is carried once, and not once more after its grant.             *)

CarriedOnce ==
  /\ \A c \in Attempts : Carries(c) => calls[c].epoch \notin tokens
  /\ \A c, d \in Attempts :
       c # d /\ Carries(c) /\ Carries(d) => calls[c].epoch # calls[d].epoch

GrantedOnce ==
  \A i \in DOMAIN grants :
    /\ grants[i] <= epoch /\ grants[i] \notin tokens
    /\ \A c \in Attempts : Carries(c) => calls[c].epoch # grants[i]

CarriedInv == CarriedOnce /\ GrantedOnce /\ GrantsInOrder

LEMMA CarriedStep ==
  ASSUME TokensTyped, CarriedInv, TokenMove
  PROVE  CarriedInv'
<1>1. /\ calls \in [Attempts -> Call] /\ epoch \in Nat /\ tokens \subseteq 1..epoch
      /\ \A c \in Attempts : calls[c].epoch <= epoch /\ calls[c].epoch \in Nat
      /\ grants \in Seq(Nat) /\ DOMAIN grants = 1..Len(grants)
      /\ \A i \in DOMAIN grants : grants[i] \in Nat
      /\ Len(grants) \in Nat
  BY LenProperties, ElementOfSeq DEF TokensTyped, Call
<1>2. CASE ClientMove
  <2>1. \A c \in Attempts : Carries(c)' => Carries(c) /\ calls'[c] = calls[c]
    BY <1>2 DEF ClientMove, Carries
  <2> QED
    BY <1>2, <2>1
       DEF ClientMove, CarriedInv, CarriedOnce, GrantedOnce, GrantsInOrder
<1>3. CASE ExpiryMove
  BY <1>3 DEF ExpiryMove, CarriedInv, CarriedOnce, GrantedOnce, GrantsInOrder,
              Carries
<1>4. ASSUME NEW c \in Attempts, TokenStep(c)
      PROVE  CarriedInv'
  <2>1. \A d \in Attempts : d # c =>
          /\ calls'[d] = calls[d] /\ calls[d].epoch # epoch + 1
          /\ Carries(d)' <=> Carries(d)
    <3>1. \A d \in Attempts : d # c => calls'[d] = calls[d]
      BY <1>4, GatewayMoves
    <3> QED
      BY <1>1, <3>1 DEF Carries
  <2>2. CASE /\ epoch' = epoch + 1 /\ UNCHANGED <<tokens, grants>>
             /\ calls'[c].at = "store" /\ calls'[c].epoch = epoch + 1
    <3>1. epoch + 1 \notin tokens /\ \A i \in DOMAIN grants : grants[i] < epoch + 1
      BY <1>1 DEF CarriedInv, GrantedOnce
    <3>2. CarriedOnce'
      BY <2>1, <2>2, <3>1 DEF CarriedInv, CarriedOnce
    <3>3. GrantedOnce'
      BY <1>1, <2>1, <2>2, <3>1 DEF CarriedInv, GrantedOnce
    <3> QED
      BY <2>2, <3>2, <3>3 DEF CarriedInv, GrantsInOrder
  <2>3. CASE /\ UNCHANGED <<epoch, grants>> /\ calls'[c].at \notin Carrying
             /\ calls[c].at = "store" /\ tokens' = tokens \cup {calls[c].epoch}
    <3>1. Carries(c) /\ ~Carries(c)'
      BY <2>3 DEF Carries, Carrying
    <3>2. CarriedOnce'
      BY <2>1, <2>3, <3>1 DEF CarriedInv, CarriedOnce
    <3>3. GrantedOnce'
      BY <2>1, <2>3, <3>1 DEF CarriedInv, GrantedOnce
    <3> QED
      BY <2>3, <3>2, <3>3 DEF CarriedInv, GrantsInOrder
  <2>4. CASE /\ UNCHANGED <<epoch, grants>> /\ calls'[c].at = "check"
             /\ calls'[c].epoch = calls[c].epoch
             /\ calls[c].epoch \in tokens /\ tokens' = tokens \ {calls[c].epoch}
    <3>1. CarriedOnce'
      BY <2>1, <2>4 DEF CarriedInv, CarriedOnce
    <3>2. GrantedOnce'
      BY <2>1, <2>4 DEF CarriedInv, GrantedOnce
    <3> QED
      BY <2>4, <3>1, <3>2 DEF CarriedInv, GrantsInOrder
  <2>5. CASE /\ UNCHANGED <<epoch, tokens>> /\ calls'[c].at \notin Carrying
             /\ calls[c].at = "check" /\ calls[c].epoch = epoch
             /\ grants' = Append(grants, epoch)
    <3>1. Carries(c) /\ ~Carries(c)'
      BY <2>5 DEF Carries, Carrying
    <3>2. /\ Len(grants') = Len(grants) + 1 /\ grants'[Len(grants) + 1] = epoch
          /\ \A i \in 1..Len(grants) : grants'[i] = grants[i]
          /\ DOMAIN grants' = 1..Len(grants')
      BY <1>1, <2>5, AppendProperties, LenProperties
    <3>3. \A i \in DOMAIN grants' :
            \/ i \in DOMAIN grants /\ grants'[i] = grants[i]
            \/ i = Len(grants) + 1 /\ grants'[i] = epoch
      BY <1>1, <3>2
    <3>4. CarriedOnce'
      BY <2>1, <2>5, <3>1 DEF CarriedInv, CarriedOnce
    <3>5. GrantedOnce'
      BY <1>1, <2>1, <2>5, <3>1, <3>3 DEF CarriedInv, CarriedOnce, GrantedOnce
    <3>6. \A i \in DOMAIN grants : grants[i] < epoch
      BY <1>1, <2>5, <3>1 DEF CarriedInv, GrantedOnce
    <3>7. GrantsInOrder'
      BY <1>1, <3>2, <3>3, <3>6 DEF CarriedInv, GrantsInOrder
    <3> QED
      BY <3>4, <3>5, <3>7 DEF CarriedInv
  <2>6. CASE UNCHANGED <<epoch, tokens, grants>> /\ calls'[c].at \notin Carrying
    <3>1. ~Carries(c)'
      BY <2>6 DEF Carries
    <3> QED
      BY <2>1, <2>6, <3>1
         DEF CarriedInv, CarriedOnce, GrantedOnce, GrantsInOrder
  <2> QED
    BY <1>4, <2>2, <2>3, <2>4, <2>5, <2>6, GatewayMoves
<1> QED
  BY <1>2, <1>3, <1>4 DEF TokenMove

-----------------------------------------------------------------------------
(* What a tab, its attempt, the call and the link know of each other.      *)

ForGrant      == {"issue", "store", "load", "granted"}
ForRedemption == {"take", "check", "redeemed"}

\* A call is one the attempt waits for, or a repeated one nobody waits for.
CallsAwaited ==
  \A a \in Attempts :
    /\ calls[a].at \in ForGrant => Waits(a, "grant")
    /\ calls[a].at \in ForRedemption => attempts[a].waits \in {"redemption", "no"}
    /\ calls[a].at = "refused" => attempts[a].waits \in {"grant", "redemption", "no"}

\* A tab that is at rest holds nothing; one that is not holds its current
\* attempt, and nothing of another.
TabsHold ==
  \A t \in Tabs :
    /\ tabs[t].voice \in {"idle", "error"} <=> tabs[t].current = None
    /\ tabs[t].microphone \in {None, tabs[t].current}
    /\ tabs[t].realtime \in {None, tabs[t].current}
    /\ tabs[t].current # None =>
         ~Waits(tabs[t].current, "no") /\ TabOf(tabs[t].current) = t

MicrophonesHeld ==
  \A a \in microphones :
    /\ attempts[a].waits \in {"grant", "redemption", "link"}
    /\ \E t \in Tabs : /\ tabs[t].current = a
                       /\ a \in {tabs[t].microphone, tabs[t].realtime}

LinksHeld ==
  \A a \in Attempts :
    Open(a) => /\ Waits(a, "link")
               /\ \E t \in Tabs : tabs[t].current = a /\ tabs[t].realtime = a

LiveConnected ==
  \A t \in Tabs : tabs[t].voice = "live" => At(tabs[t].current, "connected")

Held == TabsHold /\ MicrophonesHeld /\ LinksHeld /\ LiveConnected

VoiceInv == VoiceTypeOK /\ CarriedInv /\ CallsAwaited /\ Held

-----------------------------------------------------------------------------
(* The types of the browser.                                               *)

\* A call of a step, and the attempts, tabs and links it is about.
LEMMA VoiceTypes ==
  ASSUME VoiceTypeOK
  PROVE  /\ calls \in [Attempts -> Call] /\ links \in [Attempts -> Link]
         /\ attempts \in [Attempts -> Attempt] /\ tabs \in [Tabs -> Tab]
         /\ microphones \subseteq Attempts
         /\ epoch \in Nat /\ faults \in 0..MaxFaults /\ TokensTyped
         /\ \A a \in Attempts : ~Waits(a, "no") => TabOf(a) \in Tabs
         /\ \A a \in Attempts : attempts[a].tab \in Tabs \cup {None}
         /\ \A a \in Attempts : calls[a].epoch \in Nat /\ calls[a].seen \in Nat
<1>1. \A a \in Attempts : attempts[a].tab \in Tabs \cup {None}
  BY DEF VoiceTypeOK, Attempt
<1>2. \A a \in Attempts : ~Waits(a, "no") => TabOf(a) \in Tabs
  BY <1>1 DEF VoiceTypeOK, TabOf
<1>3. \A a \in Attempts : calls[a].epoch \in Nat /\ calls[a].seen \in Nat
  BY DEF VoiceTypeOK, TokenTypeOK, Call
<1> QED
  BY <1>1, <1>2, <1>3 DEF VoiceTypeOK, TokenTypeOK, TokensTyped

\* One step of a link.
LEMMA LinkStepTyped ==
  ASSUME links \in [Attempts -> Link], NEW a \in Attempts, LinkStep(a)
  PROVE  links' \in [Attempts -> Link]
<1>1. links[a] \in Link
  OBVIOUS
<1>2. Flushed(links[a].browser) \in {"none", "queued", "added"}
      /\ Flushed(links[a].provider) \in {"none", "queued", "added"}
  BY <1>1 DEF Link, Flushed
<1>3. CASE MakeOffer(a) \/ MakeAnswer(a) \/ Connects(a)
  BY <1>1, <1>3 DEF MakeOffer, MakeAnswer, Connects, Link, Steps
<1>4. CASE TakeOffer(a) \/ TakeAnswer(a)
  BY <1>1, <1>2, <1>4 DEF TakeOffer, TakeAnswer, Link, Steps
<1>5. CASE FindCandidate(a, "browser") \/ FindCandidate(a, "provider")
  <2>1. PICK step \in Steps, found \in {"queued", "added"} :
          \/ links' = [links EXCEPT ![a].step = step, ![a].browser = found]
          \/ links' = [links EXCEPT ![a].step = step, ![a].provider = found]
    BY <1>1, <1>5 DEF FindCandidate, Link, Steps
  <2> QED
    BY <1>1, <2>1 DEF Link
<1> QED
  BY <1>3, <1>4, <1>5 DEF LinkStep

LEMMA LinksTyped ==
  ASSUME VoiceTypeOK, Next
  PROVE  links' \in [Attempts -> Link]
<1>1. links \in [Attempts -> Link]
  BY VoiceTypes
<1>2. NoLink \in Link /\ NewLink \in Link
  BY DEF NoLink, NewLink, Link, Steps
<1>3. CASE UNCHANGED links
  BY <1>1, <1>3
<1>4. ASSUME NEW a \in Attempts, Opened(a) \/ Closed(a)
      PROVE  links' \in [Attempts -> Link]
  BY <1>1, <1>2, <1>4 DEF Opened, Closed
<1>5. ASSUME NEW a \in Attempts, Negotiate(a)
      PROVE  links' \in [Attempts -> Link]
  BY <1>1, <1>5, LinkStepTyped DEF Negotiate
<1>6. ASSUME NEW t \in Tabs, StopVoice(t)
      PROVE  links' \in [Attempts -> Link]
  BY <1>1, <1>2, <1>6 DEF StopVoice
<1>7. ASSUME NEW a \in Attempts, Redeemed(a) \/ LinkFails(a)
      PROVE  links' \in [Attempts -> Link]
  BY <1>3, <1>4, <1>7 DEF Redeemed, LinkFails
<1>8. ASSUME NEW t \in Tabs,
             ShowSnapshot(t) \/ \E a \in Attempts : StartVoice(t, a)
      PROVE  links' \in [Attempts -> Link]
  BY <1>3, <1>8 DEF StartVoice, ShowSnapshot
<1>9. ASSUME NEW a \in Attempts,
             \/ MicrophoneGranted(a) \/ MicrophoneDenied(a) \/ Gateway(a)
             \/ Unheard(a) \/ Refused(a) \/ Granted(a)
      PROVE  links' \in [Attempts -> Link]
  BY <1>3, <1>9 DEF MicrophoneGranted, MicrophoneDenied, Gateway, Unheard,
                    Refused, Granted
<1>10. CASE GatewayFails
  BY <1>3, <1>10 DEF GatewayFails
<1> QED
  BY <1>5, <1>6, <1>7, <1>8, <1>9, <1>10 DEF Next, Proceed

\* Tab t, and no other, is changed to this.
TabBecomes(t, voice, current, microphone, realtime, e) ==
  /\ tabs' \in [Tabs -> Tab]
  /\ \A u \in Tabs : u # t => tabs'[u] = tabs[u]
  /\ tabs'[t].voice = voice /\ tabs'[t].current = current
  /\ tabs'[t].microphone = microphone /\ tabs'[t].realtime = realtime
  /\ tabs'[t].epoch = e

\* What each step does to the tab it is about.
LEMMA TabMoves ==
  ASSUME VoiceTypeOK, NEW t \in Tabs
  PROVE  /\ ShowError(t) =>
              TabBecomes(t, "error", None, None, None, tabs[t].epoch)
         /\ StopVoice(t) =>
              TabBecomes(t, "idle", None, None, None, tabs[t].epoch)
         /\ ShowSnapshot(t) =>
              \E e \in 0..epoch :
                TabBecomes(t, tabs[t].voice, tabs[t].current,
                           tabs[t].microphone, tabs[t].realtime, e)
<1> USE DEF TabBecomes
<1>1. tabs \in [Tabs -> Tab] /\ tabs[t] \in Tab
  BY VoiceTypes
<1>2. {"idle", "error"} \subseteq VoiceState /\ None \in Ref
  BY DEF VoiceState, Ref
<1>3. ASSUME NEW voice \in VoiceState, NEW none \in Ref,
             tabs' = [tabs EXCEPT ![t].voice = voice, ![t].current = none,
                                  ![t].microphone = none, ![t].realtime = none]
      PROVE  TabBecomes(t, voice, none, none, none, tabs[t].epoch)
  <2> DEFINE tab == [tabs[t] EXCEPT !.voice = voice, !.current = none,
                                    !.microphone = none, !.realtime = none]
  <2>1. tabs' = [tabs EXCEPT ![t] = tab]
    BY <1>1, <1>3
  <2>2. /\ tab.voice = voice /\ tab.current = none /\ tab.microphone = none
        /\ tab.realtime = none /\ tab.epoch = tabs[t].epoch
    BY <1>1 DEF Tab
  <2>3. tab \in Tab
    BY <1>1 DEF Tab
  <2> HIDE DEF tab
  <2> QED
    BY <1>1, <2>1, <2>2, <2>3
<1>4. ShowError(t) =>
        TabBecomes(t, "error", None, None, None, tabs[t].epoch)
  BY <1>2, <1>3 DEF ShowError
<1>5. StopVoice(t) =>
        TabBecomes(t, "idle", None, None, None, tabs[t].epoch)
  BY <1>2, <1>3 DEF StopVoice
<1>6. ASSUME ShowSnapshot(t)
      PROVE  \E e \in 0..epoch :
               TabBecomes(t, tabs[t].voice, tabs[t].current,
                          tabs[t].microphone, tabs[t].realtime, e)
  <2>1. PICK e \in 0..epoch : tabs' = [tabs EXCEPT ![t].epoch = e]
    BY <1>6 DEF ShowSnapshot
  <2>2. e \in Nat
    BY VoiceTypes
  <2> QED
    BY <1>1, <2>1, <2>2 DEF Tab
<1> QED
  BY <1>4, <1>5, <1>6

\* And to the tab of the attempt that takes it.
LEMMA AttemptTabMoves ==
  ASSUME VoiceTypeOK, NEW t \in Tabs, NEW a \in Attempts
  PROVE  /\ StartVoice(t, a) =>
              TabBecomes(t, "requesting", a, tabs[t].microphone,
                         tabs[t].realtime, tabs[t].epoch)
         /\ MicrophoneGranted(a) /\ ~Overtaken(a) /\ TabOf(a) = t =>
              TabBecomes(t, tabs[t].voice, tabs[t].current, a,
                         tabs[t].realtime, tabs[t].epoch)
         /\ Granted(a) /\ ~Overtaken(a) /\ TabOf(a) = t =>
              TabBecomes(t, tabs[t].voice, tabs[t].current, tabs[t].microphone,
                         tabs[t].realtime, SnapshotEpoch(a))
         /\ Redeemed(a) /\ ~Overtaken(a) /\ TabOf(a) = t =>
              TabBecomes(t, "connecting", tabs[t].current, None, a,
                         tabs[t].epoch)
         /\ Negotiate(a) /\ ~UNCHANGED tabs /\ TabOf(a) = t =>
              /\ TabBecomes(t, "live", tabs[t].current, tabs[t].microphone,
                            tabs[t].realtime, tabs[t].epoch)
              /\ links'[a].step = "connected" /\ ~Overtaken(a)
<1> USE DEF TabBecomes
<1>1. tabs \in [Tabs -> Tab] /\ tabs[t] \in Tab
  BY VoiceTypes
<1>2. /\ {"requesting", "connecting", "live"} \subseteq VoiceState
      /\ a \in Ref /\ None \in Ref
  BY DEF VoiceState, Ref
<1>3. SnapshotEpoch(a) \in Nat
  BY VoiceTypes DEF SnapshotEpoch
<1>4. StartVoice(t, a) =>
        TabBecomes(t, "requesting", a, tabs[t].microphone,
                   tabs[t].realtime, tabs[t].epoch)
  BY <1>1, <1>2 DEF StartVoice, Tab
<1>5. MicrophoneGranted(a) /\ ~Overtaken(a) /\ TabOf(a) = t =>
        TabBecomes(t, tabs[t].voice, tabs[t].current, a,
                   tabs[t].realtime, tabs[t].epoch)
  BY <1>1, <1>2 DEF MicrophoneGranted, Tab
<1>6. Granted(a) /\ ~Overtaken(a) /\ TabOf(a) = t =>
        TabBecomes(t, tabs[t].voice, tabs[t].current, tabs[t].microphone,
                   tabs[t].realtime, SnapshotEpoch(a))
  BY <1>1, <1>3 DEF Granted, Tab
<1>7. Redeemed(a) /\ ~Overtaken(a) /\ TabOf(a) = t =>
        TabBecomes(t, "connecting", tabs[t].current, None, a, tabs[t].epoch)
  BY <1>1, <1>2 DEF Redeemed, Tab
<1>8. Negotiate(a) /\ ~UNCHANGED tabs /\ TabOf(a) = t =>
        /\ TabBecomes(t, "live", tabs[t].current, tabs[t].microphone,
                      tabs[t].realtime, tabs[t].epoch)
        /\ links'[a].step = "connected" /\ ~Overtaken(a)
  BY <1>1, <1>2 DEF Negotiate, Tab
<1> QED
  BY <1>4, <1>5, <1>6, <1>7, <1>8

\* Attempt a, and no other, is changed to this.
AttemptBecomes(a, for, tab) ==
  /\ attempts' \in [Attempts -> Attempt]
  /\ \A b \in Attempts : b # a => attempts'[b] = attempts[b]
  /\ attempts'[a].waits = for /\ attempts'[a].tab = tab

LEMMA AttemptMoves ==
  ASSUME VoiceTypeOK, NEW a \in Attempts
  PROVE  /\ \A for \in {"microphone", "grant", "redemption", "link"} :
              WaitFor(a, for) => AttemptBecomes(a, for, TabOf(a))
         /\ Ends(a) => AttemptBecomes(a, "no", None)
         /\ \A t \in Tabs : StartVoice(t, a) => AttemptBecomes(a, "microphone", t)
<1> USE DEF AttemptBecomes
<1>1. attempts \in [Attempts -> Attempt] /\ attempts[a] \in Attempt
  BY VoiceTypes
<1>2. ASSUME NEW for \in {"microphone", "grant", "redemption", "link"},
             WaitFor(a, for)
      PROVE  AttemptBecomes(a, for, TabOf(a))
  BY <1>1, <1>2 DEF WaitFor, TabOf, Attempt
<1>3. NoAttempt \in Attempt /\ NoAttempt.waits = "no" /\ NoAttempt.tab = None
  BY DEF NoAttempt, Attempt
<1>4. Ends(a) => AttemptBecomes(a, "no", None)
  BY <1>1, <1>3 DEF Ends
<1>5. ASSUME NEW t \in Tabs, StartVoice(t, a)
      PROVE  AttemptBecomes(a, "microphone", t)
  BY <1>1, <1>5 DEF StartVoice, Attempt
<1> QED
  BY <1>2, <1>4, <1>5

\* A granted call is one its attempt waits for.
LEMMA GrantAwaited ==
  ASSUME VoiceTypeOK, CallsAwaited, NEW a \in Attempts, Granted(a)
  PROVE  Waits(a, "grant") /\ TabOf(a) \in Tabs
<1>1. Waits(a, "grant")
  BY DEF Granted, Is, CallsAwaited, ForGrant
<1> QED
  BY <1>1, VoiceTypes DEF Waits

\* What a step makes of the attempts.
AttemptMove ==
  \/ UNCHANGED attempts
  \/ \E a \in Attempts : AttemptBecomes(a, "no", None)
  \/ \E a \in Attempts, t \in Tabs,
        for \in {"microphone", "grant", "redemption", "link"} :
       AttemptBecomes(a, for, t)
  \/ /\ attempts' \in [Attempts -> Attempt]
     /\ \A a \in Attempts : attempts'[a] \in {attempts[a], NoAttempt}

LEMMA AttemptsMove ==
  ASSUME VoiceTypeOK, CallsAwaited, Next
  PROVE  AttemptMove
<1> USE DEF AttemptMove
<1>1. ASSUME NEW a \in Attempts, Ends(a)
      PROVE  AttemptMove
  BY <1>1, AttemptMoves
<1>2. ASSUME NEW a \in Attempts, ~Waits(a, "no"),
             NEW for \in {"microphone", "grant", "redemption", "link"},
             WaitFor(a, for)
      PROVE  AttemptMove
  BY <1>2, VoiceTypes, AttemptMoves
<1>3. ASSUME NEW a \in Attempts, MicrophoneGranted(a) \/ MicrophoneDenied(a)
      PROVE  AttemptMove
  <2>1. ~Waits(a, "no")
    BY <1>3 DEF MicrophoneGranted, MicrophoneDenied, Waits
  <2> QED
    BY <1>1, <1>2, <1>3, <2>1 DEF MicrophoneGranted, MicrophoneDenied
<1>4. ASSUME NEW a \in Attempts, Granted(a)
      PROVE  AttemptMove
  <2>1. ~Waits(a, "no")
    BY <1>4, GrantAwaited DEF Waits
  <2> QED
    BY <1>1, <1>2, <1>4, <2>1 DEF Granted
<1>5. ASSUME NEW a \in Attempts, Refused(a) \/ Redeemed(a) \/ LinkFails(a)
      PROVE  AttemptMove
  BY <1>1, <1>2, <1>5 DEF Refused, Redeemed, LinkFails
<1>6. ASSUME NEW t \in Tabs, NEW a \in Attempts, StartVoice(t, a)
      PROVE  AttemptMove
  BY <1>6, AttemptMoves
<1>7. ASSUME NEW t \in Tabs, StopVoice(t)
      PROVE  AttemptMove
  <2>1. /\ attempts' = [a \in Attempts |-> attempts'[a]]
        /\ \A a \in Attempts : attempts'[a] \in {attempts[a], NoAttempt}
    BY <1>7 DEF StopVoice
  <2>2. NoAttempt \in Attempt /\ attempts \in [Attempts -> Attempt]
    BY VoiceTypes DEF NoAttempt, Attempt
  <2> QED
    BY <2>1, <2>2
<1>8. ASSUME NEW t \in Tabs, ShowSnapshot(t)
      PROVE  AttemptMove
  BY <1>8 DEF ShowSnapshot
<1>9. ASSUME NEW a \in Attempts, Gateway(a) \/ Unheard(a) \/ Negotiate(a)
      PROVE  AttemptMove
  BY <1>9 DEF Gateway, Unheard, Negotiate
<1>10. CASE GatewayFails
  BY <1>10 DEF GatewayFails
<1> QED
  BY <1>3, <1>4, <1>5, <1>6, <1>7, <1>8, <1>9, <1>10 DEF Next, Proceed

\* What a step makes of the tabs.
TabMove ==
  \/ UNCHANGED tabs
  \/ \E t \in Tabs, voice \in VoiceState, current, microphone, realtime \in Ref,
        e \in 0..epoch : TabBecomes(t, voice, current, microphone, realtime, e)

LEMMA TabsMove ==
  ASSUME VoiceTypeOK, CallsAwaited, Next
  PROVE  TabMove
<1> USE DEF TabMove
<1>1. /\ tabs \in [Tabs -> Tab] /\ epoch \in Nat
      /\ \A t \in Tabs : tabs[t].epoch \in 0..epoch
      /\ \A t \in Tabs : tabs[t].voice \in VoiceState /\ tabs[t].current \in Ref
      /\ \A t \in Tabs : tabs[t].microphone \in Ref /\ tabs[t].realtime \in Ref
  BY VoiceTypes DEF VoiceTypeOK, Tab
<1>2. /\ {"idle", "requesting", "connecting", "live", "error"} \subseteq VoiceState
      /\ Attempts \subseteq Ref /\ None \in Ref
  BY DEF VoiceState, Ref
<1>3. ASSUME NEW t \in Tabs, ShowError(t) \/ StopVoice(t) \/ ShowSnapshot(t)
      PROVE  TabMove
  BY <1>1, <1>2, <1>3, TabMoves
<1>4. ASSUME NEW t \in Tabs, NEW a \in Attempts, StartVoice(t, a)
      PROVE  TabMove
  BY <1>1, <1>2, <1>4, AttemptTabMoves
<1>5. ASSUME NEW a \in Attempts, MicrophoneGranted(a)
      PROVE  TabMove
  <2>1. TabOf(a) \in Tabs
    BY <1>5, VoiceTypes DEF MicrophoneGranted, Waits
  <2>2. CASE Overtaken(a)
    BY <1>5, <2>2 DEF MicrophoneGranted
  <2>3. CASE ~Overtaken(a)
    BY <1>1, <1>2, <1>5, <2>1, <2>3, AttemptTabMoves
  <2> QED
    BY <2>2, <2>3
<1>6. ASSUME NEW a \in Attempts, Granted(a)
      PROVE  TabMove
  <2>1. TabOf(a) \in Tabs
    BY <1>6, GrantAwaited
  <2>2. SnapshotEpoch(a) \in 0..epoch
    <3>1. /\ calls[a].seen \in Nat /\ calls[a].seen <= epoch
          /\ calls[a].epoch \in Nat /\ calls[a].epoch <= epoch
      BY VoiceTypes DEF TokensTyped
    <3> QED
      BY <1>1, <3>1 DEF SnapshotEpoch
  <2>3. CASE Overtaken(a)
    BY <1>6, <2>3 DEF Granted
  <2>4. CASE ~Overtaken(a)
    BY <1>1, <1>2, <1>6, <2>1, <2>2, <2>4, AttemptTabMoves
  <2> QED
    BY <2>3, <2>4
<1>7. ASSUME NEW a \in Attempts, Redeemed(a)
      PROVE  TabMove
  <2>1. TabOf(a) \in Tabs
    BY <1>7, VoiceTypes DEF Redeemed
  <2>2. CASE Overtaken(a)
    BY <1>7, <2>2 DEF Redeemed
  <2>3. CASE ~Overtaken(a)
    BY <1>1, <1>2, <1>7, <2>1, <2>3, AttemptTabMoves
  <2> QED
    BY <2>2, <2>3
<1>8. ASSUME NEW a \in Attempts, Negotiate(a)
      PROVE  TabMove
  <2>1. CASE TabOf(a) \in Tabs
    BY <1>1, <1>2, <1>8, <2>1, AttemptTabMoves
  <2>2. CASE TabOf(a) \notin Tabs
    BY <1>1, <1>8, <2>2 DEF Negotiate
  <2> QED
    BY <2>1, <2>2
<1>9. ASSUME NEW a \in Attempts,
             MicrophoneDenied(a) \/ Refused(a) \/ LinkFails(a)
      PROVE  TabMove
  <2>1. CASE UNCHANGED tabs
    BY <2>1
  <2>2. CASE ShowError(TabOf(a)) /\ TabOf(a) \in Tabs
    BY <1>3, <2>2
  <2>3. CASE ShowError(TabOf(a)) /\ TabOf(a) \notin Tabs
    BY <1>1, <2>3 DEF ShowError
  <2> QED
    BY <1>9, <2>1, <2>2, <2>3 DEF MicrophoneDenied, Refused, LinkFails
<1>10. ASSUME NEW a \in Attempts, Gateway(a) \/ Unheard(a)
       PROVE  TabMove
  BY <1>10 DEF Gateway, Unheard
<1>11. CASE GatewayFails
  BY <1>11 DEF GatewayFails
<1> QED
  BY <1>3, <1>4, <1>5, <1>6, <1>7, <1>8, <1>9, <1>10, <1>11 DEF Next, Proceed

\* Every step keeps the types.
LEMMA VoiceTypedStep ==
  ASSUME VoiceTypeOK, CallsAwaited, [Next]_vars
  PROVE  VoiceTypeOK'
<1>1. CASE Next
  <2>1. TokensTyped' /\ epoch <= epoch'
    BY <1>1, VoiceMoves, VoiceTypes, TokensTypedStep
  <2>2. links' \in [Attempts -> Link]
    BY <1>1, LinksTyped
  <2>3. /\ attempts' \in [Attempts -> Attempt]
        /\ \A a \in Attempts : attempts'[a].waits # "no" => attempts'[a].tab # None
    <3>1. AttemptMove
      BY <1>1, AttemptsMove
    <3>2. /\ attempts \in [Attempts -> Attempt]
          /\ \A a \in Attempts : attempts[a].waits # "no" => attempts[a].tab # None
          /\ \A t \in Tabs : t # None
      BY VoiceTypes, NoneAssumption DEF VoiceTypeOK, Waits, TabOf
    <3>3. NoAttempt.waits = "no"
      BY DEF NoAttempt
    <3> QED
      BY <3>1, <3>2, <3>3 DEF AttemptMove, AttemptBecomes
  <2>4. microphones' \subseteq Attempts
    <3>1. microphones' \subseteq microphones \cup Attempts
      BY <1>1 DEF Next, Proceed, StartVoice, StopVoice, ShowSnapshot,
         MicrophoneGranted, MicrophoneDenied, Gateway, Unheard, Refused,
         Granted, Redeemed, Negotiate, LinkFails, GatewayFails
    <3> QED
      BY <3>1, VoiceTypes
  <2>5. /\ tabs' \in [Tabs -> Tab]
        /\ \A t \in Tabs : tabs'[t].epoch <= epoch'
    <3>1. TabMove
      BY <1>1, TabsMove
    <3>2. /\ tabs \in [Tabs -> Tab] /\ epoch \in Nat /\ epoch' \in Nat
          /\ \A t \in Tabs : tabs[t].epoch \in Nat /\ tabs[t].epoch <= epoch
      BY <2>1, VoiceTypes DEF VoiceTypeOK, Tab, TokensTyped
    <3>3. CASE UNCHANGED tabs
      BY <2>1, <3>2, <3>3
    <3>4. ASSUME NEW t \in Tabs, NEW voice \in VoiceState, NEW current \in Ref,
                 NEW microphone \in Ref, NEW realtime \in Ref, NEW e \in 0..epoch,
                 TabBecomes(t, voice, current, microphone, realtime, e)
          PROVE  /\ tabs' \in [Tabs -> Tab]
                 /\ \A u \in Tabs : tabs'[u].epoch <= epoch'
      <4>1. ASSUME NEW u \in Tabs
            PROVE  tabs'[u].epoch \in Nat /\ tabs'[u].epoch <= epoch
        BY <3>2, <3>4 DEF TabBecomes
      <4> QED
        BY <2>1, <3>2, <3>4, <4>1 DEF TabBecomes
    <3> QED
      BY <3>1, <3>3, <3>4 DEF TabMove
  <2>6. faults' \in 0..MaxFaults
    <3>1. UNCHANGED faults \/ (faults < MaxFaults /\ faults' = faults + 1)
      <4>1. CASE GatewayFails
        BY <4>1 DEF GatewayFails, Expire, CallFails, Repeat
      <4>2. CASE \E a \in Attempts : Gateway(a)
        BY <4>2 DEF Gateway, TokenStep, IssueToken, StoreToken, LoadForResume,
           TakeToken, CheckEpoch
      <4>3. CASE \E t \in Tabs : \/ \E a \in Attempts : StartVoice(t, a)
                                 \/ StopVoice(t) \/ ShowSnapshot(t)
        BY <4>3 DEF StartVoice, StopVoice, ShowSnapshot, tokenVars
      <4>4. CASE \E a \in Attempts :
                   \/ MicrophoneGranted(a) \/ MicrophoneDenied(a) \/ Unheard(a)
                   \/ Refused(a) \/ Granted(a) \/ Redeemed(a) \/ Negotiate(a)
                   \/ LinkFails(a)
        BY <4>4 DEF MicrophoneGranted, MicrophoneDenied, Unheard, Refused,
           Granted, Redeemed, Negotiate, LinkFails, tokenVars
      <4> QED
        BY <1>1, <4>1, <4>2, <4>3, <4>4 DEF Next, Proceed
    <3> QED
      BY <3>1, VoiceTypes, TokenAssumption
  <2> QED
    BY <2>1, <2>2, <2>3, <2>4, <2>5, <2>6
       DEF VoiceTypeOK, TokenTypeOK, TokensTyped, Waits, TabOf
<1>2. CASE UNCHANGED vars
  BY <1>2 DEF vars, tokenVars, VoiceTypeOK, TokenTypeOK, Waits, TabOf, Is
<1> QED
  BY <1>1, <1>2

-----------------------------------------------------------------------------
(* What they know of each other stays true.                                *)

\* The call of attempt c, and no other, goes there.
CallTo(c, at) ==
  \A d \in Attempts : calls'[d].at = IF d = c THEN at ELSE calls[d].at

LEMMA CallsTo ==
  ASSUME VoiceTypeOK, NEW c \in Attempts
  PROVE  /\ \A at \in States : Go(c, at) => CallTo(c, at)
         /\ Dismiss(c) => CallTo(c, "none")
         /\ \A prev : CallIssue(c, prev) => CallTo(c, "issue")
<1>1. calls \in [Attempts -> Call]
  BY VoiceTypes
<1>2. ASSUME NEW at \in States, Go(c, at)
      PROVE  CallTo(c, at)
  BY <1>1, <1>2, CallGoes DEF CallTo
<1>3. Dismiss(c) => CallTo(c, "none")
  BY <1>1 DEF Dismiss, NoCall, CallTo
<1>4. ASSUME NEW prev, CallIssue(c, prev)
      PROVE  CallTo(c, "issue")
  <2> DEFINE call == [NoCall EXCEPT !.at = "issue", !.prev = prev]
  <2>1. calls' = [calls EXCEPT ![c] = call] /\ call.at = "issue"
    BY <1>4 DEF CallIssue, NoCall
  <2> HIDE DEF call
  <2> QED
    BY <1>1, <2>1 DEF CallTo
<1> QED
  BY <1>2, <1>3, <1>4

\* Where the gateway takes a call.
LEMMA GatewayKeepsClass ==
  ASSUME VoiceTypeOK, NEW c \in Attempts, TokenStep(c)
  PROVE  \E at \in States :
           /\ CallTo(c, at)
           /\ \/ /\ calls[c].at \in ForGrant
                 /\ at \in ForGrant \cup {"refused"}
              \/ /\ calls[c].at \in ForRedemption
                 /\ at \in ForRedemption \cup {"refused"}
<1> USE DEF States, ForGrant, ForRedemption
<1>1. CASE IssueToken(c) /\ EpochExpected(c)
  <2>1. /\ calls'[c].at = "store"
        /\ \A d \in Attempts : d # c => calls'[d] = calls[d]
    BY <1>1, VoiceTypes, IssueStep
  <2>2. CallTo(c, "store")
    BY <2>1 DEF CallTo
  <2> QED
    BY <1>1, <2>2 DEF IssueToken, Is
<1>2. CASE IssueToken(c) /\ ~EpochExpected(c)
  BY <1>2, CallsTo DEF IssueToken, Is
<1>3. CASE StoreToken(c)
  BY <1>3, CallsTo DEF StoreToken, Is
<1>4. CASE LoadForResume(c)
  <2>1. /\ calls'[c].at = "granted"
        /\ \A d \in Attempts : d # c => calls'[d] = calls[d]
    BY <1>4, VoiceTypes, LoadStep
  <2>2. CallTo(c, "granted")
    BY <2>1 DEF CallTo
  <2> QED
    BY <1>4, <2>2 DEF LoadForResume, Is
<1>5. CASE TakeToken(c)
  BY <1>5, CallsTo DEF TakeToken, Is
<1>6. CASE CheckEpoch(c)
  BY <1>6, CallsTo DEF CheckEpoch, Is
<1> QED
  BY <1>1, <1>2, <1>3, <1>4, <1>5, <1>6 DEF TokenStep

LEMMA AwaitedStep ==
  ASSUME VoiceTypeOK, CallsAwaited, LinksHeld, Next
  PROVE  CallsAwaited'
<1> USE DEF CallsAwaited, Waits
<1>1. \A a \in Attempts :
        attempts[a].waits \in {"microphone", "link"} \/ Open(a) =>
          calls[a].at \notin ForGrant \cup ForRedemption \cup {"refused"}
  BY DEF LinksHeld, ForGrant, ForRedemption
<1>2. ASSUME NEW a \in Attempts, NEW at \in States, CallTo(a, at),
             UNCHANGED attempts,
             \/ at \in ForGrant /\ attempts[a].waits = "grant"
             \/ at \in ForRedemption /\ attempts[a].waits \in {"redemption", "no"}
             \/ at = "refused" /\ attempts[a].waits \in {"grant", "redemption", "no"}
             \/ at = "none"
      PROVE  CallsAwaited'
  BY <1>2 DEF CallTo, ForGrant, ForRedemption
<1>3. CASE UNCHANGED <<calls, attempts>>
  BY <1>3
<1>4. ASSUME NEW a \in Attempts, Gateway(a)
      PROVE  CallsAwaited'
  <2>1. "refused" \in States
    BY DEF States
  <2> QED
    BY <1>2, <1>4, <2>1, GatewayKeepsClass DEF Gateway
<1>5. ASSUME NEW a \in Attempts, Unheard(a)
      PROVE  CallsAwaited'
  <2>1. "none" \in States
    BY DEF States
  <2> QED
    BY <1>2, <1>5, <2>1, CallsTo DEF Unheard
<1>6. CASE GatewayFails
  <2>1. CASE Expire
    BY <1>3, <1>6, <2>1 DEF GatewayFails, Expire
  <2>2. ASSUME NEW a \in Attempts, CallFails(a)
        PROVE  CallsAwaited'
    <3>1. /\ CallTo(a, "refused") /\ "refused" \in States
          /\ calls[a].at \in ForGrant \cup ForRedemption
      BY <2>2, CallsTo, VoiceTypes
         DEF CallFails, States, Call, ForGrant, ForRedemption
    <3> QED
      BY <1>2, <1>6, <3>1 DEF GatewayFails
  <2>3. ASSUME NEW a \in Attempts, NEW b \in Attempts, Waits(a, "no"), Repeat(a, b)
        PROVE  CallsAwaited'
    <3> DEFINE call == [NoCall EXCEPT !.at = "take", !.epoch = calls[b].epoch]
    <3>1. calls' = [calls EXCEPT ![a] = call] /\ call.at = "take"
      BY <2>3 DEF Repeat, NoCall
    <3> HIDE DEF call
    <3>2. CallTo(a, "take") /\ "take" \in States /\ "take" \in ForRedemption
      BY <3>1, VoiceTypes DEF CallTo, States, ForRedemption
    <3> QED
      BY <1>2, <1>6, <2>3, <3>2 DEF GatewayFails
  <2> QED
    BY <1>6, <2>1, <2>2, <2>3 DEF GatewayFails
<1>7. ASSUME NEW t \in Tabs, NEW a \in Attempts, StartVoice(t, a)
      PROVE  CallsAwaited'
  <2>1. AttemptBecomes(a, "microphone", t) /\ UNCHANGED calls /\ calls[a].at = "none"
    BY <1>7, AttemptMoves DEF StartVoice, tokenVars, Is
  <2> QED
    BY <2>1 DEF AttemptBecomes, ForGrant, ForRedemption
<1>8. ASSUME NEW a \in Attempts, AttemptBecomes(a, "no", None), UNCHANGED calls,
             attempts[a].waits \in {"microphone", "link"} \/ Open(a)
      PROVE  CallsAwaited'
  BY <1>1, <1>8 DEF AttemptBecomes
<1>9. ASSUME NEW a \in Attempts, NEW for \in {"no", "grant", "redemption", "link"},
             NEW at \in States, NEW tab, AttemptBecomes(a, for, tab), CallTo(a, at),
             \/ at = "none"
             \/ at \in ForGrant /\ for = "grant"
             \/ at \in ForRedemption /\ for = "redemption"
      PROVE  CallsAwaited'
  BY <1>9 DEF AttemptBecomes, CallTo, ForGrant, ForRedemption
<1>10. /\ {"none", "issue", "take"} \subseteq States /\ "issue" \in ForGrant
       /\ "take" \in ForRedemption
  BY DEF States, ForGrant, ForRedemption
<1>11. ASSUME NEW a \in Attempts, MicrophoneGranted(a) \/ MicrophoneDenied(a)
       PROVE  CallsAwaited'
  <2>1. CASE Ends(a) /\ UNCHANGED calls
    BY <1>8, <1>11, <2>1, AttemptMoves DEF MicrophoneGranted, MicrophoneDenied
  <2>2. CASE CallIssue(a, tabs[TabOf(a)].epoch) /\ WaitFor(a, "grant")
    BY <1>9, <1>10, <2>2, AttemptMoves, CallsTo
  <2> QED
    BY <1>11, <2>1, <2>2 DEF MicrophoneGranted, MicrophoneDenied, tokenVars
<1>12. ASSUME NEW a \in Attempts, Ends(a), Dismiss(a)
       PROVE  CallsAwaited'
  BY <1>9, <1>10, <1>12, AttemptMoves, CallsTo
<1>13. ASSUME NEW a \in Attempts, Granted(a)
       PROVE  CallsAwaited'
  <2>1. CASE CallRedeem(a) /\ WaitFor(a, "redemption")
    BY <1>9, <1>10, <2>1, AttemptMoves, CallsTo DEF CallRedeem
  <2> QED
    BY <1>12, <1>13, <2>1 DEF Granted
<1>14. ASSUME NEW a \in Attempts, Refused(a)
       PROVE  CallsAwaited'
  BY <1>12, <1>14 DEF Refused
<1>15. ASSUME NEW a \in Attempts, Redeemed(a)
       PROVE  CallsAwaited'
  <2>1. CASE Dismiss(a) /\ WaitFor(a, "link")
    BY <1>9, <1>10, <2>1, AttemptMoves, CallsTo
  <2> QED
    BY <1>12, <1>15, <2>1 DEF Redeemed
<1>16. ASSUME NEW a \in Attempts, LinkFails(a)
       PROVE  CallsAwaited'
  BY <1>8, <1>16, AttemptMoves DEF LinkFails
<1>17. ASSUME NEW t \in Tabs, StopVoice(t)
       PROVE  CallsAwaited'
  <2>1. /\ UNCHANGED calls
        /\ \A a \in Attempts :
             attempts'[a] = attempts[a] \/ (Open(a) /\ attempts'[a].waits = "no")
    BY <1>17 DEF StopVoice, tokenVars, NoAttempt
  <2> QED
    BY <1>1, <2>1
<1>18. CASE \/ \E t \in Tabs : ShowSnapshot(t)
            \/ \E a \in Attempts : Negotiate(a)
  BY <1>3, <1>18 DEF ShowSnapshot, Negotiate, tokenVars
<1> QED
  BY <1>4, <1>5, <1>6, <1>7, <1>11, <1>13, <1>14, <1>15, <1>16, <1>17, <1>18
     DEF Next, Proceed

\* The current attempt of a tab is in no other tab.
LEMMA CurrentOnce ==
  ASSUME VoiceTypeOK, TabsHold
  PROVE  \A t, u \in Tabs :
           tabs[t].current = tabs[u].current /\ tabs[t].current # None => t = u
BY DEF TabsHold, TabOf

\* An attempt that its tab has given up holds nothing.
LEMMA OvertakenHoldsNothing ==
  ASSUME VoiceTypeOK, Held, NEW a \in Attempts, Overtaken(a)
  PROVE  /\ a \notin microphones /\ ~Open(a)
         /\ \A t \in Tabs : tabs[t].current # a
<1>1. a # None
  BY NoneAssumption
<1>2. \A t \in Tabs : tabs[t].current # a
  BY <1>1 DEF Held, TabsHold, Overtaken
<1> QED
  BY <1>2 DEF Held, MicrophonesHeld, LinksHeld

LEMMA OvertakenEnds ==
  ASSUME VoiceTypeOK, Held, NEW a \in Attempts, Overtaken(a),
         AttemptBecomes(a, "no", None), UNCHANGED <<links, microphones, tabs>>
  PROVE  Held'
<1>1. /\ a \notin microphones /\ ~Open(a)
      /\ \A t \in Tabs : tabs[t].current # a
  BY OvertakenHoldsNothing
<1>2. \A t \in Tabs : tabs[t].current \in Attempts \cup {None}
  BY VoiceTypes DEF Tab, Ref
<1>3. microphones \subseteq Attempts
  BY VoiceTypes
<1>4. TabsHold'
  BY <1>1, <1>2 DEF Held, TabsHold, AttemptBecomes, Waits, TabOf
<1>5. MicrophonesHeld'
  BY <1>1, <1>3 DEF Held, MicrophonesHeld, AttemptBecomes
<1>6. LinksHeld'
  BY <1>1 DEF Held, LinksHeld, AttemptBecomes, Waits, Open
<1>7. LiveConnected'
  BY DEF Held, LiveConnected, At
<1> QED
  BY <1>4, <1>5, <1>6, <1>7 DEF Held

\* A tab lets its current attempt go, which ends.
LEMMA CurrentEnds ==
  ASSUME VoiceTypeOK, Held, NEW a \in Attempts, NEW t \in Tabs,
         tabs[t].current = a, AttemptBecomes(a, "no", None),
         ShowError(t), microphones' = microphones \ {a},
         links' \in [Attempts -> Link], ~Open(a)',
         \A b \in Attempts : b # a => links'[b] = links[b]
  PROVE  Held'
<1>1. /\ tabs'[t].voice = "error" /\ tabs'[t].current = None
      /\ tabs'[t].microphone = None /\ tabs'[t].realtime = None
      /\ \A u \in Tabs : u # t => tabs'[u] = tabs[u]
  BY TabMoves DEF TabBecomes
<1>2. a # None /\ \A u \in Tabs : tabs[u].current \in Attempts \cup {None}
  BY VoiceTypes, NoneAssumption DEF Tab, Ref
<1>3. \A u \in Tabs : u # t => tabs[u].current # a
  BY <1>2, CurrentOnce DEF Held
<1>4. microphones \subseteq Attempts
  BY VoiceTypes
<1>5. TabsHold'
  BY <1>1, <1>2, <1>3 DEF Held, TabsHold, AttemptBecomes, Waits, TabOf
<1>6. MicrophonesHeld'
  BY <1>1, <1>3, <1>4 DEF Held, MicrophonesHeld, AttemptBecomes
<1>7. LinksHeld'
  BY <1>1, <1>3 DEF Held, LinksHeld, AttemptBecomes, Waits, Open
<1>8. LiveConnected'
  BY <1>1, <1>2, <1>3 DEF Held, TabsHold, LiveConnected, At
<1> QED
  BY <1>5, <1>6, <1>7, <1>8 DEF Held

LEMMA StartHeld ==
  ASSUME VoiceTypeOK, Held, NEW t \in Tabs, NEW a \in Attempts, StartVoice(t, a)
  PROVE  Held'
<1>1. /\ tabs[t].current = None /\ a # None
      /\ \A u \in Tabs : tabs[u].current \in Attempts \cup {None}
  BY VoiceTypes, NoneAssumption DEF StartVoice, Held, TabsHold, Tab, Ref
<1>2. /\ tabs'[t].voice = "requesting" /\ tabs'[t].current = a
      /\ tabs'[t].microphone = None /\ tabs'[t].realtime = None
      /\ \A u \in Tabs : u # t => tabs'[u] = tabs[u]
  BY <1>1, AttemptTabMoves DEF TabBecomes, Held, TabsHold
<1>3. AttemptBecomes(a, "microphone", t)
  BY AttemptMoves
<1>4. /\ ~Open(a) /\ attempts[a].waits = "no"
      /\ \A u \in Tabs : tabs[u].current # a
      /\ UNCHANGED <<links, microphones>> /\ microphones \subseteq Attempts
  BY VoiceTypes DEF StartVoice, Waits
<1>5. TabsHold'
  BY <1>1, <1>2, <1>3, <1>4 DEF Held, TabsHold, AttemptBecomes, Waits, TabOf
<1>6. MicrophonesHeld'
  BY <1>1, <1>2, <1>3, <1>4, NoneAssumption
     DEF Held, MicrophonesHeld, AttemptBecomes
<1>7. LinksHeld'
  BY <1>1, <1>2, <1>3, <1>4, NoneAssumption
     DEF Held, LinksHeld, AttemptBecomes, Waits, Open
<1>8. LiveConnected'
  BY <1>2, <1>4 DEF Held, LiveConnected, At
<1> QED
  BY <1>5, <1>6, <1>7, <1>8 DEF Held

LEMMA StopHeld ==
  ASSUME VoiceTypeOK, Held, NEW t \in Tabs, StopVoice(t)
  PROVE  Held'
<1>1. /\ tabs'[t].voice = "idle" /\ tabs'[t].current = None
      /\ tabs'[t].microphone = None /\ tabs'[t].realtime = None
      /\ \A u \in Tabs : u # t => tabs'[u] = tabs[u]
  BY TabMoves DEF TabBecomes
<1>2. /\ \A a \in Attempts : a = tabs[t].realtime /\ Open(a) =>
             links'[a] = NoLink /\ attempts'[a] = NoAttempt
      /\ \A a \in Attempts : ~(a = tabs[t].realtime /\ Open(a)) =>
             links'[a] = links[a] /\ attempts'[a] = attempts[a]
  BY DEF StopVoice
<1>3. \A u \in Tabs : tabs[u].current \in Attempts \cup {None}
  BY VoiceTypes DEF Tab, Ref
<1>4. \A u \in Tabs : u # t /\ tabs[u].current # None =>
        tabs[u].current \notin {tabs[t].realtime, tabs[t].microphone}
  BY <1>3, CurrentOnce DEF Held, TabsHold
<1>5. TabsHold'
  BY <1>1, <1>2, <1>3, <1>4 DEF Held, TabsHold, Waits, TabOf
<1>6. MicrophonesHeld'
  <2>1. microphones' = microphones \ {tabs[t].realtime, tabs[t].microphone}
        /\ microphones \subseteq Attempts
    BY VoiceTypes DEF StopVoice, StoppedMicrophones
  <2> QED
    BY <1>1, <1>2, <2>1 DEF Held, MicrophonesHeld
<1>7. LinksHeld'
  <2>1. NoLink.step = "none"
    BY DEF NoLink
  <2> QED
    BY <1>1, <1>2, <2>1 DEF Held, LinksHeld, Waits, Open
<1>8. LiveConnected'
  BY <1>1, <1>2, <1>3, <1>4 DEF Held, TabsHold, LiveConnected, At
<1> QED
  BY <1>5, <1>6, <1>7, <1>8 DEF Held

\* The microphone, the grant and the redemption of the current attempt.
LEMMA MicrophoneHeld ==
  ASSUME VoiceTypeOK, Held, NEW a \in Attempts, MicrophoneGranted(a),
         ~Overtaken(a), NEW t \in Tabs, TabOf(a) = t
  PROVE  Held'
<1>1. /\ attempts[a].waits = "microphone" /\ a # None
      /\ \A u \in Tabs : tabs[u].current \in Attempts \cup {None}
  BY VoiceTypes, NoneAssumption DEF MicrophoneGranted, Waits, Tab, Ref
<1>2. /\ tabs'[t].voice = tabs[t].voice /\ tabs'[t].current = a
      /\ tabs'[t].microphone = a /\ tabs'[t].realtime = tabs[t].realtime
      /\ tabs[t].current = a /\ \A u \in Tabs : u # t => tabs'[u] = tabs[u]
  BY AttemptTabMoves DEF TabBecomes, Overtaken
<1>3. AttemptBecomes(a, "grant", t)
  BY AttemptMoves DEF MicrophoneGranted
<1>4. microphones' = microphones \cup {a} /\ UNCHANGED links
      /\ microphones \subseteq Attempts
  BY VoiceTypes DEF MicrophoneGranted
<1>5. TabsHold'
  BY <1>1, <1>2, <1>3 DEF Held, TabsHold, AttemptBecomes, Waits, TabOf
<1>6. MicrophonesHeld'
  BY <1>1, <1>2, <1>3, <1>4 DEF Held, MicrophonesHeld, AttemptBecomes
<1>7. LinksHeld'
  BY <1>1, <1>2, <1>3, <1>4 DEF Held, LinksHeld, AttemptBecomes, Waits, Open
<1>8. LiveConnected'
  BY <1>2, <1>4 DEF Held, LiveConnected, At
<1> QED
  BY <1>5, <1>6, <1>7, <1>8 DEF Held

LEMMA GrantHeld ==
  ASSUME VoiceTypeOK, CallsAwaited, Held, NEW a \in Attempts, Granted(a),
         ~Overtaken(a), NEW t \in Tabs, TabOf(a) = t
  PROVE  Held'
<1>1. /\ attempts[a].waits = "grant" /\ tabs[t].current = a
      /\ \A u \in Tabs : tabs[u].current \in Attempts \cup {None}
  BY VoiceTypes, GrantAwaited DEF Waits, Overtaken, Tab, Ref
<1>2. /\ tabs'[t].voice = tabs[t].voice /\ tabs'[t].current = tabs[t].current
      /\ tabs'[t].microphone = tabs[t].microphone
      /\ tabs'[t].realtime = tabs[t].realtime
      /\ \A u \in Tabs : u # t => tabs'[u] = tabs[u]
  BY AttemptTabMoves DEF TabBecomes
<1>3. AttemptBecomes(a, "redemption", t)
  BY AttemptMoves DEF Granted
<1>4. UNCHANGED <<microphones, links>> /\ microphones \subseteq Attempts
  BY VoiceTypes DEF Granted
<1>5. TabsHold'
  BY <1>1, <1>2, <1>3 DEF Held, TabsHold, AttemptBecomes, Waits, TabOf
<1>6. MicrophonesHeld'
  BY <1>1, <1>2, <1>3, <1>4 DEF Held, MicrophonesHeld, AttemptBecomes
<1>7. LinksHeld'
  BY <1>1, <1>2, <1>3, <1>4 DEF Held, LinksHeld, AttemptBecomes, Waits, Open
<1>8. LiveConnected'
  BY <1>2, <1>4 DEF Held, LiveConnected, At
<1> QED
  BY <1>5, <1>6, <1>7, <1>8 DEF Held

LEMMA RedemptionHeld ==
  ASSUME VoiceTypeOK, CallsAwaited, Held, NEW a \in Attempts, Redeemed(a),
         ~Overtaken(a), NEW t \in Tabs, TabOf(a) = t
  PROVE  Held'
<1>1. /\ attempts[a].waits = "redemption" /\ a # None
      /\ \A u \in Tabs : tabs[u].current \in Attempts \cup {None}
  BY VoiceTypes, NoneAssumption
     DEF Redeemed, CallsAwaited, ForRedemption, Is, Waits, Tab, Ref
<1>2. /\ tabs'[t].voice = "connecting" /\ tabs'[t].current = a
      /\ tabs'[t].microphone = None /\ tabs'[t].realtime = a
      /\ tabs[t].current = a /\ \A u \in Tabs : u # t => tabs'[u] = tabs[u]
  BY AttemptTabMoves DEF TabBecomes, Overtaken
<1>3. AttemptBecomes(a, "link", t)
  BY AttemptMoves DEF Redeemed
<1>4. /\ \A b \in Attempts : b # a => links'[b] = links[b]
      /\ UNCHANGED microphones /\ microphones \subseteq Attempts
  BY VoiceTypes DEF Redeemed, Opened
<1>5. \A u \in Tabs : u # t => tabs[u].current # a
  BY <1>1, <1>2, CurrentOnce DEF Held
<1>6. TabsHold'
  BY <1>1, <1>2, <1>3 DEF Held, TabsHold, AttemptBecomes, Waits, TabOf
<1>7. MicrophonesHeld'
  BY <1>1, <1>2, <1>3, <1>4 DEF Held, MicrophonesHeld, AttemptBecomes
<1>8. LinksHeld'
  BY <1>1, <1>2, <1>3, <1>4, <1>5
     DEF Held, LinksHeld, AttemptBecomes, Waits, Open
<1>9. LiveConnected'
  BY <1>1, <1>2, <1>4, <1>5 DEF Held, TabsHold, LiveConnected, At
<1> QED
  BY <1>6, <1>7, <1>8, <1>9 DEF Held

\* A link that is open stays open while it negotiates, and connected.
LEMMA LinkGoesOn ==
  ASSUME VoiceTypeOK, NEW a \in Attempts, LinkStep(a)
  PROVE  /\ Open(a) /\ ~At(a, "connected")
         /\ \A b \in Attempts : b # a => links'[b] = links[b]
<1>1. links \in [Attempts -> Link]
  BY VoiceTypes
<1> QED
  BY <1>1 DEF LinkStep, MakeOffer, TakeOffer, MakeAnswer, TakeAnswer,
     FindCandidate, Searching, Connects, At, Open

LEMMA NegotiationHeld ==
  ASSUME VoiceTypeOK, Held, NEW a \in Attempts, Negotiate(a)
  PROVE  Held'
<1>1. /\ Open(a) /\ ~At(a, "connected")
      /\ \A b \in Attempts : b # a => links'[b] = links[b]
      /\ UNCHANGED <<attempts, microphones>>
  BY LinkGoesOn DEF Negotiate
<1>2. PICK t \in Tabs : tabs[t].current = a /\ tabs[t].realtime = a
  BY <1>1 DEF Held, LinksHeld
<1>3. TabOf(a) = t /\ a # None
  BY <1>2, NoneAssumption DEF Held, TabsHold
<1>4. /\ \A u \in Tabs :
           /\ tabs'[u].current = tabs[u].current
           /\ tabs'[u].microphone = tabs[u].microphone
           /\ tabs'[u].realtime = tabs[u].realtime
           /\ u # t => tabs'[u] = tabs[u]
      /\ \/ tabs'[t].voice = tabs[t].voice
         \/ tabs'[t].voice = "live" /\ links'[a].step = "connected"
  BY <1>3, AttemptTabMoves DEF TabBecomes
<1>5. \A u \in Tabs : tabs[u].current \in Attempts \cup {None}
  BY VoiceTypes DEF Tab, Ref
<1>6. \A u \in Tabs : u # t => tabs[u].current # a
  BY <1>2, <1>3, CurrentOnce DEF Held
<1>7. TabsHold'
  <2>1. tabs'[t].voice \notin {"idle", "error"}
    BY <1>2, <1>3, <1>4 DEF Held, TabsHold
  <2> QED
    BY <1>1, <1>2, <1>3, <1>4, <2>1 DEF Held, TabsHold, Waits, TabOf
<1>8. MicrophonesHeld'
  BY <1>1, <1>4 DEF Held, MicrophonesHeld
<1>9. LinksHeld'
  BY <1>1, <1>4 DEF Held, LinksHeld, Waits, Open
<1>10. LiveConnected'
  BY <1>1, <1>2, <1>4, <1>5, <1>6 DEF Held, TabsHold, LiveConnected, At
<1> QED
  BY <1>7, <1>8, <1>9, <1>10 DEF Held

LEMMA FailureHeld ==
  ASSUME VoiceTypeOK, Held, NEW a \in Attempts, LinkFails(a)
  PROVE  Held'
<1>1. PICK t \in Tabs : tabs[t].current = a
  BY DEF LinkFails, Held, LinksHeld
<1>2. TabOf(a) = t
  BY <1>1, NoneAssumption DEF Held, TabsHold
<1>3. ShowError(t) /\ microphones' = microphones \ {a}
  BY <1>1, <1>2 DEF LinkFails, Overtaken
<1>4. /\ links' \in [Attempts -> Link] /\ ~Open(a)'
      /\ \A b \in Attempts : b # a => links'[b] = links[b]
  BY VoiceTypes DEF LinkFails, Closed, NoLink, Link, Steps, Open
<1>5. AttemptBecomes(a, "no", None)
  BY AttemptMoves DEF LinkFails
<1> QED
  BY <1>1, <1>3, <1>4, <1>5, CurrentEnds

LEMMA HeldStep ==
  ASSUME VoiceTypeOK, CallsAwaited, Held, Next
  PROVE  Held'
<1>1. CASE UNCHANGED <<links, attempts, microphones, tabs>>
  BY <1>1 DEF Held, TabsHold, MicrophonesHeld, LinksHeld, LiveConnected,
     Waits, TabOf, Open, At
<1>2. ASSUME NEW a \in Attempts, Gateway(a) \/ Unheard(a)
      PROVE  Held'
  BY <1>1, <1>2 DEF Gateway, Unheard
<1>3. CASE GatewayFails
  BY <1>1, <1>3 DEF GatewayFails
<1>4. ASSUME NEW t \in Tabs, ShowSnapshot(t)
      PROVE  Held'
  <2>1. /\ \A u \in Tabs :
             /\ tabs'[u].voice = tabs[u].voice
             /\ tabs'[u].current = tabs[u].current
             /\ tabs'[u].microphone = tabs[u].microphone
             /\ tabs'[u].realtime = tabs[u].realtime
        /\ UNCHANGED <<links, attempts, microphones>>
    BY <1>4, TabMoves DEF TabBecomes, ShowSnapshot
  <2> QED
    BY <2>1 DEF Held, TabsHold, MicrophonesHeld, LinksHeld, LiveConnected,
       Waits, TabOf, Open, At
<1>5. ASSUME NEW a \in Attempts, Ends(a), Overtaken(a),
             UNCHANGED <<links, microphones, tabs>>
      PROVE  Held'
  BY <1>5, AttemptMoves, OvertakenEnds
<1>6. ASSUME NEW a \in Attempts, MicrophoneGranted(a)
      PROVE  Held'
  <2>1. TabOf(a) \in Tabs
    BY <1>6, VoiceTypes DEF MicrophoneGranted, Waits
  <2> QED
    BY <1>5, <1>6, <2>1, MicrophoneHeld DEF MicrophoneGranted
<1>7. ASSUME NEW a \in Attempts, Granted(a)
      PROVE  Held'
  BY <1>5, <1>7, GrantAwaited, GrantHeld DEF Granted
<1>8. ASSUME NEW a \in Attempts, Redeemed(a)
      PROVE  Held'
  <2>1. TabOf(a) \in Tabs
    BY <1>8, VoiceTypes DEF Redeemed
  <2>2. CASE Overtaken(a)
    BY <1>5, <1>8, <2>2 DEF Redeemed
  <2>3. CASE ~Overtaken(a)
    BY <1>8, <2>1, <2>3, RedemptionHeld
  <2> QED
    BY <2>2, <2>3
<1>9. ASSUME NEW a \in Attempts, MicrophoneDenied(a) \/ Refused(a)
      PROVE  Held'
  <2>1. TabOf(a) \in Tabs /\ UNCHANGED links /\ Ends(a)
    BY <1>9, VoiceTypes DEF MicrophoneDenied, Refused, Waits
  <2>2. attempts[a].waits # "link"
    BY <1>9 DEF MicrophoneDenied, Refused, CallsAwaited, Waits, Is
  <2>3. ~Open(a) /\ ~Open(a)'
    BY <2>1, <2>2 DEF Held, LinksHeld, Waits, Open
  <2>4. CASE Overtaken(a)
    BY <1>5, <1>9, <2>1, <2>4 DEF MicrophoneDenied, Refused
  <2>5. CASE ~Overtaken(a)
    <3>1. tabs[TabOf(a)].current = a /\ ShowError(TabOf(a))
      BY <1>9, <2>5 DEF MicrophoneDenied, Refused, Overtaken
    <3>2. microphones' = microphones \ {a}
      BY <1>9, <2>5 DEF MicrophoneDenied, Refused, Waits, Held, MicrophonesHeld
    <3>3. AttemptBecomes(a, "no", None) /\ links' \in [Attempts -> Link]
      BY <2>1, AttemptMoves, VoiceTypes
    <3> QED
      BY <2>1, <2>3, <3>1, <3>2, <3>3, CurrentEnds
  <2> QED
    BY <2>4, <2>5
<1> QED
  BY <1>2, <1>3, <1>4, <1>6, <1>7, <1>8, <1>9, StartHeld, StopHeld,
     NegotiationHeld, FailureHeld DEF Next, Proceed

-----------------------------------------------------------------------------
(* Theorems.                                                               *)

LEMMA VoiceInit ==
  ASSUME Init
  PROVE  VoiceInv
<1>1. NoCall \in Call /\ NoCall.at = "none" /\ NoCall.epoch = 0 /\ NoCall.seen = 0
  BY NoCallTyped
<1>2. /\ NoLink \in Link /\ NoLink.step = "none"
      /\ NoAttempt \in Attempt /\ NoAttempt.waits = "no"
  BY DEF NoLink, Link, Steps, NoAttempt, Attempt
<1>3. /\ epoch = 0 /\ tokens = {} /\ grants = <<>> /\ faults = 0
      /\ microphones = {}
      /\ \A a \in Attempts : calls[a] = NoCall /\ links[a] = NoLink
                             /\ attempts[a] = NoAttempt
      /\ \A t \in Tabs : /\ tabs[t].voice = "idle" /\ tabs[t].current = None
                         /\ tabs[t].microphone = None
                         /\ tabs[t].realtime = None /\ tabs[t].epoch = 0
  BY DEF Init, TokenInit, LinksInit
<1>4. VoiceTypeOK
  <2>1. TokenTypeOK
    <3>1. calls \in [Attempts -> Call] /\ grants \in Seq(Nat)
      BY <1>1 DEF Init, TokenInit
    <3>2. 0 \in 0..MaxFaults
      BY TokenAssumption
    <3> QED
      BY <1>1, <1>3, <3>1, <3>2 DEF TokenTypeOK, Is
  <2>2. links \in [Attempts -> Link] /\ attempts \in [Attempts -> Attempt]
    BY <1>2 DEF Init, LinksInit
  <2>3. tabs \in [Tabs -> Tab]
    BY DEF Init, Tab, VoiceState, Ref
  <2> QED
    BY <1>2, <1>3, <2>1, <2>2, <2>3 DEF VoiceTypeOK, Waits
<1>5. CarriedInv
  BY <1>1, <1>3 DEF CarriedInv, CarriedOnce, GrantedOnce, GrantsInOrder,
     Carries, Carrying
<1>6. CallsAwaited
  BY <1>1, <1>3 DEF CallsAwaited, ForGrant, ForRedemption
<1>7. Held
  BY <1>2, <1>3 DEF Held, TabsHold, MicrophonesHeld, LinksHeld, LiveConnected,
     Open
<1> QED
  BY <1>4, <1>5, <1>6, <1>7 DEF VoiceInv

LEMMA VoiceStep ==
  ASSUME VoiceInv, [Next]_vars
  PROVE  VoiceInv'
<1>1. VoiceTypeOK'
  BY VoiceTypedStep DEF VoiceInv
<1>2. CASE Next
  <2>1. CarriedInv'
    BY <1>2, VoiceMoves, VoiceTypes, CarriedStep DEF VoiceInv
  <2>2. CallsAwaited'
    BY <1>2, AwaitedStep DEF VoiceInv, Held
  <2>3. Held'
    BY <1>2, HeldStep DEF VoiceInv
  <2> QED
    BY <1>1, <2>1, <2>2, <2>3 DEF VoiceInv
<1>3. CASE UNCHANGED vars
  <2>1. UNCHANGED <<epoch, tokens, calls, grants, links, attempts,
                    microphones, tabs>>
    BY <1>3 DEF vars, tokenVars
  <2>2. CarriedInv'
    BY <2>1 DEF VoiceInv, CarriedInv, CarriedOnce, GrantedOnce,
       GrantsInOrder, Carries
  <2>3. CallsAwaited'
    BY <2>1 DEF VoiceInv, CallsAwaited, Waits
  <2>4. Held'
    BY <2>1 DEF VoiceInv, Held, TabsHold, MicrophonesHeld, LinksHeld,
       LiveConnected, Waits, TabOf, Open, At
  <2> QED
    BY <1>1, <2>2, <2>3, <2>4 DEF VoiceInv
<1> QED
  BY <1>2, <1>3

LEMMA VoiceInvariant == Spec => []VoiceInv
<1>1. Init => VoiceInv
  BY VoiceInit
<1>2. VoiceInv /\ [Next]_vars => VoiceInv'
  BY VoiceStep
<1> QED
  BY <1>1, <1>2, PTL DEF Spec

\* Types: no page names an epoch the session has not had, however snapshots
\* arrive late, and an attempt that waits has its page (App.tsx, realtime.py).
THEOREM VoiceTypeCorrect == Spec => []VoiceTypeOK
<1>1. VoiceInv => VoiceTypeOK
  BY DEF VoiceInv
<1> QED
  BY <1>1, VoiceInvariant, PTL

\* However many clients issue, redeem and repeat tokens, and wherever calls
\* fail between PostgreSQL and Redis (redeem_realtime_token), a token is
\* redeemed once and none is after a newer one.
THEOREM TokensGrantedInOrder == Spec => []GrantsInOrder
<1>1. VoiceInv => GrantsInOrder
  BY DEF VoiceInv, CarriedInv
<1> QED
  BY <1>1, VoiceInvariant, PTL

\* The microphone is on only for an attempt its page shows, in any number of
\* tabs and attempts given up at any await (startVoice, stopVoice).
THEOREM MicrophoneIsShown == Spec => []MicrophoneShown
<1>1. ASSUME VoiceInv
      PROVE  MicrophoneShown
  <2>1. ASSUME NEW a \in microphones, NEW t \in Tabs, tabs[t].current = a
        PROVE  tabs[t].voice \in {"requesting", "connecting", "live"}
    <3>1. a # None
      BY <1>1, NoneAssumption DEF VoiceInv, VoiceTypeOK
    <3>2. tabs[t].voice \in VoiceState
      BY <1>1, VoiceTypes DEF VoiceInv, Tab
    <3> QED
      BY <1>1, <2>1, <3>1, <3>2 DEF VoiceInv, Held, TabsHold, VoiceState
  <2> QED
    BY <1>1, <2>1 DEF VoiceInv, Held, MicrophonesHeld, MicrophoneShown
<1> QED
  BY <1>1, VoiceInvariant, PTL

\* A connection is open for the current attempt of a tab only, and "live" is a
\* connected one (the attempt !== voiceAttemptRef.current tests).
THEOREM LinkIsShown == Spec => []LinkShown
<1>1. VoiceInv => LinkShown
  BY DEF VoiceInv, Held, LinksHeld, LiveConnected, LinkShown
<1> QED
  BY <1>1, VoiceInvariant, PTL
=============================================================================
