---------------------------- MODULE MockRealtime -----------------------------
(***************************************************************************)
(* The mock transport of the voice connection (mockRealtime.ts): a browser *)
(* and a provider peer in one page, the steps of connect() between its     *)
(* awaits, and the ICE candidates each peer finds meanwhile, one for each. *)
(***************************************************************************)
EXTENDS Naturals

CONSTANT Links  \* connections that can exist at a time

VARIABLE links  \* createMockRealtimeConnection, once for each

\* connect() is about to do: add tracks and make the offer; set it as the
\* provider's remote description; answer; set the answer as the browser's.
Steps == {"none", "offer", "take_offer", "answer", "take_answer", "ready",
          "connected", "failed"}

\* A peer's own candidate: not found, queued, or added to the other peer.
Link == [step : Steps,
         browser : {"none", "queued", "added"},
         provider : {"none", "queued", "added"}]

NoLink  == [step |-> "none", browser |-> "none", provider |-> "none"]
NewLink == [NoLink EXCEPT !.step = "offer"]

LinksInit == links = [n \in Links |-> NoLink]

Open(n)  == links[n].step # "none"
Opened(n) == links' = [links EXCEPT ![n] = NewLink]
Closed(n) == links' = [links EXCEPT ![n] = NoLink]

At(n, step) == links[n].step = step

\* Candidates that were queued for a peer are added once it has its remote
\* description.
Flushed(candidate) == IF candidate = "queued" THEN "added" ELSE candidate

MakeOffer(n) ==
  /\ At(n, "offer")
  /\ links' = [links EXCEPT ![n].step = "take_offer"]

TakeOffer(n) ==
  /\ At(n, "take_offer")
  /\ links' = [links EXCEPT ![n].step = "answer", ![n].browser = Flushed(@)]

MakeAnswer(n) ==
  /\ At(n, "answer")
  /\ links' = [links EXCEPT ![n].step = "take_answer"]

TakeAnswer(n) ==
  /\ At(n, "take_answer")
  /\ links' = [links EXCEPT ![n].step = "ready", ![n].provider = Flushed(@)]

\* Mutant of Queues: no candidate waits for a description.
QueuesNone(n, peer) == FALSE

\* The other peer has no remote description yet.
Queues(n, peer) ==
  IF peer = "browser" THEN At(n, "take_offer") ELSE At(n, "take_answer")

\* Without a remote description addIceCandidate rejects.
Rejected(n, peer) ==
  /\ ~Queues(n, peer)
  /\ IF peer = "browser" THEN At(n, "take_offer") ELSE At(n, "take_answer")

\* A peer looks for candidates once its local description is set.
Searching(n, peer) ==
  IF peer = "browser"
  THEN links[n].step \in {"take_offer", "answer", "take_answer", "ready"}
  ELSE links[n].step \in {"take_answer", "ready"}

FindCandidate(n, peer) ==
  /\ Searching(n, peer) /\ links[n][peer] = "none"
  /\ links' = [links EXCEPT
       ![n].step = IF Rejected(n, peer) THEN "failed" ELSE @,
       ![n][peer] = IF Queues(n, peer) THEN "queued" ELSE "added"]

\* The peers reach each other.
Connects(n) ==
  /\ At(n, "ready")
  /\ links[n].browser = "added" /\ links[n].provider = "added"
  /\ links' = [links EXCEPT ![n].step = "connected"]

LinkStep(n) ==
  \/ MakeOffer(n)
  \/ TakeOffer(n)
  \/ MakeAnswer(n)
  \/ TakeAnswer(n)
  \/ FindCandidate(n, "browser")
  \/ FindCandidate(n, "provider")
  \/ Connects(n)
=============================================================================
