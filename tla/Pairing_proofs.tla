---------------------------- MODULE Pairing_proofs ----------------------------
(***************************************************************************)
(* What pairing by id gives, for any number of frames and ids: nothing     *)
(* goes past the decision, what is recorded of a call is its own and is    *)
(* recorded once, and a refusal is in the dialect the client speaks.       *)
(***************************************************************************)
EXTENDS Pairing, SequenceTheorems, FiniteSetTheorems, TLAPS

Fates    == {"sent", "dropped", "forwarded", "refused", "refused typed"}
Outcomes == {"none", "ok", "failed"}

\* The types of what the argument is about.
Typed ==
    /\ frames \in Seq(Frame) /\ Len(frames) <= MaxSent
    /\ reading \in Nat
    /\ inFlight \in [Ids -> Nat]
    /\ responding.of \in Nat
    /\ fate \in [1..MaxSent -> Fates]
    /\ answer \in [1..MaxSent -> Outcomes]
    /\ outcome \in [1..MaxSent -> Outcomes]

\* Where pumpRequests is: what it has not read is as it was sent, and what it
\* asks about is a call.
PumpInv ==
    /\ reading # 0 /\ reading <= Len(frames) + 1
    /\ \A n \in 1..MaxSent : n >= reading => fate[n] = "sent"
    /\ deciding \in {"ask", "refuse"} => reading \in Sent
    /\ deciding = "ask" => this.kind = "call"
    /\ deciding = "refuse" => this.kind \in Calls

\* Who is in flight: only a forwarded call without an answer, under its own id.
InFlightIsCall ==
    \A i \in Ids : inFlight[i] # 0 =>
        /\ inFlight[i] \in Sent
        /\ frames[inFlight[i]].id = i /\ frames[inFlight[i]].kind = "call"
        /\ fate[inFlight[i]] = "forwarded" /\ answer[inFlight[i]] = "none"

\* And unless its id is a reported duplicate, every such call.
CallIsInFlight ==
    \A n \in Sent :
        /\ frames[n].kind = "call" /\ frames[n].id \notin duplicates \cup {None}
        /\ fate[n] = "forwarded" /\ answer[n] = "none"
        => inFlight[frames[n].id] = n

\* While a call is decided, its id is free or reported.
AskedIsFree ==
    deciding = "ask" /\ this.id \notin duplicates \cup {None} => inFlight[this.id] = 0

\* What the client keeps to: only calls share an id.
OpenIdsDiffer ==
    \A m, n \in Sent :
        m # n /\ Open(m) /\ Open(n) /\ frames[m].id = frames[n].id =>
            {frames[m].kind, frames[n].kind} \subseteq Calls

\* Only what was forwarded is answered, and an unreadable call never is.
AnswersFollow ==
    \A n \in 1..MaxSent :
        /\ answer[n] # "none" => n \in Sent /\ fate[n] = "forwarded"
        /\ outcome[n] # "none" => n \in Sent /\ fate[n] = "forwarded"
        /\ n \in Sent /\ fate[n] = "forwarded" => frames[n].kind # "unreadable call"

PairInv ==
    /\ Typed /\ PumpInv
    /\ InFlightIsCall /\ CallIsInFlight /\ AskedIsFree /\ OpenIdsDiffer /\ AnswersFollow
    /\ OutcomeIsOwn

-----------------------------------------------------------------------------
(***************************************************************************)
(* The pump, step by step.                                                 *)
(***************************************************************************)

\* The parts of the invariant, and what they say of the numbers of frames.
LEMMA Parts ==
    ASSUME PairInv
    PROVE  /\ Typed /\ PumpInv /\ InFlightIsCall /\ CallIsInFlight /\ AskedIsFree
           /\ OpenIdsDiffer /\ AnswersFollow /\ OutcomeIsOwn
           /\ Sent \subseteq 1..MaxSent /\ Sent \subseteq Nat /\ 0 \notin Sent /\ MaxSent \in Nat
           /\ Len(frames) \in Nat
           /\ \A n \in Sent : frames[n] \in Frame /\ frames[n].id \in Ids \cup {None}
<1>1. Typed /\ frames \in Seq(Frame) /\ Len(frames) \in Nat /\ Len(frames) <= MaxSent
  BY DEF PairInv, Typed
<1>2. Sent \subseteq 1..MaxSent /\ Sent \subseteq Nat /\ 0 \notin Sent
  BY <1>1, PairingAssumption DEF Sent
<1>3. \A n \in Sent : frames[n] \in Frame
  BY <1>1, ElementOfSeq DEF Sent
<1>4. \A f \in Frame : f.id \in Ids \cup {None}
  BY DEF Frame
<1>5. QED
  BY <1>1, <1>2, <1>3, <1>4, PairingAssumption DEF PairInv

\* The pump leaves a frame that it does not forward, or that is no call.
LEMMA Leaving ==
    ASSUME PairInv, reading \in Sent, NEW what \in Fates, Becomes(what),
           what = "forwarded" => this.kind \notin Calls,
           UNCHANGED <<frames, inFlight, responding, answer, outcome, duplicates>>
    PROVE  PairInv'
<1> USE Parts
<1>1. /\ fate' = [fate EXCEPT ![reading] = what] /\ reading' = reading + 1 /\ deciding' = "read"
      /\ reading \in 1..MaxSent /\ reading \in Nat /\ Sent' = Sent
  BY DEF Becomes, Sent
<1>2. /\ fate'[reading] = what /\ fate[reading] = "sent"
      /\ \A n \in 1..MaxSent : n # reading => fate'[n] = fate[n]
  BY <1>1 DEF Typed, PumpInv
<1>3. Typed'
  BY <1>1 DEF Typed
<1>4. PumpInv'
  <2>1. reading' <= Len(frames') + 1
    BY <1>1 DEF Sent
  <2>2. QED
    BY <1>1, <1>2, <2>1 DEF PumpInv
<1>5. InFlightIsCall'
  BY <1>1, <1>2 DEF InFlightIsCall
<1>6. CallIsInFlight'
  BY <1>1, <1>2 DEF CallIsInFlight, Calls, this
<1>7. AskedIsFree'
  BY <1>1 DEF AskedIsFree
<1>8. OpenIdsDiffer'
  <2>1. \A k \in Sent : Open(k)' => Open(k)
    BY <1>1, <1>2 DEF Open
  <2>2. QED
    BY <1>1, <2>1 DEF OpenIdsDiffer
<1>9. AnswersFollow'
  <2>1. answer[reading] = "none" /\ outcome[reading] = "none"
    BY <1>1, <1>2 DEF AnswersFollow
  <2>2. QED
    BY <1>1, <1>2, <2>1 DEF AnswersFollow, Calls, this
<1>10. OutcomeIsOwn'
  BY <1>1 DEF OutcomeIsOwn
<1>11. QED
  BY <1>3, <1>4, <1>5, <1>6, <1>7, <1>8, <1>9, <1>10 DEF PairInv

\* The pump turns to refusing the call it is at.
LEMMA Refusing ==
    ASSUME PairInv, reading \in Sent, this.kind \in Calls, Refuses,
           UNCHANGED <<frames, inFlight, responding, answer, outcome, duplicates>>
    PROVE  PairInv'
<1> USE Parts
<1>1. deciding' = "refuse" /\ UNCHANGED <<reading, fate>> /\ Sent' = Sent /\ this' = this
  BY DEF Refuses, Sent, this
<1>2. Typed'
  BY <1>1 DEF Typed
<1>3. PumpInv'
  BY <1>1 DEF PumpInv
<1>4. InFlightIsCall' /\ CallIsInFlight' /\ AskedIsFree'
  BY <1>1 DEF InFlightIsCall, CallIsInFlight, AskedIsFree
<1>5. OpenIdsDiffer'
  BY <1>1 DEF OpenIdsDiffer, Open
<1>6. AnswersFollow' /\ OutcomeIsOwn'
  BY <1>1 DEF AnswersFollow, OutcomeIsOwn
<1>7. QED
  BY <1>2, <1>3, <1>4, <1>5, <1>6 DEF PairInv

LEMMA AskingKeeps ==
    ASSUME PairInv, Asks
    PROVE  PairInv'
<1> USE Parts
<1>1. /\ reading \in Sent /\ this.kind = "call" /\ deciding' = "ask"
      /\ UNCHANGED <<frames, reading, inFlight, responding, fate, answer, outcome>>
      /\ duplicates' = IF this.id # None /\ inFlight[this.id] # 0
                       THEN duplicates \cup {this.id} ELSE duplicates
      /\ Sent' = Sent /\ this' = this
  BY DEF Asks, Reads, shared, Sent, this
<1>2. Typed'
  BY <1>1 DEF Typed
<1>3. PumpInv'
  BY <1>1 DEF PumpInv
<1>4. InFlightIsCall' /\ AnswersFollow'
  BY <1>1 DEF InFlightIsCall, AnswersFollow
<1>5. OpenIdsDiffer'
  BY <1>1 DEF OpenIdsDiffer, Open
<1>6. CallIsInFlight' /\ OutcomeIsOwn'
  BY <1>1 DEF CallIsInFlight, OutcomeIsOwn
<1>7. AskedIsFree'
  BY <1>1 DEF AskedIsFree
<1>8. QED
  BY <1>2, <1>3, <1>4, <1>5, <1>6, <1>7 DEF PairInv

LEMMA AllowingKeeps ==
    ASSUME PairInv, Allowed
    PROVE  PairInv'
<1> USE Parts
<1>1. /\ deciding = "ask" /\ reading \in Sent /\ this.kind = "call" /\ reading \in Nat
      /\ reading \in 1..MaxSent /\ Sent' = Sent
      /\ fate' = [fate EXCEPT ![reading] = "forwarded"] /\ reading' = reading + 1
      /\ deciding' = "read"
      /\ inFlight' = IF this.id # None THEN [inFlight EXCEPT ![this.id] = reading] ELSE inFlight
      /\ UNCHANGED <<frames, responding, answer, outcome, duplicates>>
  BY DEF Allowed, Becomes, PumpInv, Sent
<1>2. /\ fate'[reading] = "forwarded" /\ fate[reading] = "sent"
      /\ \A n \in 1..MaxSent : n # reading => fate'[n] = fate[n]
  BY <1>1 DEF Typed, PumpInv
<1>3. answer[reading] = "none" /\ outcome[reading] = "none"
  BY <1>1, <1>2 DEF AnswersFollow
<1>4. frames[reading] \in Frame /\ this = frames[reading] /\ this.id \in Ids \cup {None}
  BY <1>1 DEF this
<1>5. Typed'
  <2>1. fate' \in [1..MaxSent -> Fates]
    BY <1>1 DEF Typed, Fates
  <2>2. inFlight' \in [Ids -> Nat]
    BY <1>1, <1>4 DEF Typed
  <2>3. QED
    BY <1>1, <2>1, <2>2 DEF Typed
<1>6. PumpInv'
  <2>1. reading' <= Len(frames') + 1
    BY <1>1 DEF Sent
  <2>2. QED
    BY <1>1, <1>2, <2>1 DEF PumpInv
<1>7. \A i \in Ids : inFlight'[i] = IF i = this.id THEN reading ELSE inFlight[i]
  <2>1. CASE this.id = None
    BY <1>1, <2>1, PairingAssumption
  <2>2. CASE this.id \in Ids
    BY <1>1, <2>2, PairingAssumption DEF Typed
  <2>3. QED
    BY <1>4, <2>1, <2>2
<1>8. InFlightIsCall'
  <2> SUFFICES ASSUME NEW i \in Ids, inFlight'[i] # 0
               PROVE  /\ inFlight'[i] \in Sent
                      /\ frames[inFlight'[i]].id = i /\ frames[inFlight'[i]].kind = "call"
                      /\ fate'[inFlight'[i]] = "forwarded" /\ answer[inFlight'[i]] = "none"
    BY <1>1 DEF InFlightIsCall
  <2>1. CASE i = this.id
    BY <1>1, <1>2, <1>3, <1>4, <1>7, <2>1
  <2>2. CASE i # this.id
    BY <1>1, <1>2, <1>7, <2>2 DEF InFlightIsCall
  <2>3. QED
    BY <2>1, <2>2
<1>9. CallIsInFlight'
  <2> SUFFICES ASSUME NEW n \in Sent, frames[n].kind = "call",
                      frames[n].id \notin duplicates \cup {None},
                      fate'[n] = "forwarded", answer[n] = "none"
               PROVE  inFlight'[frames[n].id] = n
    BY <1>1 DEF CallIsInFlight
  <2>0. frames[n].id \in Ids
    OBVIOUS
  <2>1. CASE n = reading
    BY <1>4, <1>7, <2>0, <2>1
  <2>2. CASE n # reading
    <3>1. inFlight[frames[n].id] = n
      BY <1>2, <2>2 DEF CallIsInFlight
    <3>2. frames[n].id # this.id
      BY <1>1, <3>1 DEF AskedIsFree
    <3>3. QED
      BY <1>7, <2>0, <3>1, <3>2
  <2>3. QED
    BY <2>1, <2>2
<1>10. AskedIsFree'
  BY <1>1 DEF AskedIsFree
<1>11. OpenIdsDiffer'
  <2>1. \A k \in Sent : Open(k)' => Open(k)
    <3>1. \A k \in Sent : fate'[k] = fate[k] \/ fate[k] = "sent"
      BY <1>2
    <3>2. QED
      BY <1>1, <3>1 DEF Open
  <2>2. Sent' = Sent /\ frames' = frames
    BY <1>1
  <2>3. \A m, n \in Sent : m # n /\ Open(m)' /\ Open(n)' /\ frames[m].id = frames[n].id =>
                            {frames[m].kind, frames[n].kind} \subseteq Calls
    BY <2>1, Zenon DEF OpenIdsDiffer
  <2>4. QED
    BY <2>2, <2>3 DEF OpenIdsDiffer
<1>12. AnswersFollow'
  BY <1>1, <1>2, <1>3, <1>4 DEF AnswersFollow
<1>13. OutcomeIsOwn'
  BY <1>1 DEF OutcomeIsOwn
<1>14. QED
  BY <1>5, <1>6, <1>8, <1>9, <1>10, <1>11, <1>12, <1>13 DEF PairInv

LEMMA PumpKeeps ==
    ASSUME PairInv, PumpRequests
    PROVE  PairInv'
<1>1. CASE Drops \/ RefusesBatch \/ Passes \/ WatchesInitialize \/ WatchesDiscover
  <2>1. PICK what \in Fates : Becomes(what) /\ (what = "forwarded" => this.kind \notin Calls)
    BY <1>1 DEF Drops, RefusesBatch, Passes, WatchesInitialize, WatchesDiscover, Reads, Fates, Calls
  <2>2. reading \in Sent /\ UNCHANGED <<frames, inFlight, responding, answer, outcome, duplicates>>
    BY <1>1 DEF Drops, RefusesBatch, Passes, WatchesInitialize, WatchesDiscover, Reads, shared
  <2>3. QED
    BY <2>1, <2>2, Leaving
<1>2. CASE RefusesUnreadable \/ Denied
  <2>1. /\ reading \in Sent /\ this.kind \in Calls
        /\ UNCHANGED <<frames, inFlight, responding, answer, outcome, duplicates>>
    BY <1>2 DEF RefusesUnreadable, Denied, Reads, shared, PairInv, PumpInv, Calls
  <2>2. Becomes("dropped") \/ Refuses
    BY <1>2 DEF RefusesUnreadable, Denied
  <2>3. "dropped" \in Fates /\ "dropped" # "forwarded"
    BY DEF Fates
  <2>4. QED
    BY <2>1, <2>2, <2>3, Leaving, Refusing
<1>3. CASE Asks
  BY <1>3, AskingKeeps
<1>4. CASE Allowed
  BY <1>4, AllowingKeeps
<1>5. CASE TellsClient
  <2>1. PICK what \in {"refused typed", "refused"} : Becomes(what)
    BY <1>5 DEF TellsClient
  <2>2. /\ reading \in Sent /\ what \in Fates /\ what # "forwarded"
        /\ UNCHANGED <<frames, inFlight, responding, answer, outcome, duplicates>>
    BY <1>5 DEF TellsClient, shared, PairInv, PumpInv, Fates
  <2>3. QED
    BY <2>1, <2>2, Leaving
<1>6. QED
  BY <1>1, <1>2, <1>3, <1>4, <1>5 DEF PumpRequests

-----------------------------------------------------------------------------
(***************************************************************************)
(* The client and the server.                                              *)
(***************************************************************************)

LEMMA SendingKeeps ==
    ASSUME PairInv, NEW kind \in Frames, NEW id \in Ids \cup {None}, NEW v \in Versions \cup {0},
           ClientSends(kind, id, v)
    PROVE  PairInv'
<1> USE Parts
<1> DEFINE f == [kind |-> kind, id |-> id, version |-> v, calm |-> ~Shaking]
           last == Len(frames) + 1
<1>1. /\ frames' = Append(frames, f) /\ MaySend(f) /\ Len(frames) < MaxSent
      /\ UNCHANGED <<reading, deciding, inFlight, responding, fate, answer, outcome, duplicates>>
  BY DEF ClientSends, shared
<1>2. f \in Frame /\ f.kind = kind /\ f.id = id
  BY DEF Frame, Shaking
<1> HIDE DEF f
<1>3. /\ frames \in Seq(Frame) /\ Len(frames) \in Nat
      /\ frames' \in Seq(Frame) /\ Len(frames') = last /\ frames'[last] = f
      /\ \A n \in Sent : frames'[n] = frames[n]
  BY <1>1, <1>2 DEF Typed, Sent
<1>4. Sent' = Sent \cup {last} /\ last \notin Sent /\ last \in 1..MaxSent
  BY <1>1, <1>3 DEF Sent
<1>5. Typed'
  BY <1>1, <1>3 DEF Typed
<1>6. fate[last] # "forwarded" /\ answer[last] = "none" /\ outcome[last] = "none"
  <2>1. fate[last] = "sent"
    BY <1>3, <1>4 DEF PumpInv, Typed
  <2>2. QED
    BY <1>4, <2>1 DEF AnswersFollow
<1>7. PumpInv'
  <2>1. deciding \in {"ask", "refuse"} => reading \in Sent /\ this' = this
    BY <1>1, <1>3 DEF PumpInv, this
  <2>2. reading' <= Len(frames') + 1
    BY <1>1, <1>3 DEF PumpInv, Typed
  <2>3. QED
    BY <1>1, <1>4, <2>1, <2>2 DEF PumpInv
<1>8. InFlightIsCall'
  <2>1. ASSUME NEW i \in Ids, inFlight[i] # 0
        PROVE  inFlight[i] \in Sent /\ frames'[inFlight[i]] = frames[inFlight[i]]
    BY <1>3, <2>1 DEF InFlightIsCall
  <2>2. QED
    BY <1>1, <1>4, <2>1 DEF InFlightIsCall
<1>9. CallIsInFlight'
  BY <1>1, <1>3, <1>4, <1>6 DEF CallIsInFlight
<1>10. AskedIsFree'
  BY <1>1, <1>3, <1>4 DEF PumpInv, AskedIsFree, this
<1>11. OpenIdsDiffer'
  <2> SUFFICES ASSUME NEW m \in Sent', NEW n \in Sent', m # n, Open(m)', Open(n)',
                      frames'[m].id = frames'[n].id
               PROVE  {frames'[m].kind, frames'[n].kind} \subseteq Calls
    BY DEF OpenIdsDiffer
  <2>1. \A k \in Sent : Open(k)' => Open(k)
    BY <1>1, <1>3 DEF Open
  <2>2. CASE m \in Sent /\ n \in Sent
    BY <1>3, <2>1, <2>2 DEF OpenIdsDiffer
  <2>3. CASE m = last
    <3>1. n \in Sent /\ Open(n) /\ f.id # None /\ f.id = frames[n].id
      BY <1>3, <1>4, <2>1, <2>3 DEF Open
    <3>2. QED
      BY <1>1, <1>3, <2>3, <3>1 DEF MaySend
  <2>4. CASE n = last
    <3>1. m \in Sent /\ Open(m) /\ f.id # None /\ f.id = frames[m].id
      BY <1>3, <1>4, <2>1, <2>4 DEF Open
    <3>2. QED
      BY <1>1, <1>3, <2>4, <3>1 DEF MaySend
  <2>5. QED
    BY <1>4, <2>2, <2>3, <2>4
<1>12. AnswersFollow'
  BY <1>1, <1>3, <1>4, <1>6 DEF AnswersFollow
<1>13. OutcomeIsOwn'
  BY <1>1, <1>3, <1>4, <1>6 DEF OutcomeIsOwn
<1>14. QED
  BY <1>5, <1>7, <1>8, <1>9, <1>10, <1>11, <1>12, <1>13 DEF PairInv

LEMMA RespondingKeeps ==
    ASSUME PairInv, NEW n \in 1..MaxSent, NEW ok \in BOOLEAN, NEW v, NEW s, Responds(n, ok, v, s)
    PROVE  PairInv'
<1> USE Parts
<1> DEFINE key == frames[n].id
           call == inFlight[key]
           said == IF ok THEN "ok" ELSE "failed"
<1>1. /\ n \in Sent /\ key # None /\ fate[n] = "forwarded" /\ answer[n] = "none"
      /\ responding.of = 0 /\ responding'.of = n
      /\ answer' = [answer EXCEPT ![n] = said]
      /\ inFlight' = [inFlight EXCEPT ![key] = 0]
      /\ outcome' = IF call = 0 THEN outcome ELSE [outcome EXCEPT ![call] = said]
      /\ UNCHANGED <<frames, reading, deciding, fate, duplicates>> /\ Sent' = Sent
  BY DEF Responds, Notes, NoReply, Sent
<1>2. key \in Ids
  BY <1>1
<1>3. /\ \A i \in Ids : inFlight'[i] = IF i = key THEN 0 ELSE inFlight[i]
      /\ \A k \in 1..MaxSent : answer'[k] = IF k = n THEN said ELSE answer[k]
      /\ said \in {"ok", "failed"}
  BY <1>1, <1>2 DEF Typed
<1>4. call # 0 => /\ call \in Sent /\ frames[call].id = key /\ frames[call].kind = "call"
                  /\ fate[call] = "forwarded" /\ answer[call] = "none"
  BY <1>2 DEF InFlightIsCall
<1>5. \A k \in 1..MaxSent : outcome'[k] = IF k = call THEN said ELSE outcome[k]
  BY <1>1, <1>2, <1>4 DEF Typed
<1>6. frames[n].kind # "unreadable call"
  BY <1>1 DEF AnswersFollow
\* another unanswered frame of this id: then the id is a reported duplicate
<1>7. ASSUME NEW m \in Sent, m # n, frames[m].id = key, frames[m].kind = "call",
             fate[m] = "forwarded", answer[m] = "none"
      PROVE  key \in duplicates
  <2>1. Open(m) /\ Open(n)
    BY <1>1, <1>7 DEF Open
  <2>2. frames[n].kind = "call"
    BY <1>1, <1>6, <1>7, <2>1 DEF OpenIdsDiffer, Calls
  <2>3. key \notin duplicates => call = n /\ call = m
    BY <1>1, <1>7, <2>2 DEF CallIsInFlight
  <2>4. QED
    BY <1>7, <2>3
<1> HIDE DEF call, said
<1>8. Typed'
  <2>1. inFlight' \in [Ids -> Nat]
    BY <1>1, <1>2 DEF Typed
  <2>2. answer' \in [1..MaxSent -> Outcomes]
    BY <1>1, <1>2, <1>3 DEF Typed, Outcomes
  <2>3. outcome' \in [1..MaxSent -> Outcomes]
    <3>1. outcome' = outcome \/ (call \in 1..MaxSent /\ outcome' = [outcome EXCEPT ![call] = said])
      BY <1>1, <1>4
    <3>2. QED
      BY <1>3, <3>1 DEF Typed, Outcomes
  <2>4. QED
    BY <1>1, <1>2, <2>1, <2>2, <2>3 DEF Typed
<1>9. PumpInv'
  BY <1>1 DEF PumpInv, this
<1>10. InFlightIsCall'
  BY <1>1, <1>3 DEF InFlightIsCall
<1>11. CallIsInFlight'
  <2> SUFFICES ASSUME NEW m \in Sent, frames[m].kind = "call",
                      frames[m].id \notin duplicates \cup {None},
                      fate[m] = "forwarded", answer'[m] = "none"
               PROVE  inFlight'[frames[m].id] = m
    BY <1>1 DEF CallIsInFlight
  <2>1. m # n /\ answer[m] = "none"
    <3>1. m \in 1..MaxSent
      OBVIOUS
    <3>2. QED
      BY <1>3, <3>1
  <2>2. frames[m].id # key
    BY <1>7, <2>1
  <2>3. inFlight[frames[m].id] = m /\ frames[m].id \in Ids
    BY <2>1 DEF CallIsInFlight
  <2>4. QED
    BY <1>3, <2>2, <2>3
<1>12. AskedIsFree'
  <2>1. deciding = "ask" => this.id \in Ids \cup {None}
    BY DEF PumpInv, this
  <2>2. QED
    BY <1>1, <1>3, <2>1 DEF AskedIsFree, this
<1>13. OpenIdsDiffer'
  <2>1. \A k \in Sent : Open(k)' => Open(k)
    BY <1>1, <1>3 DEF Open
  <2>2. QED
    BY <1>1, <2>1 DEF OpenIdsDiffer
<1>14. AnswersFollow'
  <2> SUFFICES ASSUME NEW k \in 1..MaxSent
               PROVE  /\ answer'[k] # "none" => k \in Sent /\ fate[k] = "forwarded"
                      /\ outcome'[k] # "none" => k \in Sent /\ fate[k] = "forwarded"
                      /\ k \in Sent /\ fate[k] = "forwarded" => frames[k].kind # "unreadable call"
    BY <1>1 DEF AnswersFollow
  <2>1. answer'[k] # "none" => k \in Sent /\ fate[k] = "forwarded"
    BY <1>1, <1>3 DEF AnswersFollow
  <2>2. outcome'[k] # "none" => k \in Sent /\ fate[k] = "forwarded"
    <3>1. k = call => k \in Sent /\ fate[k] = "forwarded"
      BY <1>4
    <3>2. QED
      BY <1>5, <3>1 DEF AnswersFollow
  <2>3. QED
    BY <2>1, <2>2 DEF AnswersFollow
<1>15. OutcomeIsOwn'
  <2> SUFFICES ASSUME NEW m \in Sent, frames[m].kind = "call",
                      frames[m].id \notin duplicates \cup {None}
               PROVE  outcome'[m] = answer'[m]
    BY <1>1 DEF OutcomeIsOwn
  <2>1. outcome[m] = answer[m]
    BY DEF OutcomeIsOwn
  <2>2. CASE m = n
    <3>1. call = n
      BY <1>1, <2>2 DEF CallIsInFlight, call
    <3>2. QED
      BY <1>3, <1>5, <2>2, <3>1
  <2>3. CASE m # n
    <3>1. m # call
      BY <1>2, <1>4, <1>7, <2>3
    <3>2. m \in 1..MaxSent
      OBVIOUS
    <3>3. QED
      BY <1>3, <1>5, <2>1, <2>3, <3>1, <3>2
  <2>4. QED
    BY <2>2, <2>3
<1>16. QED
  BY <1>8, <1>9, <1>10, <1>11, <1>12, <1>13, <1>14, <1>15 DEF PairInv

LEMMA RelayingKeeps ==
    ASSUME PairInv, Relays
    PROVE  PairInv'
<1> USE Parts
<1>1. /\ responding'.of = 0 /\ Sent' = Sent /\ this' = this
      /\ UNCHANGED <<frames, reading, deciding, inFlight, fate, answer, outcome, duplicates>>
  BY DEF Relays, NoReply, shared, Sent, this
<1>2. OpenIdsDiffer'
  <2>1. \A k \in Sent : Open(k)' => Open(k)
    BY <1>1 DEF Open
  <2>2. QED
    BY <1>1, <2>1 DEF OpenIdsDiffer
<1>3. Typed' /\ PumpInv'
  BY <1>1 DEF Typed, PumpInv
<1>4. InFlightIsCall' /\ CallIsInFlight' /\ AskedIsFree'
  BY <1>1 DEF InFlightIsCall, CallIsInFlight, AskedIsFree
<1>5. AnswersFollow' /\ OutcomeIsOwn'
  BY <1>1 DEF AnswersFollow, OutcomeIsOwn
<1>6. QED
  BY <1>2, <1>3, <1>4, <1>5 DEF PairInv

LEMMA StandingKeeps ==
    ASSUME PairInv, UNCHANGED vars
    PROVE  PairInv'
<1> USE Parts
<1>1. /\ Sent' = Sent /\ this' = this
      /\ UNCHANGED <<frames, reading, deciding, inFlight, responding, fate, answer, outcome, duplicates>>
  BY DEF vars, Sent, this
<1>2. Typed' /\ PumpInv'
  BY <1>1 DEF Typed, PumpInv
<1>3. InFlightIsCall' /\ CallIsInFlight' /\ AskedIsFree'
  BY <1>1 DEF InFlightIsCall, CallIsInFlight, AskedIsFree
<1>4. AnswersFollow' /\ OutcomeIsOwn'
  BY <1>1 DEF AnswersFollow, OutcomeIsOwn
<1>5. OpenIdsDiffer'
  BY <1>1 DEF OpenIdsDiffer, Open
<1>6. QED
  BY <1>2, <1>3, <1>4, <1>5 DEF PairInv

LEMMA PairInvAlways == PairingSpec => []PairInv
<1>1. PairingInit => PairInv
  BY PairingAssumption
  DEF PairingInit, PairInv, Typed, PumpInv, InFlightIsCall, CallIsInFlight, AskedIsFree,
      OpenIdsDiffer, AnswersFollow, OutcomeIsOwn, Sent, NoReply, Fates, Outcomes
<1>2. ASSUME PairInv, [PairingNext]_vars PROVE PairInv'
  <2>1. CASE UNCHANGED vars
    BY <1>2, <2>1, StandingKeeps
  <2>2. CASE PumpResponses
    BY <1>2, <2>2, RespondingKeeps, RelayingKeeps DEF PumpResponses
  <2>3. QED
    BY <1>2, <2>1, <2>2, PumpKeeps, SendingKeeps DEF PairingNext
<1>3. QED
  BY <1>1, <1>2, PTL DEF PairingSpec

-----------------------------------------------------------------------------
\* What is recorded of a call is what the server answered to that call, unless
\* its id was reported as used twice.
THEOREM OutcomesAreOwn == PairingSpec => []OutcomeIsOwn
BY PairInvAlways, PTL DEF PairInv

\* A step changes the fate of the frame the pump is at, from "sent", and of no
\* other.
LEMMA OneFateChanges ==
    ASSUME PairInv, [PairingNext]_vars, NEW n \in Sent, fate'[n] # fate[n]
    PROVE  /\ n = reading /\ fate[n] = "sent"
           /\ fate'[n] = "forwarded" /\ frames[n].kind \in Dangerous =>
                frames[n].kind = "call" /\ deciding = "ask"
<1>1. PumpRequests
  BY DEF PairingNext, ClientSends, PumpResponses, Responds, Relays, vars
<1>2. PICK what \in Fates : Becomes(what) /\ (what = "forwarded" => Allowed \/ this.kind \notin Dangerous)
  BY <1>1 DEF PumpRequests, Drops, RefusesBatch, Passes, WatchesInitialize, WatchesDiscover,
     RefusesUnreadable, Refuses, Asks, Allowed, Denied, TellsClient, Reads, Dangerous, Calls, Fates
<1>3. n = reading /\ fate'[n] = what
  BY <1>2, Parts DEF Becomes, Typed
<1>4. fate[n] = "sent"
  BY <1>3, Parts DEF PumpInv, Typed
<1>5. Allowed => deciding = "ask" /\ frames[n].kind = "call"
  BY <1>3 DEF Allowed, PairInv, PumpInv, this
<1>6. QED
  BY <1>2, <1>3, <1>4, <1>5 DEF this

\* Nothing a server might run a tool for goes past the decision, and what has
\* been settled of a frame stays.
THEOREM NothingEverPassesUndecided == PairingSpec => NothingUndecidedPasses
<1>1. PairInv /\ [PairingNext]_vars =>
        [\A n \in Sent :
           /\ fate'[n] = "forwarded" /\ fate[n] # "forwarded" /\ frames[n].kind \in Dangerous =>
                frames[n].kind = "call" /\ reading = n /\ deciding = "ask"
           /\ fate[n] # "sent" => fate'[n] = fate[n]]_vars
  BY OneFateChanges
<1>2. QED
  BY <1>1, PairInvAlways, PTL DEF PairingSpec, NothingUndecidedPasses

-----------------------------------------------------------------------------
(***************************************************************************)
(* One outcome for one call.                                               *)
(***************************************************************************)

\* What is in flight has no outcome yet, and only calls get one.
UnrecordedInv ==
    /\ \A i \in Ids : inFlight[i] # 0 => outcome[inFlight[i]] = "none"
    /\ \A n \in Sent : outcome[n] # "none" => frames[n].kind = "call"

\* An outcome is recorded of a call that was let through and is in flight under
\* its id, and only once.
OutcomeIsFinal ==
    [][\A n \in 1..MaxSent : outcome'[n] # outcome[n] =>
          /\ n \in Sent /\ frames[n].kind = "call" /\ fate[n] = "forwarded"
          /\ inFlight[frames[n].id] = n /\ outcome[n] = "none"]_vars

LEMMA OneOutcomeChanges ==
    ASSUME PairInv, UnrecordedInv, [PairingNext]_vars, NEW n \in 1..MaxSent, outcome'[n] # outcome[n]
    PROVE  /\ n \in Sent /\ frames[n].kind = "call" /\ fate[n] = "forwarded"
           /\ frames[n].id \in Ids /\ inFlight[frames[n].id] = n /\ outcome[n] = "none"
           /\ inFlight' = [inFlight EXCEPT ![frames[n].id] = 0]
           /\ \A m \in 1..MaxSent : m # n => outcome'[m] = outcome[m]
<1> USE Parts
<1>1. PICK m \in 1..MaxSent, ok \in BOOLEAN, v \in Versions \cup {0}, s \in SUBSET Versions :
        Responds(m, ok, v, s)
  BY DEF PairingNext, ClientSends, PumpRequests, Drops, RefusesBatch, Passes, WatchesInitialize,
     WatchesDiscover, RefusesUnreadable, Asks, Allowed, Denied, TellsClient, PumpResponses, Relays, vars
<1> DEFINE key == frames[m].id
           call == inFlight[key]
<1>2. /\ key \in Ids /\ call # 0
      /\ inFlight' = [inFlight EXCEPT ![key] = 0]
      /\ outcome' = [outcome EXCEPT ![call] = IF ok THEN "ok" ELSE "failed"]
  BY <1>1 DEF Responds, Notes
<1>3. /\ call \in Sent /\ frames[call].id = key /\ frames[call].kind = "call"
      /\ fate[call] = "forwarded" /\ outcome[call] = "none"
  BY <1>2 DEF InFlightIsCall, UnrecordedInv
<1> HIDE DEF key, call
<1>4. n = call /\ \A k \in 1..MaxSent : k # call => outcome'[k] = outcome[k]
  BY <1>2 DEF Typed
<1>5. call = inFlight[key]
  BY DEF call
<1>6. QED
  BY <1>2, <1>3, <1>4, <1>5

LEMMA UnrecordedInductive ==
    ASSUME PairInv, PairInv', UnrecordedInv, [PairingNext]_vars
    PROVE  UnrecordedInv'
<1> USE Parts
<1>1. CASE \E n \in 1..MaxSent : outcome'[n] # outcome[n]
  <2>1. PICK n \in 1..MaxSent : outcome'[n] # outcome[n]
    BY <1>1
  <2> DEFINE key == frames[n].id
  <2>2. /\ n \in Sent /\ frames[n].kind = "call" /\ inFlight[key] = n /\ key \in Ids
        /\ inFlight' = [inFlight EXCEPT ![key] = 0]
        /\ \A m \in 1..MaxSent : m # n => outcome'[m] = outcome[m]
    BY <2>1, OneOutcomeChanges
  <2>3. UNCHANGED frames
    BY <2>1 DEF PairingNext, ClientSends, PumpRequests, Drops, RefusesBatch, Passes,
       WatchesInitialize, WatchesDiscover, RefusesUnreadable, Asks, Allowed, Denied, TellsClient,
       PumpResponses, Responds, Relays, vars
  <2> HIDE DEF key
  <2>4. ASSUME NEW i \in Ids, inFlight'[i] # 0 PROVE outcome'[inFlight'[i]] = "none"
    <3>1. i # key /\ inFlight'[i] = inFlight[i] /\ inFlight[i] \in Sent
      BY <2>2, <2>4 DEF Typed, InFlightIsCall
    <3>2. frames[inFlight[i]].id = i
      BY <2>4, <3>1 DEF InFlightIsCall
    <3>3. inFlight[i] # n
      BY <3>1, <3>2 DEF key
    <3>4. QED
      BY <2>2, <2>4, <3>1, <3>3 DEF UnrecordedInv
  <2>5. \A m \in Sent : outcome'[m] # "none" => frames[m].kind = "call"
    BY <2>2 DEF UnrecordedInv
  <2>6. QED
    BY <2>3, <2>4, <2>5 DEF UnrecordedInv, Sent
<1>2. CASE UNCHANGED outcome
  <2>1. ASSUME NEW i \in Ids, inFlight'[i] # 0 PROVE outcome[inFlight'[i]] = "none"
    <3>1. CASE inFlight'[i] = inFlight[i]
      BY <2>1, <3>1 DEF UnrecordedInv
    <3>2. CASE Allowed /\ inFlight'[i] = reading
      <4>1. reading \in Sent /\ fate[reading] = "sent"
        BY <3>2 DEF Allowed, PumpInv
      <4>2. QED
        BY <3>2, <4>1 DEF AnswersFollow
    <3>3. inFlight'[i] \in {inFlight[i], 0} \/ (Allowed /\ inFlight'[i] = reading)
      <4>t. inFlight \in [Ids -> Nat]
        BY DEF Typed
      <4>1. CASE Allowed
        <5>1. inFlight' = inFlight \/ inFlight' = [inFlight EXCEPT ![this.id] = reading]
          BY <4>1 DEF Allowed
        <5>2. QED
          BY <4>t, <4>1, <5>1
      <4>2. ASSUME NEW n \in 1..MaxSent, NEW ok \in BOOLEAN, NEW v \in Versions \cup {0},
                   NEW s \in SUBSET Versions, Responds(n, ok, v, s)
            PROVE  inFlight'[i] \in {inFlight[i], 0}
        <5>1. inFlight' = [inFlight EXCEPT ![frames[n].id] = 0]
          BY <4>2 DEF Responds, Notes
        <5>2. QED
          BY <4>t, <5>1
      <4>3. CASE (PumpRequests /\ ~Allowed) \/ Relays \/ UNCHANGED vars
        BY <4>3 DEF PumpRequests, Drops, RefusesBatch, Passes, WatchesInitialize, WatchesDiscover,
           RefusesUnreadable, Asks, Denied, TellsClient, Relays, vars, shared
      <4>4. ASSUME NEW kind \in Frames, NEW id \in Ids \cup {None}, NEW v \in Versions \cup {0},
                   ClientSends(kind, id, v)
            PROVE  inFlight' = inFlight
        BY <4>4 DEF ClientSends, shared
      <4>5. QED
        BY <4>1, <4>2, <4>3, <4>4 DEF PairingNext, PumpResponses
    <3>4. QED
      BY <2>1, <3>1, <3>2, <3>3
  <2>2. ASSUME NEW m \in Sent', outcome[m] # "none" PROVE frames'[m].kind = "call"
    <3>1. m \in Sent /\ frames[m].kind = "call"
      <4>1. m \in 1..MaxSent
        BY Parts, PairingAssumption DEF PairInv, Typed, Sent
      <4>2. QED
        BY <2>2, <4>1 DEF AnswersFollow, UnrecordedInv
    <3>2. frames' = frames \/ \E f \in Frame : frames' = Append(frames, f)
      <4>1. CASE PumpRequests \/ PumpResponses \/ UNCHANGED vars
        BY <4>1 DEF PumpRequests, Drops, RefusesBatch, Passes, WatchesInitialize, WatchesDiscover,
           RefusesUnreadable, Asks, Allowed, Denied, TellsClient, PumpResponses, Responds, Relays, vars
      <4>2. ASSUME NEW kind \in Frames, NEW id \in Ids \cup {None}, NEW v \in Versions \cup {0},
                   ClientSends(kind, id, v)
            PROVE  \E f \in Frame : frames' = Append(frames, f)
        BY <4>2 DEF ClientSends, Frame, Shaking
      <4>3. QED
        BY <4>1, <4>2 DEF PairingNext
    <3>3. frames \in Seq(Frame) /\ m \in 1..Len(frames)
      BY <3>1 DEF Typed, Sent
    <3>4. frames'[m] = frames[m]
      BY <3>2, <3>3, AppendProperties
    <3>5. QED
      BY <3>1, <3>4
  <2>3. QED
    BY <1>2, <2>1, <2>2 DEF UnrecordedInv
<1>3. outcome' = outcome \/ \E n \in 1..MaxSent : outcome'[n] # outcome[n]
  BY DEF PairInv, Typed
<1>4. QED
  BY <1>1, <1>2, <1>3

\* What the journal is told of a call is told once: in whatever order the server
\* answers, and however often an id is used, an outcome goes to a call that was
\* let through and has none, and never changes (decide, noteResponse).
THEOREM OutcomesAreFinal == PairingSpec => OutcomeIsFinal
<1> DEFINE Final == \A n \in 1..MaxSent : outcome'[n] # outcome[n] =>
                      /\ n \in Sent /\ frames[n].kind = "call" /\ fate[n] = "forwarded"
                      /\ inFlight[frames[n].id] = n /\ outcome[n] = "none"
<1>1. PairingInit => UnrecordedInv
  BY DEF PairingInit, UnrecordedInv, Sent
<1>2. PairInv /\ PairInv' /\ UnrecordedInv /\ [PairingNext]_vars => UnrecordedInv'
  BY UnrecordedInductive
<1>3. PairInv /\ UnrecordedInv /\ [PairingNext]_vars => [Final]_vars
  BY OneOutcomeChanges
<1>4. QED
  BY <1>1, <1>2, <1>3, PairInvAlways, PTL DEF PairingSpec, OutcomeIsFinal

-----------------------------------------------------------------------------
(***************************************************************************)
(* The version a refusal is written for.                                   *)
(***************************************************************************)

\* One handshake of a kind is open at a time, and each has an id and a version.
HandshakesDiffer ==
    /\ \A m, n \in Sent :
          m # n /\ Open(m) /\ Open(n) /\ frames[m].kind = frames[n].kind => frames[m].kind \notin Handshakes
    /\ \A n \in Sent : frames[n].kind \in Handshakes => frames[n].id # None /\ frames[n].version \in Versions

Pending(n, kind) == frames[n].kind = kind /\ fate[n] = "forwarded" /\ answer[n] = "none"

\* The keys are those of the handshakes the server has yet to answer.
KeysAreTheirs ==
    /\ \A n \in Sent : Pending(n, "initialize") => initializeKey = frames[n].id
    /\ \A n \in Sent : Pending(n, "discover") => discoverKey = frames[n].id /\ proposed = frames[n].version
    /\ initializeKey # None =>
          \E n \in Sent : Pending(n, "initialize") /\ frames[n].id = initializeKey
    /\ discoverKey # None =>
          \E n \in Sent : Pending(n, "discover") /\ frames[n].id = discoverKey

\* The relay is ahead of the client by the response it has not written yet.
VersionIsHeard ==
    /\ protocolVersion = IF responding = NoReply THEN settled ELSE responding.version
    /\ responding # NoReply =>
          /\ responding.of \in Sent /\ fate[responding.of] = "forwarded"
          /\ frames[responding.of].kind \notin Handshakes => responding.version = settled

\* While a call sent in calm is waiting, no handshake before it is open.
CalmStays ==
    \A n \in Sent :
        frames[n].kind \in Calls /\ frames[n].calm /\ fate[n] = "sent" =>
            \A m \in 1 .. n - 1 : frames[m].kind \in Handshakes => ~Open(m)

\* And the refusal built for it is in the dialect the client still speaks.
RefusalFits == deciding = "refuse" /\ this.calm => dialect = ResultsCarryType(settled)

DialectInv == HandshakesDiffer /\ KeysAreTheirs /\ VersionIsHeard /\ CalmStays /\ RefusalFits

\* Versions up to a bound have a newest.
LEMMA Greatest ==
    ASSUME NEW N \in Nat, NEW T, T \subseteq 0 .. N, T # {}
    PROVE  \E x \in T : \A y \in T : y <= x
<1> DEFINE S == 0 .. N
           R == StrictSubsetOrdering(S)
           W == {x .. N : x \in T}
<1>1. IsWellFoundedOn(R, SUBSET S)
  <2>1. IsFiniteSet(S)
    BY FS_Interval
  <2>2. FiniteSubsetsOf(S) = SUBSET S
    BY <2>1, FS_FiniteSubsetsOfFinite
  <2> HIDE DEF S
  <2> QED
    BY <2>2, FS_StrictSubsetOrderingWellFounded
<1>2. W \subseteq SUBSET S /\ W # {}
  <2>1. \A x \in T : x \in Nat /\ x <= N /\ x .. N \subseteq 0 .. N
    OBVIOUS
  <2> HIDE DEF S
  <2> QED
    BY <2>1 DEF S
<1>3. PICK w \in W : \A v \in W : ~(<<v, w>> \in R)
  <2> HIDE DEF R, W, S
  <2> QED
    BY <1>1, <1>2, WFMin
<1>4. PICK x \in T : w = x .. N
  OBVIOUS
<1>5. ASSUME NEW y \in T, y > x PROVE FALSE
  <2>1. y .. N \subseteq x .. N /\ x \in x .. N /\ x \notin y .. N
    BY <1>5
  <2>2. <<y .. N, x .. N>> \in R
    BY <2>1, <1>2 DEF StrictSubsetOrdering
  <2> QED
    BY <1>3, <1>4, <2>2
<1> QED
  BY <1>5

\* The relay and the client make the same of an answer to server/discover.
LEMMA SameVersion ==
    ASSUME NEW p \in Versions, NEW supported \in SUBSET Versions
    PROVE  LET known == {v \in supported : v <= p}
               found == Negotiated(p, supported)
           IN  IF known = {} THEN found = 0 ELSE found = Newest(known) /\ found # 0
<1> USE PairingAssumption
<1> DEFINE known == {v \in supported : v <= p}
           older == {v \in supported : v < p}
           found == Negotiated(p, supported)
<1>1. p \in Nat /\ p # 0 /\ \A v \in supported : v \in Nat /\ v # 0
  OBVIOUS
<1>2. CASE p \in supported
  <2>1. p \in known /\ \A v \in known : v <= p
    BY <1>1, <1>2
  <2>2. Newest(known) = p
    <3>1. \A v \in known : (\A w \in known : w <= v) => v = p
      BY <1>1, <2>1
    <3> HIDE DEF known
    <3> QED
      BY <2>1, <3>1 DEF Newest
  <2> QED
    BY <1>1, <1>2, <2>1, <2>2 DEF Negotiated
<1>3. CASE p \notin supported
  <2>1. known = older
    <3>1. \A v \in supported : v # p /\ (v <= p <=> v < p)
      BY <1>1, <1>3
    <3> QED
      BY <3>1
  <2>2. ASSUME older # {} PROVE Newest(older) # 0
    <3>1. older \subseteq 0 .. p
      <4>1. \A v \in supported : v < p => v \in 0 .. p
        BY <1>1
      <4> QED
        BY <4>1
    <3>2. \E x \in older : \A y \in older : y <= x
      <4> HIDE DEF older
      <4> QED
        BY <1>1, <2>2, <3>1, Greatest
    <3>3. Newest(older) \in older
      <4> HIDE DEF older
      <4> QED
        BY <3>2 DEF Newest
    <3> QED
      BY <1>1, <3>3
  <2> QED
    BY <1>3, <2>1, <2>2 DEF Negotiated
<1> QED
  BY <1>2, <1>3

\* A step that opens nothing keeps the handshakes apart and the calls calm.
LEMMA NothingOpens ==
    ASSUME PairInv, DialectInv, frames' = frames,
           \A k \in Sent : (Open(k)' => Open(k)) /\ (fate'[k] = "sent" => fate[k] = "sent")
    PROVE  HandshakesDiffer' /\ CalmStays'
<1> USE Parts
<1>1. Sent' = Sent /\ \A n \in Sent : \A m \in 1 .. n - 1 : m \in Sent
  BY DEF Sent
<1>2. HandshakesDiffer'
  BY <1>1 DEF DialectInv, HandshakesDiffer
<1>3. CalmStays'
  BY <1>1 DEF DialectInv, CalmStays
<1> QED
  BY <1>2, <1>3
\* What a call sent in calm is refused by is what the client has heard.
LEMMA CalmHears ==
    ASSUME PairInv, DialectInv, reading \in Sent, this.kind \in Calls, this.calm
    PROVE  /\ protocolVersion = settled
           /\ responding # NoReply => responding.version = settled
<1> USE Parts
<1> DEFINE m == responding.of
<1>1. ASSUME responding # NoReply, frames[m].kind \in Handshakes PROVE FALSE
  <2>1. m \in Sent /\ fate[m] = "forwarded"
    BY <1>1 DEF DialectInv, VersionIsHeard
  <2>2. Open(m)
    BY <1>1, <2>1 DEF Open, DialectInv, HandshakesDiffer
  <2>3. m \in 1 .. reading - 1
    <3>1. ~(m >= reading) /\ m \in Nat /\ m # 0 /\ reading \in Nat
      BY <2>1 DEF PumpInv, Typed
    <3> QED
      BY <3>1
  <2>4. fate[reading] = "sent"
    BY DEF PumpInv, Typed
  <2> QED
    BY <1>1, <2>2, <2>3, <2>4 DEF DialectInv, CalmStays, this
<1> QED
  BY <1>1 DEF DialectInv, VersionIsHeard

\* A handshake waiting for the server is open, and shares its id with no frame.
LEMMA PendingIsOpen ==
    ASSUME PairInv, DialectInv, NEW n \in Sent, NEW kind \in Handshakes, Pending(n, kind)
    PROVE  /\ Open(n) /\ frames[n].kind = kind /\ frames[n].id \in Ids
           /\ \A m \in Sent \ {n} : Open(m) => frames[m].id # frames[n].id /\ ~Pending(m, kind)
<1> USE Parts
<1>1. Open(n) /\ frames[n].kind = kind /\ kind \notin Calls /\ frames[n].id \in Ids
  BY DEF Pending, Open, DialectInv, HandshakesDiffer, Handshakes, Calls
<1>2. ASSUME NEW m \in Sent \ {n}, Open(m) PROVE frames[m].id # frames[n].id /\ ~Pending(m, kind)
  BY <1>1, <1>2 DEF Pending, DialectInv, HandshakesDiffer, OpenIdsDiffer
<1> QED
  BY <1>1, <1>2

\* The client opens a handshake only when none of its kind is open.
LEMMA DialectSending ==
    ASSUME PairInv, DialectInv,
           NEW kind \in Frames, NEW id \in Ids \cup {None}, NEW v \in Versions \cup {0},
           ClientSends(kind, id, v)
    PROVE  DialectInv'
<1> USE Parts
<1> DEFINE f == [kind |-> kind, id |-> id, version |-> v, calm |-> ~Shaking]
<1>0. PICK last \in Nat : last = Len(frames) + 1
  OBVIOUS
<1>1. /\ frames' = Append(frames, f) /\ MaySend(f) /\ Len(frames) < MaxSent
      /\ UNCHANGED <<reading, deciding, dialect, initializeKey, discoverKey, proposed,
                     protocolVersion, responding, fate, answer, settled>>
  BY DEF ClientSends, shared
<1>2. f \in Frame /\ f.kind = kind /\ f.id = id /\ f.version = v /\ f.calm = ~Shaking
  BY DEF Frame, Shaking
<1> HIDE DEF f
<1>3. /\ frames \in Seq(Frame) /\ Len(frames) \in Nat
      /\ frames' \in Seq(Frame) /\ Len(frames') = last /\ frames'[last] = f
      /\ \A n \in Sent : frames'[n] = frames[n]
  BY <1>0, <1>1, <1>2 DEF Typed, Sent
<1>4. /\ Sent' = Sent \cup {last} /\ last \notin Sent /\ last \in 1..MaxSent
      /\ \A n \in Sent : \A m \in 1 .. n - 1 : m \in Sent
      /\ \A m \in 1 .. last - 1 : m \in Sent
  BY <1>0, <1>1, <1>3 DEF Sent
<1>5. fate[last] = "sent"
  BY <1>0, <1>3, <1>4 DEF PumpInv, Typed
<1>6. /\ \A n \in Sent : Open(n)' <=> Open(n)
      /\ \A n \in Sent : \A k \in Handshakes : Pending(n, k)' <=> Pending(n, k)
      /\ \A k \in Handshakes : ~Pending(last, k)'
  <2>1. \A n \in Sent : Open(n)' <=> Open(n)
    BY <1>1, <1>3 DEF Open
  <2>2. \A n \in Sent : \A k : Pending(n, k)' <=> Pending(n, k)
    BY <1>1, <1>3 DEF Pending
  <2>3. \A k : ~Pending(last, k)'
    BY <1>1, <1>5 DEF Pending
  <2> QED
    BY <2>1, <2>2, <2>3
<1>7. HandshakesDiffer'
  <2>1. \A n \in Sent : Open(n) /\ f.kind = frames[n].kind => f.kind \notin Handshakes
    BY <1>1 DEF MaySend
  <2>2. f.kind \in Handshakes => f.id # None /\ f.version \in Versions
    BY <1>1, <1>2 DEF MaySend
  <2> QED
    BY <1>3, <1>4, <1>6, <2>1, <2>2 DEF DialectInv, HandshakesDiffer
<1>8. KeysAreTheirs'
  <2>1. "initialize" \in Handshakes /\ "discover" \in Handshakes
    BY DEF Handshakes
  <2> QED
    BY <1>1, <1>3, <1>4, <1>6, <2>1 DEF DialectInv, KeysAreTheirs
<1>9. VersionIsHeard'
  BY <1>1, <1>3, <1>4 DEF DialectInv, VersionIsHeard
<1>10. CalmStays'
  <2>1. f.calm => \A m \in Sent : frames[m].kind \in Handshakes => ~Open(m)
    BY <1>2 DEF Shaking
  <2> QED
    BY <1>1, <1>3, <1>4, <1>6, <2>1 DEF DialectInv, CalmStays
<1>11. RefusalFits'
  <2>1. deciding = "refuse" => this' = this
    BY <1>1, <1>3 DEF this, PumpInv
  <2> QED
    BY <1>1, <2>1 DEF DialectInv, RefusalFits
<1> QED
  BY <1>7, <1>8, <1>9, <1>10, <1>11 DEF DialectInv

\* The pump turns to a refusal, or goes on with a frame that is no handshake.
LEMMA DialectPump ==
    ASSUME PairInv, DialectInv, PumpRequests
    PROVE  DialectInv'
<1> USE Parts
<1>1. UNCHANGED <<frames, protocolVersion, responding, answer, settled>> /\ Sent' = Sent
  BY DEF PumpRequests, Drops, RefusesBatch, Passes, WatchesInitialize, WatchesDiscover,
     RefusesUnreadable, Asks, Allowed, Denied, TellsClient, shared, Sent
<1>2. \A n \in Sent : fate'[n] # fate[n] => n = reading /\ fate[n] = "sent"
  BY OneFateChanges DEF PairingNext
<1>s. reading \in Sent => answer[reading] = "none" /\ fate[reading] = "sent"
  <2>1. ASSUME reading \in Sent PROVE fate[reading] = "sent"
    BY <2>1 DEF PumpInv, Typed
  <2> QED
    BY <2>1 DEF AnswersFollow
<1>3. \A k \in Sent : (Open(k)' => Open(k)) /\ (fate'[k] = "sent" => fate[k] = "sent")
  <2>1. ASSUME NEW k \in Sent PROVE (Open(k)' => Open(k)) /\ (fate'[k] = "sent" => fate[k] = "sent")
    <3>1. CASE fate'[k] = fate[k]
      BY <1>1, <3>1 DEF Open
    <3>2. CASE fate'[k] # fate[k]
      BY <1>1, <1>2, <3>2 DEF Open
    <3> QED
      BY <3>1, <3>2
  <2> QED
    BY <2>1
<1>4. HandshakesDiffer' /\ CalmStays'
  BY <1>1, <1>3, NothingOpens
<1>5. VersionIsHeard'
  <2>1. responding # NoReply => fate'[responding.of] = "forwarded"
    BY <1>2 DEF DialectInv, VersionIsHeard
  <2> QED
    BY <1>1, <2>1 DEF DialectInv, VersionIsHeard
<1>6. KeysAreTheirs'
  <2>1. CASE WatchesInitialize
    <3>0. PICK r \in Sent : r = reading
      BY <2>1 DEF WatchesInitialize, Reads
    <3>1. /\ reading \in Sent /\ this.kind = "initialize" /\ initializeKey' = this.id
          /\ fate'[reading] = "forwarded" /\ UNCHANGED <<discoverKey, proposed>>
      BY <2>1 DEF WatchesInitialize, Reads, Becomes, Typed
    <3>2. answer[reading] = "none" /\ fate[reading] = "sent"
      BY <1>s, <3>1
    <3>3. \A n \in Sent \ {reading} : ~Pending(n, "initialize")
      <4>1. Open(reading)
        BY <3>1, <3>2 DEF Open, DialectInv, HandshakesDiffer, Handshakes, this
      <4> QED
        BY <3>1, <4>1 DEF Pending, Open, DialectInv, HandshakesDiffer, Handshakes, this
    <3>4. \A n \in Sent \ {reading} : \A k \in Handshakes : Pending(n, k)' <=> Pending(n, k)
      BY <1>1, <1>2 DEF Pending
    <3>5. Pending(r, "initialize")' /\ ~Pending(r, "discover")'
          /\ ~Pending(r, "discover")
      <4>1. frames'[r].kind = "initialize" /\ frames[r].kind = "initialize" /\ answer'[r] = "none"
        BY <1>1, <3>0, <3>1, <3>2 DEF this
      <4> QED
        BY <3>0, <3>1, <4>1 DEF Pending
    <3> QED
      BY <1>1, <3>0, <3>1, <3>3, <3>4, <3>5 DEF DialectInv, KeysAreTheirs, Handshakes, this
  <2>2. CASE WatchesDiscover
    <3>0. PICK r \in Sent : r = reading
      BY <2>2 DEF WatchesDiscover, Reads
    <3>1. /\ reading \in Sent /\ this.kind = "discover" /\ discoverKey' = this.id
          /\ proposed' = this.version
          /\ fate'[reading] = "forwarded" /\ UNCHANGED initializeKey
      BY <2>2 DEF WatchesDiscover, Reads, Becomes, Typed
    <3>2. answer[reading] = "none" /\ fate[reading] = "sent"
      BY <1>s, <3>1
    <3>3. \A n \in Sent \ {reading} : ~Pending(n, "discover")
      <4>1. Open(reading)
        BY <3>1, <3>2 DEF Open, DialectInv, HandshakesDiffer, Handshakes, this
      <4> QED
        BY <3>1, <4>1 DEF Pending, Open, DialectInv, HandshakesDiffer, Handshakes, this
    <3>4. \A n \in Sent \ {reading} : \A k \in Handshakes : Pending(n, k)' <=> Pending(n, k)
      BY <1>1, <1>2 DEF Pending
    <3>5. Pending(r, "discover")' /\ ~Pending(r, "initialize")'
          /\ ~Pending(r, "initialize")
      <4>1. frames'[r].kind = "discover" /\ frames[r].kind = "discover" /\ answer'[r] = "none"
        BY <1>1, <3>0, <3>1, <3>2 DEF this
      <4> QED
        BY <3>0, <3>1, <4>1 DEF Pending
    <3> QED
      BY <1>1, <3>0, <3>1, <3>3, <3>4, <3>5 DEF DialectInv, KeysAreTheirs, Handshakes, this
  <2>3. CASE ~WatchesInitialize /\ ~WatchesDiscover
    <3>1. UNCHANGED <<initializeKey, discoverKey, proposed>> /\ this.kind \notin Handshakes
      BY <2>3 DEF PumpRequests, Drops, RefusesBatch, Passes, RefusesUnreadable, Asks, Allowed,
         Denied, TellsClient, shared, Reads, PumpInv, Calls, Handshakes
    <3>2. \A n \in Sent : \A k \in Handshakes : Pending(n, k)' <=> Pending(n, k)
      BY <1>1, <1>2, <3>1 DEF Pending, this
    <3> QED
      BY <1>1, <3>1, <3>2 DEF DialectInv, KeysAreTheirs, Handshakes
  <2> QED
    BY <2>1, <2>2, <2>3
<1>7. RefusalFits'
  <2>1. CASE deciding' # "refuse"
    BY <2>1 DEF RefusalFits
  <2>2. CASE deciding' = "refuse"
    <3>1. Refuses /\ reading \in Sent /\ this.kind \in Calls /\ this' = this
      BY <1>1, <2>2 DEF PumpRequests, Drops, RefusesBatch, Passes, WatchesInitialize, WatchesDiscover,
         RefusesUnreadable, Asks, Allowed, Denied, TellsClient, Becomes, Refuses, Reads, PumpInv,
         Calls, this
    <3>2. this.calm => protocolVersion = settled
      BY <3>1, CalmHears
    <3> QED
      BY <1>1, <3>1, <3>2 DEF Refuses, RefusalFits
  <2> QED
    BY <2>1, <2>2
<1> QED
  BY <1>4, <1>5, <1>6, <1>7 DEF DialectInv

\* The answer to a handshake settles for the relay what it will settle for the
\* client.
LEMMA DialectResponding ==
    ASSUME PairInv, DialectInv, NEW n \in 1..MaxSent, NEW ok \in BOOLEAN,
           NEW v \in Versions \cup {0}, NEW s \in SUBSET Versions, Responds(n, ok, v, s)
    PROVE  DialectInv'
<1> USE Parts
<1> DEFINE key == frames[n].id
           found == Negotiated(proposed, s)
<1>1. /\ n \in Sent /\ key # None /\ fate[n] = "forwarded" /\ answer[n] = "none"
      /\ responding = NoReply
      /\ responding' = [of |-> n, version |-> Understands(n, v, s), ok |-> ok]
      /\ \A k \in Sent \ {n} : answer'[k] = answer[k]
      /\ answer'[n] # "none"
      /\ UNCHANGED <<frames, reading, deciding, dialect, fate, settled>> /\ Sent' = Sent /\ this' = this
  BY DEF Responds, Sent, this, Typed
<1>2. /\ protocolVersion' = IF key = discoverKey /\ found # 0 THEN found
                            ELSE IF key = initializeKey THEN v ELSE protocolVersion
      /\ initializeKey' = IF key = initializeKey THEN None ELSE initializeKey
      /\ discoverKey' = IF key = discoverKey THEN None ELSE discoverKey
      /\ proposed' = IF key = discoverKey THEN 0 ELSE proposed
  BY DEF Responds, Notes
<1>3. Open(n) /\ protocolVersion = settled
  BY <1>1 DEF Open, DialectInv, VersionIsHeard
\* whose response this is
<1>4. /\ key = initializeKey <=> frames[n].kind = "initialize"
      /\ key = discoverKey <=> frames[n].kind = "discover"
  <2>1. /\ frames[n].kind = "initialize" => key = initializeKey
        /\ frames[n].kind = "discover" => key = discoverKey
    BY <1>1 DEF Pending, DialectInv, KeysAreTheirs
  <2>2. ASSUME NEW m \in Sent, NEW kind \in Handshakes, Pending(m, kind), frames[m].id = key
        PROVE  frames[n].kind = kind
    BY <1>1, <1>3, <2>2, PendingIsOpen
  <2>3. /\ key = initializeKey => \E m \in Sent : Pending(m, "initialize") /\ frames[m].id = key
        /\ key = discoverKey => \E m \in Sent : Pending(m, "discover") /\ frames[m].id = key
    BY <1>1 DEF DialectInv, KeysAreTheirs
  <2> QED
    BY <2>1, <2>2, <2>3 DEF Handshakes
<1>5. protocolVersion' = Understands(n, v, s)
  <2>1. CASE frames[n].kind = "initialize"
    BY <1>2, <1>4, <2>1 DEF Understands
  <2>2. CASE frames[n].kind = "discover"
    <3>1. proposed = frames[n].version /\ frames[n].version \in Versions
      BY <1>1, <2>2 DEF Pending, DialectInv, KeysAreTheirs, HandshakesDiffer, Handshakes
    <3> DEFINE known == {w \in s : w <= frames[n].version}
    <3>2. IF known = {} THEN found = 0 ELSE found = Newest(known) /\ found # 0
      BY <3>1, SameVersion
    <3>3. Understands(n, v, s) = IF known = {} THEN settled ELSE Newest(known)
      BY <2>2 DEF Understands
    <3>4. protocolVersion' = IF found # 0 THEN found ELSE protocolVersion
      BY <1>2, <1>4, <2>2
    <3> QED
      BY <1>3, <3>2, <3>3, <3>4
  <2>3. CASE frames[n].kind \notin Handshakes
    BY <1>2, <1>3, <1>4, <2>3 DEF Understands, Handshakes
  <2> QED
    BY <2>1, <2>2, <2>3 DEF Handshakes
<1>6. VersionIsHeard'
  <2>1. /\ responding'.of = n /\ responding'.version = protocolVersion' /\ responding' # NoReply
        /\ n # 0
    BY <1>1, <1>5 DEF NoReply
  <2>2. frames[n].kind \notin Handshakes => protocolVersion' = settled
    BY <1>5 DEF Understands, Handshakes
  <2> QED
    BY <1>1, <2>1, <2>2 DEF VersionIsHeard
<1>7. HandshakesDiffer' /\ CalmStays'
  <2>1. \A k \in Sent : Open(k)' => Open(k)
    <3>1. ASSUME NEW k \in Sent \ {n}, Open(k)' PROVE Open(k)
      BY <1>1, <3>1 DEF Open
    <3> QED
      BY <1>3, <3>1
  <2> QED
    BY <1>1, <2>1, NothingOpens
<1>8. KeysAreTheirs'
  <2>1. ASSUME NEW m \in Sent, NEW kind \in Handshakes
        PROVE  Pending(m, kind)' <=> Pending(m, kind) /\ m # n
    BY <1>1 DEF Pending
  <2>2. ASSUME NEW m \in Sent, NEW kind \in Handshakes, Pending(m, kind), m # n
        PROVE  frames[m].id # key
    BY <1>1, <1>3, <2>2, PendingIsOpen
  <2>3. "initialize" \in Handshakes /\ "discover" \in Handshakes
    BY DEF Handshakes
  <2>4. ASSUME NEW m \in Sent
        PROVE  /\ Pending(m, "initialize")' => initializeKey' = frames'[m].id
               /\ Pending(m, "discover")' => discoverKey' = frames'[m].id /\ proposed' = frames'[m].version
    <3>1. /\ Pending(m, "initialize") /\ m # n => initializeKey = frames[m].id /\ initializeKey # key
          /\ Pending(m, "discover") /\ m # n =>
               discoverKey = frames[m].id /\ proposed = frames[m].version /\ discoverKey # key
      BY <2>2, <2>3 DEF DialectInv, KeysAreTheirs
    <3> QED
      BY <1>1, <1>2, <2>1, <2>3, <3>1
  <2>5. initializeKey' # None =>
          \E m \in Sent : Pending(m, "initialize")' /\ frames'[m].id = initializeKey'
    <3>1. ASSUME initializeKey' # None
          PROVE  \E m \in Sent : Pending(m, "initialize")' /\ frames'[m].id = initializeKey'
      <4>1. initializeKey' = initializeKey /\ initializeKey # key /\ initializeKey # None
        BY <1>2, <3>1
      <4>2. PICK m \in Sent : Pending(m, "initialize") /\ frames[m].id = initializeKey
        BY <4>1 DEF DialectInv, KeysAreTheirs
      <4>3. m # n /\ frames'[m].id = initializeKey'
        BY <1>1, <4>1, <4>2
      <4> QED
        BY <2>1, <2>3, <4>2, <4>3
    <3> QED
      BY <3>1
  <2>6. discoverKey' # None =>
          \E m \in Sent : Pending(m, "discover")' /\ frames'[m].id = discoverKey'
    <3>1. ASSUME discoverKey' # None
          PROVE  \E m \in Sent : Pending(m, "discover")' /\ frames'[m].id = discoverKey'
      <4>1. discoverKey' = discoverKey /\ discoverKey # key /\ discoverKey # None
        BY <1>2, <3>1
      <4>2. PICK m \in Sent : Pending(m, "discover") /\ frames[m].id = discoverKey
        BY <4>1 DEF DialectInv, KeysAreTheirs
      <4>3. m # n /\ frames'[m].id = discoverKey'
        BY <1>1, <4>1, <4>2
      <4> QED
        BY <2>1, <2>3, <4>2, <4>3
    <3> QED
      BY <3>1
  <2> QED
    BY <1>1, <2>4, <2>5, <2>6 DEF KeysAreTheirs
<1>9. RefusalFits'
  BY <1>1 DEF DialectInv, RefusalFits
<1> QED
  BY <1>6, <1>7, <1>8, <1>9 DEF DialectInv

\* The client catches up; a refusal in hand for a call sent in calm is not
\* overtaken.
LEMMA DialectRelaying ==
    ASSUME PairInv, DialectInv, Relays
    PROVE  DialectInv'
<1> USE Parts
<1>1. /\ responding # NoReply /\ responding' = NoReply /\ settled' = responding.version
      /\ UNCHANGED <<frames, reading, deciding, dialect, initializeKey, discoverKey, proposed,
                     protocolVersion, fate, answer>>
      /\ Sent' = Sent /\ this' = this
  BY DEF Relays, shared, Sent, this
<1>2. VersionIsHeard'
  BY <1>1 DEF DialectInv, VersionIsHeard
<1>3. HandshakesDiffer' /\ CalmStays'
  <2>1. \A k \in Sent : Open(k)' => Open(k)
    BY <1>1 DEF Open, NoReply
  <2> QED
    BY <1>1, <2>1, NothingOpens
<1>4. KeysAreTheirs'
  BY <1>1 DEF DialectInv, KeysAreTheirs, Pending
<1>5. RefusalFits'
  <2>1. ASSUME deciding = "refuse", this.calm PROVE settled' = settled
    BY <1>1, <2>1, CalmHears DEF PumpInv
  <2> QED
    BY <1>1, <2>1 DEF DialectInv, RefusalFits
<1> QED
  BY <1>2, <1>3, <1>4, <1>5 DEF DialectInv

\* A stuttering step.
LEMMA DialectStanding ==
    ASSUME PairInv, DialectInv, UNCHANGED vars
    PROVE  DialectInv'
<1>1. UNCHANGED <<frames, reading, deciding, dialect, initializeKey, discoverKey, proposed,
                  protocolVersion, responding, fate, answer, settled>>
      /\ Sent' = Sent /\ this' = this
  BY DEF vars, Sent, this
<1>2. HandshakesDiffer' /\ CalmStays'
  BY <1>1, NothingOpens DEF Open
<1>3. KeysAreTheirs' /\ VersionIsHeard' /\ RefusalFits'
  BY <1>1 DEF DialectInv, KeysAreTheirs, Pending, VersionIsHeard, RefusalFits
<1> QED
  BY <1>2, <1>3 DEF DialectInv

\* What the relay takes the version to be, always.
LEMMA DialectInvAlways == PairingSpec => []DialectInv
<1>1. PairingInit => DialectInv
  BY DEF PairingInit, DialectInv, HandshakesDiffer, KeysAreTheirs, VersionIsHeard, CalmStays,
     RefusalFits, Sent
<1>2. ASSUME PairInv, DialectInv, [PairingNext]_vars PROVE DialectInv'
  <2>1. CASE UNCHANGED vars
    BY <1>2, <2>1, DialectStanding
  <2>2. CASE PumpResponses
    BY <1>2, <2>2, DialectResponding, DialectRelaying DEF PumpResponses
  <2> QED
    BY <1>2, <2>1, <2>2, DialectPump, DialectSending DEF PairingNext
<1> QED
  BY <1>1, <1>2, PairInvAlways, PTL DEF PairingSpec

\* A refusal of a call sent in calm is written in the dialect the client takes
\* the session to have, however many versions there are and however the
\* handshakes went (DialectIsNegotiated).
THEOREM DialectsAreNegotiated == PairingSpec => DialectIsNegotiated
<1>1. ASSUME PairInv, DialectInv, [PairingNext]_vars, NEW n \in Sent,
             frames[n].kind \in Calls, frames[n].calm, fate[n] = "sent"
      PROVE  /\ fate'[n] = "refused" => ~ResultsCarryType(settled)
             /\ fate'[n] = "refused typed" => ResultsCarryType(settled)
  <2> SUFFICES ASSUME fate'[n] \in {"refused", "refused typed"}
               PROVE  /\ fate'[n] = "refused" => ~ResultsCarryType(settled)
                      /\ fate'[n] = "refused typed" => ResultsCarryType(settled)
    OBVIOUS
  <2>1. n = reading
    BY <1>1, OneFateChanges
  <2>2. TellsClient
    BY <1>1, <2>1, Parts DEF PairingNext, ClientSends, PumpResponses, Responds, Relays, vars, PumpRequests,
       Drops, RefusesBatch, Passes, WatchesInitialize, WatchesDiscover, RefusesUnreadable, Refuses,
       Asks, Allowed, Denied, Reads, Becomes, Calls, this, PairInv, Typed
  <2>3. fate'[n] = (IF dialect THEN "refused typed" ELSE "refused") /\ deciding = "refuse"
    BY <1>1, <2>1, <2>2, Parts DEF TellsClient, Becomes, Typed
  <2>4. dialect = ResultsCarryType(settled)
    BY <1>1, <2>1, <2>3 DEF DialectInv, RefusalFits, this
  <2> QED
    BY <2>3, <2>4
<1>2. PairInv /\ DialectInv /\ [PairingNext]_vars =>
        [\A n \in Sent :
           frames[n].kind \in Calls /\ frames[n].calm /\ fate[n] = "sent" =>
              /\ fate'[n] = "refused" => ~ResultsCarryType(settled)
              /\ fate'[n] = "refused typed" => ResultsCarryType(settled)]_vars
  BY <1>1
<1> QED
  BY <1>2, PairInvAlways, DialectInvAlways, PTL DEF PairingSpec, DialectIsNegotiated
=============================================================================
