--------------------------- MODULE CallGate_proofs ---------------------------
(***************************************************************************)
(* Proofs about CallGate, for every set of sessions and operators and      *)
(* every bound.                                                            *)
(***************************************************************************)
EXTENDS CallGate, FiniteSetTheorems, TLAPS

-----------------------------------------------------------------------------
(***************************************************************************)
(* The values the actions write are of their types.                        *)
(***************************************************************************)

\* What is put on the wire towards the daemon.
LEMMA Items ==
    /\ \A k \in {"start", "end"} : Event(k, 0) \in Item
    /\ \A k \in {"request", "args", "longargs", "outcome"}, n \in Seqs :
          Event(k, n) \in Item
    /\ \A item \in Item : item.kind \notin {"start", "end"} => item.n \in Seqs
BY DEF Event, Item

\* What a connection's goroutine and a reporter can be doing.
LEMMA Programs ==
    /\ \A pc \in {"accepted", "read", "reject", "cleanup", "final", "closed"} :
          At(pc) \in HandlerState
    /\ \A n \in Seqs :
          /\ Busy("budget", n, "allow") \in HandlerState
          /\ \A d \in {"allow", "deny"} : Busy("append", n, d) \in HandlerState
          /\ \A pc \in {"arm", "pending"} : Busy(pc, n, "pending") \in HandlerState
          /\ \A d \in {"allow", "deny", "undecided"} : Busy("reply", n, d) \in HandlerState
    /\ \A h \in HandlerState :
          /\ h.pc \in {"budget", "append", "arm", "pending", "reply"} => h.n \in Seqs
          /\ h.pc = "append" => h.decision \in {"allow", "deny"}
          /\ h.pc \in {"reply", "pending"} => h.decision \in {"allow", "deny", "undecided", "pending"}
    /\ Idle \in RepState
    /\ \A r \in RepState :
          /\ r.pc \in {"first", "held"} => r.n \in Seqs
          /\ r.pc = "first" => [r EXCEPT !.pc = "held"] \in RepState
          /\ r.pc = "idle" => [r EXCEPT !.pc = "done"] \in RepState
    /\ [pc |-> "dead", n |-> 0] \in RepState
    /\ \A n \in Seqs : [pc |-> "first", n |-> n] \in RepState
BY DEF At, Busy, HandlerState, RepState, Idle

\* The values a held call's record goes through.
LEMMA HoldBegins == [NotHeld EXCEPT !.stage = "held"] \in HoldState
BY DEF HoldState, NotHeld, Timer

LEMMA HoldGoesOn ==
    ASSUME NEW p \in HoldState
    PROVE  /\ \A t \in Timer : [p EXCEPT !.timer = t] \in HoldState
           /\ \A k \in BOOLEAN : [p EXCEPT !.known = k] \in HoldState
           /\ p.known \in BOOLEAN /\ p.timer \in Timer
           /\ p.stage \in Settling =>
                 /\ p.decision \in {"approved", "rejected"}
                 /\ p.told \in {"approved", "rejected", "timed_out", "undecided"}
           /\ p.stage = "won" =>
                 /\ [p EXCEPT !.stage = "recorded"] \in HoldState
                 /\ [p EXCEPT !.stage = "recorded", !.told = "undecided"] \in HoldState
           /\ p.stage = "recorded" => [p EXCEPT !.stage = "done"] \in HoldState
           /\ p.stage \in Settling \cup {"held"} =>
                 [p EXCEPT !.stage = "lost", !.timer = "off"] \in HoldState
           /\ [p EXCEPT !.stage = p.stage, !.timer = "off"] \in HoldState
BY DEF HoldState, Timer, Settling

LEMMA HoldIsWon ==
    ASSUME NEW p \in HoldState, NEW b \in {"human", "timer", "session"},
           NEW d \in {"approved", "rejected"}, NEW t \in Timer,
           NEW told \in {"approved", "rejected", "timed_out", "undecided"}
    PROVE  [p EXCEPT !.stage = "won", !.by = b, !.decision = d, !.told = told, !.timer = t]
               \in HoldState
BY DEF HoldState, Timer

-----------------------------------------------------------------------------
(***************************************************************************)
(* Type correctness, one lemma per party.                                  *)
(***************************************************************************)

\* A goroutine goes to a state of its type.
LEMMA GotoTyped ==
    ASSUME TypeOK, NEW s \in Sessions, NEW state \in HandlerState, Goto(s, state)
    PROVE  handler' \in [Sessions -> HandlerState]
BY DEF TypeOK, Goto

\* A relay's own step leaves every variable in its type.
LEMMA RelayTyped ==
    ASSUME TypeOK, NEW s \in Sessions, Relay(s)
    PROVE  TypeOK'
<1> USE ConstantsAssumption DEF journalVars, daemonVars
<1>1. CASE Connect(s)
  <2>1. <<Event("start", 0)>> \in Seq(Item)
    BY Items
  <2>3. queue' \in [Sessions -> Seq(Item)]
    BY <1>1, <2>1 DEF TypeOK, Connect
  <2>4. link' \in [Sessions -> {"none", "up", "down"}]
    BY <1>1 DEF TypeOK, Connect
  <2>5. handler' \in [Sessions -> HandlerState]
    <3>1. handler' = handler \/ Goto(s, At("accepted"))
      BY <1>1 DEF Connect, Goto
    <3> QED
      BY <3>1, Programs, GotoTyped DEF TypeOK
  <2> QED
    BY <1>1, <2>3, <2>4, <2>5 DEF TypeOK, Connect
<1>2. CASE AskDaemon(s)
  <2> DEFINE n == seq[s] + 1
  <2>1. n \in Seqs
    BY <1>2 DEF TypeOK, AskDaemon, Seqs
  <2>2. Event("request", n) \in Item
    BY <2>1, Items
  <2>3. queue' \in [Sessions -> Seq(Item)]
    BY <1>2, <2>2 DEF TypeOK, AskDaemon, Offer
  <2>4. seq' \in [Sessions -> 0 .. MaxSeq]
    BY <1>2, <2>1 DEF TypeOK, AskDaemon, Seqs
  <2>5. call' \in [Call -> CallState]
    BY <1>2 DEF TypeOK, AskDaemon, CallState, Refusals
  <2> QED
    BY <1>2, <2>3, <2>4, <2>5 DEF TypeOK, AskDaemon
<1>3. CASE GiveUp(s)
  BY <1>3 DEF TypeOK, GiveUp, CallState, Refusals
<1>4. CASE Finish(s)
  <2>1. Event("end", 0) \in Item
    BY Items
  <2>2. queue' \in [Sessions -> Seq(Item)]
    BY <1>4, <2>1 DEF TypeOK, Finish, Offer
  <2> QED
    BY <1>4, <2>2 DEF TypeOK, Finish
<1>5. CASE RelayKilled(s)
  <2>1. rep' \in [Sessions -> RepState]
    BY <1>5, Programs DEF TypeOK, RelayKilled
  <2>2. call' \in [Call -> CallState]
    BY <1>5 DEF TypeOK, RelayKilled, CallState
  <2> QED
    BY <1>5, <2>1, <2>2 DEF TypeOK, RelayKilled
<1>6. ASSUME NEW n \in Seqs, ServerResponds(s, n)
      PROVE  TypeOK'
  <2>1. Event("outcome", n) \in Item
    BY Items
  <2>2. queue' \in [Sessions -> Seq(Item)]
    BY <1>6, <2>1 DEF TypeOK, ServerResponds, Offer
  <2>3. <<s, n>> \in Call
    BY DEF Call
  <2> QED
    BY <1>6, <2>2, <2>3 DEF TypeOK, ServerResponds
<1> QED
  BY <1>1, <1>2, <1>3, <1>4, <1>5, <1>6 DEF Relay

\* A verdict is one of the ways a call ends.
LEMMA VerdictTyped ==
    ASSUME TypeOK, NEW s \in Sessions, NEW n, NEW v \in CallState, Verdict(s, n, v)
    PROVE  call' \in [Call -> CallState]
BY DEF TypeOK, Verdict

LEMMA VerdictsAreStates ==
    /\ "no_decision" \in CallState /\ "timed_out" \in CallState
    /\ \A d \in Answers : VerdictFor(d) \in CallState
BY DEF VerdictFor, CallState, Refusals, Answers, Recordable, Grants

\* The reporter's steps leave every variable in its type.
LEMMA ReporterTyped ==
    ASSUME TypeOK, NEW s \in Sessions, Reporter(s)
    PROVE  TypeOK'
<1> USE DEF journalVars, daemonVars
<1>1. CASE ReporterSends(s)
  <2> DEFINE item == Head(queue[s])
  <2>1. item \in Item /\ queue' \in [Sessions -> Seq(Item)]
    BY <1>1 DEF TypeOK, ReporterSends
  <2>2. c2d' \in [Sessions -> Seq(Item)]
    <3>1. c2d' = [c2d EXCEPT ![s] = Append(@, item)] \/ c2d' = c2d
      BY <1>1 DEF ReporterSends
    <3>2. c2d \in [Sessions -> Seq(Item)]
      BY DEF TypeOK
    <3>3. [c2d EXCEPT ![s] = Append(@, item)] \in [Sessions -> Seq(Item)]
      BY <2>1, <3>2
    <3> QED
      BY <3>1, <3>2, <3>3
  <2>3. d2c' \in [Sessions -> Seq(Decision)]
    <3>1. d2c' = d2c \/ d2c' = [d2c EXCEPT ![s] = <<>>]
      BY <1>1 DEF ReporterSends, Drop
    <3>2. d2c \in [Sessions -> Seq(Decision)]
      BY DEF TypeOK
    <3>3. [d2c EXCEPT ![s] = <<>>] \in [Sessions -> Seq(Decision)]
      BY <3>2
    <3> QED
      BY <3>1, <3>2, <3>3
  <2>4. link' \in [Sessions -> {"none", "up", "down"}]
    BY <1>1 DEF TypeOK, ReporterSends, Drop
  <2>5. rep' \in [Sessions -> RepState]
    <3>1. item.kind = "request" => [pc |-> "first", n |-> item.n] \in RepState
      BY <2>1, Items, Programs
    <3> QED
      BY <1>1, <3>1 DEF TypeOK, ReporterSends
  <2>6. call' \in [Call -> CallState]
    BY <1>1, VerdictTyped, VerdictsAreStates DEF TypeOK, ReporterSends
  <2> QED
    BY <1>1, <2>1, <2>2, <2>3, <2>4, <2>5, <2>6 DEF TypeOK, ReporterSends
<1>2. CASE ReporterReadsFinal(s)
  <2>1. Head(d2c[s]) \in Decision /\ d2c' \in [Sessions -> Seq(Decision)]
    BY <1>2 DEF TypeOK, ReporterReadsFinal
  <2>2. Head(d2c[s]).decision \in Answers
    BY <2>1 DEF Decision
  <2>3. call' \in [Call -> CallState]
    BY <1>2, <2>2, VerdictTyped, VerdictsAreStates DEF ReporterReadsFinal
  <2>4. rep' \in [Sessions -> RepState]
    BY <1>2, Programs DEF TypeOK, ReporterReadsFinal
  <2> QED
    BY <1>2, <2>1, <2>3, <2>4 DEF TypeOK, ReporterReadsFinal
<1>3. CASE ReporterReadsPending(s)
  <2>1. Head(d2c[s]) \in Decision /\ d2c' \in [Sessions -> Seq(Decision)]
    BY <1>3 DEF TypeOK, ReporterReadsPending
  <2>2. Head(d2c[s]).n \in Seqs
    BY <2>1 DEF Decision
  <2>3. c2d' \in [Sessions -> Seq(Item)]
    BY <1>3, <2>2, Items DEF TypeOK, ReporterReadsPending
  <2>4. rep' \in [Sessions -> RepState]
    BY <1>3, Programs DEF TypeOK, ReporterReadsPending
  <2> QED
    BY <1>3, <2>1, <2>3, <2>4 DEF TypeOK, ReporterReadsPending
<1>4. CASE ReporterOutOfStep(s)
  <2>1. call' \in [Call -> CallState]
    BY <1>4, VerdictTyped, VerdictsAreStates DEF ReporterOutOfStep
  <2>2. rep' \in [Sessions -> RepState]
    BY <1>4, Programs DEF TypeOK, ReporterOutOfStep
  <2> QED
    BY <1>4, <2>1, <2>2 DEF TypeOK, ReporterOutOfStep, Drop
<1>5. CASE ReporterGivesUp(s)
  <2>1. call' \in [Call -> CallState]
    BY <1>5, VerdictTyped, VerdictsAreStates DEF ReporterGivesUp
  <2>2. rep' \in [Sessions -> RepState]
    BY <1>5, Programs DEF TypeOK, ReporterGivesUp
  <2> QED
    BY <1>5, <2>1, <2>2 DEF TypeOK, ReporterGivesUp, Drop
<1>6. CASE ReporterEnds(s)
  <2>1. rep' \in [Sessions -> RepState]
    BY <1>6, Programs DEF TypeOK, ReporterEnds
  <2> QED
    BY <1>6, <2>1 DEF TypeOK, ReporterEnds, Drop
<1> QED
  BY <1>1, <1>2, <1>3, <1>4, <1>5, <1>6 DEF Reporter

\* What a received message looks like.
LEMMA ReceivedTyped ==
    ASSUME TypeOK, NEW s \in Sessions, NEW kind, Receives(s, kind)
    PROVE  /\ Head(c2d[s]) \in Item /\ Head(c2d[s]).kind = kind
           /\ c2d' \in [Sessions -> Seq(Item)]
BY DEF TypeOK, Receives

\* A held call's record may be replaced by another of its type.
LEMMA HoldTyped ==
    ASSUME TypeOK, NEW c, c \in Call => hold'[c] \in HoldState,
           \E p : hold' = [hold EXCEPT ![c] = p]
    PROVE  hold' \in [Call -> HoldState]
BY DEF TypeOK

LEMMA TellTyped ==
    ASSUME TypeOK, NEW s \in Sessions, NEW n \in Seqs, NEW d \in Answers, Tell(s, n, d)
    PROVE  d2c' \in [Sessions -> Seq(Decision)]
<1>1. [n |-> n, decision |-> d] \in Decision
  BY DEF Decision
<1> QED
  BY <1>1 DEF TypeOK, Tell

\* Settling a call writes a record of its type.
LEMMA WinTyped ==
    ASSUME TypeOK, NEW c \in Call, NEW b \in {"human", "timer", "session"},
           NEW d \in {"approved", "rejected"},
           NEW told \in {"approved", "rejected", "timed_out", "undecided"},
           Win(c, b, d, told)
    PROVE  hold' \in [Call -> HoldState]
<1> DEFINE p == hold[c]
           t == IF p.timer = "armed" THEN "off" ELSE p.timer
<1>1. p \in HoldState
  BY DEF TypeOK
<1>2. t \in Timer
  BY <1>1, HoldGoesOn DEF Timer
<1> HIDE DEF p, t
<1>3. [p EXCEPT !.stage = "won", !.by = b, !.decision = d, !.told = told, !.timer = t]
          \in HoldState
  BY <1>1, <1>2, HoldIsWon, ZenonT(30)
<1>4. hold' = [hold EXCEPT ![c] = [p EXCEPT !.stage = "won", !.by = b, !.decision = d,
                                            !.told = told, !.timer = t]]
  BY Zenon DEF Win, p, t
<1> QED
  BY <1>3, <1>4 DEF TypeOK, p

\* The daemon's goroutine for a connection leaves every variable in its type.
LEMMA HandlerTyped ==
    ASSUME TypeOK, NEW s \in Sessions, Handler(s)
    PROVE  TypeOK'
<1> USE DEF journalVars, relayVars, daemonVars
<1>1. CASE Accept(s)
  <2>1. handler' \in [Sessions -> HandlerState]
    BY <1>1, Programs, GotoTyped DEF Accept
  <2> QED
    BY <1>1, <2>1 DEF TypeOK, Accept
<1>2. CASE HandleForeign(s)
  <2>1. c2d' \in [Sessions -> Seq(Item)]
    BY <1>2, ReceivedTyped DEF HandleForeign
  <2>2. handler' \in [Sessions -> HandlerState]
    BY <1>2, Programs, GotoTyped DEF HandleForeign
  <2> QED
    BY <1>2, <2>1, <2>2 DEF TypeOK, HandleForeign
<1>3. CASE HandleStart(s)
  <2>1. c2d' \in [Sessions -> Seq(Item)]
    BY <1>3, ReceivedTyped DEF HandleStart
  <2>2. handler' \in [Sessions -> HandlerState]
    <3>1. handler' = handler \/ Goto(s, At("cleanup"))
      BY <1>3 DEF HandleStart
    <3> QED
      BY <3>1, Programs, GotoTyped DEF TypeOK
  <2> QED
    BY <1>3, <2>1, <2>2 DEF TypeOK, HandleStart
<1>4. CASE HandleOutcome(s)
  <2>1. c2d' \in [Sessions -> Seq(Item)] /\ Head(c2d[s]).n \in Seqs
    BY <1>4, ReceivedTyped, Items DEF HandleOutcome
  <2> QED
    BY <1>4, <2>1 DEF TypeOK, HandleOutcome, Call
<1>5. CASE HandleArguments(s)
  <2> DEFINE c == <<s, Head(c2d[s]).n>>
  <2>1. c2d' \in [Sessions -> Seq(Item)] /\ c \in Call
    BY <1>5, ReceivedTyped, Items DEF HandleArguments, Call
  <2>2. hold[c] \in HoldState
    BY <2>1 DEF TypeOK
  <2>3. hold' \in [Call -> HoldState]
    BY <1>5, <2>1, <2>2, HoldGoesOn DEF TypeOK, HandleArguments
  <2> QED
    BY <1>5, <2>1, <2>3 DEF TypeOK, HandleArguments
<1>6. CASE HandleEnd(s)
  <2>1. c2d' \in [Sessions -> Seq(Item)]
    BY <1>6, ReceivedTyped DEF HandleEnd
  <2>2. handler' \in [Sessions -> HandlerState]
    <3>1. handler' = handler \/ Goto(s, At("reject"))
      BY <1>6 DEF HandleEnd
    <3> QED
      BY <3>1, Programs, GotoTyped DEF TypeOK
  <2> QED
    BY <1>6, <2>1, <2>2 DEF TypeOK, HandleEnd
<1>7. CASE HandleRequest(s)
  <2> DEFINE n == Head(c2d[s]).n
  <2>1. c2d' \in [Sessions -> Seq(Item)] /\ n \in Seqs
    <3>1. Receives(s, "request")
      BY <1>7 DEF HandleRequest
    <3> QED
      BY <3>1, ReceivedTyped, Items
  <2>2. handler' \in [Sessions -> HandlerState]
    <3>1. \/ Goto(s, Busy("budget", n, "allow")) \/ Goto(s, Busy("append", n, "deny"))
          \/ Goto(s, Busy("arm", n, "pending")) \/ Goto(s, Busy("reply", n, "undecided"))
      BY <1>7 DEF HandleRequest
    <3> QED
      BY <2>1, <3>1, Programs, GotoTyped
  <2>3. hold' \in [Call -> HoldState]
    BY <1>7, <2>1, HoldBegins DEF TypeOK, HandleRequest
  <2> QED
    BY <1>7, <2>1, <2>2, <2>3 DEF TypeOK, HandleRequest
<1>8. CASE CheckBudgets(s)
  <2> DEFINE n == handler[s].n
  <2>1. n \in Seqs
    BY <1>8, Programs DEF TypeOK, CheckBudgets
  <2>2. handler' \in [Sessions -> HandlerState]
    <3>1. \/ Goto(s, Busy("append", n, "deny")) \/ Goto(s, Busy("append", n, "allow"))
          \/ Goto(s, Busy("reply", n, "undecided"))
      BY <1>8 DEF CheckBudgets
    <3> QED
      BY <2>1, <3>1, Programs, GotoTyped
  <2> QED
    BY <1>8, <2>2 DEF TypeOK, CheckBudgets
<1>9. CASE RecordDecision(s)
  <2> DEFINE n == handler[s].n  d == handler[s].decision
  <2>1. n \in Seqs /\ d \in {"allow", "deny"}
    BY <1>9, Programs DEF TypeOK, RecordDecision
  <2>2. handler' \in [Sessions -> HandlerState]
    <3>1. Goto(s, Busy("reply", n, d)) \/ Goto(s, Busy("reply", n, "undecided"))
      BY <1>9 DEF RecordDecision, ToldUnrecorded
    <3> QED
      BY <2>1, <3>1, Programs, GotoTyped
  <2>3. request' \in [Call -> Recordable \cup {"none"}]
    <3>1. request' = request \/ request' = [request EXCEPT ![<<s, n>>] = d]
      BY <1>9 DEF RecordDecision, RecordOK, RecordFails
    <3> QED
      BY <2>1, <3>1 DEF TypeOK, Recordable, Grants
  <2> QED
    BY <1>9, <2>2, <2>3 DEF TypeOK, RecordDecision
<1>10. CASE ArmTimer(s)
  <2> DEFINE n == handler[s].n  c == <<s, n>>
  <2>1. n \in Seqs
    BY <1>10, Programs DEF TypeOK, ArmTimer
  <2>2. handler' \in [Sessions -> HandlerState]
    BY <1>10, <2>1, Programs, GotoTyped DEF ArmTimer
  <2>3. c \in Call /\ hold[c] \in HoldState
    BY <2>1 DEF TypeOK, Call
  <2>4. hold' \in [Call -> HoldState]
    BY <1>10, <2>3, HoldGoesOn DEF TypeOK, ArmTimer, Arm, Timer
  <2> QED
    BY <1>10, <2>2, <2>4 DEF TypeOK, ArmTimer
<1>11. CASE Reply(s)
  <2> DEFINE n == handler[s].n  d == handler[s].decision
  <2>1. n \in Seqs /\ d \in Answers
    BY <1>11, Programs DEF TypeOK, Reply, Answers, Recordable, Grants
  <2>2. handler' \in [Sessions -> HandlerState]
    <3>1. Goto(s, At("read")) \/ Goto(s, At("cleanup"))
      BY <1>11 DEF Reply
    <3> QED
      BY <3>1, Programs, GotoTyped
  <2>3. d2c' \in [Sessions -> Seq(Decision)]
    <3>1. d2c' = d2c \/ Tell(s, n, d)
      BY <1>11 DEF Reply
    <3> QED
      BY <2>1, <3>1, TellTyped DEF TypeOK
  <2> QED
    BY <1>11, <2>2, <2>3 DEF TypeOK, Reply
<1>12. CASE HandlerEOF(s)
  <2>1. handler' \in [Sessions -> HandlerState]
    BY <1>12, Programs, GotoTyped DEF HandlerEOF
  <2> QED
    BY <1>12, <2>1 DEF TypeOK, HandlerEOF
<1>13. CASE Cleanup(s)
  <2>1. handler' \in [Sessions -> HandlerState]
    <3>1. Goto(s, At("final")) \/ Goto(s, At("closed"))
      BY <1>13 DEF Cleanup
    <3> QED
      BY <3>1, Programs, GotoTyped
  <2> QED
    BY <1>13, <2>1 DEF TypeOK, Cleanup
<1>14. CASE RejectDone(s)
  <2>1. handler' \in [Sessions -> HandlerState]
    <3>1. Goto(s, At("closed")) \/ Goto(s, At("read"))
      BY <1>14 DEF RejectDone
    <3> QED
      BY <3>1, Programs, GotoTyped
  <2> QED
    BY <1>14, <2>1 DEF TypeOK, RejectDone
<1>15. ASSUME NEW n \in Seqs, RejectHeld(s, n)
       PROVE  TypeOK'
  <2>1. <<s, n>> \in Call /\ hold[<<s, n>>] \in HoldState
    BY DEF TypeOK, Call
  <2>2. hold' \in [Call -> HoldState]
    BY <1>15, <2>1, WinTyped DEF RejectHeld
  <2> QED
    BY <1>15, <2>2 DEF TypeOK, RejectHeld
<1> QED
  BY <1>1, <1>2, <1>3, <1>4, <1>5, <1>6, <1>7, <1>8, <1>9, <1>10, <1>11, <1>12,
     <1>13, <1>14, <1>15 DEF Handler

\* Settling a held call leaves every variable in its type.
LEMMA SettleTyped ==
    ASSUME TypeOK, NEW c \in Call, Settle(c)
    PROVE  TypeOK'
<1> USE DEF journalVars, relayVars, daemonVars
<1>0. hold[c] \in HoldState
  BY DEF TypeOK
<1>1. CASE TimerFires(c)
  <2>1. hold' \in [Call -> HoldState]
    BY <1>0, <1>1, HoldGoesOn DEF TypeOK, TimerFires, Timer
  <2> QED
    BY <1>1, <2>1 DEF TypeOK, TimerFires
<1>2. CASE TimeOut(c)
  <2> DEFINE p == [hold[c] EXCEPT !.stage = "won", !.by = "timer", !.decision = "rejected",
                                  !.told = "timed_out", !.timer = "off"]
             q == [hold[c] EXCEPT !.timer = "off"]
  <2>1. p \in HoldState /\ q \in HoldState
    BY <1>0, HoldIsWon, HoldGoesOn DEF Timer
  <2>2. hold' = [hold EXCEPT ![c] = p] \/ hold' = [hold EXCEPT ![c] = q]
    BY <1>0, <1>2 DEF TimeOut, TimedOutTold, TypeOK, HoldState
  <2> HIDE DEF p, q
  <2>3. hold' \in [Call -> HoldState]
    BY <2>1, <2>2 DEF TypeOK
  <2> QED
    BY <1>2, <2>3 DEF TypeOK, TimeOut
<1>3. CASE RecordSettled(c)
  <2> DEFINE d == hold[c].decision
             p == [hold[c] EXCEPT !.stage = "recorded"]
             q == [hold[c] EXCEPT !.stage = "recorded", !.told = "undecided"]
  <2>1. p \in HoldState /\ q \in HoldState /\ d \in {"approved", "rejected"}
    BY <1>0, <1>3, HoldGoesOn DEF RecordSettled, Settling
  <2>2. hold' = [hold EXCEPT ![c] = p] \/ hold' = [hold EXCEPT ![c] = q]
    BY <1>0, <1>3 DEF RecordSettled, ToldUnrecorded, TypeOK, HoldState
  <2>3. request' = request \/ request' = [request EXCEPT ![c] = d]
    BY <1>3 DEF RecordSettled, RecordOK, RecordFails
  <2> HIDE DEF p, q, d
  <2>4. hold' \in [Call -> HoldState]
    BY <2>1, <2>2 DEF TypeOK
  <2>5. request' \in [Call -> Recordable \cup {"none"}]
    BY <2>1, <2>3 DEF TypeOK, Recordable, Grants
  <2> QED
    BY <1>3, <2>4, <2>5 DEF TypeOK, RecordSettled
<1>4. CASE TellSettled(c)
  <2>1. hold' \in [Call -> HoldState]
    BY <1>0, <1>4, HoldGoesOn DEF TypeOK, TellSettled
  <2>2. /\ c[1] \in Sessions /\ c[2] \in Seqs
        /\ hold[c].told \in Answers
    BY <1>0, <1>4, HoldGoesOn DEF TellSettled, Settling, Call, Answers, Recordable, Grants
  <2>3. d2c' \in [Sessions -> Seq(Decision)]
    <3>1. d2c' = d2c \/ Tell(c[1], c[2], hold[c].told)
      BY <1>4 DEF TellSettled
    <3> QED
      BY <2>2, <3>1, TellTyped DEF TypeOK
  <2> QED
    BY <1>4, <2>1, <2>3 DEF TypeOK, TellSettled
<1> QED
  BY <1>1, <1>2, <1>3, <1>4 DEF Settle

\* An operator's steps leave every variable in its type.
LEMMA HumanTyped ==
    ASSUME TypeOK, NEW h \in Humans, Human(h)
    PROVE  TypeOK'
<1> USE DEF journalVars, relayVars
<1>1. CASE HumanDecides(h)
  <2> DEFINE c == human[h].c  d == human[h].decision
  <2>1. c \in Call /\ d \in {"approved", "rejected"}
    BY <1>1 DEF TypeOK, HumanDecides, HumanState
  <2>2. hold' \in [Call -> HoldState]
    <3>1. hold' = hold \/ Win(c, "human", d, d)
      BY <1>1 DEF HumanDecides
    <3> QED
      BY <2>1, <3>1, WinTyped DEF TypeOK
  <2>3. human' \in [Humans -> HumanState]
    BY <1>1 DEF TypeOK, HumanDecides, HumanState
  <2> QED
    BY <1>1, <2>2, <2>3 DEF TypeOK, HumanDecides
<1>2. ASSUME NEW c \in Call, NEW d \in {"approved", "rejected"}, HumanLooksUp(h, c, d)
      PROVE  TypeOK'
  <2>1. human' \in [Humans -> HumanState]
    BY <1>2 DEF TypeOK, HumanLooksUp, HumanState
  <2> QED
    BY <1>2, <2>1 DEF TypeOK, HumanLooksUp
<1> QED
  BY <1>1, <1>2 DEF Human

\* The daemon's comings and goings leave every variable in its type.
LEMMA DaemonTyped ==
    ASSUME TypeOK, DaemonSignalled \/ DaemonExits \/ DaemonStarts
    PROVE  TypeOK'
<1> USE DEF journalVars, relayVars
<1>1. CASE DaemonSignalled
  BY <1>1 DEF TypeOK, DaemonSignalled
<1>2. CASE DaemonExits
  <2>1. handler' \in [Sessions -> HandlerState]
    BY <1>2, Programs DEF TypeOK, DaemonExits
  <2>2. ASSUME NEW c \in Call
        PROVE  [hold[c] EXCEPT !.stage = IF @ \in {"held"} \cup Settling THEN "lost" ELSE @,
                               !.timer = "off"] \in HoldState
    <3>1. hold[c] \in HoldState
      BY DEF TypeOK
    <3> QED
      BY <3>1 DEF HoldState, Timer, Settling
  <2>3. hold' \in [Call -> HoldState]
    BY <1>2, <2>2 DEF DaemonExits
  <2>4. human' \in [Humans -> HumanState]
    BY <1>2 DEF DaemonExits, HumanState
  <2>5. exits' \in 0 .. MaxExits
    <3>1. exits \in 0 .. MaxExits /\ exits < MaxExits /\ exits' = exits + 1
      BY <1>2 DEF TypeOK, DaemonExits
    <3>2. MaxExits \in Nat
      BY ConstantsAssumption
    <3> QED
      BY <3>1, <3>2
  <2>6. c2d' \in [Sessions -> Seq(Item)]
    <3>1. c2d' = [s \in Sessions |-> <<>>]
      BY <1>2 DEF DaemonExits
    <3>2. <<>> \in Seq(Item)
      OBVIOUS
    <3> QED
      BY <3>1, <3>2
  <2> QED
    BY <1>2, <2>1, <2>3, <2>4, <2>5, <2>6 DEF TypeOK, DaemonExits
<1>3. CASE DaemonStarts
  BY <1>3 DEF TypeOK, DaemonStarts
<1> QED
  BY <1>1, <1>2, <1>3

LEMMA InitTyped == Init => TypeOK
<1> SUFFICES ASSUME Init PROVE TypeOK
  OBVIOUS
<1>1. NotHeld \in HoldState /\ At("none") \in HandlerState /\ Idle \in RepState
  BY DEF NotHeld, HoldState, Timer, At, Busy, HandlerState, Idle, RepState
<1>2. NoLookup \in HumanState
  BY DEF HumanState
<1> QED
  BY <1>1, <1>2, ConstantsAssumption
  DEF Init, TypeOK, CallState

LEMMA StepTyped == TypeOK /\ [Next]_vars => TypeOK'
<1> SUFFICES ASSUME TypeOK, [Next]_vars PROVE TypeOK'
  OBVIOUS
<1>1. CASE UNCHANGED vars
  BY <1>1 DEF TypeOK, vars, journalVars, relayVars, daemonVars
<1>2. CASE Next
  BY <1>2, RelayTyped, ReporterTyped, HandlerTyped, SettleTyped, HumanTyped, DaemonTyped
  DEF Next
<1> QED
  BY <1>1, <1>2

\* Every variable of the relay, the sockets, the daemon and the journal keeps
\* to its type: in particular a connection's goroutine never writes a decision
\* entry other than allow or deny, and settle none but approved or rejected.
THEOREM TypeCorrect == Spec => []TypeOK
BY InitTyped, StepTyped, PTL DEF Spec

-----------------------------------------------------------------------------
(***************************************************************************)
(* The record leads: RecordInv is inductive.                               *)
(***************************************************************************)

\* What a queue or a socket carries after it is written to, read or dropped.
LEMMA Carried ==
    ASSUME NEW S, NEW q \in Seq(S)
    PROVE  /\ \A e \in S : Range(Append(q, e)) = Range(q) \cup {e}
           /\ q # <<>> => /\ Head(q) \in Range(q)
                          /\ Range(Tail(q)) \subseteq Range(q)
           /\ Range(q) \subseteq S
<1>1. ASSUME NEW e \in S
      PROVE  Range(Append(q, e)) = Range(q) \cup {e}
  <2>1. \A x \in Range(Append(q, e)) : x \in Range(q) \cup {e}
    BY DEF Range
  <2>2. \A x \in Range(q) : x \in Range(Append(q, e))
    BY DEF Range
  <2>3. e \in Range(Append(q, e))
    <3>1. Len(q) + 1 \in DOMAIN Append(q, e) /\ Append(q, e)[Len(q) + 1] = e
      OBVIOUS
    <3> QED
      BY <3>1 DEF Range
  <2> QED
    BY <2>1, <2>2, <2>3
<1>2. ASSUME q # <<>>
      PROVE  Head(q) \in Range(q) /\ Range(Tail(q)) \subseteq Range(q)
  <2>1. 1 \in DOMAIN q /\ Head(q) = q[1]
    BY <1>2
  <2>2. \A i \in DOMAIN Tail(q) : i + 1 \in DOMAIN q /\ Tail(q)[i] = q[i + 1]
    BY <1>2
  <2> QED
    BY <2>1, <2>2 DEF Range
<1>3. Range(q) \subseteq S
  BY DEF Range
<1> QED
  BY <1>1, <1>2, <1>3

LEMMA NothingCarried == Range(<<>>) = {}
BY DEF Range

\* Queueing one more event adds that event at most.
LEMMA Enqueued ==
    ASSUME TypeOK, NEW s \in Sessions, NEW e \in Item, Offer(s, e)
    PROVE  \A t \in Sessions :
              Range(queue'[t]) \subseteq Range(queue[t]) \cup (IF t = s THEN {e} ELSE {})
<1>1. ASSUME NEW t \in Sessions
      PROVE  queue'[t] = queue[t] \/ (t = s /\ queue'[t] = Append(queue[t], e))
  BY <1>1 DEF TypeOK, Offer
<1>2. ASSUME NEW t \in Sessions
      PROVE  Range(Append(queue[t], e)) = Range(queue[t]) \cup {e}
  BY <1>2, Carried DEF TypeOK
<1> QED
  BY <1>1, <1>2

\* Events that were there already, or report no outcome, change nothing.
LEMMA ReportedKept ==
    ASSUME ReportedOutcomeIsGranted, UNCHANGED request,
           \A s \in Sessions : \A e \in Range(queue'[s]) \cup Range(c2d'[s]) :
              \/ e \in Range(queue[s]) \cup Range(c2d[s])
              \/ e.kind = "outcome" => request[<<s, e.n>>] \in Grants
    PROVE  ReportedOutcomeIsGranted'
BY DEF ReportedOutcomeIsGranted

\* Answers that were there already, or agree with the record, change nothing.
LEMMA AnswersKept ==
    ASSUME AnswersAreRecorded, UNCHANGED request,
           \A s \in Sessions : \A m \in Range(d2c'[s]) :
              \/ m \in Range(d2c[s])
              \/ m.decision \in Recordable => request[<<s, m.n>>] = m.decision
    PROVE  AnswersAreRecorded'
BY DEF AnswersAreRecorded

\* A goroutine that goes anywhere but to a wrong reply changes nothing.
LEMMA RepliesKept ==
    ASSUME TypeOK, ReplyIsRecorded, UNCHANGED request, NEW s \in Sessions, NEW state,
           handler' = handler \/ Goto(s, state),
           state.pc = "reply" /\ state.decision \in Recordable
              => request[<<s, state.n>>] = state.decision
    PROVE  ReplyIsRecorded'
<1>1. \A t \in Sessions : handler'[t] = handler[t] \/ (t = s /\ handler'[t] = state)
  BY DEF TypeOK, Goto
<1> QED
  BY <1>1 DEF ReplyIsRecorded

\* One verdict that agrees with the record changes nothing.
LEMMA VerdictsKept ==
    ASSUME TypeOK, ForwardedIsRecorded, RefusalMatchesRecord, UnspentIsUnasked,
           UNCHANGED <<request, seq>>, NEW s \in Sessions, NEW n, NEW v, Verdict(s, n, v),
           v = "forwarded" => request[<<s, n>>] \in Grants,
           v = "denied" => request[<<s, n>>] = "deny",
           v = "rejected" => request[<<s, n>>] = "rejected"
    PROVE  ForwardedIsRecorded' /\ RefusalMatchesRecord' /\ UnspentIsUnasked'
<1>1. \A c \in Call : call'[c] = call[c] \/ (call[c] = "asked" /\ c = <<s, n>> /\ call'[c] = v)
  BY DEF TypeOK, Verdict
<1>2. ForwardedIsRecorded'
  BY <1>1 DEF ForwardedIsRecorded
<1>3. RefusalMatchesRecord'
  BY <1>1 DEF RefusalMatchesRecord
<1>4. UnspentIsUnasked'
  BY <1>1 DEF UnspentIsUnasked, Call
<1> QED
  BY <1>2, <1>3, <1>4

\* A relay's own steps keep the invariant.
LEMMA RelayKeeps ==
    ASSUME RecordInv, TypeOK', NEW s \in Sessions, Relay(s)
    PROVE  RecordInv'
<1> USE DEF journalVars, daemonVars
<1>0. TypeOK
  BY DEF RecordInv
<1>1. CASE Connect(s)
  <2>1. /\ SettledIsRecorded' /\ AnswersAreRecorded' /\ ForwardedIsRecorded'
        /\ RefusalMatchesRecord' /\ OutcomeFollowsGrant' /\ UnspentIsUnasked'
    BY <1>1 DEF RecordInv, SettledIsRecorded, AnswersAreRecorded, ForwardedIsRecorded,
       RefusalMatchesRecord, OutcomeFollowsGrant, UnspentIsUnasked, Connect
  <2>2. ReplyIsRecorded'
    <3>1. (handler' = handler \/ Goto(s, At("accepted"))) /\ request' = request
      BY <1>1 DEF Connect, Goto
    <3> QED
      BY <1>0, <3>1, RepliesKept DEF RecordInv, At, Busy
  <2>3. ReportedOutcomeIsGranted'
    <3>1. /\ c2d' = c2d /\ request' = request
          /\ queue' = [queue EXCEPT ![s] = <<Event("start", 0)>>]
      BY <1>1 DEF Connect
    <3>2. \A e \in Range(<<Event("start", 0)>>) : e.kind = "start"
      BY DEF Range, Event
    <3> QED
      BY <1>0, <3>1, <3>2 DEF RecordInv, TypeOK, ReportedOutcomeIsGranted
  <2> QED
    BY <2>1, <2>2, <2>3 DEF RecordInv
<1>2. CASE AskDaemon(s)
  <2>1. /\ ReplyIsRecorded' /\ SettledIsRecorded' /\ AnswersAreRecorded'
        /\ OutcomeFollowsGrant'
    BY <1>2 DEF RecordInv, ReplyIsRecorded, SettledIsRecorded, AnswersAreRecorded,
       OutcomeFollowsGrant, AskDaemon
  <2>2. ForwardedIsRecorded'
    BY <1>0, <1>2 DEF RecordInv, TypeOK, ForwardedIsRecorded, AskDaemon
  <2>3. RefusalMatchesRecord'
    BY <1>0, <1>2 DEF RecordInv, TypeOK, RefusalMatchesRecord, AskDaemon
  <2>4. ReportedOutcomeIsGranted'
    <3>1. c2d' = c2d /\ request' = request /\ Offer(s, Event("request", seq[s] + 1))
      BY <1>2 DEF AskDaemon
    <3>2. Event("request", seq[s] + 1) \in Item
      BY <1>0, <1>2, Items DEF TypeOK, AskDaemon, Seqs
    <3>3. Event("request", seq[s] + 1).kind # "outcome"
      BY DEF Event
    <3> QED
      BY <1>0, <3>1, <3>2, <3>3, Enqueued, ReportedKept DEF RecordInv
  <2>5. UnspentIsUnasked'
    <3>1. seq[s] \in Nat /\ \A n \in Seqs : n \in Nat
      BY <1>0, ConstantsAssumption DEF TypeOK, Seqs
    <3>2. seq' = [seq EXCEPT ![s] = seq[s] + 1]
      BY <1>2 DEF AskDaemon
    <3>3. \A c \in Call : call'[c] = call[c] \/ c = <<s, seq[s] + 1>>
      BY <1>0, <1>2 DEF TypeOK, AskDaemon
    <3>4. \A t \in Sessions, n \in Seqs : n > seq'[t] => n > seq[t] /\ (t = s => n # seq[s] + 1)
      BY <1>0, <3>1, <3>2, ConstantsAssumption DEF TypeOK, Seqs
    <3> QED
      BY <3>3, <3>4 DEF RecordInv, UnspentIsUnasked, Call
  <2> QED
    BY <2>1, <2>2, <2>3, <2>4, <2>5 DEF RecordInv
<1>3. CASE GiveUp(s)
  <2>1. /\ ReplyIsRecorded' /\ SettledIsRecorded' /\ AnswersAreRecorded'
        /\ ReportedOutcomeIsGranted' /\ OutcomeFollowsGrant'
    BY <1>3 DEF RecordInv, ReplyIsRecorded, SettledIsRecorded, AnswersAreRecorded,
       ReportedOutcomeIsGranted, OutcomeFollowsGrant, GiveUp
  <2>2. ForwardedIsRecorded'
    BY <1>0, <1>3 DEF RecordInv, TypeOK, ForwardedIsRecorded, GiveUp
  <2>3. RefusalMatchesRecord'
    BY <1>0, <1>3 DEF RecordInv, TypeOK, RefusalMatchesRecord, GiveUp
  <2>4. UnspentIsUnasked'
    <3>1. \A c \in Call : call[c] = "none" => call'[c] = "none"
      BY <1>0, <1>3 DEF TypeOK, GiveUp, PumpWaits
    <3> QED
      BY <1>3, <3>1 DEF RecordInv, UnspentIsUnasked, GiveUp, Call
  <2> QED
    BY <2>1, <2>2, <2>3, <2>4 DEF RecordInv
<1>4. CASE Finish(s)
  <2>1. /\ ReplyIsRecorded' /\ SettledIsRecorded' /\ AnswersAreRecorded'
        /\ ForwardedIsRecorded' /\ RefusalMatchesRecord' /\ OutcomeFollowsGrant'
        /\ UnspentIsUnasked'
    BY <1>4 DEF RecordInv, ReplyIsRecorded, SettledIsRecorded, AnswersAreRecorded,
       ForwardedIsRecorded, RefusalMatchesRecord, OutcomeFollowsGrant, UnspentIsUnasked,
       Finish
  <2>2. ReportedOutcomeIsGranted'
    <3>1. c2d' = c2d /\ request' = request /\ Offer(s, Event("end", 0))
      BY <1>4 DEF Finish
    <3>2. Event("end", 0) \in Item /\ Event("end", 0).kind # "outcome"
      BY Items DEF Event
    <3> QED
      BY <1>0, <3>1, <3>2, Enqueued, ReportedKept DEF RecordInv
  <2> QED
    BY <2>1, <2>2 DEF RecordInv
<1>5. CASE RelayKilled(s)
  <2>1. /\ ReplyIsRecorded' /\ SettledIsRecorded' /\ OutcomeFollowsGrant'
    BY <1>5 DEF RecordInv, ReplyIsRecorded, SettledIsRecorded, OutcomeFollowsGrant,
       RelayKilled
  <2>2. AnswersAreRecorded'
    BY <1>0, <1>5, NothingCarried DEF RecordInv, TypeOK, AnswersAreRecorded, RelayKilled
  <2>3. ForwardedIsRecorded'
    BY <1>0, <1>5 DEF RecordInv, TypeOK, ForwardedIsRecorded, RelayKilled
  <2>4. RefusalMatchesRecord'
    BY <1>0, <1>5 DEF RecordInv, TypeOK, RefusalMatchesRecord, RelayKilled
  <2>5. ReportedOutcomeIsGranted'
    BY <1>0, <1>5, NothingCarried
    DEF RecordInv, TypeOK, ReportedOutcomeIsGranted, RelayKilled
  <2>6. UnspentIsUnasked'
    BY <1>0, <1>5 DEF RecordInv, TypeOK, UnspentIsUnasked, RelayKilled, Call
  <2> QED
    BY <2>1, <2>2, <2>3, <2>4, <2>5, <2>6 DEF RecordInv
<1>6. ASSUME NEW n \in Seqs, ServerResponds(s, n)
      PROVE  RecordInv'
  <2>1. /\ ReplyIsRecorded' /\ SettledIsRecorded' /\ AnswersAreRecorded'
        /\ ForwardedIsRecorded' /\ RefusalMatchesRecord' /\ OutcomeFollowsGrant'
        /\ UnspentIsUnasked'
    BY <1>6 DEF RecordInv, ReplyIsRecorded, SettledIsRecorded, AnswersAreRecorded,
       ForwardedIsRecorded, RefusalMatchesRecord, OutcomeFollowsGrant, UnspentIsUnasked,
       ServerResponds
  <2>2. ReportedOutcomeIsGranted'
    <3>1. c2d' = c2d /\ request' = request /\ Offer(s, Event("outcome", n))
      BY <1>6 DEF ServerResponds
    <3>2. Event("outcome", n) \in Item /\ Event("outcome", n).n = n
      BY Items DEF Event
    <3>3. request[<<s, n>>] \in Grants
      BY <1>6 DEF RecordInv, ForwardedIsRecorded, ServerResponds, Call
    <3> QED
      BY <1>0, <3>1, <3>2, <3>3, Enqueued, ReportedKept DEF RecordInv
  <2> QED
    BY <2>1, <2>2 DEF RecordInv
<1> QED
  BY <1>1, <1>2, <1>3, <1>4, <1>5, <1>6 DEF Relay

\* The reporter's steps keep the invariant.
LEMMA ReporterKeeps ==
    ASSUME RecordInv, TypeOK', NEW s \in Sessions, Reporter(s)
    PROVE  RecordInv'
<1> USE DEF journalVars, daemonVars
<1>0. TypeOK
  BY DEF RecordInv
<1>1. CASE ReporterSends(s)
  <2> DEFINE item == Head(queue[s])
  <2>1. ReplyIsRecorded' /\ SettledIsRecorded' /\ OutcomeFollowsGrant'
    BY <1>1 DEF RecordInv, ReplyIsRecorded, SettledIsRecorded, OutcomeFollowsGrant,
                ReporterSends
  <2>2. AnswersAreRecorded'
    <3>1. (d2c' = d2c \/ d2c' = [d2c EXCEPT ![s] = <<>>]) /\ request' = request
      BY <1>1 DEF ReporterSends, Drop
    <3>2. \A t \in Sessions : Range(d2c'[t]) \subseteq Range(d2c[t])
      BY <1>0, <3>1, NothingCarried DEF TypeOK
    <3> QED
      BY <3>1, <3>2, AnswersKept DEF RecordInv
  <2>3. ForwardedIsRecorded' /\ RefusalMatchesRecord' /\ UnspentIsUnasked'
    <3>1. /\ request' = request /\ seq' = seq
          /\ call' = call \/ Verdict(s, item.n, "no_decision")
      BY <1>1 DEF ReporterSends
    <3>2. CASE call' = call
      BY <3>1, <3>2 DEF RecordInv, ForwardedIsRecorded, RefusalMatchesRecord, UnspentIsUnasked
    <3> QED
      BY <1>0, <3>1, <3>2, VerdictsKept DEF RecordInv
  <2>4. ReportedOutcomeIsGranted'
    <3>1. /\ request' = request
          /\ queue[s] \in Seq(Item) /\ queue[s] # <<>> /\ c2d[s] \in Seq(Item)
          /\ queue' = [queue EXCEPT ![s] = Tail(@)]
          /\ c2d' = c2d \/ c2d' = [c2d EXCEPT ![s] = Append(@, item)]
      BY <1>0, <1>1 DEF TypeOK, ReporterSends
    <3>2. item \in Item /\ item \in Range(queue[s]) /\ Range(Tail(queue[s])) \subseteq Range(queue[s])
      BY <3>1, Carried
    <3>3. \A t \in Sessions :
             /\ Range(queue'[t]) \subseteq Range(queue[t])
             /\ Range(c2d'[t]) \subseteq Range(c2d[t]) \cup (IF t = s THEN {item} ELSE {})
      <4>1. Range(Append(c2d[s], item)) = Range(c2d[s]) \cup {item}
        BY <3>1, <3>2, Carried
      <4> HIDE DEF item
      <4> QED
        BY <1>0, <3>1, <3>2, <4>1 DEF TypeOK
    <3> HIDE DEF item
    <3> QED
      BY <3>1, <3>2, <3>3, ReportedKept DEF RecordInv
  <2> QED
    BY <2>1, <2>2, <2>3, <2>4 DEF RecordInv
<1>2. CASE ReporterReadsFinal(s)
  <2> DEFINE m == Head(d2c[s])
  <2>1. /\ ReplyIsRecorded' /\ SettledIsRecorded' /\ OutcomeFollowsGrant'
        /\ ReportedOutcomeIsGranted'
    BY <1>2 DEF RecordInv, ReplyIsRecorded, SettledIsRecorded, OutcomeFollowsGrant,
                ReportedOutcomeIsGranted, ReporterReadsFinal
  <2>2. /\ d2c[s] \in Seq(Decision) /\ d2c[s] # <<>> /\ request' = request
        /\ d2c' = [d2c EXCEPT ![s] = Tail(@)]
    BY <1>0, <1>2 DEF TypeOK, ReporterReadsFinal
  <2>3. m \in Range(d2c[s]) /\ Range(Tail(d2c[s])) \subseteq Range(d2c[s])
    BY <2>2, Carried
  <2>4. AnswersAreRecorded'
    <3>1. \A t \in Sessions : Range(d2c'[t]) \subseteq Range(d2c[t])
      BY <1>0, <2>2, <2>3 DEF TypeOK
    <3> QED
      BY <2>2, <3>1, AnswersKept DEF RecordInv
  <2>5. m.decision \in Recordable => request[<<s, m.n>>] = m.decision
    BY <2>3 DEF RecordInv, AnswersAreRecorded
  <2>6. /\ VerdictFor(m.decision) = "forwarded" => request[<<s, m.n>>] \in Grants
        /\ VerdictFor(m.decision) = "denied" => request[<<s, m.n>>] = "deny"
        /\ VerdictFor(m.decision) = "rejected" => request[<<s, m.n>>] = "rejected"
    BY <2>5 DEF VerdictFor, Recordable, Grants
  <2>7. ForwardedIsRecorded' /\ RefusalMatchesRecord' /\ UnspentIsUnasked'
    <3>1. Verdict(s, m.n, VerdictFor(m.decision)) /\ request' = request /\ seq' = seq
      BY <1>2 DEF ReporterReadsFinal
    <3> HIDE DEF m
    <3> QED
      BY <1>0, <2>6, <3>1, VerdictsKept DEF RecordInv
  <2> QED
    BY <2>1, <2>4, <2>7 DEF RecordInv
<1>3. CASE ReporterReadsPending(s)
  <2>1. /\ ReplyIsRecorded' /\ SettledIsRecorded' /\ OutcomeFollowsGrant'
        /\ ForwardedIsRecorded' /\ RefusalMatchesRecord' /\ UnspentIsUnasked'
    BY <1>3 DEF RecordInv, ReplyIsRecorded, SettledIsRecorded, OutcomeFollowsGrant,
                ForwardedIsRecorded, RefusalMatchesRecord, UnspentIsUnasked,
                ReporterReadsPending
  <2>2. AnswersAreRecorded'
    <3>1. /\ d2c[s] \in Seq(Decision) /\ d2c[s] # <<>> /\ request' = request
          /\ d2c' = [d2c EXCEPT ![s] = Tail(@)]
      BY <1>0, <1>3 DEF TypeOK, ReporterReadsPending
    <3>2. Range(Tail(d2c[s])) \subseteq Range(d2c[s])
      BY <3>1, Carried
    <3>3. \A t \in Sessions : Range(d2c'[t]) \subseteq Range(d2c[t])
      BY <1>0, <3>1, <3>2 DEF TypeOK
    <3> QED
      BY <3>1, <3>3, AnswersKept DEF RecordInv
  <2>3. ReportedOutcomeIsGranted'
    <3>1. Head(d2c[s]).n \in Seqs
      <4>1. Head(d2c[s]) \in Decision
        BY <1>0, <1>3 DEF TypeOK, ReporterReadsPending
      <4> QED
        BY <4>1 DEF Decision
    <3>2. PICK kind \in {"args", "longargs"} :
             c2d' = [c2d EXCEPT ![s] = Append(@, Event(kind, Head(d2c[s]).n))]
      BY <1>3 DEF ReporterReadsPending
    <3> DEFINE e == Event(kind, Head(d2c[s]).n)
    <3>3. e \in Item /\ e.kind # "outcome"
      BY <3>1, Items DEF Event
    <3> HIDE DEF e
    <3>4. Range(Append(c2d[s], e)) = Range(c2d[s]) \cup {e}
      BY <1>0, <3>3, Carried DEF TypeOK
    <3>5. /\ c2d' = [c2d EXCEPT ![s] = Append(@, e)]
          /\ queue' = queue /\ request' = request
      BY <1>3, <3>2 DEF ReporterReadsPending, e
    <3>6. \A t \in Sessions : c2d'[t] = c2d[t] \/ (t = s /\ c2d'[t] = Append(c2d[s], e))
      BY <1>0, <3>5 DEF TypeOK
    <3> QED
      BY <3>3, <3>4, <3>5, <3>6, ReportedKept DEF RecordInv
  <2> QED
    BY <2>1, <2>2, <2>3 DEF RecordInv
<1>4. CASE ReporterOutOfStep(s)
  <2>1. /\ ReplyIsRecorded' /\ SettledIsRecorded' /\ OutcomeFollowsGrant'
        /\ ReportedOutcomeIsGranted'
    BY <1>4 DEF RecordInv, ReplyIsRecorded, SettledIsRecorded, OutcomeFollowsGrant,
                ReportedOutcomeIsGranted, ReporterOutOfStep
  <2>2. AnswersAreRecorded'
    <3>1. d2c' = [d2c EXCEPT ![s] = <<>>] /\ request' = request
      BY <1>4 DEF ReporterOutOfStep, Drop
    <3>2. \A t \in Sessions : Range(d2c'[t]) \subseteq Range(d2c[t])
      BY <1>0, <3>1, NothingCarried DEF TypeOK
    <3> QED
      BY <3>1, <3>2, AnswersKept DEF RecordInv
  <2>3. ForwardedIsRecorded' /\ RefusalMatchesRecord' /\ UnspentIsUnasked'
    <3>1. Verdict(s, rep[s].n, "no_decision") /\ request' = request /\ seq' = seq
      BY <1>4 DEF ReporterOutOfStep
    <3> QED
      BY <1>0, <3>1, VerdictsKept DEF RecordInv
  <2> QED
    BY <2>1, <2>2, <2>3 DEF RecordInv
<1>5. CASE ReporterGivesUp(s)
  <2>1. /\ ReplyIsRecorded' /\ SettledIsRecorded' /\ OutcomeFollowsGrant'
        /\ ReportedOutcomeIsGranted'
    BY <1>5 DEF RecordInv, ReplyIsRecorded, SettledIsRecorded, OutcomeFollowsGrant,
                ReportedOutcomeIsGranted, ReporterGivesUp
  <2>2. AnswersAreRecorded'
    <3>1. d2c' = [d2c EXCEPT ![s] = <<>>] /\ request' = request
      BY <1>5 DEF ReporterGivesUp, Drop
    <3>2. \A t \in Sessions : Range(d2c'[t]) \subseteq Range(d2c[t])
      BY <1>0, <3>1, NothingCarried DEF TypeOK
    <3> QED
      BY <3>1, <3>2, AnswersKept DEF RecordInv
  <2>3. ForwardedIsRecorded' /\ RefusalMatchesRecord' /\ UnspentIsUnasked'
    <3>1. PICK v \in {"no_decision", "timed_out"} : Verdict(s, rep[s].n, v)
      BY <1>5 DEF ReporterGivesUp
    <3>2. request' = request /\ seq' = seq
      BY <1>5 DEF ReporterGivesUp
    <3> QED
      BY <1>0, <3>1, <3>2, VerdictsKept DEF RecordInv
  <2> QED
    BY <2>1, <2>2, <2>3 DEF RecordInv
<1>6. CASE ReporterEnds(s)
  <2>1. /\ ReplyIsRecorded' /\ SettledIsRecorded' /\ OutcomeFollowsGrant'
        /\ ReportedOutcomeIsGranted'
    BY <1>6 DEF RecordInv, ReplyIsRecorded, SettledIsRecorded, OutcomeFollowsGrant,
                ReportedOutcomeIsGranted, ReporterEnds
  <2>2. AnswersAreRecorded'
    <3>1. d2c' = [d2c EXCEPT ![s] = <<>>] /\ request' = request
      BY <1>6 DEF ReporterEnds, Drop
    <3>2. \A t \in Sessions : Range(d2c'[t]) \subseteq Range(d2c[t])
      BY <1>0, <3>1, NothingCarried DEF TypeOK
    <3> QED
      BY <3>1, <3>2, AnswersKept DEF RecordInv
  <2>3. ForwardedIsRecorded' /\ RefusalMatchesRecord' /\ UnspentIsUnasked'
    BY <1>6 DEF RecordInv, ForwardedIsRecorded, RefusalMatchesRecord, UnspentIsUnasked,
                ReporterEnds
  <2> QED
    BY <2>1, <2>2, <2>3 DEF RecordInv
<1> QED
  BY <1>1, <1>2, <1>3, <1>4, <1>5, <1>6 DEF Reporter

\* Reading a message leaves nothing new to read.
LEMMA ReadingKeepsReports ==
    ASSUME TypeOK, ReportedOutcomeIsGranted, UNCHANGED <<request, queue>>,
           NEW s \in Sessions, NEW kind, Receives(s, kind)
    PROVE  ReportedOutcomeIsGranted'
<1>1. /\ c2d[s] \in Seq(Item) /\ c2d[s] # <<>> /\ c2d' = [c2d EXCEPT ![s] = Tail(@)]
  BY DEF TypeOK, Receives
<1>2. Range(Tail(c2d[s])) \subseteq Range(c2d[s])
  BY <1>1, Carried
<1>3. \A t \in Sessions : Range(c2d'[t]) \subseteq Range(c2d[t])
  BY <1>1, <1>2 DEF TypeOK
<1> QED
  BY <1>3, ReportedKept

\* A held call that is not settled, or whose settler tells what it decided,
\* changes nothing.
LEMMA SettledKept ==
    ASSUME SettledIsRecorded, UNCHANGED request,
           \A c \in Call :
              LET p == hold[c]  q == hold'[c] IN
              \/ q.stage = p.stage /\ q.told = p.told /\ q.decision = p.decision
              \/ q.stage \notin Settling
              \/ q.told \notin Recordable
              \/ q.stage = "won" /\ q.told = q.decision
    PROVE  SettledIsRecorded'
BY DEF SettledIsRecorded, Settling

LEMMA WinKeepsSettled ==
    ASSUME TypeOK, SettledIsRecorded, UNCHANGED request, NEW c \in Call, NEW by, NEW d, NEW told,
           Win(c, by, d, told), told \in Recordable => told = d
    PROVE  SettledIsRecorded'
<1>1. ASSUME NEW b \in Call
      PROVE  \/ hold'[b] = hold[b]
             \/ hold'[b].stage = "won" /\ hold'[b].told = told /\ hold'[b].decision = d
  <2>1. hold[b] \in HoldState
    BY DEF TypeOK
  <2> QED
    BY <2>1 DEF TypeOK, Win, HoldState
<1> QED
  BY <1>1, SettledKept

\* What is on record stays, so whatever agreed with it still does.
LEMMA RecordedStays ==
    ASSUME TypeOK, NEW c \in Call, NEW d \in Recordable,
           request' = request \/ RecordOK(c, d)
    PROVE  \A b \in Call : request[b] \in Recordable => request'[b] = request[b]
BY DEF TypeOK, RecordOK, Recordable, Grants

LEMMA RecordingKeeps ==
    ASSUME RecordInv, NEW c \in Call, NEW d \in Recordable,
           request' = request \/ RecordOK(c, d),
           UNCHANGED <<outcome, call, seq, queue, c2d, d2c>>
    PROVE  /\ AnswersAreRecorded' /\ ForwardedIsRecorded' /\ RefusalMatchesRecord'
           /\ ReportedOutcomeIsGranted' /\ OutcomeFollowsGrant' /\ UnspentIsUnasked'
<1>0. TypeOK
  BY DEF RecordInv
<1>1. \A b \in Call : request[b] \in Recordable => request'[b] = request[b]
  BY <1>0, RecordedStays
<1>2. AnswersAreRecorded'
  <2>1. ASSUME NEW s \in Sessions, NEW m \in Range(d2c[s])
        PROVE  <<s, m.n>> \in Call
    <3>1. m \in Decision
      BY <1>0, <2>1, Carried DEF TypeOK
    <3> QED
      BY <3>1 DEF Decision, Call
  <2> QED
    BY <1>1, <2>1 DEF RecordInv, AnswersAreRecorded
<1>3. ForwardedIsRecorded' /\ RefusalMatchesRecord'
  BY <1>1 DEF RecordInv, ForwardedIsRecorded, RefusalMatchesRecord, Recordable, Grants
<1>4. ReportedOutcomeIsGranted'
  <2>1. ASSUME NEW s \in Sessions, NEW e \in Range(queue[s]) \cup Range(c2d[s]),
               e.kind = "outcome"
        PROVE  <<s, e.n>> \in Call
    <3>1. e \in Item
      BY <1>0, <2>1, Carried DEF TypeOK
    <3> QED
      BY <2>1, <3>1, Items DEF Call
  <2> QED
    BY <1>1, <2>1 DEF RecordInv, ReportedOutcomeIsGranted, Recordable
<1>5. OutcomeFollowsGrant'
  BY <1>0, <1>1 DEF RecordInv, TypeOK, OutcomeFollowsGrant, Recordable
<1>6. UnspentIsUnasked'
  BY DEF RecordInv, UnspentIsUnasked
<1> QED
  BY <1>2, <1>3, <1>4, <1>5, <1>6

\* The steps of the daemon's goroutine for a connection keep the invariant.
LEMMA HandlerKeeps ==
    ASSUME RecordInv, TypeOK', NEW s \in Sessions, Handler(s)
    PROVE  RecordInv'
<1> USE DEF journalVars, relayVars, daemonVars
<1>0. TypeOK
  BY DEF RecordInv
<1>1. CASE Accept(s)
  <2>1. /\ SettledIsRecorded' /\ AnswersAreRecorded' /\ ForwardedIsRecorded'
        /\ RefusalMatchesRecord' /\ ReportedOutcomeIsGranted' /\ OutcomeFollowsGrant'
        /\ UnspentIsUnasked'
    BY <1>1 DEF RecordInv, SettledIsRecorded, AnswersAreRecorded, ForwardedIsRecorded,
       RefusalMatchesRecord, ReportedOutcomeIsGranted, OutcomeFollowsGrant,
       UnspentIsUnasked, Accept
  <2>2. ReplyIsRecorded'
    <3>1. (Goto(s, At("read")) \/ Goto(s, At("closed"))) /\ request' = request
      BY <1>1 DEF Accept
    <3> QED
      BY <1>0, <3>1, RepliesKept DEF RecordInv, At, Busy
  <2> QED
    BY <2>1, <2>2 DEF RecordInv
<1>2. CASE HandleForeign(s)
  <2>1. /\ SettledIsRecorded' /\ AnswersAreRecorded' /\ ForwardedIsRecorded'
        /\ RefusalMatchesRecord' /\ OutcomeFollowsGrant' /\ UnspentIsUnasked'
    BY <1>2 DEF RecordInv, SettledIsRecorded, AnswersAreRecorded, ForwardedIsRecorded,
       RefusalMatchesRecord, OutcomeFollowsGrant, UnspentIsUnasked, HandleForeign
  <2>2. ReplyIsRecorded'
    <3>1. Goto(s, At("cleanup")) /\ request' = request
      BY <1>2 DEF HandleForeign
    <3> QED
      BY <1>0, <3>1, RepliesKept DEF RecordInv, At, Busy
  <2>3. ReportedOutcomeIsGranted'
    <3>1. PICK kind : Receives(s, kind)
      BY <1>2 DEF HandleForeign
    <3>2. UNCHANGED <<request, queue>>
      BY <1>2 DEF HandleForeign
    <3> QED
      BY <1>0, <3>1, <3>2, ReadingKeepsReports DEF RecordInv
  <2> QED
    BY <2>1, <2>2, <2>3 DEF RecordInv
<1>3. CASE HandleStart(s)
  <2>1. /\ SettledIsRecorded' /\ AnswersAreRecorded' /\ ForwardedIsRecorded'
        /\ RefusalMatchesRecord' /\ OutcomeFollowsGrant' /\ UnspentIsUnasked'
    BY <1>3 DEF RecordInv, SettledIsRecorded, AnswersAreRecorded, ForwardedIsRecorded,
       RefusalMatchesRecord, OutcomeFollowsGrant, UnspentIsUnasked, HandleStart
  <2>2. ReplyIsRecorded'
    <3>1. (handler' = handler \/ Goto(s, At("cleanup"))) /\ request' = request
      BY <1>3 DEF HandleStart
    <3> QED
      BY <1>0, <3>1, RepliesKept DEF RecordInv, At, Busy
  <2>3. ReportedOutcomeIsGranted'
    <3>1. Receives(s, "start") /\ UNCHANGED <<request, queue>>
      BY <1>3 DEF HandleStart
    <3> QED
      BY <1>0, <3>1, ReadingKeepsReports DEF RecordInv
  <2> QED
    BY <2>1, <2>2, <2>3 DEF RecordInv
<1>4. CASE HandleOutcome(s)
  <2>1. /\ ReplyIsRecorded' /\ SettledIsRecorded' /\ AnswersAreRecorded'
        /\ ForwardedIsRecorded' /\ RefusalMatchesRecord' /\ UnspentIsUnasked'
    BY <1>4 DEF RecordInv, ReplyIsRecorded, SettledIsRecorded, AnswersAreRecorded,
       ForwardedIsRecorded, RefusalMatchesRecord, UnspentIsUnasked, HandleOutcome
  <2>2. ReportedOutcomeIsGranted'
    <3>1. Receives(s, "outcome") /\ UNCHANGED <<request, queue>>
      BY <1>4 DEF HandleOutcome
    <3> QED
      BY <1>0, <3>1, ReadingKeepsReports DEF RecordInv
  <2>3. OutcomeFollowsGrant'
    <3>1. c2d[s] \in Seq(Item) /\ c2d[s] # <<>> /\ Head(c2d[s]).kind = "outcome"
      BY <1>0, <1>4 DEF TypeOK, HandleOutcome, Receives
    <3>2. request[<<s, Head(c2d[s]).n>>] \in Grants
      BY <3>1, Carried DEF RecordInv, ReportedOutcomeIsGranted
    <3> QED
      BY <1>4, <3>2 DEF RecordInv, OutcomeFollowsGrant, HandleOutcome
  <2> QED
    BY <2>1, <2>2, <2>3 DEF RecordInv
<1>5. CASE HandleArguments(s)
  <2>1. /\ ReplyIsRecorded' /\ AnswersAreRecorded' /\ ForwardedIsRecorded'
        /\ RefusalMatchesRecord' /\ OutcomeFollowsGrant' /\ UnspentIsUnasked'
    BY <1>5 DEF RecordInv, ReplyIsRecorded, AnswersAreRecorded, ForwardedIsRecorded,
       RefusalMatchesRecord, OutcomeFollowsGrant, UnspentIsUnasked, HandleArguments
  <2>2. SettledIsRecorded'
    <3>1. ASSUME NEW b \in Call
          PROVE  /\ hold'[b].stage = hold[b].stage /\ hold'[b].told = hold[b].told
                 /\ hold'[b].decision = hold[b].decision
      <4>1. hold[b] \in HoldState
        BY <1>0 DEF TypeOK
      <4> DEFINE c == <<s, Head(c2d[s]).n>>
                 k == hold[c].known \/ hold[c].stage = "held"
      <4>2. hold' = [hold EXCEPT ![c].known = k]
        BY <1>5 DEF HandleArguments
      <4> HIDE DEF c, k
      <4>3. hold'[b] = hold[b] \/ hold'[b] = [hold[b] EXCEPT !.known = k]
        BY <1>0, <4>2 DEF TypeOK
      <4> QED
        BY <4>1, <4>3 DEF HoldState
    <3> QED
      BY <1>5, <3>1, SettledKept DEF RecordInv, HandleArguments
  <2>3. ReportedOutcomeIsGranted'
    <3>1. Receives(s, "args") /\ UNCHANGED <<request, queue>>
      BY <1>5 DEF HandleArguments
    <3> QED
      BY <1>0, <3>1, ReadingKeepsReports DEF RecordInv
  <2> QED
    BY <2>1, <2>2, <2>3 DEF RecordInv
<1>6. CASE HandleEnd(s)
  <2>1. /\ SettledIsRecorded' /\ AnswersAreRecorded' /\ ForwardedIsRecorded'
        /\ RefusalMatchesRecord' /\ OutcomeFollowsGrant' /\ UnspentIsUnasked'
    BY <1>6 DEF RecordInv, SettledIsRecorded, AnswersAreRecorded, ForwardedIsRecorded,
       RefusalMatchesRecord, OutcomeFollowsGrant, UnspentIsUnasked, HandleEnd
  <2>2. ReplyIsRecorded'
    <3>1. (handler' = handler \/ Goto(s, At("reject"))) /\ request' = request
      BY <1>6 DEF HandleEnd
    <3> QED
      BY <1>0, <3>1, RepliesKept DEF RecordInv, At, Busy
  <2>3. ReportedOutcomeIsGranted'
    <3>1. Receives(s, "end") /\ UNCHANGED <<request, queue>>
      BY <1>6 DEF HandleEnd
    <3> QED
      BY <1>0, <3>1, ReadingKeepsReports DEF RecordInv
  <2> QED
    BY <2>1, <2>2, <2>3 DEF RecordInv
<1>7. CASE HandleRequest(s)
  <2>1. /\ AnswersAreRecorded' /\ ForwardedIsRecorded' /\ RefusalMatchesRecord'
        /\ OutcomeFollowsGrant' /\ UnspentIsUnasked'
    BY <1>7 DEF RecordInv, AnswersAreRecorded, ForwardedIsRecorded,
       RefusalMatchesRecord, OutcomeFollowsGrant, UnspentIsUnasked, HandleRequest
  <2>2. ReplyIsRecorded'
    <3> DEFINE n == Head(c2d[s]).n
    <3>1. \/ Goto(s, Busy("budget", n, "allow")) \/ Goto(s, Busy("append", n, "deny"))
          \/ Goto(s, Busy("arm", n, "pending")) \/ Goto(s, Busy("reply", n, "undecided"))
      BY <1>7 DEF HandleRequest
    <3>2. request' = request
      BY <1>7 DEF HandleRequest
    <3> HIDE DEF n
    <3>3. "undecided" \notin Recordable
      BY DEF Recordable, Grants
    <3> QED
      BY <1>0, <3>1, <3>2, <3>3, RepliesKept DEF RecordInv, Busy
  <2>3. SettledIsRecorded'
    <3>1. ASSUME NEW b \in Call
          PROVE  hold'[b] = hold[b] \/ hold'[b].stage = "held"
      <4> DEFINE c == <<s, Head(c2d[s]).n>>  p == [NotHeld EXCEPT !.stage = "held"]
      <4>1. hold' = hold \/ hold' = [hold EXCEPT ![c] = p]
        BY <1>7 DEF HandleRequest
      <4>2. p.stage = "held"
        BY DEF NotHeld
      <4> HIDE DEF c, p
      <4> QED
        BY <1>0, <4>1, <4>2 DEF TypeOK
    <3>2. "held" \notin Settling /\ request' = request
      BY <1>7 DEF Settling, HandleRequest
    <3> QED
      BY <3>1, <3>2, SettledKept DEF RecordInv
  <2>4. ReportedOutcomeIsGranted'
    <3>1. Receives(s, "request") /\ UNCHANGED <<request, queue>>
      BY <1>7 DEF HandleRequest
    <3> QED
      BY <1>0, <3>1, ReadingKeepsReports DEF RecordInv
  <2> QED
    BY <2>1, <2>2, <2>3, <2>4 DEF RecordInv
<1>8. CASE CheckBudgets(s)
  <2>1. /\ SettledIsRecorded' /\ AnswersAreRecorded' /\ ForwardedIsRecorded'
        /\ RefusalMatchesRecord' /\ ReportedOutcomeIsGranted' /\ OutcomeFollowsGrant'
        /\ UnspentIsUnasked'
    BY <1>8 DEF RecordInv, SettledIsRecorded, AnswersAreRecorded, ForwardedIsRecorded,
       RefusalMatchesRecord, ReportedOutcomeIsGranted, OutcomeFollowsGrant,
       UnspentIsUnasked, CheckBudgets
  <2>2. ReplyIsRecorded'
    <3> DEFINE n == handler[s].n
    <3>1. /\ \/ Goto(s, Busy("append", n, "deny")) \/ Goto(s, Busy("append", n, "allow"))
             \/ Goto(s, Busy("reply", n, "undecided"))
          /\ request' = request
      BY <1>8 DEF CheckBudgets
    <3> HIDE DEF n
    <3>2. "undecided" \notin Recordable
      BY DEF Recordable, Grants
    <3> QED
      BY <1>0, <3>1, <3>2, RepliesKept DEF RecordInv, Busy
  <2> QED
    BY <2>1, <2>2 DEF RecordInv
<1>9. CASE RecordDecision(s)
  <2> DEFINE n == handler[s].n  d == handler[s].decision
  <2>1. n \in Seqs /\ d \in {"allow", "deny"} /\ <<s, n>> \in Call
    BY <1>0, <1>9, Programs DEF TypeOK, RecordDecision, Call
  <2>2. \/ RecordOK(<<s, n>>, d) /\ Goto(s, Busy("reply", n, d))
        \/ request' = request /\ Goto(s, Busy("reply", n, "undecided"))
    BY <1>9 DEF RecordDecision, RecordFails, ToldUnrecorded
  <2>3. UNCHANGED <<outcome, call, seq, queue, c2d, d2c, hold>>
    BY <1>9 DEF RecordDecision
  <2> HIDE DEF n, d
  <2>4. d \in Recordable
    BY <2>1 DEF Recordable, Grants
  <2>5. \A b \in Call : request[b] \in Recordable => request'[b] = request[b]
    BY <1>0, <2>1, <2>2, <2>4, RecordedStays
  <2>6. ReplyIsRecorded'
    <3>1. \A t \in Sessions :
             \/ handler'[t] = handler[t]
             \/ t = s /\ handler'[t] = Busy("reply", n, d) /\ request'[<<s, n>>] = d
             \/ t = s /\ handler'[t] = Busy("reply", n, "undecided")
      BY <1>0, <2>1, <2>2 DEF TypeOK, Goto, RecordOK
    <3>2. \A t \in Sessions :
             handler[t].pc = "reply" /\ handler[t].decision \in Recordable
                => request'[<<t, handler[t].n>>] = handler[t].decision
      BY <1>0, <2>5, Programs DEF RecordInv, TypeOK, ReplyIsRecorded, Call
    <3>3. "undecided" \notin Recordable
      BY DEF Recordable, Grants
    <3> QED
      BY <3>1, <3>2, <3>3 DEF ReplyIsRecorded, Busy
  <2>7. SettledIsRecorded'
    BY <2>3, <2>5 DEF RecordInv, SettledIsRecorded
  <2>8. /\ AnswersAreRecorded' /\ ForwardedIsRecorded' /\ RefusalMatchesRecord'
        /\ ReportedOutcomeIsGranted' /\ OutcomeFollowsGrant' /\ UnspentIsUnasked'
    BY <2>1, <2>2, <2>3, <2>4, RecordingKeeps
  <2> QED
    BY <2>6, <2>7, <2>8 DEF RecordInv
<1>10. CASE ArmTimer(s)
  <2>1. /\ AnswersAreRecorded' /\ ForwardedIsRecorded' /\ RefusalMatchesRecord'
        /\ ReportedOutcomeIsGranted' /\ OutcomeFollowsGrant' /\ UnspentIsUnasked'
    BY <1>10 DEF RecordInv, AnswersAreRecorded, ForwardedIsRecorded,
       RefusalMatchesRecord, ReportedOutcomeIsGranted, OutcomeFollowsGrant,
       UnspentIsUnasked, ArmTimer
  <2>2. ReplyIsRecorded'
    <3>1. Goto(s, Busy("pending", handler[s].n, "pending")) /\ request' = request
      BY <1>10 DEF ArmTimer
    <3> QED
      BY <1>0, <3>1, RepliesKept DEF RecordInv, Busy
  <2>3. SettledIsRecorded'
    <3>1. ASSUME NEW b \in Call
          PROVE  /\ hold'[b].stage = hold[b].stage /\ hold'[b].told = hold[b].told
                 /\ hold'[b].decision = hold[b].decision
      <4>1. hold[b] \in HoldState
        BY <1>0 DEF TypeOK
      <4>2. hold'[b] = hold[b] \/ hold'[b] = [hold[b] EXCEPT !.timer = "armed"]
        BY <1>0, <1>10 DEF TypeOK, ArmTimer, Arm
      <4> QED
        BY <4>1, <4>2 DEF HoldState
    <3> QED
      BY <1>10, <3>1, SettledKept DEF RecordInv, ArmTimer
  <2> QED
    BY <2>1, <2>2, <2>3 DEF RecordInv
<1>11. CASE Reply(s)
  <2>1. /\ SettledIsRecorded' /\ ForwardedIsRecorded' /\ RefusalMatchesRecord'
        /\ ReportedOutcomeIsGranted' /\ OutcomeFollowsGrant' /\ UnspentIsUnasked'
    BY <1>11 DEF RecordInv, SettledIsRecorded, ForwardedIsRecorded,
       RefusalMatchesRecord, ReportedOutcomeIsGranted, OutcomeFollowsGrant,
       UnspentIsUnasked, Reply
  <2>2. ReplyIsRecorded'
    <3>1. (Goto(s, At("read")) \/ Goto(s, At("cleanup"))) /\ request' = request
      BY <1>11 DEF Reply
    <3> QED
      BY <1>0, <3>1, RepliesKept DEF RecordInv, At, Busy
  <2>3. AnswersAreRecorded'
    <3> DEFINE n == handler[s].n  d == handler[s].decision
               m == [n |-> n, decision |-> d]
    <3>1. /\ n \in Seqs /\ d \in Answers /\ handler[s].pc \in {"reply", "pending"}
          /\ (d2c' = d2c \/ d2c' = [d2c EXCEPT ![s] = Append(@, m)])
          /\ request' = request
      BY <1>0, <1>11, Programs DEF TypeOK, Reply, Tell, Answers, Recordable, Grants
    <3>2. m \in Decision
      BY <3>1 DEF Decision
    <3>3. d \in Recordable => request[<<s, n>>] = d
      <4>1. handler[s].pc = "pending" => d = "pending"
        BY <1>0 DEF TypeOK, HandlerState
      <4> QED
        BY <3>1, <4>1 DEF RecordInv, ReplyIsRecorded, Recordable, Grants
    <3>4. m.n = n /\ m.decision = d
      OBVIOUS
    <3> HIDE DEF n, d, m
    <3>5. Range(Append(d2c[s], m)) = Range(d2c[s]) \cup {m}
      BY <1>0, <3>2, Carried DEF TypeOK
    <3>6. \A t \in Sessions : d2c'[t] = d2c[t] \/ (t = s /\ d2c'[t] = Append(d2c[s], m))
      BY <1>0, <3>1 DEF TypeOK
    <3> QED
      BY <3>1, <3>3, <3>4, <3>5, <3>6, AnswersKept DEF RecordInv
  <2> QED
    BY <2>1, <2>2, <2>3 DEF RecordInv
<1>12. CASE HandlerEOF(s)
  <2>1. /\ SettledIsRecorded' /\ AnswersAreRecorded' /\ ForwardedIsRecorded'
        /\ RefusalMatchesRecord' /\ ReportedOutcomeIsGranted' /\ OutcomeFollowsGrant'
        /\ UnspentIsUnasked'
    BY <1>12 DEF RecordInv, SettledIsRecorded, AnswersAreRecorded, ForwardedIsRecorded,
       RefusalMatchesRecord, ReportedOutcomeIsGranted, OutcomeFollowsGrant,
       UnspentIsUnasked, HandlerEOF
  <2>2. ReplyIsRecorded'
    <3>1. Goto(s, At("cleanup")) /\ request' = request
      BY <1>12 DEF HandlerEOF
    <3> QED
      BY <1>0, <3>1, RepliesKept DEF RecordInv, At, Busy
  <2> QED
    BY <2>1, <2>2 DEF RecordInv
<1>13. CASE Cleanup(s)
  <2>1. /\ SettledIsRecorded' /\ AnswersAreRecorded' /\ ForwardedIsRecorded'
        /\ RefusalMatchesRecord' /\ ReportedOutcomeIsGranted' /\ OutcomeFollowsGrant'
        /\ UnspentIsUnasked'
    BY <1>13 DEF RecordInv, SettledIsRecorded, AnswersAreRecorded, ForwardedIsRecorded,
       RefusalMatchesRecord, ReportedOutcomeIsGranted, OutcomeFollowsGrant,
       UnspentIsUnasked, Cleanup
  <2>2. ReplyIsRecorded'
    <3>1. (Goto(s, At("final")) \/ Goto(s, At("closed"))) /\ request' = request
      BY <1>13 DEF Cleanup
    <3> QED
      BY <1>0, <3>1, RepliesKept DEF RecordInv, At, Busy
  <2> QED
    BY <2>1, <2>2 DEF RecordInv
<1>14. CASE RejectDone(s)
  <2>1. /\ SettledIsRecorded' /\ AnswersAreRecorded' /\ ForwardedIsRecorded'
        /\ RefusalMatchesRecord' /\ ReportedOutcomeIsGranted' /\ OutcomeFollowsGrant'
        /\ UnspentIsUnasked'
    BY <1>14 DEF RecordInv, SettledIsRecorded, AnswersAreRecorded, ForwardedIsRecorded,
       RefusalMatchesRecord, ReportedOutcomeIsGranted, OutcomeFollowsGrant,
       UnspentIsUnasked, RejectDone
  <2>2. ReplyIsRecorded'
    <3>1. (Goto(s, At("closed")) \/ Goto(s, At("read"))) /\ request' = request
      BY <1>14 DEF RejectDone
    <3> QED
      BY <1>0, <3>1, RepliesKept DEF RecordInv, At, Busy
  <2> QED
    BY <2>1, <2>2 DEF RecordInv
<1>15. ASSUME NEW n \in Seqs, RejectHeld(s, n)
       PROVE  RecordInv'
  <2>1. /\ ReplyIsRecorded' /\ AnswersAreRecorded' /\ ForwardedIsRecorded'
        /\ RefusalMatchesRecord' /\ ReportedOutcomeIsGranted' /\ OutcomeFollowsGrant'
        /\ UnspentIsUnasked'
    BY <1>15 DEF RecordInv, ReplyIsRecorded, AnswersAreRecorded, ForwardedIsRecorded,
       RefusalMatchesRecord, ReportedOutcomeIsGranted, OutcomeFollowsGrant,
       UnspentIsUnasked, RejectHeld
  <2>2. SettledIsRecorded'
    BY <1>0, <1>15, WinKeepsSettled DEF RecordInv, RejectHeld, Call
  <2> QED
    BY <2>1, <2>2 DEF RecordInv
<1> QED
  BY <1>1, <1>2, <1>3, <1>4, <1>5, <1>6, <1>7, <1>8, <1>9, <1>10, <1>11, <1>12,
     <1>13, <1>14, <1>15 DEF Handler

\* Settling a held call keeps the invariant.
LEMMA SettleKeeps ==
    ASSUME RecordInv, TypeOK', NEW c \in Call, Settle(c)
    PROVE  RecordInv'
<1> USE DEF journalVars, relayVars, daemonVars
<1>0. TypeOK /\ hold[c] \in HoldState
  BY DEF RecordInv, TypeOK
<1>1. CASE TimerFires(c)
  <2>1. SettledIsRecorded'
    <3>1. ASSUME NEW b \in Call
          PROVE  /\ hold'[b].stage = hold[b].stage /\ hold'[b].told = hold[b].told
                 /\ hold'[b].decision = hold[b].decision
      <4>1. hold[b] \in HoldState
        BY <1>0 DEF TypeOK
      <4>2. hold'[b] = hold[b] \/ hold'[b] = [hold[b] EXCEPT !.timer = "fired"]
        BY <1>0, <1>1 DEF TypeOK, TimerFires
      <4> QED
        BY <4>1, <4>2 DEF HoldState
    <3> QED
      BY <1>1, <3>1, SettledKept DEF RecordInv, TimerFires
  <2>2. ReplyIsRecorded'
    BY <1>1 DEF RecordInv, ReplyIsRecorded, TimerFires
  <2>3. /\ AnswersAreRecorded' /\ ForwardedIsRecorded' /\ RefusalMatchesRecord'
        /\ ReportedOutcomeIsGranted' /\ OutcomeFollowsGrant' /\ UnspentIsUnasked'
    BY <1>1, RecordingKeeps DEF TimerFires, Recordable
  <2> QED
    BY <2>1, <2>2, <2>3 DEF RecordInv
<1>2. CASE TimeOut(c)
  <2>1. SettledIsRecorded'
    <3>1. ASSUME NEW b \in Call
          PROVE  \/ /\ hold'[b].stage = hold[b].stage /\ hold'[b].told = hold[b].told
                    /\ hold'[b].decision = hold[b].decision
                 \/ hold'[b].told = "timed_out"
      <4>1. hold[b] \in HoldState
        BY <1>0 DEF TypeOK
      <4>2. \/ hold'[b] = hold[b]
            \/ hold'[b] = [hold[b] EXCEPT !.stage = "won", !.by = "timer",
                                          !.decision = "rejected", !.told = "timed_out",
                                          !.timer = "off"]
            \/ hold'[b] = [hold[b] EXCEPT !.timer = "off"]
        BY <1>0, <1>2 DEF TypeOK, HoldState, TimeOut, TimedOutTold
      <4> QED
        BY <4>1, <4>2 DEF HoldState
    <3>2. "timed_out" \notin Recordable /\ request' = request
      BY <1>2 DEF Recordable, Grants, TimeOut
    <3> QED
      BY <3>1, <3>2, SettledKept DEF RecordInv
  <2>2. ReplyIsRecorded'
    BY <1>2 DEF RecordInv, ReplyIsRecorded, TimeOut
  <2>3. /\ AnswersAreRecorded' /\ ForwardedIsRecorded' /\ RefusalMatchesRecord'
        /\ ReportedOutcomeIsGranted' /\ OutcomeFollowsGrant' /\ UnspentIsUnasked'
    BY <1>2, RecordingKeeps DEF TimeOut, Recordable
  <2> QED
    BY <2>1, <2>2, <2>3 DEF RecordInv
<1>3. CASE RecordSettled(c)
  <2> DEFINE d == hold[c].decision
  <2>1. d \in Recordable /\ hold[c].stage = "won"
    BY <1>0, <1>3, HoldGoesOn DEF RecordSettled, Settling, Recordable, Grants
  <2>2. \/ RecordOK(c, d) /\ hold' = [hold EXCEPT ![c].stage = "recorded"]
        \/ request' = request
           /\ hold' = [hold EXCEPT ![c].stage = "recorded", ![c].told = "undecided"]
    BY <1>3 DEF RecordSettled, RecordFails, ToldUnrecorded
  <2>3. UNCHANGED <<outcome, call, seq, queue, c2d, d2c, handler>>
    BY <1>3 DEF RecordSettled
  <2> HIDE DEF d
  <2>4. \A b \in Call : request[b] \in Recordable => request'[b] = request[b]
    BY <1>0, <2>1, <2>2, RecordedStays
  <2>5. ReplyIsRecorded'
    BY <1>0, <2>3, <2>4, Programs DEF RecordInv, TypeOK, ReplyIsRecorded, Call
  <2>6. SettledIsRecorded'
    <3>1. ASSUME NEW b \in Call, b # c
          PROVE  hold'[b] = hold[b]
      BY <1>0, <2>2, <3>1 DEF TypeOK
    <3>2. \/ /\ hold'[c].stage = "recorded" /\ hold'[c].told = hold[c].told
             /\ request'[c] = d
          \/ hold'[c].told = "undecided"
      BY <1>0, <2>2 DEF TypeOK, HoldState, RecordOK
    <3>3. hold[c].told \in Recordable => hold[c].told = d
      BY <2>1 DEF RecordInv, SettledIsRecorded, d
    <3>4. "undecided" \notin Recordable
      BY DEF Recordable, Grants
    <3> QED
      BY <2>4, <3>1, <3>2, <3>3, <3>4 DEF RecordInv, SettledIsRecorded
  <2>7. /\ AnswersAreRecorded' /\ ForwardedIsRecorded' /\ RefusalMatchesRecord'
        /\ ReportedOutcomeIsGranted' /\ OutcomeFollowsGrant' /\ UnspentIsUnasked'
    BY <2>1, <2>2, <2>3, RecordingKeeps
  <2> QED
    BY <2>5, <2>6, <2>7 DEF RecordInv
<1>4. CASE TellSettled(c)
  <2> DEFINE s == c[1]  n == c[2]  d == hold[c].told  m == [n |-> n, decision |-> d]
  <2>1. /\ s \in Sessions /\ n \in Seqs /\ c = <<s, n>> /\ d \in Answers
        /\ hold[c].stage = "recorded"
    <3>1. hold[c].stage = "recorded" /\ c \in Sessions \X Seqs
      BY <1>4 DEF TellSettled, Call
    <3>2. hold[c].told \in {"approved", "rejected", "timed_out", "undecided"}
      BY <1>0, <3>1, HoldGoesOn DEF Settling
    <3> QED
      BY <3>1, <3>2 DEF Answers, Recordable, Grants
  <2>2. SettledIsRecorded'
    <3>1. ASSUME NEW b \in Call
          PROVE  hold'[b] = hold[b] \/ hold'[b].stage = "done"
      BY <1>0, <1>4 DEF TypeOK, HoldState, TellSettled
    <3>2. "done" \notin Settling /\ request' = request
      BY <1>4 DEF Settling, TellSettled
    <3> QED
      BY <3>1, <3>2, SettledKept DEF RecordInv
  <2>3. AnswersAreRecorded'
    <3>1. /\ d2c' = d2c \/ d2c' = [d2c EXCEPT ![s] = Append(@, m)]
          /\ request' = request
      BY <1>4 DEF TellSettled, Tell
    <3>2. m \in Decision /\ m.n = n /\ m.decision = d
      BY <2>1 DEF Decision
    <3>3. d \in Recordable => request[<<s, n>>] = d
      BY <2>1 DEF RecordInv, SettledIsRecorded
    <3> HIDE DEF s, n, d, m
    <3>4. Range(Append(d2c[s], m)) = Range(d2c[s]) \cup {m}
      BY <1>0, <2>1, <3>2, Carried DEF TypeOK
    <3>5. \A t \in Sessions : d2c'[t] = d2c[t] \/ (t = s /\ d2c'[t] = Append(d2c[s], m))
      BY <1>0, <3>1 DEF TypeOK
    <3> QED
      BY <3>1, <3>2, <3>3, <3>4, <3>5, AnswersKept DEF RecordInv
  <2>4. /\ ReplyIsRecorded' /\ ForwardedIsRecorded' /\ RefusalMatchesRecord'
        /\ ReportedOutcomeIsGranted' /\ OutcomeFollowsGrant' /\ UnspentIsUnasked'
    BY <1>4 DEF RecordInv, ReplyIsRecorded, ForwardedIsRecorded, RefusalMatchesRecord,
                ReportedOutcomeIsGranted, OutcomeFollowsGrant, UnspentIsUnasked, TellSettled
  <2> QED
    BY <2>2, <2>3, <2>4 DEF RecordInv
<1> QED
  BY <1>1, <1>2, <1>3, <1>4 DEF Settle

\* An operator's decision keeps the invariant.
LEMMA HumanKeeps ==
    ASSUME RecordInv, TypeOK', NEW h \in Humans, Human(h)
    PROVE  RecordInv'
<1> USE DEF journalVars, relayVars
<1>0. TypeOK
  BY DEF RecordInv
<1>1. UNCHANGED <<request, outcome, call, seq, queue, c2d, d2c, handler>>
  BY DEF Human, HumanDecides, HumanLooksUp
<1>2. SettledIsRecorded'
  <2>1. CASE HumanDecides(h)
    <3> DEFINE c == human[h].c  d == human[h].decision
    <3>1. c \in Call
      BY <1>0, <2>1 DEF TypeOK, HumanDecides, HumanState
    <3>2. hold' = hold \/ Win(c, "human", d, d)
      BY <2>1 DEF HumanDecides
    <3>3. CASE hold' = hold
      BY <1>1, <3>3 DEF RecordInv, SettledIsRecorded
    <3> QED
      BY <1>0, <1>1, <3>1, <3>2, <3>3, WinKeepsSettled DEF RecordInv
  <2>2. CASE hold' = hold
    BY <1>1, <2>2 DEF RecordInv, SettledIsRecorded
  <2> QED
    BY <2>1, <2>2 DEF Human, HumanLooksUp
<1>3. /\ ReplyIsRecorded' /\ AnswersAreRecorded' /\ ForwardedIsRecorded'
      /\ RefusalMatchesRecord' /\ ReportedOutcomeIsGranted' /\ OutcomeFollowsGrant'
      /\ UnspentIsUnasked'
  BY <1>1 DEF RecordInv, ReplyIsRecorded, AnswersAreRecorded, ForwardedIsRecorded,
              RefusalMatchesRecord, ReportedOutcomeIsGranted, OutcomeFollowsGrant,
              UnspentIsUnasked
<1> QED
  BY <1>2, <1>3 DEF RecordInv

\* A daemon that goes away takes its goroutines and held calls along, and
\* leaves the record and the answers already on the wire.
LEMMA DaemonKeeps ==
    ASSUME RecordInv, TypeOK', DaemonSignalled \/ DaemonExits \/ DaemonStarts
    PROVE  RecordInv'
<1> USE DEF journalVars, relayVars
<1>0. TypeOK
  BY DEF RecordInv
<1>1. UNCHANGED <<request, outcome, call, seq, queue, d2c>>
  BY DEF DaemonSignalled, DaemonExits, DaemonStarts
<1>2. \A s \in Sessions : handler'[s] = handler[s] \/ handler'[s] = At("closed")
  BY <1>0 DEF TypeOK, DaemonSignalled, DaemonExits, DaemonStarts
<1>3. ReplyIsRecorded'
  BY <1>1, <1>2 DEF RecordInv, ReplyIsRecorded, At, Busy
<1>4. SettledIsRecorded'
  <2>1. ASSUME NEW c \in Call
        PROVE  hold'[c] = hold[c] \/ hold'[c].stage \notin Settling
    <3>1. hold[c] \in HoldState
      BY <1>0 DEF TypeOK
    <3>2. \/ hold' = hold
          \/ hold'[c] = [hold[c] EXCEPT !.stage = IF @ \in {"held"} \cup Settling
                                                  THEN "lost" ELSE @, !.timer = "off"]
      BY DEF DaemonSignalled, DaemonExits, DaemonStarts
    <3> QED
      BY <3>1, <3>2 DEF HoldState, Settling
  <2> QED
    BY <1>1, <2>1, SettledKept DEF RecordInv
<1>5. ReportedOutcomeIsGranted'
  <2>1. c2d' = c2d \/ c2d' = [s \in Sessions |-> <<>>]
    BY DEF DaemonSignalled, DaemonExits, DaemonStarts
  <2>2. \A s \in Sessions : Range(c2d'[s]) \subseteq Range(c2d[s])
    BY <2>1, NothingCarried
  <2> QED
    BY <1>1, <2>2, ReportedKept DEF RecordInv
<1>6. /\ AnswersAreRecorded' /\ ForwardedIsRecorded' /\ RefusalMatchesRecord'
      /\ OutcomeFollowsGrant' /\ UnspentIsUnasked'
  BY <1>1 DEF RecordInv, AnswersAreRecorded, ForwardedIsRecorded, RefusalMatchesRecord,
              OutcomeFollowsGrant, UnspentIsUnasked
<1> QED
  BY <1>3, <1>4, <1>5, <1>6 DEF RecordInv

LEMMA InitKeeps == Init => RecordInv
<1> SUFFICES ASSUME Init PROVE RecordInv
  OBVIOUS
<1>1. TypeOK
  BY InitTyped
<1>2. ReplyIsRecorded /\ SettledIsRecorded
  BY DEF Init, ReplyIsRecorded, SettledIsRecorded, At, Busy, NotHeld
<1>3. AnswersAreRecorded /\ ReportedOutcomeIsGranted
  BY NothingCarried DEF Init, AnswersAreRecorded, ReportedOutcomeIsGranted
<1>4. /\ ForwardedIsRecorded /\ RefusalMatchesRecord /\ OutcomeFollowsGrant
      /\ UnspentIsUnasked
  BY DEF Init, ForwardedIsRecorded, RefusalMatchesRecord, OutcomeFollowsGrant,
         UnspentIsUnasked, Call
<1> QED
  BY <1>1, <1>2, <1>3, <1>4 DEF RecordInv

LEMMA StepKeeps == RecordInv /\ [Next]_vars => RecordInv'
<1> SUFFICES ASSUME RecordInv, [Next]_vars PROVE RecordInv'
  OBVIOUS
<1>1. TypeOK'
  BY StepTyped DEF RecordInv
<1>2. CASE UNCHANGED vars
  BY <1>1, <1>2
  DEF RecordInv, vars, journalVars, relayVars, daemonVars, ReplyIsRecorded,
      SettledIsRecorded, AnswersAreRecorded, ForwardedIsRecorded, RefusalMatchesRecord,
      ReportedOutcomeIsGranted, OutcomeFollowsGrant, UnspentIsUnasked
<1>3. CASE Next
  BY <1>1, <1>3, RelayKeeps, ReporterKeeps, HandlerKeeps, SettleKeeps, HumanKeeps,
     DaemonKeeps DEF Next
<1> QED
  BY <1>2, <1>3

\* Whatever crashes, fails or times out: the answers given, the verdicts of
\* the relay and the outcomes reported all agree with the record.
THEOREM RecordIsLeading == Spec => []RecordInv
BY InitKeeps, StepKeeps, PTL DEF Spec

\* A call reaches the MCP server only if its decision is on record and lets it
\* through.
THEOREM NothingUnrecordedTravels == Spec => []ForwardedIsRecorded
<1>1. RecordInv => ForwardedIsRecorded
  BY DEF RecordInv
<1> QED
  BY <1>1, RecordIsLeading, PTL

\* A client that is told its call was denied or rejected is told what the
\* record says.
THEOREM RefusalsAreHonest == Spec => []RefusalMatchesRecord
<1>1. RecordInv => RefusalMatchesRecord
  BY DEF RecordInv
<1> QED
  BY <1>1, RecordIsLeading, PTL

\* The journal has no outcome of a call it did not let through.
THEOREM OutcomesAreOfGrantedCalls == Spec => []OutcomeFollowsGrant
<1>1. RecordInv => OutcomeFollowsGrant
  BY DEF RecordInv
<1> QED
  BY <1>1, RecordIsLeading, PTL

-----------------------------------------------------------------------------
(***************************************************************************)
(* The relay, the socket and the daemon implement the abstract gate: each  *)
(* of their steps records one decision, forwards one call on record,       *)
(* refuses one, or is invisible to the gate.                               *)
(***************************************************************************)

Fate == [c \in Call |-> FateOf(call[c])]

\* One call's state changes: so does its fate, and no other's.
LEMMA FateChanges ==
    ASSUME TypeOK, NEW c \in Call, NEW v, call' = [call EXCEPT ![c] = v]
    PROVE  Fate' = [Fate EXCEPT ![c] = FateOf(v)]
<1>1. \A b \in Call : Fate'[b] = [Fate EXCEPT ![c] = FateOf(v)][b]
  BY DEF TypeOK, Fate
<1> QED
  BY <1>1 DEF Fate

LEMMA FatesOfRefusals ==
    /\ FateOf("forwarded") = "forwarded"
    /\ \A v \in Refusals : FateOf(v) = "refused"
    /\ FateOf("none") = "open" /\ FateOf("asked") = "open" /\ FateOf("abandoned") = "open"
    /\ \A d \in Answers : VerdictFor(d) \in Refusals \cup {"forwarded"}
BY DEF FateOf, Refusals, VerdictFor, Answers, Recordable, Grants

\* A call that was open is refused.
LEMMA Refusing ==
    ASSUME TypeOK, NEW c \in Call, NEW v \in Refusals, UNCHANGED request,
           FateOf(call[c]) = "open", call' = [call EXCEPT ![c] = v]
    PROVE  Gated!GateNext
<1>0. Fate[c] = "open"
  BY DEF Fate
<1>1. Fate' = [Fate EXCEPT ![c] = "refused"]
  BY FateChanges, FatesOfRefusals
<1>2. Gated!Refuse(c)
  BY <1>0, <1>1 DEF Gated!Refuse, Fate
<1> QED
  BY <1>2 DEF Gated!GateNext

\* A call with a granting entry that was open is forwarded.
LEMMA Forwarding ==
    ASSUME TypeOK, NEW c \in Call, UNCHANGED request, request[c] \in Grants,
           FateOf(call[c]) = "open", call' = [call EXCEPT ![c] = "forwarded"]
    PROVE  Gated!GateNext
<1>0. Fate[c] = "open"
  BY DEF Fate
<1>1. Fate' = [Fate EXCEPT ![c] = "forwarded"]
  BY FateChanges, FatesOfRefusals
<1>2. Gated!Forward(c)
  BY <1>0, <1>1 DEF Gated!Forward, Gated!Grants, Fate, Grants
<1> QED
  BY <1>2 DEF Gated!GateNext

\* The gate sees nothing of a step that changes neither record nor fates.
LEMMA Invisible ==
    ASSUME UNCHANGED request, Fate' = Fate
    PROVE  [Gated!GateNext]_(Gated!gateVars)
BY DEF Gated!gateVars, Fate

\* One entry is made, of a call that had none.
LEMMA Recording ==
    ASSUME TypeOK, NEW c \in Call, NEW d \in Recordable, UNCHANGED call,
           request' = request \/ RecordOK(c, d)
    PROVE  [Gated!GateNext]_(Gated!gateVars)
<1>1. Fate' = Fate
  BY DEF Fate
<1>2. CASE RecordOK(c, d)
  <2>1. Gated!Record(c, d)
    BY <1>1, <1>2 DEF Gated!Record, RecordOK, Fate
  <2> QED
    BY <2>1 DEF Gated!GateNext, Gated!Decisions, Gated!Grants, Recordable, Grants
<1> QED
  BY <1>1, <1>2, Invisible

\* The reporter's verdict: one call refused, forwarded, or nothing at all.
LEMMA Judging ==
    ASSUME TypeOK, UNCHANGED request, NEW s \in Sessions, NEW n \in Seqs,
           NEW v \in Refusals \cup {"forwarded"}, Verdict(s, n, v),
           v = "forwarded" => request[<<s, n>>] \in Grants
    PROVE  [Gated!GateNext]_(Gated!gateVars)
<1> DEFINE c == <<s, n>>
<1>1. c \in Call
  BY DEF Call
<1>2. CASE call[c] # "asked"
  <2>1. call' = call
    BY <1>1, <1>2 DEF TypeOK, Verdict
  <2> QED
    BY <2>1, Invisible DEF Fate
<1>3. CASE call[c] = "asked"
  <2>1. call' = [call EXCEPT ![c] = v] /\ FateOf(call[c]) = "open"
    BY <1>3, FatesOfRefusals DEF Verdict
  <2> HIDE DEF c
  <2>2. CASE v \in Refusals
    BY <1>1, <2>1, <2>2, Refusing
  <2>3. CASE v = "forwarded"
    BY <1>1, <2>1, <2>3, Forwarding DEF c
  <2> QED
    BY <2>2, <2>3
<1> QED
  BY <1>2, <1>3

LEMMA RelaySteps ==
    ASSUME RecordInv, NEW s \in Sessions, Relay(s)
    PROVE  [Gated!GateNext]_(Gated!gateVars)
<1>0. TypeOK
  BY DEF RecordInv
<1>1. UNCHANGED request
  BY DEF Relay, Connect, AskDaemon, GiveUp, Finish, RelayKilled, ServerResponds, journalVars
<1>2. CASE Connect(s) \/ Finish(s) \/ \E n \in Seqs : ServerResponds(s, n)
  <2>1. call' = call
    BY <1>2 DEF Connect, Finish, ServerResponds
  <2> QED
    BY <1>1, <2>1, Invisible DEF Fate
<1>3. CASE AskDaemon(s)
  <2> DEFINE c == <<s, seq[s] + 1>>
  <2>1. c \in Call /\ call[c] = "none"
    <3>1. seq[s] + 1 \in Seqs /\ seq[s] + 1 > seq[s]
      BY <1>0, <1>3 DEF TypeOK, AskDaemon, Seqs
    <3> QED
      BY <3>1 DEF RecordInv, UnspentIsUnasked, Call
  <2>2. \/ call' = [call EXCEPT ![c] = "asked"]
        \/ call' = [call EXCEPT ![c] = "no_decision"]
    BY <1>3 DEF AskDaemon
  <2> HIDE DEF c
  <2>3. CASE call' = [call EXCEPT ![c] = "asked"]
    <3>1. Fate' = [Fate EXCEPT ![c] = "open"] /\ Fate[c] = "open"
      BY <1>0, <2>1, <2>3, FateChanges, FatesOfRefusals DEF Fate
    <3>2. Fate' = Fate
      BY <3>1 DEF Fate
    <3> QED
      BY <1>1, <3>2, Invisible
  <2>4. CASE call' = [call EXCEPT ![c] = "no_decision"]
    BY <1>0, <1>1, <2>1, <2>4, Refusing, FatesOfRefusals DEF Refusals
  <2> QED
    BY <2>2, <2>3, <2>4
<1>4. CASE GiveUp(s)
  <2> DEFINE c == <<s, seq[s]>>
  <2>1. c \in Call
    BY <1>0, <1>4 DEF TypeOK, GiveUp, PumpWaits, Seqs, Call
  <2>2. call[c] = "asked" /\ call' = [call EXCEPT ![c] = "no_decision"]
    BY <1>4 DEF GiveUp, PumpWaits
  <2> HIDE DEF c
  <2> QED
    BY <1>0, <1>1, <2>1, <2>2, Refusing, FatesOfRefusals DEF Refusals
<1>5. CASE RelayKilled(s)
  <2>1. \A c \in Call : FateOf(call'[c]) = FateOf(call[c])
    BY <1>5, FatesOfRefusals DEF RelayKilled
  <2> QED
    BY <1>1, <2>1, Invisible DEF Fate
<1> QED
  BY <1>2, <1>3, <1>4, <1>5 DEF Relay

LEMMA ReporterSteps ==
    ASSUME RecordInv, NEW s \in Sessions, Reporter(s)
    PROVE  [Gated!GateNext]_(Gated!gateVars)
<1>0. TypeOK
  BY DEF RecordInv
<1>1. UNCHANGED request
  BY DEF Reporter, ReporterSends, ReporterReadsFinal, ReporterReadsPending,
         ReporterOutOfStep, ReporterGivesUp, ReporterEnds, journalVars
<1>2. CASE call' = call
  BY <1>1, <1>2, Invisible DEF Fate
<1>3. "no_decision" \in Refusals /\ "timed_out" \in Refusals
  BY DEF Refusals
<1>4. CASE ReporterSends(s)
  <2>1. \/ call' = call
        \/ /\ Verdict(s, Head(queue[s]).n, "no_decision")
           /\ Head(queue[s]).kind = "request"
    BY <1>4 DEF ReporterSends
  <2>2. CASE Head(queue[s]).kind = "request" /\ Verdict(s, Head(queue[s]).n, "no_decision")
    <3>1. Head(queue[s]) \in Item
      BY <1>0, <1>4 DEF TypeOK, ReporterSends
    <3>2. Head(queue[s]).n \in Seqs
      BY <2>2, <3>1, Items
    <3> QED
      BY <1>0, <1>1, <1>3, <2>2, <3>2, Judging
  <2> QED
    BY <1>2, <2>1, <2>2
<1>5. CASE ReporterReadsFinal(s)
  <2> DEFINE m == Head(d2c[s])
  <2>1. /\ d2c[s] \in Seq(Decision) /\ d2c[s] # <<>>
        /\ Verdict(s, m.n, VerdictFor(m.decision))
    BY <1>0, <1>5 DEF TypeOK, ReporterReadsFinal
  <2>2. m \in Decision /\ m \in Range(d2c[s])
    BY <2>1, Carried
  <2>3. m.n \in Seqs /\ m.decision \in Answers
    BY <2>2 DEF Decision
  <2>4. m.decision \in Recordable => request[<<s, m.n>>] = m.decision
    BY <2>2 DEF RecordInv, AnswersAreRecorded
  <2>5. VerdictFor(m.decision) = "forwarded" => request[<<s, m.n>>] \in Grants
    BY <2>3, <2>4 DEF VerdictFor, Recordable, Grants, Answers
  <2>6. VerdictFor(m.decision) \in Refusals \cup {"forwarded"}
    BY <2>3, FatesOfRefusals
  <2> HIDE DEF m
  <2> QED
    BY <1>0, <1>1, <2>1, <2>3, <2>5, <2>6, Judging
<1>6. CASE ReporterOutOfStep(s) \/ ReporterGivesUp(s)
  <2>1. rep[s].n \in Seqs
    BY <1>0, <1>6, Programs
    DEF TypeOK, ReporterOutOfStep, ReporterGivesUp, HasDeadline, Waiting
  <2>2. PICK v \in {"no_decision", "timed_out"} : Verdict(s, rep[s].n, v)
    BY <1>6 DEF ReporterOutOfStep, ReporterGivesUp
  <2> QED
    BY <1>0, <1>1, <1>3, <2>1, <2>2, Judging
<1> QED
  BY <1>2, <1>4, <1>5, <1>6 DEF Reporter, ReporterReadsPending, ReporterEnds

\* The daemon's steps reach the gate only by making an entry.
LEMMA DaemonSteps ==
    ASSUME RecordInv,
           \/ \E s \in Sessions : Handler(s)
           \/ \E c \in Call : Settle(c)
           \/ \E h \in Humans : Human(h)
           \/ DaemonSignalled \/ DaemonExits \/ DaemonStarts
    PROVE  [Gated!GateNext]_(Gated!gateVars)
<1>0. TypeOK
  BY DEF RecordInv
<1> USE DEF journalVars, relayVars
<1>1. ASSUME NEW s \in Sessions, Handler(s)
      PROVE  /\ UNCHANGED call
             /\ UNCHANGED request \/ RecordDecision(s)
  BY <1>1 DEF Handler, Accept, HandleForeign, HandleStart, HandleOutcome, HandleArguments,
     HandleEnd, HandleRequest, CheckBudgets, RecordDecision, ArmTimer, Reply, HandlerEOF,
     Cleanup, RejectDone, RejectHeld
<1>2. ASSUME NEW c \in Call, Settle(c)
      PROVE  /\ UNCHANGED call
             /\ UNCHANGED request \/ RecordSettled(c)
  BY <1>2 DEF Settle, TimerFires, TimeOut, RecordSettled, TellSettled
<1>3. CASE UNCHANGED <<request, call>>
  BY <1>3, Invisible DEF Fate
<1>4. ASSUME NEW s \in Sessions, RecordDecision(s), UNCHANGED call
      PROVE  [Gated!GateNext]_(Gated!gateVars)
  <2> DEFINE n == handler[s].n  d == handler[s].decision
  <2>1. <<s, n>> \in Call /\ d \in Recordable
    BY <1>0, <1>4, Programs DEF TypeOK, RecordDecision, Call, Recordable, Grants
  <2>2. request' = request \/ RecordOK(<<s, n>>, d)
    BY <1>4 DEF RecordDecision, RecordFails
  <2> HIDE DEF n, d
  <2> QED
    BY <1>0, <1>4, <2>1, <2>2, Recording
<1>5. ASSUME NEW c \in Call, RecordSettled(c), UNCHANGED call
      PROVE  [Gated!GateNext]_(Gated!gateVars)
  <2>1. hold[c].decision \in Recordable
    BY <1>0, <1>5, HoldGoesOn DEF TypeOK, RecordSettled, Settling, Recordable, Grants
  <2>2. request' = request \/ RecordOK(c, hold[c].decision)
    BY <1>5 DEF RecordSettled, RecordFails
  <2> QED
    BY <1>0, <1>5, <2>1, <2>2, Recording
<1>6. CASE (\E h \in Humans : Human(h)) \/ DaemonSignalled \/ DaemonExits \/ DaemonStarts
  <2>1. UNCHANGED <<request, call>>
    BY <1>6 DEF Human, HumanDecides, HumanLooksUp, DaemonSignalled, DaemonExits, DaemonStarts
  <2> QED
    BY <1>3, <2>1
<1> QED
  BY <1>1, <1>2, <1>3, <1>4, <1>5, <1>6

LEMMA InitOfGate == Init => Gated!GateInit
BY FatesOfRefusals DEF Init, Gated!GateInit

LEMMA StepOfGate == RecordInv /\ [Next]_vars => [Gated!GateNext]_(Gated!gateVars)
<1> SUFFICES ASSUME RecordInv, [Next]_vars
             PROVE  [Gated!GateNext]_(Gated!gateVars)
  OBVIOUS
<1>1. CASE UNCHANGED vars
  <2>1. UNCHANGED <<request, call>>
    BY <1>1 DEF vars, journalVars, relayVars
  <2> QED
    BY <2>1, Invisible DEF Fate
<1>2. CASE Next
  BY <1>2, RelaySteps, ReporterSteps, DaemonSteps DEF Next
<1> QED
  BY <1>1, <1>2

\* The relay, the socket and the daemon together keep the gate's promise: one
\* decision per call on record, never changed, and nothing travels before it.
THEOREM GateIsImplemented == Spec => ImplementsGate
<1>1. Init => Gated!GateInit
  BY InitOfGate
<1>2. RecordInv /\ [Next]_vars => [Gated!GateNext]_(Gated!gateVars)
  BY StepOfGate
<1> QED
  BY <1>1, <1>2, RecordIsLeading, PTL DEF Spec, ImplementsGate, Gated!GateSpec
-----------------------------------------------------------------------------
(***************************************************************************)
(* One question at a time.  A number is in one place only: on the          *)
(* reporter's queue, on the socket, in the hands of the connection's       *)
(* goroutine or in the registry; and past the queue there is at most one   *)
(* number of a session, the one its reporter waits for.                    *)
(***************************************************************************)

\* the numbers asked about on a line
Questions(q) == {n \in Seqs : Event("request", n) \in Range(q)}

\* each number once, and in its order
Ordered(q) ==
    \A i, j \in DOMAIN q :
        i < j /\ q[i].kind = "request" /\ q[j].kind = "request" => q[i].n < q[j].n

\* The pump's questions reach the socket in their order.
LineInv ==
    \A s \in Sessions :
        /\ Ordered(queue[s]) /\ Ordered(c2d[s])
        /\ \A n \in Questions(queue[s]) \cup Questions(c2d[s]) : n <= seq[s]
        /\ \A m \in Questions(c2d[s]), n \in Questions(queue[s]) : m < n
        /\ link[s] = "none" => seq[s] = 0

Unheard(s, n) ==
    hold[<<s, n>>].stage = "none" /\ request[<<s, n>>] = "none" /\ handler[s].n # n

\* The daemon knows nothing of a question that has not reached it.
UnheardInv ==
    \A s \in Sessions, n \in Seqs :
        n > seq[s] \/ n \in Questions(queue[s]) \cup Questions(c2d[s]) => Unheard(s, n)

\* a goroutine that will answer the question in its hands
Deciding == {"budget", "append", "reply"}

\* Whoever is still to decide a call decides it alone and for the first time.
UndecidedInv ==
    /\ \A c \in Call : hold[c].stage \in {"held", "won"} => request[c] = "none"
    /\ \A s \in Sessions :
         /\ handler[s].pc \in {"budget", "append"} => request[<<s, handler[s].n>>] = "none"
         /\ handler[s].pc \in Deciding => hold[<<s, handler[s].n>>].stage = "none"

\* asked of the daemon and not answered by it
Outstanding(s, n) ==
    \/ n \in Questions(c2d[s])
    \/ handler[s].pc \in Deciding /\ handler[s].n = n
    \/ hold[<<s, n>>].stage \in {"held"} \cup Settling

OneOutstanding ==
    \A s \in Sessions, m, n \in Seqs : Outstanding(s, m) /\ Outstanding(s, n) => m = n

Final(m) == m.decision # "pending"

OneFinal(q) == \A i, j \in DOMAIN q : Final(q[i]) /\ Final(q[j]) => i = j

\* The reporter waits for what is outstanding, or for the answer on its way.
AwaitInv ==
    \A s \in Sessions :
        /\ link[s] = "up" => \A n \in Seqs : Outstanding(s, n) => Waiting(s) /\ rep[s].n = n
        /\ d2c[s] # <<>> => link[s] = "up"
        /\ OneFinal(d2c[s])
        /\ \A m \in Range(d2c[s]) : Final(m) =>
             /\ Waiting(s) /\ rep[s].n = m.n
             /\ \A n \in Seqs : ~Outstanding(s, n)

OnceInv == LineInv /\ UnheardInv /\ UndecidedInv /\ OneOutstanding /\ AwaitInv

-----------------------------------------------------------------------------
\* An empty line carries nothing.
LEMMA EmptyLine == Ordered(<<>>) /\ Questions(<<>>) = {}
BY NothingCarried DEF Ordered, Questions

\* What is put behind a line: nothing that asks, or the next number.
LEMMA LongerLine ==
    ASSUME NEW q \in Seq(Item), Ordered(q), NEW e \in Item
    PROVE  /\ e.kind # "request" => /\ Ordered(Append(q, e))
                                    /\ Questions(Append(q, e)) = Questions(q)
           /\ e.kind = "request" =>
                /\ e.n \in Seqs /\ e = Event("request", e.n)
                /\ Questions(Append(q, e)) = Questions(q) \cup {e.n}
                /\ (\A m \in Questions(q) : m < e.n) => Ordered(Append(q, e))
<1>1. /\ Range(Append(q, e)) = Range(q) \cup {e}
      /\ \A i \in DOMAIN q : q[i] \in Range(q) /\ q[i] \in Item
  BY Carried DEF Range
<1>2. /\ DOMAIN Append(q, e) = 1..(Len(q) + 1) /\ DOMAIN q = 1..Len(q) /\ Len(q) \in Nat
      /\ Append(q, e)[Len(q) + 1] = e
      /\ \A i \in DOMAIN q : Append(q, e)[i] = q[i]
  OBVIOUS
<1>3. \A x \in Item : x.kind = "request" => x.n \in Seqs /\ x = Event("request", x.n)
  BY DEF Item, Event
<1>4. \A n : Event("request", n).kind = "request" /\ Event("request", n).n = n
  BY DEF Event
<1>5. CASE e.kind # "request"
  <2>1. Questions(Append(q, e)) = Questions(q)
    BY <1>1, <1>4, <1>5 DEF Questions
  <2>2. Ordered(Append(q, e))
    BY <1>2, <1>5 DEF Ordered
  <2>3. QED
    BY <1>5, <2>1, <2>2
<1>6. CASE e.kind = "request"
  <2>1. e.n \in Seqs /\ e = Event("request", e.n)
    BY <1>3, <1>6
  <2>2. Questions(Append(q, e)) = Questions(q) \cup {e.n}
    BY <1>1, <1>4, <2>1 DEF Questions
  <2>3. ASSUME \A m \in Questions(q) : m < e.n PROVE Ordered(Append(q, e))
    <3>1. \A i \in DOMAIN q : q[i].kind = "request" => q[i].n < e.n
      BY <1>1, <1>3, <2>3 DEF Questions
    <3>2. ASSUME NEW i \in DOMAIN Append(q, e), NEW j \in DOMAIN Append(q, e), i < j,
                 Append(q, e)[i].kind = "request", Append(q, e)[j].kind = "request"
          PROVE  Append(q, e)[i].n < Append(q, e)[j].n
      <4>1. i \in DOMAIN q
        BY <1>2, <3>2
      <4>2. CASE j \in DOMAIN q
        BY <1>2, <3>2, <4>1, <4>2 DEF Ordered
      <4>3. CASE j = Len(q) + 1
        BY <1>2, <3>1, <3>2, <4>1, <4>3
      <4>4. QED
        BY <1>2, <4>2, <4>3
    <3>3. QED
      BY <3>2 DEF Ordered
  <2>4. QED
    BY <1>6, <2>1, <2>2, <2>3
<1>7. QED
  BY <1>5, <1>6

\* What is left of a line when its first item is taken.
LEMMA ShorterLine ==
    ASSUME NEW q \in Seq(Item), Ordered(q), q # <<>>
    PROVE  /\ Head(q) \in Item /\ Tail(q) \in Seq(Item)
           /\ Ordered(Tail(q)) /\ Questions(Tail(q)) \subseteq Questions(q)
           /\ Head(q).kind = "request" =>
                /\ Head(q).n \in Questions(q) /\ Head(q) = Event("request", Head(q).n)
                /\ \A n \in Questions(Tail(q)) : Head(q).n < n
<1>1. /\ DOMAIN q = 1..Len(q) /\ Len(q) \in Nat \ {0} /\ Head(q) = q[1] /\ 1 \in DOMAIN q
      /\ Tail(q) \in Seq(Item) /\ DOMAIN Tail(q) = 1..(Len(q) - 1)
      /\ \A i \in DOMAIN Tail(q) : i + 1 \in DOMAIN q /\ Tail(q)[i] = q[i + 1]
  OBVIOUS
<1>2. Head(q) \in Range(q) /\ Range(Tail(q)) \subseteq Range(q) /\ Range(q) \subseteq Item
  BY Carried
<1>3. \A x \in Item : x.kind = "request" => x.n \in Seqs /\ x = Event("request", x.n)
  BY DEF Item, Event
<1>4. \A n : Event("request", n).kind = "request" /\ Event("request", n).n = n
  BY DEF Event
<1>5. Ordered(Tail(q))
  BY <1>1 DEF Ordered
<1>6. Questions(Tail(q)) \subseteq Questions(q)
  BY <1>2 DEF Questions
<1>7. ASSUME Head(q).kind = "request", NEW n \in Questions(Tail(q)) PROVE Head(q).n < n
  <2>1. PICK i \in DOMAIN Tail(q) : Tail(q)[i] = Event("request", n)
    BY <1>7 DEF Questions, Range
  <2>2. i + 1 \in DOMAIN q /\ 1 < i + 1 /\ q[i + 1] = Event("request", n)
    BY <1>1, <2>1
  <2>3. QED
    BY <1>1, <1>4, <1>7, <2>2 DEF Ordered
<1>8. Head(q).kind = "request" => Head(q).n \in Questions(q) /\ Head(q) = Event("request", Head(q).n)
  BY <1>2, <1>3 DEF Questions
<1>9. QED
  BY <1>1, <1>2, <1>5, <1>6, <1>7, <1>8

\* The answers on the socket: pending ones come and go, a final one is alone.
LEMMA MoreAnswers ==
    ASSUME NEW q \in Seq(Decision), OneFinal(q), NEW m \in Decision
    PROVE  /\ Range(Append(q, m)) = Range(q) \cup {m}
           /\ ~Final(m) \/ (\A x \in Range(q) : ~Final(x)) => OneFinal(Append(q, m))
<1>1. /\ DOMAIN Append(q, m) = 1..(Len(q) + 1) /\ DOMAIN q = 1..Len(q) /\ Len(q) \in Nat
      /\ Append(q, m)[Len(q) + 1] = m
      /\ \A i \in DOMAIN q : Append(q, m)[i] = q[i] /\ q[i] \in Range(q)
  BY DEF Range
<1>2. CASE ~Final(m)
  BY <1>1, <1>2, Carried DEF OneFinal
<1>3. CASE \A x \in Range(q) : ~Final(x)
  BY <1>1, <1>3, Carried DEF OneFinal
<1>4. QED
  BY <1>2, <1>3, Carried

LEMMA FewerAnswers ==
    ASSUME NEW q \in Seq(Decision), OneFinal(q), q # <<>>
    PROVE  /\ Head(q) \in Range(q) /\ Range(Tail(q)) \subseteq Range(q) /\ OneFinal(Tail(q))
           /\ Final(Head(q)) => \A m \in Range(Tail(q)) : ~Final(m)
<1>1. /\ DOMAIN q = 1..Len(q) /\ Len(q) \in Nat \ {0} /\ Head(q) = q[1] /\ 1 \in DOMAIN q
      /\ \A i \in DOMAIN Tail(q) : i + 1 \in DOMAIN q /\ Tail(q)[i] = q[i + 1] /\ i \in Nat \ {0}
  OBVIOUS
<1>2. OneFinal(Tail(q))
  BY <1>1 DEF OneFinal
<1>3. ASSUME Final(Head(q)), NEW m \in Range(Tail(q)), Final(m) PROVE FALSE
  <2>1. PICK i \in DOMAIN Tail(q) : m = Tail(q)[i]
    BY <1>3 DEF Range
  <2>2. QED
    BY <1>1, <1>3, <2>1 DEF OneFinal
<1>4. QED
  BY <1>2, <1>3, Carried

-----------------------------------------------------------------------------
\* A goroutine that takes no question into its hands.
HandlerCalm(s) ==
    \/ handler'[s].pc = handler[s].pc /\ handler'[s].n = handler[s].n
    \/ handler'[s].pc \notin Deciding /\ handler'[s].n \in {0, handler[s].n}

\* A held call that stays where it is, or is over.
HoldCalm(c) ==
    hold'[c].stage = hold[c].stage \/ (hold[c].stage # "none" /\ hold'[c].stage \in {"lost", "done"})

\* Lines to which no question is added.
LineCalm(s) ==
    /\ Ordered(queue'[s]) /\ Ordered(c2d'[s])
    /\ Questions(queue'[s]) \subseteq Questions(queue[s])
    /\ Questions(c2d'[s]) \subseteq Questions(c2d[s])
    /\ seq'[s] = seq[s] /\ (link'[s] = "none" => link[s] = "none")

\* A reporter that waits on, or has dropped the connection.
WireCalm(s) ==
    \/ link'[s] # "up" /\ d2c'[s] = <<>>
    \/ /\ link'[s] = link[s]
       /\ Waiting(s) => rep'[s].pc \in {"first", "held"} /\ rep'[s].n = rep[s].n
       /\ OneFinal(d2c'[s])
       /\ \A m \in Range(d2c'[s]) : Final(m) => m \in Range(d2c[s])
       /\ d2c'[s] # <<>> => link[s] = "up"

\* Nothing happens to any question.
LEMMA CalmStep ==
    ASSUME TypeOK, OnceInv, request' = request,
           \A s \in Sessions : HandlerCalm(s) /\ LineCalm(s),
           \A c \in Call : HoldCalm(c)
    PROVE  /\ LineInv' /\ UnheardInv' /\ UndecidedInv' /\ OneOutstanding'
           /\ \A s \in Sessions, n \in Seqs : Outstanding(s, n)' => Outstanding(s, n)
<1>1. /\ \A s \in Sessions : seq[s] \in Nat /\ seq'[s] = seq[s]
      /\ \A s \in Sessions, n \in Seqs : <<s, n>> \in Call /\ n # 0 /\ n \in Nat
  BY DEF TypeOK, LineCalm, Call, Seqs
<1>2. LineInv'
  BY <1>1 DEF OnceInv, LineInv, LineCalm
<1>3. \A s \in Sessions, n \in Seqs : Unheard(s, n) => Unheard(s, n)'
  BY <1>1 DEF Unheard, HandlerCalm, HoldCalm
<1>4. UnheardInv'
  BY <1>1, <1>3 DEF OnceInv, UnheardInv, LineCalm
<1>5. \A s \in Sessions : handler'[s].pc \in Deciding =>
          handler'[s].pc = handler[s].pc /\ handler'[s].n = handler[s].n
  BY DEF HandlerCalm
<1>6. \A s \in Sessions, n \in Seqs : Outstanding(s, n)' => Outstanding(s, n)
  <2> SUFFICES ASSUME NEW s \in Sessions, NEW n \in Seqs, Outstanding(s, n)'
               PROVE  Outstanding(s, n)
    OBVIOUS
  <2>1. hold'[<<s, n>>].stage \in {"held"} \cup Settling => hold[<<s, n>>].stage \in {"held"} \cup Settling
    BY <1>1 DEF HoldCalm, Settling
  <2>2. n \in Questions(c2d'[s]) => n \in Questions(c2d[s])
    BY DEF LineCalm
  <2>3. QED
    BY <1>5, <2>1, <2>2 DEF Outstanding
<1>7. OneOutstanding'
  BY <1>6 DEF OnceInv, OneOutstanding
<1>8. UndecidedInv'
  <2>1. \A c \in Call : hold'[c].stage \in {"held", "won"} => hold[c].stage = hold'[c].stage
    BY DEF HoldCalm
  <2>2. \A s \in Sessions : handler'[s].pc \in Deciding => handler[s].n \in Seqs
    BY <1>5, Programs DEF TypeOK, Deciding
  <2>3. \A s \in Sessions : handler'[s].pc \in Deciding =>
            hold'[<<s, handler'[s].n>>].stage = "none"
    <3> SUFFICES ASSUME NEW s \in Sessions, handler'[s].pc \in Deciding
                 PROVE  hold'[<<s, handler'[s].n>>].stage = "none"
      OBVIOUS
    <3>1. handler'[s].n = handler[s].n /\ <<s, handler[s].n>> \in Call
      BY <1>1, <1>5, <2>2
    <3>2. hold[<<s, handler[s].n>>].stage = "none"
      BY <1>5 DEF OnceInv, UndecidedInv
    <3>3. QED
      BY <3>1, <3>2 DEF HoldCalm
  <2>4. \A s \in Sessions : handler'[s].pc \in {"budget", "append"} =>
            request'[<<s, handler'[s].n>>] = "none"
    BY <1>5 DEF OnceInv, UndecidedInv, Deciding
  <2>5. QED
    BY <2>1, <2>3, <2>4 DEF OnceInv, UndecidedInv
<1>9. QED
  BY <1>2, <1>4, <1>6, <1>7, <1>8

\* Nor does anything happen to an answer that is awaited.
LEMMA CalmWire ==
    ASSUME AwaitInv, \A s \in Sessions : WireCalm(s),
           \A s \in Sessions, n \in Seqs : Outstanding(s, n)' => Outstanding(s, n)
    PROVE  AwaitInv'
<1> SUFFICES ASSUME NEW s \in Sessions
             PROVE  /\ link'[s] = "up" =>
                         \A n \in Seqs : Outstanding(s, n)' =>
                             rep'[s].pc \in {"first", "held"} /\ rep'[s].n = n
                    /\ d2c'[s] # <<>> => link'[s] = "up"
                    /\ OneFinal(d2c'[s])
                    /\ \A m \in Range(d2c'[s]) : Final(m) =>
                         /\ rep'[s].pc \in {"first", "held"} /\ rep'[s].n = m.n
                         /\ \A n \in Seqs : ~Outstanding(s, n)'
  BY DEF AwaitInv, Waiting
<1>1. CASE link'[s] # "up" /\ d2c'[s] = <<>>
  BY <1>1, NothingCarried DEF OneFinal
<1>2. CASE ~(link'[s] # "up" /\ d2c'[s] = <<>>)
  <2>1. /\ link'[s] = link[s]
        /\ Waiting(s) => rep'[s].pc \in {"first", "held"} /\ rep'[s].n = rep[s].n
        /\ OneFinal(d2c'[s])
        /\ \A m \in Range(d2c'[s]) : Final(m) => m \in Range(d2c[s])
        /\ d2c'[s] # <<>> => link[s] = "up"
    BY <1>2 DEF WireCalm
  <2>2. QED
    BY <2>1 DEF AwaitInv
<1>3. QED
  BY <1>1, <1>2

-----------------------------------------------------------------------------
\* What is left alone is calm.
LEMMA LinesStay ==
    ASSUME LineInv, UNCHANGED <<queue, c2d, seq>>,
           \A s \in Sessions : link'[s] = "none" => link[s] = "none"
    PROVE  \A s \in Sessions : LineCalm(s)
BY DEF LineInv, LineCalm

LEMMA WiresStay ==
    ASSUME AwaitInv, UNCHANGED <<link, rep, d2c>>
    PROVE  \A s \in Sessions : WireCalm(s)
BY DEF AwaitInv, WireCalm, Waiting

LEMMA HoldsStay ==
    ASSUME UNCHANGED hold
    PROVE  \A c \in Call : HoldCalm(c)
BY DEF HoldCalm

LEMMA HandlersStay ==
    ASSUME UNCHANGED handler
    PROVE  \A s \in Sessions : HandlerCalm(s)
BY DEF HandlerCalm

LEMMA GoingIsCalm ==
    ASSUME TypeOK, NEW s \in Sessions, NEW state, Goto(s, state),
           state.pc \notin Deciding, state.n \in {0, handler[s].n}
    PROVE  \A t \in Sessions : HandlerCalm(t)
BY DEF TypeOK, Goto, HandlerCalm

\* an item that asks nothing is queued
LEMMA OfferIsCalm ==
    ASSUME TypeOK, LineInv, NEW s \in Sessions, NEW e \in Item, e.kind # "request", Offer(s, e),
           UNCHANGED <<c2d, seq, link>>
    PROVE  \A t \in Sessions : LineCalm(t)
<1> SUFFICES ASSUME NEW t \in Sessions PROVE LineCalm(t)
  OBVIOUS
<1>1. queue[t] \in Seq(Item) /\ Ordered(queue[t]) /\ Ordered(c2d[t])
  BY DEF TypeOK, LineInv
<1>2. queue'[t] = queue[t] \/ queue'[t] = Append(queue[t], e)
  BY DEF TypeOK, Offer
<1>3. Ordered(Append(queue[t], e)) /\ Questions(Append(queue[t], e)) = Questions(queue[t])
  BY <1>1, LongerLine
<1>4. QED
  BY <1>1, <1>2, <1>3 DEF LineCalm

\* the connection is given up
LEMMA DropIsCalm ==
    ASSUME TypeOK, AwaitInv, NEW s \in Sessions, Drop(s),
           \A t \in Sessions : t # s => rep'[t] = rep[t]
    PROVE  /\ \A t \in Sessions : WireCalm(t)
           /\ \A t \in Sessions : link'[t] = "none" => link[t] = "none"
<1> SUFFICES ASSUME NEW t \in Sessions
             PROVE  WireCalm(t) /\ (link'[t] = "none" => link[t] = "none")
  OBVIOUS
<1>1. CASE t = s
  BY <1>1 DEF TypeOK, Drop, WireCalm
<1>2. CASE t # s
  <2>1. link'[t] = link[t] /\ d2c'[t] = d2c[t] /\ rep'[t] = rep[t]
    BY <1>2 DEF TypeOK, Drop
  <2>2. QED
    BY <2>1 DEF AwaitInv, WireCalm, Waiting
<1>3. QED
  BY <1>1, <1>2

\* All of it together.
LEMMA CalmKeepsOnce ==
    ASSUME TypeOK, OnceInv, request' = request,
           \A s \in Sessions : HandlerCalm(s) /\ LineCalm(s) /\ WireCalm(s),
           \A c \in Call : HoldCalm(c)
    PROVE  OnceInv'
<1>1. /\ LineInv' /\ UnheardInv' /\ UndecidedInv' /\ OneOutstanding'
      /\ \A s \in Sessions, n \in Seqs : Outstanding(s, n)' => Outstanding(s, n)
  BY CalmStep
<1>2. AwaitInv'
  BY <1>1, CalmWire DEF OnceInv
<1>3. QED
  BY <1>1, <1>2 DEF OnceInv

\* A relay's own steps.
LEMMA RelayAsksOnce ==
    ASSUME TypeOK, OnceInv, NEW s \in Sessions, Relay(s)
    PROVE  OnceInv'
<1> USE DEF journalVars, daemonVars
<1>0. LineInv /\ UnheardInv /\ AwaitInv
  BY DEF OnceInv
<1>1. CASE Connect(s)
  <2>1. /\ link[s] = "none" /\ link'[s] # "none" /\ queue'[s] = <<Event("start", 0)>>
        /\ UNCHANGED <<request, hold, c2d, d2c, rep, seq>>
        /\ \A t \in Sessions : t # s => /\ queue'[t] = queue[t] /\ link'[t] = link[t]
                                        /\ handler'[t] = handler[t]
        /\ handler'[s] = handler[s] \/ handler'[s] = At("accepted")
    BY <1>1 DEF Connect, TypeOK
  <2>2. Ordered(queue'[s]) /\ Questions(queue'[s]) = {}
    <3>1. queue'[s] = Append(<<>>, Event("start", 0)) /\ <<>> \in Seq(Item)
      BY <2>1
    <3>2. Event("start", 0) \in Item /\ Event("start", 0).kind = "start"
      BY Items DEF Event
    <3>3. QED
      BY <3>1, <3>2, LongerLine, EmptyLine
  <2>3. \A t \in Sessions : LineCalm(t)
    BY <1>0, <2>1, <2>2 DEF LineInv, LineCalm
  <2>4. \A t \in Sessions : HandlerCalm(t)
    BY <2>1 DEF HandlerCalm, At, Busy, Deciding
  <2>5. /\ LineInv' /\ UnheardInv' /\ UndecidedInv' /\ OneOutstanding'
        /\ \A t \in Sessions, n \in Seqs : Outstanding(t, n)' => Outstanding(t, n)
    BY <2>1, <2>3, <2>4, HoldsStay, CalmStep
  <2>6. \A n \in Seqs : ~Outstanding(s, n)
    <3>1. seq[s] = 0 /\ \A n \in Seqs : n > seq[s] /\ ~(n <= seq[s])
      BY <1>0, <2>1 DEF LineInv, Seqs
    <3>2. \A n \in Seqs : Unheard(s, n) /\ n \notin Questions(c2d[s])
      BY <1>0, <3>1 DEF UnheardInv, LineInv
    <3>3. QED
      BY <3>2 DEF Unheard, Outstanding, Settling
  <2>7. AwaitInv'
    BY <1>0, <2>1, <2>5, <2>6, NothingCarried DEF AwaitInv, Waiting
  <2>8. QED
    BY <2>5, <2>7 DEF OnceInv
<1>2. CASE AskDaemon(s)
  <2> DEFINE n == seq[s] + 1
             e == Event("request", n)
  <2>1. /\ n \in Seqs /\ seq[s] \in Nat /\ link[s] # "none"
        /\ UNCHANGED <<request, hold, handler, c2d, d2c, rep, link>>
        /\ \A t \in Sessions : seq'[t] = IF t = s THEN n ELSE seq[t]
        /\ queue'[s] = queue[s] \/ queue'[s] = Append(queue[s], e)
        /\ \A t \in Sessions : t # s => queue'[t] = queue[t]
    BY <1>2 DEF AskDaemon, Offer, TypeOK, Seqs
  <2>2. \A t \in Sessions, m \in Seqs : (Unheard(t, m) => Unheard(t, m)') /\ (Outstanding(t, m)' <=> Outstanding(t, m))
    BY <2>1 DEF Unheard, Outstanding
  <2>3. \A m \in Questions(queue[s]) \cup Questions(c2d[s]) : m \in Nat /\ m <= seq[s] /\ m < n
    BY <1>0, <2>1 DEF LineInv, Questions, Seqs
  <2>4. Ordered(queue'[s]) /\ Questions(queue'[s]) \subseteq Questions(queue[s]) \cup {n}
    <3>1. queue[s] \in Seq(Item) /\ Ordered(queue[s]) /\ e \in Item /\ e.kind = "request" /\ e.n = n
      BY <1>0, <2>1, Items DEF TypeOK, LineInv, Event
    <3>2. /\ Questions(Append(queue[s], e)) = Questions(queue[s]) \cup {n}
          /\ Ordered(Append(queue[s], e))
      BY <2>3, <3>1, LongerLine
    <3>3. QED
      BY <2>1, <3>1, <3>2
  <2>5. LineInv'
    <3> SUFFICES ASSUME NEW t \in Sessions
                 PROVE  /\ Ordered(queue'[t]) /\ Ordered(c2d[t])
                        /\ \A m \in Questions(queue'[t]) \cup Questions(c2d[t]) : m <= seq'[t]
                        /\ \A k \in Questions(c2d[t]), m \in Questions(queue'[t]) : k < m
                        /\ link[t] = "none" => seq'[t] = 0
      BY <2>1 DEF LineInv
    <3>1. CASE t = s
      BY <1>0, <2>1, <2>3, <2>4, <3>1 DEF LineInv
    <3>2. CASE t # s
      BY <1>0, <2>1, <3>2 DEF LineInv
    <3>3. QED
      BY <3>1, <3>2
  <2>6. UnheardInv'
    <3> SUFFICES ASSUME NEW t \in Sessions, NEW m \in Seqs,
                        m > seq'[t] \/ m \in Questions(queue'[t]) \cup Questions(c2d[t])
                 PROVE  Unheard(t, m)
      BY <2>1, <2>2 DEF UnheardInv
    <3>1. CASE t = s
      <4>1. m > seq[s] \/ m \in Questions(queue[s]) \cup Questions(c2d[s])
        BY <2>1, <2>4, <3>1 DEF Seqs
      <4>2. QED
        BY <1>0, <3>1, <4>1 DEF UnheardInv
    <3>2. CASE t # s
      BY <1>0, <2>1, <3>2 DEF UnheardInv
    <3>3. QED
      BY <3>1, <3>2
  <2>7. UndecidedInv'
    BY <2>1 DEF OnceInv, UndecidedInv
  <2>8. OneOutstanding'
    BY <2>2 DEF OnceInv, OneOutstanding
  <2>9. AwaitInv'
    BY <1>0, <2>1, <2>2, WiresStay, CalmWire
  <2>10. QED
    BY <2>5, <2>6, <2>7, <2>8, <2>9 DEF OnceInv
<1>3. CASE GiveUp(s)
  <2>1. UNCHANGED <<request, hold, handler, queue, c2d, seq, link, rep, d2c>>
    BY <1>3 DEF GiveUp
  <2>2. QED
    BY <1>0, <2>1, LinesStay, WiresStay, HoldsStay, HandlersStay, CalmKeepsOnce
<1>4. ASSUME NEW e \in Item, e.kind # "request", Offer(s, e),
             UNCHANGED <<request, hold, handler, c2d, seq, link, rep, d2c>>
      PROVE  OnceInv'
  BY <1>0, <1>4, OfferIsCalm, WiresStay, HoldsStay, HandlersStay, CalmKeepsOnce
<1>5. CASE Finish(s)
  <2>1. Event("end", 0) \in Item /\ Event("end", 0).kind # "request"
    BY Items DEF Event
  <2>2. QED
    BY <1>4, <1>5, <2>1 DEF Finish
<1>6. ASSUME NEW n \in Seqs, ServerResponds(s, n) PROVE OnceInv'
  <2>1. Event("outcome", n) \in Item /\ Event("outcome", n).kind # "request"
    BY Items DEF Event
  <2>2. QED
    BY <1>4, <1>6, <2>1 DEF ServerResponds
<1>7. CASE RelayKilled(s)
  <2>1. /\ UNCHANGED <<request, hold, handler, c2d, seq>>
        /\ link'[s] = "down" /\ d2c'[s] = <<>> /\ queue'[s] = <<>>
        /\ \A t \in Sessions : t # s => /\ queue'[t] = queue[t] /\ link'[t] = link[t]
                                        /\ d2c'[t] = d2c[t] /\ rep'[t] = rep[t]
    BY <1>7 DEF RelayKilled, TypeOK
  <2>2. \A t \in Sessions : LineCalm(t)
    BY <1>0, <2>1, EmptyLine DEF LineInv, LineCalm
  <2>3. \A t \in Sessions : WireCalm(t)
    BY <1>0, <2>1 DEF AwaitInv, WireCalm, Waiting
  <2>4. QED
    BY <2>1, <2>2, <2>3, HoldsStay, HandlersStay, CalmKeepsOnce
<1>8. QED
  BY <1>1, <1>2, <1>3, <1>5, <1>6, <1>7 DEF Relay

\* The reporter's steps: a question goes out when nothing is outstanding.
LEMMA ReporterAsksOnce ==
    ASSUME TypeOK, OnceInv, NEW s \in Sessions, Reporter(s)
    PROVE  OnceInv'
<1> USE DEF journalVars, daemonVars
<1>0. LineInv /\ UnheardInv /\ AwaitInv
  BY DEF OnceInv
<1>1. CASE ReporterSends(s)
  <2> DEFINE item == Head(queue[s])
  <2>1. /\ rep[s].pc = "idle" /\ queue[s] # <<>> /\ queue'[s] = Tail(queue[s])
        /\ UNCHANGED <<request, hold, handler, seq>>
        /\ \A t \in Sessions : t # s => queue'[t] = queue[t]
        /\ queue[s] \in Seq(Item) /\ c2d[s] \in Seq(Item) /\ Ordered(queue[s]) /\ Ordered(c2d[s])
    BY <1>0, <1>1 DEF ReporterSends, TypeOK, LineInv
  <2>2. /\ item \in Item /\ Ordered(queue'[s]) /\ Questions(queue'[s]) \subseteq Questions(queue[s])
        /\ item.kind = "request" =>
             /\ item.n \in Questions(queue[s]) /\ item = Event("request", item.n)
             /\ \A n \in Questions(queue'[s]) : item.n < n
    BY <2>1, ShorterLine
  <2>3. CASE Drop(s) /\ UNCHANGED <<c2d, rep>>
    <3>1. \A t \in Sessions : WireCalm(t) /\ (link'[t] = "none" => link[t] = "none")
      BY <1>0, <2>3, DropIsCalm
    <3>2. \A t \in Sessions : LineCalm(t)
      BY <1>0, <2>1, <2>2, <2>3, <3>1 DEF LineInv, LineCalm
    <3>3. QED
      BY <2>1, <3>1, <3>2, HoldsStay, HandlersStay, CalmKeepsOnce
  <2>4. CASE /\ link[s] = "up" /\ c2d' = [c2d EXCEPT ![s] = Append(@, item)]
             /\ item.kind # "request" /\ UNCHANGED <<rep, link, d2c>>
    <3>1. /\ c2d'[s] = Append(c2d[s], item) /\ Ordered(c2d'[s])
          /\ Questions(c2d'[s]) = Questions(c2d[s])
          /\ \A t \in Sessions : t # s => c2d'[t] = c2d[t]
      BY <2>1, <2>2, <2>4, LongerLine DEF TypeOK
    <3>2. \A t \in Sessions : LineCalm(t)
      BY <1>0, <2>1, <2>2, <2>4, <3>1 DEF LineInv, LineCalm
    <3>3. QED
      BY <1>0, <2>1, <2>4, <3>2, WiresStay, HoldsStay, HandlersStay, CalmKeepsOnce
  <2>5. CASE /\ link[s] = "up" /\ c2d' = [c2d EXCEPT ![s] = Append(@, item)]
             /\ item.kind = "request" /\ rep' = [rep EXCEPT ![s] = [pc |-> "first", n |-> item.n]]
             /\ UNCHANGED <<link, d2c>>
    <3> DEFINE k == item.n
    <3>1. /\ c2d'[s] = Append(c2d[s], item) /\ rep'[s] = [pc |-> "first", n |-> k]
          /\ \A t \in Sessions : t # s => c2d'[t] = c2d[t] /\ rep'[t] = rep[t]
      BY <2>5 DEF TypeOK
    <3>2. \A m \in Questions(c2d[s]) : m < k
      BY <1>0, <2>2, <2>5 DEF LineInv
    <3>3. /\ k \in Seqs /\ Ordered(c2d'[s])
          /\ Questions(c2d'[s]) = Questions(c2d[s]) \cup {k}
      BY <2>1, <2>2, <2>5, <3>1, <3>2, LongerLine
    <3>4. \A n \in Seqs : ~Outstanding(s, n)
      BY <1>0, <2>1, <2>5 DEF AwaitInv, Waiting
    <3>5. \A m \in Range(d2c[s]) : ~Final(m)
      BY <1>0, <2>1 DEF AwaitInv, Waiting
    <3>6. LineInv'
      <4> SUFFICES ASSUME NEW t \in Sessions
                   PROVE  /\ Ordered(queue'[t]) /\ Ordered(c2d'[t])
                          /\ \A n \in Questions(queue'[t]) \cup Questions(c2d'[t]) : n <= seq[t]
                          /\ \A m \in Questions(c2d'[t]), n \in Questions(queue'[t]) : m < n
                          /\ link[t] = "none" => seq[t] = 0
        BY <2>1, <2>5 DEF LineInv
      <4>1. CASE t = s
        BY <1>0, <2>1, <2>2, <2>5, <3>3, <4>1 DEF LineInv
      <4>2. CASE t # s
        BY <1>0, <2>1, <3>1, <4>2 DEF LineInv
      <4>3. QED
        BY <4>1, <4>2
    <3>7. UnheardInv'
      <4>1. \A t \in Sessions : Questions(queue'[t]) \cup Questions(c2d'[t])
                                  \subseteq Questions(queue[t]) \cup Questions(c2d[t])
        BY <2>1, <2>2, <2>5, <3>1, <3>3
      <4>2. QED
        BY <1>0, <2>1, <4>1 DEF UnheardInv, Unheard
    <3>8. UndecidedInv'
      BY <2>1 DEF OnceInv, UndecidedInv
    <3>9. /\ \A n \in Seqs : Outstanding(s, n)' => n = k
          /\ \A t \in Sessions, n \in Seqs : t # s /\ Outstanding(t, n)' => Outstanding(t, n)
      BY <2>1, <3>1, <3>3, <3>4 DEF Outstanding
    <3>10. OneOutstanding'
      BY <3>9 DEF OnceInv, OneOutstanding
    <3>11. AwaitInv'
      <4> SUFFICES ASSUME NEW t \in Sessions
                   PROVE  /\ link[t] = "up" => \A n \in Seqs : Outstanding(t, n)' =>
                               rep'[t].pc \in {"first", "held"} /\ rep'[t].n = n
                          /\ d2c[t] # <<>> => link[t] = "up"
                          /\ OneFinal(d2c[t])
                          /\ \A m \in Range(d2c[t]) : Final(m) =>
                               /\ rep'[t].pc \in {"first", "held"} /\ rep'[t].n = m.n
                               /\ \A n \in Seqs : ~Outstanding(t, n)'
        BY <2>5 DEF AwaitInv, Waiting
      <4>1. CASE t = s
        BY <1>0, <3>1, <3>5, <3>9, <4>1 DEF AwaitInv
      <4>2. CASE t # s
        BY <1>0, <3>1, <3>9, <4>2 DEF AwaitInv, Waiting
      <4>3. QED
        BY <4>1, <4>2
    <3>12. QED
      BY <3>6, <3>7, <3>8, <3>10, <3>11 DEF OnceInv
  <2>6. QED
    BY <1>1, <2>3, <2>4, <2>5 DEF ReporterSends
<1>2. CASE ReporterReadsFinal(s)
  <2> DEFINE m == Head(d2c[s])
  <2>1. /\ Waiting(s) /\ d2c[s] # <<>> /\ Final(m) /\ d2c'[s] = Tail(d2c[s]) /\ rep'[s] = Idle
        /\ \A t \in Sessions : t # s => d2c'[t] = d2c[t] /\ rep'[t] = rep[t]
        /\ UNCHANGED <<request, hold, handler, queue, c2d, seq, link>>
        /\ d2c[s] \in Seq(Decision)
    BY <1>2 DEF ReporterReadsFinal, Final, TypeOK
  <2>2. /\ m \in Range(d2c[s]) /\ OneFinal(d2c'[s]) /\ \A x \in Range(d2c'[s]) : ~Final(x)
    BY <1>0, <2>1, FewerAnswers DEF AwaitInv
  <2>3. \A n \in Seqs : ~Outstanding(s, n)
    BY <1>0, <2>1, <2>2 DEF AwaitInv
  <2>4. /\ LineInv' /\ UnheardInv' /\ UndecidedInv' /\ OneOutstanding'
        /\ \A t \in Sessions, n \in Seqs : Outstanding(t, n)' => Outstanding(t, n)
    BY <1>0, <2>1, LinesStay, HoldsStay, HandlersStay, CalmStep
  <2>5. AwaitInv'
    <3> SUFFICES ASSUME NEW t \in Sessions
                 PROVE  /\ link[t] = "up" => \A n \in Seqs : Outstanding(t, n)' =>
                             rep'[t].pc \in {"first", "held"} /\ rep'[t].n = n
                        /\ d2c'[t] # <<>> => link[t] = "up"
                        /\ OneFinal(d2c'[t])
                        /\ \A x \in Range(d2c'[t]) : Final(x) =>
                             /\ rep'[t].pc \in {"first", "held"} /\ rep'[t].n = x.n
                             /\ \A n \in Seqs : ~Outstanding(t, n)'
      BY <2>1 DEF AwaitInv, Waiting
    <3>1. CASE t = s
      BY <1>0, <2>1, <2>2, <2>3, <2>4, <3>1 DEF AwaitInv
    <3>2. CASE t # s
      BY <1>0, <2>1, <2>4, <3>2 DEF AwaitInv, Waiting
    <3>3. QED
      BY <3>1, <3>2
  <2>6. QED
    BY <2>4, <2>5 DEF OnceInv
<1>3. CASE ReporterReadsPending(s)
  <2>1. PICK kind \in {"args", "longargs"} : c2d' = [c2d EXCEPT ![s] = Append(@, Event(kind, Head(d2c[s]).n))]
    BY <1>3 DEF ReporterReadsPending
  <2> DEFINE e == Event(kind, Head(d2c[s]).n)
  <2>2. /\ Waiting(s) /\ d2c[s] # <<>> /\ d2c'[s] = Tail(d2c[s])
        /\ rep'[s].pc = "held" /\ rep'[s].n = rep[s].n
        /\ \A t \in Sessions : t # s => d2c'[t] = d2c[t] /\ rep'[t] = rep[t]
        /\ UNCHANGED <<request, hold, handler, queue, seq, link>>
        /\ d2c[s] \in Seq(Decision) /\ c2d[s] \in Seq(Item)
    BY <1>3 DEF ReporterReadsPending, Waiting, TypeOK, RepState
  <2>3. /\ Range(d2c'[s]) \subseteq Range(d2c[s]) /\ OneFinal(d2c'[s]) /\ Head(d2c[s]) \in Decision
    BY <1>0, <2>2, FewerAnswers, Carried DEF AwaitInv
  <2>4. e \in Item /\ e.kind # "request"
    BY <2>3, Items DEF Decision, Event
  <2>5. \A t \in Sessions : LineCalm(t)
    <3>1. /\ Ordered(c2d'[s]) /\ Questions(c2d'[s]) = Questions(c2d[s])
          /\ \A t \in Sessions : t # s => c2d'[t] = c2d[t]
      BY <1>0, <2>1, <2>2, <2>4, LongerLine DEF LineInv, TypeOK
    <3>2. QED
      BY <1>0, <2>2, <3>1 DEF LineInv, LineCalm
  <2>6. \A t \in Sessions : WireCalm(t)
    BY <1>0, <2>2, <2>3 DEF AwaitInv, WireCalm, Waiting
  <2>7. QED
    BY <2>2, <2>5, <2>6, HoldsStay, HandlersStay, CalmKeepsOnce
<1>4. ASSUME Drop(s), \A t \in Sessions : t # s => rep'[t] = rep[t],
             UNCHANGED <<request, hold, handler, queue, c2d, seq>>
      PROVE  OnceInv'
  <2>1. \A t \in Sessions : WireCalm(t) /\ (link'[t] = "none" => link[t] = "none")
    BY <1>0, <1>4, DropIsCalm
  <2>2. QED
    BY <1>0, <1>4, <2>1, LinesStay, HoldsStay, HandlersStay, CalmKeepsOnce
<1>5. CASE ReporterOutOfStep(s)
  BY <1>4, <1>5 DEF ReporterOutOfStep, TypeOK
<1>6. CASE ReporterGivesUp(s)
  BY <1>4, <1>6 DEF ReporterGivesUp, TypeOK
<1>7. CASE ReporterEnds(s)
  BY <1>4, <1>7 DEF ReporterEnds, TypeOK
<1>8. QED
  BY <1>1, <1>2, <1>3, <1>5, <1>6, <1>7 DEF Reporter

\* a message is read
LEMMA ReceivingIsCalm ==
    ASSUME TypeOK, LineInv, NEW s \in Sessions, NEW kind, Receives(s, kind),
           UNCHANGED <<queue, seq, link>>
    PROVE  /\ \A t \in Sessions : LineCalm(t)
           /\ handler[s].pc = "read" /\ Head(c2d[s]) \in Item /\ Head(c2d[s]).kind = kind
           /\ \A t \in Sessions : t # s => c2d'[t] = c2d[t]
           /\ kind = "request" =>
                /\ Head(c2d[s]).n \in Questions(c2d[s])
                /\ \A n \in Questions(c2d'[s]) : Head(c2d[s]).n < n
<1>1. /\ c2d[s] \in Seq(Item) /\ c2d[s] # <<>> /\ Ordered(c2d[s]) /\ c2d'[s] = Tail(c2d[s])
      /\ \A t \in Sessions : t # s => c2d'[t] = c2d[t]
      /\ handler[s].pc = "read" /\ Head(c2d[s]).kind = kind
  BY DEF TypeOK, LineInv, Receives
<1>2. /\ Head(c2d[s]) \in Item /\ Ordered(c2d'[s]) /\ Questions(c2d'[s]) \subseteq Questions(c2d[s])
      /\ kind = "request" => /\ Head(c2d[s]).n \in Questions(c2d[s])
                             /\ \A n \in Questions(c2d'[s]) : Head(c2d[s]).n < n
  BY <1>1, ShorterLine
<1>3. \A t \in Sessions : LineCalm(t)
  BY <1>1, <1>2 DEF LineInv, LineCalm
<1>4. QED
  BY <1>1, <1>2, <1>3

\* Whoever wins a held call goes on with the same question.
LEMMA WinningKeepsOnce ==
    ASSUME TypeOK, OnceInv, NEW c \in Call, hold[c].stage \in {"held", "won"},
           \A d \in Call : hold'[d].stage =
               IF d = c THEN (IF hold[c].stage = "held" THEN "won" ELSE "recorded") ELSE hold[d].stage,
           \A d \in Call : d # c => request'[d] = request[d],
           hold[c].stage = "held" => request'[c] = request[c],
           UNCHANGED <<handler, queue, c2d, seq, link, rep, d2c>>
    PROVE  OnceInv'
<1>0. LineInv /\ UnheardInv /\ UndecidedInv /\ OneOutstanding /\ AwaitInv
  BY DEF OnceInv
<1>1. LineInv'
  BY <1>0 DEF LineInv
<1>2. \A s \in Sessions, n \in Seqs : <<s, n>> \in Call
  BY DEF Call
<1>3. \A s \in Sessions, n \in Seqs : Unheard(s, n) => Unheard(s, n)'
  BY <1>2 DEF Unheard
<1>4. UnheardInv'
  BY <1>0, <1>3 DEF UnheardInv
<1>5. \A s \in Sessions, n \in Seqs : Outstanding(s, n)' => Outstanding(s, n)
  BY <1>2 DEF Outstanding, Settling
<1>6. OneOutstanding'
  BY <1>0, <1>5 DEF OneOutstanding
<1>7. AwaitInv'
  BY <1>0, <1>5, WiresStay, CalmWire
<1>8. UndecidedInv'
  <2>1. \A s \in Sessions : handler[s].pc \in Deciding => <<s, handler[s].n>> \in Call
    BY <1>2, Programs DEF TypeOK, Deciding
  <2>2. \A s \in Sessions : handler[s].pc \in Deciding => <<s, handler[s].n>> # c
    BY <1>0 DEF UndecidedInv
  <2>3. QED
    BY <1>0, <2>1, <2>2 DEF UndecidedInv, Deciding
<1>9. QED
  BY <1>1, <1>4, <1>6, <1>7, <1>8 DEF OnceInv

\* The connection's goroutine takes one question off the socket, carries it
\* through its hands and answers it, or leaves it in the registry.
LEMMA HandlerAnswersOnce ==
    ASSUME TypeOK, OnceInv, NEW s \in Sessions, Handler(s)
    PROVE  OnceInv'
<1> USE DEF journalVars, relayVars, daemonVars
<1>0. LineInv /\ UnheardInv /\ UndecidedInv /\ OneOutstanding /\ AwaitInv
  BY DEF OnceInv
<1>a. \A pc \in {"read", "reject", "cleanup", "final", "closed"} :
          At(pc).pc = pc /\ At(pc).pc \notin Deciding /\ At(pc).n = 0
  BY DEF At, Busy, Deciding
\* steps of a goroutine that reads nothing and answers nothing
<1>b. ASSUME NEW pc \in {"read", "reject", "cleanup", "final", "closed"}, Goto(s, At(pc)),
             UNCHANGED <<request, hold, queue, c2d, seq, link, rep, d2c>>
      PROVE  OnceInv'
  <2>1. \A t \in Sessions : HandlerCalm(t)
    BY <1>a, <1>b, GoingIsCalm
  <2>2. QED
    BY <1>0, <1>b, <2>1, LinesStay, WiresStay, HoldsStay, CalmKeepsOnce
\* steps that read a message that is no question
<1>c. ASSUME NEW kind, Receives(s, kind),
             UNCHANGED <<request, queue, seq, link, rep, d2c>>,
             \A c \in Call : hold'[c].stage = hold[c].stage,
             handler' = handler \/ \E pc \in {"read", "reject", "cleanup", "final", "closed"} : Goto(s, At(pc))
      PROVE  OnceInv'
  <2>1. \A t \in Sessions : HandlerCalm(t)
    BY <1>a, <1>c, GoingIsCalm, HandlersStay
  <2>2. \A t \in Sessions : LineCalm(t)
    BY <1>0, <1>c, ReceivingIsCalm
  <2>3. \A c \in Call : HoldCalm(c)
    BY <1>c DEF HoldCalm
  <2>4. QED
    BY <1>0, <1>c, <2>1, <2>2, <2>3, WiresStay, CalmKeepsOnce
<1>1. CASE Accept(s)
  BY <1>b, <1>1 DEF Accept
<1>2. CASE HandleForeign(s)
  <2>1. PICK kind : Receives(s, kind)
    BY <1>2 DEF HandleForeign
  <2>2. QED
    BY <1>c, <1>2, <2>1 DEF HandleForeign
<1>3. CASE HandleStart(s)
  BY <1>c, <1>3 DEF HandleStart
<1>4. CASE HandleOutcome(s)
  BY <1>c, <1>4 DEF HandleOutcome
<1>5. CASE HandleArguments(s)
  <2>1. \A c \in Call : hold'[c].stage = hold[c].stage
    BY <1>5 DEF HandleArguments, TypeOK, HoldState
  <2>2. QED
    BY <1>c, <1>5, <2>1 DEF HandleArguments
<1>6. CASE HandleEnd(s)
  BY <1>c, <1>6 DEF HandleEnd
<1>7. CASE HandleRequest(s)
  <2> DEFINE n == Head(c2d[s]).n
             c == <<s, n>>
  <2>1. /\ Receives(s, "request") /\ UNCHANGED <<request, queue, seq, link, rep, d2c>>
    BY <1>7 DEF HandleRequest
  <2>2. /\ \A t \in Sessions : LineCalm(t)
        /\ n \in Questions(c2d[s]) /\ \A m \in Questions(c2d'[s]) : n < m
        /\ \A t \in Sessions : t # s => c2d'[t] = c2d[t]
        /\ handler[s].pc = "read"
    BY <1>0, <2>1, ReceivingIsCalm
  <2>3. /\ n \in Seqs /\ n \in Nat /\ c \in Call
        /\ \A m \in Questions(c2d'[s]) \cup Questions(queue'[s]) : m # n /\ n < m
        /\ Unheard(s, n)
    <3>1. n \in Seqs /\ n \in Nat /\ c \in Call
      BY <2>2 DEF Questions, Call, Seqs
    <3>2. \A m \in Questions(queue[s]) : n < m
      BY <1>0, <2>2 DEF LineInv
    <3>3. \A m \in Questions(c2d'[s]) \cup Questions(queue'[s]) : m \in Nat /\ n < m
      BY <2>1, <2>2, <3>2 DEF Questions, Seqs
    <3>4. Unheard(s, n)
      BY <1>0, <2>2, <3>1 DEF UnheardInv
    <3>5. QED
      BY <3>1, <3>3, <3>4
  <2>4. \/ /\ handler'[s].pc \in Deciding /\ handler'[s].n = n /\ hold' = hold
        \/ /\ handler'[s].pc \notin Deciding /\ handler'[s].n = n
           /\ hold'[c].stage = "held" /\ \A d \in Call : d # c => hold'[d] = hold[d]
    <3>1. CASE hold' = hold /\ \E pc \in Deciding, d \in {"allow", "deny", "undecided"} : Goto(s, Busy(pc, n, d))
      <4>1. PICK pc \in Deciding, d \in {"allow", "deny", "undecided"} : Goto(s, Busy(pc, n, d))
        BY <3>1
      <4>2. handler'[s] = Busy(pc, n, d)
        BY <4>1 DEF Goto, TypeOK
      <4>3. QED
        BY <3>1, <4>2 DEF Busy
    <3>2. CASE hold' = [hold EXCEPT ![c] = [NotHeld EXCEPT !.stage = "held"]] /\ Goto(s, Busy("arm", n, "pending"))
      BY <2>3, <3>2 DEF Goto, Busy, Deciding, TypeOK, NotHeld
    <3>3. QED
      BY <1>7, <3>1, <3>2 DEF HandleRequest, Deciding
  <2>5. /\ \A t \in Sessions : t # s => handler'[t] = handler[t]
        /\ hold[c].stage = "none" /\ request[c] = "none"
        /\ \A d \in Call : d # c => hold'[d] = hold[d]
    BY <1>7, <2>3, <2>4 DEF HandleRequest, Goto, Unheard, TypeOK
  <2>6. LineInv'
    BY <1>0, <2>1, <2>2 DEF LineInv, LineCalm
  <2>7. UnheardInv'
    <3> SUFFICES ASSUME NEW t \in Sessions, NEW m \in Seqs,
                        m > seq[t] \/ m \in Questions(queue'[t]) \cup Questions(c2d'[t])
                 PROVE  Unheard(t, m)'
      BY <2>1 DEF UnheardInv
    <3>1. Unheard(t, m)
      BY <1>0, <2>1, <2>2 DEF UnheardInv, LineCalm
    <3>2. t = s => m # n
      <4>1. n <= seq[s] /\ seq[s] \in Nat
        BY <1>0, <2>2 DEF LineInv, TypeOK
      <4>2. QED
        BY <2>3, <4>1
    <3>3. <<t, m>> \in Call /\ <<t, m>> # c
      BY <3>2 DEF Call
    <3>4. handler'[t].n # m
      BY <2>4, <2>5, <3>1, <3>2 DEF Unheard
    <3>5. QED
      BY <2>1, <2>5, <3>1, <3>3, <3>4 DEF Unheard
  <2>8. UndecidedInv'
    <3>1. \A d \in Call : hold'[d].stage \in {"held", "won"} => request[d] = "none"
      BY <1>0, <2>4, <2>5 DEF UndecidedInv
    <3>2. ASSUME NEW t \in Sessions, handler'[t].pc \in Deciding
          PROVE  /\ handler'[t].pc \in {"budget", "append"} => request[<<t, handler'[t].n>>] = "none"
                 /\ hold'[<<t, handler'[t].n>>].stage = "none"
      <4>1. CASE t = s
        BY <2>4, <2>5, <3>2, <4>1
      <4>2. CASE t # s
        <5>1. handler'[t] = handler[t] /\ handler[t].n \in Seqs
          BY <2>5, <3>2, <4>2, Programs DEF TypeOK, Deciding
        <5>2. <<t, handler[t].n>> \in Call /\ <<t, handler[t].n>> # c
          BY <4>2, <5>1 DEF Call
        <5>3. QED
          BY <1>0, <2>5, <3>2, <5>1, <5>2 DEF UndecidedInv, Deciding
      <4>3. QED
        BY <4>1, <4>2
    <3>3. QED
      BY <2>1, <3>1, <3>2 DEF UndecidedInv, Deciding
  <2>9. \A t \in Sessions, m \in Seqs : Outstanding(t, m)' => Outstanding(t, m)
    <3> SUFFICES ASSUME NEW t \in Sessions, NEW m \in Seqs, Outstanding(t, m)'
                 PROVE  Outstanding(t, m)
      OBVIOUS
    <3>1. CASE t = s /\ m = n
      BY <2>2, <3>1 DEF Outstanding
    <3>2. CASE t # s \/ m # n
      <4>1. hold'[<<t, m>>] = hold[<<t, m>>]
        BY <2>5, <3>2 DEF Call
      <4>2. m \in Questions(c2d'[t]) => m \in Questions(c2d[t])
        BY <2>2 DEF LineCalm
      <4>3. handler'[t].pc \in Deciding /\ handler'[t].n = m => handler'[t] = handler[t]
        BY <2>4, <2>5, <3>2
      <4>4. QED
        BY <4>1, <4>2, <4>3 DEF Outstanding
    <3>3. QED
      BY <3>1, <3>2
  <2>10. OneOutstanding'
    BY <1>0, <2>9 DEF OneOutstanding
  <2>11. AwaitInv'
    BY <1>0, <2>1, <2>9, WiresStay, CalmWire
  <2>12. QED
    BY <2>6, <2>7, <2>8, <2>10, <2>11 DEF OnceInv
\* the question stays in the goroutine's hands
<1>d. ASSUME handler[s].pc \in {"budget", "append"}, handler'[s].pc \in Deciding,
             handler'[s].n = handler[s].n, \A t \in Sessions : t # s => handler'[t] = handler[t],
             handler'[s].pc \in {"budget", "append"} => request' = request,
             \A c \in Call : c # <<s, handler[s].n>> => request'[c] = request[c],
             UNCHANGED <<hold, queue, c2d, seq, link, rep, d2c>>
      PROVE  OnceInv'
  <2> DEFINE n == handler[s].n
             c == <<s, n>>
  <2>1. n \in Seqs /\ c \in Call /\ hold[c].stage = "none" /\ request[c] = "none"
    BY <1>0, <1>d, Programs DEF TypeOK, UndecidedInv, Call, Deciding
  <2>2. LineInv'
    BY <1>0, <1>d DEF LineInv
  <2>3. \A t \in Sessions, m \in Seqs : Unheard(t, m) => Unheard(t, m)'
    <3> SUFFICES ASSUME NEW t \in Sessions, NEW m \in Seqs, Unheard(t, m)
                 PROVE  Unheard(t, m)'
      OBVIOUS
    <3>1. <<t, m>> \in Call /\ <<t, m>> # c
      BY DEF Unheard, Call
    <3>2. QED
      BY <1>d, <3>1 DEF Unheard
  <2>4. UnheardInv'
    BY <1>0, <1>d, <2>3 DEF UnheardInv
  <2>5. \A t \in Sessions, m \in Seqs : Outstanding(t, m)' => Outstanding(t, m)
    BY <1>d DEF Outstanding, Deciding
  <2>6. OneOutstanding'
    BY <1>0, <2>5 DEF OneOutstanding
  <2>7. AwaitInv'
    BY <1>0, <1>d, <2>5, WiresStay, CalmWire
  <2>8. UndecidedInv'
    <3>1. \A d \in Call : hold'[d].stage \in {"held", "won"} => request'[d] = "none"
      BY <1>0, <1>d, <2>1 DEF UndecidedInv
    <3>2. ASSUME NEW t \in Sessions, handler'[t].pc \in Deciding
          PROVE  /\ handler'[t].pc \in {"budget", "append"} => request'[<<t, handler'[t].n>>] = "none"
                 /\ hold'[<<t, handler'[t].n>>].stage = "none"
      <4>1. CASE t = s
        BY <1>d, <2>1, <4>1
      <4>2. CASE t # s
        <5>1. handler'[t] = handler[t] /\ handler[t].n \in Seqs
          BY <1>d, <3>2, <4>2, Programs DEF TypeOK, Deciding
        <5>2. <<t, handler[t].n>> \in Call /\ <<t, handler[t].n>> # c
          BY <4>2, <5>1 DEF Call
        <5>3. QED
          BY <1>0, <1>d, <3>2, <5>1, <5>2 DEF UndecidedInv, Deciding
      <4>3. QED
        BY <4>1, <4>2
    <3>3. QED
      BY <3>1, <3>2 DEF UndecidedInv, Deciding
  <2>9. QED
    BY <2>2, <2>4, <2>6, <2>7, <2>8 DEF OnceInv
<1>8. CASE CheckBudgets(s)
  <2>1. handler'[s].pc \in {"append", "reply"} /\ handler'[s].n = handler[s].n /\ request' = request
    BY <1>8 DEF CheckBudgets, Goto, Busy, TypeOK
  <2>2. QED
    BY <1>d, <1>8, <2>1 DEF CheckBudgets, Goto, TypeOK, Deciding
<1>9. CASE RecordDecision(s)
  <2>1. handler'[s].pc = "reply" /\ handler'[s].n = handler[s].n
    BY <1>9 DEF RecordDecision, Goto, Busy, TypeOK
  <2>2. \A c \in Call : c # <<s, handler[s].n>> => request'[c] = request[c]
    BY <1>9 DEF RecordDecision, RecordOK, RecordFails, TypeOK
  <2>3. QED
    BY <1>d, <1>9, <2>1, <2>2 DEF RecordDecision, Goto, TypeOK, Deciding
<1>10. CASE ArmTimer(s)
  <2>1. \A c \in Call : hold'[c].stage = hold[c].stage
    BY <1>10 DEF ArmTimer, Arm, TypeOK, HoldState
  <2>2. \A t \in Sessions : HandlerCalm(t)
    BY <1>10, GoingIsCalm DEF ArmTimer, Busy, Deciding
  <2>3. UNCHANGED <<request, queue, c2d, seq, link, rep, d2c>>
    BY <1>10 DEF ArmTimer
  <2>4. QED
    BY <1>0, <2>1, <2>2, <2>3, LinesStay, WiresStay, CalmKeepsOnce DEF HoldCalm
<1>11. CASE Reply(s)
  <2> DEFINE n == handler[s].n
             m == [n |-> n, decision |-> handler[s].decision]
  <2>1. /\ handler[s].pc \in {"reply", "pending"} /\ n \in Seqs
        /\ UNCHANGED <<request, hold, queue, c2d, seq, link, rep>>
        /\ m \in Decision
        /\ m.n = n /\ (handler[s].pc = "pending" => ~Final(m))
    BY <1>11, Programs DEF Reply, TypeOK, HandlerState, Decision, Answers, Recordable, Grants, Final
  <2>2. \A t \in Sessions : HandlerCalm(t)
    BY <1>a, <1>11, GoingIsCalm DEF Reply
  <2>3. /\ LineInv' /\ UnheardInv' /\ UndecidedInv' /\ OneOutstanding'
        /\ \A t \in Sessions, k \in Seqs : Outstanding(t, k)' => Outstanding(t, k)
    BY <1>0, <2>1, <2>2, LinesStay, HoldsStay, CalmStep
  <2>4. CASE UNCHANGED d2c
    BY <1>0, <2>1, <2>3, <2>4, WiresStay, CalmWire DEF OnceInv
  <2>5. CASE Writable(s) /\ Tell(s, n, handler[s].decision)
    <3>1. /\ link[s] = "up" /\ d2c[s] \in Seq(Decision) /\ OneFinal(d2c[s])
          /\ d2c'[s] = Append(d2c[s], m)
          /\ \A t \in Sessions : t # s => d2c'[t] = d2c[t]
      BY <1>0, <2>5 DEF Writable, Tell, TypeOK, AwaitInv
    <3> HIDE DEF m
    <3>2. CASE handler[s].pc = "pending"
      <4>1. OneFinal(d2c'[s]) /\ Range(d2c'[s]) = Range(d2c[s]) \cup {m} /\ ~Final(m)
        BY <2>1, <3>1, <3>2, MoreAnswers
      <4>2. \A t \in Sessions : WireCalm(t)
        <5> SUFFICES ASSUME NEW t \in Sessions PROVE WireCalm(t)
          OBVIOUS
        <5>1. CASE t = s
          BY <2>1, <3>1, <4>1, <5>1 DEF WireCalm, Waiting
        <5>2. CASE t # s
          BY <1>0, <2>1, <3>1, <5>2 DEF WireCalm, AwaitInv, Waiting
        <5>3. QED
          BY <5>1, <5>2
      <4>3. QED
        BY <1>0, <2>3, <4>2, CalmWire DEF OnceInv
    <3>3. CASE handler[s].pc = "reply"
      <4>1. Outstanding(s, n) /\ hold[<<s, n>>].stage = "none"
        BY <1>0, <3>3 DEF Outstanding, Deciding, UndecidedInv
      <4>2. /\ Waiting(s) /\ rep[s].n = n /\ \A x \in Range(d2c[s]) : ~Final(x)
        BY <1>0, <2>1, <3>1, <4>1 DEF AwaitInv
      <4>3. \A k \in Seqs : ~Outstanding(s, k)'
        <5> SUFFICES ASSUME NEW k \in Seqs, Outstanding(s, k)' PROVE FALSE
          OBVIOUS
        <5>1. k = n
          BY <1>0, <2>1, <2>3, <4>1 DEF OneOutstanding
        <5>2. n \notin Questions(c2d[s])
          BY <1>0, <2>1 DEF UnheardInv, Unheard
        <5>3. handler'[s].pc \notin Deciding
          BY <1>11, <1>a DEF Reply, Goto, TypeOK
        <5>4. QED
          BY <2>1, <4>1, <5>1, <5>2, <5>3 DEF Outstanding, Settling
      <4>4. OneFinal(d2c'[s]) /\ Range(d2c'[s]) = Range(d2c[s]) \cup {m}
        BY <2>1, <3>1, <4>2, MoreAnswers
      <4>5. AwaitInv'
        <5> SUFFICES ASSUME NEW t \in Sessions
                     PROVE  /\ link[t] = "up" => \A k \in Seqs : Outstanding(t, k)' =>
                                 Waiting(t) /\ rep[t].n = k
                            /\ d2c'[t] # <<>> => link[t] = "up"
                            /\ OneFinal(d2c'[t])
                            /\ \A x \in Range(d2c'[t]) : Final(x) =>
                                 /\ Waiting(t) /\ rep[t].n = x.n
                                 /\ \A k \in Seqs : ~Outstanding(t, k)'
          BY <2>1 DEF AwaitInv, Waiting
        <5>1. CASE t = s
          BY <2>1, <3>1, <4>2, <4>3, <4>4, <5>1
        <5>2. CASE t # s
          BY <1>0, <2>3, <3>1, <5>2 DEF AwaitInv
        <5>3. QED
          BY <5>1, <5>2
      <4>6. QED
        BY <2>3, <4>5 DEF OnceInv
    <3>4. QED
      BY <2>1, <3>2, <3>3
  <2>6. QED
    BY <1>11, <2>4, <2>5 DEF Reply
<1>12. CASE HandlerEOF(s)
  BY <1>b, <1>12 DEF HandlerEOF
<1>13. CASE Cleanup(s)
  BY <1>b, <1>13 DEF Cleanup
<1>14. CASE RejectDone(s)
  BY <1>b, <1>14 DEF RejectDone
<1>15. ASSUME NEW n \in Seqs, RejectHeld(s, n) PROVE OnceInv'
  <2>1. <<s, n>> \in Call /\ hold[<<s, n>>].stage = "held"
    BY <1>15 DEF RejectHeld, Unresolved, Call
  <2>2. \A d \in Call : hold'[d].stage = IF d = <<s, n>> THEN "won" ELSE hold[d].stage
    BY <1>15, <2>1 DEF RejectHeld, Win, TypeOK, HoldState
  <2>3. QED
    BY <1>15, <2>1, <2>2, WinningKeepsOnce DEF RejectHeld
<1>16. QED
  BY <1>1, <1>2, <1>3, <1>4, <1>5, <1>6, <1>7, <1>8, <1>9, <1>10, <1>11, <1>12, <1>13, <1>14, <1>15
  DEF Handler

\* A settler takes a held call from the registry to the relay.
LEMMA SettleAnswersOnce ==
    ASSUME TypeOK, OnceInv, NEW c \in Call, Settle(c)
    PROVE  OnceInv'
<1> USE DEF journalVars, relayVars
<1>0. LineInv /\ UnheardInv /\ UndecidedInv /\ OneOutstanding /\ AwaitInv
  BY DEF OnceInv
<1>a. ASSUME \A d \in Call : hold'[d].stage = hold[d].stage,
             UNCHANGED <<request, handler, queue, c2d, seq, link, rep, d2c>>
      PROVE  OnceInv'
  BY <1>0, <1>a, LinesStay, WiresStay, HandlersStay, CalmKeepsOnce DEF HoldCalm
<1>1. CASE TimerFires(c)
  <2>1. \A d \in Call : hold'[d].stage = hold[d].stage
    BY <1>1 DEF TimerFires, TypeOK, HoldState
  <2>2. QED
    BY <1>a, <1>1, <2>1 DEF TimerFires
<1>2. CASE TimeOut(c)
  <2>1. CASE Unresolved(c)
    <3>0. hold' = [hold EXCEPT ![c] = [hold[c] EXCEPT !.stage = "won", !.by = "timer",
                                  !.decision = "rejected", !.told = TimedOutTold, !.timer = "off"]]
      BY <1>2, <2>1 DEF TimeOut, TypeOK
    <3>1. hold'[c].stage = "won" /\ \A d \in Call : d # c => hold'[d] = hold[d]
      BY <3>0, SMTT(60) DEF TypeOK, HoldState
    <3>2. QED
      BY <1>2, <2>1, <3>1, WinningKeepsOnce DEF TimeOut, Unresolved
  <2>2. CASE ~Unresolved(c)
    <3>1. hold'[c].stage = hold[c].stage /\ \A d \in Call : d # c => hold'[d] = hold[d]
      BY <1>2, <2>2 DEF TimeOut, TypeOK, HoldState
    <3>2. QED
      BY <1>a, <1>2, <3>1 DEF TimeOut
  <2>3. QED
    BY <2>1, <2>2
<1>3. CASE RecordSettled(c)
  <2>1. \A d \in Call : hold'[d].stage = IF d = c THEN "recorded" ELSE hold[d].stage
    BY <1>3 DEF RecordSettled, TypeOK, HoldState
  <2>2. \A d \in Call : d # c => request'[d] = request[d]
    BY <1>3 DEF RecordSettled, RecordOK, RecordFails, TypeOK
  <2>3. QED
    BY <1>3, <2>1, <2>2, WinningKeepsOnce DEF RecordSettled
<1>4. CASE TellSettled(c)
  <2>0. PICK s \in Sessions, n \in Seqs : c = <<s, n>>
    BY DEF Call
  <2> DEFINE m == [n |-> n, decision |-> hold[c].told]
  <2>1. /\ hold[c].stage = "recorded" /\ hold'[c].stage = "done" /\ m \in Decision /\ m.n = n
        /\ \A d \in Call : d # c => hold'[d] = hold[d]
        /\ UNCHANGED <<request, handler, queue, c2d, seq, link, rep>>
    BY <1>4 DEF TellSettled, TypeOK, HoldState, Decision, Answers, Recordable, Grants
  <2>2. \A d \in Call : HoldCalm(d)
    BY <2>1 DEF HoldCalm
  <2>3. /\ LineInv' /\ UnheardInv' /\ UndecidedInv' /\ OneOutstanding'
        /\ \A t \in Sessions, k \in Seqs : Outstanding(t, k)' => Outstanding(t, k)
    BY <1>0, <2>1, <2>2, LinesStay, HandlersStay, CalmStep
  <2>4. CASE UNCHANGED d2c
    BY <1>0, <2>1, <2>3, <2>4, WiresStay, CalmWire DEF OnceInv
  <2>5. CASE Writable(s) /\ Tell(s, n, hold[c].told)
    <3>1. /\ link[s] = "up" /\ d2c[s] \in Seq(Decision) /\ OneFinal(d2c[s])
          /\ d2c'[s] = Append(d2c[s], m)
          /\ \A t \in Sessions : t # s => d2c'[t] = d2c[t]
      BY <1>0, <2>5 DEF Writable, Tell, TypeOK, AwaitInv
    <3> HIDE DEF m
    <3>2. Outstanding(s, n)
      BY <2>0, <2>1 DEF Outstanding, Settling
    <3>3. Waiting(s) /\ rep[s].n = n /\ \A x \in Range(d2c[s]) : ~Final(x)
      BY <1>0, <3>1, <3>2 DEF AwaitInv
    <3>4. \A k \in Seqs : ~Outstanding(s, k)'
      <4> SUFFICES ASSUME NEW k \in Seqs, Outstanding(s, k)' PROVE FALSE
        OBVIOUS
      <4>1. k = n
        BY <1>0, <2>3, <3>2 DEF OneOutstanding
      <4>2. n \notin Questions(c2d[s])
        BY <1>0, <2>0, <2>1 DEF UnheardInv, Unheard
      <4>3. ~(handler[s].pc \in Deciding /\ handler[s].n = n)
        BY <1>0, <2>0, <2>1 DEF UndecidedInv
      <4>4. QED
        BY <2>0, <2>1, <4>1, <4>2, <4>3 DEF Outstanding, Settling
    <3>5. OneFinal(d2c'[s]) /\ Range(d2c'[s]) = Range(d2c[s]) \cup {m}
      BY <2>1, <3>1, <3>3, MoreAnswers
    <3>6. AwaitInv'
      <4> SUFFICES ASSUME NEW t \in Sessions
                   PROVE  /\ link[t] = "up" => \A k \in Seqs : Outstanding(t, k)' =>
                               Waiting(t) /\ rep[t].n = k
                          /\ d2c'[t] # <<>> => link[t] = "up"
                          /\ OneFinal(d2c'[t])
                          /\ \A x \in Range(d2c'[t]) : Final(x) =>
                               /\ Waiting(t) /\ rep[t].n = x.n
                               /\ \A k \in Seqs : ~Outstanding(t, k)'
        BY <2>1 DEF AwaitInv, Waiting
      <4>1. CASE t = s
        BY <2>1, <3>1, <3>3, <3>4, <3>5, <4>1
      <4>2. CASE t # s
        BY <1>0, <2>3, <3>1, <4>2 DEF AwaitInv
      <4>3. QED
        BY <4>1, <4>2
    <3>7. QED
      BY <2>3, <3>6 DEF OnceInv
  <2>6. QED
    BY <1>4, <2>0, <2>4, <2>5 DEF TellSettled
<1>5. QED
  BY <1>1, <1>2, <1>3, <1>4 DEF Settle

\* An operator's handler looks a call up, then decides it or comes too late.
LEMMA HumanAnswersOnce ==
    ASSUME TypeOK, OnceInv, NEW h \in Humans, Human(h)
    PROVE  OnceInv'
<1> USE DEF journalVars, relayVars
<1>0. LineInv /\ AwaitInv
  BY DEF OnceInv
<1>a. ASSUME UNCHANGED <<request, handler, hold, queue, c2d, seq, link, rep, d2c>>
      PROVE  OnceInv'
  BY <1>0, <1>a, LinesStay, WiresStay, HandlersStay, HoldsStay, CalmKeepsOnce
<1>1. CASE HumanDecides(h)
  <2> DEFINE c == human[h].c
  <2>1. c \in Call
    BY <1>1 DEF HumanDecides, TypeOK, HumanState
  <2>2. CASE Unresolved(c)
    <3> DEFINE d == human[h].decision
    <3>1. Win(c, "human", d, d)
      BY <1>1, <2>2 DEF HumanDecides
    <3> HIDE DEF c, d
    <3>2. hold'[c].stage = "won" /\ \A e \in Call : e # c => hold'[e] = hold[e]
      BY <2>1, <3>1 DEF Win, TypeOK, HoldState
    <3>3. UNCHANGED <<request, handler, queue, c2d, seq, link, rep, d2c>>
      BY <1>1 DEF HumanDecides
    <3>4. QED
      BY <2>1, <2>2, <3>2, <3>3, WinningKeepsOnce DEF Unresolved
  <2>3. CASE ~Unresolved(c)
    BY <1>a, <1>1, <2>3 DEF HumanDecides
  <2>4. QED
    BY <2>2, <2>3
<1>2. CASE \E c \in Call, d \in {"approved", "rejected"} : HumanLooksUp(h, c, d)
  BY <1>a, <1>2 DEF HumanLooksUp
<1>3. QED
  BY <1>1, <1>2 DEF Human

\* A daemon that goes away takes its questions with it.
LEMMA DaemonAnswersOnce ==
    ASSUME TypeOK, OnceInv, DaemonSignalled \/ DaemonExits \/ DaemonStarts
    PROVE  OnceInv'
<1> USE DEF journalVars, relayVars
<1>0. LineInv /\ AwaitInv
  BY DEF OnceInv
<1>1. CASE DaemonSignalled \/ DaemonStarts
  BY <1>0, <1>1, LinesStay, WiresStay, HandlersStay, HoldsStay, CalmKeepsOnce
  DEF DaemonSignalled, DaemonStarts
<1>2. CASE DaemonExits
  <2>1. UNCHANGED <<request, queue, seq, link, rep, d2c>> /\ \A s \in Sessions : c2d'[s] = <<>>
    BY <1>2 DEF DaemonExits
  <2>2. \A s \in Sessions : LineCalm(s)
    BY <1>0, <2>1, EmptyLine DEF LineInv, LineCalm
  <2>3. \A s \in Sessions : HandlerCalm(s)
    BY <1>2 DEF DaemonExits, HandlerCalm, At, Busy, Deciding
  <2>4. \A c \in Call : HoldCalm(c)
    BY <1>2 DEF DaemonExits, HoldCalm, TypeOK, HoldState, Settling
  <2>5. QED
    BY <1>0, <2>1, <2>2, <2>3, <2>4, WiresStay, CalmKeepsOnce
<1>3. QED
  BY <1>1, <1>2

LEMMA InitAsksNothing == Init => OnceInv
<1> SUFFICES ASSUME Init PROVE OnceInv
  OBVIOUS
<1> USE DEF Init
<1>1. \A s \in Sessions, n \in Seqs : <<s, n>> \in Call /\ n # 0
  BY DEF Call, Seqs
<1>2. LineInv
  BY EmptyLine DEF LineInv
<1>3. UnheardInv
  BY <1>1 DEF UnheardInv, Unheard, NotHeld, At, Busy
<1>4. UndecidedInv
  BY DEF UndecidedInv, NotHeld, At, Busy, Deciding
<1>5. \A s \in Sessions, n \in Seqs : ~Outstanding(s, n)
  BY <1>1, EmptyLine DEF Outstanding, NotHeld, At, Busy, Deciding, Settling
<1>6. OneOutstanding
  BY <1>5 DEF OneOutstanding
<1>7. AwaitInv
  BY <1>5, NothingCarried DEF AwaitInv, OneFinal
<1>8. QED
  BY <1>2, <1>3, <1>4, <1>6, <1>7 DEF OnceInv

LEMMA StepAsksOnce == TypeOK /\ OnceInv /\ [Next]_vars => OnceInv'
<1> SUFFICES ASSUME TypeOK, OnceInv, [Next]_vars
             PROVE  OnceInv'
  OBVIOUS
<1>1. CASE UNCHANGED vars
  BY <1>1, LinesStay, WiresStay, HandlersStay, HoldsStay, CalmKeepsOnce
  DEF OnceInv, vars, journalVars, relayVars, daemonVars
<1>2. CASE Next
  BY <1>2, RelayAsksOnce, ReporterAsksOnce, HandlerAnswersOnce, SettleAnswersOnce,
     HumanAnswersOnce, DaemonAnswersOnce DEF Next
<1>3. QED
  BY <1>1, <1>2

\* The relay asks about one call at a time and the daemon knows of no other:
\* every question is in one place, and whoever holds it decides it first.
THEOREM OneQuestionAtATime == Spec => []OnceInv
<1>1. Init => OnceInv
  BY InitAsksNothing
<1>2. TypeOK /\ OnceInv /\ [Next]_vars => OnceInv'
  BY StepAsksOnce
<1>3. QED
  BY <1>1, <1>2, TypeCorrect, PTL DEF Spec

\* No settler, no rule and no budget is about to decide a call that has a
\* decision: settle's guard and the reader's order keep them apart, not the
\* journal's unique index.
THEOREM DecidedOnce == Spec => []NoSecondDecision
<1>1. OnceInv => NoSecondDecision
  BY DEF OnceInv, UndecidedInv, NoSecondDecision
<1>2. QED
  BY <1>1, OneQuestionAtATime, PTL

\* A final answer on the socket is the one the reporter waits for: none is
\* left over to be read as the answer to the next call.
THEOREM NoStrayAnswer == Spec => []FinalAnswersAreAwaited
<1>1. OnceInv => FinalAnswersAreAwaited
  BY DEF OnceInv, AwaitInv, Final, FinalAnswersAreAwaited
<1>2. QED
  BY <1>1, OneQuestionAtATime, PTL

-----------------------------------------------------------------------------
(***************************************************************************)
(* The life of a held call, and what its end goes back to.                 *)
(***************************************************************************)

\* what is known of the call is kept; it may be lost, recorded or told
Kept(c) ==
    /\ hold'[c].by = hold[c].by /\ hold'[c].decision = hold[c].decision
    /\ hold'[c].told \in {hold[c].told, "undecided"}
    /\ hold[c].known => hold'[c].known
    /\ hold'[c].stage = "held" => hold[c].stage = "held"
    /\ hold'[c].stage = "won" => hold[c].stage = "won"
    /\ hold'[c].stage \in Settling => hold[c].stage \in Settling
    /\ hold[c].stage # "none" => hold'[c].stage # "none"

\* a rule holds it
Begun(c) ==
    /\ hold[c].stage = "none" /\ request[c] = "none" /\ UNCHANGED request
    /\ hold'[c] = [NotHeld EXCEPT !.stage = "held"]
    /\ c[1] \in owned /\ handler[c[1]].pc = "read"
    /\ c[1] \in owned' /\ handler'[c[1]].pc = "arm"

\* an operator, the timer or the end of the session takes it
Won(c) ==
    /\ hold[c].stage = "held" /\ hold'[c].stage = "won" /\ hold'[c].known = hold[c].known
    /\ \/ /\ hold'[c].by = "human" /\ hold'[c].told = hold'[c].decision
          /\ \E h \in Humans : /\ human[h] # NoLookup /\ human[h].c = c
                               /\ human[h].decision = hold'[c].decision
       \/ hold'[c].by = "timer" /\ hold'[c].decision = "rejected" /\ hold'[c].told = "timed_out"
       \/ /\ hold'[c].by = "session" /\ hold'[c].decision = "rejected"
          /\ hold'[c].told = "rejected" /\ handler[c[1]].pc \in {"reject", "final"}

Lives(c) == Kept(c) \/ Begun(c) \/ Won(c)

\* A step that changes one call's record at most.
LEMMA OneLives ==
    ASSUME NEW c \in Call, Lives(c), \A d \in Call : d # c => hold'[d] = hold[d]
    PROVE  \A d \in Call : Lives(d)
BY DEF Lives, Kept

LEMMA NobodyLives ==
    ASSUME UNCHANGED hold
    PROVE  \A d \in Call : Lives(d)
BY DEF Lives, Kept

LEMMA WinningLives ==
    ASSUME TypeOK, NEW c \in Call, NEW by \in {"human", "timer", "session"},
           NEW decision \in {"approved", "rejected"}, NEW told, Unresolved(c),
           \/ Win(c, by, decision, told)
           \/ hold' = [hold EXCEPT ![c].stage = "won", ![c].by = by, ![c].decision = decision,
                                   ![c].told = told, ![c].timer = "off"],
           \/ /\ by = "human" /\ told = decision
              /\ \E h \in Humans : human[h] # NoLookup /\ human[h].c = c /\ human[h].decision = decision
           \/ by = "timer" /\ decision = "rejected" /\ told = "timed_out"
           \/ /\ by = "session" /\ decision = "rejected" /\ told = "rejected"
              /\ handler[c[1]].pc \in {"reject", "final"}
    PROVE  \A d \in Call : Lives(d)
<1> DEFINE p == hold[c]
<1>1. p \in HoldState
  BY DEF TypeOK
<1>2. PICK t : hold' = [hold EXCEPT ![c] = [p EXCEPT !.stage = "won", !.by = by,
                                  !.decision = decision, !.told = told, !.timer = t]]
  <2>1. CASE Win(c, by, decision, told)
    <3>1. hold' = [hold EXCEPT ![c] = [p EXCEPT !.stage = "won", !.by = by, !.decision = decision,
                       !.told = told, !.timer = IF p.timer = "armed" THEN "off" ELSE p.timer]]
      BY <1>1, <2>1 DEF Win, TypeOK, HoldState
    <3>2. QED
      BY <3>1
  <2>2. CASE hold' = [hold EXCEPT ![c].stage = "won", ![c].by = by, ![c].decision = decision,
                                  ![c].told = told, ![c].timer = "off"]
    <3>1. hold' = [hold EXCEPT ![c] = [p EXCEPT !.stage = "won", !.by = by, !.decision = decision,
                                                !.told = told, !.timer = "off"]]
      BY <1>1, <2>2 DEF TypeOK, HoldState
    <3>2. QED
      BY <3>1
  <2>3. QED
    BY <2>1, <2>2
<1>3. /\ hold'[c] = [p EXCEPT !.stage = "won", !.by = by, !.decision = decision,
                              !.told = told, !.timer = t]
      /\ \A d \in Call : d # c => hold'[d] = hold[d]
  BY <1>2 DEF TypeOK
<1>4. /\ hold'[c].stage = "won" /\ hold'[c].by = by /\ hold'[c].decision = decision
      /\ hold'[c].told = told /\ hold'[c].known = p.known
  BY <1>1, <1>3 DEF HoldState
<1>5. Won(c)
  BY <1>4 DEF Won, Unresolved
<1>6. QED
  BY <1>3, <1>5, OneLives DEF Lives

LEMMA HandlerLives ==
    ASSUME TypeOK, OnceInv, NEW s \in Sessions, Handler(s)
    PROVE  \A c \in Call : Lives(c)
<1> USE DEF daemonVars
<1>1. CASE HandleArguments(s)
  <2> DEFINE c == <<s, Head(c2d[s]).n>>
             k == hold[c].known \/ hold[c].stage = "held"
  <2>1. hold' = [hold EXCEPT ![c] = [hold[c] EXCEPT !.known = k]]
    BY <1>1 DEF HandleArguments
  <2>2. c \in Call
    <3>1. Head(c2d[s]) \in Item /\ Head(c2d[s]).kind = "args"
      BY <1>1, ReceivedTyped DEF HandleArguments
    <3>2. QED
      BY <3>1, Items DEF Call
  <2> HIDE DEF c
  <2>3. hold'[c] = [hold[c] EXCEPT !.known = k] /\ \A d \in Call : d # c => hold'[d] = hold[d]
    BY <2>1, <2>2 DEF TypeOK
  <2>4. hold[c] \in HoldState
    BY <2>2 DEF TypeOK
  <2>5. Kept(c)
    BY <2>3, <2>4 DEF Kept, HoldState
  <2>6. QED
    BY <2>2, <2>3, <2>5, OneLives DEF Lives
<1>2. CASE HandleRequest(s)
  <2> DEFINE n == Head(c2d[s]).n
             c == <<s, n>>
  <2>1. CASE UNCHANGED hold
    BY <2>1, NobodyLives
  <2>2. CASE hold' = [hold EXCEPT ![c] = [NotHeld EXCEPT !.stage = "held"]] /\ Goto(s, Busy("arm", n, "pending"))
    <3>1. Receives(s, "request") /\ s \in owned /\ UNCHANGED <<request, queue, seq, link, owned>>
      BY <1>2 DEF HandleRequest, journalVars, relayVars
    <3>2. n \in Questions(c2d[s]) /\ handler[s].pc = "read"
      BY <3>1, ReceivingIsCalm DEF OnceInv
    <3>3. n \in Seqs /\ Unheard(s, n) /\ c \in Call
      BY <3>2 DEF OnceInv, UnheardInv, Questions, Call
    <3>4. hold'[c] = [NotHeld EXCEPT !.stage = "held"] /\ \A d \in Call : d # c => hold'[d] = hold[d]
      BY <2>2, <3>3 DEF TypeOK
    <3>5. handler'[s].pc = "arm" /\ c[1] = s
      BY <2>2 DEF Goto, Busy, TypeOK
    <3>6. Begun(c)
      BY <3>1, <3>2, <3>3, <3>4, <3>5 DEF Begun, Unheard
    <3> HIDE DEF c
    <3>7. QED
      BY <3>3, <3>4, <3>6, OneLives DEF Lives
  <2>3. QED
    BY <1>2, <2>1, <2>2 DEF HandleRequest
<1>3. CASE ArmTimer(s)
  <2> DEFINE c == <<s, handler[s].n>>
  <2>1. c \in Call /\ hold' = [hold EXCEPT ![c] = [hold[c] EXCEPT !.timer = "armed"]]
    BY <1>3, Programs DEF ArmTimer, Arm, TypeOK, Call
  <2> HIDE DEF c
  <2>2. hold'[c] = [hold[c] EXCEPT !.timer = "armed"] /\ \A d \in Call : d # c => hold'[d] = hold[d]
    BY <2>1 DEF TypeOK
  <2>3. Kept(c)
    BY <2>1, <2>2 DEF Kept, TypeOK, HoldState
  <2>4. QED
    BY <2>1, <2>2, <2>3, OneLives DEF Lives
<1>4. ASSUME NEW n \in Seqs, RejectHeld(s, n) PROVE \A c \in Call : Lives(c)
  <2>1. <<s, n>> \in Call /\ <<s, n>>[1] = s
    BY DEF Call
  <2>2. QED
    BY <1>4, <2>1, WinningLives DEF RejectHeld
<1>5. CASE UNCHANGED hold
  BY <1>5, NobodyLives
<1>6. QED
  BY <1>1, <1>2, <1>3, <1>4, <1>5
  DEF Handler, Accept, HandleForeign, HandleStart, HandleOutcome, HandleEnd, CheckBudgets,
      RecordDecision, Reply, HandlerEOF, Cleanup, RejectDone

LEMMA SettleLives ==
    ASSUME TypeOK, OnceInv, NEW c \in Call, Settle(c)
    PROVE  \A d \in Call : Lives(d)
<1> DEFINE p == hold[c]
<1>0. p \in HoldState
  BY DEF TypeOK
<1>1. CASE TimeOut(c) /\ Unresolved(c)
  <2>1. hold' = [hold EXCEPT ![c].stage = "won", ![c].by = "timer", ![c].decision = "rejected",
                             ![c].told = TimedOutTold, ![c].timer = "off"]
    BY <1>1 DEF TimeOut
  <2>2. TimedOutTold = "timed_out"
    BY DEF TimedOutTold
  <2>3. QED
    BY <1>1, <2>1, <2>2, WinningLives
<1>2. CASE ~(TimeOut(c) /\ Unresolved(c))
  <2>1. \/ hold' = [hold EXCEPT ![c].timer = "fired"]
        \/ hold' = [hold EXCEPT ![c].timer = "off"]
        \/ p.stage = "won" /\ hold' = [hold EXCEPT ![c].stage = "recorded"]
        \/ p.stage = "won" /\ hold' = [hold EXCEPT ![c].stage = "recorded", ![c].told = "undecided"]
        \/ p.stage = "recorded" /\ hold' = [hold EXCEPT ![c].stage = "done"]
    BY <1>2 DEF Settle, TimerFires, TimeOut, RecordSettled, TellSettled, ToldUnrecorded
  <2>2. \/ hold'[c] = [p EXCEPT !.timer = "fired"]
        \/ hold'[c] = [p EXCEPT !.timer = "off"]
        \/ p.stage = "won" /\ hold'[c] = [p EXCEPT !.stage = "recorded"]
        \/ p.stage = "won" /\ hold'[c] = [p EXCEPT !.stage = "recorded", !.told = "undecided"]
        \/ p.stage = "recorded" /\ hold'[c] = [p EXCEPT !.stage = "done"]
    BY <2>1 DEF TypeOK
  <2>3. \A d \in Call : d # c => hold'[d] = hold[d]
    BY <2>1 DEF TypeOK
  <2>4. Kept(c)
    BY <1>0, <2>2 DEF Kept, HoldState, Settling
  <2>5. QED
    BY <2>3, <2>4, OneLives DEF Lives
<1>3. QED
  BY <1>1, <1>2

\* Every step keeps a held call, begins it or ends it.
LEMMA HoldLife ==
    ASSUME TypeOK, OnceInv, [Next]_vars
    PROVE  \A c \in Call : Lives(c)
<1>1. CASE UNCHANGED hold
  BY <1>1, NobodyLives
<1>2. ASSUME NEW h \in Humans, HumanDecides(h), Unresolved(human[h].c)
      PROVE  \A c \in Call : Lives(c)
  <2> DEFINE c == human[h].c
             d == human[h].decision
  <2>1. /\ c \in Call /\ d \in {"approved", "rejected"} /\ Win(c, "human", d, d)
        /\ human[h] # NoLookup /\ human[h].c = c /\ human[h].decision = d /\ Unresolved(c)
    BY <1>2 DEF HumanDecides, TypeOK, HumanState
  <2> HIDE DEF c, d
  <2>2. QED
    BY <2>1, WinningLives
<1>3. CASE DaemonExits
  <2>1. SUFFICES ASSUME NEW c \in Call PROVE Kept(c)
    BY DEF Lives
  <2>2. hold'[c] = [hold[c] EXCEPT !.stage = IF @ \in {"held"} \cup Settling THEN "lost" ELSE @,
                                   !.timer = "off"]
    BY <1>3 DEF DaemonExits
  <2>3. hold[c] \in HoldState
    BY DEF TypeOK
  <2>4. QED
    BY <2>2, <2>3 DEF Kept, HoldState, Settling
<1>4. ASSUME NEW s \in Sessions, Relay(s) \/ Reporter(s) PROVE UNCHANGED hold
  BY <1>4 DEF daemonVars, Relay, Reporter, Connect, AskDaemon, GiveUp, Finish, RelayKilled, ServerResponds,
     ReporterSends, ReporterReadsFinal, ReporterReadsPending, ReporterOutOfStep,
     ReporterGivesUp, ReporterEnds
<1>5. ASSUME NEW h \in Humans, Human(h) PROVE \A c \in Call : Lives(c)
  BY <1>1, <1>2, <1>5 DEF Human, HumanDecides, HumanLooksUp
<1>6. CASE DaemonSignalled \/ DaemonStarts \/ UNCHANGED vars
  BY <1>1, <1>6 DEF DaemonSignalled, DaemonStarts, vars, daemonVars
<1>7. QED
  BY <1>1, <1>3, <1>4, <1>5, <1>6, HandlerLives, SettleLives DEF Next

\* Every entry is a settler's or a rule's.
LEMMA RecordLife ==
    ASSUME TypeOK, [Next]_vars, NEW c \in Call, request'[c] # request[c]
    PROVE  \/ hold[c].stage = "won" /\ request'[c] = hold[c].decision
           \/ /\ handler[c[1]].pc = "append" /\ handler[c[1]].n = c[2]
              /\ request'[c] = handler[c[1]].decision /\ handler'[c[1]].pc = "reply"
<1> USE DEF journalVars, relayVars, daemonVars
<1>1. ASSUME NEW s \in Sessions, RecordDecision(s)
      PROVE  /\ handler[c[1]].pc = "append" /\ handler[c[1]].n = c[2]
             /\ request'[c] = handler[c[1]].decision /\ handler'[c[1]].pc = "reply"
  <2> DEFINE d == <<s, handler[s].n>>
  <2>1. handler[s].pc = "append" /\ d \in Call /\ d[1] = s /\ d[2] = handler[s].n
    BY <1>1, Programs DEF RecordDecision, TypeOK, Call
  <2>2. request' = [request EXCEPT ![d] = handler[s].decision]
    BY <1>1 DEF RecordDecision, RecordOK, RecordFails
  <2>3. handler'[s].pc = "reply"
    BY <1>1 DEF RecordDecision, Goto, Busy, TypeOK
  <2> HIDE DEF d
  <2>4. c = d /\ request'[d] = handler[s].decision
    BY <2>1, <2>2 DEF TypeOK
  <2>5. QED
    BY <2>1, <2>4, <2>3
<1>2. ASSUME NEW d \in Call, RecordSettled(d)
      PROVE  hold[c].stage = "won" /\ request'[c] = hold[c].decision
  BY <1>2 DEF RecordSettled, RecordOK, RecordFails, TypeOK
<1>3. CASE UNCHANGED request
  BY <1>3
<1>4. ASSUME NEW s \in Sessions, Relay(s) \/ Reporter(s) PROVE UNCHANGED request
  BY <1>4 DEF Relay, Reporter, Connect, AskDaemon, GiveUp, Finish, RelayKilled, ServerResponds,
     ReporterSends, ReporterReadsFinal, ReporterReadsPending, ReporterOutOfStep,
     ReporterGivesUp, ReporterEnds
<1>5. ASSUME NEW s \in Sessions, Handler(s), ~RecordDecision(s) PROVE UNCHANGED request
  BY <1>5 DEF Handler, Accept, HandleForeign, HandleStart, HandleOutcome, HandleArguments,
     HandleEnd, HandleRequest, CheckBudgets, ArmTimer, Reply, HandlerEOF, Cleanup, RejectDone,
     RejectHeld
<1>6. ASSUME NEW d \in Call, Settle(d), ~RecordSettled(d) PROVE UNCHANGED request
  BY <1>6 DEF Settle, TimerFires, TimeOut, TellSettled
<1>7. CASE DaemonSignalled \/ DaemonExits \/ DaemonStarts \/ UNCHANGED vars \/ \E h \in Humans : Human(h)
  BY <1>3, <1>7 DEF DaemonSignalled, DaemonExits, DaemonStarts, vars, Human, HumanDecides, HumanLooksUp
<1>8. QED
  BY <1>1, <1>2, <1>3, <1>4, <1>5, <1>6, <1>7 DEF Next

-----------------------------------------------------------------------------
(***************************************************************************)
(* An approval goes back to an operator who was shown the arguments.       *)
(***************************************************************************)

ByHumanOnSight(c) == hold[c].by = "human" /\ hold[c].known

ShownInv ==
    /\ \A h \in Humans : human[h] # NoLookup =>
         /\ hold[human[h].c].stage # "none"
         /\ human[h].decision = "approved" => hold[human[h].c].known
    /\ \A c \in Call : hold[c].decision = "approved" \/ request[c] = "approved" => ByHumanOnSight(c)

LEMMA StepShows ==
    ASSUME TypeOK, OnceInv, ShownInv, [Next]_vars
    PROVE  ShownInv'
<1>1. \A c \in Call : Lives(c)
  BY HoldLife
<1>2. ASSUME NEW h \in Humans, human'[h] # NoLookup
      PROVE  /\ hold'[human'[h].c].stage # "none"
             /\ human'[h].decision = "approved" => hold'[human'[h].c].known
  <2>1. CASE human'[h] = human[h]
    <3>1. human[h].c \in Call
      BY <1>2, <2>1 DEF TypeOK, HumanState
    <3>2. hold[human[h].c].stage # "none"
      BY <1>2, <2>1 DEF ShownInv
    <3>3. Kept(human[h].c) \/ Won(human[h].c)
      BY <1>1, <3>1, <3>2 DEF Lives, Begun
    <3>4. QED
      BY <1>2, <2>1, <3>3 DEF ShownInv, Kept, Won
  <2>2. CASE human'[h] # human[h]
    <3>1. PICK c \in Call, d \in {"approved", "rejected"} : HumanLooksUp(h, c, d)
      <4>1. ASSUME NEW s \in Sessions, Relay(s) \/ Reporter(s) \/ Handler(s) PROVE UNCHANGED human
        BY <4>1 DEF daemonVars, Relay, Reporter, Handler, Connect, AskDaemon, GiveUp, Finish,
           RelayKilled, ServerResponds, ReporterSends, ReporterReadsFinal,
           ReporterReadsPending, ReporterOutOfStep, ReporterGivesUp, ReporterEnds, Accept,
           HandleForeign, HandleStart, HandleOutcome, HandleArguments, HandleEnd,
           HandleRequest, CheckBudgets, RecordDecision, ArmTimer, Reply, HandlerEOF, Cleanup,
           RejectDone, RejectHeld
      <4>2. ASSUME NEW c \in Call, Settle(c) PROVE UNCHANGED human
        BY <4>2 DEF Settle, TimerFires, TimeOut, RecordSettled, TellSettled
      <4>3. CASE DaemonSignalled \/ DaemonExits \/ DaemonStarts \/ UNCHANGED vars
        BY <1>2, <2>2, <4>3
        DEF DaemonSignalled, DaemonExits, DaemonStarts, vars, daemonVars
      <4>4. ASSUME NEW g \in Humans, Human(g), human'[h] # human[h], human'[h] # NoLookup
            PROVE  \E c \in Call, d \in {"approved", "rejected"} : HumanLooksUp(h, c, d)
        BY <4>4 DEF Human, HumanDecides, HumanLooksUp, TypeOK
      <4>5. QED
        BY <1>2, <2>2, <4>1, <4>2, <4>3, <4>4 DEF Next
    <3>2. human'[h] = [c |-> c, decision |-> d] /\ UNCHANGED hold /\ MayDecide(c, d)
      BY <3>1 DEF HumanLooksUp, TypeOK
    <3>3. QED
      BY <3>2 DEF MayDecide
  <2>3. QED
    BY <2>1, <2>2
<1>3. ASSUME NEW c \in Call, hold'[c].decision = "approved" \/ request'[c] = "approved"
      PROVE  ByHumanOnSight(c)'
  <2>1. CASE Kept(c)
    <3>1. hold[c].decision = "approved" \/ request[c] = "approved"
      <4>1. CASE request'[c] # request[c] /\ request'[c] = "approved"
        <5>1. handler[c[1]].decision \in {"allow", "deny"} \/ hold[c].decision = "approved"
          BY <4>1, RecordLife, Programs DEF TypeOK, Call
        <5>2. QED
          BY <4>1, <5>1, RecordLife, Programs DEF TypeOK, Call
      <4>2. QED
        BY <1>3, <2>1, <4>1 DEF Kept
    <3>2. QED
      BY <2>1, <3>1 DEF ShownInv, ByHumanOnSight, Kept
  <2>2. CASE Begun(c)
    BY <1>3, <2>2 DEF Begun, NotHeld
  <2>3. CASE Won(c)
    <3>1. request[c] = "none" /\ hold[c].stage = "held"
      BY <2>3 DEF Won, OnceInv, UndecidedInv
    <3>2. request'[c] # "approved"
      <4>1. handler[c[1]].pc = "append" => handler[c[1]].decision \in {"allow", "deny"}
        BY Programs DEF TypeOK, Call
      <4>2. QED
        BY <3>1, <4>1, RecordLife
    <3>3. PICK h \in Humans : human[h] # NoLookup /\ human[h].c = c /\ human[h].decision = "approved"
      BY <1>3, <2>3, <3>2 DEF Won
    <3>4. QED
      BY <1>3, <2>3, <3>2, <3>3 DEF Won, ShownInv, ByHumanOnSight
  <2>4. QED
    BY <1>1, <2>1, <2>2, <2>3 DEF Lives
<1>4. QED
  BY <1>2, <1>3 DEF ShownInv

\* An approval on record is one operator's, of a call whose arguments the
\* daemon held, however the handlers of several operators interleave.
THEOREM ApprovalsWereShown == Spec => []ApprovedWasShown
<1>1. Init => ShownInv
  BY DEF Init, ShownInv, NotHeld
<1>2. TypeOK /\ OnceInv /\ ShownInv /\ [Next]_vars => ShownInv'
  BY StepShows
<1>3. ShownInv => ApprovedWasShown
  BY DEF ShownInv, ByHumanOnSight, ApprovedWasShown
<1>4. QED
  BY <1>1, <1>2, <1>3, TypeCorrect, OneQuestionAtATime, PTL DEF Spec

-----------------------------------------------------------------------------
(***************************************************************************)
(* A held call does not outlive its session.                               *)
(***************************************************************************)

\* Its session is open on the connection, or about to reject what it holds.
OrphanInv ==
    \A s \in Sessions, n \in Seqs : hold[<<s, n>>].stage = "held" =>
        /\ handler[s].pc \notin {"none", "accepted", "closed"}
        /\ s \in owned \/ handler[s].pc \in {"reject", "final"}

LEMMA StepOrphansNone ==
    ASSUME TypeOK, OnceInv, OrphanInv, [Next]_vars
    PROVE  OrphanInv'
<1> USE DEF daemonVars
<1> SUFFICES ASSUME NEW s \in Sessions, NEW n \in Seqs, hold'[<<s, n>>].stage = "held"
             PROVE  /\ handler'[s].pc \notin {"none", "accepted", "closed"}
                    /\ s \in owned' \/ handler'[s].pc \in {"reject", "final"}
  BY DEF OrphanInv
<1> DEFINE c == <<s, n>>
<1>1. c \in Call /\ c[1] = s
  BY DEF Call
<1>2. Kept(c) \/ Begun(c)
  BY <1>1, HoldLife DEF Lives, Won
<1>3. CASE Begun(c)
  BY <1>1, <1>3 DEF Begun
<1>4. CASE Kept(c)
  <2>1. /\ hold[c].stage = "held"
        /\ handler[s].pc \notin {"none", "accepted", "closed"}
        /\ s \in owned \/ handler[s].pc \in {"reject", "final"}
    BY <1>4 DEF Kept, OrphanInv
  <2>2. CASE handler'[s] = handler[s] /\ (s \in owned => s \in owned')
    BY <2>1, <2>2
  <2>3. CASE Handler(s)
    <3>1. CASE Cleanup(s)
      BY <2>1, <3>1 DEF Cleanup, Goto, At, Busy, TypeOK
    <3>2. CASE HandleEnd(s)
      BY <2>1, <3>2 DEF HandleEnd, Receives, Goto, At, Busy, TypeOK
    <3>3. CASE RejectDone(s)
      BY <1>1, <1>4, <2>1, <3>3 DEF RejectDone, NoneLeft
    <3>4. CASE HandleForeign(s) \/ HandleStart(s) \/ HandleRequest(s) \/ HandlerEOF(s)
      BY <2>1, <3>4 DEF HandleForeign, HandleStart, HandleRequest, HandlerEOF, Receives, Goto,
         At, Busy, TypeOK
    <3>5. CASE CheckBudgets(s) \/ RecordDecision(s) \/ ArmTimer(s) \/ Reply(s)
      BY <2>1, <3>5 DEF CheckBudgets, RecordDecision, ArmTimer, Reply, Goto, At, Busy, TypeOK
    <3>6. CASE Accept(s) \/ HandleOutcome(s) \/ HandleArguments(s) \/ \E k \in Seqs : RejectHeld(s, k)
      BY <2>1, <3>6 DEF Accept, HandleOutcome, HandleArguments, RejectHeld
    <3>7. QED
      BY <2>3, <3>1, <3>2, <3>3, <3>4, <3>5, <3>6 DEF Handler
  <2>4. CASE DaemonExits
    BY <1>1, <2>4, <2>1 DEF DaemonExits, TypeOK, HoldState
  <2>5. CASE Connect(s)
    <3>1. seq[s] = 0 /\ n > seq[s]
      BY <2>5 DEF Connect, OnceInv, LineInv, Seqs
    <3>2. QED
      BY <2>1, <3>1 DEF OnceInv, UnheardInv, Unheard
  <2>6. ASSUME NEW t \in Sessions, t # s, Handler(t) \/ Relay(t)
        PROVE  handler'[s] = handler[s] /\ (s \in owned => s \in owned')
    BY <2>6 DEF Handler, Accept, HandleForeign, HandleStart, HandleOutcome, HandleArguments,
       HandleEnd, HandleRequest, CheckBudgets, RecordDecision, ArmTimer, Reply, HandlerEOF,
       Cleanup, RejectDone, RejectHeld, Goto, TypeOK, Relay, Connect, AskDaemon, GiveUp,
       Finish, RelayKilled, ServerResponds
  <2>7. ASSUME NEW t \in Sessions, Reporter(t) \/ AskDaemon(t) \/ GiveUp(t) \/ Finish(t)
                  \/ RelayKilled(t) \/ \E k \in Seqs : ServerResponds(t, k)
        PROVE  UNCHANGED <<handler, owned>>
    BY <2>7 DEF Reporter, ReporterSends, ReporterReadsFinal, ReporterReadsPending,
       ReporterOutOfStep, ReporterGivesUp, ReporterEnds, AskDaemon, GiveUp, Finish,
       RelayKilled, ServerResponds
  <2>8. ASSUME NEW d \in Call, Settle(d) PROVE UNCHANGED <<handler, owned>>
    BY <2>8 DEF Settle, TimerFires, TimeOut, RecordSettled, TellSettled
  <2>9. CASE DaemonSignalled \/ DaemonStarts \/ UNCHANGED vars \/ \E h \in Humans : Human(h)
    BY <2>2, <2>9 DEF DaemonSignalled, DaemonStarts, vars, Human, HumanDecides, HumanLooksUp
  <2>10. QED
    BY <2>2, <2>3, <2>4, <2>5, <2>6, <2>7, <2>8, <2>9 DEF Next, Relay
<1>5. QED
  BY <1>2, <1>3, <1>4

\* When the goroutine of its connection has ended, no call of a session is
\* held any more.
THEOREM HoldsEndWithTheirSession == Spec => []NoOrphanHold
<1>1. Init => OrphanInv
  <2>1. \A s \in Sessions, n \in Seqs : <<s, n>> \in Call
    BY DEF Call
  <2>2. QED
    BY <2>1 DEF Init, OrphanInv, NotHeld
<1>2. TypeOK /\ OnceInv /\ OrphanInv /\ [Next]_vars => OrphanInv'
  BY StepOrphansNone
<1>3. OrphanInv => NoOrphanHold
  BY DEF OrphanInv, NoOrphanHold, Call
<1>4. QED
  BY <1>1, <1>2, <1>3, TypeCorrect, OneQuestionAtATime, PTL DEF Spec

-----------------------------------------------------------------------------
(***************************************************************************)
(* The budget, although it is counted before the entry is written.         *)
(***************************************************************************)

\* An allow on its way to the journal is still below the cap.
BudgetInv ==
    \A s \in Sessions :
        handler[s].pc = "append" /\ handler[s].decision = "allow" => ~Exhausted(s)

\* While a connection's goroutine decides, nobody records for its session.
LEMMA NobodyElseRecords ==
    ASSUME TypeOK, OnceInv, [Next]_vars, NEW s \in Sessions, handler[s].pc \in Deciding,
           handler'[s] = handler[s]
    PROVE  Used(s)' = Used(s)
<1> DEFINE n == handler[s].n
<1>1. n \in Seqs /\ <<s, n>> \in Call /\ hold[<<s, n>>].stage = "none" /\ Outstanding(s, n)
  BY Programs DEF TypeOK, Deciding, Call, OnceInv, UndecidedInv, Outstanding
<1> HIDE DEF n
<1>2. ASSUME NEW m \in Seqs, request'[<<s, m>>] # request[<<s, m>>] PROVE FALSE
  <2> DEFINE c == <<s, m>>
  <2>1. c \in Call /\ c[1] = s /\ c[2] = m
    BY DEF Call
  <2>2. hold[c].stage = "won"
    BY <1>2, <2>1, RecordLife
  <2>3. Outstanding(s, m)
    BY <2>2 DEF Outstanding, Settling
  <2>4. m = n
    BY <1>1, <2>3 DEF OnceInv, OneOutstanding
  <2>5. QED
    BY <1>1, <2>2, <2>4
<1>3. QED
  BY <1>2 DEF Used

LEMMA StepKeepsBudget ==
    ASSUME TypeOK, OnceInv, BudgetInv, [Next]_vars
    PROVE  BudgetInv'
<1> USE DEF daemonVars
<1> SUFFICES ASSUME NEW s \in Sessions, handler'[s].pc = "append", handler'[s].decision = "allow"
             PROVE  ~Exhausted(s)'
  BY DEF BudgetInv
<1>1. CASE handler'[s] = handler[s]
  BY <1>1, NobodyElseRecords DEF BudgetInv, Exhausted, Deciding
<1>2. CASE CheckBudgets(s)
  <2>1. UNCHANGED request /\ ~Exhausted(s)
    BY <1>2 DEF CheckBudgets, Goto, Busy, TypeOK, journalVars
  <2>2. QED
    BY <2>1 DEF Exhausted, Used
<1>3. CASE Handler(s) /\ ~CheckBudgets(s) /\ handler'[s] # handler[s]
  <2>1. ASSUME NEW state, Goto(s, state) PROVE handler'[s] = state
    BY <2>1 DEF Goto, TypeOK
  <2>2. CASE HandleRequest(s)
    BY <2>1, <2>2 DEF HandleRequest, Busy
  <2>3. CASE RecordDecision(s)
    BY <2>1, <2>3 DEF RecordDecision, Busy
  <2>4. CASE Accept(s) \/ HandleForeign(s) \/ HandleStart(s) \/ HandleEnd(s) \/ HandlerEOF(s)
             \/ Cleanup(s) \/ RejectDone(s)
    BY <1>3, <2>1, <2>4 DEF Accept, HandleForeign, HandleStart, HandleEnd, HandlerEOF, Cleanup,
       RejectDone, At, Busy
  <2>5. CASE ArmTimer(s) \/ Reply(s)
    BY <2>1, <2>5 DEF ArmTimer, Reply, At, Busy
  <2>6. QED
    BY <1>3, <2>2, <2>3, <2>4, <2>5 DEF Handler, HandleOutcome, HandleArguments, RejectHeld
<1>4. CASE Connect(s)
  BY <1>1, <1>4 DEF Connect, At, Busy, TypeOK
<1>5. CASE DaemonExits
  BY <1>1, <1>5 DEF DaemonExits, At, Busy
<1>6. ASSUME NEW t \in Sessions, t # s, Handler(t) \/ Connect(t)
      PROVE  handler'[s] = handler[s]
  BY <1>6 DEF Handler, Accept, HandleForeign, HandleStart, HandleOutcome, HandleArguments,
     HandleEnd, HandleRequest, CheckBudgets, RecordDecision, ArmTimer, Reply, HandlerEOF,
     Cleanup, RejectDone, RejectHeld, Goto, TypeOK, Connect
<1>7. ASSUME NEW t \in Sessions, Relay(t) \/ Reporter(t), ~Connect(t)
      PROVE  UNCHANGED handler
  BY <1>7 DEF Relay, Reporter, ReporterSends, ReporterReadsFinal, ReporterReadsPending,
     ReporterOutOfStep, ReporterGivesUp, ReporterEnds, AskDaemon, GiveUp, Finish,
     RelayKilled, ServerResponds
<1>8. ASSUME NEW d \in Call, Settle(d) PROVE UNCHANGED handler
  BY <1>8 DEF Settle, TimerFires, TimeOut, RecordSettled, TellSettled
<1>9. CASE DaemonSignalled \/ DaemonStarts \/ UNCHANGED vars \/ \E h \in Humans : Human(h)
  BY <1>1, <1>9 DEF DaemonSignalled, DaemonStarts, vars, Human, HumanDecides, HumanLooksUp
<1>10. QED
  BY <1>1, <1>2, <1>3, <1>4, <1>5, <1>6, <1>7, <1>8, <1>9 DEF Next

LEMMA UsedIsCounted == \A s \in Sessions : Used(s) \in Nat
<1>1. IsFiniteSet(Seqs)
  BY ConstantsAssumption, FS_Interval DEF Seqs
<1>2. \A s \in Sessions : IsFiniteSet({n \in Seqs : request[<<s, n>>] \in Grants})
  BY <1>1, FS_Subset
<1>3. QED
  BY <1>2, FS_CardinalityType DEF Used

\* A rule's allow is recorded only below the cap: between the count and the
\* entry no other step of the daemon records a call of the session.
THEOREM AllowsKeepToTheBudget == Spec => AllowStaysWithinBudget
<1>1. Init => BudgetInv
  BY DEF Init, BudgetInv, At, Busy
<1>2. TypeOK /\ OnceInv /\ BudgetInv /\ [Next]_vars => BudgetInv'
  BY StepKeepsBudget
<1>3. TypeOK /\ OnceInv /\ BudgetInv /\ [Next]_vars =>
        [\A s \in Sessions, n \in Seqs :
            request[<<s, n>>] # request'[<<s, n>>] /\ request'[<<s, n>>] = "allow"
                => Used(s) < Cap]_request
  <2> SUFFICES ASSUME TypeOK, BudgetInv, [Next]_vars, NEW s \in Sessions, NEW n \in Seqs,
                      request[<<s, n>>] # request'[<<s, n>>], request'[<<s, n>>] = "allow"
               PROVE  Used(s) < Cap
    OBVIOUS
  <2> DEFINE c == <<s, n>>
  <2>1. c \in Call /\ c[1] = s
    BY DEF Call
  <2>2. hold[c].stage = "won" => hold[c].decision \in {"approved", "rejected"}
    BY <2>1, HoldGoesOn DEF TypeOK, Settling
  <2>3. handler[s].pc = "append" /\ handler[s].decision = "allow"
    BY <2>1, <2>2, RecordLife
  <2>4. QED
    BY <2>3, UsedIsCounted, ConstantsAssumption DEF BudgetInv, Exhausted
<1>4. QED
  BY <1>1, <1>2, <1>3, TypeCorrect, OneQuestionAtATime, PTL DEF Spec, AllowStaysWithinBudget

-----------------------------------------------------------------------------
(***************************************************************************)
(* Whose rejection the client hears of.  The end of a session rejects what *)
(* it holds, but by then nobody waits for the answer: the report of the    *)
(* end leaves the relay last, when no question is out, and the goroutine   *)
(* of a connection that ended otherwise cannot write to it.                *)
(***************************************************************************)

Kinds(q) == {e.kind : e \in Range(q)}
FirstOnly(q, kind) == \A i \in DOMAIN q : q[i].kind = kind => i = 1
LastOnly(q, kind)  == \A i \in DOMAIN q : q[i].kind = kind => i = Len(q)

\* The first thing on a line is the start, the last is the end.
EndsOf(s) ==
    /\ link[s] = "none" => ~closed[s] /\ c2d[s] = <<>> /\ s \notin owned
    /\ ~closed[s] => "end" \notin Kinds(queue[s]) \cup Kinds(c2d[s])
    /\ LastOnly(queue[s], "end")
    /\ "end" \in Kinds(c2d[s]) => queue[s] = <<>> /\ ~Waiting(s)
    /\ FirstOnly(queue[s], "start")
    /\ "start" \in Kinds(queue[s]) => c2d[s] = <<>> /\ ~Waiting(s) /\ s \notin owned
    /\ FirstOnly(c2d[s], "start")
    /\ "start" \in Kinds(c2d[s]) => s \notin owned
    /\ "longargs" \notin Kinds(queue[s])
    /\ ~LongArguments => "longargs" \notin Kinds(c2d[s])
EndsInv == \A s \in Sessions : EndsOf(s)

\* A session's end rejects nothing its relay could still hear of.
QuietInv ==
    \A s \in Sessions, n \in Seqs :
        /\ link[s] = "up" /\ handler[s].pc \in {"reject", "cleanup", "final"}
               => hold[<<s, n>>].stage # "held"
        /\ hold[<<s, n>>].by = "session" => link[s] # "up"

RejectedInv ==
    /\ \A c \in Call : hold[c].told = "rejected" => hold[c].by \in {"human", "session"}
    /\ \A s \in Sessions : \A m \in Range(d2c[s]) :
         m.decision = "rejected" => hold[<<s, m.n>>].by = "human"

\* What a line carries when something is put behind it or taken off it.
LEMMA NoKinds ==
    Kinds(<<>>) = {} /\ \A k : FirstOnly(<<>>, k) /\ LastOnly(<<>>, k)
BY NothingCarried DEF Kinds, FirstOnly, LastOnly

LEMMA KindsBehind ==
    ASSUME NEW q \in Seq(Item), NEW e \in Item
    PROVE  /\ Kinds(Append(q, e)) = Kinds(q) \cup {e.kind}
           /\ FirstOnly(q, "start") /\ (e.kind # "start" \/ q = <<>>)
                  => FirstOnly(Append(q, e), "start")
           /\ "end" \notin Kinds(q) => LastOnly(Append(q, e), "end")
<1>1. /\ DOMAIN Append(q, e) = 1..(Len(q) + 1) /\ DOMAIN q = 1..Len(q) /\ Len(q) \in Nat
      /\ Append(q, e)[Len(q) + 1] = e /\ Len(Append(q, e)) = Len(q) + 1
      /\ \A i \in DOMAIN q : Append(q, e)[i] = q[i] /\ q[i] \in Range(q)
  BY DEF Range
<1>2. Kinds(Append(q, e)) = Kinds(q) \cup {e.kind}
  BY Carried DEF Kinds
<1>3. ASSUME FirstOnly(q, "start"), e.kind # "start" \/ q = <<>>
      PROVE  FirstOnly(Append(q, e), "start")
  BY <1>1, <1>3 DEF FirstOnly
<1>4. ASSUME "end" \notin Kinds(q) PROVE LastOnly(Append(q, e), "end")
  <2>1. \A i \in DOMAIN q : q[i].kind # "end"
    BY <1>1, <1>4 DEF Kinds
  <2>2. QED
    BY <1>1, <2>1 DEF LastOnly
<1>5. QED
  BY <1>2, <1>3, <1>4

LEMMA KindsTaken ==
    ASSUME NEW q \in Seq(Item), q # <<>>
    PROVE  /\ Head(q) \in Item /\ Head(q).kind \in Kinds(q)
           /\ Tail(q) \in Seq(Item) /\ Kinds(Tail(q)) \subseteq Kinds(q)
           /\ FirstOnly(q, "start") => "start" \notin Kinds(Tail(q)) /\ FirstOnly(Tail(q), "start")
           /\ LastOnly(q, "end") => LastOnly(Tail(q), "end")
           /\ LastOnly(q, "end") /\ Head(q).kind = "end" => Tail(q) = <<>>
<1>1. /\ DOMAIN q = 1..Len(q) /\ Len(q) \in Nat \ {0} /\ Head(q) = q[1] /\ 1 \in DOMAIN q
      /\ Tail(q) \in Seq(Item) /\ Len(Tail(q)) = Len(q) - 1 /\ DOMAIN Tail(q) = 1..(Len(q) - 1)
      /\ \A i \in DOMAIN Tail(q) : i + 1 \in DOMAIN q /\ Tail(q)[i] = q[i + 1]
  OBVIOUS
<1>2. Head(q) \in Range(q) /\ Range(Tail(q)) \subseteq Range(q) /\ Range(q) \subseteq Item
  BY Carried
<1>3. Head(q).kind \in Kinds(q) /\ Kinds(Tail(q)) \subseteq Kinds(q)
  BY <1>2 DEF Kinds
<1>4. ASSUME FirstOnly(q, "start") PROVE "start" \notin Kinds(Tail(q)) /\ FirstOnly(Tail(q), "start")
  <2>1. \A i \in DOMAIN Tail(q) : Tail(q)[i].kind # "start"
    BY <1>1, <1>4 DEF FirstOnly
  <2>2. QED
    BY <2>1 DEF Kinds, Range, FirstOnly
<1>5. LastOnly(q, "end") => LastOnly(Tail(q), "end")
  BY <1>1 DEF LastOnly
<1>6. ASSUME LastOnly(q, "end"), Head(q).kind = "end" PROVE Tail(q) = <<>>
  <2>1. Len(q) = 1
    BY <1>1, <1>6 DEF LastOnly
  <2>2. QED
    BY <1>1, <2>1
<1>7. QED
  BY <1>1, <1>2, <1>3, <1>4, <1>5, <1>6

\* A session whose line and reporter are left alone.
LEMMA EndsStay ==
    ASSUME NEW s \in Sessions, EndsOf(s), queue'[s] = queue[s], c2d'[s] = c2d[s],
           closed'[s] = closed[s], link'[s] = link[s] \/ link'[s] = "down",
           rep'[s] = rep[s] \/ rep'[s].pc \notin {"first", "held"}, s \in owned' => s \in owned
    PROVE  EndsOf(s)'
BY DEF EndsOf, Waiting

\* The pump and the server put something behind the queue.
LEMMA OfferKeepsEnds ==
    ASSUME TypeOK, EndsInv, NEW s \in Sessions, NEW e \in Item, Offer(s, e),
           e.kind \in {"request", "outcome", "end"},
           UNCHANGED <<c2d, link, rep, owned>>,
           \/ e.kind # "end" /\ UNCHANGED closed
           \/ ~closed[s] /\ closed' = [closed EXCEPT ![s] = TRUE] /\ link[s] # "none"
    PROVE  EndsInv'
<1> SUFFICES ASSUME NEW t \in Sessions PROVE EndsOf(t)'
  BY DEF EndsInv
<1>0. EndsOf(t)
  BY DEF EndsInv
<1>1. CASE t # s
  BY <1>0, <1>1, EndsStay DEF Offer, TypeOK
<1>2. CASE t = s /\ HasRoom(s)
  <2>1. queue[s] \in Seq(Item) /\ queue'[s] = Append(queue[s], e) /\ ~closed[s]
    BY <1>2 DEF Offer, HasRoom, TypeOK
  <2>2. "end" \notin Kinds(queue[s]) \cup Kinds(c2d[s])
    BY <1>0, <1>2, <2>1 DEF EndsOf
  <2>3. /\ Kinds(queue'[s]) = Kinds(queue[s]) \cup {e.kind}
        /\ FirstOnly(queue'[s], "start") /\ LastOnly(queue'[s], "end")
    BY <1>0, <1>2, <2>1, <2>2, KindsBehind DEF EndsOf
  <2>4. e.kind = "end" => closed'[s] /\ link[s] # "none"
    BY DEF TypeOK
  <2>5. closed'[s] => closed[s] \/ link[s] # "none"
    BY DEF TypeOK
  <2>6. QED
    BY <1>0, <1>2, <2>2, <2>3, <2>4, <2>5 DEF EndsOf, Waiting
<1>3. CASE t = s /\ ~HasRoom(s)
  <2>1. queue'[s] = queue[s]
    BY <1>3 DEF Offer, TypeOK
  <2>2. closed'[s] = closed[s] \/ (closed'[s] /\ link[s] # "none")
    BY DEF TypeOK
  <2>3. QED
    BY <1>0, <1>3, <2>1, <2>2 DEF EndsOf, Waiting
<1>4. QED
  BY <1>1, <1>2, <1>3

LEMMA RelayKeepsEnds ==
    ASSUME TypeOK, EndsInv, NEW s \in Sessions, Relay(s)
    PROVE  EndsInv'
<1> USE DEF daemonVars
<1>1. CASE Connect(s)
  <2> SUFFICES ASSUME NEW t \in Sessions PROVE EndsOf(t)'
    BY DEF EndsInv
  <2>0. EndsOf(t)
    BY DEF EndsInv
  <2>1. CASE t # s
    BY <1>1, <2>0, <2>1, EndsStay DEF Connect, TypeOK
  <2>2. CASE t = s
    <3>1. /\ queue'[s] = <<Event("start", 0)>> /\ link[s] = "none" /\ link'[s] # "none"
          /\ rep[s].pc = "idle" /\ UNCHANGED <<closed, rep, c2d, owned>>
      BY <1>1 DEF Connect, TypeOK
    <3>2. queue'[s] = Append(<<>>, Event("start", 0)) /\ <<>> \in Seq(Item)
      BY <3>1
    <3>3. Event("start", 0) \in Item /\ Event("start", 0).kind = "start"
      BY Items DEF Event
    <3>4. /\ Kinds(queue'[s]) = {"start"} /\ FirstOnly(queue'[s], "start")
          /\ LastOnly(queue'[s], "end")
      BY <3>2, <3>3, NoKinds, KindsBehind
    <3>5. QED
      BY <2>0, <2>2, <3>1, <3>4, NoKinds DEF EndsOf, Waiting
  <2>3. QED
    BY <2>1, <2>2
<1>2. CASE AskDaemon(s)
  <2>1. Event("request", seq[s] + 1) \in Item /\ Event("request", seq[s] + 1).kind = "request"
    <3>1. seq[s] + 1 \in Seqs
      BY <1>2 DEF AskDaemon, TypeOK, Seqs
    <3>2. QED
      BY <3>1, Items DEF Event
  <2>2. QED
    BY <1>2, <2>1, OfferKeepsEnds DEF AskDaemon
<1>3. ASSUME NEW n \in Seqs, ServerResponds(s, n) PROVE EndsInv'
  <2>1. Event("outcome", n) \in Item /\ Event("outcome", n).kind = "outcome"
    BY Items DEF Event
  <2>2. QED
    BY <1>3, <2>1, OfferKeepsEnds DEF ServerResponds
<1>4. CASE Finish(s)
  <2>1. Event("end", 0) \in Item /\ Event("end", 0).kind = "end"
    BY Items DEF Event
  <2>2. QED
    BY <1>4, <2>1, OfferKeepsEnds DEF Finish
<1>5. CASE RelayKilled(s)
  <2> SUFFICES ASSUME NEW t \in Sessions PROVE EndsOf(t)'
    BY DEF EndsInv
  <2>0. EndsOf(t)
    BY DEF EndsInv
  <2>1. CASE t # s
    BY <1>5, <2>0, <2>1, EndsStay DEF RelayKilled, TypeOK
  <2>2. CASE t = s
    <3>1. /\ queue'[s] = <<>> /\ link'[s] = "down" /\ rep'[s].pc = "dead" /\ closed'[s]
          /\ UNCHANGED <<c2d, owned>>
      BY <1>5 DEF RelayKilled, TypeOK
    <3>2. QED
      BY <2>0, <2>2, <3>1, NoKinds DEF EndsOf, Waiting
  <2>3. QED
    BY <2>1, <2>2
<1>6. CASE GiveUp(s)
  BY <1>6, EndsStay DEF GiveUp, EndsInv
<1>7. QED
  BY <1>1, <1>2, <1>3, <1>4, <1>5, <1>6 DEF Relay

LEMMA ReporterKeepsEnds ==
    ASSUME TypeOK, AwaitInv, EndsInv, NEW s \in Sessions, Reporter(s)
    PROVE  EndsInv'
<1> USE DEF daemonVars
<1> SUFFICES ASSUME NEW t \in Sessions PROVE EndsOf(t)'
  BY DEF EndsInv
<1>0. EndsOf(t) /\ queue[s] \in Seq(Item) /\ c2d[s] \in Seq(Item)
  BY DEF EndsInv, TypeOK
<1>1. CASE t # s
  <2>1. UNCHANGED <<closed, owned>> /\ queue'[t] = queue[t] /\ c2d'[t] = c2d[t] /\ link'[t] = link[t]
    BY <1>1 DEF Reporter, ReporterSends, ReporterReadsFinal, ReporterReadsPending,
       ReporterOutOfStep, ReporterGivesUp, ReporterEnds, Drop, TypeOK
  <2>2. rep'[t] = rep[t]
    BY <1>1 DEF Reporter, ReporterSends, ReporterReadsFinal, ReporterReadsPending,
       ReporterOutOfStep, ReporterGivesUp, ReporterEnds, TypeOK
  <2>3. QED
    BY <1>0, <2>1, <2>2, EndsStay
<1>2. CASE t = s /\ ReporterSends(s)
  <2> DEFINE item == Head(queue[s])
  <2>1. /\ rep[s].pc = "idle" /\ queue[s] # <<>> /\ queue'[s] = Tail(queue[s])
        /\ UNCHANGED <<closed, owned>>
        /\ \/ /\ c2d'[s] = Append(c2d[s], item) /\ link'[s] = link[s] /\ link[s] = "up"
              /\ item.kind # "request" => rep'[s] = rep[s]
           \/ link'[s] = "down" /\ c2d'[s] = c2d[s] /\ rep'[s] = rep[s]
    BY <1>2 DEF ReporterSends, Drop, TypeOK
  <2>2. /\ item \in Item /\ item.kind \in Kinds(queue[s])
        /\ Kinds(queue'[s]) \subseteq Kinds(queue[s])
        /\ "start" \notin Kinds(queue'[s]) /\ FirstOnly(queue'[s], "start")
        /\ LastOnly(queue'[s], "end")
        /\ item.kind = "end" => queue'[s] = <<>>
    BY <1>0, <1>2, <2>1, KindsTaken DEF EndsOf
  <2>3. "end" \notin Kinds(c2d[s])
    BY <1>0, <1>2, <2>1 DEF EndsOf
  <2> HIDE DEF item
  <2>4. CASE c2d'[s] = Append(c2d[s], item) /\ link[s] = "up" /\ link'[s] = link[s]
             /\ (item.kind # "request" => rep'[s] = rep[s])
    <3>1. /\ Kinds(c2d'[s]) = Kinds(c2d[s]) \cup {item.kind}
          /\ FirstOnly(c2d'[s], "start")
      BY <1>0, <1>2, <2>2, <2>4, KindsBehind DEF EndsOf
    <3>2. QED
      BY <1>0, <1>2, <2>1, <2>2, <2>3, <2>4, <3>1 DEF EndsOf, Waiting
  <2>5. CASE link'[s] = "down" /\ c2d'[s] = c2d[s] /\ rep'[s] = rep[s]
    BY <1>0, <1>2, <2>1, <2>2, <2>3, <2>5 DEF EndsOf, Waiting
  <2>6. QED
    BY <2>1, <2>4, <2>5
<1>3. CASE t = s /\ ReporterReadsPending(s)
  <2>1. PICK kind \in {"args"} \cup (IF LongArguments THEN {"longargs"} ELSE {}) :
            c2d' = [c2d EXCEPT ![s] = Append(@, Event(kind, Head(d2c[s]).n))]
    BY <1>3 DEF ReporterReadsPending
  <2> DEFINE e == Event(kind, Head(d2c[s]).n)
  <2>2. e \in Item /\ e.kind = kind /\ kind \notin {"start", "end"}
    <3>1. Head(d2c[s]).n \in Seqs
      <4>1. Head(d2c[s]) \in Decision
        BY <1>3, Carried DEF ReporterReadsPending, TypeOK
      <4>2. QED
        BY <4>1 DEF Decision
    <3>2. QED
      BY <3>1, Items DEF Event
  <2>3. c2d'[s] = Append(c2d[s], e)
    BY <2>1 DEF TypeOK
  <2> HIDE DEF e
  <2>4. /\ Kinds(c2d'[s]) = Kinds(c2d[s]) \cup {kind} /\ FirstOnly(c2d'[s], "start")
    BY <1>0, <1>3, <2>2, <2>3, KindsBehind DEF EndsOf
  <2>5. Waiting(s) /\ UNCHANGED <<queue, closed, link, owned>>
    BY <1>3 DEF ReporterReadsPending, Waiting
  <2>6. "end" \notin Kinds(c2d[s]) /\ "start" \notin Kinds(queue[s]) /\ link[s] # "none"
    <3>1. link[s] = "up"
      BY <1>3 DEF ReporterReadsPending, AwaitInv
    <3>2. QED
      BY <1>0, <1>3, <2>5, <3>1 DEF EndsOf
  <2>7. QED
    BY <1>0, <1>3, <2>2, <2>4, <2>5, <2>6 DEF EndsOf
<1>4. CASE t = s /\ (ReporterReadsFinal(s) \/ ReporterOutOfStep(s) \/ ReporterGivesUp(s) \/ ReporterEnds(s))
  <2>1. /\ UNCHANGED <<queue, c2d, closed, owned>>
        /\ link'[s] = link[s] \/ link'[s] = "down"
        /\ rep'[s].pc \in {"idle", "done"}
    BY <1>4 DEF ReporterReadsFinal, ReporterOutOfStep, ReporterGivesUp, ReporterEnds, Drop,
       Idle, TypeOK, RepState
  <2>2. EndsOf(s) /\ rep'[s].pc \notin {"first", "held"}
    BY <1>0, <1>4, <2>1
  <2>3. EndsOf(s)'
    BY <2>1, <2>2, EndsStay
  <2>4. QED
    BY <1>4, <2>3
<1>5. QED
  BY <1>1, <1>2, <1>3, <1>4 DEF Reporter

LEMMA HandlerKeepsEnds ==
    ASSUME TypeOK, EndsInv, NEW s \in Sessions, Handler(s)
    PROVE  EndsInv'
<1> USE DEF relayVars, daemonVars
<1> SUFFICES ASSUME NEW t \in Sessions PROVE EndsOf(t)'
  BY DEF EndsInv
<1>0. EndsOf(t) /\ UNCHANGED <<queue, closed, link, rep>>
  BY DEF EndsInv, Handler, Accept, HandleForeign, HandleStart, HandleOutcome, HandleArguments,
     HandleEnd, HandleRequest, CheckBudgets, RecordDecision, ArmTimer, Reply, HandlerEOF,
     Cleanup, RejectDone, RejectHeld
<1>1. CASE t # s
  <2>1. c2d'[t] = c2d[t] /\ (t \in owned' => t \in owned)
    BY <1>1 DEF Handler, Accept, HandleForeign, HandleStart, HandleOutcome, HandleArguments,
       HandleEnd, HandleRequest, CheckBudgets, RecordDecision, ArmTimer, Reply, HandlerEOF,
       Cleanup, RejectDone, RejectHeld, Receives, TypeOK
  <2>2. QED
    BY <1>0, <2>1, EndsStay
<1>2. ASSUME t = s, NEW kind, Receives(s, kind),
             s \in owned' => s \in owned \/ kind = "start"
      PROVE  EndsOf(t)'
  <2>1. c2d[s] \in Seq(Item) /\ c2d[s] # <<>> /\ c2d'[s] = Tail(c2d[s]) /\ Head(c2d[s]).kind = kind
    BY <1>2 DEF Receives, TypeOK
  <2>2. /\ kind \in Kinds(c2d[s]) /\ Kinds(c2d'[s]) \subseteq Kinds(c2d[s])
        /\ "start" \notin Kinds(c2d'[s]) /\ FirstOnly(c2d'[s], "start")
        /\ "start" \notin Kinds(queue[s])
    BY <1>0, <1>2, <2>1, KindsTaken DEF EndsOf
  <2>3. QED
    BY <1>0, <1>2, <2>1, <2>2 DEF EndsOf, Waiting
<1>3. CASE t = s /\ (HandleForeign(s) \/ HandleStart(s) \/ HandleOutcome(s) \/ HandleArguments(s)
                     \/ HandleEnd(s) \/ HandleRequest(s))
  <2>1. PICK kind : Receives(s, kind) /\ (s \in owned' => s \in owned \/ kind = "start")
    BY <1>3 DEF HandleForeign, HandleStart, HandleOutcome, HandleArguments, HandleEnd, HandleRequest
  <2>2. QED
    BY <1>2, <1>3, <2>1
<1>4. CASE t = s /\ UNCHANGED c2d /\ owned' \subseteq owned
  BY <1>0, <1>4, EndsStay
<1>5. QED
  BY <1>1, <1>3, <1>4 DEF Handler, Accept, CheckBudgets, RecordDecision, ArmTimer, Reply,
     HandlerEOF, Cleanup, RejectDone, RejectHeld

LEMMA StepKeepsEnds ==
    ASSUME TypeOK, AwaitInv, EndsInv, [Next]_vars
    PROVE  EndsInv'
<1> USE DEF relayVars, daemonVars
<1>1. CASE UNCHANGED <<queue, closed, link, rep, c2d, owned>>
  BY <1>1, EndsStay DEF EndsInv
<1>2. CASE DaemonExits
  <2> SUFFICES ASSUME NEW t \in Sessions PROVE EndsOf(t)'
    BY DEF EndsInv
  <2>1. /\ EndsOf(t) /\ c2d'[t] = <<>> /\ t \notin owned' /\ UNCHANGED <<queue, closed, link, rep>>
    BY <1>2 DEF EndsInv, DaemonExits
  <2>2. QED
    BY <2>1, NoKinds DEF EndsOf, Waiting
<1>3. ASSUME NEW c \in Call, Settle(c) PROVE UNCHANGED <<queue, closed, link, rep, c2d, owned>>
  BY <1>3 DEF Settle, TimerFires, TimeOut, RecordSettled, TellSettled
<1>4. CASE DaemonSignalled \/ DaemonStarts \/ UNCHANGED vars \/ \E h \in Humans : Human(h)
  BY <1>1, <1>4 DEF DaemonSignalled, DaemonStarts, vars, Human, HumanDecides, HumanLooksUp
<1>5. QED
  BY <1>1, <1>2, <1>3, <1>4, RelayKeepsEnds, ReporterKeepsEnds, HandlerKeepsEnds DEF Next

\* What a held call's record says before it is settled.
LEMMA NotYetSettled ==
    ASSUME TypeOK, NEW c \in Call, hold[c].stage \in {"none", "held"}
    PROVE  hold[c].by = "none" /\ hold[c].told = "none"
BY DEF TypeOK, HoldState

\* When a goroutine turns to rejecting or cleaning up, either its relay is
\* gone or nothing is held.
LEMMA TurningIsQuiet ==
    ASSUME TypeOK, OnceInv, OrphanInv, EndsInv, ~LongArguments, NEW s \in Sessions, Handler(s),
           link[s] = "up", NEW n \in Seqs, hold[<<s, n>>].stage = "held",
           handler'[s].pc \in {"reject", "cleanup", "final"}
    PROVE  handler[s].pc \in {"reject", "cleanup", "final"}
<1> USE DEF relayVars, daemonVars
<1>0. ASSUME NEW state, Goto(s, state) PROVE handler'[s] = state
  BY <1>0 DEF Goto, TypeOK
<1>1. /\ s \in owned \/ handler[s].pc \in {"reject", "final"}
      /\ EndsOf(s) /\ c2d[s] \in Seq(Item)
      /\ <<s, n>> \in Call /\ Outstanding(s, n) /\ Waiting(s)
  BY DEF OrphanInv, EndsInv, TypeOK, Call, Outstanding, OnceInv, AwaitInv
<1>2. ASSUME NEW kind, Receives(s, kind) PROVE kind \in Kinds(c2d[s]) /\ handler[s].pc = "read"
  BY <1>1, <1>2, KindsTaken DEF Receives
<1>3. CASE HandleForeign(s)
  BY <1>1, <1>2, <1>3 DEF HandleForeign, EndsOf
<1>4. CASE HandleStart(s)
  BY <1>1, <1>2, <1>4 DEF HandleStart, EndsOf
<1>5. CASE HandleEnd(s)
  BY <1>1, <1>2, <1>5 DEF HandleEnd, EndsOf
<1>6. CASE HandleRequest(s) \/ CheckBudgets(s) \/ RecordDecision(s) \/ ArmTimer(s)
  BY <1>0, <1>6 DEF HandleRequest, CheckBudgets, RecordDecision, ArmTimer, Busy
<1>7. CASE Accept(s)
  BY <1>0, <1>7 DEF Accept, At, Busy
<1>8. CASE Reply(s)
  BY <1>0, <1>8 DEF Reply, Writable, At, Busy
<1>9. CASE HandlerEOF(s)
  BY <1>9 DEF HandlerEOF
<1>10. CASE Cleanup(s) \/ RejectDone(s) \/ (\E k \in Seqs : RejectHeld(s, k))
  BY <1>10 DEF Cleanup, RejectDone, RejectHeld
<1>11. CASE HandleOutcome(s) \/ HandleArguments(s)
  BY <1>11 DEF HandleOutcome, HandleArguments
<1>12. QED
  BY <1>3, <1>4, <1>5, <1>6, <1>7, <1>8, <1>9, <1>10, <1>11 DEF Handler

\* A connection that is up was made by this step, or was up before.
LEMMA LinksOnlyEnd ==
    ASSUME TypeOK, [Next]_vars, NEW s \in Sessions, link'[s] = "up", link[s] # "up"
    PROVE  link[s] = "none" /\ handler'[s].pc = "accepted"
<1> USE DEF relayVars, daemonVars
<1>1. CASE Connect(s)
  BY <1>1 DEF Connect, At, Busy, TypeOK
<1>2. ASSUME NEW t \in Sessions, t # s, Relay(t) \/ Reporter(t) PROVE link'[s] = link[s]
  BY <1>2 DEF Relay, Reporter, Connect, AskDaemon, GiveUp, Finish, RelayKilled, ServerResponds,
     ReporterSends, ReporterReadsFinal, ReporterReadsPending, ReporterOutOfStep,
     ReporterGivesUp, ReporterEnds, Drop, TypeOK
<1>3. CASE (Relay(s) /\ ~Connect(s)) \/ Reporter(s)
  BY <1>3 DEF Relay, Reporter, AskDaemon, GiveUp, Finish, RelayKilled, ServerResponds,
     ReporterSends, ReporterReadsFinal, ReporterReadsPending, ReporterOutOfStep,
     ReporterGivesUp, ReporterEnds, Drop, TypeOK
<1>4. ASSUME NEW t \in Sessions, Handler(t) PROVE link' = link
  BY <1>4 DEF Handler, Accept, HandleForeign, HandleStart, HandleOutcome, HandleArguments,
     HandleEnd, HandleRequest, CheckBudgets, RecordDecision, ArmTimer, Reply, HandlerEOF,
     Cleanup, RejectDone, RejectHeld
<1>5. ASSUME NEW c \in Call, Settle(c) PROVE link' = link
  BY <1>5 DEF Settle, TimerFires, TimeOut, RecordSettled, TellSettled
<1>6. CASE DaemonSignalled \/ DaemonStarts \/ DaemonExits \/ UNCHANGED vars \/ \E h \in Humans : Human(h)
  BY <1>6 DEF DaemonSignalled, DaemonStarts, DaemonExits, vars, Human, HumanDecides, HumanLooksUp
<1>7. QED
  BY <1>1, <1>2, <1>3, <1>4, <1>5, <1>6 DEF Next

LEMMA StepIsQuiet ==
    ASSUME TypeOK, OnceInv, OrphanInv, EndsInv, QuietInv, ~LongArguments, [Next]_vars
    PROVE  QuietInv'
<1> USE DEF relayVars, daemonVars
<1> SUFFICES ASSUME NEW s \in Sessions, NEW n \in Seqs
             PROVE  /\ link'[s] = "up" /\ handler'[s].pc \in {"reject", "cleanup", "final"}
                          => hold'[<<s, n>>].stage # "held"
                    /\ hold'[<<s, n>>].by = "session" => link'[s] # "up"
  BY DEF QuietInv
<1> DEFINE c == <<s, n>>
<1>1. c \in Call /\ c[1] = s /\ Lives(c)
  BY HoldLife DEF Call
<1>2. link[s] # "up" /\ link'[s] = "up" => /\ handler'[s].pc = "accepted"
                                           /\ hold[c].stage = "none"
  <2>1. link[s] = "none" => hold[c].stage = "none"
    <3>1. link[s] = "none" => n > seq[s]
      BY DEF OnceInv, LineInv, Seqs
    <3>2. QED
      BY <3>1 DEF OnceInv, UnheardInv, Unheard
  <2>2. QED
    BY <2>1, LinksOnlyEnd
<1>3. ASSUME hold'[c].by = "session", link'[s] = "up" PROVE FALSE
  <2>1. CASE Kept(c)
    BY <1>1, <1>2, <1>3, <2>1, NotYetSettled DEF Kept, QuietInv
  <2>2. CASE Begun(c)
    BY <1>3, <2>2 DEF Begun, NotHeld
  <2>3. CASE Won(c)
    BY <1>1, <1>2, <1>3, <2>3 DEF Won, QuietInv
  <2>4. QED
    BY <1>1, <2>1, <2>2, <2>3 DEF Lives
<1>4. ASSUME link'[s] = "up", handler'[s].pc \in {"reject", "cleanup", "final"},
             hold'[c].stage = "held"
      PROVE  FALSE
  <2>1. Kept(c) /\ hold[c].stage = "held" /\ link[s] = "up"
    BY <1>1, <1>2, <1>4 DEF Lives, Begun, Won, Kept
  <2>2. handler[s].pc \notin {"reject", "cleanup", "final"}
    BY <2>1 DEF QuietInv
  <2>3. CASE Handler(s)
    BY <1>4, <2>1, <2>2, <2>3, TurningIsQuiet
  <2>4. CASE handler'[s] = handler[s] \/ handler'[s].pc \in {"none", "accepted", "closed"}
    BY <1>4, <2>2, <2>4
  <2>5. CASE ~Handler(s)
    <3>1. ASSUME NEW t \in Sessions, t # s, Handler(t) PROVE handler'[s] = handler[s]
      BY <3>1 DEF Handler, Accept, HandleForeign, HandleStart, HandleOutcome, HandleArguments,
         HandleEnd, HandleRequest, CheckBudgets, RecordDecision, ArmTimer, Reply, HandlerEOF,
         Cleanup, RejectDone, RejectHeld, Goto, TypeOK
    <3>2. ASSUME NEW t \in Sessions, Connect(t)
          PROVE  handler'[s] = handler[s] \/ handler'[s].pc \in {"none", "accepted", "closed"}
      BY <3>2 DEF Connect, At, Busy, TypeOK
    <3>3. ASSUME NEW t \in Sessions, Relay(t) \/ Reporter(t), ~Connect(t)
          PROVE  UNCHANGED handler
      BY <3>3 DEF Relay, Reporter, ReporterSends, ReporterReadsFinal, ReporterReadsPending,
         ReporterOutOfStep, ReporterGivesUp, ReporterEnds, AskDaemon, GiveUp, Finish,
         RelayKilled, ServerResponds
    <3>4. ASSUME NEW d \in Call, Settle(d) PROVE UNCHANGED handler
      BY <3>4 DEF Settle, TimerFires, TimeOut, RecordSettled, TellSettled
    <3>5. ASSUME DaemonSignalled \/ DaemonStarts \/ UNCHANGED vars \/ \E h \in Humans : Human(h)
          PROVE  UNCHANGED handler
      BY <3>5 DEF DaemonSignalled, DaemonStarts, vars, Human, HumanDecides, HumanLooksUp
    <3>6. handler'[s] = handler[s] \/ handler'[s].pc \in {"none", "accepted", "closed"}
      <4>1. CASE DaemonExits
        BY <4>1 DEF DaemonExits, At, Busy
      <4>2. QED
        BY <2>5, <3>1, <3>2, <3>3, <3>4, <3>5, <4>1 DEF Next
    <3>7. QED
      BY <2>4, <3>6
  <2>6. QED
    BY <2>3, <2>5
<1>5. QED
  BY <1>3, <1>4

\* Who rejected a call goes with the rejection to the relay.
LEMMA StepKeepsRejections ==
    ASSUME TypeOK, OnceInv, QuietInv, RejectedInv, [Next]_vars
    PROVE  RejectedInv'
<1> USE DEF journalVars, relayVars, daemonVars
<1>1. \A c \in Call : Lives(c)
  BY HoldLife
<1>2. ASSUME NEW c \in Call, hold'[c].told = "rejected" PROVE hold'[c].by \in {"human", "session"}
  <2>1. Kept(c) => hold[c].told = "rejected"
    BY <1>2 DEF Kept
  <2>2. QED
    BY <1>1, <1>2, <2>1 DEF Lives, Kept, Begun, Won, NotHeld, RejectedInv
<1>3. \A c \in Call : hold[c].by = "human" => hold'[c].by = "human"
  BY <1>1, NotYetSettled DEF Lives, Kept, Begun, Won
<1>4. ASSUME NEW s \in Sessions, NEW m \in Range(d2c'[s]), m.decision = "rejected"
      PROVE  m \in Range(d2c[s]) \/ hold'[<<s, m.n>>].by = "human"
  <2>0. d2c[s] \in Seq(Decision)
    BY DEF TypeOK
  <2>1. CASE d2c'[s] = d2c[s] \/ d2c'[s] = <<>>
    BY <1>4, <2>1, NothingCarried
  <2>2. ASSUME NEW k \in Seqs, NEW d \in Answers, Writable(s), Tell(s, k, d),
               d = "rejected" => hold'[<<s, k>>].by = "human"
        PROVE  m \in Range(d2c[s]) \/ hold'[<<s, m.n>>].by = "human"
    <3> DEFINE e == [n |-> k, decision |-> d]
    <3>1. d2c'[s] = Append(d2c[s], e) /\ e \in Decision
      BY <2>2 DEF Tell, TypeOK, Decision
    <3>2. m \in Range(d2c[s]) \/ m = e
      BY <1>4, <2>0, <3>1, Carried
    <3>3. QED
      BY <1>4, <2>2, <3>2
  <2>3. CASE Reply(s)
    <3>1. /\ handler[s].n \in Seqs /\ handler[s].decision \in Answers
          /\ handler[s].decision # "rejected"
      BY <2>3, Programs DEF Reply, TypeOK, Answers, Recordable, Grants
    <3>2. QED
      BY <2>1, <2>2, <2>3, <3>1 DEF Reply
  <2>4. ASSUME NEW k \in Seqs, TellSettled(<<s, k>>)
        PROVE  m \in Range(d2c[s]) \/ hold'[<<s, m.n>>].by = "human"
    <3> DEFINE c == <<s, k>>
    <3>1. c \in Call /\ c[1] = s /\ c[2] = k /\ hold[c].stage = "recorded"
      BY <2>4 DEF Call, TellSettled
    <3>2. hold[c].told \in Answers
      BY <3>1, HoldGoesOn DEF TypeOK, Settling, Answers, Recordable, Grants
    <3>3. Writable(s) /\ hold[c].told = "rejected" => hold'[c].by = "human"
      <4>1. Writable(s) => hold[c].by # "session"
        BY DEF Writable, QuietInv
      <4>2. QED
        BY <1>3, <3>1, <4>1 DEF RejectedInv
    <3>4. QED
      BY <2>1, <2>2, <2>4, <3>1, <3>2, <3>3 DEF TellSettled
  <2>5. ASSUME NEW t \in Sessions, t # s, Relay(t) \/ Reporter(t) \/ Handler(t)
        PROVE  d2c'[s] = d2c[s]
    BY <2>5 DEF Relay, Reporter, Handler, Connect, AskDaemon, GiveUp, Finish, RelayKilled,
       ServerResponds, ReporterSends, ReporterReadsFinal, ReporterReadsPending,
       ReporterOutOfStep, ReporterGivesUp, ReporterEnds, Drop, Accept, HandleForeign,
       HandleStart, HandleOutcome, HandleArguments, HandleEnd, HandleRequest, CheckBudgets,
       RecordDecision, ArmTimer, Reply, Tell, HandlerEOF, Cleanup, RejectDone, RejectHeld, TypeOK
  <2>6. CASE Handler(s) /\ ~Reply(s)
    BY <2>1, <2>6 DEF Handler, Accept, HandleForeign, HandleStart, HandleOutcome, HandleArguments,
       HandleEnd, HandleRequest, CheckBudgets, RecordDecision, ArmTimer, HandlerEOF, Cleanup,
       RejectDone, RejectHeld
  <2>7. CASE ReporterReadsFinal(s) \/ ReporterReadsPending(s)
    <3>1. d2c'[s] = Tail(d2c[s]) /\ d2c[s] # <<>>
      BY <2>7 DEF ReporterReadsFinal, ReporterReadsPending, TypeOK
    <3>2. QED
      BY <1>4, <2>0, <3>1, Carried
  <2>8. CASE Relay(s) \/ (Reporter(s) /\ ~ReporterReadsFinal(s) /\ ~ReporterReadsPending(s))
    <3>1. d2c'[s] = d2c[s] \/ d2c'[s] = <<>>
      BY <2>8 DEF Relay, Reporter, Connect, AskDaemon, GiveUp, Finish, RelayKilled,
         ServerResponds, ReporterSends, ReporterOutOfStep, ReporterGivesUp, ReporterEnds,
         Drop, TypeOK
    <3>2. QED
      BY <2>1, <3>1
  <2>9. ASSUME NEW c \in Call, Settle(c), d2c'[s] # d2c[s] PROVE \E k \in Seqs : TellSettled(<<s, k>>)
    <3>1. TellSettled(c)
      BY <2>9 DEF Settle, TimerFires, TimeOut, RecordSettled
    <3>2. PICK t \in Sessions, k \in Seqs : c = <<t, k>>
      BY DEF Call
    <3>3. t = s
      BY <2>9, <3>1, <3>2 DEF TellSettled, Tell, TypeOK
    <3>4. QED
      BY <3>1, <3>2, <3>3
  <2>10. CASE DaemonSignalled \/ DaemonStarts \/ DaemonExits \/ UNCHANGED vars \/ \E h \in Humans : Human(h)
    BY <2>1, <2>10 DEF DaemonSignalled, DaemonStarts, DaemonExits, vars, Human, HumanDecides, HumanLooksUp
  <2>11. QED
    BY <2>1, <2>3, <2>4, <2>5, <2>6, <2>7, <2>8, <2>9, <2>10 DEF Next
<1>5. ASSUME NEW s \in Sessions, NEW m \in Range(d2c'[s]), m.decision = "rejected"
      PROVE  hold'[<<s, m.n>>].by = "human"
  <2>1. CASE m \in Range(d2c[s])
    <3>1. m \in Decision
      BY <2>1, Carried DEF TypeOK
    <3>2. <<s, m.n>> \in Call /\ hold[<<s, m.n>>].by = "human"
      BY <1>5, <2>1, <3>1 DEF RejectedInv, Call, Decision
    <3>3. QED
      BY <1>3, <3>2
  <2>2. QED
    BY <1>4, <1>5, <2>1
<1>6. QED
  BY <1>2, <1>5 DEF RejectedInv

\* What the client was told of a rejection is what the answer said.
LEMMA StepTellsOfHumans ==
    ASSUME TypeOK, OnceInv, RejectedInv, HumanRejectionIsHuman, [Next]_vars
    PROVE  HumanRejectionIsHuman'
<1> USE DEF journalVars, relayVars, daemonVars
<1>1. \A c \in Call : hold[c].by = "human" => hold'[c].by = "human"
  BY HoldLife, NotYetSettled DEF Lives, Kept, Begun, Won
<1> SUFFICES ASSUME NEW c \in Call, call'[c] = "rejected" PROVE hold'[c].by = "human"
  BY DEF HumanRejectionIsHuman
<1>2. CASE call[c] = "rejected"
  BY <1>1, <1>2 DEF HumanRejectionIsHuman
<1>3. ASSUME NEW s \in Sessions, NEW n \in Seqs, NEW v, Verdict(s, n, v), v # "rejected"
      PROVE  call[c] = "rejected"
  BY <1>3 DEF Verdict, TypeOK, Call
<1>4. ASSUME NEW s \in Sessions, ReporterReadsFinal(s) PROVE hold'[c].by = "human"
  <2> DEFINE m == Head(d2c[s])
  <2>1. /\ d2c[s] \in Seq(Decision) /\ d2c[s] # <<>> /\ Verdict(s, m.n, VerdictFor(m.decision))
    BY <1>4 DEF ReporterReadsFinal, TypeOK
  <2>2. m \in Range(d2c[s]) /\ m \in Decision
    BY <2>1, Carried
  <2> HIDE DEF m
  <2>3. m.n \in Seqs /\ <<s, m.n>> \in Call
    BY <2>2 DEF Decision, Call
  <2>4. CASE VerdictFor(m.decision) = "rejected"
    <3>1. m.decision = "rejected"
      BY <2>4 DEF VerdictFor, Grants
    <3>2. hold[<<s, m.n>>].by = "human"
      BY <2>2, <3>1 DEF RejectedInv
    <3>3. c = <<s, m.n>> \/ call[c] = "rejected"
      BY <2>1, <2>3 DEF Verdict, TypeOK
    <3>4. QED
      BY <1>1, <1>2, <3>2, <3>3
  <2>5. QED
    BY <1>2, <1>3, <2>1, <2>3, <2>4
<1>5. ASSUME NEW s \in Sessions, ReporterSends(s) PROVE call[c] = "rejected"
  <2>1. CASE UNCHANGED call
    BY <2>1
  <2>2. CASE Head(queue[s]).kind = "request" /\ Verdict(s, Head(queue[s]).n, "no_decision")
    <3>1. Head(queue[s]) \in Item
      BY <1>5, Carried DEF ReporterSends, TypeOK
    <3>2. Head(queue[s]).n \in Seqs
      BY <2>2, <3>1, Items
    <3>3. QED
      BY <1>3, <2>2, <3>2
  <2>3. QED
    BY <1>5, <2>1, <2>2 DEF ReporterSends
<1>6. ASSUME NEW s \in Sessions, ReporterOutOfStep(s) \/ ReporterGivesUp(s) PROVE call[c] = "rejected"
  <2>1. rep[s].n \in Seqs
    BY <1>6, Programs DEF ReporterOutOfStep, ReporterGivesUp, HasDeadline, Waiting, TypeOK
  <2>2. PICK v \in {"no_decision", "timed_out"} : Verdict(s, rep[s].n, v)
    BY <1>6 DEF ReporterOutOfStep, ReporterGivesUp
  <2>3. QED
    BY <1>3, <2>1, <2>2
<1>7. ASSUME NEW s \in Sessions, Relay(s) PROVE call[c] = "rejected"
  BY <1>7 DEF Relay, Connect, AskDaemon, GiveUp, Finish, RelayKilled, ServerResponds, TypeOK
<1>8. ASSUME UNCHANGED call PROVE call[c] = "rejected"
  BY <1>8
<1>9. ASSUME NEW s \in Sessions, ReporterReadsPending(s) \/ ReporterEnds(s) \/ Handler(s) PROVE UNCHANGED call
  BY <1>9 DEF ReporterReadsPending, ReporterEnds, Handler, Accept, HandleForeign, HandleStart,
     HandleOutcome, HandleArguments, HandleEnd, HandleRequest, CheckBudgets, RecordDecision,
     ArmTimer, Reply, HandlerEOF, Cleanup, RejectDone, RejectHeld
<1>10. ASSUME NEW d \in Call, Settle(d) PROVE UNCHANGED call
  BY <1>10 DEF Settle, TimerFires, TimeOut, RecordSettled, TellSettled
<1>11. ASSUME DaemonSignalled \/ DaemonStarts \/ DaemonExits \/ UNCHANGED vars \/ \E h \in Humans : Human(h)
       PROVE  UNCHANGED call
  BY <1>11 DEF DaemonSignalled, DaemonStarts, DaemonExits, vars, Human, HumanDecides, HumanLooksUp
<1>12. QED
  BY <1>2, <1>4, <1>5, <1>6, <1>7, <1>8, <1>9, <1>10, <1>11 DEF Next, Reporter

\* As long as a call's arguments fit the daemon's reader, the client is told
\* that a human rejected a call only when one did: a session's end and the
\* timer reject calls too, but nobody hears of it as a human's word.
THEOREM RejectionsAreHuman ==
    ASSUME ~LongArguments
    PROVE  Spec => []HumanRejectionIsHuman
<1>1. Init => OrphanInv /\ EndsInv /\ QuietInv /\ RejectedInv /\ HumanRejectionIsHuman
  <2> SUFFICES ASSUME Init
               PROVE  OrphanInv /\ EndsInv /\ QuietInv /\ RejectedInv /\ HumanRejectionIsHuman
    OBVIOUS
  <2> USE DEF Init
  <2>1. \A s \in Sessions, n \in Seqs : <<s, n>> \in Call
    BY DEF Call
  <2>2. OrphanInv /\ QuietInv
    BY <2>1 DEF OrphanInv, QuietInv, NotHeld, At, Busy
  <2>3. EndsInv
    BY NoKinds DEF EndsInv, EndsOf
  <2>4. RejectedInv /\ HumanRejectionIsHuman
    BY NothingCarried DEF RejectedInv, HumanRejectionIsHuman, NotHeld
  <2>5. QED
    BY <2>2, <2>3, <2>4
<1>2. TypeOK /\ OnceInv /\ OrphanInv /\ [Next]_vars => OrphanInv'
  BY StepOrphansNone
<1>3. TypeOK /\ OnceInv /\ EndsInv /\ [Next]_vars => EndsInv'
  BY StepKeepsEnds DEF OnceInv
<1>4. TypeOK /\ OnceInv /\ OrphanInv /\ EndsInv /\ QuietInv /\ [Next]_vars => QuietInv'
  BY StepIsQuiet
<1>5. TypeOK /\ OnceInv /\ QuietInv /\ RejectedInv /\ [Next]_vars => RejectedInv'
  BY StepKeepsRejections
<1>6. TypeOK /\ OnceInv /\ RejectedInv /\ HumanRejectionIsHuman /\ [Next]_vars
          => HumanRejectionIsHuman'
  BY StepTellsOfHumans
<1>7. QED
  BY <1>1, <1>2, <1>3, <1>4, <1>5, <1>6, TypeCorrect, OneQuestionAtATime, PTL DEF Spec

-----------------------------------------------------------------------------
(***************************************************************************)
(* Nobody waits in vain: what the liveness properties rest on.  At every   *)
(* moment somebody who can go on owes the waiting party its next step.     *)
(***************************************************************************)

\* Nothing but the first item leaves a line that is read.
LEMMA OnlyTheFirstLeaves ==
    ASSUME NEW S, NEW q \in Seq(S), q # <<>>
    PROVE  Range(q) = {Head(q)} \cup Range(Tail(q))
<1>1. /\ DOMAIN q = 1 .. Len(q) /\ Len(q) \in Nat \ {0} /\ Head(q) = q[1] /\ 1 \in DOMAIN q
      /\ DOMAIN Tail(q) = 1 .. (Len(q) - 1)
      /\ \A i \in DOMAIN Tail(q) : i + 1 \in DOMAIN q /\ Tail(q)[i] = q[i + 1]
      /\ \A i \in DOMAIN q : i # 1 => i - 1 \in DOMAIN Tail(q) /\ q[i] = Tail(q)[i - 1]
  OBVIOUS
<1>2. ASSUME NEW x \in Range(q) PROVE x \in {Head(q)} \cup Range(Tail(q))
  <2>1. PICK i \in DOMAIN q : x = q[i]
    BY DEF Range
  <2>2. QED
    BY <1>1, <2>1 DEF Range
<1>3. Head(q) \in Range(q) /\ Range(Tail(q)) \subseteq Range(q)
  BY Carried
<1>4. QED
  BY <1>2, <1>3

LEMMA QuestionsLeft ==
    ASSUME NEW q \in Seq(Item), q # <<>>
    PROVE  /\ \A n \in Questions(q) : n \in Questions(Tail(q)) \/ Head(q) = Event("request", n)
           /\ Head(q).kind # "request" => Questions(Tail(q)) = Questions(q)
<1>1. Range(q) = {Head(q)} \cup Range(Tail(q))
  BY OnlyTheFirstLeaves
<1>2. \A n : Event("request", n).kind = "request"
  BY DEF Event
<1>3. QED
  BY <1>1, <1>2 DEF Questions

-----------------------------------------------------------------------------
\* The call the pump waits for is the last it asked about, and its question is
\* on the reporter's queue or the one the reporter waits on.  A reporter that
\* has ended closed its queue first.
AskedInv ==
    \A s \in Sessions :
        /\ rep[s].pc \in {"dead", "done"} => closed[s]
        /\ \A n \in Seqs : call[<<s, n>>] = "asked" =>
             /\ n = seq[s]
             /\ \/ n \in Questions(queue[s]) /\ (rep[s].pc = "idle" \/ Waiting(s))
                \/ Waiting(s) /\ rep[s].n = n

\* A session whose pump and reporter are left alone.
LEMMA OthersStillAsk ==
    ASSUME AskedInv, NEW s \in Sessions,
           \A t \in Sessions : t # s =>
              /\ rep'[t] = rep[t] /\ closed'[t] = closed[t] /\ queue'[t] = queue[t] /\ seq'[t] = seq[t]
              /\ \A n \in Seqs : call'[<<t, n>>] = "asked" => call[<<t, n>>] = "asked",
           rep'[s].pc \in {"dead", "done"} => closed'[s],
           \A n \in Seqs : call'[<<s, n>>] = "asked" =>
             /\ n = seq'[s]
             /\ \/ n \in Questions(queue'[s]) /\ rep'[s].pc \in {"idle", "first", "held"}
                \/ rep'[s].pc \in {"first", "held"} /\ rep'[s].n = n
    PROVE  AskedInv'
BY DEF AskedInv, Waiting

\* What the pump, the client and the kill of a relay leave of it.
LEMMA RelayStillAsks ==
    ASSUME TypeOK, RecordInv, OnceInv, AskedInv, NEW s \in Sessions, Relay(s)
    PROVE  AskedInv'
<1> USE DEF journalVars, daemonVars
<1>c. \A t \in Sessions, n \in Seqs : <<t, n>> \in Call /\ n \in Nat \ {0}
  BY DEF Call, Seqs
<1>t. /\ rep \in [Sessions -> RepState] /\ closed \in [Sessions -> BOOLEAN]
      /\ seq \in [Sessions -> 0 .. MaxSeq] /\ queue \in [Sessions -> Seq(Item)]
      /\ call \in [Call -> CallState]
  BY DEF TypeOK
<1>a. \A n \in Seqs : call[<<s, n>>] = "asked" =>
        /\ n = seq[s]
        /\ \/ n \in Questions(queue[s]) /\ rep[s].pc \in {"idle", "first", "held"}
           \/ rep[s].pc \in {"first", "held"} /\ rep[s].n = n
  BY DEF AskedInv, Waiting
<1>d. rep[s].pc \in {"dead", "done"} => closed[s]
  BY DEF AskedInv
\* something that asks nothing is put on the queue
<1>o. ASSUME NEW e \in Item, e.kind # "request", Offer(s, e), UNCHANGED <<seq, call, rep>>,
             \A t \in Sessions : closed'[t] = closed[t] \/ (t = s /\ closed'[t])
      PROVE  AskedInv'
  <2>1. queue'[s] = queue[s] \/ queue'[s] = Append(queue[s], e)
    BY <1>o, <1>t DEF Offer
  <2>2. Ordered(queue[s]) /\ queue[s] \in Seq(Item)
    BY <1>t DEF OnceInv, LineInv
  <2>a. Questions(Append(queue[s], e)) = Questions(queue[s])
    BY <1>o, <2>2, LongerLine
  <2>3. Questions(queue'[s]) = Questions(queue[s])
    BY <2>1, <2>a
  <2>4. \A t \in Sessions : t # s => queue'[t] = queue[t]
    BY <1>o, <1>t DEF Offer
  <2>5. QED
    BY <1>a, <1>d, <1>o, <2>3, <2>4, OthersStillAsk
<1>1. CASE Connect(s)
  <2>1. link[s] = "none" /\ seq[s] = 0
    BY <1>1 DEF Connect, OnceInv, LineInv
  <2>2. \A n \in Seqs : call[<<s, n>>] # "asked"
    BY <1>a, <1>c, <2>1
  <2>3. QED
    BY <1>1, <1>d, <1>t, <2>2, OthersStillAsk DEF Connect
<1>2. CASE AskDaemon(s)
  <2> DEFINE n == seq[s] + 1
  <2>1. /\ n \in Seqs /\ seq' = [seq EXCEPT ![s] = n] /\ UNCHANGED <<rep, closed>>
        /\ Offer(s, Event("request", n)) /\ ~PumpWaits(s) /\ rep[s].pc # "dead"
        /\ call' = [call EXCEPT ![<<s, n>>] = IF HasRoom(s) THEN "asked" ELSE "no_decision"]
    BY <1>2, <1>t DEF AskDaemon, Seqs
  <2>2. \A k \in Seqs : call[<<s, k>>] # "asked"
    BY <1>a, <1>c, <2>1 DEF PumpWaits
  <2>3. /\ \A k \in Seqs : k # n => call'[<<s, k>>] = call[<<s, k>>]
        /\ \A t \in Sessions, k \in Seqs : t # s => call'[<<t, k>>] = call[<<t, k>>]
        /\ call'[<<s, n>>] = IF HasRoom(s) THEN "asked" ELSE "no_decision"
    BY <1>c, <1>t, <2>1
  <2>4. ASSUME HasRoom(s) PROVE n \in Questions(queue'[s]) /\ rep[s].pc \in {"idle", "first", "held"}
    <3>1. queue'[s] = Append(queue[s], Event("request", n)) /\ Event("request", n) \in Item
      BY <1>t, <2>1, <2>4, Items DEF Offer
    <3>2. Event("request", n) \in Range(queue'[s])
      BY <1>t, <3>1, Carried
    <3>3. rep[s].pc \notin {"dead", "done"}
      BY <1>d, <2>4 DEF HasRoom
    <3>4. QED
      BY <1>t, <2>1, <3>2, <3>3 DEF Questions, RepState
  <2>5. \A t \in Sessions : t # s => queue'[t] = queue[t] /\ seq'[t] = seq[t]
    BY <1>t, <2>1 DEF Offer
  <2>6. seq'[s] = n
    BY <1>t, <2>1
  <2> HIDE DEF n
  <2>7. QED
    BY <1>d, <2>1, <2>2, <2>3, <2>4, <2>5, <2>6, OthersStillAsk
<1>3. CASE GiveUp(s)
  <2>1. /\ UNCHANGED <<seq, queue, closed, rep>>
        /\ \A t \in Sessions, n \in Seqs : call'[<<t, n>>] = "asked" => call[<<t, n>>] = "asked"
    BY <1>3, <1>c, <1>t DEF GiveUp
  <2>2. QED
    BY <1>a, <1>d, <2>1, OthersStillAsk
<1>4. CASE Finish(s)
  <2>1. Event("end", 0) \in Item /\ Event("end", 0).kind # "request"
    BY Items DEF Event
  <2>2. QED
    BY <1>4, <1>o, <1>t, <2>1 DEF Finish
<1>5. CASE RelayKilled(s)
  <2>1. /\ \A n \in Seqs : call'[<<s, n>>] # "asked"
        /\ \A t \in Sessions, n \in Seqs : t # s => call'[<<t, n>>] = call[<<t, n>>]
    BY <1>5, <1>c DEF RelayKilled
  <2>2. QED
    BY <1>5, <1>t, <2>1, OthersStillAsk DEF RelayKilled
<1>6. ASSUME NEW n \in Seqs, ServerResponds(s, n) PROVE AskedInv'
  <2>1. Event("outcome", n) \in Item /\ Event("outcome", n).kind # "request"
    BY Items DEF Event
  <2>2. QED
    BY <1>6, <1>o, <2>1 DEF ServerResponds
<1>7. QED
  BY <1>1, <1>2, <1>3, <1>4, <1>5, <1>6 DEF Relay

\* A reporter that stops waiting has answered, and what it takes off its queue
\* is what it waits on next.
LEMMA ReporterStillAsks ==
    ASSUME TypeOK, RecordInv, OnceInv, AskedInv, NEW s \in Sessions, Reporter(s)
    PROVE  AskedInv'
<1> USE DEF journalVars, daemonVars
<1>c. \A t \in Sessions, n \in Seqs : <<t, n>> \in Call /\ n \in Nat \ {0}
  BY DEF Call, Seqs
<1>t. /\ rep \in [Sessions -> RepState] /\ closed \in [Sessions -> BOOLEAN]
      /\ seq \in [Sessions -> 0 .. MaxSeq] /\ queue \in [Sessions -> Seq(Item)]
      /\ call \in [Call -> CallState] /\ d2c \in [Sessions -> Seq(Decision)]
  BY DEF TypeOK
<1>a. \A n \in Seqs : call[<<s, n>>] = "asked" =>
        /\ n = seq[s]
        /\ \/ n \in Questions(queue[s]) /\ rep[s].pc \in {"idle", "first", "held"}
           \/ rep[s].pc \in {"first", "held"} /\ rep[s].n = n
  BY DEF AskedInv, Waiting
<1>d. rep[s].pc \in {"dead", "done"} => closed[s]
  BY DEF AskedInv
\* a verdict is given on what the reporter waited for
<1>v. ASSUME NEW n \in Seqs, NEW v, v # "asked", Verdict(s, n, v)
      PROVE  /\ \A t \in Sessions, k \in Seqs : call'[<<t, k>>] = "asked" => call[<<t, k>>] = "asked"
             /\ call'[<<s, n>>] # "asked"
  BY <1>c, <1>t, <1>v DEF Verdict
<1>w. ASSUME Waiting(s), NEW n, n = rep[s].n, NEW v, v # "asked", Verdict(s, n, v),
             rep' = [rep EXCEPT ![s] = Idle], UNCHANGED <<seq, queue, closed>>
      PROVE  AskedInv'
  <2>1. n \in Seqs
    BY <1>t, <1>w DEF Waiting, RepState
  <2>2. /\ \A t \in Sessions, k \in Seqs : call'[<<t, k>>] = "asked" => call[<<t, k>>] = "asked"
        /\ call'[<<s, n>>] # "asked"
    BY <1>v, <1>w, <2>1
  <2>3. rep'[s].pc = "idle" /\ \A t \in Sessions : t # s => rep'[t] = rep[t]
    BY <1>t, <1>w DEF Idle
  <2>4. QED
    BY <1>a, <1>w, <2>2, <2>3, OthersStillAsk
<1>1. CASE ReporterSends(s)
  <2> DEFINE item == Head(queue[s])
  <2>1. /\ rep[s].pc = "idle" /\ queue[s] # <<>> /\ queue'[s] = Tail(queue[s])
        /\ UNCHANGED <<seq, closed>> /\ queue[s] \in Seq(Item) /\ Ordered(queue[s])
        /\ \A t \in Sessions : t # s => queue'[t] = queue[t]
    BY <1>1, <1>t DEF ReporterSends, OnceInv, LineInv
  <2>2. /\ \A n \in Questions(queue[s]) : n \in Questions(queue'[s]) \/ item = Event("request", n)
        /\ item.kind = "request" => item.n \in Seqs
    BY <2>1, QuestionsLeft, ShorterLine DEF Questions
  <2> HIDE DEF item
  <2>e. \A n : Event("request", n).kind = "request" /\ Event("request", n).n = n
    BY DEF Event
  <2>l. /\ item.kind # "request" => \A n \in Questions(queue[s]) : n \in Questions(queue'[s])
        /\ \A n \in Questions(queue[s]) : n \in Questions(queue'[s]) \/ n = item.n
    BY <2>2, <2>e
  <2>3. CASE item.kind # "request"
    <3>1. UNCHANGED <<call, rep>>
      BY <1>1, <2>3 DEF ReporterSends, item
    <3>2. QED
      BY <1>a, <1>d, <2>1, <2>3, <2>l, <3>1, OthersStillAsk
  <2>4. CASE item.kind = "request" /\ rep' = [rep EXCEPT ![s] = [pc |-> "first", n |-> item.n]] /\ UNCHANGED call
    <3>1. /\ rep'[s].pc = "first" /\ rep'[s].n = item.n /\ \A t \in Sessions : t # s => rep'[t] = rep[t]
      BY <1>t, <2>4
    <3>2. QED
      BY <1>a, <2>1, <2>4, <2>l, <3>1, OthersStillAsk
  <2>5. CASE item.kind = "request" /\ Verdict(s, item.n, "no_decision") /\ UNCHANGED rep
    <3>1. /\ \A t \in Sessions, k \in Seqs : call'[<<t, k>>] = "asked" => call[<<t, k>>] = "asked"
          /\ call'[<<s, item.n>>] # "asked"
      BY <1>v, <2>2, <2>5
    <3>2. QED
      BY <1>a, <1>d, <2>1, <2>5, <2>l, <3>1, OthersStillAsk
  <2>6. QED
    BY <1>1, <2>3, <2>4, <2>5 DEF ReporterSends, item
<1>2. CASE ReporterReadsFinal(s)
  <2> DEFINE m == Head(d2c[s])
  <2>1. /\ Waiting(s) /\ m.n = rep[s].n /\ Verdict(s, m.n, VerdictFor(m.decision))
        /\ rep' = [rep EXCEPT ![s] = Idle] /\ UNCHANGED <<seq, queue, closed>>
    BY <1>2 DEF ReporterReadsFinal, InStep
  <2>2. VerdictFor(m.decision) # "asked"
    BY DEF VerdictFor
  <2>3. QED
    BY <1>w, <2>1, <2>2
<1>3. CASE ReporterReadsPending(s)
  <2>1. /\ rep[s].pc = "first" /\ rep'[s].pc = "held" /\ rep'[s].n = rep[s].n
        /\ UNCHANGED <<call, seq, queue, closed>>
        /\ \A t \in Sessions : t # s => rep'[t] = rep[t]
    BY <1>3, <1>t DEF ReporterReadsPending, RepState
  <2>2. QED
    BY <1>a, <2>1, OthersStillAsk
<1>4. CASE ReporterOutOfStep(s)
  BY <1>4, <1>w DEF ReporterOutOfStep
<1>5. CASE ReporterGivesUp(s)
  <2>1. PICK v \in {"timed_out", "no_decision"} : Verdict(s, rep[s].n, v)
    BY <1>5 DEF ReporterGivesUp
  <2>2. QED
    BY <1>5, <1>w, <2>1 DEF ReporterGivesUp, HasDeadline
<1>6. CASE ReporterEnds(s)
  <2>1. /\ rep[s].pc = "idle" /\ closed[s] /\ queue[s] = <<>> /\ UNCHANGED <<call, seq, queue, closed>>
        /\ rep'[s].pc = "done" /\ \A t \in Sessions : t # s => rep'[t] = rep[t]
    BY <1>6, <1>t DEF ReporterEnds, RepState
  <2>2. \A n \in Seqs : call[<<s, n>>] # "asked"
    BY <1>a, <2>1, EmptyLine
  <2>3. QED
    BY <2>1, <2>2, OthersStillAsk
<1>7. QED
  BY <1>1, <1>2, <1>3, <1>4, <1>5, <1>6 DEF Reporter

LEMMA StepStillAsks ==
    ASSUME RecordInv, OnceInv, AskedInv, [Next]_vars
    PROVE  AskedInv'
<1>t. TypeOK
  BY DEF RecordInv
<1>u. ASSUME UNCHANGED relayVars PROVE AskedInv'
  BY <1>u DEF AskedInv, Waiting, relayVars
<1>1. ASSUME NEW s \in Sessions, Relay(s) PROVE AskedInv'
  BY <1>1, <1>t, RelayStillAsks
<1>2. ASSUME NEW s \in Sessions, Reporter(s) PROVE AskedInv'
  BY <1>2, <1>t, ReporterStillAsks
<1>3. ASSUME NEW s \in Sessions, Handler(s) PROVE AskedInv'
  BY <1>3, <1>u DEF Handler, Accept, HandleForeign, HandleStart, HandleOutcome, HandleArguments,
     HandleEnd, HandleRequest, CheckBudgets, RecordDecision, ArmTimer, Reply, HandlerEOF,
     Cleanup, RejectDone, RejectHeld
<1>4. ASSUME NEW c \in Call, Settle(c) PROVE AskedInv'
  BY <1>4, <1>u DEF Settle, TimerFires, TimeOut, RecordSettled, TellSettled
<1>5. ASSUME NEW h \in Humans, Human(h) PROVE AskedInv'
  BY <1>5, <1>u DEF Human, HumanDecides, HumanLooksUp
<1>6. CASE DaemonSignalled \/ DaemonExits \/ DaemonStarts
  BY <1>6, <1>u DEF DaemonSignalled, DaemonExits, DaemonStarts
<1>7. CASE UNCHANGED vars
  BY <1>7, <1>u DEF vars
<1>8. QED
  BY <1>1, <1>2, <1>3, <1>4, <1>5, <1>6, <1>7 DEF Next

\* The client never waits on a call nobody has: while the pump waits, its
\* question is on the reporter's queue or is the one the reporter waits on
\* (shim.go, ask and loop).
THEOREM TheQuestionIsInHand == Spec => []AskedInv
<1>1. Init => AskedInv
  BY DEF Init, AskedInv, Call, Idle
<1>2. RecordInv /\ OnceInv /\ AskedInv /\ [Next]_vars => AskedInv'
  BY StepStillAsks
<1>3. QED
  BY <1>1, <1>2, RecordIsLeading, OneQuestionAtATime, PTL DEF Spec

-----------------------------------------------------------------------------
\* Somebody has the question or its answer, or the connection is ending.
Attended(s, n) ==
    \/ handler[s].pc \in {"cleanup", "final", "closed"}
    \/ Outstanding(s, n)
    \/ \E m \in Range(d2c[s]) : Final(m) /\ m.n = n

\* Whatever the reporter waits for is attended to.
OwedInv ==
    \A s \in Sessions :
        /\ link[s] = "up" => handler[s].pc # "none"
        /\ Waiting(s) => link[s] = "up" /\ Attended(s, rep[s].n)

\* A session whose reporter is not kept waiting by this step.
StaysOwed(s) ==
    /\ link'[s] = "up" => link[s] = "up"
    /\ handler[s].pc # "none" => handler'[s].pc # "none"
    /\ rep'[s].pc \in {"first", "held"} =>
         /\ Waiting(s) /\ rep'[s].n = rep[s].n /\ link'[s] = link[s]
         /\ \A n \in Seqs : Attended(s, n) => Attended(s, n)'

LEMMA NobodyIsForgotten ==
    ASSUME TypeOK, OwedInv, \A s \in Sessions : StaysOwed(s)
    PROVE  OwedInv'
<1> SUFFICES ASSUME NEW s \in Sessions
             PROVE  /\ link'[s] = "up" => handler'[s].pc # "none"
                    /\ Waiting(s)' => link'[s] = "up" /\ Attended(s, rep[s].n)'
  BY DEF OwedInv
<1>1. link'[s] = "up" => handler'[s].pc # "none"
  BY DEF OwedInv, StaysOwed
<1>2. ASSUME Waiting(s)' PROVE link'[s] = "up" /\ Attended(s, rep[s].n)'
  <2>1. /\ Waiting(s) /\ rep'[s].n = rep[s].n /\ link'[s] = "up"
        /\ \A n \in Seqs : Attended(s, n) => Attended(s, n)'
    BY <1>2 DEF OwedInv, StaysOwed, Waiting
  <2>2. PICK n \in Seqs : n = rep[s].n
    BY <2>1 DEF TypeOK, RepState, Waiting
  <2>3. Attended(s, n)'
    BY <2>1, <2>2 DEF OwedInv
  <2>4. Attended(s, rep[s].n)'
    BY <2>1, <2>2, <2>3 DEF Attended, Outstanding
  <2>5. QED
    BY <2>1, <2>4
<1>3. QED
  BY <1>1, <1>2

\* held, or in the hands of whoever has won it
Unsettled(c) == hold[c].stage \in {"held"} \cup Settling

\* What a session's own parts leave alone.
LEMMA NothingHappens ==
    ASSUME NEW s \in Sessions, rep'[s] = rep[s], link'[s] = link[s], handler'[s] = handler[s],
           c2d'[s] = c2d[s], d2c'[s] = d2c[s],
           \A n \in Seqs : Unsettled(<<s, n>>) => Unsettled(<<s, n>>)'
    PROVE  StaysOwed(s)
BY DEF StaysOwed, Attended, Outstanding, Waiting, Unsettled

\* A relay's own steps give the reporter nothing new to wait for.
LEMMA RelayOwesNothing ==
    ASSUME TypeOK, OwedInv, NEW s \in Sessions, Relay(s)
    PROVE  OwedInv'
<1> USE DEF journalVars, daemonVars
<1>1. CASE Connect(s)
  <2>1. /\ rep[s].pc = "idle" /\ UNCHANGED <<rep, hold, c2d, d2c>>
        /\ link'[s] = "up" => handler'[s].pc # "none"
        /\ \A t \in Sessions : t # s => link'[t] = link[t] /\ handler'[t] = handler[t]
    BY <1>1 DEF Connect, TypeOK, At, Busy
  <2>2. \A t \in Sessions : t # s => StaysOwed(t)
    BY <2>1, NothingHappens DEF Unsettled
  <2>3. SUFFICES ASSUME NEW t \in Sessions
                 PROVE  /\ link'[t] = "up" => handler'[t].pc # "none"
                        /\ Waiting(t)' => link'[t] = "up" /\ Attended(t, rep[t].n)'
    BY DEF OwedInv
  <2>4. CASE t = s
    BY <2>1, <2>4 DEF Waiting
  <2>5. CASE t # s
    BY <2>1, <2>5 DEF OwedInv, Waiting, Attended, Outstanding
  <2>6. QED
    BY <2>4, <2>5
<1>2. CASE UNCHANGED <<rep, link, handler, c2d, d2c, hold>>
  BY <1>2, NothingHappens, NobodyIsForgotten DEF Unsettled
<1>3. CASE RelayKilled(s)
  <2>1. /\ link'[s] = "down" /\ rep'[s].pc = "dead" /\ UNCHANGED <<handler, c2d, hold>>
        /\ \A t \in Sessions : t # s => rep'[t] = rep[t] /\ link'[t] = link[t] /\ d2c'[t] = d2c[t]
    BY <1>3 DEF RelayKilled, TypeOK
  <2>2. \A t \in Sessions : t # s => StaysOwed(t)
    BY <2>1, NothingHappens DEF Unsettled
  <2>3. StaysOwed(s)
    BY <2>1 DEF StaysOwed
  <2>4. QED
    BY <2>2, <2>3, NobodyIsForgotten
<1>4. QED
  BY <1>1, <1>2, <1>3 DEF Relay, AskDaemon, GiveUp, Finish, ServerResponds

\* The reporter waits for what it has put on the socket, and stops waiting
\* when it has its answer.
LEMMA ReporterIsOwed ==
    ASSUME TypeOK, OnceInv, OwedInv, NEW s \in Sessions, Reporter(s)
    PROVE  OwedInv'
<1> USE DEF journalVars, daemonVars
<1>t. /\ rep \in [Sessions -> RepState] /\ link \in [Sessions -> {"none", "up", "down"}]
      /\ queue \in [Sessions -> Seq(Item)] /\ c2d \in [Sessions -> Seq(Item)]
      /\ d2c \in [Sessions -> Seq(Decision)]
  BY DEF TypeOK
\* it stops waiting, or never did
<1>i. ASSUME rep'[s].pc \in {"idle", "done"}, link'[s] = "up" => link[s] = "up",
             \A t \in Sessions : t # s => rep'[t] = rep[t] /\ link'[t] = link[t] /\ d2c'[t] = d2c[t]
                                          /\ c2d'[t] = c2d[t],
             UNCHANGED <<handler, hold>>
      PROVE  OwedInv'
  <2>1. \A t \in Sessions : t # s => StaysOwed(t)
    BY <1>i, NothingHappens DEF Unsettled
  <2>2. StaysOwed(s)
    BY <1>i DEF StaysOwed
  <2>3. QED
    BY <2>1, <2>2, NobodyIsForgotten
<1>1. CASE ReporterSends(s)
  <2> DEFINE item == Head(queue[s])
  <2>1. /\ rep[s].pc = "idle" /\ queue[s] # <<>> /\ UNCHANGED <<handler, hold>>
        /\ queue[s] \in Seq(Item) /\ Ordered(queue[s]) /\ Ordered(c2d[s]) /\ c2d[s] \in Seq(Item)
    BY <1>1, <1>t DEF ReporterSends, OnceInv, LineInv
  <2>2. CASE item.kind = "request" /\ link[s] = "up" /\ c2d' = [c2d EXCEPT ![s] = Append(@, item)]
             /\ rep' = [rep EXCEPT ![s] = [pc |-> "first", n |-> item.n]] /\ UNCHANGED <<link, d2c>>
    <3>1. item \in Item /\ item.n \in Seqs
      BY <2>1, <2>2, ShorterLine DEF Questions
    <3>2. item.n \in Questions(Append(c2d[s], item))
      BY <2>1, <2>2, <3>1, LongerLine
    <3> HIDE DEF item
    <3>3. /\ c2d'[s] = Append(c2d[s], item) /\ rep'[s].n = item.n
          /\ \A t \in Sessions : t # s => c2d'[t] = c2d[t] /\ rep'[t] = rep[t]
      BY <1>t, <2>2
    <3>4. PICK n \in Seqs : n = item.n
      BY <3>1
    <3>a. Outstanding(s, n)'
      BY <3>2, <3>3, <3>4 DEF Outstanding
    <3>5. SUFFICES ASSUME NEW t \in Sessions
                   PROVE  /\ link'[t] = "up" => handler'[t].pc # "none"
                          /\ Waiting(t)' => link'[t] = "up" /\ Attended(t, rep[t].n)'
      BY DEF OwedInv
    <3>6. CASE t = s
      <4>1. Outstanding(s, rep[s].n)'
        BY <3>3, <3>4, <3>a DEF Outstanding
      <4>2. QED
        BY <2>1, <2>2, <3>6, <4>1 DEF OwedInv, Attended
    <3>7. CASE t # s
      BY <2>1, <2>2, <3>3, <3>7 DEF OwedInv, Waiting, Attended, Outstanding
    <3>8. QED
      BY <3>6, <3>7
  <2>3. CASE ~(item.kind = "request" /\ link[s] = "up" /\ c2d' = [c2d EXCEPT ![s] = Append(@, item)]
               /\ rep' = [rep EXCEPT ![s] = [pc |-> "first", n |-> item.n]] /\ UNCHANGED <<link, d2c>>)
    <3>1. /\ rep' = rep /\ (Drop(s) \/ UNCHANGED <<link, d2c>>)
          /\ UNCHANGED c2d \/ c2d' = [c2d EXCEPT ![s] = Append(@, item)]
      BY <1>1, <2>3 DEF ReporterSends
    <3>2. /\ rep'[s].pc = "idle" /\ (link'[s] = "up" => link[s] = "up")
          /\ \A t \in Sessions : t # s => rep'[t] = rep[t] /\ link'[t] = link[t] /\ d2c'[t] = d2c[t]
                                          /\ c2d'[t] = c2d[t]
      BY <1>t, <2>1, <3>1 DEF Drop
    <3>3. QED
      BY <1>i, <2>1, <3>2
  <2>4. QED
    BY <2>2, <2>3
<1>2. CASE ReporterReadsPending(s)
  <2>1. PICK kind \in {"args", "longargs"} :
            c2d' = [c2d EXCEPT ![s] = Append(@, Event(kind, Head(d2c[s]).n))]
    BY <1>2 DEF ReporterReadsPending
  <2> DEFINE e == Event(kind, Head(d2c[s]).n)
  <2>2. /\ Waiting(s) /\ d2c[s] # <<>> /\ d2c'[s] = Tail(d2c[s]) /\ ~Final(Head(d2c[s]))
        /\ rep'[s].n = rep[s].n /\ d2c[s] \in Seq(Decision)
        /\ \A t \in Sessions : t # s => d2c'[t] = d2c[t] /\ rep'[t] = rep[t]
        /\ UNCHANGED <<hold, handler, link>>
    BY <1>2, <1>t DEF ReporterReadsPending, Waiting, RepState, Final
  <2>3. Head(d2c[s]) \in Decision /\ Range(d2c[s]) = {Head(d2c[s])} \cup Range(d2c'[s])
    BY <2>2, OnlyTheFirstLeaves, Carried
  <2>4. e \in Item /\ e.kind # "request"
    BY <2>3, Items DEF Decision, Event
  <2> HIDE DEF e
  <2>5. Questions(c2d'[s]) = Questions(c2d[s]) /\ \A t \in Sessions : t # s => c2d'[t] = c2d[t]
    <3>1. c2d[s] \in Seq(Item) /\ Ordered(c2d[s]) /\ c2d'[s] = Append(c2d[s], e)
      BY <1>t, <2>1 DEF OnceInv, LineInv, e
    <3>2. QED
      BY <1>t, <2>1, <2>4, <3>1, LongerLine DEF e
  <2>6. StaysOwed(s)
    <3>1. \A n \in Seqs : Attended(s, n) => Attended(s, n)'
      BY <2>2, <2>3, <2>5 DEF Attended, Outstanding
    <3>2. QED
      BY <2>2, <3>1 DEF StaysOwed
  <2>7. \A t \in Sessions : t # s => StaysOwed(t)
    BY <2>2, <2>5, NothingHappens DEF Unsettled
  <2>8. QED
    BY <2>6, <2>7, NobodyIsForgotten
<1>3. CASE ReporterReadsFinal(s)
  BY <1>i, <1>t, <1>3 DEF ReporterReadsFinal, Idle
<1>4. CASE ReporterOutOfStep(s)
  BY <1>i, <1>t, <1>4 DEF ReporterOutOfStep, Drop, Idle
<1>5. CASE ReporterGivesUp(s)
  BY <1>i, <1>t, <1>5 DEF ReporterGivesUp, Drop, Idle
<1>6. CASE ReporterEnds(s)
  BY <1>i, <1>t, <1>6 DEF ReporterEnds, Drop, RepState
<1>7. QED
  BY <1>1, <1>2, <1>3, <1>4, <1>5, <1>6 DEF Reporter


\* A call that is won stays in somebody's hands.
LEMMA WonIsUnsettled ==
    ASSUME TypeOK, NEW c \in Call, Unresolved(c), NEW by, NEW decision, NEW told,
           \/ Win(c, by, decision, told)
           \/ hold' = [hold EXCEPT ![c].stage = "won", ![c].by = by, ![c].decision = decision,
                                   ![c].told = told, ![c].timer = "off"]
    PROVE  \A d \in Call : Unsettled(d) => Unsettled(d)'
<1>1. hold[c] \in HoldState
  BY DEF TypeOK
<1>2. PICK t : hold' = [hold EXCEPT ![c] = [hold[c] EXCEPT !.stage = "won", !.by = by,
                                  !.decision = decision, !.told = told, !.timer = t]]
  <2>1. CASE Win(c, by, decision, told)
    <3>1. hold' = [hold EXCEPT ![c] = [hold[c] EXCEPT !.stage = "won", !.by = by, !.decision = decision,
                       !.told = told, !.timer = IF hold[c].timer = "armed" THEN "off" ELSE hold[c].timer]]
      BY <1>1, <2>1 DEF Win, TypeOK, HoldState
    <3>2. QED
      BY <3>1
  <2>2. CASE hold' = [hold EXCEPT ![c].stage = "won", ![c].by = by, ![c].decision = decision,
                                  ![c].told = told, ![c].timer = "off"]
    <3>1. hold' = [hold EXCEPT ![c] = [hold[c] EXCEPT !.stage = "won", !.by = by, !.decision = decision,
                                                      !.told = told, !.timer = "off"]]
      BY <1>1, <2>2 DEF TypeOK, HoldState
    <3>2. QED
      BY <3>1
  <2>3. QED
    BY <2>1, <2>2
<1>3. hold'[c].stage = "won" /\ \A d \in Call : d # c => hold'[d] = hold[d]
  BY <1>1, <1>2 DEF TypeOK, HoldState
<1>4. QED
  BY <1>3 DEF Unsettled, Settling

\* A step of the daemon that tells nobody anything and takes no question.
LEMMA NobodyIsTold ==
    ASSUME TypeOK, OwedInv, UNCHANGED <<rep, link, c2d, d2c, handler>>,
           \A c \in Call : Unsettled(c) => Unsettled(c)'
    PROVE  OwedInv'
<1>1. \A s \in Sessions, n \in Seqs : <<s, n>> \in Call
  BY DEF Call
<1>2. QED
  BY <1>1, NothingHappens, NobodyIsForgotten

\* The connection's goroutine answers what it has in its hands, leaves it in
\* the registry, or ends the connection.
LEMMA HandlerOwes ==
    ASSUME TypeOK, OnceInv, OwedInv, NEW s \in Sessions, Handler(s)
    PROVE  OwedInv'
<1> USE DEF journalVars, relayVars, daemonVars
<1> DEFINE Ending == {"cleanup", "final", "closed"}
<1>t. /\ handler \in [Sessions -> HandlerState] /\ c2d \in [Sessions -> Seq(Item)]
      /\ d2c \in [Sessions -> Seq(Decision)] /\ hold \in [Call -> HoldState]
  BY DEF TypeOK
<1>k. \A t \in Sessions, n \in Seqs : <<t, n>> \in Call
  BY DEF Call
\* everybody else's connection is left alone
<1>s. ASSUME StaysOwed(s), UNCHANGED <<rep, link>>,
             \A t \in Sessions : t # s => handler'[t] = handler[t] /\ c2d'[t] = c2d[t] /\ d2c'[t] = d2c[t],
             \A t \in Sessions, n \in Seqs : t # s => hold'[<<t, n>>] = hold[<<t, n>>]
      PROVE  OwedInv'
  <2>1. \A t \in Sessions : t # s => StaysOwed(t)
    BY <1>s, NothingHappens DEF Unsettled
  <2>2. QED
    BY <1>s, <2>1, NobodyIsForgotten
\* the connection ends
<1>e. ASSUME NEW pc \in Ending, Goto(s, At(pc)), UNCHANGED <<rep, link, d2c, hold>>,
             \A t \in Sessions : t # s => c2d'[t] = c2d[t]
      PROVE  OwedInv'
  <2>1. handler'[s].pc = pc /\ \A t \in Sessions : t # s => handler'[t] = handler[t]
    BY <1>t, <1>e DEF Goto, At, Busy
  <2>2. StaysOwed(s)
    BY <1>e, <2>1 DEF StaysOwed, Attended, Waiting
  <2>3. QED
    BY <1>e, <1>s, <2>1, <2>2
\* it goes on, with no question in its hands
<1>g. ASSUME handler[s].pc \notin Ending \cup Deciding, handler'[s].pc # "none",
             \A t \in Sessions : t # s => handler'[t] = handler[t] /\ c2d'[t] = c2d[t],
             Questions(c2d'[s]) = Questions(c2d[s]), UNCHANGED <<rep, link, d2c>>,
             \A c \in Call : hold'[c].stage = hold[c].stage,
             \A t \in Sessions, n \in Seqs : t # s => hold'[<<t, n>>] = hold[<<t, n>>]
      PROVE  OwedInv'
  <2>1. StaysOwed(s)
    BY <1>g, <1>k DEF StaysOwed, Attended, Outstanding, Waiting
  <2>2. QED
    BY <1>g, <1>s, <2>1
\* a message that is no question is read
<1>r. ASSUME NEW kind, kind # "request", Receives(s, kind)
      PROVE  /\ handler[s].pc \notin Ending \cup Deciding /\ handler[s].pc # "none"
             /\ Questions(c2d'[s]) = Questions(c2d[s])
             /\ \A t \in Sessions : t # s => c2d'[t] = c2d[t]
  <2>1. /\ c2d[s] \in Seq(Item) /\ c2d[s] # <<>> /\ Head(c2d[s]).kind # "request"
        /\ c2d'[s] = Tail(c2d[s]) /\ \A t \in Sessions : t # s => c2d'[t] = c2d[t]
        /\ handler[s].pc = "read"
    BY <1>r, <1>t DEF Receives
  <2>2. QED
    BY <2>1, QuestionsLeft DEF Deciding
<1>1. CASE Accept(s)
  <2>1. CASE Goto(s, At("closed"))
    BY <1>1, <1>e, <2>1 DEF Accept
  <2>2. CASE Goto(s, At("read"))
    <3>1. /\ handler'[s].pc = "read" /\ \A t \in Sessions : t # s => handler'[t] = handler[t]
          /\ handler[s].pc \notin Ending \cup Deciding
      BY <1>1, <1>t, <2>2 DEF Accept, Goto, At, Busy, Deciding
    <3>2. QED
      BY <1>1, <1>g, <3>1 DEF Accept
  <2>3. QED
    BY <1>1, <2>1, <2>2 DEF Accept
<1>2. CASE HandleForeign(s)
  <2>1. \A t \in Sessions : t # s => c2d'[t] = c2d[t]
    BY <1>2, <1>t DEF HandleForeign, Receives
  <2>2. QED
    BY <1>2, <1>e, <2>1 DEF HandleForeign
<1>3. CASE HandleStart(s)
  <2>1. /\ handler[s].pc \notin Ending \cup Deciding /\ handler[s].pc # "none"
        /\ Questions(c2d'[s]) = Questions(c2d[s])
        /\ \A t \in Sessions : t # s => c2d'[t] = c2d[t]
    BY <1>3, <1>r DEF HandleStart
  <2>2. CASE UNCHANGED handler
    BY <1>3, <1>g, <2>1, <2>2 DEF HandleStart
  <2>3. CASE Goto(s, At("cleanup"))
    BY <1>3, <1>e, <2>1, <2>3 DEF HandleStart
  <2>4. QED
    BY <1>3, <2>2, <2>3 DEF HandleStart
<1>4. CASE HandleOutcome(s)
  BY <1>4, <1>g, <1>r DEF HandleOutcome
<1>5. CASE HandleArguments(s)
  <2>1. \A c \in Call : hold'[c].stage = hold[c].stage
    BY <1>5 DEF HandleArguments, TypeOK, HoldState
  <2>2. \A t \in Sessions, n \in Seqs : t # s => hold'[<<t, n>>] = hold[<<t, n>>]
    BY <1>5, <1>k, <1>t DEF HandleArguments
  <2>3. QED
    BY <1>5, <1>g, <1>r, <2>1, <2>2 DEF HandleArguments
<1>6. CASE HandleEnd(s)
  <2>1. /\ handler[s].pc \notin Ending \cup Deciding /\ handler[s].pc # "none"
        /\ Questions(c2d'[s]) = Questions(c2d[s])
        /\ \A t \in Sessions : t # s => c2d'[t] = c2d[t]
    BY <1>6, <1>r DEF HandleEnd
  <2>2. handler'[s].pc # "none" /\ \A t \in Sessions : t # s => handler'[t] = handler[t]
    BY <1>6, <1>t, <2>1 DEF HandleEnd, Goto, At, Busy
  <2>3. QED
    BY <1>6, <1>g, <2>1, <2>2 DEF HandleEnd
<1>7. CASE HandleRequest(s)
  <2>0. PICK n : n = Head(c2d[s]).n
    OBVIOUS
  <2> DEFINE c == <<s, n>>
  <2>1. /\ Receives(s, "request") /\ UNCHANGED <<rep, link, d2c>> /\ handler[s].pc = "read"
        /\ c2d[s] \in Seq(Item) /\ c2d[s] # <<>> /\ Head(c2d[s]).kind = "request" /\ c2d'[s] = Tail(c2d[s])
        /\ Ordered(c2d[s]) /\ \A t \in Sessions : t # s => c2d'[t] = c2d[t]
    BY <1>7, <1>t DEF HandleRequest, Receives, OnceInv, LineInv
  <2>2. /\ n \in Questions(c2d[s]) /\ n \in Seqs /\ c \in Call
        /\ \A k \in Questions(c2d[s]) : k \in Questions(c2d'[s]) \/ k = n
    <3>1. \A k : Event("request", k).n = k
      BY DEF Event
    <3>2. QED
      BY <1>k, <2>0, <2>1, <3>1, ShorterLine, QuestionsLeft DEF Questions
  <2>3. /\ \/ handler'[s].pc \in Deciding /\ handler'[s].n = n /\ hold' = hold
           \/ /\ handler'[s].pc = "arm" /\ hold'[c].stage = "held"
              /\ \A d \in Call : d # c => hold'[d] = hold[d]
        /\ \A t \in Sessions : t # s => handler'[t] = handler[t]
    <3>1. CASE hold' = hold /\ \E pc \in Deciding, d \in {"allow", "deny", "undecided"} : Goto(s, Busy(pc, n, d))
      BY <1>t, <3>1 DEF Goto, Busy
    <3>2. CASE hold' = [hold EXCEPT ![c] = [NotHeld EXCEPT !.stage = "held"]] /\ Goto(s, Busy("arm", n, "pending"))
      BY <1>t, <2>2, <3>2 DEF Goto, Busy, NotHeld
    <3>3. QED
      BY <1>7, <2>0, <3>1, <3>2 DEF HandleRequest, Deciding
  <2>4. Outstanding(s, n)'
    <3>1. hold'[c].stage = "held" \/ (handler'[s].pc \in Deciding /\ handler'[s].n = n)
      BY <2>3
    <3>2. QED
      BY <3>1 DEF Outstanding
  <2>5. /\ handler'[s].pc # "none"
        /\ \A k \in Seqs : k # n /\ Unsettled(<<s, k>>) => Unsettled(<<s, k>>)'
        /\ \A t \in Sessions, k \in Seqs : t # s => hold'[<<t, k>>] = hold[<<t, k>>]
    BY <1>k, <2>3 DEF Unsettled, Deciding
  <2>6. \A k \in Seqs : Attended(s, k) => Attended(s, k)'
    <3> SUFFICES ASSUME NEW k \in Seqs, Attended(s, k) PROVE Attended(s, k)'
      OBVIOUS
    <3>1. CASE k = n
      BY <2>4, <3>1 DEF Attended
    <3>2. CASE k # n
      BY <2>1, <2>2, <2>5, <3>2 DEF Attended, Outstanding, Unsettled, Deciding
    <3>3. QED
      BY <3>1, <3>2
  <2>7. StaysOwed(s)
    BY <2>1, <2>5, <2>6 DEF StaysOwed, Waiting
  <2>8. QED
    BY <1>s, <2>1, <2>3, <2>5, <2>7
\* the question stays in the goroutine's hands
<1>d. ASSUME NEW pc \in Deciding, NEW d, Goto(s, Busy(pc, handler[s].n, d)), handler[s].pc \in Deciding,
             UNCHANGED <<rep, link, c2d, d2c, hold>>
      PROVE  OwedInv'
  <2>1. /\ handler'[s].pc = pc /\ handler'[s].n = handler[s].n
        /\ \A t \in Sessions : t # s => handler'[t] = handler[t]
    BY <1>d, <1>t DEF Goto, Busy
  <2>2. StaysOwed(s)
    BY <1>d, <2>1 DEF StaysOwed, Attended, Outstanding, Waiting, Deciding
  <2>3. QED
    BY <1>d, <1>s, <2>1, <2>2
<1>8. CASE CheckBudgets(s)
  BY <1>8, <1>d DEF CheckBudgets, Deciding
<1>9. CASE RecordDecision(s)
  BY <1>9, <1>d DEF RecordDecision, Deciding
<1>10. CASE ArmTimer(s)
  <2>1. \A c \in Call : hold'[c].stage = hold[c].stage
    BY <1>10 DEF ArmTimer, Arm, TypeOK, HoldState
  <2>2. \A t \in Sessions, n \in Seqs : t # s => hold'[<<t, n>>] = hold[<<t, n>>]
    BY <1>10, <1>k, <1>t DEF ArmTimer, Arm
  <2>3. /\ handler[s].pc \notin Ending \cup Deciding /\ handler'[s].pc # "none"
        /\ \A t \in Sessions : t # s => handler'[t] = handler[t]
    BY <1>10, <1>t DEF ArmTimer, Goto, Busy, Deciding
  <2>4. QED
    BY <1>10, <1>g, <2>1, <2>2, <2>3 DEF ArmTimer
<1>11. CASE Reply(s)
  <2>1. CASE ~Writable(s)
    BY <1>11, <1>e, <2>1 DEF Reply
  <2>2. CASE Writable(s)
    <3>0. PICK n, d : n = handler[s].n /\ d = handler[s].decision
      OBVIOUS
    <3> DEFINE m == [n |-> n, decision |-> d]
    <3>1. /\ d2c'[s] = Append(d2c[s], m) /\ handler'[s].pc = "read" /\ d2c[s] \in Seq(Decision)
          /\ handler[s].pc \in {"reply", "pending"}
          /\ \A t \in Sessions : t # s => handler'[t] = handler[t] /\ d2c'[t] = d2c[t]
          /\ UNCHANGED <<rep, link, c2d, hold>>
      BY <1>11, <1>t, <2>2, <3>0 DEF Reply, Tell, Goto, At, Busy
    <3>2. m \in Decision /\ (handler[s].pc = "reply" => Final(m)) /\ m.n = n
      BY <1>t, <3>0, <3>1, Programs DEF Decision, Answers, Recordable, Grants, Final, HandlerState
    <3> HIDE DEF m
    <3>3. Range(d2c'[s]) = Range(d2c[s]) \cup {m}
      BY <3>1, <3>2, Carried
    <3>4. \A k \in Seqs : Attended(s, k) => Attended(s, k)'
      BY <3>0, <3>1, <3>2, <3>3 DEF Attended, Outstanding, Deciding
    <3>5. StaysOwed(s)
      BY <3>1, <3>4 DEF StaysOwed, Waiting
    <3>6. QED
      BY <1>s, <3>1, <3>5
  <2>3. QED
    BY <2>1, <2>2
<1>12. CASE HandlerEOF(s)
  BY <1>12, <1>e DEF HandlerEOF
<1>13. CASE Cleanup(s)
  BY <1>13, <1>e DEF Cleanup
<1>14. CASE RejectDone(s)
  <2>1. CASE handler[s].pc = "final"
    BY <1>14, <1>e, <2>1 DEF RejectDone
  <2>2. CASE handler[s].pc = "reject"
    <3>1. /\ handler'[s].pc = "read" /\ \A t \in Sessions : t # s => handler'[t] = handler[t]
          /\ handler[s].pc \notin Ending \cup Deciding
      BY <1>14, <1>t, <2>2 DEF RejectDone, Goto, At, Busy, Deciding
    <3>2. QED
      BY <1>14, <1>g, <3>1 DEF RejectDone
  <2>3. QED
    BY <1>14, <2>1, <2>2 DEF RejectDone
<1>15. ASSUME NEW n \in Seqs, RejectHeld(s, n) PROVE OwedInv'
  <2>1. /\ Unresolved(<<s, n>>) /\ Win(<<s, n>>, "session", "rejected", "rejected")
        /\ UNCHANGED <<rep, link, c2d, d2c, handler>>
    BY <1>15 DEF RejectHeld
  <2>2. \A c \in Call : Unsettled(c) => Unsettled(c)'
    BY <1>k, <2>1, WonIsUnsettled
  <2>3. QED
    BY <2>1, <2>2, NobodyIsTold
<1>16. QED
  BY <1>1, <1>2, <1>3, <1>4, <1>5, <1>6, <1>7, <1>8, <1>9, <1>10, <1>11, <1>12, <1>13, <1>14, <1>15
  DEF Handler

\* Whoever settles a held call tells the relay, unless it is gone.
LEMMA SettlerOwes ==
    ASSUME TypeOK, OnceInv, OwedInv, NEW c \in Call, Settle(c)
    PROVE  OwedInv'
<1> USE DEF journalVars, relayVars
<1>t. hold \in [Call -> HoldState] /\ d2c \in [Sessions -> Seq(Decision)]
  BY DEF TypeOK
<1>1. CASE TimerFires(c)
  <2>1. \A d \in Call : hold'[d].stage = hold[d].stage
    BY <1>1 DEF TimerFires, TypeOK, HoldState
  <2>2. QED
    BY <1>1, <2>1, NobodyIsTold DEF TimerFires, Unsettled
<1>2. CASE TimeOut(c)
  <2>1. CASE Unresolved(c)
    <3>0. PICK told : hold' = [hold EXCEPT ![c].stage = "won", ![c].by = "timer",
                                 ![c].decision = "rejected", ![c].told = told, ![c].timer = "off"]
      BY <1>2, <2>1 DEF TimeOut
    <3>1. \A d \in Call : Unsettled(d) => Unsettled(d)'
      BY <2>1, <3>0, WonIsUnsettled
    <3>2. QED
      BY <1>2, <3>1, NobodyIsTold DEF TimeOut
  <2>2. CASE ~Unresolved(c)
    <3>0. hold' = [hold EXCEPT ![c].timer = "off"]
      BY <1>2, <2>2 DEF TimeOut
    <3>1. \A d \in Call : hold'[d].stage = hold[d].stage
      BY <1>t, <3>0 DEF HoldState
    <3>2. QED
      BY <1>2, <3>1, NobodyIsTold DEF TimeOut, Unsettled
  <2>3. QED
    BY <2>1, <2>2
<1>3. CASE RecordSettled(c)
  <2>1. \A d \in Call : hold'[d].stage = IF d = c THEN "recorded" ELSE hold[d].stage
    BY <1>3 DEF RecordSettled, TypeOK, HoldState
  <2>2. QED
    BY <1>3, <2>1, NobodyIsTold DEF RecordSettled, Unsettled, Settling
<1>4. CASE TellSettled(c)
  <2>0. PICK s \in Sessions, n \in Seqs : c = <<s, n>>
    BY DEF Call
  <2>d. PICK d : d = hold[c].told
    OBVIOUS
  <2> DEFINE m == [n |-> n, decision |-> d]
  <2>1. /\ hold[c].stage = "recorded" /\ m \in Decision /\ m.n = n /\ Final(m)
        /\ \A e \in Call : e # c => hold'[e] = hold[e]
        /\ UNCHANGED <<handler, c2d, link, rep>>
    <3>1. /\ hold[c].stage = "recorded" /\ \A e \in Call : e # c => hold'[e] = hold[e]
          /\ UNCHANGED <<handler, c2d, link, rep>>
      BY <1>4 DEF TellSettled, TypeOK
    <3>2. d \in {"approved", "rejected", "timed_out", "undecided"}
      BY <1>t, <2>d, <3>1 DEF HoldState
    <3>3. QED
      BY <3>1, <3>2 DEF Decision, Answers, Recordable, Grants, Final
  <2> HIDE DEF m
  <2>2. \A t \in Sessions, k \in Seqs : t # s \/ k # n => hold'[<<t, k>>] = hold[<<t, k>>]
    BY <2>0, <2>1 DEF Call
  <2>3. /\ \A t \in Sessions : t # s => d2c'[t] = d2c[t]
        /\ IF Writable(s) THEN d2c'[s] = Append(d2c[s], m) ELSE d2c'[s] = d2c[s]
    BY <1>4, <1>t, <2>0, <2>d DEF TellSettled, Tell, m
  <2>4. \A t \in Sessions : t # s => StaysOwed(t)
    BY <2>1, <2>2, <2>3, NothingHappens DEF Unsettled
  <2>5. StaysOwed(s)
    <3> SUFFICES ASSUME Waiting(s), NEW k \in Seqs, Attended(s, k) PROVE Attended(s, k)'
      BY <2>1 DEF StaysOwed, Waiting
    <3>1. link[s] = "up"
      BY DEF OwedInv
    <3>2. CASE handler[s].pc = "closed"
      BY <2>1, <3>2 DEF Attended
    <3>3. CASE handler[s].pc # "closed"
      <4>a. d2c[s] \in Seq(Decision) /\ d2c'[s] = Append(d2c[s], m)
        BY <1>t, <2>3, <3>1, <3>3 DEF Writable
      <4>1. Range(d2c'[s]) = Range(d2c[s]) \cup {m}
        BY <2>1, <4>a, Carried
      <4>2. CASE k = n
        BY <2>1, <4>1, <4>2 DEF Attended
      <4>3. CASE k # n
        BY <2>1, <2>2, <4>1, <4>3 DEF Attended, Outstanding
      <4>4. QED
        BY <4>2, <4>3
    <3>4. QED
      BY <3>2, <3>3
  <2>6. QED
    BY <2>4, <2>5, NobodyIsForgotten
<1>5. QED
  BY <1>1, <1>2, <1>3, <1>4 DEF Settle

LEMMA StepStaysOwed ==
    ASSUME TypeOK, OnceInv, OwedInv, [Next]_vars
    PROVE  OwedInv'
<1>1. ASSUME NEW h \in Humans, HumanDecides(h), Unresolved(human[h].c)
      PROVE  OwedInv'
  <2>0. PICK c, d : c = human[h].c /\ d = human[h].decision
    OBVIOUS
  <2>1. c \in Call /\ Win(c, "human", d, d) /\ Unresolved(c) /\ UNCHANGED <<rep, link, c2d, d2c, handler>>
    BY <1>1, <2>0 DEF HumanDecides, TypeOK, HumanState, relayVars
  <2>2. QED
    BY <2>1, WonIsUnsettled, NobodyIsTold
<1>2. ASSUME UNCHANGED <<rep, link, c2d, d2c, handler, hold>> PROVE OwedInv'
  BY <1>2, NobodyIsTold DEF Unsettled
<1>3. ASSUME NEW h \in Humans, Human(h) PROVE OwedInv'
  BY <1>1, <1>2, <1>3 DEF Human, HumanDecides, HumanLooksUp, relayVars
<1>4. CASE DaemonExits
  <2>1. /\ UNCHANGED <<rep, link>>
        /\ \A s \in Sessions : handler'[s].pc = IF handler[s].pc = "none" THEN "none" ELSE "closed"
    BY <1>4 DEF DaemonExits, relayVars, At, Busy
  <2>2. QED
    BY <2>1 DEF OwedInv, Attended, Waiting
<1>5. CASE DaemonSignalled \/ DaemonStarts \/ UNCHANGED vars
  BY <1>2, <1>5 DEF DaemonSignalled, DaemonStarts, vars, relayVars, daemonVars
<1>6. QED
  BY <1>3, <1>4, <1>5, RelayOwesNothing, ReporterIsOwed, HandlerOwes, SettlerOwes DEF Next

\* The reporter never waits for an answer nobody owes it: the daemon has its
\* question on the socket, in its hands or in its registry, has written the
\* answer, or is ending the connection, which ends the wait (daemon.go, answer
\* and handle; approval.go, settle).
THEOREM EveryWaitIsAttended == Spec => []OwedInv
<1>1. Init => OwedInv
  BY DEF Init, OwedInv, Waiting, Idle
<1>2. TypeOK /\ OnceInv /\ OwedInv /\ [Next]_vars => OwedInv'
  BY StepStaysOwed
<1>3. QED
  BY <1>1, <1>2, TypeCorrect, OneQuestionAtATime, PTL DEF Spec

-----------------------------------------------------------------------------
\* A timer runs for every held call, or the goroutine that holds it is about
\* to start one; and a daemon that is down holds and serves nothing.
TimedInv ==
    \A s \in Sessions, n \in Seqs : hold[<<s, n>>].stage = "held" =>
        \/ hold[<<s, n>>].timer \in {"armed", "fired"}
        \/ handler[s].pc = "arm" /\ handler[s].n = n
DownInv ==
    daemon = "down" =>
        /\ \A s \in Sessions : handler[s].pc \in {"none", "closed"}
        /\ \A c \in Call : ~Unsettled(c)

\* The goroutine that holds a call does nothing else before it starts the timer.
LEMMA HandlerTimes ==
    ASSUME TypeOK, OnceInv, TimedInv, NEW s \in Sessions, Handler(s)
    PROVE  TimedInv'
<1> USE DEF journalVars, relayVars, daemonVars
<1>t. handler \in [Sessions -> HandlerState] /\ hold \in [Call -> HoldState]
  BY DEF TypeOK
<1>k. \A t \in Sessions, n \in Seqs : <<t, n>> \in Call
  BY DEF Call
\* it is not about to start a timer, and touches none
<1>q. ASSUME handler[s].pc # "arm", \A t \in Sessions : t # s => handler'[t] = handler[t],
             \A c \in Call : hold'[c].stage = "held" => hold[c].stage = "held" /\ hold'[c].timer = hold[c].timer
      PROVE  TimedInv'
  BY <1>k, <1>q DEF TimedInv
<1>1. CASE HandleRequest(s)
  <2>0. PICK n : n = Head(c2d[s]).n
    OBVIOUS
  <2> DEFINE c == <<s, n>>
  <2>1. n \in Questions(c2d[s]) /\ n \in Seqs /\ c \in Call /\ handler[s].pc = "read"
    <3>1. Receives(s, "request") /\ UNCHANGED <<queue, seq, link>>
      BY <1>1 DEF HandleRequest
    <3>2. QED
      BY <1>k, <2>0, <3>1, ReceivingIsCalm DEF OnceInv, Questions
  <2>2. \A t \in Sessions : t # s => handler'[t] = handler[t]
    BY <1>1, <1>t DEF HandleRequest, Goto
  <2>3. CASE UNCHANGED hold
    BY <1>q, <2>1, <2>2, <2>3
  <2>4. CASE hold' = [hold EXCEPT ![c] = [NotHeld EXCEPT !.stage = "held"]] /\ Goto(s, Busy("arm", n, "pending"))
    <3>1. handler'[s].pc = "arm" /\ handler'[s].n = n /\ \A d \in Call : d # c => hold'[d] = hold[d]
      BY <1>t, <2>4 DEF Goto, Busy
    <3>2. QED
      BY <1>k, <2>1, <2>2, <3>1 DEF TimedInv
  <2>5. QED
    BY <1>1, <2>0, <2>3, <2>4 DEF HandleRequest
<1>2. CASE HandleArguments(s)
  <2>1. PICK c, k : hold' = [hold EXCEPT ![c] = [hold[c] EXCEPT !.known = k]]
    BY <1>2 DEF HandleArguments
  <2>2. \A d \in Call : hold'[d].stage = hold[d].stage /\ hold'[d].timer = hold[d].timer
    BY <1>t, <2>1 DEF HoldState
  <2>3. QED
    BY <1>2, <1>q, <2>2 DEF HandleArguments, Receives
<1>3. CASE ArmTimer(s)
  <2>0. PICK n \in Seqs : n = handler[s].n
    BY <1>3, <1>t, Programs DEF ArmTimer
  <2>1. hold' = [hold EXCEPT ![<<s, n>>] = [hold[<<s, n>>] EXCEPT !.timer = "armed"]]
    BY <1>3, <2>0 DEF ArmTimer, Arm
  <2>2. /\ hold'[<<s, n>>].timer = "armed"
        /\ \A d \in Call : d # <<s, n>> => hold'[d] = hold[d]
    BY <1>k, <1>t, <2>1 DEF HoldState
  <2>3. \A t \in Sessions : t # s => handler'[t] = handler[t]
    BY <1>3, <1>t DEF ArmTimer, Goto
  <2>4. SUFFICES ASSUME NEW t \in Sessions, NEW k \in Seqs, hold'[<<t, k>>].stage = "held"
                 PROVE  \/ hold'[<<t, k>>].timer \in {"armed", "fired"}
                        \/ handler'[t].pc = "arm" /\ handler'[t].n = k
    BY DEF TimedInv
  <2>5. CASE t = s /\ k = n
    BY <2>2, <2>5
  <2>6. CASE t # s \/ k # n
    <3>1. hold'[<<t, k>>] = hold[<<t, k>>]
      BY <1>k, <2>2, <2>6
    <3>2. QED
      BY <2>0, <2>3, <2>4, <2>6, <3>1 DEF TimedInv
  <2>7. QED
    BY <2>5, <2>6
<1>4. ASSUME NEW n \in Seqs, RejectHeld(s, n) PROVE TimedInv'
  <2>1. \A c \in Call : hold'[c].stage = "held" => hold'[c] = hold[c]
    BY <1>4, <1>k, <1>t DEF RejectHeld, Win, HoldState
  <2>2. QED
    BY <1>4, <1>q, <2>1 DEF RejectHeld
<1>5. ASSUME UNCHANGED hold, handler[s].pc # "arm", \A t \in Sessions : t # s => handler'[t] = handler[t]
      PROVE  TimedInv'
  BY <1>5, <1>q
<1>6. CASE Accept(s) \/ HandleForeign(s) \/ HandleStart(s) \/ HandleOutcome(s) \/ HandleEnd(s)
  BY <1>5, <1>6, <1>t DEF Accept, HandleForeign, HandleStart, HandleOutcome, HandleEnd, Receives, Goto
<1>7. CASE CheckBudgets(s) \/ RecordDecision(s) \/ Reply(s) \/ HandlerEOF(s) \/ Cleanup(s) \/ RejectDone(s)
  BY <1>5, <1>7, <1>t DEF CheckBudgets, RecordDecision, Reply, HandlerEOF, Cleanup, RejectDone, Goto
<1>8. QED
  BY <1>1, <1>2, <1>3, <1>4, <1>6, <1>7 DEF Handler

LEMMA StepStaysTimed ==
    ASSUME TypeOK, OnceInv, TimedInv, [Next]_vars
    PROVE  TimedInv'
<1> USE DEF journalVars, relayVars, daemonVars
<1>t. hold \in [Call -> HoldState]
  BY DEF TypeOK
<1>k. \A t \in Sessions, n \in Seqs : <<t, n>> \in Call
  BY DEF Call
\* a held call's timer is left alone, or fires
<1>q. ASSUME UNCHANGED handler,
             \A c \in Call : hold'[c].stage = "held" =>
                /\ hold[c].stage = "held"
                /\ hold[c].timer \in {"armed", "fired"} => hold'[c].timer \in {"armed", "fired"}
      PROVE  TimedInv'
  BY <1>k, <1>q DEF TimedInv
<1>1. ASSUME NEW s \in Sessions, Connect(s) PROVE TimedInv'
  <2>1. /\ \A n \in Seqs : Unheard(s, n)
        /\ hold' = hold
        /\ \A t \in Sessions : t # s => handler'[t] = handler[t]
    BY <1>1 DEF Connect, OnceInv, LineInv, UnheardInv, Seqs, TypeOK
  <2>2. SUFFICES ASSUME NEW t \in Sessions, NEW n \in Seqs, hold[<<t, n>>].stage = "held"
                 PROVE  \/ hold[<<t, n>>].timer \in {"armed", "fired"}
                        \/ handler'[t].pc = "arm" /\ handler'[t].n = n
    BY <2>1 DEF TimedInv
  <2>3. t # s
    BY <2>1, <2>2 DEF Unheard
  <2>4. QED
    BY <2>1, <2>2, <2>3 DEF TimedInv
<1>2. ASSUME UNCHANGED <<handler, hold>> PROVE TimedInv'
  BY <1>2, <1>q
<1>3. ASSUME NEW s \in Sessions, Relay(s) \/ Reporter(s) PROVE TimedInv'
  BY <1>1, <1>2, <1>3 DEF Relay, Reporter, AskDaemon, GiveUp, Finish, RelayKilled, ServerResponds,
     ReporterSends, ReporterReadsFinal, ReporterReadsPending, ReporterOutOfStep, ReporterGivesUp,
     ReporterEnds
<1>4. ASSUME NEW c \in Call, Settle(c) PROVE TimedInv'
  <2>1. CASE TimerFires(c)
    <3>1. hold' = [hold EXCEPT ![c] = [hold[c] EXCEPT !.timer = "fired"]] /\ UNCHANGED handler
      BY <2>1 DEF TimerFires
    <3>2. QED
      BY <1>q, <1>t, <3>1 DEF HoldState
  <2>2. CASE TimeOut(c) /\ ~Unresolved(c)
    <3>1. hold' = [hold EXCEPT ![c] = [hold[c] EXCEPT !.timer = "off"]] /\ UNCHANGED handler /\ hold[c].stage # "held"
      BY <2>2 DEF TimeOut, Unresolved
    <3>2. QED
      BY <1>q, <1>t, <3>1 DEF HoldState
  <2>3. CASE TimeOut(c) /\ Unresolved(c)
    <3>1. PICK told : hold' = [hold EXCEPT ![c].stage = "won", ![c].by = "timer", ![c].decision = "rejected",
                                           ![c].told = told, ![c].timer = "off"]
      BY <2>3 DEF TimeOut
    <3>2. \A d \in Call : hold'[d].stage = "held" => hold'[d] = hold[d]
      BY <1>t, <3>1 DEF HoldState
    <3>3. QED
      BY <1>q, <2>3, <3>2 DEF TimeOut
  <2>4. CASE RecordSettled(c) \/ TellSettled(c)
    <3>1. \A d \in Call : hold'[d].stage = "held" => hold'[d] = hold[d]
      BY <1>t, <2>4 DEF RecordSettled, TellSettled, HoldState
    <3>2. QED
      BY <1>q, <2>4, <3>1 DEF RecordSettled, TellSettled
  <2>5. QED
    BY <1>4, <2>1, <2>2, <2>3, <2>4 DEF Settle
<1>5. ASSUME NEW h \in Humans, Human(h) PROVE TimedInv'
  <2>1. ASSUME NEW c, NEW d, Win(c, "human", d, d), UNCHANGED handler PROVE TimedInv'
    <3>1. \A e \in Call : hold'[e].stage = "held" => hold'[e] = hold[e]
      BY <1>t, <2>1 DEF Win, HoldState
    <3>2. QED
      BY <1>q, <2>1, <3>1
  <2>2. QED
    BY <1>2, <1>5, <2>1 DEF Human, HumanDecides, HumanLooksUp
<1>6. CASE DaemonExits
  <2>1. \A c \in Call : hold'[c].stage # "held"
    BY <1>6, <1>t DEF DaemonExits, HoldState
  <2>2. QED
    BY <1>k, <2>1 DEF TimedInv
<1>7. CASE DaemonSignalled \/ DaemonStarts \/ UNCHANGED vars
  BY <1>2, <1>7 DEF DaemonSignalled, DaemonStarts, vars
<1>8. QED
  BY <1>3, <1>4, <1>5, <1>6, <1>7, HandlerTimes DEF Next

\* A daemon that is down does nothing more: its goroutines and its registry
\* went with it.
LEMMA StepStaysDown ==
    ASSUME TypeOK, OnceInv, DownInv, [Next]_vars
    PROVE  DownInv'
<1> USE DEF journalVars, relayVars, daemonVars
<1>t. /\ hold \in [Call -> HoldState] /\ handler \in [Sessions -> HandlerState]
      /\ human \in [Humans -> HumanState]
  BY DEF TypeOK
<1>k. \A t \in Sessions, n \in Seqs : <<t, n>> \in Call
  BY DEF Call
<1>1. CASE DaemonExits
  <2>1. /\ \A s \in Sessions : handler'[s].pc \in {"none", "closed"}
        /\ \A c \in Call : hold'[c].stage \notin {"held", "won", "recorded"}
    BY <1>1, <1>t DEF DaemonExits, At, Busy, HoldState, Settling
  <2>2. QED
    BY <2>1 DEF DownInv, Unsettled, Settling
<1>2. CASE daemon' # "down"
  BY <1>2 DEF DownInv
<1>3. CASE daemon' = "down" /\ ~DaemonExits
  <2>1. daemon = "down"
    BY <1>3 DEF Next, Relay, Reporter, Handler, Settle, Human, Connect, AskDaemon, GiveUp, Finish,
       RelayKilled, ServerResponds, ReporterSends, ReporterReadsFinal, ReporterReadsPending,
       ReporterOutOfStep, ReporterGivesUp, ReporterEnds, Accept, HandleForeign, HandleStart,
       HandleOutcome, HandleArguments, HandleEnd, HandleRequest, CheckBudgets, RecordDecision,
       ArmTimer, Reply, HandlerEOF, Cleanup, RejectDone, RejectHeld, TimerFires, TimeOut,
       RecordSettled, TellSettled, HumanLooksUp, HumanDecides, DaemonSignalled, DaemonStarts, vars
  <2>2. /\ \A s \in Sessions : handler[s].pc \in {"none", "closed"}
        /\ \A c \in Call : hold[c].stage \notin {"held", "won", "recorded"}
    BY <2>1 DEF DownInv, Unsettled, Settling
  <2>3. ASSUME UNCHANGED handler, \A c \in Call : hold'[c].stage = hold[c].stage
        PROVE  DownInv'
    BY <2>2, <2>3 DEF DownInv, Unsettled, Settling
  <2>4. ASSUME NEW s \in Sessions, Handler(s) PROVE FALSE
    BY <2>1, <2>2, <2>4 DEF Handler, Accept, HandleForeign, HandleStart, HandleOutcome,
       HandleArguments, HandleEnd, HandleRequest, CheckBudgets, RecordDecision, ArmTimer, Reply,
       HandlerEOF, Cleanup, RejectDone, RejectHeld, Receives
  <2>5. ASSUME NEW s \in Sessions, Relay(s) \/ Reporter(s) PROVE DownInv'
    <3>1. UNCHANGED <<handler, hold>>
      BY <2>1, <2>5 DEF Relay, Reporter, Connect, AskDaemon, GiveUp, Finish,
         RelayKilled, ServerResponds, ReporterSends, ReporterReadsFinal, ReporterReadsPending,
         ReporterOutOfStep, ReporterGivesUp, ReporterEnds
    <3>2. QED
      BY <2>3, <3>1
  <2>6. ASSUME NEW c \in Call, Settle(c) PROVE DownInv'
    <3>1. PICK t : hold' = [hold EXCEPT ![c] = [hold[c] EXCEPT !.timer = t]] /\ UNCHANGED handler
      BY <2>2, <2>6 DEF Settle, TimerFires, TimeOut, RecordSettled, TellSettled, Unresolved
    <3>2. QED
      BY <1>t, <2>3, <3>1 DEF HoldState
  <2>7. ASSUME NEW h \in Humans, Human(h) PROVE DownInv'
    <3>1. human[h] # NoLookup => human[h].c \in Call
      BY <1>t DEF HumanState
    <3>2. UNCHANGED <<handler, hold>>
      BY <2>1, <2>2, <2>7, <3>1 DEF Human, HumanDecides, HumanLooksUp, Unresolved
    <3>3. QED
      BY <2>3, <3>2
  <2>8. CASE DaemonSignalled \/ DaemonStarts \/ UNCHANGED vars
    BY <1>3, <2>3, <2>8 DEF DaemonSignalled, DaemonStarts, vars
  <2>9. QED
    BY <1>3, <2>4, <2>5, <2>6, <2>7, <2>8 DEF Next
<1>4. QED
  BY <1>1, <1>2, <1>3

\* No call is held without a clock: while it waits for an operator, its timer
\* runs or its goroutine is about to start it, in a daemon that is alive
\* (approval.go, arm and timeOut).  What ends the wait at the latest is due.
THEOREM EveryHoldIsTimed == Spec => [](TimedInv /\ DownInv)
<1>1. Init => TimedInv /\ DownInv
  BY DEF Init, TimedInv, DownInv, NotHeld, Call
<1>2. TypeOK /\ OnceInv /\ TimedInv /\ DownInv /\ [Next]_vars => (TimedInv /\ DownInv)'
  BY StepStaysTimed, StepStaysDown
<1>3. QED
  BY <1>1, <1>2, TypeCorrect, OneQuestionAtATime, PTL DEF Spec
=============================================================================
