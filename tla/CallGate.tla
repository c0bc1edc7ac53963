------------------------------ MODULE CallGate ------------------------------
(***************************************************************************)
(* One tools/call from the relay that asks about it to the journal entry   *)
(* that records its decision: internal/shim (pumpRequests, decide, the     *)
(* reporter goroutine), the unix socket, internal/daemon (handle, answer,  *)
(* the approval registry and everything that can settle a held call).      *)
(*                                                                         *)
(* Every relay runs one session on one connection.  The steps of the       *)
(* goroutines interleave: the client pump, the reporter that owns the      *)
(* relay's end of the connection, the daemon goroutine that handles the    *)
(* connection, the approval timer of each held call, and the operators'    *)
(* own connections.  A mutex-protected section is one step.                *)
(*                                                                         *)
(* Abstractions.  What a rule says is a choice among RuleEffects each time *)
(* it is looked up (module Precedence models the lookup).  The journal is  *)
(* kept as what its entries say of each session and call; their chain      *)
(* order is module Journal's.  Clocks are not modelled: a deadline may     *)
(* pass at any time, which covers every speed of every party.              *)
(***************************************************************************)
EXTENDS Naturals, Sequences, FiniteSets, Functions

CONSTANTS
    Sessions,      \* the relays; each opens one session on one connection
    MaxSeq,        \* bound: how many calls a relay asks about
    Humans,        \* operators' connections deciding held calls
    RuleEffects,   \* what the rules may say: a subset of allow, deny, ask
    Cap,           \* the calls a matching budget allows each session
    QueueCap,      \* capacity of the reporter's queue
    LongArguments, \* TRUE: a call's arguments may exceed maxLineBytes
    JournalFails,  \* TRUE: reading or writing the journal may fail
    MaxExits       \* bound: how often the daemon goes away

ASSUME ConstantsAssumption ==
    /\ MaxSeq \in Nat /\ Cap \in Nat /\ QueueCap \in Nat /\ MaxExits \in Nat
    /\ RuleEffects \subseteq {"allow", "deny", "ask"}
    /\ LongArguments \in BOOLEAN /\ JournalFails \in BOOLEAN

VARIABLES
    request,   \* journal: decision of each call's call.request entry, or "none"
    outcome,   \* journal: the calls with a call.outcome entry
    started,   \* journal: the sessions with a session.start entry
    ended,     \* journal: the sessions with a session.end entry
    call,      \* relay: what the client was told of each call
    seq,       \* relay: the last sequence number spent
    returned,  \* relay: the forwarded calls the server has answered
    queue,     \* relay: the reporter's channel
    closed,    \* relay: reporter.closed
    rep,       \* relay: what the reporter goroutine is doing
    link,      \* relay: its end of the connection: none, up or down
    c2d,       \* the socket, relay to daemon
    d2c,       \* the socket, daemon to relay
    handler,   \* daemon: what the connection's goroutine is doing
    owned,     \* daemon: the sessions in their connection's open map
    hold,      \* daemon: the life of each held call
    human,     \* daemon: what each approval.decide handler has read
    daemon,    \* up, stopping (signalled) or down
    exits      \* how often the daemon went away

journalVars == <<request, outcome, started, ended>>
relayVars   == <<call, seq, returned, queue, closed, rep, link>>
daemonVars  == <<handler, owned, hold, human, daemon, exits>>
vars == <<journalVars, relayVars, c2d, d2c, daemonVars>>

Seqs == 1 .. MaxSeq
Call == Sessions \X Seqs

Grants     == {"allow", "approved"}
Recordable == Grants \cup {"deny", "rejected"}
\* The values a Decision message carries; the last three travel only.
Answers    == Recordable \cup {"undecided", "timed_out", "pending"}
\* What decide ends a call with.  "asked": the pump waits for the verdict;
\* "abandoned": the relay died first.
Refusals   == {"denied", "rejected", "timed_out", "no_decision"}
CallState  == {"none", "asked", "forwarded", "abandoned"} \cup Refusals

Item == [kind : {"start", "end"}, n : {0}]
        \cup [kind : {"request", "args", "longargs", "outcome"}, n : Seqs]
Event(k, n) == [kind |-> k, n |-> n]
Decision == [n : Seqs, decision : Answers]

\* A held call.  "held": in the registry, undecided.  "won": one settler has
\* set resolved and taken it off the registry.  "recorded": its entry was
\* attempted, the relay not told yet.  "lost": the daemon went away.
Timer == {"off", "armed", "fired"}
HoldState ==
    [stage : {"none", "held", "lost"}, by : {"none"}, decision : {"none"},
     told : {"none"}, known : BOOLEAN, timer : Timer]
    \cup
    [stage : {"won", "recorded", "done", "lost"}, by : {"human", "timer", "session"},
     decision : {"approved", "rejected"},
     told : {"approved", "rejected", "timed_out", "undecided"},
     known : BOOLEAN, timer : Timer]
NotHeld == [stage |-> "none", by |-> "none", decision |-> "none",
            told |-> "none", known |-> FALSE, timer |-> "off"]
Settling == {"won", "recorded"}

Busy(pc, n, d) == [pc |-> pc, n |-> n, decision |-> d]
At(pc) == Busy(pc, 0, "none")
HandlerState ==
    [pc : {"none", "accepted", "read", "reject", "cleanup", "final", "closed"},
     n : {0}, decision : {"none"}]
    \cup [pc : {"budget"}, n : Seqs, decision : {"allow"}]
    \cup [pc : {"append"}, n : Seqs, decision : {"allow", "deny"}]
    \cup [pc : {"arm", "pending"}, n : Seqs, decision : {"pending"}]
    \cup [pc : {"reply"}, n : Seqs, decision : {"allow", "deny", "undecided"}]
RepState == [pc : {"idle", "done", "dead"}, n : {0}]
            \cup [pc : {"first", "held"}, n : Seqs]
Idle == [pc |-> "idle", n |-> 0]
NoLookup == [c |-> <<>>, decision |-> "none"]
HumanState == [c : Call, decision : {"approved", "rejected"}] \cup {NoLookup}

TypeOK ==
    /\ request \in [Call -> Recordable \cup {"none"}]
    /\ outcome \subseteq Call
    /\ started \subseteq Sessions /\ ended \subseteq Sessions
    /\ call \in [Call -> CallState]
    /\ seq \in [Sessions -> 0 .. MaxSeq]
    /\ returned \subseteq Call
    /\ queue \in [Sessions -> Seq(Item)]
    /\ closed \in [Sessions -> BOOLEAN]
    /\ rep \in [Sessions -> RepState]
    /\ link \in [Sessions -> {"none", "up", "down"}]
    /\ c2d \in [Sessions -> Seq(Item)]
    /\ d2c \in [Sessions -> Seq(Decision)]
    /\ handler \in [Sessions -> HandlerState]
    /\ owned \subseteq Sessions
    /\ hold \in [Call -> HoldState]
    /\ human \in [Humans -> HumanState]
    /\ daemon \in {"up", "stopping", "down"}
    /\ exits \in 0 .. MaxExits

Init ==
    /\ request = [c \in Call |-> "none"]
    /\ outcome = {} /\ started = {} /\ ended = {}
    /\ call = [c \in Call |-> "none"]
    /\ seq = [s \in Sessions |-> 0]
    /\ returned = {}
    /\ queue = [s \in Sessions |-> <<>>]
    /\ closed = [s \in Sessions |-> FALSE]
    /\ rep = [s \in Sessions |-> Idle]
    /\ link = [s \in Sessions |-> "none"]
    /\ c2d = [s \in Sessions |-> <<>>]
    /\ d2c = [s \in Sessions |-> <<>>]
    /\ handler = [s \in Sessions |-> At("none")]
    /\ owned = {}
    /\ hold = [c \in Call |-> NotHeld]
    /\ human = [h \in Humans |-> NoLookup]
    /\ daemon = "up"
    /\ exits = 0

-----------------------------------------------------------------------------
(***************************************************************************)
(* The relay: client pump and reporter.                                    *)
(***************************************************************************)

\* Run: dial the daemon, verify it, and queue the session.start report.  No
\* daemon, or one that is not this binary, leaves the reporter without a
\* connection for the whole session.
Connect(s) ==
    /\ link[s] = "none"
    /\ rep[s].pc = "idle"
    /\ queue' = [queue EXCEPT ![s] = <<Event("start", 0)>>]
    /\ \/ /\ daemon = "up"
          /\ link' = [link EXCEPT ![s] = "up"]
          /\ handler' = [handler EXCEPT ![s] = At("accepted")]
       \/ /\ link' = [link EXCEPT ![s] = "down"]
          /\ UNCHANGED handler
    /\ UNCHANGED <<journalVars, call, seq, returned, closed, rep, c2d, d2c,
                   owned, hold, human, daemon, exits>>

\* offer: never blocks, refuses when the queue is full or closed.
HasRoom(s) == ~closed[s] /\ Len(queue[s]) < QueueCap
Offer(s, item) ==
    queue' = [queue EXCEPT ![s] = IF HasRoom(s) THEN Append(@, item) ELSE @]

\* The pump waits for the verdict of the call it asked about.
PumpWaits(s) == seq[s] > 0 /\ call[<<s, seq[s]>>] = "asked"

\* decide and ask: spend a number, put the question on the queue.
AskDaemon(s) ==
    LET n == seq[s] + 1 IN
    /\ link[s] # "none" /\ rep[s].pc # "dead"
    /\ ~PumpWaits(s)
    /\ n <= MaxSeq
    /\ seq' = [seq EXCEPT ![s] = n]
    /\ Offer(s, Event("request", n))
    /\ call' = [call EXCEPT ![<<s, n>>] =
                    IF HasRoom(s) THEN "asked" ELSE "no_decision"]
    /\ UNCHANGED <<journalVars, returned, closed, rep, link, c2d, d2c, daemonVars>>

\* ask's outer bound passes first; a verdict that arrives later is not read.
GiveUp(s) ==
    /\ PumpWaits(s)
    /\ call' = [call EXCEPT ![<<s, seq[s]>>] = "no_decision"]
    /\ UNCHANGED <<journalVars, seq, returned, queue, closed, rep, link,
                   c2d, d2c, daemonVars>>

\* noteResponse: the server answered a forwarded call; report the outcome.
ServerResponds(s, n) ==
    /\ rep[s].pc # "dead"
    /\ call[<<s, n>>] = "forwarded"
    /\ <<s, n>> \notin returned
    /\ returned' = returned \cup {<<s, n>>}
    /\ Offer(s, Event("outcome", n))
    /\ UNCHANGED <<journalVars, call, seq, closed, rep, link, c2d, d2c, daemonVars>>

\* finish: report session.end and close the queue.
Finish(s) ==
    /\ link[s] # "none" /\ rep[s].pc # "dead" /\ ~closed[s]
    /\ Offer(s, Event("end", 0))
    /\ closed' = [closed EXCEPT ![s] = TRUE]
    /\ UNCHANGED <<journalVars, call, seq, returned, rep, link, c2d, d2c, daemonVars>>

\* The relay is killed outright: the kernel closes its end.
RelayKilled(s) ==
    /\ link[s] # "none" /\ rep[s].pc # "dead"
    /\ rep' = [rep EXCEPT ![s] = [pc |-> "dead", n |-> 0]]
    /\ link' = [link EXCEPT ![s] = "down"]
    /\ queue' = [queue EXCEPT ![s] = <<>>]
    /\ closed' = [closed EXCEPT ![s] = TRUE]
    /\ d2c' = [d2c EXCEPT ![s] = <<>>]
    /\ call' = [c \in Call |->
                  IF c[1] = s /\ call[c] = "asked" THEN "abandoned" ELSE call[c]]
    /\ UNCHANGED <<journalVars, seq, returned, c2d, daemonVars>>

\* The reporter answers the pump with verdict v, unless it stopped waiting.
Verdict(s, n, v) ==
    call' = [call EXCEPT ![<<s, n>>] = IF @ = "asked" THEN v ELSE @]

\* drop: terminal, the reporter never dials again.
Drop(s) ==
    /\ link' = [link EXCEPT ![s] = "down"]
    /\ d2c' = [d2c EXCEPT ![s] = <<>>]

\* The reporter takes the next item off its queue.
ReporterSends(s) ==
    LET item == Head(queue[s]) IN
    /\ rep[s].pc = "idle"
    /\ queue[s] # <<>>
    /\ queue' = [queue EXCEPT ![s] = Tail(@)]
    /\ \/ \* post, or the first half of exchange: the bytes are written
          /\ link[s] = "up"
          /\ c2d' = [c2d EXCEPT ![s] = Append(@, item)]
          /\ rep' = IF item.kind = "request"
                    THEN [rep EXCEPT ![s] = [pc |-> "first", n |-> item.n]]
                    ELSE rep
          /\ UNCHANGED <<call, link, d2c>>
       \/ \* no connection, or the write failed
          /\ Drop(s)
          /\ IF item.kind = "request"
             THEN Verdict(s, item.n, "no_decision") ELSE UNCHANGED call
          /\ UNCHANGED <<c2d, rep>>
    /\ UNCHANGED <<journalVars, seq, returned, closed, daemonVars>>

Waiting(s) == rep[s].pc \in {"first", "held"}

\* verdictFor: what the relay makes of an answer.
VerdictFor(d) ==
    CASE d \in Grants     -> "forwarded"
      [] d = "deny"       -> "denied"
      [] d = "rejected"   -> "rejected"
      [] d = "timed_out"  -> "timed_out"
      [] OTHER            -> "no_decision"

\* readDecision: an answer to another call means the two are out of step; an
\* answer verdictFor does not know -- pending, once held -- is no better.
InStep(s, m) == m.n = rep[s].n /\ ~(rep[s].pc = "held" /\ m.decision = "pending")

\* exchange and awaitApproval: a final answer to the question asked.
ReporterReadsFinal(s) ==
    LET m == Head(d2c[s]) IN
    /\ Waiting(s)
    /\ d2c[s] # <<>>
    /\ m.decision # "pending"
    /\ InStep(s, m)
    /\ d2c' = [d2c EXCEPT ![s] = Tail(@)]
    /\ Verdict(s, m.n, VerdictFor(m.decision))
    /\ rep' = [rep EXCEPT ![s] = Idle]
    /\ UNCHANGED <<journalVars, seq, returned, queue, closed, link, c2d, daemonVars>>

\* awaitApproval: the call is held; send its real arguments and wait again.
ReporterReadsPending(s) ==
    LET m == Head(d2c[s]) IN
    /\ rep[s].pc = "first"
    /\ d2c[s] # <<>>
    /\ m.decision = "pending"
    /\ InStep(s, m)
    /\ \E kind \in {"args"} \cup (IF LongArguments THEN {"longargs"} ELSE {}) :
          c2d' = [c2d EXCEPT ![s] = Append(@, Event(kind, m.n))]
    /\ d2c' = [d2c EXCEPT ![s] = Tail(@)]
    /\ rep' = [rep EXCEPT ![s].pc = "held"]
    /\ UNCHANGED <<journalVars, call, seq, returned, queue, closed, link, daemonVars>>

\* A reply to another call, or one that makes no sense here.
ReporterOutOfStep(s) ==
    /\ Waiting(s)
    /\ d2c[s] # <<>>
    /\ ~InStep(s, Head(d2c[s]))
    /\ Drop(s)
    /\ Verdict(s, rep[s].n, "no_decision")
    /\ rep' = [rep EXCEPT ![s] = Idle]
    /\ UNCHANGED <<journalVars, seq, returned, queue, closed, c2d, daemonVars>>

\* Both waits have a read deadline.
\* Mutant _FirstOnly: the wait for a human has none.
HasDeadline_FirstOnly(s) == rep[s].pc = "first"
HasDeadline(s) == Waiting(s)

\* The deadline passes, or the connection ends first.  Only a held call whose
\* wait ran out is reported as timed out.
ReporterGivesUp(s) ==
    /\ HasDeadline(s)
    /\ Drop(s)
    /\ \/ Verdict(s, rep[s].n, IF rep[s].pc = "held" THEN "timed_out" ELSE "no_decision")
       \/ /\ handler[s].pc = "closed" /\ d2c[s] = <<>>
          /\ Verdict(s, rep[s].n, "no_decision")
    /\ rep' = [rep EXCEPT ![s] = Idle]
    /\ UNCHANGED <<journalVars, seq, returned, queue, closed, c2d, daemonVars>>

\* loop: the queue is closed and drained; the connection is closed.
ReporterEnds(s) ==
    /\ rep[s].pc = "idle" /\ closed[s] /\ queue[s] = <<>>
    /\ Drop(s)
    /\ rep' = [rep EXCEPT ![s].pc = "done"]
    /\ UNCHANGED <<journalVars, call, seq, returned, queue, closed, c2d, daemonVars>>

-----------------------------------------------------------------------------
(***************************************************************************)
(* The daemon: the goroutine that handles one connection.                  *)
(***************************************************************************)

Goto(s, state) == handler' = [handler EXCEPT ![s] = state]

\* Accept, and peer.Check: a process that is not this binary is hung up on.
Accept(s) ==
    /\ daemon = "up"
    /\ handler[s].pc = "accepted"
    /\ Goto(s, At("read")) \/ Goto(s, At("closed"))
    /\ UNCHANGED <<journalVars, relayVars, c2d, d2c, owned, hold, human, daemon, exits>>

Receives(s, kind) ==
    /\ handler[s].pc = "read"
    /\ c2d[s] # <<>>
    /\ Head(c2d[s]).kind = kind
    /\ c2d' = [c2d EXCEPT ![s] = Tail(@)]

\* A message about a session this connection did not open ends the
\* connection, and so does one longer than the reader's bound.
HandleForeign(s) ==
    /\ \/ Receives(s, "longargs")
       \/ s \notin owned /\ \E k \in {"request", "args", "outcome", "end"} : Receives(s, k)
    /\ Goto(s, At("cleanup"))
    /\ UNCHANGED <<journalVars, relayVars, d2c, owned, hold, human, daemon, exits>>

\* session.start: claim the id and record it.  A claim that cannot be looked
\* up ends the connection; a start that cannot be recorded is logged, and the
\* connection does not own the session.
HandleStart(s) ==
    /\ Receives(s, "start")
    /\ \/ /\ started' = started \cup {s}
          /\ owned' = owned \cup {s}
          /\ UNCHANGED handler
       \/ /\ JournalFails
          /\ UNCHANGED handler \/ Goto(s, At("cleanup"))
          /\ UNCHANGED <<started, owned>>
    /\ UNCHANGED <<request, outcome, ended, relayVars, d2c, hold, human, daemon, exits>>

HandleOutcome(s) ==
    /\ s \in owned
    /\ Receives(s, "outcome")
    /\ \/ outcome' = outcome \cup {<<s, Head(c2d[s]).n>>}
       \/ JournalFails /\ UNCHANGED outcome
    /\ UNCHANGED <<request, started, ended, relayVars, d2c, daemonVars>>

\* call.arguments: the first report for a call still in the registry counts.
HandleArguments(s) ==
    LET c == <<s, Head(c2d[s]).n>> IN
    /\ s \in owned
    /\ Receives(s, "args")
    /\ hold' = [hold EXCEPT ![c].known = @ \/ hold[c].stage = "held"]
    /\ UNCHANGED <<journalVars, relayVars, d2c, handler, owned, human, daemon, exits>>

\* session.end, recorded; what the session left pending is rejected next.
HandleEnd(s) ==
    /\ s \in owned
    /\ Receives(s, "end")
    /\ \/ /\ ended' = ended \cup {s}
          /\ owned' = owned \ {s}
          /\ Goto(s, At("reject"))
       \/ JournalFails /\ UNCHANGED <<ended, owned, handler>>
    /\ UNCHANGED <<request, outcome, started, relayVars, d2c, hold, human, daemon, exits>>

\* call.request, as far as the rules: ask holds the call in the registry.
HandleRequest(s) ==
    LET n == Head(c2d[s]).n  c == <<s, n>> IN
    /\ s \in owned
    /\ Receives(s, "request")
    /\ \/ "allow" \in RuleEffects /\ Goto(s, Busy("budget", n, "allow")) /\ UNCHANGED hold
       \/ "deny" \in RuleEffects /\ Goto(s, Busy("append", n, "deny")) /\ UNCHANGED hold
       \/ /\ "ask" \in RuleEffects
          /\ hold' = [hold EXCEPT ![c] = [NotHeld EXCEPT !.stage = "held"]]
          /\ Goto(s, Busy("arm", n, "pending"))
       \/ JournalFails /\ Goto(s, Busy("reply", n, "undecided")) /\ UNCHANGED hold
    /\ UNCHANGED <<journalVars, relayVars, d2c, owned, human, daemon, exits>>

\* CountAllowedCalls: the session's calls recorded as let through.
Used(s) == Cardinality({n \in Seqs : request[<<s, n>>] \in Grants})

\* Mutant _OffByOne: the last allowed call is one too many.
Exhausted_OffByOne(s) == Used(s) > Cap
Exhausted(s) == Used(s) >= Cap

\* checkBudgets: a budget only lowers an allow to a deny.
CheckBudgets(s) ==
    LET n == handler[s].n IN
    /\ handler[s].pc = "budget"
    /\ \/ Goto(s, Busy("append", n, IF Exhausted(s) THEN "deny" ELSE "allow"))
       \/ JournalFails /\ Goto(s, Busy("reply", n, "undecided"))
    /\ UNCHANGED <<journalVars, relayVars, c2d, d2c, owned, hold, human, daemon, exits>>

\* apply: one call.request entry per call, or the append fails.
RecordOK(c, d) ==
    /\ request[c] = "none"
    /\ request' = [request EXCEPT ![c] = d]
RecordFails(c) == (JournalFails \/ request[c] # "none") /\ UNCHANGED request

\* What is told of a decision d that could not be recorded: that there is none.
\* Mutant _Decision: it is told as if it had been recorded.
ToldUnrecorded_Decision(d) == d
ToldUnrecorded(d) == "undecided"

\* answer: the decision is recorded before anyone is told.
RecordDecision(s) ==
    LET n == handler[s].n  c == <<s, n>>  d == handler[s].decision IN
    /\ handler[s].pc = "append"
    /\ \/ RecordOK(c, d) /\ Goto(s, Busy("reply", n, d))
       \/ RecordFails(c) /\ Goto(s, Busy("reply", n, ToldUnrecorded(d)))
    /\ UNCHANGED <<outcome, started, ended, relayVars, c2d, d2c, owned, hold, human,
                   daemon, exits>>

\* arm: the approval timer starts, even if the call was decided meanwhile.
\* Mutant _Never: the timer is forgotten.
Arm_Never(c) == UNCHANGED hold
Arm(c) == hold' = [hold EXCEPT ![c].timer = "armed"]
ArmTimer(s) ==
    LET n == handler[s].n IN
    /\ handler[s].pc = "arm"
    /\ Arm(<<s, n>>)
    /\ Goto(s, Busy("pending", n, "pending"))
    /\ UNCHANGED <<journalVars, relayVars, c2d, d2c, owned, human, daemon, exits>>

\* The connection still carries what the daemon writes.
Writable(s) == link[s] = "up" /\ handler[s].pc # "closed"
Tell(s, n, d) == d2c' = [d2c EXCEPT ![s] = Append(@, [n |-> n, decision |-> d])]

\* answer's reply: the final answer, or pending for a held call.  A reply that
\* cannot be written ends the connection.
Reply(s) ==
    LET n == handler[s].n  d == handler[s].decision IN
    /\ handler[s].pc \in {"reply", "pending"}
    /\ IF Writable(s)
       THEN Tell(s, n, d) /\ Goto(s, At("read"))
       ELSE UNCHANGED d2c /\ Goto(s, At("cleanup"))
    /\ UNCHANGED <<journalVars, relayVars, c2d, owned, hold, human, daemon, exits>>

\* The relay's end is closed and everything it wrote was read.
HandlerEOF(s) ==
    /\ handler[s].pc = "read"
    /\ c2d[s] = <<>>
    /\ link[s] = "down"
    /\ Goto(s, At("cleanup"))
    /\ UNCHANGED <<journalVars, relayVars, c2d, d2c, owned, hold, human, daemon, exits>>

\* The deferred cleanup closes a session its relay did not.
Cleanup(s) ==
    /\ handler[s].pc = "cleanup"
    /\ IF s \in owned
       THEN /\ ended' = ended \cup {s} \/ (JournalFails /\ UNCHANGED ended)
            /\ Goto(s, At("final"))
       ELSE UNCHANGED ended /\ Goto(s, At("closed"))
    /\ owned' = owned \ {s}
    /\ UNCHANGED <<request, outcome, started, relayVars, c2d, d2c, hold, human,
                   daemon, exits>>

-----------------------------------------------------------------------------
(***************************************************************************)
(* settle: the one path that ends a held call.  Whoever sets resolved      *)
(* first takes the call off the registry, records it, then tells the relay.*)
(***************************************************************************)

\* settle's guard, under the call's mutex: resolved is not set yet.
\* Mutant _Unguarded: whoever looked the call up may settle it.
Unresolved_Unguarded(c) == hold[c].stage # "none"
Unresolved(c) == hold[c].stage = "held"

Win(c, by, decision, told) ==
    hold' = [hold EXCEPT ![c].stage = "won", ![c].by = by,
                         ![c].decision = decision, ![c].told = told,
                         ![c].timer = IF @ = "armed" THEN "off" ELSE @]

\* handleApprovalDecide refuses to approve what it lacks the arguments of.
\* Mutant _Blind: a tool name is enough.
MayDecide_Blind(c, d) == hold[c].stage = "held"
MayDecide(c, d) == hold[c].stage = "held" /\ (d = "approved" => hold[c].known)

\* handleApprovalDecide looks the call up.
HumanLooksUp(h, c, d) ==
    /\ daemon # "down"
    /\ human[h] = NoLookup
    /\ MayDecide(c, d)
    /\ human' = [human EXCEPT ![h] = [c |-> c, decision |-> d]]
    /\ UNCHANGED <<journalVars, relayVars, c2d, d2c, handler, owned, hold, daemon, exits>>

HumanDecides(h) ==
    LET c == human[h].c  d == human[h].decision IN
    /\ human[h] # NoLookup
    /\ IF Unresolved(c) THEN Win(c, "human", d, d) ELSE UNCHANGED hold
    /\ human' = [human EXCEPT ![h] = NoLookup]
    /\ UNCHANGED <<journalVars, relayVars, c2d, d2c, handler, owned, daemon, exits>>

\* The timer's goroutine starts; from here Stop no longer reaches it.
TimerFires(c) ==
    /\ hold[c].timer = "armed"
    /\ hold' = [hold EXCEPT ![c].timer = "fired"]
    /\ UNCHANGED <<journalVars, relayVars, c2d, d2c, handler, owned, human, daemon, exits>>

\* timeOut: recorded as rejected, told as timed_out.
\* Mutant _Rejected: told as what is recorded, like every other settlement.
TimedOutTold_Rejected == "rejected"
TimedOutTold == "timed_out"
TimeOut(c) ==
    /\ hold[c].timer = "fired"
    /\ IF Unresolved(c)
       THEN hold' = [hold EXCEPT ![c].stage = "won", ![c].by = "timer",
                                 ![c].decision = "rejected", ![c].told = TimedOutTold,
                                 ![c].timer = "off"]
       ELSE hold' = [hold EXCEPT ![c].timer = "off"]
    /\ UNCHANGED <<journalVars, relayVars, c2d, d2c, handler, owned, human, daemon, exits>>

\* rejectSession: the session is over, its held calls are rejected.
RejectHeld(s, n) ==
    /\ handler[s].pc \in {"reject", "final"}
    /\ Unresolved(<<s, n>>)
    /\ Win(<<s, n>>, "session", "rejected", "rejected")
    /\ UNCHANGED <<journalVars, relayVars, c2d, d2c, handler, owned, human, daemon, exits>>

\* rejectSession's loop is over: each of the session's calls is settled.
\* Mutant _Skipped: the loop is not run.
NoneLeft_Skipped(s) == TRUE
NoneLeft(s) ==
    \A n \in Seqs : LET p == hold[<<s, n>>] IN
        p.stage # "held" /\ ~(p.by = "session" /\ p.stage \in Settling)

RejectDone(s) ==
    /\ handler[s].pc \in {"reject", "final"}
    /\ NoneLeft(s)
    /\ Goto(s, At(IF handler[s].pc = "final" THEN "closed" ELSE "read"))
    /\ UNCHANGED <<journalVars, relayVars, c2d, d2c, owned, hold, human, daemon, exits>>

\* The winner records the decision; one it cannot record is no decision.
RecordSettled(c) ==
    /\ hold[c].stage = "won"
    /\ \/ /\ RecordOK(c, hold[c].decision)
          /\ hold' = [hold EXCEPT ![c].stage = "recorded"]
       \/ /\ RecordFails(c)
          /\ hold' = [hold EXCEPT ![c].stage = "recorded",
                                 ![c].told = ToldUnrecorded(@)]
    /\ UNCHANGED <<outcome, started, ended, relayVars, c2d, d2c, handler, owned, human,
                   daemon, exits>>

\* Only then is the relay told, if it is still there.
TellSettled(c) ==
    /\ hold[c].stage = "recorded"
    /\ hold' = [hold EXCEPT ![c].stage = "done"]
    /\ IF Writable(c[1]) THEN Tell(c[1], c[2], hold[c].told) ELSE UNCHANGED d2c
    /\ UNCHANGED <<journalVars, relayVars, c2d, handler, owned, human, daemon, exits>>

-----------------------------------------------------------------------------
(***************************************************************************)
(* The daemon process.                                                     *)
(***************************************************************************)

\* SIGTERM: the listener is closed, the accept loop ends.
DaemonSignalled ==
    /\ daemon = "up" /\ exits < MaxExits
    /\ daemon' = "stopping"
    /\ UNCHANGED <<journalVars, relayVars, c2d, d2c, handler, owned, hold, human, exits>>

\* The process ends, killed or returning from RunWithStop.  What it kept in
\* memory is gone; the kernel closes its connections.
DaemonExits ==
    /\ daemon \in {"up", "stopping"} /\ exits < MaxExits
    /\ daemon' = "down"
    /\ exits' = exits + 1
    /\ handler' = [s \in Sessions |->
                     IF handler[s].pc = "none" THEN handler[s] ELSE At("closed")]
    /\ hold' = [c \in Call |->
                  [hold[c] EXCEPT !.stage = IF @ \in {"held"} \cup Settling
                                            THEN "lost" ELSE @,
                                  !.timer = "off"]]
    /\ owned' = {}
    /\ human' = [h \in Humans |-> NoLookup]
    /\ c2d' = [s \in Sessions |-> <<>>]
    /\ UNCHANGED <<journalVars, relayVars, d2c>>

DaemonStarts ==
    /\ daemon = "down"
    /\ daemon' = "up"
    /\ UNCHANGED <<journalVars, relayVars, c2d, d2c, handler, owned, hold, human, exits>>

-----------------------------------------------------------------------------
Relay(s) ==
    \/ Connect(s) \/ AskDaemon(s) \/ GiveUp(s) \/ Finish(s) \/ RelayKilled(s)
    \/ \E n \in Seqs : ServerResponds(s, n)

Reporter(s) ==
    \/ ReporterSends(s) \/ ReporterReadsFinal(s) \/ ReporterReadsPending(s)
    \/ ReporterOutOfStep(s) \/ ReporterGivesUp(s) \/ ReporterEnds(s)

Handler(s) ==
    \/ Accept(s) \/ HandleForeign(s) \/ HandleStart(s) \/ HandleOutcome(s)
    \/ HandleArguments(s) \/ HandleEnd(s) \/ HandleRequest(s) \/ CheckBudgets(s)
    \/ RecordDecision(s) \/ ArmTimer(s) \/ Reply(s) \/ HandlerEOF(s) \/ Cleanup(s)
    \/ RejectDone(s) \/ \E n \in Seqs : RejectHeld(s, n)

Settle(c) == TimerFires(c) \/ TimeOut(c) \/ RecordSettled(c) \/ TellSettled(c)

Human(h) ==
    \/ HumanDecides(h)
    \/ \E c \in Call, d \in {"approved", "rejected"} : HumanLooksUp(h, c, d)

Next ==
    \/ \E s \in Sessions : Relay(s) \/ Reporter(s) \/ Handler(s)
    \/ \E c \in Call : Settle(c)
    \/ \E h \in Humans : Human(h)
    \/ DaemonSignalled \/ DaemonExits \/ DaemonStarts

Spec == Init /\ [][Next]_vars

\* The daemon's goroutines are scheduled and its timers fire; relays, servers,
\* operators and crashes are under no obligation.
DaemonFairness ==
    /\ \A s \in Sessions : WF_vars(Handler(s))
    /\ \A c \in Call : WF_vars(TimerFires(c)) /\ WF_vars(TimeOut(c))
                       /\ WF_vars(RecordSettled(c)) /\ WF_vars(TellSettled(c))
FairDaemonSpec == Spec /\ DaemonFairness

\* The relay's reporter is scheduled and its deadlines pass; nobody else owes
\* anything, the daemon least of all.
RelayFairness == \A s \in Sessions : WF_vars(Reporter(s))
FairRelaySpec == Spec /\ RelayFairness

-----------------------------------------------------------------------------
(***************************************************************************)
(* What must hold.                                                         *)
(***************************************************************************)

\* A call reached the server only if its decision is on record and lets it
\* through: answer and settle write the entry before they answer, and the
\* relay forwards only on the answer to that very call.
ForwardedIsRecorded ==
    \A c \in Call : call[c] = "forwarded" => request[c] \in Grants

\* A refusal the client is told a reason for is the one on record: denied by
\* a rule or budget, or rejected.
RefusalMatchesRecord ==
    \A c \in Call : /\ call[c] = "denied" => request[c] = "deny"
                    /\ call[c] = "rejected" => request[c] = "rejected"

\* The client is told that a human rejected a call only when a human did;
\* the timer's rejection and the session's are told apart (mcp/deny.go).
HumanRejectionIsHuman ==
    \A c \in Call : call[c] = "rejected" => hold[c].by = "human"

\* A recorded approval is one human's decision on arguments the daemon held.
ApprovedWasShown ==
    \A c \in Call : request[c] = "approved" => hold[c].by = "human" /\ hold[c].known

\* A refused call has no outcome: an outcome entry follows an entry of the
\* same call that let it through.
OutcomeFollowsGrant == \A c \in outcome : request[c] \in Grants

\* The relay is told one final answer per call, and only while it waits for
\* that call: no final answer is ever left over to be read as another's.
FinalAnswersAreAwaited ==
    \A s \in Sessions : \A m \in Range(d2c[s]) :
        m.decision # "pending" => Waiting(s) /\ rep[s].n = m.n

\* Nobody is about to record a decision for a call that already has one: the
\* unique index on (session, seq, kind) is never what keeps decisions apart.
NoSecondDecision ==
    /\ \A c \in Call : hold[c].stage = "won" => request[c] = "none"
    /\ \A s \in Sessions : handler[s].pc \in {"budget", "append"}
                               => request[<<s, handler[s].n>>] = "none"

\* No call is still held once its connection's goroutine is finished: a held
\* call does not outlive its session.
NoOrphanHold ==
    \A c \in Call : hold[c].stage = "held" => handler[c[1]].pc # "closed"

\* An allow is recorded only below the cap, although the count is read in one
\* transaction and the entry written in another.
AllowStaysWithinBudget ==
    [][\A s \in Sessions, n \in Seqs :
          request[<<s, n>>] # request'[<<s, n>>] /\ request'[<<s, n>>] = "allow"
              => Used(s) < Cap]_request

\* A held call is settled, or lost with the daemon, whether or not a relay is
\* still there to hear the answer; it is never held for ever.
HeldIsSettled ==
    \A c \in Call : (hold[c].stage = "held") ~> (hold[c].stage \in {"done", "lost"})

\* The client is never left waiting for a verdict, whatever the daemon does.
AskedIsAnswered ==
    \A c \in Call : (call[c] = "asked") ~> (call[c] # "asked")

-----------------------------------------------------------------------------
(***************************************************************************)
(* Why it holds: the record leads and everything else follows it, from the *)
(* goroutine that made the entry, over the socket, to the pump.            *)
(***************************************************************************)

\* An answer a goroutine is about to give names the entry it made.
ReplyIsRecorded ==
    \A s \in Sessions :
        handler[s].pc = "reply" /\ handler[s].decision \in Recordable
            => request[<<s, handler[s].n>>] = handler[s].decision

\* So does what a settler is about to tell; the one who has only won the call
\* will tell what it records, or something that is no decision at all.
SettledIsRecorded ==
    \A c \in Call :
        hold[c].told \in Recordable =>
            /\ hold[c].stage = "won" => hold[c].told = hold[c].decision
            /\ hold[c].stage = "recorded" => hold[c].told = request[c]

\* And every answer on its way to the relay.
AnswersAreRecorded ==
    \A s \in Sessions : \A m \in Range(d2c[s]) :
        m.decision \in Recordable => request[<<s, m.n>>] = m.decision

\* An outcome is reported only of a call that was let through.
ReportedOutcomeIsGranted ==
    \A s \in Sessions : \A e \in Range(queue[s]) \cup Range(c2d[s]) :
        e.kind = "outcome" => request[<<s, e.n>>] \in Grants

\* A number the pump has not spent yet belongs to no call.
UnspentIsUnasked ==
    \A s \in Sessions, n \in Seqs : n > seq[s] => call[<<s, n>>] = "none"

\* The inductive invariant of the record.
RecordInv ==
    /\ TypeOK
    /\ ReplyIsRecorded /\ SettledIsRecorded /\ AnswersAreRecorded
    /\ ForwardedIsRecorded /\ RefusalMatchesRecord
    /\ ReportedOutcomeIsGranted /\ OutcomeFollowsGrant
    /\ UnspentIsUnasked

-----------------------------------------------------------------------------
\* What the gate promises, and the claim that this design keeps it.
FateOf(state) ==
    CASE state = "forwarded" -> "forwarded"
      [] state \in Refusals  -> "refused"
      [] OTHER               -> "open"

Gated == INSTANCE Gate WITH
    Call <- Call,
    record <- request,
    fate <- [c \in Call |-> FateOf(call[c])]

\* The relay, the socket and the daemon together implement the gate.
ImplementsGate == Gated!GateSpec
=============================================================================
