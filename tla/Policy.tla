-------------------------------- MODULE Policy --------------------------------
(***************************************************************************)
(* The tables a decision reads and the journal that records how they       *)
(* changed: internal/journal (rules.go, budgets.go, the agents of          *)
(* journal.go) and the daemon's policy, budget, agent and session          *)
(* handlers.                                                               *)
(*                                                                         *)
(* db is what SQLite has committed.  A goroutine that writes holds the     *)
(* write lock from begin to commit and works on a view of its own (tx).    *)
(* Requests and journal entries have one shape, the fields a kind does not *)
(* use being None.  How entries are chained is Journal's subject.          *)
(***************************************************************************)
EXTENDS Evidence

CONSTANTS
    Conns,          \* connections; each is accepted once
    Sessions,       \* session ids
    Agents, Images, \* names that may be enrolled, executables
    Requests,       \* what an operator may ask
    Calls,          \* the tools a relay may call
    Connectors,     \* what sessions are started for
    MaxEntries      \* bound on the journal

Effects == {"deny", "ask", "allow"}
Entries == [kind : {"rule.add", "rule.remove", "budget.add", "budget.remove", "agent.add",
                    "agent.remove", "session.start", "session.end", "call.request"},
            sid : Sessions \cup {None}, agent : Agents \cup {None},
            connector : Connectors \cup {None}, tool : Calls \cup {RuleToolDefault, None},
            effect : Effects \cup {None}, calls : Nat \cup {None}, image : Images \cup {None}]

\* The rows of nim_rules.
RuleRows == [id : Nat, agent : Agents \cup {None}, connector : Connectors \cup {None},
             tool : Calls \cup {RuleToolDefault}, effect : Effects]

MaxBudgetCalls == 1000000

\* What ruleScope, ruleTool, budgetScope, budgetTool, validateBudgetCalls,
\* validateAgentName and validateAgentPath let through.
Valid(q) ==
    /\ q \in Entries
    /\ q.kind \in {"rule.add", "rule.remove", "budget.add", "budget.remove"} => q.tool # None
    /\ q.kind = "rule.add" => q.effect # None
    /\ q.kind = "budget.add" => q.calls \in 1 .. MaxBudgetCalls
    /\ q.kind \in {"agent.add", "agent.remove"} => q.agent # None
    /\ q.kind = "agent.add" => q.image # None

ASSUME PolicyAssumption ==
    /\ MaxEntries \in Nat
    /\ None \notin Conns \cup Sessions \cup Agents \cup Images \cup Connectors \cup Calls \cup Effects
    /\ None # RuleToolDefault /\ None \notin Nat \cup Entries \cup RuleRows
    /\ \A q \in Requests :
          /\ Valid(q) /\ q.sid = None
          /\ q.kind \notin {"session.start", "session.end", "call.request"}

VARIABLES
    db,     \* rules, budgets, agents (name -> image), nextId, log
    tx,     \* who holds the write lock, and its view
    conn,   \* the goroutine serving each connection
    live    \* sessionRegistry.live

vars == <<db, tx, conn, live>>

Free == [by |-> None]
Fresh == [pc |-> "new", agent |-> None, purpose |-> None, sid |-> None, connector |-> None,
          q |-> None, since |-> 0]

PolicyInit ==
    /\ db = [rules |-> {}, budgets |-> {}, agents |-> [a \in Agents |-> None], nextId |-> 1,
             log |-> <<>>]
    /\ tx = Free
    /\ conn = [c \in Conns |-> Fresh]
    /\ live = {}

Blank == [kind |-> None, sid |-> None, agent |-> None, connector |-> None, tool |-> None,
          effect |-> None, calls |-> None, image |-> None]

At(c, pc) == conn[c].pc = pc
Goes(c, pc) == conn' = [conn EXCEPT ![c].pc = pc]

-----------------------------------------------------------------------------
(***************************************************************************)
(* What each request changes.                                              *)
(***************************************************************************)

\* AddRule and AddBudget refuse a scope that is taken, and so do the unique
\* indexes of their tables; RemoveRule and RemoveBudget one that is not.
Taken(table, q) == \E r \in table : SameScope(r, q)

\* AddAgent: one executable is one agent; re-enrolling a name is allowed.
ImageFree(view, q) == \A a \in Agents \ {q.agent} : view.agents[a] # q.image

Permitted(view, q) ==
    CASE q.kind = "rule.add"      -> ~Taken(view.rules, q)
      [] q.kind = "rule.remove"   -> Taken(view.rules, q)
      [] q.kind = "budget.add"    -> ~Taken(view.budgets, q)
      [] q.kind = "budget.remove" -> Taken(view.budgets, q)
      [] q.kind = "agent.add"     -> ImageFree(view, q)
      [] q.kind = "agent.remove"  -> view.agents[q.agent] # None
      [] OTHER -> TRUE

\* ruleEntry, budgetEntry, agentEntry: a removal records what was removed.
Recorded(view, q) ==
    CASE q.kind = "rule.remove" ->
           [q EXCEPT !.effect = (CHOOSE r \in view.rules : SameScope(r, q)).effect]
      [] q.kind = "budget.remove" ->
           [q EXCEPT !.calls = (CHOOSE b \in view.budgets : SameScope(b, q)).calls]
      [] q.kind = "agent.remove" -> [q EXCEPT !.image = view.agents[q.agent]]
      [] OTHER -> q

Rule(q, id) == [id |-> id, agent |-> q.agent, connector |-> q.connector, tool |-> q.tool,
                effect |-> q.effect]
Budget(q) == [agent |-> q.agent, connector |-> q.connector, tool |-> q.tool, calls |-> q.calls]

AddRule(view, q) ==
    [view EXCEPT !.rules = @ \cup {Rule(q, view.nextId)}, !.nextId = @ + 1]
RemoveRule(view, q) == [view EXCEPT !.rules = {r \in @ : ~SameScope(r, q)}]
AddBudget(view, q) == [view EXCEPT !.budgets = @ \cup {Budget(q)}]
RemoveBudget(view, q) == [view EXCEPT !.budgets = {b \in @ : ~SameScope(b, q)}]
AddAgent(view, q) == [view EXCEPT !.agents[q.agent] = q.image]
RemoveAgent(view, q) == [view EXCEPT !.agents[q.agent] = None]

Changed(view, q) ==
    CASE q.kind = "rule.add"      -> AddRule(view, q)
      [] q.kind = "rule.remove"   -> RemoveRule(view, q)
      [] q.kind = "budget.add"    -> AddBudget(view, q)
      [] q.kind = "budget.remove" -> RemoveBudget(view, q)
      [] q.kind = "agent.add"     -> AddAgent(view, q)
      [] q.kind = "agent.remove"  -> RemoveAgent(view, q)
      [] OTHER -> view

-----------------------------------------------------------------------------
(***************************************************************************)
(* One transaction: the change and its entry.                              *)
(***************************************************************************)

\* Mutant _AtOnce: the change is committed before its entry is written.
Pending_AtOnce(view) == db' = view
Pending(view) == UNCHANGED db

\* BEGIN IMMEDIATE takes the write lock.
Unlocked == tx = Free

\* Begin; the checks are made inside, and a refused change rolls back at once.
Begin(c) ==
    /\ At(c, "begin") /\ Unlocked
    /\ IF Permitted(db, conn[c].q)
       THEN LET view == Changed(db, conn[c].q) IN
            /\ tx' = [by |-> c, view |-> view]
            /\ conn' = [conn EXCEPT ![c].pc = "append", ![c].q = Recorded(db, conn[c].q)]
            /\ Pending(view)
       ELSE Goes(c, "idle") /\ UNCHANGED <<tx, db>>
    /\ UNCHANGED live

\* appendTx, Commit, and what the handler then notes: the session it opened
\* or ended.
Commit(c) ==
    /\ At(c, "append")
    /\ db' = [tx.view EXCEPT !.log = Append(@, conn[c].q)]
    /\ tx' = Free
    /\ LET q == conn[c].q IN
       CASE q.kind = "session.start" ->
              /\ conn' = [conn EXCEPT ![c].pc = "idle", ![c].sid = q.sid, ![c].connector = q.connector]
              /\ UNCHANGED live
         [] q.kind = "session.end" ->
              /\ conn' = [conn EXCEPT ![c].pc = "idle", ![c].sid = None, ![c].connector = None]
              /\ live' = live \ {q.sid}
         [] OTHER -> Goes(c, "idle") /\ UNCHANGED live

\* A statement fails: nothing is stored.  A session whose start could not be
\* recorded is released.
Fail(c) ==
    /\ At(c, "append")
    /\ tx' = Free
    /\ Goes(c, "idle")
    /\ live' = IF conn[c].q.kind = "session.start" THEN live \ {conn[c].q.sid} ELSE live
    /\ UNCHANGED db

-----------------------------------------------------------------------------
(***************************************************************************)
(* Connections and sessions.                                               *)
(***************************************************************************)

Enrolled(agents, image) == {a \in Agents : agents[a] = image}

\* handle: deriveAgent, once, at accept.  None: no such process, or no image
\* that was enrolled.
Accept(c) ==
    /\ At(c, "new")
    /\ \E image \in Images \cup {None} :
          LET names == IF image = None THEN {} ELSE Enrolled(db.agents, image) IN
          conn' = [conn EXCEPT ![c].pc = "idle",
                       ![c].agent = IF names = {} THEN None ELSE CHOOSE a \in names : TRUE]
    /\ UNCHANGED <<db, tx, live>>

\* sessionRegistry.claim.
\* Mutant _LiveOnly: the journal is not looked at.
Claimable_LiveOnly(s) == s \notin live
Claimable(s) ==
    /\ s \notin live
    /\ ~\E i \in DOMAIN db.log : db.log[i].kind = "session.start" /\ db.log[i].sid = s

\* session.start; a connection that is refused is closed.
StartSession(c) ==
    /\ At(c, "idle") /\ conn[c].sid = None
    /\ Len(db.log) < MaxEntries
    /\ \E s \in Sessions, k \in Connectors :
          /\ Claimable(s)
          /\ conn' = [conn EXCEPT ![c].pc = "begin",
                          ![c].q = [Blank EXCEPT !.kind = "session.start", !.sid = s,
                                        !.agent = conn[c].agent, !.connector = k]]
          /\ live' = live \cup {s}
    /\ UNCHANGED <<db, tx>>

\* The id is taken, or the journal could not be read.
RefuseSession(c) ==
    /\ At(c, "idle") /\ conn[c].sid = None
    /\ Goes(c, "closed")
    /\ UNCHANGED <<db, tx, live>>

EndEntry(s) == [Blank EXCEPT !.kind = "session.end", !.sid = s]

EndSession(c) ==
    /\ At(c, "idle") /\ conn[c].sid # None
    /\ Len(db.log) < MaxEntries
    /\ conn' = [conn EXCEPT ![c].pc = "begin", ![c].q = EndEntry(conn[c].sid)]
    /\ UNCHANGED <<db, tx, live>>

\* The connection ends.  The deferred function ends its session for it, in one
\* transaction that may fail, and releases the id either way.
HangUp(c) ==
    /\ At(c, "idle")
    /\ \/ UNCHANGED db
       \/ /\ conn[c].sid # None /\ Unlocked
          /\ db' = [db EXCEPT !.log = Append(@, EndEntry(conn[c].sid))]
    /\ conn' = [conn EXCEPT ![c] = [Fresh EXCEPT !.pc = "closed"]]
    /\ live' = live \ {conn[c].sid}
    /\ UNCHANGED tx

\* The daemon is stopped or dies, whatever it was doing, and is started again.
Restart ==
    /\ conn' = [c \in Conns |-> IF At(c, "new") THEN Fresh ELSE [Fresh EXCEPT !.pc = "closed"]]
    /\ live' = {}
    /\ tx' = Free
    /\ UNCHANGED db

-----------------------------------------------------------------------------
(***************************************************************************)
(* Administration and decisions.                                           *)
(***************************************************************************)

\* A connection serves one purpose, that of its first request.
Purpose(q) == IF q.kind \in {"agent.add", "agent.remove"} THEN "agent" ELSE "policy"

\* A request that is accepted goes on to its transaction.
Request(c, q, accepted) ==
    /\ At(c, "idle") /\ Len(db.log) < MaxEntries
    /\ conn[c].purpose \in {None, Purpose(q)}
    /\ conn' = [conn EXCEPT ![c].purpose = Purpose(q), ![c].q = q,
                            ![c].pc = IF accepted THEN "begin" ELSE "idle"]
    /\ UNCHANGED <<db, tx, live>>

\* A scope may name only an enrolled agent, looked up before the transaction.
\* Mutant _Unchecked: any name will do.
AgentIsEnrolled_Unchecked(q) == TRUE
AgentIsEnrolled(q) == q.agent = None \/ db.agents[q.agent] # None

Asked(kind) == {q \in Requests : q.kind = kind}

HandlePolicyAdd(c)    == \E q \in Asked("rule.add")      : Request(c, q, AgentIsEnrolled(q))
HandlePolicyRemove(c) == \E q \in Asked("rule.remove")   : Request(c, q, TRUE)
HandleBudgetSet(c)    == \E q \in Asked("budget.add")    : Request(c, q, AgentIsEnrolled(q))
HandleBudgetRemove(c) == \E q \in Asked("budget.remove") : Request(c, q, TRUE)
HandleAgentAdd(c)     == \E q \in Asked("agent.add")     : Request(c, q, TRUE)
HandleAgentRemove(c)  == \E q \in Asked("agent.remove")  : Request(c, q, TRUE)

Administer(c) ==
    \/ HandlePolicyAdd(c) \/ HandlePolicyRemove(c)
    \/ HandleBudgetSet(c) \/ HandleBudgetRemove(c)
    \/ HandleAgentAdd(c) \/ HandleAgentRemove(c)

\* handle receives call.request; `since` is where the journal stood.
Ask(c) ==
    /\ At(c, "idle") /\ conn[c].sid # None
    /\ Len(db.log) < MaxEntries
    /\ \E tool \in Calls :
          conn' = [conn EXCEPT ![c].pc = "rules", ![c].since = Len(db.log),
                       ![c].q = [Blank EXCEPT !.kind = "call.request", !.sid = conn[c].sid,
                                     !.tool = tool]]
    /\ UNCHANGED <<db, tx, live>>

Call(c) == [agent |-> conn[c].agent, connector |-> conn[c].connector, tool |-> conn[c].q.tool]

\* answer: what the rules say.  A held call is CallGate's subject.
ReadRules(c) ==
    /\ At(c, "rules")
    /\ LET rule == RuleFor(db.rules, Call(c))
           effect == IF rule = None THEN "allow" ELSE rule.effect
       IN  \/ effect = "ask" /\ Goes(c, "idle")
           \/ effect = "deny" /\ conn' = [conn EXCEPT ![c].pc = "begin", ![c].q.effect = "deny"]
           \/ effect = "allow" /\ Goes(c, "budgets")
    /\ UNCHANGED <<db, tx, live>>

MatchingBudgets(budgets, call) == {b \in budgets : Covers(b, call)}

\* checkBudgets: any matching budget that is used up.
\* Mutant _OneMore: a budget of n lets n + 1 calls through.
UsedUp_OneMore(log, sid, b) == CountAllowed(log, sid, b.tool) > b.calls
UsedUp(log, sid, b) == CountAllowed(log, sid, b.tool) >= b.calls

\* The budgets and the counts are read one after the other, but nobody else
\* adds to what is counted for this session.
CheckBudgets(c) ==
    /\ At(c, "budgets")
    /\ LET spent == \E b \in MatchingBudgets(db.budgets, Call(c)) : UsedUp(db.log, conn[c].sid, b)
       IN  conn' = [conn EXCEPT ![c].pc = "begin",
                        ![c].q.effect = IF spent THEN "deny" ELSE "allow"]
    /\ UNCHANGED <<db, tx, live>>

\* The rules or the budgets could not be read: undecided, and no entry.
ReadFails(c) ==
    /\ conn[c].pc \in {"rules", "budgets"}
    /\ Goes(c, "idle")
    /\ UNCHANGED <<db, tx, live>>

-----------------------------------------------------------------------------
Serve(c) ==
    \/ Accept(c) \/ StartSession(c) \/ RefuseSession(c) \/ EndSession(c) \/ HangUp(c)
    \/ Administer(c) \/ Ask(c) \/ ReadRules(c) \/ CheckBudgets(c) \/ ReadFails(c)
    \/ Begin(c) \/ Commit(c) \/ Fail(c)

PolicyNext == Restart \/ \E c \in Conns : Serve(c)

PolicySpec == PolicyInit /\ [][PolicyNext]_vars

-----------------------------------------------------------------------------
(***************************************************************************)
(* Properties.                                                             *)
(***************************************************************************)

Views == [rules : SUBSET RuleRows,
          budgets : SUBSET [agent : Agents \cup {None}, connector : Connectors \cup {None},
                            tool : Calls \cup {RuleToolDefault}, calls : Nat],
          agents : [Agents -> Images \cup {None}], nextId : Nat, log : Seq(Entries)]

ConnStates == [pc : {"new", "idle", "rules", "budgets", "begin", "append", "closed"},
               agent : Agents \cup {None}, purpose : {"agent", "policy", None},
               sid : Sessions \cup {None}, connector : Connectors \cup {None},
               q : Entries \cup {None}, since : Nat]

\* The types of the variables; whoever is to append holds the write lock.
PolicyTypeOK ==
    /\ db \in Views
    /\ tx = Free \/ tx \in [by : Conns, view : Views]
    /\ conn \in [Conns -> ConnStates]
    /\ \A c \in Conns : conn[c].pc \in {"rules", "budgets", "begin", "append"} => Valid(conn[c].q)
    /\ \A c \in Conns : conn[c].pc = "append" => tx # Free /\ tx.by = c
    /\ live \subseteq Sessions

\* The tables are what the journal says they are: no rule, budget or enrolment
\* without its entry and no entry without its effect, whatever failed, crashed
\* or ran at the same time (AddRule .. RemoveAgent and appendTx).
TablesFollowJournal ==
    LET n == Len(db.log) IN
    /\ {<<Scoped(r), r.effect>> : r \in db.rules}
          = {<<Scoped(e), e.effect>> : e \in RulesInForce(db.log, n)}
    /\ {<<Scoped(b), b.calls>> : b \in db.budgets}
          = {<<Scoped(e), e.calls>> : e \in BudgetsInForce(db.log, n)}
    /\ \A a \in Agents : EnrolledAs(db.log, n, a) = {db.agents[a]} \ {None}

\* A scope holds at most one rule and one budget (AddRule, AddBudget).
OneScopeOneRule ==
    /\ \A r, q \in db.rules : SameScope(r, q) => r = q
    /\ \A b, q \in db.budgets : SameScope(b, q) => b = q

\* Two names are never enrolled for one executable, so who a connection is
\* never depends on the order of a table (AddAgent, AgentByImage).
OneImageOneName ==
    \A a, b \in Agents : db.agents[a] = db.agents[b] /\ db.agents[a] # None => a = b

\* The loop of Decide over the candidates in id order gives what its
\* precedence promises, for every call and every table that can come about
\* (Decide, outranks).
DecideIsSafest ==
    \A call \in [agent : Agents \cup {None}, connector : Connectors, tool : Calls] :
        LET rule == RuleFor(db.rules, call) IN
        (IF rule = None THEN "allow" ELSE rule.effect) = SafestOfTheMostSpecific(db.rules, call)

\* A session id names one story: one start, nothing before it and nothing
\* after its end, whichever connections claim the id (sessionRegistry.claim).
OneStoryPerSession ==
    \A i \in DOMAIN db.log : db.log[i].sid # None =>
        /\ db.log[i].kind = "session.start" <=>
              ~\E j \in 1 .. i - 1 : db.log[j].sid = db.log[i].sid
        /\ ~\E j \in 1 .. i - 1 : db.log[j].sid = db.log[i].sid /\ db.log[j].kind = "session.end"

\* A recorded decision can be explained from the journal alone: the rules and
\* then the budgets that were in force at two moments between the question and
\* the entry, for the agent and the connector of the session's start, give
\* exactly it (answer, checkBudgets, apply).
JournalExplains ==
    [][\A c \in Conns :
        LET e == conn[c].q  k == Len(db.log) IN
        (At(c, "append") /\ e.kind = "call.request" /\ db'.log = Append(db.log, e)) =>
            \E i \in 1 .. k :
                /\ db.log[i].kind = "session.start" /\ db.log[i].sid = e.sid
                /\ \E k1 \in conn[c].since .. k : \E k2 \in k1 .. k :
                      e.effect = Verdict(db.log, k1, k2,
                                         [agent |-> db.log[i].agent,
                                          connector |-> db.log[i].connector, tool |-> e.tool],
                                         e.sid)]_vars

\* The daemon's tables, locks, sessions and transactions together keep the
\* ledger's promise: every entry is justified by those before it, although its
\* agent, its session and its verdict were looked up before its transaction
\* began (AddRule .. RemoveAgent, claim, answer, appendTx).
Ledgered == INSTANCE LawfulLedger WITH log <- db.log
ImplementsLedger == Ledgered!LedgerSpec
=============================================================================
