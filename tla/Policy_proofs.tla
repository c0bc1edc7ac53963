---------------------------- MODULE Policy_proofs ----------------------------
(***************************************************************************)
(* The tables and their journal, for every number of connections, every    *)
(* set of requests and every length of the journal.                        *)
(***************************************************************************)
EXTENDS Policy, FiniteSetTheorems, TLAPS

\* What a request makes of a view, and its entry, are of the right type.
LEMMA RequestsAreTyped ==
    ASSUME NEW view \in Views, NEW q \in Entries, Valid(q), Permitted(view, q)
    PROVE  Changed(view, q) \in Views /\ Recorded(view, q) \in Entries /\ Valid(Recorded(view, q))
<1> USE PolicyAssumption DEF AddRule, RemoveRule, AddBudget, RemoveBudget, AddAgent, RemoveAgent
<1>1. CASE q.kind = "rule.add"
  <2>1. Rule(q, view.nextId) \in [id : Nat, agent : Agents \cup {None}, connector : Connectors \cup {None},
                          tool : Calls \cup {RuleToolDefault}, effect : Effects]
    BY <1>1 DEF Rule, Valid, Entries, Views, RuleRows
  <2>2. Changed(view, q) = [view EXCEPT !.rules = view.rules \cup {Rule(q, view.nextId)},
                                        !.nextId = view.nextId + 1]
    BY <1>1 DEF Changed
  <2> DEFINE rules == view.rules \cup {Rule(q, view.nextId)}
  <2>3. rules \subseteq [id : Nat, agent : Agents \cup {None}, connector : Connectors \cup {None},
                          tool : Calls \cup {RuleToolDefault}, effect : Effects]
    BY <2>1 DEF Views, RuleRows
  <2>4. view.nextId + 1 \in Nat
    BY DEF Views, RuleRows
  <2> HIDE DEF rules
  <2>5. [view EXCEPT !.rules = rules, !.nextId = view.nextId + 1] \in Views
    BY <2>3, <2>4 DEF Views, RuleRows
  <2> QED
    BY <1>1, <2>2, <2>5 DEF Recorded, rules
<1>2. CASE q.kind = "rule.remove"
  <2>1. (CHOOSE r \in view.rules : SameScope(r, q)) \in view.rules
    BY <1>2 DEF Permitted, Taken
  <2>2. (CHOOSE r \in view.rules : SameScope(r, q)).effect \in Effects
    BY <2>1 DEF Views, RuleRows
  <2>3. Recorded(view, q) \in Entries
    BY <1>2, <2>2 DEF Recorded, Entries
  <2>4. Valid(Recorded(view, q))
    BY <1>2, <2>2, <2>3 DEF Recorded, Valid, Entries
  <2> QED
    BY <1>2, <2>3, <2>4 DEF Changed, Views, RuleRows
<1>3. CASE q.kind = "budget.add"
  <2>1. Budget(q) \in [agent : Agents \cup {None}, connector : Connectors \cup {None},
                            tool : Calls \cup {RuleToolDefault}, calls : Nat]
    BY <1>3 DEF Budget, Valid, Entries, Views, RuleRows
  <2> QED
    BY <1>3, <2>1 DEF Changed, Recorded, Views, RuleRows
<1>4. CASE q.kind = "budget.remove"
  <2>1. (CHOOSE b \in view.budgets : SameScope(b, q)) \in view.budgets
    BY <1>4 DEF Permitted, Taken
  <2>2. (CHOOSE b \in view.budgets : SameScope(b, q)).calls \in Nat
    BY <2>1 DEF Views, RuleRows
  <2>3. Recorded(view, q) \in Entries
    BY <1>4, <2>2 DEF Recorded, Entries
  <2>4. Valid(Recorded(view, q))
    BY <1>4, <2>2, <2>3 DEF Recorded, Valid, Entries
  <2> QED
    BY <1>4, <2>3, <2>4 DEF Changed, Views, RuleRows
<1>5. CASE q.kind = "agent.add"
  BY <1>5 DEF Changed, Recorded, Views, RuleRows, Valid, Entries
<1>6. CASE q.kind = "agent.remove"
  BY <1>6 DEF Changed, Recorded, Views, RuleRows, Valid, Entries
<1>7. CASE q.kind \in {"session.start", "session.end", "call.request"}
  BY <1>7 DEF Changed, Recorded
<1> QED
  BY <1>1, <1>2, <1>3, <1>4, <1>5, <1>6, <1>7 DEF Entries

\* Every variable keeps its type.
THEOREM PolicyTypeCorrect == PolicySpec => []PolicyTypeOK
<1>1. PolicyInit => PolicyTypeOK
  BY PolicyAssumption DEF PolicyInit, PolicyTypeOK, ConnStates, Views, RuleRows, Fresh, Free
<1>2. PolicyTypeOK /\ [PolicyNext]_vars => PolicyTypeOK'
  <2> SUFFICES ASSUME PolicyTypeOK, [PolicyNext]_vars PROVE PolicyTypeOK'
    OBVIOUS
  <2>b. Blank.sid = None /\ Blank \in [kind : {None}, sid : {None}, agent : {None}, connector : {None},
             tool : {None}, effect : {None}, calls : {None}, image : {None}]
    BY DEF Blank
  <2> USE PolicyAssumption DEF At, Goes
  <2>1. CASE UNCHANGED vars
    BY <2>1 DEF vars, PolicyTypeOK
  <2>2. CASE Restart
    BY <2>2 DEF Restart, Fresh, PolicyTypeOK, ConnStates
  \* A step that changes one connection only, and perhaps the live sessions.
  <2>k. ASSUME NEW c \in Conns, NEW state \in ConnStates, UNCHANGED <<db, tx>>, live' \subseteq Sessions,
               conn' = [conn EXCEPT ![c] = state], state.pc # "append",
               state.pc \in {"rules", "budgets", "begin"} => Valid(state.q)
        PROVE  PolicyTypeOK'
    BY <2>k DEF PolicyTypeOK
  <2>t. ASSUME NEW c \in Conns
        PROVE  /\ conn[c] \in ConnStates /\ conn \in [Conns -> ConnStates] /\ live \subseteq Sessions
               /\ conn[c].pc \in {"rules", "budgets", "begin", "append"} =>
                     conn[c].q \in Entries /\ Valid(conn[c].q)
    BY DEF PolicyTypeOK, ConnStates, Valid
  <2>3. ASSUME NEW c \in Conns, Accept(c) PROVE PolicyTypeOK'
    <3>1. PICK agent \in Agents \cup {None} :
             conn' = [conn EXCEPT ![c].pc = "idle", ![c].agent = agent]
      <4>1. \A names : names \subseteq Agents =>
               (IF names = {} THEN None ELSE CHOOSE a \in names : TRUE) \in Agents \cup {None}
        OBVIOUS
      <4>2. \A image : (IF image = None THEN {} ELSE Enrolled(db.agents, image)) \subseteq Agents
        BY DEF Enrolled
      <4> QED
        BY <2>3, <4>1, <4>2 DEF Accept
    <3> DEFINE state == [conn[c] EXCEPT !.pc = "idle", !.agent = agent]
    <3>2. state \in ConnStates /\ state.pc = "idle"
      BY <2>t DEF ConnStates
    <3>3. conn' = [conn EXCEPT ![c] = state]
      BY <3>1, <2>t
    <3> QED
      BY <2>3, <3>2, <3>3, <2>k, <2>t DEF Accept
  <2>4. ASSUME NEW c \in Conns, StartSession(c) PROVE PolicyTypeOK'
    <3>1. PICK s \in Sessions, k \in Connectors :
             /\ conn' = [conn EXCEPT ![c].pc = "begin",
                             ![c].q = [Blank EXCEPT !.kind = "session.start", !.sid = s,
                                           !.agent = conn[c].agent, !.connector = k]]
             /\ live' = live \cup {s}
      BY <2>4 DEF StartSession
    <3> DEFINE q == [Blank EXCEPT !.kind = "session.start", !.sid = s, !.agent = conn[c].agent,
                                  !.connector = k]
               state == [conn[c] EXCEPT !.pc = "begin", !.q = q]
    <3>2. q \in Entries /\ Valid(q)
      BY DEF Blank, Entries, Valid, PolicyTypeOK, ConnStates
    <3>3. conn' = [conn EXCEPT ![c] = state] /\ UNCHANGED <<db, tx>> /\ live' \subseteq Sessions
      BY <2>4, <3>1, <2>t DEF StartSession
    <3> HIDE DEF q
    <3>4. state \in ConnStates /\ state.pc = "begin" /\ Valid(state.q)
      BY <3>2, <2>t DEF ConnStates
    <3> QED
      BY <3>3, <3>4, <2>k
  <2>r. ASSUME NEW c \in Conns, NEW pc \in {"idle", "closed"}, Goes(c, pc), UNCHANGED <<db, tx, live>>
        PROVE  PolicyTypeOK'
    <3> DEFINE state == [conn[c] EXCEPT !.pc = pc]
    <3>1. conn' = [conn EXCEPT ![c] = state]
      BY <2>r, <2>t
    <3>2. state \in ConnStates /\ state.pc \in {"idle", "closed"}
      BY <2>t DEF ConnStates
    <3> QED
      BY <2>r, <3>1, <3>2, <2>k, <2>t
  <2>5. ASSUME NEW c \in Conns, EndSession(c) PROVE PolicyTypeOK'
    <3> DEFINE q == EndEntry(conn[c].sid)
               state == [conn[c] EXCEPT !.pc = "begin", !.q = q]
    <3>1. q \in Entries /\ Valid(q)
      BY <2>t DEF EndEntry, Blank, Entries, ConnStates, Valid
    <3>2. conn' = [conn EXCEPT ![c] = state]
      BY <2>5, <2>t DEF EndSession
    <3> HIDE DEF q
    <3>3. state \in ConnStates /\ Valid(state.q) /\ state.pc = "begin"
      BY <3>1, <2>t DEF ConnStates
    <3> QED
      BY <2>5, <3>2, <3>3, <2>k, <2>t DEF EndSession
  <2>6. ASSUME NEW c \in Conns, HangUp(c) PROVE PolicyTypeOK'
    <3>1. EndEntry(conn[c].sid) \in Entries
      BY <2>t DEF EndEntry, Blank, Entries, ConnStates
    <3>2. db' \in Views
      <4>1. db \in Views /\ Append(db.log, EndEntry(conn[c].sid)) \in Seq(Entries)
        BY <3>1 DEF PolicyTypeOK, Views, RuleRows
      <4>2. [db EXCEPT !.log = Append(db.log, EndEntry(conn[c].sid))] \in Views
        BY <4>1 DEF Views, RuleRows
      <4> QED
        BY <2>6, <4>1, <4>2 DEF HangUp
    <3> QED
      BY <2>6, <3>2, <2>t DEF HangUp, Fresh, PolicyTypeOK, ConnStates
  <2>7. ASSUME NEW c \in Conns, Administer(c) PROVE PolicyTypeOK'
    <3>1. PICK q \in Requests, pc \in {"begin", "idle"} :
             conn' = [conn EXCEPT ![c].purpose = Purpose(q), ![c].q = q, ![c].pc = pc]
      BY <2>7 DEF Administer, HandlePolicyAdd, HandlePolicyRemove,
         HandleBudgetSet, HandleBudgetRemove, HandleAgentAdd, HandleAgentRemove, Asked, Request
    <3> DEFINE state == [conn[c] EXCEPT !.purpose = Purpose(q), !.q = q, !.pc = pc]
    <3>2. conn' = [conn EXCEPT ![c] = state]
      BY <3>1, <2>t
    <3>3. q \in Entries /\ Valid(q)
      BY DEF Valid
    <3>4. state \in ConnStates /\ Valid(state.q) /\ state.pc # "append"
      BY <3>3, <2>t DEF ConnStates, Purpose
    <3> QED
      BY <2>7, <3>2, <3>4, <2>k, <2>t DEF Administer, HandlePolicyAdd, HandlePolicyRemove,
         HandleBudgetSet, HandleBudgetRemove, HandleAgentAdd, HandleAgentRemove, Asked, Request
  <2>8. ASSUME NEW c \in Conns, Ask(c) PROVE PolicyTypeOK'
    <3>1. PICK tool \in Calls :
             conn' = [conn EXCEPT ![c].pc = "rules", ![c].since = Len(db.log),
                         ![c].q = [Blank EXCEPT !.kind = "call.request", !.sid = conn[c].sid,
                                       !.tool = tool]]
      BY <2>8 DEF Ask
    <3> DEFINE q == [Blank EXCEPT !.kind = "call.request", !.sid = conn[c].sid, !.tool = tool]
               state == [conn[c] EXCEPT !.pc = "rules", !.since = Len(db.log), !.q = q]
    <3>2. q \in Entries /\ Valid(q)
      BY <2>t DEF Blank, Entries, ConnStates, Valid
    <3>3. Len(db.log) \in Nat
      BY DEF PolicyTypeOK, Views, RuleRows
    <3>4. conn' = [conn EXCEPT ![c] = state]
      BY <3>1, <2>t
    <3> HIDE DEF q
    <3>5. state \in ConnStates /\ Valid(state.q) /\ state.pc = "rules"
      BY <3>2, <3>3, <2>t DEF ConnStates
    <3> QED
      BY <2>8, <3>4, <3>5, <2>k, <2>t DEF Ask
  <2>9. ASSUME NEW c \in Conns, ReadRules(c) PROVE PolicyTypeOK'
    <3> DEFINE q == [conn[c].q EXCEPT !.effect = "deny"]
    <3>1. q \in Entries /\ Valid(q)
      BY <2>9, <2>t DEF ReadRules, Entries, Effects, Valid
    <3>2. CASE conn' = [conn EXCEPT ![c].pc = "begin", ![c].q.effect = "deny"]
      <4> DEFINE state == [conn[c] EXCEPT !.pc = "begin", !.q = q]
      <4>1. conn' = [conn EXCEPT ![c] = state]
        BY <3>2, <2>t
      <4> HIDE DEF q
      <4>2. state \in ConnStates /\ Valid(state.q) /\ state.pc = "begin"
        BY <3>1, <2>t DEF ConnStates
      <4> QED
        BY <2>9, <4>1, <4>2, <2>k, <2>t DEF ReadRules
    <3>3. ASSUME NEW pc \in {"idle", "budgets"}, Goes(c, pc) PROVE PolicyTypeOK'
      <4> DEFINE state == [conn[c] EXCEPT !.pc = pc]
      <4>1. conn' = [conn EXCEPT ![c] = state]
        BY <3>3, <2>t
      <4>2. state \in ConnStates /\ state.q = conn[c].q /\ state.pc # "append"
        BY <3>1, <2>t DEF ConnStates
      <4> QED
        BY <2>9, <4>1, <4>2, <2>k, <2>t DEF ReadRules
    <3> QED
      BY <2>9, <3>2, <3>3 DEF ReadRules
  <2>10. ASSUME NEW c \in Conns, CheckBudgets(c) PROVE PolicyTypeOK'
    <3>1. PICK d \in Effects : conn' = [conn EXCEPT ![c].pc = "begin", ![c].q.effect = d]
      BY <2>10 DEF CheckBudgets, Effects
    <3> DEFINE q == [conn[c].q EXCEPT !.effect = d]
               state == [conn[c] EXCEPT !.pc = "begin", !.q = q]
    <3>2. q \in Entries /\ Valid(q)
      BY <2>10, <2>t DEF CheckBudgets, Entries, Effects, Valid
    <3>3. conn' = [conn EXCEPT ![c] = state]
      BY <3>1, <2>t
    <3> HIDE DEF q
    <3>4. state \in ConnStates /\ Valid(state.q) /\ state.pc = "begin"
      BY <3>2, <2>t DEF ConnStates
    <3> QED
      BY <2>10, <3>3, <3>4, <2>k, <2>t DEF CheckBudgets
  <2>11. ASSUME NEW c \in Conns, Begin(c) PROVE PolicyTypeOK'
    <3> DEFINE q == conn[c].q
    <3>1. CASE ~Permitted(db, q)
      <4> DEFINE state == [conn[c] EXCEPT !.pc = "idle"]
      <4>1. conn' = [conn EXCEPT ![c] = state] /\ UNCHANGED <<db, tx, live>>
        BY <2>11, <3>1, <2>t DEF Begin
      <4>2. state \in ConnStates /\ state.pc = "idle"
        BY <2>t DEF ConnStates
      <4> QED
        BY <4>1, <4>2, <2>k, <2>t
    <3>2. CASE Permitted(db, q)
      <4> DEFINE state == [conn[c] EXCEPT !.pc = "append", !.q = Recorded(db, q)]
      <4>1. db \in Views /\ q \in Entries /\ Valid(q)
        BY <2>11, <2>t DEF Begin, PolicyTypeOK
      <4>2. Changed(db, q) \in Views /\ Recorded(db, q) \in Entries /\ Valid(Recorded(db, q))
        BY <4>1, <3>2, RequestsAreTyped
      <4>3. conn' = [conn EXCEPT ![c] = state] /\ tx' = [by |-> c, view |-> Changed(db, q)]
            /\ UNCHANGED <<db, live>>
        BY <2>11, <3>2, <2>t DEF Begin, Pending
      <4>4. state \in ConnStates /\ Valid(state.q)
        BY <4>2, <2>t DEF ConnStates
      <4>5. tx' \in [by : Conns, view : Views] /\ tx' # Free /\ tx'.by = c
        BY <4>2, <4>3 DEF Free
      <4>6. \A d \in Conns : conn[d].pc # "append"
        BY <2>11 DEF Begin, Unlocked, PolicyTypeOK
      <4> HIDE DEF state
      <4> QED
        BY <4>3, <4>4, <4>5, <4>6 DEF PolicyTypeOK
    <3> QED
      BY <3>1, <3>2
  <2>12. ASSUME NEW c \in Conns, Commit(c) PROVE PolicyTypeOK'
    <3> DEFINE q == conn[c].q
    <3>1. tx.view \in Views /\ q \in Entries /\ q.sid \in Sessions \cup {None}
          /\ q.connector \in Connectors \cup {None}
      BY <2>12, <2>t DEF Commit, PolicyTypeOK, Entries
    <3>2. db' \in Views
      <4>1. db' = [tx.view EXCEPT !.log = Append(tx.view.log, q)]
        BY <2>12 DEF Commit
      <4>2. Append(tx.view.log, q) \in Seq(Entries)
        BY <3>1 DEF Views, RuleRows
      <4> QED
        BY <3>1, <4>1, <4>2 DEF Views, RuleRows
    <3>3. PICK sid \in Sessions \cup {None}, connector \in Connectors \cup {None} :
             conn' = [conn EXCEPT ![c].pc = "idle", ![c].sid = sid, ![c].connector = connector]
      <4>1. CASE q.kind = "session.start"
        BY <2>12, <4>1, <3>1 DEF Commit
      <4>2. CASE q.kind = "session.end"
        BY <2>12, <4>2, <3>1 DEF Commit
      <4>3. CASE q.kind \notin {"session.start", "session.end"}
        <5>1. conn' = [conn EXCEPT ![c].pc = "idle"]
          BY <2>12, <4>3 DEF Commit
        <5>2. conn' = [conn EXCEPT ![c].pc = "idle", ![c].sid = conn[c].sid,
                                   ![c].connector = conn[c].connector]
          BY <5>1, <2>t DEF ConnStates
        <5> QED
          BY <5>2, <2>t DEF ConnStates
      <4> QED
        BY <4>1, <4>2, <4>3
    <3> DEFINE state == [conn[c] EXCEPT !.pc = "idle", !.sid = sid, !.connector = connector]
    <3>4. conn' = [conn EXCEPT ![c] = state]
      BY <3>3, <2>t
    <3>5. state \in ConnStates /\ state.pc = "idle"
      BY <2>t DEF ConnStates
    <3>6. live' \subseteq Sessions /\ tx' = Free
      BY <2>12, <2>t DEF Commit
    <3>7. \A d \in Conns : conn'[d].pc # "append"
      BY <2>12, <3>4, <3>5 DEF Commit, PolicyTypeOK
    <3> HIDE DEF state
    <3> QED
      BY <3>2, <3>4, <3>5, <3>6, <3>7 DEF PolicyTypeOK
  <2>13. ASSUME NEW c \in Conns, Fail(c) PROVE PolicyTypeOK'
    BY <2>13 DEF Fail, PolicyTypeOK, ConnStates, Free
  <2> QED
    BY <2>1, <2>2, <2>3, <2>4, <2>r, <2>5, <2>6, <2>7, <2>8, <2>9, <2>10, <2>11, <2>12, <2>13
    DEF PolicyNext, Serve, RefuseSession, ReadFails
<1> QED
  BY <1>1, <1>2, PTL DEF PolicySpec

-----------------------------------------------------------------------------
(***************************************************************************)
(* The tables follow the journal.  The invariant is stated of a view, so   *)
(* that it speaks of what is committed and of what is about to be; what a  *)
(* transaction is about to commit is what its entry says (TxInv).          *)
(***************************************************************************)

RulesFollow(v) ==
    {<<Scoped(r), r.effect>> : r \in v.rules}
        = {<<Scoped(e), e.effect>> : e \in RulesInForce(v.log, Len(v.log))}
BudgetsFollow(v) ==
    {<<Scoped(b), b.calls>> : b \in v.budgets}
        = {<<Scoped(e), e.calls>> : e \in BudgetsInForce(v.log, Len(v.log))}
AgentsFollow(v) ==
    \A a \in Agents : EnrolledAs(v.log, Len(v.log), a) = {v.agents[a]} \ {None}

Unique(v) ==
    /\ \A r, q \in v.rules : SameScope(r, q) => r = q
    /\ \A b, q \in v.budgets : SameScope(b, q) => b = q
    /\ \A a, b \in Agents : v.agents[a] = v.agents[b] /\ v.agents[a] # None => a = b

Sound(v) == RulesFollow(v) /\ BudgetsFollow(v) /\ AgentsFollow(v) /\ Unique(v)

TxInv ==
    tx # Free =>
        /\ conn[tx.by].pc = "append"
        /\ \E q \in Entries :
              /\ Valid(q) /\ Permitted(db, q)
              /\ tx.view = Changed(db, q) /\ conn[tx.by].q = Recorded(db, q)

\* What an entry leaves in force, and what it adds.
Kept(set, e, remove) == {r \in set : e.kind = remove => ~SameScope(e, r)}
Added(e, add) == IF e.kind = add THEN {e} ELSE {}

\* What one more entry does to what is in force.
LEMMA InForceAppend ==
    ASSUME NEW log \in Seq(Entries), NEW e \in Entries,
           NEW add \in {"rule.add", "budget.add"}, NEW remove \in {"rule.remove", "budget.remove"}
    PROVE  InForce(Append(log, e), Len(log) + 1, add, remove)
             = Kept(InForce(log, Len(log), add, remove), e, remove) \cup Added(e, add)
<1> DEFINE n == Len(log)
           longer == Append(log, e)
           old == InForce(log, n, add, remove)
           new == InForce(longer, n + 1, add, remove)
           kept == {r \in old : e.kind = remove => ~SameScope(e, r)}
<1>1. n \in Nat /\ longer[n + 1] = e /\ \A i \in 1 .. n : longer[i] = log[i]
  OBVIOUS
<1> HIDE DEF n, longer
<1>2. ASSUME NEW x \in new PROVE x \in kept \cup (IF e.kind = add THEN {e} ELSE {})
  <2>1. PICK i \in 1 .. n + 1 : /\ longer[i].kind = add /\ x = longer[i]
                               /\ \A j \in i + 1 .. n + 1 : longer[j].kind = remove => ~SameScope(longer[j], longer[i])
    BY <1>2 DEF InForce
  <2>2. CASE i = n + 1
    BY <1>1, <2>1, <2>2
  <2>3. CASE i \in 1 .. n
    <3>1. \A j \in i + 1 .. n : log[j].kind = remove => ~SameScope(log[j], log[i])
      BY <1>1, <2>1, <2>3
    <3>2. x \in old
      BY <1>1, <2>1, <2>3, <3>1 DEF InForce
    <3>3. e.kind = remove => ~SameScope(e, x)
      BY <1>1, <2>1, <2>3
    <3> QED
      BY <3>2, <3>3
  <2> QED
    BY <1>1, <2>2, <2>3
<1>3. ASSUME NEW x \in kept PROVE x \in new
  <2>1. PICK i \in 1 .. n : /\ log[i].kind = add /\ x = log[i]
                           /\ \A j \in i + 1 .. n : log[j].kind = remove => ~SameScope(log[j], log[i])
    BY <1>3 DEF InForce
  <2>2. \A j \in i + 1 .. n + 1 : longer[j].kind = remove => ~SameScope(longer[j], longer[i])
    <3> TAKE j \in i + 1 .. n + 1
    <3>1. CASE j = n + 1
      BY <1>1, <1>3, <2>1, <3>1
    <3>2. CASE j \in i + 1 .. n
      BY <1>1, <2>1, <3>2
    <3> QED
      BY <1>1, <3>1, <3>2
  <2>3. i \in 1 .. n + 1 /\ longer[i].kind = add /\ x = longer[i]
    BY <1>1, <2>1
  <2> QED
    BY <2>2, <2>3 DEF InForce
<1>4. ASSUME e.kind = add PROVE e \in new
  <2>1. n + 1 \in 1 .. n + 1 /\ longer[n + 1].kind = add /\ e = longer[n + 1]
    BY <1>1, <1>4
  <2>2. \A j \in (n + 1) + 1 .. n + 1 : longer[j].kind = remove => ~SameScope(longer[j], longer[n + 1])
    BY <1>1
  <2> QED
    BY <2>1, <2>2 DEF InForce
<1>5. new = kept \cup (IF e.kind = add THEN {e} ELSE {})
  BY <1>2, <1>3, <1>4
<1> QED
  BY <1>5 DEF n, longer, Kept, Added

\* What one more entry does to an enrolment.
LEMMA EnrolledAppend ==
    ASSUME NEW log \in Seq(Entries), NEW e \in Entries, NEW a
    PROVE  EnrolledAs(Append(log, e), Len(log) + 1, a)
             = IF e.kind \in {"agent.add", "agent.remove"} /\ e.agent = a
               THEN (IF e.kind = "agent.add" THEN {e.image} ELSE {})
               ELSE EnrolledAs(log, Len(log), a)
<1> DEFINE n == Len(log)
           longer == Append(log, e)
           old == EnrolledAs(log, n, a)
           new == EnrolledAs(longer, n + 1, a)
           about == e.kind \in {"agent.add", "agent.remove"} /\ e.agent = a
           now == IF about THEN (IF e.kind = "agent.add" THEN {e.image} ELSE {}) ELSE old
<1>1. n \in Nat /\ longer[n + 1] = e /\ \A i \in 1 .. n : longer[i] = log[i]
  OBVIOUS
<1> HIDE DEF n, longer
<1>2. ASSUME NEW x \in new PROVE x \in now
  <2>1. PICK i \in 1 .. n + 1 :
           /\ longer[i].kind = "agent.add" /\ longer[i].agent = a /\ x = longer[i].image
           /\ \A j \in i + 1 .. n + 1 :
                 longer[j].kind \in {"agent.add", "agent.remove"} => longer[j].agent # a
    BY <1>2 DEF EnrolledAs
  <2>2. CASE i = n + 1
    BY <1>1, <2>1, <2>2
  <2>3. CASE i \in 1 .. n
    <3>1. ~about
      BY <1>1, <2>1, <2>3
    <3>2. \A j \in i + 1 .. n : log[j].kind \in {"agent.add", "agent.remove"} => log[j].agent # a
      BY <1>1, <2>1, <2>3
    <3>3. x \in old
      BY <1>1, <2>1, <2>3, <3>2 DEF EnrolledAs
    <3> QED
      BY <3>1, <3>3
  <2> QED
    BY <1>1, <2>2, <2>3
<1>3. ASSUME NEW x \in now PROVE x \in new
  <2>1. CASE about
    <3>1. e.kind = "agent.add" /\ x = e.image
      BY <1>3, <2>1
    <3>2. n + 1 \in 1 .. n + 1 /\ longer[n + 1].kind = "agent.add" /\ longer[n + 1].agent = a
          /\ x = longer[n + 1].image
      BY <1>1, <2>1, <3>1
    <3>3. \A j \in (n + 1) + 1 .. n + 1 :
             longer[j].kind \in {"agent.add", "agent.remove"} => longer[j].agent # a
      BY <1>1
    <3> QED
      BY <3>2, <3>3 DEF EnrolledAs
  <2>2. CASE ~about
    <3>1. PICK i \in 1 .. n :
             /\ log[i].kind = "agent.add" /\ log[i].agent = a /\ x = log[i].image
             /\ \A j \in i + 1 .. n :
                   log[j].kind \in {"agent.add", "agent.remove"} => log[j].agent # a
      BY <1>3, <2>2 DEF EnrolledAs
    <3>2. \A j \in i + 1 .. n + 1 :
             longer[j].kind \in {"agent.add", "agent.remove"} => longer[j].agent # a
      <4> TAKE j \in i + 1 .. n + 1
      <4>1. CASE j = n + 1
        BY <1>1, <2>2, <4>1
      <4>2. CASE j \in i + 1 .. n
        BY <1>1, <3>1, <4>2
      <4> QED
        BY <1>1, <4>1, <4>2
    <3>3. i \in 1 .. n + 1 /\ longer[i].kind = "agent.add" /\ longer[i].agent = a /\ x = longer[i].image
      BY <1>1, <3>1
    <3> QED
      BY <3>2, <3>3 DEF EnrolledAs
  <2> QED
    BY <2>1, <2>2
<1>4. new = now
  BY <1>2, <1>3
<1> QED
  BY <1>4 DEF n, longer

\* What a transaction commits: the change and its entry.
Stored(view, q) == [Changed(view, q) EXCEPT !.log = Append(view.log, Recorded(view, q))]

\* Committing a permitted change with its entry keeps the tables and the
\* journal in agreement, and scopes and images unique.
LEMMA StoredIsSound ==
    ASSUME NEW view \in Views, NEW q \in Entries, Valid(q), Permitted(view, q), Sound(view)
    PROVE  Sound(Stored(view, q))
<1> DEFINE e == Recorded(view, q)
           next == Stored(view, q)
           n == Len(view.log)
<1>1. /\ e \in Entries /\ e.kind = q.kind
      /\ e.agent = q.agent /\ e.connector = q.connector /\ e.tool = q.tool
      /\ q.kind \in {"rule.add", "budget.add", "agent.add"} => e = q
  <2>1. e \in Entries
    BY RequestsAreTyped
  <2> QED
    BY <2>1 DEF Recorded, Entries
<1>2. Changed(view, q) \in Views
  BY RequestsAreTyped
<1>3. /\ next.rules = Changed(view, q).rules /\ next.budgets = Changed(view, q).budgets
      /\ next.agents = Changed(view, q).agents /\ next.log = Append(view.log, e)
  BY <1>2 DEF Stored, Views, RuleRows
<1>4. view.log \in Seq(Entries) /\ Len(next.log) = n + 1
  BY <1>1, <1>3 DEF Views, RuleRows
<1>5. /\ q.kind = "rule.add" => next.rules = view.rules \cup {Rule(q, view.nextId)}
      /\ q.kind = "rule.remove" => next.rules = {r \in view.rules : ~SameScope(r, q)}
      /\ q.kind \notin {"rule.add", "rule.remove"} => next.rules = view.rules
      /\ q.kind = "budget.add" => next.budgets = view.budgets \cup {Budget(q)}
      /\ q.kind = "budget.remove" => next.budgets = {b \in view.budgets : ~SameScope(b, q)}
      /\ q.kind \notin {"budget.add", "budget.remove"} => next.budgets = view.budgets
      /\ q.kind = "agent.add" => next.agents = [view.agents EXCEPT ![q.agent] = q.image]
      /\ q.kind = "agent.remove" => next.agents = [view.agents EXCEPT ![q.agent] = None]
      /\ q.kind \notin {"agent.add", "agent.remove"} => next.agents = view.agents
  BY <1>3 DEF Changed, AddRule, RemoveRule, AddBudget, RemoveBudget, AddAgent, RemoveAgent,
     Views, Entries
<1> HIDE DEF e, next, n
<1>6. RulesFollow(next)
  <2> DEFINE old == RulesInForce(view.log, n)
             new == RulesInForce(next.log, n + 1)
  <2>1. new = {r \in old : e.kind = "rule.remove" => ~SameScope(e, r)}
                \cup (IF e.kind = "rule.add" THEN {e} ELSE {})
    <3>1. "rule.add" \in {"rule.add", "budget.add"} /\ "rule.remove" \in {"rule.remove", "budget.remove"}
      OBVIOUS
    <3>2. InForce(Append(view.log, e), Len(view.log) + 1, "rule.add", "rule.remove")
            = Kept(InForce(view.log, Len(view.log), "rule.add", "rule.remove"), e, "rule.remove")
                \cup Added(e, "rule.add")
      BY <1>1, <1>4, <3>1, InForceAppend
    <3> QED
      BY <1>3, <3>2 DEF RulesInForce, n, Kept, Added
  <2>2. {<<Scoped(r), r.effect>> : r \in view.rules} = {<<Scoped(r), r.effect>> : r \in old}
    BY DEF Sound, RulesFollow, n
  <2>3. \A r, s : Scoped(r) = Scoped(s) => (SameScope(r, q) <=> SameScope(e, s))
    BY <1>1 DEF Scoped, SameScope
  <2> HIDE DEF old, new
  <2>4. CASE q.kind = "rule.add"
    <3>1. new = old \cup {q} /\ next.rules = view.rules \cup {Rule(q, view.nextId)}
      BY <1>1, <1>5, <2>1, <2>4
    <3>2. Scoped(Rule(q, view.nextId)) = Scoped(q) /\ Rule(q, view.nextId).effect = q.effect
      BY DEF Scoped, Rule
    <3>3. {<<Scoped(r), r.effect>> : r \in next.rules} = {<<Scoped(r), r.effect>> : r \in new}
      BY <2>2, <3>1, <3>2
    <3> QED
      BY <1>4, <3>3 DEF RulesFollow, new
  <2>5. CASE q.kind = "rule.remove"
    <3>1. new = {r \in old : ~SameScope(e, r)} /\ next.rules = {r \in view.rules : ~SameScope(r, q)}
      BY <1>1, <1>5, <2>1, <2>5
    <3>2. \A r \in next.rules : \E s \in new : <<Scoped(r), r.effect>> = <<Scoped(s), s.effect>>
      <4> TAKE r \in next.rules
      <4>0. <<Scoped(r), r.effect>> \in {<<Scoped(z), z.effect>> : z \in view.rules}
        BY <3>1
      <4>1. PICK s \in old : <<Scoped(r), r.effect>> = <<Scoped(s), s.effect>>
        BY <2>2, <4>0
      <4> QED
        BY <2>3, <3>1, <4>1
    <3>3. \A s \in new : \E r \in next.rules : <<Scoped(r), r.effect>> = <<Scoped(s), s.effect>>
      <4> TAKE s \in new
      <4>1. PICK r \in view.rules : <<Scoped(r), r.effect>> = <<Scoped(s), s.effect>>
        BY <2>2, <3>1
      <4> QED
        BY <2>3, <3>1, <4>1
    <3>4. {<<Scoped(r), r.effect>> : r \in next.rules} = {<<Scoped(r), r.effect>> : r \in new}
      BY <3>2, <3>3
    <3> QED
      BY <1>4, <3>4 DEF RulesFollow, new
  <2>6. CASE q.kind \notin {"rule.add", "rule.remove"}
    <3>1. new = old /\ next.rules = view.rules
      BY <1>1, <1>5, <2>1, <2>6
    <3> QED
      BY <1>4, <2>2, <3>1 DEF RulesFollow, new
  <2> QED
    BY <2>4, <2>5, <2>6
<1>7. BudgetsFollow(next)
  <2> DEFINE old == BudgetsInForce(view.log, n)
             new == BudgetsInForce(next.log, n + 1)
  <2>1. new = {b \in old : e.kind = "budget.remove" => ~SameScope(e, b)}
                \cup (IF e.kind = "budget.add" THEN {e} ELSE {})
    <3>1. "budget.add" \in {"rule.add", "budget.add"} /\ "budget.remove" \in {"rule.remove", "budget.remove"}
      OBVIOUS
    <3>2. InForce(Append(view.log, e), Len(view.log) + 1, "budget.add", "budget.remove")
            = Kept(InForce(view.log, Len(view.log), "budget.add", "budget.remove"), e, "budget.remove")
                \cup Added(e, "budget.add")
      BY <1>1, <1>4, <3>1, InForceAppend
    <3> QED
      BY <1>3, <3>2 DEF BudgetsInForce, n, Kept, Added
  <2>2. {<<Scoped(b), b.calls>> : b \in view.budgets} = {<<Scoped(b), b.calls>> : b \in old}
    BY DEF Sound, BudgetsFollow, n
  <2>3. \A b, s : Scoped(b) = Scoped(s) => (SameScope(b, q) <=> SameScope(e, s))
    BY <1>1 DEF Scoped, SameScope
  <2> HIDE DEF old, new
  <2>4. CASE q.kind = "budget.add"
    <3>1. new = old \cup {q} /\ next.budgets = view.budgets \cup {Budget(q)}
      BY <1>1, <1>5, <2>1, <2>4
    <3>2. Scoped(Budget(q)) = Scoped(q) /\ Budget(q).calls = q.calls
      BY DEF Scoped, Budget
    <3>3. {<<Scoped(b), b.calls>> : b \in next.budgets} = {<<Scoped(b), b.calls>> : b \in new}
      BY <2>2, <3>1, <3>2
    <3> QED
      BY <1>4, <3>3 DEF BudgetsFollow, new
  <2>5. CASE q.kind = "budget.remove"
    <3>1. new = {b \in old : ~SameScope(e, b)} /\ next.budgets = {b \in view.budgets : ~SameScope(b, q)}
      BY <1>1, <1>5, <2>1, <2>5
    <3>2. \A b \in next.budgets : \E s \in new : <<Scoped(b), b.calls>> = <<Scoped(s), s.calls>>
      <4> TAKE b \in next.budgets
      <4>0. <<Scoped(b), b.calls>> \in {<<Scoped(z), z.calls>> : z \in view.budgets}
        BY <3>1
      <4>1. PICK s \in old : <<Scoped(b), b.calls>> = <<Scoped(s), s.calls>>
        BY <2>2, <4>0
      <4> QED
        BY <2>3, <3>1, <4>1
    <3>3. \A s \in new : \E b \in next.budgets : <<Scoped(b), b.calls>> = <<Scoped(s), s.calls>>
      <4> TAKE s \in new
      <4>1. PICK b \in view.budgets : <<Scoped(b), b.calls>> = <<Scoped(s), s.calls>>
        BY <2>2, <3>1
      <4> QED
        BY <2>3, <3>1, <4>1
    <3>4. {<<Scoped(b), b.calls>> : b \in next.budgets} = {<<Scoped(b), b.calls>> : b \in new}
      BY <3>2, <3>3
    <3> QED
      BY <1>4, <3>4 DEF BudgetsFollow, new
  <2>6. CASE q.kind \notin {"budget.add", "budget.remove"}
    <3>1. new = old /\ next.budgets = view.budgets
      BY <1>1, <1>5, <2>1, <2>6
    <3> QED
      BY <1>4, <2>2, <3>1 DEF BudgetsFollow, new
  <2> QED
    BY <2>4, <2>5, <2>6
<1>8. AgentsFollow(next)
  <2> SUFFICES ASSUME NEW a \in Agents
               PROVE  EnrolledAs(next.log, n + 1, a) = {next.agents[a]} \ {None}
    BY <1>4 DEF AgentsFollow
  <2>1. EnrolledAs(view.log, n, a) = {view.agents[a]} \ {None}
    BY DEF Sound, AgentsFollow, n
  <2>2. EnrolledAs(next.log, n + 1, a)
          = IF e.kind \in {"agent.add", "agent.remove"} /\ e.agent = a
            THEN (IF e.kind = "agent.add" THEN {e.image} ELSE {})
            ELSE {view.agents[a]} \ {None}
    <3>1. EnrolledAs(Append(view.log, e), Len(view.log) + 1, a)
            = IF e.kind \in {"agent.add", "agent.remove"} /\ e.agent = a
              THEN (IF e.kind = "agent.add" THEN {e.image} ELSE {})
              ELSE EnrolledAs(view.log, Len(view.log), a)
      BY <1>1, <1>4, EnrolledAppend
    <3> QED
      BY <1>3, <2>1, <3>1 DEF n
  <2>3. view.agents \in [Agents -> Images \cup {None}]
    BY DEF Views, RuleRows
  <2>4. q.kind = "agent.add" => q.image \in Images
    BY PolicyAssumption DEF Valid, Entries
  <2> QED
    BY <1>1, <1>5, <2>2, <2>3, <2>4, PolicyAssumption
<1>9. Unique(next)
  <2>1. \A r, s \in next.rules : SameScope(r, s) => r = s
    <3>1. \A r \in view.rules : q.kind = "rule.add" =>
             /\ ~SameScope(r, q)
             /\ ~SameScope(r, Rule(q, view.nextId)) /\ ~SameScope(Rule(q, view.nextId), r)
      BY DEF Permitted, Taken, SameScope, Rule
    <3> QED
      BY <1>5, <3>1 DEF Sound, Unique
  <2>2. \A b, s \in next.budgets : SameScope(b, s) => b = s
    <3>1. \A b \in view.budgets : q.kind = "budget.add" =>
             /\ ~SameScope(b, q) /\ ~SameScope(b, Budget(q)) /\ ~SameScope(Budget(q), b)
      BY DEF Permitted, Taken, SameScope, Budget
    <3> QED
      BY <1>5, <3>1 DEF Sound, Unique
  <2>3. \A a, b \in Agents : next.agents[a] = next.agents[b] /\ next.agents[a] # None => a = b
    <3>1. view.agents \in [Agents -> Images \cup {None}]
      BY DEF Views, RuleRows
    <3>2. q.kind = "agent.add" => \A a \in Agents \ {q.agent} : view.agents[a] # q.image
      BY DEF Permitted, ImageFree
    <3> QED
      BY <1>5, <3>1, <3>2 DEF Sound, Unique
  <2> QED
    BY <2>1, <2>2, <2>3 DEF Unique
<1> QED
  BY <1>6, <1>7, <1>8, <1>9 DEF Sound, next

\* What is committed is sound, and so is what any transaction is about to
\* commit.
THEOREM PolicyInvHolds == PolicySpec => [](TxInv /\ Sound(db))
<1>1. PolicyInit => TxInv /\ Sound(db)
  <2> SUFFICES ASSUME PolicyInit PROVE TxInv /\ Sound(db)
    OBVIOUS
  <2>1. db.rules = {} /\ db.budgets = {} /\ db.log = <<>> /\ tx = Free
        /\ db.agents = [a \in Agents |-> None]
    BY DEF PolicyInit
  <2>2. Len(db.log) = 0
    BY <2>1
  <2>3. RulesInForce(db.log, Len(db.log)) = {} /\ BudgetsInForce(db.log, Len(db.log)) = {}
    BY <2>2 DEF RulesInForce, BudgetsInForce, InForce
  <2>4. \A a \in Agents : EnrolledAs(db.log, Len(db.log), a) = {}
    BY <2>2 DEF EnrolledAs
  <2> QED
    BY <2>1, <2>3, <2>4
    DEF TxInv, Sound, RulesFollow, BudgetsFollow, AgentsFollow, Unique
<1>2. PolicyTypeOK /\ PolicyTypeOK' /\ TxInv /\ Sound(db) /\ [PolicyNext]_vars => (TxInv /\ Sound(db))'
  <2> SUFFICES ASSUME PolicyTypeOK, PolicyTypeOK', TxInv, Sound(db), [PolicyNext]_vars
               PROVE  TxInv' /\ Sound(db')
    BY DEF Sound, RulesFollow, BudgetsFollow, AgentsFollow, Unique
  <2>1. CASE UNCHANGED vars
    BY <2>1 DEF vars, TxInv
  <2>2. CASE Restart
    BY <2>2 DEF Restart, TxInv
  <2>t. tx = Free \/ tx.by \in Conns
    BY DEF PolicyTypeOK
  \* A connection that appends nothing disturbs no transaction.
  <2>k. ASSUME NEW c \in Conns, NEW state, conn[c].pc # "append", UNCHANGED <<db, tx>>,
               conn' = [conn EXCEPT ![c] = state]
        PROVE  TxInv' /\ Sound(db')
    <3>1. tx # Free => tx.by # c
      BY <2>k DEF TxInv
    <3>2. tx # Free => conn'[tx.by] = conn[tx.by]
      BY <2>k, <2>t, <3>1 DEF PolicyTypeOK
    <3> QED
      BY <2>k, <3>2 DEF TxInv
  <2>c. conn \in [Conns -> ConnStates] /\ \A c \in Conns : conn[c] \in ConnStates
    BY DEF PolicyTypeOK
  <2> USE DEF At, Goes
  <2>3. ASSUME NEW c \in Conns, Accept(c) PROVE TxInv' /\ Sound(db')
    <3>1. PICK agent : conn' = [conn EXCEPT ![c].pc = "idle", ![c].agent = agent]
      BY <2>3 DEF Accept
    <3>2. conn' = [conn EXCEPT ![c] = [conn[c] EXCEPT !.pc = "idle", !.agent = agent]]
      BY <3>1 DEF PolicyTypeOK
    <3> QED
      BY <2>3, <2>k, <3>2 DEF Accept
  <2>4. ASSUME NEW c \in Conns, StartSession(c) PROVE TxInv' /\ Sound(db')
    <3>1. PICK q : conn' = [conn EXCEPT ![c].pc = "begin", ![c].q = q]
      BY <2>4 DEF StartSession
    <3>2. conn' = [conn EXCEPT ![c] = [conn[c] EXCEPT !.pc = "begin", !.q = q]]
      BY <3>1 DEF PolicyTypeOK
    <3> QED
      BY <2>4, <2>k, <3>2 DEF StartSession
  <2>5. ASSUME NEW c \in Conns, RefuseSession(c) \/ ReadFails(c) PROVE TxInv' /\ Sound(db')
    <3>1. PICK pc : conn' = [conn EXCEPT ![c].pc = pc]
      BY <2>5 DEF RefuseSession, ReadFails
    <3>2. conn' = [conn EXCEPT ![c] = [conn[c] EXCEPT !.pc = pc]]
      BY <3>1 DEF PolicyTypeOK
    <3> QED
      BY <2>5, <2>k, <3>2 DEF RefuseSession, ReadFails
  <2>6. ASSUME NEW c \in Conns, EndSession(c) PROVE TxInv' /\ Sound(db')
    <3>1. conn' = [conn EXCEPT ![c] = [conn[c] EXCEPT !.pc = "begin", !.q = EndEntry(conn[c].sid)]]
      BY <2>6 DEF EndSession, PolicyTypeOK
    <3> QED
      BY <2>6, <2>k, <3>1 DEF EndSession
  <2>7. ASSUME NEW c \in Conns, HangUp(c) PROVE TxInv' /\ Sound(db')
    <3>1. CASE UNCHANGED db
      BY <2>7, <2>k, <3>1 DEF HangUp
    <3>2. CASE tx = Free /\ db' = [db EXCEPT !.log = Append(@, EndEntry(conn[c].sid))]
      <4> DEFINE e == EndEntry(conn[c].sid)
      <4>1. e \in Entries /\ Valid(e) /\ e.kind = "session.end"
        BY <2>c DEF EndEntry, Blank, Entries, ConnStates, Valid
      <4> HIDE DEF e
      <4>2. Permitted(db, e) /\ Changed(db, e) = db /\ Recorded(db, e) = e
        BY <4>1 DEF Permitted, Changed, Recorded
      <4>3. db' = Stored(db, e)
        BY <3>2, <4>2 DEF Stored, e
      <4>4. Sound(db')
        BY <4>1, <4>2, <4>3, StoredIsSound DEF PolicyTypeOK
      <4> QED
        BY <2>7, <3>2, <4>4 DEF HangUp, TxInv
    <3> QED
      BY <2>7, <3>1, <3>2 DEF HangUp, Unlocked
  <2>8. ASSUME NEW c \in Conns, Administer(c) PROVE TxInv' /\ Sound(db')
    <3>1. PICK q \in Requests, pc \in {"begin", "idle"} :
             conn' = [conn EXCEPT ![c].purpose = Purpose(q), ![c].q = q, ![c].pc = pc]
      BY <2>8 DEF Administer, HandlePolicyAdd, HandlePolicyRemove,
         HandleBudgetSet, HandleBudgetRemove, HandleAgentAdd, HandleAgentRemove, Asked, Request
    <3>2. conn' = [conn EXCEPT ![c] = [conn[c] EXCEPT !.purpose = Purpose(q), !.q = q, !.pc = pc]]
      BY <3>1 DEF PolicyTypeOK
    <3> QED
      BY <2>8, <2>k, <3>2 DEF Administer, HandlePolicyAdd, HandlePolicyRemove,
         HandleBudgetSet, HandleBudgetRemove, HandleAgentAdd, HandleAgentRemove, Asked, Request
  <2>9. ASSUME NEW c \in Conns, Ask(c) PROVE TxInv' /\ Sound(db')
    <3>1. PICK q : conn' = [conn EXCEPT ![c].pc = "rules", ![c].since = Len(db.log), ![c].q = q]
      BY <2>9 DEF Ask
    <3>2. conn' = [conn EXCEPT ![c] = [conn[c] EXCEPT !.pc = "rules", !.since = Len(db.log), !.q = q]]
      BY <3>1 DEF PolicyTypeOK
    <3> QED
      BY <2>9, <2>k, <3>2 DEF Ask
  <2>10. ASSUME NEW c \in Conns, ReadRules(c) PROVE TxInv' /\ Sound(db')
    <3>1. CASE conn' = [conn EXCEPT ![c].pc = "begin", ![c].q.effect = "deny"]
      <4> DEFINE q == [conn[c].q EXCEPT !.effect = "deny"]
      <4>1. conn' = [conn EXCEPT ![c] = [conn[c] EXCEPT !.pc = "begin", !.q = q]]
        BY <3>1, <2>c
      <4> QED
        BY <2>10, <2>k, <4>1 DEF ReadRules
    <3>2. ASSUME NEW pc, Goes(c, pc) PROVE TxInv' /\ Sound(db')
      <4>1. conn' = [conn EXCEPT ![c] = [conn[c] EXCEPT !.pc = pc]]
        BY <3>2, <2>c DEF PolicyTypeOK
      <4> QED
        BY <2>10, <2>k, <4>1 DEF ReadRules
    <3> QED
      BY <2>10, <3>1, <3>2 DEF ReadRules
  <2>11. ASSUME NEW c \in Conns, CheckBudgets(c) PROVE TxInv' /\ Sound(db')
    <3>1. PICK d : conn' = [conn EXCEPT ![c].pc = "begin", ![c].q.effect = d]
      BY <2>11 DEF CheckBudgets
    <3> DEFINE q == [conn[c].q EXCEPT !.effect = d]
    <3>2. conn' = [conn EXCEPT ![c] = [conn[c] EXCEPT !.pc = "begin", !.q = q]]
      BY <3>1, <2>c
    <3> QED
      BY <2>11, <2>k, <3>2 DEF CheckBudgets
  <2>12. ASSUME NEW c \in Conns, Begin(c) PROVE TxInv' /\ Sound(db')
    <3> DEFINE q == conn[c].q
    <3>1. CASE ~Permitted(db, q)
      <4>1. conn' = [conn EXCEPT ![c] = [conn[c] EXCEPT !.pc = "idle"]] /\ UNCHANGED <<db, tx>>
        BY <2>12, <3>1 DEF Begin, PolicyTypeOK
      <4> QED
        BY <2>12, <2>k, <4>1 DEF Begin
    <3>2. CASE Permitted(db, q)
      <4>1. q \in Entries /\ Valid(q)
        BY <2>12 DEF Begin, PolicyTypeOK, Valid
      <4>2. /\ tx' = [by |-> c, view |-> Changed(db, q)] /\ db' = db
            /\ conn' = [conn EXCEPT ![c].pc = "append", ![c].q = Recorded(db, q)]
        BY <2>12, <3>2 DEF Begin, Pending
      <4>3. conn'[c].pc = "append" /\ conn'[c].q = Recorded(db, q)
        BY <4>2, <2>c DEF PolicyTypeOK, ConnStates
      <4> QED
        BY <3>2, <4>1, <4>2, <4>3 DEF TxInv
    <3> QED
      BY <3>1, <3>2
  <2>13. ASSUME NEW c \in Conns, Commit(c) PROVE TxInv' /\ Sound(db')
    <3>1. tx # Free /\ tx.by = c
      BY <2>13 DEF Commit, PolicyTypeOK
    <3>2. PICK q \in Entries : /\ Valid(q) /\ Permitted(db, q)
                              /\ tx.view = Changed(db, q) /\ conn[c].q = Recorded(db, q)
      BY <3>1 DEF TxInv
    <3>3. Changed(db, q).log = db.log
      BY <3>2 DEF Changed, AddRule, RemoveRule, AddBudget, RemoveBudget, AddAgent, RemoveAgent,
         PolicyTypeOK, Views, RuleRows
    <3>4. db' = Stored(db, q)
      BY <2>13, <3>2, <3>3 DEF Commit, Stored
    <3>5. Sound(db')
      BY <3>2, <3>4, StoredIsSound DEF PolicyTypeOK
    <3> QED
      BY <2>13, <3>5 DEF Commit, TxInv
  <2>14. ASSUME NEW c \in Conns, Fail(c) PROVE TxInv' /\ Sound(db')
    BY <2>14 DEF Fail, TxInv
  <2> QED
    BY <2>1, <2>2, <2>3, <2>4, <2>5, <2>6, <2>7, <2>8, <2>9, <2>10, <2>11, <2>12, <2>13, <2>14
    DEF PolicyNext, Serve
<1> QED
  BY <1>1, <1>2, PolicyTypeCorrect, PTL DEF PolicySpec

\* No rule, budget or enrolment without its entry, and no entry without its
\* effect, however requests interleave, fail and crash (TablesFollowJournal).
THEOREM TablesAlwaysFollow == PolicySpec => []TablesFollowJournal
<1>1. Sound(db) => TablesFollowJournal
  BY DEF Sound, RulesFollow, BudgetsFollow, AgentsFollow, TablesFollowJournal
<1> QED
  BY <1>1, PolicyInvHolds, PTL

\* A scope never holds two rules or two budgets (OneScopeOneRule).
THEOREM ScopesAreUnique == PolicySpec => []OneScopeOneRule
<1>1. Sound(db) => OneScopeOneRule
  BY DEF Sound, Unique, OneScopeOneRule
<1> QED
  BY <1>1, PolicyInvHolds, PTL

\* An executable is never enrolled under two names (OneImageOneName).
THEOREM ImagesAreUnique == PolicySpec => []OneImageOneName
<1>1. Sound(db) => OneImageOneName
  BY DEF Sound, Unique, OneImageOneName
<1> QED
  BY <1>1, PolicyInvHolds, PTL

-----------------------------------------------------------------------------
(***************************************************************************)
(* A session id names one story.  An id is in live from its claim until    *)
(* its connection is done with it, and in the journal from then on.        *)
(***************************************************************************)

StartedIn(log, s) == \E i \in DOMAIN log : log[i].kind = "session.start" /\ log[i].sid = s
EndedIn(log, s)   == \E i \in DOMAIN log : log[i].kind = "session.end" /\ log[i].sid = s
Told(log, s)      == \E i \in DOMAIN log : log[i].sid = s

\* the session's start says who the connection is
StartedAs(log, u) ==
    \E i \in DOMAIN log :
        /\ log[i].kind = "session.start" /\ log[i].sid = u.sid
        /\ log[i].agent = u.agent /\ log[i].connector = u.connector

Story(log) ==
    \A i \in DOMAIN log : log[i].sid # None =>
        /\ log[i].kind = "session.start" <=> ~\E j \in 1 .. i - 1 : log[j].sid = log[i].sid
        /\ ~\E j \in 1 .. i - 1 : log[j].sid = log[i].sid /\ log[j].kind = "session.end"

OfSession == {"session.start", "session.end", "call.request"}
Busy      == {"rules", "budgets", "begin", "append"}

Opening(u) == u.pc \in {"begin", "append"} /\ u.q.kind = "session.start"

\* the id a connection has claimed
OwnSid(u) == IF u.sid # None THEN u.sid ELSE IF Opening(u) THEN u.q.sid ELSE None

\* What a connection knows of its session: it is under way, or about to start.
SessionOK(u, log) ==
    /\ u.pc = "new" => u.sid = None
    /\ u.sid # None => StartedAs(log, u) /\ ~EndedIn(log, u.sid)
    /\ Opening(u) =>
         u.sid = None /\ u.q.sid # None /\ ~Told(log, u.q.sid) /\ u.q.agent = u.agent
    /\ u.pc \in Busy /\ u.q.kind \in OfSession \ {"session.start"} => u.q.sid = u.sid /\ u.sid # None
    /\ u.pc \in Busy /\ u.q.kind \notin OfSession => u.q.sid = None
    /\ u.pc \in {"rules", "budgets"} => u.q.kind = "call.request"

StoryInv ==
    /\ Story(db.log)
    /\ \A s \in Sessions : Told(db.log, s) => StartedIn(db.log, s)
    /\ \A c \in Conns : SessionOK(conn[c], db.log)
    /\ \A c \in Conns : OwnSid(conn[c]) # None => OwnSid(conn[c]) \in live
    /\ \A c, d \in Conns : c # d /\ OwnSid(conn[c]) # None => OwnSid(conn[c]) # OwnSid(conn[d])

\* What one more entry tells.
LEMMA ToldAppend ==
    ASSUME NEW log \in Seq(Entries), NEW e \in Entries, NEW s
    PROVE  /\ Told(Append(log, e), s) <=> Told(log, s) \/ e.sid = s
           /\ EndedIn(Append(log, e), s) <=> EndedIn(log, s) \/ (e.sid = s /\ e.kind = "session.end")
           /\ StartedIn(Append(log, e), s) <=>
                StartedIn(log, s) \/ (e.sid = s /\ e.kind = "session.start")
<1> DEFINE n == Len(log)
           longer == Append(log, e)
<1>1. n \in Nat /\ DOMAIN log = 1 .. n /\ DOMAIN longer = 1 .. n + 1
      /\ longer[n + 1] = e /\ \A i \in 1 .. n : longer[i] = log[i]
  OBVIOUS
<1> HIDE DEF n, longer
<1>2. \A i \in 1 .. n + 1 : i \in 1 .. n \/ i = n + 1
  BY <1>1
<1>3. n + 1 \in 1 .. n + 1 /\ \A i \in 1 .. n : i \in 1 .. n + 1
  BY <1>1
<1>4. Told(longer, s) <=> Told(log, s) \/ e.sid = s
  BY <1>1, <1>2, <1>3 DEF Told
<1>5. EndedIn(longer, s) <=> EndedIn(log, s) \/ (e.sid = s /\ e.kind = "session.end")
  BY <1>1, <1>2, <1>3 DEF EndedIn
<1>6. StartedIn(longer, s) <=> StartedIn(log, s) \/ (e.sid = s /\ e.kind = "session.start")
  BY <1>1, <1>2, <1>3 DEF StartedIn
<1> QED
  BY <1>4, <1>5, <1>6 DEF longer

\* A session already started as a connection's stays so.
LEMMA StartedAppend ==
    ASSUME NEW log \in Seq(Entries), NEW e \in Entries, NEW u
    PROVE  /\ StartedAs(log, u) => StartedAs(Append(log, e), u)
           /\ /\ e.kind = "session.start" /\ e.sid = u.sid
              /\ e.agent = u.agent /\ e.connector = u.connector
              => StartedAs(Append(log, e), u)
<1> DEFINE n == Len(log)
           longer == Append(log, e)
<1>1. n \in Nat /\ DOMAIN log = 1 .. n /\ DOMAIN longer = 1 .. n + 1
      /\ longer[n + 1] = e /\ \A i \in 1 .. n : longer[i] = log[i]
  OBVIOUS
<1> HIDE DEF n, longer
<1>2. n + 1 \in 1 .. n + 1 /\ \A i \in 1 .. n : i \in 1 .. n + 1
  BY <1>1
<1>3. StartedAs(log, u) => StartedAs(longer, u)
  BY <1>1, <1>2 DEF StartedAs
<1>4. /\ e.kind = "session.start" /\ e.sid = u.sid
      /\ e.agent = u.agent /\ e.connector = u.connector
      => StartedAs(longer, u)
  BY <1>1, <1>2 DEF StartedAs
<1> QED
  BY <1>3, <1>4 DEF longer

\* An entry in its place continues every story.
LEMMA StoryAppend ==
    ASSUME NEW log \in Seq(Entries), NEW e \in Entries, Story(log),
           e.sid # None => /\ e.kind = "session.start" <=> ~Told(log, e.sid)
                           /\ ~EndedIn(log, e.sid)
    PROVE  Story(Append(log, e))
<1> DEFINE n == Len(log)
           longer == Append(log, e)
<1>1. n \in Nat /\ DOMAIN log = 1 .. n /\ DOMAIN longer = 1 .. n + 1
      /\ longer[n + 1] = e /\ \A i \in 1 .. n : longer[i] = log[i]
  OBVIOUS
<1> HIDE DEF n, longer
<1>2. SUFFICES ASSUME NEW i \in 1 .. n + 1, longer[i].sid # None
               PROVE  /\ longer[i].kind = "session.start" <=>
                            ~\E j \in 1 .. i - 1 : longer[j].sid = longer[i].sid
                      /\ ~\E j \in 1 .. i - 1 : /\ longer[j].sid = longer[i].sid
                                                /\ longer[j].kind = "session.end"
  BY <1>1 DEF Story, longer
<1>3. CASE i = n + 1
  <2>1. i - 1 = n /\ \A j \in 1 .. n : longer[j] = log[j]
    BY <1>1, <1>3
  <2> QED
    BY <1>1, <1>2, <1>3, <2>1 DEF Told, EndedIn
<1>4. CASE i \in 1 .. n
  <2>1. longer[i] = log[i] /\ \A j \in 1 .. i - 1 : longer[j] = log[j]
    BY <1>1, <1>4
  <2> QED
    BY <1>1, <1>2, <1>4, <2>1 DEF Story
<1> QED
  BY <1>1, <1>3, <1>4

\* An entry of another session changes nothing for this one.
LEMMA OthersKeepTheirs ==
    ASSUME NEW log \in Seq(Entries), NEW e \in Entries, NEW u,
           SessionOK(u, log), e.sid # None => e.sid # OwnSid(u)
    PROVE  SessionOK(u, Append(log, e))
<1>1. u.sid # None => StartedAs(Append(log, e), u) /\ ~EndedIn(Append(log, e), u.sid)
  BY StartedAppend, ToldAppend DEF SessionOK, OwnSid
<1>2. Opening(u) => ~Told(Append(log, e), u.q.sid)
  BY ToldAppend DEF SessionOK, OwnSid
<1> QED
  BY <1>1, <1>2 DEF SessionOK

\* A step of one connection that claims nothing and records nothing.
LEMMA LocalStep ==
    ASSUME PolicyTypeOK, StoryInv, NEW c \in Conns, NEW u, conn' = [conn EXCEPT ![c] = u],
           UNCHANGED <<db, live>>, SessionOK(u, db.log), OwnSid(u) \in {None, OwnSid(conn[c])}
    PROVE  StoryInv'
<1>1. conn'[c] = u /\ \A d \in Conns : d # c => conn'[d] = conn[d]
  BY DEF PolicyTypeOK
<1>2. \A d \in Conns : OwnSid(conn'[d]) \in {None, OwnSid(conn[d])}
  BY <1>1
<1>3. \A d \in Conns : SessionOK(conn'[d], db.log)
  BY <1>1 DEF StoryInv
<1>4. \A d, e \in Conns : d # e /\ OwnSid(conn'[d]) # None => OwnSid(conn'[d]) # OwnSid(conn'[e])
  BY <1>2 DEF StoryInv
<1> QED
  BY <1>2, <1>3, <1>4 DEF StoryInv

\* A step of one connection that records e, and perhaps claims or releases.
LEMMA RecordingStep ==
    ASSUME PolicyTypeOK, StoryInv, NEW c \in Conns, NEW u, conn' = [conn EXCEPT ![c] = u],
           NEW e \in Entries, db'.log = Append(db.log, e),
           e.sid \in {None, OwnSid(conn[c])},
           e.sid # None => /\ e.kind = "session.start" <=> ~Told(db.log, e.sid)
                           /\ ~EndedIn(db.log, e.sid),
           SessionOK(u, db'.log), OwnSid(u) \in {None, OwnSid(conn[c])},
           \/ live' = live
           \/ OwnSid(u) = None /\ live' = live \ {OwnSid(conn[c])}
    PROVE  StoryInv'
<1>0. db.log \in Seq(Entries)
  BY DEF PolicyTypeOK, Views, RuleRows
<1>1. conn'[c] = u /\ \A d \in Conns : d # c => conn'[d] = conn[d]
  BY DEF PolicyTypeOK
<1>2. \A d \in Conns : OwnSid(conn'[d]) \in {None, OwnSid(conn[d])}
  BY <1>1
<1>3. \A d \in Conns : SessionOK(conn'[d], db'.log)
  <2> TAKE d \in Conns
  <2>1. CASE d = c
    BY <1>1, <2>1
  <2>2. CASE d # c
    <3>1. SessionOK(conn[d], db.log) /\ (e.sid # None => e.sid # OwnSid(conn[d]))
      BY <2>2 DEF StoryInv
    <3> QED
      BY <1>0, <1>1, <2>2, <3>1, OthersKeepTheirs
  <2> QED
    BY <2>1, <2>2
<1>4. \A d, f \in Conns : d # f /\ OwnSid(conn'[d]) # None => OwnSid(conn'[d]) # OwnSid(conn'[f])
  BY <1>2 DEF StoryInv
<1>5. \A d \in Conns : OwnSid(conn'[d]) # None => OwnSid(conn'[d]) \in live'
  <2> TAKE d \in Conns
  <2>1. CASE d = c
    BY <1>1, <1>2, <2>1 DEF StoryInv
  <2>2. CASE d # c
    BY <1>1, <1>2, <2>2 DEF StoryInv
  <2> QED
    BY <2>1, <2>2
<1>6. Story(db'.log)
  BY <1>0, StoryAppend DEF StoryInv
<1>7. ASSUME NEW s \in Sessions, Told(db'.log, s) PROVE StartedIn(db'.log, s)
  <2>1. Told(db.log, s) \/ e.sid = s
    BY <1>0, <1>7, ToldAppend
  <2>2. StartedIn(db.log, s) \/ (e.sid = s /\ e.kind = "session.start")
    BY <2>1, PolicyAssumption DEF StoryInv
  <2> QED
    BY <1>0, <2>2, ToldAppend
<1> QED
  BY <1>3, <1>4, <1>5, <1>6, <1>7 DEF StoryInv

\* What is committed is the journal with the connection's entry.
LEMMA CommitAppends ==
    ASSUME PolicyTypeOK, TxInv, NEW c \in Conns, Commit(c)
    PROVE  db'.log = Append(db.log, conn[c].q)
<1>1. tx # Free /\ tx.by = c /\ tx.view \in Views
  BY DEF Commit, PolicyTypeOK, At
<1>2. PICK q \in Entries : tx.view = Changed(db, q)
  BY <1>1 DEF TxInv
<1>3. Changed(db, q).log = db.log
  BY DEF Changed, AddRule, RemoveRule, AddBudget, RemoveBudget, AddAgent, RemoveAgent,
     PolicyTypeOK, Views, RuleRows
<1>4. db' = [tx.view EXCEPT !.log = Append(tx.view.log, conn[c].q)]
  BY DEF Commit
<1> QED
  BY <1>1, <1>2, <1>3, <1>4 DEF Views, RuleRows

\* What a change records of a request leaves its kind and its session.
LEMMA RecordedAsAsked ==
    ASSUME NEW view, NEW q \in Entries
    PROVE  /\ Recorded(view, q).kind = q.kind /\ Recorded(view, q).sid = q.sid
           /\ q.kind \in OfSession => Recorded(view, q) = q
BY DEF Recorded, Entries, OfSession

\* Every step of every handler keeps the stories whole.
LEMMA StoryInvInductive ==
    ASSUME PolicyTypeOK, PolicyTypeOK', TxInv, StoryInv, [PolicyNext]_vars
    PROVE  StoryInv'
<1> USE PolicyAssumption DEF At, Goes
<1>t. /\ conn \in [Conns -> ConnStates] /\ \A c \in Conns : conn[c] \in ConnStates
      /\ \A c \in Conns : conn[c].pc \in Busy => conn[c].q \in Entries
      /\ db.log \in Seq(Entries) /\ live \subseteq Sessions
  BY DEF PolicyTypeOK, Views, RuleRows, Busy, Valid
<1>s. \A c \in Conns : SessionOK(conn[c], db.log)
  BY DEF StoryInv
<1>1. CASE UNCHANGED vars
  BY <1>1 DEF vars, StoryInv
<1>2. CASE Restart
  <2>1. \A c \in Conns : conn'[c].sid = None /\ conn'[c].pc \in {"new", "closed"}
    BY <1>2, <1>t DEF Restart, Fresh
  <2>2. \A c \in Conns : OwnSid(conn'[c]) = None /\ SessionOK(conn'[c], db.log)
    BY <2>1 DEF OwnSid, Opening, SessionOK, Busy
  <2> QED
    BY <1>2, <2>2 DEF Restart, StoryInv
<1>3. ASSUME NEW c \in Conns, Accept(c) PROVE StoryInv'
  <2>1. PICK agent : conn' = [conn EXCEPT ![c].pc = "idle", ![c].agent = agent]
    BY <1>3 DEF Accept
  <2> DEFINE u == [conn[c] EXCEPT !.pc = "idle", !.agent = agent]
  <2>2. conn' = [conn EXCEPT ![c] = u] /\ UNCHANGED <<db, live>>
    BY <1>3, <1>t, <2>1 DEF Accept
  <2>3. u.pc = "idle" /\ u.sid = None
    BY <1>3, <1>t, <1>s DEF Accept, SessionOK, ConnStates
  <2>4. SessionOK(u, db.log) /\ OwnSid(u) = None
    <3> HIDE DEF u
    <3> QED
      BY <2>3 DEF SessionOK, OwnSid, Opening, Busy
  <2> HIDE DEF u
  <2> QED
    BY <2>2, <2>4, LocalStep
<1>4. ASSUME NEW c \in Conns, StartSession(c) PROVE StoryInv'
  <2>1. PICK s \in Sessions, k \in Connectors :
           /\ Claimable(s)
           /\ conn' = [conn EXCEPT ![c].pc = "begin",
                           ![c].q = [Blank EXCEPT !.kind = "session.start", !.sid = s,
                                         !.agent = conn[c].agent, !.connector = k]]
           /\ live' = live \cup {s}
    BY <1>4 DEF StartSession
  <2> DEFINE q == [Blank EXCEPT !.kind = "session.start", !.sid = s,
                                !.agent = conn[c].agent, !.connector = k]
             u == [conn[c] EXCEPT !.pc = "begin", !.q = q]
  <2>2. conn' = [conn EXCEPT ![c] = u] /\ db' = db /\ conn[c].sid = None
    BY <1>4, <1>t, <2>1 DEF StartSession
  <2>3. q.kind = "session.start" /\ q.sid = s /\ q.agent = conn[c].agent
    BY DEF Blank
  <2> HIDE DEF q
  <2>4. u.pc = "begin" /\ u.q = q /\ u.sid = None /\ u.agent = conn[c].agent
    BY <1>t, <2>2 DEF ConnStates
  <2> HIDE DEF u
  <2>5. s \notin live /\ ~Told(db.log, s) /\ s # None
    BY <2>1 DEF Claimable, StoryInv, StartedIn
  <2>6. SessionOK(u, db.log) /\ OwnSid(u) = s
    BY <2>3, <2>4, <2>5 DEF SessionOK, OwnSid, Opening, OfSession
  <2>7. conn'[c] = u /\ \A d \in Conns : d # c => conn'[d] = conn[d]
    BY <1>t, <2>2
  <2>8. \A d \in Conns : SessionOK(conn'[d], db'.log)
    BY <1>s, <2>2, <2>6, <2>7
  <2>9. \A d \in Conns : d # c => OwnSid(conn[d]) # s
    BY <2>5 DEF StoryInv
  <2>10. ASSUME NEW d \in Conns, OwnSid(conn'[d]) # None PROVE OwnSid(conn'[d]) \in live'
    <3>1. live' = live \cup {s}
      BY <2>1
    <3>2. CASE d = c
      BY <2>6, <2>7, <3>1, <3>2
    <3>3. CASE d # c
      <4>1. conn'[d] = conn[d]
        BY <2>7, <3>3
      <4>2. OwnSid(conn[d]) \in live
        BY <2>10, <4>1 DEF StoryInv
      <4> QED
        BY <3>1, <4>1, <4>2
    <3> QED
      BY <3>2, <3>3
  <2>11. \A d, e \in Conns : d # e /\ OwnSid(conn'[d]) # None => OwnSid(conn'[d]) # OwnSid(conn'[e])
    <3> TAKE d, e \in Conns
    <3>1. CASE d = c \/ e = c
      BY <2>6, <2>7, <2>9, <3>1
    <3>2. CASE d # c /\ e # c
      BY <2>7, <3>2 DEF StoryInv
    <3> QED
      BY <3>1, <3>2
  <2> QED
    BY <2>2, <2>8, <2>10, <2>11 DEF StoryInv
\* Steps to a point at which nothing of a session is in hand.
<1>r. ASSUME NEW c \in Conns, NEW pc \in {"idle", "closed"}, Goes(c, pc), UNCHANGED <<db, live>>,
             conn[c].pc # "new"
      PROVE  StoryInv'
  <2> DEFINE u == [conn[c] EXCEPT !.pc = pc]
  <2>1. conn' = [conn EXCEPT ![c] = u] /\ u.pc = pc /\ u.sid = conn[c].sid
        /\ u.agent = conn[c].agent /\ u.connector = conn[c].connector
    BY <1>r, <1>t DEF ConnStates
  <2> HIDE DEF u
  <2>2. SessionOK(u, db.log) /\ OwnSid(u) \in {None, OwnSid(conn[c])}
    BY <1>s, <2>1 DEF SessionOK, OwnSid, Opening, Busy, StartedAs
  <2> QED
    BY <1>r, <2>1, <2>2, LocalStep
<1>5. ASSUME NEW c \in Conns, EndSession(c) PROVE StoryInv'
  <2> DEFINE q == EndEntry(conn[c].sid)
             u == [conn[c] EXCEPT !.pc = "begin", !.q = q]
  <2>1. conn' = [conn EXCEPT ![c] = u] /\ UNCHANGED <<db, live>> /\ conn[c].sid # None
    BY <1>5, <1>t DEF EndSession
  <2>2. q.kind = "session.end" /\ q.sid = conn[c].sid
    BY DEF EndEntry, Blank
  <2> HIDE DEF q
  <2>3. u.pc = "begin" /\ u.q = q /\ u.sid = conn[c].sid
        /\ u.agent = conn[c].agent /\ u.connector = conn[c].connector
    BY <1>t DEF ConnStates
  <2> HIDE DEF u
  <2>4. SessionOK(u, db.log) /\ OwnSid(u) = OwnSid(conn[c])
    BY <1>s, <2>1, <2>2, <2>3 DEF SessionOK, OwnSid, Opening, OfSession, StartedAs
  <2> QED
    BY <2>1, <2>4, LocalStep
<1>6. ASSUME NEW c \in Conns, HangUp(c) PROVE StoryInv'
  <2> DEFINE u == [Fresh EXCEPT !.pc = "closed"]
  <2>1. conn' = [conn EXCEPT ![c] = u] /\ live' = live \ {conn[c].sid}
        /\ conn[c].pc = "idle"
    BY <1>6 DEF HangUp
  <2>2. u.pc = "closed" /\ u.sid = None
    BY DEF Fresh
  <2> HIDE DEF u
  <2>3. OwnSid(u) = None /\ \A log : SessionOK(u, log)
    BY <2>2 DEF SessionOK, OwnSid, Opening, Busy
  <2>4. OwnSid(conn[c]) = conn[c].sid
    BY <2>1 DEF OwnSid, Opening
  <2>5. CASE UNCHANGED db
    <3>1. conn'[c] = u /\ \A d \in Conns : d # c => conn'[d] = conn[d]
      BY <1>t, <2>1
    <3>2. \A d \in Conns : SessionOK(conn'[d], db'.log) /\ OwnSid(conn'[d]) \in {None, OwnSid(conn[d])}
      BY <1>s, <2>3, <2>5, <3>1
    <3>3. \A d \in Conns : OwnSid(conn'[d]) # None => OwnSid(conn'[d]) \in live'
      BY <2>1, <2>3, <2>4, <3>1 DEF StoryInv
    <3>4. \A d, e \in Conns : d # e /\ OwnSid(conn'[d]) # None => OwnSid(conn'[d]) # OwnSid(conn'[e])
      BY <3>2 DEF StoryInv
    <3> QED
      BY <2>5, <3>2, <3>3, <3>4 DEF StoryInv
  <2>6. CASE conn[c].sid # None /\ db' = [db EXCEPT !.log = Append(@, EndEntry(conn[c].sid))]
    <3> DEFINE e == EndEntry(conn[c].sid)
    <3>1. e \in Entries /\ e.kind = "session.end" /\ e.sid = conn[c].sid
      BY <1>t DEF EndEntry, Blank, Entries, ConnStates
    <3>2. db'.log = Append(db.log, e)
      BY <2>6 DEF PolicyTypeOK, Views, RuleRows
    <3> HIDE DEF e
    <3>3. StartedAs(db.log, conn[c]) /\ ~EndedIn(db.log, e.sid)
      BY <1>s, <2>6, <3>1 DEF SessionOK
    <3>4. Told(db.log, e.sid)
      BY <3>1, <3>3 DEF StartedAs, Told
    <3> QED
      BY <2>1, <2>3, <2>4, <3>1, <3>2, <3>3, <3>4, RecordingStep
  <2> QED
    BY <1>6, <2>5, <2>6 DEF HangUp
<1>7. ASSUME NEW c \in Conns, Administer(c) PROVE StoryInv'
  <2>1. PICK q \in Requests, pc \in {"begin", "idle"} :
           conn' = [conn EXCEPT ![c].purpose = Purpose(q), ![c].q = q, ![c].pc = pc]
    BY <1>7 DEF Administer, HandlePolicyAdd, HandlePolicyRemove,
       HandleBudgetSet, HandleBudgetRemove, HandleAgentAdd, HandleAgentRemove, Asked, Request
  <2> DEFINE u == [conn[c] EXCEPT !.purpose = Purpose(q), !.q = q, !.pc = pc]
  <2>2. UNCHANGED <<db, live>> /\ conn[c].pc = "idle"
    BY <1>7 DEF Administer, HandlePolicyAdd, HandlePolicyRemove,
       HandleBudgetSet, HandleBudgetRemove, HandleAgentAdd, HandleAgentRemove, Asked, Request
  <2>3. conn' = [conn EXCEPT ![c] = u] /\ u.pc = pc /\ u.q = q /\ u.sid = conn[c].sid
        /\ u.agent = conn[c].agent /\ u.connector = conn[c].connector
    BY <1>t, <2>1 DEF ConnStates
  <2>4. q.sid = None /\ q.kind \notin OfSession
    BY DEF OfSession
  <2> HIDE DEF u
  <2>5. SessionOK(u, db.log) /\ OwnSid(u) = OwnSid(conn[c])
    BY <1>s, <2>2, <2>3, <2>4 DEF SessionOK, OwnSid, Opening, OfSession, StartedAs, Busy
  <2> QED
    BY <2>2, <2>3, <2>5, LocalStep
<1>8. ASSUME NEW c \in Conns, Ask(c) PROVE StoryInv'
  <2>1. PICK tool \in Calls :
           conn' = [conn EXCEPT ![c].pc = "rules", ![c].since = Len(db.log),
                       ![c].q = [Blank EXCEPT !.kind = "call.request", !.sid = conn[c].sid,
                                     !.tool = tool]]
    BY <1>8 DEF Ask
  <2> DEFINE q == [Blank EXCEPT !.kind = "call.request", !.sid = conn[c].sid, !.tool = tool]
             u == [conn[c] EXCEPT !.pc = "rules", !.since = Len(db.log), !.q = q]
  <2>2. UNCHANGED <<db, live>> /\ conn[c].pc = "idle" /\ conn[c].sid # None
        /\ conn' = [conn EXCEPT ![c] = u]
    BY <1>8, <1>t, <2>1 DEF Ask
  <2>3. q.kind = "call.request" /\ q.sid = conn[c].sid
    BY DEF Blank
  <2> HIDE DEF q
  <2>4. u.pc = "rules" /\ u.q = q /\ u.sid = conn[c].sid
        /\ u.agent = conn[c].agent /\ u.connector = conn[c].connector
    BY <1>t DEF ConnStates
  <2> HIDE DEF u
  <2>5. SessionOK(u, db.log) /\ OwnSid(u) = OwnSid(conn[c])
    BY <1>s, <2>2, <2>3, <2>4 DEF SessionOK, OwnSid, Opening, OfSession, StartedAs, Busy
  <2> QED
    BY <2>2, <2>5, LocalStep
\* A decision goes on with its call.
<1>d. ASSUME NEW c \in Conns, NEW q \in Entries, NEW pc \in {"budgets", "begin"},
             conn[c].pc \in {"rules", "budgets"}, q.kind = conn[c].q.kind, q.sid = conn[c].q.sid,
             conn[c].q.kind # "session.start",
             conn' = [conn EXCEPT ![c] = [conn[c] EXCEPT !.pc = pc, !.q = q]], UNCHANGED <<db, live>>
      PROVE  StoryInv'
  <2> DEFINE u == [conn[c] EXCEPT !.pc = pc, !.q = q]
  <2>1. u.pc = pc /\ u.q = q /\ u.sid = conn[c].sid
        /\ u.agent = conn[c].agent /\ u.connector = conn[c].connector
    BY <1>t DEF ConnStates
  <2>2. conn' = [conn EXCEPT ![c] = u]
    BY <1>d
  <2> HIDE DEF u
  <2>3. SessionOK(u, db.log) /\ OwnSid(u) = OwnSid(conn[c])
    BY <1>s, <1>d, <2>1 DEF SessionOK, OwnSid, Opening, OfSession, StartedAs, Busy
  <2> QED
    BY <1>d, <2>2, <2>3, LocalStep
<1>9. ASSUME NEW c \in Conns, ReadRules(c) PROVE StoryInv'
  <2>1. conn[c].pc = "rules" /\ conn[c].q.kind = "call.request" /\ UNCHANGED <<db, live>>
    BY <1>9, <1>s DEF ReadRules, SessionOK
  <2> DEFINE q == [conn[c].q EXCEPT !.effect = "deny"]
  <2>2. q \in Entries /\ q.kind = conn[c].q.kind /\ q.sid = conn[c].q.sid
    BY <1>t, <2>1 DEF Busy, Entries, Effects
  <2>3. CASE conn' = [conn EXCEPT ![c].pc = "begin", ![c].q.effect = "deny"]
    <3>1. conn' = [conn EXCEPT ![c] = [conn[c] EXCEPT !.pc = "begin", !.q = q]]
      BY <1>t, <2>3
    <3> HIDE DEF q
    <3> QED
      BY <1>d, <2>1, <2>2, <3>1
  <2>4. CASE Goes(c, "budgets")
    <3>1. conn' = [conn EXCEPT ![c] = [conn[c] EXCEPT !.pc = "budgets", !.q = conn[c].q]]
      BY <1>t, <2>4 DEF ConnStates
    <3> QED
      BY <1>d, <1>t, <2>1, <3>1 DEF Busy
  <2>5. CASE Goes(c, "idle")
    BY <1>r, <2>1, <2>5
  <2> QED
    BY <1>9, <2>3, <2>4, <2>5 DEF ReadRules
<1>10. ASSUME NEW c \in Conns, CheckBudgets(c) PROVE StoryInv'
  <2>1. conn[c].pc = "budgets" /\ conn[c].q.kind = "call.request" /\ UNCHANGED <<db, live>>
    BY <1>10, <1>s DEF CheckBudgets, SessionOK
  <2>2. PICK effect \in Effects : conn' = [conn EXCEPT ![c].pc = "begin", ![c].q.effect = effect]
    BY <1>10 DEF CheckBudgets, Effects
  <2> DEFINE q == [conn[c].q EXCEPT !.effect = effect]
  <2>3. q \in Entries /\ q.kind = conn[c].q.kind /\ q.sid = conn[c].q.sid
    BY <1>t, <2>1 DEF Busy, Entries
  <2>4. conn' = [conn EXCEPT ![c] = [conn[c] EXCEPT !.pc = "begin", !.q = q]]
    BY <1>t, <2>2
  <2> HIDE DEF q
  <2> QED
    BY <1>d, <2>1, <2>3, <2>4
<1>11. ASSUME NEW c \in Conns, RefuseSession(c) \/ ReadFails(c) PROVE StoryInv'
  BY <1>r, <1>11 DEF RefuseSession, ReadFails
<1>12. ASSUME NEW c \in Conns, Begin(c) PROVE StoryInv'
  <2> DEFINE q == conn[c].q
  <2>1. conn[c].pc = "begin" /\ UNCHANGED <<db, live>> /\ q \in Entries
    BY <1>12, <1>t DEF Begin, Pending, Busy
  <2>2. CASE Goes(c, "idle")
    BY <1>r, <2>1, <2>2
  <2>3. CASE conn' = [conn EXCEPT ![c].pc = "append", ![c].q = Recorded(db, conn[c].q)]
    <3> DEFINE u == [conn[c] EXCEPT !.pc = "append", !.q = Recorded(db, q)]
    <3>1. conn' = [conn EXCEPT ![c] = u]
      BY <1>t, <2>3
    <3>2. u.pc = "append" /\ u.q = Recorded(db, q) /\ u.sid = conn[c].sid
          /\ u.agent = conn[c].agent /\ u.connector = conn[c].connector
      BY <1>t DEF ConnStates
    <3>3. u.q.kind = q.kind /\ u.q.sid = q.sid /\ (q.kind \in OfSession => u.q = q)
      BY <2>1, <3>2, RecordedAsAsked
    <3> HIDE DEF u
    <3>4. SessionOK(u, db.log) /\ OwnSid(u) = OwnSid(conn[c])
      BY <1>s, <2>1, <3>2, <3>3 DEF SessionOK, OwnSid, Opening, OfSession, StartedAs, Busy
    <3> QED
      BY <2>1, <3>1, <3>4, LocalStep
  <2> QED
    BY <1>12, <2>2, <2>3 DEF Begin
<1>13. ASSUME NEW c \in Conns, Commit(c) PROVE StoryInv'
  <2> DEFINE q == conn[c].q
  <2>1. db'.log = Append(db.log, q) /\ q \in Entries /\ conn[c].pc = "append"
    BY <1>13, <1>t, CommitAppends DEF Commit, Busy
  <2>2. SessionOK(conn[c], db.log) /\ conn[c] \in ConnStates
    BY <1>s, <1>t
  <2>3. CASE q.kind = "session.start"
    <3> DEFINE u == [conn[c] EXCEPT !.pc = "idle", !.sid = q.sid, !.connector = q.connector]
    <3>1. conn' = [conn EXCEPT ![c] = u] /\ live' = live
      BY <1>13, <1>t, <2>3 DEF Commit
    <3>2. u.pc = "idle" /\ u.sid = q.sid /\ u.connector = q.connector /\ u.agent = conn[c].agent
      BY <1>t DEF ConnStates
    <3> HIDE DEF u
    <3>3. q.sid # None /\ q.sid = OwnSid(conn[c]) /\ ~Told(db.log, q.sid) /\ q.agent = u.agent
      BY <2>1, <2>2, <2>3, <3>2 DEF SessionOK, OwnSid, Opening
    <3>4. ~EndedIn(db.log, q.sid) /\ ~EndedIn(db'.log, q.sid)
      <4>1. ~EndedIn(db.log, q.sid)
        BY <3>3 DEF Told, EndedIn
      <4> QED
        BY <1>t, <2>1, <2>3, <4>1, ToldAppend
    <3>5. StartedAs(db'.log, u)
      BY <1>t, <2>1, <2>3, <3>2, <3>3, StartedAppend
    <3>6. SessionOK(u, db'.log) /\ OwnSid(u) = OwnSid(conn[c])
      BY <3>2, <3>3, <3>4, <3>5 DEF SessionOK, OwnSid, Opening, Busy
    <3> QED
      BY <2>1, <2>3, <3>1, <3>3, <3>4, <3>6, RecordingStep
  <2>4. CASE q.kind = "session.end"
    <3> DEFINE u == [conn[c] EXCEPT !.pc = "idle", !.sid = None, !.connector = None]
    <3>1. conn' = [conn EXCEPT ![c] = u] /\ live' = live \ {q.sid}
      BY <1>13, <1>t, <2>4 DEF Commit
    <3>2. u.pc = "idle" /\ u.sid = None
      BY <1>t DEF ConnStates
    <3> HIDE DEF u
    <3>3. SessionOK(u, db'.log) /\ OwnSid(u) = None
      BY <3>2 DEF SessionOK, OwnSid, Opening, Busy
    <3>4. q.sid = OwnSid(conn[c]) /\ StartedAs(db.log, conn[c]) /\ q.sid = conn[c].sid
          /\ ~EndedIn(db.log, q.sid)
      BY <2>1, <2>2, <2>4 DEF SessionOK, OwnSid, OfSession, Busy
    <3>5. Told(db.log, q.sid)
      BY <3>4 DEF StartedAs, Told
    <3> QED
      BY <2>1, <2>4, <3>1, <3>3, <3>4, <3>5, RecordingStep
  <2>5. CASE q.kind \notin {"session.start", "session.end"}
    <3> DEFINE u == [conn[c] EXCEPT !.pc = "idle"]
    <3>1. conn' = [conn EXCEPT ![c] = u] /\ live' = live
      BY <1>13, <1>t, <2>5 DEF Commit
    <3>2. u.pc = "idle" /\ u.sid = conn[c].sid /\ u.agent = conn[c].agent
          /\ u.connector = conn[c].connector
      BY <1>t DEF ConnStates
    <3> HIDE DEF u
    <3>3. q.sid # None => /\ q.sid = OwnSid(conn[c]) /\ StartedAs(db.log, conn[c])
                          /\ q.sid = conn[c].sid /\ ~EndedIn(db.log, q.sid)
      BY <2>1, <2>2, <2>5 DEF SessionOK, OwnSid, OfSession, Busy
    <3>4. q.sid # None => Told(db.log, q.sid)
      BY <3>3 DEF StartedAs, Told
    <3>5. u.sid # None => StartedAs(db'.log, u) /\ ~EndedIn(db'.log, u.sid)
      <4>1. u.sid # None => StartedAs(db.log, u) /\ ~EndedIn(db.log, u.sid)
        BY <2>2, <3>2 DEF SessionOK, StartedAs
      <4> QED
        BY <1>t, <2>1, <2>5, <4>1, StartedAppend, ToldAppend
    <3>6. SessionOK(u, db'.log) /\ OwnSid(u) \in {None, OwnSid(conn[c])}
      BY <3>2, <3>5 DEF SessionOK, OwnSid, Opening, Busy
    <3> QED
      BY <2>1, <2>5, <3>1, <3>3, <3>4, <3>6, RecordingStep
  <2> QED
    BY <2>3, <2>4, <2>5
<1>14. ASSUME NEW c \in Conns, Fail(c) PROVE StoryInv'
  <2> DEFINE u == [conn[c] EXCEPT !.pc = "idle"]
  <2>1. conn' = [conn EXCEPT ![c] = u] /\ db' = db /\ conn[c].pc = "append"
        /\ (conn[c].q.kind # "session.start" => live' = live)
        /\ (conn[c].q.kind = "session.start" => live' = live \ {conn[c].q.sid})
    BY <1>14, <1>t DEF Fail
  <2>2. CASE conn[c].q.kind # "session.start"
    BY <1>r, <1>14, <2>1, <2>2 DEF Fail
  <2>3. CASE conn[c].q.kind = "session.start"
    <3>1. u.pc = "idle" /\ u.sid = None
      BY <1>s, <1>t, <2>1, <2>3 DEF ConnStates, SessionOK, Opening
    <3> HIDE DEF u
    <3>2. SessionOK(u, db.log) /\ OwnSid(u) = None /\ OwnSid(conn[c]) = conn[c].q.sid
      BY <1>s, <2>1, <2>3, <3>1 DEF SessionOK, OwnSid, Opening, Busy
    <3>3. conn'[c] = u /\ \A d \in Conns : d # c => conn'[d] = conn[d]
      BY <1>t, <2>1
    <3>4. \A d \in Conns : SessionOK(conn'[d], db'.log) /\ OwnSid(conn'[d]) \in {None, OwnSid(conn[d])}
      BY <1>s, <2>1, <3>2, <3>3
    <3>5. \A d \in Conns : OwnSid(conn'[d]) # None => OwnSid(conn'[d]) \in live'
      BY <2>1, <2>3, <3>2, <3>3 DEF StoryInv
    <3>6. \A d, e \in Conns : d # e /\ OwnSid(conn'[d]) # None => OwnSid(conn'[d]) # OwnSid(conn'[e])
      BY <3>4 DEF StoryInv
    <3> QED
      BY <2>1, <3>4, <3>5, <3>6 DEF StoryInv
  <2> QED
    BY <2>2, <2>3
<1> QED
  BY <1>1, <1>2, <1>3, <1>4, <1>5, <1>6, <1>7, <1>8, <1>9, <1>10, <1>11, <1>12, <1>13, <1>14
  DEF PolicyNext, Serve

\* Every claimed id keeps its story, and every story its connection.
THEOREM StoryInvHolds == PolicySpec => []StoryInv
<1>1. PolicyInit => StoryInv
  <2> SUFFICES ASSUME PolicyInit PROVE StoryInv
    OBVIOUS
  <2>1. db.log = <<>> /\ \A c \in Conns : conn[c].pc = "new" /\ conn[c].sid = None
    BY DEF PolicyInit, Fresh
  <2> QED
    BY <2>1 DEF StoryInv, Story, Told, SessionOK, OwnSid, Opening, Busy
<1>2. PolicyTypeOK /\ PolicyTypeOK' /\ TxInv /\ StoryInv /\ [PolicyNext]_vars => StoryInv'
  BY StoryInvInductive
<1> QED
  BY <1>1, <1>2, PolicyTypeCorrect, PolicyInvHolds, PTL DEF PolicySpec

\* A session id names one story, whoever claims it, fails, hangs up or crashes
\* (OneStoryPerSession).
THEOREM StoriesAreWhole == PolicySpec => []OneStoryPerSession
<1>1. StoryInv => OneStoryPerSession
  BY DEF StoryInv, Story, OneStoryPerSession
<1> QED
  BY <1>1, StoryInvHolds, PTL

-----------------------------------------------------------------------------
(***************************************************************************)
(* Which rule decides.  Rules with different numbers are totally ordered   *)
(* by Outranks; the loop keeps the greatest it has seen.                   *)
(***************************************************************************)

\* the rule of a set that outranks all the others
Best(rules) == CHOOSE r \in rules : \A q \in rules : q # r => Outranks(r, q)

\* What holds of a set whenever it holds of it without any one of its elements
\* holds of every subset of a finite set.
LEMMA BySubsets ==
    ASSUME NEW M, IsFiniteSet(M), NEW P,
           \A s \in SUBSET M : (\A x \in s : s \ {x} \in P) => s \in P
    PROVE  SUBSET M \subseteq P
<1> DEFINE W == {s \in SUBSET M : s \notin P}
<1>1. SUFFICES ASSUME W # {} PROVE FALSE
  OBVIOUS
<1>2. IsWellFoundedOn(StrictSubsetOrdering(M), SUBSET M)
  BY FS_FiniteSubsetsOfFinite, FS_StrictSubsetOrderingWellFounded
<1>3. PICK w \in W : \A v \in W : ~(<<v, w>> \in StrictSubsetOrdering(M))
  <2> DEFINE R == StrictSubsetOrdering(M)
  <2>1. W \subseteq SUBSET M
    OBVIOUS
  <2> HIDE DEF W, R
  <2> QED
    BY <1>1, <1>2, <2>1, WFMin DEF R
<1>4. PICK x \in w : w \ {x} \notin P
  BY <1>3
<1>5. w \ {x} \in SUBSET M /\ w \in SUBSET M
  OBVIOUS
<1>6. <<w \ {x}, w>> \in StrictSubsetOrdering(M)
  BY <1>4, <1>5 DEF StrictSubsetOrdering
<1> QED
  BY <1>3, <1>4, <1>5, <1>6

LEMMA SpecificityIsNat == ASSUME NEW r PROVE Specificity(r) \in Nat
BY DEF Specificity

LEMMA OutranksIsAnOrder ==
    /\ \A r, q \in RuleRows : r.id # q.id => Outranks(r, q) \/ Outranks(q, r)
    /\ \A r, q \in RuleRows : ~(Outranks(r, q) /\ Outranks(q, r))
    /\ \A r, q, t \in RuleRows : Outranks(r, q) /\ Outranks(q, t) => Outranks(r, t)
<1>1. \A r \in RuleRows :
         /\ Specificity(r) \in Nat /\ EffectRank(r.effect) \in {0, 1, 2} /\ r.id \in Nat
         /\ EffectRank(r.effect) = 2 <=> r.effect = "deny"
         /\ EffectRank(r.effect) = 1 <=> r.effect = "ask"
         /\ EffectRank(r.effect) = 0 <=> r.effect = "allow"
  BY SpecificityIsNat DEF RuleRows, EffectRank, Effects
<1> DEFINE rank(r) == EffectRank(r.effect)
<1>2. \A r, q \in RuleRows : r.effect = q.effect <=> rank(r) = rank(q)
  BY <1>1
<1>3. \A r, q \in RuleRows :
         Outranks(r, q) <=> \/ Specificity(r) > Specificity(q)
                            \/ /\ Specificity(r) = Specificity(q)
                               /\ rank(r) > rank(q) \/ (rank(r) = rank(q) /\ r.id < q.id)
  BY <1>2 DEF Outranks
<1>4. \A r \in RuleRows : rank(r) \in Nat /\ Specificity(r) \in Nat /\ r.id \in Nat
  BY <1>1
<1> HIDE DEF rank
<1> QED
  BY <1>3, <1>4

\* Among rules with different numbers there is exactly one that outranks the
\* others, and the newest is one of them.
LEMMA BestIsBest ==
    ASSUME NEW M \in SUBSET RuleRows, IsFiniteSet(M), \A r, q \in M : r.id = q.id => r = q
    PROVE  /\ \A s \in (SUBSET M) \ {{}} :
                 Best(s) \in s /\ \A q \in s : q # Best(s) => Outranks(Best(s), q)
           /\ \A s \in SUBSET M : \A r \in s :
                 (\A q \in s : q # r => Outranks(r, q)) => r = Best(s)
           /\ \A s \in (SUBSET M) \ {{}} : Newest(s) \in s
<1> DEFINE Greatest(s, r) == \A q \in s : q # r => Outranks(r, q)
           P == {s \in SUBSET M : s = {} \/ \E r \in s : Greatest(s, r)}
           Q == {s \in SUBSET M : s = {} \/ \E r \in s : \A q \in s : q.id =< r.id}
<1>0. \A r, q \in M : r # q => r.id # q.id
  OBVIOUS
<1>1. SUBSET M \subseteq P
  <2>1. ASSUME NEW s \in SUBSET M, NEW x \in s, \A y \in s : s \ {y} \in P PROVE s \in P
    <3>1. CASE s \ {x} = {}
      BY <2>1, <3>1
    <3>2. CASE s \ {x} # {}
      <4>1. PICK r \in s \ {x} : Greatest(s \ {x}, r)
        BY <2>1, <3>2
      <4>2. CASE Outranks(x, r)
        <5>1. \A q \in s \ {x} : q # r => Outranks(x, q)
          BY <4>1, <4>2, OutranksIsAnOrder
        <5> QED
          BY <4>2, <5>1
      <4>3. CASE Outranks(r, x)
        BY <4>1, <4>3
      <4> QED
        BY <1>0, <4>1, <4>2, <4>3, OutranksIsAnOrder
    <3> QED
      BY <3>1, <3>2
  <2>2. {} \in P
    OBVIOUS
  <2>3. \A s \in SUBSET M : (\A x \in s : s \ {x} \in P) => s \in P
    <3> HIDE DEF P
    <3> QED
      BY <2>1, <2>2
  <2> HIDE DEF P
  <2> QED
    BY <2>3, BySubsets
<1>2. SUBSET M \subseteq Q
  <2>0. \A r \in M : r.id \in Nat
    BY DEF RuleRows
  <2>1. ASSUME NEW s \in SUBSET M, NEW x \in s, \A y \in s : s \ {y} \in Q PROVE s \in Q
    <3>1. CASE s \ {x} = {}
      BY <2>0, <2>1, <3>1
    <3>2. CASE s \ {x} # {}
      <4>1. PICK r \in s \ {x} : \A q \in s \ {x} : q.id =< r.id
        BY <2>1, <3>2
      <4>2. CASE x.id =< r.id
        BY <4>1, <4>2
      <4>3. CASE r.id =< x.id
        <5>1. \A q \in s : q.id =< x.id
          BY <2>0, <4>1, <4>3
        <5> QED
          BY <5>1
      <4> QED
        BY <2>0, <4>1, <4>2, <4>3
    <3> QED
      BY <3>1, <3>2
  <2>2. {} \in Q
    OBVIOUS
  <2>3. \A s \in SUBSET M : (\A x \in s : s \ {x} \in Q) => s \in Q
    <3> HIDE DEF Q
    <3> QED
      BY <2>1, <2>2
  <2> HIDE DEF Q
  <2> QED
    BY <2>3, BySubsets
<1>3. ASSUME NEW s \in (SUBSET M) \ {{}}
      PROVE  Best(s) \in s /\ \A q \in s : q # Best(s) => Outranks(Best(s), q)
  <2>0. s # {} /\ (s = {} \/ \E r \in s : Greatest(s, r))
    BY <1>1, <1>3
  <2>1. \E r \in s : \A q \in s : q # r => Outranks(r, q)
    BY <2>0
  <2> QED
    BY <2>1 DEF Best
<1>4. ASSUME NEW s \in SUBSET M, NEW r \in s, \A q \in s : q # r => Outranks(r, q)
      PROVE  r = Best(s)
  <2>1. s # {} /\ Best(s) \in s /\ \A q \in s : q # Best(s) => Outranks(Best(s), q)
    BY <1>3
  <2> QED
    BY <1>4, <2>1, OutranksIsAnOrder
<1>5. ASSUME NEW s \in (SUBSET M) \ {{}} PROVE Newest(s) \in s
  <2>0. s # {} /\ (s = {} \/ \E r \in s : \A q \in s : q.id =< r.id)
    BY <1>2, <1>5
  <2>1. \E r \in s : \A q \in s : q.id =< r.id
    BY <2>0
  <2> QED
    BY <2>1 DEF Newest
<1> QED
  BY <1>3, <1>4, <1>5

\* What the loop is left with: the rule that outranks all the others.
LEMMA DecideIsBest ==
    ASSUME NEW M \in SUBSET RuleRows, IsFiniteSet(M), \A r, q \in M : r.id = q.id => r = q
    PROVE  Decide(M) = IF M = {} THEN None ELSE Best(M)
<1> DEFINE Keep(r, winner) == IF winner = None \/ Outranks(r, winner) THEN r ELSE winner
           Loop(f) == [s \in SUBSET M |-> IF s = {} THEN None ELSE Keep(Newest(s), f[s \ {Newest(s)}])]
           B == [s \in SUBSET M |-> IF s = {} THEN None ELSE Best(s)]
           iter == CHOOSE f : f = Loop(f)
<1>1. ASSUME NEW s \in SUBSET M, s # {}
      PROVE  B[s] = Keep(Newest(s), B[s \ {Newest(s)}])
  <2> DEFINE x == Newest(s)
             rest == s \ {x}
  <2>0. x \in s /\ rest \in SUBSET M /\ s = rest \cup {x} /\ x \in RuleRows
    BY <1>1, BestIsBest
  <2> HIDE DEF x
  <2>1. CASE rest = {}
    <3>1. B[rest] = None /\ s = {x}
      BY <2>0, <2>1
    <3>2. Best(s) = x
      BY <2>0, <3>1, BestIsBest
    <3> QED
      BY <1>1, <3>1, <3>2 DEF x
  <2>2. CASE rest # {}
    <3> DEFINE w == Best(rest)
    <3>1. w \in rest /\ \A q \in rest : q # w => Outranks(w, q)
      BY <2>0, <2>2, BestIsBest
    <3> HIDE DEF w
    <3>2. w # None /\ w \in RuleRows
      BY <2>0, <3>1, PolicyAssumption
    <3>3. B[rest] = w /\ B[s] = Best(s)
      BY <1>1, <2>0, <2>2 DEF w
    <3>4. CASE Outranks(x, w)
      <4>1. \A q \in s : q # x => Outranks(x, q)
        BY <2>0, <3>1, <3>2, <3>4, OutranksIsAnOrder
      <4>2. Best(s) = x
        BY <2>0, <4>1, BestIsBest
      <4> QED
        BY <3>3, <3>4, <4>2 DEF x
    <3>5. CASE ~Outranks(x, w)
      <4>1. Outranks(w, x)
        BY <2>0, <3>1, <3>2, <3>5, OutranksIsAnOrder
      <4>2. w \in s /\ \A q \in s : q # w => Outranks(w, q)
        BY <2>0, <3>1, <4>1
      <4>3. Best(s) = w
        BY <4>2, BestIsBest
      <4> QED
        BY <3>2, <3>3, <3>5, <4>3 DEF x
    <3> QED
      BY <3>4, <3>5
  <2> QED
    BY <2>1, <2>2
<1>2. B = Loop(B)
  BY <1>1
<1>3. iter = Loop(iter)
  <2> HIDE DEF B, Loop
  <2> QED
    BY <1>2
<1>4. Decide(M) = iter[M]
  BY DEF Decide, MapThenFoldSet
<1> HIDE DEF iter
<1>5. \A s \in SUBSET M : s # {} => iter[s] = Keep(Newest(s), iter[s \ {Newest(s)}])
  BY <1>3
<1>6. iter[{}] = None
  BY <1>3
<1> DEFINE P == {s \in SUBSET M : iter[s] = B[s]}
<1>7. SUBSET M \subseteq P
  <2>1. ASSUME NEW s \in SUBSET M, \A x \in s : s \ {x} \in P PROVE s \in P
    <3>1. CASE s = {}
      BY <1>6, <3>1
    <3>2. CASE s # {}
      <4>1. Newest(s) \in s
        BY <3>2, BestIsBest
      <4>2. iter[s \ {Newest(s)}] = B[s \ {Newest(s)}]
        BY <2>1, <4>1
      <4>3. iter[s] = B[s]
        <5> HIDE DEF B, Keep
        <5> QED
          BY <1>1, <1>5, <3>2, <4>2
      <4> QED
        BY <4>3
    <3> QED
      BY <3>1, <3>2
  <2> HIDE DEF P
  <2> QED
    BY <2>1, BySubsets
<1> QED
  BY <1>4, <1>7

\* What the rules say of a call, by the loop and by what its precedence promises.
Effect(rule) == IF rule = None THEN "allow" ELSE rule.effect

LEMMA TheLoopIsSafest ==
    ASSUME NEW rules \in SUBSET RuleRows, IsFiniteSet(rules),
           \A r, q \in rules : r.id = q.id => r = q, NEW call
    PROVE  Effect(RuleFor(rules, call)) = SafestOfTheMostSpecific(rules, call)
<1> DEFINE M == MatchingRules(rules, call)
           top == {r \in M : \A q \in M : Specificity(q) =< Specificity(r)}
           effects == {r.effect : r \in top}
<1>1. M \in SUBSET RuleRows /\ M \subseteq rules
  BY DEF MatchingRules
<1>2. IsFiniteSet(M)
  BY <1>1, FS_Subset
<1>3. \A r, q \in M : r.id = q.id => r = q
  BY <1>1
<1> HIDE DEF M
<1>4. Decide(M) = IF M = {} THEN None ELSE Best(M)
  BY <1>1, <1>2, <1>3, DecideIsBest
<1>5. CASE M = {}
  <2>1. effects = {}
    BY <1>5
  <2> QED
    BY <1>4, <1>5, <2>1 DEF M, RuleFor, Effect, SafestOfTheMostSpecific
<1>6. CASE M # {}
  <2> DEFINE w == Best(M)
  <2>1. w \in M /\ \A q \in M : q # w => Outranks(w, q)
    BY <1>1, <1>2, <1>3, <1>6, BestIsBest
  <2> HIDE DEF w
  <2>2. \A r \in M : Specificity(r) \in Nat
    BY SpecificityIsNat
  <2>3. \A q \in M : Specificity(q) =< Specificity(w)
    BY <2>1, <2>2 DEF Outranks
  <2>4. w \in top /\ \A q \in top : Specificity(q) = Specificity(w)
    BY <2>1, <2>2, <2>3
  <2>5. \A q \in top : q # w => EffectRank(w.effect) > EffectRank(q.effect) \/ w.effect = q.effect
    BY <2>1, <2>2, <2>4 DEF Outranks
  <2>6. w.effect \in effects /\ w.effect \in {"deny", "ask", "allow"}
    BY <1>1, <2>1, <2>4 DEF RuleRows, Effects
  <2>7. "deny" \in effects => w.effect = "deny"
    BY <2>5, <2>6 DEF EffectRank
  <2>8. "ask" \in effects => w.effect # "allow"
    BY <2>5, <2>6 DEF EffectRank
  <2>9. RuleFor(rules, call) = w /\ w # None
    BY <1>1, <1>4, <1>6, <2>1, PolicyAssumption DEF RuleFor, M, w
  <2> HIDE DEF top, effects
  <2>10. w.effect = CASE "deny" \in effects -> "deny"
                      [] "deny" \notin effects /\ "ask" \in effects -> "ask"
                      [] OTHER -> "allow"
    BY <2>6, <2>7, <2>8
  <2>11. SafestOfTheMostSpecific(rules, call)
           = CASE "deny" \in effects -> "deny"
               [] "deny" \notin effects /\ "ask" \in effects -> "ask"
               [] OTHER -> "allow"
    BY DEF SafestOfTheMostSpecific, M, top, effects
  <2> QED
    BY <2>9, <2>10, <2>11 DEF Effect
<1> QED
  BY <1>5, <1>6

\* Every rule has a number of its own, below the next one.
Numbered(v) ==
    /\ IsFiniteSet(v.rules)
    /\ \A r \in v.rules : r.id < v.nextId
    /\ \A r, q \in v.rules : r.id = q.id => r = q

LEMMA ChangesKeepNumbers ==
    ASSUME NEW view \in Views, NEW q \in Entries, Numbered(view)
    PROVE  Numbered(Changed(view, q))
<1>1. CASE q.kind = "rule.add"
  <2> DEFINE r == Rule(q, view.nextId)
  <2>1. Changed(view, q).rules = view.rules \cup {r} /\ Changed(view, q).nextId = view.nextId + 1
        /\ r.id = view.nextId /\ view.nextId \in Nat /\ \A p \in view.rules : p.id \in Nat
    BY <1>1 DEF Changed, AddRule, Rule, Views, RuleRows
  <2> HIDE DEF r
  <2>2. IsFiniteSet(view.rules \cup {r})
    BY FS_AddElement DEF Numbered
  <2> QED
    BY <2>1, <2>2 DEF Numbered
<1>2. CASE q.kind = "rule.remove"
  <2>1. Changed(view, q).rules \subseteq view.rules /\ Changed(view, q).nextId = view.nextId
    BY <1>2 DEF Changed, RemoveRule, Views
  <2>2. IsFiniteSet(Changed(view, q).rules)
    BY <2>1, FS_Subset DEF Numbered
  <2> QED
    BY <2>1, <2>2 DEF Numbered
<1>3. CASE q.kind \notin {"rule.add", "rule.remove"}
  <2>1. Changed(view, q).rules = view.rules /\ Changed(view, q).nextId = view.nextId
    BY <1>3 DEF Changed, AddBudget, RemoveBudget, AddAgent, RemoveAgent, Views
  <2> QED
    BY <2>1 DEF Numbered
<1> QED
  BY <1>1, <1>2, <1>3

\* The rules keep their numbers, whoever adds and removes them.
THEOREM RulesStayNumbered == PolicySpec => []Numbered(db)
<1>1. PolicyInit => Numbered(db)
  BY FS_EmptySet DEF PolicyInit, Numbered
<1>2. PolicyTypeOK /\ TxInv /\ Numbered(db) /\ [PolicyNext]_vars => Numbered(db)'
  <2> SUFFICES ASSUME PolicyTypeOK, TxInv, Numbered(db), [PolicyNext]_vars PROVE Numbered(db')
    BY DEF Numbered
  <2>1. ASSUME NEW c \in Conns, Commit(c) PROVE Numbered(db')
    <3>1. tx # Free /\ tx.by = c /\ db \in Views
      BY <2>1 DEF Commit, PolicyTypeOK, At
    <3>2. PICK q \in Entries : tx.view = Changed(db, q)
      BY <3>1 DEF TxInv
    <3>3. db'.rules = tx.view.rules /\ db'.nextId = tx.view.nextId
      BY <2>1, <3>1 DEF Commit, PolicyTypeOK, Views
    <3> QED
      BY <3>1, <3>2, <3>3, ChangesKeepNumbers DEF Numbered
  <2>2. ASSUME NEW c \in Conns, HangUp(c) PROVE Numbered(db')
    <3>1. db'.rules = db.rules /\ db'.nextId = db.nextId
      BY <2>2 DEF HangUp, PolicyTypeOK, Views
    <3> QED
      BY <3>1 DEF Numbered
  <2>3. db' = db \/ \E c \in Conns : Commit(c) \/ HangUp(c)
    BY DEF PolicyNext, Serve, vars, Restart, Accept, StartSession, RefuseSession, EndSession, Administer,
       HandlePolicyAdd, HandlePolicyRemove, HandleBudgetSet, HandleBudgetRemove, HandleAgentAdd,
       HandleAgentRemove, Request, Ask, ReadRules, CheckBudgets, ReadFails, Begin, Pending, Fail, Goes
  <2> QED
    BY <2>1, <2>2, <2>3
<1> QED
  BY <1>1, <1>2, PolicyTypeCorrect, PolicyInvHolds, PTL DEF PolicySpec

\* The loop gives what the precedence promises, for any rules that can come
\* about and any call (DecideIsSafest).
THEOREM DecisionsAreSafest == PolicySpec => []DecideIsSafest
<1>1. PolicyTypeOK /\ Numbered(db) => DecideIsSafest
  <2> SUFFICES ASSUME PolicyTypeOK, Numbered(db),
                      NEW call \in [agent : Agents \cup {None}, connector : Connectors, tool : Calls]
               PROVE  Effect(RuleFor(db.rules, call)) = SafestOfTheMostSpecific(db.rules, call)
    BY DEF DecideIsSafest, Effect
  <2>1. db.rules \in SUBSET RuleRows
    BY DEF PolicyTypeOK, Views
  <2> QED
    BY <2>1, TheLoopIsSafest DEF Numbered
<1> QED
  BY <1>1, PolicyTypeCorrect, RulesStayNumbered, PTL

-----------------------------------------------------------------------------
(***************************************************************************)
(* A recorded decision is what the journal says: what a goroutine has read *)
(* is a verdict at moments it has seen, and the journal only grows.        *)
(***************************************************************************)

CallOf(u) == [agent |-> u.agent, connector |-> u.connector, tool |-> u.q.tool]

Moments(u, log) == u.since .. Len(log)

Explained(u, log) ==
    /\ u.pc \in Busy /\ u.q.kind = "call.request" => u.since \in 0 .. Len(log)
    /\ u.pc = "budgets" => \E k1 \in Moments(u, log) :
          SafestOfTheMostSpecific(RulesInForce(log, k1), CallOf(u)) = "allow"
    /\ u.pc \in {"begin", "append"} /\ u.q.kind = "call.request" =>
          \E k1 \in Moments(u, log) : \E k2 \in k1 .. Len(log) :
             u.q.effect = Verdict(log, k1, k2, CallOf(u), u.q.sid)

ExplainInv == \A c \in Conns : Explained(conn[c], db.log)

\* Rules of the same scopes and effects say the same of every call.
LEMMA ScopesAndEffectsDecide ==
    ASSUME NEW R, NEW E, NEW call,
           {<<Scoped(r), r.effect>> : r \in R} = {<<Scoped(e), e.effect>> : e \in E}
    PROVE  SafestOfTheMostSpecific(R, call) = SafestOfTheMostSpecific(E, call)
<1> DEFINE top(S) == {r \in MatchingRules(S, call) :
                         \A q \in MatchingRules(S, call) : Specificity(q) =< Specificity(r)}
           Alike(r, e) == /\ r.agent = e.agent /\ r.connector = e.connector /\ r.tool = e.tool
                          /\ r.effect = e.effect
<1>1. ASSUME NEW S, NEW T, {<<Scoped(r), r.effect>> : r \in S} = {<<Scoped(e), e.effect>> : e \in T}
      PROVE  \A r \in S : \E e \in T : Alike(r, e)
  <2> TAKE r \in S
  <2>1. <<Scoped(r), r.effect>> \in {<<Scoped(q), q.effect>> : q \in S}
    OBVIOUS
  <2>2. <<Scoped(r), r.effect>> \in {<<Scoped(e), e.effect>> : e \in T}
    BY <1>1, <2>1
  <2>3. PICK e \in T : <<Scoped(r), r.effect>> = <<Scoped(e), e.effect>>
    BY <2>2
  <2> QED
    BY <2>3 DEF Scoped
<1>2. \A r, e : Alike(r, e) => /\ Covers(r, call) <=> Covers(e, call)
                               /\ Specificity(r) = Specificity(e)
  BY DEF Covers, Specificity
<1>3. ASSUME NEW S, NEW T, \A r \in S : \E e \in T : Alike(r, e), \A e \in T : \E r \in S : Alike(e, r)
      PROVE  {r.effect : r \in top(S)} \subseteq {e.effect : e \in top(T)}
  <2>1. SUFFICES ASSUME NEW r \in top(S) PROVE \E e \in top(T) : e.effect = r.effect
    OBVIOUS
  <2>2. PICK e \in T : Alike(r, e)
    BY <1>3 DEF MatchingRules
  <2>3. e \in MatchingRules(T, call) /\ Specificity(e) = Specificity(r)
    BY <1>2, <2>2 DEF MatchingRules
  <2>4. ASSUME NEW f \in MatchingRules(T, call) PROVE Specificity(f) =< Specificity(e)
    <3>1. PICK q \in S : Alike(f, q)
      BY <1>3 DEF MatchingRules
    <3>2. q \in MatchingRules(S, call) /\ Specificity(q) = Specificity(f)
      BY <1>2, <3>1 DEF MatchingRules
    <3>3. Specificity(q) =< Specificity(r)
      BY <3>2
    <3> QED
      BY <2>3, <3>2, <3>3
  <2> QED
    BY <2>2, <2>3, <2>4
<1>4. {r.effect : r \in top(R)} = {e.effect : e \in top(E)}
  <2> HIDE DEF Alike, top
  <2>1. \A r \in R : \E e \in E : Alike(r, e)
    BY <1>1, Zenon
  <2>2. \A r \in E : \E e \in R : Alike(r, e)
    BY <1>1, Zenon
  <2>3. {r.effect : r \in top(R)} \subseteq {e.effect : e \in top(E)}
    BY <1>3, <2>1, <2>2
  <2>4. {r.effect : r \in top(E)} \subseteq {e.effect : e \in top(R)}
    BY <1>3, <2>1, <2>2
  <2> QED
    BY <2>3, <2>4
<1> QED
  BY <1>4 DEF SafestOfTheMostSpecific

\* One more entry changes no earlier verdict.
LEMMA VerdictsStay ==
    ASSUME NEW log \in Seq(Entries), NEW e \in Entries, NEW call, NEW sid,
           NEW k1 \in 0 .. Len(log)
    PROVE  /\ SafestOfTheMostSpecific(RulesInForce(Append(log, e), k1), call)
                = SafestOfTheMostSpecific(RulesInForce(log, k1), call)
           /\ \A k2 \in k1 .. Len(log) :
                 Verdict(Append(log, e), k1, k2, call, sid) = Verdict(log, k1, k2, call, sid)
<1> DEFINE longer == Append(log, e)
<1>1. Len(log) \in Nat /\ \A i \in 1 .. Len(log) : longer[i] = log[i]
  OBVIOUS
<1>2. ASSUME NEW k \in 0 .. Len(log), NEW add, NEW remove
      PROVE  InForce(longer, k, add, remove) = InForce(log, k, add, remove)
  <2> HIDE DEF longer
  <2>1. \A i \in 1 .. k : longer[i] = log[i] /\ \A j \in i + 1 .. k : longer[j] = log[j]
    BY <1>1
  <2> DEFINE I(l) == {i \in 1 .. k : /\ l[i].kind = add
                                     /\ \A j \in i + 1 .. k : l[j].kind = remove => ~SameScope(l[j], l[i])}
  <2>2. I(longer) = I(log) /\ I(log) \subseteq 1 .. k
    BY <2>1
  <2> HIDE DEF I
  <2>3. {longer[i] : i \in I(longer)} = {log[i] : i \in I(log)}
    BY <2>1, <2>2
  <2> QED
    BY <2>3 DEF InForce, I
<1>3. \A k \in 0 .. Len(log) : SubSeq(longer, 1, k) = SubSeq(log, 1, k)
  OBVIOUS
<1> HIDE DEF longer
<1>4. RulesInForce(longer, k1) = RulesInForce(log, k1)
  BY <1>2 DEF RulesInForce
<1>5. ASSUME NEW k2 \in k1 .. Len(log)
      PROVE  Verdict(longer, k1, k2, call, sid) = Verdict(log, k1, k2, call, sid)
  <2>1. k2 \in 0 .. Len(log)
    BY <1>1
  <2>2. BudgetsInForce(longer, k2) = BudgetsInForce(log, k2) /\ SubSeq(longer, 1, k2) = SubSeq(log, 1, k2)
    BY <1>2, <1>3, <2>1 DEF BudgetsInForce
  <2> QED
    BY <1>4, <2>2 DEF Verdict
<1> QED
  BY <1>4, <1>5 DEF longer

LEMMA ExplainedAppend ==
    ASSUME NEW log \in Seq(Entries), NEW e \in Entries, NEW u \in ConnStates, Explained(u, log),
           u.pc = "budgets" => u.q.kind = "call.request"
    PROVE  Explained(u, Append(log, e))
<1> DEFINE longer == Append(log, e)
<1>1. Len(log) \in Nat /\ Len(longer) = Len(log) + 1 /\ u.since \in Nat
  BY DEF ConnStates
<1> HIDE DEF longer
<1>2. u.pc \in Busy /\ u.q.kind = "call.request" => u.since \in 0 .. Len(longer)
  BY <1>1 DEF Explained
<1>3. \A k \in Moments(u, log) : k \in Moments(u, longer) /\ k \in 0 .. Len(log)
  BY <1>1 DEF Moments
<1>4. ASSUME u.pc = "budgets"
      PROVE  \E k1 \in Moments(u, longer) :
                SafestOfTheMostSpecific(RulesInForce(longer, k1), CallOf(u)) = "allow"
  <2>1. PICK k1 \in Moments(u, log) : SafestOfTheMostSpecific(RulesInForce(log, k1), CallOf(u)) = "allow"
    BY <1>4 DEF Explained
  <2> QED
    BY <1>3, <2>1, VerdictsStay DEF longer
<1>5. ASSUME u.pc \in {"begin", "append"}, u.q.kind = "call.request"
      PROVE  \E k1 \in Moments(u, longer) : \E k2 \in k1 .. Len(longer) :
                u.q.effect = Verdict(longer, k1, k2, CallOf(u), u.q.sid)
  <2>1. PICK k1 \in Moments(u, log) : \E k2 \in k1 .. Len(log) :
                u.q.effect = Verdict(log, k1, k2, CallOf(u), u.q.sid)
    BY <1>5 DEF Explained
  <2>2. PICK k2 \in k1 .. Len(log) : u.q.effect = Verdict(log, k1, k2, CallOf(u), u.q.sid)
    BY <2>1
  <2>3. k1 \in 0 .. Len(log) /\ k1 \in Moments(u, longer) /\ k2 \in k1 .. Len(longer)
    BY <1>1, <1>3
  <2>4. Verdict(longer, k1, k2, CallOf(u), u.q.sid) = Verdict(log, k1, k2, CallOf(u), u.q.sid)
    BY <2>3, VerdictsStay DEF longer
  <2> QED
    BY <2>2, <2>3, <2>4
<1> QED
  BY <1>2, <1>4, <1>5 DEF Explained, longer

\* A step of one connection; the journal stays or grows by an entry.
LEMMA OneStepExplains ==
    ASSUME PolicyTypeOK, StoryInv, ExplainInv, NEW c \in Conns, NEW u, conn' = [conn EXCEPT ![c] = u],
           \/ db'.log = db.log
           \/ \E e \in Entries : db'.log = Append(db.log, e),
           Explained(u, db'.log)
    PROVE  ExplainInv'
<1>0. db.log \in Seq(Entries) /\ \A d \in Conns : conn[d] \in ConnStates
  BY DEF PolicyTypeOK, Views
<1>1. conn'[c] = u /\ \A d \in Conns : d # c => conn'[d] = conn[d]
  BY DEF PolicyTypeOK
<1>2. ASSUME NEW d \in Conns PROVE Explained(conn[d], db'.log)
  <2>1. Explained(conn[d], db.log) /\ (conn[d].pc = "budgets" => conn[d].q.kind = "call.request")
    BY DEF ExplainInv, StoryInv, SessionOK
  <2> QED
    BY <1>0, <2>1, ExplainedAppend
<1> QED
  BY <1>1, <1>2 DEF ExplainInv

\* What the tables say now is the verdict of this moment.
LEMMA TablesGiveTheVerdict ==
    ASSUME PolicyTypeOK, Sound(db), Numbered(db), NEW call, NEW sid
    PROVE  /\ Effect(RuleFor(db.rules, call))
                = SafestOfTheMostSpecific(RulesInForce(db.log, Len(db.log)), call)
           /\ (\E b \in MatchingBudgets(db.budgets, call) : UsedUp(db.log, sid, b))
                <=> \E b \in BudgetsInForce(db.log, Len(db.log)) :
                       Covers(b, call)
                       /\ CountAllowed(SubSeq(db.log, 1, Len(db.log)), sid, b.tool) >= b.calls
<1>1. db.rules \in SUBSET RuleRows /\ db.log \in Seq(Entries)
  BY DEF PolicyTypeOK, Views
<1>2. Effect(RuleFor(db.rules, call)) = SafestOfTheMostSpecific(db.rules, call)
  BY <1>1, TheLoopIsSafest DEF Numbered
<1>3. SafestOfTheMostSpecific(db.rules, call)
        = SafestOfTheMostSpecific(RulesInForce(db.log, Len(db.log)), call)
  BY ScopesAndEffectsDecide DEF Sound, RulesFollow
<1>4. SubSeq(db.log, 1, Len(db.log)) = db.log
  BY <1>1
<1> DEFINE B == BudgetsInForce(db.log, Len(db.log))
           Spent(b) == Covers(b, call) /\ CountAllowed(db.log, sid, b.tool) >= b.calls
<1>5. {<<Scoped(b), b.calls>> : b \in db.budgets} = {<<Scoped(e), e.calls>> : e \in B}
  BY DEF Sound, BudgetsFollow
<1> HIDE DEF B
<1>6. ASSUME NEW b, NEW d, <<Scoped(b), b.calls>> = <<Scoped(d), d.calls>>
      PROVE  Spent(b) <=> Spent(d)
  <2>1. b.agent = d.agent /\ b.connector = d.connector /\ b.tool = d.tool /\ b.calls = d.calls
    BY <1>6 DEF Scoped
  <2> QED
    BY <2>1 DEF Covers
<1> HIDE DEF Spent
<1>7. (\E b \in db.budgets : Spent(b)) <=> \E b \in B : Spent(b)
  <2>1. ASSUME NEW b \in db.budgets, Spent(b) PROVE \E d \in B : Spent(d)
    <3>0. <<Scoped(b), b.calls>> \in {<<Scoped(q), q.calls>> : q \in db.budgets}
      BY <2>1
    <3>1. PICK d \in B : <<Scoped(b), b.calls>> = <<Scoped(d), d.calls>>
      <4>1. <<Scoped(b), b.calls>> \in {<<Scoped(e), e.calls>> : e \in B}
        BY <1>5, <3>0
      <4> QED
        BY <4>1
    <3> QED
      BY <1>6, <2>1, <3>1
  <2>2. ASSUME NEW d \in B, Spent(d) PROVE \E b \in db.budgets : Spent(b)
    <3>0. <<Scoped(d), d.calls>> \in {<<Scoped(q), q.calls>> : q \in B}
      BY <2>2
    <3>1. PICK b \in db.budgets : <<Scoped(b), b.calls>> = <<Scoped(d), d.calls>>
      <4>1. <<Scoped(d), d.calls>> \in {<<Scoped(e), e.calls>> : e \in db.budgets}
        BY <1>5, <3>0
      <4> QED
        BY <4>1
    <3> QED
      BY <1>6, <2>2, <3>1
  <2> QED
    BY <2>1, <2>2
<1>8. (\E b \in MatchingBudgets(db.budgets, call) : UsedUp(db.log, sid, b))
        <=> \E b \in db.budgets : Spent(b)
  BY DEF MatchingBudgets, UsedUp, Spent
<1> QED
  BY <1>2, <1>3, <1>4, <1>7, <1>8 DEF B, Spent

\* Every step of every handler leaves the decisions in hand explained.
LEMMA ExplainInvInductive ==
    ASSUME PolicyTypeOK, TxInv, Sound(db), Numbered(db), StoryInv, ExplainInv, [PolicyNext]_vars
    PROVE  ExplainInv'
<1> USE DEF At, Goes
<1>t. /\ conn \in [Conns -> ConnStates] /\ \A c \in Conns : conn[c] \in ConnStates
      /\ db.log \in Seq(Entries) /\ Len(db.log) \in Nat
      /\ \A c \in Conns : conn[c].pc \in Busy => conn[c].q \in Entries
  BY DEF PolicyTypeOK, Views, Valid, Busy
<1>s. \A c \in Conns : SessionOK(conn[c], db.log) /\ Explained(conn[c], db.log)
  BY DEF StoryInv, ExplainInv
<1>1. CASE UNCHANGED vars
  BY <1>1 DEF vars, ExplainInv
<1>2. CASE Restart
  <2>1. db' = db /\ \A c \in Conns : conn'[c].pc \in {"new", "closed"}
    BY <1>2 DEF Restart, Fresh
  <2> QED
    BY <2>1 DEF ExplainInv, Explained, Busy
\* A connection that has no call in hand afterwards.
<1>k. ASSUME NEW c \in Conns, NEW u, conn' = [conn EXCEPT ![c] = u],
             \/ db'.log = db.log
             \/ \E e \in Entries : db'.log = Append(db.log, e),
             u.pc \in {"begin", "append"} => u.q.kind # "call.request",
             u.pc \notin {"rules", "budgets"}
      PROVE  ExplainInv'
  <2>1. Explained(u, db'.log)
    BY <1>k DEF Explained, Busy
  <2> QED
    BY <1>k, <2>1, OneStepExplains
<1>3. ASSUME NEW c \in Conns, Accept(c) PROVE ExplainInv'
  <2>1. PICK agent : conn' = [conn EXCEPT ![c].pc = "idle", ![c].agent = agent]
    BY <1>3 DEF Accept
  <2> DEFINE u == [conn[c] EXCEPT !.pc = "idle", !.agent = agent]
  <2>2. conn' = [conn EXCEPT ![c] = u] /\ u.pc = "idle" /\ db' = db
    BY <1>3, <1>t, <2>1 DEF Accept, ConnStates
  <2> HIDE DEF u
  <2> QED
    BY <1>k, <2>2
<1>4. ASSUME NEW c \in Conns, StartSession(c) \/ EndSession(c) PROVE ExplainInv'
  <2>1. PICK q : /\ conn' = [conn EXCEPT ![c].pc = "begin", ![c].q = q] /\ db' = db
                 /\ q.kind \in {"session.start", "session.end"}
    <3>1. CASE StartSession(c)
      <4>1. PICK s \in Sessions, k \in Connectors :
               conn' = [conn EXCEPT ![c].pc = "begin",
                               ![c].q = [Blank EXCEPT !.kind = "session.start", !.sid = s,
                                             !.agent = conn[c].agent, !.connector = k]]
        BY <3>1 DEF StartSession
      <4> DEFINE q == [Blank EXCEPT !.kind = "session.start", !.sid = s,
                                    !.agent = conn[c].agent, !.connector = k]
      <4>2. q.kind = "session.start"
        BY DEF Blank
      <4> HIDE DEF q
      <4> QED
        BY <3>1, <4>1, <4>2 DEF StartSession, q
    <3>2. CASE EndSession(c)
      <4> DEFINE q == EndEntry(conn[c].sid)
      <4>1. q.kind = "session.end" /\ db' = db /\ conn' = [conn EXCEPT ![c].pc = "begin", ![c].q = q]
        BY <3>2 DEF EndSession, EndEntry, Blank
      <4> HIDE DEF q
      <4> QED
        BY <4>1
    <3> QED
      BY <1>4, <3>1, <3>2
  <2> DEFINE u == [conn[c] EXCEPT !.pc = "begin", !.q = q]
  <2>2. conn' = [conn EXCEPT ![c] = u] /\ u.pc = "begin" /\ u.q = q
    BY <1>t, <2>1 DEF ConnStates
  <2> HIDE DEF u
  <2> QED
    BY <1>k, <2>1, <2>2
<1>5. ASSUME NEW c \in Conns, NEW pc \in {"idle", "closed"}, Goes(c, pc), UNCHANGED db
      PROVE  ExplainInv'
  <2> DEFINE u == [conn[c] EXCEPT !.pc = pc]
  <2>1. conn' = [conn EXCEPT ![c] = u] /\ u.pc = pc
    BY <1>5, <1>t DEF ConnStates
  <2> HIDE DEF u
  <2> QED
    BY <1>5, <1>k, <2>1
<1>6. ASSUME NEW c \in Conns, HangUp(c) PROVE ExplainInv'
  <2> DEFINE u == [Fresh EXCEPT !.pc = "closed"]
  <2>1. conn' = [conn EXCEPT ![c] = u] /\ u.pc = "closed"
    BY <1>6 DEF HangUp, Fresh
  <2>2. db'.log = db.log \/ \E e \in Entries : db'.log = Append(db.log, e)
    <3>1. EndEntry(conn[c].sid) \in Entries
      BY <1>t DEF EndEntry, Blank, Entries, ConnStates
    <3>2. db' = db \/ db'.log = Append(db.log, EndEntry(conn[c].sid))
      BY <1>6 DEF HangUp, PolicyTypeOK, Views
    <3> QED
      BY <3>1, <3>2
  <2> HIDE DEF u
  <2> QED
    BY <1>k, <2>1, <2>2
<1>7. ASSUME NEW c \in Conns, Administer(c) PROVE ExplainInv'
  <2>1. PICK q \in Requests, pc \in {"begin", "idle"} :
           /\ conn' = [conn EXCEPT ![c].purpose = Purpose(q), ![c].q = q, ![c].pc = pc]
           /\ db' = db
    BY <1>7 DEF Administer, HandlePolicyAdd, HandlePolicyRemove,
       HandleBudgetSet, HandleBudgetRemove, HandleAgentAdd, HandleAgentRemove, Asked, Request
  <2> DEFINE u == [conn[c] EXCEPT !.purpose = Purpose(q), !.q = q, !.pc = pc]
  <2>2. conn' = [conn EXCEPT ![c] = u] /\ u.pc = pc /\ u.q = q
    BY <1>t, <2>1 DEF ConnStates
  <2>3. q.kind # "call.request"
    BY PolicyAssumption
  <2> HIDE DEF u
  <2> QED
    BY <1>k, <2>1, <2>2, <2>3
<1>8. ASSUME NEW c \in Conns, Ask(c) PROVE ExplainInv'
  <2>1. PICK q : conn' = [conn EXCEPT ![c].pc = "rules", ![c].since = Len(db.log), ![c].q = q]
    BY <1>8 DEF Ask
  <2> DEFINE u == [conn[c] EXCEPT !.pc = "rules", !.since = Len(db.log), !.q = q]
  <2>2. conn' = [conn EXCEPT ![c] = u] /\ u.pc = "rules" /\ u.since = Len(db.log) /\ db' = db
    BY <1>8, <1>t, <2>1 DEF Ask, ConnStates
  <2> HIDE DEF u
  <2>3. Explained(u, db'.log)
    BY <1>t, <2>2 DEF Explained
  <2> QED
    BY <2>2, <2>3, OneStepExplains
\* What is in hand between the reads and the entry.
<1>c. ASSUME NEW c \in Conns, conn[c].pc \in {"rules", "budgets"}
      PROVE  /\ conn[c].q.kind = "call.request" /\ conn[c].q.sid = conn[c].sid
             /\ conn[c].since \in 0 .. Len(db.log) /\ Call(c) = CallOf(conn[c])
             /\ conn[c].q \in Entries
  BY <1>s, <1>t, <1>c DEF SessionOK, Explained, OfSession, Busy, Call, CallOf
<1>9. ASSUME NEW c \in Conns, ReadRules(c) PROVE ExplainInv'
  <2> DEFINE n == Len(db.log)
             says == SafestOfTheMostSpecific(RulesInForce(db.log, n), CallOf(conn[c]))
  <2>1. conn[c].pc = "rules" /\ db' = db
    BY <1>9 DEF ReadRules
  <2>2. conn[c].since \in 0 .. n /\ Effect(RuleFor(db.rules, Call(c))) = says
    BY <1>c, <2>1, TablesGiveTheVerdict
  <2>3. \/ says = "ask" /\ Goes(c, "idle")
        \/ says = "deny" /\ conn' = [conn EXCEPT ![c].pc = "begin", ![c].q.effect = "deny"]
        \/ says = "allow" /\ Goes(c, "budgets")
    <3> HIDE DEF says
    <3> QED
      BY <1>9, <2>2 DEF ReadRules, Effect
  <2> HIDE DEF says
  <2>4. CASE says = "ask" /\ Goes(c, "idle")
    BY <1>5, <2>1, <2>4
  <2>5. CASE says = "deny" /\ conn' = [conn EXCEPT ![c].pc = "begin", ![c].q.effect = "deny"]
    <3> DEFINE q == [conn[c].q EXCEPT !.effect = "deny"]
               u == [conn[c] EXCEPT !.pc = "begin", !.q = q]
    <3>1. conn' = [conn EXCEPT ![c] = u]
      BY <1>t, <2>5
    <3>2. q.effect = "deny" /\ q.kind = "call.request" /\ q.tool = conn[c].q.tool
      BY <1>c, <2>1 DEF Entries
    <3> HIDE DEF q
    <3>3. /\ u.pc = "begin" /\ u.q = q /\ u.since = conn[c].since
          /\ u.agent = conn[c].agent /\ u.connector = conn[c].connector
      BY <1>t DEF ConnStates
    <3> HIDE DEF u
    <3>4. CallOf(u) = CallOf(conn[c])
      BY <3>2, <3>3 DEF CallOf
    <3>5. Verdict(db.log, n, n, CallOf(u), q.sid) = "deny"
      BY <2>5, <3>4 DEF Verdict, says
    <3>6. n \in Moments(u, db.log) /\ n \in n .. n
      BY <1>t, <2>2, <3>3 DEF Moments
    <3>7. Explained(u, db'.log)
      BY <2>1, <2>2, <3>2, <3>3, <3>5, <3>6 DEF Explained
    <3> QED
      BY <2>1, <3>1, <3>7, OneStepExplains
  <2>6. CASE says = "allow" /\ Goes(c, "budgets")
    <3> DEFINE u == [conn[c] EXCEPT !.pc = "budgets"]
    <3>1. conn' = [conn EXCEPT ![c] = u]
      BY <1>t, <2>6
    <3>2. /\ u.pc = "budgets" /\ u.q = conn[c].q /\ u.since = conn[c].since
          /\ u.agent = conn[c].agent /\ u.connector = conn[c].connector
      BY <1>t DEF ConnStates
    <3> HIDE DEF u
    <3>3. CallOf(u) = CallOf(conn[c])
      BY <3>2 DEF CallOf
    <3>4. n \in Moments(u, db.log)
      BY <1>t, <2>2, <3>2 DEF Moments
    <3>5. Explained(u, db'.log)
      BY <2>1, <2>2, <2>6, <3>2, <3>3, <3>4 DEF Explained, says
    <3> QED
      BY <2>1, <3>1, <3>5, OneStepExplains
  <2> QED
    BY <2>3, <2>4, <2>5, <2>6
<1>10. ASSUME NEW c \in Conns, CheckBudgets(c) PROVE ExplainInv'
  <2> DEFINE n == Len(db.log)
             spent == \E b \in MatchingBudgets(db.budgets, Call(c)) : UsedUp(db.log, conn[c].sid, b)
             d == IF spent THEN "deny" ELSE "allow"
             q == [conn[c].q EXCEPT !.effect = d]
             u == [conn[c] EXCEPT !.pc = "begin", !.q = q]
  <2>1. conn[c].pc = "budgets" /\ db' = db /\ conn' = [conn EXCEPT ![c].pc = "begin", ![c].q.effect = d]
    BY <1>10 DEF CheckBudgets
  <2> HIDE DEF d
  <2>2. conn' = [conn EXCEPT ![c] = u]
    BY <1>t, <2>1
  <2>3. q.effect = d /\ q.kind = "call.request" /\ q.tool = conn[c].q.tool /\ q.sid = conn[c].sid
    BY <1>c, <2>1 DEF Entries
  <2> HIDE DEF q
  <2>4. /\ u.pc = "begin" /\ u.q = q /\ u.since = conn[c].since
        /\ u.agent = conn[c].agent /\ u.connector = conn[c].connector
    BY <1>t DEF ConnStates
  <2> HIDE DEF u
  <2>5. CallOf(u) = CallOf(conn[c]) /\ Call(c) = CallOf(u)
    BY <1>c, <2>1, <2>3, <2>4 DEF CallOf
  <2>6. PICK k1 \in Moments(conn[c], db.log) :
           SafestOfTheMostSpecific(RulesInForce(db.log, k1), CallOf(u)) = "allow"
    BY <1>s, <2>1, <2>5 DEF Explained
  <2>7. spent <=> \E b \in BudgetsInForce(db.log, n) :
                     Covers(b, CallOf(u))
                     /\ CountAllowed(SubSeq(db.log, 1, n), q.sid, b.tool) >= b.calls
    BY <2>3, <2>5, TablesGiveTheVerdict
  <2>8. Verdict(db.log, k1, n, CallOf(u), q.sid) = d
    BY <2>6, <2>7 DEF Verdict, d
  <2>9. k1 \in Moments(u, db.log) /\ n \in k1 .. n /\ u.since \in 0 .. n
    BY <1>c, <1>t, <2>1, <2>4 DEF Moments
  <2>10. Explained(u, db'.log)
    BY <2>1, <2>3, <2>4, <2>8, <2>9 DEF Explained
  <2> QED
    BY <2>1, <2>2, <2>10, OneStepExplains
<1>11. ASSUME NEW c \in Conns, RefuseSession(c) \/ ReadFails(c) \/ Fail(c) PROVE ExplainInv'
  BY <1>5, <1>11 DEF RefuseSession, ReadFails, Fail
<1>12. ASSUME NEW c \in Conns, Begin(c) PROVE ExplainInv'
  <2>1. conn[c].pc = "begin" /\ db' = db /\ conn[c].q \in Entries
    BY <1>12, <1>t DEF Begin, Pending, Busy
  <2>2. CASE Goes(c, "idle")
    BY <1>5, <2>1, <2>2
  <2>3. CASE conn' = [conn EXCEPT ![c].pc = "append", ![c].q = Recorded(db, conn[c].q)]
    <3> DEFINE q == Recorded(db, conn[c].q)
               u == [conn[c] EXCEPT !.pc = "append", !.q = q]
    <3>1. conn' = [conn EXCEPT ![c] = u]
      BY <1>t, <2>3
    <3>2. q.kind = conn[c].q.kind /\ (q.kind = "call.request" => q = conn[c].q)
      BY <2>1, RecordedAsAsked DEF OfSession
    <3> HIDE DEF q
    <3>3. /\ u.pc = "append" /\ u.q = q /\ u.since = conn[c].since
          /\ u.agent = conn[c].agent /\ u.connector = conn[c].connector
      BY <1>t DEF ConnStates
    <3> HIDE DEF u
    <3>4. CASE q.kind # "call.request"
      BY <1>k, <2>1, <3>1, <3>3, <3>4
    <3>5. CASE q.kind = "call.request"
      <4>1. CallOf(u) = CallOf(conn[c]) /\ Moments(u, db.log) = Moments(conn[c], db.log) /\ u.q = conn[c].q
        BY <3>2, <3>3, <3>5 DEF CallOf, Moments
      <4>2. Explained(u, db'.log)
        BY <1>s, <2>1, <3>3, <3>5, <4>1 DEF Explained, Busy
      <4> QED
        BY <2>1, <3>1, <4>2, OneStepExplains
    <3> QED
      BY <3>4, <3>5
  <2> QED
    BY <1>12, <2>2, <2>3 DEF Begin
<1>13. ASSUME NEW c \in Conns, Commit(c) PROVE ExplainInv'
  <2>1. db'.log = Append(db.log, conn[c].q) /\ conn[c].q \in Entries
    BY <1>13, <1>t, CommitAppends DEF Commit, Busy
  <2>2. PICK u : conn' = [conn EXCEPT ![c] = u] /\ u.pc = "idle"
    <3>1. CASE conn[c].q.kind = "session.start"
      <4> DEFINE u == [conn[c] EXCEPT !.pc = "idle", !.sid = conn[c].q.sid,
                                      !.connector = conn[c].q.connector]
      <4>1. conn' = [conn EXCEPT ![c] = u] /\ u.pc = "idle"
        BY <1>13, <1>t, <3>1 DEF Commit, ConnStates
      <4> HIDE DEF u
      <4> QED
        BY <4>1
    <3>2. CASE conn[c].q.kind = "session.end"
      <4> DEFINE u == [conn[c] EXCEPT !.pc = "idle", !.sid = None, !.connector = None]
      <4>1. conn' = [conn EXCEPT ![c] = u] /\ u.pc = "idle"
        BY <1>13, <1>t, <3>2 DEF Commit, ConnStates
      <4> HIDE DEF u
      <4> QED
        BY <4>1
    <3>3. CASE conn[c].q.kind \notin {"session.start", "session.end"}
      <4> DEFINE u == [conn[c] EXCEPT !.pc = "idle"]
      <4>1. conn' = [conn EXCEPT ![c] = u] /\ u.pc = "idle"
        BY <1>13, <1>t, <3>3 DEF Commit, ConnStates
      <4> HIDE DEF u
      <4> QED
        BY <4>1
    <3> QED
      BY <3>1, <3>2, <3>3
  <2> QED
    BY <1>k, <2>1, <2>2
<1> QED
  BY <1>1, <1>2, <1>3, <1>4, <1>6, <1>7, <1>8, <1>9, <1>10, <1>11, <1>12, <1>13
  DEF PolicyNext, Serve

\* A recorded decision can be explained from the journal alone, whatever the
\* operators changed meanwhile (JournalExplains).
THEOREM DecisionsAreExplained == PolicySpec => JournalExplains
<1>1. PolicyInit => ExplainInv
  BY DEF PolicyInit, Fresh, ExplainInv, Explained, Busy
<1>2. PolicyTypeOK /\ TxInv /\ Sound(db) /\ Numbered(db) /\ StoryInv /\ ExplainInv /\ [PolicyNext]_vars
         => ExplainInv'
  BY ExplainInvInductive
<1> DEFINE Explains ==
      \A c \in Conns :
        LET e == conn[c].q  k == Len(db.log) IN
        (At(c, "append") /\ e.kind = "call.request" /\ db'.log = Append(db.log, e)) =>
            \E i \in 1 .. k :
                /\ db.log[i].kind = "session.start" /\ db.log[i].sid = e.sid
                /\ \E k1 \in conn[c].since .. k : \E k2 \in k1 .. k :
                      e.effect = Verdict(db.log, k1, k2,
                                         [agent |-> db.log[i].agent,
                                          connector |-> db.log[i].connector, tool |-> e.tool],
                                         e.sid)
<1>3. PolicyTypeOK /\ StoryInv /\ ExplainInv => Explains
  <2> SUFFICES ASSUME PolicyTypeOK, StoryInv, ExplainInv, NEW c \in Conns,
                      conn[c].pc = "append", conn[c].q.kind = "call.request"
               PROVE  \E i \in 1 .. Len(db.log) :
                        /\ db.log[i].kind = "session.start" /\ db.log[i].sid = conn[c].q.sid
                        /\ \E k1 \in conn[c].since .. Len(db.log) : \E k2 \in k1 .. Len(db.log) :
                              conn[c].q.effect = Verdict(db.log, k1, k2,
                                                 [agent |-> db.log[i].agent,
                                                  connector |-> db.log[i].connector,
                                                  tool |-> conn[c].q.tool],
                                                 conn[c].q.sid)
    BY DEF At
  <2>1. conn[c].q.sid = conn[c].sid /\ StartedAs(db.log, conn[c])
    BY DEF StoryInv, SessionOK, OfSession, Busy
  <2>2. PICK i \in DOMAIN db.log :
           /\ db.log[i].kind = "session.start" /\ db.log[i].sid = conn[c].sid
           /\ db.log[i].agent = conn[c].agent /\ db.log[i].connector = conn[c].connector
    BY <2>1 DEF StartedAs
  <2>3. i \in 1 .. Len(db.log)
    BY <2>2 DEF PolicyTypeOK, Views
  <2>4. [agent |-> db.log[i].agent, connector |-> db.log[i].connector, tool |-> conn[c].q.tool]
          = CallOf(conn[c])
    BY <2>2 DEF CallOf
  <2>5. \E k1 \in conn[c].since .. Len(db.log) : \E k2 \in k1 .. Len(db.log) :
           conn[c].q.effect = Verdict(db.log, k1, k2, CallOf(conn[c]), conn[c].q.sid)
    BY DEF ExplainInv, Explained, Moments
  <2> QED
    BY <2>1, <2>2, <2>3, <2>4, <2>5
<1>4. PolicyTypeOK /\ StoryInv /\ ExplainInv => [Explains]_vars
  BY <1>3
<1> QED
  BY <1>1, <1>2, <1>4, PolicyTypeCorrect, PolicyInvHolds, RulesStayNumbered, StoryInvHolds, PTL
  DEF PolicySpec, JournalExplains

-----------------------------------------------------------------------------
(***************************************************************************)
(* Every entry is justified by those before it: the daemon keeps the       *)
(* promise of module LawfulLedger.                                         *)
(***************************************************************************)

\* What is read of a log through the instance is what is read of it here.
LEMMA SameEvidence ==
    ASSUME NEW log, NEW e
    PROVE  Ledgered!Lawful(log, e) <=> Lawful(log, e)
  BY DEF Ledgered!Lawful, Lawful, Ledgered!AddsTo, AddsTo, Ledgered!RemovesRule, RemovesRule,
     Ledgered!RemovesBudget, RemovesBudget, Ledgered!Enrols, Enrols, Ledgered!Removes, Removes,
     Ledgered!Mentioned, Mentioned, Ledgered!UnderWay, UnderWay, Ledgered!Ended, Ended,
     Ledgered!Decides, Decides, Ledgered!StartsAt, StartsAt, Ledgered!WasEnrolled, WasEnrolled,
     Ledgered!Verdict, Verdict, Ledgered!CountAllowed, CountAllowed,
     Ledgered!SafestOfTheMostSpecific, SafestOfTheMostSpecific, Ledgered!EnrolledAs, EnrolledAs,
     Ledgered!RulesInForce, RulesInForce, Ledgered!BudgetsInForce, BudgetsInForce,
     Ledgered!InForce, InForce, Ledgered!SameScope, SameScope, Ledgered!MatchingRules, MatchingRules,
     Ledgered!Covers, Covers, Ledgered!Specificity, Specificity,
     Ledgered!RuleToolDefault, RuleToolDefault

\* What the tables and the journal say of each other, row by row.
LEMMA RowByRow ==
    ASSUME NEW view, Sound(view)
    PROVE  /\ \A r \in view.rules : \E e \in RulesInForce(view.log, Len(view.log)) :
                 Scoped(e) = Scoped(r) /\ e.effect = r.effect
           /\ \A r \in RulesInForce(view.log, Len(view.log)) : \E e \in view.rules :
                 Scoped(e) = Scoped(r) /\ e.effect = r.effect
           /\ \A r \in view.budgets : \E e \in BudgetsInForce(view.log, Len(view.log)) :
                 Scoped(e) = Scoped(r) /\ e.calls = r.calls
           /\ \A r \in BudgetsInForce(view.log, Len(view.log)) : \E e \in view.budgets :
                 Scoped(e) = Scoped(r) /\ e.calls = r.calls
<1>1. ASSUME NEW r \in view.rules
      PROVE  \E e \in RulesInForce(view.log, Len(view.log)) : Scoped(e) = Scoped(r) /\ e.effect = r.effect
  <2>1. <<Scoped(r), r.effect>> \in {<<Scoped(x), x.effect>> : x \in view.rules}
    OBVIOUS
  <2>2. <<Scoped(r), r.effect>> \in {<<Scoped(x), x.effect>> : x \in RulesInForce(view.log, Len(view.log))}
    BY <2>1 DEF Sound, RulesFollow
  <2> QED
    BY <2>2
<1>2. ASSUME NEW r \in RulesInForce(view.log, Len(view.log))
      PROVE  \E e \in view.rules : Scoped(e) = Scoped(r) /\ e.effect = r.effect
  <2>1. <<Scoped(r), r.effect>> \in {<<Scoped(x), x.effect>> : x \in RulesInForce(view.log, Len(view.log))}
    OBVIOUS
  <2>2. <<Scoped(r), r.effect>> \in {<<Scoped(x), x.effect>> : x \in view.rules}
    BY <2>1 DEF Sound, RulesFollow
  <2> QED
    BY <2>2
<1>3. ASSUME NEW r \in view.budgets
      PROVE  \E e \in BudgetsInForce(view.log, Len(view.log)) : Scoped(e) = Scoped(r) /\ e.calls = r.calls
  <2>1. <<Scoped(r), r.calls>> \in {<<Scoped(x), x.calls>> : x \in view.budgets}
    OBVIOUS
  <2>2. <<Scoped(r), r.calls>> \in {<<Scoped(x), x.calls>> : x \in BudgetsInForce(view.log, Len(view.log))}
    BY <2>1 DEF Sound, BudgetsFollow
  <2> QED
    BY <2>2
<1>4. ASSUME NEW r \in BudgetsInForce(view.log, Len(view.log))
      PROVE  \E e \in view.budgets : Scoped(e) = Scoped(r) /\ e.calls = r.calls
  <2>1. <<Scoped(r), r.calls>> \in {<<Scoped(x), x.calls>> : x \in BudgetsInForce(view.log, Len(view.log))}
    OBVIOUS
  <2>2. <<Scoped(r), r.calls>> \in {<<Scoped(x), x.calls>> : x \in view.budgets}
    BY <2>1 DEF Sound, BudgetsFollow
  <2> QED
    BY <2>2
<1> QED
  BY <1>1, <1>2, <1>3, <1>4

\* A change the tables permit is one the journal justifies, and its entry
\* records what the journal says was in force.
LEMMA PermittedIsLawful ==
    ASSUME NEW view \in Views, NEW q \in Entries, Valid(q), Permitted(view, q), Sound(view),
           q.kind \notin OfSession,
           q.kind \in {"rule.add", "budget.add"} => WasEnrolled(view.log, q.agent)
    PROVE  Lawful(view.log, Recorded(view, q))
<1> DEFINE log == view.log
           n == Len(log)
<1>1. CASE q.kind = "rule.add"
  <2>1. Recorded(view, q) = q
    BY <1>1 DEF Recorded
  <2>2. ASSUME NEW r \in RulesInForce(log, n), SameScope(r, q) PROVE FALSE
    <3>1. PICK t \in view.rules : Scoped(t) = Scoped(r)
      BY <2>2, RowByRow
    <3>2. SameScope(t, q)
      BY <2>2, <3>1 DEF SameScope, Scoped
    <3> QED
      BY <1>1, <3>2 DEF Permitted, Taken
  <2> QED
    BY <1>1, <2>1, <2>2 DEF Lawful, AddsTo
<1>2. CASE q.kind = "rule.remove"
  <2>1. PICK t \in view.rules : t = (CHOOSE r \in view.rules : SameScope(r, q)) /\ SameScope(t, q)
    BY <1>2 DEF Permitted, Taken
  <2> DEFINE e == [q EXCEPT !.effect = t.effect]
  <2>2. Recorded(view, q) = e
    BY <1>2, <2>1 DEF Recorded
  <2>3. e.kind = "rule.remove" /\ e.effect = t.effect /\ e.agent = q.agent
        /\ e.connector = q.connector /\ e.tool = q.tool
    BY <1>2 DEF Entries
  <2> HIDE DEF e
  <2>4. PICK r \in RulesInForce(log, n) : Scoped(r) = Scoped(t) /\ r.effect = t.effect
    BY RowByRow
  <2>5. SameScope(r, e) /\ r.effect = e.effect
    BY <2>1, <2>3, <2>4 DEF SameScope, Scoped
  <2> QED
    BY <2>2, <2>3, <2>5 DEF Lawful, RemovesRule
<1>3. CASE q.kind = "budget.add"
  <2>1. Recorded(view, q) = q
    BY <1>3 DEF Recorded
  <2>2. ASSUME NEW b \in BudgetsInForce(log, n), SameScope(b, q) PROVE FALSE
    <3>1. PICK t \in view.budgets : Scoped(t) = Scoped(b)
      BY <2>2, RowByRow
    <3>2. SameScope(t, q)
      BY <2>2, <3>1 DEF SameScope, Scoped
    <3> QED
      BY <1>3, <3>2 DEF Permitted, Taken
  <2> QED
    BY <1>3, <2>1, <2>2 DEF Lawful, AddsTo
<1>4. CASE q.kind = "budget.remove"
  <2>1. PICK t \in view.budgets : t = (CHOOSE b \in view.budgets : SameScope(b, q)) /\ SameScope(t, q)
    BY <1>4 DEF Permitted, Taken
  <2> DEFINE e == [q EXCEPT !.calls = t.calls]
  <2>2. Recorded(view, q) = e
    BY <1>4, <2>1 DEF Recorded
  <2>3. e.kind = "budget.remove" /\ e.calls = t.calls /\ e.agent = q.agent
        /\ e.connector = q.connector /\ e.tool = q.tool
    BY <1>4 DEF Entries
  <2> HIDE DEF e
  <2>4. PICK b \in BudgetsInForce(log, n) : Scoped(b) = Scoped(t) /\ b.calls = t.calls
    BY RowByRow
  <2>5. SameScope(b, e) /\ b.calls = e.calls
    BY <2>1, <2>3, <2>4 DEF SameScope, Scoped
  <2> QED
    BY <2>2, <2>3, <2>5 DEF Lawful, RemovesBudget
<1>5. CASE q.kind = "agent.add"
  <2>1. Recorded(view, q) = q
    BY <1>5 DEF Recorded
  <2>2. ASSUME NEW f \in Range(log), f.agent \notin {None, q.agent}
        PROVE  q.image \notin EnrolledAs(log, n, f.agent)
    <3>1. f.agent \in Agents \ {q.agent}
      <4>1. log \in Seq(Entries) /\ \E i \in DOMAIN log : f = log[i]
        BY <2>2 DEF Range, Views
      <4>2. f \in Entries
        BY <4>1
      <4> QED
        BY <2>2, <4>2 DEF Entries
    <3>2. view.agents[f.agent] # q.image
      BY <1>5, <3>1 DEF Permitted, ImageFree
    <3>3. EnrolledAs(log, n, f.agent) = {view.agents[f.agent]} \ {None}
      BY <3>1 DEF Sound, AgentsFollow
    <3> QED
      BY <3>2, <3>3
  <2> QED
    BY <1>5, <2>1, <2>2 DEF Lawful, Enrols
<1>6. CASE q.kind = "agent.remove"
  <2> DEFINE e == [q EXCEPT !.image = view.agents[q.agent]]
  <2>1. Recorded(view, q) = e
    BY <1>6 DEF Recorded
  <2>2. e.kind = "agent.remove" /\ e.image = view.agents[q.agent] /\ e.agent = q.agent
    BY <1>6 DEF Entries
  <2> HIDE DEF e
  <2>3. q.agent \in Agents /\ view.agents[q.agent] # None
    BY <1>6 DEF Valid, Entries, Permitted
  <2>4. EnrolledAs(log, n, q.agent) = {view.agents[q.agent]} \ {None}
    BY <2>3 DEF Sound, AgentsFollow
  <2> QED
    BY <2>1, <2>2, <2>3, <2>4 DEF Lawful, Removes
<1> QED
  BY <1>1, <1>2, <1>3, <1>4, <1>5, <1>6 DEF Entries, OfSession

\* What was looked up before the transaction still stands in the journal: the
\* agent of the connection and of a scope, and the start of the session.
Backed(u, log) ==
    /\ WasEnrolled(log, u.agent)
    /\ u.pc \in {"begin", "append"} /\ u.q.kind \in {"rule.add", "budget.add"} =>
          WasEnrolled(log, u.q.agent)
    /\ u.pc \in Busy /\ u.q.kind = "call.request" =>
          /\ u.since \in 0 .. Len(log)
          /\ \E i \in 1 .. u.since :
                /\ StartsAt(log, i, u.sid)
                /\ log[i].agent = u.agent /\ log[i].connector = u.connector

BackedInv == \A c \in Conns : Backed(conn[c], db.log)

\* One more entry takes nothing of it away.
LEMMA BackedAppend ==
    ASSUME NEW log \in Seq(Entries), NEW e \in Entries, NEW u, Backed(u, log)
    PROVE  Backed(u, Append(log, e))
<1>1. /\ Len(Append(log, e)) = Len(log) + 1 /\ Len(log) \in Nat
      /\ DOMAIN log = 1 .. Len(log) /\ DOMAIN Append(log, e) = 1 .. Len(log) + 1
      /\ \A i \in 1 .. Len(log) : Append(log, e)[i] = log[i]
  OBVIOUS
<1>2. \A a : WasEnrolled(log, a) => WasEnrolled(Append(log, e), a)
  BY <1>1 DEF WasEnrolled
<1>3. ASSUME u.pc \in Busy, u.q.kind = "call.request"
      PROVE  /\ u.since \in 0 .. Len(Append(log, e))
             /\ \E i \in 1 .. u.since :
                   /\ StartsAt(Append(log, e), i, u.sid)
                   /\ Append(log, e)[i].agent = u.agent /\ Append(log, e)[i].connector = u.connector
  <2>1. PICK i \in 1 .. u.since : /\ StartsAt(log, i, u.sid)
                                  /\ log[i].agent = u.agent /\ log[i].connector = u.connector
    BY <1>3 DEF Backed
  <2>2. u.since \in 0 .. Len(log)
    BY <1>3 DEF Backed
  <2> QED
    BY <1>1, <2>1, <2>2 DEF StartsAt
<1> QED
  BY <1>2, <1>3 DEF Backed

\* A step of one connection; the journal stays or grows by an entry.
LEMMA OneStepBacks ==
    ASSUME PolicyTypeOK, BackedInv, NEW c \in Conns, NEW u, conn' = [conn EXCEPT ![c] = u],
           \/ db'.log = db.log
           \/ \E e \in Entries : db'.log = Append(db.log, e),
           Backed(u, db.log)
    PROVE  BackedInv'
<1>1. db.log \in Seq(Entries) /\ conn'[c] = u /\ \A d \in Conns : d # c => conn'[d] = conn[d]
  BY DEF PolicyTypeOK, Views
<1>2. \A d \in Conns : Backed(conn'[d], db.log)
  BY <1>1 DEF BackedInv
<1> QED
  BY <1>1, <1>2, BackedAppend DEF BackedInv

\* Who is enrolled was enrolled by an entry.
LEMMA EnrolledByAnEntry ==
    ASSUME PolicyTypeOK, Sound(db), NEW a \in Agents, db.agents[a] # None
    PROVE  WasEnrolled(db.log, a)
<1>1. EnrolledAs(db.log, Len(db.log), a) # {}
  BY DEF Sound, AgentsFollow
<1>2. DOMAIN db.log = 1 .. Len(db.log)
  BY DEF PolicyTypeOK, Views
<1> QED
  BY <1>1, <1>2 DEF EnrolledAs, WasEnrolled

\* Every step of every handler leaves what it has in hand backed by the
\* journal.
LEMMA BackedInvInductive ==
    ASSUME PolicyTypeOK, TxInv, Sound(db), StoryInv, ExplainInv, BackedInv, [PolicyNext]_vars
    PROVE  BackedInv'
<1> USE DEF At, Goes
<1>t. /\ conn \in [Conns -> ConnStates] /\ \A c \in Conns : conn[c] \in ConnStates
      /\ db.log \in Seq(Entries) /\ Len(db.log) \in Nat
      /\ \A c \in Conns : conn[c].pc \in Busy => conn[c].q \in Entries
  BY DEF PolicyTypeOK, Views, Valid, Busy
<1>b. \A c \in Conns : Backed(conn[c], db.log) /\ WasEnrolled(db.log, conn[c].agent)
  BY DEF BackedInv, Backed
<1>1. CASE UNCHANGED vars
  BY <1>1 DEF vars, BackedInv
<1>2. CASE Restart
  <2>1. db' = db /\ \A c \in Conns : conn'[c].pc \in {"new", "closed"} /\ conn'[c].agent = None
    BY <1>2 DEF Restart, Fresh
  <2> QED
    BY <2>1 DEF BackedInv, Backed, Busy, WasEnrolled
\* A connection that has nothing in hand afterwards but its agent.
<1>k. ASSUME NEW c \in Conns, NEW u, conn' = [conn EXCEPT ![c] = u],
             \/ db'.log = db.log
             \/ \E e \in Entries : db'.log = Append(db.log, e),
             WasEnrolled(db.log, u.agent), u.pc \notin {"rules", "budgets"},
             u.pc \in {"begin", "append"} => u.q.kind \notin {"rule.add", "budget.add", "call.request"}
      PROVE  BackedInv'
  <2>1. Backed(u, db.log)
    BY <1>k DEF Backed, Busy
  <2> QED
    BY <1>k, <2>1, OneStepBacks
<1>3. ASSUME NEW c \in Conns, Accept(c) PROVE BackedInv'
  <2>1. PICK image \in Images \cup {None} :
           LET names == IF image = None THEN {} ELSE Enrolled(db.agents, image) IN
           conn' = [conn EXCEPT ![c].pc = "idle",
                       ![c].agent = IF names = {} THEN None ELSE CHOOSE a \in names : TRUE]
    BY <1>3 DEF Accept
  <2> DEFINE names == IF image = None THEN {} ELSE Enrolled(db.agents, image)
             agent == IF names = {} THEN None ELSE CHOOSE a \in names : TRUE
             u == [conn[c] EXCEPT !.pc = "idle", !.agent = agent]
  <2>2. conn' = [conn EXCEPT ![c].pc = "idle", ![c].agent = agent] /\ db' = db
    BY <1>3, <2>1 DEF Accept
  <2>3. WasEnrolled(db.log, agent)
    <3>1. CASE names = {}
      BY <3>1 DEF WasEnrolled
    <3>2. CASE names # {}
      <4>1. agent \in names
        BY <3>2
      <4> HIDE DEF agent
      <4>2. agent \in Agents /\ db.agents[agent] = image /\ image # None
        BY <4>1 DEF Enrolled
      <4> QED
        BY <4>2, EnrolledByAnEntry
    <3> QED
      BY <3>1, <3>2
  <2> HIDE DEF agent
  <2>4. conn' = [conn EXCEPT ![c] = u] /\ u.pc = "idle" /\ u.agent = agent
    BY <1>t, <2>2 DEF ConnStates
  <2> HIDE DEF u
  <2> QED
    BY <1>k, <2>2, <2>3, <2>4
<1>4. ASSUME NEW c \in Conns, StartSession(c) \/ EndSession(c) PROVE BackedInv'
  <2>1. PICK q : /\ conn' = [conn EXCEPT ![c].pc = "begin", ![c].q = q] /\ db' = db
                 /\ q.kind \in {"session.start", "session.end"}
    <3>1. CASE StartSession(c)
      <4>1. PICK s \in Sessions, k \in Connectors :
               conn' = [conn EXCEPT ![c].pc = "begin",
                               ![c].q = [Blank EXCEPT !.kind = "session.start", !.sid = s,
                                             !.agent = conn[c].agent, !.connector = k]]
        BY <3>1 DEF StartSession
      <4> DEFINE q == [Blank EXCEPT !.kind = "session.start", !.sid = s,
                                    !.agent = conn[c].agent, !.connector = k]
      <4>2. q.kind = "session.start"
        BY DEF Blank
      <4> HIDE DEF q
      <4> QED
        BY <3>1, <4>1, <4>2 DEF StartSession, q
    <3>2. CASE EndSession(c)
      <4> DEFINE q == EndEntry(conn[c].sid)
      <4>1. q.kind = "session.end" /\ db' = db /\ conn' = [conn EXCEPT ![c].pc = "begin", ![c].q = q]
        BY <3>2 DEF EndSession, EndEntry, Blank
      <4> HIDE DEF q
      <4> QED
        BY <4>1
    <3> QED
      BY <1>4, <3>1, <3>2
  <2> DEFINE u == [conn[c] EXCEPT !.pc = "begin", !.q = q]
  <2>2. conn' = [conn EXCEPT ![c] = u] /\ u.pc = "begin" /\ u.q = q /\ u.agent = conn[c].agent
    BY <1>t, <2>1 DEF ConnStates
  <2> HIDE DEF u
  <2> QED
    BY <1>b, <1>k, <2>1, <2>2
<1>5. ASSUME NEW c \in Conns, NEW pc \in {"idle", "closed"}, Goes(c, pc), UNCHANGED db
      PROVE  BackedInv'
  <2> DEFINE u == [conn[c] EXCEPT !.pc = pc]
  <2>1. conn' = [conn EXCEPT ![c] = u] /\ u.pc = pc /\ u.agent = conn[c].agent
    BY <1>5, <1>t DEF ConnStates
  <2> HIDE DEF u
  <2> QED
    BY <1>5, <1>b, <1>k, <2>1
<1>6. ASSUME NEW c \in Conns, HangUp(c) PROVE BackedInv'
  <2> DEFINE u == [Fresh EXCEPT !.pc = "closed"]
  <2>1. conn' = [conn EXCEPT ![c] = u] /\ u.pc = "closed" /\ u.agent = None
    BY <1>6 DEF HangUp, Fresh
  <2>2. db'.log = db.log \/ \E e \in Entries : db'.log = Append(db.log, e)
    <3>1. EndEntry(conn[c].sid) \in Entries
      BY <1>t DEF EndEntry, Blank, Entries, ConnStates
    <3>2. db' = db \/ db'.log = Append(db.log, EndEntry(conn[c].sid))
      BY <1>6 DEF HangUp, PolicyTypeOK, Views
    <3> QED
      BY <3>1, <3>2
  <2>3. WasEnrolled(db.log, None)
    BY DEF WasEnrolled
  <2> HIDE DEF u
  <2> QED
    BY <1>k, <2>1, <2>2, <2>3
\* The agent a scope names is looked up when the request is accepted.
<1>7. ASSUME NEW c \in Conns, Administer(c) PROVE BackedInv'
  <2>1. PICK q \in Requests, pc \in {"begin", "idle"} :
           /\ conn' = [conn EXCEPT ![c].purpose = Purpose(q), ![c].q = q, ![c].pc = pc]
           /\ db' = db
           /\ pc = "begin" /\ q.kind \in {"rule.add", "budget.add"} => AgentIsEnrolled(q)
    <3>1. PICK q \in Requests, accepted \in BOOLEAN :
             /\ Request(c, q, accepted)
             /\ accepted /\ q.kind \in {"rule.add", "budget.add"} => AgentIsEnrolled(q)
      <4>1. AgentIsEnrolled(conn[c].q) \in BOOLEAN /\ \A q : AgentIsEnrolled(q) \in BOOLEAN
        BY DEF AgentIsEnrolled
      <4> QED
        BY <1>7, <4>1 DEF Administer, HandlePolicyAdd, HandlePolicyRemove,
           HandleBudgetSet, HandleBudgetRemove, HandleAgentAdd, HandleAgentRemove, Asked
    <3> DEFINE pc == IF accepted THEN "begin" ELSE "idle"
    <3>2. /\ conn' = [conn EXCEPT ![c].purpose = Purpose(q), ![c].q = q, ![c].pc = pc]
          /\ db' = db /\ pc \in {"begin", "idle"} /\ (pc = "begin" => accepted)
      BY <3>1 DEF Request
    <3> HIDE DEF pc
    <3> QED
      BY <3>1, <3>2
  <2> DEFINE u == [conn[c] EXCEPT !.purpose = Purpose(q), !.q = q, !.pc = pc]
  <2>2. conn' = [conn EXCEPT ![c] = u] /\ u.pc = pc /\ u.q = q /\ u.agent = conn[c].agent
    BY <1>t, <2>1 DEF ConnStates
  <2> HIDE DEF u
  <2>3. q \in Entries /\ q.kind # "call.request"
    BY PolicyAssumption DEF Valid
  <2>4. CASE pc = "begin" /\ q.kind \in {"rule.add", "budget.add"}
    <3>1. WasEnrolled(db.log, q.agent)
      <4>1. CASE q.agent = None
        BY <4>1 DEF WasEnrolled
      <4>2. CASE q.agent # None
        <5>1. q.agent \in Agents /\ db.agents[q.agent] # None
          BY <2>1, <2>3, <2>4, <4>2 DEF AgentIsEnrolled, Entries
        <5> QED
          BY <5>1, EnrolledByAnEntry
      <4> QED
        BY <4>1, <4>2
    <3>2. Backed(u, db.log)
      BY <1>b, <2>2, <2>3, <3>1 DEF Backed
    <3> QED
      BY <2>1, <2>2, <3>2, OneStepBacks
  <2>5. CASE pc = "idle" \/ q.kind \notin {"rule.add", "budget.add"}
    BY <1>b, <1>k, <2>1, <2>2, <2>3, <2>5
  <2> QED
    BY <2>4, <2>5
\* The session's start lies before the question.
<1>8. ASSUME NEW c \in Conns, Ask(c) PROVE BackedInv'
  <2>1. PICK tool \in Calls :
           conn' = [conn EXCEPT ![c].pc = "rules", ![c].since = Len(db.log),
                       ![c].q = [Blank EXCEPT !.kind = "call.request", !.sid = conn[c].sid,
                                     !.tool = tool]]
    BY <1>8 DEF Ask
  <2> DEFINE q == [Blank EXCEPT !.kind = "call.request", !.sid = conn[c].sid, !.tool = tool]
             u == [conn[c] EXCEPT !.pc = "rules", !.since = Len(db.log), !.q = q]
  <2> HIDE DEF q
  <2>2. /\ conn' = [conn EXCEPT ![c] = u] /\ u.pc = "rules" /\ u.since = Len(db.log) /\ db' = db
        /\ u.sid = conn[c].sid /\ u.agent = conn[c].agent /\ u.connector = conn[c].connector
    BY <1>8, <1>t, <2>1 DEF Ask, ConnStates, q
  <2> HIDE DEF u
  <2>3. StartedAs(db.log, conn[c])
    BY <1>8 DEF Ask, StoryInv, SessionOK
  <2>4. PICK i \in 1 .. Len(db.log) :
           /\ StartsAt(db.log, i, conn[c].sid)
           /\ db.log[i].agent = conn[c].agent /\ db.log[i].connector = conn[c].connector
    BY <1>t, <2>3 DEF StartedAs, StartsAt
  <2>5. Backed(u, db.log)
    BY <1>b, <1>t, <2>2, <2>4 DEF Backed
  <2> QED
    BY <2>2, <2>5, OneStepBacks
\* What goes on with the same question.
<1>c. ASSUME NEW c \in Conns, NEW u, conn' = [conn EXCEPT ![c] = u], db' = db,
             conn[c].pc \in {"rules", "budgets", "begin"}, u.pc \in {"budgets", "begin", "append"},
             u.q.kind = conn[c].q.kind, u.since = conn[c].since, u.sid = conn[c].sid,
             u.agent = conn[c].agent, u.connector = conn[c].connector,
             u.q.kind \in {"rule.add", "budget.add"} =>
                conn[c].pc = "begin" /\ u.q.agent = conn[c].q.agent
      PROVE  BackedInv'
  <2>1. Backed(u, db.log)
    BY <1>b, <1>c DEF Backed, Busy
  <2> QED
    BY <1>c, <2>1, OneStepBacks
<1>9. ASSUME NEW c \in Conns, ReadRules(c) \/ CheckBudgets(c) PROVE BackedInv'
  <2>1. conn[c].pc \in {"rules", "budgets"} /\ db' = db /\ conn[c].q.kind = "call.request"
    BY <1>9 DEF ReadRules, CheckBudgets, StoryInv, SessionOK
  <2>2. CASE Goes(c, "idle")
    BY <1>5, <2>1, <2>2
  <2>3. ASSUME NEW pc \in {"budgets", "begin"}, NEW q, q.kind = "call.request",
               conn' = [conn EXCEPT ![c] = [conn[c] EXCEPT !.pc = pc, !.q = q]]
        PROVE  BackedInv'
    <3> DEFINE u == [conn[c] EXCEPT !.pc = pc, !.q = q]
    <3>1. /\ u.pc = pc /\ u.q = q /\ u.since = conn[c].since /\ u.sid = conn[c].sid
          /\ u.agent = conn[c].agent /\ u.connector = conn[c].connector
      BY <1>t DEF ConnStates
    <3>2. conn' = [conn EXCEPT ![c] = u]
      BY <2>3
    <3> HIDE DEF u
    <3>3. u.pc \in {"budgets", "begin"} /\ u.q.kind = conn[c].q.kind /\ u.q.kind = "call.request"
      BY <2>1, <2>3, <3>1
    <3>4. Backed(u, db.log)
      BY <1>b, <2>1, <3>1, <3>3 DEF Backed, Busy
    <3> QED
      BY <2>1, <3>2, <3>4, OneStepBacks
  <2>4. CASE Goes(c, "budgets")
    <3>1. conn' = [conn EXCEPT ![c] = [conn[c] EXCEPT !.pc = "budgets", !.q = conn[c].q]]
      BY <1>t, <2>4 DEF ConnStates
    <3> QED
      BY <2>1, <2>3, <3>1
  <2>5. ASSUME NEW d, conn' = [conn EXCEPT ![c].pc = "begin", ![c].q.effect = d] PROVE BackedInv'
    <3> DEFINE q == [conn[c].q EXCEPT !.effect = d]
    <3>1. q.kind = "call.request"
      BY <1>t, <2>1 DEF Busy, Entries
    <3>2. conn' = [conn EXCEPT ![c] = [conn[c] EXCEPT !.pc = "begin", !.q = q]]
      BY <1>t, <2>5
    <3> HIDE DEF q
    <3> QED
      BY <2>3, <3>1, <3>2
  <2>6. CASE ReadRules(c)
    BY <2>2, <2>4, <2>5, <2>6 DEF ReadRules
  <2>7. CASE CheckBudgets(c)
    BY <2>5, <2>7 DEF CheckBudgets
  <2> QED
    BY <1>9, <2>6, <2>7
<1>11. ASSUME NEW c \in Conns, RefuseSession(c) \/ ReadFails(c) \/ Fail(c) PROVE BackedInv'
  BY <1>5, <1>11 DEF RefuseSession, ReadFails, Fail
<1>12. ASSUME NEW c \in Conns, Begin(c) PROVE BackedInv'
  <2>1. conn[c].pc = "begin" /\ db' = db /\ conn[c].q \in Entries
    BY <1>12, <1>t DEF Begin, Pending, Busy
  <2>2. CASE Goes(c, "idle")
    BY <1>5, <2>1, <2>2
  <2>3. CASE conn' = [conn EXCEPT ![c].pc = "append", ![c].q = Recorded(db, conn[c].q)]
    <3> DEFINE q == Recorded(db, conn[c].q)
               u == [conn[c] EXCEPT !.pc = "append", !.q = q]
    <3>1. conn' = [conn EXCEPT ![c] = u]
      BY <1>t, <2>3
    <3>2. q.kind = conn[c].q.kind
      BY <2>1, RecordedAsAsked
    <3>3. q.kind \in {"rule.add", "budget.add"} => q.agent = conn[c].q.agent
      BY <3>2 DEF Recorded
    <3> HIDE DEF q
    <3>4. /\ u.pc = "append" /\ u.q = q /\ u.since = conn[c].since /\ u.sid = conn[c].sid
          /\ u.agent = conn[c].agent /\ u.connector = conn[c].connector
      BY <1>t DEF ConnStates
    <3> HIDE DEF u
    <3> QED
      BY <1>c, <2>1, <3>1, <3>2, <3>3, <3>4
  <2> QED
    BY <1>12, <2>2, <2>3 DEF Begin
<1>13. ASSUME NEW c \in Conns, Commit(c) PROVE BackedInv'
  <2>1. db'.log = Append(db.log, conn[c].q) /\ conn[c].q \in Entries
    BY <1>13, <1>t, CommitAppends DEF Commit, Busy
  <2>2. PICK u : conn' = [conn EXCEPT ![c] = u] /\ u.pc = "idle" /\ u.agent = conn[c].agent
    <3>1. CASE conn[c].q.kind = "session.start"
      <4> DEFINE u == [conn[c] EXCEPT !.pc = "idle", !.sid = conn[c].q.sid,
                                      !.connector = conn[c].q.connector]
      <4>1. conn' = [conn EXCEPT ![c] = u] /\ u.pc = "idle" /\ u.agent = conn[c].agent
        BY <1>13, <1>t, <3>1 DEF Commit, ConnStates
      <4> HIDE DEF u
      <4> QED
        BY <4>1
    <3>2. CASE conn[c].q.kind = "session.end"
      <4> DEFINE u == [conn[c] EXCEPT !.pc = "idle", !.sid = None, !.connector = None]
      <4>1. conn' = [conn EXCEPT ![c] = u] /\ u.pc = "idle" /\ u.agent = conn[c].agent
        BY <1>13, <1>t, <3>2 DEF Commit, ConnStates
      <4> HIDE DEF u
      <4> QED
        BY <4>1
    <3>3. CASE conn[c].q.kind \notin {"session.start", "session.end"}
      <4> DEFINE u == [conn[c] EXCEPT !.pc = "idle"]
      <4>1. conn' = [conn EXCEPT ![c] = u] /\ u.pc = "idle" /\ u.agent = conn[c].agent
        BY <1>13, <1>t, <3>3 DEF Commit, ConnStates
      <4> HIDE DEF u
      <4> QED
        BY <4>1
    <3> QED
      BY <3>1, <3>2, <3>3
  <2> QED
    BY <1>b, <1>k, <2>1, <2>2
<1> QED
  BY <1>1, <1>2, <1>3, <1>4, <1>6, <1>7, <1>8, <1>9, <1>11, <1>12, <1>13
  DEF PolicyNext, Serve

\* The entry a connection is about to commit is justified by the journal as it
\* stands.
LEMMA WhatIsCommittedIsLawful ==
    ASSUME PolicyTypeOK, TxInv, Sound(db), StoryInv, ExplainInv, BackedInv,
           NEW c \in Conns, conn[c].pc = "append"
    PROVE  Lawful(db.log, conn[c].q)
<1> DEFINE log == db.log
           u == conn[c]
           e == conn[c].q
<1>t. u \in ConnStates /\ e \in Entries /\ log \in Seq(Entries) /\ DOMAIN log = 1 .. Len(log)
  BY DEF PolicyTypeOK, Views, Valid
<1>u. tx # Free /\ tx.by = c
  BY DEF PolicyTypeOK
<1>s. SessionOK(u, log) /\ Backed(u, log) /\ Explained(u, log)
  BY DEF StoryInv, BackedInv, ExplainInv
<1> HIDE DEF u, e
<1>p. u.pc = "append" /\ u.q = e
  BY DEF u, e
<1>1. CASE e.kind \notin OfSession
  <2>1. PICK q \in Entries : Valid(q) /\ Permitted(db, q) /\ e = Recorded(db, q)
    BY <1>u DEF TxInv, e
  <2>2. q.kind = e.kind
    BY <2>1, RecordedAsAsked
  <2>3. q.kind \in {"rule.add", "budget.add"} => WasEnrolled(log, q.agent)
    <3>1. q.kind \in {"rule.add", "budget.add"} => e = q
      BY <2>1 DEF Recorded
    <3> QED
      BY <1>p, <1>s, <3>1 DEF Backed
  <2>4. db \in Views
    BY DEF PolicyTypeOK
  <2> QED
    BY <1>1, <2>1, <2>2, <2>3, <2>4, PermittedIsLawful DEF e
<1>2. CASE e.kind = "session.start"
  <2>1. ~Told(log, e.sid) /\ e.agent = u.agent
    BY <1>2, <1>p, <1>s DEF SessionOK, Opening
  <2> QED
    BY <1>2, <1>s, <2>1 DEF Lawful, Told, Mentioned, Backed, e
<1>3. CASE e.kind \in {"session.end", "call.request"}
  <2>1. e.sid = u.sid /\ StartedAs(log, u) /\ ~EndedIn(log, u.sid)
    BY <1>3, <1>p, <1>s DEF SessionOK, OfSession, Busy
  <2>2. UnderWay(log, e.sid)
    BY <2>1 DEF UnderWay, Ended, EndedIn, StartedAs, StartsAt
  <2>3. e.kind = "call.request" => Decides(log, e)
    <3> SUFFICES ASSUME e.kind = "call.request" PROVE Decides(log, e)
      OBVIOUS
    <3>1. PICK i \in 1 .. u.since :
             /\ StartsAt(log, i, u.sid)
             /\ log[i].agent = u.agent /\ log[i].connector = u.connector
      BY <1>p, <1>s DEF Backed, Busy
    <3>2. u.since \in 0 .. Len(log)
      BY <1>p, <1>s DEF Backed, Busy
    <3>3. PICK k1 \in u.since .. Len(log) : \E k2 \in k1 .. Len(log) :
             e.effect = Verdict(log, k1, k2, CallOf(u), e.sid)
      BY <1>p, <1>s DEF Explained, Moments
    <3>4. PICK k2 \in k1 .. Len(log) : e.effect = Verdict(log, k1, k2, CallOf(u), e.sid)
      BY <3>3
    <3>5. [agent |-> log[i].agent, connector |-> log[i].connector, tool |-> e.tool] = CallOf(u)
      BY <1>p, <3>1 DEF CallOf
    <3>6. i \in DOMAIN log /\ k1 \in i .. Len(log)
      BY <1>t, <3>1, <3>2
    <3>7. StartsAt(log, i, e.sid)
      BY <2>1, <3>1
    <3> QED
      BY <3>4, <3>5, <3>6, <3>7 DEF Decides
  <2> QED
    BY <1>3, <2>2, <2>3 DEF Lawful, e
<1> QED
  BY <1>1, <1>2, <1>3 DEF OfSession

\* A step of the daemon is a step of the ledger, or invisible in it.
LEMMA StepOfLedger ==
    ASSUME PolicyTypeOK, TxInv, Sound(db), StoryInv, ExplainInv, BackedInv, [PolicyNext]_vars
    PROVE  [Ledgered!LedgerNext]_(db.log)
<1>t. db \in Views /\ db.log \in Seq(Entries) /\ conn \in [Conns -> ConnStates]
  BY DEF PolicyTypeOK, Views
<1>1. ASSUME NEW e \in Entries, db'.log = Append(db.log, e), Lawful(db.log, e)
      PROVE  Ledgered!LedgerNext
  <2>1. e \in Ledgered!Range(db'.log)
    <3>1. Len(db.log) + 1 \in DOMAIN db'.log /\ db'.log[Len(db.log) + 1] = e
      BY <1>t, <1>1
    <3> QED
      BY <3>1 DEF Ledgered!Range
  <2> QED
    BY <1>1, <2>1, SameEvidence DEF Ledgered!LedgerNext, Ledgered!Record
<1>2. CASE \E c \in Conns : Commit(c)
  <2>1. PICK c \in Conns : Commit(c)
    BY <1>2
  <2>2. conn[c].pc = "append" /\ conn[c].q \in Entries
    BY <2>1 DEF Commit, At, PolicyTypeOK, Valid
  <2> QED
    BY <1>1, <2>1, <2>2, CommitAppends, WhatIsCommittedIsLawful
<1>3. CASE \E c \in Conns : HangUp(c)
  <2>1. PICK c \in Conns : HangUp(c)
    BY <1>3
  <2> DEFINE e == EndEntry(conn[c].sid)
  <2>2. CASE UNCHANGED db
    BY <2>2
  <2>3. CASE conn[c].sid # None /\ db' = [db EXCEPT !.log = Append(@, e)]
    <3>1. e \in Entries /\ e.kind = "session.end" /\ e.sid = conn[c].sid
      BY <1>t DEF EndEntry, Blank, Entries, ConnStates
    <3>2. db'.log = Append(db.log, e)
      BY <1>t, <2>3 DEF Views
    <3> HIDE DEF e
    <3>3. StartedAs(db.log, conn[c]) /\ ~EndedIn(db.log, e.sid)
      BY <2>3, <3>1 DEF StoryInv, SessionOK
    <3>4. UnderWay(db.log, e.sid)
      BY <3>1, <3>3 DEF UnderWay, Ended, EndedIn, StartedAs, StartsAt
    <3>5. Lawful(db.log, e)
      BY <3>1, <3>4 DEF Lawful
    <3> QED
      BY <1>1, <3>1, <3>2, <3>5
  <2> QED
    BY <2>1, <2>2, <2>3 DEF HangUp
<1>4. CASE (\A c \in Conns : ~Commit(c) /\ ~HangUp(c)) /\ [PolicyNext]_vars
  <2>1. db' = db
    BY <1>4 DEF PolicyNext, Serve, vars, Restart, Accept, StartSession, RefuseSession, EndSession,
       Administer, HandlePolicyAdd, HandlePolicyRemove, HandleBudgetSet, HandleBudgetRemove,
       HandleAgentAdd, HandleAgentRemove, Request, Ask, ReadRules, CheckBudgets, ReadFails,
       Begin, Pending, Fail
  <2> QED
    BY <2>1
<1> QED
  BY <1>2, <1>3, <1>4

\* Every entry of the journal is justified by those before it, for any
\* operators, relays, failures and restarts (ImplementsLedger).
THEOREM LedgerIsKept == PolicySpec => ImplementsLedger
<1>1. PolicyInit => Ledgered!LedgerInit /\ BackedInv
  BY DEF PolicyInit, Ledgered!LedgerInit, BackedInv, Backed, Fresh, Busy, WasEnrolled
<1>2. PolicyInit => ExplainInv
  BY DEF PolicyInit, Fresh, ExplainInv, Explained, Busy
<1>3. PolicyTypeOK /\ TxInv /\ Sound(db) /\ Numbered(db) /\ StoryInv /\ ExplainInv /\ [PolicyNext]_vars
         => ExplainInv'
  BY ExplainInvInductive
<1>4. PolicyTypeOK /\ TxInv /\ Sound(db) /\ StoryInv /\ ExplainInv /\ BackedInv /\ [PolicyNext]_vars
         => BackedInv'
  BY BackedInvInductive
<1>5. PolicyTypeOK /\ TxInv /\ Sound(db) /\ StoryInv /\ ExplainInv /\ BackedInv /\ [PolicyNext]_vars
         => [Ledgered!LedgerNext]_(db.log)
  BY StepOfLedger
<1> QED
  BY <1>1, <1>2, <1>3, <1>4, <1>5, PolicyTypeCorrect, PolicyInvHolds, RulesStayNumbered,
     StoryInvHolds, PTL
  DEF PolicySpec, ImplementsLedger, Ledgered!LedgerSpec
=============================================================================
