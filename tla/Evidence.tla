------------------------------- MODULE Evidence -------------------------------
(***************************************************************************)
(* What somebody who has only the journal can conclude from it: what was   *)
(* in force after its first k entries, what that says of a call, and       *)
(* whether one more entry is justified by those before it.  Nothing here   *)
(* looks at a table or at the daemon.                                      *)
(***************************************************************************)
EXTENDS Precedence, FiniteSets

SameScope(r, q) == r.agent = q.agent /\ r.connector = q.connector /\ r.tool = q.tool
Scoped(e) == [agent |-> e.agent, connector |-> e.connector, tool |-> e.tool]

InForce(log, k, add, remove) ==
    {log[i] : i \in {i \in 1 .. k :
        /\ log[i].kind = add
        /\ \A j \in i + 1 .. k : log[j].kind = remove => ~SameScope(log[j], log[i])}}
RulesInForce(log, k) == InForce(log, k, "rule.add", "rule.remove")
BudgetsInForce(log, k) == InForce(log, k, "budget.add", "budget.remove")

EnrolledAs(log, k, a) ==
    {log[i].image : i \in {i \in 1 .. k :
        /\ log[i].kind = "agent.add" /\ log[i].agent = a
        /\ \A j \in i + 1 .. k :
              log[j].kind \in {"agent.add", "agent.remove"} => log[j].agent # a}}

-----------------------------------------------------------------------------
\* The most specific matching rules decide, and of those the safest.
SafestOfTheMostSpecific(rules, call) ==
    LET matching == MatchingRules(rules, call)
        top == {r \in matching : \A q \in matching : Specificity(q) =< Specificity(r)}
        effects == {r.effect : r \in top}
    IN  CASE "deny" \in effects -> "deny"
          [] "deny" \notin effects /\ "ask" \in effects -> "ask"
          [] OTHER -> "allow"

\* CountAllowedCalls.
CountAllowed(log, sid, tool) ==
    Cardinality({i \in DOMAIN log :
        /\ log[i].kind = "call.request" /\ log[i].sid = sid /\ log[i].effect = "allow"
        /\ tool \in {RuleToolDefault, log[i].tool}})

\* What the rules in force after k1 entries and the budgets in force after k2
\* say of a call.
Verdict(log, k1, k2, call, sid) ==
    IF SafestOfTheMostSpecific(RulesInForce(log, k1), call) # "allow"
    THEN SafestOfTheMostSpecific(RulesInForce(log, k1), call)
    ELSE IF \E b \in BudgetsInForce(log, k2) :
               Covers(b, call) /\ CountAllowed(SubSeq(log, 1, k2), sid, b.tool) >= b.calls
         THEN "deny" ELSE "allow"

-----------------------------------------------------------------------------
(***************************************************************************)
(* When entry e is justified by the entries before it.                     *)
(***************************************************************************)

\* a names no agent, or one that some entry enrolled.
WasEnrolled(log, a) ==
    a = None \/ \E i \in DOMAIN log : log[i].kind = "agent.add" /\ log[i].agent = a

\* The sessions under way: started, and not ended.
Mentioned(log, s) == \E i \in DOMAIN log : log[i].sid = s
Ended(log, s) == \E i \in DOMAIN log : log[i].kind = "session.end" /\ log[i].sid = s
StartsAt(log, i, s) == log[i].kind = "session.start" /\ log[i].sid = s
UnderWay(log, s) == (\E i \in DOMAIN log : StartsAt(log, i, s)) /\ ~Ended(log, s)

\* What is added takes a scope nothing in force has, for an agent that exists.
AddsTo(inForce, log, e) ==
    (\A r \in inForce : ~SameScope(r, e)) /\ WasEnrolled(log, e.agent)
\* What is removed was in force, and the entry says what it was.
RemovesRule(log, e) ==
    \E r \in RulesInForce(log, Len(log)) : SameScope(r, e) /\ r.effect = e.effect
RemovesBudget(log, e) ==
    \E b \in BudgetsInForce(log, Len(log)) : SameScope(b, e) /\ b.calls = e.calls
\* One executable is one agent.
Enrols(log, e) ==
    \A f \in Range(log) :
        f.agent \notin {None, e.agent} => e.image \notin EnrolledAs(log, Len(log), f.agent)
Removes(log, e) == EnrolledAs(log, Len(log), e.agent) = {e.image}

\* The decision is the verdict of two moments after the session's start, for
\* the agent and the connector the start names.
Decides(log, e) ==
    \E i \in DOMAIN log : StartsAt(log, i, e.sid)
        /\ \E k1 \in i .. Len(log) : \E k2 \in k1 .. Len(log) :
              e.effect = Verdict(log, k1, k2,
                                 [agent |-> log[i].agent, connector |-> log[i].connector,
                                  tool |-> e.tool], e.sid)

Lawful(log, e) ==
    CASE e.kind = "rule.add"      -> AddsTo(RulesInForce(log, Len(log)), log, e)
      [] e.kind = "rule.remove"   -> RemovesRule(log, e)
      [] e.kind = "budget.add"    -> AddsTo(BudgetsInForce(log, Len(log)), log, e)
      [] e.kind = "budget.remove" -> RemovesBudget(log, e)
      [] e.kind = "agent.add"     -> Enrols(log, e)
      [] e.kind = "agent.remove"  -> Removes(log, e)
      [] e.kind = "session.start" -> ~Mentioned(log, e.sid) /\ WasEnrolled(log, e.agent)
      [] e.kind = "session.end"   -> UnderWay(log, e.sid)
      [] e.kind = "call.request"  -> UnderWay(log, e.sid) /\ Decides(log, e)
=============================================================================
