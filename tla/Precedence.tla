------------------------------ MODULE Precedence ------------------------------
(***************************************************************************)
(* Which rule governs a call: internal/journal/rules.go, MatchingRules,    *)
(* RuleFor and Decide.                                                     *)
(***************************************************************************)
EXTENDS Integers, SequencesExt

CONSTANT None   \* no agent, no connector, no rule

RuleToolDefault == "*"

\* A scope names an agent or every one, a connector or every one, and a tool
\* or every one.  A session without a derived agent is matched by no name.
Covers(scope, call) ==
    /\ scope.agent \in {None, call.agent}
    /\ scope.connector \in {None, call.connector}
    /\ scope.tool \in {RuleToolDefault, call.tool}

MatchingRules(rules, call) == {r \in rules : Covers(r, call)}

Specificity(r) ==
    (IF r.tool # RuleToolDefault THEN 2 ELSE 0)
        + (IF r.agent # None THEN 1 ELSE 0) + (IF r.connector # None THEN 1 ELSE 0)

EffectRank(effect) ==
    CASE effect = "deny" -> 2 [] effect = "ask" -> 1 [] OTHER -> 0

\* Mutant _EffectLast: of two equally specific rules the older wins.
Outranks_EffectLast(challenger, winner) ==
    \/ Specificity(challenger) > Specificity(winner)
    \/ Specificity(challenger) = Specificity(winner) /\ challenger.id < winner.id
Outranks(challenger, winner) ==
    \/ Specificity(challenger) > Specificity(winner)
    \/ /\ Specificity(challenger) = Specificity(winner)
       /\ \/ EffectRank(challenger.effect) > EffectRank(winner.effect)
          \/ challenger.effect = winner.effect /\ challenger.id < winner.id

Newest(rules) == CHOOSE r \in rules : \A q \in rules : q.id =< r.id

\* The loop over the candidates, the oldest first; None when there are none.
Decide(candidates) ==
    MapThenFoldSet(LAMBDA r, winner : IF winner = None \/ Outranks(r, winner) THEN r ELSE winner,
                   None, LAMBDA r : r, Newest, candidates)

RuleFor(rules, call) == Decide(MatchingRules(rules, call))
=============================================================================
