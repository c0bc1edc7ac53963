------------------------------- MODULE PolicyMC -------------------------------
(* The instance of Policy that TLC checks. *)
EXTENDS Policy

CONSTANTS c1, c2, s1, a1, a2, claude, github, push

RuleRequest(kind, agent, connector, tool, effect) ==
    [Blank EXCEPT !.kind = kind, !.agent = agent, !.connector = connector, !.tool = tool,
                  !.effect = effect]
AgentRequest(kind, agent, image) ==
    [Blank EXCEPT !.kind = kind, !.agent = agent, !.image = image]

(* Rules of all three effects, two of them equally specific; a budget of one   *)
(* call; two names for one executable.                                         *)
PolicyRequests ==
    { RuleRequest("rule.add", None, None, RuleToolDefault, "deny"),
      RuleRequest("rule.add", a1, github, RuleToolDefault, "ask"),
      RuleRequest("rule.add", None, None, push, "allow"),
      RuleRequest("rule.remove", None, None, RuleToolDefault, None),
      [RuleRequest("budget.add", None, None, push, None) EXCEPT !.calls = 1],
      RuleRequest("budget.remove", None, None, push, None),
      AgentRequest("agent.add", a1, claude), AgentRequest("agent.add", a2, claude),
      AgentRequest("agent.remove", a1, None) }

(* Connections differ in nothing but their names. *)
ConnsAlike == Permutations(Conns)
=============================================================================
