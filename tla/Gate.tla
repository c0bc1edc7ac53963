-------------------------------- MODULE Gate --------------------------------
(***************************************************************************)
(* What holdcall promises about a tools/call, without a relay, a daemon, a *)
(* socket or a clock: one decision per call is put on record, it is never  *)
(* changed, and a call reaches the MCP server only after a decision that   *)
(* lets it through is on record.  Refusing is always possible: whoever     *)
(* cannot get a decision fails closed.                                     *)
(***************************************************************************)

CONSTANT Call    \* every (session, sequence number) pair

VARIABLES
    record,      \* the decision on record for each call, or "none"
    fate         \* what became of the call on the client's side

gateVars == <<record, fate>>

\* The two recorded decisions that let a call travel.
Grants == {"allow", "approved"}
Decisions == Grants \cup {"deny", "rejected"}

GateTypeOK ==
    /\ record \in [Call -> Decisions \cup {"none"}]
    /\ fate \in [Call -> {"open", "forwarded", "refused"}]

GateInit ==
    /\ record = [c \in Call |-> "none"]
    /\ fate = [c \in Call |-> "open"]

\* One decision is put on record.
Record(c, d) ==
    /\ record[c] = "none"
    /\ record' = [record EXCEPT ![c] = d]
    /\ UNCHANGED fate

\* A call travels to the server.
Forward(c) ==
    /\ fate[c] = "open"
    /\ record[c] \in Grants
    /\ fate' = [fate EXCEPT ![c] = "forwarded"]
    /\ UNCHANGED record

\* A call is answered with a refusal.
Refuse(c) ==
    /\ fate[c] = "open"
    /\ fate' = [fate EXCEPT ![c] = "refused"]
    /\ UNCHANGED record

GateNext ==
    \E c \in Call :
        \/ \E d \in Decisions : Record(c, d)
        \/ Forward(c)
        \/ Refuse(c)

GateSpec == GateInit /\ [][GateNext]_gateVars
=============================================================================
