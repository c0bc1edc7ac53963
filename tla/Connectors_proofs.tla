--------------------------- MODULE Connectors_proofs ---------------------------
(***************************************************************************)
(* What the mutex of a target and the order of the writes give, for any    *)
(* number of targets, registrations and connections; and that a relay's    *)
(* start adds nothing to what the daemon may do.                           *)
(***************************************************************************)
EXTENDS Connectors, TLAPS

-----------------------------------------------------------------------------
(***************************************************************************)
(* Types, and what a handler knows where it is.                            *)
(***************************************************************************)

\* A handler at work has a target, a set on its way has a registration, and a
\* credential on its way out has the command it was looked up with.
HandlerOK(r) ==
    /\ r.pc \in Handling => r.target \in Targets
    /\ r.pc \in {"store", "describe", "undo"} => r.reg \in Regs
    /\ r.pc = "fetch" => r.info \in Regs
    /\ r.pc = "lock" => r.op \in {"get", "set", "remove"} /\ (r.op = "set" => r.reg \in Regs)

\* Only a daemon that listens has handlers at work.
HandlerInv ==
    \A c \in Conns : HandlerOK(conn[c]) /\ (conn[c].pc \in Handling => listener = "ours")

TypeInv == ConnectorsTypeOK /\ HandlerInv

LEMMA OneConnectionMoves ==
    ASSUME TypeInv, NEW c \in Conns, NEW r \in RequestState, HandlerOK(r),
           conn' = [conn EXCEPT ![c] = r], r.pc \in Handling => listener = "ours",
           UNCHANGED listener
    PROVE  conn' \in [Conns -> RequestState] /\ HandlerInv'
BY DEF TypeInv, ConnectorsTypeOK, HandlerInv

\* a record of which some fields are replaced
LEMMA RecordsChange ==
    ASSUME NEW r \in RequestState
    PROVE  /\ \A pc \in {"idle", "answered"} \cup Handling : [r EXCEPT !.pc = pc] \in RequestState
           /\ \A k \in {None, "credential", "connector"}, b \in Targets \cup {None} :
                [r EXCEPT !.kind = k, !.bound = b] \in RequestState
           /\ \A op \in Ops, t \in Targets, g \in Regs \cup {None} :
                [r EXCEPT !.pc = "lock", !.op = op, !.target = t, !.reg = g] \in RequestState
           /\ \A g \in Regs : [r EXCEPT !.pc = "fetch", !.info = g] \in RequestState
           /\ [Fresh EXCEPT !.kind = r.kind, !.bound = r.bound] \in RequestState
<1>1. \A pc \in {"idle", "answered"} \cup Handling : [r EXCEPT !.pc = pc] \in RequestState
  BY DEF RequestState
<1>2. \A k \in {None, "credential", "connector"}, b \in Targets \cup {None} :
        [r EXCEPT !.kind = k, !.bound = b] \in RequestState
  BY DEF RequestState
<1>3. \A op \in Ops, t \in Targets, g \in Regs \cup {None} :
        [r EXCEPT !.pc = "lock", !.op = op, !.target = t, !.reg = g] \in RequestState
  BY DEF RequestState, Handling
<1>4. \A g \in Regs : [r EXCEPT !.pc = "fetch", !.info = g] \in RequestState
  BY DEF RequestState, Handling
<1>5. [Fresh EXCEPT !.kind = r.kind, !.bound = r.bound] \in RequestState
  BY DEF RequestState, Fresh
<1>6. QED
  BY <1>1, <1>2, <1>3, <1>4, <1>5

\* What the definitions of a handler's steps are made of.
LEMMA ReturnKeepsTypes ==
    ASSUME TypeInv, NEW c \in Conns, NEW a \in Response, conn[c].pc \in Inside, Return(c, a),
           UNCHANGED listener
    PROVE  /\ holder' \in [Targets -> Conns \cup {None}]
           /\ conn' \in [Conns -> RequestState] /\ HandlerInv'
           /\ answer' \in [Conns -> Response]
<1>1. conn[c] \in RequestState
  BY DEF TypeInv, ConnectorsTypeOK
<1> DEFINE r == [Between(c) EXCEPT !.pc = "answered"]
<1>2. Between(c) \in RequestState
  BY <1>1, RecordsChange DEF Between
<1>3. r \in RequestState /\ r.pc = "answered"
  BY <1>2, RecordsChange DEF RequestState
<1>4. HandlerOK(r)
  BY <1>3 DEF HandlerOK, Handling
<1>5. conn' \in [Conns -> RequestState] /\ HandlerInv'
  BY <1>3, <1>4, OneConnectionMoves DEF Return, Handling
<1>6. QED
  BY <1>5 DEF Return, TypeInv, ConnectorsTypeOK

LEMMA ProceedKeepsTypes ==
    ASSUME TypeInv, NEW c \in Conns, Proceed(c, "describe") \/ Proceed(c, "undo") \/ Proceed(c, "drop"),
           conn[c].pc \in {"store", "describe", "delete"}, UNCHANGED listener,
           Proceed(c, "drop") \/ conn[c].pc \in {"store", "describe"}
    PROVE  /\ holder' \in [Targets -> Conns \cup {None}]
           /\ conn' \in [Conns -> RequestState] /\ HandlerInv'
           /\ answer' \in [Conns -> Response]
<1>1. PICK pc \in {"describe", "undo", "drop"} :
        /\ Proceed(c, pc)
        /\ pc = "drop" \/ conn[c].pc \in {"store", "describe"}
  OBVIOUS
<1> DEFINE r == [conn[c] EXCEPT !.pc = pc]
<1>2. conn[c] \in RequestState /\ HandlerOK(conn[c]) /\ listener = "ours"
  BY DEF TypeInv, ConnectorsTypeOK, HandlerInv, Handling
<1>3. r \in RequestState
  BY <1>2, RecordsChange DEF Handling
<1>4. HandlerOK(r)
  BY <1>1, <1>2 DEF HandlerOK, Handling, RequestState
<1>5. conn' = [conn EXCEPT ![c] = r]
  BY <1>1 DEF Proceed, TypeInv, ConnectorsTypeOK
<1>6. conn' \in [Conns -> RequestState] /\ HandlerInv'
  BY <1>2, <1>3, <1>4, <1>5, OneConnectionMoves
<1>7. QED
  BY <1>1, <1>6 DEF Proceed, TypeInv, ConnectorsTypeOK

LEMMA RepliesAreResponses ==
    /\ {Done, Failed, Withheld} \subseteq Response
    /\ \A r \in Regs \cup {None}, s \in Registered : Release(r, s) \in Response
BY DEF Done, Failed, Withheld, Release, Reply, Response, Registered

LEMMA TypeInvInductive ==
    ASSUME TypeInv, [ConnectorsNext]_vars
    PROVE  TypeInv'
<1> USE ConnectorsAssumption, RepliesAreResponses DEF Inside, Handling
<1>1. CASE UNCHANGED vars
  BY <1>1 DEF TypeInv, ConnectorsTypeOK, HandlerInv, vars
<1>2. ASSUME NEW c \in Conns, NEW op \in Ops, NEW t \in Targets \cup {None},
             NEW r \in Regs \cup {None}, Request(c, op, t, r)
      PROVE  TypeInv'
  <2>0. conn[c] \in RequestState /\ conn[c].pc = "idle" /\ listener = "ours"
    BY <1>2 DEF TypeInv, ConnectorsTypeOK, Request, Reaches
  <2> DEFINE k == IF conn[c].kind = None THEN KindOf(op) ELSE conn[c].kind
             b == IF op = "get" /\ OfItsKind(c, op) /\ conn[c].bound = None
                  THEN t ELSE conn[c].bound
             bound == [conn[c] EXCEPT !.kind = k, !.bound = b]
  <2>1. bound \in RequestState /\ bound.pc = "idle"
    <3>1. k \in {None, "credential", "connector"} /\ b \in Targets \cup {None}
      BY <2>0 DEF RequestState, KindOf
    <3>2. bound \in RequestState
      BY <2>0, <3>1, RecordsChange
    <3>3. QED
      BY <2>0, <3>2 DEF RequestState
  <2> HIDE DEF bound, k, b
  <2>2. CASE /\ conn' = [conn EXCEPT ![c] = [bound EXCEPT !.pc = "answered"]]
             /\ answer' \in [Conns -> Response]
    <3>1. [bound EXCEPT !.pc = "answered"] \in RequestState
      BY <2>1, RecordsChange
    <3>2. HandlerOK([bound EXCEPT !.pc = "answered"])
          /\ [bound EXCEPT !.pc = "answered"].pc = "answered"
      BY <2>1 DEF HandlerOK, RequestState
    <3>3. conn' \in [Conns -> RequestState] /\ HandlerInv'
      BY <1>2, <2>2, <3>1, <3>2, OneConnectionMoves DEF Request
    <3>4. QED
      BY <1>2, <2>2, <3>3 DEF TypeInv, ConnectorsTypeOK, Request
  <2>3. CASE /\ ~Refused(c, op, t, r) /\ op # "list"
             /\ conn' = [conn EXCEPT ![c] =
                  [bound EXCEPT !.pc = "lock", !.op = op, !.target = t,
                                !.reg = IF op = "set" THEN r ELSE None]]
             /\ UNCHANGED answer
    <3> DEFINE g == IF op = "set" THEN r ELSE None
               x == [bound EXCEPT !.pc = "lock", !.op = op, !.target = t, !.reg = g]
    <3>1. t \in Targets /\ (op = "set" => r \in Regs) /\ g \in Regs \cup {None}
      BY <2>3 DEF Refused, Valid
    <3>2. x \in RequestState
      BY <2>1, <3>1, RecordsChange
    <3>3. x.pc = "lock" /\ x.op = op /\ x.target = t /\ x.reg = g
      BY <2>1 DEF RequestState
    <3>4. HandlerOK(x)
      BY <2>3, <3>1, <3>3 DEF HandlerOK, Ops
    <3>5. conn' \in [Conns -> RequestState] /\ HandlerInv'
      BY <1>2, <2>0, <2>3, <3>2, <3>4, OneConnectionMoves DEF Request
    <3>6. QED
      BY <1>2, <2>3, <3>5 DEF TypeInv, ConnectorsTypeOK, Request
  <2>4. QED
    <3>1. {Failed} \cup ListAnswers \subseteq Response
      BY DEF ListAnswers
    <3>2. \A a \in Response : [answer EXCEPT ![c] = a] \in [Conns -> Response]
      BY DEF TypeInv, ConnectorsTypeOK
    <3>3. QED
      BY <1>2, <2>2, <2>3, <3>1, <3>2 DEF Request, bound, k, b
<1>3. ASSUME NEW c \in Conns, Lock(c) PROVE TypeInv'
  <2>1. /\ conn[c] \in RequestState /\ HandlerOK(conn[c]) /\ conn[c].pc = "lock"
        /\ listener = "ours"
    BY <1>3 DEF TypeInv, ConnectorsTypeOK, HandlerInv, Lock
  <2> DEFINE pc == Enter(conn[c].op)
             x == [conn[c] EXCEPT !.pc = pc]
  <2>2. /\ pc \in {"info", "store", "delete"}
        /\ pc = "store" => conn[c].reg \in Regs
    BY <2>1 DEF HandlerOK, Enter
  <2>3. x \in RequestState
    BY <2>1, <2>2, RecordsChange
  <2>4. HandlerOK(x)
    BY <2>1, <2>2 DEF HandlerOK, RequestState
  <2>5. conn' \in [Conns -> RequestState] /\ HandlerInv'
    BY <1>3, <2>1, <2>3, <2>4, OneConnectionMoves DEF Lock, TypeInv, ConnectorsTypeOK
  <2>6. QED
    BY <1>3, <2>5 DEF TypeInv, ConnectorsTypeOK, Lock
<1>4. ASSUME NEW c \in Conns, LooksUp(c) PROVE TypeInv'
  <2>1. CASE \E a \in {Done, Failed, Withheld} : Return(c, a)
    BY <1>4, <2>1, ReturnKeepsTypes DEF TypeInv, ConnectorsTypeOK, LooksUp
  <2>2. CASE conn' = [conn EXCEPT ![c] = [@ EXCEPT !.pc = "fetch", !.info = meta[conn[c].target]]]
             /\ Commanded(conn[c].target) /\ UNCHANGED <<holder, answer>>
    <3> DEFINE x == [conn[c] EXCEPT !.pc = "fetch", !.info = meta[conn[c].target]]
    <3>1. /\ conn[c] \in RequestState /\ HandlerOK(conn[c]) /\ conn[c].pc = "info"
          /\ meta[conn[c].target] \in Regs
      BY <1>4, <2>2 DEF TypeInv, ConnectorsTypeOK, HandlerInv, LooksUp, Commanded
    <3>2. x \in RequestState
      BY <3>1, RecordsChange
    <3>3. HandlerOK(x)
      BY <3>1 DEF HandlerOK, RequestState
    <3>4. listener = "ours" /\ conn' = [conn EXCEPT ![c] = x]
      BY <1>4, <2>2, <3>1 DEF TypeInv, ConnectorsTypeOK, HandlerInv
    <3>5. conn' \in [Conns -> RequestState] /\ HandlerInv'
      BY <1>4, <3>2, <3>3, <3>4, OneConnectionMoves DEF LooksUp
    <3>6. QED
      BY <1>4, <2>2, <3>5 DEF TypeInv, ConnectorsTypeOK, LooksUp
  <2>3. QED
    BY <1>4, <2>1, <2>2 DEF LooksUp
<1>5. ASSUME NEW c \in Conns, Fetches(c) PROVE TypeInv'
  <2>1. PICK a \in Response : Return(c, a)
    <3>1. conn[c].info \in Regs /\ conn[c].target \in Targets
      BY <1>5 DEF TypeInv, HandlerInv, HandlerOK, Fetches
    <3>2. secret[conn[c].target] # None => secret[conn[c].target] \in Registered
      BY <3>1 DEF TypeInv, ConnectorsTypeOK
    <3>3. QED
      BY <1>5, <3>1, <3>2 DEF Fetches
  <2>2. QED
    BY <1>5, <2>1, ReturnKeepsTypes DEF TypeInv, ConnectorsTypeOK, Fetches
<1>6. ASSUME NEW c \in Conns, StoresSecret(c) PROVE TypeInv'
  <2>1. conn[c].reg \in Registered
    BY <1>6 DEF TypeInv, HandlerInv, HandlerOK, StoresSecret, Registered
  <2>2. CASE Return(c, Failed) /\ UNCHANGED secret
    BY <1>6, <2>2, ReturnKeepsTypes DEF TypeInv, ConnectorsTypeOK, StoresSecret
  <2>3. CASE secret' = [secret EXCEPT ![conn[c].target] = conn[c].reg] /\ Proceed(c, "describe")
    BY <1>6, <2>1, <2>3, ProceedKeepsTypes DEF TypeInv, ConnectorsTypeOK, StoresSecret
  <2>4. QED
    BY <1>6, <2>2, <2>3 DEF StoresSecret
<1>7. ASSUME NEW c \in Conns, StoresMeta(c) PROVE TypeInv'
  <2>1. conn[c].reg \in Registered
    BY <1>7 DEF TypeInv, HandlerInv, HandlerOK, StoresMeta, Registered
  <2>2. CASE Return(c, Done) /\ meta' = [meta EXCEPT ![conn[c].target] = conn[c].reg]
             /\ suspect' = suspect \ {conn[c].target}
    BY <1>7, <2>1, <2>2, ReturnKeepsTypes DEF TypeInv, ConnectorsTypeOK, StoresMeta
  <2>3. CASE Proceed(c, "undo") /\ UNCHANGED <<meta, suspect>>
    BY <1>7, <2>3, ProceedKeepsTypes DEF TypeInv, ConnectorsTypeOK, StoresMeta
  <2>4. QED
    BY <1>7, <2>2, <2>3 DEF StoresMeta
<1>8. ASSUME NEW c \in Conns, Undoes(c) PROVE TypeInv'
  <2>1. conn[c].target \in Targets
    BY <1>8 DEF TypeInv, HandlerInv, HandlerOK, Undoes
  <2>2. QED
    BY <1>8, <2>1, ReturnKeepsTypes DEF TypeInv, ConnectorsTypeOK, Undoes
<1>9. ASSUME NEW c \in Conns, DeletesSecret(c) PROVE TypeInv'
  <2>1. conn[c].target \in Targets
    BY <1>9 DEF TypeInv, HandlerInv, HandlerOK, DeletesSecret
  <2>2. CASE Return(c, Failed) /\ UNCHANGED <<secret, suspect>>
    BY <1>9, <2>2, ReturnKeepsTypes DEF TypeInv, ConnectorsTypeOK, DeletesSecret
  <2>3. CASE /\ Proceed(c, "drop")
             /\ \/ secret' = [secret EXCEPT ![conn[c].target] = None]
                   /\ suspect' = suspect \ {conn[c].target}
                \/ UNCHANGED <<secret, suspect>>
    BY <1>9, <2>3, ProceedKeepsTypes DEF TypeInv, ConnectorsTypeOK, DeletesSecret
  <2>4. QED
    BY <1>9, <2>2, <2>3 DEF DeletesSecret
<1>10. ASSUME NEW c \in Conns, DropsMeta(c) PROVE TypeInv'
  <2>1. conn[c].target \in Targets
    BY <1>10 DEF TypeInv, HandlerInv, HandlerOK, DropsMeta
  <2>2. QED
    BY <1>10, <2>1, ReturnKeepsTypes DEF TypeInv, ConnectorsTypeOK, DropsMeta
<1>11. ASSUME NEW c \in Conns, TakesAnswer(c) \/ Closes(c) PROVE TypeInv'
  <2>1. conn[c] \in RequestState
    BY DEF TypeInv, ConnectorsTypeOK
  <2>2. PICK x \in {Between(c), Fresh} : conn' = [conn EXCEPT ![c] = x]
    BY <1>11 DEF TakesAnswer, Closes
  <2>3. x \in RequestState /\ x.pc = "idle"
    <3>1. Fresh \in RequestState /\ Fresh.pc = "idle"
      BY DEF Fresh, RequestState
    <3>2. Between(c) \in RequestState
      BY <2>1, RecordsChange DEF Between
    <3>3. Between(c).pc = "idle"
      BY <3>1 DEF Between, RequestState
    <3>4. QED
      BY <2>2, <3>1, <3>2, <3>3
  <2>4. HandlerOK(x)
    BY <2>3 DEF HandlerOK
  <2>5. conn' \in [Conns -> RequestState] /\ HandlerInv'
    BY <1>11, <2>2, <2>3, <2>4, OneConnectionMoves DEF TakesAnswer, Closes
  <2>6. QED
    BY <1>11, <2>5 DEF TypeInv, ConnectorsTypeOK, TakesAnswer, Closes
<1>12. ASSUME NEW l \in {"ours", "other"}, Starts(l) PROVE TypeInv'
  BY <1>12 DEF TypeInv, ConnectorsTypeOK, HandlerInv, Starts
<1>13. CASE Exits
  <2>1. {conn[c].target : c \in {d \in Conns : conn[d].pc \in HalfSet}} \subseteq Targets
    BY DEF TypeInv, HandlerInv, HandlerOK, HalfSet
  <2>2. QED
    BY <1>13, <2>1 DEF TypeInv, ConnectorsTypeOK, HandlerInv, HandlerOK, Exits, Fresh, RequestState
<1>14. QED
  BY <1>1, <1>2, <1>3, <1>4, <1>5, <1>6, <1>7, <1>8, <1>9, <1>10, <1>11, <1>12, <1>13
  DEF ConnectorsNext, Handles

\* Every variable keeps its type, and a handler works on a target it was asked
\* for, in a daemon that listens.
THEOREM ConnectorsTypeCorrect == ConnectorsSpec => []TypeInv
<1>1. ConnectorsInit => TypeInv
  BY ConnectorsAssumption, RepliesAreResponses
  DEF ConnectorsInit, TypeInv, ConnectorsTypeOK, HandlerInv, HandlerOK, Fresh, RequestState, Handling
<1>2. QED
  BY <1>1, TypeInvInductive, PTL DEF ConnectorsSpec

-----------------------------------------------------------------------------
(***************************************************************************)
(* The mutex.                                                              *)
(***************************************************************************)

\* A connection that is not inside, and whose new place is not inside, leaves
\* every mutex as it is.
LEMMA OutsideKeepsHolderInv ==
    ASSUME TypeInv, HolderInv, NEW c \in Conns, NEW r,
           conn[c].pc \notin Inside, r.pc \notin Inside,
           conn' = [conn EXCEPT ![c] = r], UNCHANGED holder
    PROVE  HolderInv'
BY DEF TypeInv, ConnectorsTypeOK, HolderInv

\* A handler that returns lets go of its own mutex and of no other.
LEMMA ReturnKeepsHolderInv ==
    ASSUME TypeInv, HolderInv, NEW c \in Conns, NEW a, conn[c].pc \in Inside, Return(c, a)
    PROVE  HolderInv' /\ conn' = [conn EXCEPT ![c] = [Between(c) EXCEPT !.pc = "answered"]]
           /\ conn'[c].pc = "answered"
<1>1. conn'[c].pc = "answered" /\ \A d \in Conns : d # c => conn'[d] = conn[d]
  BY DEF TypeInv, ConnectorsTypeOK, Return, Between, Fresh
<1>2. conn[c].target \in Targets /\ holder[conn[c].target] = c
  BY DEF TypeInv, HandlerInv, HandlerOK, HolderInv, Inside, Handling
<1>3. holder' = [holder EXCEPT ![conn[c].target] = None] /\ None \notin Conns
  BY ConnectorsAssumption DEF Return
<1>4. HolderInv'
  BY <1>1, <1>2, <1>3 DEF HolderInv, TypeInv, ConnectorsTypeOK, Inside, Handling
<1>5. QED
  BY <1>1, <1>4 DEF Return

\* One that goes on keeps it.
LEMMA ProceedKeepsHolderInv ==
    ASSUME TypeInv, HolderInv, NEW c \in Conns, NEW pc \in Inside, conn[c].pc \in Inside,
           Proceed(c, pc)
    PROVE  HolderInv' /\ conn'[c].pc = pc /\ conn'[c].target = conn[c].target
           /\ conn'[c].reg = conn[c].reg /\ \A d \in Conns : d # c => conn'[d] = conn[d]
<1>1. /\ conn'[c].pc = pc /\ conn'[c].target = conn[c].target /\ conn'[c].reg = conn[c].reg
      /\ \A d \in Conns : d # c => conn'[d] = conn[d]
      /\ UNCHANGED holder
  BY DEF TypeInv, ConnectorsTypeOK, RequestState, Proceed
<1>2. QED
  BY <1>1 DEF HolderInv

LEMMA HolderInvInductive ==
    ASSUME TypeInv, HolderInv, [ConnectorsNext]_vars
    PROVE  HolderInv'
<1> USE ConnectorsAssumption
<1>1. CASE UNCHANGED vars
  BY <1>1 DEF HolderInv, vars
<1>2. ASSUME NEW c \in Conns, NEW op \in Ops, NEW t \in Targets \cup {None},
             NEW r \in Regs \cup {None}, Request(c, op, t, r)
      PROVE  HolderInv'
  <2>1. conn[c].pc = "idle" /\ conn'[c].pc \in {"answered", "lock"} /\ UNCHANGED holder
        /\ \A d \in Conns : d # c => conn'[d] = conn[d]
    <3> DEFINE bound == [conn[c] EXCEPT
                           !.kind = IF @ = None THEN KindOf(op) ELSE @,
                           !.bound = IF op = "get" /\ OfItsKind(c, op) /\ @ = None THEN t ELSE @]
               asked == [bound EXCEPT !.pc = "lock", !.op = op, !.target = t,
                                      !.reg = IF op = "set" THEN r ELSE None]
               told == [bound EXCEPT !.pc = "answered"]
    <3>1. told.pc = "answered" /\ asked.pc = "lock"
      BY DEF TypeInv, ConnectorsTypeOK, RequestState
    <3> HIDE DEF asked, told
    <3>2. \/ conn' = [conn EXCEPT ![c] = told]
          \/ conn' = [conn EXCEPT ![c] = asked]
      BY <1>2 DEF Request, asked, told
    <3>3. QED
      BY <1>2, <3>1, <3>2 DEF Request, TypeInv, ConnectorsTypeOK
  <2>2. QED
    BY <2>1 DEF HolderInv, Inside, Handling
<1>3. ASSUME NEW c \in Conns, Lock(c) PROVE HolderInv'
  <2>1. /\ conn[c].pc = "lock" /\ conn[c].target \in Targets /\ holder[conn[c].target] = None
        /\ holder' = [holder EXCEPT ![conn[c].target] = c]
    BY <1>3 DEF Lock, LockFree, TypeInv, HandlerInv, HandlerOK, Handling
  <2>2. conn'[c].target = conn[c].target /\ conn'[c].pc \in Inside
        /\ \A d \in Conns : d # c => conn'[d] = conn[d]
    BY <1>3, <2>1 DEF Lock, TypeInv, ConnectorsTypeOK, HandlerInv, HandlerOK, RequestState, Enter,
       Inside, Handling
  <2>3. QED
    BY <2>1, <2>2 DEF HolderInv, TypeInv, ConnectorsTypeOK, Inside
<1>4. ASSUME NEW c \in Conns, LooksUp(c) PROVE HolderInv'
  <2>1. CASE \E a \in {Done, Failed, Withheld} : Return(c, a)
    BY <1>4, <2>1, ReturnKeepsHolderInv DEF LooksUp, Inside, Handling
  <2>2. CASE conn' = [conn EXCEPT ![c] = [@ EXCEPT !.pc = "fetch", !.info = meta[conn[c].target]]]
             /\ UNCHANGED <<holder, answer>>
    <3>1. /\ conn'[c].pc = "fetch" /\ conn'[c].target = conn[c].target
          /\ \A d \in Conns : d # c => conn'[d] = conn[d]
      BY <2>2 DEF TypeInv, ConnectorsTypeOK, RequestState
    <3>2. QED
      BY <1>4, <2>2, <3>1 DEF LooksUp, HolderInv, Inside, Handling
  <2>3. QED
    BY <1>4, <2>1, <2>2 DEF LooksUp
<1>5. ASSUME NEW c \in Conns, Fetches(c) PROVE HolderInv'
  BY <1>5, ReturnKeepsHolderInv DEF Fetches, Inside, Handling
<1>6. ASSUME NEW c \in Conns, StoresSecret(c) PROVE HolderInv'
  BY <1>6, ReturnKeepsHolderInv, ProceedKeepsHolderInv DEF StoresSecret, Inside, Handling
<1>7. ASSUME NEW c \in Conns, StoresMeta(c) PROVE HolderInv'
  BY <1>7, ReturnKeepsHolderInv, ProceedKeepsHolderInv DEF StoresMeta, Inside, Handling
<1>8. ASSUME NEW c \in Conns, Undoes(c) PROVE HolderInv'
  BY <1>8, ReturnKeepsHolderInv DEF Undoes, Inside, Handling
<1>9. ASSUME NEW c \in Conns, DeletesSecret(c) PROVE HolderInv'
  BY <1>9, ReturnKeepsHolderInv, ProceedKeepsHolderInv DEF DeletesSecret, Inside, Handling
<1>10. ASSUME NEW c \in Conns, DropsMeta(c) PROVE HolderInv'
  BY <1>10, ReturnKeepsHolderInv DEF DropsMeta, Inside, Handling
<1>11. ASSUME NEW c \in Conns, TakesAnswer(c) \/ Closes(c) PROVE HolderInv'
  <2>1. conn'[c].pc = "idle" /\ conn[c].pc \in {"idle", "answered"} /\ UNCHANGED holder
        /\ \A d \in Conns : d # c => conn'[d] = conn[d]
    <3>1. Fresh.pc = "idle" /\ Between(c).pc = "idle"
      BY DEF Between, Fresh
    <3>2. QED
      BY <1>11, <3>1 DEF TakesAnswer, Closes, TypeInv, ConnectorsTypeOK
  <2>2. QED
    BY <2>1 DEF HolderInv, Inside, Handling
<1>12. ASSUME NEW l \in {"ours", "other"}, Starts(l) PROVE HolderInv'
  BY <1>12 DEF HolderInv, Starts
<1>13. CASE Exits
  BY <1>13 DEF HolderInv, Exits, Fresh, Inside, Handling
<1>14. QED
  BY <1>1, <1>2, <1>3, <1>4, <1>5, <1>6, <1>7, <1>8, <1>9, <1>10, <1>11, <1>12, <1>13
  DEF ConnectorsNext, Handles

-----------------------------------------------------------------------------
(***************************************************************************)
(* The two stores.                                                         *)
(***************************************************************************)

\* a target of which no handler has replaced the one half only
Settled(t) == \A c \in Conns : ~(conn[c].target = t /\ conn[c].pc \in HalfSet)

\* HalvesAgree, stated for every moment at which it can be: all the time but
\* between the two writes of a set.  The rest is what a handler inside knows of
\* the stores, which nobody else touches.
HalvesInv ==
    /\ \A t \in Targets : Settled(t) => secret[t] \in {None, meta[t]} \/ t \in suspect
    /\ \A c \in Conns :
         /\ conn[c].pc = "describe" => secret[conn[c].target] = conn[c].reg
         /\ conn[c].pc = "drop" /\ store => secret[conn[c].target] = None
         /\ conn[c].pc = "fetch" => conn[c].info = meta[conn[c].target]

\* The mutex is what makes a handler's view of its target its own.
LEMMA InsideIsAlone ==
    ASSUME TypeInv, HolderInv, NEW c \in Conns, conn[c].pc \in Inside
    PROVE  \A d \in Conns : d # c /\ conn[d].pc \in Inside => conn[d].target # conn[c].target
BY DEF TypeInv, HandlerInv, HandlerOK, HolderInv, Inside, Handling

LEMMA HalvesInvInductive ==
    ASSUME TypeInv, HolderInv, HalvesInv, [ConnectorsNext]_vars
    PROVE  HalvesInv'
<1> USE ConnectorsAssumption DEF Inside, Handling, HalfSet
<1> SUFFICES ASSUME TypeInv, HolderInv, HalvesInv, [ConnectorsNext]_vars PROVE HalvesInv'
  OBVIOUS
<1>0. ASSUME NEW c \in Conns, conn[c].pc \in Inside
      PROVE  /\ conn[c].target \in Targets
             /\ \A d \in Conns : d # c /\ conn[d].pc \in Inside => conn[d].target # conn[c].target
  BY <1>0, InsideIsAlone DEF TypeInv, HandlerInv, HandlerOK
<1>a. ASSUME NEW c \in Conns, NEW a, conn[c].pc \in Inside, Return(c, a)
      PROVE  conn'[c].pc = "answered" /\ \A d \in Conns : d # c => conn'[d] = conn[d]
  BY <1>a, ReturnKeepsHolderInv DEF TypeInv, ConnectorsTypeOK
<1>b. ASSUME NEW c \in Conns, NEW pc \in Inside, conn[c].pc \in Inside, Proceed(c, pc)
      PROVE  /\ conn'[c].pc = pc /\ conn'[c].target = conn[c].target /\ conn'[c].reg = conn[c].reg
             /\ \A d \in Conns : d # c => conn'[d] = conn[d]
  BY <1>b, ProceedKeepsHolderInv
<1>1. CASE UNCHANGED vars
  BY <1>1 DEF HalvesInv, Settled, vars
<1>2. ASSUME NEW c \in Conns, conn[c].pc \notin Inside, conn'[c].pc \notin Inside,
             \A d \in Conns : d # c => conn'[d] = conn[d],
             UNCHANGED <<store, meta, secret, suspect>>
      PROVE  HalvesInv'
  BY <1>2 DEF HalvesInv, Settled
<1>3. ASSUME NEW c \in Conns, NEW op \in Ops, NEW t \in Targets \cup {None},
             NEW r \in Regs \cup {None}, Request(c, op, t, r)
      PROVE  HalvesInv'
  <2>1. conn[c].pc = "idle" /\ conn'[c].pc \in {"answered", "lock"}
        /\ \A d \in Conns : d # c => conn'[d] = conn[d]
    <3> DEFINE bound == [conn[c] EXCEPT
                           !.kind = IF @ = None THEN KindOf(op) ELSE @,
                           !.bound = IF op = "get" /\ OfItsKind(c, op) /\ @ = None THEN t ELSE @]
               asked == [bound EXCEPT !.pc = "lock", !.op = op, !.target = t,
                                      !.reg = IF op = "set" THEN r ELSE None]
               told == [bound EXCEPT !.pc = "answered"]
    <3>1. told.pc = "answered" /\ asked.pc = "lock"
      BY DEF TypeInv, ConnectorsTypeOK, RequestState
    <3> HIDE DEF asked, told
    <3>2. \/ conn' = [conn EXCEPT ![c] = told]
          \/ conn' = [conn EXCEPT ![c] = asked]
      BY <1>3 DEF Request, asked, told
    <3>3. QED
      BY <1>3, <3>1, <3>2 DEF Request, TypeInv, ConnectorsTypeOK
  <2>2. QED
    BY <1>2, <1>3, <2>1 DEF Request
<1>4. ASSUME NEW c \in Conns, Lock(c) PROVE HalvesInv'
  <2>1. conn[c].pc = "lock" /\ conn'[c].pc \in {"info", "store", "delete"}
        /\ \A d \in Conns : d # c => conn'[d] = conn[d]
    BY <1>4 DEF Lock, TypeInv, ConnectorsTypeOK, HandlerInv, HandlerOK, RequestState, Enter
  <2>2. QED
    BY <1>4, <2>1 DEF Lock, HalvesInv, Settled
<1>5. ASSUME NEW c \in Conns, LooksUp(c) PROVE HalvesInv'
  <2>1. CASE \E a \in {Done, Failed, Withheld} : Return(c, a)
    BY <1>5, <2>1, <1>a DEF LooksUp, HalvesInv, Settled
  <2>2. CASE conn' = [conn EXCEPT ![c] = [@ EXCEPT !.pc = "fetch", !.info = meta[conn[c].target]]]
    <3>1. /\ conn'[c].pc = "fetch" /\ conn'[c].target = conn[c].target
          /\ conn'[c].info = meta[conn[c].target]
          /\ \A d \in Conns : d # c => conn'[d] = conn[d]
      BY <2>2 DEF TypeInv, ConnectorsTypeOK, RequestState
    <3>2. QED
      BY <1>5, <3>1 DEF LooksUp, HalvesInv, Settled
  <2>3. QED
    BY <1>5, <2>1, <2>2 DEF LooksUp
<1>6. ASSUME NEW c \in Conns, Fetches(c) PROVE HalvesInv'
  BY <1>6, <1>a DEF Fetches, HalvesInv, Settled
<1>7. ASSUME NEW c \in Conns, StoresSecret(c) PROVE HalvesInv'
  <2>1. CASE Return(c, Failed) /\ UNCHANGED secret
    BY <1>7, <2>1, <1>a DEF StoresSecret, HalvesInv, Settled
  <2>2. CASE secret' = [secret EXCEPT ![conn[c].target] = conn[c].reg] /\ Proceed(c, "describe")
    <3>1. /\ conn'[c].pc = "describe" /\ conn'[c].target = conn[c].target
          /\ conn'[c].reg = conn[c].reg
          /\ \A d \in Conns : d # c => conn'[d] = conn[d]
      BY <1>7, <2>2, <1>b DEF StoresSecret
    <3>2. QED
      BY <1>7, <1>0, <2>2, <3>1
      DEF StoresSecret, HalvesInv, Settled, TypeInv, ConnectorsTypeOK
  <2>3. QED
    BY <1>7, <2>1, <2>2 DEF StoresSecret
<1>8. ASSUME NEW c \in Conns, StoresMeta(c) PROVE HalvesInv'
  <2>1. CASE /\ meta' = [meta EXCEPT ![conn[c].target] = conn[c].reg]
             /\ suspect' = suspect \ {conn[c].target} /\ Return(c, Done)
    <3>1. conn'[c].pc = "answered" /\ \A d \in Conns : d # c => conn'[d] = conn[d]
      BY <1>8, <2>1, <1>a DEF StoresMeta
    <3>2. QED
      BY <1>8, <1>0, <2>1, <3>1
      DEF StoresMeta, HalvesInv, Settled, TypeInv, ConnectorsTypeOK
  <2>2. CASE Proceed(c, "undo") /\ UNCHANGED <<meta, suspect>>
    BY <1>8, <2>2, <1>b DEF StoresMeta, HalvesInv, Settled
  <2>3. QED
    BY <1>8, <2>1, <2>2 DEF StoresMeta
<1>9. ASSUME NEW c \in Conns, Undoes(c) PROVE HalvesInv'
  <2>1. conn'[c].pc = "answered" /\ \A d \in Conns : d # c => conn'[d] = conn[d]
    BY <1>9, <1>a DEF Undoes
  <2>2. QED
    BY <1>9, <1>0, <2>1 DEF Undoes, HalvesInv, Settled, TypeInv, ConnectorsTypeOK
<1>10. ASSUME NEW c \in Conns, DeletesSecret(c) PROVE HalvesInv'
  <2>1. CASE Return(c, Failed) /\ UNCHANGED <<secret, suspect>>
    BY <1>10, <2>1, <1>a DEF DeletesSecret, HalvesInv, Settled
  <2>2. CASE ~store /\ Proceed(c, "drop") /\ UNCHANGED <<secret, suspect>>
    BY <1>10, <2>2, <1>b DEF DeletesSecret, HalvesInv, Settled
  <2>3. CASE /\ secret' = [secret EXCEPT ![conn[c].target] = None]
             /\ suspect' = suspect \ {conn[c].target} /\ Proceed(c, "drop")
    <3>1. /\ conn'[c].pc = "drop" /\ conn'[c].target = conn[c].target
          /\ \A d \in Conns : d # c => conn'[d] = conn[d]
      BY <1>10, <2>3, <1>b DEF DeletesSecret
    <3>2. QED
      BY <1>10, <1>0, <2>3, <3>1
      DEF DeletesSecret, HalvesInv, Settled, TypeInv, ConnectorsTypeOK
  <2>4. QED
    BY <1>10, <2>1, <2>2, <2>3 DEF DeletesSecret
<1>11. ASSUME NEW c \in Conns, DropsMeta(c) PROVE HalvesInv'
  <2>1. \E a : Return(c, a)
    BY <1>11 DEF DropsMeta
  <2>2. conn'[c].pc = "answered" /\ \A d \in Conns : d # c => conn'[d] = conn[d]
    BY <1>11, <2>1, <1>a DEF DropsMeta
  <2>3. QED
    BY <1>11, <1>0, <2>2 DEF DropsMeta, HalvesInv, Settled, TypeInv, ConnectorsTypeOK
<1>12. ASSUME NEW c \in Conns, TakesAnswer(c) \/ Closes(c) PROVE HalvesInv'
  <2>1. Fresh.pc = "idle" /\ Between(c).pc = "idle"
    BY DEF Between, Fresh
  <2>2. conn'[c].pc = "idle" /\ conn[c].pc \in {"idle", "answered"}
        /\ \A d \in Conns : d # c => conn'[d] = conn[d]
    BY <1>12, <2>1 DEF TakesAnswer, Closes, TypeInv, ConnectorsTypeOK
  <2>3. QED
    BY <1>2, <1>12, <2>2 DEF TakesAnswer, Closes
<1>13. ASSUME NEW l \in {"ours", "other"}, Starts(l) PROVE HalvesInv'
  BY <1>13 DEF HalvesInv, Settled, Starts, TypeInv, HandlerInv
<1>14. CASE Exits
  BY <1>14 DEF HalvesInv, Settled, Exits, Fresh
<1>15. QED
  BY <1>1, <1>3, <1>4, <1>5, <1>6, <1>7, <1>8, <1>9, <1>10, <1>11, <1>12, <1>13, <1>14
  DEF ConnectorsNext, Handles

\* What always holds of the daemon's two stores.
StoresInv == TypeInv /\ HolderInv /\ HalvesInv

LEMMA StoresInvAlways == ConnectorsSpec => []StoresInv
<1>1. ConnectorsInit => HolderInv /\ HalvesInv
  BY ConnectorsAssumption
  DEF ConnectorsInit, HolderInv, HalvesInv, Settled, Fresh, Inside, Handling
<1>2. StoresInv /\ [ConnectorsNext]_vars => StoresInv'
  BY TypeInvInductive, HolderInvInductive, HalvesInvInductive DEF StoresInv
<1>3. QED
  BY <1>1, <1>2, ConnectorsTypeCorrect, PTL DEF ConnectorsSpec, StoresInv

\* A target's mutex has one holder, who is the handler inside: no two handlers
\* are ever between the reads and writes of one target.
THEOREM MutexIsExclusive == ConnectorsSpec => []HolderInv
BY StoresInvAlways, PTL DEF StoresInv

\* The metadata and the secret of a target nobody is changing belong together,
\* or the target is one of which a step was lost.
THEOREM HalvesAlwaysAgree == ConnectorsSpec => []HalvesAgree
<1>1. StoresInv => HalvesAgree
  <2> SUFFICES ASSUME StoresInv, NEW t \in Targets, holder[t] = None
               PROVE  secret[t] \in {None, meta[t]} \/ t \in suspect
    BY DEF HalvesAgree
  <2>1. Settled(t)
    BY ConnectorsAssumption DEF StoresInv, HolderInv, Settled, HalfSet, Inside, Handling
  <2>2. QED
    BY <2>1 DEF StoresInv, HalvesInv
<1>2. QED
  BY <1>1, StoresInvAlways, PTL

\* The answer of one connection changes, if at all, to something with a
\* credential in it only when its handler has fetched one.
LEMMA OnlyFetchReleases ==
    ASSUME StoresInv, [ConnectorsNext]_vars, NEW c \in Conns,
           answer'[c].env # None, answer'[c] # answer[c]
    PROVE  /\ conn[c].pc = "fetch"
           /\ answer'[c] = Release(conn[c].info, secret[conn[c].target])
<1> USE DEF StoresInv, TypeInv, ConnectorsTypeOK
<1>1. Done.env = None /\ Failed.env = None /\ Withheld.env = None
  BY DEF Done, Failed, Withheld, Reply
<1> DEFINE Without(d) == /\ answer'[d].env = None
                         /\ \A e \in Conns : e # d => answer'[e] = answer[e]
<1>2. ASSUME NEW d \in Conns, Return(d, Done) \/ Return(d, Failed) \/ Return(d, Withheld)
      PROVE  Without(d)
  BY <1>1, <1>2 DEF Return
<1>3. ASSUME NEW d \in Conns, Without(d) \/ UNCHANGED answer PROVE FALSE
  BY <1>3
<1>4. ASSUME NEW d \in Conns, NEW op \in Ops, NEW t \in Targets \cup {None},
             NEW r \in Regs \cup {None}, Request(d, op, t, r)
      PROVE  FALSE
  BY <1>1, <1>3, <1>4 DEF Request, ListAnswers
<1>5. ASSUME NEW d \in Conns, Fetches(d)
      PROVE  c = d /\ answer'[c] = Release(conn[c].info, secret[conn[c].target])
             /\ conn[c].pc = "fetch"
  <2>1. Return(d, Release(conn[d].info, secret[conn[d].target])) /\ conn[d].pc = "fetch"
    BY <1>2, <1>3, <1>5 DEF Fetches
  <2>2. answer' = [answer EXCEPT ![d] = Release(conn[d].info, secret[conn[d].target])]
    BY <2>1 DEF Return
  <2>3. QED
    BY <2>1, <2>2
<1>6. ASSUME NEW d \in Conns,
             \/ Lock(d) \/ LooksUp(d) \/ StoresSecret(d) \/ StoresMeta(d) \/ Undoes(d)
             \/ DeletesSecret(d) \/ DropsMeta(d)
      PROVE  FALSE
  <2>1. \/ UNCHANGED answer
        \/ Return(d, Done) \/ Return(d, Failed) \/ Return(d, Withheld)
    BY <1>6 DEF Lock, LooksUp, StoresSecret, StoresMeta, Undoes, DeletesSecret, DropsMeta, Proceed
  <2>2. QED
    BY <1>2, <1>3, <2>1
<1>7. ASSUME NEW d \in Conns, TakesAnswer(d) \/ Closes(d) PROVE FALSE
  BY <1>1, <1>3, <1>7 DEF TakesAnswer, Closes
<1>8. CASE Exits \/ (\E l \in {"ours", "other"} : Starts(l)) \/ UNCHANGED vars
  BY <1>1, <1>8 DEF Exits, Starts, vars
<1>9. QED
  BY <1>4, <1>5, <1>6, <1>7, <1>8 DEF ConnectorsNext, Handles

\* However set, remove and get of many connections interleave, a credential
\* leaves the daemon with the command of its own registration.
THEOREM ReleasesAreWhole == ConnectorsSpec => ReleaseIsWhole
<1>1. ASSUME StoresInv, [ConnectorsNext]_vars, NEW c \in Conns,
             answer'[c].env # None, answer'[c] # answer[c]
      PROVE  answer'[c].env = answer'[c].command \/ conn[c].target \in suspect
  <2>1. /\ conn[c].pc = "fetch"
        /\ answer'[c] = Release(conn[c].info, secret[conn[c].target])
    BY <1>1, OnlyFetchReleases
  <2>2. conn[c].info = meta[conn[c].target] /\ conn[c].target \in Targets
    BY <1>1, <2>1 DEF StoresInv, HalvesInv, TypeInv, HandlerInv, HandlerOK, Handling
  <2>3. Settled(conn[c].target)
    BY <1>1, <2>1, InsideIsAlone DEF StoresInv, Settled, HalfSet, Inside, Handling
  <2>4. \/ secret[conn[c].target] \in {None, meta[conn[c].target]}
        \/ conn[c].target \in suspect
    BY <1>1, <2>2, <2>3 DEF StoresInv, HalvesInv
  <2>5. QED
    BY <1>1, <2>1, <2>2, <2>4 DEF Release
<1>2. StoresInv /\ [ConnectorsNext]_vars =>
        [\A c \in Conns :
           answer'[c].env # None /\ answer'[c] # answer[c] =>
              \/ answer'[c].env = answer'[c].command
              \/ conn[c].target \in suspect]_vars
  BY <1>1
<1>3. QED
  BY <1>2, StoresInvAlways, PTL DEF ConnectorsSpec, ReleaseIsWhole

-----------------------------------------------------------------------------
(***************************************************************************)
(* How long a mutex is held.                                               *)
(***************************************************************************)

\* How many steps a handler inside may still take.
Left(c) == CASE conn[c].pc = "store" -> 3
             [] conn[c].pc \in {"info", "describe", "delete"} -> 2
             [] conn[c].pc \in {"fetch", "undo", "drop"} -> 1
             [] OTHER -> 0

\* A handler that holds a target's mutex is moved by nobody else but the
\* daemon's end, and every step it takes brings the release nearer.
MutexIsBrief ==
    [][\A t \in Targets, c \in Conns : holder[t] = c =>
         \/ holder'[t] = None
         \/ holder'[t] = c /\ Handles(c) /\ Left(c)' < Left(c)
         \/ UNCHANGED <<holder[t], conn[c]>> /\ ~Handles(c)]_vars

\* What a step inside comes to.
LEMMA InsideEnds ==
    ASSUME StoresInv, NEW c \in Conns, conn[c].pc \in Inside, Handles(c)
    PROVE  \/ holder'[conn[c].target] = None
           \/ UNCHANGED holder /\ Left(c)' < Left(c)
<1> USE DEF StoresInv, TypeInv, ConnectorsTypeOK
<1>1. conn[c].target \in Targets /\ conn[c] \in RequestState
  BY DEF HandlerInv, HandlerOK, Inside
<1>2. ASSUME NEW a, Return(c, a) PROVE holder'[conn[c].target] = None
  BY <1>1, <1>2 DEF Return
<1>3. ASSUME NEW pc \in Inside, Proceed(c, pc)
      PROVE  UNCHANGED holder /\ conn'[c].pc = pc
  BY <1>1, <1>3 DEF Proceed, RequestState, Inside, Handling
<1>4. CASE LooksUp(c)
  <2>1. CASE conn' = [conn EXCEPT ![c] = [@ EXCEPT !.pc = "fetch", !.info = meta[conn[c].target]]]
             /\ UNCHANGED <<holder, answer>>
    <3>1. conn'[c].pc = "fetch"
      BY <1>1, <2>1 DEF RequestState
    <3>2. QED
      BY <1>4, <2>1, <3>1 DEF LooksUp, Left
  <2>2. QED
    BY <1>2, <1>4, <2>1 DEF LooksUp
<1>5. CASE Fetches(c) \/ Undoes(c) \/ DropsMeta(c)
  BY <1>2, <1>5 DEF Fetches, Undoes, DropsMeta
<1>6. CASE StoresSecret(c) \/ StoresMeta(c) \/ DeletesSecret(c)
  <2>1. {"describe", "undo", "drop"} \subseteq Inside
    BY DEF Inside, Handling
  <2>2. \/ \E a : Return(c, a)
        \/ conn[c].pc = "store" /\ Proceed(c, "describe")
        \/ conn[c].pc = "describe" /\ Proceed(c, "undo")
        \/ conn[c].pc = "delete" /\ Proceed(c, "drop")
    BY <1>6 DEF StoresSecret, StoresMeta, DeletesSecret
  <2>3. QED
    BY <1>2, <1>3, <2>1, <2>2 DEF Left
<1>7. ~Lock(c)
  BY DEF Lock, Inside
<1>8. QED
  BY <1>4, <1>5, <1>6, <1>7 DEF Handles

\* Nobody but the daemon's end takes a handler's place or its mutex.
LEMMA OthersLeaveTheHolder ==
    ASSUME StoresInv, [ConnectorsNext]_vars, NEW t \in Targets, NEW c \in Conns,
           holder[t] = c, ~Handles(c)
    PROVE  holder'[t] = None \/ UNCHANGED <<holder[t], conn[c]>>
<1> USE ConnectorsAssumption DEF StoresInv, TypeInv, ConnectorsTypeOK
<1>1. conn[c].pc \in Inside /\ conn[c].target = t
  BY DEF HolderInv
<1>2. ASSUME NEW d \in Conns, NEW op \in Ops, NEW u \in Targets \cup {None},
             NEW r \in Regs \cup {None}, Request(d, op, u, r)
      PROVE  UNCHANGED <<holder, conn[c]>>
  <2>1. d # c
    BY <1>1, <1>2 DEF Request, Inside, Handling
  <2>2. QED
    BY <1>2, <2>1 DEF Request
<1>3. ASSUME NEW d \in Conns, TakesAnswer(d) \/ Closes(d) PROVE UNCHANGED <<holder, conn[c]>>
  <2>1. d # c
    BY <1>1, <1>3 DEF TakesAnswer, Closes, Inside, Handling
  <2>2. QED
    BY <1>3, <2>1 DEF TakesAnswer, Closes
<1>4. ASSUME NEW d \in Conns, Handles(d) PROVE UNCHANGED <<holder[t], conn[c]>>
  <2>1. d # c
    BY <1>4
  <2>2. conn'[c] = conn[c]
    BY <1>4, <2>1 DEF Handles, Lock, LooksUp, Fetches, StoresSecret, StoresMeta, Undoes,
       DeletesSecret, DropsMeta, Return, Proceed
  <2>3. CASE Lock(d)
    <3>1. holder[conn[d].target] = None /\ holder' = [holder EXCEPT ![conn[d].target] = d]
      BY <2>3 DEF Lock, LockFree
    <3>2. conn[d].target # t
      BY <3>1
    <3>3. QED
      BY <2>2, <3>1, <3>2
  <2>4. CASE conn[d].pc \in Inside
    <3>1. conn[d].target # t
      BY <1>1, <2>1, <2>4, InsideIsAlone
    <3>2. QED
      BY <1>4, <2>2, <2>3, <3>1 DEF Handles, LooksUp, Fetches, StoresSecret, StoresMeta, Undoes,
         DeletesSecret, DropsMeta, Return, Proceed
  <2>5. QED
    BY <1>4, <2>3, <2>4 DEF Handles, LooksUp, Fetches, StoresSecret, StoresMeta, Undoes,
       DeletesSecret, DropsMeta, Inside, Handling
<1>5. CASE Exits
  BY <1>1, <1>5 DEF Exits
<1>6. CASE (\E l \in {"ours", "other"} : Starts(l)) \/ UNCHANGED vars
  BY <1>6 DEF Starts, vars
<1>7. QED
  BY <1>2, <1>3, <1>4, <1>5, <1>6 DEF ConnectorsNext

\* Nobody waits long for a target: whoever holds its mutex gives it up within
\* three steps of its own or with the daemon, and takes none of them by way of
\* another mutex, so that two operators and a relay cannot wait on each other
\* (lock_target.go; handleConnectorSet, handleConnectorRemove and
\* handleCredentialGet, which lock one target and defer its unlock).
THEOREM TheMutexIsBrief == ConnectorsSpec => MutexIsBrief
<1> DEFINE Brief == \A t \in Targets, c \in Conns : holder[t] = c =>
                       \/ holder'[t] = None
                       \/ holder'[t] = c /\ Handles(c) /\ Left(c)' < Left(c)
                       \/ UNCHANGED <<holder[t], conn[c]>> /\ ~Handles(c)
<1>1. StoresInv /\ [ConnectorsNext]_vars => [Brief]_vars
  <2> SUFFICES ASSUME StoresInv, [ConnectorsNext]_vars, NEW t \in Targets, NEW c \in Conns,
                      holder[t] = c
               PROVE  \/ holder'[t] = None
                      \/ holder'[t] = c /\ Handles(c) /\ Left(c)' < Left(c)
                      \/ UNCHANGED <<holder[t], conn[c]>> /\ ~Handles(c)
    OBVIOUS
  <2>1. conn[c].pc \in Inside /\ conn[c].target = t
    BY DEF StoresInv, HolderInv
  <2>2. CASE Handles(c)
    BY <2>1, <2>2, InsideEnds
  <2>3. CASE ~Handles(c)
    BY <2>1, <2>3, OthersLeaveTheHolder
  <2>4. QED
    BY <2>2, <2>3
<1>2. QED
  BY <1>1, StoresInvAlways, PTL DEF ConnectorsSpec, MutexIsBrief

=============================================================================
