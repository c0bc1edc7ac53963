----------------------------- MODULE Connectors -----------------------------
(***************************************************************************)
(* Connectors and their credentials: internal/daemon (request.go,          *)
(* lock_target.go), internal/credential and nim_connectors in              *)
(* internal/journal.                                                       *)
(*                                                                         *)
(* A connector has two halves kept in two stores: the secret, in the       *)
(* operating system's credential store, and the metadata (the variable to  *)
(* inject it under and the command to inject it into), in SQLite.  No      *)
(* transaction spans both; a mutex per target and the order of the two     *)
(* writes have to do.  A registration names all an operator enters in one  *)
(* connector.set, so that a half of one can be told from a half of         *)
(* another.                                                                *)
(***************************************************************************)
EXTENDS Naturals

CONSTANTS
    Targets,   \* connector names
    Regs,      \* registrations an operator may make
    Legacy,    \* one stored before commands existed: it has none
    Conns,     \* connections to the daemon
    None

ASSUME ConnectorsAssumption ==
    /\ None \notin Targets \cup Regs \cup Conns
    /\ Legacy \notin Regs \cup {None}

VARIABLES
    listener,  \* who listens on the socket: "none", "ours", or an "other" program
    verifies,  \* can this platform verify peers?  (Windows cannot)
    store,     \* did the daemon find a credential store when it started?
    meta,      \* nim_connectors: per target the registration, or None
    secret,    \* the credential store: per target the secret's registration, or None
    holder,    \* targetLocks: the connection whose handler holds the target's mutex
    conn,      \* per connection its purpose and where its handler is
    answer,    \* per connection the daemon's last answer
    suspect    \* ghost: targets of which some step has left one half behind

vars == <<listener, verifies, store, meta, secret, holder, conn, answer, suspect>>

Registered == Regs \cup {Legacy}
Ops == {"get", "set", "list", "remove"}

Response == [found : BOOLEAN, failed : BOOLEAN,
             command : Regs \cup {None}, env : Registered \cup {None}]

Reply(f, e)   == [found |-> f, failed |-> e, command |-> None, env |-> None]
Done          == Reply(FALSE, FALSE)
Failed        == Reply(FALSE, TRUE)
Withheld      == Reply(TRUE, TRUE)   \* Found with an Error: the fail-closed case
Release(r, s) == [found |-> TRUE, failed |-> FALSE, command |-> r, env |-> s]

Handling == {"lock", "info", "fetch", "store", "describe", "undo", "delete", "drop"}

\* handlers that hold the target's mutex
Inside == Handling \ {"lock"}

\* of these, those of which the secret is already replaced and the metadata not
HalfSet == {"describe", "undo"}

RequestState ==
    [pc : {"idle", "answered"} \cup Handling, kind : {None, "credential", "connector"},
     bound : Targets \cup {None}, op : Ops \cup {None},
     target : Targets \cup {None}, reg : Regs \cup {None}, info : Regs \cup {None}]

Fresh == [pc |-> "idle", kind |-> None, bound |-> None,
          op |-> None, target |-> None, reg |-> None, info |-> None]

ConnectorsTypeOK ==
    /\ listener \in {"none", "ours", "other"}
    /\ {verifies, store} \subseteq BOOLEAN
    /\ meta \in [Targets -> Registered \cup {None}]
    /\ secret \in [Targets -> Registered \cup {None}]
    /\ holder \in [Targets -> Conns \cup {None}]
    /\ conn \in [Conns -> RequestState]
    /\ answer \in [Conns -> Response]
    /\ suspect \subseteq Targets

ConnectorsInit ==
    /\ listener \in {"none", "ours"}
    /\ verifies \in BOOLEAN
    /\ store \in BOOLEAN
    /\ meta \in [Targets -> Registered \cup {None}]
    /\ secret = meta
    /\ holder = [t \in Targets |-> None]
    /\ conn = [c \in Conns |-> Fresh]
    /\ answer = [c \in Conns |-> Done]
    /\ suspect = {}

-----------------------------------------------------------------------------
(* A request and its purpose *)

KindOf(op) == IF op = "get" THEN "credential" ELSE "connector"

\* a connection serves one kind of request
OfItsKind(c, op) == conn[c].kind \in {None, KindOf(op)}

\* None stands for a name, a key, a secret or a command the validators refuse
Valid(op, t, r) ==
    /\ op # "list" => t # None
    /\ op = "set" => r # None

\* and a credential connection asks for one target
OfItsTarget(c, op, t) == op = "get" => conn[c].bound \in {None, t}

Refused(c, op, t, r) ==
    \/ ~OfItsKind(c, op)
    \/ ~Valid(op, t, r)
    \/ ~OfItsTarget(c, op, t)
    \/ op = "set" /\ ~store

\* what a command or a relay sends to: a daemon, and a secret only to a verified one
Reaches(op) == listener = "ours" /\ (op = "set" => verifies)

\* connector.list is one read, which may fail, and needs no lock
ListAnswers == {Done, Failed}

\* A client sends a request and the handler checks it.
Request(c, op, t, r) ==
    /\ Reaches(op)
    /\ conn[c].pc = "idle"
    /\ LET bound == [conn[c] EXCEPT
                       !.kind = IF @ = None THEN KindOf(op) ELSE @,
                       !.bound = IF op = "get" /\ OfItsKind(c, op) /\ @ = None THEN t ELSE @]
       IN \/ /\ Refused(c, op, t, r) \/ op = "list"
             /\ conn' = [conn EXCEPT ![c] = [bound EXCEPT !.pc = "answered"]]
             /\ answer' \in {[answer EXCEPT ![c] = a] :
                              a \in IF Refused(c, op, t, r) THEN {Failed} ELSE ListAnswers}
          \/ /\ ~Refused(c, op, t, r) /\ op # "list"
             /\ conn' = [conn EXCEPT ![c] =
                  [bound EXCEPT !.pc = "lock", !.op = op, !.target = t,
                                !.reg = IF op = "set" THEN r ELSE None]]
             /\ UNCHANGED answer
    /\ UNCHANGED <<listener, verifies, store, meta, secret, holder, suspect>>

Enter(op) == CASE op = "get" -> "info" [] op = "set" -> "store" [] op = "remove" -> "delete"

\* Mutant: credential.get without the lock, as it once was
LockFree_NotForGet(c, t) == holder[t] = None \/ conn[c].op = "get"

LockFree(c, t) == holder[t] = None

Lock(c) ==
    LET t == conn[c].target IN
    /\ conn[c].pc = "lock"
    /\ LockFree(c, t)
    /\ holder' = [holder EXCEPT ![t] = c]
    /\ conn' = [conn EXCEPT ![c].pc = Enter(conn[c].op)]
    /\ UNCHANGED <<listener, verifies, store, meta, secret, answer, suspect>>

\* what a connection keeps from one request to the next: its purpose
Between(c) == [Fresh EXCEPT !.kind = conn[c].kind, !.bound = conn[c].bound]

\* a handler returns: its deferred unlock runs and its answer is written
Return(c, a) ==
    /\ holder' = [holder EXCEPT ![conn[c].target] = None]
    /\ conn' = [conn EXCEPT ![c] = [Between(c) EXCEPT !.pc = "answered"]]
    /\ answer' = [answer EXCEPT ![c] = a]

Proceed(c, pc) ==
    /\ conn' = [conn EXCEPT ![c].pc = pc]
    /\ UNCHANGED <<holder, answer>>

-----------------------------------------------------------------------------
(* credential.get *)

\* ConnectorInfo: registered, and with a command
Commanded(t) == meta[t] \in Regs

\* ConnectorInfo, and what follows from it before the secret is touched.  A
\* failing query is an Error without Found.
LooksUp(c) ==
    LET t == conn[c].target IN
    /\ conn[c].pc = "info"
    /\ \/ Return(c, Failed)
       \/ meta[t] = None /\ Return(c, Done)
       \/ /\ meta[t] # None
          /\ ~(verifies /\ Commanded(t) /\ store)
          /\ Return(c, Withheld)
       \/ /\ verifies /\ Commanded(t) /\ store
          /\ conn' = [conn EXCEPT ![c] = [@ EXCEPT !.pc = "fetch", !.info = meta[t]]]
          /\ UNCHANGED <<holder, answer>>
    /\ UNCHANGED <<listener, verifies, store, meta, secret, suspect>>

\* store.Get: the credential, or not found, or the store fails
Fetches(c) ==
    LET t == conn[c].target IN
    /\ conn[c].pc = "fetch"
    /\ \/ Return(c, Withheld)
       \/ secret[t] # None /\ Return(c, Release(conn[c].info, secret[t]))
    /\ UNCHANGED <<listener, verifies, store, meta, secret, suspect>>

-----------------------------------------------------------------------------
(* connector.set *)

StoresSecret(c) ==
    LET t == conn[c].target IN
    /\ conn[c].pc = "store"
    /\ \/ Return(c, Failed) /\ UNCHANGED secret
       \/ secret' = [secret EXCEPT ![t] = conn[c].reg] /\ Proceed(c, "describe")
    /\ UNCHANGED <<listener, verifies, store, meta, suspect>>

\* SetConnector: an upsert, so a failure leaves what was there
StoresMeta(c) ==
    LET t == conn[c].target IN
    /\ conn[c].pc = "describe"
    /\ \/ /\ meta' = [meta EXCEPT ![t] = conn[c].reg]
          /\ suspect' = suspect \ {t}
          /\ Return(c, Done)
       \/ Proceed(c, "undo") /\ UNCHANGED <<meta, suspect>>
    /\ UNCHANGED <<listener, verifies, store, secret>>

\* Mutant: the undo left out
Undoes_Forgotten(c) ==
    /\ conn[c].pc = "undo"
    /\ Return(c, Failed)
    /\ UNCHANGED <<listener, verifies, store, meta, secret, suspect>>

\* The undo removes the secret; it does not bring back the one it replaced, and
\* nobody looks whether it succeeded.
Undoes(c) ==
    LET t == conn[c].target IN
    /\ conn[c].pc = "undo"
    /\ \/ secret' = [secret EXCEPT ![t] = None] /\ suspect' = suspect \ {t}
       \/ suspect' = suspect \cup {t} /\ UNCHANGED secret
    /\ Return(c, Failed)
    /\ UNCHANGED <<listener, verifies, store, meta>>

-----------------------------------------------------------------------------
(* connector.remove *)

\* Without a credential store there is nothing the handler can delete, and it
\* goes on to the metadata all the same.
DeletesSecret(c) ==
    LET t == conn[c].target IN
    /\ conn[c].pc = "delete"
    /\ \/ /\ store
          /\ secret' = [secret EXCEPT ![t] = None]
          /\ suspect' = suspect \ {t}
          /\ Proceed(c, "drop")
       \/ ~store /\ Proceed(c, "drop") /\ UNCHANGED <<secret, suspect>>
       \/ store /\ Return(c, Failed) /\ UNCHANGED <<secret, suspect>>
    /\ UNCHANGED <<listener, verifies, store, meta>>

DropsMeta(c) ==
    LET t == conn[c].target IN
    /\ conn[c].pc = "drop"
    /\ \/ /\ meta' = [meta EXCEPT ![t] = None]
          /\ suspect' = IF store THEN suspect ELSE suspect \cup {t}
          /\ Return(c, Done)
       \/ Return(c, Failed) /\ UNCHANGED <<meta, suspect>>
    /\ UNCHANGED <<listener, verifies, store, secret>>

-----------------------------------------------------------------------------
(* The client's side, and the daemon's life *)

\* the answer is read, and the connection used again or closed
TakesAnswer(c) ==
    /\ conn[c].pc = "answered"
    /\ conn' = [conn EXCEPT ![c] = Between(c)]
    /\ answer' = [answer EXCEPT ![c] = Done]
    /\ UNCHANGED <<listener, verifies, store, meta, secret, holder, suspect>>

Closes(c) ==
    /\ conn[c].pc \in {"idle", "answered"} /\ conn[c] # Fresh
    /\ conn' = [conn EXCEPT ![c] = Fresh]
    /\ answer' = [answer EXCEPT ![c] = Done]
    /\ UNCHANGED <<listener, verifies, store, meta, secret, holder, suspect>>

\* a daemon starts, with or without a credential store, or something else binds
Starts(l) ==
    /\ listener = "none"
    /\ listener' = l
    /\ store' \in BOOLEAN
    /\ UNCHANGED <<verifies, meta, secret, holder, conn, answer, suspect>>

\* The listener ends, by a signal or a crash.  Nothing waits for a handler: what
\* it held and what it had still to do is gone.
Exits ==
    /\ listener # "none"
    /\ listener' = "none"
    /\ holder' = [t \in Targets |-> None]
    /\ conn' = [c \in Conns |-> Fresh]
    /\ answer' = [c \in Conns |-> Done]
    /\ suspect' = suspect \cup {conn[c].target : c \in {d \in Conns : conn[d].pc \in HalfSet}}
    /\ UNCHANGED <<verifies, store, meta, secret>>

Handles(c) ==
    \/ Lock(c)
    \/ LooksUp(c) \/ Fetches(c)
    \/ StoresSecret(c) \/ StoresMeta(c) \/ Undoes(c)
    \/ DeletesSecret(c) \/ DropsMeta(c)

ConnectorsNext ==
    \/ \E c \in Conns :
         \/ \E op \in Ops, t \in Targets \cup {None}, r \in Regs \cup {None} : Request(c, op, t, r)
         \/ Handles(c)
         \/ TakesAnswer(c) \/ Closes(c)
    \/ \E l \in {"ours", "other"} : Starts(l)
    \/ Exits

ConnectorsSpec == ConnectorsInit /\ [][ConnectorsNext]_vars

-----------------------------------------------------------------------------
(* Properties *)

\* Whatever handler holds a target's mutex, it is the one inside: request.go
\* 176-181 and lock_target.go rest on it.
HolderInv ==
    \A t \in Targets, c \in Conns :
        holder[t] = c <=> conn[c].pc \in Inside /\ conn[c].target = t

\* The two stores agree about every target nobody is changing: the secret is
\* absent or belongs to the metadata (handleConnectorSet, handleConnectorRemove;
\* "an orphaned store entry with no matching metadata would be invisible").
\* Excepted are targets of which the daemon ended between the two writes, whose
\* undo failed, or that were removed by a daemon without a credential store.
HalvesAgree ==
    \A t \in Targets :
        holder[t] = None => secret[t] \in {None, meta[t]} \/ t \in suspect

\* A credential is released with the command of its own registration, never one
\* generation's secret with another's (handleCredentialGet), with the same
\* exception, however set, remove and get of many connections interleave.
ReleaseIsWhole ==
    [][\A c \in Conns :
         answer'[c].env # None /\ answer'[c] # answer[c] =>
            \/ answer'[c].env = answer'[c].command
            \/ conn[c].target \in suspect]_vars

=============================================================================
