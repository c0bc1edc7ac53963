----------------------------- MODULE RelayStart -----------------------------
(***************************************************************************)
(* One relay from its start to its end, around the calls it relays:        *)
(* internal/shim (Run, fetchConnector, stopDownstream).  It asks the       *)
(* daemon of Connectors what to inject into what, spawns the connector,    *)
(* runs its two pumps until both have ended, and stops the connector; a    *)
(* signal may stop it from beside.  Operators change connectors meanwhile. *)
(*                                                                         *)
(* The client, the connector's process and the kernel are the environment; *)
(* a timer is a step that may come at any time after it is armed.          *)
(***************************************************************************)
EXTENDS Connectors, FiniteSets

CONSTANTS
    Relay,    \* the connection fetchConnector asks over
    Target,   \* the connector the relay is started for
    Own,      \* the command on the relay's own command line
    Restarting  \* TRUE: the daemon may end and be started

ASSUME RelayStartAssumption ==
    /\ Relay \in Conns /\ Target \in Targets
    /\ Own \notin Registered \cup {None}
    /\ Restarting \in BOOLEAN

VARIABLES
    relay,     \* where the relay's main goroutine is
    told,      \* what fetchConnector decoded, Done until it has
    spawned,   \* the command and the credential the connector was started with
    child,     \* the connector's process
    eof,       \* its stdin is closed
    client,    \* does the client still hold the relay's stdin open?
    pumps,     \* the pumps that have not returned
    stage,     \* how far stop has come, whoever runs it
    handler,   \* the signal handler's goroutine
    recorded,  \* finish has run: session.end is queued and flushed
    killed     \* ghost: the relay ended without running anything

relayVars ==
    <<relay, told, spawned, child, eof, client, pumps, stage, handler, recorded, killed>>
allVars == <<vars, relayVars>>

Starting == {"dial", "waiting", "answer", "foreign", "command"}
Serving  == {"relaying", "stopping"}

RelayTypeOK ==
    /\ ConnectorsTypeOK
    /\ relay \in Starting \cup {"start", "started"} \cup Serving \cup {"exited"}
    /\ told \in Response
    /\ spawned \in [command : Regs \cup {Own, None}, env : Registered \cup {None}]
    /\ child \in {"none", "running", "gone"}
    /\ {eof, client, recorded, killed} \subseteq BOOLEAN
    /\ pumps \subseteq {"requests", "responses"}
    /\ stage \in {"off", "wait", "told", "killed", "reaped"}
    /\ handler \in {"waiting", "finish", "stop"}

RelayInit ==
    /\ ConnectorsInit
    /\ relay = "dial"
    /\ told = Done
    /\ spawned = [command |-> None, env |-> None]
    /\ child = "none"
    /\ eof = FALSE
    /\ client = TRUE
    /\ pumps = {}
    /\ stage = "off"
    /\ handler = "waiting"
    /\ recorded = FALSE
    /\ killed = FALSE

Stays == UNCHANGED <<spawned, child, eof, client, pumps, stage, handler, recorded, killed>>

-----------------------------------------------------------------------------
(* fetchConnector *)

\* What is reached is verified before it is sent a byte.
Asks ==
    \/ /\ listener = "ours"
       /\ Request(Relay, "get", Target, None)
       /\ relay' = "answer"
    \/ /\ listener = "other"
       /\ relay' = IF verifies THEN "exited" ELSE "foreign"
       /\ UNCHANGED vars

\* dialOrStart: nothing answers, so a daemon is started and dialled again; when
\* none can be started, or none answers in time, there is no connector
Dials ==
    /\ relay = "dial"
    /\ \/ Asks
       \/ listener = "none" /\ relay' \in {"waiting", "command"} /\ UNCHANGED vars
    /\ UNCHANGED told /\ Stays

Redials ==
    /\ relay = "waiting"
    /\ \/ Asks
       \/ listener = "none" /\ relay' = "command" /\ UNCHANGED vars
    /\ UNCHANGED told /\ Stays

\* injectionFromAnswer
Takes(a) ==
    /\ told' = a
    /\ relay' = IF a.found /\ (~verifies \/ a.failed \/ (a.env # None /\ a.command = None))
                THEN "exited" ELSE "command"
    /\ Stays

HearsDaemon ==
    /\ relay = "answer" /\ conn[Relay].pc = "answered"
    /\ Takes(answer[Relay])
    /\ UNCHANGED vars

\* on a platform that cannot verify, anything may answer anything
HearsOther ==
    /\ relay = "foreign" /\ listener = "other"
    /\ \E a \in {Done, Withheld} \cup {Release(r, r) : r \in Regs} : Takes(a)
    /\ UNCHANGED vars

\* Mutant: no deadline on the conversation
GivesUp_WhenBroken ==
    /\ relay \in {"answer", "foreign"} /\ conn[Relay] = Fresh
    /\ relay' = "command"
    /\ UNCHANGED told /\ Stays /\ UNCHANGED vars

\* The deadline passes, or the connection breaks: no connector.  The handler
\* may still be at work, for nobody.
GivesUp ==
    /\ relay \in {"answer", "foreign"}
    /\ relay' = "command"
    /\ UNCHANGED told /\ Stays /\ UNCHANGED vars

-----------------------------------------------------------------------------
(* Run: what is spawned, and relaying *)

\* Mutant: what the caller asked for comes first
Chooses_CallersFirst ==
    /\ relay = "command"
    /\ \E own \in {Own, None} :
       LET command == IF own # None THEN own ELSE told.command IN
       /\ spawned' = [command |-> command, env |-> told.env]
       /\ relay' = IF command = None THEN "exited" ELSE "start"
    /\ UNCHANGED <<told, child, eof, client, pumps, stage, handler, recorded, killed>>
    /\ UNCHANGED vars

\* the registered command, or else the one on the command line, if there is one
Chooses ==
    /\ relay = "command"
    /\ \E command \in IF told.command # None THEN {told.command} ELSE {Own, None} :
       /\ spawned' = [command |-> command, env |-> told.env]
       /\ relay' = IF command = None THEN "exited" ELSE "start"
    /\ UNCHANGED <<told, child, eof, client, pumps, stage, handler, recorded, killed>>
    /\ UNCHANGED vars

\* Bound: the handlers at work return before the connector is started, since
\* what the daemon does no longer concerns this relay.
Quiet == \A c \in Conns : conn[c] = Fresh

Spawns ==
    /\ relay = "start" /\ Quiet
    /\ \/ relay' = "started" /\ child' = "running" /\ UNCHANGED recorded
       \/ relay' = "exited" /\ recorded' = TRUE /\ UNCHANGED child
    /\ UNCHANGED <<told, spawned, eof, client, pumps, stage, handler, killed>>
    /\ UNCHANGED vars

\* signal.Notify, session.start, and the pumps' goroutines
Relays ==
    /\ relay = "started"
    /\ relay' = "relaying"
    /\ pumps' = {"requests", "responses"}
    /\ UNCHANGED <<told, spawned, child, eof, client, stage, handler, recorded, killed>>
    /\ UNCHANGED vars

PumpEnds(p) ==
    /\ relay # "exited" /\ p \in pumps
    /\ pumps' = pumps \ {p}
    /\ eof' = (eof \/ p = "requests")   \* out.Close, deferred
    /\ UNCHANGED <<relay, told, spawned, child, client, stage, handler, recorded, killed>>
    /\ UNCHANGED vars

\* a pump returns when what it reads has ended
PumpReadsEnd(p) ==
    /\ IF p = "requests" THEN ~client ELSE child = "gone"
    /\ PumpEnds(p)

\* or when what it read cannot be written any more: the other side must first
\* have something to say
PumpCannotWrite(p) ==
    /\ IF p = "requests" THEN child = "gone" ELSE ~client
    /\ PumpEnds(p)

Joins ==
    /\ relay = "relaying" /\ pumps = {}   \* wg.Wait
    /\ relay' = "stopping"
    /\ UNCHANGED told /\ Stays /\ UNCHANGED vars

-----------------------------------------------------------------------------
(* stop and finish *)

StopGoes(from, to) ==
    /\ relay # "exited" /\ stage = from
    /\ stage' = to
    /\ UNCHANGED <<relay, told, spawned, child, eof, client, pumps, handler, recorded, killed>>
    /\ UNCHANGED vars

\* Mutant: the last step of stopDownstream left out
StopKills_Never == FALSE

\* sync.Once: whoever comes first runs stopDownstream, the other waits for it
StopBegins == (relay = "stopping" \/ handler = "stop") /\ StopGoes("off", "wait")

StopTells == StopGoes("wait", "told")      \* the grace is over

StopKills == StopGoes("told", "killed")    \* and over again

StopReaps  == child = "gone" /\ \E s \in {"wait", "told", "killed"} : StopGoes(s, "reaped")

\* finish, by the handler before it stops or by main after
HandlerFinishes ==
    /\ relay # "exited" /\ handler = "finish"
    /\ handler' = "stop" /\ recorded' = TRUE
    /\ UNCHANGED <<relay, told, spawned, child, eof, client, pumps, stage, killed>>
    /\ UNCHANGED vars

\* the process ends, and with it its end of the connector's stdin
Ends ==
    /\ relay' = "exited"
    /\ eof' = TRUE
    /\ UNCHANGED <<told, spawned, child, client, pumps, stage, handler>>
    /\ UNCHANGED vars

\* Mutant: exiting without stopping the connector, as it once was
HandlerExits_AtOnce ==
    /\ relay # "exited" /\ handler = "stop"
    /\ Ends /\ UNCHANGED <<recorded, killed>>

HandlerExits ==
    /\ relay # "exited" /\ handler = "stop" /\ stage = "reaped"
    /\ Ends /\ UNCHANGED <<recorded, killed>>

MainExits ==
    /\ relay = "stopping" /\ stage = "reaped"
    /\ Ends /\ recorded' = TRUE /\ UNCHANGED killed

-----------------------------------------------------------------------------
(* The environment *)

ClientCloses ==
    /\ relay \in Serving /\ client /\ client' = FALSE
    /\ UNCHANGED <<relay, told, spawned, child, eof, pumps, stage, handler, recorded, killed>>
    /\ UNCHANGED vars

\* SIGTERM or SIGINT; before signal.Notify it ends the relay as SIGKILL does
Signalled ==
    /\ relay \in Serving /\ handler = "waiting"
    /\ handler' = "finish"
    /\ UNCHANGED <<relay, told, spawned, child, eof, client, pumps, stage, recorded, killed>>
    /\ UNCHANGED vars

Killed ==
    /\ relay \in {"started"} \cup Serving
    /\ Ends /\ killed' = TRUE /\ UNCHANGED recorded

\* the connector ends of its own accord, which closing its stdin or asking it to
\* end need not bring about
ChildEnds ==
    /\ child = "running" /\ child' = "gone"
    /\ UNCHANGED <<relay, told, spawned, eof, client, pumps, stage, handler, recorded, killed>>
    /\ UNCHANGED vars

\* a killed one does not go on
ChildIsKilled == stage = "killed" /\ ChildEnds

-----------------------------------------------------------------------------
FetchConnector == Dials \/ Redials \/ HearsDaemon \/ HearsOther \/ GivesUp

Stop == StopBegins \/ StopTells \/ StopKills \/ StopReaps

\* Bound: operators begin what they do before the relay asks, which loses no
\* interleaving of the handlers.
Daemon ==
    /\ relay \in Starting \cup {"start"}
    /\ \/ \E c \in Conns :
            \/ /\ c # Relay /\ relay \in {"dial", "waiting"}
               /\ \E op \in Ops, t \in Targets \cup {None}, r \in Regs \cup {None} :
                    Request(c, op, t, r)
            \/ c # Relay /\ TakesAnswer(c)
            \/ (c = Relay => relay # "answer") /\ Closes(c)
            \/ Handles(c)
       \/ \E l \in {"ours", "other"} : Restarting /\ Starts(l)
       \/ Restarting /\ Exits
    /\ UNCHANGED relayVars

Environment == ClientCloses \/ Signalled \/ Killed \/ ChildEnds

RelayNext ==
    \/ FetchConnector \/ Chooses \/ Spawns \/ Relays
    \/ \E p \in pumps : PumpReadsEnd(p) \/ PumpCannotWrite(p)
    \/ Joins \/ Stop \/ HandlerFinishes \/ HandlerExits \/ MainExits
    \/ Daemon
    \/ Environment

RelaySpec == RelayInit /\ [][RelayNext]_allVars

\* The relay's goroutines are scheduled, its deadlines and graces pass, and a
\* process the kernel has killed ends.  Nothing is assumed of the daemon, its
\* credential store, the client or the connector.
RelayFairness ==
    /\ WF_allVars(Dials \/ Redials \/ GivesUp \/ Chooses \/ Spawns \/ Relays)
    /\ \A p \in {"requests", "responses"} : WF_allVars(PumpReadsEnd(p))
    /\ WF_allVars(Joins)
    /\ WF_allVars(Stop)
    /\ WF_allVars(HandlerFinishes \/ HandlerExits)
    /\ WF_allVars(MainExits)
    /\ WF_allVars(ChildIsKilled)

FairRelayStartSpec == RelaySpec /\ RelayFairness

-----------------------------------------------------------------------------
(* Properties *)

\* What the daemon answered is what happens (fetchConnector's four outcomes): a
\* connector is spawned with the registered command and its credential, both
\* from one answer, or with the caller's own command and none; a configured
\* connector whose credential is withheld, and any answer carrying a connector
\* from a daemon nobody could verify, is not spawned at all.
FoundIsObeyed ==
    child # "none" =>
        IF told.found
        THEN /\ verifies /\ ~told.failed
             /\ spawned = [command |-> told.command, env |-> told.env]
        ELSE spawned = [command |-> Own, env |-> None]

\* A relay that ended by itself or was asked to end leaves no connector behind
\* and has closed its session (Run's signal handler and its normal end), however
\* the two race; one that was killed outright cannot.
ConnectorIsStopped ==
    relay = "exited" /\ ~killed /\ child # "none" => child = "gone" /\ recorded

\* A relay comes out of its start whatever the daemon and its store do: no lock
\* held in the daemon and no silence keeps it (fetchConnector's deadline).
StartEnds == relay \in Starting ~> relay \notin Starting

\* A relay asked to stop does, and takes its connector with it, even one that
\* ignores its stdin and the request to end (e2e_test.go:1108).
SignalIsObeyed == handler = "finish" ~> relay = "exited" /\ (killed \/ child = "gone")

\* docs/decisions/0001: "Connector configured, secret unavailable: refuse to
\* spawn".  For instances in which no operator acts and the daemon stays.
ConfiguredIsArmed ==
    child # "none" /\ verifies /\ listener = "ours" /\ meta[Target] # None => spawned.env # None

\* shim.go:289: the relay ends when "the client has gone (its stdin closed)", and
\* "a connector that does not act on that is told, then made to".
ClientGoneEndsRelay == relay = "relaying" /\ ~client ~> relay # "relaying"
=============================================================================
