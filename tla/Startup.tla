------------------------------- MODULE Startup -------------------------------
(***************************************************************************)
(* Which daemon owns the socket path: internal/daemon (RunWithStop, listen,*)
(* acquireStartupLock), net.UnixListener as it uses it, and the restart    *)
(* command of cmd/holdcall.                                                *)
(*                                                                         *)
(* Relays and commands start daemons at will, several may be starting at   *)
(* once, and the file of one that crashed earlier may be in the way.  A    *)
(* daemon runs once: Daemons are process ids.  A socket file is named by   *)
(* the daemon that bound it; it is stale once that one stops listening.    *)
(***************************************************************************)
EXTENDS Naturals

CONSTANTS
    Daemons,     \* process ids, each used at most once
    Attempts,    \* how often listen tries to bind
    Crashing,    \* TRUE: a daemon may be killed outright
    OpenFails,   \* TRUE: the journal may fail to open
    Dead,        \* a daemon that crashed before this story begins
    None

ASSUME StartupAssumption ==
    /\ Attempts \in Nat \ {0}
    /\ {None, Dead} \cap Daemons = {} /\ None # Dead
    /\ {Crashing, OpenFails} \subseteq BOOLEAN

VARIABLES
    pc,         \* where each daemon's main goroutine is
    tries,      \* listen's loop variable
    lock,       \* the daemon holding the flock
    path,       \* the daemon whose socket file is at the path
    listening,  \* the daemons whose listening descriptor is open
    stop,       \* each daemon's signal goroutine: ln.Close in two halves
    restart     \* the restart command

vars == <<pc, tries, lock, path, listening, stop, restart>>

Locked    == {"bind", "dial", "remove", "chmod"}
Running   == {"open", "serving"}
Leaving   == {"closing", "removing", "final"}
Processes == {"lock"} \cup Locked \cup Running \cup Leaving
\* main gave up, was killed, or came through the deferred calls
Gone      == {"exited", "killed", "returned"}

RestartState ==
    [at : {"idle", "start", "waiting", "done", "failed"}, old : Daemons \cup {None}]
    \cup [at : {"gone"}, old : Daemons]

StartupTypeOK ==
    /\ pc \in [Daemons -> {"off"} \cup Processes \cup Gone]
    /\ tries \in [Daemons -> Nat]
    /\ lock \in Daemons \cup {None}
    /\ path \in Daemons \cup {None, Dead}
    /\ listening \subseteq Daemons
    /\ stop \in [Daemons -> {"idle", "unlink", "close", "closed"}]
    /\ restart \in RestartState

StartupInit ==
    /\ pc = [d \in Daemons |-> "off"]
    /\ tries = [d \in Daemons |-> 0]
    /\ lock = None
    /\ path \in {None, Dead}
    /\ listening = {}
    /\ stop = [d \in Daemons |-> "idle"]
    /\ restart = [at |-> "idle", old |-> None]

\* Somebody answers at the path.
Answers == path \in listening

Go(d, state) == pc' = [pc EXCEPT ![d] = state]

-----------------------------------------------------------------------------
(***************************************************************************)
(* Starting: listen, then the journal.                                     *)
(***************************************************************************)

\* StartDaemon: a relay, a command or an operator starts a process.
Start(d) ==
    /\ pc[d] = "off"
    /\ Go(d, "lock")
    /\ UNCHANGED <<tries, lock, path, listening, stop, restart>>

\* acquireStartupLock blocks until the flock is free.
\* Mutant _NoOp: it never waits.
LockFree_NoOp(d) == TRUE
LockFree(d) == lock = None
AcquireLock(d) ==
    /\ pc[d] = "lock"
    /\ LockFree(d)
    /\ lock' = d
    /\ Go(d, "bind")
    /\ UNCHANGED <<tries, path, listening, stop, restart>>

\* listen returns, and with it the deferred unlock; so does a process that ends.
\* Mutant _Forgotten: the descriptor stays open.
Unlock_Forgotten(d) == UNCHANGED lock
Unlock(d) == lock' = IF lock = d THEN None ELSE lock

\* net.Listen: succeeds when nothing is at the path.
Bind(d) ==
    /\ pc[d] = "bind"
    /\ IF path = None
       THEN path' = d /\ listening' = listening \cup {d} /\ Go(d, "chmod")
       ELSE UNCHANGED <<path, listening>> /\ Go(d, "dial")
    /\ UNCHANGED <<tries, lock, stop, restart>>

\* os.Chmod by path: fails when the file is gone, and ln.Close follows.
Chmod(d) ==
    /\ pc[d] = "chmod"
    /\ IF path = None
       THEN listening' = listening \ {d} /\ Go(d, "exited")
       ELSE UNCHANGED listening /\ Go(d, "open")
    /\ Unlock(d)
    /\ UNCHANGED <<tries, path, stop, restart>>

\* Something is at the path: ask it whether it is alive.
\* Mutant _Assumed: nobody asks.
Alive_Assumed == FALSE
Alive == Answers
Dial(d) ==
    /\ pc[d] = "dial"
    /\ IF Alive THEN Go(d, "exited") /\ Unlock(d)
                ELSE Go(d, "remove") /\ UNCHANGED lock
    /\ UNCHANGED <<tries, path, listening, stop, restart>>

\* Mutant _Never: the loop ends with its first removal.
Retries_Never(d) == FALSE
Retries(d) == tries[d] + 1 < Attempts

\* It is not: remove the file and try again, or give up.
RemoveStale(d) ==
    /\ pc[d] = "remove"
    /\ path' = None
    /\ tries' = [tries EXCEPT ![d] = @ + 1]
    /\ IF Retries(d)
       THEN Go(d, "bind") /\ UNCHANGED lock
       ELSE Go(d, "exited") /\ Unlock(d)
    /\ UNCHANGED <<listening, stop, restart>>

\* journal.Open and the seed; a failure returns through the deferred calls.
OpenJournal(d) ==
    /\ pc[d] = "open"
    /\ Go(d, "serving") \/ (OpenFails /\ Go(d, "removing"))
    /\ UNCHANGED <<tries, lock, path, listening, stop, restart>>

-----------------------------------------------------------------------------
(***************************************************************************)
(* Stopping.                                                               *)
(***************************************************************************)

\* No deferred call runs; the kernel closes the descriptor and releases the flock.
Die(d) ==
    /\ Go(d, "killed")
    /\ listening' = listening \ {d}
    /\ Unlock(d)

\* The process is killed outright.
Crash(d) ==
    /\ Crashing
    /\ pc[d] \in Processes
    /\ Die(d)
    /\ UNCHANGED <<tries, path, stop, restart>>

\* Before the handler is installed SIGTERM ends the process; then it reaches
\* the goroutine RunWithStop started, once.
Signal(d) ==
    IF pc[d] \in {"lock"} \cup Locked
    THEN Die(d) /\ UNCHANGED <<path, stop>>
    ELSE /\ stop' = [stop EXCEPT ![d] = IF @ = "idle" THEN "unlink" ELSE @]
         /\ UNCHANGED <<pc, lock, path, listening>>

SignalDaemon(d) ==
    /\ pc[d] \in Processes
    /\ Signal(d)
    /\ UNCHANGED <<tries, restart>>

\* ln.Close: the file at the path is unlinked first, whoever bound it.
StopUnlinks(d) ==
    /\ pc[d] \in Running \cup Leaving
    /\ stop[d] = "unlink"
    /\ path' = None
    /\ stop' = [stop EXCEPT ![d] = "close"]
    /\ UNCHANGED <<pc, tries, lock, listening, restart>>

\* Then the descriptor is closed, and Accept fails.
StopCloses(d) ==
    /\ pc[d] \in Running \cup Leaving
    /\ stop[d] = "close"
    /\ listening' = listening \ {d}
    /\ stop' = [stop EXCEPT ![d] = "closed"]
    /\ UNCHANGED <<pc, tries, lock, path, restart>>

\* Mutant _Retried: the loop accepts again whatever the error.
AcceptEnds_Retried(d) == FALSE
AcceptEnds(d) == stop[d] = "closed"
AcceptFails(d) ==
    /\ pc[d] = "serving"
    /\ AcceptEnds(d)
    /\ Go(d, "closing")
    /\ UNCHANGED <<tries, lock, path, listening, stop, restart>>

\* The deferred calls, last first: j.Close, os.Remove, ln.Close.
CloseJournal(d) ==
    /\ pc[d] = "closing"
    /\ Go(d, "removing")
    /\ UNCHANGED <<tries, lock, path, listening, stop, restart>>

RemoveSocket(d) ==
    /\ pc[d] = "removing"
    /\ path' = None
    /\ Go(d, "final")
    /\ UNCHANGED <<tries, lock, listening, stop, restart>>

\* ln.Close once more: the listener unlinks its path only the first time.
FinalClose(d) ==
    /\ pc[d] = "final"
    /\ path' = IF stop[d] \in {"idle", "unlink"} THEN None ELSE path
    /\ listening' = listening \ {d}
    /\ Go(d, "returned")
    /\ UNCHANGED <<tries, lock, stop, restart>>

-----------------------------------------------------------------------------
(***************************************************************************)
(* holdcall daemon restart.                                                *)
(***************************************************************************)

\* PeerPID: whoever answers is the daemon to stop; nobody answers, none is.
NothingToStop == [at |-> "start", old |-> None]
RestartAsks ==
    /\ restart.at = "idle"
    /\ IF Answers
       THEN Signal(path) /\ restart' = [at |-> "gone", old |-> path]
       ELSE restart' = NothingToStop /\ UNCHANGED <<pc, lock, path, listening, stop>>
    /\ UNCHANGED tries

\* waitDaemonGone: nobody answers at the path, or the wait runs out.
RestartWaitsGone ==
    /\ restart.at = "gone"
    /\ \/ ~Answers /\ restart' = [restart EXCEPT !.at = "start"]
       \/ restart' = [restart EXCEPT !.at = "failed"]
    /\ UNCHANGED <<pc, tries, lock, path, listening, stop>>

\* StartDaemon.
RestartStarts(d) ==
    /\ restart.at = "start"
    /\ pc[d] = "off"
    /\ Go(d, "lock")
    /\ restart' = [restart EXCEPT !.at = "waiting"]
    /\ UNCHANGED <<tries, lock, path, listening, stop>>

\* waitDaemonRunning: somebody answers, or the wait runs out.
RestartSees ==
    /\ restart.at = "waiting"
    /\ \/ Answers /\ restart' = [restart EXCEPT !.at = "done"]
       \/ restart' = [restart EXCEPT !.at = "failed"]
    /\ UNCHANGED <<pc, tries, lock, path, listening, stop>>

-----------------------------------------------------------------------------
Main(d) ==
    \/ AcquireLock(d) \/ Bind(d) \/ Chmod(d) \/ Dial(d) \/ RemoveStale(d)
    \/ OpenJournal(d) \/ AcceptFails(d) \/ CloseJournal(d) \/ RemoveSocket(d)
    \/ FinalClose(d)
Handler(d) == StopUnlinks(d) \/ StopCloses(d)

StartupNext ==
    \/ \E d \in Daemons :
          \/ Start(d) \/ Main(d) \/ Handler(d) \/ SignalDaemon(d) \/ Crash(d)
          \/ RestartStarts(d)
    \/ RestartAsks \/ RestartWaitsGone \/ RestartSees

StartupSpec == StartupInit /\ [][StartupNext]_vars

\* A process's goroutines are scheduled; flock is not fair, but it is given to
\* a waiter whenever it is free again and again.
StartupFairness ==
    \A d \in Daemons :
        /\ WF_vars(Main(d) /\ ~AcquireLock(d))
        /\ SF_vars(AcquireLock(d))
        /\ WF_vars(Handler(d))
FairStartupSpec == StartupSpec /\ StartupFairness

-----------------------------------------------------------------------------
(***************************************************************************)
(* What must hold.                                                         *)
(***************************************************************************)

\* listen never takes the file of a daemon that is listening, however many
\* start at once and whichever of them crash or are being stopped.
ListenSparesLive ==
    [][\A d \in Daemons : pc[d] = "remove" /\ pc'[d] # "remove" /\ path' # path
                              => path \notin listening]_vars

\* Nor does it ever run out of attempts: one removal is enough.
ListenBinds == \A d \in Daemons : tries[d] <= 1

\* Both rest on the lock: whoever is between the lock and its release holds it,
\* removes only what it saw dead, and binds what it has removed.
LockInv ==
    /\ \A d \in Daemons : pc[d] \in Locked <=> lock = d
    /\ \A d \in Daemons : pc[d] = "remove" => path \notin listening
    /\ \A d \in Daemons : pc[d] \in {"off", "lock", "dial", "remove"} => tries[d] = 0
    /\ \A d \in Daemons : pc[d] = "bind" => tries[d] = 0 \/ path = None
    /\ ListenBinds

\* Nobody was asked to stop, and nobody whose journal failed to open is gone.
Undisturbed == \A d \in Daemons : stop[d] = "idle" /\ pc[d] # "returned"

\* Until then the daemon that serves is the one that answers at the path.
ServingIsReachable ==
    Undisturbed => \A d \in Daemons : pc[d] = "serving" => path = d

\* Because a bound socket stays bound.
OwnerInv ==
    Undisturbed =>
        \A d \in Daemons :
            /\ pc[d] # "closing"
            /\ pc[d] \in {"chmod", "removing"} \cup Running => path = d /\ d \in listening

\* "daemon restarted and answering" (main.go): the restart command reports
\* success only when the daemon that serves is one that can be reached.
RestartLeavesOneReachable ==
    restart.at = "done" /\ restart.old # None =>
        \A d \in Daemons : pc[d] = "serving" /\ stop[d] = "idle" => path = d

\* Whoever starts a daemon learns how it went: it serves, or it is gone.
StartIsDecided ==
    \A d \in Daemons : (pc[d] = "lock") ~> (pc[d] \in {"serving"} \cup Gone)

\* And unless it was killed meanwhile, somebody has come to answer at the path:
\* the file a crashed daemon left is taken over (daemon.go, listen: "clearing a
\* stale file"), and nobody gives up but to another, whoever else starts, is
\* stopped or crashes between its dial, its removal and its bind.
StartFindsOne ==
    \A d \in Daemons : (pc[d] = "lock") ~> (Answers \/ pc[d] = "killed")

\* A daemon that was asked to stop does.
StopIsObeyed ==
    \A d \in Daemons : (stop[d] = "unlink") ~> (pc[d] \in Gone)
=============================================================================
