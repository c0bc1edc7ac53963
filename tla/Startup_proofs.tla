---------------------------- MODULE Startup_proofs ----------------------------
(***************************************************************************)
(* What listen and its lock give, for any number of daemons starting,      *)
(* crashing and being stopped; and what a daemon is promised while nobody  *)
(* is asked to stop.                                                       *)
(***************************************************************************)
EXTENDS Startup, TLAPS

\* Every variable keeps its type.
THEOREM StartupTypeCorrect == StartupSpec => []StartupTypeOK
<1>1. StartupInit => StartupTypeOK
  BY StartupAssumption DEF StartupInit, StartupTypeOK, RestartState
<1>2. StartupTypeOK /\ [StartupNext]_vars => StartupTypeOK'
  <2> SUFFICES ASSUME StartupTypeOK, [StartupNext]_vars PROVE StartupTypeOK'
    OBVIOUS
  <2> USE StartupAssumption DEF StartupTypeOK, Processes, Locked, Running, Leaving, Gone, Go
  <2>1. CASE UNCHANGED vars
    BY <2>1 DEF vars
  <2>2. ASSUME NEW d \in Daemons, Start(d) PROVE StartupTypeOK'
    BY <2>2 DEF Start
  <2>3. ASSUME NEW d \in Daemons, AcquireLock(d) PROVE StartupTypeOK'
    BY <2>3 DEF AcquireLock
  <2>4. ASSUME NEW d \in Daemons, Bind(d) PROVE StartupTypeOK'
    BY <2>4 DEF Bind
  <2>5. ASSUME NEW d \in Daemons, Chmod(d) PROVE StartupTypeOK'
    BY <2>5 DEF Chmod, Unlock
  <2>6. ASSUME NEW d \in Daemons, Dial(d) PROVE StartupTypeOK'
    BY <2>6 DEF Dial, Unlock
  <2>7. ASSUME NEW d \in Daemons, RemoveStale(d) PROVE StartupTypeOK'
    BY <2>7 DEF RemoveStale, Unlock
  <2>8. ASSUME NEW d \in Daemons, OpenJournal(d) PROVE StartupTypeOK'
    BY <2>8 DEF OpenJournal
  <2>9. ASSUME NEW d \in Daemons, AcceptFails(d) \/ CloseJournal(d) PROVE StartupTypeOK'
    BY <2>9 DEF AcceptFails, CloseJournal
  <2>10. ASSUME NEW d \in Daemons, RemoveSocket(d) \/ FinalClose(d) PROVE StartupTypeOK'
    BY <2>10 DEF RemoveSocket, FinalClose
  <2>11. ASSUME NEW d \in Daemons, Handler(d) PROVE StartupTypeOK'
    BY <2>11 DEF Handler, StopUnlinks, StopCloses
  <2>12. ASSUME NEW d \in Daemons, SignalDaemon(d) PROVE StartupTypeOK'
    BY <2>12 DEF SignalDaemon, Signal, Die, Unlock
  <2>13. ASSUME NEW d \in Daemons, Crash(d) PROVE StartupTypeOK'
    BY <2>13 DEF Crash, Die, Unlock
  <2>14. ASSUME NEW d \in Daemons, RestartStarts(d) PROVE StartupTypeOK'
    BY <2>14 DEF RestartStarts, RestartState
  <2>15. CASE RestartAsks
    BY <2>15 DEF RestartAsks, Signal, Die, Unlock, Answers, NothingToStop, RestartState
  <2>16. CASE RestartWaitsGone \/ RestartSees
    BY <2>16 DEF RestartWaitsGone, RestartSees, RestartState
  <2>17. QED
    BY <2>1, <2>2, <2>3, <2>4, <2>5, <2>6, <2>7, <2>8, <2>9, <2>10, <2>11, <2>12,
       <2>13, <2>14, <2>15, <2>16 DEF StartupNext, Main
<1>3. QED
  BY <1>1, <1>2, PTL DEF StartupSpec

-----------------------------------------------------------------------------
(***************************************************************************)
(* The lock.                                                               *)
(***************************************************************************)

\* Dying, by a signal or otherwise, releases what the process held and
\* nothing else.
LEMMA DeathKeepsLockInv ==
    ASSUME NEW d \in Daemons, StartupTypeOK, LockInv, Die(d), UNCHANGED <<path, tries>>
    PROVE  LockInv'
BY StartupAssumption DEF StartupTypeOK, LockInv, ListenBinds, Die, Go, Unlock, Locked

\* The lock keeps starting daemons apart.
LEMMA LockInvInductive ==
    ASSUME StartupTypeOK, LockInv, [StartupNext]_vars
    PROVE  LockInv'
<1> USE StartupAssumption DEF StartupTypeOK, LockInv, ListenBinds, Locked, Go
<1>1. CASE UNCHANGED vars
  BY <1>1 DEF vars
<1>2. ASSUME NEW d \in Daemons, Start(d) \/ RestartStarts(d) PROVE LockInv'
  BY <1>2 DEF Start, RestartStarts
<1>3. ASSUME NEW d \in Daemons, AcquireLock(d) PROVE LockInv'
  BY <1>3 DEF AcquireLock, LockFree
<1>4. ASSUME NEW d \in Daemons, Bind(d) PROVE LockInv'
  BY <1>4 DEF Bind
<1>5. ASSUME NEW d \in Daemons, Chmod(d) PROVE LockInv'
  BY <1>5 DEF Chmod, Unlock
<1>6. ASSUME NEW d \in Daemons, Dial(d) PROVE LockInv'
  BY <1>6 DEF Dial, Alive, Answers, Unlock
<1>7. ASSUME NEW d \in Daemons, RemoveStale(d) PROVE LockInv'
  BY <1>7 DEF RemoveStale, Unlock
<1>8. ASSUME NEW d \in Daemons, OpenJournal(d) \/ AcceptFails(d) \/ CloseJournal(d)
      PROVE  LockInv'
  BY <1>8 DEF OpenJournal, AcceptFails, CloseJournal
<1>9. ASSUME NEW d \in Daemons, RemoveSocket(d) \/ FinalClose(d) PROVE LockInv'
  BY <1>9 DEF RemoveSocket, FinalClose
<1>10. ASSUME NEW d \in Daemons, Handler(d) PROVE LockInv'
  BY <1>10 DEF Handler, StopUnlinks, StopCloses
<1>11. ASSUME NEW d \in Daemons, Signal(d), UNCHANGED tries PROVE LockInv'
  <2>1. CASE Die(d) /\ UNCHANGED <<path, stop>>
    BY <1>11, <2>1, DeathKeepsLockInv
  <2>2. CASE UNCHANGED <<pc, lock, path, listening>>
    BY <1>11, <2>2
  <2>3. QED
    BY <1>11, <2>1, <2>2 DEF Signal
<1>12. ASSUME NEW d \in Daemons, SignalDaemon(d) PROVE LockInv'
  BY <1>11, <1>12 DEF SignalDaemon
<1>13. ASSUME NEW d \in Daemons, Crash(d) PROVE LockInv'
  BY <1>13, DeathKeepsLockInv DEF Crash
<1>14. CASE RestartAsks
  <2>1. CASE Answers
    <3>1. path \in Daemons /\ Signal(path) /\ UNCHANGED tries
      BY <1>14, <2>1 DEF RestartAsks, Answers
    <3>2. QED
      BY <3>1, <1>11
  <2>2. CASE ~Answers
    BY <1>14, <2>2 DEF RestartAsks
  <2>3. QED
    BY <2>1, <2>2
<1>15. CASE RestartWaitsGone \/ RestartSees
  BY <1>15 DEF RestartWaitsGone, RestartSees
<1>16. QED
  BY <1>1, <1>2, <1>3, <1>4, <1>5, <1>6, <1>7, <1>8, <1>9, <1>10, <1>12, <1>13, <1>14,
     <1>15 DEF StartupNext, Main

LEMMA LockInvAlways == StartupSpec => []LockInv
<1>1. StartupInit => LockInv
  BY StartupAssumption DEF StartupInit, LockInv, ListenBinds, Locked
<1>2. QED
  BY <1>1, LockInvInductive, StartupTypeCorrect, PTL DEF StartupSpec

\* listen always binds, or finds a live daemon, within two attempts (the three
\* of its loop are enough), whatever crashes and stops happen meanwhile.
THEOREM OneRemovalIsEnough == StartupSpec => []ListenBinds
BY LockInvAlways, PTL DEF LockInv

\* A starting daemon removes only socket files nobody is listening on: "never
\* one a live daemon is using" (daemon.go, listen).
THEOREM LiveSocketsAreSpared == StartupSpec => ListenSparesLive
<1> DEFINE Spares == \A d \in Daemons :
                        pc[d] = "remove" /\ pc'[d] # "remove" /\ path' # path
                            => path \notin listening
<1>1. LockInv => [Spares]_vars
  BY DEF LockInv
<1>2. QED
  BY <1>1, LockInvAlways, PTL DEF ListenSparesLive

-----------------------------------------------------------------------------
(***************************************************************************)
(* Until somebody is asked to stop or a journal fails to open.             *)
(***************************************************************************)

\* Nobody becomes undisturbed again.
LEMMA DisturbanceLasts ==
    ASSUME StartupTypeOK, [StartupNext]_vars, Undisturbed'
    PROVE  Undisturbed
<1> USE DEF StartupTypeOK, Undisturbed, Processes, Leaving, Running, Locked, Go
<1>1. CASE UNCHANGED vars
  BY <1>1 DEF vars
<1>2. ASSUME NEW d \in Daemons,
             \/ Start(d) \/ RestartStarts(d) \/ AcquireLock(d) \/ Bind(d) \/ Chmod(d)
             \/ Dial(d) \/ RemoveStale(d)
      PROVE  Undisturbed
  BY <1>2 DEF Start, RestartStarts, AcquireLock, Bind, Chmod, Dial, RemoveStale
<1>3. ASSUME NEW d \in Daemons, OpenJournal(d) \/ AcceptFails(d) \/ CloseJournal(d)
      PROVE  Undisturbed
  BY <1>3 DEF OpenJournal, AcceptFails, CloseJournal
<1>4. ASSUME NEW d \in Daemons, RemoveSocket(d) \/ FinalClose(d) PROVE Undisturbed
  BY <1>4 DEF RemoveSocket, FinalClose
<1>5. ASSUME NEW d \in Daemons, StopUnlinks(d) \/ StopCloses(d) PROVE Undisturbed
  BY <1>5 DEF StopUnlinks, StopCloses
<1>6. ASSUME NEW d \in Daemons, Signal(d) PROVE Undisturbed
  BY <1>6 DEF Signal, Die
<1>7. ASSUME NEW d \in Daemons, SignalDaemon(d) PROVE Undisturbed
  BY <1>6, <1>7 DEF SignalDaemon
<1>8. CASE RestartAsks
  <2>1. CASE Answers
    BY <1>6, <1>8, <2>1 DEF RestartAsks, Answers
  <2>2. CASE ~Answers
    BY <1>8, <2>2 DEF RestartAsks
  <2>3. QED
    BY <2>1, <2>2
<1>9. CASE RestartWaitsGone \/ RestartSees
  BY <1>9 DEF RestartWaitsGone, RestartSees
<1>10. ASSUME NEW d \in Daemons, Crash(d) PROVE Undisturbed
  BY <1>10 DEF Crash, Die
<1>11. QED
  BY <1>1, <1>2, <1>3, <1>4, <1>5, <1>7, <1>8, <1>9, <1>10 DEF StartupNext, Main, Handler

\* A bound socket stays bound.
LEMMA OwnerInvInductive ==
    ASSUME StartupTypeOK, LockInv, OwnerInv, [StartupNext]_vars
    PROVE  OwnerInv'
<1> SUFFICES ASSUME Undisturbed' PROVE OwnerInv'
  BY DEF OwnerInv
<1>1. Undisturbed
  BY DisturbanceLasts
<1> DEFINE Owns(d) ==
             /\ pc[d] # "closing"
             /\ pc[d] \in {"chmod", "removing"} \cup Running => path = d /\ d \in listening
<1>2. \A d \in Daemons : Owns(d)
  BY <1>1 DEF OwnerInv
<1>3. SUFFICES \A d \in Daemons : Owns(d)'
  BY DEF OwnerInv
<1> USE StartupAssumption DEF StartupTypeOK, Running, Leaving, Locked, Go
<1>4. CASE UNCHANGED vars
  BY <1>2, <1>4 DEF vars
<1>5. ASSUME NEW d \in Daemons, Start(d) \/ RestartStarts(d) \/ AcquireLock(d) \/ Dial(d)
      PROVE  \A e \in Daemons : Owns(e)'
  BY <1>2, <1>5 DEF Start, RestartStarts, AcquireLock, Dial
<1>6. ASSUME NEW d \in Daemons, Bind(d) \/ Chmod(d) PROVE \A e \in Daemons : Owns(e)'
  BY <1>2, <1>6 DEF Bind, Chmod
<1>7. ASSUME NEW d \in Daemons, RemoveStale(d) PROVE \A e \in Daemons : Owns(e)'
  <2>1. path \notin listening
    BY <1>7 DEF RemoveStale, LockInv
  <2>2. QED
    BY <1>2, <1>7, <2>1 DEF RemoveStale
<1>8. ASSUME NEW d \in Daemons, OpenJournal(d) PROVE \A e \in Daemons : Owns(e)'
  BY <1>2, <1>8 DEF OpenJournal
<1>9. ASSUME NEW d \in Daemons,
             \/ AcceptFails(d) \/ CloseJournal(d) \/ FinalClose(d)
             \/ StopUnlinks(d) \/ StopCloses(d)
      PROVE  FALSE
  BY <1>1, <1>2, <1>9 DEF Undisturbed, AcceptFails, AcceptEnds, CloseJournal, FinalClose,
                          StopUnlinks, StopCloses
<1>10. ASSUME NEW d \in Daemons, RemoveSocket(d) PROVE \A e \in Daemons : Owns(e)'
  BY <1>2, <1>10 DEF RemoveSocket
<1>11. ASSUME NEW d \in Daemons, Die(d), UNCHANGED path PROVE \A e \in Daemons : Owns(e)'
  BY <1>2, <1>11 DEF Die
<1>12. ASSUME NEW d \in Daemons, Signal(d) PROVE \A e \in Daemons : Owns(e)'
  <2>1. CASE Die(d) /\ UNCHANGED <<path, stop>>
    BY <1>11, <2>1
  <2>2. CASE UNCHANGED <<pc, lock, path, listening>>
    BY <1>2, <2>2
  <2>3. QED
    BY <1>12, <2>1, <2>2 DEF Signal
<1>13. ASSUME NEW d \in Daemons, Crash(d) \/ SignalDaemon(d)
       PROVE  \A e \in Daemons : Owns(e)'
  BY <1>11, <1>12, <1>13 DEF Crash, SignalDaemon
<1>14. CASE RestartAsks
  <2>1. CASE Answers
    BY <1>12, <1>14, <2>1 DEF RestartAsks, Answers
  <2>2. CASE ~Answers
    BY <1>2, <1>14, <2>2 DEF RestartAsks
  <2>3. QED
    BY <2>1, <2>2
<1>15. CASE RestartWaitsGone \/ RestartSees
  BY <1>2, <1>15 DEF RestartWaitsGone, RestartSees
<1>16. QED
  BY <1>4, <1>5, <1>6, <1>7, <1>8, <1>9, <1>10, <1>13, <1>14, <1>15 DEF StartupNext, Main, Handler

LEMMA OwnerInvAlways == StartupSpec => []OwnerInv
<1>1. StartupInit => OwnerInv
  BY DEF StartupInit, OwnerInv, Running
<1>2. StartupTypeOK /\ LockInv /\ OwnerInv /\ [StartupNext]_vars => OwnerInv'
  BY OwnerInvInductive
<1>3. QED
  BY <1>1, <1>2, LockInvAlways, StartupTypeCorrect, PTL DEF StartupSpec

\* Until a daemon is asked to stop or cannot open its journal, the one that
\* serves is the one that answers at the path, whatever starts and crashes.
THEOREM ServingDaemonIsReachable == StartupSpec => []ServingIsReachable
<1>1. OwnerInv => ServingIsReachable
  BY DEF OwnerInv, ServingIsReachable, Running
<1>2. QED
  BY <1>1, OwnerInvAlways, PTL

-----------------------------------------------------------------------------
(***************************************************************************)
(* What the liveness properties rest on: whoever is waited for has a next  *)
(* step, and only so many of them.                                         *)
(***************************************************************************)

\* How many steps the holder of the lock is from giving it up, at most.
Tenure(d) ==
    CASE pc[d] = "bind"   -> IF tries[d] = 0 THEN 5 ELSE 2
      [] pc[d] = "dial"   -> 4
      [] pc[d] = "remove" -> 3
      [] pc[d] = "chmod"  -> 1
      [] OTHER            -> 0

\* Whoever takes the startup lock is inside listen until it has given the lock
\* up, and every step it takes brings it nearer to that.
LockIsBrief ==
    [][\A d \in Daemons : lock = d =>
          \/ lock' = None /\ pc'[d] \notin Locked
          \/ lock' = d /\ Tenure(d)' < Tenure(d)
          \/ UNCHANGED <<lock, tries, pc[d]>>]_vars

LEMMA TenureShrinks ==
    ASSUME StartupTypeOK, LockInv, [StartupNext]_vars, NEW d \in Daemons, lock = d
    PROVE  \/ lock' = None /\ pc'[d] \notin Locked
           \/ lock' = d /\ Tenure(d)' < Tenure(d)
           \/ UNCHANGED <<lock, tries, pc[d]>>
<1> USE StartupAssumption DEF StartupTypeOK, LockInv, ListenBinds, Locked, Go
<1>1. \A e \in Daemons : pc[e] \in Locked <=> e = d
  OBVIOUS
<1>2. ASSUME NEW e \in Daemons, Start(e) \/ RestartStarts(e) PROVE UNCHANGED <<lock, tries, pc[d]>>
  BY <1>1, <1>2 DEF Start, RestartStarts
<1>3. ASSUME NEW e \in Daemons, AcquireLock(e) PROVE FALSE
  BY <1>3 DEF AcquireLock, LockFree
<1>4. ASSUME NEW e \in Daemons, Bind(e) PROVE lock' = d /\ Tenure(d)' < Tenure(d)
  BY <1>1, <1>4 DEF Bind, Tenure
<1>5. ASSUME NEW e \in Daemons, Chmod(e) PROVE lock' = None /\ pc'[d] \notin Locked
  BY <1>1, <1>5 DEF Chmod, Unlock
<1>6. ASSUME NEW e \in Daemons, Dial(e)
      PROVE  \/ lock' = None /\ pc'[d] \notin Locked
             \/ lock' = d /\ Tenure(d)' < Tenure(d)
  BY <1>1, <1>6 DEF Dial, Unlock, Tenure
<1>7. ASSUME NEW e \in Daemons, RemoveStale(e)
      PROVE  \/ lock' = None /\ pc'[d] \notin Locked
             \/ lock' = d /\ Tenure(d)' < Tenure(d)
  BY <1>1, <1>7 DEF RemoveStale, Unlock, Tenure
<1>8. ASSUME NEW e \in Daemons,
             OpenJournal(e) \/ AcceptFails(e) \/ CloseJournal(e) \/ RemoveSocket(e) \/ FinalClose(e)
      PROVE  UNCHANGED <<lock, tries, pc[d]>>
  BY <1>1, <1>8 DEF OpenJournal, AcceptFails, CloseJournal, RemoveSocket, FinalClose
<1>9. ASSUME NEW e \in Daemons, Handler(e) PROVE UNCHANGED <<lock, tries, pc[d]>>
  BY <1>9 DEF Handler, StopUnlinks, StopCloses
\* a signal or a crash kills the holder, or leaves it alone
<1>10. ASSUME NEW e \in Daemons, Die(e), UNCHANGED tries
       PROVE  \/ lock' = None /\ pc'[d] \notin Locked
              \/ UNCHANGED <<lock, tries, pc[d]>>
  BY <1>10 DEF Die, Unlock
<1>11. ASSUME NEW e \in Daemons, Signal(e), UNCHANGED tries
       PROVE  \/ lock' = None /\ pc'[d] \notin Locked
              \/ UNCHANGED <<lock, tries, pc[d]>>
  BY <1>10, <1>11 DEF Signal
<1>12. ASSUME NEW e \in Daemons, SignalDaemon(e) \/ Crash(e)
       PROVE  \/ lock' = None /\ pc'[d] \notin Locked
              \/ UNCHANGED <<lock, tries, pc[d]>>
  BY <1>10, <1>11, <1>12 DEF SignalDaemon, Crash
<1>13. CASE RestartAsks
  <2>1. CASE Answers
    <3>1. path \in Daemons /\ Signal(path) /\ UNCHANGED tries
      BY <1>13, <2>1 DEF RestartAsks, Answers
    <3>2. QED
      BY <3>1, <1>11
  <2>2. CASE ~Answers
    BY <1>13, <2>2 DEF RestartAsks
  <2>3. QED
    BY <2>1, <2>2
<1>14. CASE RestartWaitsGone \/ RestartSees \/ UNCHANGED vars
  BY <1>14 DEF RestartWaitsGone, RestartSees, vars
<1>15. QED
  BY <1>2, <1>3, <1>4, <1>5, <1>6, <1>7, <1>8, <1>9, <1>12, <1>13, <1>14 DEF StartupNext, Main

\* The startup lock is never kept: listen gives it up within five of its
\* holder's own steps, or with its process (daemon.go, listen and
\* acquireStartupLock).  A daemon that waits for it waits for nothing else.
THEOREM TheLockIsBrief == StartupSpec => LockIsBrief
<1> DEFINE Brief == \A d \in Daemons : lock = d =>
                       \/ lock' = None /\ pc'[d] \notin Locked
                       \/ lock' = d /\ Tenure(d)' < Tenure(d)
                       \/ UNCHANGED <<lock, tries, pc[d]>>
<1>1. StartupTypeOK /\ LockInv /\ [StartupNext]_vars => [Brief]_vars
  BY TenureShrinks
<1>2. QED
  BY <1>1, StartupTypeCorrect, LockInvAlways, PTL DEF StartupSpec, LockIsBrief

\* A daemon leaves bind to ask whoever is at the path or with a socket of its
\* own that answers, and gives the path up only to one that answers.
NobodyGivesUpInVain ==
    [][\A d \in Daemons :
          /\ pc[d] = "bind" /\ pc'[d] # "bind" => pc'[d] \in {"dial", "killed"} \/ Answers'
          /\ pc[d] \in {"dial", "remove"} /\ pc'[d] = "exited" => Answers]_vars

LEMMA ListenEndsWell ==
    ASSUME Attempts > 1, StartupTypeOK, LockInv, [StartupNext]_vars, NEW d \in Daemons
    PROVE  /\ pc[d] = "bind" /\ pc'[d] # "bind" => pc'[d] \in {"dial", "killed"} \/ Answers'
           /\ pc[d] \in {"dial", "remove"} /\ pc'[d] = "exited" => Answers
<1> USE StartupAssumption DEF StartupTypeOK, Locked, Go
<1> SUFFICES ASSUME pc[d] \in {"bind", "dial", "remove"}, pc'[d] # pc[d]
             PROVE  /\ pc[d] = "bind" => pc'[d] \in {"dial", "killed"} \/ Answers'
                    /\ pc[d] # "bind" /\ pc'[d] = "exited" => Answers
  OBVIOUS
\* what is done to it
<1>1. ASSUME NEW e \in Daemons, Die(e) PROVE pc'[d] = "killed"
  BY <1>1 DEF Die
<1>2. ASSUME NEW e \in Daemons, Signal(e) PROVE pc'[d] = "killed"
  BY <1>1, <1>2 DEF Signal
<1>3. ASSUME NEW e \in Daemons, SignalDaemon(e) \/ Crash(e) PROVE pc'[d] = "killed"
  BY <1>1, <1>2, <1>3 DEF SignalDaemon, Crash
<1>4. CASE RestartAsks
  BY <1>2, <1>4 DEF RestartAsks, Answers
<1>5. CASE RestartWaitsGone \/ RestartSees \/ UNCHANGED vars
  BY <1>5 DEF RestartWaitsGone, RestartSees, vars
<1>6. ASSUME NEW e \in Daemons, Handler(e) \/ Start(e) \/ RestartStarts(e) PROVE FALSE
  BY <1>6 DEF Handler, StopUnlinks, StopCloses, Start, RestartStarts
\* its own steps
<1>7. ASSUME NEW e \in Daemons, Main(e) PROVE e = d /\ (Bind(d) \/ Dial(d) \/ RemoveStale(d))
  BY <1>7 DEF Main, AcquireLock, Bind, Chmod, Dial, RemoveStale, OpenJournal, AcceptFails,
     CloseJournal, RemoveSocket, FinalClose
<1>8. CASE Bind(d)
  BY <1>8 DEF Bind, Answers
<1>9. CASE Dial(d)
  BY <1>9 DEF Dial, Alive
<1>10. CASE RemoveStale(d)
  <2>1. Retries(d)
    BY <1>10 DEF RemoveStale, Retries, LockInv
  <2>2. QED
    BY <1>10, <2>1 DEF RemoveStale
<1>11. QED
  BY <1>3, <1>4, <1>5, <1>6, <1>7, <1>8, <1>9, <1>10 DEF StartupNext

\* With more than one attempt (listen makes three), whoever is through with
\* listen alive has been answered, or has answered itself (daemon.go, listen).
THEOREM ListenIsNeverInVain ==
    ASSUME Attempts > 1
    PROVE  StartupSpec => NobodyGivesUpInVain
<1> DEFINE Ends == \A d \in Daemons :
                      /\ pc[d] = "bind" /\ pc'[d] # "bind" => pc'[d] \in {"dial", "killed"} \/ Answers'
                      /\ pc[d] \in {"dial", "remove"} /\ pc'[d] = "exited" => Answers
<1>1. StartupTypeOK /\ LockInv /\ [StartupNext]_vars => [Ends]_vars
  BY ListenEndsWell
<1>2. QED
  BY <1>1, StartupTypeCorrect, LockInvAlways, PTL DEF StartupSpec, NobodyGivesUpInVain

-----------------------------------------------------------------------------
\* How far a daemon that was asked to stop is from its end.
Remaining(d) ==
    (CASE pc[d] = "open"     -> 5
       [] pc[d] = "serving"  -> 4
       [] pc[d] = "closing"  -> 3
       [] pc[d] = "removing" -> 2
       [] pc[d] = "final"    -> 1
       [] OTHER              -> 0)
    + (CASE stop[d] = "unlink" -> 2 [] stop[d] = "close" -> 1 [] OTHER -> 0)

\* The signal reaches a goroutine only once listen is behind it, and Accept
\* fails only when that goroutine has closed the listener.  Nobody listens who
\* is not alive.
StopInv ==
    \A d \in Daemons :
        /\ d \in listening => pc[d] \in {"chmod"} \cup Running \cup Leaving
        /\ stop[d] # "idle" => pc[d] \in Running \cup Leaving \cup Gone
        /\ pc[d] = "closing" => stop[d] = "closed"

\* A daemon that was asked to stop only ever comes nearer to its end, by every
\* step of its own.
StopGoesOn ==
    [][\A d \in Daemons : stop[d] # "idle" /\ pc[d] \notin Gone =>
          /\ stop'[d] # "idle"
          /\ Main(d) \/ Handler(d) \/ pc'[d] # pc[d] \/ stop'[d] # stop[d]
               => pc'[d] \in Gone \/ Remaining(d)' < Remaining(d)]_vars

LEMMA StopInvInductive ==
    ASSUME StartupTypeOK, LockInv, StopInv, [StartupNext]_vars
    PROVE  StopInv'
<1> USE StartupAssumption DEF StartupTypeOK, StopInv, Locked, Running, Leaving, Gone, Processes, Go
<1>1. CASE UNCHANGED vars
  BY <1>1 DEF vars
<1>2. ASSUME NEW d \in Daemons, Start(d) \/ RestartStarts(d) PROVE StopInv'
  BY <1>2 DEF Start, RestartStarts
<1>3. ASSUME NEW d \in Daemons, AcquireLock(d) \/ Bind(d) \/ Chmod(d) PROVE StopInv'
  BY <1>3 DEF AcquireLock, Bind, Chmod
<1>4. ASSUME NEW d \in Daemons, Dial(d) \/ RemoveStale(d) PROVE StopInv'
  BY <1>4 DEF Dial, RemoveStale
<1>5. ASSUME NEW d \in Daemons, OpenJournal(d) \/ AcceptFails(d) \/ CloseJournal(d) PROVE StopInv'
  BY <1>5 DEF OpenJournal, AcceptFails, AcceptEnds, CloseJournal
<1>6. ASSUME NEW d \in Daemons, RemoveSocket(d) \/ FinalClose(d) PROVE StopInv'
  BY <1>6 DEF RemoveSocket, FinalClose
<1>7. ASSUME NEW d \in Daemons, Handler(d) PROVE StopInv'
  BY <1>7 DEF Handler, StopUnlinks, StopCloses
<1>8. ASSUME NEW d \in Daemons, Die(d), UNCHANGED stop PROVE StopInv'
  BY <1>8 DEF Die
<1>9. ASSUME NEW d \in Daemons, pc[d] \in Processes, Signal(d) PROVE StopInv'
  BY <1>8, <1>9 DEF Signal
<1>10. ASSUME NEW d \in Daemons, SignalDaemon(d) \/ Crash(d) PROVE StopInv'
  BY <1>8, <1>9, <1>10 DEF SignalDaemon, Crash
<1>11. CASE RestartAsks
  <2>1. CASE Answers
    <3>1. path \in Daemons /\ pc[path] \in Processes /\ Signal(path)
      BY <1>11, <2>1 DEF RestartAsks, Answers
    <3>2. QED
      BY <3>1, <1>9
  <2>2. CASE ~Answers
    BY <1>11, <2>2 DEF RestartAsks
  <2>3. QED
    BY <2>1, <2>2
<1>12. CASE RestartWaitsGone \/ RestartSees
  BY <1>12 DEF RestartWaitsGone, RestartSees
<1>13. QED
  BY <1>1, <1>2, <1>3, <1>4, <1>5, <1>6, <1>7, <1>10, <1>11, <1>12 DEF StartupNext, Main

LEMMA StopInvAlways == StartupSpec => []StopInv
<1>1. StartupInit => StopInv
  BY DEF StartupInit, StopInv
<1>2. QED
  BY <1>1, StopInvInductive, StartupTypeCorrect, LockInvAlways, PTL DEF StartupSpec

LEMMA RemainingShrinks ==
    ASSUME StartupTypeOK, StopInv, [StartupNext]_vars, NEW d \in Daemons,
           stop[d] # "idle", pc[d] \notin Gone
    PROVE  /\ stop'[d] # "idle"
           /\ \/ pc'[d] = pc[d] /\ stop'[d] = stop[d] /\ ~Main(d) /\ ~Handler(d)
              \/ pc'[d] \in Gone
              \/ Remaining(d)' < Remaining(d)
<1> USE StartupAssumption DEF StartupTypeOK
<1> USE DEF Locked, Running, Leaving, Gone, Processes, Go
<1>1. pc[d] \in {"open", "serving", "closing", "removing", "final"} /\ stop[d] \in {"unlink", "close", "closed"}
  BY DEF StopInv
<1> DEFINE Shrinks == stop'[d] # "idle" /\ (pc'[d] \in Gone \/ Remaining(d)' < Remaining(d))
           Stays == pc'[d] = pc[d] /\ stop'[d] = stop[d]
\* its own steps
<1>2. ASSUME Main(d) PROVE Shrinks
  <2>1. \/ OpenJournal(d) \/ AcceptFails(d) \/ CloseJournal(d) \/ RemoveSocket(d) \/ FinalClose(d)
    BY <1>1, <1>2 DEF Main, AcquireLock, Bind, Chmod, Dial, RemoveStale
  <2>2. stop' = stop
    BY <2>1 DEF OpenJournal, AcceptFails, CloseJournal, RemoveSocket, FinalClose
  <2>3. \/ pc[d] = "open" /\ pc'[d] \in {"serving", "removing"}
        \/ pc[d] = "serving" /\ pc'[d] = "closing"
        \/ pc[d] = "closing" /\ pc'[d] = "removing"
        \/ pc[d] = "removing" /\ pc'[d] = "final"
        \/ pc[d] = "final" /\ pc'[d] = "returned"
    BY <2>1 DEF OpenJournal, AcceptFails, CloseJournal, RemoveSocket, FinalClose
  <2>4. QED
    BY <1>1, <2>2, <2>3 DEF Remaining
<1>3. ASSUME Handler(d) PROVE Shrinks
  <2>1. pc' = pc /\ ((stop[d] = "unlink" /\ stop'[d] = "close") \/ (stop[d] = "close" /\ stop'[d] = "closed"))
    BY <1>3 DEF Handler, StopUnlinks, StopCloses
  <2>2. QED
    BY <1>1, <2>1 DEF Remaining
\* what is done to it
<1>4. ASSUME NEW e \in Daemons, Die(e), UNCHANGED stop
      PROVE  Stays \/ (stop'[d] # "idle" /\ pc'[d] \in Gone)
  BY <1>1, <1>4 DEF Die
<1>5. ASSUME NEW e \in Daemons, Signal(e)
      PROVE  Stays \/ (stop'[d] # "idle" /\ pc'[d] \in Gone)
  BY <1>1, <1>4, <1>5 DEF Signal
<1>6. ASSUME NEW e \in Daemons, SignalDaemon(e) \/ Crash(e)
      PROVE  Stays \/ (stop'[d] # "idle" /\ pc'[d] \in Gone)
  BY <1>4, <1>5, <1>6 DEF SignalDaemon, Crash
<1>7. CASE RestartAsks
  <2>1. CASE Answers
    <3>1. path \in Daemons /\ Signal(path)
      BY <1>7, <2>1 DEF RestartAsks, Answers
    <3>2. Stays \/ (stop'[d] # "idle" /\ pc'[d] \in Gone)
      BY <3>1, <1>5
    <3>3. QED
      BY <1>1, <1>2, <1>3, <3>2
  <2>2. CASE ~Answers
    BY <1>1, <1>2, <1>3, <1>7, <2>2 DEF RestartAsks
  <2>3. QED
    BY <2>1, <2>2
<1>8. ASSUME NEW e \in Daemons, e # d, Main(e) \/ Handler(e) \/ Start(e) \/ RestartStarts(e) PROVE Stays
  BY <1>8 DEF Main, Handler, AcquireLock, Bind, Chmod, Dial, RemoveStale, OpenJournal, AcceptFails,
     CloseJournal, RemoveSocket, FinalClose, StopUnlinks, StopCloses, Start, RestartStarts
<1>9. ~Start(d) /\ ~RestartStarts(d)
  BY <1>1 DEF Start, RestartStarts
<1>10. CASE RestartWaitsGone \/ RestartSees \/ UNCHANGED vars
  <2>1. Stays
    BY <1>10 DEF RestartWaitsGone, RestartSees, vars
  <2>2. QED
    BY <1>1, <1>2, <1>3, <2>1
<1>11. QED
  <2>1. ASSUME NEW e \in Daemons, \/ Start(e) \/ Main(e) \/ Handler(e) \/ SignalDaemon(e) \/ Crash(e)
                                  \/ RestartStarts(e)
        PROVE  Stays \/ Shrinks
    BY <1>2, <1>3, <1>6, <1>8, <1>9, <2>1
  <2>2. QED
    BY <1>1, <1>2, <1>3, <1>7, <1>10, <2>1 DEF StartupNext

\* A daemon that was asked to stop never turns back and is never stuck in its
\* own shutdown: at most seven steps of its own lead to its end (daemon.go,
\* RunWithStop and its deferred calls).
THEOREM TheStopGoesOn == StartupSpec => StopGoesOn
<1> DEFINE Goes == \A d \in Daemons : stop[d] # "idle" /\ pc[d] \notin Gone =>
                      /\ stop'[d] # "idle"
                      /\ Main(d) \/ Handler(d) \/ pc'[d] # pc[d] \/ stop'[d] # stop[d]
                           => pc'[d] \in Gone \/ Remaining(d)' < Remaining(d)
<1>1. StartupTypeOK /\ StopInv /\ [StartupNext]_vars => [Goes]_vars
  BY RemainingShrinks
<1>2. QED
  BY <1>1, StartupTypeCorrect, StopInvAlways, PTL DEF StartupSpec, StopGoesOn
=============================================================================
