--------------------------- MODULE RelayStart_proofs ---------------------------
(***************************************************************************)
(* What a relay spawns is what its daemon answered, what it spawned it     *)
(* stops, and it always goes on to its end, for any number of connectors,  *)
(* operators and registrations.                                            *)
(***************************************************************************)
EXTENDS RelayStart, Connectors_proofs

-----------------------------------------------------------------------------
(***************************************************************************)
(* A relay is one more client of the daemon.                               *)
(***************************************************************************)

LEMMA RelayStepsAreConnectorsSteps ==
    ASSUME [RelayNext]_allVars
    PROVE  [ConnectorsNext]_vars
<1> USE RelayStartAssumption, ConnectorsAssumption
<1>1. CASE Request(Relay, "get", Target, None)
  BY <1>1 DEF ConnectorsNext, Ops
<1>2. CASE Daemon
  <2>1. ASSUME NEW c \in Conns, NEW op \in Ops, NEW t \in Targets \cup {None},
               NEW r \in Regs \cup {None}, Request(c, op, t, r)
        PROVE  ConnectorsNext
    BY <2>1 DEF ConnectorsNext
  <2>2. ASSUME NEW c \in Conns, TakesAnswer(c) \/ Closes(c) \/ Handles(c) PROVE ConnectorsNext
    BY <2>2 DEF ConnectorsNext
  <2>3. ASSUME NEW l \in {"ours", "other"}, Starts(l) PROVE ConnectorsNext
    BY <2>3 DEF ConnectorsNext
  <2>4. CASE Exits
    BY <2>4 DEF ConnectorsNext
  <2>5. QED
    BY <1>2, <2>1, <2>2, <2>3, <2>4 DEF Daemon
<1>3. CASE UNCHANGED vars
  BY <1>3
<1>4. CASE FetchConnector
  BY <1>1, <1>3, <1>4 DEF FetchConnector, Dials, Redials, Asks, HearsDaemon, HearsOther, GivesUp
<1>5. CASE \/ Chooses \/ Spawns \/ Relays
           \/ \E p \in pumps : PumpReadsEnd(p) \/ PumpCannotWrite(p)
           \/ Joins \/ Environment
  BY <1>3, <1>5 DEF Chooses, Spawns, Relays, PumpReadsEnd, PumpCannotWrite, PumpEnds, Joins,
     Environment, ClientCloses, Signalled, Killed, Ends, ChildEnds
<1>6. CASE Stop \/ HandlerFinishes \/ HandlerExits \/ MainExits
  BY <1>3, <1>6 DEF Stop, StopBegins, StopTells, StopKills, StopReaps, StopGoes,
     HandlerFinishes, HandlerExits, MainExits, Ends
<1>7. QED
  BY <1>2, <1>3, <1>4, <1>5, <1>6 DEF RelayNext, allVars

\* Whatever a relay does at its start and its end is, for the daemon and its two
\* stores, a step of a client: what holds of them holds with relays.
THEOREM RelayImplementsConnectors == RelaySpec => ConnectorsSpec
<1>1. RelayInit => ConnectorsInit
  BY DEF RelayInit
<1>2. QED
  BY <1>1, RelayStepsAreConnectorsSteps, PTL DEF RelaySpec, ConnectorsSpec

-----------------------------------------------------------------------------
(***************************************************************************)
(* What the daemon may answer.                                             *)
(***************************************************************************)

\* A credential without an error comes with its command; an answer without a
\* connector is empty.
Meant(a) == IF a.found THEN a.failed \/ a.command \in Regs
                       ELSE a.command = None /\ a.env = None

AnswerInv == \A c \in Conns : Meant(answer[c])

LEMMA RepliesAreMeant ==
    /\ Meant(Done) /\ Meant(Failed) /\ Meant(Withheld)
    /\ \A r \in Regs : \A s : Meant(Release(r, s))
BY DEF Meant, Done, Failed, Withheld, Release, Reply

LEMMA AnswerInvInductive ==
    ASSUME StoresInv, AnswerInv, [ConnectorsNext]_vars
    PROVE  AnswerInv' /\ verifies' = verifies
<1> USE RepliesAreMeant
<1>1. ASSUME NEW c \in Conns, NEW a, Return(c, a), Meant(a) PROVE AnswerInv'
  BY <1>1 DEF Return, AnswerInv, StoresInv, TypeInv, ConnectorsTypeOK
<1>2. ASSUME UNCHANGED answer PROVE AnswerInv'
  BY <1>2 DEF AnswerInv
<1>3. ASSUME NEW c \in Conns, NEW op \in Ops, NEW t \in Targets \cup {None},
             NEW r \in Regs \cup {None}, Request(c, op, t, r)
      PROVE  AnswerInv' /\ verifies' = verifies
  BY <1>3 DEF Request, ListAnswers, AnswerInv, StoresInv, TypeInv, ConnectorsTypeOK
<1>4. ASSUME NEW c \in Conns, Fetches(c) PROVE AnswerInv' /\ verifies' = verifies
  <2>1. conn[c].info \in Regs
    BY <1>4 DEF Fetches, StoresInv, TypeInv, HandlerInv, HandlerOK
  <2>2. QED
    BY <1>1, <1>4, <2>1 DEF Fetches
<1>5. ASSUME NEW c \in Conns,
             \/ Lock(c) \/ LooksUp(c) \/ StoresSecret(c) \/ StoresMeta(c) \/ Undoes(c)
             \/ DeletesSecret(c) \/ DropsMeta(c)
      PROVE  AnswerInv' /\ verifies' = verifies
  <2>1. \/ UNCHANGED answer
        \/ Return(c, Done) \/ Return(c, Failed) \/ Return(c, Withheld)
    BY <1>5 DEF Lock, LooksUp, StoresSecret, StoresMeta, Undoes, DeletesSecret, DropsMeta, Proceed
  <2>2. verifies' = verifies
    BY <1>5 DEF Lock, LooksUp, StoresSecret, StoresMeta, Undoes, DeletesSecret, DropsMeta
  <2>3. QED
    BY <1>1, <1>2, <2>1, <2>2
<1>6. ASSUME NEW c \in Conns, TakesAnswer(c) \/ Closes(c)
      PROVE  AnswerInv' /\ verifies' = verifies
  BY <1>6 DEF TakesAnswer, Closes, AnswerInv, StoresInv, TypeInv, ConnectorsTypeOK
<1>7. CASE Exits \/ (\E l \in {"ours", "other"} : Starts(l)) \/ UNCHANGED vars
  BY <1>2, <1>7 DEF Exits, Starts, vars, AnswerInv
<1>8. QED
  BY <1>3, <1>4, <1>5, <1>6, <1>7 DEF ConnectorsNext, Handles

-----------------------------------------------------------------------------
(***************************************************************************)
(* What is spawned.                                                        *)
(***************************************************************************)

\* what fetchConnector lets through
Obeyable == IF told.found THEN verifies /\ ~told.failed /\ told.command # None
                          ELSE told.command = None /\ told.env = None

\* what the connector is started with, as the answer has it
Obeyed == IF told.found
          THEN /\ verifies /\ ~told.failed
               /\ spawned = [command |-> told.command, env |-> told.env]
          ELSE spawned = [command |-> Own, env |-> None]

StartInv ==
    /\ relay \in Starting \cup {"start"} => child = "none"
    /\ relay \in Starting \ {"command"} => told = Done
    /\ relay = "command" => Obeyable
    /\ relay = "start" \/ child # "none" => Obeyed

\* What holds of the relay's ending: its session is closed before the handler
\* stops the connector, and the stop is over when the connector is gone.
EndInv ==
    /\ handler = "stop" => recorded
    /\ stage = "reaped" => child = "gone"
    /\ ConnectorIsStopped

RelayInv == StoresInv /\ AnswerInv /\ StartInv /\ EndInv

LEMMA StartInvInductive ==
    ASSUME RelayInv, RelayNext, verifies' = verifies
    PROVE  StartInv'
<1> USE DEF RelayInv, StartInv, Starting, Serving
<1>0. Obeyable /\ relay = "command" => (told.found => told.command # None)
  BY DEF Obeyable
<1>1. ASSUME NEW a, Meant(a), Takes(a), relay \in {"answer", "foreign"} PROVE StartInv'
  <2>1. relay' = "command" => Obeyable'
    BY <1>1, ConnectorsAssumption DEF Takes, Meant, Obeyable
  <2>2. relay' \in {"command", "exited"} /\ child' = "none"
    BY <1>1 DEF Takes, Stays
  <2>3. QED
    BY <2>1, <2>2
<1>2. CASE Dials \/ Redials \/ GivesUp
  <2>1. told' = told /\ child' = child /\ child = "none" /\ told = Done
        /\ relay' \in {"waiting", "answer", "foreign", "exited", "command"}
    BY <1>2 DEF Dials, Redials, Asks, GivesUp, Stays
  <2>2. relay' = "command" => Obeyable'
    BY <2>1 DEF Obeyable, Done, Reply
  <2>3. QED
    BY <2>1, <2>2
<1>3. CASE HearsDaemon
  BY <1>1, <1>3, RelayStartAssumption DEF HearsDaemon, AnswerInv
<1>4. CASE HearsOther
  BY <1>1, <1>4, RepliesAreMeant DEF HearsOther
<1>5. CASE Chooses
  <2>1. relay = "command" /\ Obeyable /\ child' = "none" /\ told' = told
        /\ relay' \in {"start", "exited"}
    BY <1>5 DEF Chooses
  <2>2. PICK command \in IF told.command # None THEN {told.command} ELSE {Own, None} :
          /\ spawned' = [command |-> command, env |-> told.env]
          /\ relay' = IF command = None THEN "exited" ELSE "start"
    BY <1>5 DEF Chooses
  <2>3. relay' = "start" => Obeyed'
    BY <2>1, <2>2 DEF Obeyable, Obeyed
  <2>4. QED
    BY <2>1, <2>3
<1>6. CASE Spawns
  BY <1>6 DEF Spawns, Obeyed
<1>7. ASSUME UNCHANGED <<told, spawned>>, relay' = relay \/ relay' \notin Starting \cup {"start"},
             child' = child \/ (child # "none" /\ child' = "gone")
      PROVE  StartInv'
  <2>1. Obeyed' = Obeyed /\ Obeyable' = Obeyable
    BY <1>7 DEF Obeyed, Obeyable
  <2>2. QED
    BY <1>7, <2>1
<1>8. CASE \/ Relays \/ Joins
           \/ \E p \in pumps : PumpReadsEnd(p) \/ PumpCannotWrite(p)
  BY <1>7, <1>8 DEF Relays, PumpReadsEnd, PumpCannotWrite, PumpEnds, Joins, Stays
<1>9. CASE Stop \/ HandlerFinishes \/ HandlerExits \/ MainExits
  BY <1>7, <1>9 DEF Stop, StopBegins, StopTells, StopKills, StopReaps, StopGoes,
     HandlerFinishes, HandlerExits, MainExits, Ends
<1>10. CASE Daemon \/ Environment
  BY <1>7, <1>10 DEF Daemon, relayVars, Environment, ClientCloses, Signalled, Killed, Ends, ChildEnds
<1>11. QED
  BY <1>2, <1>3, <1>4, <1>5, <1>6, <1>8, <1>9, <1>10 DEF RelayNext, FetchConnector

LEMMA EndInvInductive ==
    ASSUME RelayInv, RelayNext
    PROVE  EndInv'
<1> USE DEF RelayInv, EndInv, ConnectorIsStopped, StartInv, Starting, Serving
<1>1. CASE FetchConnector \/ Chooses
  BY <1>1 DEF FetchConnector, Dials, Redials, Asks, HearsDaemon, HearsOther, GivesUp, Takes, Stays,
     Chooses
<1>2. CASE Spawns \/ Relays \/ Joins
  BY <1>2 DEF Spawns, Relays, Joins, Stays
<1>3. CASE \E p \in pumps : PumpReadsEnd(p) \/ PumpCannotWrite(p)
  BY <1>3 DEF PumpReadsEnd, PumpCannotWrite, PumpEnds
<1>4. CASE Stop
  BY <1>4 DEF Stop, StopBegins, StopTells, StopKills, StopReaps, StopGoes
<1>5. CASE HandlerFinishes \/ HandlerExits \/ MainExits
  BY <1>5 DEF HandlerFinishes, HandlerExits, MainExits, Ends
<1>6. CASE Daemon
  BY <1>6 DEF Daemon, relayVars
<1>7. CASE Environment
  BY <1>7 DEF Environment, ClientCloses, Signalled, Killed, Ends, ChildEnds
<1>8. QED
  BY <1>1, <1>2, <1>3, <1>4, <1>5, <1>6, <1>7 DEF RelayNext

LEMMA RelayInvAlways == RelaySpec => []RelayInv
<1>1. RelayInit => AnswerInv /\ StartInv /\ EndInv
  BY RepliesAreMeant
  DEF RelayInit, ConnectorsInit, AnswerInv, StartInv, EndInv, ConnectorIsStopped, Starting
<1>2. ASSUME RelayInv, StoresInv', [RelayNext]_allVars PROVE RelayInv'
  <2>1. [ConnectorsNext]_vars
    BY <1>2, RelayStepsAreConnectorsSteps
  <2>2. AnswerInv' /\ verifies' = verifies
    BY <1>2, <2>1, AnswerInvInductive DEF RelayInv
  <2>3. CASE UNCHANGED allVars
    BY <1>2, <2>2, <2>3
    DEF allVars, relayVars, RelayInv, StartInv, EndInv, ConnectorIsStopped, Obeyed, Obeyable
  <2>4. QED
    BY <1>2, <2>2, <2>3, StartInvInductive, EndInvInductive DEF RelayInv
<1>3. RelaySpec => []StoresInv
  BY RelayImplementsConnectors, StoresInvAlways, PTL
<1>4. QED
  BY <1>1, <1>2, <1>3, PTL DEF RelaySpec, RelayInv

\* A connector runs with the command and the credential of one answer, or with
\* the caller's own command and none; a credential that is withheld, or offered
\* by a daemon nobody verified, starts nothing.
THEOREM WhatIsFoundIsObeyed == RelaySpec => []FoundIsObeyed
<1>1. RelayInv => FoundIsObeyed
  BY DEF RelayInv, StartInv, Obeyed, FoundIsObeyed
<1>2. QED
  BY <1>1, RelayInvAlways, PTL

\* However a signal, the pumps and the connector race, a relay that was not
\* killed leaves no connector behind and no session open.
THEOREM NoConnectorIsLeft == RelaySpec => []ConnectorIsStopped
<1>1. RelayInv => ConnectorIsStopped
  BY DEF RelayInv, EndInv
<1>2. QED
  BY <1>1, RelayInvAlways, PTL

-----------------------------------------------------------------------------
(***************************************************************************)
(* The relay's own progress.                                               *)
(***************************************************************************)

LEMMA ToldIsResponse ==
    ASSUME RelayTypeOK, FetchConnector
    PROVE  told' \in Response
<1> USE ConnectorsAssumption, RelayStartAssumption DEF RelayTypeOK, ConnectorsTypeOK
<1>1. {Done, Withheld} \cup {Release(r, r) : r \in Regs} \subseteq Response
  BY RepliesAreResponses DEF Registered
<1>2. CASE HearsOther
  BY <1>1, <1>2 DEF HearsOther, Takes
<1>3. CASE HearsDaemon
  BY <1>3 DEF HearsDaemon, Takes
<1>4. CASE Dials \/ Redials \/ GivesUp
  BY <1>4 DEF Dials, Redials, GivesUp
<1>5. QED
  BY <1>2, <1>3, <1>4 DEF FetchConnector

LEMMA RelayTypeInductive ==
    ASSUME RelayTypeOK, ConnectorsTypeOK', [RelayNext]_allVars
    PROVE  RelayTypeOK'
<1> USE DEF RelayTypeOK, Starting, Serving
<1>1. CASE FetchConnector
  <2>1. relay' \in Starting \cup {"exited"} /\ Stays
    BY <1>1 DEF FetchConnector, Dials, Redials, Asks, HearsDaemon, HearsOther, GivesUp, Takes
  <2>2. QED
    BY <1>1, <2>1, ToldIsResponse DEF Stays
<1>2. CASE Chooses
  <2>1. PICK command \in IF told.command # None THEN {told.command} ELSE {Own, None} :
          /\ spawned' = [command |-> command, env |-> told.env]
          /\ relay' = IF command = None THEN "exited" ELSE "start"
    BY <1>2 DEF Chooses
  <2>2. told.command \in Regs \cup {None} /\ told.env \in Registered \cup {None}
    BY DEF Response
  <2>3. spawned' \in [command : Regs \cup {Own, None}, env : Registered \cup {None}]
    BY <2>1, <2>2
  <2>4. QED
    BY <1>2, <2>1, <2>3 DEF Chooses
<1>3. CASE Spawns \/ Relays \/ Joins
  BY <1>3 DEF Spawns, Relays, Joins, Stays
<1>4. CASE \E p \in pumps : PumpReadsEnd(p) \/ PumpCannotWrite(p)
  BY <1>4 DEF PumpReadsEnd, PumpCannotWrite, PumpEnds
<1>5. CASE Stop
  BY <1>5 DEF Stop, StopBegins, StopTells, StopKills, StopReaps, StopGoes
<1>6. CASE HandlerFinishes \/ HandlerExits \/ MainExits
  BY <1>6 DEF HandlerFinishes, HandlerExits, MainExits, Ends
<1>7. CASE Daemon \/ UNCHANGED allVars
  BY <1>7 DEF Daemon, relayVars, allVars
<1>8. CASE Environment
  BY <1>8 DEF Environment, ClientCloses, Signalled, Killed, Ends, ChildEnds
<1>9. QED
  BY <1>1, <1>2, <1>3, <1>4, <1>5, <1>6, <1>7, <1>8 DEF RelayNext

\* Every variable of the relay keeps its type.
THEOREM RelayTypeCorrect == RelaySpec => []RelayTypeOK
<1>1. RelaySpec => []ConnectorsTypeOK
  BY RelayImplementsConnectors, ConnectorsTypeCorrect, PTL DEF TypeInv
<1>2. RelayInit => RelayTypeOK
  <2>1. ConnectorsInit => ConnectorsTypeOK
    BY ConnectorsAssumption, RepliesAreResponses
    DEF ConnectorsInit, ConnectorsTypeOK, Fresh, RequestState
  <2>2. Done \in Response
    BY RepliesAreResponses
  <2>3. spawned = [command |-> None, env |-> None] =>
          spawned \in [command : Regs \cup {Own, None}, env : Registered \cup {None}]
    OBVIOUS
  <2>4. QED
    BY <2>1, <2>2, <2>3 DEF RelayInit, RelayTypeOK, Starting, Serving
<1>3. QED
  BY <1>1, <1>2, RelayTypeInductive, PTL DEF RelaySpec

\* What is still before a relay: its main goroutine's way from the dial to the
\* exit, the pumps, the stages of stopDownstream and the signal handler.
Place == CASE relay = "dial"                  -> 10
           [] relay = "waiting"               -> 9
           [] relay \in {"answer", "foreign"} -> 8
           [] relay = "command"               -> 7
           [] relay = "start"                 -> 6
           [] relay = "started"               -> 5
           [] relay = "relaying"              -> 2
           [] relay = "stopping"              -> 1
           [] OTHER                           -> 0

Pumping == (IF "requests" \in pumps THEN 1 ELSE 0) + (IF "responses" \in pumps THEN 1 ELSE 0)

Stages == CASE stage = "off" -> 4 [] stage = "wait" -> 3 [] stage = "told" -> 2
            [] stage = "killed" -> 1 [] OTHER -> 0

Signals == CASE handler = "waiting" -> 2 [] handler = "finish" -> 1 [] OTHER -> 0

ToGo == Place + Pumping + Stages + Signals

\* What the daemon, the client and the connector do leaves the relay where it
\* is; everything else, the relay's own steps and the signals it gets, brings
\* its end nearer.
RelayGoesOn ==
    [][\/ (Daemon \/ ClientCloses \/ ChildEnds) /\ ToGo' = ToGo
       \/ ToGo' < ToGo]_allVars

LEMMA PartsAreNumbers ==
    /\ Place \in 0..10 /\ Pumping \in 0..2 /\ Stages \in 0..4 /\ Signals \in 0..2
BY DEF Place, Pumping, Stages, Signals

LEMMA PartsMove ==
    ASSUME RelayTypeOK, RelayTypeOK', RelayNext
    PROVE  \/ (Daemon \/ ClientCloses \/ ChildEnds) /\ ToGo' = ToGo
           \/ ToGo' < ToGo
<1> USE PartsAreNumbers DEF RelayTypeOK, Starting, Serving
<1>1. Place' \in 0..10 /\ Pumping' \in 0..2 /\ Stages' \in 0..4 /\ Signals' \in 0..2
  BY DEF Place, Pumping, Stages, Signals
\* a step of one part
<1>2. ASSUME UNCHANGED <<pumps, stage, handler>>, Place' < Place PROVE ToGo' < ToGo
  BY <1>1, <1>2 DEF ToGo, Pumping, Stages, Signals
<1>3. ASSUME UNCHANGED <<relay, stage, handler>>, Pumping' < Pumping PROVE ToGo' < ToGo
  BY <1>1, <1>3 DEF ToGo, Place, Stages, Signals
<1>4. ASSUME UNCHANGED <<relay, pumps, handler>>, Stages' < Stages PROVE ToGo' < ToGo
  BY <1>1, <1>4 DEF ToGo, Place, Pumping, Signals
<1>5. ASSUME UNCHANGED <<relay, pumps, stage>>, Signals' < Signals PROVE ToGo' < ToGo
  BY <1>1, <1>5 DEF ToGo, Place, Pumping, Stages
<1>6. ASSUME UNCHANGED <<relay, pumps, stage, handler>> PROVE ToGo' = ToGo
  BY <1>6 DEF ToGo, Place, Pumping, Stages, Signals
<1>7. CASE FetchConnector
  <2>1. /\ UNCHANGED <<pumps, stage, handler>>
        /\ \/ relay = "dial" /\ relay' \in {"answer", "foreign", "exited", "waiting", "command"}
           \/ relay = "waiting" /\ relay' \in {"answer", "foreign", "exited", "command"}
           \/ relay \in {"answer", "foreign"} /\ relay' \in {"exited", "command"}
    BY <1>7 DEF FetchConnector, Dials, Redials, Asks, HearsDaemon, HearsOther, GivesUp, Takes, Stays
  <2>2. QED
    BY <1>2, <2>1 DEF Place
<1>8. CASE Chooses \/ Spawns
  <2>1. /\ UNCHANGED <<pumps, stage, handler>>
        /\ \/ relay = "command" /\ relay' \in {"exited", "start"}
           \/ relay = "start" /\ relay' \in {"started", "exited"}
    BY <1>8 DEF Chooses, Spawns
  <2>2. QED
    BY <1>2, <2>1 DEF Place
<1>9. CASE Relays
  <2>1. Place = 5 /\ Place' = 2 /\ UNCHANGED <<stage, handler>>
    BY <1>9 DEF Relays, Place
  <2>2. Stages' = Stages /\ Signals' = Signals
    BY <2>1 DEF Stages, Signals
  <2>3. \A p, q \in 0..2, s \in 0..4, h \in 0..2 : 2 + q + s + h < 5 + p + s + h
    OBVIOUS
  <2> HIDE DEF RelayTypeOK
  <2>4. ToGo' < ToGo
    BY <1>1, <2>1, <2>2, <2>3 DEF ToGo
  <2>5. QED
    BY <2>4
<1>10. CASE \E p \in pumps : PumpReadsEnd(p) \/ PumpCannotWrite(p)
  <2>1. PICK p \in pumps : PumpEnds(p)
    BY <1>10 DEF PumpReadsEnd, PumpCannotWrite
  <2>2. Pumping' < Pumping
    BY <2>1 DEF PumpEnds, Pumping
  <2>3. QED
    BY <1>3, <2>1, <2>2 DEF PumpEnds
<1>11. CASE Joins
  BY <1>2, <1>11 DEF Joins, Stays, Place
<1>12. CASE Stop
  <2>1. /\ UNCHANGED <<relay, pumps, handler>>
        /\ \/ stage = "off" /\ stage' = "wait"
           \/ stage = "wait" /\ stage' \in {"told", "reaped"}
           \/ stage = "told" /\ stage' \in {"killed", "reaped"}
           \/ stage = "killed" /\ stage' = "reaped"
    BY <1>12 DEF Stop, StopBegins, StopTells, StopKills, StopReaps, StopGoes
  <2>2. QED
    BY <1>4, <2>1 DEF Stages
<1>13. CASE HandlerFinishes \/ Signalled
  BY <1>5, <1>13 DEF HandlerFinishes, Signalled, Signals
<1>14. CASE HandlerExits \/ MainExits \/ Killed
  <2>1. relay' = "exited" /\ relay # "exited" /\ UNCHANGED <<pumps, stage, handler>>
    BY <1>14 DEF HandlerExits, MainExits, Killed, Ends
  <2>2. Place' < Place
    BY <2>1 DEF Place
  <2>3. QED
    BY <1>2, <2>1, <2>2
<1>15. CASE Daemon \/ ClientCloses \/ ChildEnds
  <2>1. UNCHANGED <<relay, pumps, stage, handler>>
    BY <1>15 DEF Daemon, relayVars, ClientCloses, ChildEnds
  <2>2. QED
    BY <1>6, <1>15, <2>1
<1>16. QED
  BY <1>7, <1>8, <1>9, <1>10, <1>11, <1>12, <1>13, <1>14, <1>15 DEF RelayNext, Environment

\* A relay never turns back and never goes round: from its dial to its end it
\* takes at most sixteen steps, whatever the daemon, the client and the connector do
\* in between (Run, fetchConnector, stopDownstream).
THEOREM TheRelayGoesOn == RelaySpec => RelayGoesOn
<1> DEFINE Goes == \/ (Daemon \/ ClientCloses \/ ChildEnds) /\ ToGo' = ToGo
                   \/ ToGo' < ToGo
<1>1. RelayTypeOK /\ RelayTypeOK' /\ [RelayNext]_allVars => [Goes]_allVars
  BY PartsMove
<1>2. QED
  BY <1>1, RelayTypeCorrect, PTL DEF RelaySpec, RelayGoesOn

-----------------------------------------------------------------------------
\* Somebody can always take the next step: a relay that has not asked has
\* nothing on its connection that would keep it from asking, a stop is begun by
\* one who waits for it, and what is to be stopped, or killed, is there.
RelayOwedInv ==
    /\ relay \in {"dial", "waiting"} => conn[Relay] = Fresh
    /\ relay \notin Serving \cup {"exited"} => handler = "waiting" /\ pumps = {}
    /\ relay \in {"started"} \cup Serving => child # "none"
    /\ relay = "stopping" => pumps = {}
    /\ stage # "off" => child # "none" /\ (handler = "stop" \/ relay \in {"stopping", "exited"})

LEMMA FreshKeeps ==
    ASSUME RelayTypeOK, RelayOwedInv, Daemon, relay \in {"dial", "waiting"}
    PROVE  conn'[Relay] = Fresh
<1> USE RelayStartAssumption DEF RelayTypeOK, ConnectorsTypeOK
<1>1. conn[Relay] = Fresh /\ conn[Relay].pc = "idle"
  BY DEF RelayOwedInv, Fresh
<1>2. ASSUME NEW c \in Conns, NEW op \in Ops, NEW t \in Targets \cup {None},
             NEW r \in Regs \cup {None}, c # Relay, Request(c, op, t, r)
      PROVE  conn'[Relay] = conn[Relay]
  BY <1>2 DEF Request
<1>3. ASSUME NEW c \in Conns, c # Relay, TakesAnswer(c) PROVE conn'[Relay] = conn[Relay]
  BY <1>3 DEF TakesAnswer
<1>4. ASSUME NEW c \in Conns, Closes(c) PROVE conn'[Relay] \in {conn[Relay], Fresh}
  BY <1>4 DEF Closes
<1>5. ASSUME NEW c \in Conns, Handles(c) PROVE conn'[Relay] = conn[Relay]
  <2>1. c # Relay
    BY <1>1, <1>5 DEF Handles, Lock, LooksUp, Fetches, StoresSecret, StoresMeta, Undoes,
       DeletesSecret, DropsMeta
  <2>2. QED
    BY <1>5, <2>1 DEF Handles, Lock, LooksUp, Fetches, StoresSecret, StoresMeta, Undoes,
       DeletesSecret, DropsMeta, Return, Proceed
<1>6. CASE Exits \/ \E l \in {"ours", "other"} : Starts(l)
  BY <1>1, <1>6 DEF Exits, Starts
<1>7. QED
  BY <1>1, <1>2, <1>3, <1>4, <1>5, <1>6 DEF Daemon

LEMMA RelayOwedInductive ==
    ASSUME RelayTypeOK, RelayInv, RelayOwedInv, [RelayNext]_allVars
    PROVE  RelayOwedInv'
<1> USE DEF RelayOwedInv, Starting, Serving
<1>1. CASE FetchConnector
  <2>1. \/ relay' \notin {"dial", "waiting"}
        \/ relay = "dial" /\ UNCHANGED vars
    BY <1>1 DEF FetchConnector, Dials, Redials, Asks, HearsDaemon, HearsOther, GivesUp, Takes
  <2>2. relay \in Starting /\ relay' \in Starting \cup {"exited"} /\ Stays
    BY <1>1 DEF FetchConnector, Dials, Redials, Asks, HearsDaemon, HearsOther, GivesUp, Takes
  <2>3. QED
    BY <2>1, <2>2 DEF Stays, vars
<1>2. CASE Chooses \/ Spawns
  BY <1>2 DEF Chooses, Spawns
<1>3. CASE Relays \/ Joins
  BY <1>3 DEF Relays, Joins, Stays
<1>4. CASE \E p \in pumps : PumpReadsEnd(p) \/ PumpCannotWrite(p)
  BY <1>4 DEF PumpReadsEnd, PumpCannotWrite, PumpEnds
<1>5. CASE Stop
  BY <1>5 DEF Stop, StopBegins, StopTells, StopKills, StopReaps, StopGoes
<1>6. CASE HandlerFinishes \/ HandlerExits \/ MainExits
  BY <1>6 DEF HandlerFinishes, HandlerExits, MainExits, Ends
<1>7. CASE Daemon
  <2>1. UNCHANGED relayVars
    BY <1>7 DEF Daemon
  <2>2. QED
    BY <1>7, <2>1, FreshKeeps DEF relayVars
<1>8. CASE Environment
  BY <1>8 DEF Environment, ClientCloses, Signalled, Killed, Ends, ChildEnds, vars
<1>9. CASE UNCHANGED allVars
  BY <1>9 DEF allVars, vars, relayVars
<1>10. QED
  BY <1>1, <1>2, <1>3, <1>4, <1>5, <1>6, <1>7, <1>8, <1>9 DEF RelayNext

\* However its signal, its pumps and its stop race, a relay is never left with
\* nobody to go on: StartEnds and SignalIsObeyed rest on it.
THEOREM TheRelayIsAttended == RelaySpec => []RelayOwedInv
<1>1. RelayInit => RelayOwedInv
  BY RelayStartAssumption DEF RelayInit, ConnectorsInit, RelayOwedInv, Serving
<1>2. QED
  BY <1>1, RelayOwedInductive, RelayTypeCorrect, RelayInvAlways, PTL DEF RelaySpec
=============================================================================
