# Holdcall in TLA+

Holdcall sits between an MCP client and an MCP server. `holdcall serve` (the relay) passes every
JSON-RPC frame through, except that each `tools/call` waits for a decision of `holdcall daemon`,
which consults its rules and budgets, possibly holds the call for a human, writes the decision into
a hash-chained journal, and only then answers. These modules model that program; the configurations
check them with TLC; the `_proofs` modules prove the most important statements for every value of the
constants.

## Inventory

| part | code | state it keeps | operations | what is hard |
|---|---|---|---|---|
| relay: pump and reporter | `internal/shim/shim.go` | sequence number, pending ids, the reporter's queue, its one connection | `decide`, `ask`, `offer`, `exchange`, `awaitApproval`, `noteResponse`, `drop`, `finish` | two goroutines and a bounded queue; deadlines that race answers; a connection that is never reopened |
| relay: start-up | `shim.go` `Run`, `fetchConnector`, `dialOrStart` | what was spawned, with which credential | ask for the connector, retry, spawn | a slow daemon is not an absent one |
| relay: pairing | `shim.go`, `internal/mcp` | requests in flight by id, the negotiated version | classify, pair, refuse in the client's dialect | ids may repeat; responses may never come |
| daemon: connection | `internal/daemon/daemon.go` `handle`, `answer`, `apply` | the sessions a connection opened | session.start/end, call.request/arguments/outcome | record before answer; cleanup of a connection that broke |
| approval registry | `approval.go` | held calls, memory only | `hold`, `arm`, `settle`, `timeOut`, `rejectSession`, `approval.decide` | human, timer and session end race |
| daemon: listener | `daemon.go` `RunWithStop`, `listen`, `lock_*.go` | flock, socket file, signal handler | start, stop, take over a dead socket | two daemons; removal of a successor's socket |
| rules | `internal/journal/rules.go`, `daemon/policy.go` | `nim_rules` | add, remove, match, decide | precedence and ties |
| budgets | `journal/budgets.go`, `daemon/budgets.go` | `nim_budgets` | add, remove, match, count | count and entry are two transactions |
| journal | `internal/journal/journal.go`, `canonical.go` | entries, head, seed | append, adopt the seed, schema rebuild | one transaction for table, entry and head |
| verification and reads | `verify.go`, `reads.go` | none | verify, loss, entries since a cursor | reading while the daemon writes |
| connectors and credentials | `request.go`, `lock_target.go`, `internal/credential` | metadata in SQLite, the secret in the OS store | set, remove, get, purpose binding | two stores, no common transaction |
| session registry | `daemon.go` `sessionRegistry` | the live session ids | claim, release | two connections claim one id |
| agents | `agent.go`, `derive.go`, `validate.go` | enrolled programs | add, remove, derive | an image replaced on disk |
| peer identity | `internal/peer` | none | is the caller this binary | one API per operating system |
| read model, console, command line | `internal/readmodel`, `internal/console`, `cmd/holdcall` | a cursor | queries | following a journal that grows |
| client configuration | `internal/clientconfig` | the client's file and its backup | rewrite, apply, undo | a crash between backup and write |

The relay and the daemon exchange messages over one unix-socket connection per relay. Operators use
connections of their own. The daemon is the only writer of the journal; readers open the same file.
Inside the daemon, connections and timers share the approval registry under mutexes; inside the relay,
the pump and the reporter share a channel.

What makes each part correct: the *gate* forwards only what is recorded as let through, refuses with
the recorded reason and never leaves its client waiting; the *registry* settles each held call exactly
once; the *listener* keeps one daemon reachable; *policy* picks one rule whatever the order of the
table, and the safer on a tie; the *journal* changes tables, entries and head together and notices
tampering; *connectors* never send a secret to a command it was not stored for; the *follower* neither
skips nor repeats; *client configuration* can always be undone.

## Modules

| module | models |
|---|---|
| `Gate` | the promise: one decision per call goes on record and never changes; a call travels only after a granting decision is on record; refusing is always possible |
| `CallGate` | relay, socket, connection goroutine, approval registry, operators, timers, crashes: everything that happens to one `tools/call` |
| `Startup` | the flock, `listen`, the journal handle, the signal goroutine, the deferred calls of several daemons, and `holdcall daemon restart` |
| `Journal` | the hash chain: append, seed, `Verify`, `EntriesSince`, and what may happen to the files |
| `Precedence` | `MatchingRules`, `outranks`, `Decide`, `RuleFor` as operators |
| `Evidence` | what the entries of a journal say by themselves: what was in force after the first k of them, what that says of a call, and whether one more entry is justified; extends `Precedence` |
| `LawfulLedger` | the promise of the journal to its reader: it grows an entry at a time, each justified by those before it; extends `Evidence` |
| `Policy` | rules, budgets, agents, sessions and decisions over one database; extends `Evidence` and implements `LawfulLedger` |
| `Connectors` | `credential.get` and the `connector.*` requests over the secret store and the metadata, with the mutex per target |
| `RelayStart` | one relay from its first dial to its end: what it asks, what it spawns, how it stops; extends and composes `Connectors` |
| `Pairing` | the two pumps of a running relay over the fields they share: calls by id, handshakes, outcomes, refusals |
| `ClientConfig` | `holdcall init` and `--undo`: one configuration file, its backups, several runs and the client itself |
| `CallGate_proofs`, `Startup_proofs`, `Journal_proofs`, `Policy_proofs`, `Connectors_proofs`, `RelayStart_proofs`, `Pairing_proofs`, `ClientConfig_proofs` | the theorems about each |
| `CallGateMC`, `StartupMC`, `JournalMC`, `PolicyMC`, `RelayStartMC`, `PairingMC`, `ClientConfigMC` | the instances TLC checks |

`CallGate` composes relay, socket, daemon and registry, with entries reduced to what they say of one
call. `Journal` opens up the append that `CallGate` and `Policy` take as one step, and `Policy` opens up
the rule and budget lookups that `CallGate` leaves to chance. `Pairing` opens up what `CallGate` takes
for granted of a frame: that it is a call, that its response is its own. `RelayStart` is what happens
before the first call and after the last one, against the daemon of `Connectors`. `Connectors` has no
run of its own: `spawn` checks it together with a relay, and `RelayImplementsConnectors` proves that
what holds of the handlers alone holds there.

### CallGate: state and code

`request`, `outcome`, `started`, `ended` are what the journal's entries say. `call`, `seq`, `returned`
are the pump's side of the relay (`Shim`), `queue`, `closed`, `rep`, `link` its reporter, `c2d` and
`d2c` the two directions of the socket. `handler[s]` is where the daemon's goroutine for connection `s`
stands between two sections that hold a lock, `owned` its `open` map, `hold[c]` a `pendingCall`,
`human[h]` what an `approval.decide` handler looked up before it settles. `daemon` is up, signalled or
down.

Each action is one uninterrupted stretch of one goroutine, and is named for it: `AskDaemon` is
`decide` up to the channel send, `ReporterSends` / `ReporterReadsFinal` / `ReporterReadsPending` /
`ReporterOutOfStep` / `ReporterGivesUp` are `exchange` and `awaitApproval` cut at the socket,
`HandleRequest` - `CheckBudgets` - `RecordDecision` - `Reply` are `answer` cut where other goroutines
can get in, `RecordSettled` and `TellSettled` the two halves of `settle` after `resolved` is set.
What a step leaves out: message text, digests, timestamps, canonical encoding. A rule lookup returns
any of `RuleEffects`. A deadline may pass at any moment, which covers every speed of every party.

### Startup: state and code

`pc[d]` is where the main goroutine of daemon `d` stands in `RunWithStop` and `listen`; the goroutine
that waits for SIGTERM (`Signal`, `Handler`, `StopUnlinks`, `StopCloses`) runs beside it. The socket is
two things: a listener a daemon has bound, and the path, which names one listener, a dead file or
nothing. `net.Listen` on a taken path fails, `os.Remove` removes whatever is at the path, closing a
listener unlinks the path and then closes, in two steps, and a process that dies leaves its file. The
deferred calls run in Go's order: journal, path, listener. `Restart*` are the steps of
`runDaemonRestart`. Linux and macOS; on Windows `acquireStartupLock` does nothing and is not modelled.

### Journal: state and code

A hash is the sequence of what was hashed, so distinct inputs have distinct hashes: the only thing
assumed of SHA-256. `tx[w]` is the open transaction of a goroutine, between reading the head and the
commit; `LockFree` is `j.mu`. `StartDaemon`, `CreateMachineID` and `AdoptSeed` are the steps of
`RunWithStop` that touch the seed, and the process may end between any two. `custody` is what a careful
operator knows: a head noted elsewhere, and what another program did to the file. An identifier put
back is always the one that was lost; restoring another one is the operator's mistake, and Verify then
says so. `Rewrite` recomputes the chain: without a noted head nothing in the file can show it, as
`docs/journal-format.md` states, so no property claims it.

### Precedence and Policy: state and code

`db` is what SQLite has committed: `nim_rules`, `nim_budgets`, `nim_agents`, and the entries. A request
has the shape of the entry it leaves. `conn[c]` is the goroutine of one connection, cut wherever it gives
up or waits for a lock: the lookup of an agent (`AgentIsEnrolled` in the request handlers), the reads of a decision (`ReadRules`,
`CheckBudgets`), `BEGIN IMMEDIATE` and its checks (`Begin`), `appendTx` and the commit (`Commit`). `Fail`
is any statement of the transaction that fails. `live` is `sessionRegistry.live`. A connection has one
session at a time, as the relay does, although the code's map would take more. Calls that an `ask` rule
holds leave this model: `CallGate` has them, and the count of approved calls with them.

`LawfulLedger` forgets tables, connections and transactions and keeps the entries (`log <- db.log`). `Lawful`
says when an entry may follow: a scope is taken by one rule or budget until it is removed, an executable
by one agent; a removal names what was in force; an agent named by a rule, budget or session was enrolled at some time; a
session starts once, ends once and is told of only in between; and a decision is the verdict at some two
moments since its session started. `ImplementsLedger` says that the code writes nothing else.

### Connectors: state and code

A registration names everything an operator enters in one `connector.set`; `meta[t]` and `secret[t]`
hold the registration the half in SQLite and the half in the credential store belong to, so that halves
of different registrations can be told apart. `conn[c]` is the goroutine of one connection: the
purpose its first request fixed (`kind`, and `bound` for the target of `credential.get`), and where its
handler is between two calls to a store. `holder[t]` is the mutex of `targetLocks`. One action per
handler step: `LooksUp`, `Fetches` (`handleCredentialGet`), `StoresSecret`, `StoresMeta`, `Undoes`
(`handleConnectorSet`), `DeletesSecret`, `DropsMeta` (`handleConnectorRemove`); each may succeed or
fail. `Exits` is the daemon's end, which waits for no handler. The ghost `suspect` collects the targets
of which the code knowingly leaves one half behind: the daemon ended between the two writes of a set,
its undo failed, or a daemon that found no credential store removed the metadata alone.

### RelayStart: state and code

`relay` is where the main goroutine of `Run` stands, from `fetchConnector` (`Dials`, `Redials`,
`HearsDaemon`, `HearsOther`, `GivesUp`) through the choice of a command (`Chooses`) and `cmd.Start`
(`Spawns`) to the two pumps (`pumps`) and `stopDownstream` (`stage`; `StopBegins`, `StopTells`,
`StopKills`, `StopReaps`). `handler` is the signal goroutine beside it: it finishes the session and
stops the connector too, and whoever comes second waits for the first. `child` and `eof` are the
connector's process and its stdin, `recorded` says that `finish` has flushed the session's end. The
client, the connector and the kernel are `Environment`. `told` is what was decoded from the daemon,
`spawned` what `cmd.Start` was given.

### Pairing: state and code

`frames` is what the client has sent, `reading` the frame `pumpRequests` is at and `deciding` what it is
doing with it. `inFlight`, `initializeKey`, `discoverKey`, `proposed` and `protocolVersion` are the
fields of `Shim` by these names, under its one mutex; `responding` is the response `pumpResponses` has
noted and not yet written. A frame is what the relay reads off it: its kind, its id, the version it
proposes. `Asks` registers the call in flight and notices an id used twice, `Notes` pairs a response
with it. `fate`, `answer` and `settled` are ghosts: what became of each frame, what the server really
answered to each, and the version the client takes the session to speak. `calm` marks frames sent while
no handshake was open, the only ones of which a client may expect a particular dialect.

### ClientConfig: state and code

A server entry keeps the binaries it is reached through, outermost first (`via`), so that nesting is
visible. `run[r]` is one process: `Builds` is `BuildResult`, then `CreatesBackup` (an exclusive create
under a time and a suffix), `FillsBackup`, `WritesTemp`, `Renames`, and `Prints` the line that names the
backup. `Restores` is `RestoreBackup` with the name a run printed, `Ends` any error or kill, and
`ClientEdits` the client that writes its own file. A write not finished leaves `Partial`. The ghost
`replaced` collects the contents an init has replaced, unless the client had changed the file after the
run read it (see the disagreements below).

## Runs

Sizes are distinct states.

| run | question | bounds |
|---|---|---|
| `gate_safety` | does what the client is told always agree with the record, does the whole implement `Gate` while every append, deadline, relay and daemon may fail, and with only the relay scheduled fairly does every call get a verdict? (1.2 M) | one relay, two calls, queue of two, budget of one call, one operator, one daemon exit, rules that allow or ask |
| `gate_hold_live` | do two operators, the timer and the end of the session settle a held call once, is an approval always of arguments the daemon had, and is every held call settled or lost with the daemon, relay or no relay? | two operators, one call, all three effects, arguments over the line bound, one daemon exit |
| `gate_long_arguments` | finding: arguments over the line bound end as "a human rejected" | one call, no failures |
| `startup` | is a live socket ever taken and a dead one always, is the daemon that serves the one that answers, does every start and stop end? (41 k) | two daemons and a restart command, with and without a dead socket file at the start |
| `startup_restart` | finding: a restart that reported success may leave the new daemon without its socket | nobody crashes |
| `journal` | is a journal nobody touched ever called altered, is an alteration ever missed, does a follower see every entry once? (524 k) | two goroutines, two bodies, four entries, two identifiers, pages of two |
| `policy` | do tables and journal agree, is a session one story, can the journal explain every decision, and is every entry justified by those before it (`LawfulLedger`)? (940 k, connections interchangeable) | two connections, nine requests, one session id, four entries begun |
| `spawn` | does a relay run what one answer said while operators change it and daemon and stores fail, do the two stores agree, does every start and stop end? | three connections (one is the relay's), one target, two registrations and one stored before commands existed; the daemon may end and start again |
| `spawn_slow` | finding: a daemon slower than the relay's deadline is taken for one without the connector | the relay alone, the daemon stays |
| `relay_stop` | finding: a client that closes stdin does not end a relay whose connector ignores it | the relay alone, the daemon stays |
| `pairing` | is what is recorded of a call its own answer, is a refusal in the negotiated dialect, does anything a server might run a tool for pass undecided? | three frames, two ids (interchangeable), three versions, typed results since the second |
| `client_config` | is the file always whole, is what was replaced in a backup, does undo restore, does nothing nest? (788 k) | three runs (interchangeable), two installed binaries, two servers of which one has no valid name, two clock readings, one edit by the client |

Why the bounds are enough. Two calls of one session are what it takes for an answer to reach the wrong
call and for a budget of one to be exceeded; a queue of two is the smallest that holds a report behind
a question and is full at a third; one daemon exit reaches every state a restart can find, and the
relay never reconnects. Sessions share no state except the journal and the registry, both keyed by
session, so one session is enough; the proofs cover any number. Whatever settles a call meets
everything else that may in `gate_hold_live`; a second call adds only what `gate_safety` has.

Two daemons reach every overlap of one that leaves and one that comes; a third only waits on the same
lock. Four entries and pages of two let a page end before, at and after the head, and a seed be lost
and created again needs only two identifiers. In `policy` rules of all three effects are there, two of
them equally specific, a budget of one call, and two names for one executable; with four entries a rule
can be added, removed and added again around a decision, and the fourth entry may overlap a fifth.

In `spawn` two operators and the relay are enough to have a set, a remove and a get of one target at
every pair of steps; targets share nothing. To keep it small, `Daemon` lets operators begin only while
the relay still has its question before it, and `Spawns` waits until their handlers are done: what they
do after the relay has its answer changes nothing the relay reads again, and `Connectors_proofs` covers
them without that bound. In `pairing` three frames are a handshake with a call before and after it, or
three calls on two ids. In `client_config` the third run is what it takes for one run to undo another
while a third rewrites, and one stamp less than runs makes two backups want one name.

`CHECK_DEADLOCK FALSE` in all runs but `journal` and `policy`: sessions, relays and runs of init end, a
daemon stops, and with every bound used up nothing is left to do. Symmetry is used where nothing tells
the values apart and no liveness is checked: connections in `policy`, ids in `pairing`, runs in
`client_config`.

Fairness. `FairDaemonSpec` assumes only that the Go scheduler runs the daemon's goroutines and that an
armed `time.AfterFunc` fires; relays, operators and crashes owe nothing. `FairRelaySpec` assumes only
that the reporter goroutine runs and that its read deadline passes (`SetReadDeadline` in `exchange` and
`awaitApproval`); the daemon owes nothing, not even an answer. `startup` assumes that every goroutine
of a live daemon runs on (weak), and that a daemon waiting for a flock which is free again and again
gets it (strong: the kernel wakes every waiter); crashes, signals and the restart command owe nothing.
`RelayFairness` assumes that the relay's goroutines run, that its deadlines and the two graces of
`stopDownstream` pass, and that a process the kernel has killed ends; nothing of the daemon, its
credential store, the client or a connector that was only asked to end. `journal`, `policy`, `pairing`
and `client_config` check safety and state no fairness.

Every property has a mutant: a plausible bug in a mapped definition, written just before it as
`<Definition>_<Bug>`, under which the same run must fail.

## Proofs

`CallGate_proofs` assumes `ConstantsAssumption` (the bounds are naturals, rules say allow, deny or ask)
and nothing about the number of sessions, calls, operators or exits.

* `TypeCorrect`: `Spec => []TypeOK`. The types of `handler`, `rep` and `hold` are unions by program
  point, so the type invariant already says which decision can be in hand where, and is inductive.
* `RecordIsLeading`: `Spec => []RecordInv`. `ForwardedIsRecorded` is not inductive: it needs that every
  answer on the socket is recorded (`AnswersAreRecorded`), which needs that the goroutine about to
  reply, or the settler about to tell, has made its entry (`ReplyIsRecorded`, `SettledIsRecorded`), and
  that an entry never changes. Outcomes need the same of the reporter's queue
  (`ReportedOutcomeIsGranted`). The proof has one case per action, and one step per part the action can
  disturb; frame lemmas (`AnswersKept`, `RepliesKept`, `SettledKept`, ...) carry the rest.
* `NothingUnrecordedTravels`, `RefusalsAreHonest`, `OutcomesAreOfGrantedCalls` follow.
* `GateIsImplemented`: `Spec => ImplementsGate`, the refinement of `Gate` under `record <- request` and
  `fate` computed from the relay's call states. `UnspentIsUnasked` is what makes a fresh number open.
* `OneQuestionAtATime`: `Spec => []OnceInv`. What travels about a call is in one place only. `LineInv`
  says that numbers rise along the queue and the socket, `UnheardInv` and `UndecidedInv` that what has
  not arrived is neither held nor decided, `OneOutstanding` that past the queue a session has at most
  one question (on the socket, in the goroutine, in the registry or as an answer) and `AwaitInv` that it
  is the one the reporter waits for. From it follow `DecidedOnce` and `NoStrayAnswer`.
* `ApprovalsWereShown` adds the life of a held call: what an operator's handler looked up stays as it
  was until the hold ends (`HoldLife`, `ShownInv`). `HoldsEndWithTheirSession` adds that a goroutine
  which has left its loop has settled what it held (`OrphanInv`). `AllowsKeepToTheBudget` adds that only
  the session's own goroutine records allows, so the count it read is still true when it appends
  (`BudgetInv`, `NobodyElseRecords`).
* `RejectionsAreHuman` assumes `~LongArguments`: that every call's arguments fit the daemon's reader.
  Then a goroutine ends its loop only when its relay has gone or the daemon has, so the rejections of
  the clean-up reach nobody (`EndsInv`, `QuietInv`, `RejectedInv`). `gate_long_arguments` shows that the
  assumption is needed.
* What the two liveness properties rest on, without fairness: nobody waits for nobody.
  `TheQuestionIsInHand` (`AskedInv`): the pump's question is on the reporter's queue or the one the
  reporter waits on. `EveryWaitIsAttended` (`OwedInv`): the reporter's question is on the socket, in the
  daemon's goroutine or in the registry, or its answer is on the way back, or the goroutine is ending the
  connection; its proof needs `OnceInv`, since a question in two places could be dropped in one.
  `EveryHoldIsTimed` (`TimedInv`, `DownInv`): a held call has a timer, armed or fired, or a goroutine
  about to arm one, and a daemon that is down holds nothing. That each of these steps is then taken is
  what fairness adds and TLC checks.

`Startup_proofs` (`StartupAssumption`), for any number of daemons. `LockInv` says that everybody between
`Locked` and `Unlock` holds the flock and is alone there; `OwnerInv`, that a listener which is not closed
and not on its way out is the one at the path. Together they give `LiveSocketsAreSpared`,
`ServingDaemonIsReachable` (until a daemon is asked to stop or fails to open its journal:
`startup_restart` shows why not longer) and `OneRemovalIsEnough`: the loop of `listen` never needs its
third round. `ListenIsNeverInVain` (with `Attempts > 1`; the code has three) adds that a starter gives the
path up only to one that answers and leaves its bind to ask or with a socket that answers, which is the
safety half of `StartFindsOne`. Two measures say that nothing goes round: `TheLockIsBrief`, that the holder of the
flock gives it up within five steps of its own (`Tenure`), and `TheStopGoesOn`, that a daemon asked to
stop is at most seven of its own steps from its end (`Remaining`). The latter needs `StopInv`: the signal
reaches the stopping goroutine only once `listen` is over, and `Accept` fails only after that goroutine
has closed the listener.

`Journal_proofs` (`JournalAssumption`), for any number of goroutines, entries and identifiers, and with
any damage. A hash spells out what it covers, so equal hashes mean equal entries before them
(`HashDetermines`). `UndamagedVerifies` is not inductive: it needs that an open transaction's entry still
continues the chain (`TxInv`), that a seed in hand is the file's last (`SeedInv`) and that an identifier
is created only while the chain is empty (`RootInv`, hence `ServingCanAlwaysRecord`).
`GrowthIsNeverAccused` adds that a noted head stays in the chain (`NotedInv`); `EditsAreNoticed` that the
ghost's broken entry still breaks the chain after every later append (`EditInv`); `FoundHeadsCover` that
a head found again vouches for all before it; `FollowersAreGapless` that a page continues where the last
ended (`FollowerInv`). The inductions over positions go through `Least` and `Counting`, which
rest on the well-foundedness of strict inclusion among finite sets.

`Policy_proofs`, for any number of connections and any set of valid requests. What the tables and the
log agree on (`Sound`) is stated of a view, so that it speaks of what is committed and of what is about
to be; `TxInv` says that whoever holds the write lock carries exactly the change its entry describes,
made from the tables that are still committed. `InForceAppend` and `EnrolledAppend` say what one entry
does to what is in force, `StoredIsSound` that a permitted change and its entry keep the agreement. From
this `TablesAlwaysFollow`, `ScopesAreUnique` and `ImagesAreUnique`. They assume `PolicyAssumption`: the
requests are valid ones, and `None` is none of the names. `StoriesAreWhole` has an invariant of its own
(`StoryInv`): a claimed session id stays in `live` until its connection is done, so no other connection
can start a second story under it. `DecisionsAreSafest` adds that rules keep numbers of their own
(`Numbered`), which makes `Outranks` a total order and the loop's result its greatest rule
(`DecideIsBest`, by `BySubsets`, an induction over the subsets of a finite set).
`DecisionsAreExplained` puts these together: what a goroutine has read is a verdict at moments it has
seen (`ExplainInv`), which no later entry changes (`VerdictsStay`), because the tables it read said what
the journal said then (`Sound`). `LedgerIsKept` is the refinement: `PolicySpec => ImplementsLedger`. Only
`Commit` maps to a step of `LawfulLedger`, everything else stutters; that its entry is `Lawful` takes all of
the above and `BackedInv`, that an agent looked up before a transaction was enrolled at some time, as the
journal has it, and that a decision under way belongs to a session that has started.

`Connectors_proofs` (`ConnectorsAssumption`: the constants are distinct), for any number of connections,
targets and registrations. `HalvesAgree` speaks only of moments when nobody holds the mutex; `StoresInv`
says what holds in between: who is inside holds the target's mutex and is alone (`HolderInv`), and what
a handler inside has read or written is still what the stores have (`HalvesInv`). `ReleasesAreWhole`
follows because `LooksUp` and `Fetches` are under one lock. `TheMutexIsBrief`: whoever holds a mutex is
moved by nobody else but the daemon's end, and gives it up within three steps of its own (`Left`).

`RelayStart_proofs` (adds `RelayStartAssumption`). `RelayImplementsConnectors` shows that every step of
the composition is a step or a stutter of `ConnectorsSpec`, which carries `StoresInv` over. `AnswerInv`
says what an answer may be, `StartInv` that the command in hand is the answer's, `EndInv` that the
session is closed before the handler stops the connector and that the stop is over only when the
connector is gone; `WhatIsFoundIsObeyed` and `NoConnectorIsLeft` follow. `TheRelayGoesOn` gives a relay a
measure (`ToGo`: its place, its pumps, the stages of its stop and its signal handler) which what daemon,
client and connector do leaves alone and every other step lowers, so that a relay is over after at most
sixteen; `TheRelayIsAttended` (`RelayOwedInv`) says that the next one is there to be taken: a relay still
to ask has a fresh connection, a stop is begun by one who waits for it, and what it stops exists.

`Pairing_proofs` (`PairingAssumption`), for any number of frames, ids and versions. `PairInv`: an id in
flight names a forwarded call not yet answered or a later one with the same id, of which a duplicate was
reported; what has not been read is as it was sent (`PumpInv`). `OutcomesAreFinal` adds that what is in
flight has no outcome yet (`UnrecordedInv`), so that an outcome, duplicates or not, is written once.
`DialectsAreNegotiated` adds what the
relay has learnt of the session (`DialectInv`): as long as no two handshakes overlap, the version it
heard last is the one the client takes the session to have. `ClientConfig_proofs`
(`ClientConfigAssumption`, `ContentAssumption`), for any number of runs, edits and failures: `BackupInv`
says that a run past its backup has one of its own, complete, of exactly what it read, and that nobody
writes another's (`Alone`, from the exclusive create).

Model-checked only: liveness (`AskedIsAnswered`, `HeldIsSettled`, `StartIsDecided`, `StartFindsOne`,
`StopIsObeyed`, `StartEnds`, `SignalIsObeyed`), because fairness and ENABLED are outside the prover's
reach. What each rests on is proved (`TheQuestionIsInHand`, `EveryWaitIsAttended`, `EveryHoldIsTimed`,
`TheLockIsBrief`, `ListenIsNeverInVain`, `TheStopGoesOn`, `TheRelayGoesOn`, `TheRelayIsAttended`): that
somebody owes the next step, or that every step brings the end nearer. Every other property of a passing run is a theorem.

## Disagreements between the code and its words

With a run that shows them:

1. `gate_long_arguments`: `reader.go` bounds a line at 1 MiB and calls every message small, but
   `call.arguments` carries the real arguments; a longer one ends the connection and the client is told
   a human rejected the call.
2. `startup_restart`: `holdcall daemon restart` takes a failing dial for the end of the old daemon
   (`main.go:303`), but the dial fails as soon as the signal goroutine closes the listener; the deferred
   `os.Remove` (`daemon.go:189`) comes later and removes the socket its successor has bound.
3. `spawn_slow`: `docs/decisions/0001-failure-behaviour.md` says that a relay whose connector's secret
   is unavailable refuses to spawn; when the daemon has not answered within two seconds, `fetchConnector`
   returns nothing and no error, and the relay spawns its own command line without the credential.
4. `relay_stop`: `shim.go:289` says that the client's end stops the connector, telling it and then
   killing it; `wg.Wait` comes first and waits for the connector's output to close.

Seen while modelling, and not the subject of a run. In the gate:

* `daemon.go:138` promises `pending` first; `answer` registers the call and arms its timer before it
  replies, so a settlement in between answers first, and the late `pending` then makes the relay drop
  its connection at the next call.
* `docs/decisions/0005-human-approval.md:149` says a signal settles held calls; the process ends without
  doing so.
* `daemon.go:573` says no legitimate shim is refused as foreign; one whose `session.start` could not be
  appended is.
* `docs/decisions/0001-failure-behaviour.md:69-70` has the relay reconnect; `drop` is for good.
* A call and a request that is not one may share an id, and no anomaly is reported.

In the daemon: while a signalled daemon leaves, its successor may already write the journal although
`daemon.go:4` promises one writer (so no
property claims it; what keeps their entries apart is SQLite's immediate transaction, the lock the models of
the journal have); a daemon that cannot open the journal removes the path on its way
out, whoever bound it since; `rules.go:281` says that a rule naming agent and connector always beats one
naming only one of them, but a default naming both (specificity 2) loses to an exact tool naming one
(3); and the agent a rule names is looked up before the rule's transaction, so it may be gone when the
rule is stored.

Around connectors: a daemon that ends between the two writes of a set leaves halves of two registrations
(the model's `suspect`); a set over an existing connector whose metadata cannot be written deletes the
old secret too; a daemon without a credential store removes metadata and leaves the secret; an error
while reading the metadata lets the relay start plain; and a signal before `signal.Notify` leaves the
spawned connector behind.

In client configuration: what a client writes between `BuildResult` and `Apply` is overwritten and is in
no backup (`getting-started.md:80` says every change can be undone); a binary not named `holdcall` is not
recognised by `isNimCommand`, so a second init nests (`getting-started.md:77`); a backup left incomplete
by a crash can be given to `--undo`; and an error of `Apply` loses the name of the backup it made.

## Plan

Done: every module of the first plan (`Gate`, `CallGate`, `Startup`, `Precedence`, `Policy`, `Journal`,
`Connectors`, `RelayStart`, `Pairing`, `ClientConfig`), each with its proofs, and `Evidence` and `LawfulLedger`
above `Policy`. Left, in this order:

1. The daemon's summaries over the journal (`Loss`, calls without a session) against what happened.
2. The rebuild of older schemas by a daemon that starts on an old journal.

## Not modelled

* Windows: `acquireStartupLock` does nothing there, and there is no restart command.
* Schema migrations and older encoding versions of the journal; the order of keys in canonical JSON.
* Where client configurations are found (`Discover`), file modes, symbolic links.
* The operating systems' peer and credential APIs: a peer is this binary or not, a store works or not.
* Queries without state: the read model's snapshots, `policy.explain`, every `list`, the console's HTTP.
* Configuration parsing, flags, formatting and printing (`cmd/holdcall`), apart from the conversations
  and the order of steps modelled with `Startup`, `Connectors` and `ClientConfig`.
* The static dashboard, the mirror's SQL schema (nothing under `src/` writes to it), rigs and packaging.
