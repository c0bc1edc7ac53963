-------------------------------- MODULE Journal --------------------------------
(***************************************************************************)
(* The hash chain: internal/journal (Open, Append, Verify, EntriesSince)   *)
(* and the part of the daemon's start that seeds it.                       *)
(*                                                                         *)
(* chain is what SQLite has committed.  A hash is what was hashed, so the  *)
(* hash function is taken to be free of collisions; a body is opaque.      *)
(* Policy says what the bodies mean.                                       *)
(***************************************************************************)
EXTENDS Integers, SequencesExt

CONSTANTS
    Writers,      \* goroutines of the daemon that append
    Bodies,       \* what an entry may say
    None,
    Forged,       \* what somebody else writes into an entry
    Page,         \* entries a follower reads at most
    MaxEntries,   \* bound on the chain
    MaxSeeds      \* bound on install identifiers

ASSUME JournalAssumption ==
    /\ MaxEntries \in Nat /\ MaxSeeds \in Nat /\ Page \in Nat \ {0}
    /\ None \notin Bodies /\ Forged \notin Bodies

NoSeed == 0

VARIABLES
    chain,      \* committed entries, in order of chain_seq
    tx,         \* what each goroutine's open transaction will append, and to which head
    daemon,     \* where the daemon is, and the seed it holds
    file,       \* the machine-id file, and the last identifier it held
    follower,   \* entries a reader of the stream has been given
    custody     \* a head noted elsewhere (the chain it was the head of), and
                \* what was done to the database behind the daemon's back

vars == <<chain, tx, daemon, file, follower, custody>>

JournalInit ==
    /\ chain = <<>>
    /\ tx = [w \in Writers |-> None]
    /\ daemon = [at |-> "down", seed |-> NoSeed]
    /\ file = [seed |-> NoSeed, last |-> NoSeed]
    /\ follower = <<>>
    /\ custody = [noted |-> <<>>, damage |-> "none"]

-----------------------------------------------------------------------------
(***************************************************************************)
(* Hashes and heads.                                                       *)
(***************************************************************************)

Genesis(seed) == <<seed>>
ChainHash(prev, body) == Append(prev, body)

\* appendTx reads the head.
HeadOf(entries, seed) ==
    IF entries = <<>> THEN [n |-> 0, hash |-> Genesis(seed)]
                      ELSE [n |-> Last(entries).n, hash |-> Last(entries).hash]

Entry(head, body) ==
    [n |-> head.n + 1, prev |-> head.hash, body |-> body, hash |-> ChainHash(head.hash, body)]

\* A chain cannot be started without a seed; it can be continued without one.
CanAppend(entries, seed) == entries # <<>> \/ seed # NoSeed

-----------------------------------------------------------------------------
(***************************************************************************)
(* Verify.  Without the seed the first entry's link is taken on trust.     *)
(***************************************************************************)

Expected(entries, seed, i) ==
    IF i > 1 THEN entries[i - 1].hash
    ELSE IF seed # NoSeed THEN Genesis(seed) ELSE entries[i].prev

\* Mutant _LinksOnly: the hash is not recomputed.
GoodEntry_LinksOnly(entries, seed, i) ==
    entries[i].n = i /\ entries[i].prev = Expected(entries, seed, i)
GoodEntry(entries, seed, i) ==
    /\ entries[i].n = i
    /\ entries[i].prev = Expected(entries, seed, i)
    /\ entries[i].hash = ChainHash(entries[i].prev, entries[i].body)

\* The expected head is looked for anywhere in the chain.
\* Mutants: _Ignored does not look; _AtTheEnd only at the last entry.
HeadFound_Ignored(entries, hash) == TRUE
HeadFound_AtTheEnd(entries, hash) == entries # <<>> /\ Last(entries).hash = hash
HeadFound(entries, hash) == \E i \in DOMAIN entries : entries[i].hash = hash

Verify(entries, seed) == \A i \in DOMAIN entries : GoodEntry(entries, seed, i)
VerifyHead(entries, seed, hash) == Verify(entries, seed) /\ HeadFound(entries, hash)

-----------------------------------------------------------------------------
(***************************************************************************)
(* Append: the journal's mutex and BEGIN IMMEDIATE are held from before    *)
(* the head is read until the commit.                                      *)
(***************************************************************************)

LockFree == \A w \in Writers : tx[w] = None

Begin(w) ==
    /\ daemon.at = "up" /\ tx[w] = None
    /\ LockFree
    /\ Len(chain) < MaxEntries
    /\ CanAppend(chain, daemon.seed)
    /\ \E b \in Bodies : tx' = [tx EXCEPT ![w] = Entry(HeadOf(chain, daemon.seed), b)]
    /\ UNCHANGED <<chain, daemon, file, follower, custody>>

Commit(w) ==
    /\ tx[w] # None
    /\ chain' = Append(chain, tx[w])
    /\ tx' = [tx EXCEPT ![w] = None]
    /\ UNCHANGED <<daemon, file, follower, custody>>

\* A statement fails: the deferred Rollback.
Rollback(w) ==
    /\ tx[w] # None
    /\ tx' = [tx EXCEPT ![w] = None]
    /\ UNCHANGED <<chain, daemon, file, follower, custody>>

-----------------------------------------------------------------------------
(***************************************************************************)
(* The daemon's start and its seed, and the machine-id file.               *)
(***************************************************************************)

\* Only an empty journal gets a new identifier.
\* Mutant _Always: a lost one is replaced.
MayCreateSeed_Always == TRUE
MayCreateSeed == chain = <<>>

\* ReadMachineID, Open, Head.
StartDaemon ==
    /\ daemon.at = "down"
    /\ daemon' = [at |-> IF file.seed = NoSeed /\ MayCreateSeed THEN "create" ELSE "up",
                  seed |-> file.seed]
    /\ UNCHANGED <<chain, tx, file, follower, custody>>

CreateMachineID ==
    /\ daemon.at = "create"
    /\ file.last < MaxSeeds
    /\ file' = [seed |-> file.last + 1, last |-> file.last + 1]
    /\ daemon' = [at |-> "adopt", seed |-> NoSeed]
    /\ UNCHANGED <<chain, tx, follower, custody>>

\* Mutant _Forgotten: the new identifier is not given to the open journal.
Adopted_Forgotten == NoSeed
Adopted == file.last

AdoptSeed ==
    /\ daemon.at = "adopt"
    /\ daemon' = [at |-> "up", seed |-> Adopted]
    /\ UNCHANGED <<chain, tx, file, follower, custody>>

\* The process ends at any point; SQLite rolls back what was open.
StopDaemon ==
    /\ daemon.at # "down"
    /\ daemon' = [at |-> "down", seed |-> NoSeed]
    /\ tx' = [w \in Writers |-> None]
    /\ UNCHANGED <<chain, file, follower, custody>>

\* The file disappears, and the operator may put it back.
LoseMachineID ==
    /\ file.seed # NoSeed
    /\ file' = [file EXCEPT !.seed = NoSeed]
    /\ UNCHANGED <<chain, tx, daemon, follower, custody>>

RestoreMachineID ==
    /\ file.seed = NoSeed /\ file.last # NoSeed
    /\ file' = [file EXCEPT !.seed = file.last]
    /\ UNCHANGED <<chain, tx, daemon, follower, custody>>

-----------------------------------------------------------------------------
(***************************************************************************)
(* Readers, and what happens to the database outside the daemon.           *)
(***************************************************************************)

\* Mutant _Inclusive: the entry at the cursor is read again.
After_Inclusive(e, cursor) == e.n >= cursor
After(e, cursor) == e.n > cursor

\* At most Page of them, in the order of the chain.
EntriesSince(entries, cursor) ==
    LET first == SelectInSeq(entries, LAMBDA e : After(e, cursor))
        last  == IF first + Page - 1 < Len(entries) THEN first + Page - 1 ELSE Len(entries)
    IN  IF first = 0 THEN <<>> ELSE SubSeq(entries, first, last)

Follow ==
    /\ LET page == EntriesSince(chain, HeadOf(follower, NoSeed).n)
       IN  page # <<>> /\ follower' = follower \o page
    /\ Len(follower') <= MaxEntries
    /\ UNCHANGED <<chain, tx, daemon, file, custody>>

\* `holdcall status` prints the head and somebody writes it down.
NoteHead ==
    /\ chain # <<>> /\ custody.noted = <<>>
    /\ custody' = [custody EXCEPT !.noted = chain]
    /\ UNCHANGED <<chain, tx, daemon, file, follower>>

Damage(kind) == LockFree /\ custody.damage = "none" /\ custody' = [custody EXCEPT !.damage = kind]

EditEntry ==
    /\ Damage("edit")
    /\ \E i \in DOMAIN chain :
          \/ chain' = [chain EXCEPT ![i].body = Forged]
          \/ i < Len(chain) /\ chain' = RemoveAt(chain, i)
    /\ UNCHANGED <<tx, daemon, file, follower>>

\* A file copied earlier is put back.
PutBack ==
    /\ Damage("rollback")
    /\ \E k \in 1 .. Len(chain) - 1 : chain' = SubSeq(chain, 1, k)
    /\ UNCHANGED <<tx, daemon, file, follower>>

\* An entry is replaced and every hash after it recomputed: journal-format.md
\* says the chain alone cannot show this.
Rewrite ==
    /\ Damage("rewrite")
    /\ \E i \in DOMAIN chain :
          LET new == [k \in DOMAIN chain |-> IF k = i THEN Forged ELSE chain[k].body]
              hash(k) == chain[1].prev \o SubSeq(new, 1, k)
          IN  chain' = [k \in DOMAIN chain |->
                           [n |-> chain[k].n, prev |-> hash(k - 1), body |-> new[k], hash |-> hash(k)]]
    /\ UNCHANGED <<tx, daemon, file, follower>>

-----------------------------------------------------------------------------
JournalNext ==
    \/ \E w \in Writers : Begin(w) \/ Commit(w) \/ Rollback(w)
    \/ StartDaemon \/ CreateMachineID \/ AdoptSeed \/ StopDaemon
    \/ LoseMachineID \/ RestoreMachineID
    \/ Follow \/ NoteHead \/ EditEntry \/ PutBack \/ Rewrite

JournalSpec == JournalInit /\ [][JournalNext]_vars

-----------------------------------------------------------------------------
(***************************************************************************)
(* Properties.                                                             *)
(***************************************************************************)

Hashes == Seq(Bodies \cup {Forged} \cup (0 .. MaxSeeds))
Entries == [n : Nat, prev : Hashes, body : Bodies \cup {Forged}, hash : Hashes]

\* The types of the variables.
JournalTypeOK ==
    /\ chain \in Seq(Entries) /\ follower \in Seq(Entries)
    /\ tx \in [Writers -> Entries \cup {None}]
    /\ daemon \in [at : {"down", "create", "adopt", "up"}, seed : 0 .. MaxSeeds]
    /\ file \in [seed : 0 .. MaxSeeds, last : 0 .. MaxSeeds]
    /\ custody \in [noted : Seq(Entries), damage : {"none", "edit", "rollback", "rewrite"}]

\* No journal that nobody touched is ever called altered: neither with the
\* identifier it was seeded with nor without it, whatever crashed, was rolled
\* back or got lost, and however appends interleaved (Verify, appendTx, the
\* seeding in RunWithStop).
UndamagedVerifies ==
    custody.damage = "none" => \A seed \in {NoSeed, file.seed} : Verify(chain, seed)

\* An entry altered or removed in place is noticed for good, however the chain
\* grows afterwards and with or without the identifier (Verify).
EditIsNoticed ==
    custody.damage = "edit" => \A seed \in {NoSeed, file.seed} : ~Verify(chain, seed)

\* When Verify finds a head noted earlier, everything up to it is what it was
\* then, whatever was done in between (Verify's expectHead).
HeadCovers ==
    custody.noted # <<>> /\ VerifyHead(chain, file.seed, Last(custody.noted).hash)
        => IsPrefix(custody.noted, chain)

\* A journal that merely grew since its head was noted is not accused
\* (Verify's expectHead).
GrowthIsNoAccusation ==
    custody.noted # <<>> /\ custody.damage = "none"
        => VerifyHead(chain, file.seed, Last(custody.noted).hash)

\* A daemon that serves can always record: it never lacks a seed for an empty
\* journal (the start-up in RunWithStop against appendTx's refusal).
ServingCanRecord ==
    daemon.at = "up" => CanAppend(chain, daemon.seed)

\* What a follower has been given is the beginning of the journal: nothing
\* skipped, nothing twice, while the daemon appends, stops and starts
\* (EntriesSince).
FollowerIsGapless ==
    custody.damage = "none" => IsPrefix(follower, chain)
=============================================================================
