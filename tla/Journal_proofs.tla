---------------------------- MODULE Journal_proofs ----------------------------
(***************************************************************************)
(* Journal for every number of goroutines, every length of the chain and   *)
(* every number of identifiers: a journal nobody touched always verifies,  *)
(* whatever crashed, rolled back or got lost; an edit never stops showing; *)
(* a head that is found again covers what it covered when it was noted.    *)
(***************************************************************************)
EXTENDS Journal, FiniteSetTheorems, TLAPS

Undamaged == custody.damage = "none"

\* What is known of custody whatever was done to the database.
CustodyInv == custody = [noted |-> custody.noted, damage |-> custody.damage]

\* The identifiers: what the daemon holds is what the file held last, and one
\* is replaced only while the chain is empty.
SeedInv ==
    /\ file \in [seed : 0 .. MaxSeeds, last : 0 .. MaxSeeds]
    /\ daemon \in [at : {"down", "create", "adopt", "up"}, seed : 0 .. MaxSeeds]
    /\ file.seed \in {NoSeed, file.last} /\ daemon.seed \in {NoSeed, file.last}
    /\ daemon.at = "up" => CanAppend(chain, daemon.seed)
    /\ daemon.at \in {"create", "adopt"} => chain = <<>>
    /\ daemon.at = "adopt" => file.last # NoSeed

\* A chain starts from the last identifier there was, also when somebody
\* changed it behind that.
RootInv ==
    /\ chain \in Seq(Entries)
    /\ chain # <<>> => file.last # NoSeed
    /\ chain # <<>> /\ chain[1].n = 1 => chain[1].prev = Genesis(file.last)

\* At most one transaction is open, and what it will append continues the chain.
TxInv ==
    /\ tx \in [Writers -> Entries \cup {None}]
    /\ \A w \in Writers : tx[w] # None =>
          /\ daemon.at = "up"
          /\ \A v \in Writers \ {w} : tx[v] = None
          /\ \E b \in Bodies : tx[w] = Entry(HeadOf(chain, daemon.seed), b)

\* The chain is good entry by entry with the identifier it was started from,
\* and no entry says what only somebody else would write.
ChainInv ==
    /\ Verify(chain, file.last)
    /\ \A i \in DOMAIN chain : chain[i].body \in Bodies

\* An edited chain has an entry out of its place, or with a hash of other words.
EditInv ==
    custody.damage = "edit" => \E i \in DOMAIN chain :
        chain[i].n # i \/ chain[i].hash # ChainHash(chain[i].prev, chain[i].body)

\* A noted head is the head of a part of the chain, or of a chain that was good.
NotedInv ==
    /\ custody.noted \in Seq(Entries)
    /\ custody.noted # <<>> =>
          /\ chain # <<>>
          /\ \/ IsPrefix(custody.noted, chain)
             \/ ~Undamaged /\ Verify(custody.noted, file.last)

FollowerInv ==
    /\ follower \in Seq(Entries)
    /\ Undamaged => IsPrefix(follower, chain)

JournalInv ==
    /\ CustodyInv /\ SeedInv /\ RootInv /\ TxInv /\ EditInv /\ NotedInv
    /\ Undamaged => ChainInv

-----------------------------------------------------------------------------
(***************************************************************************)
(* Counting, from the well-foundedness of strict inclusion.                *)
(***************************************************************************)

\* A nonempty set of numbers up to N has a least element.
LEMMA Least ==
    ASSUME NEW N \in Nat, NEW T, T \subseteq 0 .. N, T # {}
    PROVE  \E x \in T : \A y \in T : x <= y
<1> DEFINE S == 0 .. N
           R == StrictSubsetOrdering(S)
           W == {0 .. x : x \in T}
<1>1. IsWellFoundedOn(R, SUBSET S)
  <2>1. IsFiniteSet(S)
    BY FS_Interval
  <2>2. FiniteSubsetsOf(S) = SUBSET S
    BY <2>1, FS_FiniteSubsetsOfFinite
  <2> HIDE DEF S
  <2> QED
    BY <2>2, FS_StrictSubsetOrderingWellFounded
<1>2. W \subseteq SUBSET S /\ W # {}
  <2>1. \A x \in T : x \in Nat /\ x <= N /\ 0 .. x \subseteq 0 .. N
    OBVIOUS
  <2> HIDE DEF S
  <2> QED
    BY <2>1 DEF S
<1>3. PICK w \in W : \A v \in W : ~(<<v, w>> \in R)
  <2> HIDE DEF R, W, S
  <2> QED
    BY <1>1, <1>2, WFMin
<1>4. PICK x \in T : w = 0 .. x
  OBVIOUS
<1>5. ASSUME NEW y \in T, y < x PROVE FALSE
  <2>1. 0 .. y \subseteq 0 .. x /\ x \in 0 .. x /\ x \notin 0 .. y
    BY <1>5
  <2>2. <<0 .. y, 0 .. x>> \in R
    BY <2>1, <1>2 DEF StrictSubsetOrdering
  <2> QED
    BY <1>3, <1>4, <2>2
<1> QED
  BY <1>5

\* What holds of 0 and of the successor of what it holds of, holds of every
\* number.
LEMMA Counting ==
    ASSUME NEW S, 0 \in S, \A n \in Nat : n \in S => n + 1 \in S
    PROVE  Nat \subseteq S
<1>1. SUFFICES ASSUME NEW m \in Nat, m \notin S PROVE FALSE
  OBVIOUS
<1>2. PICK x \in (0 .. m) \ S : \A y \in (0 .. m) \ S : x <= y
  <2>1. (0 .. m) \ S # {} /\ (0 .. m) \ S \subseteq 0 .. m
    BY <1>1
  <2> QED
    BY <2>1, Least
<1>3. x # 0 /\ x \in Nat
  BY <1>2
<1>4. x - 1 \in 0 .. m /\ x - 1 < x /\ (x - 1) + 1 = x
  BY <1>3
<1> QED
  BY <1>2, <1>4

\* A prefix, entry by entry.
LEMMA PrefixMeans ==
    ASSUME NEW s \in Seq(Entries), NEW t \in Seq(Entries)
    PROVE  IsPrefix(s, t) <=> Len(s) <= Len(t) /\ \A i \in 1 .. Len(s) : s[i] = t[i]
<1> DEFINE m == Len(s)
           a == SubSeq(s, 1, m)
           b == SubSeq(t, 1, m)
<1>1. m \in Nat /\ Len(t) \in Nat
  OBVIOUS
<1>2. ASSUME m <= Len(t) PROVE a = b <=> \A i \in 1 .. m : s[i] = t[i]
  <2>1. a \in Seq(Entries) /\ Len(a) = m /\ \A i \in 1 .. m : a[i] = s[i]
    OBVIOUS
  <2>2. b \in Seq(Entries) /\ Len(b) = m /\ \A i \in 1 .. m : b[i] = t[i]
    BY <1>2
  <2> HIDE DEF a, b, m
  <2> QED
    BY <2>1, <2>2
<1> QED
  BY <1>1, <1>2 DEF IsPrefix

\* One more entry leaves a prefix one.
LEMMA PrefixAppend ==
    ASSUME NEW s \in Seq(Entries), NEW t \in Seq(Entries), NEW e \in Entries, IsPrefix(s, t)
    PROVE  IsPrefix(s, Append(t, e))
<1> DEFINE more == Append(t, e)
<1>1. more \in Seq(Entries) /\ Len(more) = Len(t) + 1 /\ \A i \in 1 .. Len(t) : more[i] = t[i]
  OBVIOUS
<1>2. Len(s) <= Len(t) /\ \A i \in 1 .. Len(s) : s[i] = t[i]
  BY PrefixMeans
<1> HIDE DEF more
<1>3. IsPrefix(s, more)
  BY <1>1, <1>2, PrefixMeans
<1> QED
  BY <1>3 DEF more

-----------------------------------------------------------------------------
(***************************************************************************)
(* What a hash says.                                                       *)
(***************************************************************************)

\* In a chain that verifies, an entry's hash spells as many words as came
\* before it.
LEMMA HashCounts ==
    ASSUME NEW entries \in Seq(Entries), NEW seed,
           Verify(entries, seed), entries # <<>> => Len(entries[1].prev) = 1
    PROVE  \A i \in DOMAIN entries : Len(entries[i].hash) = i + 1
<1> DEFINE S == {k \in Nat : k + 1 \in DOMAIN entries => Len(entries[k + 1].hash) = k + 2}
<1>1. ASSUME NEW i \in DOMAIN entries
      PROVE  /\ entries[i].prev \in Hashes /\ entries[i].hash = Append(entries[i].prev, entries[i].body)
             /\ Len(entries[i].hash) = Len(entries[i].prev) + 1
             /\ i > 1 => i - 1 \in DOMAIN entries /\ entries[i].prev = entries[i - 1].hash
  <2>1. entries[i].prev \in Hashes /\ entries[i].body \in Bodies \cup {Forged}
    <3>1. entries[i] \in Entries
      OBVIOUS
    <3> QED
      BY <3>1 DEF Entries
  <2>2. entries[i].hash = Append(entries[i].prev, entries[i].body)
        /\ entries[i].prev = Expected(entries, seed, i)
    BY DEF Verify, GoodEntry, ChainHash
  <2>3. Len(Append(entries[i].prev, entries[i].body)) = Len(entries[i].prev) + 1
    BY <2>1 DEF Hashes
  <2> QED
    BY <2>1, <2>2, <2>3 DEF Expected
<1>2. 0 \in S
  <2>1. ASSUME 1 \in DOMAIN entries PROVE Len(entries[1].hash) = 2
    <3>1. entries # <<>> /\ Len(entries[1].prev) = 1
      BY <2>1
    <3>2. Len(entries[1].hash) = Len(entries[1].prev) + 1
      BY <1>1, <2>1
    <3> QED
      BY <3>1, <3>2
  <2> QED
    BY <2>1
<1>3. ASSUME NEW k \in Nat, k \in S PROVE k + 1 \in S
  <2>1. ASSUME k + 2 \in DOMAIN entries PROVE Len(entries[k + 2].hash) = k + 3
    <3>1. k + 1 \in DOMAIN entries /\ entries[k + 2].prev = entries[k + 1].hash
      BY <1>1, <2>1
    <3>2. Len(entries[k + 1].hash) = k + 2
      BY <1>3, <3>1
    <3> QED
      BY <1>1, <2>1, <3>1, <3>2
  <2> QED
    BY <2>1
<1>4. Nat \subseteq S
  <2> HIDE DEF S
  <2> QED
    BY <1>2, <1>3, Counting
<1>5. ASSUME NEW i \in DOMAIN entries PROVE Len(entries[i].hash) = i + 1
  <2>1. i - 1 \in Nat /\ (i - 1) + 1 = i
    OBVIOUS
  <2>2. i - 1 \in S
    BY <1>4, <2>1
  <2> QED
    BY <2>1, <2>2
<1> QED
  BY <1>5

\* What was appended, and to what, can be read off.
LEMMA AppendIsInjective ==
    ASSUME NEW T, NEW p \in Seq(T), NEW q \in Seq(T), NEW x \in T, NEW y \in T,
           Append(p, x) = Append(q, y)
    PROVE  p = q /\ x = y
<1>1. Len(p) = Len(q)
  <2>1. Len(Append(p, x)) = Len(p) + 1 /\ Len(Append(q, y)) = Len(q) + 1
        /\ Len(p) \in Nat /\ Len(q) \in Nat
    OBVIOUS
  <2> QED
    BY <2>1
<1>2. x = y
  <2>1. Append(p, x)[Len(p) + 1] = x /\ Append(q, y)[Len(q) + 1] = y
    OBVIOUS
  <2> QED
    BY <1>1, <2>1
<1>3. \A j \in 1 .. Len(p) : p[j] = q[j]
  <2>1. \A j \in 1 .. Len(p) : Append(p, x)[j] = p[j]
    OBVIOUS
  <2>2. \A j \in 1 .. Len(q) : Append(q, y)[j] = q[j]
    OBVIOUS
  <2> QED
    BY <1>1, <2>1, <2>2
<1> QED
  BY <1>1, <1>2, <1>3

\* Two chains that verify and have one hash at one place agree up to it.
LEMMA HashDetermines ==
    ASSUME NEW a \in Seq(Entries), NEW b \in Seq(Entries), NEW s, NEW t,
           Verify(a, s), Verify(b, t),
           NEW m \in DOMAIN a, m \in DOMAIN b, a[m].hash = b[m].hash
    PROVE  \A i \in 1 .. m : a[i] = b[i]
<1> DEFINE Same(k) == k + 1 \in DOMAIN a /\ k + 1 \in DOMAIN b /\ a[k + 1].hash = b[k + 1].hash
           S == {k \in Nat : Same(k) => \A i \in 1 .. k + 1 : a[i] = b[i]}
<1>1. ASSUME NEW i \in DOMAIN a, i \in DOMAIN b, a[i].hash = b[i].hash
      PROVE  a[i] = b[i] /\ (i > 1 => i - 1 \in DOMAIN a /\ i - 1 \in DOMAIN b
                                      /\ a[i - 1].hash = b[i - 1].hash)
  <2>1. a[i] \in Entries /\ b[i] \in Entries
    BY <1>1
  <2>2. /\ a[i].n = i /\ a[i].hash = Append(a[i].prev, a[i].body)
        /\ a[i].prev = Expected(a, s, i)
        /\ b[i].n = i /\ b[i].hash = Append(b[i].prev, b[i].body)
        /\ b[i].prev = Expected(b, t, i)
    BY <1>1 DEF Verify, GoodEntry, ChainHash
  <2> DEFINE Words == Bodies \cup {Forged} \cup (0 .. MaxSeeds)
  <2>3. a[i].prev \in Seq(Words) /\ b[i].prev \in Seq(Words)
        /\ Append(a[i].prev, a[i].body) = Append(b[i].prev, b[i].body)
    BY <1>1, <2>1, <2>2 DEF Entries, Hashes
  <2>4. a[i].body \in Words /\ b[i].body \in Words
    BY <2>1 DEF Entries
  <2>5. a[i].prev = b[i].prev /\ a[i].body = b[i].body
    <3> HIDE DEF Words
    <3>1. \A p, q \in Seq(Words) : \A x, y \in Words :
             Append(p, x) = Append(q, y) => p = q /\ x = y
      BY AppendIsInjective
    <3>2. ASSUME NEW p \in Seq(Words), NEW q \in Seq(Words), NEW x \in Words, NEW y \in Words,
                 p = a[i].prev, q = b[i].prev, x = a[i].body, y = b[i].body
          PROVE  p = q /\ x = y
      <4>1. Append(p, x) = Append(q, y)
        BY <2>3, <3>2
      <4> QED
        BY <3>1, <4>1
    <3> QED
      BY <2>3, <2>4, <3>2, Zenon
  <2>6. a[i] = [n |-> a[i].n, prev |-> a[i].prev, body |-> a[i].body, hash |-> a[i].hash]
        /\ b[i] = [n |-> b[i].n, prev |-> b[i].prev, body |-> b[i].body, hash |-> b[i].hash]
    BY <2>1 DEF Entries
  <2>7. a[i] = b[i]
    BY <1>1, <2>2, <2>5, <2>6
  <2> QED
    BY <1>1, <2>2, <2>5, <2>7 DEF Expected
<1>2. 0 \in S
  <2>1. Same(0) => a[1] = b[1]
    BY <1>1
  <2> HIDE DEF Same
  <2> QED
    BY <2>1
<1>3. ASSUME NEW k \in Nat, k \in S PROVE k + 1 \in S
  <2>1. ASSUME Same(k + 1) PROVE \A i \in 1 .. k + 2 : a[i] = b[i]
    <3>1. a[k + 2] = b[k + 2] /\ Same(k)
      BY <1>1, <2>1
    <3>2. \A i \in 1 .. k + 1 : a[i] = b[i]
      BY <1>3, <3>1
    <3> QED
      BY <3>1, <3>2
  <2>2. (k + 1) + 1 = k + 2 /\ k + 1 \in Nat
    OBVIOUS
  <2> HIDE DEF Same
  <2> QED
    BY <2>1, <2>2
<1>4. m - 1 \in S /\ (m - 1) + 1 = m
  <2>1. m - 1 \in Nat /\ (m - 1) + 1 = m
    OBVIOUS
  <2> HIDE DEF S
  <2> QED
    BY <1>2, <1>3, <2>1, Counting
<1> QED
  BY <1>4

-----------------------------------------------------------------------------
(***************************************************************************)
(* What a transaction appends.                                             *)
(***************************************************************************)

\* A transaction's entry is one, and extends the chain it was made for.
LEMMA EntryExtends ==
    ASSUME NEW entries \in Seq(Entries), NEW seed \in 0 .. MaxSeeds, NEW last \in 0 .. MaxSeeds,
           NEW b \in Bodies,
           Verify(entries, last), CanAppend(entries, seed), seed \in {NoSeed, last}
    PROVE  LET e == Entry(HeadOf(entries, seed), b) IN
           /\ e \in Entries
           /\ Append(entries, e) \in Seq(Entries)
           /\ Verify(Append(entries, e), last)
<1> DEFINE e == Entry(HeadOf(entries, seed), b)
           more == Append(entries, e)
<1> USE JournalAssumption
<1>1. CASE entries = <<>>
  <2>1. e = [n |-> 1, prev |-> <<seed>>, body |-> b, hash |-> Append(<<seed>>, b)]
    BY <1>1 DEF Entry, HeadOf, Genesis, ChainHash
  <2>2. <<seed>> \in Hashes /\ Append(<<seed>>, b) \in Hashes
    BY DEF Hashes
  <2>3. e \in Entries
    BY <2>1, <2>2 DEF Entries
  <2>4. more = <<e>>
    BY <1>1
  <2>5. seed = last /\ last # NoSeed
    BY <1>1 DEF CanAppend
  <2>6. more[1] = e /\ DOMAIN more = {1} /\ more \in Seq(Entries)
    BY <2>3, <2>4
  <2>7. Expected(more, last, 1) = <<last>>
    BY <2>5 DEF Expected, Genesis
  <2>8. e.n = 1 /\ e.prev = <<last>> /\ e.hash = ChainHash(e.prev, e.body)
    BY <2>1, <2>5 DEF ChainHash
  <2> HIDE DEF e, more
  <2>9. GoodEntry(more, last, 1)
    BY <2>6, <2>7, <2>8 DEF GoodEntry
  <2> QED
    BY <2>3, <2>6, <2>9 DEF Verify, e, more
<1>2. CASE entries # <<>>
  <2> DEFINE k == Len(entries)
  <2>1. k \in Nat \ {0} /\ entries[k] \in Entries
    BY <1>2
  <2>2. GoodEntry(entries, last, k)
    BY <2>1 DEF Verify
  <2>3. entries[k].n = k
    BY <2>2 DEF GoodEntry
  <2>4. e = [n |-> k + 1, prev |-> entries[k].hash, body |-> b, hash |-> Append(entries[k].hash, b)]
    BY <1>2, <2>3 DEF Entry, HeadOf, ChainHash, Last
  <2>5. entries[k].hash \in Hashes
    BY <2>1 DEF Entries
  <2>6. Append(entries[k].hash, b) \in Hashes
    BY <2>5 DEF Hashes
  <2>7. e \in Entries
    BY <2>1, <2>4, <2>5, <2>6 DEF Entries
  <2>8. more \in Seq(Entries) /\ Len(more) = k + 1 /\ more[k + 1] = e
        /\ \A i \in 1 .. k : more[i] = entries[i]
    BY <2>7
  <2>9. ASSUME NEW i \in 1 .. k PROVE GoodEntry(more, last, i)
    <3>1. GoodEntry(entries, last, i)
      BY <2>9 DEF Verify
    <3> QED
      BY <3>1, <2>8, <2>9 DEF GoodEntry, Expected
  <2>10. GoodEntry(more, last, k + 1)
    BY <2>1, <2>4, <2>8 DEF GoodEntry, Expected, ChainHash
  <2> QED
    BY <2>1, <2>7, <2>8, <2>9, <2>10 DEF Verify
<1> QED
  BY <1>1, <1>2

\* Whatever the chain is, a transaction's entry is one, and is the root's when
\* it is the first.
LEMMA EntryTyped ==
    ASSUME NEW entries \in Seq(Entries), NEW seed \in 0 .. MaxSeeds, NEW b \in Bodies,
           CanAppend(entries, seed)
    PROVE  LET e == Entry(HeadOf(entries, seed), b) IN
           /\ e \in Entries
           /\ e.body \in Bodies
           /\ entries = <<>> => e.n = 1 /\ e.prev = Genesis(seed) /\ seed # NoSeed
<1> DEFINE e == Entry(HeadOf(entries, seed), b)
           head == HeadOf(entries, seed)
<1>1. head.n \in Nat /\ head.hash \in Hashes
  <2>1. CASE entries = <<>>
    <3>1. <<seed>> \in Hashes
      BY DEF Hashes
    <3> QED
      BY <2>1, <3>1 DEF HeadOf, Genesis
  <2>2. CASE entries # <<>>
    <3>1. Last(entries) \in Entries
      BY <2>2 DEF Last
    <3> QED
      BY <2>2, <3>1 DEF HeadOf, Entries
  <2> QED
    BY <2>1, <2>2
<1>2. Append(head.hash, b) \in Hashes
  BY <1>1 DEF Hashes
<1>3. e = [n |-> head.n + 1, prev |-> head.hash, body |-> b, hash |-> Append(head.hash, b)]
  BY DEF Entry, ChainHash
<1>4. e \in Entries
  <2> HIDE DEF head, e
  <2> QED
    BY <1>1, <1>2, <1>3 DEF Entries
<1>5. entries = <<>> => e.n = 1 /\ e.prev = Genesis(seed) /\ seed # NoSeed
  BY <1>3 DEF HeadOf, CanAppend
<1> QED
  BY <1>3, <1>4, <1>5

-----------------------------------------------------------------------------
(***************************************************************************)
(* The invariant, step by step.                                            *)
(***************************************************************************)

\* A part of a chain that verifies is a chain that verifies.
LEMMA PrefixVerifies ==
    ASSUME NEW s \in Seq(Entries), NEW t \in Seq(Entries), NEW seed,
           IsPrefix(s, t), Verify(t, seed)
    PROVE  Verify(s, seed)
<1>1. Len(s) <= Len(t) /\ \A i \in 1 .. Len(s) : s[i] = t[i]
  BY PrefixMeans
<1>2. ASSUME NEW i \in DOMAIN s PROVE GoodEntry(s, seed, i)
  <2>1. i \in DOMAIN t /\ s[i] = t[i] /\ (i > 1 => s[i - 1] = t[i - 1])
    BY <1>1
  <2>2. GoodEntry(t, seed, i)
    BY <2>1 DEF Verify
  <2> QED
    BY <2>1, <2>2 DEF GoodEntry, Expected
<1> QED
  BY <1>2 DEF Verify

\* A step that touches neither the chain nor what is known of it outside.
LEMMA ChainStays ==
    ASSUME JournalInv, UNCHANGED <<chain, custody>>, file'.last = file.last
    PROVE  (CustodyInv /\ RootInv /\ EditInv /\ NotedInv /\ (Undamaged => ChainInv))'
BY DEF JournalInv, CustodyInv, RootInv, EditInv, NotedInv, ChainInv, Undamaged, Verify, GoodEntry, Expected

\* What somebody else did to a chain that was good, while no transaction was
\* open.
LEMMA DamageKeeps ==
    ASSUME JournalInv, NEW kind \in {"edit", "rollback", "rewrite"}, Damage(kind),
           UNCHANGED <<tx, daemon, file, follower>>,
           chain' \in Seq(Entries), chain' # <<>>, chain # <<>>, EditInv',
           chain'[1].n = 1 => chain'[1].prev = chain[1].prev
    PROVE  JournalInv'
<1>1. Undamaged /\ custody'.damage = kind /\ custody'.noted = custody.noted /\ CustodyInv'
      /\ LockFree /\ ~Undamaged'
  BY DEF JournalInv, CustodyInv, Damage, Undamaged
<1>2. CustodyInv /\ SeedInv /\ RootInv /\ TxInv /\ NotedInv /\ ChainInv
  BY <1>1 DEF JournalInv
<1>3. SeedInv'
  BY <1>2 DEF SeedInv, CanAppend
<1>4. RootInv'
  <2>1. chain[1].n = 1
    BY <1>2 DEF ChainInv, RootInv, Verify, GoodEntry
  <2> QED
    BY <1>2, <2>1 DEF RootInv
<1>5. TxInv'
  BY <1>1, <1>2 DEF TxInv, LockFree
<1>6. NotedInv'
  <2>1. ASSUME custody.noted # <<>> PROVE Verify(custody.noted, file.last)
    <3>1. custody.noted \in Seq(Entries) /\ IsPrefix(custody.noted, chain)
      BY <1>1, <1>2, <2>1 DEF NotedInv
    <3>2. chain \in Seq(Entries) /\ Verify(chain, file.last)
      BY <1>2 DEF RootInv, ChainInv
    <3> QED
      BY <3>1, <3>2, PrefixVerifies
  <2>2. Verify(custody.noted, file.last) => Verify(custody.noted, file.last)'
    BY <1>1 DEF Verify, GoodEntry, Expected
  <2> QED
    BY <1>1, <1>2, <2>1, <2>2 DEF NotedInv
<1> QED
  BY <1>1, <1>3, <1>4, <1>5, <1>6 DEF JournalInv

\* A word changed or an entry removed leaves an entry that shows it.
LEMMA EditKeeps == ASSUME JournalInv, EditEntry PROVE JournalInv'
<1> USE JournalAssumption
<1>1. PICK i \in DOMAIN chain : \/ chain' = [chain EXCEPT ![i].body = Forged]
                                \/ i < Len(chain) /\ chain' = RemoveAt(chain, i)
  BY DEF EditEntry
<1>2. Undamaged /\ RootInv /\ ChainInv /\ Damage("edit")
  BY DEF EditEntry, Damage, Undamaged, JournalInv
<1>3. chain \in Seq(Entries) /\ chain # <<>> /\ chain[i] \in Entries
      /\ i \in 1 .. Len(chain) /\ Len(chain) \in Nat
  BY <1>1, <1>2 DEF RootInv
<1>4. GoodEntry(chain, file.last, i) /\ chain[i].body \in Bodies
  BY <1>2 DEF ChainInv, Verify
<1>5. CASE chain' = [chain EXCEPT ![i].body = Forged]
  <2> DEFINE e == [chain[i] EXCEPT !.body = Forged]
  <2>1. e \in Entries /\ e.n = chain[i].n /\ e.prev = chain[i].prev /\ e.hash = chain[i].hash
        /\ e.body = Forged
    BY <1>3 DEF Entries
  <2>2. chain' = [chain EXCEPT ![i] = e]
    BY <1>5
  <2> HIDE DEF e
  <2>3. chain' \in Seq(Entries) /\ Len(chain') = Len(chain) /\ chain'[i] = e
        /\ \A j \in 1 .. Len(chain) : j # i => chain'[j] = chain[j]
    BY <1>3, <2>1, <2>2
  <2>4. e.hash # ChainHash(e.prev, e.body)
    <3>1. chain[i].hash = Append(chain[i].prev, chain[i].body)
      BY <1>4 DEF GoodEntry, ChainHash
    <3> DEFINE Words == Bodies \cup {Forged} \cup (0 .. MaxSeeds)
    <3>2. chain[i].prev \in Seq(Words) /\ Forged \in Words /\ chain[i].body \in Words
      BY <1>3, <1>4 DEF Entries, Hashes
    <3>3. Append(chain[i].prev, chain[i].body) # Append(chain[i].prev, Forged)
      <4> HIDE DEF Words
      <4>1. \A p \in Seq(Words) : \A x, y \in Words : Append(p, x) = Append(p, y) => x = y
        BY AppendIsInjective
      <4> QED
        BY <1>4, <3>2, <4>1
    <3> QED
      BY <2>1, <3>1, <3>3 DEF ChainHash
  <2>5. EditInv'
    BY <1>3, <2>3, <2>4 DEF EditInv
  <2>6. chain'[1].prev = chain[1].prev /\ chain' # <<>>
    BY <1>3, <2>1, <2>3
  <2> QED
    BY <1>2, <1>3, <2>3, <2>5, <2>6, DamageKeeps DEF EditEntry
<1>6. CASE i < Len(chain) /\ chain' = RemoveAt(chain, i)
  <2> DEFINE a == SubSeq(chain, 1, i - 1)
             b == SubSeq(chain, i + 1, Len(chain))
  <2>1. a \in Seq(Entries) /\ Len(a) = i - 1 /\ \A j \in 1 .. i - 1 : a[j] = chain[j]
    BY <1>3
  <2>2. b \in Seq(Entries) /\ Len(b) = Len(chain) - i /\ b[1] = chain[i + 1]
    BY <1>3, <1>6
  <2>3. chain' = a \o b
    BY <1>6 DEF RemoveAt
  <2> HIDE DEF a, b
  <2>4. chain' \in Seq(Entries) /\ Len(chain') = Len(chain) - 1
        /\ \A j \in 1 .. i - 1 : chain'[j] = chain[j]
    BY <1>3, <1>6, <2>1, <2>2, <2>3
  <2>5. chain'[i] = chain[i + 1]
    <3>1. i = Len(a) + 1 /\ i \in 1 .. Len(a) + Len(b)
      BY <1>3, <1>6, <2>1, <2>2
    <3>2. \A p, q \in Seq(Entries) : Len(q) >= 1 => (p \o q)[Len(p) + 1] = q[1]
      OBVIOUS
    <3>3. Len(b) >= 1
      BY <1>3, <1>6, <2>2
    <3> QED
      BY <2>1, <2>2, <2>3, <3>1, <3>2, <3>3
  <2>6. chain[i + 1].n = i + 1
    BY <1>2, <1>3, <1>6 DEF ChainInv, Verify, GoodEntry
  <2>7. EditInv'
    BY <1>3, <1>6, <2>4, <2>5, <2>6 DEF EditInv
  <2>8. chain'[1].n = 1 => chain'[1].prev = chain[1].prev
    BY <1>3, <2>4, <2>5, <2>6
  <2>9. chain' # <<>>
    BY <1>3, <1>6, <2>4
  <2> QED
    BY <1>2, <1>3, <2>4, <2>7, <2>8, <2>9, DamageKeeps DEF EditEntry
<1> QED
  BY <1>1, <1>5, <1>6

\* An earlier copy starts where the chain started.
LEMMA PutBackKeeps == ASSUME JournalInv, PutBack PROVE JournalInv'
<1>1. PICK k \in 1 .. Len(chain) - 1 : chain' = SubSeq(chain, 1, k)
  BY DEF PutBack
<1>2. RootInv /\ Damage("rollback")
  BY DEF PutBack, JournalInv
<1>3. chain \in Seq(Entries) /\ Len(chain) \in Nat /\ k \in Nat /\ k >= 1 /\ k <= Len(chain)
  BY <1>1, <1>2 DEF RootInv
<1>4. chain' \in Seq(Entries) /\ Len(chain') = k /\ chain'[1] = chain[1]
  BY <1>1, <1>3
<1>5. EditInv'
  BY <1>2 DEF EditInv, Damage, JournalInv, CustodyInv
<1>6. chain # <<>> /\ chain' # <<>>
  BY <1>3, <1>4
<1> QED
  BY <1>2, <1>4, <1>5, <1>6, DamageKeeps DEF PutBack

\* A rewritten chain starts where the chain started.
LEMMA RewriteKeeps == ASSUME JournalInv, Rewrite PROVE JournalInv'
<1> USE JournalAssumption
<1>1. RootInv /\ Damage("rewrite")
  BY DEF Rewrite, JournalInv
<1>2. PICK i \in DOMAIN chain :
          LET new == [k \in DOMAIN chain |-> IF k = i THEN Forged ELSE chain[k].body]
              hash(k) == chain[1].prev \o SubSeq(new, 1, k)
          IN  chain' = [k \in DOMAIN chain |->
                           [n |-> chain[k].n, prev |-> hash(k - 1), body |-> new[k], hash |-> hash(k)]]
  BY DEF Rewrite
<1> DEFINE Words == Bodies \cup {Forged} \cup (0 .. MaxSeeds)
           new == [k \in DOMAIN chain |-> IF k = i THEN Forged ELSE chain[k].body]
           hash(k) == chain[1].prev \o SubSeq(new, 1, k)
           len == Len(chain)
<1>3. chain \in Seq(Entries) /\ len \in Nat /\ DOMAIN chain = 1 .. len /\ len >= 1
  BY <1>1, <1>2 DEF RootInv
<1>4. \A k \in 1 .. len : chain[k].n \in Nat /\ chain[k].body \in Words /\ chain[k].prev \in Seq(Words)
  <2>1. \A k \in 1 .. len : chain[k] \in Entries
    BY <1>3
  <2> QED
    BY <2>1 DEF Entries, Hashes
<1>5. new \in Seq(Words) /\ Len(new) = len
  <2>1. \A k \in 1 .. len : new[k] \in Words
    BY <1>3, <1>4
  <2>2. new \in [1 .. len -> Words]
    BY <1>3, <2>1
  <2> HIDE DEF new, Words
  <2> QED
    BY <1>3, <2>2
<1>6. \A k \in 0 .. len : hash(k) \in Hashes
  <2>1. \A k \in 0 .. len : SubSeq(new, 1, k) \in Seq(Words)
    <3> HIDE DEF new, Words
    <3> QED
      BY <1>3, <1>5
  <2>2. chain[1].prev \in Seq(Words)
    BY <1>3, <1>4
  <2>3. Hashes = Seq(Words)
    BY DEF Hashes
  <2> HIDE DEF new, Words
  <2> QED
    BY <2>1, <2>2, <2>3
<1>7. chain' = [k \in 1 .. len |->
                  [n |-> chain[k].n, prev |-> hash(k - 1), body |-> new[k], hash |-> hash(k)]]
  BY <1>2, <1>3
<1>8. hash(0) = chain[1].prev
  <2>1. SubSeq(new, 1, 0) = <<>>
    <3> HIDE DEF new, Words
    <3> QED
      BY <1>5
  <2>2. chain[1].prev \in Seq(Words)
    BY <1>3, <1>4
  <2> HIDE DEF new, Words
  <2> QED
    BY <2>1, <2>2
<1>9. \A k \in 1 .. len : new[k] \in Bodies \cup {Forged}
  <2>1. \A k \in 1 .. len : chain[k] \in Entries
    BY <1>3
  <2> QED
    BY <1>3, <2>1 DEF Entries
<1> HIDE DEF new, hash, Words, len
<1>10. \A k \in 1 .. len : chain'[k] \in Entries
  BY <1>3, <1>4, <1>6, <1>7, <1>9 DEF Entries
<1>11. chain' \in Seq(Entries) /\ Len(chain') = len
  BY <1>3, <1>7, <1>10
<1>12. chain'[1].prev = chain[1].prev
  BY <1>3, <1>7, <1>8
<1>13. EditInv'
  BY <1>1 DEF EditInv, Damage, JournalInv, CustodyInv
<1>14. chain # <<>> /\ chain' # <<>>
  BY <1>3, <1>11 DEF len
<1> QED
  BY <1>1, <1>11, <1>12, <1>13, <1>14, DamageKeeps DEF Rewrite

\* A transaction that opens carries the next entry.
LEMMA BeginKeeps == ASSUME JournalInv, NEW w \in Writers, Begin(w) PROVE JournalInv'
<1>1. PICK b \in Bodies : tx' = [tx EXCEPT ![w] = Entry(HeadOf(chain, daemon.seed), b)]
  BY DEF Begin
<1>2. Entry(HeadOf(chain, daemon.seed), b) \in Entries
  BY EntryTyped DEF Begin, JournalInv, RootInv, SeedInv
<1>3. TxInv'
  BY <1>1, <1>2 DEF Begin, JournalInv, TxInv, LockFree, HeadOf
<1>4. SeedInv'
  BY DEF Begin, JournalInv, SeedInv
<1> QED
  BY <1>3, <1>4, ChainStays DEF Begin, JournalInv

\* The next entry continues what is good, and hides nothing that is not.
LEMMA CommitKeeps == ASSUME JournalInv, NEW w \in Writers, Commit(w) PROVE JournalInv'
<1> DEFINE e == tx[w]
<1>1. PICK b \in Bodies : e = Entry(HeadOf(chain, daemon.seed), b)
  BY DEF Commit, JournalInv, TxInv
<1>2. daemon.at = "up" /\ CanAppend(chain, daemon.seed) /\ chain \in Seq(Entries)
      /\ daemon.seed \in 0 .. MaxSeeds /\ daemon.seed \in {NoSeed, file.last}
      /\ file.last \in 0 .. MaxSeeds
  BY DEF Commit, JournalInv, TxInv, SeedInv, RootInv
<1>3. e \in Entries /\ e.body \in Bodies
      /\ (chain = <<>> => e.n = 1 /\ e.prev = Genesis(daemon.seed) /\ daemon.seed # NoSeed)
  BY <1>1, <1>2, EntryTyped
<1>4. Undamaged => Verify(Append(chain, e), file.last)
  BY <1>1, <1>2, EntryExtends DEF JournalInv, ChainInv
<1>5. chain' = Append(chain, e) /\ UNCHANGED <<daemon, file, follower, custody>>
      /\ tx' = [tx EXCEPT ![w] = None]
  BY DEF Commit
<1> HIDE DEF e
<1>6. chain' \in Seq(Entries) /\ Len(chain') = Len(chain) + 1 /\ chain'[Len(chain) + 1] = e
      /\ (\A i \in 1 .. Len(chain) : chain'[i] = chain[i]) /\ chain' # <<>>
  BY <1>2, <1>3, <1>5
<1>7. RootInv'
  <2>1. CASE chain = <<>>
    BY <1>2, <1>3, <1>5, <1>6, <2>1 DEF RootInv
  <2>2. CASE chain # <<>>
    BY <1>5, <1>6, <2>2 DEF JournalInv, RootInv
  <2> QED
    BY <2>1, <2>2
<1>8. SeedInv'
  BY <1>2, <1>5, <1>6 DEF JournalInv, SeedInv, CanAppend
<1>9. TxInv'
  <2>1. tx' \in [Writers -> Entries \cup {None}] /\ \A v \in Writers : tx'[v] = None
    BY <1>5 DEF Commit, JournalInv, TxInv
  <2> QED
    BY <2>1 DEF TxInv
<1>10. EditInv'
  <2>1. ASSUME custody.damage = "edit", NEW i \in DOMAIN chain,
               chain[i].n # i \/ chain[i].hash # ChainHash(chain[i].prev, chain[i].body)
        PROVE  EditInv'
    <3>1. i \in DOMAIN chain' /\ chain'[i] = chain[i]
      BY <1>2, <1>6
    <3> QED
      BY <2>1, <3>1 DEF EditInv
  <2> QED
    BY <1>5, <2>1 DEF JournalInv, EditInv
<1>11. NotedInv'
  <2>1. custody.noted \in Seq(Entries) /\ (IsPrefix(custody.noted, chain) => IsPrefix(custody.noted, chain'))
    BY <1>2, <1>3, <1>5, PrefixAppend DEF JournalInv, NotedInv
  <2>2. Verify(custody.noted, file.last) => Verify(custody.noted, file.last)'
    BY <1>5 DEF Verify, GoodEntry, Expected
  <2> QED
    BY <1>5, <1>6, <2>1, <2>2 DEF JournalInv, NotedInv, Undamaged
<1>12. (Undamaged => ChainInv)'
  <2>1. ASSUME Undamaged PROVE \A i \in DOMAIN chain' : chain'[i].body \in Bodies
    <3>1. DOMAIN chain' = 1 .. Len(chain) + 1 /\ DOMAIN chain = 1 .. Len(chain)
      BY <1>2, <1>6
    <3>2. \A i \in DOMAIN chain : chain[i].body \in Bodies
      BY <2>1 DEF JournalInv, ChainInv
    <3> QED
      BY <1>3, <1>6, <3>1, <3>2
  <2>2. Undamaged' => Undamaged
    BY <1>5 DEF Undamaged
  <2>3. Verify(chain', file.last) => Verify(chain, file.last)'
    BY <1>5 DEF Verify, GoodEntry, Expected
  <2> QED
    BY <1>4, <1>5, <2>1, <2>2, <2>3 DEF ChainInv
<1> QED
  BY <1>5, <1>7, <1>8, <1>9, <1>10, <1>11, <1>12 DEF JournalInv, CustodyInv

\* The steps of the daemon and its file.
LEMMA DaemonKeeps ==
    ASSUME JournalInv,
           StartDaemon \/ CreateMachineID \/ AdoptSeed \/ StopDaemon \/ LoseMachineID \/ RestoreMachineID
    PROVE  JournalInv'
<1> USE JournalAssumption
<1>1. CASE StartDaemon
  <2>1. SeedInv' /\ TxInv'
    BY <1>1 DEF StartDaemon, MayCreateSeed, CanAppend, JournalInv, SeedInv, TxInv
  <2> QED
    BY <1>1, <2>1, ChainStays DEF StartDaemon, JournalInv
<1>2. CASE CreateMachineID
  <2>1. chain = <<>> /\ chain' = <<>> /\ custody.noted = <<>> /\ custody' = custody
    BY <1>2 DEF CreateMachineID, JournalInv, SeedInv, NotedInv
  <2>2. SeedInv' /\ TxInv'
    BY <1>2, <2>1 DEF CreateMachineID, JournalInv, SeedInv, TxInv, NoSeed
  <2>3. CustodyInv' /\ NotedInv'
    BY <2>1 DEF JournalInv, CustodyInv, NotedInv
  <2>4. RootInv' /\ ChainInv'
    BY <2>1 DEF RootInv, ChainInv, Verify
  <2>5. EditInv'
    BY <2>1 DEF JournalInv, EditInv
  <2> QED
    BY <2>2, <2>3, <2>4, <2>5 DEF JournalInv
<1>3. CASE AdoptSeed
  <2>1. SeedInv' /\ TxInv'
    BY <1>3 DEF AdoptSeed, Adopted, JournalInv, SeedInv, CanAppend, TxInv
  <2> QED
    BY <1>3, <2>1, ChainStays DEF AdoptSeed, JournalInv
<1>4. CASE StopDaemon
  <2>1. SeedInv' /\ TxInv'
    BY <1>4 DEF StopDaemon, JournalInv, SeedInv, NoSeed, TxInv
  <2> QED
    BY <1>4, <2>1, ChainStays DEF StopDaemon, JournalInv
<1>5. CASE LoseMachineID \/ RestoreMachineID
  <2>1. SeedInv'
    BY <1>5 DEF LoseMachineID, RestoreMachineID, JournalInv, SeedInv, NoSeed
  <2>2. TxInv'
    BY <1>5 DEF LoseMachineID, RestoreMachineID, JournalInv, TxInv
  <2>3. file'.last = file.last
    BY <1>5 DEF LoseMachineID, RestoreMachineID, JournalInv, SeedInv
  <2> QED
    BY <1>5, <2>1, <2>2, <2>3, ChainStays DEF LoseMachineID, RestoreMachineID, JournalInv
<1> QED
  BY <1>1, <1>2, <1>3, <1>4, <1>5

\* The chain is well formed and every open transaction's entry extends it;
\* what somebody else did to it still shows (appendTx, RunWithStop, Verify).
THEOREM JournalInvHolds == JournalSpec => []JournalInv
<1>1. JournalInit => JournalInv
  <2> SUFFICES ASSUME JournalInit PROVE JournalInv
    OBVIOUS
  <2>1. SeedInv /\ TxInv /\ CustodyInv
    BY JournalAssumption DEF JournalInit, SeedInv, TxInv, CustodyInv, NoSeed
  <2>2. RootInv /\ EditInv /\ NotedInv /\ ChainInv
    BY DEF JournalInit, RootInv, EditInv, NotedInv, ChainInv, Verify
  <2> QED
    BY <2>1, <2>2 DEF JournalInv
<1>2. JournalInv /\ [JournalNext]_vars => JournalInv'
  <2> SUFFICES ASSUME JournalInv, [JournalNext]_vars PROVE JournalInv'
    OBVIOUS
  <2>1. CASE UNCHANGED vars
    <3>1. SeedInv' /\ TxInv'
      BY <2>1 DEF vars, JournalInv, SeedInv, TxInv, CanAppend, HeadOf
    <3> QED
      BY <2>1, <3>1, ChainStays DEF vars, JournalInv
  <2>2. ASSUME NEW w \in Writers, Rollback(w) PROVE JournalInv'
    <3>1. SeedInv' /\ TxInv'
      BY <2>2 DEF Rollback, JournalInv, SeedInv, TxInv
    <3> QED
      BY <2>2, <3>1, ChainStays DEF Rollback, JournalInv
  <2>3. CASE Follow
    <3>1. SeedInv' /\ TxInv'
      BY <2>3 DEF Follow, JournalInv, SeedInv, TxInv
    <3> QED
      BY <2>3, <3>1, ChainStays DEF Follow, JournalInv
  <2>4. CASE NoteHead
    <3>1. chain \in Seq(Entries) /\ chain # <<>> /\ IsPrefix(chain, chain)
      BY <2>4 DEF NoteHead, JournalInv, RootInv, IsPrefix
    <3>2. NotedInv' /\ CustodyInv' /\ EditInv'
      BY <2>4, <3>1 DEF NoteHead, JournalInv, CustodyInv, NotedInv, EditInv
    <3>3. SeedInv' /\ TxInv' /\ RootInv'
      BY <2>4 DEF NoteHead, JournalInv, SeedInv, TxInv, RootInv
    <3>4. (Undamaged => ChainInv)'
      BY <2>4 DEF NoteHead, JournalInv, CustodyInv, Undamaged, ChainInv, Verify, GoodEntry, Expected
    <3> QED
      BY <3>2, <3>3, <3>4 DEF JournalInv
  <2> QED
    BY <2>1, <2>2, <2>3, <2>4, BeginKeeps, CommitKeeps, DaemonKeeps, EditKeeps, PutBackKeeps,
       RewriteKeeps DEF JournalNext
<1> QED
  BY <1>1, <1>2, PTL DEF JournalSpec
-----------------------------------------------------------------------------
(***************************************************************************)
(* What follows.                                                           *)
(***************************************************************************)

\* A journal nobody touched verifies, with its identifier and without it
\* (UndamagedVerifies).
THEOREM UndamagedAlwaysVerifies == JournalSpec => []UndamagedVerifies
<1>1. JournalInv => UndamagedVerifies
  <2> SUFFICES ASSUME JournalInv, Undamaged, NEW seed \in {NoSeed, file.seed}
               PROVE  Verify(chain, seed)
    BY DEF UndamagedVerifies, Undamaged
  <2>1. Verify(chain, file.last) /\ seed \in {NoSeed, file.last}
    BY DEF JournalInv, ChainInv, SeedInv
  <2> QED
    BY <2>1 DEF Verify, GoodEntry, Expected
<1> QED
  BY <1>1, JournalInvHolds, PTL

\* A journal that grew since its head was noted is not accused
\* (GrowthIsNoAccusation).
THEOREM GrowthIsNeverAccused == JournalSpec => []GrowthIsNoAccusation
<1>1. UndamagedVerifies /\ JournalInv => GrowthIsNoAccusation
  <2> SUFFICES ASSUME UndamagedVerifies, JournalInv, custody.noted # <<>>, Undamaged
               PROVE  VerifyHead(chain, file.seed, Last(custody.noted).hash)
    BY DEF GrowthIsNoAccusation, Undamaged
  <2> DEFINE noted == custody.noted
             m == Len(noted)
  <2>1. noted \in Seq(Entries) /\ chain \in Seq(Entries) /\ IsPrefix(noted, chain) /\ noted # <<>>
    BY DEF JournalInv, NotedInv, RootInv
  <2> HIDE DEF noted
  <2>2. m \in 1 .. Len(chain) /\ noted[m] = chain[m]
    BY <2>1, PrefixMeans
  <2>3. HeadFound(chain, Last(noted).hash)
    BY <2>1, <2>2 DEF HeadFound, Last
  <2> QED
    BY <2>3 DEF noted, UndamagedVerifies, Undamaged, VerifyHead
<1> QED
  BY <1>1, JournalInvHolds, UndamagedAlwaysVerifies, PTL

\* A daemon that serves can always record, whatever happened to the machine-id
\* file and the database (ServingCanRecord).
THEOREM ServingCanAlwaysRecord == JournalSpec => []ServingCanRecord
<1>1. JournalInv => ServingCanRecord
  BY DEF JournalInv, SeedInv, ServingCanRecord
<1> QED
  BY <1>1, JournalInvHolds, PTL

\* An entry altered or removed in place is noticed, however the chain grows
\* afterwards (EditIsNoticed).
THEOREM EditsAreNoticed == JournalSpec => []EditIsNoticed
<1>1. JournalInv => EditIsNoticed
  BY DEF JournalInv, EditInv, EditIsNoticed, Verify, GoodEntry
<1> QED
  BY <1>1, JournalInvHolds, PTL

\* A noted head that Verify finds covers everything it covered then, whatever
\* was done to the database in between (HeadCovers).
THEOREM FoundHeadsCover == JournalSpec => []HeadCovers
<1>1. JournalInv => HeadCovers
  <2> DEFINE noted == custody.noted
             m == Len(noted)
             last == file.last
  <2> SUFFICES ASSUME JournalInv, noted # <<>>,
                      VerifyHead(chain, file.seed, Last(noted).hash), ~IsPrefix(noted, chain)
               PROVE  FALSE
    BY DEF HeadCovers
  <2>1. chain \in Seq(Entries) /\ noted \in Seq(Entries) /\ chain # <<>> /\ Verify(noted, last)
        /\ last # NoSeed /\ Verify(chain, file.seed)
        /\ (chain[1].n = 1 => chain[1].prev = Genesis(last))
    BY DEF JournalInv, RootInv, NotedInv, VerifyHead
  <2>2. PICK i \in DOMAIN chain : chain[i].hash = Last(noted).hash
    BY DEF VerifyHead, HeadFound
  <2> HIDE DEF noted
  <2>3. m \in DOMAIN noted /\ Last(noted) = noted[m]
    BY <2>1 DEF Last
  <2>4. Len(chain[1].prev) = 1
    <3>1. chain[1].n = 1
      BY <2>1 DEF Verify, GoodEntry
    <3> QED
      BY <2>1, <3>1 DEF Genesis
  <2>5. Len(noted[1].prev) = 1
    <3>1. 1 \in DOMAIN noted
      BY <2>1, <2>3
    <3>2. noted[1].prev = Genesis(last)
      BY <2>1, <3>1 DEF Verify, GoodEntry, Expected
    <3> QED
      BY <3>2 DEF Genesis
  <2>6. Len(chain[i].hash) = i + 1
    BY <2>1, <2>4, HashCounts
  <2>7. Len(noted[m].hash) = m + 1
    BY <2>1, <2>3, <2>5, HashCounts
  <2>8. i = m
    BY <2>1, <2>2, <2>3, <2>6, <2>7
  <2>9. \A j \in 1 .. m : noted[j] = chain[j]
    BY <2>1, <2>2, <2>3, <2>8, HashDetermines
  <2> QED
    BY <2>1, <2>2, <2>8, <2>9, PrefixMeans
<1> QED
  BY <1>1, JournalInvHolds, PTL

-----------------------------------------------------------------------------
(***************************************************************************)
(* The follower.                                                           *)
(***************************************************************************)

Later(entries, cursor) == {i \in 1 .. Len(entries) : entries[i].n > cursor}

\* A page starts at the first entry after the cursor.
LEMMA PageMeans ==
    ASSUME NEW entries \in Seq(Entries), NEW cursor
    PROVE  /\ Later(entries, cursor) = {} => EntriesSince(entries, cursor) = <<>>
           /\ Later(entries, cursor) # {} =>
                \E first \in Later(entries, cursor), last \in 1 .. Len(entries) :
                    /\ \A i \in Later(entries, cursor) : first <= i
                    /\ first <= last
                    /\ EntriesSince(entries, cursor) = SubSeq(entries, first, last)
<1> USE JournalAssumption
<1> DEFINE later == Later(entries, cursor)
           page == EntriesSince(entries, cursor)
           first == SelectInSeq(entries, LAMBDA e : After(e, cursor))
           last == IF first + Page - 1 < Len(entries) THEN first + Page - 1 ELSE Len(entries)
<1>1. first = IF later # {} THEN Min(later) ELSE 0
  BY DEF SelectInSeq, After, Later
<1>2. page = IF first = 0 THEN <<>> ELSE SubSeq(entries, first, last)
  BY DEF EntriesSince
<1>3. ASSUME later # {}
      PROVE  /\ first \in later /\ \A i \in later : first <= i
             /\ last \in 1 .. Len(entries) /\ first <= last
             /\ page = SubSeq(entries, first, last)
  <2>1. first \in later /\ \A i \in later : first <= i
    <3>1. later \subseteq 0 .. Len(entries) /\ Len(entries) \in Nat
      BY DEF Later
    <3>2. \E x \in later : \A y \in later : x <= y
      <4> HIDE DEF later
      <4> QED
        BY <1>3, <3>1, Least
    <3> HIDE DEF later, first
    <3> QED
      BY <1>1, <1>3, <3>2 DEF Min
  <2>2. first \in 1 .. Len(entries) /\ Len(entries) \in Nat
    BY <2>1 DEF Later
  <2> HIDE DEF later, first, page
  <2> QED
    BY <1>2, <2>1, <2>2
<1>4. later = {} => page = <<>>
  BY <1>1, <1>2
<1> HIDE DEF first, last, later, page
<1>5. later # {} => \E f \in later, l \in 1 .. Len(entries) :
          (\A i \in later : f <= i) /\ f <= l /\ page = SubSeq(entries, f, l)
  BY Zenon, <1>3
<1> QED
  BY <1>4, <1>5 DEF later, page

\* In a chain whose entries are numbered, the page after a prefix continues it.
LEMMA PageContinues ==
    ASSUME NEW entries \in Seq(Entries), \A i \in DOMAIN entries : entries[i].n = i,
           NEW read \in Seq(Entries), IsPrefix(read, entries)
    PROVE  IsPrefix(read \o EntriesSince(entries, HeadOf(read, NoSeed).n), entries)
<1> DEFINE k == Len(read)
           cursor == HeadOf(read, NoSeed).n
           page == EntriesSince(entries, cursor)
           later == Later(entries, cursor)
<1>1. k \in Nat /\ Len(entries) \in Nat /\ k <= Len(entries) /\ \A i \in 1 .. k : read[i] = entries[i]
  BY PrefixMeans
<1>2. cursor = k
  <2>1. CASE read = <<>>
    BY <2>1 DEF HeadOf
  <2>2. CASE read # <<>>
    <3>1. k \in DOMAIN entries /\ read[k] = entries[k]
      BY <1>1, <2>2
    <3> QED
      BY <2>2, <3>1 DEF HeadOf, Last
  <2> QED
    BY <2>1, <2>2
<1>3. later = {i \in 1 .. Len(entries) : i > k}
  BY <1>1, <1>2 DEF Later
<1>4. CASE later = {}
  <2>1. page = <<>>
    BY <1>4, PageMeans
  <2>2. read \o page = read
    BY <2>1
  <2> QED
    BY <2>2
<1>5. CASE later # {}
  <2>1. PICK first \in later, last \in 1 .. Len(entries) :
            (\A i \in later : first <= i) /\ first <= last /\ page = SubSeq(entries, first, last)
    BY <1>5, PageMeans
  <2>3. first = k + 1
    <3>1. k + 1 \in later
      BY <1>1, <1>3, <1>5
    <3>2. first <= k + 1 /\ first > k /\ first \in Nat
      BY <1>3, <2>1, <3>1
    <3> QED
      BY <1>1, <3>2
  <2> HIDE DEF page, later
  <2>4. page \in Seq(Entries) /\ Len(page) = last - k /\ last \in Nat /\ k < last /\ last <= Len(entries)
        /\ \A j \in 1 .. last - k : page[j] = entries[k + j]
    BY <1>1, <2>1, <2>3
  <2> DEFINE more == read \o page
  <2>5. more \in Seq(Entries) /\ Len(more) = last
    BY <1>1, <2>4
  <2>6. \A i \in 1 .. last : more[i] = entries[i]
    <3>1. \A p, q \in Seq(Entries) : \A i \in 1 .. Len(p) + Len(q) :
             (p \o q)[i] = IF i <= Len(p) THEN p[i] ELSE q[i - Len(p)]
      OBVIOUS
    <3>2. ASSUME NEW i \in 1 .. last PROVE more[i] = entries[i]
      <4>1. more[i] = IF i <= k THEN read[i] ELSE page[i - k]
        BY <1>1, <2>4, <3>1, <3>2
      <4>2. i > k => i - k \in 1 .. last - k /\ k + (i - k) = i
        BY <1>1, <2>4, <3>2
      <4> QED
        BY <1>1, <2>4, <4>1, <4>2
    <3> QED
      BY <3>2
  <2> HIDE DEF more
  <2>7. IsPrefix(more, entries)
    BY <2>4, <2>5, <2>6, PrefixMeans
  <2> QED
    BY <2>7 DEF more, page
<1> QED
  BY <1>4, <1>5

\* A follower reads the journal in its order, whatever the daemon does
\* (EntriesSince).
THEOREM FollowerInvHolds == JournalSpec => []FollowerInv
<1>1. JournalInit => FollowerInv
  <2>1. JournalInit => follower \in Seq(Entries) /\ chain = follower
    BY DEF JournalInit
  <2> QED
    BY <2>1 DEF FollowerInv, IsPrefix
<1>2. JournalInv /\ FollowerInv /\ [JournalNext]_vars => FollowerInv'
  <2> SUFFICES ASSUME JournalInv, FollowerInv, [JournalNext]_vars PROVE FollowerInv'
    OBVIOUS
  <2>t. chain \in Seq(Entries) /\ follower \in Seq(Entries)
    BY DEF JournalInv, RootInv, FollowerInv
  <2>1. CASE Follow
    <3> DEFINE page == EntriesSince(chain, HeadOf(follower, NoSeed).n)
    <3>1. follower' = follower \o page /\ chain' = chain /\ custody' = custody
      BY <2>1 DEF Follow
    <3>2. page \in Seq(Entries)
      <4> DEFINE later == Later(chain, HeadOf(follower, NoSeed).n)
      <4>1. later = {} => page = <<>>
        BY <2>t, PageMeans
      <4>2. ASSUME later # {} PROVE page \in Seq(Entries)
        <5>1. PICK i \in 1 .. Len(chain), j \in 1 .. Len(chain) : page = SubSeq(chain, i, j)
          BY <2>t, <4>2, PageMeans DEF Later
        <5> HIDE DEF page
        <5> QED
          BY <2>t, <5>1
      <4>3. <<>> \in Seq(Entries)
        OBVIOUS
      <4> HIDE DEF page, later
      <4> QED
        BY Zenon, <4>1, <4>2, <4>3
    <3>3. follower' \in Seq(Entries)
      <4> HIDE DEF page
      <4> QED
        BY <2>t, <3>1, <3>2
    <3>4. ASSUME Undamaged PROVE IsPrefix(follower', chain)
      <4>1. \A i \in DOMAIN chain : chain[i].n = i
        BY <3>4 DEF JournalInv, ChainInv, Verify, GoodEntry
      <4>2. IsPrefix(follower, chain)
        BY <3>4 DEF FollowerInv
      <4> QED
        BY <2>t, <3>1, <4>1, <4>2, PageContinues
    <3> QED
      BY <3>1, <3>3, <3>4 DEF FollowerInv, Undamaged
  <2>2. ASSUME NEW w \in Writers, Commit(w) PROVE FollowerInv'
    <3>1. tx[w] \in Entries /\ chain' = Append(chain, tx[w]) /\ follower' = follower /\ custody' = custody
      BY <2>2 DEF Commit, JournalInv, TxInv
    <3> QED
      BY <2>t, <3>1, PrefixAppend DEF FollowerInv, Undamaged
  <2>3. CASE EditEntry \/ PutBack \/ Rewrite
    BY <2>3 DEF EditEntry, PutBack, Rewrite, Damage, JournalInv, CustodyInv, FollowerInv, Undamaged
  <2>4. CASE UNCHANGED <<chain, follower>> /\ (Undamaged' => Undamaged)
    BY <2>4 DEF FollowerInv
  <2>5. CASE NoteHead
    BY <2>4, <2>5 DEF NoteHead, JournalInv, CustodyInv, Undamaged
  <2> QED
    BY <2>1, <2>2, <2>3, <2>4, <2>5 DEF JournalNext, vars, Begin, Rollback, StartDaemon,
       CreateMachineID, AdoptSeed, StopDaemon, LoseMachineID, RestoreMachineID, Undamaged
<1> QED
  BY <1>1, <1>2, JournalInvHolds, PTL DEF JournalSpec

\* What a follower has been given is the beginning of the journal
\* (FollowerIsGapless).
THEOREM FollowersAreGapless == JournalSpec => []FollowerIsGapless
<1>1. FollowerInv => FollowerIsGapless
  BY DEF FollowerInv, FollowerIsGapless, Undamaged
<1> QED
  BY <1>1, FollowerInvHolds, PTL

\* Every variable keeps its type, damage included (JournalTypeOK).
THEOREM JournalTyped == JournalSpec => []JournalTypeOK
<1> DEFINE Known == custody.damage \in {"none", "edit", "rollback", "rewrite"}
<1>1. JournalInit => Known
  BY DEF JournalInit
<1>2. JournalInv /\ Known /\ [JournalNext]_vars => Known'
  BY DEF JournalInv, CustodyInv, JournalNext, vars, Begin, Commit, Rollback, StartDaemon,
     CreateMachineID, AdoptSeed, StopDaemon, LoseMachineID, RestoreMachineID, Follow, NoteHead,
     EditEntry, PutBack, Rewrite, Damage
<1>3. JournalInv /\ FollowerInv /\ Known => JournalTypeOK
  <2> SUFFICES ASSUME JournalInv, FollowerInv, Known PROVE JournalTypeOK
    OBVIOUS
  <2>1. custody.noted \in Seq(Entries) /\ custody = [noted |-> custody.noted, damage |-> custody.damage]
    BY DEF JournalInv, NotedInv, CustodyInv
  <2> DEFINE noted == custody.noted
             damage == custody.damage
  <2>2. custody = [noted |-> noted, damage |-> damage] /\ noted \in Seq(Entries)
        /\ damage \in {"none", "edit", "rollback", "rewrite"}
    BY <2>1
  <2> HIDE DEF noted, damage
  <2>3. custody \in [noted : Seq(Entries), damage : {"none", "edit", "rollback", "rewrite"}]
    BY <2>2
  <2> QED
    BY <2>3 DEF JournalInv, SeedInv, RootInv, TxInv, FollowerInv, JournalTypeOK
<1> QED
  BY <1>1, <1>2, <1>3, JournalInvHolds, FollowerInvHolds, PTL DEF JournalSpec
=============================================================================
