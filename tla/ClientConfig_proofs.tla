-------------------------- MODULE ClientConfig_proofs --------------------------
(***************************************************************************)
(* What a backup before every change gives, for any number of runs, of     *)
(* installed binaries and of servers, whatever the clock reads.            *)
(***************************************************************************)
EXTENDS ClientConfig, SequenceTheorems, TLAPS

\* a configuration as init leaves it, and finds it: nobody behind two holdcalls
Fine(c) == c \in Content /\ \A k \in Keys : Len(c.servers[k].via) <= 1

-----------------------------------------------------------------------------
(***************************************************************************)
(* Rewriting.                                                              *)
(***************************************************************************)

\* rewriteEntry puts nobody behind a second holdcall.
LEMMA EntriesStayFine ==
    ASSUME NEW e \in Entry, Len(e.via) <= 1, NEW k, NEW path \in Paths, NEW repoint \in BOOLEAN
    PROVE  Rewritten(e, k, path, repoint) \in Entry /\ Len(Rewritten(e, k, path, repoint).via) <= 1
<1> DEFINE new == Rewritten(e, k, path, repoint)
<1>1. e.kind \in {"stdio", "other"} /\ e.via \in Seq(Paths)
  BY DEF Entry
<1>2. CASE new = e
  BY <1>2
<1>3. CASE e.kind = "stdio" /\ e.via # <<>> /\ new = [e EXCEPT !.via[1] = path]
  <2>1. [e.via EXCEPT ![1] = path] \in Seq(Paths) /\ Len([e.via EXCEPT ![1] = path]) = Len(e.via)
    <3>1. CASE e.via = <<>>
      BY <1>3, <3>1
    <3>2. CASE e.via # <<>>
      BY <1>1, <3>2, ExceptSeq
    <3>3. QED
      BY <3>1, <3>2
  <2>2. new = [kind |-> e.kind, via |-> [e.via EXCEPT ![1] = path]]
    BY <1>3 DEF Entry
  <2>3. QED
    BY <1>1, <2>1, <2>2 DEF Entry
<1>4. CASE e.kind = "stdio" /\ e.via = <<>> /\ new = [e EXCEPT !.via = <<path>> \o @]
  <2>1. <<path>> \o e.via = <<path>>
    BY <1>1, <1>4
  <2>2. new = [kind |-> e.kind, via |-> <<path>>]
    BY <1>4, <2>1 DEF Entry
  <2>3. <<path>> \in Seq(Paths) /\ Len(<<path>>) = 1
    OBVIOUS
  <2>4. QED
    BY <1>1, <2>2, <2>3 DEF Entry
<1>5. QED
  BY <1>1, <1>2, <1>3, <1>4 DEF Rewritten, Through

LEMMA PlainIsFine == \A e \in Plain : e \in Entry /\ Len(e.via) <= 1
<1> SUFFICES ASSUME NEW e \in Plain PROVE e \in Entry /\ Len(e.via) <= 1
  OBVIOUS
<1>1. e.kind \in {"stdio", "other"} /\ e.via = <<>> /\ e = [kind |-> e.kind, via |-> e.via]
  BY DEF Plain
<1>2. <<>> \in Seq(Paths) /\ Len(<<>>) = 0
  OBVIOUS
<1>3. e.via \in Seq(Paths) /\ Len(e.via) <= 1
  BY <1>1, <1>2
<1>4. QED
  BY <1>1, <1>3 DEF Entry

LEMMA FilesStayFine ==
    ASSUME NEW c, Fine(c), NEW path \in Paths, NEW repoint \in BOOLEAN
    PROVE  Fine(RewrittenFile(c, path, repoint))
<1> DEFINE new == RewrittenFile(c, path, repoint)
           servers == [k \in Keys |-> Rewritten(c.servers[k], k, path, repoint)]
<1>1. c = [edit |-> c.edit, servers |-> c.servers] /\ c.edit \in Nat /\ c.servers \in [Keys -> Entry]
  BY DEF Fine, Content
<1>2. new = [edit |-> c.edit, servers |-> servers]
  BY <1>1 DEF RewrittenFile
<1>3. \A k \in Keys : servers[k] \in Entry /\ Len(servers[k].via) <= 1
  BY <1>1, EntriesStayFine DEF Fine
<1> HIDE DEF servers
<1>4. servers \in [Keys -> Entry]
  BY <1>3 DEF servers
<1>5. QED
  BY <1>1, <1>2, <1>3, <1>4 DEF Fine, Content

-----------------------------------------------------------------------------
(***************************************************************************)
(* Runs and their backups.                                                 *)
(***************************************************************************)

\* the steps at which a run's backup is complete
Copied == {"temp", "rename", "renamed", "done"}

Undoing(r) == run[r].undoes # None

\* A run that is filling its backup is the only one to do so.  One that has gone
\* on has what it read in it, an undo what the run it undoes had read.
RunOK(r) ==
    /\ run[r].pc = "copying" =>
         ~Undoing(r) /\ run[r].name \in DOMAIN backup /\ backup[run[r].name] = Partial
    /\ run[r].pc = "pending" => ~Undoing(r)
    /\ ~Undoing(r) /\ run[r].pc \in {"pending", "copying"} \cup Copied =>
         Fine(run[r].original) /\ Fine(run[r].next)
    /\ ~Undoing(r) /\ run[r].pc \in Copied =>
         run[r].name \in DOMAIN backup /\ backup[run[r].name] = run[r].original
    /\ Undoing(r) =>
         /\ run[r].undoes \in Runs /\ ~Undoing(run[r].undoes) /\ run[run[r].undoes].pc = "done"
         /\ run[r].next = run[run[r].undoes].original
         /\ run[r].original = None /\ run[r].name = None

Alone ==
    \A r, q \in Runs :
        r # q /\ run[r].pc = "copying" /\ run[q].pc = "copying" => run[r].name # run[q].name

BackupInv ==
    /\ ClientConfigTypeOK
    /\ Fine(file)
    /\ \A r \in Runs : RunOK(r)
    /\ Alone
    /\ \A c \in replaced : \E b \in DOMAIN backup : backup[b] = c

\* the steps at which a run may be
Steps == {"new", "pending", "copying", "temp", "rename", "renamed", "done", "ended"}

LEMMA RunsStep ==
    ASSUME NEW u \in RunState, NEW pc \in Steps
    PROVE  LET v == [u EXCEPT !.pc = pc] IN
           /\ v \in RunState /\ v.pc = pc
           /\ v.original = u.original /\ v.next = u.next /\ v.name = u.name /\ v.undoes = u.undoes
BY DEF RunState, Steps

LEMMA RunsName ==
    ASSUME NEW u \in RunState, NEW n \in Name
    PROVE  LET v == [u EXCEPT !.pc = "copying", !.name = n] IN
           /\ v \in RunState /\ v.pc = "copying" /\ v.name = n
           /\ v.original = u.original /\ v.next = u.next /\ v.undoes = u.undoes
BY DEF RunState

LEMMA UndoesBegin ==
    ASSUME NEW q \in Runs, NEW c \in Content
    PROVE  LET v == [NewRun EXCEPT !.pc = "temp", !.next = c, !.undoes = q] IN
           /\ v \in RunState /\ v.pc = "temp" /\ v.next = c /\ v.undoes = q
           /\ v.original = None /\ v.name = None
BY DEF RunState, NewRun

\* A run takes one step and keeps what it works with.
LEMMA GoesOn ==
    ASSUME run \in [Runs -> RunState], NEW r \in Runs, NEW pc \in Steps, Goes(r, pc)
    PROVE  /\ run' \in [Runs -> RunState]
           /\ \A q \in Runs : q # r => run'[q] = run[q]
           /\ run'[r].pc = pc
           /\ run'[r].original = run[r].original /\ run'[r].next = run[r].next
           /\ run'[r].name = run[r].name /\ run'[r].undoes = run[r].undoes
<1> DEFINE v == [run[r] EXCEPT !.pc = pc]
<1>1. run' = [run EXCEPT ![r] = v]
  BY DEF Goes
<1>2. /\ v \in RunState /\ v.pc = pc
      /\ v.original = run[r].original /\ v.next = run[r].next /\ v.name = run[r].name
      /\ v.undoes = run[r].undoes
  BY RunsStep
<1> HIDE DEF v
<1>3. QED
  BY <1>1, <1>2

\* No more than one more run fills a backup, and under a name of its own.
LEMMA StaysAlone ==
    ASSUME Alone, NEW r \in Runs, \A q \in Runs : q # r => run'[q] = run[q],
           run'[r].pc = "copying" =>
             \A q \in Runs : q # r /\ run[q].pc = "copying" => run[q].name # run'[r].name
    PROVE  Alone'
BY DEF Alone

\* A run that goes on from a complete backup, or ends, with all else as it was.
LEMMA GoingOn ==
    ASSUME BackupInv, NEW r \in Runs, NEW pc \in Copied \cup {"ended"}, Goes(r, pc),
           run[r].pc \in Copied \/ pc = "ended", run[r].pc # "done",
           UNCHANGED <<file, backup, edits, replaced>>
    PROVE  BackupInv'
<1>1. /\ run' \in [Runs -> RunState]
      /\ \A q \in Runs : q # r => run'[q] = run[q]
      /\ run'[r].pc = pc
      /\ run'[r].original = run[r].original /\ run'[r].next = run[r].next
      /\ run'[r].name = run[r].name /\ run'[r].undoes = run[r].undoes
  BY GoesOn DEF BackupInv, ClientConfigTypeOK, Copied, Steps
<1>2. ASSUME NEW q \in Runs PROVE RunOK(q)'
  <2>1. RunOK(q) /\ RunOK(r) /\ UNCHANGED backup
    BY DEF BackupInv
  <2>2. CASE q = r
    BY <1>1, <2>1, <2>2 DEF RunOK, Undoing, Copied
  <2>3. CASE q # r
    BY <1>1, <2>1, <2>3 DEF RunOK, Undoing, Copied
  <2>4. QED
    BY <2>2, <2>3
<1>3. Alone'
  BY <1>1, StaysAlone DEF BackupInv, Copied
<1>4. QED
  BY <1>1, <1>2, <1>3 DEF BackupInv, ClientConfigTypeOK, Fine

LEMMA BackupInvInductive ==
    ASSUME BackupInv, [ClientConfigNext]_vars
    PROVE  BackupInv'
<1> SUFFICES ASSUME BackupInv, [ClientConfigNext]_vars PROVE BackupInv'
  OBVIOUS
<1> USE DEF BackupInv, ClientConfigTypeOK
<1>1. CASE UNCHANGED vars
  BY <1>1 DEF vars, RunOK, Undoing, Alone
<1>2. ASSUME NEW r \in Runs, NEW path \in Paths, NEW repoint \in BOOLEAN, Builds(r, path, repoint)
      PROVE  BackupInv'
  <2> DEFINE next == RewrittenFile(file, path, repoint)
             pc == IF next = file THEN "ended" ELSE "pending"
             u == [NewRun EXCEPT !.pc = pc, !.original = file, !.next = next]
  <2>1. Fine(next) /\ next \in Content
    BY FilesStayFine DEF Fine
  <2> HIDE DEF next
  <2>2. pc \in {"pending", "ended"} /\ file \in Content
    OBVIOUS
  <2>3. /\ u \in RunState /\ u.pc \in {"ended", "pending"} /\ u.original = file /\ u.next = next
        /\ u.undoes = None
    <3> HIDE DEF pc
    <3>1. QED
      BY <2>1, <2>2 DEF RunState, NewRun
  <2>4. run[r].pc = "new" /\ run'[r] = u /\ (\A q \in Runs : q # r => run'[q] = run[q])
        /\ run' \in [Runs -> RunState] /\ UNCHANGED <<file, backup, edits, replaced>>
    BY <1>2, <2>3 DEF Builds, next
  <2> HIDE DEF u
  <2>5. ASSUME NEW q \in Runs PROVE RunOK(q)'
    <3>1. CASE q = r
      BY <2>1, <2>3, <2>4, <3>1 DEF RunOK, Undoing, Copied
    <3>2. CASE q # r
      BY <2>4, <3>2 DEF RunOK, Undoing, Copied
    <3>3. QED
      BY <3>1, <3>2
  <2>6. Alone'
    BY <2>3, <2>4, StaysAlone
  <2>7. QED
    BY <2>4, <2>5, <2>6
<1>3. ASSUME NEW r \in Runs, NEW stamp \in Stamps, NEW n \in 0..MaxSuffix, CreatesBackup(r, stamp, n)
      PROVE  BackupInv'
  <2> DEFINE name == <<stamp, n>>
  <2>0. name \in Name
    BY ClientConfigAssumption DEF Name
  <2>1. name \notin DOMAIN backup
    BY <1>3 DEF CreatesBackup, Free
  <2>2. /\ DOMAIN backup' = DOMAIN backup \cup {name}
        /\ backup'[name] = Partial
        /\ \A b \in DOMAIN backup : backup'[b] = backup[b]
    BY <1>3, <2>1 DEF CreatesBackup
  <2> DEFINE v == [run[r] EXCEPT !.pc = "copying", !.name = name]
  <2>3. run[r] \in RunState /\ run[r].pc = "pending" /\ run' = [run EXCEPT ![r] = v]
    BY <1>3 DEF CreatesBackup
  <2> HIDE DEF name
  <2>4. /\ v \in RunState /\ v.pc = "copying" /\ v.name = name
        /\ v.original = run[r].original /\ v.next = run[r].next /\ v.undoes = run[r].undoes
    BY <2>0, <2>3, RunsName
  <2> HIDE DEF v
  <2>5. /\ run' \in [Runs -> RunState] /\ run'[r] = v
        /\ \A q \in Runs : q # r => run'[q] = run[q]
    BY <2>3, <2>4
  <2>6. ASSUME NEW q \in Runs PROVE RunOK(q)'
    <3>0. RunOK(q) /\ RunOK(r)
      OBVIOUS
    <3>1. CASE q = r
      BY <2>2, <2>3, <2>4, <2>5, <3>0, <3>1 DEF RunOK, Undoing, Copied
    <3>2. CASE q # r
      BY <2>2, <2>3, <2>4, <2>5, <3>0, <3>2 DEF RunOK, Undoing, Copied
    <3>3. QED
      BY <3>1, <3>2
  <2>7. Alone'
    <3>1. \A q \in Runs : run[q].pc = "copying" => run[q].name # name
      BY <2>1 DEF RunOK
    <3>2. QED
      BY <2>4, <2>5, <3>1, StaysAlone
  <2>8. DOMAIN backup' \subseteq Name /\ \A b \in DOMAIN backup' : backup'[b] \in Content \cup {Partial}
    BY <2>0, <2>2
  <2>9. QED
    BY <1>3, <2>2, <2>5, <2>6, <2>7, <2>8 DEF CreatesBackup
<1>4. ASSUME NEW r \in Runs, FillsBackup(r) PROVE BackupInv'
  <2>1. /\ run[r].pc = "copying" /\ ~Undoing(r) /\ run[r].name \in DOMAIN backup
        /\ backup[run[r].name] = Partial /\ Fine(run[r].original)
    BY <1>4 DEF FillsBackup, RunOK
  <2>2. /\ DOMAIN backup' = DOMAIN backup
        /\ backup'[run[r].name] = run[r].original
        /\ \A b \in DOMAIN backup : b # run[r].name => backup'[b] = backup[b]
    BY <1>4, <2>1 DEF FillsBackup
  <2>3. /\ run' \in [Runs -> RunState]
        /\ \A q \in Runs : q # r => run'[q] = run[q]
        /\ run'[r].pc = "temp" /\ run'[r].name = run[r].name
        /\ run'[r].original = run[r].original /\ run'[r].next = run[r].next
        /\ run'[r].undoes = run[r].undoes
    BY <1>4, GoesOn DEF FillsBackup, Steps
  <2>6. ASSUME NEW q \in Runs PROVE RunOK(q)'
    <3>1. CASE q = r
      BY <2>1, <2>2, <2>3, <3>1 DEF RunOK, Undoing, Copied
    <3>2. CASE q # r
      <4>1. run[q].pc = "copying" => run[q].name # run[r].name
        BY <2>1, <3>2 DEF Alone
      <4>2. ~Undoing(q) /\ run[q].pc \in Copied => run[q].name # run[r].name
        BY <2>1, ContentAssumption DEF RunOK, Fine
      <4>3. QED
        BY <2>1, <2>2, <2>3, <3>2, <4>1, <4>2 DEF RunOK, Undoing, Copied
    <3>3. QED
      BY <3>1, <3>2
  <2>7. Alone'
    BY <2>3, StaysAlone
  <2>8. \A c \in replaced : \E b \in DOMAIN backup' : backup'[b] = c
    BY <2>1, <2>2, ContentAssumption
  <2>9. \A b \in DOMAIN backup' : backup'[b] \in Content \cup {Partial}
    BY <2>1, <2>2 DEF Fine
  <2>10. QED
    BY <1>4, <2>2, <2>3, <2>6, <2>7, <2>8, <2>9 DEF FillsBackup
<1>5. ASSUME NEW r \in Runs, WritesTemp(r) \/ Prints(r) \/ Ends(r) PROVE BackupInv'
  BY <1>5, GoingOn DEF WritesTemp, Prints, Ends, Copied
<1>6. ASSUME NEW r \in Runs, Renames(r) PROVE BackupInv'
  <2>1. run[r].pc = "rename" /\ RunOK(r)
    BY <1>6 DEF Renames
  <2>2. Fine(run[r].next)
    <3>1. CASE Undoing(r)
      BY <2>1, <3>1 DEF RunOK, Copied
    <3>2. CASE ~Undoing(r)
      BY <2>1, <3>2 DEF RunOK, Copied
    <3>3. QED
      BY <3>1, <3>2
  <2>3. file = run[r].original => \E b \in DOMAIN backup : backup[b] = file
    <3>1. CASE Undoing(r)
      BY <2>1, <3>1, ContentAssumption DEF RunOK, Fine
    <3>2. CASE ~Undoing(r)
      BY <2>1, <3>2 DEF RunOK, Copied
    <3>3. QED
      BY <3>1, <3>2
  <2>4. /\ run' \in [Runs -> RunState]
        /\ \A q \in Runs : q # r => run'[q] = run[q]
        /\ run'[r].pc = "renamed" /\ run'[r].name = run[r].name
        /\ run'[r].original = run[r].original /\ run'[r].next = run[r].next
        /\ run'[r].undoes = run[r].undoes
    BY <1>6, GoesOn DEF Renames, Steps
  <2>7. ASSUME NEW q \in Runs PROVE RunOK(q)'
    <3>0. UNCHANGED backup /\ RunOK(q)
      BY <1>6 DEF Renames
    <3>1. CASE q = r
      BY <2>1, <2>4, <3>0, <3>1 DEF RunOK, Undoing, Copied
    <3>2. CASE q # r
      BY <2>1, <2>4, <3>0, <3>2 DEF RunOK, Undoing, Copied
    <3>3. QED
      BY <3>1, <3>2
  <2>8. Alone'
    BY <2>4, StaysAlone
  <2>9. replaced' \subseteq replaced \cup {file} /\ (file \in replaced' => file \in replaced \/ file = run[r].original)
    BY <1>6 DEF Renames
  <2>10. Fine(file)' /\ file' \in Content
    BY <1>6, <2>2 DEF Renames, Fine
  <2>11. QED
    BY <1>6, <2>3, <2>4, <2>7, <2>8, <2>9, <2>10 DEF Renames, Fine
<1>7. ASSUME NEW r \in Runs, NEW q \in Runs, Restores(r, q) PROVE BackupInv'
  <2> DEFINE u == [NewRun EXCEPT !.pc = "temp", !.next = run[q].original, !.undoes = q]
  <2>1. /\ run[q].pc = "done" /\ run[q].name # None /\ ~Undoing(q) /\ run[r].pc = "new" /\ r # q
        /\ backup[run[q].name] = run[q].original /\ Fine(run[q].original)
    BY <1>7 DEF Restores, RunOK, Copied
  <2>3. /\ u \in RunState /\ u.pc = "temp" /\ u.next = run[q].original /\ u.undoes = q
        /\ u.original = None /\ u.name = None
    BY <2>1, UndoesBegin DEF Fine
  <2>4. /\ run'[r] = u /\ (\A p \in Runs : p # r => run'[p] = run[p])
        /\ run' \in [Runs -> RunState] /\ UNCHANGED <<file, backup, edits, replaced>>
    BY <1>7, <2>1, <2>3 DEF Restores, Reported
  <2> HIDE DEF u
  <2>5. q # None
    BY ClientConfigAssumption
  <2>6. ASSUME NEW p \in Runs PROVE RunOK(p)'
    <3>1. CASE p = r
      BY <2>1, <2>3, <2>4, <2>5, <3>1 DEF RunOK, Undoing, Copied
    <3>2. CASE p # r
      BY <2>1, <2>4, <3>2 DEF RunOK, Undoing, Copied
    <3>3. QED
      BY <3>1, <3>2
  <2>7. Alone'
    BY <2>3, <2>4, StaysAlone
  <2>8. QED
    BY <2>4, <2>6, <2>7
<1>8. ASSUME NEW k \in Keys, NEW e \in Plain, ClientEdits(k, e) PROVE BackupInv'
  <2>1. e \in Entry /\ Len(e.via) <= 1
    BY PlainIsFine
  <2>2. /\ file = [edit |-> file.edit, servers |-> file.servers] /\ file.servers \in [Keys -> Entry]
        /\ file' = [edit |-> edits + 1, servers |-> [file.servers EXCEPT ![k] = e]]
    BY <1>8 DEF ClientEdits, Content
  <2>3. Fine(file)' /\ file' \in Content
    BY <2>1, <2>2 DEF Fine, Content
  <2>4. (\A r \in Runs : RunOK(r)') /\ Alone'
    BY <1>8 DEF ClientEdits, RunOK, Undoing, Alone
  <2>5. QED
    BY <1>8, <2>3, <2>4 DEF ClientEdits
<1>9. QED
  BY <1>1, <1>2, <1>3, <1>4, <1>5, <1>6, <1>7, <1>8 DEF ClientConfigNext

LEMMA BackupInvAlways == ClientConfigSpec => []BackupInv
<1>1. ClientConfigInit => BackupInv
  <2> SUFFICES ASSUME ClientConfigInit PROVE BackupInv
    OBVIOUS
  <2>1. \A e \in Plain : e \in Entry /\ Len(e.via) <= 1
    BY PlainIsFine
  <2>2. Fine(file)
    BY <2>1 DEF ClientConfigInit, Fine, Content
  <2>3. NewRun \in RunState /\ NewRun.pc = "new" /\ NewRun.undoes = None
    BY DEF NewRun, RunState
  <2>4. ClientConfigTypeOK
    BY <2>2, <2>3 DEF ClientConfigInit, ClientConfigTypeOK, Fine
  <2>5. \A r \in Runs : RunOK(r)
    BY <2>3 DEF ClientConfigInit, RunOK, Undoing, Copied
  <2>6. Alone /\ replaced = {}
    BY <2>3 DEF ClientConfigInit, Alone
  <2>7. QED
    BY <2>2, <2>4, <2>5, <2>6 DEF BackupInv
<1>2. QED
  BY <1>1, BackupInvInductive, PTL DEF ClientConfigSpec

-----------------------------------------------------------------------------
\* At every moment the file is whole and what init replaced is in a backup.
THEOREM NothingIsEverLost == ClientConfigSpec => []NothingIsLost
<1>1. BackupInv => NothingIsLost
  BY ContentAssumption DEF BackupInv, NothingIsLost, Fine
<1>2. QED
  BY <1>1, BackupInvAlways, PTL

\* No server is ever behind two holdcalls.
THEOREM HoldcallsDoNotNest == ClientConfigSpec => []OneHop
<1>1. BackupInv => OneHop
  BY DEF BackupInv, OneHop, Fine
<1>2. QED
  BY <1>1, BackupInvAlways, PTL

\* An undo puts back what the run it undoes had found.
THEOREM UndoAlwaysRestores == ClientConfigSpec => UndoRestores
<1>1. ASSUME BackupInv, [ClientConfigNext]_vars, NEW r \in Runs,
             run[r].undoes # None, run[r].pc = "rename", run'[r].pc = "renamed"
      PROVE  file' = run[run[r].undoes].original
  <2> USE DEF BackupInv, ClientConfigTypeOK
  <2>1. CASE Renames(r)
    BY <1>1, <2>1 DEF Renames, RunOK, Undoing
  <2>2. ASSUME NEW q \in Runs, q # r,
               \/ \E path \in Paths, repoint \in BOOLEAN : Builds(q, path, repoint)
               \/ \E stamp \in Stamps, n \in 0..MaxSuffix : CreatesBackup(q, stamp, n)
               \/ FillsBackup(q) \/ WritesTemp(q) \/ Renames(q) \/ Prints(q)
               \/ \E p \in Runs : Restores(q, p)
               \/ Ends(q)
        PROVE  FALSE
    BY <1>1, <2>2 DEF Builds, CreatesBackup, FillsBackup, WritesTemp, Renames, Prints, Restores,
       Ends, Goes
  <2>3. CASE \/ \E path \in Paths, repoint \in BOOLEAN : Builds(r, path, repoint)
             \/ \E stamp \in Stamps, n \in 0..MaxSuffix : CreatesBackup(r, stamp, n)
             \/ FillsBackup(r) \/ WritesTemp(r) \/ Prints(r)
             \/ \E p \in Runs : Restores(r, p)
    BY <1>1, <2>3 DEF Builds, CreatesBackup, FillsBackup, WritesTemp, Prints, Restores
  <2>4. CASE Ends(r)
    <3>1. run'[r].pc = "ended"
      BY <1>1, <2>4, GoesOn DEF Ends, Steps
    <3>2. QED
      BY <1>1, <3>1
  <2>5. CASE UNCHANGED vars \/ \E k \in Keys, e \in Plain : ClientEdits(k, e)
    BY <1>1, <2>5 DEF vars, ClientEdits
  <2>6. QED
    BY <1>1, <2>1, <2>2, <2>3, <2>4, <2>5 DEF ClientConfigNext
<1>2. BackupInv /\ [ClientConfigNext]_vars =>
        [\A r \in Runs :
           run[r].undoes # None /\ run[r].pc = "rename" /\ run'[r].pc = "renamed" =>
              file' = run[run[r].undoes].original]_vars
  BY <1>1
<1>3. QED
  BY <1>2, BackupInvAlways, PTL DEF ClientConfigSpec, UndoRestores
=============================================================================
