---------------------------- MODULE ClientConfig ----------------------------
(***************************************************************************)
(* holdcall init: internal/clientconfig and cmd/holdcall/init.go.          *)
(*                                                                         *)
(* A run of init reads a client's configuration, works out what it would   *)
(* be with every stdio server behind holdcall, backs up what it read and   *)
(* replaces the file; init --undo puts a backup back.  Several runs, of    *)
(* several installed binaries, and the client, which keeps its own data in *)
(* the same file, may be at it at once, and a run may fail or be killed at *)
(* any step.                                                               *)
(*                                                                         *)
(* One file: a run handles several one after the other, reading all before *)
(* it writes the first, and an error ends it.  A file that is missing or   *)
(* is not a JSON object is left alone.  The temporary file is the run's    *)
(* own until the rename, and stands for the file a symbolic link leads to. *)
(***************************************************************************)
EXTENDS Naturals, Sequences

CONSTANTS
    Runs,      \* runs of holdcall init
    Keys,      \* names under mcpServers
    ValidKeys, \* those that are connector names (ValidConnectorTarget)
    Paths,     \* where holdcall binaries are
    Stamps,    \* what the clock may read; it may read the same twice
    MaxSuffix, \* bound: the suffixes tried; Cardinality(Runs) never runs out
    MaxEdits,  \* bound: changes the client makes
    Partial,   \* a file not written to its end
    None

ASSUME ClientConfigAssumption ==
    /\ ValidKeys \subseteq Keys
    /\ MaxSuffix \in Nat /\ MaxEdits \in Nat
    /\ None \notin Runs

VARIABLES
    file,     \* the configuration
    backup,   \* the backups beside it, by the time and suffix in their names
    run,      \* per run where it is and what it works with
    edits,    \* changes made by the client
    replaced  \* ghost: what init has replaced, unless it changed under its hands

vars == <<file, backup, run, edits, replaced>>

\* A server, started directly or through the holdcall binaries of "via",
\* outermost first; "other" is one that is reached by URL or not understood.
Entry   == [kind : {"stdio", "other"}, via : Seq(Paths)]
Content == [edit : Nat, servers : [Keys -> Entry]]
Name    == Stamps \X Nat

ASSUME ContentAssumption == Partial \notin Content /\ None \notin Content

\* "new", then one step after the other; "ended" without changing anything more
RunState ==
    [pc : {"new", "pending", "copying", "temp", "rename", "renamed", "done", "ended"},
     original : Content \cup {None}, next : Content \cup {Partial, None},
     name : Name \cup {None}, undoes : Runs \cup {None}]

NewRun == [pc |-> "new", original |-> None, next |-> None, name |-> None, undoes |-> None]

ClientConfigTypeOK ==
    /\ file \in Content
    /\ DOMAIN backup \subseteq Name
    /\ \A b \in DOMAIN backup : backup[b] \in Content \cup {Partial}
    /\ run \in [Runs -> RunState]
    /\ edits \in Nat
    /\ replaced \subseteq Content

\* a configuration as a client leaves it
Plain == [kind : {"stdio", "other"}, via : {<<>>}]

ClientConfigInit ==
    /\ file \in [edit : {0}, servers : [Keys -> Plain]]
    /\ backup = <<>>
    /\ run = [r \in Runs |-> NewRun]
    /\ edits = 0
    /\ replaced = {}

-----------------------------------------------------------------------------
(* rewriteEntry *)

\* Mutant: by the path of the binary that runs
Through_ThisPath(e, path) == e.via # <<>> /\ e.via[1] = path

\* isNimCommand goes by the base name: whichever holdcall it is
Through(e, path) == e.via # <<>>

Rewritten(e, k, path, repoint) ==
    CASE e.kind = "other" -> e
      [] e.kind = "stdio" /\ Through(e, path) ->
           IF repoint THEN [e EXCEPT !.via[1] = path] ELSE e
      [] e.kind = "stdio" /\ ~Through(e, path) ->
           IF k \in ValidKeys THEN [e EXCEPT !.via = <<path>> \o @] ELSE e

RewrittenFile(c, path, repoint) ==
    [c EXCEPT !.servers = [k \in Keys |-> Rewritten(@[k], k, path, repoint)]]

-----------------------------------------------------------------------------
(* A run *)

Goes(r, pc) == run' = [run EXCEPT ![r].pc = pc]

\* BuildResult.  A run without --write ends here, and so does one with nothing
\* to change.
Builds(r, path, repoint) ==
    LET next == RewrittenFile(file, path, repoint) IN
    /\ run[r].pc = "new"
    /\ run' = [run EXCEPT ![r] = [NewRun EXCEPT
                 !.pc = IF next = file THEN "ended" ELSE "pending",
                 !.original = file, !.next = next]]
    /\ UNCHANGED <<file, backup, edits, replaced>>

\* Mutant: a taken name is taken again
Free_Always(stamp, n) == n = 0

\* O_EXCL, and the next suffix while the name is taken
Free(stamp, n) ==
    /\ <<stamp, n>> \notin DOMAIN backup
    /\ \A m \in 0..MaxSuffix : m < n => <<stamp, m>> \in DOMAIN backup

\* writeNewFile: the file is there as soon as its name is taken
CreatesBackup(r, stamp, n) ==
    /\ run[r].pc = "pending"
    /\ Free(stamp, n)
    /\ backup' = [b \in DOMAIN backup \cup {<<stamp, n>>} |->
                    IF b = <<stamp, n>> THEN Partial ELSE backup[b]]
    /\ run' = [run EXCEPT ![r].pc = "copying", ![r].name = <<stamp, n>>]
    /\ UNCHANGED <<file, edits, replaced>>

FillsBackup(r) ==
    /\ run[r].pc = "copying"
    /\ backup' = [backup EXCEPT ![run[r].name] = run[r].original]
    /\ Goes(r, "temp")
    /\ UNCHANGED <<file, edits, replaced>>

\* writeAtomic, up to the rename
WritesTemp(r) ==
    /\ run[r].pc = "temp"
    /\ Goes(r, "rename")
    /\ UNCHANGED <<file, backup, edits, replaced>>

\* and the rename: what the run read is what it replaces, unless it came in between
Renames(r) ==
    /\ run[r].pc = "rename"
    /\ file' = run[r].next
    /\ replaced' = IF file = run[r].original THEN replaced \cup {file} ELSE replaced
    /\ Goes(r, "renamed")
    /\ UNCHANGED <<backup, edits>>

Prints(r) ==
    /\ run[r].pc = "renamed"
    /\ Goes(r, "done")
    /\ UNCHANGED <<file, backup, edits, replaced>>

\* Mutant: the name that was tried first
Reported_First(r) == <<run[r].name[1], 0>>

\* the path Apply returns and the run prints
Reported(r) == run[r].name

\* RestoreBackup, up to the temporary file.  Operators are told to give it what a
\* run printed; it takes any backup, including one left half written.
Restores(r, q) ==
    /\ run[r].pc = "new"
    /\ run[q].pc = "done" /\ run[q].name # None
    /\ run' = [run EXCEPT ![r] = [NewRun EXCEPT
                 !.pc = "temp", !.next = backup[Reported(q)], !.undoes = q]]
    /\ UNCHANGED <<file, backup, edits, replaced>>

\* a step fails, or the run is killed; a temporary file is all that it leaves
Ends(r) ==
    /\ run[r].pc \in {"pending", "copying", "temp", "rename", "renamed"}
    /\ Goes(r, "ended")
    /\ UNCHANGED <<file, backup, edits, replaced>>

-----------------------------------------------------------------------------
\* The client, or its user, changes its configuration, and replaces the file as
\* a whole: a server, or some data of its own.
ClientEdits(k, e) ==
    /\ edits < MaxEdits
    /\ edits' = edits + 1
    /\ file' = [file EXCEPT !.edit = edits + 1, !.servers[k] = e]
    /\ UNCHANGED <<backup, run, replaced>>

ClientConfigNext ==
    \/ \E r \in Runs :
         \/ \E path \in Paths, repoint \in BOOLEAN : Builds(r, path, repoint)
         \/ \E stamp \in Stamps, n \in 0..MaxSuffix : CreatesBackup(r, stamp, n)
         \/ FillsBackup(r) \/ WritesTemp(r) \/ Renames(r) \/ Prints(r)
         \/ \E q \in Runs : Restores(r, q)
         \/ Ends(r)
    \/ \E k \in Keys, e \in Plain : ClientEdits(k, e)

ClientConfigSpec == ClientConfigInit /\ [][ClientConfigNext]_vars

-----------------------------------------------------------------------------
(* Properties *)

\* The client finds a whole file at every moment, and what init replaced is whole
\* in a backup, from then on and whatever later runs do in the same instant
\* (Apply, writeNewFile, writeAtomic).  What the client wrote after the run had
\* read the file is not: it is lost.
NothingIsLost ==
    /\ file # Partial
    /\ \A c \in replaced : \E b \in DOMAIN backup : backup[b] = c

\* "init --undo" with the path a run printed brings back what that run had found,
\* in one step (README.md:147), however many runs came in between.
UndoRestores ==
    [][\A r \in Runs :
         run[r].undoes # None /\ run[r].pc = "rename" /\ run'[r].pc = "renamed" =>
            file' = run[run[r].undoes].original]_vars

\* No server is ever behind two holdcalls, whichever binaries init ran from and in
\* whatever order they are run, repointed and undone (rewriteEntry; "the command is
\* idempotent", getting-started.md:77).  The binaries are all named holdcall.
OneHop == \A k \in Keys : Len(file.servers[k].via) <= 1
=============================================================================
