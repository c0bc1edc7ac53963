---- MODULE LawfulLedger ----
(***************************************************************************)
(* What the journal promises whoever reads it, and nothing of how it is    *)
(* written: it grows one entry at a time, and every entry is justified by  *)
(* those before it.                                                        *)
(***************************************************************************)
EXTENDS Evidence

VARIABLE log   \* the entries of journal.db, the oldest first

LedgerInit == log = <<>>

Record(e) == Lawful(log, e) /\ log' = Append(log, e)

LedgerNext == \E e \in Range(log') : Record(e)

LedgerSpec == LedgerInit /\ [][LedgerNext]_log
====
