---------------------------- MODULE EvidenceLog ----------------------------
(***************************************************************************)
(* What the evidence ledger promises its users, with no file, lock or      *)
(* process in sight: a log of records that only ever grows, and receipts   *)
(* (the Entry values Append hands back) that each commit to a history the  *)
(* log really has.  Ledger implements this specification.                  *)
(***************************************************************************)
EXTENDS Naturals, Sequences

CONSTANTS
    Records,     \* the evidence records
    Legacies     \* the histories a ledger may already hold when it is opened

VARIABLES
    log,         \* the committed records, oldest first
    receipts     \* the histories (hashes) Append has returned to a caller

vars == <<log, receipts>>

IsHistory(h, s) == Len(h) <= Len(s) /\ h = SubSeq(s, 1, Len(h))

TypeOK ==
    /\ log \in Seq(Records)
    /\ receipts \subseteq Seq(Records)

Init ==
    /\ log \in Legacies
    /\ receipts = {}

(***************************************************************************)
(* One or more records become permanent.  Several may do so at once: a     *)
(* flush covers every line written before it.                              *)
(***************************************************************************)
Commit ==
    /\ log' \in Seq(Records)
    /\ Len(log') > Len(log)
    /\ IsHistory(log, log')
    /\ UNCHANGED receipts

(***************************************************************************)
(* A caller is told that its record is stored.                             *)
(***************************************************************************)
Acknowledge ==
    \E n \in 1..Len(log) :
        /\ receipts' = receipts \cup {SubSeq(log, 1, n)}
        /\ UNCHANGED log

Next == Commit \/ Acknowledge

Spec == Init /\ [][Next]_vars

----------------------------------------------------------------------------
(***************************************************************************)
(* Every receipt ever handed out still names a beginning of the log.       *)
(***************************************************************************)
ReceiptsHonoured == \A h \in receipts : IsHistory(h, log)

(***************************************************************************)
(* No step forgets or rewrites a committed record.                         *)
(***************************************************************************)
AppendOnly == [][IsHistory(log, log')]_log
=============================================================================
