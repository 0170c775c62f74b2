---------------------------- MODULE LedgerAudit ----------------------------
(***************************************************************************)
(* The ledger with an auditor beside it.  Verify takes no lock: it reads   *)
(* the file, then the sidecar, while Append calls go on in other           *)
(* processes.  The tail of the ledger may also be lost to something that   *)
(* is not Fabric: the file is put back to an earlier, shorter state.       *)
(***************************************************************************)
EXTENDS Ledger

CONSTANT
    Losses       \* bound: how often the tail is lost

ASSUME LossAssumption == Losses \in Nat

VARIABLES
    vpc,         \* where Verify is: "idle", "entries" or "anchor"
    snap,        \* the lines Verify has read
    owed,        \* the hashes Append had returned when Verify was called
    report,      \* the last verdict
    losses,      \* how often the tail has been lost
    lost         \* "no"; after a loss "fresh", or "hidden" from the sidecar

audit == <<vpc, snap, owed, report, losses, lost>>
auditVars == <<vars, audit>>

AuditTypeOK ==
    /\ TypeOK
    /\ vpc \in {"idle", "entries", "anchor"}
    /\ snap \in Seq(Line)
    /\ owed \subseteq Hash
    /\ report \in {"none", "intact", "unreadable", "broken", "mismatch",
                           "badAnchor", "deleted", "headMismatch"}
    /\ losses \in 0..Losses
    /\ lost \in {"no", "fresh", "hidden"}

AuditInit ==
    /\ Init
    /\ vpc = "idle"
    /\ snap = <<>>
    /\ owed = {}
    /\ report = "none"
    /\ losses = 0
    /\ lost = "no"

CallVerify ==
    /\ vpc = "idle"
    /\ vpc' = "entries"
    /\ owed' = acked
    /\ report' = "none"
    /\ UNCHANGED <<vars, snap, losses, lost>>

(***************************************************************************)
(* Entries and the chain walk, which returns at the first bad entry.       *)
(***************************************************************************)
ReadEntries ==
    /\ vpc = "entries"
    /\ snap' = lines
    /\ IF ChainVerdict(lines) = "intact"
         THEN vpc' = "anchor" /\ UNCHANGED report
         ELSE /\ vpc' = "idle"
              /\ report' = ChainVerdict(lines)
    /\ UNCHANGED <<vars, owed, losses, lost>>

(***************************************************************************)
(* readCheckpoint, at whatever the sidecar holds by now, against the       *)
(* entries read before.                                                    *)
(***************************************************************************)
ReadAnchor ==
    /\ vpc = "anchor"
    /\ vpc' = "idle"
    /\ report' = AnchorVerdict(snap, anchor)
    /\ UNCHANGED <<vars, snap, owed, losses, lost>>

(***************************************************************************)
(* The file goes back to an earlier state while no Append is running.  The *)
(* sidecar can tell only if no power loss has rolled it back before, and   *)
(* nothing was appended over an earlier loss.                              *)
(***************************************************************************)
Anchored ==
    \/ acked = {} \/ anchor = Unreadable
    \/ Readable(anchor) /\ \A h \in acked : Len(h) <= anchor.count

LoseTail ==
    /\ losses < Losses
    /\ losses' = losses + 1
    /\ \A t \in Threads : pc[t] = "idle"
    /\ \E k \in 0..(Len(lines) - 1) :
          /\ lines' = SubSeq(lines, 1, k)
          /\ flushed' = IF flushed < k THEN flushed ELSE k
    /\ frag' = 0
    /\ lost' = IF lost # "hidden" /\ Anchored THEN "fresh" ELSE "hidden"
    /\ UNCHANGED <<anchor, stale, lockfile, mutex, cache, pc, op, acked, faults,
                   vpc, snap, owed, report>>

(***************************************************************************)
(* The ledger's own steps.  Verify runs in a process of its own, which     *)
(* only a power loss ends.                                                 *)
(***************************************************************************)
Write ==
    /\ Running
    /\ lost' = IF lost = "fresh" /\ Len(lines') > Len(lines) THEN "hidden" ELSE lost
    /\ UNCHANGED <<vpc, snap, owed, report, losses>>

Outage ==
    /\ PowerLoss
    /\ vpc' = "idle"
    /\ snap' = <<>>
    /\ owed' = {}
    /\ report' = "none"
    /\ lost' = IF lost = "no" THEN "no" ELSE "hidden"
    /\ UNCHANGED losses

AuditNext ==
    \/ CallVerify \/ ReadEntries \/ ReadAnchor
    \/ LoseTail
    \/ Write
    \/ Outage

AuditSpec == AuditInit /\ [][AuditNext]_auditVars

----------------------------------------------------------------------------
(* Properties                                                              *)

Holds(ls, h) == Len(h) \in 1..Len(ls) /\ ls[Len(h)].hash = h

(***************************************************************************)
(* A ledger Verify calls intact holds every entry whose Append had         *)
(* returned before Verify was called: neither a lost tail nor an append    *)
(* racing the two reads slips through, unless something was appended over  *)
(* the loss or a power loss has rolled the sidecar back.                   *)
(***************************************************************************)
IntactMeansComplete ==
    report = "intact" /\ lost # "hidden" => \A h \in owed : Holds(snap, h)

(***************************************************************************)
(* With the tail in place Verify never reports a broken chain, a record    *)
(* that does not match its hash, or a head that does not match: no         *)
(* interleaving, failure or crash of Fabric looks like a forged entry.     *)
(***************************************************************************)
NoForgeryAlarm ==
    lost = "no" => report \notin {"broken", "mismatch", "headMismatch"}

(***************************************************************************)
(* ADR-0010: concurrency cannot produce what "masquerades as tampering".   *)
(* Here, while nothing fails and nothing is lost: entries are reported     *)
(* deleted only if some are.                                               *)
(***************************************************************************)
NoPhantomDeletion == report = "deleted" => lost # "no"

(***************************************************************************)
(* The package comment: a sidecar exists "so a truncated ledger is         *)
(* rejected".                                                              *)
(***************************************************************************)
TruncationRejected ==
    report = "intact" => \A h \in owed : Holds(snap, h)
=============================================================================
