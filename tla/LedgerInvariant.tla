-------------------------- MODULE LedgerInvariant --------------------------
(***************************************************************************)
(* The inductive invariant behind the safety properties of Ledger.  TLC    *)
(* checks it on MCLedger; LedgerProofs proves it for every constant.       *)
(***************************************************************************)
EXTENDS Ledger

(***************************************************************************)
(* A hash is exactly the history of records up to its line.                *)
(***************************************************************************)
History(ls, i) == [j \in 1..i |-> ls[j].record]
Chained(ls) ==
    \A i \in 1..Len(ls) :
        /\ ls[i].prev = History(ls, i - 1)
        /\ ls[i].hash = History(ls, i)

LockHeld == \A t \in Threads : pc[t] \in Locked => lockfile

(***************************************************************************)
(* The file has grown since a cache was taken, or the cache is right.      *)
(***************************************************************************)
CacheSound ==
    \A h \in Handles :
        /\ cache[h].size <= Size
        /\ CacheHit(cache[h]) =>
              cache[h].head = LastHash(lines) /\ cache[h].count = Len(lines)

(***************************************************************************)
(* What the writer has read is still so when it uses it, and what it has   *)
(* written stays where it is.                                              *)
(***************************************************************************)
Written(t) ==
    /\ op[t].count + 1 \in 1..Len(lines)
    /\ lines[op[t].count + 1].hash = HashOf(t)

OpSound(t) ==
    /\ op[t].ok => pc[t] \in {"release", "unlock"}
    /\ pc[t] = "write" =>
          op[t].prev = LastHash(lines) /\ op[t].count = Len(lines)
    /\ pc[t] \in {"sync", "truncate", "stamp"} \/ op[t].ok => Written(t)
    /\ pc[t] \in {"sync", "truncate", "stamp"} \/ (pc[t] = "release" /\ op[t].ok)
          => op[t].count + 1 = Len(lines)
    /\ pc[t] \in {"truncate", "stamp"} \/ op[t].ok => op[t].count + 1 <= flushed
    /\ pc[t] = "release" /\ op[t].ok => anchor = NewAnchor(t)

WriterSound == \A t \in Threads : OpSound(t)

Anchors(a) ==
    Readable(a) =>
        /\ a.count \in 1..flushed
        /\ a.hash = lines[a.count].hash

AnchorsSound == \A a \in stale \cup {anchor} : Anchors(a)

AckedFlushed ==
    \A h \in acked : Len(h) \in 1..flushed /\ lines[Len(h)].hash = h

IInv ==
    /\ TypeOK
    /\ OneWriter
    /\ LockHeld
    /\ Chained(lines)
    /\ CacheSound
    /\ WriterSound
    /\ AnchorsSound
    /\ AckedFlushed
=============================================================================
