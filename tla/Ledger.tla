------------------------------- MODULE Ledger -------------------------------
(***************************************************************************)
(* The evidence ledger of internal/ledger/ledger.go: a JSON Lines file to  *)
(* which any number of concurrent Append calls, in any number of Fabric    *)
(* processes, add hash-chained entries, and a checkpoint sidecar that      *)
(* anchors its tail.  Every system call of Append is a step of its own, so *)
(* that calls interleave, fail, and are killed between any two of them.    *)
(*                                                                         *)
(* SHA-256 is taken to be injective: a hash is modelled by what it commits *)
(* to, the sequence of records from the start of the chain.                *)
(***************************************************************************)
EXTENDS Naturals, Sequences, FiniteSets

CONSTANTS
    Threads,     \* the goroutines that call Append
    Handles,     \* the *Ledger values Open returned for the one path
    Procs,       \* the operating-system processes
    HandleOf,    \* the handle each goroutine calls Append on
    ProcOf,      \* the process each handle lives in
    Records,     \* the evidence records
    Rejected,    \* those Append refuses to store: over maxRecordBytes
    Legacies,    \* histories stored before checkpoints existed
    LineBytes,   \* the size of a stored line
    MaxLines,    \* bound: lines stored or on their way
    Faults,      \* the kinds of fault that may happen
    MaxFaults,   \* bound: how many faults happen
    NoThread,    \* nobody holds a mutex
    NoRecord     \* a thread outside Append carries no record

FaultKinds == {"io", "torn", "kill", "power"}

ASSUME OwnerAssumption ==
    /\ HandleOf \in [Threads -> Handles]
    /\ ProcOf \in [Handles -> Procs]
    /\ NoThread \notin Threads
ASSUME RecordAssumption ==
    /\ Rejected \subseteq Records
    /\ NoRecord \notin Records
    /\ Legacies \subseteq Seq(Records)
    /\ LineBytes \in Nat \ {0, 1}
ASSUME BoundAssumption ==
    /\ MaxLines \in Nat
    /\ MaxFaults \in Nat
    /\ Faults \subseteq FaultKinds

VARIABLES
    lines,       \* the complete lines of the ledger file
    frag,        \* bytes after the last newline: the residue of a torn write
    flushed,     \* how many leading lines are known to be on stable storage
    anchor,      \* the checkpoint sidecar <ledger>.head
    stale,       \* earlier sidecar contents that may still be what is on disk
    lockfile,    \* whether <ledger>.lock exists
    mutex,       \* per process, the thread that holds the path's mutex
    cache,       \* per handle, the cached head
    pc,          \* where each thread is in Append
    op,          \* the local variables of each thread's Append
    acked,       \* the hashes of the entries Append has returned
    faults       \* how many faults have happened

disk == <<lines, frag, flushed, anchor, stale>>
vars == <<lines, frag, flushed, anchor, stale, lockfile, mutex, cache, pc, op,
          acked, faults>>

----------------------------------------------------------------------------
(* Values                                                                  *)

Hash == Seq(Records)
NoHash == <<>>                                     \* the "" before entry 0
ChainHash(prev, r) == Append(prev, r)

Line == [record : Records, prev : Hash, hash : Hash, clean : BOOLEAN, end : Nat]
Checkpoint == [hash : Hash, count : Nat]
Absent == [state |-> "absent"]
Unreadable == [state |-> "unreadable"]
Readable(a) == a \notin {Absent, Unreadable}

Cache == [has : BOOLEAN, head : Hash, count : Nat, size : Nat]
NoCache == [has |-> FALSE, head |-> NoHash, count |-> 0, size |-> 0]

Op == [record : Records \cup {NoRecord}, prev : Hash, count : Nat, ok : BOOLEAN]
NoOp == [record |-> NoRecord, prev |-> NoHash, count |-> 0, ok |-> FALSE]

Steps == {"idle", "mutex", "lock", "head", "write", "sync", "truncate", "stamp",
          "release", "unlock"}

Proc(t) == ProcOf[HandleOf[t]]
HashOf(t) == ChainHash(op[t].prev, op[t].record)

LastHash(ls) == IF ls = <<>> THEN NoHash ELSE ls[Len(ls)].hash
LastEnd(ls) == IF ls = <<>> THEN 0 ELSE ls[Len(ls)].end
Size == LastEnd(lines) + frag

(***************************************************************************)
(* Entries parses every complete line and drops an unterminated last one.  *)
(* A line written behind a fragment has the fragment in front of it and is *)
(* no longer JSON.                                                         *)
(***************************************************************************)
Parsable(ls) == \A i \in 1..Len(ls) : ls[i].clean

(***************************************************************************)
(* The verdict of Verify on the lines and the sidecar it has read.         *)
(***************************************************************************)
PrevOf(ls, i) == IF i = 1 THEN NoHash ELSE ls[i - 1].hash
Linked(ls) == \A i \in 1..Len(ls) : ls[i].prev = PrevOf(ls, i)
Hashed(ls) == \A i \in 1..Len(ls) :
                 ls[i].hash = ChainHash(ls[i].prev, ls[i].record)

ChainVerdict(ls) ==
    IF ~Parsable(ls) THEN "unreadable"
    ELSE IF ~Linked(ls) THEN "broken"
    ELSE IF ~Hashed(ls) THEN "mismatch"
    ELSE "intact"

TailUnchecked(ls, a) == "intact"                   \* mutant: the sidecar ignored
AnchorVerdict(ls, a) ==
    CASE a = Absent -> "intact"
      [] a = Unreadable -> "badAnchor"
      [] Readable(a) /\ a.count # Len(ls) -> "deleted"
      [] Readable(a) /\ a.count = Len(ls) /\ a.hash # LastHash(ls) -> "headMismatch"
      [] OTHER -> "intact"

Outcome(ls, a) ==
    IF ChainVerdict(ls) = "intact" THEN AnchorVerdict(ls, a) ELSE ChainVerdict(ls)

TypeOK ==
    /\ lines \in Seq(Line)
    /\ frag \in Nat
    /\ flushed \in 0..Len(lines)
    /\ anchor \in Checkpoint \cup {Absent, Unreadable}
    /\ stale \subseteq Checkpoint \cup {Absent, Unreadable}
    /\ lockfile \in BOOLEAN
    /\ mutex \in [Procs -> Threads \cup {NoThread}]
    /\ cache \in [Handles -> Cache]
    /\ pc \in [Threads -> Steps]
    /\ op \in [Threads -> Op]
    /\ \A t \in Threads : pc[t] # "idle" => op[t].record \in Records
    /\ acked \subseteq Hash
    /\ faults \in 0..MaxFaults

----------------------------------------------------------------------------
(* Steps of Append                                                         *)

LegacyLine(l, i) ==
    [record |-> l[i], prev |-> SubSeq(l, 1, i - 1), hash |-> SubSeq(l, 1, i),
     clean |-> TRUE, end |-> i * LineBytes]

Init ==
    /\ \E l \in Legacies : lines = [i \in 1..Len(l) |-> LegacyLine(l, i)]
    /\ frag = 0
    /\ flushed = Len(lines)
    /\ anchor = Absent
    /\ stale = {}
    /\ lockfile = FALSE
    /\ mutex = [p \in Procs |-> NoThread]
    /\ cache = [h \in Handles |-> NoCache]
    /\ pc = [t \in Threads |-> "idle"]
    /\ op = [t \in Threads |-> NoOp]
    /\ acked = {}
    /\ faults = 0

At(t, step) == pc[t] = step
Goto(t, step) == pc' = [pc EXCEPT ![t] = step]
Fault(kind) ==
    /\ kind \in Faults
    /\ faults < MaxFaults
    /\ faults' = faults + 1

Call(t, r) ==
    /\ At(t, "idle")
    /\ Len(lines) + Cardinality({u \in Threads : pc[u] # "idle"}) < MaxLines
    /\ op' = [op EXCEPT ![t].record = r]
    /\ Goto(t, "mutex")
    /\ UNCHANGED <<disk, lockfile, mutex, cache, acked, faults>>

LockMutex(t) ==
    /\ At(t, "mutex")
    /\ mutex[Proc(t)] = NoThread
    /\ mutex' = [mutex EXCEPT ![Proc(t)] = t]
    /\ Goto(t, "lock")
    /\ UNCHANGED <<disk, lockfile, cache, op, acked, faults>>

(***************************************************************************)
(* acquireFileLock: O_EXCL creates the lockfile or reports that it exists; *)
(* the call polls until its ten seconds are over.                          *)
(***************************************************************************)
LockIgnored == TRUE                                \* mutant: no O_EXCL
LockFree == ~lockfile

CreateLockfile(t) ==
    /\ At(t, "lock")
    /\ LockFree
    /\ lockfile' = TRUE
    /\ Goto(t, "head")
    /\ UNCHANGED <<disk, mutex, cache, op, acked, faults>>

LockTimeout(t) ==
    /\ At(t, "lock")
    /\ lockfile
    /\ Goto(t, "unlock")
    /\ UNCHANGED <<disk, lockfile, mutex, cache, op, acked, faults>>

LockError(t) ==
    /\ At(t, "lock")
    /\ Fault("io")
    /\ Goto(t, "unlock")
    /\ UNCHANGED <<disk, lockfile, mutex, cache, op, acked>>

(***************************************************************************)
(* head and the size check: the cached head when the file still has the    *)
(* size the cache was taken at, else every line is read again.             *)
(***************************************************************************)
CacheTrusted(c) == c.has                           \* mutant: no size check
CacheHit(c) == c.has /\ c.size = Size

ReadHead(t) ==
    LET h == HandleOf[t]
        fresh == [has |-> TRUE, head |-> LastHash(lines), count |-> Len(lines),
                  size |-> Size]
        seen == IF CacheHit(cache[h]) THEN cache[h] ELSE fresh
    IN  /\ At(t, "head")
        /\ CacheHit(cache[h]) \/ Parsable(lines)
        /\ cache' = [cache EXCEPT ![h] = seen]
        /\ op' = [op EXCEPT ![t].prev = seen.head, ![t].count = seen.count]
        /\ Goto(t, IF op[t].record \in Rejected THEN "release" ELSE "write")
        /\ UNCHANGED <<disk, lockfile, mutex, acked, faults>>

HeadError(t) ==
    /\ At(t, "head")
    /\ \/ ~CacheHit(cache[HandleOf[t]]) /\ ~Parsable(lines) /\ UNCHANGED faults
       \/ Fault("io")
    /\ Goto(t, "release")
    /\ UNCHANGED <<disk, lockfile, mutex, cache, op, acked>>

(***************************************************************************)
(* writeLine: the line goes behind whatever is at the end of the file, the *)
(* fragment of an earlier torn write included.                             *)
(***************************************************************************)
NewLine(t) ==
    [record |-> op[t].record, prev |-> op[t].prev, hash |-> HashOf(t),
     clean |-> frag = 0, end |-> Size + LineBytes]

WriteLine(t) ==
    /\ At(t, "write")
    /\ lines' = Append(lines, NewLine(t))
    /\ frag' = 0
    /\ Goto(t, "sync")
    /\ UNCHANGED <<flushed, anchor, stale, lockfile, mutex, cache, op, acked, faults>>

WriteError(t) ==
    /\ At(t, "write")
    /\ \/ Fault("io") /\ UNCHANGED frag
       \/ Fault("torn") /\ \E n \in 1..(LineBytes - 1) : frag' = frag + n
    /\ Goto(t, "release")
    /\ UNCHANGED <<lines, flushed, anchor, stale, lockfile, mutex, cache, op, acked>>

SyncLine(t) ==
    /\ At(t, "sync")
    /\ flushed' = Len(lines)
    /\ Goto(t, "truncate")
    /\ UNCHANGED <<lines, frag, anchor, stale, lockfile, mutex, cache, op, acked, faults>>

SyncError(t) ==
    /\ At(t, "sync")
    /\ Fault("io")
    /\ Goto(t, "release")
    /\ UNCHANGED <<disk, lockfile, mutex, cache, op, acked>>

(***************************************************************************)
(* writeCheckpoint: os.WriteFile truncates the sidecar, then writes it.    *)
(* Neither is flushed, so a power loss may bring older contents back.      *)
(***************************************************************************)
TruncateAnchor(t) ==
    /\ At(t, "truncate")
    /\ anchor' = Unreadable
    /\ stale' = stale \cup {anchor}
    /\ Goto(t, "stamp")
    /\ UNCHANGED <<lines, frag, flushed, lockfile, mutex, cache, op, acked, faults>>

AnchorUncounted(t) == [hash |-> HashOf(t)]         \* mutant: no count written
AnchorBehind(t) == [hash |-> HashOf(t), count |-> op[t].count]     \* mutant: off by one
NewAnchor(t) == [hash |-> HashOf(t), count |-> op[t].count + 1]

StampAnchor(t) ==
    /\ At(t, "stamp")
    /\ anchor' = NewAnchor(t)
    /\ cache' = [cache EXCEPT ![HandleOf[t]] =
                   [has |-> TRUE, head |-> HashOf(t), count |-> op[t].count + 1,
                    size |-> Size]]
    /\ op' = [op EXCEPT ![t].ok = TRUE]
    /\ Goto(t, "release")
    /\ UNCHANGED <<lines, frag, flushed, stale, lockfile, mutex, acked, faults>>

(***************************************************************************)
(* The os.Stat after the checkpoint fails: the call succeeds, uncached.    *)
(***************************************************************************)
StampUncached(t) ==
    /\ At(t, "stamp")
    /\ Fault("io")
    /\ anchor' = NewAnchor(t)
    /\ cache' = [cache EXCEPT ![HandleOf[t]].has = FALSE]
    /\ op' = [op EXCEPT ![t].ok = TRUE]
    /\ Goto(t, "release")
    /\ UNCHANGED <<lines, frag, flushed, stale, lockfile, mutex, acked>>

(***************************************************************************)
(* Opening, writing or closing the sidecar fails; when only the close does *)
(* the contents are there all the same.                                    *)
(***************************************************************************)
AnchorError(t) ==
    /\ pc[t] \in {"truncate", "stamp"}
    /\ Fault("io")
    /\ anchor' \in IF At(t, "stamp") THEN {anchor, NewAnchor(t)} ELSE {anchor}
    /\ Goto(t, "release")
    /\ UNCHANGED <<lines, frag, flushed, stale, lockfile, mutex, cache, op, acked>>

(***************************************************************************)
(* The deferred calls: the lockfile is removed (an error is ignored), then *)
(* the mutex is unlocked and Append returns.                               *)
(***************************************************************************)
RemoveLockfile(t) ==
    /\ At(t, "release")
    /\ \/ lockfile' = FALSE /\ UNCHANGED faults
       \/ Fault("io") /\ UNCHANGED lockfile
    /\ Goto(t, "unlock")
    /\ UNCHANGED <<disk, mutex, cache, op, acked>>

MutexKept(t) == mutex                              \* mutant: Unlock forgotten
Unlocked(t) == [mutex EXCEPT ![Proc(t)] = NoThread]
ErrorIgnored(t) == {HashOf(t)}                     \* mutant: an error not returned
Returned(t) == IF op[t].ok THEN {HashOf(t)} ELSE {}

UnlockMutex(t) ==
    /\ At(t, "unlock")
    /\ mutex' = Unlocked(t)
    /\ acked' = acked \cup Returned(t)
    /\ op' = [op EXCEPT ![t] = NoOp]
    /\ Goto(t, "idle")
    /\ UNCHANGED <<disk, lockfile, cache, faults>>

----------------------------------------------------------------------------
(* Crashes, and the operator                                               *)

Dies(ps) ==
    /\ pc' = [t \in Threads |-> IF Proc(t) \in ps THEN "idle" ELSE pc[t]]
    /\ op' = [t \in Threads |-> IF Proc(t) \in ps THEN NoOp ELSE op[t]]
    /\ mutex' = [p \in Procs |-> IF p \in ps THEN NoThread ELSE mutex[p]]
    /\ cache' = [h \in Handles |-> IF ProcOf[h] \in ps THEN NoCache ELSE cache[h]]

TornTails(torn) == IF torn /\ "torn" \in Faults THEN 0..(LineBytes - 1) ELSE {0}

(***************************************************************************)
(* A process is killed.  What it wrote stays, its lockfile included; a     *)
(* write under way may have stored a part of its line.                     *)
(***************************************************************************)
Kill(p) ==
    /\ Fault("kill")
    /\ Dies({p})
    /\ \E n \in TornTails(\E t \in Threads : Proc(t) = p /\ At(t, "write")) :
          frag' = frag + n
    /\ UNCHANGED <<lines, flushed, anchor, stale, lockfile, acked>>

(***************************************************************************)
(* The machine loses power.  Lines not yet flushed may be lost, the last   *)
(* of them in part; the sidecar and the lockfile are whatever reached the  *)
(* disk.                                                                   *)
(***************************************************************************)
PowerLoss ==
    /\ Fault("power")
    /\ Dies(Procs)
    /\ \E k \in flushed..Len(lines) :
          /\ lines' = SubSeq(lines, 1, k)
          /\ flushed' = k
          /\ \E n \in TornTails(k < Len(lines)) :
                frag' = IF k = Len(lines) THEN frag ELSE n
    /\ anchor' \in {anchor, Unreadable} \cup stale
    /\ stale' = {}
    /\ lockfile' \in BOOLEAN
    /\ UNCHANGED acked

(***************************************************************************)
(* The operator follows the timeout error: "if no other process is         *)
(* appending, remove it".                                                  *)
(***************************************************************************)
Locked == {"head", "write", "sync", "truncate", "stamp", "release"}

OperatorClear ==
    /\ lockfile
    /\ \A t \in Threads : pc[t] \notin Locked
    /\ lockfile' = FALSE
    /\ UNCHANGED <<disk, mutex, cache, pc, op, acked, faults>>

Step(t) ==
    \/ LockMutex(t)
    \/ CreateLockfile(t) \/ LockTimeout(t) \/ LockError(t)
    \/ ReadHead(t) \/ HeadError(t)
    \/ WriteLine(t) \/ WriteError(t)
    \/ SyncLine(t) \/ SyncError(t)
    \/ TruncateAnchor(t) \/ StampAnchor(t) \/ StampUncached(t) \/ AnchorError(t)
    \/ RemoveLockfile(t) \/ UnlockMutex(t)

Running ==
    \/ \E t \in Threads : Step(t) \/ \E r \in Records : Call(t, r)
    \/ \E p \in Procs : Kill(p)
    \/ OperatorClear

Next == Running \/ PowerLoss

(***************************************************************************)
(* A goroutine inside Append keeps running, and Go's sync.Mutex hands a    *)
(* waiter the lock after at most a millisecond of starvation.  Nobody has  *)
(* to call Append, to fail, or to remove a lockfile.                       *)
(***************************************************************************)
Fairness == \A t \in Threads : WF_vars(Step(t)) /\ SF_vars(LockMutex(t))

Spec == Init /\ [][Next]_vars
FairSpec == Spec /\ Fairness

----------------------------------------------------------------------------
(* Properties                                                              *)

(***************************************************************************)
(* At most one Append, over all processes and handles, is between creating *)
(* and removing the lockfile.                                              *)
(***************************************************************************)
OneWriter ==
    \A t, u \in Threads : pc[t] \in Locked /\ pc[u] \in Locked => t = u

(***************************************************************************)
(* The chain of the entries written is never forked or broken, whatever    *)
(* faults happen: a handle that appends from its cache links to the true   *)
(* last line, also after another process appended, tore a line or died.    *)
(***************************************************************************)
ChainIntact == Linked(lines) /\ Hashed(lines)

(***************************************************************************)
(* An entry whose Append returned is in the file, at its place in the      *)
(* chain, after every kill and power loss since.                           *)
(***************************************************************************)
AckedDurable ==
    \A h \in acked : Len(h) \in 1..Len(lines) /\ lines[Len(h)].hash = h

(***************************************************************************)
(* A checkpoint that can be read describes a beginning of the ledger: it   *)
(* never counts an entry that is not in the file.  It may count less than  *)
(* the file has, which Verify reports as a deletion all the same           *)
(* (ledger.go:315), until an Append brings it up to date.                  *)
(***************************************************************************)
AnchorSound ==
    Readable(anchor) =>
        /\ anchor.count \in 1..Len(lines)
        /\ anchor.hash = lines[anchor.count].hash

(***************************************************************************)
(* The successful Append heals: when it is about to release the lock the   *)
(* ledger verifies, whatever state earlier faults had left the sidecar in, *)
(* unless a torn line made the file unreadable.                            *)
(***************************************************************************)
AckVerifies ==
    \A t \in Threads :
        pc[t] = "release" /\ op[t].ok /\ Parsable(lines)
            => Outcome(lines, anchor) = "intact"

(***************************************************************************)
(* The comment on Entries: the residue of a process killed mid-write is    *)
(* "discarded rather than allowed to make the ledger permanently           *)
(* unreadable".                                                            *)
(***************************************************************************)
EntriesReadable == Parsable(lines)

(***************************************************************************)
(* The detailed ledger implements the abstract log: the flushed lines are  *)
(* the log, and the hashes Append returned are the receipts.               *)
(***************************************************************************)
Committed == [i \in 1..flushed |-> lines[i].record]
Abstract == INSTANCE EvidenceLog WITH log <- Committed, receipts <- acked
ImplementsLog == Abstract!Spec

(***************************************************************************)
(* Every Append returns: with a stored entry, or with an error.  A mutex   *)
(* or a lockfile left behind never blocks a call for ever.                 *)
(***************************************************************************)
AppendReturns == \A t \in Threads : pc[t] # "idle" ~> pc[t] = "idle"
=============================================================================
