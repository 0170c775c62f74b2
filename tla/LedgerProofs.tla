---------------------------- MODULE LedgerProofs ----------------------------
(***************************************************************************)
(* The safety of the ledger for any number of goroutines, handles,         *)
(* processes, records and faults.  Type correctness comes first; then the  *)
(* inductive invariant of LedgerInvariant, one lemma per group of steps,   *)
(* and the properties of Ledger as its consequences; last Verify, beside   *)
(* running Append calls and lost tails.                                    *)
(***************************************************************************)
EXTENDS LedgerAudit, LedgerInvariant, SequenceTheorems, TLAPS

(***************************************************************************)
(* The process of a goroutine is a process.                                *)
(***************************************************************************)
LEMMA ProcType == \A t \in Threads : HandleOf[t] \in Handles /\ Proc(t) \in Procs
  BY OwnerAssumption DEF Proc

(***************************************************************************)
(* A checkpoint is neither of the two markers of an unusable sidecar.      *)
(***************************************************************************)
LEMMA CheckpointReadable == \A c \in Checkpoint : Readable(c)
  <1> TAKE c \in Checkpoint
  <1>1. "count" \in DOMAIN c
    BY DEF Checkpoint
  <1>2. "count" \notin DOMAIN Absent /\ "count" \notin DOMAIN Unreadable
    BY DEF Absent, Unreadable
  <1>3. QED
    BY <1>1, <1>2 DEF Readable

(***************************************************************************)
(* The last hash and the end of the file have their types.                 *)
(***************************************************************************)
LEMMA LastType ==
    ASSUME NEW ls \in Seq(Line)
    PROVE  LastHash(ls) \in Hash /\ LastEnd(ls) \in Nat
  <1>1. CASE ls = <<>>
    BY <1>1 DEF LastHash, LastEnd, NoHash, Hash
  <1>2. CASE ls # <<>>
    <2>1. ls[Len(ls)] \in Line
      BY <1>2
    <2>2. QED
      BY <1>2, <2>1 DEF LastHash, LastEnd, Line
  <1>3. QED
    BY <1>1, <1>2

LEMMA HashType ==
    ASSUME TypeOK, NEW t \in Threads, pc[t] # "idle"
    PROVE  HashOf(t) \in Hash
  <1>1. op[t].prev \in Seq(Records) /\ op[t].record \in Records
    BY DEF TypeOK, Op, Hash
  <1>2. QED
    BY <1>1 DEF HashOf, ChainHash, Hash

(***************************************************************************)
(* A fault is counted, and the count stays within its bound.               *)
(***************************************************************************)
LEMMA FaultType ==
    ASSUME TypeOK, UNCHANGED faults \/ \E kind \in Faults : Fault(kind)
    PROVE  faults' \in 0..MaxFaults
  BY BoundAssumption DEF Fault, TypeOK

(***************************************************************************)
(* The initial state has the right types: a legacy history is a sequence   *)
(* of lines.                                                               *)
(***************************************************************************)
LEMMA InitType == Init => TypeOK
  <1> SUFFICES ASSUME Init PROVE TypeOK
    OBVIOUS
  <1>1. PICK l \in Legacies : lines = [i \in 1..Len(l) |-> LegacyLine(l, i)]
    BY DEF Init
  <1>2. l \in Seq(Records)
    BY RecordAssumption
  <1>3. ASSUME NEW i \in 1..Len(l) PROVE LegacyLine(l, i) \in Line
    <2>1. SubSeq(l, 1, i - 1) \in Seq(Records) /\ SubSeq(l, 1, i) \in Seq(Records)
      BY <1>2
    <2>2. i * LineBytes \in Nat
      BY <1>2, RecordAssumption
    <2>3. QED
      BY <1>2, <2>1, <2>2 DEF LegacyLine, Line, Hash
  <1>4. lines \in Seq(Line)
    BY <1>1, <1>2, <1>3
  <1>5. cache \in [Handles -> Cache]
    BY DEF Init, NoCache, Cache, NoHash, Hash
  <1>6. op \in [Threads -> Op]
    BY DEF Init, NoOp, Op, NoHash, Hash
  <1>7. pc \in [Threads -> Steps] /\ \A t \in Threads : pc[t] = "idle"
    BY DEF Init, Steps
  <1>8. flushed \in 0..Len(lines)
    BY <1>4 DEF Init
  <1>9. lockfile \in BOOLEAN
    BY DEF Init
  <1>10. /\ frag \in Nat /\ faults \in 0..MaxFaults
         /\ mutex \in [Procs -> Threads \cup {NoThread}]
         /\ anchor = Absent /\ stale = {} /\ acked = {}
    BY BoundAssumption DEF Init
  <1>11. QED
    BY <1>4, <1>5, <1>6, <1>7, <1>8, <1>9, <1>10 DEF TypeOK

----------------------------------------------------------------------------
(* Type correctness of every step                                          *)

(***************************************************************************)
(* A step that a goroutine takes inside Append without touching the disk   *)
(* keeps the types.                                                        *)
(***************************************************************************)
LEMMA CallType ==
    ASSUME TypeOK, NEW t \in Threads, NEW r \in Records, Call(t, r)
    PROVE  TypeOK'
  <1>1. op' \in [Threads -> Op]
    <2>1. op \in [Threads -> Op] /\ op' = [op EXCEPT ![t].record = r]
      BY DEF Call, TypeOK
    <2>2. QED
      BY <2>1 DEF Op
  <1>2. pc' \in [Threads -> Steps]
    BY DEF Call, Goto, TypeOK, Steps
  <1>3. \A u \in Threads : pc'[u] # "idle" => op'[u].record \in Records
    BY DEF Call, Goto, TypeOK, Op
  <1>4. QED
    BY <1>1, <1>2, <1>3 DEF Call, TypeOK, disk

LEMMA LockType ==
    ASSUME TypeOK, NEW t \in Threads,
           LockMutex(t) \/ CreateLockfile(t) \/ LockTimeout(t) \/ LockError(t)
    PROVE  TypeOK'
  <1>1. /\ pc' \in [Threads -> Steps]
        /\ \A u \in Threads : pc'[u] # "idle" => pc[u] # "idle"
        /\ UNCHANGED <<disk, cache, op, acked>>
    BY DEF LockMutex, CreateLockfile, LockTimeout, LockError, Goto, At, TypeOK, Steps
  <1>2. mutex' \in [Procs -> Threads \cup {NoThread}]
    BY DEF LockMutex, CreateLockfile, LockTimeout, LockError, TypeOK
  <1>3. lockfile' \in BOOLEAN
    BY DEF LockMutex, CreateLockfile, LockTimeout, LockError, TypeOK
  <1>4. faults' \in 0..MaxFaults
    BY FaultType DEF LockMutex, CreateLockfile, LockTimeout, LockError, Fault
  <1>5. QED
    BY <1>1, <1>2, <1>3, <1>4 DEF TypeOK, disk

LEMMA HeadType ==
    ASSUME TypeOK, NEW t \in Threads, ReadHead(t) \/ HeadError(t)
    PROVE  TypeOK'
  <1>1. LastHash(lines) \in Hash /\ Size \in Nat /\ Len(lines) \in Nat
    BY LastType DEF TypeOK, Size
  <1>2. HandleOf[t] \in Handles /\ cache[HandleOf[t]] \in Cache
    BY OwnerAssumption DEF TypeOK
  <1>3. /\ pc' \in [Threads -> Steps]
        /\ \A u \in Threads : pc'[u] # "idle" => pc[u] # "idle"
    BY DEF ReadHead, HeadError, Goto, At, TypeOK, Steps
  <1>4. CASE ReadHead(t)
    <2> DEFINE fresh == [has |-> TRUE, head |-> LastHash(lines),
                         count |-> Len(lines), size |-> Size]
               seen == IF CacheHit(cache[HandleOf[t]]) THEN cache[HandleOf[t]] ELSE fresh
    <2>1. seen \in Cache
      BY <1>1, <1>2 DEF Cache
    <2>2. /\ cache' = [cache EXCEPT ![HandleOf[t]] = seen]
          /\ op' = [op EXCEPT ![t].prev = seen.head, ![t].count = seen.count]
          /\ UNCHANGED <<disk, lockfile, mutex, acked, faults>>
      BY <1>4 DEF ReadHead
    <2> HIDE DEF seen
    <2>3. cache' \in [Handles -> Cache]
      BY <2>1, <2>2 DEF TypeOK
    <2>4. /\ op' \in [Threads -> Op]
          /\ \A u \in Threads : op'[u].record = op[u].record
      <3>1. op \in [Threads -> Op]
        BY DEF TypeOK
      <3>2. \A o \in Op, s \in Cache :
               LET p == [o EXCEPT !.prev = s.head, !.count = s.count]
               IN  p \in Op /\ p.record = o.record
        BY DEF Op, Cache
      <3>3. QED
        BY <2>1, <2>2, <3>1, <3>2
    <2>5. QED
      BY <1>3, <2>2, <2>3, <2>4 DEF TypeOK, disk
  <1>5. CASE HeadError(t)
    <2>1. faults' \in 0..MaxFaults
      BY <1>5, FaultType DEF HeadError, Fault
    <2>2. QED
      BY <1>3, <1>5, <2>1 DEF HeadError, TypeOK, disk
  <1>6. QED
    BY <1>4, <1>5

LEMMA WriteType ==
    ASSUME TypeOK, NEW t \in Threads,
           WriteLine(t) \/ WriteError(t) \/ SyncLine(t) \/ SyncError(t)
    PROVE  TypeOK'
  <1>1. /\ pc' \in [Threads -> Steps]
        /\ \A u \in Threads : pc'[u] # "idle" => pc[u] # "idle"
        /\ UNCHANGED <<anchor, stale, lockfile, mutex, cache, op, acked>>
    BY DEF WriteLine, WriteError, SyncLine, SyncError, Goto, At, TypeOK, Steps, disk
  <1>2. faults' \in 0..MaxFaults
    BY FaultType DEF WriteLine, WriteError, SyncLine, SyncError, Fault
  <1>3. CASE WriteLine(t)
    <2>1. NewLine(t) \in Line
      <3>1. HashOf(t) \in Hash /\ Size + LineBytes \in Nat
        BY <1>3, HashType, LastType, RecordAssumption DEF WriteLine, At, TypeOK, Size
      <3>2. op[t].record \in Records /\ op[t].prev \in Hash
        BY <1>3 DEF WriteLine, At, TypeOK, Op
      <3>3. QED
        BY <3>1, <3>2 DEF NewLine, Line
    <2>2. lines' \in Seq(Line) /\ Len(lines') = Len(lines) + 1
      BY <1>3, <2>1 DEF WriteLine, TypeOK
    <2>3. frag' \in Nat /\ flushed' \in 0..Len(lines')
      BY <1>3, <2>2 DEF WriteLine, TypeOK
    <2>4. QED
      BY <1>1, <1>2, <2>2, <2>3 DEF TypeOK
  <1>4. CASE WriteError(t) \/ SyncLine(t) \/ SyncError(t)
    <2>1. frag' \in Nat /\ flushed' \in 0..Len(lines) /\ lines' = lines
      BY <1>4 DEF WriteError, SyncLine, SyncError, TypeOK, disk
    <2>2. QED
      BY <1>1, <1>2, <2>1 DEF TypeOK
  <1>5. QED
    BY <1>3, <1>4

LEMMA AnchorType ==
    ASSUME TypeOK, NEW t \in Threads,
           \/ TruncateAnchor(t) \/ StampAnchor(t)
           \/ StampUncached(t) \/ AnchorError(t)
    PROVE  TypeOK'
  <1>1. pc[t] # "idle"
    BY DEF TruncateAnchor, StampAnchor, StampUncached, AnchorError, At
  <1>2. HashOf(t) \in Hash /\ op[t].count + 1 \in Nat /\ Size \in Nat
    BY <1>1, HashType, LastType DEF TypeOK, Op, Size
  <1>3. NewAnchor(t) \in Checkpoint
    BY <1>2 DEF NewAnchor, Checkpoint
  <1>4. /\ pc' \in [Threads -> Steps]
        /\ \A u \in Threads : pc'[u] # "idle" => pc[u] # "idle"
        /\ UNCHANGED <<lines, frag, flushed, lockfile, mutex, acked>>
    BY DEF TruncateAnchor, StampAnchor, StampUncached, AnchorError, Goto, At, TypeOK, Steps
  <1>5. faults' \in 0..MaxFaults
    BY FaultType DEF TruncateAnchor, StampAnchor, StampUncached, AnchorError, Fault
  <1>6. /\ anchor' \in Checkpoint \cup {Absent, Unreadable}
        /\ stale' \subseteq Checkpoint \cup {Absent, Unreadable}
    BY <1>3 DEF TruncateAnchor, StampAnchor, StampUncached, AnchorError, TypeOK
  <1>7. cache' \in [Handles -> Cache]
    <2>1. CASE StampAnchor(t)
      <3>1. [has |-> TRUE, head |-> HashOf(t), count |-> op[t].count + 1,
             size |-> Size] \in Cache
        BY <1>2 DEF Cache
      <3>2. QED
        BY <2>1, <3>1 DEF StampAnchor, TypeOK
    <2>2. CASE StampUncached(t)
      BY <2>2 DEF StampUncached, TypeOK, Cache
    <2>3. CASE TruncateAnchor(t) \/ AnchorError(t)
      BY <2>3 DEF TruncateAnchor, AnchorError, TypeOK
    <2>4. QED
      BY <2>1, <2>2, <2>3
  <1>8. op' \in [Threads -> Op] /\ \A u \in Threads : op'[u].record = op[u].record
    <2>1. CASE StampAnchor(t) \/ StampUncached(t)
      <3>1. op \in [Threads -> Op] /\ op' = [op EXCEPT ![t].ok = TRUE]
        BY <2>1 DEF StampAnchor, StampUncached, TypeOK
      <3>2. QED
        BY <3>1 DEF Op
    <2>2. CASE TruncateAnchor(t) \/ AnchorError(t)
      BY <2>2 DEF TruncateAnchor, AnchorError, TypeOK
    <2>3. QED
      BY <2>1, <2>2
  <1>9. QED
    BY <1>4, <1>5, <1>6, <1>7, <1>8 DEF TypeOK

LEMMA ReleaseType ==
    ASSUME TypeOK, NEW t \in Threads, RemoveLockfile(t) \/ UnlockMutex(t)
    PROVE  TypeOK'
  <1>1. CASE RemoveLockfile(t)
    <2>1. /\ pc' \in [Threads -> Steps]
          /\ \A u \in Threads : pc'[u] # "idle" => pc[u] # "idle"
      BY <1>1 DEF RemoveLockfile, Goto, At, TypeOK, Steps
    <2>2. lockfile' \in BOOLEAN
      BY <1>1 DEF RemoveLockfile, TypeOK
    <2>3. faults' \in 0..MaxFaults
      BY <1>1, FaultType DEF RemoveLockfile, Fault
    <2>4. QED
      BY <1>1, <2>1, <2>2, <2>3 DEF RemoveLockfile, TypeOK, disk
  <1>2. CASE UnlockMutex(t)
    <2>1. HashOf(t) \in Hash
      BY <1>2, HashType DEF UnlockMutex, At
    <2>2. op' \in [Threads -> Op]
      BY <1>2 DEF UnlockMutex, NoOp, NoHash, Op, Hash, TypeOK
    <2>3. pc' \in [Threads -> Steps]
      BY <1>2 DEF UnlockMutex, Goto, TypeOK, Steps
    <2>4. \A u \in Threads : pc'[u] # "idle" => op'[u].record \in Records
      BY <1>2 DEF UnlockMutex, Goto, TypeOK
    <2>5. mutex' \in [Procs -> Threads \cup {NoThread}] /\ acked' \subseteq Hash
      BY <1>2, <2>1 DEF UnlockMutex, Unlocked, Returned, TypeOK
    <2>6. QED
      BY <1>2, <2>2, <2>3, <2>4, <2>5 DEF UnlockMutex, TypeOK, disk
  <1>3. QED
    BY <1>1, <1>2

(***************************************************************************)
(* Crashes and the operator keep the types: dying threads and handles go   *)
(* back to where they began, and a shortened file is still a file.         *)
(***************************************************************************)
LEMMA DiesType ==
    ASSUME TypeOK, NEW ps \in SUBSET Procs, Dies(ps)
    PROVE  /\ pc' \in [Threads -> Steps]
           /\ op' \in [Threads -> Op]
           /\ mutex' \in [Procs -> Threads \cup {NoThread}]
           /\ cache' \in [Handles -> Cache]
           /\ \A t \in Threads : pc'[t] # "idle" => op'[t].record \in Records
  <1>1. NoOp \in Op /\ NoCache \in Cache
    BY DEF NoOp, Op, NoCache, Cache, NoHash, Hash
  <1>2. pc' \in [Threads -> Steps]
    BY DEF Dies, TypeOK, Steps
  <1>3. op' \in [Threads -> Op]
    BY <1>1 DEF Dies, TypeOK
  <1>4. mutex' \in [Procs -> Threads \cup {NoThread}]
    BY DEF Dies, TypeOK
  <1>5. cache' \in [Handles -> Cache]
    BY <1>1 DEF Dies, TypeOK
  <1>6. \A t \in Threads : pc'[t] # "idle" => op'[t].record \in Records
    BY DEF Dies, TypeOK
  <1>7. QED
    BY <1>2, <1>3, <1>4, <1>5, <1>6

LEMMA CrashType ==
    ASSUME TypeOK, (\E p \in Procs : Kill(p)) \/ PowerLoss \/ OperatorClear
    PROVE  TypeOK'
  <1>1. ASSUME NEW p \in Procs, Kill(p) PROVE TypeOK'
    <2>1. faults' \in 0..MaxFaults
      BY <1>1, FaultType DEF Kill, Fault
    <2>2. frag' \in Nat
      BY <1>1, RecordAssumption DEF Kill, TornTails, TypeOK
    <2>3. QED
      BY <1>1, <2>1, <2>2, DiesType DEF Kill, TypeOK
  <1>2. CASE PowerLoss
    <2>1. PICK k \in flushed..Len(lines) :
             /\ lines' = SubSeq(lines, 1, k)
             /\ flushed' = k
             /\ \E n \in TornTails(k < Len(lines)) :
                   frag' = IF k = Len(lines) THEN frag ELSE n
      BY <1>2 DEF PowerLoss
    <2>2. k \in Nat /\ k <= Len(lines)
      BY DEF TypeOK
    <2>3. lines' \in Seq(Line) /\ Len(lines') = k
      BY <2>1, <2>2 DEF TypeOK
    <2>4. flushed' \in 0..Len(lines') /\ frag' \in Nat
      BY <2>1, <2>2, <2>3, RecordAssumption DEF TornTails, TypeOK
    <2>5. faults' \in 0..MaxFaults
      BY <1>2, FaultType DEF PowerLoss, Fault
    <2>6. /\ anchor' \in Checkpoint \cup {Absent, Unreadable}
          /\ stale' \subseteq Checkpoint \cup {Absent, Unreadable}
      BY <1>2 DEF PowerLoss, TypeOK
    <2>7. lockfile' \in BOOLEAN /\ acked' \subseteq Hash
      BY <1>2 DEF PowerLoss, TypeOK
    <2>8. QED
      BY <1>2, <2>3, <2>4, <2>5, <2>6, <2>7, DiesType DEF PowerLoss, TypeOK
  <1>3. CASE OperatorClear
    BY <1>3 DEF OperatorClear, TypeOK, disk
  <1>4. QED
    BY <1>1, <1>2, <1>3

(***************************************************************************)
(* Every step keeps the types.                                             *)
(***************************************************************************)
LEMMA NextType == TypeOK /\ [Next]_vars => TypeOK'
  <1> SUFFICES ASSUME TypeOK, [Next]_vars PROVE TypeOK'
    OBVIOUS
  <1>1. ASSUME NEW t \in Threads, Step(t) PROVE TypeOK'
    BY <1>1, LockType, HeadType, WriteType, AnchorType, ReleaseType DEF Step
  <1>2. ASSUME NEW t \in Threads, NEW r \in Records, Call(t, r) PROVE TypeOK'
    BY <1>2, CallType
  <1>3. CASE UNCHANGED vars
    BY <1>3 DEF vars, TypeOK
  <1>4. QED
    BY <1>1, <1>2, <1>3, CrashType DEF Next, Running

(***************************************************************************)
(* The variables of the ledger always have the types TypeOK gives them.    *)
(***************************************************************************)
THEOREM TypeCorrect == Spec => []TypeOK
  BY InitType, NextType, PTL DEF Spec

----------------------------------------------------------------------------
(* Facts about chains                                                      *)

(***************************************************************************)
(* Ledgers that begin alike have the same histories.                       *)
(***************************************************************************)
LEMMA SameHistory ==
    ASSUME NEW ls \in Seq(Line), NEW ms \in Seq(Line), NEW n \in Nat,
           \A i \in 1..n : ls[i] = ms[i]
    PROVE  \A i \in 0..n : History(ls, i) = History(ms, i)
  BY DEF History

LEMMA HistoryType ==
    ASSUME NEW ls \in Seq(Line), NEW n \in 0..Len(ls)
    PROVE  History(ls, n) \in Seq(Records) /\ Len(History(ls, n)) = n
  <1>1. n \in Nat /\ \A j \in 1..n : j \in 1..Len(ls)
    OBVIOUS
  <1>2. \A j \in 1..n : ls[j] \in Line
    BY <1>1
  <1>3. \A j \in 1..n : ls[j].record \in Records
    BY <1>2 DEF Line
  <1>4. QED
    BY <1>1, <1>3 DEF History

(***************************************************************************)
(* The hash of the last line of a chained ledger is its whole history.     *)
(***************************************************************************)
LEMMA LastIsHistory ==
    ASSUME NEW ls \in Seq(Line), Chained(ls)
    PROVE  LastHash(ls) = History(ls, Len(ls))
  <1>1. CASE ls = <<>>
    BY <1>1 DEF LastHash, NoHash, History
  <1>2. CASE ls # <<>>
    BY <1>2 DEF LastHash, Chained
  <1>3. QED
    BY <1>1, <1>2

(***************************************************************************)
(* One more record makes one more step of history.                         *)
(***************************************************************************)
LEMMA HistoryGrows ==
    ASSUME NEW ls \in Seq(Line), NEW n \in 1..Len(ls)
    PROVE  History(ls, n) = ChainHash(History(ls, n - 1), ls[n].record)
  <1> DEFINE h == History(ls, n - 1)
             r == ls[n].record
  <1>1. h \in Seq(Records) /\ Len(h) = n - 1 /\ r \in Records
    <2>1. n - 1 \in 0..Len(ls) /\ ls[n] \in Line
      OBVIOUS
    <2>2. QED
      BY <2>1, HistoryType DEF Line
  <1>2. \A j \in 1..(n - 1) : h[j] = ls[j].record
    BY DEF History
  <1> HIDE DEF h, r
  <1>3. /\ Append(h, r) \in Seq(Records) /\ Len(Append(h, r)) = n
        /\ \A j \in 1..(n - 1) : Append(h, r)[j] = h[j]
        /\ Append(h, r)[n] = r
    BY <1>1
  <1>4. History(ls, n) \in Seq(Records) /\ Len(History(ls, n)) = n
    BY HistoryType
  <1>5. \A j \in 1..n : History(ls, n)[j] = Append(h, r)[j]
    BY <1>2, <1>3 DEF History, r
  <1>6. History(ls, n) = Append(h, r)
    BY <1>3, <1>4, <1>5
  <1>7. QED
    BY <1>6 DEF ChainHash, h, r

(***************************************************************************)
(* A line linked to the last one keeps a ledger chained, and so does       *)
(* cutting a ledger short.                                                 *)
(***************************************************************************)
LEMMA ChainAppend ==
    ASSUME NEW ls \in Seq(Line), Chained(ls), NEW l \in Line,
           l.prev = LastHash(ls), l.hash = ChainHash(l.prev, l.record)
    PROVE  Chained(Append(ls, l))
  <1> DEFINE ms == Append(ls, l)
             n == Len(ls)
  <1>1. /\ ms \in Seq(Line) /\ Len(ms) = n + 1 /\ n \in Nat
        /\ \A i \in 1..n : ms[i] = ls[i]
        /\ ms[n + 1] = l
    OBVIOUS
  <1> HIDE DEF ms
  <1>2. \A i \in 0..n : History(ms, i) = History(ls, i)
    BY <1>1, SameHistory
  <1>3. \A i \in 1..n : ms[i].prev = History(ms, i - 1) /\ ms[i].hash = History(ms, i)
    BY <1>1, <1>2 DEF Chained
  <1>4. ms[n + 1].prev = History(ms, n)
    BY <1>1, <1>2, LastIsHistory
  <1>5. History(ms, n + 1) = ChainHash(History(ms, n), l.record)
    BY <1>1, HistoryGrows
  <1>6. ms[n + 1].hash = History(ms, n + 1)
    BY <1>1, <1>4, <1>5
  <1>7. Chained(ms)
    BY <1>1, <1>3, <1>4, <1>6 DEF Chained
  <1>8. QED
    BY <1>7 DEF ms

LEMMA ChainPrefix ==
    ASSUME NEW ls \in Seq(Line), Chained(ls), NEW k \in 0..Len(ls)
    PROVE  Chained(SubSeq(ls, 1, k))
  <1> DEFINE ms == SubSeq(ls, 1, k)
  <1>1. ms \in Seq(Line) /\ Len(ms) = k /\ \A i \in 1..k : ms[i] = ls[i]
    OBVIOUS
  <1> HIDE DEF ms
  <1>2. \A i \in 0..k : History(ms, i) = History(ls, i)
    BY <1>1, SameHistory
  <1>3. Chained(ms)
    BY <1>1, <1>2 DEF Chained
  <1>4. QED
    BY <1>3 DEF ms

(***************************************************************************)
(* A chained ledger is one Verify finds linked and hashed.                 *)
(***************************************************************************)
LEMMA ChainedVerifies ==
    ASSUME NEW ls \in Seq(Line), Chained(ls)
    PROVE  Linked(ls) /\ Hashed(ls)
  <1>1. ASSUME NEW i \in 1..Len(ls) PROVE ls[i].prev = PrevOf(ls, i)
    <2>1. CASE i = 1
      <3>1. History(ls, 0) = NoHash
        BY DEF History, NoHash
      <3>2. QED
        BY <2>1, <3>1 DEF Chained, PrevOf
    <2>2. CASE i # 1
      BY <2>2 DEF Chained, PrevOf
    <2>3. QED
      BY <2>1, <2>2
  <1>2. ASSUME NEW i \in 1..Len(ls)
        PROVE  ls[i].hash = ChainHash(ls[i].prev, ls[i].record)
    BY HistoryGrows DEF Chained
  <1>3. QED
    BY <1>1, <1>2 DEF Linked, Hashed

----------------------------------------------------------------------------
(* The inductive invariant                                                 *)

LEMMA InitInv == Init => IInv
  <1> SUFFICES ASSUME Init PROVE IInv
    OBVIOUS
  <1>1. TypeOK
    BY InitType
  <1>2. \A t \in Threads : pc[t] = "idle" /\ op[t].ok = FALSE
    BY DEF Init, NoOp
  <1>3. OneWriter /\ LockHeld /\ WriterSound
    BY <1>2 DEF OneWriter, LockHeld, WriterSound, OpSound, Locked
  <1>4. Chained(lines)
    <2>1. PICK l \in Legacies : lines = [i \in 1..Len(l) |-> LegacyLine(l, i)]
      BY DEF Init
    <2>2. l \in Seq(Records)
      BY RecordAssumption
    <2>3. ASSUME NEW i \in 0..Len(l) PROVE SubSeq(l, 1, i) = History(lines, i)
      BY <2>1, <2>2 DEF History, LegacyLine
    <2>4. Len(lines) = Len(l) /\ Len(l) \in Nat
      BY <2>1, <2>2
    <2>5. ASSUME NEW i \in 1..Len(lines)
          PROVE  lines[i].prev = History(lines, i - 1) /\ lines[i].hash = History(lines, i)
      <3>1. lines[i].prev = SubSeq(l, 1, i - 1) /\ lines[i].hash = SubSeq(l, 1, i)
        BY <2>1, <2>4 DEF LegacyLine
      <3>2. i - 1 \in 0..Len(l) /\ i \in 0..Len(l)
        BY <2>4
      <3>3. QED
        BY <2>3, <3>1, <3>2
    <2>6. QED
      BY <2>5 DEF Chained
  <1>5. CacheSound
    <2>1. Size \in Nat
      BY <1>1, LastType DEF TypeOK, Size
    <2>2. \A h \in Handles : cache[h].has = FALSE /\ cache[h].size = 0
      BY DEF Init, NoCache
    <2>3. QED
      BY <2>1, <2>2 DEF CacheSound, CacheHit
  <1>6. AnchorsSound /\ AckedFlushed
    BY DEF Init, AnchorsSound, Anchors, Readable, AckedFlushed
  <1>7. QED
    BY <1>1, <1>3, <1>4, <1>5, <1>6 DEF IInv

(***************************************************************************)
(* The lockfile excludes: creating it needs that nobody has it, and only   *)
(* its owner, a power loss or an operator who finds no owner removes it.   *)
(***************************************************************************)
LEMMA LockStep ==
    ASSUME TypeOK, OneWriter, LockHeld, Next
    PROVE  OneWriter' /\ LockHeld'
  <1>1. ASSUME NEW t \in Threads, CreateLockfile(t) PROVE OneWriter' /\ LockHeld'
    BY <1>1 DEF CreateLockfile, LockFree, Goto, At, TypeOK, OneWriter, LockHeld, Locked
  <1>2. ASSUME NEW t \in Threads, RemoveLockfile(t) PROVE OneWriter' /\ LockHeld'
    BY <1>2 DEF RemoveLockfile, Goto, At, TypeOK, OneWriter, LockHeld, Locked
  <1>3. ASSUME lockfile' = lockfile,
               \A t \in Threads : pc'[t] \in Locked => pc[t] \in Locked
        PROVE  OneWriter' /\ LockHeld'
    BY <1>3 DEF OneWriter, LockHeld
  <1>4. ASSUME \A t \in Threads : pc'[t] \notin Locked
        PROVE  OneWriter' /\ LockHeld'
    BY <1>4 DEF OneWriter, LockHeld
  <1>5. ASSUME NEW t \in Threads, Step(t) PROVE OneWriter' /\ LockHeld'
    <2>1. CASE LockMutex(t) \/ LockTimeout(t) \/ LockError(t) \/ UnlockMutex(t)
      BY <1>3, <2>1 DEF LockMutex, LockTimeout, LockError, UnlockMutex, Goto, At,
                        TypeOK, Locked
    <2>2. CASE ReadHead(t) \/ HeadError(t)
      BY <1>3, <2>2 DEF ReadHead, HeadError, Goto, At, TypeOK, Locked
    <2>3. CASE WriteLine(t) \/ WriteError(t) \/ SyncLine(t) \/ SyncError(t)
      BY <1>3, <2>3 DEF WriteLine, WriteError, SyncLine, SyncError, Goto, At,
                        TypeOK, Locked
    <2>4. CASE \/ TruncateAnchor(t) \/ StampAnchor(t)
               \/ StampUncached(t) \/ AnchorError(t)
      BY <1>3, <2>4 DEF TruncateAnchor, StampAnchor, StampUncached, AnchorError,
                        Goto, At, TypeOK, Locked
    <2>5. QED
      BY <1>1, <1>2, <1>5, <2>1, <2>2, <2>3, <2>4 DEF Step
  <1>6. ASSUME NEW t \in Threads, NEW r \in Records, Call(t, r)
        PROVE  OneWriter' /\ LockHeld'
    BY <1>3, <1>6 DEF Call, Goto, At, TypeOK, Locked
  <1>7. ASSUME NEW p \in Procs, Kill(p) PROVE OneWriter' /\ LockHeld'
    BY <1>3, <1>7 DEF Kill, Dies, Locked
  <1>8. CASE PowerLoss
    BY <1>4, <1>8, ProcType DEF PowerLoss, Dies, Locked
  <1>9. CASE OperatorClear
    BY <1>4, <1>9 DEF OperatorClear
  <1>10. QED
    BY <1>5, <1>6, <1>7, <1>8, <1>9 DEF Next, Running

(***************************************************************************)
(* The writer's line continues the chain: what ReadHead gave it is still   *)
(* the last hash when it writes.                                           *)
(***************************************************************************)
LEMMA NewLineFits ==
    ASSUME TypeOK, WriterSound, NEW t \in Threads, WriteLine(t)
    PROVE  /\ NewLine(t) \in Line
           /\ NewLine(t).prev = LastHash(lines)
           /\ NewLine(t).hash = ChainHash(NewLine(t).prev, NewLine(t).record)
           /\ op[t].count = Len(lines)
           /\ lines' = Append(lines, NewLine(t))
           /\ Size' = Size + LineBytes
  <1>1. /\ HashOf(t) \in Hash /\ Size \in Nat /\ LineBytes \in Nat
        /\ op[t].record \in Records /\ op[t].prev \in Hash
    BY HashType, LastType, RecordAssumption DEF WriteLine, At, TypeOK, Size, Op
  <1>2. op[t].prev = LastHash(lines) /\ op[t].count = Len(lines)
    BY DEF WriterSound, OpSound, WriteLine, At
  <1>3. NewLine(t) \in Line
    BY <1>1 DEF NewLine, Line
  <1>4. lines' = Append(lines, NewLine(t)) /\ frag' = 0
    BY DEF WriteLine
  <1>5. lines' # <<>> /\ lines'[Len(lines')] = NewLine(t)
    BY <1>3, <1>4 DEF TypeOK
  <1>6. Size' = Size + LineBytes
    BY <1>1, <1>4, <1>5 DEF Size, LastEnd, NewLine
  <1>7. /\ NewLine(t).prev = LastHash(lines)
        /\ NewLine(t).hash = ChainHash(NewLine(t).prev, NewLine(t).record)
    BY <1>2 DEF NewLine, HashOf
  <1>8. QED
    BY <1>2, <1>3, <1>4, <1>6, <1>7

(***************************************************************************)
(* Which steps write the file.                                             *)
(***************************************************************************)
LEMMA LinesStep ==
    ASSUME Next
    PROVE  \/ UNCHANGED lines
           \/ \E t \in Threads : WriteLine(t)
           \/ PowerLoss
  <1>1. ASSUME NEW t \in Threads, Step(t) PROVE UNCHANGED lines \/ WriteLine(t)
    BY <1>1 DEF Step, LockMutex, CreateLockfile, LockTimeout, LockError, ReadHead,
       HeadError, WriteError, SyncLine, SyncError, TruncateAnchor, StampAnchor,
       StampUncached, AnchorError, RemoveLockfile, UnlockMutex, disk
  <1>2. QED
    BY <1>1 DEF Next, Running, Call, Kill, OperatorClear, disk

LEMMA ChainStep ==
    ASSUME TypeOK, WriterSound, Chained(lines), Next
    PROVE  Chained(lines)'
  <1>1. CASE UNCHANGED lines
    BY <1>1
  <1>2. ASSUME NEW t \in Threads, WriteLine(t) PROVE Chained(lines')
    BY <1>2, NewLineFits, ChainAppend DEF TypeOK
  <1>3. CASE PowerLoss
    <2>1. PICK k \in flushed..Len(lines) : lines' = SubSeq(lines, 1, k)
      BY <1>3 DEF PowerLoss
    <2>2. k \in 0..Len(lines)
      BY DEF TypeOK
    <2>3. QED
      BY <2>1, <2>2, ChainPrefix DEF TypeOK
  <1>4. QED
    BY <1>1, <1>2, <1>3, LinesStep

(***************************************************************************)
(* A power loss keeps the flushed lines; every other step keeps all lines, *)
(* and neither takes a line's flush back.                                  *)
(***************************************************************************)
LEMMA LinesStay ==
    ASSUME TypeOK, WriterSound, Next
    PROVE  /\ flushed <= flushed'
           /\ flushed' <= Len(lines')
           /\ \A i \in 1..flushed : lines'[i] = lines[i]
           /\ Running => /\ Len(lines) <= Len(lines')
                         /\ \A i \in 1..Len(lines) : lines'[i] = lines[i]
  <1> flushed \in Nat /\ Len(lines) \in Nat /\ flushed <= Len(lines)
    BY DEF TypeOK
  <1>1. ASSUME NEW t \in Threads, WriteLine(t)
        PROVE  /\ Len(lines') = Len(lines) + 1 /\ flushed' = flushed
               /\ \A i \in 1..Len(lines) : lines'[i] = lines[i]
    BY <1>1, NewLineFits DEF TypeOK, WriteLine
  <1>2. ASSUME NEW t \in Threads, Step(t), ~WriteLine(t)
        PROVE  lines' = lines /\ flushed' \in {flushed, Len(lines)}
    BY <1>2 DEF Step, LockMutex, CreateLockfile, LockTimeout, LockError, ReadHead,
       HeadError, WriteError, SyncLine, SyncError, TruncateAnchor, StampAnchor,
       StampUncached, AnchorError, RemoveLockfile, UnlockMutex, disk
  <1>3. ASSUME Running, \A t \in Threads : ~WriteLine(t)
        PROVE  lines' = lines /\ flushed' \in {flushed, Len(lines)}
    BY <1>2, <1>3 DEF Running, Call, Kill, OperatorClear, disk
  <1>4. CASE Running
    BY <1>1, <1>3, <1>4
  <1>5. CASE PowerLoss
    <2>1. PICK k \in flushed..Len(lines) : lines' = SubSeq(lines, 1, k) /\ flushed' = k
      BY <1>5 DEF PowerLoss
    <2>2. Len(lines') = k /\ \A i \in 1..k : lines'[i] = lines[i]
      BY <2>1 DEF TypeOK
    <2>3. QED
      BY <1>4, <2>1, <2>2
  <1>6. QED
    BY <1>4, <1>5 DEF Next

(***************************************************************************)
(* A cache that matches the size of the file matches its tail: any write   *)
(* since, whole or torn and by whomever, has made the file longer.         *)
(***************************************************************************)
LEMMA CacheStep ==
    ASSUME TypeOK, WriterSound, Chained(lines), CacheSound, Next
    PROVE  CacheSound'
  <1> USE RecordAssumption
  <1>1. Size \in Nat /\ frag \in Nat /\ LineBytes \in Nat /\ LineBytes > 0
    BY LastType DEF TypeOK, Size
  <1>2. ASSUME UNCHANGED <<lines, frag, cache>> PROVE CacheSound'
    BY <1>2 DEF CacheSound, CacheHit, Size, LastEnd
  <1>3. ASSUME NEW n \in Nat, lines' = lines, frag' = frag + n,
               \A h \in Handles : cache'[h] \in {cache[h], NoCache}
        PROVE  CacheSound'
    <2>1. Size' = Size + n
      BY <1>1, <1>3, LastType DEF Size, TypeOK, LastEnd
    <2>2. ASSUME NEW h \in Handles, cache'[h] = cache[h]
          PROVE  /\ cache'[h].size <= Size'
                 /\ CacheHit(cache[h])' => /\ cache'[h].head = LastHash(lines')
                                          /\ cache'[h].count = Len(lines')
      <3>1. cache[h].size \in Nat /\ cache[h].size <= Size
        BY DEF TypeOK, Cache, CacheSound
      <3>2. CacheHit(cache[h])' => CacheHit(cache[h])
        BY <1>1, <2>1, <2>2, <3>1 DEF CacheHit
      <3>3. QED
        BY <1>1, <1>3, <2>1, <2>2, <3>1, <3>2 DEF CacheSound
    <2>3. ASSUME NEW h \in Handles, cache'[h] = NoCache
          PROVE  cache'[h].size <= Size' /\ ~CacheHit(cache[h])'
      BY <1>1, <2>1, <2>3 DEF NoCache, CacheHit
    <2>4. QED
      BY <1>3, <2>2, <2>3 DEF CacheSound
  <1>4. ASSUME NEW t \in Threads, WriteLine(t) PROVE CacheSound'
    <2>1. Size' = Size + LineBytes /\ cache' = cache
      BY <1>4, NewLineFits DEF WriteLine
    <2>2. ASSUME NEW h \in Handles
          PROVE  cache'[h].size <= Size' /\ ~CacheHit(cache[h])'
      <3>1. cache[h].size \in Nat /\ cache[h].size <= Size
        BY DEF TypeOK, Cache, CacheSound
      <3>2. QED
        BY <1>1, <2>1, <3>1 DEF CacheHit
    <2>3. QED
      BY <2>2 DEF CacheSound
  <1>5. ASSUME NEW c \in Cache, NEW g \in Handles, UNCHANGED <<lines, frag>>,
               cache' = [cache EXCEPT ![g] = c],
               c.size <= Size,
               CacheHit(c) => c.head = LastHash(lines) /\ c.count = Len(lines)
        PROVE  CacheSound'
    <2>1. Size' = Size
      BY <1>5 DEF Size
    <2>2. \A h \in Handles : cache'[h] = IF h = g THEN c ELSE cache[h]
      BY <1>5 DEF TypeOK
    <2>3. QED
      BY <1>5, <2>1, <2>2 DEF CacheSound, CacheHit
  <1>6. ASSUME NEW t \in Threads, ReadHead(t) PROVE CacheSound'
    <2> DEFINE fresh == [has |-> TRUE, head |-> LastHash(lines),
                         count |-> Len(lines), size |-> Size]
               h == HandleOf[t]
    <2>1. h \in Handles /\ cache[h] \in Cache
      BY OwnerAssumption DEF TypeOK
    <2>2. fresh \in Cache
      BY <1>1, LastType DEF Cache, TypeOK
    <2>3. UNCHANGED <<lines, frag>>
      BY <1>6 DEF ReadHead, disk
    <2>4. CASE CacheHit(cache[h])
      <3>1. cache' = [cache EXCEPT ![h] = cache[h]]
        BY <1>6, <2>4 DEF ReadHead
      <3>2. QED
        BY <1>5, <2>1, <2>3, <3>1 DEF CacheSound
    <2>5. CASE ~CacheHit(cache[h])
      <3>1. cache' = [cache EXCEPT ![h] = fresh]
        BY <1>6, <2>5 DEF ReadHead
      <3>2. fresh.size <= Size /\ fresh.head = LastHash(lines) /\ fresh.count = Len(lines)
        BY <1>1
      <3> HIDE DEF fresh, h
      <3>3. QED
        BY <1>5, <2>1, <2>2, <2>3, <3>1, <3>2
    <2>6. QED
      BY <2>4, <2>5
  <1>7. ASSUME NEW t \in Threads, StampAnchor(t) PROVE CacheSound'
    <2> DEFINE c == [has |-> TRUE, head |-> HashOf(t), count |-> op[t].count + 1,
                     size |-> Size]
    <2>1. pc[t] = "stamp" /\ HashOf(t) \in Hash /\ op[t].count \in Nat
      BY <1>7, HashType DEF StampAnchor, At, TypeOK, Op
    <2>2. op[t].count + 1 = Len(lines) /\ Written(t)
      BY <2>1 DEF WriterSound, OpSound
    <2>3. HashOf(t) = LastHash(lines)
      BY <2>1, <2>2 DEF Written, LastHash, TypeOK
    <2>4. c \in Cache
      BY <1>1, <2>1 DEF Cache
    <2>5. c.size <= Size /\ c.head = LastHash(lines) /\ c.count = Len(lines)
      BY <1>1, <2>2, <2>3
    <2>6. /\ cache' = [cache EXCEPT ![HandleOf[t]] = c]
          /\ UNCHANGED <<lines, frag>> /\ HandleOf[t] \in Handles
      BY <1>7, OwnerAssumption DEF StampAnchor
    <2> HIDE DEF c
    <2>7. QED
      BY <1>5, <2>4, <2>5, <2>6
  <1>8. ASSUME NEW t \in Threads, StampUncached(t) PROVE CacheSound'
    <2>1. cache \in [Handles -> Cache] /\ HandleOf[t] \in Handles
      BY OwnerAssumption DEF TypeOK
    <2>2. cache' = [cache EXCEPT ![HandleOf[t]].has = FALSE] /\ UNCHANGED <<lines, frag>>
      BY <1>8 DEF StampUncached
    <2>3. \A h \in Handles :
            /\ cache'[h].size = cache[h].size /\ cache'[h].head = cache[h].head
            /\ cache'[h].count = cache[h].count
            /\ cache'[h].has => cache[h].has
      BY <2>1, <2>2 DEF Cache
    <2>4. Size' = Size
      BY <2>2 DEF Size
    <2>5. QED
      BY <2>2, <2>3, <2>4 DEF CacheSound, CacheHit
  <1>9. ASSUME NEW t \in Threads, Step(t) PROVE CacheSound'
    <2>1. CASE WriteError(t)
      <3>1. PICK n \in Nat : frag' = frag + n
        <4>1. CASE UNCHANGED frag
          <5>1. frag' = frag + 0
            BY <1>1, <4>1
          <5>2. QED
            BY <5>1
        <4>2. CASE \E n \in 1..(LineBytes - 1) : frag' = frag + n
          BY <4>2
        <4>3. QED
          BY <2>1, <4>1, <4>2 DEF WriteError
      <3>2. lines' = lines /\ cache' = cache
        BY <2>1 DEF WriteError
      <3>3. QED
        BY <1>3, <3>1, <3>2
    <2>2. CASE LockMutex(t) \/ CreateLockfile(t) \/ LockTimeout(t) \/ LockError(t)
      BY <1>2, <2>2 DEF LockMutex, CreateLockfile, LockTimeout, LockError, disk
    <2>3. CASE HeadError(t) \/ SyncLine(t) \/ SyncError(t)
      BY <1>2, <2>3 DEF HeadError, SyncLine, SyncError, disk
    <2>4. CASE TruncateAnchor(t) \/ AnchorError(t) \/ RemoveLockfile(t) \/ UnlockMutex(t)
      BY <1>2, <2>4 DEF TruncateAnchor, AnchorError, RemoveLockfile, UnlockMutex, disk
    <2>5. QED
      BY <1>4, <1>6, <1>7, <1>8, <1>9, <2>1, <2>2, <2>3, <2>4 DEF Step
  <1>10. ASSUME NEW t \in Threads, NEW r \in Records, Call(t, r) PROVE CacheSound'
    BY <1>2, <1>10 DEF Call, disk
  <1>11. ASSUME NEW p \in Procs, Kill(p) PROVE CacheSound'
    <2>1. PICK n \in Nat : frag' = frag + n
      BY <1>1, <1>11 DEF Kill, TornTails
    <2>2. lines' = lines /\ \A h \in Handles : cache'[h] \in {cache[h], NoCache}
      BY <1>11 DEF Kill, Dies
    <2>3. QED
      BY <1>3, <2>1, <2>2
  <1>12. CASE PowerLoss
    <2>1. \A h \in Handles : cache'[h] = NoCache
      BY <1>12, OwnerAssumption DEF PowerLoss, Dies
    <2>2. Size' \in Nat
      <3>1. TypeOK'
        BY NextType DEF vars
      <3>2. lines' \in Seq(Line) /\ frag' \in Nat
        BY <3>1 DEF TypeOK
      <3>3. QED
        BY <3>2, LastType DEF Size
    <2>3. QED
      BY <2>1, <2>2 DEF CacheSound, CacheHit, NoCache
  <1>13. CASE OperatorClear
    BY <1>2, <1>13 DEF OperatorClear, disk
  <1>14. QED
    BY <1>9, <1>10, <1>11, <1>12, <1>13 DEF Next, Running

(***************************************************************************)
(* A goroutine that does not move keeps what it relies on, because nobody  *)
(* else writes the file or the sidecar while it is between the locks.      *)
(***************************************************************************)
LEMMA BystanderSound ==
    ASSUME TypeOK, WriterSound, Next, Running, NEW u \in Threads,
           pc'[u] = pc[u], op'[u] = op[u],
           pc[u] \in Locked => UNCHANGED <<lines, anchor>>
    PROVE  OpSound(u)'
  <1>1. op[u].count \in Nat /\ flushed \in Nat /\ Len(lines) \in Nat
    BY DEF TypeOK, Op
  <1>2. OpSound(u)
    BY DEF WriterSound
  <1>3. HashOf(u)' = HashOf(u) /\ NewAnchor(u)' = NewAnchor(u)
    BY DEF HashOf, NewAnchor
  <1>4. Len(lines') \in Nat /\ flushed' \in Nat
    <2>1. TypeOK'
      BY NextType
    <2>2. QED
      BY <2>1 DEF TypeOK
  <1>5. Written(u) => Written(u)'
    BY <1>1, <1>3, <1>4, LinesStay DEF Written
  <1>6. op[u].count + 1 <= flushed => op'[u].count + 1 <= flushed'
    BY <1>1, <1>4, LinesStay
  <1>7. pc[u] \in {"write", "sync", "truncate", "stamp", "release"} =>
           UNCHANGED <<lines, anchor>>
    BY DEF Locked
  <1>8. QED
    BY <1>2, <1>3, <1>5, <1>6, <1>7 DEF OpSound

(***************************************************************************)
(* A goroutine outside Append, or about to fail, relies on nothing.        *)
(***************************************************************************)
LEMMA FreeSound ==
    ASSUME NEW u \in Threads, op'[u].ok = FALSE,
           pc'[u] \in {"idle", "mutex", "lock", "head", "release", "unlock"}
    PROVE  OpSound(u)'
  BY DEF OpSound

LEMMA NoOpFails == NoOp.ok = FALSE
  BY DEF NoOp

(***************************************************************************)
(* Only the goroutine between the locks writes the file or the sidecar.    *)
(***************************************************************************)
LEMMA OthersStay ==
    ASSUME TypeOK, OneWriter, NEW t \in Threads,
           Step(t) \/ \E r \in Records : Call(t, r)
    PROVE  \A u \in Threads \ {t} :
              /\ pc'[u] = pc[u] /\ op'[u] = op[u]
              /\ pc[u] \in Locked => UNCHANGED <<lines, anchor>>
  <1>1. ASSUME NEW u \in Threads \ {t} PROVE pc'[u] = pc[u] /\ op'[u] = op[u]
    <2>1. pc \in [Threads -> Steps] /\ op \in [Threads -> Op]
      BY DEF TypeOK
    <2>2. \A step : Goto(t, step) => pc'[u] = pc[u]
      BY <2>1 DEF Goto
    <2>3. pc'[u] = pc[u]
      BY <2>2 DEF Step, Call, LockMutex, CreateLockfile, LockTimeout, LockError,
         ReadHead, HeadError, WriteLine, WriteError, SyncLine, SyncError,
         TruncateAnchor, StampAnchor, StampUncached, AnchorError,
         RemoveLockfile, UnlockMutex
    <2>4. op'[u] = op[u]
      BY <2>1 DEF Step, Call, LockMutex, CreateLockfile, LockTimeout, LockError,
         ReadHead, HeadError, WriteLine, WriteError, SyncLine, SyncError,
         TruncateAnchor, StampAnchor, StampUncached, AnchorError,
         RemoveLockfile, UnlockMutex
    <2>5. QED
      BY <2>3, <2>4
  <1>2. UNCHANGED <<lines, anchor>> \/ pc[t] \in Locked
    BY DEF Step, Call, LockMutex, CreateLockfile, LockTimeout, LockError,
       ReadHead, HeadError, WriteLine, WriteError, SyncLine, SyncError,
       TruncateAnchor, StampAnchor, StampUncached, AnchorError,
       RemoveLockfile, UnlockMutex, disk, At, Locked
  <1>3. QED
    BY <1>1, <1>2 DEF OneWriter

(***************************************************************************)
(* Each step of Append establishes what the next one relies on.            *)
(***************************************************************************)
LEMMA ActorSound ==
    ASSUME TypeOK, WriterSound, CacheSound, Chained(lines), NEW t \in Threads,
           Step(t) \/ \E r \in Records : Call(t, r)
    PROVE  OpSound(t)'
  <1>1. /\ pc \in [Threads -> Steps] /\ op \in [Threads -> Op]
        /\ op[t].count \in Nat /\ flushed \in Nat /\ Len(lines) \in Nat
        /\ flushed <= Len(lines)
    BY DEF TypeOK, Op
  <1>2. OpSound(t)
    BY DEF WriterSound
  <1>3. ASSUME NEW step, Goto(t, step) PROVE pc'[t] = step
    BY <1>1, <1>3 DEF Goto
  <1>4. CASE /\ pc[t] \notin {"release", "unlock"} /\ UNCHANGED op
             /\ pc'[t] \in {"idle", "mutex", "lock", "head", "release", "unlock"}
    BY <1>2, <1>4, FreeSound DEF OpSound, TypeOK, Op
  <1>5. ASSUME NEW r \in Records, Call(t, r) PROVE OpSound(t)'
    <2>1. op[t].ok = FALSE
      BY <1>1, <1>2, <1>5 DEF OpSound, Call, At, Op
    <2>2. op'[t].ok = op[t].ok
      BY <1>1, <1>5 DEF Call, Op
    <2>3. pc'[t] = "mutex"
      BY <1>3, <1>5 DEF Call
    <2>4. QED
      BY <2>1, <2>2, <2>3, FreeSound
  <1>6. CASE LockMutex(t) \/ CreateLockfile(t) \/ LockTimeout(t) \/ LockError(t)
    BY <1>3, <1>4, <1>6 DEF LockMutex, CreateLockfile, LockTimeout, LockError, At
  <1>7. CASE HeadError(t) \/ WriteError(t) \/ SyncError(t)
    BY <1>3, <1>4, <1>7 DEF HeadError, WriteError, SyncError, At
  <1>8. CASE AnchorError(t)
    BY <1>3, <1>4, <1>8 DEF AnchorError
  <1>9. CASE ReadHead(t)
    <2> DEFINE fresh == [has |-> TRUE, head |-> LastHash(lines),
                         count |-> Len(lines), size |-> Size]
               h == HandleOf[t]
               seen == IF CacheHit(cache[h]) THEN cache[h] ELSE fresh
    <2>1. h \in Handles
      BY OwnerAssumption
    <2>2. seen.head = LastHash(lines) /\ seen.count = Len(lines)
      BY <2>1 DEF CacheSound
    <2>3. /\ op' = [op EXCEPT ![t].prev = seen.head, ![t].count = seen.count]
          /\ UNCHANGED lines /\ pc[t] = "head"
      BY <1>9 DEF ReadHead, disk, At
    <2>4. pc'[t] \in {"release", "write"}
      BY <1>3, <1>9 DEF ReadHead
    <2> HIDE DEF seen
    <2>5. /\ op'[t].prev = seen.head /\ op'[t].count = seen.count
          /\ op'[t].ok = op[t].ok
      BY <1>1, <2>3 DEF Op
    <2>6. op[t].ok = FALSE
      BY <1>1, <1>2, <2>3 DEF OpSound, Op
    <2>7. QED
      BY <2>2, <2>3, <2>4, <2>5, <2>6 DEF OpSound
  <1>10. CASE WriteLine(t)
    <2>1. /\ op' = op /\ pc[t] = "write" /\ pc'[t] = "sync"
      BY <1>3, <1>10 DEF WriteLine, At
    <2>2. /\ lines' = Append(lines, NewLine(t)) /\ NewLine(t) \in Line
          /\ op[t].count = Len(lines)
      BY <1>10, NewLineFits
    <2>3. Len(lines') = Len(lines) + 1 /\ lines'[Len(lines) + 1] = NewLine(t)
      BY <2>2 DEF TypeOK
    <2>4. Written(t)'
      BY <1>1, <2>1, <2>2, <2>3 DEF Written, NewLine, HashOf
    <2>5. op[t].ok = FALSE
      BY <1>1, <1>2, <2>1 DEF OpSound, Op
    <2>6. QED
      BY <1>1, <2>1, <2>2, <2>3, <2>4, <2>5 DEF OpSound
  <1>11. CASE SyncLine(t)
    <2>1. /\ op' = op /\ pc[t] = "sync" /\ pc'[t] = "truncate"
          /\ lines' = lines /\ flushed' = Len(lines)
      BY <1>3, <1>11 DEF SyncLine, At
    <2>2. Written(t)' /\ op[t].ok = FALSE
      BY <1>1, <1>2, <2>1 DEF OpSound, Written, HashOf, Op
    <2>3. QED
      BY <1>1, <1>2, <2>1, <2>2 DEF OpSound
  <1>12. CASE TruncateAnchor(t)
    <2>1. /\ op' = op /\ pc[t] = "truncate" /\ pc'[t] = "stamp"
          /\ lines' = lines /\ flushed' = flushed
      BY <1>3, <1>12 DEF TruncateAnchor, At
    <2>2. Written(t)' /\ op[t].ok = FALSE
      BY <1>1, <1>2, <2>1 DEF OpSound, Written, HashOf, Op
    <2>3. QED
      BY <1>1, <1>2, <2>1, <2>2 DEF OpSound
  <1>13. CASE StampAnchor(t) \/ StampUncached(t)
    <2>1. /\ op' = [op EXCEPT ![t].ok = TRUE] /\ pc[t] = "stamp"
          /\ pc'[t] = "release" /\ anchor' = NewAnchor(t)
          /\ lines' = lines /\ flushed' = flushed
      BY <1>3, <1>13 DEF StampAnchor, StampUncached, At
    <2>2. /\ op'[t].prev = op[t].prev /\ op'[t].count = op[t].count
          /\ op'[t].record = op[t].record
      BY <1>1, <2>1 DEF Op
    <2>3. Written(t)' /\ NewAnchor(t)' = NewAnchor(t)
      BY <1>2, <2>1, <2>2 DEF OpSound, Written, HashOf, NewAnchor
    <2>4. QED
      BY <1>2, <2>1, <2>2, <2>3 DEF OpSound
  <1>14. CASE RemoveLockfile(t)
    <2>1. /\ op' = op /\ pc[t] = "release" /\ pc'[t] = "unlock"
          /\ lines' = lines /\ flushed' = flushed
      BY <1>3, <1>14 DEF RemoveLockfile, At, disk
    <2>2. op[t].ok => Written(t)'
      BY <1>2, <2>1 DEF OpSound, Written, HashOf
    <2>3. QED
      BY <1>2, <2>1, <2>2 DEF OpSound
  <1>15. CASE UnlockMutex(t)
    <2>1. op'[t] = NoOp /\ pc'[t] = "idle"
      BY <1>1, <1>3, <1>15 DEF UnlockMutex
    <2>2. op'[t].ok = FALSE
      BY <2>1, NoOpFails
    <2>3. QED
      BY <2>1, <2>2, FreeSound
  <1>16. QED
    BY <1>5, <1>6, <1>7, <1>8, <1>9, <1>10, <1>11, <1>12, <1>13, <1>14, <1>15 DEF Step

LEMMA WriterStep ==
    ASSUME TypeOK, OneWriter, WriterSound, CacheSound, Chained(lines), Next
    PROVE  WriterSound'
  <1>1. ASSUME NEW t \in Threads, Step(t) \/ \E r \in Records : Call(t, r)
        PROVE  WriterSound'
    <2>1. Running
      BY <1>1 DEF Running
    <2>2. \A u \in Threads \ {t} : OpSound(u)'
      BY <1>1, <2>1, OthersStay, BystanderSound
    <2>3. OpSound(t)'
      BY <1>1, ActorSound
    <2>4. QED
      BY <2>2, <2>3 DEF WriterSound
  <1>2. ASSUME NEW u \in Threads, pc'[u] = "idle", op'[u] = NoOp PROVE OpSound(u)'
    <2>1. op'[u].ok = FALSE
      BY <1>2, NoOpFails
    <2>2. QED
      BY <1>2, <2>1, FreeSound
  <1>3. ASSUME NEW p \in Procs, Kill(p) PROVE WriterSound'
    <2>1. Running
      BY <1>3 DEF Running
    <2>2. UNCHANGED <<lines, anchor>>
      BY <1>3 DEF Kill
    <2>3. ASSUME NEW u \in Threads PROVE OpSound(u)'
      <3>1. CASE Proc(u) = p
        BY <1>2, <1>3, <3>1 DEF Kill, Dies
      <3>2. CASE Proc(u) # p
        <4>1. pc'[u] = pc[u] /\ op'[u] = op[u]
          BY <1>3, <3>2 DEF Kill, Dies
        <4>2. QED
          BY <2>1, <2>2, <4>1, BystanderSound
      <3>3. QED
        BY <3>1, <3>2
    <2>4. QED
      BY <2>3 DEF WriterSound
  <1>4. CASE PowerLoss
    BY <1>2, <1>4, ProcType DEF PowerLoss, Dies, WriterSound
  <1>5. CASE OperatorClear
    BY <1>5, BystanderSound DEF Running, OperatorClear, WriterSound, disk
  <1>6. QED
    BY <1>1, <1>3, <1>4, <1>5 DEF Next, Running

(***************************************************************************)
(* The only checkpoint ever written describes the line just flushed, and   *)
(* what a checkpoint describes stays where it is.                          *)
(***************************************************************************)
LEMMA AnchorStep ==
    ASSUME TypeOK, WriterSound, AnchorsSound, Next
    PROVE  AnchorsSound'
  <1> flushed \in Nat /\ flushed' \in Nat
    BY NextType DEF TypeOK
  <1>1. ASSUME NEW a \in stale \cup {anchor} PROVE Anchors(a)'
    <2>1. Anchors(a)
      BY DEF AnchorsSound
    <2>2. QED
      BY <2>1, LinesStay DEF Anchors
  <1>2. Anchors(Unreadable)'
    BY DEF Anchors, Readable
  <1>3. ASSUME NEW t \in Threads, pc[t] = "stamp", NEW a, a = NewAnchor(t)
        PROVE  Anchors(a)'
    <2>1. Written(t) /\ op[t].count + 1 <= flushed /\ op[t].count \in Nat
      BY <1>3 DEF WriterSound, OpSound, TypeOK, Op
    <2>2. a.count = op[t].count + 1 /\ a.hash = HashOf(t)
      BY <1>3 DEF NewAnchor
    <2>3. a.count \in 1..flushed /\ lines[a.count].hash = a.hash
      BY <2>1, <2>2 DEF Written
    <2>4. QED
      BY <2>3, LinesStay DEF Anchors
  <1>4. ASSUME NEW t \in Threads, Step(t)
        PROVE  /\ stale' \subseteq stale \cup {anchor}
               /\ \/ anchor' \in {anchor, Unreadable}
                  \/ pc[t] = "stamp" /\ anchor' = NewAnchor(t)
    BY <1>4 DEF Step, LockMutex, CreateLockfile, LockTimeout, LockError,
       ReadHead, HeadError, WriteLine, WriteError, SyncLine, SyncError,
       TruncateAnchor, StampAnchor, StampUncached, AnchorError,
       RemoveLockfile, UnlockMutex, disk, At
  <1>5. CASE PowerLoss
    BY <1>1, <1>2, <1>5 DEF PowerLoss, AnchorsSound
  <1>6. ASSUME NEW t \in Threads, Step(t) PROVE AnchorsSound'
    <2>1. ASSUME NEW a \in stale' \cup {anchor'} PROVE Anchors(a)'
      BY <1>1, <1>2, <1>3, <1>4, <1>6
    <2>2. QED
      BY <2>1 DEF AnchorsSound
  <1>7. CASE UNCHANGED <<anchor, stale>>
    BY <1>1, <1>7 DEF AnchorsSound
  <1>8. QED
    BY <1>5, <1>6, <1>7 DEF Next, Running, Call, Kill, OperatorClear, disk

(***************************************************************************)
(* Append returns a hash whose line has been flushed at its place, and     *)
(* flushed lines stay.                                                     *)
(***************************************************************************)
LEMMA AckedStep ==
    ASSUME TypeOK, WriterSound, Chained(lines), AckedFlushed, Next
    PROVE  AckedFlushed'
  <1> flushed \in Nat /\ flushed' \in Nat /\ Len(lines) \in Nat /\ flushed <= Len(lines)
    BY NextType DEF TypeOK
  <1>1. ASSUME NEW h, Len(h) \in 1..flushed, lines[Len(h)].hash = h
        PROVE  Len(h) \in 1..flushed' /\ lines'[Len(h)].hash = h
    BY <1>1, LinesStay
  <1>2. ASSUME NEW t \in Threads, op[t].ok
        PROVE  Len(HashOf(t)) \in 1..flushed /\ lines[Len(HashOf(t))].hash = HashOf(t)
    <2> DEFINE n == op[t].count + 1
    <2>1. Written(t) /\ n <= flushed /\ op[t].count \in Nat
      BY <1>2 DEF WriterSound, OpSound, TypeOK, Op
    <2>2. n \in 1..Len(lines) /\ lines[n].hash = HashOf(t)
      BY <2>1 DEF Written
    <2>3. lines[n].hash = History(lines, n)
      BY <2>2 DEF Chained
    <2>4. Len(HashOf(t)) = n
      BY <2>2, <2>3, HistoryType DEF TypeOK
    <2>5. QED
      BY <2>1, <2>2, <2>4
  <1>3. ASSUME NEW t \in Threads, UnlockMutex(t) PROVE AckedFlushed'
    <2>1. ASSUME NEW h \in acked' PROVE h \in acked \/ (op[t].ok /\ h = HashOf(t))
      BY <1>3, <2>1 DEF UnlockMutex, Returned
    <2>2. QED
      BY <1>1, <1>2, <2>1 DEF AckedFlushed
  <1>4. CASE UNCHANGED acked
    BY <1>1, <1>4 DEF AckedFlushed
  <1>5. ASSUME NEW t \in Threads, Step(t), ~UnlockMutex(t) PROVE UNCHANGED acked
    BY <1>5 DEF Step, LockMutex, CreateLockfile, LockTimeout, LockError,
       ReadHead, HeadError, WriteLine, WriteError, SyncLine, SyncError,
       TruncateAnchor, StampAnchor, StampUncached, AnchorError, RemoveLockfile
  <1>6. QED
    BY <1>3, <1>4, <1>5 DEF Next, Running, Call, Kill, OperatorClear, PowerLoss

LEMMA InvStep == IInv /\ [Next]_vars => IInv'
  <1> SUFFICES ASSUME IInv, [Next]_vars PROVE IInv'
    OBVIOUS
  <1>1. CASE Next
    BY <1>1, NextType, LockStep, ChainStep, CacheStep, WriterStep, AnchorStep,
       AckedStep DEF IInv
  <1>2. CASE UNCHANGED vars
    <2>1. TypeOK'
      BY NextType DEF IInv
    <2>2. OneWriter' /\ LockHeld' /\ Chained(lines)' /\ AckedFlushed'
      BY <1>2 DEF vars, IInv, OneWriter, LockHeld, AckedFlushed
    <2>3. CacheSound'
      BY <1>2 DEF vars, IInv, CacheSound, CacheHit, Size
    <2>4. WriterSound'
      BY <1>2 DEF vars, IInv, WriterSound, OpSound, Written, HashOf, NewAnchor
    <2>5. AnchorsSound'
      BY <1>2 DEF vars, IInv, AnchorsSound, Anchors
    <2>6. QED
      BY <2>1, <2>2, <2>3, <2>4, <2>5 DEF IInv
  <1>3. QED
    BY <1>1, <1>2

(***************************************************************************)
(* The inductive invariant holds in every reachable state.                 *)
(***************************************************************************)
THEOREM Invariance == Spec => []IInv
  BY InitInv, InvStep, PTL DEF Spec

----------------------------------------------------------------------------
(* The safety properties                                                   *)

(***************************************************************************)
(* At most one Append, over all processes, is between creating and         *)
(* removing the lockfile.                                                  *)
(***************************************************************************)
THEOREM Exclusion == Spec => []OneWriter
  <1>1. IInv => OneWriter
    BY DEF IInv
  <1>2. QED
    BY <1>1, Invariance, PTL

(***************************************************************************)
(* No interleaving, fault or crash forks or breaks the chain.              *)
(***************************************************************************)
THEOREM ChainSafety == Spec => []ChainIntact
  <1>1. IInv => ChainIntact
    BY ChainedVerifies DEF IInv, TypeOK, ChainIntact
  <1>2. QED
    BY <1>1, Invariance, PTL

(***************************************************************************)
(* What Append has returned survives every kill and power loss.            *)
(***************************************************************************)
THEOREM Durability == Spec => []AckedDurable
  <1>1. IInv => AckedDurable
    BY DEF IInv, TypeOK, AckedFlushed, AckedDurable
  <1>2. QED
    BY <1>1, Invariance, PTL

(***************************************************************************)
(* A readable checkpoint never counts an entry the file does not have.     *)
(***************************************************************************)
THEOREM AnchorSafety == Spec => []AnchorSound
  <1>1. IInv => AnchorSound
    BY DEF IInv, TypeOK, AnchorsSound, Anchors, AnchorSound
  <1>2. QED
    BY <1>1, Invariance, PTL

(***************************************************************************)
(* A successful Append leaves a ledger that verifies, unless a torn line   *)
(* is in it.                                                               *)
(***************************************************************************)
THEOREM Healing == Spec => []AckVerifies
  <1>1. ASSUME IInv, NEW t \in Threads, pc[t] = "release", op[t].ok, Parsable(lines)
        PROVE  Outcome(lines, anchor) = "intact"
    <2>1. TypeOK /\ Chained(lines) /\ OpSound(t)
      BY <1>1 DEF IInv, WriterSound
    <2>2. ChainVerdict(lines) = "intact"
      BY <1>1, <2>1, ChainedVerifies DEF ChainVerdict, TypeOK
    <2>3. /\ anchor = NewAnchor(t) /\ op[t].count + 1 = Len(lines) /\ Written(t)
          /\ op[t].count \in Nat /\ HashOf(t) \in Hash
      BY <1>1, <2>1, HashType DEF OpSound, TypeOK, Op
    <2>4. NewAnchor(t) \in Checkpoint
      BY <2>3 DEF NewAnchor, Checkpoint
    <2>5. anchor # Absent /\ anchor # Unreadable
      BY <2>3, <2>4, CheckpointReadable DEF Readable
    <2>6. anchor.count = Len(lines) /\ anchor.hash = HashOf(t)
      BY <2>3 DEF NewAnchor
    <2>7. LastHash(lines) = HashOf(t)
      BY <2>1, <2>3 DEF Written, LastHash, TypeOK
    <2>8. AnchorVerdict(lines, anchor) = "intact"
      BY <2>5, <2>6, <2>7 DEF AnchorVerdict
    <2>9. QED
      BY <2>2, <2>8 DEF Outcome
  <1>2. IInv => AckVerifies
    BY <1>1 DEF AckVerifies
  <1>3. QED
    BY <1>2, Invariance, PTL

----------------------------------------------------------------------------
(* The refinement                                                          *)

LEMMA CommittedType ==
    TypeOK => Committed \in Seq(Records) /\ Len(Committed) = flushed
  <1>1. Committed = History(lines, flushed)
    BY DEF Committed, History
  <1>2. QED
    BY <1>1, HistoryType DEF TypeOK

LEMMA CommittedNextType ==
    TypeOK' => Committed' \in Seq(Records) /\ Len(Committed') = flushed'
  <1>1. Committed' = History(lines', flushed')
    BY DEF Committed, History
  <1>2. QED
    BY <1>1, HistoryType DEF TypeOK

(***************************************************************************)
(* Whatever a step does, the committed records stay and may be joined by   *)
(* later ones.                                                             *)
(***************************************************************************)
LEMMA CommittedGrows ==
    ASSUME TypeOK, WriterSound, Next
    PROVE  /\ Len(Committed) <= Len(Committed')
           /\ Abstract!IsHistory(Committed, Committed')
           /\ flushed' = flushed => Committed' = Committed
  <1>1. /\ Committed \in Seq(Records) /\ Len(Committed) = flushed
        /\ Committed' \in Seq(Records) /\ Len(Committed') = flushed'
        /\ flushed \in Nat /\ flushed' \in Nat
    <2>1. TypeOK'
      BY NextType
    <2>2. Committed' \in Seq(Records) /\ Len(Committed') = flushed' /\ flushed' \in Nat
      BY <2>1, CommittedNextType DEF TypeOK
    <2>3. QED
      BY <2>2, CommittedType DEF TypeOK
  <1>2. flushed <= flushed' /\ \A i \in 1..flushed : Committed'[i] = Committed[i]
    BY <1>1, LinesStay DEF Committed
  <1> DEFINE old == Committed
             new == Committed'
  <1> HIDE DEF old, new
  <1>3. SubSeq(new, 1, Len(old)) \in Seq(Records) /\ Len(SubSeq(new, 1, Len(old))) = Len(old)
    BY <1>1, <1>2 DEF old, new
  <1>4. \A i \in 1..Len(old) : SubSeq(new, 1, Len(old))[i] = old[i]
    BY <1>1, <1>2 DEF old, new
  <1>5. old = SubSeq(new, 1, Len(old))
    BY <1>1, <1>3, <1>4 DEF old
  <1>6. flushed' = flushed => new = old
    BY <1>1, <1>2 DEF old, new
  <1>7. QED
    BY <1>1, <1>2, <1>5, <1>6 DEF old, new, Abstract!IsHistory

(***************************************************************************)
(* The hash a successful Append returns is a history of the committed log. *)
(***************************************************************************)
LEMMA ReturnedHistory ==
    ASSUME IInv, NEW t \in Threads, op[t].ok
    PROVE  \E n \in 1..Len(Committed) : HashOf(t) = SubSeq(Committed, 1, n)
  <1> DEFINE n == op[t].count + 1
  <1>1. TypeOK /\ Chained(lines) /\ OpSound(t)
    BY DEF IInv, WriterSound
  <1>2. Written(t) /\ n <= flushed /\ op[t].count \in Nat
    BY <1>1 DEF OpSound, TypeOK, Op
  <1>3. n \in 1..Len(lines) /\ n \in 1..flushed /\ flushed \in Nat
    BY <1>1, <1>2 DEF Written, TypeOK
  <1>4. HashOf(t) = History(lines, n)
    BY <1>1, <1>2, <1>3 DEF Written, Chained
  <1>5. Committed \in Seq(Records) /\ Len(Committed) = flushed
    BY <1>1, CommittedType
  <1> HIDE DEF n
  <1>6. SubSeq(Committed, 1, n) \in Seq(Records) /\ Len(SubSeq(Committed, 1, n)) = n
    BY <1>3, <1>5
  <1>7. History(lines, n) \in Seq(Records) /\ Len(History(lines, n)) = n
    BY <1>1, <1>3, HistoryType DEF TypeOK
  <1>8. \A i \in 1..n : SubSeq(Committed, 1, n)[i] = History(lines, n)[i]
    <2>1. \A i \in 1..n : SubSeq(Committed, 1, n)[i] = Committed[i]
      BY <1>3, <1>5
    <2>2. \A i \in 1..n : Committed[i] = lines[i].record
      BY <1>3 DEF Committed
    <2>3. QED
      BY <2>1, <2>2 DEF History
  <1>9. SubSeq(Committed, 1, n) = History(lines, n)
    BY <1>3, <1>6, <1>7, <1>8
  <1>10. QED
    BY <1>3, <1>4, <1>5, <1>9

(***************************************************************************)
(* Only the step on which Append returns issues a receipt, and that step   *)
(* flushes nothing.                                                        *)
(***************************************************************************)
LEMMA ReceiptStep ==
    ASSUME Next
    PROVE  \/ UNCHANGED acked
           \/ UNCHANGED <<lines, flushed>> /\ \E t \in Threads : UnlockMutex(t)
  <1>1. ASSUME NEW t \in Threads, Step(t), ~UnlockMutex(t) PROVE UNCHANGED acked
    BY <1>1 DEF Step, LockMutex, CreateLockfile, LockTimeout, LockError,
       ReadHead, HeadError, WriteLine, WriteError, SyncLine, SyncError,
       TruncateAnchor, StampAnchor, StampUncached, AnchorError, RemoveLockfile
  <1>2. ASSUME NEW t \in Threads, UnlockMutex(t) PROVE UNCHANGED <<lines, flushed>>
    BY <1>2 DEF UnlockMutex, disk
  <1>3. QED
    BY <1>1, <1>2 DEF Next, Running, Call, Kill, OperatorClear, PowerLoss

LEMMA InitRefines == Init => Abstract!Init
  <1> SUFFICES ASSUME Init PROVE Abstract!Init
    OBVIOUS
  <1>1. PICK l \in Legacies : lines = [i \in 1..Len(l) |-> LegacyLine(l, i)]
    BY DEF Init
  <1>2. l \in Seq(Records)
    BY RecordAssumption
  <1>3. flushed = Len(l)
    BY <1>1, <1>2 DEF Init
  <1>4. Committed \in Seq(Records) /\ Len(Committed) = Len(l)
    BY <1>3, InitType, CommittedType
  <1>5. \A i \in 1..Len(l) : Committed[i] = l[i]
    BY <1>1, <1>2, <1>3 DEF Committed, LegacyLine
  <1>6. Committed = l
    BY <1>2, <1>4, <1>5
  <1>7. QED
    BY <1>6 DEF Init, Abstract!Init

LEMMA NextRefines == IInv /\ [Next]_vars => [Abstract!Next]_Abstract!vars
  <1> SUFFICES ASSUME IInv, [Next]_vars PROVE [Abstract!Next]_Abstract!vars
    OBVIOUS
  <1>1. CASE UNCHANGED vars
    BY <1>1 DEF vars, Abstract!vars, Committed
  <1>2. CASE Next
    <2>1. TypeOK /\ WriterSound /\ TypeOK'
      BY NextType DEF IInv
    <2>2. /\ Len(Committed) <= Len(Committed')
          /\ Abstract!IsHistory(Committed, Committed')
          /\ flushed' = flushed => Committed' = Committed
      BY <1>2, <2>1, CommittedGrows
    <2>3. CASE UNCHANGED acked
      <3>1. CASE flushed' = flushed
        BY <2>2, <2>3, <3>1 DEF Abstract!vars
      <3>2. CASE flushed' # flushed
        <4>1. Committed' \in Seq(Records) /\ Len(Committed') = flushed'
          BY <2>1, CommittedNextType
        <4>2. Len(Committed) = flushed /\ flushed \in Nat /\ flushed' \in Nat
          BY <2>1, CommittedType DEF TypeOK
        <4>3. Len(Committed') > Len(Committed)
          BY <2>2, <3>2, <4>1, <4>2
        <4>4. Abstract!Commit
          BY <2>2, <2>3, <4>1, <4>3 DEF Abstract!Commit
        <4>5. QED
          BY <4>4 DEF Abstract!Next
      <3>3. QED
        BY <3>1, <3>2
    <2>4. ASSUME NEW t \in Threads, UnlockMutex(t), UNCHANGED <<lines, flushed>>
          PROVE  [Abstract!Next]_Abstract!vars
      <3>1. Committed' = Committed
        BY <2>2, <2>4
      <3>2. CASE op[t].ok
        <4>1. PICK n \in 1..Len(Committed) : HashOf(t) = SubSeq(Committed, 1, n)
          BY <3>2, ReturnedHistory
        <4>2. acked' = acked \cup {SubSeq(Committed, 1, n)}
          BY <2>4, <3>2, <4>1 DEF UnlockMutex, Returned
        <4>3. Abstract!Acknowledge
          BY <3>1, <4>2 DEF Abstract!Acknowledge
        <4>4. QED
          BY <4>3 DEF Abstract!Next
      <3>3. CASE ~op[t].ok
        BY <2>4, <3>1, <3>3 DEF UnlockMutex, Returned, Abstract!vars
      <3>4. QED
        BY <3>2, <3>3
    <2>5. QED
      BY <1>2, <2>3, <2>4, ReceiptStep
  <1>3. QED
    BY <1>1, <1>2

(***************************************************************************)
(* The ledger implements the append-only log with receipts: every step is  *)
(* a commit, a receipt or invisible.                                       *)
(***************************************************************************)
THEOREM Refinement == Spec => ImplementsLog
  BY InitRefines, NextRefines, Invariance, PTL DEF Spec, ImplementsLog, Abstract!Spec

----------------------------------------------------------------------------
(***************************************************************************)
(* What Verify finds beside running Append calls and lost tails.  As long  *)
(* as no tail is lost the invariant of the ledger carries on, and what     *)
(* Verify has read is a beginning of the file.  After a loss that the      *)
(* sidecar can tell nothing is written or acknowledged, so that the        *)
(* sidecar still counts every entry that Append returned.                  *)
(***************************************************************************)

(***************************************************************************)
(* Every hash of a set is a line's, if the file goes so far.               *)
(***************************************************************************)
Found(ls, hashes) ==
    \A h \in hashes : Len(h) >= 1 /\ (Len(h) <= Len(ls) => ls[Len(h)].hash = h)

Begins(ls, ms) == Len(ls) <= Len(ms) /\ \A i \in 1..Len(ls) : ls[i] = ms[i]

(***************************************************************************)
(* No Append is past its write.                                            *)
(***************************************************************************)
Quiet == \A t \in Threads : ~op[t].ok /\ pc[t] \notin {"sync", "truncate", "stamp"}

Whole ==
    lost = "no" => /\ IInv
                   /\ vpc = "anchor" => Begins(snap, lines) /\ \A h \in owed : Holds(snap, h)
Told == lost = "fresh" => Anchored /\ Quiet /\ Found(lines, acked)
Looking ==
    /\ owed \subseteq acked
    /\ vpc # "idle" => report = "none"
    /\ vpc = "anchor" /\ lost # "hidden" => Found(snap, owed)

AuditInv ==
    /\ AuditTypeOK /\ Whole /\ Told /\ Looking
    /\ NoForgeryAlarm /\ IntactMeansComplete

----------------------------------------------------------------------------
(* Types                                                                   *)

LEMMA AuditInitInv == AuditInit => AuditInv
  <1> SUFFICES ASSUME AuditInit PROVE AuditInv
    OBVIOUS
  <1>1. IInv /\ TypeOK
    BY InitInv DEF AuditInit, IInv
  <1>2. AuditTypeOK
    BY <1>1, LossAssumption DEF AuditInit, AuditTypeOK
  <1>3. QED
    BY <1>1, <1>2
    DEF AuditInit, AuditInv, Whole, Told, Looking, NoForgeryAlarm, IntactMeansComplete

LEMMA LossType ==
    ASSUME TypeOK, LoseTail
    PROVE  /\ TypeOK'
           /\ Begins(lines', lines) /\ Len(lines') < Len(lines)
  <1>1. lines \in Seq(Line) /\ flushed \in 0..Len(lines)
    BY DEF TypeOK
  <1>2. PICK k \in 0..(Len(lines) - 1) :
            /\ lines' = SubSeq(lines, 1, k)
            /\ flushed' = IF flushed < k THEN flushed ELSE k
    BY DEF LoseTail
  <1>3. /\ lines' \in Seq(Line) /\ Len(lines') = k /\ k < Len(lines)
        /\ \A i \in 1..k : lines'[i] = lines[i]
    BY <1>1, <1>2
  <1>4. flushed' \in 0..Len(lines') /\ frag' \in Nat
    BY <1>1, <1>2, <1>3 DEF LoseTail
  <1>5. UNCHANGED <<anchor, stale, lockfile, mutex, cache, pc, op, acked, faults>>
    BY DEF LoseTail
  <1>6. TypeOK'
    BY <1>3, <1>4, <1>5 DEF TypeOK
  <1>7. QED
    BY <1>1, <1>3, <1>6 DEF Begins

(***************************************************************************)
(* What the steps of Verify find, by where it is.                          *)
(***************************************************************************)
Verifying == CallVerify \/ ReadEntries \/ ReadAnchor

LEMMA VerdictType ==
    /\ \A ls : ChainVerdict(ls) \in {"unreadable", "broken", "mismatch", "intact"}
    /\ \A ls, a : AnchorVerdict(ls, a) \in {"intact", "badAnchor", "deleted", "headMismatch"}
  BY DEF ChainVerdict, AnchorVerdict

LEMMA AuditTypeStep ==
    ASSUME AuditTypeOK, [AuditNext]_auditVars
    PROVE  AuditTypeOK'
  <1> USE DEF AuditTypeOK
  <1>1. CASE Verifying \/ UNCHANGED auditVars
    <2>1. UNCHANGED vars
      BY <1>1 DEF Verifying, CallVerify, ReadEntries, ReadAnchor, auditVars
    <2>2. TypeOK'
      BY <2>1, NextType
    <2>3. lines \in Seq(Line) /\ acked \subseteq Hash
      BY DEF TypeOK
    <2>4. QED
      BY <1>1, <2>2, <2>3, VerdictType
      DEF Verifying, CallVerify, ReadEntries, ReadAnchor, auditVars, audit
  <1>2. CASE LoseTail
    <2>1. losses' \in 0..Losses
      BY <1>2, LossAssumption DEF LoseTail
    <2>2. QED
      BY <1>2, <2>1, LossType DEF LoseTail
  <1>3. CASE Write
    <2>1. TypeOK'
      BY <1>3, NextType DEF Write, Next
    <2>2. QED
      BY <1>3, <2>1 DEF Write
  <1>4. CASE Outage
    <2>1. TypeOK'
      BY <1>4, NextType DEF Outage, Next
    <2>2. QED
      BY <1>4, <2>1 DEF Outage
  <1>5. QED
    BY <1>1, <1>2, <1>3, <1>4 DEF AuditNext, Verifying

----------------------------------------------------------------------------
(* Without a loss                                                          *)

(***************************************************************************)
(* What has begun like a file that has since grown still does.             *)
(***************************************************************************)
LEMMA BeginsOn ==
    ASSUME NEW ls \in Seq(Line), NEW ms \in Seq(Line), NEW ns \in Seq(Line),
           Begins(ls, ms), Begins(ms, ns)
    PROVE  Begins(ls, ns)
  BY DEF Begins

LEMMA GrowsOn ==
    ASSUME TypeOK, WriterSound, Running
    PROVE  Begins(lines, lines')
  BY LinesStay DEF Begins, Next

LEMMA WholeStep ==
    ASSUME AuditInv, [AuditNext]_auditVars, lost' = "no"
    PROVE  /\ lost = "no" /\ IInv'
           /\ vpc' = "anchor" =>
                  Begins(snap', lines') /\ \A h \in owed' : Holds(snap', h)
  <1>1. lost = "no"
    BY DEF AuditNext, CallVerify, ReadEntries, ReadAnchor, LoseTail, Write, Outage,
           auditVars, audit
  <1>2. IInv /\ TypeOK
    BY <1>1 DEF AuditInv, Whole, IInv
  <1>3. CASE UNCHANGED <<vars, snap, owed>> /\ (vpc' = "anchor" => vpc = "anchor")
    <2>1. IInv'
      BY <1>2, <1>3, InvStep
    <2>2. UNCHANGED lines
      BY <1>3 DEF vars
    <2>3. QED
      BY <1>1, <1>3, <2>1, <2>2 DEF AuditInv, Whole
  <1>4. CASE CallVerify
    <2>1. UNCHANGED vars /\ vpc' = "entries"
      BY <1>4 DEF CallVerify
    <2>2. QED
      BY <1>1, <1>2, <2>1, InvStep
  <1>5. CASE ReadEntries
    <2>1. UNCHANGED vars /\ snap' = lines /\ owed' = owed
      BY <1>5 DEF ReadEntries
    <2>2. Begins(snap', lines')
      BY <1>2, <2>1 DEF Begins, TypeOK, vars
    <2>3. \A h \in acked : Len(h) \in 1..Len(lines) /\ lines[Len(h)].hash = h
      BY <1>2 DEF IInv, AckedFlushed, TypeOK
    <2>4. \A h \in owed' : Holds(snap', h)
      BY <2>1, <2>3 DEF AuditInv, Looking, Holds
    <2>5. QED
      BY <1>1, <1>2, <2>1, <2>2, <2>4, InvStep
  <1>6. CASE Write
    <2>1. Next /\ UNCHANGED <<vpc, snap, owed>>
      BY <1>6 DEF Write, Next
    <2>2. IInv'
      BY <1>2, <2>1, InvStep
    <2>3. Begins(lines, lines')
      BY <1>2, <1>6, GrowsOn DEF Write, IInv
    <2>4. snap \in Seq(Line) /\ lines \in Seq(Line) /\ lines' \in Seq(Line)
      BY <1>2, <2>2 DEF AuditInv, AuditTypeOK, IInv, TypeOK
    <2>5. QED
      BY <1>1, <2>1, <2>2, <2>3, <2>4, BeginsOn DEF AuditInv, Whole
  <1>7. CASE Outage
    <2>1. Next /\ vpc' = "idle"
      BY <1>7 DEF Outage, Next
    <2>2. QED
      BY <1>1, <1>2, <2>1, InvStep
  <1>8. CASE LoseTail
    BY <1>8 DEF LoseTail
  <1>9. QED
    BY <1>3, <1>4, <1>5, <1>6, <1>7, <1>8 DEF AuditNext, ReadAnchor, auditVars, audit

----------------------------------------------------------------------------
(* After a loss                                                            *)

LEMMA FoundBefore ==
    ASSUME NEW ls \in Seq(Line), NEW ms \in Seq(Line), Begins(ls, ms),
           NEW hashes \in SUBSET Hash, Found(ms, hashes)
    PROVE  Found(ls, hashes)
  BY DEF Found, Begins, Hash

LEMMA FlushedFound ==
    ASSUME IInv
    PROVE  Found(lines, acked)
  BY DEF IInv, TypeOK, AckedFlushed, Found

(***************************************************************************)
(* While no Append is past its write, a step that adds no line leaves the  *)
(* sidecar and the receipts alone.                                         *)
(***************************************************************************)
LEMMA QuietStep ==
    ASSUME TypeOK, Quiet, Running, Len(lines') <= Len(lines)
    PROVE  UNCHANGED <<lines, anchor, acked>> /\ Quiet'
  <1>1. lines \in Seq(Line) /\ pc \in [Threads -> Steps] /\ op \in [Threads -> Op]
    BY DEF TypeOK
  <1>2. ASSUME NEW t \in Threads, NEW r \in Records, Call(t, r)
        PROVE  UNCHANGED <<lines, anchor, acked>> /\ Quiet'
    BY <1>1, <1>2 DEF Call, disk, Goto, At, Quiet, Op
  <1>3. ASSUME NEW t \in Threads, Step(t)
        PROVE  UNCHANGED <<lines, anchor, acked>> /\ Quiet'
    <2>1. CASE LockMutex(t) \/ CreateLockfile(t) \/ LockTimeout(t) \/ LockError(t)
               \/ HeadError(t) \/ WriteError(t) \/ RemoveLockfile(t)
      BY <1>1, <2>1 DEF LockMutex, CreateLockfile, LockTimeout, LockError, HeadError,
         WriteError, RemoveLockfile, disk, Goto, At, Quiet
    <2>2. CASE ReadHead(t)
      <3>1. /\ UNCHANGED <<lines, anchor, acked>>
            /\ \E p, n : op' = [op EXCEPT ![t].prev = p, ![t].count = n]
            /\ \E s \in {"release", "write"} : pc' = [pc EXCEPT ![t] = s]
        BY <2>2 DEF ReadHead, disk, Goto
      <3>2. \A u \in Threads : op'[u].ok = op[u].ok
        BY <1>1, <3>1 DEF Op
      <3>3. QED
        BY <1>1, <3>1, <3>2 DEF Quiet
    <2>3. CASE WriteLine(t)
      <3>1. Len(lines') = Len(lines) + 1
        BY <1>1, <2>3 DEF WriteLine
      <3>2. QED
        BY <1>1, <3>1
    <2>4. ~(SyncLine(t) \/ SyncError(t) \/ TruncateAnchor(t) \/ StampAnchor(t)
            \/ StampUncached(t) \/ AnchorError(t))
      BY DEF SyncLine, SyncError, TruncateAnchor, StampAnchor, StampUncached, AnchorError,
             At, Quiet
    <2>5. CASE UnlockMutex(t)
      <3>1. Returned(t) = {}
        BY DEF Quiet, Returned
      <3>2. QED
        BY <1>1, <2>5, <3>1 DEF UnlockMutex, disk, Goto, Quiet, NoOp
    <2>6. QED
      BY <1>3, <2>1, <2>2, <2>3, <2>4, <2>5 DEF Step
  <1>4. ASSUME NEW p \in Procs, Kill(p)
        PROVE  UNCHANGED <<lines, anchor, acked>> /\ Quiet'
    BY <1>1, <1>4 DEF Kill, Dies, Quiet, NoOp
  <1>5. CASE OperatorClear
    BY <1>5 DEF OperatorClear, disk, Quiet
  <1>6. QED
    BY <1>2, <1>3, <1>4, <1>5 DEF Running

LEMMA ToldStep ==
    ASSUME AuditInv, [AuditNext]_auditVars, lost' = "fresh"
    PROVE  Anchored' /\ Quiet' /\ Found(lines', acked')
  <1> TypeOK /\ TypeOK' /\ lost \in {"no", "fresh", "hidden"}
    BY AuditTypeStep DEF AuditInv, AuditTypeOK
  <1>1. CASE LoseTail
    <2>1. /\ lost # "hidden" /\ Anchored /\ UNCHANGED <<anchor, acked, pc, op>>
          /\ \A t \in Threads : pc[t] = "idle"
      BY <1>1 DEF LoseTail
    <2>2. Found(lines, acked) /\ \A t \in Threads : ~op[t].ok
      <3>1. CASE lost = "no"
        <4>1. IInv
          BY <3>1 DEF AuditInv, Whole
        <4>2. QED
          BY <2>1, <4>1, FlushedFound DEF IInv, WriterSound, OpSound
      <3>2. CASE lost = "fresh"
        BY <3>2 DEF AuditInv, Told, Quiet
      <3>3. QED
        BY <2>1, <3>1, <3>2
    <2>3. Found(lines', acked')
      <3>1. /\ Begins(lines', lines) /\ lines \in Seq(Line) /\ lines' \in Seq(Line)
            /\ acked \subseteq Hash
        BY <1>1, LossType DEF TypeOK
      <3>2. QED
        BY <2>1, <2>2, <3>1, FoundBefore
    <2>4. QED
      BY <2>1, <2>2, <2>3 DEF Anchored, Quiet
  <1>2. CASE Write
    <2>1. lost = "fresh" /\ ~(Len(lines') > Len(lines)) /\ Running
      BY <1>2 DEF Write
    <2>2. Anchored /\ Quiet /\ Found(lines, acked)
      BY <2>1 DEF AuditInv, Told
    <2>3. Len(lines') <= Len(lines)
      <3>1. Len(lines) \in Nat /\ Len(lines') \in Nat
        BY DEF TypeOK
      <3>2. QED
        BY <2>1, <3>1
    <2>4. UNCHANGED <<lines, anchor, acked>> /\ Quiet'
      BY <2>1, <2>2, <2>3, QuietStep
    <2>5. QED
      BY <2>2, <2>4 DEF Anchored
  <1>3. CASE UNCHANGED <<vars, lost>>
    <2>1. Anchored /\ Quiet /\ Found(lines, acked)
      BY <1>3 DEF AuditInv, Told
    <2>2. UNCHANGED <<lines, anchor, acked, pc, op>>
      BY <1>3 DEF vars
    <2>3. QED
      BY <2>1, <2>2 DEF Anchored, Quiet
  <1>4. ~Outage
    BY DEF Outage
  <1>5. QED
    BY <1>1, <1>2, <1>3, <1>4
    DEF AuditNext, CallVerify, ReadEntries, ReadAnchor, auditVars, audit

----------------------------------------------------------------------------
(* What Verify has seen                                                    *)

LEMMA ReceiptsKept ==
    ASSUME AuditNext
    PROVE  acked \subseteq acked'
  <1>1. Running => acked \subseteq acked'
    BY DEF Running, Call, Step, LockMutex, CreateLockfile, LockTimeout, LockError, ReadHead,
       HeadError, WriteLine, WriteError, SyncLine, SyncError, TruncateAnchor, StampAnchor,
       StampUncached, AnchorError, RemoveLockfile, UnlockMutex, Kill, OperatorClear
  <1>2. QED
    BY <1>1 DEF AuditNext, CallVerify, ReadEntries, ReadAnchor, LoseTail, Write, Outage,
       PowerLoss, vars

LEMMA HiddenStays ==
    ASSUME [AuditNext]_auditVars, lost' # "hidden"
    PROVE  lost # "hidden"
  BY DEF AuditNext, CallVerify, ReadEntries, ReadAnchor, LoseTail, Write, Outage,
         auditVars, audit

LEMMA AllFound ==
    ASSUME AuditInv, lost # "hidden"
    PROVE  Found(lines, acked)
  BY FlushedFound DEF AuditInv, AuditTypeOK, Whole, Told

LEMMA LookingStep ==
    ASSUME AuditInv, [AuditNext]_auditVars
    PROVE  Looking'
  <1>0. Looking
    BY DEF AuditInv
  <1>1. CASE CallVerify
    BY <1>1 DEF CallVerify, Looking, vars
  <1>2. CASE ReadEntries
    <2>1. /\ UNCHANGED <<vars, owed, lost>> /\ snap' = lines /\ vpc = "entries"
          /\ vpc' = "idle" \/ (vpc' = "anchor" /\ report' = report)
      BY <1>2 DEF ReadEntries
    <2>2. lost # "hidden" => Found(snap', owed')
      BY <1>0, <2>1, AllFound DEF Looking, Found
    <2>3. QED
      BY <1>0, <2>1, <2>2 DEF Looking, vars
  <1>3. CASE ReadAnchor
    BY <1>0, <1>3 DEF ReadAnchor, Looking, vars
  <1>4. CASE LoseTail \/ Write
    <2>1. UNCHANGED <<vpc, snap, owed, report>> /\ acked \subseteq acked'
      BY <1>4, ReceiptsKept DEF LoseTail, Write, AuditNext
    <2>2. QED
      BY <1>0, <2>1, HiddenStays DEF Looking
  <1>5. CASE Outage
    BY <1>5 DEF Outage, Looking
  <1>6. CASE UNCHANGED auditVars
    BY <1>0, <1>6 DEF auditVars, audit, vars, Looking
  <1>7. QED
    BY <1>1, <1>2, <1>3, <1>4, <1>5, <1>6 DEF AuditNext

----------------------------------------------------------------------------
(* The verdicts                                                            *)

LEMMA NoAlarmStep ==
    ASSUME AuditInv, [AuditNext]_auditVars
    PROVE  NoForgeryAlarm'
  <1> SUFFICES ASSUME lost' = "no"
               PROVE  report' \notin {"broken", "mismatch", "headMismatch"}
    BY DEF NoForgeryAlarm
  <1>1. lost = "no"
    BY WholeStep
  <1>2. IInv /\ report \notin {"broken", "mismatch", "headMismatch"}
    BY <1>1 DEF AuditInv, Whole, NoForgeryAlarm
  <1>3. CASE ReadEntries
    <2>1. Linked(lines) /\ Hashed(lines)
      BY <1>2, ChainedVerifies DEF IInv, TypeOK
    <2>2. ChainVerdict(lines) \in {"unreadable", "intact"}
      BY <2>1 DEF ChainVerdict
    <2>3. QED
      BY <1>2, <1>3, <2>2 DEF ReadEntries
  <1>4. CASE ReadAnchor
    <2>1. Begins(snap, lines) /\ snap \in Seq(Line) /\ lines \in Seq(Line) /\ flushed <= Len(lines)
      BY <1>1, <1>2, <1>4 DEF AuditInv, Whole, ReadAnchor, AuditTypeOK, TypeOK
    <2>2. Readable(anchor) => anchor.count \in 1..flushed /\ anchor.hash = lines[anchor.count].hash
      BY <1>2 DEF IInv, AnchorsSound, Anchors
    <2>3. Readable(anchor) /\ anchor.count = Len(snap) => anchor.hash = LastHash(snap)
      <3> SUFFICES ASSUME Readable(anchor), anchor.count = Len(snap)
                   PROVE  anchor.hash = LastHash(snap)
        OBVIOUS
      <3>1. Len(snap) \in 1..Len(snap) /\ snap # <<>>
        BY <2>1, <2>2
      <3>2. snap[Len(snap)] = lines[Len(snap)]
        BY <2>1, <3>1 DEF Begins
      <3>3. QED
        BY <2>2, <3>1, <3>2 DEF LastHash
    <2>4. AnchorVerdict(snap, anchor) # "headMismatch"
      BY <2>3 DEF AnchorVerdict
    <2>5. AnchorVerdict(snap, anchor) \in {"intact", "badAnchor", "deleted", "headMismatch"}
      BY VerdictType
    <2>6. QED
      BY <1>4, <2>4, <2>5 DEF ReadAnchor
  <1>5. CASE ~ReadEntries /\ ~ReadAnchor
    BY <1>2, <1>5
    DEF AuditNext, CallVerify, LoseTail, Write, Outage, auditVars, audit
  <1>6. QED
    BY <1>3, <1>4, <1>5

LEMMA CompleteStep ==
    ASSUME AuditInv, [AuditNext]_auditVars
    PROVE  IntactMeansComplete'
  <1> SUFFICES ASSUME report' = "intact", lost' # "hidden", NEW h \in owed'
               PROVE  Holds(snap', h)
    BY DEF IntactMeansComplete
  <1>1. lost \in {"no", "fresh"} /\ snap \in Seq(Line) /\ owed \subseteq Hash
    BY HiddenStays DEF AuditInv, AuditTypeOK
  <1>2. CASE ReadAnchor
    <2>1. /\ vpc = "anchor" /\ AnchorVerdict(snap, anchor) = "intact"
          /\ UNCHANGED <<snap, owed>>
      BY <1>2 DEF ReadAnchor
    <2>2. CASE lost = "no"
      BY <2>1, <2>2 DEF AuditInv, Whole
    <2>3. CASE lost = "fresh"
      <3>1. Anchored /\ h \in acked
        BY <2>1, <2>3 DEF AuditInv, Told, Looking
      <3>2. anchor # Unreadable
        BY <2>1 DEF AnchorVerdict, Absent, Unreadable
      <3>3. Readable(anchor) /\ Len(h) <= anchor.count
        BY <3>1, <3>2 DEF Anchored
      <3>4. anchor.count = Len(snap)
        BY <2>1, <3>3 DEF AnchorVerdict, Readable
      <3>5. Len(h) >= 1 /\ (Len(h) <= Len(snap) => snap[Len(h)].hash = h)
        BY <2>1, <2>3 DEF AuditInv, Looking, Found
      <3>6. Len(h) \in Nat /\ Len(snap) \in Nat
        BY <1>1, <2>1 DEF Hash
      <3>7. QED
        BY <2>1, <3>3, <3>4, <3>5, <3>6 DEF Holds
    <2>4. QED
      BY <1>1, <2>2, <2>3
  <1>3. CASE ~ReadAnchor
    <2>1. report = "intact" /\ UNCHANGED <<snap, owed>>
      BY <1>3
      DEF AuditInv, Looking, AuditNext, CallVerify, ReadEntries, LoseTail, Write, Outage,
          auditVars, audit
    <2>2. QED
      BY <1>1, <2>1 DEF AuditInv, IntactMeansComplete
  <1>4. QED
    BY <1>2, <1>3

LEMMA AuditInvStep == AuditInv /\ [AuditNext]_auditVars => AuditInv'
  <1> SUFFICES ASSUME AuditInv, [AuditNext]_auditVars PROVE AuditInv'
    OBVIOUS
  <1>1. AuditTypeOK'
    BY AuditTypeStep DEF AuditInv
  <1>2. Whole'
    BY WholeStep DEF Whole
  <1>3. Told'
    BY ToldStep DEF Told
  <1>4. QED
    BY <1>1, <1>2, <1>3, LookingStep, NoAlarmStep, CompleteStep DEF AuditInv

(***************************************************************************)
(* The invariant holds of the ledger with its auditor, whatever happens.   *)
(***************************************************************************)
THEOREM AuditInvariance == AuditSpec => []AuditInv
  BY AuditInitInv, AuditInvStep, PTL DEF AuditSpec

(***************************************************************************)
(* The auditor and the ledger beside it keep their types.                  *)
(***************************************************************************)
THEOREM AuditTypeCorrect == AuditSpec => []AuditTypeOK
  <1>1. AuditInv => AuditTypeOK
    BY DEF AuditInv
  <1>2. QED
    BY <1>1, AuditInvariance, PTL

(***************************************************************************)
(* While no tail is lost, no interleaving of Append calls, failures and    *)
(* crashes with the two reads of Verify is reported as a forged entry.     *)
(***************************************************************************)
THEOREM NothingLooksForged == AuditSpec => []NoForgeryAlarm
  <1>1. AuditInv => NoForgeryAlarm
    BY DEF AuditInv
  <1>2. QED
    BY <1>1, AuditInvariance, PTL

(***************************************************************************)
(* A ledger that Verify calls intact has every entry Append had returned   *)
(* before, as long as nothing was appended over a loss and no power loss   *)
(* took the sidecar back.                                                  *)
(***************************************************************************)
THEOREM IntactIsComplete == AuditSpec => []IntactMeansComplete
  <1>1. AuditInv => IntactMeansComplete
    BY DEF AuditInv
  <1>2. QED
    BY <1>1, AuditInvariance, PTL
=============================================================================
