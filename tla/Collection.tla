----------------------------- MODULE Collection -----------------------------
(***************************************************************************)
(* Continuous collection (internal/collect and runCollect): collectors,    *)
(* each ticking on an interval of its own, poll sources that report on a   *)
(* changing world and append to one shared ledger the results that differ  *)
(* from what the ledger already reflects.                                  *)
(*                                                                         *)
(* A tick reads the ledger once, at its start, and holds no lock until its *)
(* last Append: other collectors append, and the world changes, between    *)
(* any two of its steps.  The ledger is the append-only log that module    *)
(* EvidenceLog promises and module Ledger implements.                      *)
(***************************************************************************)
EXTENDS Posture

CONSTANTS
    Collectors,   \* the fabric collect processes that share the ledger
    Running,      \* those that are kept running; the others may hang at any step
    Sources,      \* the configured sources in order, each the sequence of the
                  \* streams it reports on, in the order of its output
    Broken,       \* the positions of sources whose fetch or output may fail
                  \* at every tick
    Streams,      \* what a source reports on: a rule of a policy for a resource,
                  \* an application, a component
    ControlOf,    \* the control of a stream
    SubjectOf,    \* the subject of a stream; several streams may have the
                  \* control and the subject in common
    OddTimes,     \* the timestamps of an observation that are not the present
                  \* time: 0 where there is none, those of a clock behind
    MaxChanges,   \* bound: changes of the world
    MaxEntries,   \* bound: entries of the ledger
    MaxFaults     \* bound: failures other than those of Broken sources

ASSUME StreamAssumption ==
    /\ Sources \in Seq(Seq(Streams)) /\ Sources # <<>>
    /\ \A s \in Streams : \E i \in 1..Len(Sources) : s \in ToSet(Sources[i])
    /\ Running \subseteq Collectors /\ Running # {}
    /\ Broken \subseteq 1..Len(Sources)
ASSUME CollectionBounds ==
    /\ OddTimes \subseteq 0..1
    /\ MaxChanges \in Nat /\ MaxEntries \in Nat /\ MaxFaults \in Nat

VARIABLES
    world,     \* per stream, what its source would report if asked now
    clock,     \* the present time: a change of the world lets a second pass
    log,       \* the records of the ledger, in append order
    job,       \* the tick of each collector
    settled,   \* history: the collectors that have finished a tick, without an
               \* error, that began after the last change of a result
    faults     \* how many failures have happened

vars == <<world, clock, log, job, settled, faults>>

----------------------------------------------------------------------------
Record == [control : {ControlOf[s] : s \in Streams},
           subject : {SubjectOf[s] : s \in Streams},
           result : Results, at : Nat]

(***************************************************************************)
(* "silent": the source says nothing of the stream (a skipped policy, an   *)
(* object or a component that is gone).                                    *)
(***************************************************************************)
Silence == [result |-> "silent", at |-> Unusable]
Report == [result : Results, at : Nat] \cup {Silence}

(***************************************************************************)
(* The elements of s at the positions I, in their order.                   *)
(***************************************************************************)
Select(s, I) ==
    LET kept[n \in 0..Len(s)] ==
            IF n = 0 THEN <<>>
            ELSE IF n \in I THEN Append(kept[n - 1], s[n]) ELSE kept[n - 1]
    IN  kept[Len(s)]

(***************************************************************************)
(* The output of a source at one moment, as its producer turns it into     *)
(* records.                                                                *)
(***************************************************************************)
AllPresent(s) == TRUE                              \* mutant: skipped results recorded
Present(s) == world[s] # Silence
RecordOf(s) == [control |-> ControlOf[s], subject |-> SubjectOf[s],
                result |-> world[s].result, at |-> world[s].at]
Reading(src) ==
    Select([i \in DOMAIN Sources[src] |-> RecordOf(Sources[src][i])],
           {i \in DOMAIN Sources[src] : Present(Sources[src][i])})

(***************************************************************************)
(* Dedup: the positions of the observed records whose result differs from  *)
(* the latest one for their key, where the records before them in the same *)
(* tick count.                                                             *)
(***************************************************************************)
Key(r) == <<r.control, r.subject>>
KeyOf(s) == <<ControlOf[s], SubjectOf[s]>>

Latest(records, k) ==
    LET rows == {i \in 1..Len(records) : Key(records[i]) = k}
    IN  IF rows = {} THEN "unseen" ELSE records[Max(rows)].result

NeverSame(before, r) == TRUE                       \* mutant: every poll recorded
OnlyOnce(before, r) == Latest(before, Key(r)) = "unseen"
                                                   \* mutant: a seen key dropped
IsChange(before, r) == Latest(before, Key(r)) # r.result

Dedup(prior, observed) ==
    {i \in 1..Len(observed) : IsChange(prior \o SubSeq(observed, 1, i - 1), observed[i])}

----------------------------------------------------------------------------
Job == [step : {"idle", "poll", "append"}, prior : Nat, src : Nat,
        observed : Seq(Record), todo : SUBSET Nat, told : SUBSET Record,
        mark : {"late", "clean", "calm"}]
Idle == [step |-> "idle", prior |-> 0, src |-> 0, observed |-> <<>>,
         todo |-> {}, told |-> {}, mark |-> "late"]

CollectTypeOK ==
    /\ world \in [Streams -> Report]
    /\ clock \in 2..MaxChanges + 2
    /\ log \in Seq(Record)
    /\ job \in [Collectors -> Job]
    /\ settled \subseteq Collectors
    /\ faults \in 0..MaxFaults

Init ==
    /\ world = [s \in Streams |-> [result |-> "satisfied", at |-> 2]]
    /\ clock = 2
    /\ log = <<>>
    /\ job = [c \in Collectors |-> Idle]
    /\ settled = {}
    /\ faults = 0

Fault == faults < MaxFaults /\ faults' = faults + 1
NoFault == UNCHANGED faults

Settled == settled = Collectors

(***************************************************************************)
(* A stream changes its result, or only the time of its last observation.  *)
(* The first change may bear the time the initial reports bear.            *)
(***************************************************************************)
Change(s) ==
    /\ clock < MaxChanges + 2
    /\ clock' = clock + 1
    /\ \E report \in [result : Results, at : {clock} \cup OddTimes]
                      \cup {Silence} :
          /\ report # world[s]
          /\ world' = [world EXCEPT ![s] = report]
    /\ IF world'[s].result = world[s].result
       THEN UNCHANGED <<settled, job>>
       ELSE /\ settled' = {}
            /\ job' = [c \in Collectors |-> [job[c] EXCEPT !.mark = "late"]]
    /\ UNCHANGED <<log, faults>>

----------------------------------------------------------------------------
(* The steps of Tick                                                       *)

At(c, step) == job[c].step = step
Becomes(c, j) == job' = [job EXCEPT ![c] = j]

ReadLedger(c) ==
    /\ At(c, "idle")
    /\ Becomes(c, [Idle EXCEPT !.step = "poll", !.prior = Len(log), !.src = 1,
                           !.mark = IF Settled THEN "calm" ELSE "clean"])
    /\ NoFault
    /\ UNCHANGED <<world, clock, log, settled>>

ReadError(c) ==
    /\ At(c, "idle")
    /\ Fault
    /\ Becomes(c, Idle)
    /\ UNCHANGED <<world, clock, log, settled>>

(***************************************************************************)
(* After the last source the changes are computed, from the ledger as it   *)
(* was when the tick began.                                                *)
(***************************************************************************)
Polled(j, seen) ==
    IF j.src < Len(Sources)
    THEN [j EXCEPT !.src = j.src + 1, !.observed = seen]
    ELSE [j EXCEPT !.step = "append", !.src = 0, !.prior = 0, !.observed = seen,
                   !.todo = Dedup(SubSeq(log, 1, j.prior), seen)]

Fetch(c) ==
    /\ At(c, "poll")
    /\ \E seen \in {job[c].observed \o Reading(job[c].src)} :
          Becomes(c, Polled(job[c], seen))
    /\ NoFault
    /\ UNCHANGED <<world, clock, log, settled>>

FailureAborts(j) == Idle                           \* mutant: a broken source ends the tick
Degraded(j) == Polled([j EXCEPT !.mark = "late"], j.observed)

FetchError(c) ==
    /\ At(c, "poll")
    /\ \/ job[c].src \in Broken /\ NoFault
       \/ job[c].src \notin Broken /\ Fault
    /\ Becomes(c, Degraded(job[c]))
    /\ UNCHANGED <<world, clock, log, settled>>

NextChange(j) == j.observed[Min(j.todo)]

AppendChange(c) ==
    LET r == NextChange(job[c])
    IN  /\ At(c, "append")
        /\ job[c].todo # {}
        /\ Len(log) < MaxEntries
        /\ log' = Append(log, r)
        /\ Becomes(c, [job[c] EXCEPT !.todo = @ \ {Min(@)}, !.told = @ \cup {r}])
        /\ NoFault
        /\ UNCHANGED <<world, clock, settled>>

(***************************************************************************)
(* An Append that fails ends the tick.  The line may be in the ledger all  *)
(* the same.                                                               *)
(***************************************************************************)
AppendError(c) ==
    /\ At(c, "append")
    /\ job[c].todo # {}
    /\ Len(log) < MaxEntries
    /\ Fault
    /\ log' \in {log, Append(log, NextChange(job[c]))}
    /\ Becomes(c, Idle)
    /\ UNCHANGED <<world, clock, settled>>

Finish(c) ==
    /\ At(c, "append")
    /\ job[c].todo = {}
    /\ Becomes(c, Idle)
    /\ settled' = IF job[c].mark # "late" THEN settled \cup {c} ELSE settled
    /\ NoFault
    /\ UNCHANGED <<world, clock, log>>

(***************************************************************************)
(* What a tick that ends, with an error or without, returns as appended.   *)
(***************************************************************************)
ToldAll(c) == job[c].told \cup {job[c].observed[i] : i \in job[c].todo}
                                                   \* mutant: the changes returned
Told(c) == job[c].told

(***************************************************************************)
(* The collector's process dies and is started again.                      *)
(***************************************************************************)
Restart(c) ==
    /\ job[c].step # "idle"
    /\ Fault
    /\ Becomes(c, Idle)
    /\ UNCHANGED <<world, clock, log, settled>>

----------------------------------------------------------------------------
(* The steps the interval timer and the program's own progress bring about *)
Progress(c) ==
    \/ ReadLedger(c)
    \/ Fetch(c)
    \/ FetchError(c) /\ NoFault
    \/ AppendChange(c)
    \/ AppendError(c) /\ NoFault
    \/ Finish(c)

Next ==
    \/ \E s \in Streams : Change(s)
    \/ \E c \in Collectors :
          \/ ReadLedger(c) \/ ReadError(c)
          \/ Fetch(c) \/ FetchError(c)
          \/ AppendChange(c) \/ AppendError(c)
          \/ Finish(c) \/ Restart(c)

Spec == Init /\ [][Next]_vars
FairSpec == Spec /\ \A c \in Running : WF_vars(Progress(c))

----------------------------------------------------------------------------
(* Properties                                                              *)

(***************************************************************************)
(* A key is the (control, subject) of a record.  Streams that share one    *)
(* may report different results at the same time; it is contested then.    *)
(***************************************************************************)
Voices(k) == {world[s].result : s \in {u \in Streams : Present(u) /\ KeyOf(u) = k}}
Contested(k) == \E a, b \in Voices(k) : a # b

(***************************************************************************)
(* Once every collector has finished a clean tick that began after the     *)
(* last change, the latest record of every key that is reported on is what *)
(* a stream of it reports now, whatever stale observations were appended   *)
(* before (Dedup, dedup.go:17-33); of a key that is not contested it is    *)
(* what all of them report.                                                *)
(***************************************************************************)
Reflects(records, k) == Latest(records, k) \in Voices(k)
SettledReflects == Settled => \A s \in Streams : Present(s) => Reflects(log, KeyOf(s))

(***************************************************************************)
(* A tick that begins then has nothing to append but for contested keys: a *)
(* stable control adds no row per tick (dedup.go:10-13), with several      *)
(* collectors as well.                                                     *)
(***************************************************************************)
SettledSilent ==
    Settled => \A c \in Collectors :
                  job[c].mark = "calm" =>
                      \A i \in job[c].todo : Contested(Key(job[c].observed[i]))

(***************************************************************************)
(* "The ledger records state transitions, not every poll"                  *)
(* (dedup.go:10): the same without the exception, which does not hold.     *)
(***************************************************************************)
OnlyTransitions ==
    Settled => \A c \in Collectors : job[c].mark = "calm" => job[c].todo = {}

(***************************************************************************)
(* What Tick returns, with an error or without, is in the ledger           *)
(* (collector.go:68-71).                                                   *)
(***************************************************************************)
ToldStored ==
    [][\A c \in Collectors :
          AppendError(c) \/ Finish(c) => Told(c) \subseteq ToSet(log')]_vars

(***************************************************************************)
(* Where the records of each key are in the order of their usable times,   *)
(* the posture of a settled ledger is the state of the world: its gaps are *)
(* the controls with a failing stream (posture.go:48-50 on the records of  *)
(* dedup.go).  Left out are controls with a key of which every stream is   *)
(* silent, which keeps its last result, and those with a contested key, of *)
(* which the result that comes last in a tick hides the other.             *)
(***************************************************************************)
NotOlder(a, b) == UnusableTime(a.at) \/ UnusableTime(b.at) \/ a.at <= b.at
InOrder(records) ==
    \A i, k \in 1..Len(records) :
        /\ i < k
        /\ Key(records[i]) = Key(records[k])
        /\ \A m \in i + 1..k - 1 : Key(records[m]) # Key(records[i])
        => NotOlder(records[i], records[k])

Gaps == {ControlOf[s] : s \in {u \in Streams : world[u].result = "not-satisfied"}}
Unclear(s) == Voices(KeyOf(s)) = {} \/ Contested(KeyOf(s))
Judged == {ControlOf[s] : s \in Streams} \ {ControlOf[s] : s \in {u \in Streams : Unclear(u)}}
PostureIsWorld == NotSatisfied(log) \cap Judged = Gaps \cap Judged

PostureFollows == Settled /\ InOrder(log) => PostureIsWorld

(***************************************************************************)
(* "The posture rollup's latest wins rule still reports it correctly from  *)
(* the last transition" (dedup.go:13-14): without the premise on the order *)
(* of the times.                                                           *)
(***************************************************************************)
PostureCurrent == Settled => PostureIsWorld

(***************************************************************************)
(* A broken source degrades collection and does not stop it                *)
(* (collector.go:38-41): of the keys that only the other sources report    *)
(* on, the ledger comes to reflect what they report, if one collector      *)
(* keeps ticking; unless the bound on entries stops it.                    *)
(***************************************************************************)
Sound == {s \in Streams : \A i \in Broken : \A u \in ToSet(Sources[i]) : KeyOf(u) # KeyOf(s)}
Stopped == Len(log) = MaxEntries /\ \E c \in Running : job[c].todo # {}
BrokenSourceDegrades ==
    \/ <>[](\A s \in Sound : Present(s) => Reflects(log, KeyOf(s)))
    \/ <>Stopped
=============================================================================
