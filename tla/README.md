# ComplianceFabric in TLA+

A verification project for the Fabric engine (`src/internal`, `src/cmd/fabric`).
Modules model the components that keep state or must agree with one another; TLC
checks them on small instances, TLAPS proves the core for every instance.

## 1. The system

| Component | State | Operations | Talks to |
|---|---|---|---|
| Evidence ledger (`ledger/ledger.go`) | the JSONL file, the `.head` sidecar, the `.lock` file, a mutex per path, a cached head per handle | `Open`, `Append`, `Entries`, `Verify` | every producer of records; the file system |
| Continuous collector (`collect/`) | none between ticks; a tick holds the entries read, the records observed, the changes left to append | `Tick`, `Dedup`, `Run`, `LoadConfig` | fetch commands, producers, the ledger |
| Posture and trend (`posture/`) | none (pure) | `Summarize`, `NotSatisfied`, `TrendOf` | reads ledger entries; dashboard, release gate, crosswalk use it |
| Gateway limiter (`gateway/limit.go`) | per agent: window start, requests, cost, under one mutex | `Charge` | the decision server and the proxy |
| Gateway decision (`gateway/gateway.go`, `guardrail.go`, `server.go`) | the decision log | `Decide`, `Screen`, `serveDecide`, `serveOutput` | registry, limiter, log |
| Enforcing proxy (`gateway/proxy.go`, `screen.go`) | per response: the event buffer, the tail kept for overlap, the verdict | `ServeHTTP`, `screeningReader.Read` | decision, upstream model |
| Agent registry (`registry/`) | loaded once | lookups, validation | gateway, traces |
| Agent traces (`evidence/trace.go`) | none | parsing of lines and spans, pairing by id, the verdict per interaction | gateway log, registry, ledger |
| Evidence producers (`evidence/`, `eval/`) | none | one verdict function per source | collector, release gate |
| Release gate (`release/`) | a manifest, a ledger | `Evidence`, `Blocking` | producers, ledger, posture |
| Crosswalk (`crosswalk/`) | none | `Apply` | posture |
| Control authoring (`oscal`, `validate`, `loader`, `policies`, `generate`, `assess`, `report`) | the control tree, the policy library, the composed directory | `Load`, `Validate`, `Coverage`, `Assess`, `Verify`, `Compose`, `Write`, `ControlsByPolicy` | CLI; the collector reads the library |
| Dashboard (`dashboard/`) | none | one page and two JSON bodies, made anew at each request | ledger, posture |
| CLI (`cmd/fabric/main.go`) | none | one command per component; `runCollect` is a loop | all |

What is hard, and what makes each part correct:

* **Ledger.** Goroutines, handles and processes interleave inside `Append`; any
  system call may fail, the process may be killed and the machine lose power between
  two of them; the cached head may be out of date; `Verify` takes no lock. Correct
  means: one writer at a time, one unbroken chain, nothing acknowledged is lost, the
  sidecar counts nothing that is not there, a clean verdict is true, every call
  returns.
* **Collector.** A tick compares with the ledger of minutes ago, while other
  collectors append and the world changes, and two rules or policies may speak of one
  control and resource. Correct means: the ledger comes to reflect the world and then
  falls silent, what a tick reports is stored, a broken
  source does not stop the rest, and the posture of the ledger is the state of the
  world.
* **Posture.** Absent, equal and disordered timestamps; several subjects per control.
* **Limiter and gateway.** Concurrent charges at the edge of a budget; a clock read
  before the lock; gates in a fixed order, none skipped; one log line per decision.
* **Proxy.** A banned phrase split over reads and events; a client or an upstream
  that breaks off; a verdict recorded exactly once.
* **Traces, release gate.** Records paired by id, and callers that share one; a verdict
  on the right ledger.
* **Authoring.** Four commands that each read the documents anew, and two judges of the
  same tree (`validate`, `assess`) that must not contradict each other. Correct means:
  what passes the checks can be composed, the composed directory is exactly what the
  selected controls ask for, and each of them leads to a policy that leads back to it.

The hazards, each with its line and the properties that watch it, are in
`PROJECT.json`.

## 2. Modules

| Module | Models | Uses |
|---|---|---|
| `EvidenceLog` | what the ledger promises: an append-only log and receipts | |
| `Ledger` | `Append`, one step per system call, crashes, `Verify`'s verdict as an operator | `EvidenceLog` (refinement) |
| `LedgerInvariant` | the inductive invariant of `Ledger` | `Ledger` |
| `LedgerAudit` | `Verify` beside running `Append`s, and the loss of a tail | `Ledger` |
| `Posture` | `Summarize` and `NotSatisfied` as operators | |
| `Collection` | `Tick` of several collectors on one log, and the world | `Posture` |
| `Registry` | the agent registry and its `Validate` as operators | |
| `Wire` | what `RequestFromHTTP` accepts and reads of a live request, as operators | |
| `Decision` | `Decide` and `Screen` as operators | `Registry`, `Wire` |
| `Interaction` | what the gateway promises of each call | |
| `Limiter` | the fixed window of `Charge` as operators | |
| `Traces` | `FromAgentTraces` on log lines and on spans, as operators | `Decision` |
| `Gateway` | concurrent calls to the proxy and to both surfaces of the decision server, one limiter, one log, log faults, restarts | `Traces`, `Limiter`, `Interaction` (refinement) |
| `OutputFilter` | what the screening of a stream promises | |
| `Stream` | `screeningReader`, read by read and event by event | `OutputFilter` (refinement) |
| `Producers` | the verdict of each evidence producer, as operators | |
| `Rollups` | `TrendOf` and the crosswalk's `Apply` as operators | `Posture` |
| `Dashboard` | the page, its summary and its sparkline, as operators | `Rollups` |
| `Release` | `runReleaseGate` and `runCrosswalk` on ledgers that may be reused | `Producers`, `Dashboard` |
| `Bundle` | the control tree, and what `validate`, `assess`, `policies` and `generate` say of it, as operators | |
| `Authoring` | the pipeline of commands on documents that are edited, composition into a directory, the collector's map | `Bundle` |
| `LedgerProofs`, `CollectionProofs`, `GatewayProofs`, `StreamProofs`, `AuthoringProofs` | theorems and proofs | the module named; `LedgerProofs` also `LedgerAudit`, `CollectionProofs` also `PostureProofs` |
| `PostureProofs` | lemmas on `SubjectStatus` | `Posture` |
| `ReleaseProofs` | theorems and proofs | `Release`, `PostureProofs` |
| `GatewayBudgetProofs` | the theorems on budgets and on the promise to each call | `GatewayProofs` |
| `MCLedger`, `MCLedgerAudit`, `MCCollection`, `MCGateway`, `MCStream`, `MCRelease`, `MCAuthoring` | instances for TLC | |

### Ledger

Each thread is a goroutine with a program counter over the system calls of `Append`:
`mutex` (`mu.Lock`), `lock` (`acquireFileLock`), `head`, `write`, `sync`, `truncate`
and `stamp` (the two halves of `os.WriteFile` on the sidecar), `release` (the deferred
remove of the lockfile), `unlock`. `op` holds the local variables, `cache` the fields
of the handle, `mutex` the per-path mutex of each process. The file is the sequence of
complete lines and `frag`, the bytes after the last newline; a line written behind a
fragment is not `clean`, which is what makes it unparsable. `flushed` counts the lines
known to be on stable storage; `stale` holds the sidecar contents a power loss may
bring back. SHA-256 is taken to be injective: a hash is the sequence of records it
commits to. Refused records (`maxRecordBytes`) are the constant `Rejected`. A polling
wait for the lockfile is one step or a timeout at any time while it exists.

Faults come from the constant `Faults`: an I/O error at any system call, a write that
stores a part of its line, a kill of one process, a power loss of all. After a timeout
the operator may remove the lockfile, as the error message says, if no process is
appending.

### Collection

A tick is `ReadLedger`, one `Fetch` or `FetchError` per source, and one
`AppendChange` or `AppendError` per change; `Dedup` is computed when the last source
has been polled, from the ledger as it was at the start of the tick (`prior`), and
yields the positions of the observed records that are still `todo`, least first. The
ledger is the append-only log that `EvidenceLog` promises. `world` is what every
stream would report now; its changes carry the present time, no time, or the time of a
clock that is behind (`OddTimes`). `settled` and `mark` are history variables for the
properties: which collectors have finished a clean tick that began after the last
change, and whether a tick began in a settled state.

A stream is whatever gives one result: a rule of a policy for a resource, an
application, a component. `Dedup` knows a record by its control and subject only, so
several streams, of one source or of two, may share a key, and they may contradict each
other. A key is `Contested` while the streams that report on it (`Voices`) differ. The
properties are about keys: the ledger reflects one of the voices, which is all of them
where they agree, and only contested keys keep it from falling silent.

### Gateway

A call is one HTTP request, through one of three doors. A request of the proxy is a wire
request, with headers and a body; `Wire` says which of them `RequestFromHTTP` accepts (it
refuses a body it cannot screen: too large, malformed, or with two keys that differ in
case at most) and what it reads of the others. A request of the decision server comes as
it is. Both are received and pass the gates in one step (`ReceiveWire`,
`ReceiveSubmission`): the gates read nothing that changes while the process lives. The
call then reads the clock (`ReadClock`), is charged (`Charge`, `Unlimited`,
`InvalidCost`; one step, since `Limiter.Charge` holds its mutex), and is logged
(`LogInput`). One admitted by the proxy goes on to the upstream (`Answer`) and, if a
guardrail is configured, to the screen (`ScreenOutput`). The third door takes a generated
output (`ReceiveOutput`): any agent, prompt and id, at any time and as often as it is
presented, with no admission behind it; it is screened and logged. `window` is the
limiter's state per agent, `log` the sequence of log lines, `charges` a history of what was
admitted, when and in which life of the process. A time is a whole number; between reading
the clock and being charged a call may be held up by `Delay` units.

Content is `clean`, `dirty` (a rule matches what the gateway sees of it), `oversize` or
`broken` (the upstream stopped in the middle; such a response has no output line, and is
counted as neither passed nor withheld).

Faults. The error of a log write is dropped by the code, so a write may fail and leave
nothing, or a torn line (`torn`); `unlogged` is the history of the lines this happened to,
by call and phase. `Restart` kills the process and starts another: the windows are gone,
what was under way is lost, the log stays, and the registry is the one then on disk.
Loading does not validate, so some of `Registries` have findings.

Ids. An id is the call's own, one that callers share (`SharedId`: a retry, another agent,
or an output that belongs to a request), or absent. `Traces` pairs the lines by it, from
the log as it was written or from spans of the same calls, which carry neither the model
nor the phase. One line that does not parse fails the whole log (`ParseFails`), so there is
no report over a torn one (`Reports`); what the properties say of reports is empty then.

What all this amounts to for one call, through any door, is stated in `Interaction`,
without steps, windows, log or lives: a request is open, then refused or running, an
output is running when it is presented, and either ends delivered, withheld or lost.
`Gateway` implements it (`ImplementsInteraction`): the stage is read off the reply and,
while there is none, off the step; the case is what was sent and the registry that met it;
a call is drawn when one of the `charges` is its own. A case is blameless if it passes
every gate and its agent has no cap; only what is not blameless may be refused. The charge
comes before the log line, the line before the upstream; a kill between them leaves a
drawn call `lost`, never refused. The promise is to a call and not to an id: what was
withheld under an id may be presented again under it, as the code has it.

### Stream

A stream is a sequence of units: letters of the strings in the data lines, `Mark`
(something outside them that a rule matches) and `Boundary`, which stands for each of the
three event terminators. `eventText` joins every string of an event, and so does `Text`;
some of these strings, ids, roles and model names, an agent leaves aside (`Aside`), and
`AgentText` is what it puts together from the rest. What is proved of the screen is about
all strings of all events, one after the other; §5 says what that is
worth for the agent's own text. `Read` is one turn of the loop in
`screeningReader.Read`: a chunk of any size arrives, every event it completes is screened
(`Take`, `ScreenEvent`) and the buffer limit is applied (`Bounded`); `ReadLast` and
`ReadError` are the turns that come with the end of the response and with an error.
`Deliver` copies what is ready into the agent's buffer, of any length; `Close` is an
agent that hangs up. `sent` and `got` are history: all that was read and all that was
given. The refinement maps them, with the verdict in the log, to `OutputFilter`.

### Release

A release is `Begin` (the manifest is loaded), one `ReadSource` per source (its files are
read, its producer runs, an error or an empty result ends the release), one `AppendRecord`
per record if a ledger was named, `VerifyPasses` or `VerifyFails`, and `Judge`. Between
releases `StartCrosswalk` computes the derived records and `AppendDerived` appends them to
the crosswalk's own ledger. Any append may fail, which leaves the earlier ones in the
ledger. The ledger is the log that `EvidenceLog` promises. A release is given the last one
or a new one; a crosswalk is given the ledger of its derived records apart from that, the
last one or a new one, so that derived records of one source may lie below those of
another. An artifact is what its producer reads of it: reviews with a login and a state,
suites and cases, components with versions; `PersonOf` is what `ToLower` and `TrimSpace`
leave of a login. A subject is a tuple of what the code joins into a path: a commit and
its oid, an image or application and its name, an agent and its version, a component with
name and version. `current`, `paired` and `fresh` are history variables: the crosswalk has
run to its end after the last release, its target holds only what was derived from this
ledger, the release began with an empty one. Of the producers, `policy-report` and `trace`
are not among the sources of a manifest here; `Traces` has the latter. Nothing keeps a
crosswalk from mapping one citation twice; the two then share a subject of the derived
ledger, and `CitationCurrent` speaks of citations mapped once (`MappedOnce`); and only
while `paired`, since the younger of two sources outlives the other in their common
target, whichever was rolled up last.

The pages of the dashboard are made of the same log (`Page`): the rows of `Summarize` with
their counters, the summary, and the sparkline, whose last point is drawn beside it, in
tenths to the nearest of which `%.1f` rounds (`Nearest`).

### Authoring

A control tree (`bundle`) has catalogs, profiles that import controls, components with
rule sets and requirements, and crosswalks; of a document only what two commands might see
differently is kept. A rule set lists the rule ids and the checks it declares in their
order, of which the last counts (`RuleOf`, `CheckOf`), while `DuplicateRuleIDs` counts
every declaration. A malformed document ends every command (`Loads`). `library` maps the
files of the policy library to the controls they are annotated with. `Begin` starts the
pipeline, with the checks (`RunValidate`, `RunAssess`, `RunPolicies`, in the order of the
CI workflow) or at `generate` alone, into a fresh directory or the one of an earlier run.
Each step is a process that loads the documents as they are then, and `Edit` may change
them between any two. `Compose` refuses before anything is written; `WriteFile` then
writes one file at a time, in any order, and `WriteFails` leaves a file as it was, torn,
or unwritten. `StartCollector` reads the map of policies to controls (`LoadConfig`), which
a running collector keeps. `deployed` is history: the documents of the run that completed
the directory.

## 3. Runs

| Run | Question | Bounds |
|---|---|---|
| `ledger` | are the chain, the acknowledged entries and the sidecar sound under interleavings and crashes; is the log implemented; does every call return | two processes, an empty and a legacy ledger, 3 lines, 2 faults of 4 kinds |
| `ledger_audit` | is a verdict of `Verify` true while appends go on | two processes, 2 lines, 1 fault, 2 losses; 1.4 million states |
| `ledger_torn` | violation of the comment on `Entries`: a torn line makes the ledger unreadable | 1 fault |
| `ledger_race` | violation of ADR-0010: without a fault, `Verify` reports deleted entries | 0 faults, 0 losses |
| `ledger_buried` | violation of the package comment: an append over a truncation hides it | 1 loss |
| `collection` | does the ledger reflect the world and fall silent; is the posture right; does a broken source stop the rest | 2 collectors, 2 sources, 3 streams, two of them with one key, 5 entries, 1 change, 1 fault, source 1 broken at will, 1 collector free to hang; 1.3 million states |
| `collection_stale` | violation of the comment on `Dedup`: the posture stays wrong in a settled ledger | 2 collectors, 1 stream, 3 changes, no fault |
| `gateway` | is a gate ever skipped; does a dirty response pass; does the evidence tell the truth, and stay true; does a valid registry pin what is let through; is the promise to each call kept | 2 calls, 6 registries, 14 wire requests, 5 submissions, 6 outputs, 5 responses, 1 restart, 1 log fault, no time passes; 0.87 million states |
| `gateway_budget` | is the tally exact; how much can an agent run in a stretch of time | 4 calls, 2 costs, a window of 3 in 4 time units, delay 1, 1 restart; 0.48 million states |
| `stream` | can a pattern reach the agent; is the verdict of a stream true | every stream of up to 8 units, an id among them, reads of up to 4, a pattern of 3, a buffer of 3; 2.4 million states |
| `release` | is a release ever cleared without evidence; do posture, trend, page and citations agree with the ledger | 2 releases, the second newer or older, 5 manifests over 5 kinds of source, 3 citations, one of them mapped twice, 1 fault; 3.9 million states |
| `authoring` | do the judges agree; can what passes be composed; is the directory exact; is every control traced to a policy and back | 22 trees, 4 libraries, 3 policies, 2 edits, 1 failed write; 0.93 million states |

Why the bounds are enough. Two processes with a handle each give every pair of places two
`Append`s can be at; three lines let a cache be taken, be outdated and be used again; two
faults allow a fault during the recovery from another. A line of two bytes can be torn in
one place, which is all that the parser tells apart. In `ledger_audit` two losses are what
it takes to lose a tail again after an append over the first loss. In `collection` one
change with two collectors gives every overlap of old and new observations, and makes the
shared key a contested one; five entries are one for each key and collector and one
change; the run `collection_stale` shows what three changes add. In `gateway` two calls
interleave their lines in every way, share an id or not, and each kind of request and each
registry is off in one way; one restart lets one of them be decided with another registry
than the other. In `gateway_budget` a budget of one request and four calls are one more
than twice the budget needs, and one restart adds a budget; the run identifies states that
differ only in the log (`BudgetView`), which neither of its properties and no guard of an
action reads. In `stream` the pattern repeats a letter, so that a match may begin inside a
failed one, and is spread over up to three events; a read may complete two events and
begin a third. In `release` each artifact fails in one way, and two releases, the
evaluations of the second dated before or after those of the first, are what it takes for
one ledger to hold an old result and a new one, in either order. In `authoring` each tree
is off in one way, two edits change the tree and the library under one run, and one failed
write leaves a mixture for the next run.

Deadlock is not checked in the ledger, gateway, stream, release and authoring runs, nor in
`collection`: all lines or entries may be used, every call done, the stream over, the
releases made, the edits used up.

Fairness. In `ledger`, a thread inside `Append` keeps running (weak fairness of its steps)
and Go's mutex does not starve a waiter (strong fairness of `LockMutex`). Nobody has to
call `Append` and no operator has to remove a lockfile: `AppendReturns` holds because the
lock attempt times out. In `collection`, the interval timer starts the next tick and a
tick keeps running, in a collector that is kept running (weak fairness of its own steps);
the run asks it of one of the two, and the other may hang for good at any step. A key that
stays contested fills any ledger, so that `BrokenSourceDegrades` is about behaviours that
are not stopped by the bound on entries (`Stopped`). A fetch that never returns is covered
by that collector alone: `execFetch` has no timeout (`main.go:873`), and a source whose
command hangs stops the collector that polls it. Failures are never required and never
excluded.

## 4. What is proved

Every theorem holds for all values of the constants that satisfy the named assumptions
of its module; TLC evaluates these assumptions on the instances above.

**`LedgerProofs`** (assumptions of `Ledger`): type correctness, the inductive invariant
`IInv`, and from it exclusion, the unbroken chain, durability of acknowledged entries,
soundness of the sidecar, healing by a successful append, and the refinement of
`EvidenceLog`, for any numbers of goroutines, handles, processes, records, lines and
faults. None of these properties is inductive alone. The chain is unbroken because the
writer's idea of the head is right when it writes; that needs exclusion, which needs that
a writer implies a lockfile; and it needs that a cached head is right whenever its size is
the size of the file, which holds because the size of the file never falls while a handle
keeps its cache and grows with every line and every torn byte: power losses shorten the
file, and end the processes that hold caches. The sidecar is sound because it is stamped
after the flush, so that every content a power loss can bring back counts flushed lines.
`IInv` is the conjunction of these facts; its proof has a lemma per action.

**`LedgerProofs`, second part** (those and `LossAssumption`): the types of `LedgerAudit`,
`IntactMeansComplete` for any number of losses, and `NoForgeryAlarm`, which claims nothing
once a tail was lost. While no tail is lost, `IInv` carries on and what `Verify` has read
is a beginning of the file that holds all it owed (`Whole`). After a loss that the sidecar
can tell, nothing is past its write, and every acknowledged hash is in its place or beyond
the end of the file, which the sidecar counts (`Told`); the verdict on a shorter file is
then "deleted". `AuditInv` is the conjunction; a step of the ledger after such a loss
either writes nothing or makes the loss `hidden`, of which nothing is claimed.

**`CollectionProofs`** (`StreamAssumption`, `CollectionBounds`): `CollectTypeOK`,
`SettledReflects`, `SettledSilent`, `ToldStored` and `PostureFollows`, for any collectors,
sources, streams, keys they share, changes and failures. That the ledger is right once all
have settled is not inductive: a tick with old observations may append them at any time.
`CollectInv` therefore says who will put it right: where the ledger is wrong about a
stream, some collector that has not settled either carries old observations and must tick
again, or compares with a ledger that was wrong already, or is about to append a record of
that stream's key (`Owed`). Wrong is a ledger whose latest record of a key is none of its
voices; where they differ, any of them will do. It stands on three facts about a single
tick: a collector that has settled, or is about to, carries only current records
(`Fresh`), has one of the key of every stream of the sources it has polled (`Polls`), and,
if its tick began when all was settled, finds the ledger right and has nothing to append
but for contested keys (`Quiet`). The lemmas about `Latest` and `Dedup` say what a look
into the ledger and the comparison with it yield (`LatestDecided`, `LatestKept`,
`DedupKeeps`, `DedupDrops`). For the posture, every record is about a stream of some
source (`NamedInv`), and where the times of a key are in order the rollup takes the row
that `Dedup` takes, the last one (`LatestSpeaks`, by `LatestWins` of `PostureProofs`); so
the gaps of a settled ledger are those of the world.

**`GatewayProofs`** (`GatewayAssumption`): `GatewayTypeOK`, `BlockedDrawsNothing`,
`ForwardedLogged`, `OutputVerdict`, `QualifiedSurface`, `EvidenceFaithful` and
`EvidenceMonotone`, for any requests, outputs, ids, registries, limits, numbers of
restarts and faults. The properties are about what was *sent*, read off the wire request
and the registry entry by entry, so the proof first shows that what `RequestFromHTTP`,
`Decide` and `Screen` let through is `Admissible`: the entry that a lookup finds is the
first one with that id (`LeastIndex`, by well-founded induction), and with a registry that
`Validate` accepts it is the only one. The invariant `GInv` then says of every call, by
the step it is at, that it has passed the gates (`GateInv`), that its decision is in the
log, unless the write of that very line failed (`LogInv`), and that a response or an
output was screened and has a line that says what became of it (`OutputInv`).
`BlockedDrawsNothing` has no run of its own: what refines `Interaction` has it. What the
evidence says needs more: every line is of a call and names what the call was given
(`LinesInv`), and a call that was refused, or whose output passed, is in the log unless a
write of its own failed (`DecisionInv`). A report judges the lines again; an input that
was let through is judged as it was (`Rejudged`), an output that passed is a lapse if its
agent and prompt are not registered, for nothing had asked before (`OutputRejudged`,
`Stray`). `EvidenceMonotone` is of two reports that can be drawn: after a torn line there
is none.

**`GatewayBudgetProofs`** (`GatewayAssumption`): `TwiceBudget`, `TallyExact` and the
refinement of `Interaction`. For the first two, the invariant `BInv` says that the windows
of one agent in one life of the gateway are apart (`Ordered`), that the present one is the
last of this life and has counted what was charged in it (`Windows`),
that no window holds more than the limit (`Limited`), that a charge is late for its window
by the delay at most (`InTime`), and that a call that has read the clock brings a time that
is neither older than the delay nor older than any charge of an earlier life (`Reads`):
this is what keeps a late charge out of a window that has elapsed, and what a clock read
before the mutex could break. A stretch shorter than the window then meets two windows of
the first life that charges something in it and one of each later life; the bound is a
count over these classes (`Classes`). `CInv` adds that a call is charged once
(`OnceInv`) and that the current window has counted every charge in it, request by request
and unit of cost by unit of cost (`TallyInv`); it needs `BInv`, for a window that is opened
counts from zero, and no earlier window may have begun at its time.

For the refinement (`PromiseKept`), `PInv` says of each call where it stands by its step
(`Along`) and what it has paid (`Paid`): while it waits to be charged, nothing; when it
comes to be logged, exactly if it is let through and its agent has a budget; and if it is
not let through, it is to blame; an output draws nothing. With the lemma that what is
blameless passes the gates (`BlamelessPasses`, the converse of what `GInv` needs of them),
every action moves the call it is about by one step of `Interaction`, or not at all, and
leaves the others where they are (`PromiseStep`); a restart moves each of those under way
to its end.

**`StreamProofs`** (`StreamAssumption`): `StreamTypeOK`, `VerdictTrue` and the refinement
of `OutputFilter`, for every pattern, overlap, limit, stream and split into chunks: what
is clean is the text of all strings of all events (`Text`), of which the agent may put
together a part. The lemma that the design rests on is `TailIsEnough`: behind a content
that is clean, an occurrence of the pattern in the whole text is one in the tail followed
by the new text, because the tail is all of the text or at least one unit short of the
pattern (`OccursBehind`), and the tail of the probe is the tail of the whole text
(`TailBehind`). It stands on the text of a concatenation being the concatenation of the
texts (`TextConcat`). The invariant `SInv` says that a reader at work has passed on clean
whole events and holds the beginning of one (`Live`), and that one that has stopped did so
at an offence (`Blocked`), at an event that is too long (`Overflown`) or at the end
(`Forwarded`); `DrainedSound` carries this through the units of a chunk.

**`ReleaseProofs`** (`ReleaseAssumption`): `ReleaseTypeOK`, `ClearedSound`,
`ClearedRecorded`, `CitationCurrent` and `PageAgrees`, for any manifests, artifacts,
crosswalk, numbers of releases and faults. `ReleaseAssumption` says that manifests and
crosswalk are lists, that the type of a source is one of the five, and that its artifacts
are what a parser yields (`Parsed`). For each producer there is a lemma that its records
are for the source's control and are all satisfied only if the artifact is `Shippable`
(`ProduceSound`); those about reviews and components follow the loop of the code by
induction along the list (`ApprovesLast`, `SBOMForm`). The invariant `RInv` says that the
records hold what the producers made of every artifact read so far (`Backed`), that the
ledger ends with those appended (`LedgerInv`), and, for the crosswalk, that no derived
record is younger than what would be derived now, nor than a later one of its citation, as
long as the target was fed from this ledger alone (`NotNewer`, `Rising` while `paired`):
an anchor's last observation never moves back in one ledger, so that the last record of a
citation decides. With two sources it may, and the guard is needed. `PageAgrees` needs of
the invariant only that the ledger is a list of records; what it says holds of every such
list (`PageFacts`). The chronological order is total, so that each record has one place in
it (`PlaceIn`, `PositionIn`); along it the trend knows of every control its latest record
so far (`DrawnOn`, `TrendDrawn`); with one subject per control and usable times that is
the record the rollup takes, although the rollup reads the ledger in its own order
(`LatestIsStatus`). The last point then has the greatest total, and the rest is the
arithmetic of the frame: rounding to the nearest tenth leaves the frame alone (`Rounded`,
`Scaled`, `LineFramed`) and puts a point at the top only if what is missing is less than
half a tenth (`AtTop`), that is, from 800 controls on.

**`PostureProofs`**: what the rollup makes of the records of one subject. Its status is
that of one of them (`SpokenFor`), so it is satisfied if all are, in whatever order they
come (`AllSatisfied`). If their usable times are in order the last one decides
(`LatestWins`), and if all their times are usable the youngest one (`YoungestWins`). The
rollup is a recursive function along the ledger; that such a function exists is proved
once, by induction on the length (`Carried`), and serves the trend as well.

**`AuthoringProofs`** (`AuthoringAssumption`): `AuthoringTypeOK`, `JudgesAgree`,
`ComposeReady`, `DirectoryExact` and `SelectedTraced`, for any trees, libraries, edits and
faults. First the operators of `Bundle` are restated by their members: a policy belongs to
a requirement and the group that decides the rule it names, which exists for every
declared rule (the least one, `RuleDecided`), the last of the ids its group declares
(`DeclaredLast`). The pipeline's invariant `AInv` says what the passed checks
have established of the tree (`GateInv`, as long as no edit intervenes), that a fresh
directory is empty until the first write (`FreshInv`), that the files no longer in `todo`
are as composed (`WriteInv`), and that the completed directory is what was composed
(`DeployedInv`).

Only model-checked: liveness under fairness (`AppendReturns`, `BrokenSourceDegrades`),
which is out of the prover's reach.

## 5. Findings

Four runs end in a violation; each refutes a sentence of the repository and is listed in
`PROJECT.json` under `findings`:

* `ledger_torn`: a torn line makes the ledger unreadable, where the comment on `Entries`
  says that it does not;
* `ledger_race`: without a fault, `Verify` beside an `Append` reports deleted entries;
* `ledger_buried`: an append over a truncation hides it from `Verify`;
* `collection_stale`: an observation appended late freezes a wrong posture.

Four more sentences are stated in the modules beside the properties that do hold. TLC
refutes each at once when it takes the place of the invariants in the configuration of the
component:

* `OnlyTransitions` (`Collection`): two results of one control and resource that differ are
  appended at every tick, where "the ledger records state transitions, not every poll"
  (`dedup.go:10`);
* `OutputAdmitted` (`Gateway`): an output is screened and allowed although nothing was
  admitted, where "the agent already passed the input-admission decision" (`server.go:119`);
* `EveryCallLogged` (`Gateway`): a request whose line could not be written is forwarded, where
  the gateway "records every call" (`docs/adr/0007`, line 13);
* `NeverReassembled` (`Stream`): a pattern passes that is spread over two events, the second
  of which carries an id before its delta, where "the full pattern is never completed"
  (`proxy.go:461-462`).

Met while modelling, and followed by the modules as the code has it, without a property of
their own:

* `validate` takes a control for covered when a requirement names it, though the comment
  says "maps to a policy" (`validate.go:147-149`); a requirement without rules passes it and
  fails `assess`. `JudgesAgree` states exactly what the two do share.
* `DuplicateRuleIDs` asks its callers to reject (`oscal/types.go:146-149`) and has no
  caller; the second declaration of a rule is dropped silently, which is why
  `DirectoryExact` promises completeness of unambiguous trees only.
* A rule set that declares two checks keeps the last one (`oscal/types.go:116`); the other is
  dropped silently.
* The posture of a crosswalk ledger that has served two sources is that of the younger
  evidence, not of the rollup that ran last; `CitationCurrent` is about one source.
* `Write` removes nothing: a directory that is used again keeps policies of earlier runs.
* Nothing makes the gateway refuse a registry in which `Validate` finds something,
  although it is to be checked "before anything downstream" relies on it
  (`registry.go:5-7`). `QualifiedSurface` is about those without findings.
* A stream that breaks off or is hung up on leaves no output line.
* After the first failed append a tick gives up the changes that are left
  (`collector.go:77`), so a record that can never be appended (one over the size limit)
  would hold up those behind it at every tick; `BrokenSourceDegrades` is about sources
  that fail to fetch.
* A log line has a time of its own, read after the charge (`server.go:140`), which no
  reader compares with the window.

## 6. Where to go from here

All components with state are modelled. Worth adding: an instance of `Gateway` in which
time passes while the log is watched.

## 7. Not modelled

* Parsing, rendering and wording: the readers of YAML, JSON, SARIF, JUnit and CycloneDX,
  the tables of `report` and `posture.Render`, the HTML, the labels and the routes of the
  dashboard. They keep no state; what they read is the input of a module, a document that
  cannot be read is an error of its source (`Unreadable`, `Loads`), and what they write
  nothing reads back.
* The envelope of a trace export, the times of log lines, and the parts of `LoadConfig`
  that end the command before it does anything.
* Commands that parse arguments, call one component and print. The loop of `runCollect`,
  `runReleaseGate`, `runCrosswalk`, the authoring commands and what a start of the gateway
  loads are in the modules.
* Records over the size limit in `Collection`; regular expressions, of which a rule that
  matches or not is left; costs that are no whole numbers.
* Hash collisions, an editor that rewrites the ledger, and file systems that do not honour
  `fsync`.
