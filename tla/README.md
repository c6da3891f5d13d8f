# Formal models of metriplane

TLA+ models of the parts of metriplane that keep state while something else
goes on: other threads, other programs, other services, crashes, time. Each model
is translated from the source and checked by TLC on small instances; the safety of
the publication protocol, of the main-health broker and of the release journals is
proved with TLAPS for all instances. Line numbers refer to the files under
`src/metriplane/` and `src/tools/`.

## The system and its parts

metriplane turns camera or recorded observations into object tracks, zones,
events and incidents, and exports evidence bundles about them. A launcher starts
the live loop, a runner service that executes allowlisted commands, and a
dashboard. Beside the product the repository holds the services that govern it:
a broker that is the only one to merge into main, a workflow that publishes, and
the commands that prepare a release.

| part | state it keeps | operations | what is hard about it | what makes it correct |
|---|---|---|---|---|
| durable publication (`publication.py`) | destinations, transaction directory, generations, pointer, journal | `publish_transaction`, `recover_publication` | a crash or error between any two file operations, also during recovery; programs that write destinations without the lock | all or nothing; nothing published before is lost; recovery never gets stuck |
| bounded queue (`pipeline/bounded_queue.py`) | a deque, closed flag, waiters of one condition | `put`, `get`, iteration, `close`, `clear`, `drain`, `extend` | waiting producers and consumers on one condition, time-outs, closing | bounded, in order, accounted for, drained before the end, no lost wakeup |
| stage runtime (`pipeline/runtime_threaded.py`) | worker threads between queues | `start`, `stop`, `join` | stopping while a worker blocks; closed output queues | every item goes through or is counted; stop ends |
| command executor (`runner/executor.py`) | job slot, history, child process groups | `execute`, `cancel`, background thread | a cancel before, during and after the start; limits; job ids | a job ends once, is found later, leaves no child |
| runner service (`runner/service.py`, `operator_api.py`, `command_center_api.py`) | none beyond the executor | HTTP handlers | reads the executor in several lock sections | a status is one the executor had |
| safe file access (`runner/safe_writes.py`, `safe_reads.py`) | files below a pinned directory | atomic write, exclusive create | checks before renames, crashes | readers see the old or the new file |
| object registry (`tracking.py`) | tracked objects and when each was seen | `update`, `snapshot` | expiry happens only when a frame arrives | nothing stale is reported |
| zone analytics (`zone_analytics.py`) | zone, entry time and pending exit per object; dwell, transitions, events | `update`, `finalize`, `export_csv` | vanishing and returning objects, gaps between zones, the edge of the time window | the totals agree with the events |
| live loop (`run.py`, `run_fusion.py`) | frame counters, resources | one iteration per frame | camera errors, interrupts | drives the two above |
| main-health broker (`main_health_broker.py`) | a spool in SQLite; on GitHub a check per pull, a check and a ref per lease, a state branch | one cycle after another; the operator's recovery of a lease | every write can crash, time out, be answered late or take effect later; reviewers, workflow and GitHub go on meanwhile; the spool can be restored from a backup | nothing is merged but what was admitted, once, on the main it was admitted for, and never during a publication |
| stop-the-line state (`stop_the_line.py`, `observe_main_health.py`) | the history on the state branch | `activate`, `ingest`, `resolve` | reruns, late results, reads that miss the last push | red ends only with a repair that passes |
| publication workflow (`release_artifacts.py`, `publish-pypi.yml`) | the jobs of a run | wait, assert twice, upload, verify, observe the release | the lease may expire or vanish between two jobs | what is uploaded is main |
| release commands (`release_control.py`) | a directory of invocations per stage, outputs in the run directory, the candidate tree | `run_release_command`, begin, supervise, install, complete, read back | no lock: invocations overlap; crashes and torn writes; workers that outlive their supervisor; validators that write to the tree that is renamed | a record is true and stays readable; what is announced can be consumed |
| launcher (`launcher.py`) | state file, child processes | `start`, `stop`, `restart` | a crash between start and save; children that do not stop | every child that runs is named by the state |
| streaming (`streaming/ws_server.py`, `ws_thread.py`) | a queue per client, the server thread | connect, broadcast, start, stop | slow clients, stop during start | the newest frame arrives; the thread ends |
| sentinel (`sentinel/`) | rule durations and cooldowns, alerts, incidents | `update`, `group` | long sequences of observations | incidents are the maximal groups of alerts |
| spatial contracts (`contracts/`) | durations, cooldowns, zone entry times | `update` | absence and return of objects | durations are of uninterrupted presence |

The rest is listed in `PROJECT.json` with the reason it is left out: numeric
code without state (geometry, calibration, fusion, forecasting), sequential
validation and building of documents (atlas, exporters, provenance, external
sources, archive safety, the repository's checks), device input and presentation.

How they interact: the live loop calls registry and analytics once a frame, hands
the frame to the WebSocket thread and to sentinel. The runner service calls the
executor from its HTTP threads. The public export, sentinel bundles and atlas
(bundles, redacted copies, runtime) all end in `publish_transaction`; several processes
may do so below one directory, which is what its lock is for. The bounded queue
connects the stages of the threaded runtime. The broker and the publication
workflow see each other through GitHub only: the broker reads which job a run is
at, the run reads the ref and the check of its lease. What the broker records on
the state branch decides in the next cycles what it merges. A finalized candidate
is what the validators of a release append their own invocations to.

The hazards that tests hardly reach are listed in `PROJECT.json` at the line
where each one bites, with the properties that would catch it going wrong.

## Modules

| module | models |
|---|---|
| `PublicationAtomic` | what a publication promises: one step replaces all destinations and the pointer |
| `Publication` | the protocol of `publication.py`, one action per durable effect |
| `PublicationInvariant` | the inductive invariant `IInv` |
| `PublicationOpen` | `Publication` beside a program that writes destinations |
| `PublicationOpenInvariant` | the inductive invariant `OInv` of that |
| `PublicationProofs` | the theorems about `Publication` and `PublicationOpen` |
| `BoundedQueue` | `pipeline/bounded_queue.py` and the condition it waits on |
| `BoundedQueueProofs` | the theorems about it |
| `CommandExecutor` | `runner/executor.py` |
| `CommandExecutorProofs` | the theorems about it |
| `ZoneTracking` | `tracking.py`, `zone_analytics.py` and the part of the `run.py` loop between them |
| `ZoneTrackingProofs` | the theorems about it |
| `BrokerBase` | what the parts of the broker share: its process, main, the bounds on faults |
| `PublishLease` | the lease, in the broker, in the workflow and in the operator's recovery |
| `MergeAdmission` | gates, requests, the merge call and its proof |
| `Broker` | the two composed into the cycle of `run_once` |
| `BrokerInvariant` | its inductive invariants |
| `BrokerProofs` | the theorems about `Broker` |
| `HealthState` | the results of main, the state branch, repairs |
| `HealthProofs` | the theorems about it |
| `ReleaseJournal` | the invocations of one release command, their workers, the installation of outputs |
| `ReleaseJournalProofs` | the theorems about it |
| `CandidateFinalization` | the finalizer of a release candidate, beside validators |
| `CandidateFinalizationProofs` | the theorems about it |
| `MC...` | constants and symmetry for TLC |

Definitions marked `Defect:` are small mistakes that the code does not make. Each
property is violated when one of them takes the place of the definition
beside it; they document what a property is there to notice. No
specification uses them.

### Publication

State: the destinations (`dest`), the backups and discarded artifacts of the
transaction directory, the retained generations, `current.json` (`pointer`) and
`active.json` (`journal`, with the fields of the file; the lists that the code
requires to be contiguous are represented by their length). `pc` is where the
caller that holds the lock is: `publish_transaction` and `recover_publication`
take `fcntl.flock` on one file for their whole run (lines 1329, 1774), so at most
one caller is inside. `cont` says why recovery runs: to open a publication
(1379), after an error (1526) or by itself (1319).

A step is one durable effect with its fsync: a rename, a journal write, a
pointer write, an unlink. Checks belong to the step they guard, but where a
destination is checked and then renamed the two are separate steps, which
matters as soon as somebody else writes destinations. `Raise` is an error
anywhere (the `except` of line 1525 or, outside it, the end of the call);
`Crash` is the death of the process anywhere. Neither touches files. A crash in
the middle of an atomic JSON write or of a rename leaves the old or the new
state, which is the crash before or after the step.

Abstractions: a generation is its content, as its identifier is its digest (line
790); an artifact is compared as a whole; candidates are copies of the
generation and are not kept as state; directory modes, owners and namespaces are
left out. Errors of the validators on damaged store files are left out: nobody
but the protocol writes the store.

Properties. `PriorRetained`: before the commit an artifact that was published
earlier is at its destination or in its backup. `ProjectionOfPointer`: when no
transaction is open the destinations are the generation the pointer names.
`NeverBlocked`: none of recovery's fail-closed checks rejects what the protocol
itself left, and no destination is taken when it is to be published. `GenerationsResolve`, `NoOrphans`: no dangling pointer, no backup
without a journal. `IsAtomic`: with the view that an open journal gives (before
the commit the previous artifacts count, after it the new ones), the protocol
implements `PublicationAtomic`.

`PublicationOpen` adds a program that creates, changes or removes destinations
at any moment. The steps that refuse what they find (`Refusals`) belong to it: by
`NeverBlocked` no state of `Publication` meets their conditions, so its `Next` is
without them. Without overwrite, nothing it leaves is lost (`ForeignRetained`),
and in both modes the protocol loses no previous artifact that this program had
not already destroyed (`PriorRetainedBesideWriter`). With overwrite the first of
the two does not hold: `publication.py` checks that a destination is absent (1484) and
then calls `os.replace` (1486), so a path that appears in between is replaced and
lost, where `docs/maintainers/publication-protocol.md` (38-39) lets it remain and
block. `ClosedUnlessWritten`: once errors and crashes stop, the calls that follow close
an open transaction, and only what the other program wrote can keep it open.

### Bounded queue

A step is what a thread does between taking the lock of the condition and
releasing or waiting on it. `waiters` is the list of `threading.Condition`:
`notify()` takes its head, `notify_all()` empties it, and a waiter whose
time-out expires takes itself off when it has the lock again (so a notification
may reach a thread that is about to give up). Items are numbered in the order in
which they are accepted. `taken`, `discarded`, `cleared`, `accepted` and `sealed`
are history variables that say what became of each.

`Leaves`, that what is queued leaves the queue while somebody consumes, holds
with callers that wait without a time-out because one consumer iterates, and
`__iter__` polls (262). Without such a consumer it does not hold (see Findings).

### Command executor

A step is a lock section, or one effect between two: spawning the gated
supervisor, opening the gate, terminating a process group. Executions, threads
and children share a number; the record a thread works on is the one it found
when it looked up `current_job` (line 888), which need not be its own.
`Terminate` may fail to verify that the group is gone; the child is then
`unverified`. Job ids are numbers of their own, for an execution of a command gets the
id of an earlier one if the second is the same: `Execute` takes either a new id or
one that is in use. A thread that finds the record of another execution under its id
works on that one. `HistoryTrue` and `CancelledIsStopped` except jobs whose id
was given again (`Unshared`); `EveryCancelStops` is the second without the exception,
and does not hold (see Findings). `JobsEnd` and `ChildrenEnd` need no exception.

### Zone tracking

A step is one iteration of the loop: registry and analytics run in one thread.
`Frame` takes any subset of the objects as detected, each in any zone or in
none. `ReadError` lets time pass without a frame. `Stop` is the interrupt with
`finalize`. Time advances by any of `Steps`. A key that is missing from a
dictionary reads as `None`, which is also what the code stores for an object
outside all zones.

Dwell times and transitions are compared with the events, which record every entry
and exit: a dwell time is the number of units of time that lie in a visit
(`DwellIsVisits`), a transition is an exit that an entry elsewhere follows within the
window (`TransitionsAreExits`). Occupancy is compared with the registry
(`OccupancyFresh`).

### Main-health broker

State on GitHub: main, the open pulls with the broker's check on each (`gate`, with the
request its external id names in `used`), the merge call (`put`), the lease's ref and
check. State of the broker: the tables of its spool (`request`, `lease`) and where
its one process is (`pc`, `cursor`, `round`, `todo`); a lock file keeps the process
single (8272-8417). State of the workflow: the job of each run (`step`), which half of an
assertion has succeeded, how far the run came.

A step of the process is one write, to GitHub or to the spool, with the reads that
decide it: SQLite makes a write atomic and durable. A call whose answer is lost
ends the cycle, before or after it took effect (`Crash` on either side of the
step); only the merge call may take effect later still (`ProviderMerge`). `Crash`
may come anywhere, `SpoolLost` restores a spool that knows nothing, `Drift` and
`Tamper` are what somebody with more rights than the rulesets does.

`PublishLease` follows `PublishLeaseController.reconcile`: discover a run that
waits, reserve a lease, create ref and check, judge the lease again in every cycle,
release it once the run observes its upload verified, quarantine it when something
does not fit. `ControlledPublishLeaseRecovery` is the operator's way out of a
quarantine. The workflow waits, asserts the lease (`AssertFirst`, `Asserted`: ref
first, check second), asserts it again in the job that uploads, uploads, verifies and
observes the release.

`MergeAdmission` follows `run_once` and `_process_pull`: settle what an earlier
cycle left merging (`OrphanProved`, `OrphanClosed`, `OrphanDoubted`), close every gate,
admit a request, journal it, open the gate, look again, send the merge once, and read
what became of it.

Abstractions. A pull is its number and head; a new head is another pull. Whether a
request is admissible (reviews, permissions, expiry, checks, rulesets) is one bit
that can change at any time. That branch protection would refuse a branch that
is behind is not used: `MergedOnBase` has to follow from what the broker does. There is
one check run per lease. The health of main is a step that ends the cycle or does
not, as `HealthState` writes only the state branch. `Restorable` lets a snapshot without
`wait_started` through, which `_restore_ref` refuses (4615, 3861): the model has behaviours
there that the code does not have.

Properties. `MainHeld`: from the moment a run holds its lease until its release is
announced, nothing is merged. `UploadOnReleaseCommit`: what is uploaded is main.
`TerminalProofs`, `FenceCoversProvider`: a lease ends with the proof of it on GitHub,
and what is on GitHub is fenced for. `GateIsJournaled`, `OneAttempt`,
`MergedOnBase`: an open gate is journaled, a merge is sent once, and merges on the main
it was admitted for. `LeaseSettles`, `OrphansResolved`: nothing stays half done.

### Health of main

`branch` is the history on the state branch, an entry with the state it led to; a
read may miss the last push (`lag`). A cycle selects the newest attempts on main
(`SelectRuns`), lists them again (`ConfirmRuns`), compares the state with what it would
record, pushes, and waits until the push can be read (`AwaitMain`); then it
records deep runs (`ListDeep`, `RecordDeep`), resolves a merged repair
(`ReadRepair`, `Resolve`), and comes to the pulls. A merge is one step here; its parts
are in `MergeAdmission`. Workflow runs begin and are run again at any time and
end as they like.

Properties. `RecordedOnce`: the branch never repeats an attempt, which would make it
unreadable for good. `GreenIsEarned`, `RedUntilRepaired`: a failure is never hidden by
an older success, and red ends only with a repair of that incident that passes.
`MergedOnEvidence`: nothing is merged beside results that the broker should have
seen, unless the pull was asked for as a repair. The incident it was asked for may be the
one that the last push ended: with two pulls, a read behind that push still shows it red.
`Proceeds`: the service keeps coming to the pulls, unless a deep run was left
unrecorded before main moved on (`Stranded`, which
`docs/maintainers/main-health.md` (39) names as a stop for the operator) or a repair
does not bind (`Unbound`, see Findings). Requests are made before the merge only: a
review with the marker of a repair request that is posted on a merged pull, another way
for line 6541 to raise, is left out (`Ask`).

### Release journal

Invocation `s` of a stage is the directory `s`, its supervisor and its worker:
`entry` and `prior` are the intent, `terminal` is `invocation.json`, `installed` says
whose file is at each output. `Inspect` is what `begin_release_invocation` reads
before it makes the directory, `Reserve`, so that several may inspect the same
state. `Supervise` is `_supervise_release_invocation`: wait for the worker, stop its
process group, verify what it staged, install by one exclusive rename per
output, and write the terminal. Failures are everywhere the code has them: a
rename that is refused or undone (`InstallFails`, `TakeBack`), one that is done but
whose flush fails, so that it is not in the list of what is taken back
(`InstallUnlisted`), a failed flush after everything is installed (`Fail` at
`passing`), torn writes that stay as evidence (`Tear`), a group that cannot be
stopped (`GroupRemains`), a worker's child that goes on writing (`Alter`).

An invocation that fails leaves two records, one after the other: the inventory
`partial-files.json` (`partial`, `RetainPartial`) and the terminal (`Complete`).
Beginning the next invocation looks for the terminal only (11619); reading a record
back parses the inventories of all those before it (`Inventory`). One that passes may
need `terminal-commit.json` beside its terminal (`witness`, `Commit`): where
`witnessed` holds, a PASS without it cannot be read back. That is the branch of
`_complete_invocation` for `validate_release_evidence_stores.py` (15547-15559). At this
commit the tool answers BLOCKED in live mode (14757-14763) and runs under
another supervisor in fixture mode (`_release_fixture_command_supervise`, 36000, not
modelled), so only callers that call `_complete_invocation` themselves reach it; it is
modelled as the supervisor's own code.

Properties. `PassHolds`: a terminal that says PASS is true and stays true.
`SettledFirst`: nothing is installed or recorded while a process of the worker is
left. `ReadsBack`: a terminal can be read back with all its predecessors, unless
one of them was taken for interrupted while it ran or was cut off while it wrote its
inventory, or it is a PASS whose witness is missing. `AcceptanceStays`: an accepted
output stays accepted, but for three named events: an invocation that is reserved
and has no intent yet, one that was overtaken and closes, and one that was
overtaken and is cut off while it writes its inventory.

Left out: the contents of arguments, inputs and records; inputs are files that
nobody changes. The gate pair, the qualification directory and the single-output copy
have installers of their own (15098-15286) and are not this model.

### Candidate finalization

`home` is where the candidate tree is, `journal` what validators left in it, `path` the
path a validator was started with. The control journal is outside of the tree.
Invocation 1 finalizes: it captures the tree, places the identity, renames the
directory and reads it twice, writes the terminal, and only when that is flushed the
receipt. Every later invocation only observes; its intent witnesses the bytes of those
before it, and the terminal is not written when the witness is no longer true
(`Contradict`). `Completed` is `_validate_finalization_completion`, `Qualified` is what a
consumer checks. Every validator is assumed to have a stage of its own, so that each
opens the first invocation of its stage; two of one stage, where the second would look
for the terminal of the first, are not modelled.

Properties. `ReceiptProves`: the receipt exists only for a flushed terminal of a tree
that was moved whole. `AnnouncedQualifies`: success is announced without reading the
tree again, and the candidate can be consumed nevertheless once validators and
observers are done, unless a validator made the staging directory again or an
observer crashed or overlapped. `ContradictionBlocks`: a witness that is no longer true
blocks the candidate for good.

## Runs

| run | instance | distinct states | shows |
|---|---|---|---|
| `publication` | 2 destinations, 2 contents, any number of calls, errors and crashes | 1.3 M | safety and the refinement |
| `publication_open` | 1 destination, 2 contents, 2 foreign writes | 375 k | nothing is lost beside another writer; transactions close |
| `queue` | 2 producers, 1 reader, 1 iterator, 1 manager, sizes 1 and 2, every policy and mode, 4 puts | 89 k | accounting, order, draining, release |
| `executor` | 2 executions, ids shared or not, history of 1 | 10 k | history, no cancelled command left, end of jobs and children |
| `executor_same_second` | 2 executions | | violated, see Findings |
| `zones` | 2 objects, 2 zones, 4 frames, time-out 1, window 2 | 211 k | totals agree with events, nothing stale |
| `broker` | 1 run, 1 pull, 1 request, 1 fault, 1 change past the rulesets, 1 lost spool | 929 k | how leases end, leases and merges together, liveness |
| `broker_merge` | 2 pulls, 3 requests, one of an owner | 3.2 M | gates, attempts, bases |
| `health` | 1 pull, 1 deep cadence, 4 attempts, 1 repair request, 1 fault | 1.0 M | the state branch, merges on evidence, liveness |
| `health_renewal` | the same with 2 repair requests and no fault | | violated, see Findings |
| `release_journal` | 3 invocations, 2 outputs | 3.0 M | records are true and stay readable |
| `release_candidate` | 3 invocations, 2 validators | 732 k | receipt, consumption, contradiction |

Why the bounds are enough. `publication` has no bound on calls, errors or
crashes: its state space is finite. Two destinations are what it takes for one to be
done and the other not, and the proofs cover every number. Two contents
distinguish old from new; symmetry permutes them, which is sound because
contents are only compared and no liveness is checked in that run. Beside a
writer one destination suffices, since every check concerns the destination the
loop is at. In the queue, four puts fill the larger size and leave two producers
waiting; two consumers are needed for a notification to reach the wrong one. Two
executions let a record leave the slot for the history while its thread goes on, and
two threads work on one record, which is what the end of a job could depend on
besides its own thread; that the history forgets its oldest is left to the proofs,
which have any number of executions (with three, TLC finishes on the two invariants,
in 2.0 M states, and not on liveness).
Four frames allow enter, leave, vanish and return, and the steps 1 and 2 of the
clock lie on and beside both the time-out and the window. One run of the workflow
has every end of a lease; that further attempts begin meanwhile is left to the
proofs, which cover any set of runs (`LeasesEndProved`, `LeasesFenced`). Two pulls
with three requests are two that compete for main and one that replaces another on
its pull; one fault of each kind combines with the two others, and the proofs have
no bound on any. Four attempts are a push, its rerun, a deep run and the merge
commit's. Three invocations have one that interrupts, one that is interrupted and
one that follows; two outputs are one installed and one not. No run of the two
release models bounds crashes.

Fairness. `PublicationOpen`: a running call goes on (nothing in it waits for anyone)
and somebody calls `recover_publication` again; there is no daemon that does, so
`ClosedUnlessWritten` holds under that assumption only, and only if errors and
crashes end. `BoundedQueue`: threads that can run do run, and consumers keep
calling `get` or iterating; producers need not call. `CommandExecutor`: its threads
run, and a command that does not end meets its time limit; a command need not end by
itself. `Broker`: the service cycles (`_serve` loops, and systemd starts it again),
and the two hours of a lease pass; the workflow, the reviewers and GitHub
need do nothing. `HealthState`: the service cycles, attempts end (their workflow
sets time limits), pushes can be read at last; reruns are bounded by `MaxRuns`. The
release models have no fairness: a supervisor waits for its worker without a limit, so
nothing need happen.

Deadlock is checked in the publication, broker and health runs and in `queue`. In the
executor, zone and release runs the bound on executions, frames and invocations stops
the system.

## What is proved

The assumptions are those of the modules' `ASSUME`s: numbers are positive, `None`
is no value, the bounds are natural numbers, and in `ZoneTracking` that the objects are
finitely many, since they are keys of a dictionary. No proof uses that a set is small.

`PublicationProofs`, for every number of destinations and every set of contents:
`Invariance` (`Spec => []IInv`), `TypeCorrect`, `PriorIsRetained`,
`ProjectionIsPointer`, `GenerationsAlwaysResolve`, `RecoveryIsNeverBlocked`,
`NothingIsOrphaned` from it, and `PublicationIsAtomic` (`Spec => IsAtomic`), the
refinement.

The properties are not inductive: that a backup exists where the journal says so
depends on where the interrupted call was. `IInv` has two halves. `StoreOK` speaks
of files alone and has to hold wherever a crash strikes: for each destination it
lists the places its old and new artifact can be in, given the journal
(`ForwardFiles` while nothing is rolled back, `IndexFiles` once a rollback has
begun, where indexes above `RollIndex` are restored and those below are still as
the publication left them). `ControlOK` says what a running call knows beyond
that at each `pc`, such as that the operation it is about to perform is the one
the journal announces. A crash drops the second half and keeps the first; entering
recovery establishes the second from the first. That recovery does not refuse
(`NotBlocked`) follows from the two by cases on what the journal announces. There is
one lemma for each action that changes files or the journal and one for all that
change neither (`PureSteps`). The refinement maps the journal write of `CommitPhase`
to `Commit`, calls and ends to theirs and everything else to stuttering steps;
`StepRefines` goes through the actions with `IInv` at hand.

The same module proves, for any number of acts of the other program at any moment,
`ForeignIsRetained` (`OpenSpec => []ForeignRetained`) and `PriorIsRetainedBesideWriter`.
`IInv` is of no use there, since nothing it says of a destination is left: `OInv` keeps
what only the protocol writes. `CallOK` is what the journal alone says at each `pc`,
`DirectoryOK` says which backups and discarded artifacts there are at each place of a
publication or a rollback (`PlacesOK`), and `ForeignOK` strengthens `ForeignRetained`: a
destination taken by somebody else is in place or set aside, never a backup, because
without overwrite there was nothing to back up. From these, a destination that holds no
previous artifact has its backup (`PriorRetainedBesideWriter`, itself a part of `OInv`)
whenever the journal lets a rename replace it. What the other program destroyed itself is
in `defaced`, and only if it had no backup at that moment.

`BrokerProofs`, for any sets of runs, pulls and
requests, any number of faults and of lost spools, and one change past the rulesets
(`MaxDrift` is 0 or 1): `TypeCorrect`, `LeasesEndProved`, `LeasesFenced`,
`OpenGatesJournaled`, `MergeSentOnce`, `MergesOnBase`, `MainIsHeld`,
`UploadsReleaseCommit`, which are all the safety properties of the two broker runs. The
invariants of `BrokerInvariant` build on each other. `LeaseInv` adds to the two
properties of leases what the process knows about the lease it works on. `GateInv`
does the same for gates. `AttemptInv` finds what remembers a sent merge when the spool
does not: a sent request is outdated, or its pull's gate names it (`Retired`). `BaseInv`
says that one gate at most is open, and for a request made on the commit main is at.
`MainInv` is where the two halves meet: there is one lease at a time, whoever came
past the wait is fenced for, and where a gate may open there is no lease. `CommitInv`
adds that what is acquired is main. `MainHeld` and `UploadOnReleaseCommit` then
follow step by step.

`ReleaseJournalProofs`, for any number of invocations and outputs: `Invariance`,
`TypeCorrect`, `PassesHold`, `WorkersSettleFirst`, `TerminalsReadBack`,
`OutputsStayAccepted`, which are all the properties of its run. The invariant says for each
supervisor and each place what it has installed, what it still has to take back, and that
its worker is gone (`Early`, `Quiet`, `Installing`, `Removing`, `Passing`); no supervisor
needs to know what another does, since a rename is exclusive and only one's own files are
taken back. The last two theorems compare neighbours and rest on a second invariant,
`RInv`: an invocation that has begun has the intents of all those before it (`Begun`), and what
it noted of the last one is still so (`Noted`), since a terminal is never taken back and one
that is missing when its supervisor has ended stays missing. Each action only writes
its own records, once (`Records`), which is all that `Noted` needs to know of it. A failure has
its inventory before its terminal, and a PASS has none (`Kept`): an inventory that was cut off
can only be that of a predecessor without a terminal.

`CandidateFinalizationProofs`, for any number of invocations and any validators:
`Invariance`, `ReceiptsProve`, `ContradictionsBlock`, `AnnouncedIsConsumed`. The lemma
under the third is that a witness that is untrue stays so: entries, terminals and the
receipt only ever go forward. The last rests on a second invariant, `AInv`: no captured
journal is open, and once the move is confirmed each journal captured is as it was and an
open one knows the final path (`Gathered`); without overlap every witness is true
and those before it are over (`Alone`); and an intent stays (`Known`).

`BoundedQueueProofs`, for any number of threads, puts and sizes: `NothingLost`,
`FirstInFirstOut`, `EndsDrained`. Whatever a thread does, the items only ever move in three
ways: one is accepted and the oldest are evicted for it (`Joins`), the oldest are handed
out (`Hands`), all are cleared (`Forgets`); who waits and who is notified does not matter.
The invariant says that what left the queue is older than what is in it (`Aged`), which
makes every count exact, and that `close()` only ever seals what was accepted.

`CommandExecutorProofs`, for any number of executions, any length of the history and
whatever ids are shared: `TypeCorrect`, `HistoriesTrue`, `CancelledAreStopped`. The last two
speak of jobs whose id is theirs alone (`Unshared`); that is no assumption on behaviours but
part of the properties, and a job can lose it at any later `execute()`. While it lasts, the
invariant ties the job's thread to the record that was made for it (`Own`), has nobody but that
thread settle the job, as the last thing it does (`Late`), and has whoever cancels it hold its
child, once that is registered (`Hunted`). Whatever is shared, a thread works on a record with
its own id (`JInv`, `Found`), so that a step touches the threads and records of one id only
(`Apart`).

`ZoneTrackingProofs`, for any objects, zones, time-outs, windows and any number of frames:
`TypeCorrect`, `OccupancyIsFresh`, `TransitionsAreLogged`, `DwellIsLogged`. That the
analytics are given the registry's places makes the first invariant (`Placed`). The totals need
what the tracker remembers to be what the log ends with: entries and exits
alternate, an odd log is an open visit to `last_zone`, and the last exit of an even one is
either pending or older than the window (`Logged`), so that an entry is counted just if
the log has the exit for it (`CountedLogged`); an open visit began with the last event
(`Dated`), and closed visits lie before it (`Earlier`), so that each adds its length and
none counts twice.

`HealthProofs`, for any sets of pulls and cadences and any number of attempts, requests and
faults: `RecordsAreUnique`, `TypeCorrect`, `GreenEarned`, `RedEndsRepaired`,
`MergesOnEvidence`, which are all the safety properties of the run. The first needs little: the
broker's reads may be one push behind, what it is about to record was not recorded when it
read, and a push on another generation is refused (`IInv`). The others rest on two more.
`History` is about GitHub and the branch and holds whatever the broker is doing: a red entry
and all since its incident began are red for it (`OneIncident`), deep attempts are recorded in
the order in which they began with none passed over (`DeepInOrder`), those on protected main
in theirs (`MainInOrder`), requests of a merged pull name the incident it was merged for or one
that is over (`Bindings`), and a green state is not green in spite of what is recorded for main
(`MainPasses`). `Knows` is what the broker holds at each point: that no later attempt on main
is recorded than the one it looks at (`AtMain`), that what it passes over is recorded
(`AtDeep`), that main stays what it was unless somebody goes past the rulesets (`AtRuled`), and
the evidence it has for a resolution and a merge (`AtResolve`, `AtMerge`). The one argument that
is not local is `NeverStale`: a read behind the last push never shows main healthy, for what it
misses is a result that `verify_current_health` looks for, or the end of an incident that it
still shows open.
What runs do (`Grows`) is told apart only by whether main moves (`Remains`, `Moves`).
The model assumes that `None` is not a record of a merge, which holds of any value that
stands for nothing.

Only model-checked: liveness (`Leaves`, `CloseReleases`, `JobsEnd`, `ChildrenEnd`,
`ClosedUnlessWritten`, `LeaseSettles`, `OrphansResolved`, `Proceeds`), which rests on
fairness and `ENABLED`.

## Findings

**Renewing a repair request** (run `health_renewal`). Admission of a repair asks
that the newest request of the pull is in force (`select_repair_admission`, 2519); after
the merge every repair request must have been in force when the pull was merged
(`_merged_repair_binding`, 6541). A pull whose request expired and was renewed on the same
head, which `docs/maintainers/main-health.md` (177-178) foresees, is merged, and then
every cycle raises before the incident can be resolved.

**Two executions, one id** (run `executor_same_second`). The id of an execution is the
command's name and the time in seconds (`executor.py`, 834-835). Execute, cancel and
execute one command within a second, before the first thread has looked its job up
(888): both threads find the second record and start a child for it, and
cancelling it stops the child that registered last while the other runs on. The
docstring calls the id "Unique identifier for this execution" (796), the comment says
"Generate unique job ID" (833).

**A notification for the wrong thread** (no run of its own). Producers and consumers
wait on one condition, and `put()` and `get()` each wake one waiter, whatever it
waits for (`bounded_queue.py`, 198 and 255). With two producers, one consumer, size 1
and `KEEP_ALL`, all without time-outs, the wakeup that the consumer needs can go to a
producer; all three then wait for good with an item queued. The class says that
`put()` and `get()` are "safe across multiple producers/consumers" (73-74). TLC shows
it as a violation of `Leaves` when the configuration of `queue` has no iterator and no
manager, and `PutModes` and `GetModes` are `{"wait"}`. The repository's own consumers
poll with a time-out (`runtime_threaded.py`, 139; `bounded_queue.py`, 262) and recover.

Observations, which no document of the repository contradicts:

- Queue: a put that waits looks for space before `closed` and may be accepted after
  `close()` (197).
- Executor: `cancel()` frees the slot before the child is stopped, so that two commands
  run at once (1216).
- Broker: an operator's recovery that is interrupted, followed by the service, leaves
  the lease quarantined with a reason that differs from its check's; every later
  cycle raises and the recovery cannot be started again. When authority fails for a run that
  still waits, its lease is abandoned and cannot be begun again, which ends every
  cycle until the run stops waiting (1425-1456). A late merge call of an earlier
  request can merge under the gate of a later one for the same pull (on the right main).
- Health: an attempt that is recorded as a failure because the selection changed between
  two reads while it was still active is never corrected; only another rerun helps.
- Release journal: a directory that was reserved and has no intent, in any stage, blocks
  the acceptance of all outputs of the run; a terminal that was cut off stops its stage for
  good; a predecessor that is overtaken and closes makes its successor's outputs
  unreadable. After a crash while `partial-files.json` is written, the retry can install and
  record a PASS that cannot be read back, and its stage then goes no further: the inspection
  (11619) does not look at the file, the readback (15406) does.
- Candidate: an observer that runs beside the finalization, crashes, or overlaps another
  disqualifies a finalized candidate; a validator that was started with the staging
  path after the move makes that directory again (11684) and blocks consumption.

## Not modelled

`PROJECT.json` lists every component with its reason. Of the modelled ones: the
ownership check between namespaces of the publication store and the worker process that
Darwin uses in place of a pinned descriptor; the output capture of the executor; the
authority behind an admission, the policy amendments of the stop-the-line state and
the one-time recovery of the broker from a provider stall (5374-5672); what release
records say and how evidence is checked, which is most of `release_control.py` and
pure; its special installers and the promotion lock.

## Plan

1. Done: publication with its invariant, proofs and refinement; the queue with its proofs;
   executor and zone tracking with theirs; the broker with its proofs; the health of main
   with its proofs; release journal and candidate finalization with their proofs.
2. `PromotionLock` and the remaining installers over `ReleaseJournal`; abstract
   specification: at most one promotion at a time owns a lock.
3. `StagePipeline`: workers over `BoundedQueue` with stop and join. `Launcher`: children,
   state file, stop and restart across crashes. `SafeWrites`:
   `SecureDirectory.atomic_write` beside other writers.
4. `SpatialContracts` and `SentinelIncidents`: durations, cooldowns and
   absence; grouping against a reference definition over bounded inputs.
   `Streaming`: client queues and the life of the server thread. Namespaces with
   overlapping destinations in `PublicationOpen`.
5. Proofs: every safety property of the passing runs is a theorem; each module of the
   points above comes with its own.
