# Verification of the LSF job manager

TLA+ models of `lsfmgr`, a PyQt library that submits, watches and kills batch
jobs on an LSF cluster from a GUI.  TLC checks the models on small instances and
TLAPS proves the central results for every size.  Paths below are relative to
the repository; `submitter.py` means `lsfmgr/submitter.py` and so on.

## 1. The system

### Components

| component | state it keeps | operations | what makes it correct |
|---|---|---|---|
| kill-priority gate (`lifecycle.py`) | `_activities` (registered submit cycles), `_barriers` (kills that are up) per jobset | `register`, `unregister`, `KillScope.begin / acquire / release` | a kill that acquired sees a jobset in which nothing of its scope is being submitted; nothing starts under it; other jobs go on |
| bulk submitter (`submitter.py`) | `_contexts`, and per cycle: `cancel_event`, `cancelled_keys`, `inflight`, the retry ledger, the counters | launch with `pre_submit`, reset of the records, fan-out, one attempt, retry, cancel, finish | every unit counted once, one `submit_finished`, no row stuck in SUBMITTING, no live job without a record |
| killer (`killer.py`) | `_active`, local plan of each kill | quiesce, resolve, bkill with confirmation, verify, mark, finish | no job of the scope escapes; the mark `killed` is true; the barrier always comes down |
| manager facade (`manager.py`) | wiring, polling services, paced signals | submit, cancel_submit, kill, remove, edit, relay of signals, shutdown | the guards between operations; order of the signals |
| completion tracker (`completion.py`) | staged and armed post_process, the once-only latch | `stage`, `confirm`, `discard`, `maybe_finish`, `forget` | `jobset_finished` once per run, and always |
| monitor (`monitor.py`) | missing streaks, polling timers | query, apply, judge missing, auto-stop | no live job declared LOST; a stale answer never overwrites a newer execution |
| store (`store/`) | records, state counters, revisions | insert, add, delete, transition, summary | the counters agree with the records after every operation |
| jobset editing (`jobset_core.py`) | the intended count of a jobset | create, edit, remove, clear, detect_lost | the summary agrees with the records |
| finish handlers (`handlers.py`) | ledger of evaluated jobs, work queue, drain flag | add, tick, re-check, drain | each handler fires as often as it promises; no lost wakeup |
| signal pacer (`pacer.py`), utilities (`util.py`) | pending batches, slots, throttles | push, drain, forget | the last state of a job is what the GUI ends up with |
| internal status source (`internal_status.py`) | cached statuses, one fetch in flight, interest | fetch, takeover, merge, expiry | late answers never replace newer ones |
| LSF command layer (`command.py`) | the format it has downgraded to | run_submit, bjobs, bkill, parsers | a live job is never taken for gone |
| job states, options, configuration, handles, reports, mock LSF, examples, tools | - | - | value classes, views, a stand-in for LSF and demonstrations |

### Interaction

The application calls the manager on the GUI thread.  `submit` registers a cycle
with the gate and queues its launch on a *coordinator* thread; the launch runs
the user's `pre_submit` check, resets the records to SUBMITTING and fans one
task per job out to a *pool*.  A failed task puts its retry into a ledger and
asks the GUI thread for a timer, which starts the next attempt.  `kill` raises a
barrier, cancels the captured cycles on the GUI thread, and continues on a
*kill thread*: wait until nothing of the scope is in flight, resolve the
targets from the Store, bkill, verify by a query, mark, release.  Polling
threads query LSF and store what they see.  All meet in the Store, where each
update is a guarded transition of one record.  Worker threads report to the GUI
thread through queued signals, from which the completion tracker, the handlers
and the application's slots run.

### What is hard

* A cycle and a kill that start at the same time, and several of each at once.
* A wrapper that is running when the kill arrives: its job id is not known yet.
* A retry that is owned by a worker, the ledger, a request or a timer in turn,
  and that a kill, `cancel_submit` and the timer all try to settle.
* Records removed, reset or observed as ended between two steps of a task or a
  kill.
* Waits that time out, bkills whose delivery is unknown, queries that fail.
* `submit_finished`, `kill_finished` and `jobset_finished` must come - once.

* Posts of several workers that reach the GUI in another order than the writes.
* A status callback that never returns, and answers that arrive after they were
  given up.
* A report that goes out before the decision it belongs to, and a signal that is
  delivered after what it announces is over.
* Slots of the application that call back into the part that is calling them.

The list with line numbers is under `hazards` in `PROJECT.json`.

## 2. Modules

| module | models | role |
|---|---|---|
| `SubmitGate` | `lifecycle.py` and the contract of its callbacks | abstract specification |
| `SubmitGate_proofs` | - | TLAPS proofs |
| `SubmitKill` | `submitter.py`, `killer.py`, the guards of `manager.py` | detailed specification, shown to implement `SubmitGate` |
| `SubmitKill_proofs` | - | TLAPS proofs |
| `Completion` | `completion.py`, the slots of `manager.py` that feed it, the polling worker of `monitor.py` | when `jobset_finished` and post_process happen |
| `Completion_proofs` | - | TLAPS proofs |
| `JobStore` | `store/memory.py`, `jobset_core.py`, and the writes of the other threads | the records of a jobset with what is kept beside them |
| `JobStore_proofs` | - | TLAPS proofs |
| `Querier` | `JobsetQuerier` of `monitor.py`, `bjobs_by_ids` of `command.py` | what a status query makes of LSF's answers |
| `Querier_proofs` | - | TLAPS proofs |
| `InternalStatus` | `internal_status.py`, `query_ids` of `monitor.py` | the callback that can take the place of bjobs |
| `InternalStatus_proofs` | - | TLAPS proofs |
| `Handlers` | `handlers.py` and the polls and resets that drive it | when a job's handlers run |
| `Handlers_proofs` | - | TLAPS proofs |
| `Relay` | `pacer.py`, `_emit_jobs`, `_forget_paced` and the editing of `manager.py` | the order in which the GUI sees records |
| `Relay_proofs` | - | TLAPS proofs |
| `MC...` | - | instances for TLC, one per module |

### SubmitGate

One jobset, since the gate keeps jobsets apart by dictionary key.  State:
`activities` and `barriers` are the two tables of the gate.  `acts`, `notified`,
`waited`, `quiesced`, `keys` and `stage` are the fields and the progress of each
`KillScope`.  `want`, `refused`, `phase`, `cancel_event`, `cancelled_keys`,
`inflight` are the fields of a cycle the gate's callbacks look at, and `running`
is what those callbacks are about: the keys whose submission has begun and whose
outcome is not stored.

`Register` and `BarrierUp` are one critical section of the gate lock each.
Everything outside that lock is an action of its own: `AdoptRefusal` (the caller
of `register` takes the refusal over), `CancelActivity` (one callback of `begin`),
`WaitActivity` / `WaitTimeout` (one callback of `acquire`).  Between any two of
them every other thread may run.

The contract the submitter has to meet is written into `Enter` (the marks are
read and `inflight` is written under one lock), `Leave` (never while an attempt
of the key runs) and `Close` (only when nothing runs).

### SubmitKill

The variables of the gate reappear; `running` is not a variable but the function
`Running` of `task`, which is the refinement mapping of
`Gate == INSTANCE SubmitGate WITH running <- Running`.  Where the code calls the
gate, the action *is* the gate's action in conjunction with the rest of the
handler (`Submit` is the guards of `manager.submit` and `Gate!Register`).  The
other actions have to be shown to be gate steps or stutters: run `submit`
checks `Gate!Spec` as a property, and section 4 proves it.

| code | state here |
|---|---|
| `_contexts[jobset_id]` | `context` |
| the coordinator thread of a cycle | `launch` |
| one `_SubmitTask`, its retry in the ledger included | `task`, `attempt` |
| the queued signal and the QTimer of a retry | `signal` |
| the task between its last statement and its `finally` | `leaving` |
| `ctx.ok / failed / cancelled`, `ctx.finished`, emission of `finished` | `count`, `finished`, `reports` |
| the record in the Store | `rec` |
| LSF | `alive` (unfinished jobs), `doomed` (bkill accepted) |
| `_KillTask` | `step`, `targets`, `accepted`, `spared` |
| `Killer._active` | `active` |

Data that no property tells apart is abstracted: PEND stands for every state on
LSF, DONE for every end a query observes, a job id is the cycle that obtained it
(a cycle creates at most one tracked job per key).  `alive` and `doomed` are
ghosts of LSF: no manager action reads them except through a query (`Observed`)
or a bkill (`Bkill`).

Every `Store` transition is atomic (it runs under the store lock).  A wrapper
may succeed, fail for good, fail retryably or raise something unclassified; the
pre_submit callback may pass, refuse or raise; a bkill of a live job may be
accepted or remain unconfirmed; a query may fail.

### Completion

The GUI thread serves `queue` (the queued signals `records_reset`,
`gate_rejected`, `submit_finished`, the poll's `updated`, `kill_finished`) in
the order in which the worker threads posted them; the polling thread serves
`requests` in its order.  `pending_arm`, `post_process`, `finished_latch` are the
three tables of the tracker, `timer` and `idle` those of the polling worker.  A
record carries `run`, its `_generation`: the cycle that reset it last.

`maybe_finish` reads the records and decides later, while the other threads run
on: `JudgeRecords` is the part up to `store.get_jobs`, `Judge` and `JudgeLater`
the part from `blocks_completion` on.  A kill is not modelled in detail (that is
`SubmitKill`): it may confirm any subset of its targets.  Removal of a record is
left out because `remove_jobs` does not judge completion.

`news` and `ran` are what the application has seen: whether a completion is
owed, told or told twice since a job was last unfinished, and how often each
post_process ran.  `ahead` and `unconfirmed` are history for the properties: that a
completion was told while the `records_reset` of its own run was still waiting, and
the cycles that have reset records and released no latch.  `Finish` waits for no
delivery, as `_finish_if_done` does not, so a cycle may be over before the GUI thread
serves its `records_reset`.

### JobStore

One jobset: a store call touches only the entries of the jobset it names.
`jobs`, `counts` and `intended` are `_jobs`, `_counts` and `intended_count`; the
dictionaries are functions on part of their keys, so that "no entry" and "an
entry 0" differ as they do in the code.  A record carries what guards and
properties tell apart: its state (`PEND` for every state on LSF, `END` for the
terminal states other than LOST), whether it has a job id, `_generation` as a
number that `fresh` hands out, and `_revision`.

There are two locks.  `lock` is the store lock, seen only where it is held from
one step to the next: a bulk call is one step per element and keeps it to the
last, which lets `CountsOK` speak about the middle of a batch.  `meta` is
`_meta_lock`.  `edit[e]` is where thread `e` is in an operation of
`jobset_core.py`: what is left of its batch, whether a key was there when the
batch was checked, the count it has read.  Its steps are store calls, and
between two of them all other threads run.

| code | actions |
|---|---|
| `local_create_jobset`, `local_create_jobs` | `LocalCreateJobset`; `LocalCreateJobs`, `AddOne`, `CountForGrow`, `Grow` |
| `local_edit_jobs` with its three policies | `LocalEditJobs`, `EditOne`, `CountForSync`, `Sync` |
| `local_remove_jobs`, `local_clear_jobs` | `LocalRemoveJobs`, `DropOne`, `CountForSync`, `Sync` |
| `local_remove_jobset` | `LocalRemoveJobset`, `DeleteJobset` |
| `submit_targets`, the submitter's transitions | `Submit`, `Reset`, `Attempt`, `Outcome` |
| a query; `detect_lost` | `Snapshot`, `ApplyOne` for the readers `"poll"`, `"lost"` |
| `set_user_data` | `ResolveRef`, `SetUserData` |

The writers in the lower half do not take `_meta_lock`; the manager keeps some
of them from overlapping an edit by its busy guard, which is a conjunct of
`LocalEditJobs` and `LocalRemoveJobset` as it is in the code, and is absent from
`LocalRemoveJobs`.  Not here: the mark of a kill, which is a transition like that
of `SetUserData` as far as this module can tell, and the deletion with which
`create_jobset` takes back a jobset whose records could not be stored.

### Querier

One jobset.  `th` is where each querying thread is, from taking its turn
(`Enter`, `Snapshot`) over the command (`ReadFormat`, `Downgrade`, `RunBjobs`) to
the judgement (`PopStreaks`, `Judge`) and the two batches of guarded writes
(`ApplyUpdates`, `ApplyLost`).  Between any two of them LSF works on (`LsfStep`)
and the record is killed, resubmitted, removed or ages; the forgetting of an
ended execution's count (`Forget`) comes later still, on the main thread.

The pure parts are operators: `ChunkArgs` and `FailedIds` (chunks, and the
give-up after two failures in a row), `ParseBjobs` (which fields a row of a
format yields), `Aggregate` and `Lookup` (the rows of an array job), `MergeFields`
and `CountOf`.  A job id stands for an execution and is `gen`; a time is present
or absent.  `miss` is history: the answers in a row that were asked about an
execution, at an age at which it counts, and did not list it.

### InternalStatus

`fetch` are the threads that run the application's callback, `current` is
`_fetch_token`, `reader` the threads in `query_ids`.  The clock is a counter that
is read where a reader starts and where a fetch starts, which is all the code
compares.  A callback answers with a state each job had at some moment of the
call, but for a late merge as late as one likes; `floor` is history, the state
each job had when the youngest fetch merged for it began.  A waiting reader compares `_gen`
with the value before its wait; what it learns from that is `woken`.

### Handlers

One handler name of one jobset (names and jobsets share only the workers).
`cur` is what the main thread is doing and `main` its event queue; `reg` tells one
handler object from the next of the same name.  `_drain` and `_run` are cut where
a lock is released or the handler is called, so a tick, a removal or a shutdown
may come between any two of their steps.

The polling worker does what `_poll` does, in its order: `Poll` posts the report that
leads to the tick, and only then `AutoStop` reads the records, which may have moved on,
and stops the timer if all are terminal.  A submission is staged with its token and
its `auto_poll` (`Stage`), resets its record on a thread of its own (`Reset`) or is
refused (`Refuse`).  When its `records_reset` is delivered it is confirmed by the token:
`OnRearm` starts the handler over and asks for polling if `auto_poll` says so, and
`OnStaleReset`, with the token of a submission that another has replaced, does nothing.
The request to poll is served by the polling thread (`StartPolling`).

Three variables are history: `finals`, the keys whose execution had its final run by
the object that is registered; `late`, the keys that ended, were armed or got their
handler when no report was waiting and none has been posted since; `unarmed`, the keys
whose reset was not told.

### Relay

A writer changes a record under the store lock and posts it later, so posts may
overtake each other.  The manager's slots and the pacer run on the main thread;
`todo` is the drain that is under way, and between its elements the application
may call `EditJob` or `RemoveJob` from its slot.  Each key is a jobset of its own,
which makes the drain call the application once per key.  `stopped` serves for a
manager without a pacer too.

## 3. Runs

| run | instance | question |
|---|---|---|
| `gate` | 2 keys, 2 cycles, 1 whole + 1 selective kill | does the gate alone keep kill priority, no start and no revival under a kill, no collateral cancellation |
| `submit` | up to 2 keys, 2 cycles, 1 whole + 1 selective kill, 1 retry, removal, in the scenarios below | do submitter and killer implement the gate; accounting; does a cycle that is not finished always have a key that goes on; refused keys untouched; no leak, no orphan; is the mark `killed` true |
| `submit_live` | 1 removable key, 1 cycle, 1 kill, 2 retries, `actual` status policy, fairness | every cycle and every kill comes to its end |
| `completion` | 2 keys with two activities, or 1 key with three (3 cycles and a kill to choose from); both status policies; every launch may fail | is a completion told, except where `Excused` says so, from records that still hold, and again only if it was told ahead of its `records_reset`; does a post_process run at most once and on its own run; does a removed jobset leave nothing behind |
| `store` | 2 editing threads; 2 keys with short histories or 1 with a longer one | do counters, summary and intended count agree with the records; do batches apply to the end; does a write ever lose an id, hit another execution or repeat a revision |
| `query` | 3 keys, one of them an array job, 2 queriers and a reader, 3 formats, LOST after 2 | is LOST earned; are streaks exact between two queries; is an end real; are known fields kept; is a format never skipped |
| `internal` | 1 id, 2 readers, 3 fetches of which 2 may be unreturned, failover | does a late answer set the ledger back; is a fresh answer fresh; do fetches pile up; does a dropped id stay behind |
| `handlers` | 2 keys, 1 worker, 2 submissions, fairness | is a job ever twice in its handler; is a queued run left to nobody; is a final run forgotten when nothing is under way any more, other than for the reasons named; does a job that is done before a look that is still to come get its final run |
| `relay` | 2 keys, 2 writers, 2 writes in all, 2 lives of a key | does the GUI ever go back or show a removed job; does it end up with what the store holds |
| `told_twice`, `stale_remove`, `absent` | small | findings below: expected violations |

Bounds.  Each cycle and each kill is used once, so their number bounds the
history; two of a kind already give every pairing the gate tells apart (captured
by one barrier and refused by the other; a cycle that outlives a kill; a kill
that outlives a cycle).  Two keys give a key inside and one outside a selective
scope.  `MaxRetry` 1 makes a first and a last attempt, 2 an inner one.

`MaxQueue` bounds only the polling thread (it waits before it posts to a longer
queue), `MaxRequests` only what the application asks of it: an unbounded number
of polls and requests adds repetitions, since a poll in the middle of any other
activity is already there.

Where the full product of an instance is out of reach, a constraint of its MC
module joins several smaller instances, so that each property is checked where
the actors it is about all occur:

* `submit`: one cycle of one key, `cancel_submit` and a selective kill; one cycle
  over two keys with `cancel_submit`, or with a selective kill and one retry; two
  cycles over one key and a selective kill; one cycle over one key and two
  overlapping kills.  Records are removed where one key is alone.
* `completion`: two jobs with two activities (cycles and kills), or one job with three,
  which it takes for a latch to be left behind by a `records_reset` that is ignored and
  met by the cycle after.  The jobset is removed where one job has two activities, and
  the user stops the polling, or asks for a single poll, where there are not three.
  `MaxQueue` 1 lets a poll's report be in front of any signal of a cycle.  Keys and
  cycles are interchangeable: all cycles may fail and post.
* `store`: two jobs go through a reset and an outcome, or a replacement, under the
  edits of either thread; one alone goes through three executions, the least for
  an answer about an execution to meet its successor in the same state.
  `MaxGeneration` and `MaxRevision` bound the executions of a key and the writes
  to a record.  `MaxIntended` 1 gives a count announced in advance that the
  records reach and exceed.
* `query`: the array job alone, killed, removed and resubmitted under both queriers
  (only `DONE` ends it there, `EXIT` being an end like another); one job of either
  kind whose elements run to their ends while formats are downgraded under all
  threads; three chunks that fail or not.  LOST after 2 is the least at which a
  count is carried from one query to the next.
* `handlers`: two jobs undisturbed, or one alone with a re-registration, submissions or
  a shutdown.  Two submissions are the least for one to replace another that waits to
  be armed; the last of them has `auto_poll` and the first has not.  A job is lost where
  it is alone.  One worker is the hardest case for a lost wakeup and still runs beside
  the main thread.  The constraint restricts what the environment does in a behaviour,
  never a step of the service, so that no fair behaviour of the service is cut off.
* `relay`: one key is written twice, or two once each.  Two writes can overtake each
  other; two keys can be held back at once.
* `internal`: three fetch slots give a fetch beside `MAX_INFLIGHT` = 2 that a wrong
  guard would start.  `MaxClock` 4 gives two readers and two fetches, or one
  reader more in place of a fetch.  In a run that is shut down nothing is dropped.

Deadlock checking is off: with every cycle and kill used up, the system rests.

Fairness.  `FairSpec` of `SubmitKill` assumes weak fairness of `System`, the steps of the
manager's own threads taken together, and nothing of the application, LSF or the
polling loop.  The code justifies it: a wrapper and a bkill run under a
subprocess timeout, `acquire` waits with a deadline, a pool thread runs to its
end, and retries and the end of a kill are served by the Qt event loop.  Since
an instance has finitely many system steps, fairness of the disjunction is
enough: no fairness of single actions is needed.  `Handlers` assumes that the
event loop serves its queue, that the polling thread goes on (serves requests, polls
while the timer is on, decides to stop), and that each drain worker, a pool thread,
goes on; a handler is assumed to return.  Users, submissions, gates and the jobs
themselves are not fair: `FinalRuns` starts from a job that is done.

Mutants.  Modules carry, before a definition, variants with a plausible
mistake (named "Mutant of ..."); no action uses them.  Substituted for the
original, each makes a property fail, which shows the property depends on it.

## 4. Proofs

Every specification that has a run has theorems, each about all values of the
constants: any number of keys, cycles, kills, threads, fetches, formats, chunks
and retries, histories of any length.  Each `*_proofs` module proves an inductive
invariant (`Init => Inv`, then one lemma per action or per kind of step that
keeps it) and derives from it the type invariant and the properties the runs
check.  Where the properties alone are not inductive, what was added is named
below.  The invariants were checked by TLC, on the instances of the runs or
smaller ones, before they were proved; they are not properties of those runs.

| module | theorems (`Spec => []P`, or `Spec => P` for an action property) | assumed of the constants |
|---|---|---|
| `SubmitGate_proofs` | `GateInv`, `TypeOK`, `KillPriority`, `NoStartUnderKill`, `NoRevival`, `NoCollateral` | `WholeKills \subseteq Kills` |
| `SubmitKill_proofs` | `Inv`, `TypeOK`, `CountExact`, `FinishedIsSettled`, `RefusedUntouched`, `KilledIsTrue`, `NoOrphan`; with `PromptLeave = TRUE` also `GateSpec` and `NoLeak` | finite `Keys`, `WholeKills \subseteq Kills` |
| `Completion_proofs` | `Inv`, `TypeOK`, `JudgedTruly`, `NoLeftovers`, `PostOnOwnRun`, `ToldOnceUnlessAhead`, `ToldOrExcused`; with `FinishOnGateReject = TRUE` also `unconfirmed = {} => Told` | the types of the options |
| `JobStore_proofs` | `StoreInv`, `TypeOK`, `CountsOK`, `BatchApplies`, `NoGhosts`, `RevisionsGrow`, `IdKept`, `AnswersMatch`, `SummaryAgrees` | finite `Keys` |
| `Querier_proofs` | `Inv`, `TypeOK`, `FormatTight`, `EndIsReal`, `StreakExact`, `NoEarlyLost`, `FieldsKept` | queriers are not readers, finite job arrays |
| `InternalStatus_proofs` | `Inv`, `TypeOK`, `LedgerFresh`, `FreshIsFresh`, `InflightBound`, `GoneForgotten` | finite `Fetches` |
| `Handlers_proofs` | `Inv`, `TypeOK`, `NoOverlap`, `QueueServed`, `NoneForgotten` | finite `Keys`, finitely many workers and at least one |
| `Relay_proofs` | `Inv`, `TypeOK`, `Converges`, `InOrder`, `NoGhostRow` | finite `Keys`, the types of the bounds |

`PromptLeave` is not a property of the code for every configuration: it holds with every
backoff that is longer than the end of a pool thread, the default among them, and
without it TLC refutes `NoLeak` (section 5).  It is a hypothesis of the two theorems that
need it and of no other.  `FinishOnGateReject` is an option, True by default
(`config.py`); without it TLC refutes `Told`.  What holds under
either value, wherever launches fail and whatever the order of the signals, is
`ToldOrExcused`, which names the exceptions instead of assuming them away; `Told` is
its corollary as long as every cycle that reset its records has confirmed them.
The proofs about completion assume nothing about the speed of the GUI thread.

### The gate and its implementation

`KillPriority` is not inductive: nothing in it says why a cycle that registers
later stays out.  `GateInv` adds three parts.  `CycleInv` says what a cycle
knows of itself (it runs only keys it was given and not refused, and an open
cycle has adopted its refusal).  `KillInv` ties the stage of a kill to its
barrier and its callbacks.  `HandoverInv` is the heart: a live cycle meets a
raised barrier either refused (it registered under it) or captured (it was
registered before); a captured one carries a lasting cancellation mark once
notified; and a wait that returned True stays true, because a marked key cannot
be entered again.  One lemma per part shows it preserved by every action;
`KillPriority` follows from `GateInv`, and `NoStartUnderKill`, `NoRevival` and
`NoCollateral` from it and one step.

`SubmitKill_proofs` rests on seven parts.  `LaunchInv` gives how far the tasks of a
cycle may be by how far its launch is.  `CountInv` equates the three counters with
the number of settled keys, so that a cycle is finished exactly when none is
left: every step that counts settles one key that was not, which `finally`,
cancelled retries and keys that were never queued all have to respect.
`OneCycleInv`, `RetryInv`, `RecInv` and `DoomedInv` tie the context, the attempts,
the records and the accepted targets to them; no task gets a record that another
cycle moves because a transient record always has a task, and two unfinished
cycles cannot be.  `ParkInv` says that a retry in the ledger has its timer or the
request for it; with `CountInv` it shows that a cycle cannot stay unfinished with
nobody at work on it.  For the refinement, `FlightInv` says that whatever is being
submitted is in `inflight`.  This is where `PromptLeave` is needed, and only here:
the late discard of section 5 breaks it.  Given it, each action is shown to
be a step of the gate under the mapping, or to leave the gate's variables alone.
`NoLeak` then follows from `KillPriority` of the gate's states.

### Completion

`CycleInv` and `ArmInv` keep what is pending or armed to a cycle whose launched
records are still its own or were edited since, which is what `PostOnOwnRun` needs:
an edited record is not terminal, and only a new cycle makes it so, whose
submission drops the older arming.  `RecInv` says why an edited record is safe
from a kill that is under way.  `JudgeInv` is `JudgedTruly` with what it depends on
(no cycle is active, and a kill that could still mark a record is an active one).
`GoneInv` is stronger than `NoLeftovers`: a removed jobset has nothing armed at any
time, and the last request the polling thread will serve is `stop`.  These hold
under every setting.

`ToldOnce` does not hold (run `told_twice`): a completion may be told by a signal that
is in front of the `records_reset` of its own run, which then releases the latch.
`ToldOnceUnlessAhead` says that this is the only way.  `OnceInv` is the reason: what was
told, and not ahead of its reset, is latched until a reset or an edit owes it again,
because no `records_reset` that would be confirmed is still waiting.

For `ToldOrExcused`, `LatchInv` says that a latch which is out of date is going to be
released, by a record that is not terminal or by the reset of its run that is waiting
(`Held`), or else that a record is of a cycle that has confirmed nothing; `BehindInv`
that behind every waiting `records_reset` a `submit_finished` is to come, which judges
completion after the latch is released; and `ComingInv` that a completion which is owed
has a signal to come, one waiting, or a judgement under way, or is `Excused`.  `Excused`
names the ends of a cycle that leave a completion untold.  `_gate_fail` after the reset
posts no `records_reset`, so the judgement that follows meets the latch of an earlier
completion; so it does when the `records_reset` is delivered after the next submission
was staged and is ignored for its token.  And a check that returned False need not be
reported, so whatever it deferred is not judged again; every other end of a cycle
posts `submit_finished` (`CycleEnd`, the lemma all of them go through).  The proof
shows that none of this depends on the polling timer having stopped, or on which
thread brought the last job to its end.

### The store

The keys must be finite because the counters are cardinalities.  The argument
has two halves.  For the data, every write is shown to be one of four kinds (a
new record, a new execution, a change within an execution, a deletion), and the
lemmas about `PutRec` and `DropRec` show that each moves exactly one key from one
state's count to another's.  For the locks, `LockInv` says that a thread that
works under `_meta_lock` holds it and that what it has counted is still true:
the writers that ignore the lock change states but never the set of keys, which
is what `BatchApplies` and the counting rest on.  `NoGhosts` is not inductive:
`TotalInv` adds that the total covers the records whenever the lock is free and,
once synchronised, is not above them while a thread only adds.
`GenerationInv` says that an execution's identity is never given out twice.

`SummaryAgrees` joins the halves: with `_meta_lock` free the total a summary gives is
the number of records, and by `CountsAddUp` the six counters, each the number of
records in its state, add up to it, since every record is in exactly one of the
states.  `SumOf` is written out over the six states and not as a fold, of whose
value the prover could say nothing without induction over data.  `NoGhosts` is a part
of `SummaryAgrees`: without it a total that is too high would be made up by `CREATED`
jobs that do not exist, and the sum would still agree.

### The querier

`TurnInv` makes the turns exclusive.  What a thread carries from one step to the
next (snapshot, rows, failed and lost keys) stays right while LSF and the other
threads work: `WorldMoves` says what those may do to a record (it continues within
its execution, is replaced by a younger one, or is forgotten), and one lemma per
part of `QueryInv` shows that all of this keeps it.  `StreakInv` says that the counts
are in the dictionary or with the one thread that has popped them, and equal the
history `miss` of every job that is on LSF; `NoEarlyLost` follows from it and the
step that writes LOST, `EndIsReal` from `RowsOK` and `RecInv`.

### The status source

`CountInv` counts the fetches, `TrackInv` and `ClockInv` order what fetches have seen
by their start.  `FloorInv` is `LedgerFresh` with its reason: a fetch that may still
replace an entry started no earlier than the one the entry is from, so it saw the
job no earlier either.  `ReaderInv` follows a reader through its wait: any fetch
that started after it asked answers for all its ids.  The attempt to prove
`LedgerFresh` in an earlier form, with one floor for all ids, failed: two fetches
may each bring other ids, since an answer is merged id by id, so the form was
wrong for two ids, which the instance with one id could not show.  The floor is
now kept for each job.

### The handlers and the relay

`RunsApart` and `MarksExact` say that the runs on the queue and in the workers are of
different jobs and that the marks in `inflight` are theirs; after a shutdown the
marks no longer matter, because nothing is evaluated (`ClosedInv`).  `QueueServed` is
the lost wakeup: `CountOK` and `ServedOK` say that the count of workers is exact and
that the queue is empty whenever none is on, except between `append` and the pump
of the main thread.

`NoneForgotten` says of every job that is done, once nothing is under way but polling,
that it has had its final run, or why not: the handler may not have taken it for
finished because the job ended, was armed or got its handler after the last look at
the records (`late`), which a further poll makes up for and the end of polling does
not; or it has taken it for finished in an earlier execution, whose end was not
followed by a rearm (`unarmed`).  There is no third reason, for any number of jobs and
workers.  It needs a second invariant, `LookInv`, which says of each job what will bring
its final run about.  What an evaluation looks at is the record as it is, or one of a
job that goes on, or one whose reset is still to be told (`CurInv`); a job taken for
finished has had its final run or has it on the queue (`FinishedInv`); and a job not
taken for finished will be looked at again, on the tick or the recheck that is posted,
or when the run it is in has returned and its recheck is posted, or is `late`
(`OpenInv`).  The recheck is needed because polling may stop, and the evaluation skip
the job, while its handler runs.  That the state of rest is reached, and the poll
comes, is left to `FinalRuns`.

The relay's invariant says for each key that what is held back belongs to the
life on display and grows from it (`HeldOK`), that the revision remembered is that
of the last record passed on (`EmitOK`), and that the store's record has been passed
on or is on its way (`SeenOK`).  A post that is late is of an older life or not newer
than its record (`PostInv`); the generations of a life do not reach those of the
next, so the check of identity cannot confuse two lives.  `TimerInv` says that what is
held back has a timer.

### What stays with TLC

* `FinalRuns`, `CycleFinishes`, `KillFinishes`: liveness needs fairness and ENABLED.
  What the first two need of safety is proved: `NoneForgotten`, and the last
  part of `FinishedIsSettled`, that until a launched cycle is finished some key of it
  is in the hands of a pool thread or waits with its timer or the request for it.
* The three disagreements of section 5 are counterexamples, found by TLC.

## 5. Findings

`told_twice`.  The latch is released when `records_reset` is *delivered*.  If a cycle
resets and fails all its jobs before the GUI thread gets to that signal, a poll's
`updated` in front of it finds no active cycle and terminal records: the completion is
told, the signal then releases the latch, and `submit_finished` tells it again, against
the head of `completion.py` ("told once, guaranteed by the latch").

`stale_remove`.  `local_remove_jobs` resolves its keys inside `_meta_lock` so that
no worker can change a state under its guard; the workers do not take that lock.
A job submitted just before, whose reset falls between the guard and the
deletion, is deleted as inactive while it is being submitted.

`absent`.  A reader that brings a new id insists on a fetch from after its call,
"so that the id is not missing from the first answer".  A second reader of the
same id, while that fetch is still running or after it has failed, finds the id
registered and may take the ledger of a moment ago, which does not have it:
`statuses_by_ids` returns neither a row nor a failure, and a living job counts as
missing once.  Two readers of one id are a poll and `kill_jobs`, or a poll and a
kill's query by id.  The submit grace and `lost_after_missing_polls` stand between
this and LOST.

Effects without a run of their own.  TLC found the first four in the modules, with the
constant changed that is named, or as states of rest that break the requirement:

* A report before its decision.  `_poll` reports, and then decides on records read again
  whether to go on (`monitor.py:526`, `530`).  A job that a kill's mark or its verify
  query ends in between was alive for the tick and is over for the decision: polling
  stops, no tick and no recheck follows, and `_emit_updates_after_kill` does not evaluate
  handlers.  The final run that FR-7 of `docs/requirements.md` promises never happens.
  Such a job is the exception `late` of `NoneForgotten`, once polling is over.
* A reset that is told too late.  `_on_records_reset` ignores a signal whose token is not
  the pending one (`manager.py:925`).  When a submission of some jobs is over before its
  signal is delivered, the next submission may be accepted and staged first; the
  handlers of the first one's jobs are then not armed again, although FR-7 says that
  resubmission does so, and a handler that had finished stays finished for the new
  execution.  It is the exception `unarmed` of `NoneForgotten`.  The latch of an
  earlier completion stays in the same way: the first part of `Excused`.
* Late leave.  `ctx.inflight` is a set of job keys, not of attempts.  The `finally` clause
  of a failed attempt discards the key after `_schedule_retry` has queued the next one.
  With the default backoff the failed task is long over when the timer fires:
  `PromptLeave = TRUE`, which the runs assume.  With `retry_backoff = "fixed:0"`, which
  `options.py` accepts, the next attempt may have entered; the late discard hides it, a
  kill acquires at once, resolves its targets without the job, and the job survives,
  against the docstring of `manager.kill`.  `NoLeak` fails under `PromptLeave = FALSE`.
* A refusal that is not reported.  While a cycle is active `maybe_finish` defers and
  relies on the `submit_finished` that is to come.  With
  `submit_finished_on_gate_reject = False` and a `pre_submit` that returns False, it does
  not come: if the poll that saw the last job end was delivered during that check,
  `jobset_finished` is never emitted, although polling stops by itself.  `Told` fails
  under `FinishOnGateReject = FALSE`; it is the second part of `Excused`.
* An edit writes its records first and the total afterwards, and the polling thread
  takes summaries without `_meta_lock`: in between, the states of a summary can
  exceed its total, against `store/base.py` ("the sum over the states ==
  intended_count").  `SummaryAgrees` is what holds: with `_meta_lock` free the sum
  is right.
* A launch that fails after the reset posts no `records_reset`, so the latch of the
  earlier completion stays and the failed re-run is not announced by itself: again the
  first part of `Excused`.
* A handler's progress is kept per key, not per execution.  A tick that comes
  between the reset of a record and its `rearm`, when no tick has evaluated the end
  of the last execution, finds the key still running and calls the handler with a
  record of the new execution that has not reached a start state.

## 6. Not modelled

Shutdown of the submitter, the killer and the polling thread (that of the handlers,
the pacer and the status source is modelled); the worker slots, pool priorities
and throttles (a queued task may start at any time, which includes every order
they produce); kills by raw id without a jobset and of array elements; progress
reports.  A failure inside `_reset_records` itself (only `forget_status` of a custom
status source could raise there) would leave rows in SUBMITTING; it is excluded.

Around the handlers: polling that the user starts or stops, a single query, polls that
fail, and edits that resume polling.  Around kills: a failure of the store after a
record got its id (`submitter.py:732`), a bkill that timed out although it was delivered
(`killer.py:523`), and the contents of the report.

Of the status source: the health verdict (`fetcher_state`), which only informs the
application; the adaptation of the refresh interval to the polling intervals (a
reader's age limit is any of the two bounds that matter); the interpolated run
times.  Of the command layer: the chunks of bkill and the reading of its output,
time formats, the process runners.  Of the querier: exit codes, run times and
cluster names, which are merged as the times are.  The mock LSF, the examples and
the tools are not part of the library.

## 7. Plan

Done: the gate with its proofs, submitter and killer as its implementation,
completion, the store and the editing of jobsets, the querier, the status source,
the handlers and the relay, all with their proofs.  Next:

1. The bkill output and target classification of `command.py` against reference
   definitions over bounded inputs.
2. Shutdown of the manager across all parts.
