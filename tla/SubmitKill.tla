----------------------------- MODULE SubmitKill -----------------------------
(***************************************************************************)
(* Submission and kill of the jobs of one jobset: the submit cycles of     *)
(* lsfmgr/submitter.py, the kills of lsfmgr/killer.py, the kill-priority   *)
(* gate between them (SubmitGate.tla), the job records in the Store and    *)
(* the jobs on LSF.                                                        *)
(*                                                                         *)
(* Threads: calls of the application, retry timers and the end of a kill   *)
(* run on the GUI thread; a cycle is launched on a coordinator thread;     *)
(* every attempt to submit a job runs on a pool thread; every kill runs on *)
(* a thread of its own.  An action is one critical section or one Store    *)
(* transition of one of them.                                              *)
(*                                                                         *)
(* A cycle creates at most one tracked LSF job per key, so a job is        *)
(* identified by <<cycle, key>> and job_id by the cycle that obtained it.  *)
(***************************************************************************)
EXTENDS Integers, FiniteSets

CONSTANTS
  Keys, Cycles, Kills, WholeKills,   \* see SubmitGate
  NoJob,                \* job_id None
  Removable,            \* keys the application may remove, also by force
  MaxRetry,             \* options.max_retry
  FinishOnGateReject,   \* config.submit_finished_on_gate_reject
  Policies,             \* the values config.kill_status_policy may have
  PromptLeave           \* the retry delay outlasts the end of the failed task

ASSUME SubmitKillAssumption ==
  /\ IsFiniteSet(Keys)
  /\ WholeKills \subseteq Kills
  /\ NoJob \notin Cycles
  /\ Removable \subseteq Keys
  /\ MaxRetry \in Nat
  /\ {FinishOnGateReject, PromptLeave} \subseteq BOOLEAN
  /\ Policies \subseteq {"optimistic", "actual"}

VARIABLES
  \* the gate, as in SubmitGate; running is a function of task, below
  activities, barriers, want, refused, phase, cancel_event, cancelled_keys,
  inflight, stage, keys, acts, notified, waited, quiesced,
  \* the submitter
  context,    \* _contexts[jobset_id]: the cycle cancel_submit would reach
  launch,     \* how far the launch of each cycle is
  task,       \* how far the submission of each key of each cycle is
  attempt,    \* the attempt number of that submission
  signal,     \* its retry request or timer on the GUI thread
  leaving,    \* keys whose pool thread has yet to leave the submission
  count,      \* ok, failed and cancelled units of each cycle
  finished,   \* _SubmitContext.finished
  reports,    \* how often the cycle has emitted the signal `finished'
  \* the Store and LSF
  rec,        \* the record of each key
  alive,      \* the jobs LSF still knows as unfinished
  doomed,     \* the jobs for which LSF has accepted a bkill
  \* the killer
  step,       \* what an acquired kill does next
  targets,    \* the jobs a kill aims at
  accepted,   \* the targets whose bkill LSF has accepted
  spared,     \* the targets verify has seen alive
  active      \* Killer._active: the kills that count as in progress

gateVars == <<activities, barriers, want, refused, phase, cancel_event,
              cancelled_keys, inflight, stage, keys, acts, notified, waited,
              quiesced>>
taskVars == <<task, attempt, signal, leaving>>
tallyVars == <<count, finished, reports>>
lsfVars  == <<alive, doomed>>
killVars == <<step, targets, accepted, spared, active>>
vars == <<gateVars, context, launch, taskVars, tallyVars, rec, lsfVars, killVars>>

\* A key is being submitted from the moment its task has entered until the
\* outcome of the attempt is in the Store.
InSubmission == {"entered", "armed", "wrapper", "accepted", "rejected",
                 "fatal", "crashed"}
Running == [c \in Cycles |-> {key \in Keys : task[c][key] \in InSubmission}]

Gate == INSTANCE SubmitGate WITH running <- Running

Jobs == Cycles \X Keys
Launches == {"none", "registered", "reject", "pre_submit", "checking", "fail",
             "start", "resetting", "launched"}
Tasks == InSubmission \cup {"none", "todo", "reset", "queued", "retrying", "parked",
                        "ok", "failed", "dropped", "end"}
Inactive == {"CREATED", "DONE", "EXIT", "SUBMIT_FAILED", "CANCELLED"}
States == Inactive \cup {"SUBMITTING", "RETRY_WAIT", "PEND", "GONE"}
Records == [state : States, id : Cycles \cup {NoJob}, killed : BOOLEAN]

TypeOK ==
  /\ Gate!TypeOK
  /\ context \in Cycles \cup {NoJob}
  /\ launch \in [Cycles -> Launches]
  /\ task \in [Cycles -> [Keys -> Tasks]]
  /\ attempt \in [Cycles -> [Keys -> 0..MaxRetry]]
  /\ signal \in [Cycles -> [Keys -> {"none", "request", "timer"}]]
  /\ leaving \in [Cycles -> SUBSET Keys]
  /\ count \in [Cycles -> [{"ok", "failed", "cancelled"} -> Nat]]
  /\ finished \in [Cycles -> BOOLEAN]
  /\ reports \in [Cycles -> Nat]
  /\ rec \in [Keys -> Records]
  /\ alive \subseteq Jobs /\ doomed \subseteq Jobs
  /\ step \in [Kills -> {"plan", "bkill", "verify", "mark", "done"}]
  /\ targets \in [Kills -> SUBSET Jobs]
  /\ accepted \in [Kills -> SUBSET Jobs]
  /\ spared \in [Kills -> SUBSET Jobs]
  /\ active \subseteq Kills

Init ==
  /\ context = NoJob
  /\ launch = [c \in Cycles |-> "none"]
  /\ task = [c \in Cycles |-> [key \in Keys |-> "none"]]
  /\ Gate!Init
  /\ attempt = [c \in Cycles |-> [key \in Keys |-> 0]]
  /\ signal = [c \in Cycles |-> [key \in Keys |-> "none"]]
  /\ leaving = [c \in Cycles |-> {}]
  /\ count = [c \in Cycles |-> [o \in {"ok", "failed", "cancelled"} |-> 0]]
  /\ finished = [c \in Cycles |-> FALSE]
  /\ reports = [c \in Cycles |-> 0]
  /\ rec = [key \in Keys |-> [state |-> "CREATED", id |-> NoJob, killed |-> FALSE]]
  /\ alive = {} /\ doomed = {}
  /\ step = [k \in Kills |-> "plan"]
  /\ targets = [k \in Kills |-> {}]
  /\ accepted = [k \in Kills |-> {}]
  /\ spared = [k \in Kills |-> {}]
  /\ active = {}

-----------------------------------------------------------------------------
(* Counting: the one exit of every path that ends a unit of a cycle.       *)

Total(c) == Cardinality(want[c])
Done(c) == count[c]["ok"] + count[c]["failed"] + count[c]["cancelled"]

\* _finish_forced: what is not settled yet is settled at once.
FinishForced(c, outcome, emit) ==
  /\ count' = [count EXCEPT ![c][outcome] = @ + (Total(c) - Done(c))]
  /\ finished' = [finished EXCEPT ![c] = TRUE]
  /\ reports' = [reports EXCEPT ![c] = IF emit /\ ~finished[c] THEN @ + 1 ELSE @]

\* _count and _finish_if_done: n units have ended; the last one finishes the
\* cycle, and only the first to notice emits.
Tally(c, outcome, n) ==
  LET last == n > 0 /\ Done(c) + n >= Total(c) /\ ~finished[c] IN
  /\ count' = [count EXCEPT ![c][outcome] = @ + n]
  /\ finished' = [finished EXCEPT ![c] = @ \/ last]
  /\ reports' = [reports EXCEPT ![c] = IF last THEN @ + 1 ELSE @]

\* The Store transition of one record; a removed record is not written.
Put(key, r) == rec' = [rec EXCEPT ![key] = IF @.state = "GONE" THEN @ ELSE r]

\* Mutant of Cancelled: a record that waits for its retry is left alone.
CancelledIfSubmitting(r) ==
  IF r.state = "SUBMITTING"
  THEN [r EXCEPT !.state = "CANCELLED", !.killed = TRUE] ELSE r

\* _mark_cancelled and _finalize_retry: only a record that is still being
\* submitted becomes CANCELLED.
Cancelled(r) ==
  IF r.state \in {"SUBMITTING", "RETRY_WAIT"}
  THEN [r EXCEPT !.state = "CANCELLED", !.killed = TRUE] ELSE r

\* Mutant of AbortRetries: the entries are given up but stay in the ledger.
AbortKeepsLedger(c, ks) ==
  LET popped == {key \in ks : task[c][key] = "parked"} IN
  /\ rec' = [key \in Keys |->
               IF key \in popped THEN Cancelled(rec[key]) ELSE rec[key]]
  /\ Tally(c, "cancelled", Cardinality(popped))
  /\ UNCHANGED task

\* The retries of c among ks that wait in the ledger are popped and given up.
\* A second visitor finds them gone, so each is counted once.
AbortRetries(c, ks) ==
  LET popped == {key \in ks : task[c][key] = "parked"} IN
  /\ task' = [task EXCEPT ![c] =
                [key \in Keys |-> IF key \in popped THEN "end" ELSE @[key]]]
  /\ rec' = [key \in Keys |->
               IF key \in popped /\ rec[key].state = "RETRY_WAIT"
               THEN Cancelled(rec[key]) ELSE rec[key]]
  /\ Tally(c, "cancelled", Cardinality(popped))

-----------------------------------------------------------------------------
(* Calls of the application, on the GUI thread.                            *)

SubmitterActive == context # NoJob /\ ~finished[context]

\* manager.submit up to SubmitGate.register: nothing in progress, and every
\* target inactive.
Submit(c, ks) ==
  /\ ~SubmitterActive /\ active = {}
  /\ \A key \in ks : rec[key].state \in Inactive
  /\ context' = c
  /\ launch' = [launch EXCEPT ![c] = "registered"]
  /\ UNCHANGED <<taskVars, tallyVars, rec, lsfVars, killVars>>
  /\ Gate!Register(c, ks)

\* resubmit_existing after register: a cycle refused as a whole is settled
\* without touching the records, otherwise the launch is queued, with or
\* without a pre_submit check.
Adopt(c) ==
  /\ launch' \in {[launch EXCEPT ![c] = l] : l \in
                    IF c \in activities THEN {"pre_submit", "start"} ELSE {"reject"}}
  /\ UNCHANGED <<context, taskVars, tallyVars, rec, lsfVars, killVars>>
  /\ Gate!AdoptRefusal(c)

\* cancel_submit.
CancelSubmit(c) ==
  /\ context = c
  /\ AbortRetries(c, Keys)
  /\ UNCHANGED <<context, launch, attempt, signal, leaving, lsfVars, killVars>>
  /\ Gate!UserCancel(c)

\* remove_jobs: an active record goes only by force, an inactive one at any
\* time, also while a cycle is about to reset it.
Remove(key) ==
  /\ key \in Removable
  /\ rec[key].state # "GONE"
  /\ rec' = [rec EXCEPT ![key] = [state |-> "GONE", id |-> NoJob, killed |-> FALSE]]
  /\ UNCHANGED <<gateVars, context, launch, taskVars, tallyVars, lsfVars, killVars>>

-----------------------------------------------------------------------------
(* The launch of a cycle, on a coordinator thread.                         *)

\* The pre_submit callback is not even called for a cancelled cycle.
CheckStart(c) ==
  /\ launch[c] = "pre_submit"
  /\ launch' = [launch EXCEPT ![c] = IF cancel_event[c] THEN "reject" ELSE "checking"]
  /\ UNCHANGED <<gateVars, context, taskVars, tallyVars, rec, lsfVars, killVars>>

\* The callback passes (unless the cycle was cancelled meanwhile) or raises.
CheckEnd(c) ==
  /\ launch[c] = "checking"
  /\ \/ launch' = [launch EXCEPT ![c] = IF cancel_event[c] THEN "reject" ELSE "start"]
     \/ launch' = [launch EXCEPT ![c] = "fail"]
  /\ UNCHANGED <<gateVars, context, taskVars, tallyVars, rec, lsfVars, killVars>>

\* The callback returns False; whether that is reported is configured.
CheckFalse(c) ==
  /\ launch[c] = "checking"
  /\ launch' = [launch EXCEPT ![c] = "launched"]
  /\ FinishForced(c, "cancelled", FinishOnGateReject)
  /\ UNCHANGED <<gateVars, context, taskVars, rec, lsfVars, killVars>>

\* _gate_reject and _gate_fail before anything was reset.
Reject(c) ==
  /\ launch[c] \in {"reject", "fail"}
  /\ FinishForced(c, IF launch[c] = "fail" THEN "failed" ELSE "cancelled", TRUE)
  /\ launch' = [launch EXCEPT ![c] = "launched"]
  /\ UNCHANGED <<gateVars, context, taskVars, rec, lsfVars, killVars>>

\* Mutant of LaunchStart: the refused keys are reset and started as well.
LaunchEverything(c) ==
  /\ launch[c] = "start"
  /\ task' = [task EXCEPT ![c] =
                [key \in Keys |-> IF key \in want[c] THEN "todo" ELSE @[key]]]
  /\ launch' = [launch EXCEPT ![c] = "resetting"]
  /\ UNCHANGED <<gateVars, context, attempt, signal, leaving, tallyVars, rec,
                 lsfVars, killVars>>

\* _reset_records: the keys blocked at this moment are left out of the launch.
LaunchStart(c) ==
  /\ launch[c] = "start"
  /\ task' = [task EXCEPT ![c] =
                [key \in Keys |-> IF key \in want[c] \ cancelled_keys[c]
                                 THEN "todo" ELSE @[key]]]
  /\ launch' = [launch EXCEPT ![c] = "resetting"]
  /\ UNCHANGED <<gateVars, context, attempt, signal, leaving, tallyVars, rec,
                 lsfVars, killVars>>

\* Mutant of ResetRecord: the mark `killed' of the last run survives.
ResetKeepsKilled(c, key) ==
  /\ task[c][key] = "todo"
  /\ rec[key].state # "GONE"
  /\ rec' = [rec EXCEPT ![key] = [@ EXCEPT !.state = "SUBMITTING", !.id = NoJob]]
  /\ task' = [task EXCEPT ![c][key] = "reset"]
  /\ UNCHANGED <<gateVars, context, launch, attempt, signal, leaving, tallyVars,
                 lsfVars, killVars>>

\* One record is reset to SUBMITTING, without the id of its last run.
ResetRecord(c, key) ==
  /\ task[c][key] = "todo"
  /\ rec[key].state # "GONE"
  /\ rec' = [rec EXCEPT ![key] = [state |-> "SUBMITTING", id |-> NoJob, killed |-> FALSE]]
  /\ task' = [task EXCEPT ![c][key] = "reset"]
  /\ UNCHANGED <<gateVars, context, launch, attempt, signal, leaving, tallyVars,
                 lsfVars, killVars>>

\* The record was removed meanwhile: its unit ends here, as cancelled.
ResetGone(c, key) ==
  /\ task[c][key] = "todo"
  /\ rec[key].state = "GONE"
  /\ task' = [task EXCEPT ![c][key] = "end"]
  /\ Tally(c, "cancelled", 1)
  /\ UNCHANGED <<gateVars, context, launch, attempt, signal, leaving, rec,
                 lsfVars, killVars>>

ResetOver(c) ==
  launch[c] = "resetting" /\ \A key \in Keys : task[c][key] # "todo"

\* Mutant of FanOut: the blocked keys are not counted.
FanOutForgetsBlocked(c) ==
  /\ ResetOver(c)
  /\ task' = [task EXCEPT ![c] =
                [key \in Keys |-> IF @[key] = "reset" THEN "queued" ELSE @[key]]]
  /\ launch' = [launch EXCEPT ![c] = "launched"]
  /\ UNCHANGED <<gateVars, context, attempt, signal, leaving, tallyVars, rec,
                 lsfVars, killVars>>

\* The blocked keys are counted in one go, then every task is started.  With
\* nothing reset the cycle is finished by now and nothing is started.
FanOut(c) ==
  /\ ResetOver(c)
  /\ Tally(c, "cancelled", Cardinality({key \in want[c] : task[c][key] = "none"}))
  /\ task' = [task EXCEPT ![c] =
                [key \in Keys |-> CASE @[key] = "reset" -> "queued"
                                    [] @[key] # "reset" /\ key \in want[c] -> "end"
                                    [] OTHER -> "none"]]
  /\ launch' = [launch EXCEPT ![c] = "launched"]
  /\ UNCHANGED <<gateVars, context, attempt, signal, leaving, rec, lsfVars,
                 killVars>>

\* _gate_fail after the reset (a task could not be made): the records that
\* were reset become SUBMIT_FAILED, the units left are failed.
LaunchFail(c) ==
  /\ ResetOver(c)
  /\ \E key \in Keys : task[c][key] = "reset"
  /\ LET skipped == Cardinality({key \in want[c] : task[c][key] = "none"})
     IN  /\ count' = [count EXCEPT ![c]["cancelled"] = @ + skipped,
                                   ![c]["failed"] = @ + (Total(c) - Done(c) - skipped)]
         /\ finished' = [finished EXCEPT ![c] = TRUE]
         /\ reports' = [reports EXCEPT ![c] = @ + 1]
  /\ rec' = [key \in Keys |->
               IF task[c][key] = "reset" /\ rec[key].state = "SUBMITTING"
               THEN [rec[key] EXCEPT !.state = "SUBMIT_FAILED"] ELSE rec[key]]
  /\ task' = [task EXCEPT ![c] =
                [key \in Keys |-> IF key \in want[c] THEN "end" ELSE @[key]]]
  /\ launch' = [launch EXCEPT ![c] = "launched"]
  /\ UNCHANGED <<gateVars, context, attempt, signal, leaving, lsfVars, killVars>>

\* _drop_ctx: the finished cycle leaves the gate and, unless a new cycle has
\* taken its place, the table of contexts.
Drop(c) ==
  /\ finished[c] /\ phase[c] = "open"
  /\ activities' = activities \ {c}
  /\ phase' = [phase EXCEPT ![c] = "closed"]
  /\ context' = IF context = c THEN NoJob ELSE context
  /\ UNCHANGED <<barriers, want, refused, cancel_event, cancelled_keys, inflight,
                 stage, keys, acts, notified, waited, quiesced, launch, taskVars,
                 tallyVars, rec, lsfVars, killVars>>

-----------------------------------------------------------------------------
(* One attempt to submit one key, on a pool thread.                        *)

\* Mutant of Enter: the key is not registered as in flight.
EnterUnregistered(c, key) ==
  /\ task[c][key] = "queued"
  /\ ~Gate!Cancelled(c, key)
  /\ task' = [task EXCEPT ![c][key] = "entered"]
  /\ UNCHANGED <<gateVars, context, launch, attempt, signal, leaving, tallyVars,
                 rec, lsfVars, killVars>>

\* _enter_inflight succeeds.
Enter(c, key) ==
  /\ task[c][key] = "queued"
  /\ ~Gate!Cancelled(c, key)
  /\ inflight' = [inflight EXCEPT ![c] = @ \cup {key}]
  /\ task' = [task EXCEPT ![c][key] = "entered"]
  /\ UNCHANGED <<activities, barriers, want, refused, phase, cancel_event,
                 cancelled_keys, stage, keys, acts, notified, waited, quiesced,
                 context, launch, attempt, signal, leaving, tallyVars, rec,
                 lsfVars, killVars>>

\* A cancelled key gives up: at the entry, while it waits for a slot or right
\* before the wrapper is started.
GiveUp(c, key) ==
  /\ task[c][key] \in {"queued", "armed"}
  /\ Gate!Cancelled(c, key)
  /\ Put(key, Cancelled(rec[key]))
  /\ task' = [task EXCEPT ![c][key] = "dropped"]
  /\ UNCHANGED <<gateVars, context, launch, attempt, signal, leaving, tallyVars,
                 lsfVars, killVars>>

\* The record is set to SUBMITTING; a removed record ends the unit.
Arm(c, key) ==
  /\ task[c][key] = "entered"
  /\ Put(key, [rec[key] EXCEPT !.state = "SUBMITTING"])
  /\ task' = [task EXCEPT ![c][key] = IF rec[key].state = "GONE" THEN "dropped" ELSE "armed"]
  /\ UNCHANGED <<gateVars, context, launch, attempt, signal, leaving, tallyVars,
                 lsfVars, killVars>>

\* run_submit: the wrapper is started ...
StartWrapper(c, key) ==
  /\ task[c][key] = "armed"
  /\ ~Gate!Cancelled(c, key)
  /\ task' = [task EXCEPT ![c][key] = "wrapper"]
  /\ UNCHANGED <<gateVars, context, launch, attempt, signal, leaving, tallyVars,
                 rec, lsfVars, killVars>>

\* ... and comes back with a job id, with a failure that may or may not be
\* retried, or with an unclassified exception.
WrapperEnds(c, key) ==
  /\ task[c][key] = "wrapper"
  /\ \/ /\ task' = [task EXCEPT ![c][key] = "accepted"]
        /\ alive' = alive \cup {<<c, key>>}
     \/ /\ \E t \in {"rejected", "fatal", "crashed"} : task' = [task EXCEPT ![c][key] = t]
        /\ UNCHANGED alive
  /\ UNCHANGED <<gateVars, context, launch, attempt, signal, leaving, tallyVars,
                 rec, doomed, killVars>>

\* _task_succeeded: the id is stored with PEND; without a record the job is
\* left on LSF and the unit counts as cancelled.
Succeed(c, key) ==
  /\ task[c][key] = "accepted"
  /\ Put(key, [rec[key] EXCEPT !.state = "PEND", !.id = c])
  /\ task' = [task EXCEPT ![c][key] = IF rec[key].state = "GONE" THEN "dropped" ELSE "ok"]
  /\ UNCHANGED <<gateVars, context, launch, attempt, signal, leaving, tallyVars,
                 lsfVars, killVars>>

\* A retryable failure with an attempt left, in a cycle that goes on.
CanRetry(c, key) ==
  /\ task[c][key] = "rejected"
  /\ attempt[c][key] < MaxRetry
  /\ ~cancel_event[c]

\* _task_failed for a key a selective kill has cancelled.
FailCancelled(c, key) ==
  /\ task[c][key] \in {"rejected", "fatal"}
  /\ key \in cancelled_keys[c]
  /\ Put(key, Cancelled(rec[key]))
  /\ task' = [task EXCEPT ![c][key] = "dropped"]
  /\ UNCHANGED <<gateVars, context, launch, attempt, signal, leaving, tallyVars,
                 lsfVars, killVars>>

\* _task_failed with a retry left: RETRY_WAIT is stored.
FailRetry(c, key) ==
  /\ key \notin cancelled_keys[c]
  /\ CanRetry(c, key)
  /\ Put(key, [rec[key] EXCEPT !.state = "RETRY_WAIT"])
  /\ task' = [task EXCEPT ![c][key] = IF rec[key].state = "GONE" THEN "dropped" ELSE "retrying"]
  /\ UNCHANGED <<gateVars, context, launch, attempt, signal, leaving, tallyVars,
                 lsfVars, killVars>>

\* _task_failed without a retry, and _task_crashed: SUBMIT_FAILED, which a
\* crash stores only over a record that has no job id.
Fail(c, key) ==
  /\ \/ /\ task[c][key] \in {"rejected", "fatal"}
        /\ key \notin cancelled_keys[c]
        /\ ~CanRetry(c, key)
     \/ task[c][key] = "crashed"
  /\ Put(key, IF task[c][key] = "crashed" /\ rec[key].id # NoJob
              THEN rec[key] ELSE [rec[key] EXCEPT !.state = "SUBMIT_FAILED"])
  /\ task' = [task EXCEPT ![c][key] =
       IF rec[key].state = "GONE" /\ task[c][key] # "crashed" THEN "dropped" ELSE "failed"]
  /\ UNCHANGED <<gateVars, context, launch, attempt, signal, leaving, tallyVars,
                 lsfVars, killVars>>

\* The outcome of the attempt is counted; the task is over but for its
\* finally clause.
CountOutcome(c, key) ==
  /\ task[c][key] \in {"ok", "failed", "dropped"}
  /\ Tally(c, IF task[c][key] = "dropped" THEN "cancelled" ELSE task[c][key], 1)
  /\ task' = [task EXCEPT ![c][key] = "end"]
  /\ leaving' = [leaving EXCEPT ![c] = @ \cup {key}]
  /\ UNCHANGED <<gateVars, context, launch, attempt, signal, rec, lsfVars, killVars>>

\* _schedule_retry: into the ledger, then a request to the GUI thread.
Park(c, key) ==
  /\ task[c][key] = "retrying"
  /\ task' = [task EXCEPT ![c][key] = "parked"]
  /\ signal' = [signal EXCEPT ![c][key] = "request"]
  /\ leaving' = [leaving EXCEPT ![c] = @ \cup {key}]
  /\ UNCHANGED <<gateVars, context, launch, attempt, tallyVars, rec, lsfVars,
                 killVars>>

\* The finally clause of the task: _leave_inflight, whatever else the key is
\* doing by now.
Leave(c, key) ==
  /\ key \in leaving[c]
  /\ leaving' = [leaving EXCEPT ![c] = @ \ {key}]
  /\ inflight' = [inflight EXCEPT ![c] = @ \ {key}]
  /\ UNCHANGED <<activities, barriers, want, refused, phase, cancel_event,
                 cancelled_keys, stage, keys, acts, notified, waited, quiesced,
                 context, launch, task, attempt, signal, tallyVars, rec,
                 lsfVars, killVars>>

-----------------------------------------------------------------------------
(* Retry requests and timers, on the GUI thread.                           *)

\* _on_retry_requested: a cancelled cycle gives the retry up at once,
\* otherwise the timer is started if the entry is still in the ledger.
RetryRequested(c, key) ==
  /\ signal[c][key] = "request"
  /\ \/ /\ cancel_event[c]
        /\ AbortRetries(c, {key})
        /\ signal' = [signal EXCEPT ![c][key] = "none"]
     \/ /\ ~cancel_event[c]
        /\ signal' = [signal EXCEPT ![c][key] =
                        IF task[c][key] = "parked" THEN "timer" ELSE "none"]
        /\ UNCHANGED <<task, rec, tallyVars>>
  /\ UNCHANGED <<gateVars, context, launch, attempt, leaving, lsfVars, killVars>>

\* fire: the timer runs out; the entry is popped and either given up or
\* started as the next attempt.
Fire(c, key) ==
  /\ signal[c][key] = "timer"
  /\ PromptLeave => key \notin leaving[c]
  /\ signal' = [signal EXCEPT ![c][key] = "none"]
  /\ \/ /\ cancel_event[c] \/ task[c][key] # "parked"
        /\ AbortRetries(c, {key})
        /\ UNCHANGED attempt
     \/ /\ ~cancel_event[c] /\ task[c][key] = "parked"
        /\ task' = [task EXCEPT ![c][key] = "queued"]
        /\ attempt' = [attempt EXCEPT ![c][key] = @ + 1]
        /\ UNCHANGED <<rec, tallyVars>>
  /\ UNCHANGED <<gateVars, context, launch, leaving, lsfVars, killVars>>

-----------------------------------------------------------------------------
(* LSF and the monitor, as far as submission and kill depend on them.      *)

\* A job ends on LSF, by itself or because of a bkill.
JobEnds(j) ==
  /\ j \in alive
  /\ alive' = alive \ {j}
  /\ UNCHANGED <<gateVars, context, launch, taskVars, tallyVars, rec, doomed,
                 killVars>>

\* What a query stores for a key: the end of the very job the record names.
Observed(key) ==
  IF rec[key].state = "PEND" /\ <<rec[key].id, key>> \notin alive
  THEN [rec[key] EXCEPT !.state = "DONE"] ELSE rec[key]

Poll(key) ==
  /\ Observed(key) # rec[key]
  /\ rec' = [rec EXCEPT ![key] = Observed(key)]
  /\ UNCHANGED <<gateVars, context, launch, taskVars, tallyVars, lsfVars, killVars>>

-----------------------------------------------------------------------------
(* Kills.                                                                  *)

\* _launch_kill on the GUI thread: begin raises the barrier, then cancels the
\* captured cycles one by one, then the task is queued and becomes active.
KillBegin(k, ks) ==
  /\ UNCHANGED <<context, launch, taskVars, tallyVars, rec, lsfVars, killVars>>
  /\ Gate!BarrierUp(k, ks)

KillCancel(k, c) ==
  /\ AbortRetries(c, Gate!Scope(k))
  /\ UNCHANGED <<context, launch, attempt, signal, leaving, lsfVars, killVars>>
  /\ Gate!CancelActivity(k, c)

KillQueue(k) ==
  /\ active' = active \cup {k}
  /\ UNCHANGED <<context, launch, taskVars, tallyVars, rec, lsfVars, step,
                 targets, accepted, spared>>
  /\ Gate!Queue(k)

KillNotQueued(k) ==
  /\ UNCHANGED <<context, launch, taskVars, tallyVars, rec, lsfVars, killVars>>
  /\ Gate!NotQueued(k)

\* _quiesce on the kill thread.
KillWait(k, c) ==
  /\ UNCHANGED <<context, launch, taskVars, tallyVars, rec, lsfVars, killVars>>
  /\ Gate!WaitActivity(k, c) \/ Gate!WaitTimeout(k, c)

KillAcquire(k) ==
  /\ UNCHANGED <<context, launch, taskVars, tallyVars, rec, lsfVars, killVars>>
  /\ Gate!Acquire(k)

\* Mutant of Plan: the targets are resolved before the wait is over.
PlanBeforeQuiesce(k) ==
  /\ stage[k] = "queued" /\ step[k] = "plan"
  /\ targets' = [targets EXCEPT ![k] =
       {<<rec[key].id, key>> : key \in
          {key \in Gate!Scope(k) : rec[key].id # NoJob}}]
  /\ step' = [step EXCEPT ![k] = "bkill"]
  /\ UNCHANGED <<gateVars, context, launch, taskVars, tallyVars, rec, lsfVars,
                 accepted, spared, active>>

\* _resolve_keys and _make_plan: a whole kill aims at the records on LSF, a
\* selective one at whatever job id the records of its keys hold.
Plan(k) ==
  /\ stage[k] = "acquired" /\ step[k] = "plan"
  /\ targets' = [targets EXCEPT ![k] =
       {<<rec[key].id, key>> : key \in
          {key \in Gate!Scope(k) :
             /\ rec[key].id # NoJob
             /\ k \in WholeKills => rec[key].state = "PEND"}}]
  /\ step' = [step EXCEPT ![k] = "bkill"]
  /\ UNCHANGED <<gateVars, context, launch, taskVars, tallyVars, rec, lsfVars,
                 accepted, spared, active>>

\* _kill_confirm with its retries: every target ends up accepted, resolved as
\* already gone, or unconfirmed.  A dead job may be taken for accepted (the
\* bkill timed out and a query no longer finds the job), a live one is never
\* taken for gone.  The targets that are gone call for a query.
Bkill(k) ==
  /\ stage[k] = "acquired" /\ step[k] = "bkill"
  /\ \E acc \in SUBSET targets[k] : \E gone \in SUBSET (targets[k] \ (acc \cup alive)) :
       \E verify \in {TRUE, gone # {}} :
         /\ accepted' = [accepted EXCEPT ![k] = acc]
         /\ doomed' = doomed \cup acc
         /\ step' = [step EXCEPT ![k] = IF verify THEN "verify" ELSE "mark"]
  /\ UNCHANGED <<gateVars, context, launch, taskVars, tallyVars, rec, alive,
                 targets, spared, active>>

\* _verify_in_jobset: the query stores what it observes and tells which
\* targets are alive; a failed query tells nothing.
Verify(k) ==
  /\ stage[k] = "acquired" /\ step[k] = "verify"
  /\ \/ /\ rec' = [key \in Keys |-> Observed(key)]
        /\ spared' = [spared EXCEPT ![k] =
             {j \in targets[k] : rec'[j[2]].id = j[1] /\ rec'[j[2]].state = "PEND"}]
     \/ UNCHANGED <<rec, spared>>
  /\ step' = [step EXCEPT ![k] = "mark"]
  /\ UNCHANGED <<gateVars, context, launch, taskVars, tallyVars, lsfVars,
                 targets, accepted, active>>

\* Mutant of Mark: every target is marked, confirmed or not.
MarkEveryTarget(k) ==
  /\ stage[k] = "acquired" /\ step[k] = "mark"
  /\ rec' = [key \in Keys |->
       IF <<rec[key].id, key>> \in targets[k] /\ rec[key].state = "PEND"
       THEN [rec[key] EXCEPT !.killed = TRUE, !.state = "EXIT"] ELSE rec[key]]
  /\ step' = [step EXCEPT ![k] = "done"]
  /\ UNCHANGED <<gateVars, context, launch, taskVars, tallyVars, lsfVars,
                 targets, accepted, spared, active>>

\* _mark_killed: a record is marked only if it still names the job that was
\* killed; the state is overwritten only if it is still on LSF.
Mark(k) ==
  /\ stage[k] = "acquired" /\ step[k] = "mark"
  /\ \E policy \in Policies :
       rec' = [key \in Keys |->
         LET r == rec[key] IN
         IF <<r.id, key>> \in accepted[k] \ spared[k]
         THEN [r EXCEPT !.killed = TRUE,
                 !.state = IF policy = "optimistic" /\ @ = "PEND" THEN "EXIT" ELSE @]
         ELSE r]
  /\ step' = [step EXCEPT ![k] = "done"]
  /\ UNCHANGED <<gateVars, context, launch, taskVars, tallyVars, lsfVars,
                 targets, accepted, spared, active>>

\* The finally clause of the kill, with which its local state ends; an
\* exception may lead here from any step.
KillRelease(k) ==
  /\ targets' = [targets EXCEPT ![k] = {}]
  /\ accepted' = [accepted EXCEPT ![k] = {}]
  /\ spared' = [spared EXCEPT ![k] = {}]
  /\ step' = [step EXCEPT ![k] = "done"]
  /\ UNCHANGED <<context, launch, taskVars, tallyVars, rec, lsfVars, active>>
  /\ Gate!Release(k)

\* _finish_activity on the GUI thread: no longer active, kill_finished.
KillFinish(k) ==
  /\ k \in active /\ stage[k] = "released"
  /\ active' = active \ {k}
  /\ UNCHANGED <<gateVars, context, launch, taskVars, tallyVars, rec, lsfVars,
                 step, targets, accepted, spared>>

-----------------------------------------------------------------------------
LaunchStep(c) ==
  \/ Adopt(c) \/ CheckStart(c) \/ CheckEnd(c) \/ CheckFalse(c) \/ Reject(c)
  \/ LaunchStart(c) \/ FanOut(c) \/ LaunchFail(c) \/ Drop(c)
  \/ \E key \in Keys : ResetRecord(c, key) \/ ResetGone(c, key)

TaskStep(c, key) ==
  \/ Enter(c, key) \/ GiveUp(c, key) \/ Arm(c, key)
  \/ StartWrapper(c, key) \/ WrapperEnds(c, key)
  \/ Succeed(c, key) \/ FailCancelled(c, key) \/ FailRetry(c, key)
  \/ Fail(c, key) \/ CountOutcome(c, key) \/ Park(c, key) \/ Leave(c, key)

RetryStep(c, key) == RetryRequested(c, key) \/ Fire(c, key)

KillStep(k) ==
  \/ \E c \in Cycles : KillCancel(k, c) \/ KillWait(k, c)
  \/ KillQueue(k) \/ KillNotQueued(k) \/ KillAcquire(k)
  \/ Plan(k) \/ Bkill(k) \/ Verify(k) \/ Mark(k)
  \/ KillRelease(k) \/ KillFinish(k)

\* Steps the threads of the manager take by themselves.
System ==
  \/ \E c \in Cycles : LaunchStep(c)
  \/ \E c \in Cycles, key \in Keys : TaskStep(c, key) \/ RetryStep(c, key)
  \/ \E k \in Kills : KillStep(k)

\* Steps of the application, of LSF and of the polling loop.
Environment ==
  \/ \E c \in Cycles, ks \in SUBSET Keys : Submit(c, ks)
  \/ \E c \in Cycles : CancelSubmit(c)
  \/ \E k \in Kills, ks \in SUBSET Keys : KillBegin(k, ks)
  \/ \E key \in Keys : Remove(key) \/ Poll(key)
  \/ \E j \in Jobs : JobEnds(j)

Next == System \/ Environment

Spec == Init /\ [][Next]_vars

\* The threads of the manager keep running: every wrapper ends by its
\* subprocess timeout, every wait by its deadline, and the GUI thread serves
\* its event loop.  Nothing is assumed of the environment.
FairSpec == Spec /\ WF_vars(System)

-----------------------------------------------------------------------------
(* Properties.                                                             *)

\* The submitter and the killer keep the contract of the gate.
GateSpec == Gate!Spec

\* "A wrapper that is already running is waited for until its job id is
\* known, and then killed" (manager.kill).  When a kill whose wait did not
\* time out has resolved its targets, no live job of its scope is missing
\* from them, be its cycle captured, refused or long finished.
NoLeak ==
  \A k \in Kills :
    stage[k] = "acquired" /\ quiesced[k] /\ step[k] # "plan" =>
      \A j \in alive \ doomed :
        j[2] \in Gate!Scope(k) /\ rec[j[2]].state # "GONE" => j \in targets[k]

\* A live job that no kill has hit is never lost: unless its record was
\* removed, the record names it and is PEND, or the submitting thread is just
\* about to store it (_task_crashed: "a job alive on LSF is not orphaned").
NoOrphan ==
  \A j \in alive \ doomed :
    \/ rec[j[2]].state = "GONE"
    \/ task[j[1]][j[2]] = "accepted"
    \/ rec[j[2]].id = j[1] /\ rec[j[2]].state = "PEND"

\* Every unit of a cycle is counted once, whichever of worker, timer, cancel
\* and kill settles it; the cycle is finished exactly when all are counted
\* and reports at most once.
CountExact ==
  \A c \in Cycles :
    /\ Done(c) <= Total(c)
    /\ phase[c] # "new" => (finished[c] <=> Done(c) = Total(c))
    /\ reports[c] <= 1

\* A pool thread has the key in hand, or the retry that waits has its timer or
\* the request for one.
GoesOn(c, key) ==
  \/ task[c][key] \in InSubmission \cup {"queued", "ok", "failed", "dropped", "retrying"}
  \/ task[c][key] = "parked" /\ signal[c][key] # "none"

\* submit_finished is the last word: a finished cycle has no task left that
\* could still touch a record, and a record in a transient state belongs to a
\* cycle that is still running, so no row is stuck in SUBMITTING; and it cannot
\* stay out: a launched cycle that is not finished has a key that goes on.
FinishedIsSettled ==
  /\ \A c \in Cycles : finished[c] =>
       \A key \in Keys : task[c][key] \in {"none", "end"}
  /\ \A key \in Keys : rec[key].state \in {"SUBMITTING", "RETRY_WAIT"} =>
       \E c \in Cycles : key \in want[c] /\ ~finished[c]
  /\ \A c \in Cycles : launch[c] = "launched" /\ ~finished[c] =>
       \E key \in want[c] : GoesOn(c, key)

\* "A key caught by the barrier is not even reset" (_reset_records): a cycle
\* never does anything with a key it was refused.
RefusedUntouched ==
  \A c \in Cycles : \A key \in refused[c] : task[c][key] \in {"none", "end"}

\* The mark `killed' on a record with a job id is true: LSF has accepted a
\* bkill of that very job, and EXIT stored by a kill is never found without it.
KilledIsTrue ==
  \A key \in Keys :
    /\ rec[key].killed /\ rec[key].id # NoJob => <<rec[key].id, key>> \in doomed
    /\ rec[key].state = "EXIT" => rec[key].killed

\* Every submit that was accepted comes to an end and says so, unless the
\* report of a refused pre_submit is configured away.
CycleFinishes ==
  \A c \in Cycles :
    phase[c] = "registered" ~>
      phase[c] = "closed" /\ (FinishOnGateReject => reports[c] = 1)

\* Every kill that was begun takes its barrier down again and stops counting
\* as in progress; otherwise the jobset could never be submitted again.
KillFinishes ==
  \A k \in Kills : stage[k] = "begun" ~> stage[k] = "released" /\ k \notin active
=============================================================================
