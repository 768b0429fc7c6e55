----------------------------- MODULE Completion -----------------------------
(***************************************************************************)
(* When a jobset is complete: lsfmgr/completion.py, the signals of the     *)
(* submitter, the killer and the polling thread that lead to it in         *)
(* lsfmgr/manager.py, and the polling worker of lsfmgr/monitor.py.         *)
(*                                                                         *)
(* The GUI thread serves `queue', the signals the other threads have       *)
(* posted, in order, and runs maybe_finish after most of them.  The polling*)
(* thread serves `requests'.  A cycle runs on a coordinator and pool       *)
(* threads, a kill on a thread of its own; how these two meet is the       *)
(* subject of SubmitKill.tla, so here a kill takes any effect it can have. *)
(***************************************************************************)
EXTENDS Naturals, Sequences

CONSTANTS
  Keys, Cycles, Kills,  \* the jobset has some of the keys
  None,                 \* no cycle
  Posting,              \* the cycles submitted with a post_process
  AutoPoll,             \* options.auto_poll
  FinishOnGateReject,   \* config.submit_finished_on_gate_reject
  Policies,             \* the values config.kill_status_policy may have
  LaunchFails,          \* the cycles whose launch may fail after the records were reset
  MaxQueue,             \* bound: the polling thread posts only to a shorter queue
  MaxRequests           \* bound: no request is made with more of them waiting

ASSUME CompletionAssumption ==
  /\ None \notin Cycles /\ Posting \subseteq Cycles /\ LaunchFails \subseteq Cycles
  /\ {AutoPoll, FinishOnGateReject} \subseteq BOOLEAN
  /\ Policies \subseteq {"optimistic", "actual"}
  /\ MaxQueue \in Nat /\ MaxRequests \in Nat

VARIABLES
  \* the Store
  exists,      \* the jobset has not been removed
  rec,         \* the record of each key; run is its _generation
  \* the submitter and the killer
  used,        \* the cycles submitted so far
  cycle,       \* the cycle that is active, or None
  launch,      \* how far that cycle is
  todo,        \* its keys with no outcome stored yet
  cancelled,   \* its cancel_event
  launched,    \* the keys each cycle has reset
  kill,        \* how far each kill is
  plan,        \* the keys each kill aims at
  \* the completion tracker
  pending_arm,      \* the cycle whose arming is pending, or None
  post_process,     \* the cycle whose post_process is armed, or None
  finished_latch,   \* jobset_finished is not to be emitted (again)
  \* the GUI thread
  queue,       \* signals posted to it
  judging,     \* how far maybe_finish is
  recs,        \* the records maybe_finish has read
  \* the polling thread
  requests,    \* requests posted to it
  timer,       \* the jobset has a polling timer
  idle,        \* _idle_counts
  poll,        \* how far _poll is
  \* what the application has seen
  news,        \* whether a completion is owed, told or told twice
  ran,         \* how often each post_process was started
  \* what the properties remember
  ahead,       \* it was told while the records_reset of its run still waited
  unconfirmed  \* cycles that have reset records and confirmed nothing

storeVars == <<exists, rec>>
cycleVars == <<used, cycle, launch, todo, cancelled, launched>>
killVars  == <<kill, plan>>
armVars   == <<pending_arm, post_process, finished_latch>>
judgeVars == <<judging, recs>>
pollVars  == <<requests, timer, idle, poll>>
seenVars  == <<news, ran, ahead, unconfirmed>>
vars == <<storeVars, cycleVars, killVars, armVars, queue, judgeVars, pollVars, seenVars>>

States == {"CREATED", "SUBMITTING", "PEND", "END"}
Records == [state : States, killed : BOOLEAN, run : Cycles \cup {None}]
New == [state |-> "CREATED", killed |-> FALSE, run |-> None]
Blank(ks) == [key \in ks |-> New]

\* The keys of the jobset.
Members == DOMAIN rec
Signals == [kind : {"reset", "rejected", "finished"}, of : Cycles]
             \cup [kind : {"updated"}, of : {None}] \cup [kind : {"killed"}, of : Kills]

StoreTypes == exists \in BOOLEAN /\ Members \subseteq Keys /\ rec \in [Members -> Records]
CycleTypes ==
  /\ used \subseteq Cycles /\ cycle \in Cycles \cup {None}
  /\ launch \in {"none", "check", "reset", "running"}
  /\ todo \subseteq Members /\ cancelled \in BOOLEAN
  /\ launched \in [Cycles -> SUBSET Members]
KillTypes ==
  /\ kill \in [Kills -> {"idle", "begun", "queued", "planned", "verified", "sent", "over"}]
  /\ plan \in [Kills -> SUBSET Members]
ArmTypes ==
  /\ pending_arm \in Cycles \cup {None} /\ post_process \in Cycles \cup {None}
  /\ finished_latch \in BOOLEAN
QueueTypes == queue \in Seq(Signals)
JudgeTypes ==
  /\ judging \in {"no", "due", "seen"}
  /\ DOMAIN recs \subseteq Members /\ \A key \in DOMAIN recs : recs[key] \in Records
PollTypes ==
  /\ requests \in Seq({"start", "stop", "poll"}) /\ timer \in BOOLEAN
  /\ idle \in 0..1 /\ poll \in {"no", "query", "emit", "stop"}
SeenTypes ==
  /\ news \in {"owed", "told", "twice"} /\ ran \in [Cycles -> Nat]
  /\ ahead \in BOOLEAN /\ unconfirmed \subseteq Cycles

TypeOK ==
  /\ StoreTypes /\ CycleTypes /\ KillTypes /\ ArmTypes /\ QueueTypes
  /\ JudgeTypes /\ PollTypes /\ SeenTypes

Init ==
  /\ exists = TRUE /\ \E ks \in (SUBSET Keys) \ {{}} : rec = Blank(ks)
  /\ used = {} /\ cycle = None /\ launch = "none" /\ todo = {} /\ cancelled = FALSE
  /\ launched = [c \in Cycles |-> {}]
  /\ kill = [k \in Kills |-> "idle"] /\ plan = [k \in Kills |-> {}]
  /\ pending_arm = None /\ post_process = None /\ finished_latch = FALSE
  /\ queue = <<>> /\ judging = "no" /\ recs = << >>
  /\ requests = <<>> /\ timer = FALSE /\ idle = 0 /\ poll = "no"
  /\ news = "owed" /\ ran = [c \in Cycles |-> 0] /\ ahead = FALSE /\ unconfirmed = {}

-----------------------------------------------------------------------------
AllTerminal(r) == \A key \in DOMAIN r : r[key].state = "END"
AllKilled(r) == \A key \in DOMAIN r : r[key].killed
ActiveKills == {k \in Kills : kill[k] \in {"queued", "planned", "verified", "sent"}}
Busy == cycle # None \/ ActiveKills # {}

\* The GUI thread is free for the next signal or the next call.
GuiFree == judging = "no" /\ \A k \in Kills : kill[k] # "begun"

Post(kind, of) == queue' = Append(queue, [kind |-> kind, of |-> of])

\* Jobs that have not ended: their completion is owed (again).
Owe == news' = "owed" /\ ahead' = FALSE /\ UNCHANGED <<ran, unconfirmed>>

-----------------------------------------------------------------------------
(* Calls of the application.                                               *)

\* Mutant of Stage: the callback is armed at once.
StageArmed(c) ==
  /\ post_process' = IF c \in Posting THEN c ELSE None
  /\ pending_arm' = c
  /\ UNCHANGED finished_latch

\* stage: what an earlier cycle has armed is dropped, this one is pending.
Stage(c) ==
  /\ post_process' = None
  /\ pending_arm' = c
  /\ UNCHANGED finished_latch

\* manager.submit of inactive jobs: stage, then the launch is queued.
Submit(c, ks) ==
  /\ GuiFree /\ exists /\ ~Busy /\ c \notin used
  /\ ks # {} /\ \A key \in ks : rec[key].state \in {"CREATED", "END"}
  /\ Stage(c)
  /\ used' = used \cup {c} /\ cycle' = c /\ launch' = "check" /\ todo' = ks
  /\ cancelled' = FALSE
  /\ UNCHANGED <<storeVars, launched, killVars, queue, judgeVars, pollVars, seenVars>>

\* submit from a slot that runs while a kill is being begun: refused as a
\* whole, the pending arming is discarded and submit_finished runs at once.
SubmitRefused(c) ==
  /\ judging = "no" /\ exists /\ ~Busy /\ c \notin used
  /\ \E k \in Kills : kill[k] = "begun"
  /\ used' = used \cup {c}
  /\ post_process' = None /\ pending_arm' = None
  /\ judging' = "due"
  /\ UNCHANGED <<storeVars, cycle, launch, todo, cancelled, launched, killVars,
                 finished_latch, queue, recs, pollVars, seenVars>>

CancelSubmit ==
  /\ GuiFree /\ cycle # None /\ ~cancelled
  /\ cancelled' = TRUE
  /\ UNCHANGED <<storeVars, used, cycle, launch, todo, launched, killVars, armVars,
                 queue, judgeVars, pollVars, seenVars>>

\* replace_jobs and upsert_jobs of one job, which is CREATED afterwards, and
\* polling is resumed because there is something to watch again.
Edit(key) ==
  /\ GuiFree /\ exists /\ ~Busy
  /\ rec[key].state = "END" /\ Len(requests) < MaxRequests
  /\ rec' = [rec EXCEPT ![key] = New]
  /\ requests' = Append(requests, "start")
  /\ Owe
  /\ UNCHANGED <<exists, cycleVars, killVars, armVars, queue, judgeVars, timer, idle, poll>>

\* start_polling, stop_polling and query_once.
Request(r) ==
  /\ GuiFree /\ exists /\ Len(requests) < MaxRequests
  /\ requests' = Append(requests, r)
  /\ UNCHANGED <<storeVars, cycleVars, killVars, armVars, queue, judgeVars, timer,
                 idle, poll, seenVars>>

\* Mutant of Forget: the pending arming stays behind.
ForgetArmedOnly ==
  /\ post_process' = None /\ finished_latch' = FALSE
  /\ UNCHANGED pending_arm

Forget == pending_arm' = None /\ post_process' = None /\ finished_latch' = FALSE

\* remove_jobset, by force also while a cycle or a kill is in progress.
RemoveJobset ==
  /\ GuiFree /\ exists
  /\ exists' = FALSE
  /\ cancelled' = (cancelled \/ cycle # None)
  /\ requests' = Append(requests, "stop")
  /\ Forget
  /\ UNCHANGED <<rec, used, cycle, launch, todo, launched, killVars, queue, judgeVars,
                 timer, idle, poll, seenVars>>

-----------------------------------------------------------------------------
(* The cycle, on its coordinator and pool threads.                         *)

CycleOver == cycle' = None /\ launch' = "none" /\ todo' = {} /\ cancelled' = FALSE

\* gate_rejected goes out before submit_finished, which goes out unless a
\* check that returned False is configured not to be reported.
PostRejected(c, report) ==
  queue' = queue \o <<[kind |-> "rejected", of |-> c]>>
                 \o (IF report THEN <<[kind |-> "finished", of |-> c]>> ELSE <<>>)

\* _gate_reject and _gate_fail before the reset.
Reject ==
  /\ launch = "check"
  /\ \E report \in {TRUE, FinishOnGateReject} : PostRejected(cycle, report)
  /\ CycleOver
  /\ UNCHANGED <<storeVars, used, launched, killVars, armVars, judgeVars, pollVars, seenVars>>

\* _reset_records.
Reset ==
  /\ launch = "check" /\ exists
  /\ rec' = [key \in Members |-> IF key \in todo
               THEN [state |-> "SUBMITTING", killed |-> FALSE, run |-> cycle] ELSE rec[key]]
  /\ launched' = [launched EXCEPT ![cycle] = todo]
  /\ launch' = "reset"
  /\ Owe
  /\ UNCHANGED <<exists, used, cycle, todo, cancelled, killVars, armVars, queue,
                 judgeVars, pollVars>>

\* Every record is gone: the units are counted while they are looked at, so
\* submit_finished goes out before gate_rejected.
ResetGone ==
  /\ launch = "check" /\ ~exists
  /\ queue' = queue \o <<[kind |-> "finished", of |-> cycle], [kind |-> "rejected", of |-> cycle]>>
  /\ CycleOver
  /\ UNCHANGED <<storeVars, used, launched, killVars, armVars, judgeVars, pollVars, seenVars>>

\* records_reset goes out before the first task is started.
FanOut ==
  /\ launch = "reset"
  /\ Post("reset", cycle)
  /\ launch' = "running"
  /\ UNCHANGED <<storeVars, used, cycle, todo, cancelled, launched, killVars, armVars,
                 judgeVars, pollVars, seenVars>>

\* _gate_fail after the reset: SUBMIT_FAILED without records_reset.
LaunchFail ==
  /\ cycle \in LaunchFails /\ launch = "reset"
  /\ rec' = [key \in Members |-> IF exists /\ key \in todo
                              THEN [rec[key] EXCEPT !.state = "END"] ELSE rec[key]]
  /\ PostRejected(cycle, TRUE)
  /\ unconfirmed' = unconfirmed \cup {cycle}
  /\ CycleOver
  /\ UNCHANGED <<exists, used, launched, killVars, armVars, judgeVars, pollVars, news, ran, ahead>>

\* The record of a job that was killed; the "actual" policy leaves its state
\* to the query.
Killed(r, policy) ==
  [state |-> IF policy = "optimistic" THEN "END" ELSE r.state, killed |-> TRUE, run |-> r.run]

\* The outcome of one key is stored: submitted, failed, or cancelled.
Settle(key) ==
  /\ launch = "running" /\ key \in todo
  /\ todo' = todo \ {key}
  /\ IF ~exists THEN UNCHANGED rec ELSE
       \/ \E s \in {"PEND", "END"} : rec' = [rec EXCEPT ![key].state = s]
       \/ cancelled /\ rec' = [rec EXCEPT ![key] = Killed(@, "optimistic")]
  /\ UNCHANGED <<exists, used, cycle, launch, cancelled, launched, killVars, armVars,
                 queue, judgeVars, pollVars, seenVars>>

\* _finish_if_done: the last unit is counted and submit_finished goes out.
Finish ==
  /\ launch = "running" /\ todo = {}
  /\ Post("finished", cycle)
  /\ CycleOver
  /\ UNCHANGED <<storeVars, used, launched, killVars, armVars, judgeVars, pollVars, seenVars>>

-----------------------------------------------------------------------------
(* Kills of the whole jobset.                                              *)

\* begin on the GUI thread cancels the cycle, then the kill is queued.
KillBegin(k) ==
  /\ GuiFree /\ exists /\ kill[k] = "idle"
  /\ kill' = [kill EXCEPT ![k] = "begun"]
  /\ cancelled' = (cancelled \/ cycle # None)
  /\ UNCHANGED <<storeVars, used, cycle, launch, todo, launched, plan, armVars, queue,
                 judgeVars, pollVars, seenVars>>

KillQueue(k) ==
  /\ judging = "no" /\ kill[k] = "begun"
  /\ kill' = [kill EXCEPT ![k] = "queued"]
  /\ UNCHANGED <<storeVars, cycleVars, plan, armVars, queue, judgeVars, pollVars, seenVars>>

KillPlan(k) ==
  /\ kill[k] = "queued"
  /\ kill' = [kill EXCEPT ![k] = "planned"]
  /\ plan' = [plan EXCEPT ![k] = {key \in Members : exists /\ rec[key].state = "PEND"}]
  /\ UNCHANGED <<storeVars, cycleVars, armVars, queue, judgeVars, pollVars, seenVars>>

\* A query may find some of the jobs at their end.
Observe == \E T \in SUBSET {key \in Members : rec[key].state = "PEND"} :
             rec' = [key \in Members |-> IF key \in T THEN [rec[key] EXCEPT !.state = "END"]
                                                   ELSE rec[key]]

\* The query that verifies a kill, if there is one.
KillVerify(k) ==
  /\ kill[k] = "planned"
  /\ kill' = [kill EXCEPT ![k] = "verified"]
  /\ IF exists THEN Observe ELSE UNCHANGED rec
  /\ UNCHANGED <<exists, cycleVars, plan, armVars, queue, judgeVars, pollVars, seenVars>>

\* Some targets are confirmed and marked, and the result is posted.
KillMark(k) ==
  /\ kill[k] = "verified"
  /\ kill' = [kill EXCEPT ![k] = "sent"]
  /\ \E S \in SUBSET plan[k], policy \in Policies :
       rec' = [key \in Members |-> IF key \in S /\ exists
                                   THEN Killed(rec[key], policy) ELSE rec[key]]
  /\ plan' = [plan EXCEPT ![k] = {}]
  /\ Post("killed", k)
  /\ UNCHANGED <<exists, cycleVars, armVars, judgeVars, pollVars, seenVars>>

-----------------------------------------------------------------------------
(* The polling thread.                                                     *)

\* A second start with the same interval changes nothing; otherwise the
\* timer is created and a poll begins.
ServeStart ==
  /\ poll = "no" /\ requests # <<>> /\ Head(requests) = "start"
  /\ requests' = Tail(requests)
  /\ timer' = TRUE
  /\ poll' = IF timer THEN "no" ELSE "query"
  /\ idle' = IF timer THEN idle ELSE 0
  /\ UNCHANGED <<storeVars, cycleVars, killVars, armVars, queue, judgeVars, seenVars>>

ServeStop ==
  /\ poll = "no" /\ requests # <<>> /\ Head(requests) = "stop"
  /\ requests' = Tail(requests)
  /\ timer' = FALSE /\ idle' = 0
  /\ UNCHANGED <<storeVars, cycleVars, killVars, armVars, queue, judgeVars, poll, seenVars>>

\* poll_now, and the tick of the timer.
ServePoll ==
  /\ poll = "no"
  /\ \/ requests # <<>> /\ Head(requests) = "poll" /\ requests' = Tail(requests)
     \/ timer /\ UNCHANGED requests
  /\ poll' = "query"
  /\ UNCHANGED <<storeVars, cycleVars, killVars, armVars, queue, judgeVars, timer, idle,
                 seenVars>>

\* The query stores what it observes; it may fail, and it finds out that the
\* jobset was removed.
Query ==
  /\ poll = "query"
  /\ \/ exists /\ Observe /\ poll' = "emit" /\ UNCHANGED <<timer, idle>>
     \/ exists /\ poll' = "no" /\ UNCHANGED <<rec, timer, idle>>
     \/ ~exists /\ poll' = "no" /\ timer' = FALSE /\ idle' = 0 /\ UNCHANGED rec
  /\ UNCHANGED <<exists, cycleVars, killVars, armVars, queue, judgeVars, requests, seenVars>>

EmitUpdated ==
  /\ poll = "emit" /\ Len(queue) < MaxQueue
  /\ Post("updated", None)
  /\ poll' = "stop"
  /\ UNCHANGED <<storeVars, cycleVars, killVars, armVars, judgeVars, requests, timer,
                 idle, seenVars>>

IdleTwice == idle = 1

\* _maybe_auto_stop, on the records as they are by now: all terminal, or
\* nothing on LSF and nothing being submitted for the second time.
AutoStop ==
  /\ poll = "stop"
  /\ poll' = "no"
  /\ IF ~timer \/ ~exists THEN UNCHANGED <<timer, idle>> ELSE
       \/ /\ AllTerminal(rec)
          /\ timer' = FALSE /\ idle' = 0
       \/ /\ \E key \in Members : rec[key].state \in {"SUBMITTING", "PEND"}
          /\ idle' = 0 /\ UNCHANGED timer
       \/ /\ ~AllTerminal(rec) /\ \A key \in Members : rec[key].state \in {"CREATED", "END"}
          /\ idle' = IF IdleTwice THEN 0 ELSE idle + 1
          /\ timer' = ~IdleTwice
  /\ UNCHANGED <<storeVars, cycleVars, killVars, armVars, queue, judgeVars, requests, seenVars>>

-----------------------------------------------------------------------------
(* Signals delivered on the GUI thread.                                    *)

Deliver(kind) ==
  /\ GuiFree /\ queue # <<>> /\ Head(queue).kind = kind
  /\ queue' = Tail(queue)

\* confirm: the pending arming is used up, the latch is released.
Confirm(c) ==
  /\ pending_arm' = None
  /\ post_process' = IF c \in Posting THEN c ELSE post_process
  /\ finished_latch' = FALSE

\* _on_records_reset; the signal of another cycle is ignored.
OnRecordsReset ==
  /\ Deliver("reset")
  /\ \/ /\ pending_arm = Head(queue).of
        /\ Confirm(pending_arm)
        /\ requests' = IF AutoPoll THEN Append(requests, "start") ELSE requests
        /\ UNCHANGED unconfirmed
     \/ /\ pending_arm # Head(queue).of
        /\ unconfirmed' = unconfirmed \cup {Head(queue).of}
        /\ UNCHANGED <<armVars, requests>>
  /\ UNCHANGED <<storeVars, cycleVars, killVars, judgeVars, timer, idle, poll, news, ran, ahead>>

\* _on_gate_rejected.
OnGateRejected ==
  /\ Deliver("rejected")
  /\ pending_arm' = IF pending_arm = Head(queue).of THEN None ELSE pending_arm
  /\ UNCHANGED <<storeVars, cycleVars, killVars, post_process, finished_latch, judgeVars,
                 pollVars, seenVars>>

\* _emit_summary_after_submit.
OnSubmitFinished ==
  /\ Deliver("finished")
  /\ judging' = IF exists THEN "due" ELSE "no"
  /\ UNCHANGED <<storeVars, cycleVars, killVars, armVars, recs, pollVars, seenVars>>

\* _on_poll_updated.
OnPollUpdated ==
  /\ Deliver("updated")
  /\ judging' = "due"
  /\ UNCHANGED <<storeVars, cycleVars, killVars, armVars, recs, pollVars, seenVars>>

\* Mutant of OnKillFinished: the end of a kill does not judge completion.
KillFinishedUnjudged ==
  /\ Deliver("killed")
  /\ kill' = [kill EXCEPT ![Head(queue).of] = "over"]
  /\ UNCHANGED <<storeVars, cycleVars, plan, armVars, judgeVars, pollVars, seenVars>>

\* _finish_activity and _emit_updates_after_kill.
OnKillFinished ==
  /\ Deliver("killed")
  /\ kill' = [kill EXCEPT ![Head(queue).of] = "over"]
  /\ judging' = "due"
  /\ UNCHANGED <<storeVars, cycleVars, plan, armVars, recs, pollVars, seenVars>>

\* Mutant of Deferred: completion is judged whatever the submitter does.
DeferredNever == FALSE

\* The submitter is active: the records may be those of an earlier run.
Deferred == cycle # None

\* maybe_finish, first part: not while a cycle is active, not without a
\* jobset; the records are read, and one that is not terminal releases the
\* latch.
JudgeRecords ==
  /\ judging = "due"
  /\ \/ /\ Deferred
        /\ judging' = "no" /\ UNCHANGED <<armVars, recs>>
     \/ /\ ~Deferred /\ ~exists
        /\ post_process' = None /\ finished_latch' = FALSE
        /\ judging' = "no" /\ UNCHANGED <<pending_arm, recs>>
     \/ /\ ~Deferred /\ exists /\ ~AllTerminal(rec)
        /\ finished_latch' = FALSE
        /\ judging' = "no" /\ UNCHANGED <<pending_arm, post_process, recs>>
     \/ /\ ~Deferred /\ exists /\ AllTerminal(rec)
        /\ recs' = rec
        /\ judging' = "seen" /\ UNCHANGED armVars
  /\ UNCHANGED <<storeVars, cycleVars, killVars, queue, pollVars, seenVars>>

\* A kill that has not delivered its result defers the decision.
JudgeLater ==
  /\ judging = "seen" /\ ActiveKills # {}
  /\ judging' = "no" /\ recs' = << >>
  /\ UNCHANGED <<storeVars, cycleVars, killVars, armVars, queue, pollVars, seenVars>>

\* The records_reset that will release the latch still waits.
ResetWaits == \E i \in DOMAIN queue : queue[i] = [kind |-> "reset", of |-> pending_arm]

\* Mutant of Tell: every completion that is judged is announced.
TellAlways ==
  /\ finished_latch' = TRUE
  /\ ahead' = (ahead \/ ResetWaits)
  /\ news' = IF AllKilled(recs) \/ news = "owed" THEN "told" ELSE "twice"

\* jobset_finished, unless it has been emitted or every job was killed.
Tell ==
  /\ finished_latch' = TRUE
  /\ ahead' = (ahead \/ ResetWaits)
  /\ \/ AllKilled(recs) /\ news' = "told"
     \/ ~AllKilled(recs) /\ finished_latch /\ UNCHANGED news
     \/ /\ ~AllKilled(recs) /\ ~finished_latch
        /\ news' = IF news = "owed" THEN "told" ELSE "twice"

\* maybe_finish, second part: tell, and run what is armed.
Judge ==
  /\ judging = "seen" /\ ActiveKills = {}
  /\ Tell
  /\ post_process' = None
  /\ ran' = [c \in Cycles |-> IF c = post_process THEN ran[c] + 1 ELSE ran[c]]
  /\ judging' = "no" /\ recs' = << >>
  /\ UNCHANGED <<storeVars, cycleVars, killVars, pending_arm, queue, pollVars, unconfirmed>>

-----------------------------------------------------------------------------
Application ==
  \/ \E c \in Cycles : SubmitRefused(c) \/ \E ks \in SUBSET Members : Submit(c, ks)
  \/ CancelSubmit \/ RemoveJobset
  \/ \E key \in Members : Edit(key)
  \/ \E r \in {"start", "stop", "poll"} : Request(r)
  \/ \E k \in Kills : KillBegin(k)

Gui ==
  \/ OnRecordsReset \/ OnGateRejected \/ OnSubmitFinished \/ OnPollUpdated
  \/ OnKillFinished \/ JudgeRecords \/ JudgeLater \/ Judge
  \/ \E k \in Kills : KillQueue(k)

Workers ==
  \/ Reject \/ Reset \/ ResetGone \/ FanOut \/ LaunchFail \/ Finish
  \/ \E key \in Members : Settle(key)
  \/ \E k \in Kills : KillPlan(k) \/ KillVerify(k) \/ KillMark(k)
  \/ ServeStart \/ ServeStop \/ ServePoll \/ Query \/ EmitUpdated \/ AutoStop

Next == Application \/ Gui \/ Workers

Spec == Init /\ [][Next]_vars

-----------------------------------------------------------------------------
(* Properties.                                                             *)

\* Nothing is under way in any thread.
Quiet ==
  /\ queue = <<>> /\ requests = <<>> /\ judging = "no" /\ poll = "no"
  /\ cycle = None /\ ActiveKills = {} /\ GuiFree

\* "All jobs of this jobset have reached a terminal state" is always told
\* (README: jobset_finished): once every thread is at rest and no poll is to
\* come, no completion is owed, except that of a jobset killed as a whole.
Told ==
  Quiet /\ ~timer /\ exists /\ AllTerminal(rec) /\ ~AllKilled(rec) => news # "owed"

\* What it takes to miss a completion: the latch of an earlier one has not been
\* released, because a launch failed after the reset (_gate_fail sends no
\* records_reset) or because its records_reset met the arming of a later
\* submission; or a check that returned False is not reported.
Excused ==
  \/ finished_latch /\ \E key \in Members : rec[key].run \in unconfirmed
  \/ ~FinishOnGateReject /\ \E c \in used \ {cycle} : launched[c] = {}

\* Told, whatever the launches and the options do: a completion that is owed
\* when every thread is at rest, polling or not, has one of these excuses.
ToldOrExcused ==
  Quiet /\ exists /\ AllTerminal(rec) /\ ~AllKilled(rec) => news # "owed" \/ Excused

\* "Told once when all are terminal; the latch guarantees it" (completion.py):
\* not again unless a job was unfinished in between.
ToldOnce == news # "twice"

\* What the latch does guarantee: it takes a completion told while the
\* records_reset of its own run still waits behind the signal that was served.
ToldOnceUnlessAhead == news = "twice" => ahead

\* A post_process runs at most once, never on the terminal records an earlier
\* run has left behind (stage: "armed earlier, it would go off on them"), and
\* only when every record of its own run has ended.
PostOnOwnRun ==
  [][\A c \in Cycles : ran'[c] # ran[c] =>
       /\ ran'[c] = 1
       /\ launched[c] # {}
       /\ \A key \in launched[c] : recs[key].run = c /\ recs[key].state = "END"]_vars

\* What maybe_finish announces still holds when it does: between the read and
\* the decision no other thread has taken a record out of its terminal state,
\* and `killed' was not still to be attributed (blocks_completion).
JudgedTruly == judging = "seen" => AllTerminal(rec) /\ (ActiveKills = {} => rec = recs)

\* A removed jobset leaves nothing behind: no arming, no latch and no timer.
NoLeftovers ==
  Quiet /\ ~exists =>
    pending_arm = None /\ post_process = None /\ ~finished_latch /\ ~timer
=============================================================================
