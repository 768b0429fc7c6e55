-------------------------- MODULE SubmitKill_proofs --------------------------
(***************************************************************************)
(* Proofs about submission and kill, for any number of keys, cycles and    *)
(* kills and any max_retry.  Inv is inductive; what the runs check of the  *)
(* records, the counters and the jobs on LSF follows from it, and so does  *)
(* that every step is a step of the kill-priority gate.                    *)
(***************************************************************************)
EXTENDS SubmitKill, FiniteSetTheorems, TLAPS

-----------------------------------------------------------------------------
(* The inductive invariant.                                                *)

Over     == {"none", "end"}
Retrying == {"retrying", "parked"}
Moving   == {"reset", "queued"} \cup InSubmission \cup Retrying

\* How far the tasks of a cycle are, by how far its launch is; a cycle does
\* nothing with a key it was not given or was refused.
LaunchInv ==
  \A c \in Cycles :
    /\ launch[c] = "none" <=> phase[c] = "new"
    /\ launch[c] = "registered" <=> phase[c] = "registered"
    /\ launch[c] \in {"pre_submit", "checking", "start", "resetting"} =>
         refused[c] \subseteq cancelled_keys[c]
    /\ \A key \in Keys :
         /\ task[c][key] # "none" =>
              key \in want[c] /\ launch[c] \in {"resetting", "launched"}
         /\ launch[c] = "resetting" => task[c][key] \in {"none", "todo", "reset", "end"}
         /\ launch[c] = "launched" => task[c][key] \notin {"todo", "reset"}
         /\ task[c][key] \notin Over => key \notin refused[c]

\* The keys whose unit is counted: those whose task is over, and when the
\* launch is over those that were never given one.
Settled(c) == {key \in want[c] : \/ task[c][key] = "end"
                                 \/ task[c][key] = "none" /\ launch[c] = "launched"}

\* The counters are the number of settled keys, and the cycle is finished when
\* none is left.
CountInv ==
  \A c \in Cycles :
    /\ launch[c] = "none" <=> want[c] = {}
    /\ Done(c) = Cardinality(Settled(c))
    /\ finished[c] <=> launch[c] # "none" /\ Settled(c) = want[c]
    /\ reports[c] <= IF finished[c] THEN 1 ELSE 0

\* One cycle at a time: a cycle that is not finished is the one cancel_submit
\* would reach.
OneCycleInv ==
  \A c \in Cycles :
    /\ launch[c] # "none" /\ ~finished[c] => context = c
    /\ context = c => launch[c] # "none"
    /\ phase[c] = "closed" => finished[c]

\* A task that waits for its retry has an attempt left.
RetryInv ==
  \A c \in Cycles, key \in Keys :
    task[c][key] \in Retrying => attempt[c][key] < MaxRetry

\* A retry that waits in the ledger has its timer, or the request for it.
ParkInv ==
  \A c \in Cycles, key \in Keys : task[c][key] = "parked" => signal[c][key] # "none"

\* What the record of a key may be while its task is at t; the record may have
\* been removed at any time.
Fits(t, r) ==
  \/ r.state = "GONE"
  \/ /\ r.id = NoJob /\ ~r.killed
     /\ r.state \in {"SUBMITTING", "RETRY_WAIT"}
     /\ t = "reset" => r.state = "SUBMITTING"
     /\ t \in Retrying => r.state = "RETRY_WAIT"

\* A record agrees with the task that moves its key, is inactive before the
\* reset, and is in a transient state for no other reason.
RecInv ==
  \A key \in Keys :
    /\ \A c \in Cycles :
         /\ task[c][key] \in Moving => Fits(task[c][key], rec[key])
         /\ key \in want[c] /\ ~finished[c] /\ task[c][key] \in {"none", "todo"} =>
              rec[key].state \in Inactive \cup {"GONE"}
    /\ rec[key].state \in {"SUBMITTING", "RETRY_WAIT"} =>
         \E c \in Cycles : task[c][key] \in Moving

\* What a kill has had accepted, LSF has accepted.
DoomedInv == \A k \in Kills : accepted[k] \subseteq doomed

Inv == /\ TypeOK /\ LaunchInv /\ CountInv /\ OneCycleInv /\ RetryInv
       /\ ParkInv /\ RecInv /\ DoomedInv

\* With PromptLeave, a pool thread that has yet to leave is not overtaken by
\* the next attempt of its key, so whatever is being submitted is in flight.
FlightInv ==
  \A c \in Cycles, key \in Keys :
    /\ task[c][key] \in InSubmission => key \in inflight[c]
    /\ key \in leaving[c] => task[c][key] \in {"parked", "end"}

-----------------------------------------------------------------------------
(* Counting.                                                               *)

\* A cycle has finitely many units, never counts more than it has, and has
\* counted all of them exactly when every key is settled.
LEMMA SettledCard ==
  ASSUME TypeOK, CountInv, NEW c \in Cycles
  PROVE  /\ IsFiniteSet(want[c]) /\ Total(c) \in Nat /\ Done(c) \in Nat
         /\ Settled(c) \subseteq want[c]
         /\ Done(c) = Cardinality(Settled(c))
         /\ Done(c) <= Total(c)
         /\ Done(c) = Total(c) <=> Settled(c) = want[c]
<1>1. IsFiniteSet(want[c])
  BY FS_Subset, SubmitKillAssumption DEF TypeOK, Gate!TypeOK
<1>2. Settled(c) \in SUBSET want[c]
  BY DEF Settled
<1>3. /\ IsFiniteSet(Settled(c)) /\ Cardinality(Settled(c)) <= Cardinality(want[c])
      /\ Cardinality(want[c]) = Cardinality(Settled(c)) => want[c] = Settled(c)
  BY <1>1, <1>2, FS_Subset
<1>4. Cardinality(want[c]) \in Nat /\ Cardinality(Settled(c)) \in Nat
  BY <1>1, <1>3, FS_CardinalityType
<1>5. Done(c) = Cardinality(Settled(c))
  BY DEF CountInv
<1> QED
  BY <1>1, <1>2, <1>3, <1>4, <1>5 DEF Total

\* Settling further keys adds their number.
LEMMA SettleMore ==
  ASSUME TypeOK, CountInv, NEW c \in Cycles,
         NEW ks \in SUBSET (want[c] \ Settled(c))
  PROVE  /\ Cardinality(ks) \in Nat
         /\ Cardinality(ks) = 0 <=> ks = {}
         /\ Cardinality(Settled(c) \cup ks) = Done(c) + Cardinality(ks)
         /\ Done(c) + Cardinality(ks) <= Total(c)
         /\ Done(c) + Cardinality(ks) = Total(c) <=> Settled(c) \cup ks = want[c]
<1>1. IsFiniteSet(want[c]) /\ Settled(c) \in SUBSET want[c]
  BY SettledCard
<1>2. IsFiniteSet(Settled(c)) /\ IsFiniteSet(ks)
  BY <1>1, FS_Subset
<1>3. Settled(c) \cap ks = {}
  OBVIOUS
<1>4. Cardinality(ks) \in Nat /\ Cardinality(Settled(c)) \in Nat
  BY <1>2, FS_CardinalityType
<1>5. Cardinality(ks) = 0 <=> ks = {}
  BY <1>2, FS_EmptySet
<1>6. Cardinality(Settled(c) \cup ks) = Cardinality(Settled(c)) + Cardinality(ks)
  <2>1. Cardinality(Settled(c) \cap ks) = 0
    BY <1>3, FS_EmptySet
  <2>2. Cardinality(Settled(c) \cup ks) =
          Cardinality(Settled(c)) + Cardinality(ks) - Cardinality(Settled(c) \cap ks)
    BY <1>2, FS_Union
  <2> QED
    BY <1>4, <2>1, <2>2
<1>7. Settled(c) \cup ks \in SUBSET want[c]
  BY <1>1
<1>8. /\ Cardinality(Settled(c) \cup ks) <= Cardinality(want[c])
      /\ Cardinality(want[c]) = Cardinality(Settled(c) \cup ks) => want[c] = Settled(c) \cup ks
  BY <1>1, <1>7, FS_Subset
<1> QED
  BY <1>4, <1>5, <1>6, <1>8, SettledCard DEF Total

\* The shape of the counters.
Outcomes == {"ok", "failed", "cancelled"}
TallyType ==
  /\ count \in [Cycles -> [Outcomes -> Nat]]
  /\ finished \in [Cycles -> BOOLEAN]
  /\ reports \in [Cycles -> Nat]

\* Tally counts the n units it is given and finishes the cycle with the last.
LEMMA TallyEffect ==
  ASSUME TallyType, NEW c \in Cycles, NEW o \in Outcomes, NEW n \in Nat,
         Tally(c, o, n), want' = want
  PROVE  /\ TallyType'
         /\ Done(c)' = Done(c) + n
         /\ finished'[c] <=> finished[c] \/ (n > 0 /\ Done(c) + n >= Total(c))
         /\ reports'[c] = IF ~finished[c] /\ finished'[c] THEN reports[c] + 1 ELSE reports[c]
         /\ \A d \in Cycles \ {c} : /\ Done(d)' = Done(d) /\ finished'[d] = finished[d]
                                    /\ reports'[d] = reports[d]
<1> DEFINE last == n > 0 /\ Done(c) + n >= Total(c) /\ ~finished[c]
<1>1. /\ count' = [count EXCEPT ![c][o] = @ + n]
      /\ finished' = [finished EXCEPT ![c] = @ \/ last]
      /\ reports' = [reports EXCEPT ![c] = IF last THEN @ + 1 ELSE @]
  BY DEF Tally
<1>2. count' \in [Cycles -> [Outcomes -> Nat]]
  BY <1>1 DEF TallyType
<1>3. finished' \in [Cycles -> BOOLEAN] /\ (finished'[c] <=> finished[c] \/ last)
  BY <1>1, Zenon DEF TallyType
<1>4. reports' \in [Cycles -> Nat] /\ reports'[c] = IF last THEN reports[c] + 1 ELSE reports[c]
  <2> HIDE DEF last
  <2> QED
    BY <1>1 DEF TallyType
<1>5. Done(c)' = Done(c) + n
  BY <1>1, <1>2 DEF TallyType, Done, Outcomes
<1>6. \A d \in Cycles \ {c} : /\ Done(d)' = Done(d) /\ finished'[d] = finished[d]
                              /\ reports'[d] = reports[d]
  <2> HIDE DEF last
  <2> QED
    BY <1>1 DEF TallyType, Done
<1>7. last => finished'[c]
  BY <1>3
<1> QED
  BY <1>2, <1>3, <1>4, <1>5, <1>6, <1>7 DEF TallyType

\* FinishForced counts whatever is left and finishes the cycle.
LEMMA ForcedEffect ==
  ASSUME TypeOK, CountInv, NEW c \in Cycles, NEW o \in Outcomes, NEW emit \in BOOLEAN,
         FinishForced(c, o, emit), want' = want
  PROVE  /\ TallyType'
         /\ Done(c)' = Total(c) /\ finished'[c]
         /\ reports'[c] <= IF finished[c] THEN reports[c] ELSE reports[c] + 1
         /\ \A d \in Cycles \ {c} : /\ Done(d)' = Done(d) /\ finished'[d] = finished[d]
                                    /\ reports'[d] = reports[d]
<1> DEFINE n == Total(c) - Done(c)
<1>1. n \in Nat /\ Total(c) = Done(c) + n /\ Done(c) \in Nat
  BY SettledCard
<1>2. /\ count' = [count EXCEPT ![c][o] = @ + n]
      /\ finished' = [finished EXCEPT ![c] = TRUE]
      /\ reports' = [reports EXCEPT ![c] = IF emit /\ ~finished[c] THEN @ + 1 ELSE @]
  BY DEF FinishForced
<1>3. TallyType
  BY DEF TypeOK, TallyType, Outcomes
<1> HIDE DEF n
<1>4. count' \in [Cycles -> [Outcomes -> Nat]]
  BY <1>1, <1>2, <1>3 DEF TallyType
<1>5. Done(c)' = Done(c) + n
  BY <1>1, <1>2, <1>3 DEF TallyType, Done, Outcomes
<1> QED
  BY <1>1, <1>2, <1>3, <1>4, <1>5 DEF TallyType, Done

-----------------------------------------------------------------------------
(* Type correctness.                                                       *)

\* TypeOK by parts.
GateType ==
  /\ activities \subseteq Cycles
  /\ barriers \subseteq Kills
  /\ want \in [Cycles -> SUBSET Keys]
  /\ refused \in [Cycles -> SUBSET Keys]
  /\ phase \in [Cycles -> Gate!Phases]
  /\ cancel_event \in [Cycles -> BOOLEAN]
  /\ cancelled_keys \in [Cycles -> SUBSET Keys]
  /\ inflight \in [Cycles -> SUBSET Keys]
  /\ stage \in [Kills -> Gate!Stages]
  /\ keys \in [Kills -> SUBSET Keys]
  /\ acts \in [Kills -> SUBSET Cycles]
  /\ notified \in [Kills -> SUBSET Cycles]
  /\ waited \in [Kills -> SUBSET Cycles]
  /\ quiesced \in [Kills -> BOOLEAN]

TaskType ==
  /\ context \in Cycles \cup {NoJob}
  /\ launch \in [Cycles -> Launches]
  /\ task \in [Cycles -> [Keys -> Tasks]]
  /\ attempt \in [Cycles -> [Keys -> 0..MaxRetry]]
  /\ signal \in [Cycles -> [Keys -> {"none", "request", "timer"}]]
  /\ leaving \in [Cycles -> SUBSET Keys]

RecType == rec \in [Keys -> Records]

KillType ==
  /\ alive \subseteq Jobs /\ doomed \subseteq Jobs
  /\ step \in [Kills -> {"plan", "bkill", "verify", "mark", "done"}]
  /\ targets \in [Kills -> SUBSET Jobs]
  /\ accepted \in [Kills -> SUBSET Jobs]
  /\ spared \in [Kills -> SUBSET Jobs]
  /\ active \subseteq Kills

\* TypeOK, stated with function sets, splits into the parts the steps disturb
\* separately, in the state and in its successor.
LEMMA TypeParts ==
  /\ TypeOK <=> GateType /\ TaskType /\ TallyType /\ RecType /\ KillType
  /\ TypeOK' <=> GateType' /\ TaskType' /\ TallyType' /\ RecType' /\ KillType'
<1>1. Running \in [Cycles -> SUBSET Keys] /\ Running' \in [Cycles -> SUBSET Keys]
  BY DEF Running
<1>2. TypeOK <=> GateType /\ TaskType /\ TallyType /\ RecType /\ KillType
  BY <1>1, Zenon DEF TypeOK, Gate!TypeOK, GateType, TaskType, TallyType, RecType, KillType,
             Outcomes
<1>3. TypeOK' <=> GateType' /\ TaskType' /\ TallyType' /\ RecType' /\ KillType'
  BY <1>1, Zenon DEF TypeOK, Gate!TypeOK, GateType, TaskType, TallyType, RecType, KillType,
             Outcomes
<1> QED
  BY <1>2, <1>3

\* The steps that touch the variables of the gate keep their types.
LEMMA GateTypeStep == GateType /\ [Next]_vars => GateType'
<1> SUFFICES ASSUME GateType, [Next]_vars PROVE GateType'
  OBVIOUS
<1> USE DEF GateType, Gate!Phases, Gate!Stages, Gate!cycleVars, Gate!killVars
<1>q. ASSUME UNCHANGED gateVars PROVE GateType'
  BY <1>q DEF gateVars
<1>1. ASSUME NEW c \in Cycles, LaunchStep(c) PROVE GateType'
  <2>1. CASE Adopt(c)
    <3>1. Gate!AdoptRefusal(c)
      BY <2>1 DEF Adopt
    <3>2. CASE c \in activities
      BY <3>1, <3>2 DEF Gate!AdoptRefusal
    <3>3. CASE c \notin activities
      BY <3>1, <3>3 DEF Gate!AdoptRefusal
    <3> QED
      BY <3>2, <3>3
  <2>2. CASE Drop(c)
    BY <2>2 DEF Drop
  <2> QED
    BY <1>1, <1>q, <2>1, <2>2
    DEF LaunchStep, CheckStart, CheckEnd, CheckFalse, Reject, LaunchStart,
        FanOut, LaunchFail, ResetRecord, ResetGone
<1>2. ASSUME NEW c \in Cycles, NEW key \in Keys, TaskStep(c, key) PROVE GateType'
  <2>1. CASE Enter(c, key)
    BY <2>1 DEF Enter
  <2>2. CASE Leave(c, key)
    BY <2>2 DEF Leave
  <2> QED
    BY <1>2, <1>q, <2>1, <2>2
    DEF TaskStep, GiveUp, Arm, StartWrapper, WrapperEnds, Succeed,
        FailCancelled, FailRetry, Fail, CountOutcome, Park
<1>3. ASSUME NEW c \in Cycles, NEW key \in Keys, RetryStep(c, key) PROVE GateType'
  BY <1>3, <1>q DEF RetryStep, RetryRequested, Fire
<1>4. ASSUME NEW k \in Kills, KillStep(k) PROVE GateType'
  <2>1. ASSUME NEW c \in Cycles, KillCancel(k, c) PROVE GateType'
    <3>1. Gate!CancelActivity(k, c)
      BY <2>1 DEF KillCancel
    <3>2. CASE k \in WholeKills
      BY <3>1, <3>2 DEF Gate!CancelActivity
    <3>3. CASE k \notin WholeKills
      BY <3>1, <3>3 DEF Gate!CancelActivity
    <3> QED
      BY <3>2, <3>3
  <2>2. ASSUME NEW c \in Cycles, KillWait(k, c) PROVE GateType'
    <3>1. CASE Gate!WaitActivity(k, c)
      BY <3>1 DEF Gate!WaitActivity
    <3>2. CASE Gate!WaitTimeout(k, c)
      BY <3>2 DEF Gate!WaitTimeout
    <3> QED
      BY <2>2, <3>1, <3>2 DEF KillWait
  <2>3. CASE KillQueue(k) \/ KillNotQueued(k) \/ KillAcquire(k) \/ KillRelease(k)
    BY <2>3 DEF KillQueue, KillNotQueued, KillAcquire, KillRelease,
                Gate!Queue, Gate!NotQueued, Gate!Acquire, Gate!Release
  <2> QED
    BY <1>4, <1>q, <2>1, <2>2, <2>3
    DEF KillStep, Plan, Bkill, Verify, Mark, KillFinish
<1>5. CASE Environment
  <2>1. ASSUME NEW c \in Cycles, NEW ks \in SUBSET Keys, Submit(c, ks) PROVE GateType'
    BY <2>1 DEF Submit, Gate!Register, Gate!Blocked
  <2>2. ASSUME NEW c \in Cycles, CancelSubmit(c) PROVE GateType'
    BY <2>2 DEF CancelSubmit, Gate!UserCancel
  <2>3. ASSUME NEW k \in Kills, NEW ks \in SUBSET Keys, KillBegin(k, ks)
        PROVE  GateType'
    BY <2>3 DEF KillBegin, Gate!BarrierUp
  <2> QED
    BY <1>5, <1>q, <2>1, <2>2, <2>3 DEF Environment, Remove, Poll, JobEnds
<1> QED
  BY <1>1, <1>2, <1>3, <1>4, <1>5, <1>q DEF Next, System, vars

\* Setting the task of one key.
LEMMA SetTask ==
  ASSUME task \in [Cycles -> [Keys -> Tasks]], NEW c \in Cycles, NEW key \in Keys,
         NEW t \in Tasks, task' = [task EXCEPT ![c][key] = t]
  PROVE  /\ task' \in [Cycles -> [Keys -> Tasks]]
         /\ task'[c][key] = t
         /\ \A d \in Cycles, l \in Keys :
              d # c \/ l # key => task'[d][l] = task[d][l]
OBVIOUS

\* The stages a task goes through once its cycle is launched.
Attempted == InSubmission \cup Retrying \cup {"queued", "ok", "failed", "dropped"}

\* A step of a pool thread moves its own task and no other, and never out of
\* a final stage.
LEMMA TaskMoves ==
  ASSUME TaskType, NEW c \in Cycles, NEW key \in Keys, TaskStep(c, key)
  PROVE  /\ UNCHANGED <<context, launch, attempt>>
         /\ \/ UNCHANGED <<task, signal>>
            \/ /\ task[c][key] \in Attempted
               /\ \E t \in Attempted \cup {"end"} : task' = [task EXCEPT ![c][key] = t]
         /\ \/ CountOutcome(c, key)
            \/ UNCHANGED tallyVars /\ (UNCHANGED task \/ task'[c][key] # "end")
         /\ signal' \in [Cycles -> [Keys -> {"none", "request", "timer"}]]
         /\ leaving' \in [Cycles -> SUBSET Keys]
<1> USE DEF TaskType, Attempted, InSubmission, Retrying
<1>1. CASE Enter(c, key)
  BY <1>1 DEF Enter
<1>2. CASE GiveUp(c, key)
  BY <1>2 DEF GiveUp
<1>3. CASE Arm(c, key)
  BY <1>3 DEF Arm
<1>4. CASE StartWrapper(c, key)
  BY <1>4 DEF StartWrapper
<1>5. CASE WrapperEnds(c, key)
  BY <1>5 DEF WrapperEnds
<1>6. CASE Succeed(c, key)
  BY <1>6 DEF Succeed
<1>7. CASE FailCancelled(c, key)
  BY <1>7 DEF FailCancelled
<1>8. CASE FailRetry(c, key)
  BY <1>8 DEF FailRetry, CanRetry
<1>9. CASE Fail(c, key)
  BY <1>9 DEF Fail
<1>10. CASE CountOutcome(c, key)
  BY <1>10 DEF CountOutcome
<1>11. CASE Park(c, key)
  BY <1>11 DEF Park
<1>12. CASE Leave(c, key)
  BY <1>12 DEF Leave
<1> QED
  BY <1>1, <1>2, <1>3, <1>4, <1>5, <1>6, <1>7, <1>8, <1>9, <1>10, <1>11, <1>12
  DEF TaskStep

\* The steps of launches, tasks and timers keep the types of their variables.
LEMMA TaskTypeStep ==
  GateType /\ TaskType /\ RetryInv /\ [Next]_vars => TaskType'
<1> SUFFICES ASSUME GateType, TaskType, RetryInv, [Next]_vars PROVE TaskType'
  OBVIOUS
<1> USE DEF TaskType, Launches, Tasks, InSubmission
<1>q. ASSUME UNCHANGED <<context, launch, taskVars>> PROVE TaskType'
  BY <1>q DEF taskVars
<1>a. ASSUME NEW c \in Cycles, NEW ks, AbortRetries(c, ks),
             UNCHANGED <<context, launch, attempt, leaving>>,
             signal' \in [Cycles -> [Keys -> {"none", "request", "timer"}]]
      PROVE  TaskType'
  BY <1>a DEF AbortRetries
<1>1. ASSUME NEW c \in Cycles, LaunchStep(c) PROVE TaskType'
  <2>1. CASE Adopt(c)
    BY <2>1 DEF Adopt, taskVars
  <2>2. CASE CheckStart(c) \/ CheckEnd(c) \/ CheckFalse(c) \/ Reject(c)
    BY <2>2 DEF CheckStart, CheckEnd, CheckFalse, Reject, taskVars
  <2>3. CASE LaunchStart(c)
    BY <2>3 DEF LaunchStart
  <2>4. CASE FanOut(c)
    BY <2>4 DEF FanOut
  <2>5. CASE LaunchFail(c)
    BY <2>5 DEF LaunchFail
  <2>6. CASE Drop(c)
    BY <2>6 DEF Drop, taskVars
  <2>7. ASSUME NEW key \in Keys, ResetRecord(c, key) PROVE TaskType'
    BY <2>7 DEF ResetRecord
  <2>8. ASSUME NEW key \in Keys, ResetGone(c, key) PROVE TaskType'
    BY <2>8 DEF ResetGone
  <2> QED
    BY <1>1, <2>1, <2>2, <2>3, <2>4, <2>5, <2>6, <2>7, <2>8 DEF LaunchStep
<1>2. ASSUME NEW c \in Cycles, NEW key \in Keys, TaskStep(c, key) PROVE TaskType'
  <2>1. ASSUME NEW t \in Attempted \cup {"end"}, task' = [task EXCEPT ![c][key] = t]
        PROVE  task' \in [Cycles -> [Keys -> Tasks]]
    BY <2>1 DEF Attempted, Retrying
  <2> QED
    BY <1>2, <2>1, TaskMoves
<1>3. ASSUME NEW c \in Cycles, NEW key \in Keys, RetryStep(c, key) PROVE TaskType'
  <2>1. CASE RetryRequested(c, key)
    <3>1. signal' \in [Cycles -> [Keys -> {"none", "request", "timer"}]]
      <4>1. \E v \in {"none", "timer"} : signal' = [signal EXCEPT ![c][key] = v]
        BY <2>1 DEF RetryRequested
      <4> QED
        BY <4>1
    <3> QED
      BY <1>a, <2>1, <3>1 DEF RetryRequested
  <2>2. CASE Fire(c, key)
    <3>1. signal' \in [Cycles -> [Keys -> {"none", "request", "timer"}]]
      BY <2>2 DEF Fire
    <3>2. CASE cancel_event[c] \/ task[c][key] # "parked"
      BY <1>a, <2>2, <3>1, <3>2 DEF Fire
    <3>3. CASE ~cancel_event[c] /\ task[c][key] = "parked"
      <4>1. UNCHANGED <<context, launch, leaving>>
        BY <2>2 DEF Fire
      <4>2. task' = [task EXCEPT ![c][key] = "queued"]
        BY <2>2, <3>3 DEF Fire
      <4>3. attempt' = [attempt EXCEPT ![c][key] = @ + 1]
        BY <2>2, <3>3 DEF Fire
      <4>4. attempt[c][key] \in Nat /\ attempt[c][key] + 1 \in 0..MaxRetry
        BY <3>3, SubmitKillAssumption DEF RetryInv, Retrying
      <4>5. attempt' \in [Cycles -> [Keys -> 0..MaxRetry]]
        BY <4>3, <4>4
      <4>6. task' \in [Cycles -> [Keys -> Tasks]]
        BY <4>2
      <4> QED
        BY <3>1, <4>1, <4>5, <4>6
    <3> QED
      BY <3>2, <3>3
  <2> QED
    BY <1>3, <2>1, <2>2 DEF RetryStep
<1>4. ASSUME NEW k \in Kills, KillStep(k) PROVE TaskType'
  <2>1. ASSUME NEW c \in Cycles, KillCancel(k, c) PROVE TaskType'
    BY <1>a, <2>1 DEF KillCancel
  <2>2. CASE ~ \E c \in Cycles : KillCancel(k, c)
    BY <1>4, <1>q, <2>2
    DEF KillStep, KillWait, KillQueue, KillNotQueued, KillAcquire, Plan, Bkill,
        Verify, Mark, KillRelease, KillFinish
  <2> QED
    BY <2>1, <2>2
<1>5. CASE Environment
  <2>1. ASSUME NEW c \in Cycles, NEW ks \in SUBSET Keys, Submit(c, ks) PROVE TaskType'
    BY <2>1 DEF Submit, taskVars
  <2>2. ASSUME NEW c \in Cycles, CancelSubmit(c) PROVE TaskType'
    BY <1>a, <2>2 DEF CancelSubmit
  <2> QED
    BY <1>5, <1>q, <2>1, <2>2 DEF Environment, KillBegin, Remove, Poll, JobEnds
<1> QED
  BY <1>1, <1>2, <1>3, <1>4, <1>5, <1>q DEF Next, System, vars

\* Only an attempt that may be retried is parked, and firing the timer ends
\* the wait.
LEMMA RetryInvStep == TypeOK /\ RetryInv /\ [Next]_vars => RetryInv'
<1> SUFFICES ASSUME GateType, TaskType, RetryInv, [Next]_vars PROVE RetryInv'
  BY TypeParts
<1> USE DEF RetryInv, TaskType, Retrying
<1>q. ASSUME UNCHANGED <<task, attempt>> PROVE RetryInv'
  BY <1>q
<1>a. ASSUME NEW c \in Cycles, NEW ks, AbortRetries(c, ks), UNCHANGED attempt
      PROVE  RetryInv'
  BY <1>a DEF AbortRetries
<1>1. ASSUME NEW c \in Cycles, LaunchStep(c) PROVE RetryInv'
  <2>1. CASE LaunchStart(c)
    BY <2>1 DEF LaunchStart
  <2>2. CASE FanOut(c)
    BY <2>2 DEF FanOut
  <2>3. CASE LaunchFail(c)
    BY <2>3 DEF LaunchFail
  <2>4. ASSUME NEW key \in Keys, ResetRecord(c, key) \/ ResetGone(c, key)
        PROVE  RetryInv'
    <3>1. PICK t \in {"reset", "end"} : task' = [task EXCEPT ![c][key] = t]
      BY <2>4 DEF ResetRecord, ResetGone
    <3>2. UNCHANGED attempt
      BY <2>4 DEF ResetRecord, ResetGone
    <3> QED
      BY <3>1, <3>2
  <2> QED
    BY <1>1, <1>q, <2>1, <2>2, <2>3, <2>4
    DEF LaunchStep, Adopt, CheckStart, CheckEnd, CheckFalse, Reject, Drop, taskVars
<1>2. ASSUME NEW c \in Cycles, NEW key \in Keys, TaskStep(c, key) PROVE RetryInv'
  <2>1. CASE FailRetry(c, key)
    BY <2>1 DEF FailRetry, CanRetry
  <2>2. CASE Park(c, key)
    BY <2>2 DEF Park
  <2>3. CASE Leave(c, key)
    BY <2>3, <1>q DEF Leave
  <2>4. ASSUME NEW t \in Tasks \ Retrying, task' = [task EXCEPT ![c][key] = t],
               UNCHANGED attempt
        PROVE  RetryInv'
    BY <2>4
  <2>5. CASE Enter(c, key)
    BY <2>4, <2>5 DEF Enter, Tasks, InSubmission
  <2>6. CASE GiveUp(c, key)
    BY <2>4, <2>6 DEF GiveUp, Tasks, InSubmission
  <2>7. CASE Arm(c, key)
    BY <2>4, <2>7 DEF Arm, Tasks, InSubmission
  <2>8. CASE StartWrapper(c, key)
    BY <2>4, <2>8 DEF StartWrapper, Tasks, InSubmission
  <2>9. CASE WrapperEnds(c, key)
    BY <2>4, <2>9 DEF WrapperEnds, Tasks, InSubmission
  <2>10. CASE Succeed(c, key)
    BY <2>4, <2>10 DEF Succeed, Tasks, InSubmission
  <2>11. CASE FailCancelled(c, key)
    BY <2>4, <2>11 DEF FailCancelled, Tasks, InSubmission
  <2>12. CASE Fail(c, key)
    BY <2>4, <2>12 DEF Fail, Tasks, InSubmission
  <2>13. CASE CountOutcome(c, key)
    BY <2>4, <2>13 DEF CountOutcome, Tasks, InSubmission
  <2> QED
    BY <1>2, <2>1, <2>2, <2>3, <2>5, <2>6, <2>7, <2>8, <2>9, <2>10, <2>11,
       <2>12, <2>13 DEF TaskStep
<1>3. ASSUME NEW c \in Cycles, NEW key \in Keys, RetryStep(c, key) PROVE RetryInv'
  <2>1. CASE RetryRequested(c, key)
    BY <1>a, <1>q, <2>1 DEF RetryRequested
  <2>2. CASE Fire(c, key)
    <3>1. CASE cancel_event[c] \/ task[c][key] # "parked"
      BY <1>a, <2>2, <3>1 DEF Fire
    <3>2. CASE ~cancel_event[c] /\ task[c][key] = "parked"
      <4>1. /\ task' = [task EXCEPT ![c][key] = "queued"]
            /\ attempt' = [attempt EXCEPT ![c][key] = @ + 1]
        BY <2>2, <3>2 DEF Fire
      <4> QED
        BY <4>1
    <3> QED
      BY <3>1, <3>2
  <2> QED
    BY <1>3, <2>1, <2>2 DEF RetryStep
<1>4. ASSUME NEW k \in Kills, KillStep(k) PROVE RetryInv'
  <2>1. ASSUME NEW c \in Cycles, KillCancel(k, c) PROVE RetryInv'
    BY <1>a, <2>1 DEF KillCancel
  <2> QED
    BY <1>4, <1>q, <2>1
    DEF KillStep, KillWait, KillQueue, KillNotQueued, KillAcquire, Plan, Bkill,
        Verify, Mark, KillRelease, KillFinish, taskVars
<1>5. CASE Environment
  <2>1. ASSUME NEW c \in Cycles, CancelSubmit(c) PROVE RetryInv'
    BY <1>a, <2>1 DEF CancelSubmit
  <2> QED
    BY <1>5, <1>q, <2>1
    DEF Environment, Submit, KillBegin, Remove, Poll, JobEnds, taskVars
<1> QED
  BY <1>1, <1>2, <1>3, <1>4, <1>5, <1>q DEF Next, System, vars, taskVars

\* A retry is parked together with its request, the request becomes its timer,
\* and whoever takes the one away ends the wait of the other.
LEMMA ParkInvStep == TypeOK /\ ParkInv /\ [Next]_vars => ParkInv'
<1> SUFFICES ASSUME GateType, TaskType, ParkInv, [Next]_vars PROVE ParkInv'
  BY TypeParts
<1> USE DEF ParkInv, TaskType
<1>q. ASSUME UNCHANGED <<task, signal>> PROVE ParkInv'
  BY <1>q
<1>a. ASSUME NEW c \in Cycles, NEW ks, AbortRetries(c, ks), UNCHANGED signal
      PROVE  ParkInv'
  BY <1>a DEF AbortRetries
<1>1. ASSUME NEW c \in Cycles, LaunchStep(c) PROVE ParkInv'
  <2>1. CASE LaunchStart(c)
    BY <2>1 DEF LaunchStart
  <2>2. CASE FanOut(c)
    BY <2>2 DEF FanOut
  <2>3. CASE LaunchFail(c)
    BY <2>3 DEF LaunchFail
  <2>4. ASSUME NEW key \in Keys, ResetRecord(c, key) \/ ResetGone(c, key)
        PROVE  ParkInv'
    <3>1. PICK t \in {"reset", "end"} : task' = [task EXCEPT ![c][key] = t]
      BY <2>4 DEF ResetRecord, ResetGone
    <3>2. UNCHANGED signal
      BY <2>4 DEF ResetRecord, ResetGone
    <3> QED
      BY <3>1, <3>2
  <2> QED
    BY <1>1, <1>q, <2>1, <2>2, <2>3, <2>4
    DEF LaunchStep, Adopt, CheckStart, CheckEnd, CheckFalse, Reject, Drop, taskVars
<1>2. ASSUME NEW c \in Cycles, NEW key \in Keys, TaskStep(c, key) PROVE ParkInv'
  <2>1. CASE FailRetry(c, key)
    BY <2>1 DEF FailRetry
  <2>2. CASE Park(c, key)
    BY <2>2 DEF Park
  <2>3. CASE Leave(c, key)
    BY <2>3, <1>q DEF Leave
  <2>4. ASSUME NEW t \in Tasks \ {"parked"}, task' = [task EXCEPT ![c][key] = t],
               UNCHANGED signal
        PROVE  ParkInv'
    BY <2>4
  <2>5. CASE Enter(c, key)
    BY <2>4, <2>5 DEF Enter, Tasks, InSubmission
  <2>6. CASE GiveUp(c, key)
    BY <2>4, <2>6 DEF GiveUp, Tasks, InSubmission
  <2>7. CASE Arm(c, key)
    BY <2>4, <2>7 DEF Arm, Tasks, InSubmission
  <2>8. CASE StartWrapper(c, key)
    BY <2>4, <2>8 DEF StartWrapper, Tasks, InSubmission
  <2>9. CASE WrapperEnds(c, key)
    BY <2>4, <2>9 DEF WrapperEnds, Tasks, InSubmission
  <2>10. CASE Succeed(c, key)
    BY <2>4, <2>10 DEF Succeed, Tasks, InSubmission
  <2>11. CASE FailCancelled(c, key)
    BY <2>4, <2>11 DEF FailCancelled, Tasks, InSubmission
  <2>12. CASE Fail(c, key)
    BY <2>4, <2>12 DEF Fail, Tasks, InSubmission
  <2>13. CASE CountOutcome(c, key)
    BY <2>4, <2>13 DEF CountOutcome, Tasks, InSubmission
  <2> QED
    BY <1>2, <2>1, <2>2, <2>3, <2>5, <2>6, <2>7, <2>8, <2>9, <2>10, <2>11,
       <2>12, <2>13 DEF TaskStep
<1>3. ASSUME NEW c \in Cycles, NEW key \in Keys, RetryStep(c, key) PROVE ParkInv'
  <2>1. ASSUME AbortRetries(c, {key}), signal' = [signal EXCEPT ![c][key] = "none"]
        PROVE  ParkInv'
    BY <2>1 DEF AbortRetries
  <2>2. CASE RetryRequested(c, key)
    <3>1. CASE cancel_event[c]
      BY <2>1, <2>2, <3>1 DEF RetryRequested
    <3>2. CASE ~cancel_event[c]
      <4>1. /\ task' = task
            /\ signal' = [signal EXCEPT ![c][key] =
                             IF task[c][key] = "parked" THEN "timer" ELSE "none"]
        BY <2>2, <3>2 DEF RetryRequested
      <4> QED
        BY <4>1
    <3> QED
      BY <3>1, <3>2
  <2>3. CASE Fire(c, key)
    <3>1. CASE cancel_event[c] \/ task[c][key] # "parked"
      BY <2>1, <2>3, <3>1 DEF Fire
    <3>2. CASE ~cancel_event[c] /\ task[c][key] = "parked"
      BY <2>3, <3>2 DEF Fire
    <3> QED
      BY <3>1, <3>2
  <2> QED
    BY <1>3, <2>2, <2>3 DEF RetryStep
<1>4. ASSUME NEW k \in Kills, KillStep(k) PROVE ParkInv'
  <2>1. ASSUME NEW c \in Cycles, KillCancel(k, c) PROVE ParkInv'
    BY <1>a, <2>1 DEF KillCancel
  <2> QED
    BY <1>4, <1>q, <2>1
    DEF KillStep, KillWait, KillQueue, KillNotQueued, KillAcquire, Plan, Bkill,
        Verify, Mark, KillRelease, KillFinish, taskVars
<1>5. CASE Environment
  <2>1. ASSUME NEW c \in Cycles, CancelSubmit(c) PROVE ParkInv'
    BY <1>a, <2>1 DEF CancelSubmit
  <2> QED
    BY <1>5, <1>q, <2>1
    DEF Environment, Submit, KillBegin, Remove, Poll, JobEnds, taskVars
<1> QED
  BY <1>1, <1>2, <1>3, <1>4, <1>5, <1>q DEF Next, System, vars, taskVars

-----------------------------------------------------------------------------
(* Records.                                                                *)

\* What becomes of a record that is given up.
LEMMA CancelledRecord ==
  ASSUME NEW r \in Records
  PROVE  /\ Cancelled(r) \in Records /\ Cancelled(r).id = r.id
         /\ Cancelled(r).state =
              IF r.state \in {"SUBMITTING", "RETRY_WAIT"} THEN "CANCELLED" ELSE r.state
         /\ Cancelled(r).killed = IF r.state \in {"SUBMITTING", "RETRY_WAIT"}
                                  THEN TRUE ELSE r.killed
<1>1. CASE r.state \in {"SUBMITTING", "RETRY_WAIT"}
  BY <1>1 DEF Cancelled, Records, States, Inactive
<1>2. CASE r.state \notin {"SUBMITTING", "RETRY_WAIT"}
  BY <1>2 DEF Cancelled
<1> QED
  BY <1>1, <1>2

\* Put writes one record, unless it was removed.
LEMMA PutRecord ==
  ASSUME RecType, NEW key \in Keys, NEW r \in Records, Put(key, r)
  PROVE  /\ RecType'
         /\ rec'[key] = IF rec[key].state = "GONE" THEN rec[key] ELSE r
         /\ \A l \in Keys : l # key => rec'[l] = rec[l]
BY DEF RecType, Put

\* What a query may change.
LEMMA ObservedRecord ==
  ASSUME RecType, NEW key \in Keys
  PROVE  /\ Observed(key) \in Records
         /\ Observed(key).id = rec[key].id /\ Observed(key).killed = rec[key].killed
         /\ \/ Observed(key) = rec[key]
            \/ /\ rec[key].state = "PEND" /\ Observed(key).state = "DONE"
               /\ <<rec[key].id, key>> \notin alive
BY DEF RecType, Records, Observed, States, Inactive

\* Whatever is put is a record.
LEMMA RecTypeStep == TypeOK /\ [Next]_vars => RecType'
<1> SUFFICES ASSUME GateType, TaskType, RecType, KillType, [Next]_vars PROVE RecType'
  BY TypeParts
<1>q. ASSUME UNCHANGED rec PROVE RecType'
  BY <1>q DEF RecType
<1>a. ASSUME NEW c \in Cycles, NEW ks, AbortRetries(c, ks) PROVE RecType'
  BY <1>a, CancelledRecord DEF AbortRetries, RecType
<1>r. ASSUME NEW key \in Keys
      PROVE  rec[key] \in Records /\ Cancelled(rec[key]) \in Records
  BY CancelledRecord DEF RecType
<1>s. ASSUME NEW key \in Keys, NEW st \in States
      PROVE  [rec[key] EXCEPT !.state = st] \in Records
  BY DEF RecType, Records
<1>1. ASSUME NEW c \in Cycles, LaunchStep(c) PROVE RecType'
  <2>1. ASSUME NEW key \in Keys, ResetRecord(c, key) PROVE RecType'
    BY <2>1 DEF ResetRecord, RecType, Records, States
  <2>2. CASE LaunchFail(c)
    <3>1. \A key \in Keys : [rec[key] EXCEPT !.state = "SUBMIT_FAILED"] \in Records
      BY <1>s DEF States, Inactive
    <3> QED
      BY <2>2, <3>1 DEF LaunchFail, RecType
  <2> QED
    BY <1>1, <1>q, <2>1, <2>2
    DEF LaunchStep, Adopt, CheckStart, CheckEnd, CheckFalse, Reject, LaunchStart,
        FanOut, Drop, ResetGone
<1>2. ASSUME NEW c \in Cycles, NEW key \in Keys, TaskStep(c, key) PROVE RecType'
  <2>1. CASE GiveUp(c, key)
    BY <2>1, <1>r, PutRecord DEF GiveUp
  <2>2. CASE Arm(c, key)
    BY <2>2, <1>s, PutRecord DEF Arm, States
  <2>3. CASE Succeed(c, key)
    <3>1. [rec[key] EXCEPT !.state = "PEND", !.id = c] \in Records
      BY DEF RecType, Records, States
    <3> QED
      BY <2>3, <3>1, PutRecord DEF Succeed
  <2>4. CASE FailCancelled(c, key)
    BY <2>4, <1>r, PutRecord DEF FailCancelled
  <2>5. CASE FailRetry(c, key)
    BY <2>5, <1>s, PutRecord DEF FailRetry, States
  <2>6. CASE Fail(c, key)
    BY <2>6, <1>r, <1>s, PutRecord DEF Fail, States, Inactive
  <2> QED
    BY <1>2, <1>q, <2>1, <2>2, <2>3, <2>4, <2>5, <2>6
    DEF TaskStep, Enter, StartWrapper, WrapperEnds, CountOutcome, Park, Leave
<1>3. ASSUME NEW c \in Cycles, NEW key \in Keys, RetryStep(c, key) PROVE RecType'
  BY <1>3, <1>a, <1>q DEF RetryStep, RetryRequested, Fire
<1>4. ASSUME NEW k \in Kills, KillStep(k) PROVE RecType'
  <2>1. ASSUME NEW c \in Cycles, KillCancel(k, c) PROVE RecType'
    BY <1>a, <2>1 DEF KillCancel
  <2>2. CASE Verify(k)
    <3>1. \/ UNCHANGED rec
          \/ rec' = [key \in Keys |-> Observed(key)]
      BY <2>2 DEF Verify
    <3> QED
      BY <1>q, <3>1, ObservedRecord DEF RecType
  <2>3. CASE Mark(k)
    <3>1. ASSUME NEW r \in Records, NEW st \in States
          PROVE  [r EXCEPT !.killed = TRUE, !.state = st] \in Records
      BY DEF Records
    <3>2. ASSUME NEW r \in Records, NEW policy
          PROVE  [r EXCEPT !.killed = TRUE,
                    !.state = IF policy = "optimistic" /\ @ = "PEND" THEN "EXIT" ELSE @]
                 \in Records
      <4>1. (IF policy = "optimistic" /\ r.state = "PEND" THEN "EXIT" ELSE r.state) \in States
        BY DEF Records, States, Inactive
      <4> QED
        BY <3>1, <4>1
    <3> QED
      BY <2>3, <3>2 DEF Mark, RecType
  <2> QED
    BY <1>4, <1>q, <2>1, <2>2, <2>3
    DEF KillStep, KillWait, KillQueue, KillNotQueued, KillAcquire, Plan, Bkill,
        KillRelease, KillFinish
<1>5. CASE Environment
  <2>1. ASSUME NEW c \in Cycles, CancelSubmit(c) PROVE RecType'
    BY <1>a, <2>1 DEF CancelSubmit
  <2>2. ASSUME NEW key \in Keys, Remove(key) PROVE RecType'
    BY <2>2 DEF Remove, RecType, Records, States
  <2>3. ASSUME NEW key \in Keys, Poll(key) PROVE RecType'
    BY <2>3, ObservedRecord DEF Poll, RecType
  <2> QED
    BY <1>5, <1>q, <2>1, <2>2, <2>3
    DEF Environment, Submit, KillBegin, JobEnds
<1> QED
  BY <1>1, <1>2, <1>3, <1>4, <1>5, <1>q DEF Next, System, vars

\* The jobs a kill aims at are jobs of the records, and what it has had
\* accepted LSF has accepted.
LEMMA KillTypeStep ==
  TypeOK /\ DoomedInv /\ [Next]_vars => KillType' /\ DoomedInv'
<1> SUFFICES ASSUME GateType, TaskType, RecType, KillType, DoomedInv, [Next]_vars
             PROVE  KillType' /\ DoomedInv'
  BY TypeParts
<1> USE DEF KillType, DoomedInv
<1>q. ASSUME UNCHANGED <<lsfVars, killVars>> PROVE KillType' /\ DoomedInv'
  BY <1>q DEF lsfVars, killVars
<1>1. ASSUME NEW c \in Cycles, LaunchStep(c) PROVE UNCHANGED <<lsfVars, killVars>>
  BY <1>1 DEF LaunchStep, Adopt, CheckStart, CheckEnd, CheckFalse, Reject,
              LaunchStart, FanOut, LaunchFail, Drop, ResetRecord, ResetGone
<1>2. ASSUME NEW c \in Cycles, NEW key \in Keys, TaskStep(c, key)
      PROVE  KillType' /\ DoomedInv'
  <2>1. CASE WrapperEnds(c, key)
    BY <2>1 DEF WrapperEnds, Jobs, killVars
  <2> QED
    BY <1>2, <1>q, <2>1
    DEF TaskStep, Enter, GiveUp, Arm, StartWrapper, Succeed, FailCancelled,
        FailRetry, Fail, CountOutcome, Park, Leave
<1>3. ASSUME NEW c \in Cycles, NEW key \in Keys, RetryStep(c, key)
      PROVE  UNCHANGED <<lsfVars, killVars>>
  BY <1>3 DEF RetryStep, RetryRequested, Fire
<1>4. ASSUME NEW k \in Kills, KillStep(k) PROVE KillType' /\ DoomedInv'
  <2>1. CASE Plan(k)
    <3>1. {<<rec[key].id, key>> : key \in
            {key \in Gate!Scope(k) :
               /\ rec[key].id # NoJob
               /\ k \in WholeKills => rec[key].state = "PEND"}} \in SUBSET Jobs
      BY DEF Gate!Scope, RecType, Records, Jobs, GateType
    <3> QED
      BY <2>1, <3>1 DEF Plan, lsfVars
  <2>2. CASE Bkill(k)
    <3>1. PICK acc \in SUBSET targets[k] :
            /\ accepted' = [accepted EXCEPT ![k] = acc]
            /\ doomed' = doomed \cup acc
            /\ \E v \in BOOLEAN : step' = [step EXCEPT ![k] = IF v THEN "verify" ELSE "mark"]
      BY <2>2 DEF Bkill
    <3>2. UNCHANGED <<alive, targets, spared, active>>
      BY <2>2 DEF Bkill
    <3>3. acc \subseteq Jobs
      OBVIOUS
    <3> QED
      BY <3>1, <3>2, <3>3
  <2>3. CASE Verify(k)
    <3>1. spared' = spared \/ \E s \in SUBSET targets[k] : spared' = [spared EXCEPT ![k] = s]
      BY <2>3 DEF Verify
    <3>2. step' = [step EXCEPT ![k] = "mark"] /\ UNCHANGED <<lsfVars, targets, accepted, active>>
      BY <2>3 DEF Verify
    <3> QED
      BY <3>1, <3>2 DEF lsfVars
  <2>4. CASE Mark(k)
    BY <2>4 DEF Mark, lsfVars
  <2>5. CASE KillRelease(k)
    BY <2>5 DEF KillRelease, lsfVars
  <2>6. CASE KillQueue(k) \/ KillFinish(k)
    BY <2>6 DEF KillQueue, KillFinish, lsfVars
  <2> QED
    BY <1>4, <1>q, <2>1, <2>2, <2>3, <2>4, <2>5, <2>6
    DEF KillStep, KillCancel, KillWait, KillNotQueued, KillAcquire
<1>5. CASE Environment
  <2>1. ASSUME NEW j \in Jobs, JobEnds(j) PROVE KillType' /\ DoomedInv'
    BY <2>1 DEF JobEnds, killVars
  <2> QED
    BY <1>5, <1>q, <2>1 DEF Environment, Submit, CancelSubmit, KillBegin, Remove, Poll
<1> QED
  BY <1>1, <1>2, <1>3, <1>4, <1>5, <1>q DEF Next, System, vars

-----------------------------------------------------------------------------
(* What is given up, and what goes on.                                     *)

\* Giving up the retries of a cycle ends the tasks that were parked, and
\* nothing else happens to any task.
LEMMA AbortMoves ==
  ASSUME TaskType, NEW c \in Cycles, NEW ks, AbortRetries(c, ks)
  PROVE  /\ task' \in [Cycles -> [Keys -> Tasks]]
         /\ \A d \in Cycles, key \in Keys :
              \/ task'[d][key] = task[d][key]
              \/ d = c /\ task[d][key] = "parked" /\ task'[d][key] = "end"
BY DEF TaskType, AbortRetries, Tasks

\* The steps after the launch: no launch, phase or answer of the gate changes,
\* and only tasks move that were started and not over.
Onward ==
  /\ UNCHANGED <<launch, phase, want, refused>>
  /\ \A c \in Cycles : cancelled_keys[c] \subseteq cancelled_keys'[c]
  /\ \A c \in Cycles, key \in Keys :
       \/ task'[c][key] = task[c][key]
       \/ task[c][key] \in Attempted /\ task'[c][key] \in Attempted \cup {"end"}

\* A step of a worker thread, in _SubmitTask.run or its finally, goes onward.
LEMMA TaskOnward ==
  ASSUME GateType, TaskType, NEW c \in Cycles, NEW key \in Keys, TaskStep(c, key)
  PROVE  Onward
<1>1. UNCHANGED <<launch, phase, want, refused, cancelled_keys>>
  BY DEF TaskStep, Enter, GiveUp, Arm, StartWrapper, WrapperEnds, Succeed,
         FailCancelled, FailRetry, Fail, CountOutcome, Park, Leave, gateVars
<1>2. \/ UNCHANGED task
      \/ /\ task[c][key] \in Attempted
         /\ \E t \in Attempted \cup {"end"} : task' = [task EXCEPT ![c][key] = t]
  BY TaskMoves
<1>3. CASE UNCHANGED task
  BY <1>1, <1>3 DEF Onward
<1>4. ASSUME task[c][key] \in Attempted, NEW t \in Attempted \cup {"end"},
             task' = [task EXCEPT ![c][key] = t]
      PROVE  Onward
  <2>1. ASSUME NEW d \in Cycles, NEW l \in Keys
        PROVE  \/ task'[d][l] = task[d][l]
               \/ d = c /\ l = key /\ task'[d][l] = t
    BY <1>4 DEF TaskType
  <2> QED
    BY <1>1, <1>4, <2>1 DEF Onward
<1> QED
  BY <1>2, <1>3, <1>4

\* A step of the main thread on a retry, request or timer, goes onward.
LEMMA RetryOnward ==
  ASSUME GateType, TaskType, NEW c \in Cycles, NEW key \in Keys, RetryStep(c, key)
  PROVE  Onward
<1> USE DEF Attempted, Retrying
<1>1. UNCHANGED <<launch, phase, want, refused, cancelled_keys>>
  BY DEF RetryStep, RetryRequested, Fire, gateVars
<1>2. \/ UNCHANGED task
      \/ \E ks : AbortRetries(c, ks)
      \/ task[c][key] = "parked" /\ task' = [task EXCEPT ![c][key] = "queued"]
  BY DEF RetryStep, RetryRequested, Fire
<1>3. ASSUME NEW ks, AbortRetries(c, ks) PROVE Onward
  BY <1>1, <1>3, AbortMoves DEF Onward
<1> QED
  BY <1>1, <1>2, <1>3 DEF Onward, TaskType

\* A step of a kill goes onward: it adds cancelled keys and aborts parked
\* retries.
LEMMA KillOnward ==
  ASSUME GateType, TaskType, NEW k \in Kills, KillStep(k)
  PROVE  Onward
<1> USE DEF Attempted, Retrying
<1>1. ASSUME NEW c \in Cycles, KillCancel(k, c) PROVE Onward
  <2>1. UNCHANGED <<launch, phase, want, refused>>
    BY <1>1 DEF KillCancel, Gate!CancelActivity
  <2>2. \A d \in Cycles : cancelled_keys[d] \subseteq cancelled_keys'[d]
    BY <1>1 DEF KillCancel, Gate!CancelActivity, GateType
  <2> QED
    BY <1>1, <2>1, <2>2, AbortMoves DEF KillCancel, Onward
<1>2. CASE ~ \E c \in Cycles : KillCancel(k, c)
  <2>1. UNCHANGED <<launch, phase, want, refused, cancelled_keys, task>>
    BY <1>2 DEF KillStep, KillWait, KillQueue, KillNotQueued, KillAcquire, Plan,
         Bkill, Verify, Mark, KillRelease, KillFinish, taskVars, gateVars,
         Gate!WaitActivity, Gate!WaitTimeout, Gate!Queue, Gate!NotQueued,
         Gate!Acquire, Gate!Release, Gate!cycleVars
  <2> QED
    BY <2>1 DEF Onward
<1> QED
  BY <1>1, <1>2

\* What the caller and LSF do, a submit excepted, goes onward.
LEMMA EnvOnward ==
  ASSUME GateType, TaskType, Environment,
         ~ \E c \in Cycles, ks \in SUBSET Keys : Submit(c, ks)
  PROVE  Onward
<1> USE DEF Attempted, Retrying
<1>1. ASSUME NEW c \in Cycles, CancelSubmit(c) PROVE Onward
  <2>1. UNCHANGED <<launch, phase, want, refused, cancelled_keys>>
    BY <1>1 DEF CancelSubmit, Gate!UserCancel
  <2> QED
    BY <1>1, <2>1, AbortMoves DEF CancelSubmit, Onward
<1>2. CASE ~ \E c \in Cycles : CancelSubmit(c)
  <2>1. UNCHANGED <<launch, phase, want, refused, cancelled_keys, task>>
    BY <1>2 DEF Environment, KillBegin, Remove, Poll, JobEnds, taskVars,
                gateVars, Gate!BarrierUp, Gate!cycleVars
  <2> QED
    BY <2>1 DEF Onward
<1> QED
  BY <1>1, <1>2

\* Every step that is not one of a launch or a submit goes onward.
LEMMA OnwardSteps ==
  ASSUME GateType, TaskType, [Next]_vars,
         ~ \E c \in Cycles : LaunchStep(c),
         ~ \E c \in Cycles, ks \in SUBSET Keys : Submit(c, ks)
  PROVE  Onward
<1>1. CASE UNCHANGED vars
  BY <1>1 DEF vars, gateVars, taskVars, Onward
<1> QED
  BY <1>1, TaskOnward, RetryOnward, KillOnward, EnvOnward DEF Next, System

-----------------------------------------------------------------------------
(* The launch.                                                             *)

\* No step takes the tasks of a cycle out of the order of its launch or gives
\* one to a refused key.
LEMMA LaunchInvStep == TypeOK /\ LaunchInv /\ [Next]_vars => LaunchInv'
<1> SUFFICES ASSUME GateType, TaskType, LaunchInv, [Next]_vars PROVE LaunchInv'
  BY TypeParts
<1> USE DEF LaunchInv, Over
<1>1. ASSUME NEW c \in Cycles, LaunchStep(c) PROVE LaunchInv'
  <2> USE DEF GateType, TaskType
  <2>1. CASE Adopt(c)
    <3>1. Gate!AdoptRefusal(c) /\ UNCHANGED task
      BY <2>1 DEF Adopt, taskVars
    <3>2. PICK l \in IF c \in activities THEN {"pre_submit", "start"} ELSE {"reject"} :
            launch' = [launch EXCEPT ![c] = l]
      BY <2>1 DEF Adopt
    <3>3. phase[c] = "registered" /\ phase' = [phase EXCEPT ![c] = "open"]
          /\ UNCHANGED <<want, refused>>
      BY <3>1 DEF Gate!AdoptRefusal
    <3>4. cancelled_keys' = cancelled_keys \/
            cancelled_keys' = [cancelled_keys EXCEPT ![c] = @ \cup refused[c]]
      BY <3>1 DEF Gate!AdoptRefusal
    <3>5. c \in activities => refused[c] \subseteq cancelled_keys'[c]
      BY <3>1 DEF Gate!AdoptRefusal
    <3> QED
      BY <3>1, <3>2, <3>3, <3>4, <3>5
  <2>2. CASE CheckStart(c)
    BY <2>2 DEF CheckStart, gateVars, taskVars
  <2>3. CASE CheckEnd(c)
    BY <2>3 DEF CheckEnd, gateVars, taskVars
  <2>4. CASE CheckFalse(c)
    BY <2>4 DEF CheckFalse, gateVars, taskVars
  <2>5. CASE Reject(c)
    BY <2>5 DEF Reject, gateVars, taskVars
  <2>6. CASE LaunchStart(c)
    BY <2>6 DEF LaunchStart, gateVars
  <2>7. CASE FanOut(c)
    BY <2>7 DEF FanOut, ResetOver, gateVars
  <2>8. CASE LaunchFail(c)
    BY <2>8 DEF LaunchFail, ResetOver, gateVars
  <2>9. CASE Drop(c)
    BY <2>9 DEF Drop, taskVars
  <2>10. ASSUME NEW key \in Keys, ResetRecord(c, key) PROVE LaunchInv'
    BY <2>10 DEF ResetRecord, gateVars
  <2>11. ASSUME NEW key \in Keys, ResetGone(c, key) PROVE LaunchInv'
    BY <2>11 DEF ResetGone, gateVars
  <2> QED
    BY <1>1, <2>1, <2>2, <2>3, <2>4, <2>5, <2>6, <2>7, <2>8, <2>9, <2>10, <2>11
    DEF LaunchStep
<1>2. ASSUME NEW c \in Cycles, NEW ks \in SUBSET Keys, Submit(c, ks) PROVE LaunchInv'
  <2>1. /\ phase[c] = "new" /\ phase' = [phase EXCEPT ![c] = "registered"]
        /\ want' = [want EXCEPT ![c] = ks]
        /\ \E b : refused' = [refused EXCEPT ![c] = b]
        /\ UNCHANGED cancelled_keys
    BY <1>2 DEF Submit, Gate!Register
  <2>2. launch' = [launch EXCEPT ![c] = "registered"] /\ UNCHANGED task
    BY <1>2 DEF Submit, taskVars
  <2> QED
    BY <2>1, <2>2 DEF GateType, TaskType
<1>3. ASSUME Onward PROVE LaunchInv'
  BY <1>3 DEF Onward, Attempted, InSubmission, Retrying
<1> QED
  BY <1>1, <1>2, <1>3, OnwardSteps

-----------------------------------------------------------------------------
(* The counters.                                                           *)

\* Tallying the keys that are newly settled keeps the counters exact.
LEMMA CountMore ==
  ASSUME TypeOK, CountInv, NEW c \in Cycles, NEW o \in Outcomes,
         NEW ks \in SUBSET (want[c] \ Settled(c)), Tally(c, o, Cardinality(ks)),
         want' = want, \A d \in Cycles : launch'[d] = "none" <=> launch[d] = "none",
         Settled(c)' = Settled(c) \cup ks,
         \A d \in Cycles \ {c} : Settled(d)' = Settled(d)
  PROVE  TallyType' /\ CountInv'
<1> DEFINE n == Cardinality(ks)
<1>1. /\ n \in Nat /\ (n = 0 <=> ks = {})
      /\ Cardinality(Settled(c) \cup ks) = Done(c) + n
      /\ Done(c) + n <= Total(c)
      /\ Done(c) + n = Total(c) <=> Settled(c) \cup ks = want[c]
  BY SettleMore
<1>2. TallyType /\ Total(c) \in Nat /\ Done(c) \in Nat
  BY SettledCard, TypeParts
<1>3. /\ TallyType'
      /\ Done(c)' = Done(c) + n
      /\ finished'[c] <=> finished[c] \/ (n > 0 /\ Done(c) + n >= Total(c))
      /\ reports'[c] = IF ~finished[c] /\ finished'[c] THEN reports[c] + 1 ELSE reports[c]
      /\ \A d \in Cycles \ {c} : /\ Done(d)' = Done(d) /\ finished'[d] = finished[d]
                                 /\ reports'[d] = reports[d]
  BY <1>1, <1>2, TallyEffect
<1>4. /\ launch[c] = "none" <=> want[c] = {}
      /\ finished[c] <=> launch[c] # "none" /\ Settled(c) = want[c]
      /\ reports[c] <= IF finished[c] THEN 1 ELSE 0
  BY DEF CountInv
<1>5. finished'[c] <=> launch'[c] # "none" /\ Settled(c)' = want'[c]
  <2>1. CASE ks = {}
    BY <1>1, <1>3, <1>4, <2>1
  <2>2. CASE ks # {}
    BY <1>1, <1>2, <1>3, <1>4, <2>2
  <2> QED
    BY <2>1, <2>2
<1>6. reports'[c] <= IF finished'[c] THEN 1 ELSE 0
  <2>1. reports[c] \in Nat
    BY <1>2 DEF TallyType
  <2> QED
    BY <1>3, <1>4, <2>1
<1>7. Done(c)' = Cardinality(Settled(c)')
  BY <1>1, <1>3
<1>8. \A d \in Cycles \ {c} :
        /\ launch'[d] = "none" <=> want'[d] = {}
        /\ Done(d)' = Cardinality(Settled(d)')
        /\ finished'[d] <=> launch'[d] # "none" /\ Settled(d)' = want'[d]
        /\ reports'[d] <= IF finished'[d] THEN 1 ELSE 0
  BY <1>3 DEF CountInv
<1>9. launch'[c] = "none" <=> want'[c] = {}
  BY <1>4
<1> QED
  BY <1>3, <1>5, <1>6, <1>7, <1>8, <1>9 DEF CountInv

\* A step that settles nothing and counts nothing keeps them exact.
LEMMA CountSame ==
  ASSUME TypeOK, CountInv, UNCHANGED tallyVars,
         want' = want, \A d \in Cycles : launch'[d] = "none" <=> launch[d] = "none",
         \A d \in Cycles : Settled(d)' = Settled(d)
  PROVE  TallyType' /\ CountInv'
<1>1. TallyType'
  BY TypeParts DEF tallyVars, TallyType
<1>2. \A d \in Cycles : Done(d)' = Done(d)
  BY DEF tallyVars, Done
<1> QED
  BY <1>1, <1>2 DEF CountInv, tallyVars

\* What is settled follows from the tasks and the launches.
LEMMA SettledSame ==
  ASSUME UNCHANGED <<want, launch>>, NEW d \in Cycles,
         \A key \in Keys : \/ task'[d][key] = task[d][key]
                           \/ task[d][key] \notin Over /\ task'[d][key] \notin Over,
         want[d] \subseteq Keys
  PROVE  Settled(d)' = Settled(d)
BY DEF Settled, Over

\* Giving up parked retries settles exactly those.
LEMMA CountAbort ==
  ASSUME TypeOK, LaunchInv, CountInv, NEW c \in Cycles, NEW ks, ks \subseteq Keys,
         AbortRetries(c, ks), UNCHANGED <<want, launch>>
  PROVE  TallyType' /\ CountInv'
<1> DEFINE popped == {key \in ks : task[c][key] = "parked"}
<1>t. GateType /\ TaskType
  BY TypeParts
<1>1. popped \in SUBSET (want[c] \ Settled(c))
  BY DEF LaunchInv, Settled
<1>2. Tally(c, "cancelled", Cardinality(popped))
  BY DEF AbortRetries
<1>3. task' = [task EXCEPT ![c] =
                 [key \in Keys |-> IF key \in popped THEN "end" ELSE task[c][key]]]
  BY DEF AbortRetries
<1>4. Settled(c)' = Settled(c) \cup popped
  BY <1>1, <1>3, <1>t DEF Settled, TaskType, GateType
<1>5. \A d \in Cycles \ {c} : Settled(d)' = Settled(d)
  BY <1>3, <1>t DEF Settled, TaskType
<1> QED
  BY <1>1, <1>2, <1>4, <1>5, CountMore DEF Outcomes

\* Every path that ends a unit counts it, once.
LEMMA CountInvStep ==
  TypeOK /\ LaunchInv /\ CountInv /\ [Next]_vars => TallyType' /\ CountInv'
<1> SUFFICES ASSUME TypeOK, LaunchInv, CountInv, [Next]_vars
             PROVE  TallyType' /\ CountInv'
  OBVIOUS
<1>t. GateType /\ TaskType /\ TallyType
  BY TypeParts
<1>o. ASSUME Onward, UNCHANGED tallyVars,
             \A c \in Cycles, key \in Keys :
               task'[c][key] = task[c][key] \/ task'[c][key] # "end"
      PROVE  TallyType' /\ CountInv'
  <2>1. ASSUME NEW d \in Cycles PROVE Settled(d)' = Settled(d)
    <3>1. \A key \in Keys : \/ task'[d][key] = task[d][key]
                            \/ task[d][key] \notin Over /\ task'[d][key] \notin Over
      BY <1>o DEF Onward, Attempted, InSubmission, Retrying, Over
    <3>2. UNCHANGED <<want, launch>> /\ want[d] \subseteq Keys
      BY <1>o, <1>t DEF Onward, GateType
    <3> QED
      BY <3>1, <3>2, SettledSame
  <2> QED
    BY <1>o, <2>1, CountSame DEF Onward
<1>1. ASSUME NEW c \in Cycles, LaunchStep(c) PROVE TallyType' /\ CountInv'
  <2>f. ASSUME NEW o \in Outcomes, NEW emit \in BOOLEAN, FinishForced(c, o, emit),
               UNCHANGED <<gateVars, task>>, launch' = [launch EXCEPT ![c] = "launched"],
               launch[c] \notin {"none", "registered", "resetting", "launched"}
        PROVE  TallyType' /\ CountInv'
    <3>1. want' = want
      BY <2>f DEF gateVars
    <3>2. /\ TallyType' /\ Done(c)' = Total(c) /\ finished'[c]
          /\ reports'[c] <= IF finished[c] THEN reports[c] ELSE reports[c] + 1
          /\ \A d \in Cycles \ {c} : /\ Done(d)' = Done(d) /\ finished'[d] = finished[d]
                                     /\ reports'[d] = reports[d]
      BY <2>f, <3>1, ForcedEffect
    <3>3. \A key \in Keys : task[c][key] = "none"
      BY <2>f DEF LaunchInv
    <3>4. launch'[c] = "launched" /\ \A d \in Cycles \ {c} : launch'[d] = launch[d]
      BY <2>f, <1>t DEF TaskType
    <3>5. Settled(c)' = want[c]
      BY <2>f, <3>1, <3>3, <3>4, <1>t DEF Settled, GateType
    <3>6. \A d \in Cycles \ {c} : Settled(d)' = Settled(d)
      BY <2>f, <3>1, <3>4 DEF Settled
    <3>7. want[c] # {}
      BY <2>f DEF CountInv
    <3>8. reports'[c] <= 1
      BY <3>2, <1>t DEF CountInv, TallyType
    <3> QED
      BY <3>1, <3>2, <3>4, <3>5, <3>6, <3>7, <3>8 DEF CountInv, Total
  <2>u. ASSUME UNCHANGED <<tallyVars, want>>,
               \A d \in Cycles : launch'[d] = "none" <=> launch[d] = "none",
               \A d \in Cycles : Settled(d)' = Settled(d)
        PROVE  TallyType' /\ CountInv'
    BY <2>u, CountSame
  <2>1. CASE Adopt(c)
    <3>1. /\ UNCHANGED <<tallyVars, want, task>> /\ phase[c] = "registered"
          /\ \E l \in {"pre_submit", "start", "reject"} : launch' = [launch EXCEPT ![c] = l]
      BY <2>1 DEF Adopt, taskVars, Gate!AdoptRefusal
    <3> QED
      BY <2>u, <3>1, <1>t DEF Settled, LaunchInv, TaskType
  <2>2. CASE CheckStart(c) \/ CheckEnd(c)
    <3>1. /\ UNCHANGED <<tallyVars, want, task>> /\ launch[c] \in {"pre_submit", "checking"}
          /\ \E l \in {"reject", "checking", "start", "fail"} :
               launch' = [launch EXCEPT ![c] = l]
      BY <2>2 DEF CheckStart, CheckEnd, taskVars, gateVars
    <3> QED
      BY <2>u, <3>1, <1>t DEF Settled, LaunchInv, TaskType
  <2>3. CASE CheckFalse(c)
    BY <2>3, <2>f, SubmitKillAssumption DEF CheckFalse, taskVars, Outcomes
  <2>4. CASE Reject(c)
    BY <2>4, <2>f DEF Reject, taskVars, Outcomes
  <2>5. CASE LaunchStart(c)
    <3>1. /\ UNCHANGED <<tallyVars, want>> /\ launch[c] = "start"
          /\ launch' = [launch EXCEPT ![c] = "resetting"]
          /\ task' = [task EXCEPT ![c] = [key \in Keys |->
               IF key \in want[c] \ cancelled_keys[c] THEN "todo" ELSE task[c][key]]]
      BY <2>5 DEF LaunchStart, gateVars
    <3>2. \A key \in Keys : task[c][key] = "none"
      BY <3>1 DEF LaunchInv
    <3>3. \A key \in Keys : task'[c][key] \in {"none", "todo"}
      BY <3>1, <3>2, <1>t DEF TaskType
    <3>4. launch'[c] = "resetting" /\ \A d \in Cycles \ {c} : launch'[d] = launch[d]
      BY <3>1, <1>t DEF TaskType
    <3>5. Settled(c)' = {} /\ Settled(c) = {}
      BY <3>1, <3>2, <3>3, <3>4, <1>t DEF Settled, GateType
    <3>6. \A d \in Cycles \ {c} : Settled(d)' = Settled(d)
      BY <3>1, <1>t DEF Settled, TaskType, GateType
    <3> QED
      BY <2>u, <3>1, <3>4, <3>5, <3>6
  <2>6. CASE FanOut(c)
    <3> DEFINE skipped == {key \in want[c] : task[c][key] = "none"}
    <3>1. /\ UNCHANGED want /\ launch[c] = "resetting"
          /\ \A key \in Keys : task[c][key] # "todo"
          /\ launch' = [launch EXCEPT ![c] = "launched"]
          /\ Tally(c, "cancelled", Cardinality(skipped))
          /\ task' = [task EXCEPT ![c] =
                [key \in Keys |-> CASE task[c][key] = "reset" -> "queued"
                                    [] task[c][key] # "reset" /\ key \in want[c] -> "end"
                                    [] OTHER -> "none"]]
      BY <2>6 DEF FanOut, ResetOver, gateVars
    <3>2. skipped \in SUBSET (want[c] \ Settled(c))
      BY <3>1 DEF Settled
    <3>3. Settled(c)' = Settled(c) \cup skipped
      BY <3>1, <1>t DEF Settled, LaunchInv, TaskType, GateType
    <3>4. \A d \in Cycles \ {c} : Settled(d)' = Settled(d)
      BY <3>1, <1>t DEF Settled, TaskType, GateType
    <3>5. \A d \in Cycles : launch'[d] = "none" <=> launch[d] = "none"
      BY <3>1, <1>t DEF TaskType
    <3> QED
      BY <3>1, <3>2, <3>3, <3>4, <3>5, CountMore DEF Outcomes
  <2>7. CASE LaunchFail(c)
    <3> DEFINE skipped == {key \in want[c] : task[c][key] = "none"}
               n == Cardinality(skipped)
               m == Total(c) - Done(c) - n
    <3>1. /\ UNCHANGED want /\ launch[c] = "resetting"
          /\ \E key \in Keys : task[c][key] = "reset"
          /\ \A key \in Keys : task[c][key] # "todo"
          /\ launch' = [launch EXCEPT ![c] = "launched"]
          /\ count' = [count EXCEPT ![c]["cancelled"] = @ + n, ![c]["failed"] = @ + m]
          /\ finished' = [finished EXCEPT ![c] = TRUE]
          /\ reports' = [reports EXCEPT ![c] = @ + 1]
          /\ task' = [task EXCEPT ![c] =
                [key \in Keys |-> IF key \in want[c] THEN "end" ELSE task[c][key]]]
      BY <2>7 DEF LaunchFail, ResetOver, gateVars
    <3>2. skipped \in SUBSET (want[c] \ Settled(c))
      BY <3>1 DEF Settled
    <3>3. /\ n \in Nat /\ m \in Nat /\ Done(c) + n + m = Total(c)
          /\ Done(c) \in Nat /\ Total(c) \in Nat
      <4>1. n \in Nat /\ Done(c) + n <= Total(c)
        BY <3>2, SettleMore
      <4>2. Done(c) \in Nat /\ Total(c) \in Nat
        BY SettledCard
      <4> HIDE DEF n, skipped
      <4> QED
        BY <4>1, <4>2
    <3>4. ~finished[c] /\ want[c] # {}
      <4>1. PICK key \in Keys : task[c][key] = "reset"
        BY <3>1
      <4>2. key \in want[c] /\ key \notin Settled(c)
        BY <4>1 DEF LaunchInv, Settled
      <4> QED
        BY <4>2 DEF CountInv
    <3> HIDE DEF n, m, skipped
    <3>5. /\ count' \in [Cycles -> [Outcomes -> Nat]]
          /\ count'[c] = [count[c] EXCEPT !["cancelled"] = @ + n, !["failed"] = @ + m]
          /\ \A d \in Cycles \ {c} : count'[d] = count[d]
      BY <3>1, <3>3, <1>t DEF TallyType, Outcomes
    <3>6. Done(c)' = Total(c) /\ \A d \in Cycles \ {c} : Done(d)' = Done(d)
      <4>1. /\ count[c]["ok"] \in Nat /\ count[c]["failed"] \in Nat
            /\ count[c]["cancelled"] \in Nat
        BY <1>t DEF TallyType, Outcomes
      <4>2. /\ count'[c]["ok"] = count[c]["ok"]
            /\ count'[c]["failed"] = count[c]["failed"] + m
            /\ count'[c]["cancelled"] = count[c]["cancelled"] + n
        BY <3>5, <1>t DEF TallyType, Outcomes
      <4> QED
        BY <3>3, <3>5, <4>1, <4>2 DEF Done
    <3>7. Settled(c)' = want[c] /\ \A d \in Cycles \ {c} : Settled(d)' = Settled(d)
      BY <3>1, <1>t DEF Settled, TaskType, GateType
    <3>8. /\ finished' \in [Cycles -> BOOLEAN] /\ finished'[c]
          /\ \A d \in Cycles \ {c} : finished'[d] = finished[d]
      BY <3>1, <1>t DEF TallyType
    <3>9. /\ reports' \in [Cycles -> Nat] /\ reports'[c] <= 1
          /\ \A d \in Cycles \ {c} : reports'[d] = reports[d]
      BY <3>1, <3>4, <1>t DEF TallyType, CountInv
    <3>10. launch'[c] = "launched" /\ \A d \in Cycles \ {c} : launch'[d] = launch[d]
      BY <3>1, <1>t DEF TaskType
    <3>11. TallyType'
      BY <3>5, <3>8, <3>9 DEF TallyType
    <3> QED
      BY <3>1, <3>4, <3>6, <3>7, <3>8, <3>9, <3>10, <3>11 DEF CountInv, Total
  <2>8. CASE Drop(c)
    BY <2>8, <2>u DEF Drop, taskVars, Settled
  <2>9. ASSUME NEW key \in Keys, ResetRecord(c, key) PROVE TallyType' /\ CountInv'
    <3>1. /\ UNCHANGED <<tallyVars, want, launch>> /\ task[c][key] = "todo"
          /\ task' = [task EXCEPT ![c][key] = "reset"]
      BY <2>9 DEF ResetRecord, gateVars
    <3>2. \A d \in Cycles, l \in Keys :
            \/ task'[d][l] = task[d][l]
            \/ task[d][l] = "todo" /\ task'[d][l] = "reset"
      BY <3>1, <1>t DEF TaskType
    <3>3. \A d \in Cycles : Settled(d)' = Settled(d)
      BY <3>1, <3>2 DEF Settled
    <3> QED
      BY <2>u, <3>1, <3>3
  <2>10. ASSUME NEW key \in Keys, ResetGone(c, key) PROVE TallyType' /\ CountInv'
    <3>1. /\ UNCHANGED <<want, launch>> /\ task[c][key] = "todo"
          /\ task' = [task EXCEPT ![c][key] = "end"]
          /\ Tally(c, "cancelled", 1)
      BY <2>10 DEF ResetGone, gateVars
    <3>2. {key} \in SUBSET (want[c] \ Settled(c)) /\ Cardinality({key}) = 1
      BY <3>1, FS_Singleton DEF Settled, LaunchInv
    <3>3. /\ key \in want[c] /\ task'[c][key] = "end"
          /\ \A l \in Keys \ {key} : task'[c][l] = task[c][l]
          /\ \A d \in Cycles \ {c} : task'[d] = task[d]
      BY <3>1, <1>t DEF LaunchInv, TaskType
    <3>4. Settled(c)' = Settled(c) \cup {key}
      BY <3>1, <3>3, <1>t DEF Settled, GateType
    <3>5. \A d \in Cycles \ {c} : Settled(d)' = Settled(d)
      BY <3>1, <3>3 DEF Settled
    <3> QED
      BY <3>1, <3>2, <3>4, <3>5, CountMore DEF Outcomes
  <2> QED
    BY <1>1, <2>1, <2>2, <2>3, <2>4, <2>5, <2>6, <2>7, <2>8, <2>9, <2>10
    DEF LaunchStep
<1>2. ASSUME NEW c \in Cycles, NEW key \in Keys, TaskStep(c, key)
      PROVE  TallyType' /\ CountInv'
  <2>1. CASE CountOutcome(c, key)
    <3> DEFINE o == IF task[c][key] = "dropped" THEN "cancelled" ELSE task[c][key]
    <3>1. /\ UNCHANGED <<want, launch>> /\ task[c][key] \in {"ok", "failed", "dropped"}
          /\ task' = [task EXCEPT ![c][key] = "end"]
          /\ Tally(c, o, 1) /\ o \in Outcomes
      BY <2>1 DEF CountOutcome, gateVars, Outcomes
    <3> HIDE DEF o
    <3>2. {key} \in SUBSET (want[c] \ Settled(c)) /\ Cardinality({key}) = 1
      <4>1. key \in want[c] /\ key \notin Settled(c)
        BY <3>1 DEF Settled, LaunchInv
      <4>2. Cardinality({key}) = 1
        BY FS_Singleton
      <4> QED
        BY <4>1, <4>2
    <3>3. Settled(c)' = Settled(c) \cup {key}
      BY <3>1, <1>t DEF Settled, LaunchInv, TaskType, GateType
    <3>4. \A d \in Cycles \ {c} : Settled(d)' = Settled(d)
      BY <3>1, <1>t DEF Settled, TaskType, GateType
    <3> QED
      BY <3>1, <3>2, <3>3, <3>4, CountMore
  <2>2. CASE ~CountOutcome(c, key)
    <3>1. Onward
      BY <1>2, <1>t, TaskOnward
    <3>2. UNCHANGED tallyVars /\ (UNCHANGED task \/ task'[c][key] # "end")
      BY <1>2, <1>t, <2>2, TaskMoves
    <3>3. \A d \in Cycles, l \in Keys : d # c \/ l # key => task'[d][l] = task[d][l]
      <4>1. UNCHANGED task \/ \E t : task' = [task EXCEPT ![c][key] = t]
        BY <1>2, <1>t, TaskMoves
      <4> QED
        BY <4>1, <1>t DEF TaskType
    <3> QED
      BY <1>o, <3>1, <3>2, <3>3
  <2> QED
    BY <2>1, <2>2
<1>3. ASSUME NEW c \in Cycles, NEW key \in Keys, RetryStep(c, key)
      PROVE  TallyType' /\ CountInv'
  <2>1. UNCHANGED <<want, launch>> /\ Onward
    BY <1>3, <1>t, RetryOnward DEF RetryStep, RetryRequested, Fire, gateVars
  <2>2. \/ AbortRetries(c, {key})
        \/ UNCHANGED <<task, tallyVars>>
        \/ task' = [task EXCEPT ![c][key] = "queued"] /\ UNCHANGED tallyVars
    BY <1>3 DEF RetryStep, RetryRequested, Fire
  <2>3. CASE AbortRetries(c, {key})
    BY <2>1, <2>3, CountAbort
  <2>4. CASE UNCHANGED <<task, tallyVars>>
    BY <1>o, <2>1, <2>4
  <2>5. CASE task' = [task EXCEPT ![c][key] = "queued"] /\ UNCHANGED tallyVars
    <3>1. \A d \in Cycles, l \in Keys : task'[d][l] = task[d][l] \/ task'[d][l] # "end"
      BY <2>5, <1>t DEF TaskType
    <3> QED
      BY <1>o, <2>1, <2>5, <3>1
  <2> QED
    BY <2>2, <2>3, <2>4, <2>5
<1>4. ASSUME NEW k \in Kills, KillStep(k) PROVE TallyType' /\ CountInv'
  <2>1. ASSUME NEW c \in Cycles, KillCancel(k, c) PROVE TallyType' /\ CountInv'
    <3>1. UNCHANGED <<want, launch>> /\ Gate!Scope(k) \subseteq Keys
      BY <2>1, <1>t DEF KillCancel, Gate!CancelActivity, Gate!Scope, GateType
    <3> QED
      BY <2>1, <3>1, CountAbort DEF KillCancel
  <2>2. CASE ~ \E c \in Cycles : KillCancel(k, c)
    <3>1. UNCHANGED <<task, tallyVars>>
      BY <1>4, <2>2 DEF KillStep, KillWait, KillQueue, KillNotQueued, KillAcquire,
           Plan, Bkill, Verify, Mark, KillRelease, KillFinish, taskVars
    <3> QED
      BY <1>4, <1>o, <1>t, <3>1, KillOnward
  <2> QED
    BY <2>1, <2>2
<1>5. CASE Environment
  <2>1. ASSUME NEW c \in Cycles, NEW ks \in SUBSET Keys, Submit(c, ks)
        PROVE  TallyType' /\ CountInv'
    <3>1. /\ phase[c] = "new" /\ ks # {} /\ want' = [want EXCEPT ![c] = ks]
          /\ launch' = [launch EXCEPT ![c] = "registered"]
          /\ UNCHANGED <<task, tallyVars>>
      BY <2>1 DEF Submit, Gate!Register, taskVars
    <3>2. TallyType' /\ \A d \in Cycles : Done(d)' = Done(d)
      BY <3>1, <1>t DEF tallyVars, TallyType, Done
    <3>3. Settled(c)' = {}
      <4>1. \A key \in Keys : task[c][key] = "none"
        BY <3>1 DEF LaunchInv
      <4>2. want'[c] = ks /\ launch'[c] = "registered"
        BY <3>1, <1>t DEF GateType, TaskType
      <4> QED
        BY <3>1, <4>1, <4>2 DEF Settled
    <3>0. Done(c) = 0 /\ ~finished[c] /\ reports[c] = 0 /\ Cardinality({}) = 0
      <4>1. launch[c] = "none" /\ want[c] = {}
        BY <3>1 DEF LaunchInv, CountInv
      <4>2. Settled(c) = {}
        BY <4>1 DEF Settled
      <4>3. Cardinality({}) = 0
        BY FS_EmptySet
      <4> QED
        <5>1. Done(c) = Cardinality(Settled(c))
          BY DEF CountInv
        <5>2. ~finished[c] /\ reports[c] <= IF finished[c] THEN 1 ELSE 0
          BY <4>1 DEF CountInv
        <5> QED
          BY <4>2, <4>3, <5>1, <5>2, <1>t DEF TallyType
    <3>4. \A d \in Cycles \ {c} : Settled(d)' = Settled(d) /\ want'[d] = want[d]
                                  /\ launch'[d] = launch[d]
      BY <3>1, <1>t DEF Settled, TaskType, GateType
    <3>5. /\ want'[c] # {} /\ launch'[c] # "none" /\ launch[c] = "none"
      BY <3>1, <1>t DEF LaunchInv, TaskType, GateType
    <3> QED
      BY <3>0, <3>1, <3>2, <3>3, <3>4, <3>5 DEF CountInv, tallyVars
  <2>2. ASSUME NEW c \in Cycles, CancelSubmit(c) PROVE TallyType' /\ CountInv'
    BY <2>2, CountAbort DEF CancelSubmit, Gate!UserCancel
  <2>3. CASE ~ (\E c \in Cycles : CancelSubmit(c))
             /\ ~ (\E c \in Cycles, ks \in SUBSET Keys : Submit(c, ks))
    <3>1. UNCHANGED <<task, tallyVars>>
      BY <1>5, <2>3 DEF Environment, KillBegin, Remove, Poll, JobEnds, taskVars
    <3> QED
      BY <1>5, <1>o, <1>t, <2>3, <3>1, EnvOnward
  <2> QED
    BY <2>1, <2>2, <2>3
<1>6. CASE UNCHANGED vars
  <2>1. Onward /\ UNCHANGED <<task, tallyVars>>
    BY <1>6 DEF vars, gateVars, taskVars, Onward
  <2> QED
    BY <1>o, <2>1
<1> QED
  BY <1>1, <1>2, <1>3, <1>4, <1>5, <1>6 DEF Next, System

-----------------------------------------------------------------------------
(* One cycle at a time.                                                    *)

\* Nothing revokes the end of a cycle.
LEMMA FinishedStays ==
  ASSUME TallyType, [Next]_vars, NEW c \in Cycles, finished[c]
  PROVE  finished'[c]
<1>q. ASSUME UNCHANGED finished PROVE finished'[c]
  BY <1>q
<1>t. ASSUME NEW d \in Cycles, NEW o, NEW n, Tally(d, o, n) PROVE finished'[c]
  BY <1>t DEF Tally, TallyType
<1>f. ASSUME NEW d \in Cycles, finished' = [finished EXCEPT ![d] = TRUE] PROVE finished'[c]
  BY <1>f DEF TallyType
<1>1. ASSUME NEW d \in Cycles, LaunchStep(d) PROVE finished'[c]
  BY <1>1, <1>q, <1>t, <1>f
  DEF LaunchStep, Adopt, CheckStart, CheckEnd, CheckFalse, Reject, LaunchStart,
      FanOut, LaunchFail, Drop, ResetRecord, ResetGone, FinishForced, tallyVars
<1>2. ASSUME NEW d \in Cycles, NEW key \in Keys, TaskStep(d, key) PROVE finished'[c]
  BY <1>2, <1>q, <1>t
  DEF TaskStep, Enter, GiveUp, Arm, StartWrapper, WrapperEnds, Succeed,
      FailCancelled, FailRetry, Fail, CountOutcome, Park, Leave, tallyVars
<1>3. ASSUME NEW d \in Cycles, NEW key \in Keys, RetryStep(d, key) PROVE finished'[c]
  BY <1>3, <1>q, <1>t DEF RetryStep, RetryRequested, Fire, AbortRetries, tallyVars
<1>4. ASSUME NEW k \in Kills, KillStep(k) PROVE finished'[c]
  BY <1>4, <1>q, <1>t
  DEF KillStep, KillCancel, KillWait, KillQueue, KillNotQueued, KillAcquire, Plan,
      Bkill, Verify, Mark, KillRelease, KillFinish, AbortRetries, tallyVars
<1>5. CASE Environment
  BY <1>5, <1>q, <1>t
  DEF Environment, Submit, CancelSubmit, KillBegin, Remove, Poll, JobEnds,
      AbortRetries, tallyVars
<1> QED
  BY <1>1, <1>2, <1>3, <1>4, <1>5, <1>q DEF Next, System, vars, tallyVars

\* A launch step leaves the context to the cycle that has it, unless that cycle
\* is finished, and a launch once begun stays begun.
LEMMA LaunchContext ==
  ASSUME GateType, TaskType, LaunchInv, NEW c \in Cycles, LaunchStep(c)
  PROVE  /\ \A d \in Cycles : launch'[d] = "none" <=> launch[d] = "none"
         /\ \/ UNCHANGED <<context, phase>>
            \/ /\ UNCHANGED context
               /\ phase' = [phase EXCEPT ![c] = "open"]
            \/ /\ finished[c] /\ phase' = [phase EXCEPT ![c] = "closed"]
               /\ context' = IF context = c THEN NoJob ELSE context
<1>1. CASE Adopt(c)
  <2>1. phase[c] = "registered" /\ UNCHANGED context /\ phase' = [phase EXCEPT ![c] = "open"]
    BY <1>1 DEF Adopt, Gate!AdoptRefusal
  <2>2. \E l \in {"pre_submit", "start", "reject"} : launch' = [launch EXCEPT ![c] = l]
    BY <1>1 DEF Adopt
  <2> QED
    BY <2>1, <2>2 DEF TaskType, LaunchInv
<1>2. CASE Drop(c)
  BY <1>2 DEF Drop
<1>3. CASE ~Adopt(c) /\ ~Drop(c)
  <2>1. UNCHANGED <<context, phase>>
    BY <1>3 DEF LaunchStep, CheckStart, CheckEnd, CheckFalse, Reject, LaunchStart,
                FanOut, LaunchFail, ResetRecord, ResetGone, gateVars
  <2>2. \/ UNCHANGED launch
        \/ /\ launch[c] # "none"
           /\ \E l \in Launches \ {"none"} : launch' = [launch EXCEPT ![c] = l]
    BY <1>3 DEF LaunchStep, CheckStart, CheckEnd, CheckFalse, Reject, LaunchStart,
                FanOut, LaunchFail, ResetRecord, ResetGone, ResetOver, Launches
  <2>3. \A d \in Cycles : launch'[d] = "none" <=> launch[d] = "none"
    BY <2>2 DEF TaskType
  <2> QED
    BY <2>1, <2>3
<1> QED
  BY <1>1, <1>2, <1>3

\* manager.submit starts no cycle before the last one has finished.
LEMMA OneCycleInvStep ==
  TypeOK /\ LaunchInv /\ OneCycleInv /\ [Next]_vars => OneCycleInv'
<1> SUFFICES ASSUME GateType, TaskType, TallyType, LaunchInv, OneCycleInv, [Next]_vars,
                    NEW c \in Cycles
             PROVE  (/\ launch[c] # "none" /\ ~finished[c] => context = c
                     /\ context = c => launch[c] # "none"
                     /\ phase[c] = "closed" => finished[c])'
  BY TypeParts DEF OneCycleInv
<1>a. /\ launch[c] # "none" /\ ~finished[c] => context = c
      /\ context = c => launch[c] # "none"
      /\ phase[c] = "closed" => finished[c]
      /\ finished[c] => finished'[c]
  BY FinishedStays DEF OneCycleInv
<1>1. ASSUME NEW d \in Cycles, LaunchStep(d)
      PROVE  /\ launch'[c] # "none" /\ ~finished'[c] => context' = c
             /\ context' = c => launch'[c] # "none"
             /\ phase'[c] = "closed" => finished'[c]
  BY <1>a, <1>1, LaunchContext, SubmitKillAssumption DEF GateType
<1>2. ASSUME NEW d \in Cycles, NEW ks \in SUBSET Keys, Submit(d, ks)
      PROVE  /\ launch'[c] # "none" /\ ~finished'[c] => context' = c
             /\ context' = c => launch'[c] # "none"
             /\ phase'[c] = "closed" => finished'[c]
  <2>1. /\ ~SubmitterActive /\ context' = d /\ UNCHANGED finished
        /\ launch' = [launch EXCEPT ![d] = "registered"]
        /\ phase' = [phase EXCEPT ![d] = "registered"]
    BY <1>2 DEF Submit, Gate!Register, tallyVars
  <2>2. launch[c] # "none" => finished[c]
    BY <1>a, <2>1, SubmitKillAssumption DEF SubmitterActive
  <2> QED
    BY <1>a, <2>1, <2>2 DEF GateType, TaskType
<1>3. ASSUME NEW d \in Cycles, NEW key \in Keys, TaskStep(d, key) \/ RetryStep(d, key)
      PROVE  UNCHANGED context
  BY <1>3 DEF TaskStep, Enter, GiveUp, Arm, StartWrapper, WrapperEnds, Succeed,
              FailCancelled, FailRetry, Fail, CountOutcome, Park, Leave,
              RetryStep, RetryRequested, Fire
<1>4. ASSUME NEW k \in Kills, KillStep(k) PROVE UNCHANGED context
  BY <1>4 DEF KillStep, KillCancel, KillWait, KillQueue, KillNotQueued, KillAcquire,
              Plan, Bkill, Verify, Mark, KillRelease, KillFinish
<1>5. ASSUME Environment, ~ \E d \in Cycles, ks \in SUBSET Keys : Submit(d, ks)
      PROVE  UNCHANGED context
  BY <1>5 DEF Environment, CancelSubmit, KillBegin, Remove, Poll, JobEnds
<1>6. ASSUME ~ \E d \in Cycles : LaunchStep(d),
             ~ \E d \in Cycles, ks \in SUBSET Keys : Submit(d, ks)
      PROVE  UNCHANGED <<context, launch, phase>>
  <2>1. UNCHANGED <<launch, phase>>
    BY <1>6, OnwardSteps DEF Onward
  <2> QED
    BY <1>3, <1>4, <1>5, <1>6, <2>1 DEF Next, System, vars
<1> QED
  BY <1>1, <1>2, <1>6, <1>a

\* Whoever does something with a key is the only one: the cycle that is not
\* finished yet.
LEMMA OnlyOne ==
  ASSUME TypeOK, LaunchInv, CountInv, OneCycleInv,
         NEW c \in Cycles, NEW key \in Keys, task[c][key] \notin Over
  PROVE  /\ key \in want[c] /\ ~finished[c] /\ context = c
         /\ phase[c] \notin {"new", "registered", "closed"}
         /\ launch[c] \in {"resetting", "launched"}
         /\ \A d \in Cycles \ {c}, l \in Keys :
              task[d][l] \in Over /\ (l \in want[d] => finished[d])
<1>t. GateType
  BY TypeParts
<1>1. key \in want[c] /\ launch[c] \in {"resetting", "launched"}
  BY DEF LaunchInv, Over
<1>2. ~finished[c]
  BY <1>1 DEF CountInv, Settled, Over
<1>3. context = c
  BY <1>1, <1>2 DEF OneCycleInv
<1>4. \A d \in Cycles \ {c} : launch[d] # "none" => finished[d]
  BY <1>3 DEF OneCycleInv
<1>5. ASSUME NEW d \in Cycles \ {c}, NEW l \in Keys
      PROVE  task[d][l] \in Over /\ (l \in want[d] => finished[d])
  <2>1. CASE launch[d] = "none"
    BY <2>1 DEF LaunchInv, CountInv, Over
  <2>2. CASE launch[d] # "none"
    <3>1. finished[d] /\ Settled(d) = want[d]
      BY <1>4, <2>2 DEF CountInv
    <3>2. task[d][l] = "none" \/ l \in Settled(d)
      BY <3>1 DEF LaunchInv
    <3> QED
      BY <3>1, <3>2 DEF Settled, Over
  <2> QED
    BY <2>1, <2>2
<1>6. phase[c] \notin {"new", "registered", "closed"}
  BY <1>1, <1>2 DEF LaunchInv, OneCycleInv
<1> QED
  BY <1>1, <1>2, <1>3, <1>5, <1>6

-----------------------------------------------------------------------------
(* The records of the keys that are being submitted.                       *)

\* A step of the task of one key that leaves its record as it has to be.
LEMMA RecOne ==
  ASSUME TypeOK, LaunchInv, CountInv, OneCycleInv, RecInv,
         NEW c \in Cycles, NEW key \in Keys, task[c][key] \notin Over,
         NEW t \in Tasks \ {"none", "todo"}, task' = [task EXCEPT ![c][key] = t],
         want' = want, \A d \in Cycles : finished[d] => finished'[d],
         \A l \in Keys \ {key} : rec'[l] = rec[l],
         t \in Moving => Fits(t, rec'[key]),
         rec'[key].state \in {"SUBMITTING", "RETRY_WAIT"} => t \in Moving
  PROVE  RecInv'
<1>1. /\ task'[c][key] = t
      /\ \A d \in Cycles, l \in Keys : d # c \/ l # key => task'[d][l] = task[d][l]
  BY SetTask DEF TypeOK
<1>2. \A d \in Cycles \ {c} : task[d][key] \in Over /\ (key \in want[d] => finished[d])
  BY OnlyOne
<1>3. ASSUME NEW d \in Cycles
      PROVE  /\ task'[d][key] \in Moving => Fits(task'[d][key], rec'[key])
             /\ key \in want'[d] /\ ~finished'[d] /\ task'[d][key] \in {"none", "todo"} =>
                  rec'[key].state \in Inactive \cup {"GONE"}
  <2>1. CASE d = c
    BY <1>1, <2>1
  <2>2. CASE d # c
    <3>1. task'[d][key] \notin Moving
      BY <1>1, <1>2, <2>2 DEF Over, Moving, Retrying, InSubmission
    <3> QED
      BY <1>2, <2>2, <3>1
  <2> QED
    BY <2>1, <2>2
<1>4. rec'[key].state \in {"SUBMITTING", "RETRY_WAIT"} =>
        \E d \in Cycles : task'[d][key] \in Moving
  BY <1>1
<1>5. ASSUME NEW l \in Keys \ {key}
      PROVE  /\ \A d \in Cycles :
                  /\ task'[d][l] \in Moving => Fits(task'[d][l], rec'[l])
                  /\ l \in want'[d] /\ ~finished'[d] /\ task'[d][l] \in {"none", "todo"} =>
                       rec'[l].state \in Inactive \cup {"GONE"}
             /\ rec'[l].state \in {"SUBMITTING", "RETRY_WAIT"} =>
                  \E d \in Cycles : task'[d][l] \in Moving
  <2>1. rec'[l] = rec[l] /\ \A d \in Cycles : task'[d][l] = task[d][l]
    BY <1>1
  <2> QED
    BY <2>1 DEF RecInv
<1> QED
  BY <1>3, <1>4, <1>5 DEF RecInv, Fits

\* Giving up parked retries leaves no record waiting.
LEMMA RecAbort ==
  ASSUME TypeOK, LaunchInv, CountInv, OneCycleInv, RecInv,
         NEW c \in Cycles, NEW ks, AbortRetries(c, ks), want' = want,
         \A d \in Cycles : finished[d] => finished'[d]
  PROVE  RecInv'
<1>t. TaskType /\ RecType
  BY TypeParts
<1> DEFINE popped == {key \in ks : task[c][key] = "parked"}
<1>1. /\ task' = [task EXCEPT ![c] =
                    [key \in Keys |-> IF key \in popped THEN "end" ELSE @[key]]]
      /\ rec' = [key \in Keys |->
                   IF key \in popped /\ rec[key].state = "RETRY_WAIT"
                   THEN Cancelled(rec[key]) ELSE rec[key]]
  BY DEF AbortRetries
<1> SUFFICES ASSUME NEW key \in Keys
             PROVE  /\ \A d \in Cycles :
                         /\ task'[d][key] \in Moving => Fits(task'[d][key], rec'[key])
                         /\ key \in want'[d] /\ ~finished'[d] /\ task'[d][key] \in {"none", "todo"} =>
                                 rec'[key].state \in Inactive \cup {"GONE"}
                    /\ rec'[key].state \in {"SUBMITTING", "RETRY_WAIT"} =>
                         \E d \in Cycles : task'[d][key] \in Moving
  BY DEF RecInv, Fits
<1>2. CASE key \in popped
  <2>1. task[c][key] = "parked" /\ task'[c][key] = "end"
    BY <1>1, <1>2, <1>t DEF TaskType
  <2>2. \A d \in Cycles \ {c} : task'[d][key] \in Over /\ (key \in want[d] => finished[d])
    BY <1>1, <1>t, <2>1, OnlyOne DEF Over, TaskType
  <2>3. Fits("parked", rec[key])
    BY <2>1 DEF RecInv, Moving, Retrying
  <2>4. rec'[key].state \notin {"SUBMITTING", "RETRY_WAIT"}
    <3>1. rec[key] \in Records
      BY <1>t DEF RecType
    <3>2. CASE rec[key].state = "GONE"
      BY <1>1, <3>2
    <3>3. CASE rec[key].state = "RETRY_WAIT"
      BY <1>1, <1>2, <3>1, <3>3, CancelledRecord
    <3> QED
      BY <2>3, <3>2, <3>3 DEF Fits, Retrying
  <2> QED
    BY <2>1, <2>2, <2>4 DEF Over, Moving, Retrying, InSubmission
<1>3. CASE key \notin popped
  <2>1. rec'[key] = rec[key] /\ \A d \in Cycles : task'[d][key] = task[d][key]
    BY <1>1, <1>3, <1>t DEF TaskType
  <2> QED
    BY <2>1 DEF RecInv
<1> QED
  BY <1>2, <1>3

\* What the application, the queries and the kills do to a record disturbs no
\* submission: they remove it, or change one that is on LSF.
LEMMA RecOutside ==
  ASSUME RecInv, UNCHANGED <<task, want, finished>>,
         \A key \in Keys :
           \/ rec'[key] = rec[key]
           \/ rec'[key].state = "GONE"
           \/ rec[key].state = "PEND" /\ rec'[key].state \in {"DONE", "EXIT"}
           \/ rec[key].id # NoJob /\ rec'[key].state = rec[key].state
  PROVE  RecInv'
<1> SUFFICES ASSUME NEW key \in Keys
             PROVE  /\ \A d \in Cycles :
                         /\ task[d][key] \in Moving => Fits(task[d][key], rec'[key])
                         /\ key \in want[d] /\ ~finished[d] /\ task[d][key] \in {"none", "todo"} =>
                                 rec'[key].state \in Inactive \cup {"GONE"}
                    /\ rec'[key].state \in {"SUBMITTING", "RETRY_WAIT"} =>
                         \E d \in Cycles : task[d][key] \in Moving
  BY DEF RecInv, Fits
<1>1. /\ \A d \in Cycles :
           /\ task[d][key] \in Moving => Fits(task[d][key], rec[key])
           /\ key \in want[d] /\ ~finished[d] /\ task[d][key] \in {"none", "todo"} =>
                   rec[key].state \in Inactive \cup {"GONE"}
      /\ rec[key].state \in {"SUBMITTING", "RETRY_WAIT"} =>
           \E d \in Cycles : task[d][key] \in Moving
  BY DEF RecInv
<1>2. CASE rec'[key] = rec[key]
  BY <1>1, <1>2
<1>3. CASE rec'[key].state = "GONE"
  BY <1>3 DEF Fits
<1>4. CASE rec[key].state = "PEND" /\ rec'[key].state \in {"DONE", "EXIT"}
  BY <1>1, <1>4 DEF Fits, Inactive
<1>5. CASE rec[key].id # NoJob /\ rec'[key].state = rec[key].state
  BY <1>1, <1>5 DEF Fits
<1> QED
  BY <1>2, <1>3, <1>4, <1>5

\* A step of a launch keeps the records and the tasks of its keys in line.
LEMMA RecLaunch ==
  ASSUME TypeOK, LaunchInv, CountInv, OneCycleInv, RecInv,
         NEW c \in Cycles, LaunchStep(c), \A d \in Cycles : finished[d] => finished'[d]
  PROVE  RecInv'
<1>t. GateType /\ TaskType /\ RecType
  BY TypeParts
<1>q. ASSUME UNCHANGED <<task, want, rec>> PROVE RecInv'
  BY <1>q DEF RecInv
<1>1. ASSUME NEW key \in Keys, ResetRecord(c, key) PROVE RecInv'
  <2>1. /\ task[c][key] = "todo" /\ task' = [task EXCEPT ![c][key] = "reset"]
        /\ rec' = [rec EXCEPT ![key] = [state |-> "SUBMITTING", id |-> NoJob, killed |-> FALSE]]
        /\ want' = want
    BY <1>1 DEF ResetRecord, gateVars
  <2>2. Fits("reset", rec'[key])
    BY <2>1, <1>t DEF Fits, Retrying, RecType
  <2>3. \A l \in Keys \ {key} : rec'[l] = rec[l]
    BY <2>1, <1>t DEF RecType
  <2> QED
    BY <2>1, <2>2, <2>3, RecOne DEF Over, Moving, Tasks
<1>2. ASSUME NEW key \in Keys, ResetGone(c, key) PROVE RecInv'
  <2>1. /\ task[c][key] = "todo" /\ task' = [task EXCEPT ![c][key] = "end"]
        /\ rec[key].state = "GONE" /\ rec' = rec /\ want' = want
    BY <1>2 DEF ResetGone, gateVars
  <2> QED
    BY <2>1, RecOne DEF Over, Moving, Tasks, InSubmission, Retrying
<1>3. CASE LaunchStart(c)
  <2>1. /\ launch[c] = "start" /\ UNCHANGED <<want, rec, finished>>
        /\ task' = [task EXCEPT ![c] =
                     [key \in Keys |-> IF key \in want[c] \ cancelled_keys[c]
                                       THEN "todo" ELSE @[key]]]
    BY <1>3 DEF LaunchStart, gateVars, tallyVars
  <2>2. \A key \in Keys : task[c][key] = "none" /\ task'[c][key] \in {"none", "todo"}
    <3>1. \A key \in Keys : task[c][key] = "none"
      BY <2>1 DEF LaunchInv
    <3> QED
      BY <2>1, <3>1, <1>t DEF TaskType
  <2>3. \A d \in Cycles \ {c}, key \in Keys : task'[d][key] = task[d][key]
    BY <2>1, <1>t DEF TaskType
  <2>4. \A d \in Cycles, key \in Keys :
          \/ task'[d][key] = task[d][key]
          \/ task[d][key] = "none" /\ task'[d][key] = "todo"
    BY <2>2, <2>3
  <2>5. \A d \in Cycles, key \in Keys :
          /\ task'[d][key] \in Moving <=> task[d][key] \in Moving
          /\ task'[d][key] \in Moving => task'[d][key] = task[d][key]
          /\ task'[d][key] \in {"none", "todo"} => task[d][key] \in {"none", "todo"}
    BY <2>4 DEF Moving, InSubmission, Retrying
  <2> QED
    BY <2>1, <2>5 DEF RecInv, Fits
<1>4. CASE FanOut(c)
  <2>1. /\ launch[c] = "resetting" /\ UNCHANGED <<want, rec>>
        /\ \A key \in Keys : task[c][key] # "todo"
        /\ task' = [task EXCEPT ![c] =
                     [key \in Keys |-> CASE @[key] = "reset" -> "queued"
                                         [] @[key] # "reset" /\ key \in want[c] -> "end"
                                         [] OTHER -> "none"]]
    BY <1>4 DEF FanOut, ResetOver, gateVars
  <2>2. \A d \in Cycles \ {c}, key \in Keys : task'[d][key] = task[d][key]
    BY <2>1, <1>t DEF TaskType
  <2>3. \A key \in Keys :
          \/ task[c][key] = "reset" /\ task'[c][key] = "queued"
          \/ /\ task[c][key] \in {"none", "end"}
             /\ IF key \in want[c] THEN task'[c][key] = "end" ELSE task'[c][key] = "none"
    <3>1. \A key \in Keys : task[c][key] \in {"none", "reset", "end"}
      BY <2>1 DEF LaunchInv
    <3>2. \A key \in Keys :
            task'[c][key] = CASE task[c][key] = "reset" -> "queued"
                              [] task[c][key] # "reset" /\ key \in want[c] -> "end"
                              [] OTHER -> "none"
      BY <2>1, <1>t DEF TaskType
    <3> QED
      BY <3>1, <3>2
  <2> SUFFICES ASSUME NEW key \in Keys
               PROVE  /\ \A d \in Cycles :
                           /\ task'[d][key] \in Moving => Fits(task'[d][key], rec[key])
                           /\ key \in want[d] /\ ~finished'[d] /\ task'[d][key] \in {"none", "todo"} =>
                                rec[key].state \in Inactive \cup {"GONE"}
                      /\ rec[key].state \in {"SUBMITTING", "RETRY_WAIT"} =>
                           \E d \in Cycles : task'[d][key] \in Moving
    BY <2>1 DEF RecInv, Fits
  <2>4. /\ task'[c][key] \in Moving => Fits(task'[c][key], rec[key])
        /\ key \in want[c] => task'[c][key] \notin {"none", "todo"}
        /\ task[c][key] \in Moving => task'[c][key] \in Moving
    BY <2>3 DEF RecInv, Fits, Moving, InSubmission, Retrying
  <2>5. \A d \in Cycles \ {c} :
          /\ task'[d][key] \in Moving => Fits(task'[d][key], rec[key])
          /\ key \in want[d] /\ ~finished'[d] /\ task'[d][key] \in {"none", "todo"} =>
               rec[key].state \in Inactive \cup {"GONE"}
    BY <2>2 DEF RecInv
  <2>6. rec[key].state \in {"SUBMITTING", "RETRY_WAIT"} =>
           \E d \in Cycles : task'[d][key] \in Moving
    BY <2>2, <2>4 DEF RecInv
  <2> QED
    BY <2>4, <2>5, <2>6
<1>5. CASE LaunchFail(c)
  <2>1. /\ launch[c] = "resetting" /\ UNCHANGED want
        /\ \A key \in Keys : task[c][key] # "todo"
        /\ rec' = [key \in Keys |->
                     IF task[c][key] = "reset" /\ rec[key].state = "SUBMITTING"
                     THEN [rec[key] EXCEPT !.state = "SUBMIT_FAILED"] ELSE rec[key]]
        /\ task' = [task EXCEPT ![c] =
                     [key \in Keys |-> IF key \in want[c] THEN "end" ELSE @[key]]]
    BY <1>5 DEF LaunchFail, ResetOver, gateVars
  <2>2. \A d \in Cycles \ {c}, key \in Keys : task'[d][key] = task[d][key]
    BY <2>1, <1>t DEF TaskType
  <2>3. \A key \in Keys : /\ task[c][key] \in {"none", "reset", "end"}
                          /\ task'[c][key] \in {"none", "end"}
                          /\ key \in want[c] => task'[c][key] = "end"
    <3>1. \A key \in Keys : /\ task[c][key] \in {"none", "reset", "end"}
                            /\ task[c][key] # "none" => key \in want[c]
      BY <2>1 DEF LaunchInv
    <3> QED
      BY <2>1, <3>1, <1>t DEF TaskType
  <2> SUFFICES ASSUME NEW key \in Keys
               PROVE  /\ \A d \in Cycles :
                           /\ task'[d][key] \in Moving => Fits(task'[d][key], rec'[key])
                           /\ key \in want[d] /\ ~finished'[d] /\ task'[d][key] \in {"none", "todo"} =>
                                rec'[key].state \in Inactive \cup {"GONE"}
                      /\ rec'[key].state \in {"SUBMITTING", "RETRY_WAIT"} =>
                           \E d \in Cycles : task'[d][key] \in Moving
    BY <2>1 DEF RecInv, Fits
  <2>4. CASE task[c][key] = "reset"
    <3>1. \A d \in Cycles \ {c} : task'[d][key] \in Over /\ (key \in want[d] => finished[d])
      BY <2>2, <2>4, OnlyOne DEF Over
    <3>2. Fits("reset", rec[key])
      BY <2>4 DEF RecInv, Moving
    <3>3. rec'[key].state \notin {"SUBMITTING", "RETRY_WAIT"}
      <4>1. rec[key] \in Records
        BY <1>t DEF RecType
      <4>2. CASE rec[key].state = "GONE"
        BY <2>1, <4>2
      <4>3. CASE rec[key].state = "SUBMITTING"
        BY <2>1, <2>4, <4>1, <4>3 DEF Records
      <4> QED
        BY <3>2, <4>2, <4>3 DEF Fits
    <3> QED
      BY <2>3, <3>1, <3>3 DEF Over, Moving, InSubmission, Retrying
  <2>5. CASE task[c][key] # "reset"
    <3>1. rec'[key] = rec[key]
      BY <2>1, <2>5
    <3>2. task[c][key] \notin Moving /\ task'[c][key] \notin Moving
      BY <2>3, <2>5 DEF Moving, InSubmission, Retrying
    <3>3. \A d \in Cycles \ {c} :
            /\ task'[d][key] \in Moving => Fits(task'[d][key], rec[key])
            /\ key \in want[d] /\ ~finished'[d] /\ task'[d][key] \in {"none", "todo"} =>
                 rec[key].state \in Inactive \cup {"GONE"}
      BY <2>2 DEF RecInv
    <3>4. rec[key].state \in {"SUBMITTING", "RETRY_WAIT"} =>
             \E d \in Cycles : task'[d][key] \in Moving
      BY <2>2, <3>2 DEF RecInv
    <3> QED
      BY <2>3, <3>1, <3>2, <3>3, <3>4
  <2> QED
    BY <2>4, <2>5
<1> QED
  BY <1>1, <1>2, <1>3, <1>4, <1>5, <1>q
  DEF LaunchStep, Adopt, CheckStart, CheckEnd, CheckFalse, Reject, Drop,
      taskVars, gateVars, Gate!AdoptRefusal

\* An attempt keeps the record of its key in line with its task.
LEMMA RecTask ==
  ASSUME TypeOK, LaunchInv, CountInv, OneCycleInv, RecInv,
         NEW c \in Cycles, NEW key \in Keys, TaskStep(c, key),
         \A d \in Cycles : finished[d] => finished'[d]
  PROVE  RecInv'
<1>t. GateType /\ TaskType /\ RecType
  BY TypeParts
<1>r. rec[key] \in Records
  BY <1>t DEF RecType
<1>w. want' = want
  BY DEF TaskStep, Enter, GiveUp, Arm, StartWrapper, WrapperEnds, Succeed,
         FailCancelled, FailRetry, Fail, CountOutcome, Park, Leave, gateVars
<1>m. task[c][key] \in Moving => Fits(task[c][key], rec[key])
  BY DEF RecInv
<1>n. ASSUME task[c][key] \in {"ok", "failed", "dropped"}
      PROVE  rec[key].state \notin {"SUBMITTING", "RETRY_WAIT"}
  <2>1. \A d \in Cycles : task[d][key] \notin Moving
    BY <1>n, OnlyOne DEF Over, Moving, InSubmission, Retrying
  <2> QED
    BY <2>1 DEF RecInv
\* The step moves the task to t and writes at most the record of its key.
<1>s. ASSUME task[c][key] \notin Over,
             NEW t \in Tasks \ {"none", "todo"}, task' = [task EXCEPT ![c][key] = t],
             rec' = rec \/ \E r \in Records : Put(key, r),
             t \in Moving => Fits(t, rec'[key]),
             rec'[key].state \in {"SUBMITTING", "RETRY_WAIT"} => t \in Moving
      PROVE  RecInv'
  <2>1. \A l \in Keys \ {key} : rec'[l] = rec[l]
    BY <1>s, <1>t, PutRecord
  <2> QED
    BY <1>s, <1>w, <2>1, RecOne
\* A record that was removed stays so; any other becomes r.
<1>p. ASSUME NEW r \in Records, Put(key, r)
      PROVE  rec'[key] = IF rec[key].state = "GONE" THEN rec[key] ELSE r
  BY <1>p, <1>t, PutRecord
<1> USE DEF Tasks, Moving, InSubmission, Retrying, Over
<1>1. CASE Enter(c, key)
  BY <1>1, <1>m, <1>s DEF Enter, Fits
<1>2. CASE GiveUp(c, key)
  <2>1. /\ task[c][key] \in {"queued", "armed"} /\ Put(key, Cancelled(rec[key]))
        /\ task' = [task EXCEPT ![c][key] = "dropped"]
    BY <1>2 DEF GiveUp
  <2>2. /\ Cancelled(rec[key]) \in Records
        /\ Cancelled(rec[key]).state \notin {"SUBMITTING", "RETRY_WAIT"}
    BY <1>r, CancelledRecord
  <2>3. rec'[key].state \notin {"SUBMITTING", "RETRY_WAIT"}
    BY <2>1, <2>2, <1>p
  <2> QED
    BY <1>s, <2>1, <2>2, <2>3
<1>3. CASE Arm(c, key)
  <2> DEFINE r == [rec[key] EXCEPT !.state = "SUBMITTING"]
  <2>1. /\ task[c][key] = "entered" /\ Put(key, r)
        /\ task' = [task EXCEPT ![c][key] = IF rec[key].state = "GONE" THEN "dropped" ELSE "armed"]
    BY <1>3 DEF Arm
  <2>2. r \in Records /\ r.state = "SUBMITTING" /\ r.id = rec[key].id /\ r.killed = rec[key].killed
    BY <1>r DEF Records, States
  <2> HIDE DEF r
  <2>3. CASE rec[key].state = "GONE"
    <3>1. rec'[key].state = "GONE" /\ task' = [task EXCEPT ![c][key] = "dropped"]
      BY <2>1, <2>2, <2>3, <1>p
    <3> QED
      BY <1>s, <2>1, <2>2, <3>1
  <2>4. CASE rec[key].state # "GONE"
    <3>1. rec'[key] = r /\ task' = [task EXCEPT ![c][key] = "armed"]
      BY <2>1, <2>2, <2>4, <1>p
    <3>2. Fits("armed", r)
      BY <1>m, <2>1, <2>2, <2>4 DEF Fits
    <3> QED
      BY <1>s, <2>1, <2>2, <3>1, <3>2
  <2> QED
    BY <2>3, <2>4
<1>4. CASE StartWrapper(c, key)
  BY <1>4, <1>m, <1>s DEF StartWrapper, Fits
<1>5. CASE WrapperEnds(c, key)
  <2>1. task[c][key] = "wrapper" /\ rec' = rec
    BY <1>5 DEF WrapperEnds
  <2>2. PICK t \in {"accepted", "rejected", "fatal", "crashed"} :
          task' = [task EXCEPT ![c][key] = t]
    BY <1>5 DEF WrapperEnds
  <2>3. Fits(t, rec[key])
    BY <1>m, <2>1 DEF Fits
  <2> QED
    BY <1>s, <2>1, <2>2, <2>3
<1>6. CASE Succeed(c, key)
  <2> DEFINE r == [rec[key] EXCEPT !.state = "PEND", !.id = c]
  <2>1. task[c][key] = "accepted" /\ Put(key, r)
    BY <1>6 DEF Succeed
  <2>2. PICK t \in {"dropped", "ok"} : task' = [task EXCEPT ![c][key] = t]
    BY <1>6 DEF Succeed
  <2>3. r \in Records /\ r.state = "PEND"
    BY <1>r DEF Records, States
  <2> HIDE DEF r
  <2>4. rec'[key].state \notin {"SUBMITTING", "RETRY_WAIT"}
    BY <1>p, <2>1, <2>3
  <2> QED
    BY <1>s, <2>1, <2>2, <2>3, <2>4
<1>7. CASE FailCancelled(c, key)
  <2>1. /\ task[c][key] \in {"rejected", "fatal"} /\ Put(key, Cancelled(rec[key]))
        /\ task' = [task EXCEPT ![c][key] = "dropped"]
    BY <1>7 DEF FailCancelled
  <2>2. /\ Cancelled(rec[key]) \in Records
        /\ Cancelled(rec[key]).state \notin {"SUBMITTING", "RETRY_WAIT"}
    BY <1>r, CancelledRecord
  <2>3. rec'[key].state \notin {"SUBMITTING", "RETRY_WAIT"}
    BY <2>1, <2>2, <1>p
  <2> QED
    BY <1>s, <2>1, <2>2, <2>3
<1>8. CASE FailRetry(c, key)
  <2> DEFINE r == [rec[key] EXCEPT !.state = "RETRY_WAIT"]
  <2>1. /\ task[c][key] = "rejected" /\ Put(key, r)
        /\ task' = [task EXCEPT ![c][key] = IF rec[key].state = "GONE" THEN "dropped" ELSE "retrying"]
    BY <1>8 DEF FailRetry, CanRetry
  <2>2. r \in Records /\ r.state = "RETRY_WAIT" /\ r.id = rec[key].id /\ r.killed = rec[key].killed
    BY <1>r DEF Records, States
  <2> HIDE DEF r
  <2>3. CASE rec[key].state = "GONE"
    <3>1. rec'[key].state = "GONE" /\ task' = [task EXCEPT ![c][key] = "dropped"]
      BY <2>1, <2>2, <2>3, <1>p
    <3> QED
      BY <1>s, <2>1, <2>2, <3>1
  <2>4. CASE rec[key].state # "GONE"
    <3>1. rec'[key] = r /\ task' = [task EXCEPT ![c][key] = "retrying"]
      BY <2>1, <2>2, <2>4, <1>p
    <3>2. Fits("retrying", r)
      BY <1>m, <2>1, <2>2, <2>4 DEF Fits
    <3> QED
      BY <1>s, <2>1, <2>2, <3>1, <3>2
  <2> QED
    BY <2>3, <2>4
<1>9. CASE Fail(c, key)
  <2> DEFINE r == IF task[c][key] = "crashed" /\ rec[key].id # NoJob
                  THEN rec[key] ELSE [rec[key] EXCEPT !.state = "SUBMIT_FAILED"]
  <2>1. task[c][key] \in {"rejected", "fatal", "crashed"} /\ Put(key, r)
    BY <1>9 DEF Fail
  <2>2. PICK t \in {"dropped", "failed"} : task' = [task EXCEPT ![c][key] = t]
    BY <1>9 DEF Fail
  <2>3. r \in Records
    BY <1>r DEF Records, States, Inactive
  <2>4. rec[key].state # "GONE" => r.state = "SUBMIT_FAILED"
    <3>1. rec[key].state # "GONE" => rec[key].id = NoJob
      BY <1>m, <2>1 DEF Fits
    <3> QED
      BY <3>1, <1>r DEF Records
  <2> HIDE DEF r
  <2>5. rec'[key].state \notin {"SUBMITTING", "RETRY_WAIT"}
    BY <1>p, <2>1, <2>3, <2>4
  <2> QED
    BY <1>s, <2>1, <2>2, <2>3, <2>5
<1>10. CASE CountOutcome(c, key)
  BY <1>10, <1>n, <1>s DEF CountOutcome
<1>11. CASE Park(c, key)
  BY <1>11, <1>m, <1>s DEF Park, Fits
<1>12. CASE Leave(c, key)
  BY <1>12, <1>w DEF Leave, RecInv
<1> QED
  BY <1>1, <1>2, <1>3, <1>4, <1>5, <1>6, <1>7, <1>8, <1>9, <1>10, <1>11, <1>12
  DEF TaskStep

\* Mark writes only records that name a job whose bkill was accepted.
LEMMA MarkedRecord ==
  ASSUME RecType, KillType, NEW k \in Kills, Mark(k), NEW key \in Keys
  PROVE  \/ rec'[key] = rec[key]
         \/ /\ rec[key].id # NoJob /\ rec'[key].id = rec[key].id /\ rec'[key].killed
            /\ <<rec[key].id, key>> \in accepted[k]
            /\ \/ rec'[key].state = rec[key].state
               \/ rec[key].state = "PEND" /\ rec'[key].state = "EXIT"
<1>1. PICK policy \in Policies :
        rec' = [l \in Keys |->
          IF <<rec[l].id, l>> \in accepted[k] \ spared[k]
          THEN [rec[l] EXCEPT !.killed = TRUE,
                  !.state = IF policy = "optimistic" /\ @ = "PEND" THEN "EXIT" ELSE @]
          ELSE rec[l]]
  BY DEF Mark
<1>2. rec[key] \in Records
  BY DEF RecType
<1>3. CASE <<rec[key].id, key>> \in accepted[k] \ spared[k]
  <2>1. rec[key].id # NoJob
    BY <1>3, SubmitKillAssumption DEF KillType, Jobs
  <2>2. rec'[key] = [rec[key] EXCEPT !.killed = TRUE,
                       !.state = IF policy = "optimistic" /\ @ = "PEND" THEN "EXIT" ELSE @]
    BY <1>1, <1>3
  <2> QED
    BY <1>2, <1>3, <2>1, <2>2 DEF Records
<1>4. CASE <<rec[key].id, key>> \notin accepted[k] \ spared[k]
  BY <1>1, <1>4
<1> QED
  BY <1>3, <1>4

\* Every step keeps the records and the tasks in line.
LEMMA RecInvStep ==
  TypeOK /\ LaunchInv /\ CountInv /\ OneCycleInv /\ RecInv /\ [Next]_vars => RecInv'
<1> SUFFICES ASSUME TypeOK, LaunchInv, CountInv, OneCycleInv, RecInv, [Next]_vars
             PROVE  RecInv'
  OBVIOUS
<1>t. GateType /\ TaskType /\ TallyType /\ RecType /\ KillType
  BY TypeParts
<1>f. \A d \in Cycles : finished[d] => finished'[d]
  BY <1>t, FinishedStays
<1>q. ASSUME UNCHANGED <<task, want, rec>> PROVE RecInv'
  BY <1>q, <1>f DEF RecInv
<1>1. ASSUME NEW c \in Cycles, LaunchStep(c) PROVE RecInv'
  BY <1>1, <1>f, RecLaunch
<1>2. ASSUME NEW c \in Cycles, NEW key \in Keys, TaskStep(c, key) PROVE RecInv'
  BY <1>2, <1>f, RecTask
<1>3. ASSUME NEW c \in Cycles, NEW key \in Keys, RetryStep(c, key) PROVE RecInv'
  <2>1. want' = want
    BY <1>3 DEF RetryStep, RetryRequested, Fire, gateVars
  <2>2. \/ AbortRetries(c, {key})
        \/ UNCHANGED <<task, rec>>
        \/ /\ task[c][key] = "parked" /\ rec' = rec
           /\ task' = [task EXCEPT ![c][key] = "queued"]
    BY <1>3 DEF RetryStep, RetryRequested, Fire
  <2>3. CASE AbortRetries(c, {key})
    BY <2>1, <2>3, <1>f, RecAbort
  <2>4. CASE /\ task[c][key] = "parked" /\ rec' = rec
             /\ task' = [task EXCEPT ![c][key] = "queued"]
    <3>1. Fits("queued", rec'[key])
      BY <2>4 DEF RecInv, Fits, Moving, Retrying
    <3> QED
      BY <2>1, <2>4, <1>f, <3>1, RecOne DEF Over, Moving, Tasks
  <2> QED
    BY <1>q, <2>1, <2>2, <2>3, <2>4
<1>4. ASSUME NEW k \in Kills, KillStep(k) PROVE RecInv'
  <2>1. ASSUME NEW c \in Cycles, KillCancel(k, c) PROVE RecInv'
    BY <2>1, <1>f, RecAbort DEF KillCancel, Gate!CancelActivity
  <2>2. CASE Verify(k)
    <3>1. /\ UNCHANGED <<task, want, finished>>
          /\ rec' = rec \/ rec' = [key \in Keys |-> Observed(key)]
      BY <2>2 DEF Verify, gateVars, taskVars, tallyVars
    <3>2. \A key \in Keys : \/ rec'[key] = rec[key]
                            \/ rec[key].state = "PEND" /\ rec'[key].state = "DONE"
      BY <3>1, <1>t, ObservedRecord
    <3> QED
      BY <3>1, <3>2, RecOutside
  <2>3. CASE Mark(k)
    <3>1. UNCHANGED <<task, want, finished>>
      BY <2>3 DEF Mark, gateVars, taskVars, tallyVars
    <3> QED
      BY <2>3, <3>1, <1>t, MarkedRecord, RecOutside
  <2> QED
    BY <1>4, <1>q, <2>1, <2>2, <2>3
    DEF KillStep, KillWait, KillQueue, KillNotQueued, KillAcquire, Plan, Bkill,
        KillRelease, KillFinish, Gate!WaitActivity, Gate!WaitTimeout, Gate!Queue,
        Gate!NotQueued, Gate!Acquire, Gate!Release, Gate!cycleVars, gateVars, taskVars
<1>5. CASE Environment
  <2>1. ASSUME NEW c \in Cycles, NEW ks \in SUBSET Keys, Submit(c, ks) PROVE RecInv'
    <3>1. /\ UNCHANGED <<task, rec>> /\ want' = [want EXCEPT ![c] = ks]
          /\ \A key \in ks : rec[key].state \in Inactive
      BY <2>1 DEF Submit, Gate!Register, taskVars
    <3>2. \A d \in Cycles, key \in Keys : key \in want'[d] =>
            key \in want[d] \/ rec[key].state \in Inactive
      BY <3>1, <1>t DEF GateType
    <3>3. \A d \in Cycles, key \in Keys :
            key \in want'[d] /\ ~finished'[d] /\ task[d][key] \in {"none", "todo"} =>
              rec[key].state \in Inactive \cup {"GONE"}
      BY <3>2, <1>f DEF RecInv
    <3> QED
      BY <3>1, <3>3 DEF RecInv
  <2>2. ASSUME NEW c \in Cycles, CancelSubmit(c) PROVE RecInv'
    BY <2>2, <1>f, RecAbort DEF CancelSubmit, Gate!UserCancel
  <2>3. ASSUME NEW key \in Keys, Remove(key) PROVE RecInv'
    <3>1. /\ UNCHANGED <<task, want, finished>>
          /\ rec' = [rec EXCEPT ![key] = [state |-> "GONE", id |-> NoJob, killed |-> FALSE]]
      BY <2>3 DEF Remove, gateVars, taskVars, tallyVars
    <3>2. \A l \in Keys : rec'[l] = rec[l] \/ rec'[l].state = "GONE"
      BY <3>1, <1>t DEF RecType
    <3> QED
      BY <3>1, <3>2, RecOutside
  <2>4. ASSUME NEW key \in Keys, Poll(key) PROVE RecInv'
    <3>1. /\ UNCHANGED <<task, want, finished>>
          /\ rec' = [rec EXCEPT ![key] = Observed(key)]
      BY <2>4 DEF Poll, gateVars, taskVars, tallyVars
    <3>2. \A l \in Keys : \/ rec'[l] = rec[l]
                          \/ rec[l].state = "PEND" /\ rec'[l].state = "DONE"
      BY <3>1, <1>t, ObservedRecord DEF RecType
    <3> QED
      BY <3>1, <3>2, RecOutside
  <2> QED
    BY <1>5, <1>q, <2>1, <2>2, <2>3, <2>4
    DEF Environment, KillBegin, JobEnds, Gate!BarrierUp, Gate!cycleVars, gateVars, taskVars
<1> QED
  BY <1>1, <1>2, <1>3, <1>4, <1>5, <1>q DEF Next, System, vars, gateVars, taskVars

-----------------------------------------------------------------------------
(* The invariant, and the properties of the runs that follow from it.      *)

\* Before the first submit every part of the invariant holds.
LEMMA InvInit == Init => Inv
<1> SUFFICES ASSUME Init PROVE Inv
  OBVIOUS
<1> USE DEF Init
<1>1. GateType
  BY DEF GateType, Gate!Init, Gate!Phases, Gate!Stages
<1>2. TaskType
  BY SubmitKillAssumption DEF TaskType, Launches, Tasks
<1>3. TallyType
  BY DEF TallyType, Outcomes
<1>4. RecType /\ KillType
  BY DEF RecType, KillType, Records, States, Inactive
<1>5. TypeOK
  BY <1>1, <1>2, <1>3, <1>4, TypeParts
<1>6. LaunchInv /\ OneCycleInv /\ RetryInv /\ ParkInv
  BY SubmitKillAssumption
  DEF LaunchInv, OneCycleInv, RetryInv, ParkInv, Gate!Init, Over, Retrying
<1>7. CountInv
  <2>1. ASSUME NEW c \in Cycles
        PROVE  /\ launch[c] = "none" <=> want[c] = {}
               /\ Done(c) = 0 /\ Settled(c) = {} /\ ~finished[c]
               /\ launch[c] = "none" /\ reports[c] = 0
    BY DEF Gate!Init, Done, Settled
  <2>2. Cardinality({}) = 0
    BY FS_EmptySet
  <2>3. ASSUME NEW c \in Cycles
        PROVE  /\ Done(c) = Cardinality(Settled(c))
               /\ finished[c] <=> launch[c] # "none" /\ Settled(c) = want[c]
               /\ reports[c] <= IF finished[c] THEN 1 ELSE 0
    <3> HIDE DEF Init
    <3> QED
      BY <2>1, <2>2
  <2> QED
    BY <2>1, <2>3, Zenon DEF CountInv
<1>8. RecInv /\ DoomedInv
  BY DEF RecInv, DoomedInv, Gate!Init, Moving, InSubmission, Retrying, Inactive
<1> QED
  BY <1>5, <1>6, <1>7, <1>8 DEF Inv

\* Every step preserves the invariant: one lemma per part, put together here.
LEMMA InvStep == Inv /\ [Next]_vars => Inv'
<1> SUFFICES ASSUME Inv, [Next]_vars PROVE Inv'
  OBVIOUS
<1>1. /\ TypeOK /\ LaunchInv /\ CountInv /\ OneCycleInv
      /\ RetryInv /\ ParkInv /\ RecInv /\ DoomedInv
  BY DEF Inv
<1>2. GateType /\ TaskType
  BY <1>1, TypeParts
<1>3. GateType' /\ TaskType'
  BY <1>1, <1>2, GateTypeStep, TaskTypeStep
<1>4. TallyType' /\ CountInv'
  BY <1>1, CountInvStep
<1>5. RecType' /\ KillType' /\ DoomedInv'
  BY <1>1, RecTypeStep, KillTypeStep
<1>6. TypeOK'
  BY <1>3, <1>4, <1>5, TypeParts
<1>7. LaunchInv' /\ OneCycleInv' /\ RetryInv' /\ ParkInv' /\ RecInv'
  BY <1>1, LaunchInvStep, OneCycleInvStep, RetryInvStep, ParkInvStep, RecInvStep
<1> QED
  BY <1>4, <1>5, <1>6, <1>7 DEF Inv

\* Whatever launches, attempts, timers, kills, removals and queries do, and in
\* whatever order, tasks, counters and records stay in line.
THEOREM Invariant == Spec => []Inv
BY InvInit, InvStep, PTL DEF Spec

\* Every variable keeps its type; in particular no counter leaves Nat and no
\* attempt exceeds max_retry.
THEOREM TypeCorrect == Spec => []TypeOK
<1>1. Inv => TypeOK
  BY DEF Inv
<1> QED
  BY <1>1, Invariant, PTL

\* _count and _finish_if_done: every unit of every cycle is counted exactly
\* once, by whoever settles it, and the last one finishes the cycle.
THEOREM CountExactHolds == Spec => []CountExact
<1>1. Inv => CountExact
  <2> SUFFICES ASSUME Inv, NEW c \in Cycles
               PROVE  /\ Done(c) <= Total(c)
                      /\ phase[c] # "new" => (finished[c] <=> Done(c) = Total(c))
                      /\ reports[c] <= 1
    BY DEF CountExact
  <2>1. Done(c) <= Total(c) /\ (Done(c) = Total(c) <=> Settled(c) = want[c])
    BY SettledCard DEF Inv
  <2>2. phase[c] # "new" => launch[c] # "none"
    BY DEF Inv, LaunchInv
  <2>3. /\ finished[c] <=> launch[c] # "none" /\ Settled(c) = want[c]
        /\ reports[c] <= IF finished[c] THEN 1 ELSE 0
    BY DEF Inv, CountInv
  <2>4. reports[c] \in Nat
    BY DEF Inv, TypeOK
  <2> QED
    BY <2>1, <2>2, <2>3, <2>4
<1> QED
  BY <1>1, Invariant, PTL

\* submit_finished is the last word: nothing of a finished cycle is still under
\* way, and no row is stuck in SUBMITTING or RETRY_WAIT; and it is not forgotten:
\* until then some key of the cycle goes on, as CycleFinishes needs.
THEOREM FinishedIsSettledHolds == Spec => []FinishedIsSettled
<1>1. Inv => FinishedIsSettled
  <2> SUFFICES ASSUME Inv PROVE FinishedIsSettled
    OBVIOUS
  <2>1. ASSUME NEW c \in Cycles, finished[c], NEW key \in Keys
        PROVE  task[c][key] \in {"none", "end"}
    BY <2>1, OnlyOne DEF Inv, Over
  <2>2. ASSUME NEW key \in Keys, rec[key].state \in {"SUBMITTING", "RETRY_WAIT"}
        PROVE  \E c \in Cycles : key \in want[c] /\ ~finished[c]
    <3>1. PICK c \in Cycles : task[c][key] \in Moving
      BY <2>2 DEF Inv, RecInv
    <3>2. task[c][key] \notin Over
      BY <3>1 DEF Over, Moving, InSubmission, Retrying
    <3> QED
      BY <3>2, OnlyOne DEF Inv
  <2>3. ASSUME NEW c \in Cycles, launch[c] = "launched", ~finished[c]
        PROVE  \E key \in want[c] : GoesOn(c, key)
    <3>1. Settled(c) # want[c] /\ Settled(c) \subseteq want[c]
      BY <2>3, SettledCard DEF Inv, CountInv
    <3>2. PICK key \in want[c] : key \notin Settled(c)
      BY <3>1
    <3>3. key \in Keys
      BY <3>2 DEF Inv, TypeOK, Gate!TypeOK
    <3>4. task[c][key] \in Tasks \ {"none", "end", "todo", "reset"}
      BY <2>3, <3>2, <3>3 DEF Inv, TypeOK, LaunchInv, Settled
    <3>5. task[c][key] = "parked" => signal[c][key] # "none"
      BY <3>3 DEF Inv, ParkInv
    <3> QED
      BY <3>2, <3>4, <3>5 DEF GoesOn, Tasks
  <2> QED
    BY <2>1, <2>2, <2>3 DEF FinishedIsSettled
<1> QED
  BY <1>1, Invariant, PTL

\* "A key caught by the barrier is not even reset" (_reset_records): no cycle
\* ever does anything with a key it was refused.
THEOREM RefusedUntouchedHolds == Spec => []RefusedUntouched
<1>1. Inv => RefusedUntouched
  <2> SUFFICES ASSUME Inv, NEW c \in Cycles, NEW key \in refused[c]
               PROVE  task[c][key] \in {"none", "end"}
    BY DEF RefusedUntouched
  <2>1. key \in Keys
    BY DEF Inv, TypeOK, Gate!TypeOK
  <2> QED
    BY <2>1 DEF Inv, LaunchInv, Over
<1> QED
  BY <1>1, Invariant, PTL

-----------------------------------------------------------------------------
(* What a step may do to a record, and to the jobs on LSF.                 *)

\* The record of a key is left alone, removed, reset by the cycle that is about
\* to submit it, moved on by the task that submits it, given the id of the job
\* LSF has accepted, closed because that job has ended, or marked by a kill.
RecMove(key) ==
  \/ rec'[key] = rec[key]
  \/ rec'[key].state = "GONE" /\ ~rec'[key].killed
  \/ /\ \E c \in Cycles : task[c][key] = "todo"
     /\ rec[key].state # "GONE"
     /\ rec'[key].state = "SUBMITTING" /\ ~rec'[key].killed
  \/ /\ \E c \in Cycles : task[c][key] \in Moving \ {"accepted"}
     /\ rec[key].state # "GONE" /\ rec'[key].id = rec[key].id
     /\ rec'[key].state \notin {"PEND", "EXIT", "GONE"}
  \/ /\ rec[key].state # "GONE" /\ rec'[key].killed = rec[key].killed
     /\ \E c \in Cycles : /\ task[c][key] = "accepted"
                          /\ rec'[key].id = c /\ rec'[key].state = "PEND"
  \/ /\ rec[key].state = "PEND" /\ rec'[key].state = "DONE"
     /\ <<rec[key].id, key>> \notin alive
     /\ rec'[key].id = rec[key].id /\ rec'[key].killed = rec[key].killed
  \/ /\ rec[key].id # NoJob /\ rec'[key].id = rec[key].id /\ rec'[key].killed
     /\ <<rec[key].id, key>> \in doomed
     /\ \/ rec'[key].state = rec[key].state
        \/ rec[key].state = "PEND" /\ rec'[key].state = "EXIT"

\* Giving up a retry moves on only records that wait for it.
LEMMA AbortRecords ==
  ASSUME Inv, NEW c \in Cycles, NEW ks, AbortRetries(c, ks), NEW key \in Keys
  PROVE  RecMove(key)
<1> DEFINE popped == {l \in ks : task[c][l] = "parked"}
<1>1. rec' = [l \in Keys |-> IF l \in popped /\ rec[l].state = "RETRY_WAIT"
                             THEN Cancelled(rec[l]) ELSE rec[l]]
  BY DEF AbortRetries
<1>2. CASE key \in popped /\ rec[key].state = "RETRY_WAIT"
  <2>1. rec[key] \in Records
    BY DEF Inv, TypeOK
  <2>2. rec'[key] = Cancelled(rec[key])
    BY <1>1, <1>2
  <2>3. rec'[key].id = rec[key].id /\ rec'[key].state = "CANCELLED"
    BY <1>2, <2>1, <2>2, CancelledRecord
  <2> QED
    BY <1>2, <2>3 DEF RecMove, Moving, Retrying
<1>3. CASE ~(key \in popped /\ rec[key].state = "RETRY_WAIT")
  BY <1>1, <1>3 DEF RecMove
<1> QED
  BY <1>2, <1>3

\* An attempt writes the record of its own key.
LEMMA TaskRecords ==
  ASSUME Inv, NEW c \in Cycles, NEW key \in Keys, TaskStep(c, key)
  PROVE  \A l \in Keys : RecMove(l)
<1>t. RecType /\ rec[key] \in Records
  BY DEF Inv, TypeOK, RecType
<1>m. task[c][key] \in Moving => Fits(task[c][key], rec[key])
  BY DEF Inv, RecInv
<1>q. ASSUME UNCHANGED rec PROVE \A l \in Keys : RecMove(l)
  BY <1>q DEF RecMove
<1>p. ASSUME NEW r \in Records, Put(key, r), task[c][key] \in Moving \ {"accepted"},
             r.id = rec[key].id,
             rec[key].state # "GONE" => r.state \notin {"PEND", "EXIT", "GONE"}
      PROVE  \A l \in Keys : RecMove(l)
  <2>1. \A l \in Keys : l # key => rec'[l] = rec[l]
    BY <1>p, <1>t, PutRecord
  <2>2. rec'[key] = IF rec[key].state = "GONE" THEN rec[key] ELSE r
    BY <1>p, <1>t, PutRecord
  <2> QED
    BY <1>p, <2>1, <2>2 DEF RecMove
<1>c. ASSUME task[c][key] \in Moving
      PROVE  /\ Cancelled(rec[key]) \in Records /\ Cancelled(rec[key]).id = rec[key].id
             /\ rec[key].state # "GONE" => Cancelled(rec[key]).state = "CANCELLED"
  BY <1>c, <1>m, <1>t, CancelledRecord DEF Fits
<1> USE DEF Moving, InSubmission, Retrying
<1>1. CASE GiveUp(c, key)
  BY <1>1, <1>c, <1>p DEF GiveUp
<1>2. CASE Arm(c, key)
  <2> DEFINE r == [rec[key] EXCEPT !.state = "SUBMITTING"]
  <2>1. r \in Records /\ r.id = rec[key].id /\ r.state = "SUBMITTING"
    BY <1>t DEF Records, States
  <2>2. task[c][key] = "entered" /\ Put(key, r)
    BY <1>2 DEF Arm
  <2> QED
    BY <1>p, <2>1, <2>2
<1>3. CASE Succeed(c, key)
  <2> DEFINE r == [rec[key] EXCEPT !.state = "PEND", !.id = c]
  <2>1. r \in Records /\ r.id = c /\ r.state = "PEND" /\ r.killed = rec[key].killed
    BY <1>t DEF Records, States
  <2>2. task[c][key] = "accepted" /\ Put(key, r)
    BY <1>3 DEF Succeed
  <2> HIDE DEF r
  <2>3. /\ \A l \in Keys : l # key => rec'[l] = rec[l]
        /\ rec'[key] = IF rec[key].state = "GONE" THEN rec[key] ELSE r
    BY <1>t, <2>1, <2>2, PutRecord
  <2>4. RecMove(key)
    BY <2>1, <2>2, <2>3 DEF RecMove
  <2> QED
    BY <2>3, <2>4 DEF RecMove
<1>4. CASE FailCancelled(c, key)
  BY <1>4, <1>c, <1>p DEF FailCancelled
<1>5. CASE FailRetry(c, key)
  <2> DEFINE r == [rec[key] EXCEPT !.state = "RETRY_WAIT"]
  <2>1. r \in Records /\ r.id = rec[key].id /\ r.state = "RETRY_WAIT"
    BY <1>t DEF Records, States
  <2>2. task[c][key] = "rejected" /\ Put(key, r)
    BY <1>5 DEF FailRetry, CanRetry
  <2> QED
    BY <1>p, <2>1, <2>2
<1>6. CASE Fail(c, key)
  <2> DEFINE r == IF task[c][key] = "crashed" /\ rec[key].id # NoJob
                  THEN rec[key] ELSE [rec[key] EXCEPT !.state = "SUBMIT_FAILED"]
  <2>1. task[c][key] \in {"rejected", "fatal", "crashed"} /\ Put(key, r)
    BY <1>6 DEF Fail
  <2>2. r \in Records /\ r.id = rec[key].id
    BY <1>t DEF Records, States, Inactive
  <2>3. rec[key].state # "GONE" => r.state = "SUBMIT_FAILED"
    <3>1. rec[key].state # "GONE" => rec[key].id = NoJob
      BY <1>m, <2>1 DEF Fits
    <3> QED
      BY <3>1, <1>t DEF Records
  <2> HIDE DEF r
  <2> QED
    BY <1>p, <2>1, <2>2, <2>3
<1> QED
  BY <1>1, <1>2, <1>3, <1>4, <1>5, <1>6, <1>q
  DEF TaskStep, Enter, StartWrapper, WrapperEnds, CountOutcome, Park, Leave

\* Nothing else ever happens to a record.
LEMMA RecSteps == Inv /\ [Next]_vars => \A key \in Keys : RecMove(key)
<1> SUFFICES ASSUME Inv, [Next]_vars PROVE \A key \in Keys : RecMove(key)
  OBVIOUS
<1>t. RecType /\ KillType /\ GateType
  BY TypeParts DEF Inv
<1>q. ASSUME UNCHANGED rec PROVE \A key \in Keys : RecMove(key)
  BY <1>q DEF RecMove
<1>1. ASSUME NEW c \in Cycles, LaunchStep(c) PROVE \A key \in Keys : RecMove(key)
  <2>1. ASSUME NEW key \in Keys, ResetRecord(c, key) PROVE \A l \in Keys : RecMove(l)
    <3>1. /\ task[c][key] = "todo" /\ rec[key].state # "GONE"
          /\ rec' = [rec EXCEPT ![key] = [state |-> "SUBMITTING", id |-> NoJob, killed |-> FALSE]]
      BY <2>1 DEF ResetRecord
    <3>2. /\ rec'[key].state = "SUBMITTING" /\ ~rec'[key].killed
          /\ \A l \in Keys : l # key => rec'[l] = rec[l]
      BY <3>1, <1>t DEF RecType
    <3> QED
      BY <3>1, <3>2 DEF RecMove
  <2>2. CASE LaunchFail(c)
    <3>1. rec' = [key \in Keys |->
                    IF task[c][key] = "reset" /\ rec[key].state = "SUBMITTING"
                    THEN [rec[key] EXCEPT !.state = "SUBMIT_FAILED"] ELSE rec[key]]
      BY <2>2 DEF LaunchFail
    <3> TAKE key \in Keys
    <3>2. CASE task[c][key] = "reset" /\ rec[key].state = "SUBMITTING"
      <4>1. rec[key] \in Records /\ rec'[key] = [rec[key] EXCEPT !.state = "SUBMIT_FAILED"]
        BY <3>1, <3>2, <1>t DEF RecType
      <4>2. rec'[key].id = rec[key].id /\ rec'[key].state = "SUBMIT_FAILED"
        BY <4>1 DEF Records
      <4> QED
        BY <3>2, <4>2 DEF RecMove, Moving
    <3>3. CASE ~(task[c][key] = "reset" /\ rec[key].state = "SUBMITTING")
      BY <3>1, <3>3 DEF RecMove
    <3> QED
      BY <3>2, <3>3
  <2> QED
    BY <1>1, <1>q, <2>1, <2>2
    DEF LaunchStep, Adopt, CheckStart, CheckEnd, CheckFalse, Reject, LaunchStart,
        FanOut, Drop, ResetGone
<1>2. ASSUME NEW c \in Cycles, NEW key \in Keys, TaskStep(c, key)
      PROVE  \A l \in Keys : RecMove(l)
  BY <1>2, TaskRecords
<1>3. ASSUME NEW c \in Cycles, NEW key \in Keys, RetryStep(c, key)
      PROVE  \A l \in Keys : RecMove(l)
  BY <1>3, <1>q, AbortRecords DEF RetryStep, RetryRequested, Fire
<1>4. ASSUME NEW k \in Kills, KillStep(k) PROVE \A key \in Keys : RecMove(key)
  <2>1. ASSUME NEW c \in Cycles, KillCancel(k, c) PROVE \A key \in Keys : RecMove(key)
    BY <2>1, AbortRecords DEF KillCancel
  <2>2. CASE Verify(k)
    <3>1. rec' = rec \/ rec' = [key \in Keys |-> Observed(key)]
      BY <2>2 DEF Verify
    <3> QED
      BY <3>1, <1>t, ObservedRecord DEF RecMove
  <2>3. CASE Mark(k)
    <3>1. accepted[k] \subseteq doomed
      BY DEF Inv, DoomedInv
    <3> TAKE key \in Keys
    <3> QED
      BY <2>3, <3>1, <1>t, MarkedRecord DEF RecMove
  <2> QED
    BY <1>4, <1>q, <2>1, <2>2, <2>3
    DEF KillStep, KillWait, KillQueue, KillNotQueued, KillAcquire, Plan, Bkill,
        KillRelease, KillFinish
<1>5. CASE Environment
  <2>1. ASSUME NEW c \in Cycles, CancelSubmit(c) PROVE \A key \in Keys : RecMove(key)
    BY <2>1, AbortRecords DEF CancelSubmit
  <2>2. ASSUME NEW key \in Keys, Remove(key) PROVE \A l \in Keys : RecMove(l)
    <3>1. rec' = [rec EXCEPT ![key] = [state |-> "GONE", id |-> NoJob, killed |-> FALSE]]
      BY <2>2 DEF Remove
    <3>2. \A l \in Keys : \/ rec'[l] = rec[l]
                          \/ rec'[l] = [state |-> "GONE", id |-> NoJob, killed |-> FALSE]
      BY <3>1, <1>t DEF RecType
    <3> QED
      BY <3>2 DEF RecMove
  <2>3. ASSUME NEW key \in Keys, Poll(key) PROVE \A l \in Keys : RecMove(l)
    <3>1. rec' = [rec EXCEPT ![key] = Observed(key)]
      BY <2>3 DEF Poll
    <3>2. rec'[key] = Observed(key) /\ \A l \in Keys : l # key => rec'[l] = rec[l]
      BY <3>1, <1>t DEF RecType
    <3> QED
      BY <3>2, <1>t, ObservedRecord DEF RecMove
  <2> QED
    BY <1>5, <1>q, <2>1, <2>2, <2>3 DEF Environment, Submit, KillBegin, JobEnds
<1> QED
  BY <1>1, <1>2, <1>3, <1>4, <1>5, <1>q DEF Next, System, vars

\* A bkill that LSF has accepted is never taken back.
LEMMA DoomedGrows == [Next]_vars => doomed \subseteq doomed'
<1> SUFFICES ASSUME [Next]_vars PROVE doomed \subseteq doomed'
  OBVIOUS
<1>1. ASSUME NEW c \in Cycles, LaunchStep(c) PROVE doomed' = doomed
  BY <1>1 DEF LaunchStep, Adopt, CheckStart, CheckEnd, CheckFalse, Reject,
              LaunchStart, FanOut, LaunchFail, Drop, ResetRecord, ResetGone, lsfVars
<1>2. ASSUME NEW c \in Cycles, NEW key \in Keys, TaskStep(c, key) \/ RetryStep(c, key)
      PROVE  doomed' = doomed
  BY <1>2 DEF TaskStep, Enter, GiveUp, Arm, StartWrapper, WrapperEnds, Succeed,
              FailCancelled, FailRetry, Fail, CountOutcome, Park, Leave,
              RetryStep, RetryRequested, Fire, lsfVars
<1>3. ASSUME NEW k \in Kills, KillStep(k) PROVE doomed \subseteq doomed'
  BY <1>3 DEF KillStep, KillCancel, KillWait, KillQueue, KillNotQueued, KillAcquire,
              Plan, Bkill, Verify, Mark, KillRelease, KillFinish, lsfVars
<1>4. CASE Environment
  BY <1>4 DEF Environment, Submit, CancelSubmit, KillBegin, Remove, Poll, JobEnds, lsfVars
<1> QED
  BY <1>1, <1>2, <1>3, <1>4 DEF Next, System, vars, lsfVars

\* The mark `killed' on a record is true and stays true: LSF has accepted a
\* bkill of the very job the record names.
THEOREM KilledIsTrueHolds == Spec => []KilledIsTrue
<1>1. Init => KilledIsTrue
  BY DEF Init, KilledIsTrue
<1>2. Inv /\ KilledIsTrue /\ [Next]_vars => KilledIsTrue'
  <2> SUFFICES ASSUME Inv, KilledIsTrue, [Next]_vars, NEW key \in Keys
               PROVE  /\ rec'[key].killed /\ rec'[key].id # NoJob =>
                           <<rec'[key].id, key>> \in doomed'
                      /\ rec'[key].state = "EXIT" => rec'[key].killed
    BY DEF KilledIsTrue
  <2>1. RecMove(key) /\ doomed \subseteq doomed'
    BY RecSteps, DoomedGrows
  <2>2. /\ rec[key].killed /\ rec[key].id # NoJob => <<rec[key].id, key>> \in doomed
        /\ rec[key].state = "EXIT" => rec[key].killed
    BY DEF KilledIsTrue
  <2>3. ASSUME NEW c \in Cycles, task[c][key] \in Moving, rec[key].state # "GONE"
        PROVE  rec[key].id = NoJob /\ ~rec[key].killed
    BY <2>3 DEF Inv, RecInv, Fits
  <2> QED
    BY <2>1, <2>2, <2>3 DEF RecMove, Moving, InSubmission
<1> QED
  BY <1>1, <1>2, Invariant, PTL DEF Spec

-----------------------------------------------------------------------------
(* No job is orphaned.                                                     *)

\* A job appears on LSF when its wrapper comes back with an id, and the task
\* has it in hand until the id is stored or the record turns out to be gone.
LEMMA JobSteps ==
  ASSUME Inv, [Next]_vars, NEW j \in Jobs
  PROVE  /\ j \in alive' => j \in alive \/ task'[j[1]][j[2]] = "accepted"
         /\ j \in alive' \ alive => task[j[1]][j[2]] = "wrapper"
         /\ task[j[1]][j[2]] = "accepted" =>
              \/ task'[j[1]][j[2]] = "accepted"
              \/ rec'[j[2]].state = "GONE"
              \/ rec'[j[2]].id = j[1] /\ rec'[j[2]].state = "PEND"
<1> DEFINE Kept == alive' \subseteq alive /\ task'[j[1]][j[2]] = task[j[1]][j[2]]
           Goal == /\ j \in alive' => j \in alive \/ task'[j[1]][j[2]] = "accepted"
                   /\ j \in alive' \ alive => task[j[1]][j[2]] = "wrapper"
                   /\ task[j[1]][j[2]] = "accepted" =>
                        \/ task'[j[1]][j[2]] = "accepted"
                        \/ rec'[j[2]].state = "GONE"
                        \/ rec'[j[2]].id = j[1] /\ rec'[j[2]].state = "PEND"
<1>k. Kept => Goal
  OBVIOUS
<1>t. TaskType /\ RecType /\ j[1] \in Cycles /\ j[2] \in Keys /\ j = <<j[1], j[2]>>
  BY TypeParts DEF Inv, Jobs
<1>o. ASSUME alive' = alive, task[j[1]][j[2]] # "accepted" PROVE Goal
  BY <1>o
<1>a. ASSUME NEW c \in Cycles, NEW ks, AbortRetries(c, ks), alive' = alive PROVE Goal
  <2>1. \/ task'[j[1]][j[2]] = task[j[1]][j[2]]
        \/ task[j[1]][j[2]] = "parked" /\ task'[j[1]][j[2]] = "end"
    BY <1>a, <1>t, AbortMoves
  <2> QED
    BY <1>a, <2>1
<1> HIDE DEF Goal
<1>1. ASSUME NEW c \in Cycles, LaunchStep(c) PROVE Goal
  <2>1. alive' = alive
    BY <1>1 DEF LaunchStep, Adopt, CheckStart, CheckEnd, CheckFalse, Reject,
              LaunchStart, FanOut, LaunchFail, Drop, ResetRecord, ResetGone, lsfVars
  <2>2. CASE launch[c] \in {"start", "resetting"}
    <3>1. task[c][j[2]] # "accepted"
      BY <1>t, <2>2 DEF Inv, LaunchInv
    <3>2. j[1] # c => task'[j[1]][j[2]] = task[j[1]][j[2]]
      BY <1>1, <1>t DEF TaskType, LaunchStep, Adopt, CheckStart, CheckEnd, CheckFalse,
         Reject, LaunchStart, FanOut, LaunchFail, Drop, ResetRecord, ResetGone, taskVars
    <3> QED
      BY <1>k, <1>o, <2>1, <3>1, <3>2
  <2>3. CASE launch[c] \notin {"start", "resetting"}
    <3>1. task' = task
      <4>1. ASSUME NEW key \in Keys PROVE task[c][key] # "todo"
        BY <2>3 DEF Inv, LaunchInv
      <4> QED
        BY <1>1, <2>3, <4>1 DEF LaunchStep, Adopt, CheckStart, CheckEnd, CheckFalse,
           Reject, LaunchStart, FanOut, LaunchFail, Drop, ResetRecord, ResetGone,
           ResetOver, taskVars
    <3> QED
      BY <1>k, <2>1, <3>1
  <2> QED
    BY <2>2, <2>3
<1>2. ASSUME NEW c \in Cycles, NEW key \in Keys, TaskStep(c, key) PROVE Goal
  <2>1. CASE WrapperEnds(c, key)
    <3>1. /\ task[c][key] = "wrapper"
          /\ \/ /\ task' = [task EXCEPT ![c][key] = "accepted"]
                /\ alive' = alive \cup {<<c, key>>}
             \/ /\ \E t : task' = [task EXCEPT ![c][key] = t]
                /\ alive' = alive
      BY <2>1 DEF WrapperEnds
    <3>2. CASE j = <<c, key>>
      BY <3>1, <3>2, <1>t DEF TaskType, Goal
    <3>3. CASE j # <<c, key>>
      <4>1. c # j[1] \/ key # j[2]
        BY <1>t, <3>3
      <4>2. task'[j[1]][j[2]] = task[j[1]][j[2]]
        BY <3>1, <4>1, <1>t DEF TaskType
      <4>3. j \in alive' => j \in alive
        BY <3>1, <3>3
      <4> QED
        BY <4>2, <4>3 DEF Goal
    <3> QED
      BY <3>2, <3>3
  <2>2. CASE Succeed(c, key)
    <3> DEFINE r == [rec[key] EXCEPT !.state = "PEND", !.id = c]
    <3>1. Put(key, r) /\ alive' = alive /\ \E t : task' = [task EXCEPT ![c][key] = t]
      BY <2>2 DEF Succeed, lsfVars
    <3>2. r \in Records /\ r.id = c /\ r.state = "PEND"
      BY <1>t DEF RecType, Records, States
    <3> HIDE DEF r
    <3>3. \/ rec'[key].state = "GONE"
          \/ rec'[key].id = c /\ rec'[key].state = "PEND"
      BY <1>t, <3>1, <3>2, PutRecord
    <3>4. CASE c = j[1] /\ key = j[2]
      BY <3>1, <3>3, <3>4 DEF Goal
    <3>5. CASE c # j[1] \/ key # j[2]
      BY <3>1, <3>5, <1>k, <1>t DEF TaskType
    <3> QED
      BY <3>4, <3>5
  <2>3. CASE ~WrapperEnds(c, key) /\ ~Succeed(c, key)
    <3>1. /\ alive' = alive
          /\ \/ task' = task
             \/ task[c][key] # "accepted" /\ \E t : task' = [task EXCEPT ![c][key] = t]
      BY <1>2, <2>3 DEF TaskStep, Enter, GiveUp, Arm, StartWrapper, FailCancelled,
         FailRetry, CanRetry, Fail, CountOutcome, Park, Leave, lsfVars
    <3>2. CASE c = j[1] /\ key = j[2]
      BY <3>1, <3>2, <1>k, <1>o
    <3>3. CASE c # j[1] \/ key # j[2]
      <4>1. ASSUME NEW t, task' = [task EXCEPT ![c][key] = t]
            PROVE  task'[j[1]][j[2]] = task[j[1]][j[2]]
        <5>1. CASE c # j[1]
          BY <4>1, <5>1, <1>t DEF TaskType
        <5>2. CASE c = j[1] /\ key # j[2]
          BY <4>1, <5>2, <1>t DEF TaskType
        <5> QED
          BY <3>3, <5>1, <5>2
      <4> QED
        BY <3>1, <4>1, <1>k
    <3> QED
      BY <3>2, <3>3
  <2> QED
    BY <2>1, <2>2, <2>3
<1>3. ASSUME NEW c \in Cycles, NEW key \in Keys, RetryStep(c, key) PROVE Goal
  <2>1. /\ alive' = alive
        /\ \/ AbortRetries(c, {key})
           \/ task' = task
           \/ task[c][key] = "parked" /\ \E t : task' = [task EXCEPT ![c][key] = t]
    BY <1>3 DEF RetryStep, RetryRequested, Fire, lsfVars
  <2>2. CASE task[c][key] = "parked" /\ \E t : task' = [task EXCEPT ![c][key] = t]
    <3>1. CASE c = j[1] /\ key = j[2]
      BY <2>1, <2>2, <3>1, <1>o
    <3>2. CASE c # j[1] \/ key # j[2]
      BY <2>1, <2>2, <3>2, <1>k, <1>t DEF TaskType
    <3> QED
      BY <3>1, <3>2
  <2> QED
    BY <1>a, <1>k, <2>1, <2>2
<1>4. ASSUME NEW k \in Kills, KillStep(k) PROVE Goal
  BY <1>4, <1>a, <1>k
  DEF KillStep, KillCancel, KillWait, KillQueue, KillNotQueued, KillAcquire, Plan,
      Bkill, Verify, Mark, KillRelease, KillFinish, taskVars, lsfVars
<1>5. ASSUME Environment PROVE Goal
  <2>1. ASSUME NEW c \in Cycles, CancelSubmit(c) PROVE Goal
    BY <2>1, <1>a DEF CancelSubmit, lsfVars
  <2>2. ASSUME NEW i \in Jobs, JobEnds(i) PROVE Goal
    BY <2>2, <1>k DEF JobEnds, taskVars
  <2>3. CASE /\ ~ \E c \in Cycles : CancelSubmit(c)
             /\ ~ \E i \in Jobs : JobEnds(i)
    <3>1. UNCHANGED <<task, alive>>
      BY <1>5, <2>3 DEF Environment, Submit, KillBegin, Remove, Poll, taskVars, lsfVars
    <3> QED
      BY <1>k, <3>1
  <2> QED
    BY <2>1, <2>2, <2>3
<1>6. ASSUME UNCHANGED vars PROVE Goal
  BY <1>6, <1>k DEF vars, taskVars, lsfVars
<1> QED
  BY <1>1, <1>2, <1>3, <1>4, <1>5, <1>6 DEF Next, System, Goal

\* A record that was removed does not come back.
LEMMA GoneStays ==
  ASSUME Inv, [Next]_vars, NEW key \in Keys, rec[key].state = "GONE"
  PROVE  rec'[key].state = "GONE"
BY RecSteps DEF RecMove

\* A record on LSF is not touched by any submission: it only goes away, or is
\* closed by the end or the kill of the job it names.
LEMMA PendKept ==
  ASSUME Inv, [Next]_vars, NEW key \in Keys, rec[key].state = "PEND",
         <<rec[key].id, key>> \in alive \ doomed
  PROVE  rec'[key] = rec[key] \/ rec'[key].state = "GONE"
<1>1. ASSUME NEW c \in Cycles PROVE task[c][key] \notin Moving
  BY DEF Inv, RecInv, Fits
<1>2. ASSUME NEW c \in Cycles PROVE task[c][key] # "todo"
  <2> SUFFICES ASSUME task[c][key] = "todo" PROVE FALSE
    OBVIOUS
  <2>1. key \in want[c] /\ ~finished[c]
    BY OnlyOne DEF Inv, Over
  <2>2. rec[key].state \in Inactive \cup {"GONE"}
    BY <2>1 DEF Inv, RecInv
  <2> QED
    BY <2>2 DEF Inactive
<1>3. RecMove(key)
  BY RecSteps
<1> QED
  BY <1>1, <1>2, <1>3 DEF RecMove, Moving, InSubmission

\* A live job that no kill has hit is never lost, whatever cancellation, crash
\* of the task, removal or retry happens while its id is on the way to the Store.
THEOREM NoOrphanHolds == Spec => []NoOrphan
<1>1. Init => NoOrphan
  BY DEF Init, NoOrphan
<1>2. Inv /\ NoOrphan /\ [Next]_vars => NoOrphan'
  <2> SUFFICES ASSUME Inv, NoOrphan, [Next]_vars, NEW j \in alive' \ doomed'
               PROVE  \/ rec'[j[2]].state = "GONE"
                      \/ task'[j[1]][j[2]] = "accepted"
                      \/ rec'[j[2]].id = j[1] /\ rec'[j[2]].state = "PEND"
    BY DEF NoOrphan
  <2>1. j \in Jobs /\ j \notin doomed
    <3>1. alive' \subseteq Jobs
      BY InvStep DEF Inv, TypeOK
    <3> QED
      BY <3>1, DoomedGrows
  <2>2. j[2] \in Keys /\ j = <<j[1], j[2]>>
    BY <2>1 DEF Jobs
  <2>3. CASE j \notin alive
    BY <2>1, <2>3, JobSteps
  <2>4. CASE rec[j[2]].state = "GONE"
    BY <2>2, <2>4, GoneStays
  <2>5. CASE task[j[1]][j[2]] = "accepted"
    BY <2>1, <2>5, JobSteps
  <2>6. CASE j \in alive /\ rec[j[2]].id = j[1] /\ rec[j[2]].state = "PEND"
    BY <2>1, <2>2, <2>6, PendKept
  <2> QED
    BY <2>1, <2>3, <2>4, <2>5, <2>6 DEF NoOrphan
<1> QED
  BY <1>1, <1>2, Invariant, PTL DEF Spec

-----------------------------------------------------------------------------
(* Submission and kill keep the contract of the gate, provided the retry   *)
(* delay outlasts the end of the failed task.                              *)

\* A step that moves the task of one key.
LEMMA FlightOne ==
  ASSUME TypeOK, FlightInv, NEW c \in Cycles, NEW key \in Keys, NEW t \in Tasks,
         task' = [task EXCEPT ![c][key] = t],
         t \in InSubmission => key \in inflight'[c],
         \A d \in Cycles : inflight[d] \subseteq inflight'[d],
         key \in leaving'[c] => t \in {"parked", "end"},
         \A d \in Cycles, l \in Keys : d # c \/ l # key =>
           (l \in leaving'[d] => l \in leaving[d])
  PROVE  FlightInv'
<1>1. /\ task'[c][key] = t
      /\ \A d \in Cycles, l \in Keys : d # c \/ l # key => task'[d][l] = task[d][l]
  BY SetTask DEF TypeOK
<1> SUFFICES ASSUME NEW d \in Cycles, NEW l \in Keys
             PROVE  /\ task'[d][l] \in InSubmission => l \in inflight'[d]
                    /\ l \in leaving'[d] => task'[d][l] \in {"parked", "end"}
  BY DEF FlightInv, InSubmission
<1>2. CASE d = c /\ l = key
  BY <1>1, <1>2
<1>3. CASE d # c \/ l # key
  <2>1. task'[d][l] = task[d][l]
    BY <1>1, <1>3
  <2>2. /\ task[d][l] \in InSubmission => l \in inflight[d]
        /\ l \in leaving[d] => task[d][l] \in {"parked", "end"}
    BY DEF FlightInv
  <2> QED
    BY <1>3, <2>1, <2>2
<1> QED
  BY <1>2, <1>3

\* _leave_inflight never takes an attempt out of flight that is under way.
LEMMA FlightInvStep ==
  ASSUME PromptLeave = TRUE, Inv, FlightInv, [Next]_vars
  PROVE  FlightInv'
<1>t. TypeOK /\ GateType /\ TaskType /\ LaunchInv
  BY TypeParts DEF Inv
\* Steps that start nothing, and touch neither inflight nor leaving.
<1>q. ASSUME UNCHANGED <<inflight, leaving>>,
             \A c \in Cycles, key \in Keys :
               \/ task'[c][key] = task[c][key]
               \/ /\ task[c][key] \notin {"parked", "end"} \/ task'[c][key] \in {"parked", "end"}
                  /\ task'[c][key] \notin InSubmission
      PROVE  FlightInv'
  BY <1>q DEF FlightInv
<1>a. ASSUME NEW c \in Cycles, NEW ks, AbortRetries(c, ks), UNCHANGED <<inflight, leaving>>
      PROVE  FlightInv'
  <2>1. \A d \in Cycles, key \in Keys :
          \/ task'[d][key] = task[d][key]
          \/ d = c /\ task[d][key] = "parked" /\ task'[d][key] = "end"
    BY <1>a, <1>t, AbortMoves
  <2> QED
    BY <1>a, <1>q, <2>1 DEF InSubmission
<1>1. ASSUME NEW c \in Cycles, LaunchStep(c) PROVE FlightInv'
  <2>1. UNCHANGED <<inflight, leaving>>
    BY <1>1 DEF LaunchStep, Adopt, CheckStart, CheckEnd, CheckFalse, Reject, LaunchStart,
                FanOut, LaunchFail, Drop, ResetRecord, ResetGone, gateVars, taskVars,
                Gate!AdoptRefusal
  <2>2. CASE LaunchStart(c)
    <3>1. launch[c] = "start" /\ task' = [task EXCEPT ![c] =
            [key \in Keys |-> IF key \in want[c] \ cancelled_keys[c] THEN "todo" ELSE @[key]]]
      BY <2>2 DEF LaunchStart
    <3>2. \A key \in Keys : task[c][key] = "none"
      BY <3>1, <1>t DEF LaunchInv
    <3>3. \A key \in Keys : task'[c][key] \in {"none", "todo"}
      BY <3>1, <3>2, <1>t DEF TaskType
    <3>4. \A d \in Cycles \ {c}, key \in Keys : task'[d][key] = task[d][key]
      BY <3>1, <1>t DEF TaskType
    <3>5. \A d \in Cycles, key \in Keys :
            \/ task'[d][key] = task[d][key]
            \/ task[d][key] = "none" /\ task'[d][key] \in {"none", "todo"}
      BY <3>2, <3>3, <3>4
    <3> QED
      BY <1>q, <2>1, <3>5 DEF InSubmission
  <2>3. CASE FanOut(c) \/ LaunchFail(c)
    <3>1. \A key \in Keys : /\ task[c][key] \in {"none", "reset", "end"}
                            /\ task[c][key] # "none" => key \in want[c]
      BY <2>3, <1>t DEF FanOut, LaunchFail, ResetOver, LaunchInv
    <3>2. \A key \in Keys : \/ task[c][key] \in {"none", "reset"}
                               /\ task'[c][key] \in {"none", "queued", "end"}
                            \/ task'[c][key] = "end"
      <4>1. CASE FanOut(c)
        <5>1. \A key \in Keys :
                task'[c][key] = CASE task[c][key] = "reset" -> "queued"
                                  [] task[c][key] # "reset" /\ key \in want[c] -> "end"
                                  [] OTHER -> "none"
          BY <4>1, <1>t DEF FanOut, TaskType
        <5> QED
          BY <3>1, <5>1
      <4>2. CASE LaunchFail(c)
        <5>1. task' = [task EXCEPT ![c] =
                        [key \in Keys |-> IF key \in want[c] THEN "end" ELSE @[key]]]
          BY <4>2 DEF LaunchFail
        <5> QED
          BY <3>1, <5>1, <1>t DEF TaskType
      <4> QED
        BY <2>3, <4>1, <4>2
    <3>3. \A d \in Cycles \ {c}, key \in Keys : task'[d][key] = task[d][key]
      BY <2>3, <1>t DEF FanOut, LaunchFail, TaskType
    <3> QED
      BY <1>q, <2>1, <3>2, <3>3 DEF InSubmission
  <2>4. ASSUME NEW key \in Keys, ResetRecord(c, key) \/ ResetGone(c, key) PROVE FlightInv'
    <3>1. /\ task[c][key] = "todo"
          /\ \E t \in {"reset", "end"} : task' = [task EXCEPT ![c][key] = t]
      BY <2>4 DEF ResetRecord, ResetGone
    <3>2. \A d \in Cycles, l \in Keys :
            \/ task'[d][l] = task[d][l]
            \/ task[d][l] = "todo" /\ task'[d][l] \in {"reset", "end"}
      BY <3>1, <1>t DEF TaskType
    <3> QED
      BY <1>q, <2>1, <3>2 DEF InSubmission
  <2>5. CASE UNCHANGED task
    BY <1>q, <2>1, <2>5
  <2> QED
    BY <1>1, <2>2, <2>3, <2>4, <2>5
    DEF LaunchStep, Adopt, CheckStart, CheckEnd, CheckFalse, Reject, Drop, taskVars
<1>2. ASSUME NEW c \in Cycles, NEW key \in Keys, TaskStep(c, key) PROVE FlightInv'
  <2>i. /\ task[c][key] \in InSubmission => key \in inflight[c]
        /\ key \in leaving[c] => task[c][key] \in {"parked", "end"}
    BY DEF FlightInv
  <2>1. CASE Enter(c, key)
    <3>1. /\ task[c][key] = "queued" /\ leaving' = leaving
          /\ inflight' = [inflight EXCEPT ![c] = @ \cup {key}]
          /\ task' = [task EXCEPT ![c][key] = "entered"]
      BY <2>1 DEF Enter
    <3>2. key \in inflight'[c] /\ \A d \in Cycles : inflight[d] \subseteq inflight'[d]
      BY <3>1, <1>t DEF GateType
    <3> QED
      BY <2>i, <3>1, <3>2, <1>t, FlightOne DEF Tasks, InSubmission
  <2>2. CASE Leave(c, key)
    <3>1. /\ key \in leaving[c] /\ task' = task
          /\ leaving' = [leaving EXCEPT ![c] = @ \ {key}]
          /\ inflight' = [inflight EXCEPT ![c] = @ \ {key}]
      BY <2>2 DEF Leave
    <3>2. task[c][key] \notin InSubmission
      BY <2>i, <3>1 DEF InSubmission
    <3> QED
      BY <3>1, <3>2, <1>t DEF FlightInv, GateType, TaskType
  <2>3. CASE CountOutcome(c, key) \/ Park(c, key)
    <3>1. /\ leaving' = [leaving EXCEPT ![c] = @ \cup {key}] /\ inflight' = inflight
          /\ \E t \in {"parked", "end"} : task' = [task EXCEPT ![c][key] = t]
      BY <2>3 DEF CountOutcome, Park, gateVars
    <3>2. \A d \in Cycles, l \in Keys : d # c \/ l # key =>
            (l \in leaving'[d] => l \in leaving[d])
      BY <3>1, <1>t DEF TaskType
    <3> QED
      BY <3>1, <3>2, <1>t, FlightOne DEF Tasks, InSubmission
  <2>4. ASSUME ~Enter(c, key), ~Leave(c, key), ~CountOutcome(c, key), ~Park(c, key)
        PROVE  FlightInv'
    <3>1. UNCHANGED <<inflight, leaving>>
      BY <1>2, <2>4 DEF TaskStep, GiveUp, Arm, StartWrapper, WrapperEnds, Succeed,
         FailCancelled, FailRetry, Fail, gateVars
    <3>2. PICK t \in Tasks : /\ task' = [task EXCEPT ![c][key] = t]
                             /\ task[c][key] \notin {"parked", "end"}
                             /\ t \in InSubmission => task[c][key] \in InSubmission
      BY <1>2, <2>4 DEF TaskStep, GiveUp, Arm, StartWrapper, WrapperEnds, Succeed,
         FailCancelled, FailRetry, CanRetry, Fail, Tasks, InSubmission
    <3> QED
      BY <2>i, <3>1, <3>2, <1>t, FlightOne
  <2> QED
    BY <2>1, <2>2, <2>3, <2>4
<1>3. ASSUME NEW c \in Cycles, NEW key \in Keys, RetryStep(c, key) PROVE FlightInv'
  <2>1. UNCHANGED <<inflight, leaving>>
    BY <1>3 DEF RetryStep, RetryRequested, Fire, gateVars
  <2>2. \/ AbortRetries(c, {key})
        \/ UNCHANGED task
        \/ key \notin leaving[c] /\ task' = [task EXCEPT ![c][key] = "queued"]
    BY <1>3, SubmitKillAssumption DEF RetryStep, RetryRequested, Fire
  <2>3. CASE key \notin leaving[c] /\ task' = [task EXCEPT ![c][key] = "queued"]
    BY <2>1, <2>3, <1>t, FlightOne DEF Tasks, InSubmission
  <2> QED
    BY <1>a, <1>q, <2>1, <2>2, <2>3
<1>4. ASSUME NEW k \in Kills, KillStep(k) PROVE FlightInv'
  <2>1. ASSUME NEW c \in Cycles, KillCancel(k, c) PROVE FlightInv'
    BY <2>1, <1>a DEF KillCancel, Gate!CancelActivity
  <2> QED
    BY <1>4, <1>q, <2>1
    DEF KillStep, KillWait, KillQueue, KillNotQueued, KillAcquire, Plan, Bkill, Verify,
        Mark, KillRelease, KillFinish, Gate!WaitActivity, Gate!WaitTimeout, Gate!Queue,
        Gate!NotQueued, Gate!Acquire, Gate!Release, Gate!cycleVars, gateVars, taskVars
<1>5. CASE Environment
  <2>1. ASSUME NEW c \in Cycles, CancelSubmit(c) PROVE FlightInv'
    BY <2>1, <1>a DEF CancelSubmit, Gate!UserCancel
  <2>2. CASE ~ \E c \in Cycles : CancelSubmit(c)
    <3>1. UNCHANGED <<inflight, leaving, task>>
      BY <1>5, <2>2 DEF Environment, Submit, KillBegin, Remove, Poll, JobEnds,
         Gate!Register, Gate!BarrierUp, Gate!cycleVars, gateVars, taskVars
    <3> QED
      BY <1>q, <3>1
  <2> QED
    BY <2>1, <2>2
<1> QED
  BY <1>1, <1>2, <1>3, <1>4, <1>5, <1>q DEF Next, System, vars, gateVars, taskVars

\* Running follows the tasks.
LEMMA RunningSame ==
  ASSUME \A c \in Cycles, key \in Keys :
           task'[c][key] \in InSubmission <=> task[c][key] \in InSubmission
  PROVE  Running' = Running
BY DEF Running

\* What one task's move does to the set of running tasks of its cycle.
LEMMA RunningOne ==
  ASSUME task \in [Cycles -> [Keys -> Tasks]], NEW c \in Cycles, NEW key \in Keys,
         NEW t \in Tasks, task' = [task EXCEPT ![c][key] = t]
  PROVE  /\ t \in InSubmission =>
              Running' = [Running EXCEPT ![c] = @ \cup {key}]
         /\ t \notin InSubmission =>
              Running' = [Running EXCEPT ![c] = @ \ {key}]
         /\ (t \in InSubmission <=> task[c][key] \in InSubmission) => Running' = Running
<1>1. /\ task'[c][key] = t
      /\ \A d \in Cycles, l \in Keys : d # c \/ l # key => task'[d][l] = task[d][l]
  BY SetTask
<1>2. \A d \in Cycles \ {c} : {l \in Keys : task'[d][l] \in InSubmission} =
                              {l \in Keys : task[d][l] \in InSubmission}
  BY <1>1
<1>3. t \in InSubmission => {l \in Keys : task'[c][l] \in InSubmission} =
                              {l \in Keys : task[c][l] \in InSubmission} \cup {key}
  BY <1>1
<1>4. t \notin InSubmission => {l \in Keys : task'[c][l] \in InSubmission} =
                                 {l \in Keys : task[c][l] \in InSubmission} \ {key}
  BY <1>1
<1>5. ASSUME t \in InSubmission <=> task[c][key] \in InSubmission
      PROVE  Running' = Running
  <2>1. \A d \in Cycles, l \in Keys :
          task'[d][l] \in InSubmission <=> task[d][l] \in InSubmission
    BY <1>1, <1>5
  <2> QED
    BY <2>1, RunningSame
<1>6. /\ \A d \in Cycles : Running[d] = {l \in Keys : task[d][l] \in InSubmission}
      /\ \A d \in Cycles : Running'[d] = {l \in Keys : task'[d][l] \in InSubmission}
      /\ DOMAIN Running = Cycles /\ DOMAIN Running' = Cycles
      /\ Running = [d \in Cycles |-> Running[d]] /\ Running' = [d \in Cycles |-> Running'[d]]
  BY DEF Running
<1>7. ASSUME t \in InSubmission PROVE Running' = [Running EXCEPT ![c] = @ \cup {key}]
  <2>1. \A d \in Cycles : Running'[d] = IF d = c THEN Running[d] \cup {key} ELSE Running[d]
    BY <1>2, <1>3, <1>6, <1>7
  <2> QED
    BY <1>6, <2>1
<1>8. ASSUME t \notin InSubmission PROVE Running' = [Running EXCEPT ![c] = @ \ {key}]
  <2>1. \A d \in Cycles : Running'[d] = IF d = c THEN Running[d] \ {key} ELSE Running[d]
    BY <1>2, <1>4, <1>6, <1>8
  <2> QED
    BY <1>6, <2>1
<1> QED
  BY <1>5, <1>7, <1>8

\* An attempt enters the submission, settles and leaves as the gate expects it.
LEMMA TaskGate ==
  ASSUME Inv, FlightInv, NEW c \in Cycles, NEW key \in Keys, TaskStep(c, key)
  PROVE  [Gate!Next]_(Gate!vars)
<1>t. task \in [Cycles -> [Keys -> Tasks]] /\ inflight \in [Cycles -> SUBSET Keys]
  BY DEF Inv, TypeOK, Gate!TypeOK
<1>r. Running[c] = {l \in Keys : task[c][l] \in InSubmission}
  BY DEF Running
<1>o. task[c][key] \notin Over =>
        key \in want[c] /\ phase[c] \notin {"new", "registered", "closed"}
  BY OnlyOne DEF Inv
<1>n. ASSUME Gate!CycleStep(c) PROVE [Gate!Next]_(Gate!vars)
  BY <1>n DEF Gate!Next
<1>1. CASE Enter(c, key)
  <2>1. /\ task[c][key] = "queued" /\ ~Gate!Cancelled(c, key)
        /\ inflight' = [inflight EXCEPT ![c] = @ \cup {key}]
        /\ task' = [task EXCEPT ![c][key] = "entered"]
        /\ UNCHANGED <<activities, barriers, want, refused, phase, cancel_event,
             cancelled_keys, stage, keys, acts, notified, waited, quiesced>>
    BY <1>1 DEF Enter
  <2>2. Running' = [Running EXCEPT ![c] = @ \cup {key}]
    BY <1>t, <2>1, RunningOne DEF Tasks, InSubmission
  <2>3. key \in want[c] \ Running[c]
    BY <1>o, <1>r, <2>1 DEF Over, InSubmission
  <2>4. phase[c] = "open"
    <3>1. phase[c] \in Gate!Phases
      BY DEF Inv, TypeOK, Gate!TypeOK
    <3> QED
      BY <1>o, <2>1, <3>1 DEF Over, Gate!Phases
  <2>5. Gate!Enter(c, key)
    BY <2>1, <2>2, <2>3, <2>4 DEF Gate!Enter, Gate!killVars
  <2> QED
    BY <1>n, <2>5 DEF Gate!CycleStep
<1>2. CASE Leave(c, key)
  <2>1. /\ key \in leaving[c] /\ task' = task
        /\ inflight' = [inflight EXCEPT ![c] = @ \ {key}]
        /\ UNCHANGED <<activities, barriers, want, refused, phase, cancel_event,
             cancelled_keys, stage, keys, acts, notified, waited, quiesced>>
    BY <1>2 DEF Leave
  <2>2. Running' = Running
    BY <2>1 DEF Running
  <2>3. key \notin Running[c]
    BY <1>r, <2>1 DEF FlightInv, InSubmission
  <2>4. CASE key \in inflight[c]
    <3>1. Gate!Leave(c, key)
      BY <2>1, <2>2, <2>3, <2>4 DEF Gate!Leave, Gate!killVars
    <3> QED
      BY <1>n, <3>1 DEF Gate!CycleStep
  <2>5. CASE key \notin inflight[c]
    <3>1. inflight' = inflight
      BY <1>t, <2>1, <2>5
    <3> QED
      BY <2>1, <2>2, <3>1 DEF Gate!vars, Gate!cycleVars, Gate!killVars
  <2> QED
    BY <2>4, <2>5
<1>3. CASE ~Enter(c, key) /\ ~Leave(c, key)
  <2>1. UNCHANGED gateVars
    BY <1>3 DEF TaskStep, GiveUp, Arm, StartWrapper, WrapperEnds, Succeed,
       FailCancelled, FailRetry, Fail, CountOutcome, Park
  <2>2. \E t \in Tasks : /\ task' = [task EXCEPT ![c][key] = t]
                         /\ t \in InSubmission => task[c][key] \in InSubmission
    BY <1>3 DEF TaskStep, GiveUp, Arm, StartWrapper, WrapperEnds, Succeed,
       FailCancelled, FailRetry, CanRetry, Fail, CountOutcome, Park, Tasks, InSubmission
  <2>3. CASE Running' = Running
    BY <2>1, <2>3 DEF gateVars, Gate!vars, Gate!cycleVars, Gate!killVars
  <2>4. CASE Running' # Running
    <3>1. /\ key \in Running[c]
          /\ Running' = [Running EXCEPT ![c] = @ \ {key}]
      BY <1>r, <1>t, <2>2, <2>4, RunningOne
    <3>2. Gate!Settle(c, key)
      BY <2>1, <3>1 DEF gateVars, Gate!Settle, Gate!killVars
    <3> QED
      BY <1>n, <3>2 DEF Gate!CycleStep
  <2> QED
    BY <2>3, <2>4
<1> QED
  BY <1>1, <1>2, <1>3

\* Every step of the detailed system is a step of the gate, or none.
LEMMA StepGate ==
  ASSUME Inv, FlightInv, [Next]_vars
  PROVE  [Gate!Next]_(Gate!vars)
<1>t. TypeOK /\ GateType /\ TaskType /\ LaunchInv
  BY TypeParts DEF Inv
<1>c. ASSUME NEW c \in Cycles, Gate!CycleStep(c) PROVE [Gate!Next]_(Gate!vars)
  BY <1>c DEF Gate!Next
<1>k. ASSUME NEW k \in Kills, Gate!KillStep(k) PROVE [Gate!Next]_(Gate!vars)
  BY <1>k DEF Gate!Next
<1>q. ASSUME UNCHANGED gateVars, Running' = Running PROVE [Gate!Next]_(Gate!vars)
  BY <1>q DEF gateVars, Gate!vars, Gate!cycleVars, Gate!killVars
<1>s. ASSUME UNCHANGED gateVars, UNCHANGED task PROVE [Gate!Next]_(Gate!vars)
  BY <1>s, <1>q DEF Running
<1>1. ASSUME NEW c \in Cycles, LaunchStep(c) PROVE [Gate!Next]_(Gate!vars)
  <2>1. CASE Adopt(c)
    BY <2>1, <1>c DEF Adopt, Gate!CycleStep
  <2>2. CASE Drop(c)
    <3>1. /\ finished[c] /\ phase[c] = "open"
          /\ activities' = activities \ {c} /\ phase' = [phase EXCEPT ![c] = "closed"]
          /\ UNCHANGED <<barriers, want, refused, cancel_event, cancelled_keys, inflight,
               stage, keys, acts, notified, waited, quiesced, task>>
      BY <2>2 DEF Drop, taskVars
    <3>2. Running[c] = {}
      <4>1. \A key \in Keys : task[c][key] \in Over
        BY <3>1, OnlyOne DEF Inv
      <4> QED
        BY <4>1 DEF Running, Over, InSubmission
    <3>3. Running' = Running
      BY <3>1 DEF Running
    <3>4. Gate!Close(c)
      BY <3>1, <3>2, <3>3 DEF Gate!Close, Gate!killVars
    <3> QED
      BY <1>c, <3>4 DEF Gate!CycleStep
  <2>3. CASE LaunchStart(c) \/ FanOut(c) \/ LaunchFail(c)
    <3>1. \A key \in Keys : task[c][key] \notin InSubmission
      BY <2>3, <1>t DEF LaunchInv, LaunchStart, FanOut, LaunchFail, ResetOver, InSubmission
    <3>2. \A key \in Keys : task'[c][key] \notin InSubmission
      <4>1. CASE LaunchStart(c)
        BY <3>1, <4>1, <1>t DEF LaunchStart, TaskType, InSubmission
      <4>2. CASE FanOut(c)
        <5>1. \A key \in Keys :
                task'[c][key] = CASE task[c][key] = "reset" -> "queued"
                                  [] task[c][key] # "reset" /\ key \in want[c] -> "end"
                                  [] OTHER -> "none"
          BY <4>2, <1>t DEF FanOut, TaskType
        <5>2. \A key \in Keys : task'[c][key] \in {"queued", "end", "none"}
          BY <5>1
        <5> QED
          BY <5>2 DEF InSubmission
      <4>3. CASE LaunchFail(c)
        BY <3>1, <4>3, <1>t DEF LaunchFail, TaskType, InSubmission
      <4> QED
        BY <2>3, <4>1, <4>2, <4>3
    <3>3. \A d \in Cycles \ {c}, key \in Keys : task'[d][key] = task[d][key]
      BY <2>3, <1>t DEF LaunchStart, FanOut, LaunchFail, TaskType
    <3>4. Running' = Running
      BY <3>1, <3>2, <3>3, RunningSame
    <3> QED
      BY <1>q, <2>3, <3>4 DEF LaunchStart, FanOut, LaunchFail
  <2>4. ASSUME NEW key \in Keys, ResetRecord(c, key) \/ ResetGone(c, key)
        PROVE  [Gate!Next]_(Gate!vars)
    <3>1. PICK t \in {"reset", "end"} :
            /\ task[c][key] = "todo" /\ UNCHANGED gateVars
            /\ task' = [task EXCEPT ![c][key] = t]
      BY <2>4 DEF ResetRecord, ResetGone
    <3>2. Running' = Running
      BY <3>1, <1>t, RunningOne DEF TaskType, Tasks, InSubmission
    <3> QED
      BY <1>q, <3>1, <3>2
  <2> QED
    BY <1>1, <1>s, <2>1, <2>2, <2>3, <2>4
    DEF LaunchStep, CheckStart, CheckEnd, CheckFalse, Reject, taskVars
<1>a. ASSUME NEW c \in Cycles, NEW ks, AbortRetries(c, ks) PROVE Running' = Running
  <2>1. \A d \in Cycles, key \in Keys :
          \/ task'[d][key] = task[d][key]
          \/ d = c /\ task[d][key] = "parked" /\ task'[d][key] = "end"
    BY <1>a, <1>t, AbortMoves
  <2> QED
    BY <2>1, RunningSame DEF InSubmission
<1>2. ASSUME NEW c \in Cycles, NEW key \in Keys, RetryStep(c, key)
      PROVE  [Gate!Next]_(Gate!vars)
  <2>1. UNCHANGED gateVars
    BY <1>2 DEF RetryStep, RetryRequested, Fire
  <2>2. \/ AbortRetries(c, {key})
        \/ UNCHANGED task
        \/ task[c][key] = "parked" /\ task' = [task EXCEPT ![c][key] = "queued"]
    BY <1>2 DEF RetryStep, RetryRequested, Fire
  <2>3. CASE task[c][key] = "parked" /\ task' = [task EXCEPT ![c][key] = "queued"]
    <3>1. task \in [Cycles -> [Keys -> Tasks]] /\ "queued" \in Tasks
      BY <1>t DEF TaskType, Tasks
    <3>2. "queued" \notin InSubmission /\ task[c][key] \notin InSubmission
      BY <2>3 DEF InSubmission
    <3>3. Running' = Running
      BY <2>3, <3>1, <3>2, RunningOne
    <3> QED
      BY <1>q, <2>1, <3>3
  <2> QED
    BY <1>a, <1>q, <1>s, <2>1, <2>2, <2>3
<1>3. ASSUME NEW k \in Kills, KillStep(k) PROVE [Gate!Next]_(Gate!vars)
  <2>1. ASSUME NEW c \in Cycles, KillCancel(k, c) \/ KillWait(k, c)
        PROVE  Gate!KillStep(k)
    BY <2>1 DEF KillCancel, KillWait, Gate!KillStep
  <2>2. CASE KillQueue(k) \/ KillNotQueued(k) \/ KillAcquire(k) \/ KillRelease(k)
    BY <2>2, <1>k DEF KillQueue, KillNotQueued, KillAcquire, KillRelease, Gate!KillStep
  <2> QED
    BY <1>3, <1>k, <1>s, <2>1, <2>2 DEF KillStep, Plan, Bkill, Verify, Mark, KillFinish, taskVars
<1>4. CASE Environment
  <2>1. ASSUME NEW c \in Cycles, NEW ks \in SUBSET Keys, Submit(c, ks)
        PROVE  Gate!CycleStep(c)
    BY <2>1 DEF Submit, Gate!CycleStep
  <2>2. ASSUME NEW c \in Cycles, CancelSubmit(c) PROVE Gate!CycleStep(c)
    BY <2>2 DEF CancelSubmit, Gate!CycleStep
  <2>3. ASSUME NEW k \in Kills, NEW ks \in SUBSET Keys, KillBegin(k, ks)
        PROVE  Gate!KillStep(k)
    BY <2>3 DEF KillBegin, Gate!KillStep
  <2>4. ASSUME ~ \E c \in Cycles, ks \in SUBSET Keys : Submit(c, ks),
               ~ \E c \in Cycles : CancelSubmit(c),
               ~ \E k \in Kills, ks \in SUBSET Keys : KillBegin(k, ks)
        PROVE  UNCHANGED gateVars /\ UNCHANGED task
    BY <1>4, <2>4 DEF Environment, Remove, Poll, JobEnds, taskVars
  <2> QED
    BY <1>c, <1>k, <1>s, <2>1, <2>2, <2>3, <2>4
<1>5. CASE UNCHANGED vars
  BY <1>5, <1>s DEF vars, taskVars
<1> QED
  BY <1>1, <1>2, <1>3, <1>4, <1>5, TaskGate DEF Next, System

\* The submitter and the killer implement the kill-priority gate, so all that
\* is proved of the gate holds of them.
THEOREM ImplementsGate ==
  ASSUME PromptLeave = TRUE
  PROVE  Spec => GateSpec
<1>1. Init => Gate!Init /\ FlightInv
  BY DEF Init, FlightInv, InSubmission
<1>2. Inv /\ FlightInv /\ [Next]_vars => FlightInv' /\ [Gate!Next]_(Gate!vars)
  BY FlightInvStep, StepGate
<1> QED
  BY <1>1, <1>2, Invariant, PTL DEF Spec, GateSpec, Gate!Spec

-----------------------------------------------------------------------------
(* No job escapes a kill.                                                  *)

\* The theorems of the gate, about the gate of this system.
GateProofs == INSTANCE SubmitGate_proofs WITH running <- Running

\* The gate keeps its promise inside the detailed system: after acquire, no key
\* of the kill's scope is being submitted.
LEMMA GatePriority == GateSpec => []Gate!KillPriority
<1>0. WholeKills \subseteq Kills
  BY SubmitKillAssumption
<1>1. GateProofs!Spec => []GateProofs!KillPriority
  BY <1>0, GateProofs!KillPriorityHolds, PTL
<1>2. Gate!KillPriority <=> GateProofs!KillPriority
  BY DEF Gate!KillPriority, GateProofs!KillPriority, Gate!Scope, GateProofs!Scope
<1>3. Gate!Init => GateProofs!Init
  BY DEF Gate!Init, GateProofs!Init
<1>4. UNCHANGED Gate!vars => UNCHANGED GateProofs!vars
  BY DEF Gate!vars, GateProofs!vars, Gate!cycleVars, GateProofs!cycleVars,
         Gate!killVars, GateProofs!killVars
<1>5. ASSUME NEW c \in Cycles, Gate!CycleStep(c) PROVE GateProofs!CycleStep(c)
  BY <1>5
  DEF Gate!CycleStep, Gate!Register, Gate!AdoptRefusal, Gate!Enter, Gate!Settle,
      Gate!Leave, Gate!UserCancel, Gate!Close, Gate!Blocked, Gate!Cancelled, Gate!Scope,
      Gate!killVars,
      GateProofs!CycleStep, GateProofs!Register, GateProofs!AdoptRefusal,
      GateProofs!Enter, GateProofs!Settle, GateProofs!Leave, GateProofs!UserCancel,
      GateProofs!Close, GateProofs!Blocked, GateProofs!Cancelled, GateProofs!Scope,
      GateProofs!killVars
<1>6. ASSUME NEW k \in Kills, Gate!KillStep(k) PROVE GateProofs!KillStep(k)
  BY <1>6
  DEF Gate!KillStep, Gate!BarrierUp, Gate!CancelActivity, Gate!WaitActivity,
      Gate!WaitTimeout, Gate!Queue, Gate!NotQueued, Gate!Acquire, Gate!Release,
      Gate!Scope, Gate!cycleVars,
      GateProofs!KillStep, GateProofs!BarrierUp, GateProofs!CancelActivity,
      GateProofs!WaitActivity, GateProofs!WaitTimeout, GateProofs!Queue,
      GateProofs!NotQueued, GateProofs!Acquire, GateProofs!Release, GateProofs!Scope,
      GateProofs!cycleVars
<1>7. [Gate!Next]_(Gate!vars) => [GateProofs!Next]_(GateProofs!vars)
  BY <1>4, <1>5, <1>6 DEF Gate!Next, GateProofs!Next
<1> QED
  BY <1>1, <1>2, <1>3, <1>7, PTL DEF GateSpec, Gate!Spec, GateProofs!Spec

\* A kill resolves its targets after acquire, not before.
StepInv ==
  \A k \in Kills : stage[k] \notin {"acquired", "released"} => step[k] = "plan"

\* How a kill goes on.
LEMMA KillProgress ==
  ASSUME TypeOK, [Next]_vars, NEW k \in Kills
  PROVE  \/ Plan(k)
         \/ stage'[k] = "released"
         \/ stage[k] \notin {"acquired", "released"} /\ step'[k] = step[k]
         \/ /\ stage'[k] = stage[k] /\ quiesced'[k] = quiesced[k]
            /\ keys'[k] = keys[k] /\ targets'[k] = targets[k]
            /\ step'[k] = step[k] \/ step[k] # "plan"
<1> DEFINE Goal == \/ Plan(k)
                   \/ stage'[k] = "released"
                   \/ stage[k] \notin {"acquired", "released"} /\ step'[k] = step[k]
                   \/ /\ stage'[k] = stage[k] /\ quiesced'[k] = quiesced[k]
                      /\ keys'[k] = keys[k] /\ targets'[k] = targets[k]
                      /\ step'[k] = step[k] \/ step[k] # "plan"
<1>t. GateType /\ KillType
  BY TypeParts
<1>q. ASSUME UNCHANGED <<stage, quiesced, keys, targets, step>> PROVE Goal
  BY <1>q
<1>1. ASSUME NEW c \in Cycles, LaunchStep(c) PROVE Goal
  <2>1. UNCHANGED <<stage, quiesced, keys, targets, step>>
    BY <1>1 DEF LaunchStep, Adopt, CheckStart, CheckEnd, CheckFalse, Reject, LaunchStart,
       FanOut, LaunchFail, Drop, ResetRecord, ResetGone, gateVars, killVars,
       Gate!AdoptRefusal, Gate!killVars
  <2> QED
    BY <1>q, <2>1
<1>2. ASSUME NEW c \in Cycles, NEW key \in Keys, TaskStep(c, key) \/ RetryStep(c, key)
      PROVE  Goal
  <2>1. UNCHANGED <<stage, quiesced, keys, targets, step>>
    BY <1>2 DEF TaskStep, Enter, GiveUp, Arm, StartWrapper, WrapperEnds, Succeed,
       FailCancelled, FailRetry, Fail, CountOutcome, Park, Leave, RetryStep,
       RetryRequested, Fire, gateVars, killVars
  <2> QED
    BY <1>q, <2>1
<1>3. ASSUME NEW l \in Kills, KillStep(l) PROVE Goal
  <2>1. ASSUME NEW c \in Cycles, KillCancel(l, c) PROVE Goal
    <3>1. UNCHANGED <<stage, quiesced, keys, targets, step>>
      BY <2>1 DEF KillCancel, Gate!CancelActivity, killVars
    <3> QED
      BY <1>q, <3>1
  <2>2. ASSUME NEW c \in Cycles, KillWait(l, c) PROVE Goal
    BY <2>2, <1>t DEF KillWait, Gate!WaitActivity, Gate!WaitTimeout, GateType, killVars
  <2>3. CASE KillQueue(l)
    BY <2>3, <1>t DEF KillQueue, Gate!Queue, GateType
  <2>4. CASE KillNotQueued(l)
    BY <2>4, <1>t DEF KillNotQueued, Gate!NotQueued, GateType, killVars
  <2>5. CASE KillAcquire(l)
    BY <2>5, <1>t DEF KillAcquire, Gate!Acquire, GateType, killVars
  <2>6. CASE KillRelease(l)
    BY <2>6, <1>t DEF KillRelease, Gate!Release, GateType, KillType
  <2>7. CASE Plan(l)
    BY <2>7, <1>t DEF Plan, gateVars, KillType
  <2>8. CASE Bkill(l) \/ Verify(l) \/ Mark(l)
    <3>1. /\ step[l] # "plan" /\ UNCHANGED <<stage, quiesced, keys, targets>>
          /\ \E s : step' = [step EXCEPT ![l] = s]
      BY <2>8 DEF Bkill, Verify, Mark, gateVars
    <3> QED
      BY <3>1, <1>t DEF KillType
  <2>9. CASE KillFinish(l)
    BY <2>9, <1>q DEF KillFinish, gateVars
  <2> QED
    BY <1>3, <2>1, <2>2, <2>3, <2>4, <2>5, <2>6, <2>7, <2>8, <2>9 DEF KillStep
<1>4. ASSUME Environment PROVE Goal
  <2>1. ASSUME NEW l \in Kills, NEW ks \in SUBSET Keys, KillBegin(l, ks) PROVE Goal
    BY <2>1, <1>t DEF KillBegin, Gate!BarrierUp, GateType, killVars
  <2>2. CASE ~ \E l \in Kills, ks \in SUBSET Keys : KillBegin(l, ks)
    <3>1. UNCHANGED <<stage, quiesced, keys, targets, step>>
      BY <1>4, <2>2 DEF Environment, Submit, CancelSubmit, Remove, Poll, JobEnds,
         Gate!Register, Gate!UserCancel, Gate!killVars, gateVars, killVars
    <3> QED
      BY <1>q, <3>1
  <2> QED
    BY <2>1, <2>2
<1>5. ASSUME UNCHANGED vars PROVE Goal
  BY <1>5, <1>q DEF vars, gateVars, killVars
<1> QED
  BY <1>1, <1>2, <1>3, <1>4, <1>5 DEF Next, System

\* "A wrapper that is already running is waited for until its job id is known,
\* and then killed" (manager.kill): of all live jobs in the scope of a kill
\* whose wait did not time out, none is missing from its targets.
THEOREM NoLeakHolds ==
  ASSUME PromptLeave = TRUE
  PROVE  Spec => []NoLeak
<1>1. Init => NoLeak /\ StepInv
  BY DEF Init, NoLeak, StepInv
<1>2. Spec => []Gate!KillPriority
  BY ImplementsGate, GatePriority, PTL
<1>3. ASSUME Inv, StepInv, [Next]_vars PROVE StepInv'
  <2>1. TypeOK
    BY <1>3 DEF Inv
  <2>2. \A k \in Kills : Plan(k) => stage'[k] = "acquired"
    BY DEF Plan, gateVars
  <2> QED
    BY <1>3, <2>1, <2>2, KillProgress DEF StepInv
<1>4. ASSUME Inv, StepInv, NoOrphan, NoLeak, Gate!KillPriority, Gate!KillPriority',
             [Next]_vars
      PROVE  NoLeak'
  <2> SUFFICES ASSUME NEW k \in Kills, NEW j \in alive' \ doomed',
                      stage'[k] = "acquired", quiesced'[k], step'[k] # "plan",
                      j[2] \in Gate!Scope(k)', rec'[j[2]].state # "GONE"
               PROVE  j \in targets'[k]
    BY DEF NoLeak
  <2>1. j \in Jobs /\ j \notin doomed
    <3>1. alive' \subseteq Jobs
      BY <1>4, InvStep DEF Inv, TypeOK
    <3> QED
      BY <1>4, <3>1, DoomedGrows
  <2>2. j[1] \in Cycles /\ j[2] \in Keys /\ j = <<j[1], j[2]>>
    BY <2>1 DEF Jobs
  <2>3. rec[j[2]].state # "GONE"
    BY <1>4, <2>2, GoneStays
  <2>4. j \in alive
    <3> SUFFICES ASSUME j \notin alive PROVE FALSE
      OBVIOUS
    <3>1. task'[j[1]][j[2]] = "accepted"
      BY <1>4, <2>1, JobSteps
    <3>2. j[2] \in Running'[j[1]]
      BY <2>2, <3>1 DEF Running, InSubmission
    <3>3. Running'[j[1]] \cap Gate!Scope(k)' = {}
      BY <1>4, <2>2 DEF Gate!KillPriority
    <3> QED
      BY <3>2, <3>3
  <2>5. CASE Plan(k)
    <3>1. /\ stage[k] = "acquired" /\ quiesced[k] /\ Gate!Scope(k)' = Gate!Scope(k)
          /\ rec' = rec
          /\ targets' = [targets EXCEPT ![k] =
               {<<rec[key].id, key>> : key \in
                 {key \in Gate!Scope(k) :
                   /\ rec[key].id # NoJob
                   /\ k \in WholeKills => rec[key].state = "PEND"}}]
      BY <2>5 DEF Plan, gateVars, Gate!Scope
    <3>2. task[j[1]][j[2]] # "accepted"
      <4>1. Running[j[1]] \cap Gate!Scope(k) = {}
        BY <1>4, <2>2, <3>1 DEF Gate!KillPriority
      <4> QED
        BY <2>2, <3>1, <4>1 DEF Running, InSubmission
    <3>3. rec[j[2]].id = j[1] /\ rec[j[2]].state = "PEND"
      BY <1>4, <2>1, <2>3, <2>4, <3>2 DEF NoOrphan
    <3>4. targets'[k] = {<<rec[key].id, key>> : key \in
                           {key \in Gate!Scope(k) :
                              /\ rec[key].id # NoJob
                              /\ k \in WholeKills => rec[key].state = "PEND"}}
      <4>1. targets \in [Kills -> SUBSET Jobs]
        BY <1>4 DEF Inv, TypeOK
      <4> QED
        BY <3>1, <4>1
    <3> QED
      BY <2>2, <3>1, <3>3, <3>4, SubmitKillAssumption
  <2>6. CASE stage[k] \notin {"acquired", "released"} /\ step'[k] = step[k]
    BY <1>4, <2>6 DEF StepInv
  <2>7. CASE /\ stage'[k] = stage[k] /\ quiesced'[k] = quiesced[k]
             /\ keys'[k] = keys[k] /\ targets'[k] = targets[k]
             /\ step'[k] = step[k] \/ step[k] # "plan"
    <3>1. Gate!Scope(k)' = Gate!Scope(k)
      BY <2>7 DEF Gate!Scope
    <3> QED
      BY <1>4, <2>1, <2>3, <2>4, <2>7, <3>1 DEF NoLeak
  <2> QED
    BY <1>4, <2>5, <2>6, <2>7, KillProgress DEF Inv
<1> QED
  BY <1>1, <1>2, <1>3, <1>4, Invariant, NoOrphanHolds, PTL DEF Spec
=============================================================================
