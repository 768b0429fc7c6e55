----------------------------- MODULE SubmitGate -----------------------------
(***************************************************************************)
(* The kill-priority gate of one jobset (lsfmgr/lifecycle.py).             *)
(*                                                                         *)
(* Submit cycles register as activities; a kill raises a barrier over the  *)
(* keys it aims at, takes over the activities registered at that moment,   *)
(* cancels what they still have to submit inside its scope and waits until *)
(* nothing of it is in flight.  A cycle that registers while a barrier is  *)
(* up is told which of its keys are refused.                               *)
(*                                                                         *)
(* The cycles appear only through what the gate asks of them, which is the *)
(* contract lsfmgr/submitter.py has to meet: the two cancellation marks,   *)
(* the set `inflight' the wait callback looks at, and `running', the keys  *)
(* whose wrapper may really be submitting.  SubmitKill.tla is the detailed *)
(* system, checked to implement this module.                               *)
(***************************************************************************)

CONSTANTS
  Keys,        \* job_keys of the jobset
  Cycles,      \* submit cycles; each one registers at most once
  Kills,       \* kill requests; each one is a KillScope of its own
  WholeKills   \* the kills whose scope is None, i.e. the whole jobset

ASSUME WholeAssumption == WholeKills \subseteq Kills

VARIABLES
  activities,      \* SubmitGate._activities: the registered cycles
  barriers,        \* SubmitGate._barriers: the kills whose barrier is up
  want,            \* the keys each cycle was started with
  refused,         \* Registration.refused of each cycle
  phase,           \* how far each cycle is: new, registered, open, closed
  cancel_event,    \* the cycle is cancelled as a whole
  cancelled_keys,  \* the keys of the cycle a selective kill has cancelled
  inflight,        \* the keys the wait callback considers to be in flight
  running,         \* the keys inside a submission with no outcome stored yet
  stage,           \* how far each kill is
  keys,            \* KillScope.keys of the selective kills
  acts,            \* KillScope._acts: activities captured with the barrier
  notified,        \* captured activities whose cancel callback has returned
  waited,          \* captured activities whose wait callback has returned
  quiesced         \* no wait callback of the kill has timed out

cycleVars == <<activities, want, refused, phase, cancel_event,
               cancelled_keys, inflight, running>>
killVars  == <<barriers, stage, keys, acts, notified, waited, quiesced>>
vars      == <<cycleVars, killVars>>

Phases == {"new", "registered", "open", "closed"}
Stages == {"idle", "begun", "queued", "acquired", "released"}

TypeOK ==
  /\ activities \subseteq Cycles
  /\ barriers \subseteq Kills
  /\ want \in [Cycles -> SUBSET Keys]
  /\ refused \in [Cycles -> SUBSET Keys]
  /\ phase \in [Cycles -> Phases]
  /\ cancel_event \in [Cycles -> BOOLEAN]
  /\ cancelled_keys \in [Cycles -> SUBSET Keys]
  /\ inflight \in [Cycles -> SUBSET Keys]
  /\ running \in [Cycles -> SUBSET Keys]
  /\ stage \in [Kills -> Stages]
  /\ keys \in [Kills -> SUBSET Keys]
  /\ acts \in [Kills -> SUBSET Cycles]
  /\ notified \in [Kills -> SUBSET Cycles]
  /\ waited \in [Kills -> SUBSET Cycles]
  /\ quiesced \in [Kills -> BOOLEAN]

Init ==
  /\ activities = {}
  /\ barriers = {}
  /\ want = [c \in Cycles |-> {}]
  /\ refused = [c \in Cycles |-> {}]
  /\ phase = [c \in Cycles |-> "new"]
  /\ cancel_event = [c \in Cycles |-> FALSE]
  /\ cancelled_keys = [c \in Cycles |-> {}]
  /\ inflight = [c \in Cycles |-> {}]
  /\ running = [c \in Cycles |-> {}]
  /\ stage = [k \in Kills |-> "idle"]
  /\ keys = [k \in Kills |-> {}]
  /\ acts = [k \in Kills |-> {}]
  /\ notified = [k \in Kills |-> {}]
  /\ waited = [k \in Kills |-> {}]
  /\ quiesced = [k \in Kills |-> TRUE]

-----------------------------------------------------------------------------
(* What the gate computes.                                                 *)

\* The keys a kill aims at: scope None covers every key.
Scope(k) == IF k \in WholeKills THEN Keys ELSE keys[k]

\* The keys of ks that some raised barrier covers.
Blocked(ks) == {key \in ks : \E k \in barriers : key \in Scope(k)}

\* The cancellation a kill leaves in an activity it has notified.
Stopped(k, c) ==
  IF k \in WholeKills THEN cancel_event[c] ELSE keys[k] \subseteq cancelled_keys[c]

\* Mutant of Cancelled: the marks of single keys are not looked at.
CancelledAsWhole(c, key) == cancel_event[c]

\* Whether the cycle must not submit the key any more.
Cancelled(c, key) == cancel_event[c] \/ key \in cancelled_keys[c]

-----------------------------------------------------------------------------
(* Submit cycles.                                                          *)

\* SubmitGate.register.  The refusal and the registration are one critical
\* section of the gate lock; with every key refused nothing is registered.
Register(c, ks) ==
  /\ phase[c] = "new"
  /\ ks # {}
  /\ want' = [want EXCEPT ![c] = ks]
  /\ refused' = [refused EXCEPT ![c] = Blocked(ks)]
  /\ activities' = IF Blocked(ks) = ks THEN activities ELSE activities \cup {c}
  /\ phase' = [phase EXCEPT ![c] = "registered"]
  /\ UNCHANGED <<cancel_event, cancelled_keys, inflight, running, killVars>>

\* The caller of register takes the answer over, outside the gate lock: a
\* cycle that was not registered is born cancelled, otherwise the refused
\* keys alone are.
AdoptRefusal(c) ==
  /\ phase[c] = "registered"
  /\ \/ /\ c \notin activities
        /\ cancel_event' = [cancel_event EXCEPT ![c] = TRUE]
        /\ UNCHANGED cancelled_keys
     \/ /\ c \in activities
        /\ cancelled_keys' = [cancelled_keys EXCEPT ![c] = @ \cup refused[c]]
        /\ UNCHANGED cancel_event
  /\ phase' = [phase EXCEPT ![c] = "open"]
  /\ UNCHANGED <<activities, want, refused, inflight, running, killVars>>

\* A worker enters the submission of a key: the cancellation marks and
\* `inflight' are read and written under one lock.
Enter(c, key) ==
  /\ phase[c] = "open"
  /\ key \in want[c] \ running[c]
  /\ ~Cancelled(c, key)
  /\ inflight' = [inflight EXCEPT ![c] = @ \cup {key}]
  /\ running' = [running EXCEPT ![c] = @ \cup {key}]
  /\ UNCHANGED <<activities, want, refused, phase, cancel_event,
                 cancelled_keys, killVars>>

\* The outcome of the submission is in the store.
Settle(c, key) ==
  /\ key \in running[c]
  /\ running' = [running EXCEPT ![c] = @ \ {key}]
  /\ UNCHANGED <<activities, want, refused, phase, cancel_event,
                 cancelled_keys, inflight, killVars>>

\* The worker leaves the submission of a key.  The contract: never while an
\* attempt of that key is still running.
Leave(c, key) ==
  /\ key \in inflight[c] \ running[c]
  /\ inflight' = [inflight EXCEPT ![c] = @ \ {key}]
  /\ UNCHANGED <<activities, want, refused, phase, cancel_event,
                 cancelled_keys, running, killVars>>

\* cancel_submit: the user stops the cycle as a whole.
UserCancel(c) ==
  /\ phase[c] \in {"registered", "open"}
  /\ cancel_event' = [cancel_event EXCEPT ![c] = TRUE]
  /\ UNCHANGED <<activities, want, refused, phase, cancelled_keys, inflight,
                 running, killVars>>

\* The cycle has reported its end and unregisters (idempotent).
Close(c) ==
  /\ phase[c] = "open"
  /\ running[c] = {}
  /\ activities' = activities \ {c}
  /\ phase' = [phase EXCEPT ![c] = "closed"]
  /\ UNCHANGED <<want, refused, cancel_event, cancelled_keys, inflight,
                 running, killVars>>

-----------------------------------------------------------------------------
(* Kills.                                                                  *)

\* KillScope.begin, first half: barrier up and the activities captured in one
\* critical section.
BarrierUp(k, ks) ==
  /\ stage[k] = "idle"
  /\ k \in WholeKills => ks = {}
  /\ barriers' = barriers \cup {k}
  /\ keys' = [keys EXCEPT ![k] = ks]
  /\ acts' = [acts EXCEPT ![k] = activities]
  /\ stage' = [stage EXCEPT ![k] = "begun"]
  /\ UNCHANGED <<notified, waited, quiesced, cycleVars>>

\* Mutant of CancelActivity: a selective kill cancels every key of the cycle.
CancelEveryKey(k, c) ==
  /\ stage[k] = "begun"
  /\ c \in acts[k] \ notified[k]
  /\ cancelled_keys' = [cancelled_keys EXCEPT ![c] = want[c]]
  /\ notified' = [notified EXCEPT ![k] = @ \cup {c}]
  /\ UNCHANGED <<activities, want, refused, phase, cancel_event, inflight,
                 running, barriers, stage, keys, acts, waited, quiesced>>

\* KillScope.begin, second half: the cancel callback of one captured activity.
CancelActivity(k, c) ==
  /\ stage[k] = "begun"
  /\ c \in acts[k] \ notified[k]
  /\ \/ /\ k \in WholeKills
        /\ cancel_event' = [cancel_event EXCEPT ![c] = TRUE]
        /\ UNCHANGED cancelled_keys
     \/ /\ k \notin WholeKills
        /\ cancelled_keys' = [cancelled_keys EXCEPT ![c] = @ \cup keys[k]]
        /\ UNCHANGED cancel_event
  /\ notified' = [notified EXCEPT ![k] = @ \cup {c}]
  /\ UNCHANGED <<activities, want, refused, phase, inflight, running,
                 barriers, stage, keys, acts, waited, quiesced>>

\* begin has returned and the kill task is queued.
Queue(k) ==
  /\ stage[k] = "begun"
  /\ notified[k] = acts[k]
  /\ stage' = [stage EXCEPT ![k] = "queued"]
  /\ UNCHANGED <<barriers, keys, acts, notified, waited, quiesced, cycleVars>>

\* The task could not be queued: the barrier comes down again.
NotQueued(k) ==
  /\ stage[k] = "begun"
  /\ notified[k] = acts[k]
  /\ barriers' = barriers \ {k}
  /\ stage' = [stage EXCEPT ![k] = "released"]
  /\ UNCHANGED <<keys, acts, notified, waited, quiesced, cycleVars>>

\* Mutant of WaitActivity: the wait returns whatever is in flight.
WaitNothing(k, c) ==
  /\ stage[k] = "queued"
  /\ c \in acts[k] \ waited[k]
  /\ waited' = [waited EXCEPT ![k] = @ \cup {c}]
  /\ UNCHANGED <<barriers, stage, keys, acts, notified, quiesced, cycleVars>>

\* KillScope.acquire: the wait callback of a captured activity returns True.
WaitActivity(k, c) ==
  /\ stage[k] = "queued"
  /\ c \in acts[k] \ waited[k]
  /\ inflight[c] \cap Scope(k) = {}
  /\ waited' = [waited EXCEPT ![k] = @ \cup {c}]
  /\ UNCHANGED <<barriers, stage, keys, acts, notified, quiesced, cycleVars>>

\* The wait callback runs into its timeout and returns False.
WaitTimeout(k, c) ==
  /\ stage[k] = "queued"
  /\ c \in acts[k] \ waited[k]
  /\ inflight[c] \cap Scope(k) # {}
  /\ waited' = [waited EXCEPT ![k] = @ \cup {c}]
  /\ quiesced' = [quiesced EXCEPT ![k] = FALSE]
  /\ UNCHANGED <<barriers, stage, keys, acts, notified, cycleVars>>

\* Mutant of Acquire: after a timeout the kill does not go on.
AcquireIfQuiet(k) ==
  /\ stage[k] = "queued"
  /\ waited[k] = acts[k] /\ quiesced[k]
  /\ stage' = [stage EXCEPT ![k] = "acquired"]
  /\ UNCHANGED <<barriers, keys, acts, notified, waited, quiesced, cycleVars>>

\* acquire returns; the kill goes on to resolve its targets.
Acquire(k) ==
  /\ stage[k] = "queued"
  /\ waited[k] = acts[k]
  /\ stage' = [stage EXCEPT ![k] = "acquired"]
  /\ UNCHANGED <<barriers, keys, acts, notified, waited, quiesced, cycleVars>>

\* Mutant of Release: the marks are taken back together with the barrier.
ReleaseAndForget(k) ==
  /\ stage[k] = "acquired"
  /\ barriers' = barriers \ {k}
  /\ stage' = [stage EXCEPT ![k] = "released"]
  /\ cancelled_keys' = [c \in Cycles |-> cancelled_keys[c] \ Scope(k)]
  /\ UNCHANGED <<keys, acts, notified, waited, quiesced, activities, want,
                 refused, phase, cancel_event, inflight, running>>

\* KillScope.release, in the finally clause of the kill task.
Release(k) ==
  /\ stage[k] = "acquired"
  /\ barriers' = barriers \ {k}
  /\ stage' = [stage EXCEPT ![k] = "released"]
  /\ UNCHANGED <<keys, acts, notified, waited, quiesced, cycleVars>>

-----------------------------------------------------------------------------
CycleStep(c) ==
  \/ \E ks \in SUBSET Keys : Register(c, ks)
  \/ AdoptRefusal(c)
  \/ \E key \in Keys : Enter(c, key) \/ Settle(c, key) \/ Leave(c, key)
  \/ UserCancel(c)
  \/ Close(c)

KillStep(k) ==
  \/ \E ks \in SUBSET Keys : BarrierUp(k, ks)
  \/ \E c \in Cycles :
       CancelActivity(k, c) \/ WaitActivity(k, c) \/ WaitTimeout(k, c)
  \/ Queue(k)
  \/ NotQueued(k)
  \/ Acquire(k)
  \/ Release(k)

Next == (\E c \in Cycles : CycleStep(c)) \/ (\E k \in Kills : KillStep(k))

Spec == Init /\ [][Next]_vars

-----------------------------------------------------------------------------
(* Properties.                                                             *)

\* manager.kill: "kill always has priority over the submission of the jobs it
\* aims at".  Once acquire has returned True, and until the barrier comes
\* down, no cycle - captured, registered under the barrier, or finished - is
\* submitting a key of the kill's scope, so the targets resolved after it
\* are complete.
KillPriority ==
  \A k \in Kills, c \in Cycles :
    stage[k] = "acquired" /\ quiesced[k] => running[c] \cap Scope(k) = {}

\* From the moment the kill is queued (begin has returned) no submission of a
\* key in its scope starts, whether or not the wait times out later.
NoStartUnderKill ==
  [][\A k \in Kills, c \in Cycles :
       stage[k] \in {"queued", "acquired"} =>
         running'[c] \cap Scope(k) \subseteq running[c]]_vars

\* "The mark is not cleared before the cycle ends: a leftover task would submit
\* the job again after the kill and revive it" (_cancel_scope).  A cycle whose
\* cancel callback has returned never starts a key of that scope any more, not
\* even after the kill has released its barrier.
NoRevival ==
  [][\A k \in Kills, c \in Cycles :
       c \in notified[k] => running'[c] \cap Scope(k) \subseteq running[c]]_vars

\* "Submissions of jobs that are not targeted continue" (manager.kill): a key
\* is cancelled on its own only if some kill that was begun covers it, whether
\* the mark came from the cancel callback or from the refusal at registration.
NoCollateral ==
  \A c \in Cycles : \A key \in cancelled_keys[c] :
    \E k \in Kills : stage[k] # "idle" /\ key \in Scope(k)

-----------------------------------------------------------------------------
(* The inductive invariant behind KillPriority and NoStartUnderKill.       *)

Live(c) == phase[c] \in {"registered", "open"}

\* What a cycle knows: it submits only while open and only keys it was given
\* and not refused, and an open cycle has adopted its refusal.
CycleInv ==
  \A c \in Cycles :
    /\ running[c] \subseteq inflight[c] \cap want[c]
    /\ running[c] \cap refused[c] = {}
    /\ phase[c] # "open" => running[c] = {}
    /\ c \in activities => Live(c)
    /\ Live(c) /\ c \notin activities => refused[c] = want[c]
    /\ phase[c] = "open" => cancel_event[c] \/ refused[c] \subseteq cancelled_keys[c]

\* How far a kill is, in terms of its barrier and its callbacks.
KillInv ==
  \A k \in Kills :
    /\ k \in barriers <=> stage[k] \in {"begun", "queued", "acquired"}
    /\ notified[k] \subseteq acts[k] /\ waited[k] \subseteq acts[k]
    /\ stage[k] = "idle" => notified[k] = {}
    /\ stage[k] \in {"idle", "begun"} => waited[k] = {}
    /\ stage[k] \in {"queued", "acquired"} => notified[k] = acts[k]
    /\ stage[k] = "acquired" => waited[k] = acts[k]

\* A live cycle meets a raised barrier in one of two ways: it was refused the
\* keys of the scope when it registered, or it was captured; then its cancel
\* callback leaves a lasting mark, and a wait that returned True stays true.
HandoverInv ==
  \A k \in Kills, c \in Cycles :
    /\ k \in barriers /\ Live(c) /\ c \notin acts[k] =>
         want[c] \cap Scope(k) \subseteq refused[c]
    /\ c \in notified[k] => Stopped(k, c)
    /\ k \in barriers /\ c \in waited[k] /\ quiesced[k] =>
         inflight[c] \cap Scope(k) = {}

\* register and begin between them leave no way around a barrier: every
\* submission under it is either refused, or cancelled and waited for.
GateInv == TypeOK /\ CycleInv /\ KillInv /\ HandoverInv
=============================================================================
