-------------------------- MODULE SubmitGate_proofs --------------------------
(***************************************************************************)
(* Proofs about the kill-priority gate, for any set of keys, cycles and    *)
(* kills.  GateInv is inductive; KillPriority, NoStartUnderKill and        *)
(* NoRevival follow from it.  NoCollateral needs AimedInv beside it.       *)
(***************************************************************************)
EXTENDS SubmitGate, TLAPS

-----------------------------------------------------------------------------
(* Type correctness.                                                       *)

\* Every step of the gate, of a cycle or of a kill keeps the variables in
\* their types.
LEMMA TypeStep == TypeOK /\ [Next]_vars => TypeOK'
<1> SUFFICES ASSUME TypeOK, [Next]_vars PROVE TypeOK'
  OBVIOUS
<1> USE DEF TypeOK, Phases, Stages, cycleVars, killVars
<1>1. ASSUME NEW c \in Cycles, CycleStep(c) PROVE TypeOK'
  <2>1. ASSUME NEW ks \in SUBSET Keys, Register(c, ks) PROVE TypeOK'
    <3>1. Blocked(ks) \in SUBSET Keys
      BY DEF Blocked
    <3> QED
      BY <2>1, <3>1 DEF Register
  <2>2. CASE AdoptRefusal(c)
    <3>1. CASE c \in activities
      BY <2>2, <3>1 DEF AdoptRefusal
    <3>2. CASE c \notin activities
      BY <2>2, <3>2 DEF AdoptRefusal
    <3> QED
      BY <3>1, <3>2
  <2>3. ASSUME NEW key \in Keys, Enter(c, key) \/ Settle(c, key) \/ Leave(c, key)
        PROVE  TypeOK'
    BY <2>3 DEF Enter, Settle, Leave
  <2>4. CASE UserCancel(c)
    BY <2>4 DEF UserCancel
  <2>5. CASE Close(c)
    BY <2>5 DEF Close
  <2> QED
    BY <1>1, <2>1, <2>2, <2>3, <2>4, <2>5 DEF CycleStep
<1>2. ASSUME NEW k \in Kills, KillStep(k) PROVE TypeOK'
  <2>1. ASSUME NEW ks \in SUBSET Keys, BarrierUp(k, ks) PROVE TypeOK'
    BY <2>1 DEF BarrierUp
  <2>2. ASSUME NEW c \in Cycles, CancelActivity(k, c) PROVE TypeOK'
    <3>1. CASE k \in WholeKills
      BY <2>2, <3>1 DEF CancelActivity
    <3>2. CASE k \notin WholeKills
      BY <2>2, <3>2 DEF CancelActivity
    <3> QED
      BY <3>1, <3>2
  <2>3. ASSUME NEW c \in Cycles, WaitActivity(k, c) PROVE TypeOK'
    BY <2>3 DEF WaitActivity
  <2>6. ASSUME NEW c \in Cycles, WaitTimeout(k, c) PROVE TypeOK'
    BY <2>6 DEF WaitTimeout
  <2>4. CASE Queue(k) \/ NotQueued(k)
    BY <2>4 DEF Queue, NotQueued
  <2>5. CASE Acquire(k) \/ Release(k)
    BY <2>5 DEF Acquire, Release
  <2> QED
    BY <1>2, <2>1, <2>2, <2>3, <2>4, <2>5, <2>6 DEF KillStep
<1>3. CASE UNCHANGED vars
  BY <1>3 DEF vars
<1> QED
  BY <1>1, <1>2, <1>3 DEF Next

\* The variables of the gate always have their types.
THEOREM TypeCorrect == Spec => []TypeOK
<1>1. Init => TypeOK
  BY DEF Init, TypeOK, Phases, Stages
<1> QED
  BY <1>1, TypeStep, PTL DEF Spec

-----------------------------------------------------------------------------
(* The inductive invariant.                                                *)

\* A step keeps what a cycle knows about itself.
LEMMA CycleInvStep == TypeOK /\ CycleInv /\ [Next]_vars => CycleInv'
<1> SUFFICES ASSUME TypeOK, CycleInv, [Next]_vars PROVE CycleInv'
  OBVIOUS
<1> USE DEF TypeOK, CycleInv, Live, cycleVars, killVars
<1>1. ASSUME NEW c \in Cycles, CycleStep(c) PROVE CycleInv'
  <2>1. ASSUME NEW ks \in SUBSET Keys, Register(c, ks) PROVE CycleInv'
    <3>1. Blocked(ks) \subseteq ks
      BY DEF Blocked
    <3> QED
      BY <2>1, <3>1 DEF Register
  <2>2. CASE AdoptRefusal(c)
    BY <2>2 DEF AdoptRefusal
  <2>3. ASSUME NEW key \in Keys, Enter(c, key) PROVE CycleInv'
    BY <2>3 DEF Enter, Cancelled
  <2>4. ASSUME NEW key \in Keys, Settle(c, key) PROVE CycleInv'
    BY <2>4 DEF Settle
  <2>5. ASSUME NEW key \in Keys, Leave(c, key) PROVE CycleInv'
    BY <2>5 DEF Leave
  <2>6. CASE UserCancel(c)
    BY <2>6 DEF UserCancel
  <2>7. CASE Close(c)
    BY <2>7 DEF Close
  <2> QED
    BY <1>1, <2>1, <2>2, <2>3, <2>4, <2>5, <2>6, <2>7 DEF CycleStep
<1>2. ASSUME NEW k \in Kills, KillStep(k) PROVE CycleInv'
  <2>1. ASSUME NEW c \in Cycles, CancelActivity(k, c) PROVE CycleInv'
    BY <2>1 DEF CancelActivity
  <2>2. CASE ~ \E c \in Cycles : CancelActivity(k, c)
    <3>1. UNCHANGED cycleVars
      BY <1>2, <2>2 DEF KillStep, BarrierUp, WaitActivity, WaitTimeout,
                        Queue, NotQueued, Acquire, Release
    <3> QED
      BY <3>1
  <2> QED
    BY <2>1, <2>2
<1>3. CASE UNCHANGED vars
  BY <1>3 DEF vars
<1> QED
  BY <1>1, <1>2, <1>3 DEF Next

\* A step keeps the bookkeeping of the kills.
LEMMA KillInvStep == TypeOK /\ KillInv /\ [Next]_vars => KillInv'
<1> SUFFICES ASSUME TypeOK, KillInv, [Next]_vars PROVE KillInv'
  OBVIOUS
<1> USE DEF TypeOK, KillInv, Stages, cycleVars, killVars
<1>1. ASSUME NEW c \in Cycles, CycleStep(c) PROVE KillInv'
  <2>1. UNCHANGED killVars
    BY <1>1 DEF CycleStep, Register, AdoptRefusal, Enter, Settle, Leave,
                UserCancel, Close
  <2> QED
    BY <2>1
<1>2. ASSUME NEW k \in Kills, KillStep(k) PROVE KillInv'
  <2>1. ASSUME NEW ks \in SUBSET Keys, BarrierUp(k, ks) PROVE KillInv'
    BY <2>1 DEF BarrierUp
  <2>2. ASSUME NEW c \in Cycles, CancelActivity(k, c) PROVE KillInv'
    BY <2>2 DEF CancelActivity
  <2>3. CASE Queue(k)
    BY <2>3 DEF Queue
  <2>4. CASE NotQueued(k)
    BY <2>4 DEF NotQueued
  <2>5. ASSUME NEW c \in Cycles, WaitActivity(k, c) \/ WaitTimeout(k, c)
        PROVE  KillInv'
    BY <2>5 DEF WaitActivity, WaitTimeout
  <2>6. CASE Acquire(k)
    BY <2>6 DEF Acquire
  <2>7. CASE Release(k)
    BY <2>7 DEF Release
  <2> QED
    BY <1>2, <2>1, <2>2, <2>3, <2>4, <2>5, <2>6, <2>7 DEF KillStep
<1>3. CASE UNCHANGED vars
  BY <1>3 DEF vars
<1> QED
  BY <1>1, <1>2, <1>3 DEF Next

\* The keys a raised barrier blocks are the ones a registration is refused.
LEMMA BlockedScope ==
  ASSUME NEW ks, NEW k \in barriers
  PROVE  ks \cap Scope(k) \subseteq Blocked(ks)
BY DEF Blocked

\* Nothing is entered under a mark: a submission of a cycle that a kill has
\* captured and notified, or refused at registration, cannot start.
LEMMA NoEntry ==
  ASSUME GateInv, NEW k \in Kills, NEW c \in Cycles, NEW key \in Keys,
         stage[k] \in {"queued", "acquired"}, Enter(c, key)
  PROVE  key \notin Scope(k)
<1> SUFFICES ASSUME key \in Scope(k) PROVE FALSE
  OBVIOUS
<1>1. phase[c] = "open" /\ key \in want[c] /\ ~Cancelled(c, key)
  BY DEF Enter
<1>2. CASE c \in acts[k]
  <2>1. c \in notified[k] /\ Stopped(k, c)
    BY <1>2 DEF GateInv, KillInv, HandoverInv
  <2> QED
    BY <1>1, <2>1 DEF Stopped, Scope, Cancelled
<1>3. CASE c \notin acts[k]
  <2>1. k \in barriers
    BY DEF GateInv, KillInv
  <2>2. key \in refused[c]
    BY <1>1, <1>3, <2>1 DEF GateInv, HandoverInv, Live
  <2> QED
    BY <1>1, <2>2 DEF GateInv, CycleInv, Cancelled
<1> QED
  BY <1>2, <1>3

\* A step keeps the handover between live cycles and raised barriers.
LEMMA HandoverInvStep == GateInv /\ [Next]_vars => HandoverInv'
<1> SUFFICES ASSUME GateInv, [Next]_vars,
                    NEW k \in Kills, NEW c \in Cycles
             PROVE  /\ (k \in barriers /\ Live(c) /\ c \notin acts[k] =>
                          want[c] \cap Scope(k) \subseteq refused[c])'
                    /\ (c \in notified[k] => Stopped(k, c))'
                    /\ (k \in barriers /\ c \in waited[k] /\ quiesced[k] =>
                          inflight[c] \cap Scope(k) = {})'
  BY DEF HandoverInv
<1> DEFINE Goal == /\ (k \in barriers /\ Live(c) /\ c \notin acts[k] =>
                         want[c] \cap Scope(k) \subseteq refused[c])'
                   /\ (c \in notified[k] => Stopped(k, c))'
                   /\ (k \in barriers /\ c \in waited[k] /\ quiesced[k] =>
                         inflight[c] \cap Scope(k) = {})'
<1>a. /\ k \in barriers /\ Live(c) /\ c \notin acts[k] =>
           want[c] \cap Scope(k) \subseteq refused[c]
      /\ c \in notified[k] => Stopped(k, c)
      /\ k \in barriers /\ c \in waited[k] /\ quiesced[k] =>
           inflight[c] \cap Scope(k) = {}
  BY DEF GateInv, HandoverInv
<1>b. TypeOK /\ CycleInv /\ KillInv
  BY DEF GateInv
<1>1. ASSUME NEW d \in Cycles, CycleStep(d) PROVE Goal
  <2>0. UNCHANGED killVars
    BY <1>1 DEF CycleStep, Register, AdoptRefusal, Enter, Settle, Leave,
                UserCancel, Close
  <2>s. Scope(k)' = Scope(k)
    BY <2>0 DEF Scope, killVars
  <2>1. ASSUME NEW ks \in SUBSET Keys, Register(d, ks) PROVE Goal
    <3>1. k \in barriers => ks \cap Scope(k) \subseteq Blocked(ks)
      BY BlockedScope
    <3> QED
      BY <1>a, <1>b, <2>0, <2>s, <2>1, <3>1
      DEF TypeOK, Register, Live, Stopped, killVars
  <2>2. CASE AdoptRefusal(d)
    BY <1>a, <1>b, <2>0, <2>s, <2>2
    DEF TypeOK, AdoptRefusal, Live, Stopped, killVars
  <2>3. ASSUME NEW key \in Keys, Enter(d, key) PROVE Goal
    <3>1. k \in barriers /\ c \in waited[k] => stage[k] \in {"queued", "acquired"}
      BY <1>b DEF KillInv
    <3>2. k \in barriers /\ c \in waited[k] => key \notin Scope(k)
      BY <2>3, <3>1, NoEntry
    <3> QED
      BY <1>a, <1>b, <2>0, <2>s, <2>3, <3>2
      DEF TypeOK, Enter, Live, Stopped, killVars
  <2>4. ASSUME NEW key \in Keys, Settle(d, key) \/ Leave(d, key) PROVE Goal
    BY <1>a, <1>b, <2>0, <2>s, <2>4
    DEF TypeOK, Settle, Leave, Live, Stopped, killVars
  <2>5. CASE UserCancel(d)
    BY <1>a, <1>b, <2>0, <2>s, <2>5
    DEF TypeOK, UserCancel, Live, Stopped, killVars
  <2>6. CASE Close(d)
    BY <1>a, <1>b, <2>0, <2>s, <2>6
    DEF TypeOK, Close, Live, Stopped, killVars
  <2> QED
    BY <1>1, <2>1, <2>2, <2>3, <2>4, <2>5, <2>6 DEF CycleStep
<1>2. ASSUME NEW l \in Kills, KillStep(l) PROVE Goal
  <2>1. ASSUME NEW ks \in SUBSET Keys, BarrierUp(l, ks) PROVE Goal
    <3>1. CASE l = k
      <4>1. notified[k] = {} /\ waited[k] = {} /\ acts'[k] = activities
        BY <1>b, <2>1, <3>1 DEF BarrierUp, KillInv, TypeOK
      <4>2. Live(c) /\ c \notin activities => refused[c] = want[c]
        BY <1>b DEF CycleInv
      <4> QED
        BY <2>1, <4>1, <4>2 DEF BarrierUp, Live, cycleVars
    <3>2. CASE l # k
      <4>1. Scope(k)' = Scope(k) /\ keys'[k] = keys[k] /\ acts'[k] = acts[k]
        BY <1>b, <2>1, <3>2 DEF BarrierUp, Scope, TypeOK
      <4> QED
        BY <1>a, <2>1, <3>2, <4>1 DEF BarrierUp, Live, Stopped, cycleVars
    <3> QED
      BY <3>1, <3>2
  <2>2. ASSUME NEW d \in Cycles, CancelActivity(l, d) PROVE Goal
    <3>1. Scope(k)' = Scope(k)
      BY <2>2 DEF CancelActivity, Scope
    <3> QED
      BY <1>a, <1>b, <2>2, <3>1 DEF CancelActivity, Live, Stopped, TypeOK
  <2>3. ASSUME NEW d \in Cycles, WaitActivity(l, d) \/ WaitTimeout(l, d)
        PROVE  Goal
    <3>1. Scope(k)' = Scope(k)
      BY <2>3 DEF WaitActivity, WaitTimeout, Scope
    <3> QED
      BY <1>a, <1>b, <2>3, <3>1
      DEF WaitActivity, WaitTimeout, Live, Stopped, TypeOK, cycleVars
  <2>4. CASE Queue(l) \/ NotQueued(l) \/ Acquire(l) \/ Release(l)
    <3>1. Scope(k)' = Scope(k)
      BY <2>4 DEF Queue, NotQueued, Acquire, Release, Scope
    <3> QED
      BY <1>a, <2>4, <3>1
      DEF Queue, NotQueued, Acquire, Release, Live, Stopped, cycleVars
  <2> QED
    BY <1>2, <2>1, <2>2, <2>3, <2>4 DEF KillStep
<1>3. CASE UNCHANGED vars
  BY <1>a, <1>3 DEF vars, cycleVars, killVars, Scope, Live, Stopped
<1> QED
  BY <1>1, <1>2, <1>3 DEF Next

\* GateInv holds in every reachable state.
THEOREM GateInvariant == Spec => []GateInv
<1>1. Init => GateInv
  BY DEF Init, GateInv, TypeOK, Phases, Stages, CycleInv, KillInv,
         HandoverInv, Live
<1>2. GateInv /\ [Next]_vars => GateInv'
  BY TypeStep, CycleInvStep, KillInvStep, HandoverInvStep DEF GateInv
<1> QED
  BY <1>1, <1>2, PTL DEF Spec

-----------------------------------------------------------------------------
(* What the gate promises.                                                 *)

\* manager.kill's promise: once acquire has returned True, and until release,
\* no cycle is submitting a key of the kill's scope.
THEOREM KillPriorityHolds == Spec => []KillPriority
<1>1. GateInv => KillPriority
  <2> SUFFICES ASSUME GateInv, NEW k \in Kills, NEW c \in Cycles,
                      stage[k] = "acquired", quiesced[k]
               PROVE  running[c] \cap Scope(k) = {}
    BY DEF KillPriority
  <2>1. k \in barriers /\ waited[k] = acts[k]
    BY DEF GateInv, KillInv
  <2>2. CASE c \in acts[k]
    <3>1. inflight[c] \cap Scope(k) = {}
      BY <2>1, <2>2 DEF GateInv, HandoverInv
    <3> QED
      BY <3>1 DEF GateInv, CycleInv
  <2>3. CASE c \notin acts[k] /\ phase[c] = "open"
    <3>1. want[c] \cap Scope(k) \subseteq refused[c]
      BY <2>1, <2>3 DEF GateInv, HandoverInv, Live
    <3> QED
      BY <3>1 DEF GateInv, CycleInv
  <2>4. CASE phase[c] # "open"
    BY <2>4 DEF GateInv, CycleInv
  <2> QED
    BY <2>2, <2>3, <2>4
<1> QED
  BY <1>1, GateInvariant, PTL

\* The only step that starts a submission is Enter.
LEMMA OnlyEnterStarts ==
  ASSUME TypeOK, Next, ~ \E d \in Cycles, key \in Keys : Enter(d, key),
         NEW c \in Cycles
  PROVE  running'[c] \subseteq running[c]
<1>1. ASSUME NEW d \in Cycles, CycleStep(d)
      PROVE  running'[c] \subseteq running[c]
  BY <1>1 DEF CycleStep, Register, AdoptRefusal, Settle, Leave,
              UserCancel, Close, TypeOK
<1>2. ASSUME NEW l \in Kills, KillStep(l)
      PROVE  running'[c] = running[c]
  BY <1>2 DEF KillStep, BarrierUp, CancelActivity, WaitActivity,
              WaitTimeout, Queue, NotQueued, Acquire, Release, cycleVars
<1> QED
  BY <1>1, <1>2 DEF Next

\* From the return of begin to the release no submission of a key in the
\* kill's scope starts, even when the wait for running wrappers times out.
THEOREM NoStartUnderKillHolds == Spec => NoStartUnderKill
<1> DEFINE Quiet == \A k \in Kills, c \in Cycles :
                      stage[k] \in {"queued", "acquired"} =>
                        running'[c] \cap Scope(k) \subseteq running[c]
<1>1. GateInv /\ [Next]_vars => [Quiet]_vars
  <2> SUFFICES ASSUME GateInv, Next, NEW k \in Kills, NEW c \in Cycles,
                      stage[k] \in {"queued", "acquired"}
               PROVE  running'[c] \cap Scope(k) \subseteq running[c]
    OBVIOUS
  <2>1. ASSUME NEW d \in Cycles, NEW key \in Keys, Enter(d, key)
        PROVE  running'[c] \cap Scope(k) \subseteq running[c]
    <3>1. key \notin Scope(k)
      BY <2>1, NoEntry
    <3> QED
      BY <2>1, <3>1 DEF Enter, GateInv, TypeOK
  <2>2. CASE ~ \E d \in Cycles, key \in Keys : Enter(d, key)
    BY <2>2, OnlyEnterStarts DEF GateInv
  <2> QED
    BY <2>1, <2>2
<1> QED
  BY <1>1, GateInvariant, PTL DEF Spec, NoStartUnderKill

\* Not even after the release: what a notified cycle was cancelled for, it
\* never starts again.
THEOREM NoRevivalHolds == Spec => NoRevival
<1> DEFINE Quiet == \A k \in Kills, c \in Cycles :
                      c \in notified[k] => running'[c] \cap Scope(k) \subseteq running[c]
<1>1. GateInv /\ [Next]_vars => [Quiet]_vars
  <2> SUFFICES ASSUME GateInv, Next, NEW k \in Kills, NEW c \in Cycles,
                      c \in notified[k]
               PROVE  running'[c] \cap Scope(k) \subseteq running[c]
    OBVIOUS
  <2>1. ASSUME NEW d \in Cycles, NEW key \in Keys, Enter(d, key)
        PROVE  running'[c] \cap Scope(k) \subseteq running[c]
    <3>1. Stopped(k, c)
      BY DEF GateInv, HandoverInv
    <3>2. d = c => key \notin Scope(k)
      BY <2>1, <3>1 DEF Enter, Cancelled, Stopped, Scope
    <3> QED
      BY <2>1, <3>2 DEF Enter, GateInv, TypeOK
  <2>2. CASE ~ \E d \in Cycles, key \in Keys : Enter(d, key)
    BY <2>2, OnlyEnterStarts DEF GateInv
  <2> QED
    BY <2>1, <2>2
<1> QED
  BY <1>1, GateInvariant, PTL DEF Spec, NoRevival

-----------------------------------------------------------------------------
(* Only what a kill aims at is cancelled.                                  *)

\* Some kill that was begun covers the key.
Aimed(key) == \E k \in Kills : stage[k] # "idle" /\ key \in Scope(k)

\* NoCollateral is not inductive: a key is marked when the cycle adopts the
\* refusal its registration returned, so the refused keys are aimed at too.
AimedInv ==
  \A c \in Cycles : \A key \in cancelled_keys[c] \cup refused[c] : Aimed(key)

\* A kill that was begun stays begun and keeps its scope.
LEMMA AimedStays ==
  ASSUME TypeOK, [Next]_vars, NEW key, Aimed(key)
  PROVE  Aimed(key)'
<1>1. PICK k \in Kills : stage[k] # "idle" /\ key \in Scope(k)
  BY DEF Aimed
<1>2. ASSUME NEW c \in Cycles, CycleStep(c) PROVE UNCHANGED killVars
  BY <1>2 DEF CycleStep, Register, AdoptRefusal, Enter, Settle, Leave,
              UserCancel, Close
<1>3. ASSUME NEW l \in Kills, KillStep(l)
      PROVE  stage'[k] # "idle" /\ keys'[k] = keys[k]
  BY <1>1, <1>3 DEF KillStep, BarrierUp, CancelActivity, WaitActivity,
                    WaitTimeout, Queue, NotQueued, Acquire, Release, TypeOK
<1>4. stage'[k] # "idle" /\ keys'[k] = keys[k]
  BY <1>1, <1>2, <1>3 DEF Next, vars, killVars
<1> QED
  BY <1>1, <1>4 DEF Aimed, Scope

\* A selective kill marks the keys it aims at, a registration is refused the
\* keys raised barriers cover, and nothing else marks or refuses a key.
LEMMA AimedInvStep == GateInv /\ AimedInv /\ [Next]_vars => AimedInv'
<1> SUFFICES ASSUME GateInv, AimedInv, [Next]_vars,
                    NEW c \in Cycles, NEW key \in (cancelled_keys[c] \cup refused[c])'
             PROVE  Aimed(key)'
  BY DEF AimedInv
<1>t. TypeOK
  BY DEF GateInv
<1>1. SUFFICES ASSUME key \notin cancelled_keys[c] \cup refused[c]
               PROVE  Aimed(key)
  BY <1>t, AimedStays DEF AimedInv
<1>2. ASSUME NEW d \in Cycles, CycleStep(d) PROVE Aimed(key)
  <2>1. ASSUME NEW ks \in SUBSET Keys, Register(d, ks) PROVE Aimed(key)
    <3>1. key \in Blocked(ks)
      BY <1>1, <1>t, <2>1 DEF Register, TypeOK
    <3> QED
      BY <1>t, <3>1 DEF Blocked, Aimed, GateInv, KillInv, TypeOK
  <2>2. ~AdoptRefusal(d)
    BY <1>1, <1>t DEF AdoptRefusal, TypeOK
  <2> QED
    BY <1>1, <1>2, <2>1, <2>2
    DEF CycleStep, Enter, Settle, Leave, UserCancel, Close
<1>3. ASSUME NEW l \in Kills, KillStep(l) PROVE Aimed(key)
  <2>1. PICK d \in Cycles : CancelActivity(l, d)
    BY <1>1, <1>3 DEF KillStep, BarrierUp, WaitActivity, WaitTimeout,
                      Queue, NotQueued, Acquire, Release, cycleVars
  <2>2. l \notin WholeKills /\ key \in keys[l] /\ stage[l] = "begun"
    BY <1>1, <1>t, <2>1 DEF CancelActivity, TypeOK
  <2> QED
    BY <2>2 DEF Aimed, Scope
<1> QED
  BY <1>1, <1>2, <1>3 DEF Next, vars, cycleVars

\* A cycle loses single keys only to kills that aim at them; the submissions
\* of all others continue.
THEOREM NoCollateralHolds == Spec => []NoCollateral
<1>1. Init => AimedInv
  BY DEF Init, AimedInv
<1>2. AimedInv => NoCollateral
  BY DEF AimedInv, Aimed, NoCollateral
<1> QED
  BY <1>1, <1>2, AimedInvStep, GateInvariant, PTL DEF Spec
=============================================================================
