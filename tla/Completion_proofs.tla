-------------------------- MODULE Completion_proofs --------------------------
(***************************************************************************)
(* Proofs about the completion of a jobset, for any set of keys, any       *)
(* number of cycles and kills, and any setting of the options.             *)
(***************************************************************************)
EXTENDS Completion, TLAPS

-----------------------------------------------------------------------------
(* The inductive invariant.                                                *)

\* The signals on the GUI thread's queue.
Elems(s) == {s[i] : i \in 1..Len(s)}
Waiting  == Elems(queue)
ResetOf(c)    == [kind |-> "reset", of |-> c]
RejectedOf(c) == [kind |-> "rejected", of |-> c]
KilledBy(k) == [kind |-> "killed", of |-> k]

\* A key a cycle has launched is still its own, or it was edited since and is
\* not finished before a new cycle takes it.
Own(c) == \A key \in launched[c] : rec[key].run = c \/ rec[key].state = "CREATED"

\* An edited record belongs to no execution, and a kill aims at none until it
\* has posted its result.
RecInv ==
  /\ \A key \in Members : rec[key].state = "CREATED" => rec[key].run = None
  /\ \A k \in Kills, key \in Members :
       key \in plan[k] => kill[k] \in {"planned", "verified"} /\ rec[key].state # "CREATED"
  /\ \A k \in Kills : KilledBy(k) \in Waiting => kill[k] \in {"sent", "over"}

\* The active cycle has been submitted; what is pending or armed is of it, and
\* the records it has reset and not settled are its own.
CycleInv ==
  /\ cycle = None <=> launch = "none"
  /\ cycle # None => /\ cycle \in used
                     /\ pending_arm \in {None, cycle} /\ post_process \in {None, cycle}
  /\ launch \in {"check", "reset"} => todo # {}
  /\ launch = "check" => launched[cycle] = {}
  /\ launch = "reset" => launched[cycle] # {}
  /\ launch \in {"reset", "running"} => \A key \in todo : rec[key].run = cycle

\* What is pending or armed has not run; it is of a cycle whose records are its own.
ArmInv ==
  /\ \A c \in Cycles : c \notin used => launched[c] = {} /\ ran[c] = 0
  /\ \A c \in Cycles : ResetOf(c) \in Waiting => launched[c] # {}
  /\ pending_arm # None =>
       pending_arm \in used /\ post_process = None /\ ran[pending_arm] = 0 /\ Own(pending_arm)
  /\ post_process # None =>
       /\ post_process \in used /\ ran[post_process] = 0 /\ Own(post_process)
       /\ launched[post_process] # {}

\* Completion is judged on records nobody changes.
JudgeInv ==
  judging = "seen" =>
    /\ exists /\ cycle = None /\ AllTerminal(rec) /\ AllTerminal(recs)
    /\ DOMAIN recs = Members /\ (ActiveKills = {} => rec = recs)

\* A removed jobset: nothing is armed, and the last request stops the timer.
GoneInv ==
  ~exists =>
    /\ pending_arm = None /\ post_process = None /\ ~finished_latch /\ judging # "seen"
    /\ requests = << >> => ~timer
    /\ requests # << >> => requests[Len(requests)] = "stop"

\* What is told is latched until a reset or an edit owes it again, unless it was
\* told ahead of the records_reset that releases the latch.
OnceInv ==
  /\ news = "twice" => ahead
  /\ exists /\ news # "owed" => AllTerminal(rec) /\ (finished_latch \/ ahead)
  /\ exists /\ news # "owed" /\ ~ahead => \A c \in Cycles : ResetOf(c) \in Waiting => c # pending_arm
  /\ launch \in {"reset", "running"} => news = "owed"

\* A latch of an earlier completion is released by the record that was edited or by
\* the records_reset that is on its way, or it stays because a cycle that has reset
\* a record confirmed nothing.
Held(key) ==
  \/ rec[key].state = "CREATED" \/ rec[key].run \in unconfirmed
  \/ \E c \in Cycles : rec[key].run = c /\ ResetOf(c) \in Waiting
LatchInv ==
  exists /\ news = "owed" /\ finished_latch => launch = "reset" \/ \E key \in Members : Held(key)

\* Behind a records_reset comes the submit_finished of its cycle.
BehindInv ==
  \A i \in 1..Len(queue) : queue[i].kind = "reset" =>
    launch = "running" \/ \E j \in (i + 1)..Len(queue) : queue[j].kind = "finished"

\* A completion that is owed will be judged: somebody has still to post a
\* signal, one is waiting, or it is being judged.
Coming ==
  \/ cycle # None \/ ActiveKills # {} \/ judging # "no" \/ poll = "emit"
  \/ \E s \in Waiting : s.kind \in {"finished", "updated", "killed"}
ComingInv == exists /\ AllTerminal(rec) /\ ~AllKilled(rec) /\ news = "owed" => Coming \/ Excused

Inv ==
  /\ TypeOK /\ RecInv /\ CycleInv /\ ArmInv /\ JudgeInv /\ GoneInv
  /\ OnceInv /\ LatchInv /\ BehindInv /\ ComingInv

-----------------------------------------------------------------------------
(* The queues.                                                             *)

\* What is on a queue after a post.
LEMMA Appended ==
  ASSUME NEW S, NEW s \in Seq(S), NEW e \in S
  PROVE  Append(s, e) \in Seq(S) /\ Elems(Append(s, e)) = Elems(s) \cup {e}
<1>1. /\ Append(s, e) \in Seq(S) /\ Len(s) \in Nat /\ Len(Append(s, e)) = Len(s) + 1
      /\ \A i \in 1..Len(s) : Append(s, e)[i] = s[i]
      /\ Append(s, e)[Len(s) + 1] = e
  OBVIOUS
<1>2. 1..(Len(s) + 1) = (1..Len(s)) \cup {Len(s) + 1}
  BY <1>1
<1> QED
  BY <1>1, <1>2 DEF Elems

\* What is on a queue after two posts.
LEMMA Joined ==
  ASSUME NEW S, NEW s \in Seq(S), NEW t \in Seq(S)
  PROVE  s \o t \in Seq(S) /\ Elems(s \o t) = Elems(s) \cup Elems(t)
<1>1. /\ s \o t \in Seq(S) /\ Len(s) \in Nat /\ Len(t) \in Nat /\ Len(s \o t) = Len(s) + Len(t)
      /\ \A i \in 1..Len(s) : (s \o t)[i] = s[i]
      /\ \A i \in 1..Len(t) : (s \o t)[Len(s) + i] = t[i]
  BY SMTT(30)
<1>2. \A i \in 1..(Len(s) + Len(t)) : i \in 1..Len(s) \/ \E j \in 1..Len(t) : i = Len(s) + j
  <2> SUFFICES ASSUME NEW i \in 1..(Len(s) + Len(t)), i \notin 1..Len(s)
               PROVE  \E j \in 1..Len(t) : i = Len(s) + j
    OBVIOUS
  <2> WITNESS i - Len(s) \in 1..Len(t)
  <2> QED
    BY <1>1
<1>3. /\ \A i \in 1..Len(s) : i \in 1..(Len(s) + Len(t))
      /\ \A i \in 1..Len(t) : Len(s) + i \in 1..(Len(s) + Len(t))
  BY <1>1
<1>4. Elems(s \o t) \subseteq Elems(s) \cup Elems(t)
  BY <1>1, <1>2 DEF Elems
<1>5. Elems(s) \subseteq Elems(s \o t)
  BY <1>1, <1>3 DEF Elems
<1>6. Elems(t) \subseteq Elems(s \o t)
  BY <1>1, <1>3 DEF Elems
<1> QED
  BY <1>1, <1>4, <1>5, <1>6

\* What is on a queue when its head is served.
LEMMA Served ==
  ASSUME NEW S, NEW s \in Seq(S), s # << >>
  PROVE  /\ Head(s) \in S /\ Tail(s) \in Seq(S)
         /\ Elems(s) = {Head(s)} \cup Elems(Tail(s))
<1>1. /\ Len(s) \in Nat /\ Len(s) >= 1 /\ Head(s) = s[1] /\ s[1] \in S
      /\ Tail(s) \in Seq(S) /\ Len(Tail(s)) = Len(s) - 1
      /\ \A i \in 1..(Len(s) - 1) : Tail(s)[i] = s[i + 1]
  OBVIOUS
<1>2. \A i \in 1..Len(s) : i = 1 \/ (i - 1 \in 1..(Len(s) - 1) /\ (i - 1) + 1 = i)
  BY <1>1
<1>3. /\ 1 \in 1..Len(s) 
      /\ \A i \in 1..(Len(s) - 1) : i + 1 \in 1..Len(s)
  BY <1>1
<1>4. \A i \in 1..Len(s) : s[i] = Head(s) \/ \E j \in 1..(Len(s) - 1) : s[i] = Tail(s)[j]
  BY <1>1, <1>2
<1> QED
  BY <1>1, <1>3, <1>4 DEF Elems

\* The signals.
LEMMA SignalTypes ==
  /\ \A c \in Cycles : /\ ResetOf(c) \in Signals /\ RejectedOf(c) \in Signals
                       /\ [kind |-> "finished", of |-> c] \in Signals
  /\ \A k \in Kills : KilledBy(k) \in Signals /\ KilledBy(k).kind = "killed"
  /\ [kind |-> "updated", of |-> None] \in Signals
  /\ \A s \in Signals : /\ s.kind = "killed" => s.of \in Kills /\ s = KilledBy(s.of)
                        /\ s.kind = "reset" => s.of \in Cycles /\ s = ResetOf(s.of)
                        /\ s.kind = "rejected" => s.of \in Cycles /\ s = RejectedOf(s.of)
  /\ \A c : ResetOf(c).kind = "reset" /\ ResetOf(c).of = c
  /\ \A c : RejectedOf(c).kind = "rejected" /\ RejectedOf(c).of = c
BY DEF Signals, ResetOf, RejectedOf, KilledBy

-----------------------------------------------------------------------------
(* What leaves the invariant alone.                                        *)

\* The records keep their execution, and an edited one stays as it is.
RecMoves ==
  /\ rec' \in [Members -> Records]
  /\ \A key \in Members : /\ rec'[key].run = rec[key].run
                          /\ rec'[key].state = "CREATED" <=> rec[key].state = "CREATED"

\* What has ended has ended.
EndsStay == \A key \in Members : rec[key].state = "END" => rec'[key].state = "END"

\* No signal that concerns the arming is posted.
NoNews ==
  \A c \in Cycles : ResetOf(c) \in Waiting' => ResetOf(c) \in Waiting

\* No signal that concerns the arming is served.
ResetsStay == \A c \in Cycles : ResetOf(c) \in Waiting => ResetOf(c) \in Waiting'

\* No kill posts its result.
NoKilled == \A k \in Kills : KilledBy(k) \in Waiting' => KilledBy(k) \in Waiting

\* Records that do not change are records that move within their execution.
LEMMA RecStill ==
  ASSUME Inv, UNCHANGED rec
  PROVE  RecMoves /\ EndsStay
BY DEF Inv, TypeOK, StoreTypes, RecMoves, EndsStay

\* A queue that does not change brings no news.
LEMMA QueueStill ==
  ASSUME UNCHANGED queue
  PROVE  Waiting' = Waiting /\ NoNews /\ ResetsStay /\ NoKilled
<1>1. Waiting' = Waiting
  BY DEF Waiting
<1> QED
  BY <1>1 DEF NoNews, ResetsStay, NoKilled

\* The kills under way are read off their stages.
LEMMA KillStill ==
  ASSUME UNCHANGED kill
  PROVE  ActiveKills' = ActiveKills
BY DEF ActiveKills

\* The types of what does not change.
LEMMA TypesStill ==
  ASSUME Inv, RecMoves
  PROVE  /\ UNCHANGED exists => StoreTypes'
         /\ UNCHANGED cycleVars => CycleTypes'
         /\ UNCHANGED killVars => KillTypes'
         /\ UNCHANGED armVars => ArmTypes'
         /\ UNCHANGED queue => QueueTypes'
         /\ UNCHANGED judgeVars => JudgeTypes'
         /\ UNCHANGED pollVars => PollTypes'
         /\ UNCHANGED seenVars => SeenTypes'
<1>1. Members' = Members /\ rec' \in [Members -> Records]
  BY DEF RecMoves, Members
<1>2. TypeOK
  BY DEF Inv
<1>3. UNCHANGED exists => StoreTypes'
  BY <1>1, <1>2 DEF TypeOK, StoreTypes
<1>4. UNCHANGED cycleVars => CycleTypes'
  BY <1>1, <1>2 DEF TypeOK, CycleTypes, cycleVars
<1>5. UNCHANGED killVars => KillTypes'
  BY <1>1, <1>2 DEF TypeOK, KillTypes, killVars
<1>6. UNCHANGED judgeVars => JudgeTypes'
  BY <1>1, <1>2 DEF TypeOK, JudgeTypes, judgeVars
<1>7. /\ UNCHANGED armVars => ArmTypes'
      /\ UNCHANGED queue => QueueTypes'
      /\ UNCHANGED pollVars => PollTypes'
      /\ UNCHANGED seenVars => SeenTypes'
  BY <1>2 DEF TypeOK, ArmTypes, QueueTypes, PollTypes, SeenTypes, armVars, pollVars, seenVars
<1> QED
  BY <1>3, <1>4, <1>5, <1>6, <1>7

\* A post that is no records_reset stays behind those that wait; if the cycle ends
\* with it, it is submit_finished.
LEMMA BehindPost ==
  ASSUME Inv, NEW s \in Signals, queue' = Append(queue, s), s.kind # "reset",
         launch' = launch \/ s.kind = "finished"
  PROVE  BehindInv'
<1>1. queue \in Seq(Signals) /\ BehindInv
  BY DEF Inv, TypeOK, QueueTypes
<1>2. /\ Len(queue) \in Nat /\ Len(queue') = Len(queue) + 1 /\ queue'[Len(queue) + 1] = s
      /\ \A i \in 1..Len(queue) : queue'[i] = queue[i]
  BY <1>1
<1>3. SUFFICES ASSUME NEW i \in 1..Len(queue'), queue'[i].kind = "reset", launch' # "running"
               PROVE  \E j \in (i + 1)..Len(queue') : queue'[j].kind = "finished"
  BY DEF BehindInv
<1>4. i \in 1..Len(queue) /\ queue[i].kind = "reset"
  BY <1>2, <1>3
<1>5. CASE s.kind = "finished"
  <2>1. Len(queue) + 1 \in (i + 1)..Len(queue')
    BY <1>2, <1>4
  <2> QED
    BY <1>2, <1>5, <2>1
<1>6. CASE launch' = launch
  <2>1. PICK j \in (i + 1)..Len(queue) : queue[j].kind = "finished"
    BY <1>1, <1>3, <1>4, <1>6 DEF BehindInv
  <2>2. j \in 1..Len(queue) /\ j \in (i + 1)..Len(queue')
    BY <1>2, <1>4
  <2> QED
    BY <1>2, <2>1, <2>2
<1> QED
  BY <1>5, <1>6

\* So do posts at the end of a cycle that was not launched.
LEMMA BehindJoin ==
  ASSUME Inv, NEW t \in Seq(Signals), queue' = queue \o t, launch # "running",
         \A i \in 1..Len(t) : t[i].kind # "reset"
  PROVE  BehindInv'
<1>1. queue \in Seq(Signals) /\ BehindInv
  BY DEF Inv, TypeOK, QueueTypes
<1>2. /\ Len(queue) \in Nat /\ Len(t) \in Nat /\ Len(queue') = Len(queue) + Len(t)
      /\ \A i \in 1..Len(queue) : queue'[i] = queue[i]
      /\ \A i \in 1..Len(t) : queue'[Len(queue) + i] = t[i]
  BY <1>1, SMTT(30)
<1>3. SUFFICES ASSUME NEW i \in 1..Len(queue'), queue'[i].kind = "reset"
               PROVE  \E j \in (i + 1)..Len(queue') : queue'[j].kind = "finished"
  BY DEF BehindInv
<1>4. i \in 1..Len(queue)
  <2> SUFFICES ASSUME i \notin 1..Len(queue) PROVE FALSE
    OBVIOUS
  <2>1. i - Len(queue) \in 1..Len(t) /\ i = Len(queue) + (i - Len(queue))
    BY <1>2
  <2> QED
    BY <1>2, <1>3, <2>1
<1>5. PICK j \in (i + 1)..Len(queue) : queue[j].kind = "finished"
  BY <1>1, <1>2, <1>3, <1>4 DEF BehindInv
<1>6. j \in 1..Len(queue) /\ j \in (i + 1)..Len(queue')
  BY <1>2, <1>4
<1> QED
  BY <1>2, <1>5, <1>6

\* ... and a signal that is served leaves the others in their order.
LEMMA BehindServed ==
  ASSUME Inv, queue # << >>, queue' = Tail(queue), UNCHANGED launch
  PROVE  /\ BehindInv'
         /\ Head(queue).kind = "reset" /\ launch # "running" =>
              \E s \in Waiting' : s.kind = "finished"
<1>1. queue \in Seq(Signals) /\ BehindInv
  BY DEF Inv, TypeOK, QueueTypes
<1>2. /\ Len(queue) \in Nat /\ Len(queue) >= 1 /\ Len(queue') = Len(queue) - 1 /\ Head(queue) = queue[1]
      /\ \A i \in 1..(Len(queue) - 1) : queue'[i] = queue[i + 1]
  BY <1>1
<1>3. ASSUME NEW i \in 1..Len(queue), queue[i].kind = "reset", launch # "running"
      PROVE  \E j \in i..Len(queue') : queue'[j].kind = "finished"
  <2>1. PICK j \in (i + 1)..Len(queue) : queue[j].kind = "finished"
    BY <1>1, <1>3 DEF BehindInv
  <2>2. j - 1 \in i..Len(queue') /\ j - 1 \in 1..(Len(queue) - 1) /\ (j - 1) + 1 = j
    BY <1>2
  <2>3. queue'[j - 1] = queue[j]
    BY <1>2, <2>2
  <2> QED
    BY <2>1, <2>2, <2>3
<1>4. BehindInv'
  <2> SUFFICES ASSUME NEW i \in 1..Len(queue'), queue'[i].kind = "reset", launch' # "running"
               PROVE  \E j \in (i + 1)..Len(queue') : queue'[j].kind = "finished"
    BY DEF BehindInv
  <2>1. i + 1 \in 1..Len(queue) /\ queue[i + 1].kind = "reset"
    BY <1>2
  <2> QED
    BY <1>3, <2>1
<1>5. ASSUME Head(queue).kind = "reset", launch # "running"
      PROVE  \E s \in Waiting' : s.kind = "finished"
  <2>1. 1 \in 1..Len(queue) /\ queue[1].kind = "reset"
    BY <1>2, <1>5
  <2>2. PICK j \in 1..Len(queue') : queue'[j].kind = "finished"
    BY <1>3, <1>5, <2>1
  <2> QED
    BY <2>2 DEF Waiting, Elems
<1> QED
  BY <1>4, <1>5

\* What a records_reset that waits promises.
LEMMA BehindComing ==
  ASSUME Inv, NEW c \in Cycles, ResetOf(c) \in Waiting, launch # "running"
  PROVE  \E s \in Waiting : s.kind = "finished"
<1>1. queue \in Seq(Signals) /\ Len(queue) \in Nat /\ BehindInv
  BY DEF Inv, TypeOK, QueueTypes
<1>2. PICK i \in 1..Len(queue) : queue[i] = ResetOf(c)
  BY DEF Waiting, Elems
<1>3. PICK j \in (i + 1)..Len(queue) : queue[j].kind = "finished"
  BY <1>1, <1>2 DEF BehindInv, ResetOf
<1>4. j \in 1..Len(queue)
  BY <1>1
<1> QED
  BY <1>3, <1>4 DEF Waiting, Elems

\* The conjuncts a step does not disturb.
LEMMA Still ==
  ASSUME Inv, RecMoves
  PROVE  /\ UNCHANGED killVars /\ NoKilled => RecInv'
         /\ UNCHANGED <<used, cycle, launch, todo, launched, pending_arm, post_process>> => CycleInv'
         /\ UNCHANGED <<used, launched, ran, pending_arm, post_process>> /\ NoNews => ArmInv'
         /\ UNCHANGED <<exists, cycle, rec, recs, judging, kill>> => JudgeInv'
         /\ UNCHANGED <<exists, armVars, judging, requests, timer>> => GoneInv'
<1>1. Members' = Members
  BY DEF RecMoves, Members
<1>2. TypeOK /\ RecInv /\ CycleInv /\ ArmInv /\ JudgeInv /\ GoneInv
  BY DEF Inv
<1>3. /\ todo \subseteq Members /\ \A c \in Cycles : launched[c] \subseteq Members
      /\ cycle \in Cycles \cup {None}
      /\ pending_arm \in Cycles \cup {None} /\ post_process \in Cycles \cup {None}
  BY <1>2 DEF TypeOK, CycleTypes, ArmTypes
<1>4. UNCHANGED killVars /\ NoKilled => RecInv'
  BY <1>1, <1>2 DEF RecInv, RecMoves, NoKilled, killVars
<1>5. UNCHANGED <<used, cycle, launch, todo, launched, pending_arm, post_process>> => CycleInv'
  BY <1>2, <1>3 DEF CycleInv, RecMoves
<1>6. UNCHANGED launched => \A c \in Cycles : Own(c) => Own(c)'
  BY <1>3 DEF Own, RecMoves
<1>7. UNCHANGED <<used, launched, ran, pending_arm, post_process>> /\ NoNews => ArmInv'
  BY <1>2, <1>3, <1>6 DEF ArmInv, NoNews
<1>8. UNCHANGED <<exists, cycle, rec, recs, judging, kill>> => JudgeInv'
  BY <1>1, <1>2, KillStill DEF JudgeInv, AllTerminal
<1>9. UNCHANGED <<exists, armVars, judging, requests, timer>> => GoneInv'
  BY <1>2 DEF GoneInv, armVars
<1> QED
  BY <1>4, <1>5, <1>7, <1>8, <1>9

\* ... and those about what is told.
LEMMA StillTold ==
  ASSUME Inv, RecMoves
  PROVE  /\ /\ UNCHANGED <<exists, news, ahead, finished_latch, pending_arm, launch>> /\ NoNews
            /\ EndsStay \/ launch \in {"reset", "running"}
            => OnceInv'
         /\ UNCHANGED <<exists, news, unconfirmed, finished_latch, launch>> /\ ResetsStay => LatchInv'
         /\ UNCHANGED <<queue, launch>> => BehindInv'
         /\ UNCHANGED <<exists, rec, news, unconfirmed, finished_latch, used, cycle, launched>>
            /\ (Coming => Coming')
            => ComingInv'
<1>1. Members' = Members
  BY DEF RecMoves, Members
<1>2. OnceInv /\ LatchInv /\ BehindInv /\ ComingInv
  BY DEF Inv
<1>3. ASSUME UNCHANGED <<exists, news, ahead, finished_latch, pending_arm, launch>>, NoNews,
             EndsStay \/ launch \in {"reset", "running"}
      PROVE  OnceInv'
  <2>1. exists /\ news # "owed" => AllTerminal(rec')
    BY <1>1, <1>2, <1>3 DEF OnceInv, AllTerminal, EndsStay, Members
  <2> QED
    BY <1>2, <1>3, <2>1 DEF OnceInv, NoNews
<1>4. ASSUME UNCHANGED <<exists, news, unconfirmed, finished_latch, launch>>, ResetsStay
      PROVE  LatchInv'
  <2>1. \A key \in Members : Held(key) => Held(key)'
    BY <1>4 DEF Held, RecMoves, ResetsStay
  <2> QED
    BY <1>1, <1>2, <1>4, <2>1 DEF LatchInv
<1>5. ASSUME UNCHANGED <<queue, launch>>
      PROVE  BehindInv'
  BY <1>2, <1>5 DEF BehindInv
<1>6. ASSUME UNCHANGED <<exists, rec, news, unconfirmed, finished_latch, used, cycle, launched>>,
             Coming => Coming'
      PROVE  ComingInv'
  <2>1. Excused => Excused'
    BY <1>1, <1>6 DEF Excused
  <2> QED
    BY <1>2, <1>6, <2>1 DEF ComingInv, AllTerminal, AllKilled
<1> QED
  BY <1>3, <1>4, <1>5, <1>6

-----------------------------------------------------------------------------
(* The polling thread.                                                     *)

\* A step of the polling thread that posts nothing and stores nothing.
LEMMA PollFrame ==
  ASSUME Inv, PollTypes', GoneInv', poll = "emit" => poll' = "emit",
         UNCHANGED <<storeVars, cycleVars, killVars, armVars, queue, judgeVars, seenVars>>
  PROVE  Inv'
<1>1. UNCHANGED <<exists, rec>> /\ RecMoves /\ EndsStay /\ NoNews /\ ResetsStay /\ NoKilled /\ Waiting' = Waiting
  BY RecStill, QueueStill DEF storeVars
<1>2. UNCHANGED <<used, cycle, launch, todo, cancelled, launched, kill, plan, judging, recs,
                  pending_arm, post_process, finished_latch, news, ran, ahead, unconfirmed>>
  BY DEF cycleVars, killVars, armVars, judgeVars, seenVars
<1>3. TypeOK'
  BY <1>1, TypesStill DEF TypeOK
<1>4. RecInv' /\ CycleInv' /\ ArmInv' /\ JudgeInv'
  BY <1>1, <1>2, Still
<1>5. Coming => Coming'
  BY <1>1, <1>2, KillStill DEF Coming
<1> QED
  BY <1>1, <1>2, <1>3, <1>4, <1>5, StillTold DEF Inv

\* Requests that are served.
LEMMA Requested ==
  ASSUME Inv, requests # << >>, requests' = Tail(requests)
  PROVE  /\ requests' \in Seq({"start", "stop", "poll"})
         /\ requests' = << >> => requests[Len(requests)] = Head(requests)
         /\ requests' # << >> => requests'[Len(requests')] = requests[Len(requests)]
<1>1. requests \in Seq({"start", "stop", "poll"})
  BY DEF Inv, TypeOK, PollTypes
<1>2. /\ Len(requests) \in Nat /\ Len(requests) >= 1 /\ Head(requests) = requests[1]
      /\ requests' \in Seq({"start", "stop", "poll"}) /\ Len(requests') = Len(requests) - 1
      /\ \A i \in 1..(Len(requests) - 1) : requests'[i] = requests[i + 1]
  BY <1>1
<1>3. ASSUME requests' = << >>
      PROVE  Len(requests) = 1
  <2>1. Len(<< >>) = 0
    OBVIOUS
  <2>2. Len(requests') = 0
    BY <1>3, <2>1, Zenon
  <2> QED
    BY <1>2, <2>2
<1>4. requests' # << >> => Len(requests') \in 1..(Len(requests) - 1)
  BY <1>2
<1>5. Len(requests') + 1 = Len(requests)
  BY <1>2
<1> QED
  BY <1>2, <1>3, <1>4, <1>5

\* A request that is made while the jobset exists.
LEMMA RequestStep ==
  ASSUME Inv, NEW r \in {"start", "stop", "poll"}, Request(r)
  PROVE  Inv'
<1>1. /\ exists /\ requests' = Append(requests, r) /\ UNCHANGED <<timer, idle, poll>>
      /\ UNCHANGED <<storeVars, cycleVars, killVars, armVars, queue, judgeVars, seenVars>>
  BY DEF Request
<1>2. PollTypes'
  BY <1>1 DEF Inv, TypeOK, PollTypes
<1>3. GoneInv'
  BY <1>1 DEF GoneInv, storeVars
<1> QED
  BY <1>1, <1>2, <1>3, PollFrame

\* The polling thread serves a request to start: only the timer and the idle
\* count are written.
LEMMA ServeStartStep ==
  ASSUME Inv, ServeStart
  PROVE  Inv'
<1>1. /\ poll = "no" /\ requests # << >> /\ Head(requests) = "start" /\ requests' = Tail(requests)
      /\ timer' = TRUE /\ poll' \in {"no", "query"} /\ idle' \in {idle, 0}
      /\ UNCHANGED <<storeVars, cycleVars, killVars, armVars, queue, judgeVars, seenVars>>
  BY DEF ServeStart
<1>2. PollTypes'
  <2>1. idle' \in 0..1
    BY <1>1 DEF Inv, TypeOK, PollTypes
  <2> QED
    BY <1>1, <2>1, Requested DEF PollTypes
<1>3. GoneInv'
  BY <1>1, Requested DEF Inv, GoneInv, storeVars, armVars, judgeVars
<1> QED
  BY <1>1, <1>2, <1>3, PollFrame

\* The polling thread serves a request to stop.
LEMMA ServeStopStep ==
  ASSUME Inv, ServeStop
  PROVE  Inv'
<1>1. /\ poll = "no" /\ requests # << >> /\ Head(requests) = "stop" /\ requests' = Tail(requests)
      /\ timer' = FALSE /\ idle' = 0 /\ UNCHANGED poll
      /\ UNCHANGED <<storeVars, cycleVars, killVars, armVars, queue, judgeVars, seenVars>>
  BY DEF ServeStop
<1>2. PollTypes'
  <2>1. idle' \in 0..1 /\ poll' \in {"no", "query", "emit", "stop"}
    BY <1>1 DEF Inv, TypeOK, PollTypes
  <2> QED
    BY <1>1, <2>1, Requested DEF PollTypes
<1>3. GoneInv'
  BY <1>1, Requested DEF Inv, GoneInv, storeVars, armVars, judgeVars
<1> QED
  BY <1>1, <1>2, <1>3, PollFrame

\* The polling thread begins a poll.
LEMMA ServePollStep ==
  ASSUME Inv, ServePoll
  PROVE  Inv'
<1>1. /\ poll = "no" /\ poll' = "query" /\ UNCHANGED <<timer, idle>>
      /\ \/ requests # << >> /\ Head(requests) = "poll" /\ requests' = Tail(requests)
         \/ timer /\ UNCHANGED requests
      /\ UNCHANGED <<storeVars, cycleVars, killVars, armVars, queue, judgeVars, seenVars>>
  BY DEF ServePoll
<1>2. PollTypes'
  BY <1>1, Requested DEF Inv, TypeOK, PollTypes
<1>3. GoneInv'
  BY <1>1, Requested DEF Inv, GoneInv, storeVars, armVars, judgeVars
<1> QED
  BY <1>1, <1>2, <1>3, PollFrame

\* The timer stops itself after idle polls.
LEMMA AutoStopStep ==
  ASSUME Inv, AutoStop
  PROVE  Inv'
<1>0. timer \in BOOLEAN /\ idle \in 0..1
  BY DEF Inv, TypeOK, PollTypes
<1>1. /\ poll = "stop" /\ poll' = "no" /\ UNCHANGED requests
      /\ timer' \in BOOLEAN /\ idle' \in 0..1
      /\ ~exists => timer' = timer
      /\ UNCHANGED <<storeVars, cycleVars, killVars, armVars, queue, judgeVars, seenVars>>
  <2>1. idle' \in 0..1
    BY <1>0 DEF AutoStop, IdleTwice
  <2>2. CASE ~timer \/ ~exists
    BY <1>0, <2>1, <2>2 DEF AutoStop
  <2>3. CASE ~(~timer \/ ~exists)
    <3>1. timer' \in {FALSE, timer, ~IdleTwice}
      BY <2>3, Zenon DEF AutoStop
    <3>2. timer' \in BOOLEAN
      BY <1>0, <3>1 DEF IdleTwice
    <3> QED
      BY <2>1, <2>3, <3>2 DEF AutoStop
  <2> QED
    BY <2>2, <2>3
<1>2. PollTypes'
  BY <1>1 DEF Inv, TypeOK, PollTypes
<1>3. GoneInv'
  BY <1>1 DEF Inv, GoneInv, storeVars, armVars, judgeVars
<1> QED
  BY <1>1, <1>2, <1>3, PollFrame

\* A query ends records and does nothing else to them.
LEMMA ObserveMoves ==
  ASSUME Inv, Observe
  PROVE  RecMoves /\ EndsStay
<1>1. PICK T \in SUBSET {key \in Members : rec[key].state = "PEND"} :
        rec' = [key \in Members |-> IF key \in T THEN [rec[key] EXCEPT !.state = "END"]
                                                 ELSE rec[key]]
  BY DEF Observe
<1>2. rec \in [Members -> Records]
  BY DEF Inv, TypeOK, StoreTypes
<1>3. ASSUME NEW key \in Members
      PROVE  /\ rec'[key] \in Records
             /\ rec'[key].run = rec[key].run
             /\ rec'[key].state = "CREATED" <=> rec[key].state = "CREATED"
             /\ rec[key].state = "END" => rec'[key].state = "END"
  <2>1. CASE key \in T
    <3>1. rec'[key] = [rec[key] EXCEPT !.state = "END"] /\ rec[key].state = "PEND"
      BY <1>1, <2>1
    <3>2. rec[key] \in Records
      BY <1>2
    <3> QED
      BY <3>1, <3>2 DEF Records, States
  <2>2. CASE key \notin T
    BY <1>1, <1>2, <2>2
  <2> QED
    BY <2>1, <2>2
<1>4. rec' \in [Members -> Records]
  <2>1. DOMAIN rec' = Members /\ rec' = [key \in Members |-> rec'[key]]
    BY <1>1
  <2> QED
    BY <1>3, <2>1
<1> QED
  BY <1>3, <1>4 DEF RecMoves, EndsStay

\* Of records that have all ended a query changes none.
LEMMA ObserveNothing ==
  ASSUME Inv, Observe, AllTerminal(rec)
  PROVE  UNCHANGED rec
<1>1. {key \in Members : rec[key].state = "PEND"} = {}
  BY DEF AllTerminal, Members
<1>2. rec' = [key \in Members |-> rec[key]]
  BY <1>1 DEF Observe
<1>3. rec \in [Members -> Records]
  BY DEF Inv, TypeOK, StoreTypes
<1> QED
  BY <1>2, <1>3

\* A signal that does not concern the arming.
LEMMA Posted ==
  ASSUME Inv, NEW s \in Signals, queue' = Append(queue, s), s.kind # "reset"
  PROVE  /\ QueueTypes' /\ Waiting' = Waiting \cup {s} /\ NoNews /\ ResetsStay
         /\ UNCHANGED launch => BehindInv'
         /\ s.kind # "killed" => NoKilled
<1>1. queue \in Seq(Signals)
  BY DEF Inv, TypeOK, QueueTypes
<1>2. queue' \in Seq(Signals) /\ Waiting' = Waiting \cup {s}
  BY <1>1, Appended DEF Waiting
<1>3. \A c \in Cycles : s # ResetOf(c)
  BY SignalTypes
<1>4. s.kind # "killed" => \A k \in Kills : s # KilledBy(k)
  BY SignalTypes
<1> QED
  BY <1>2, <1>3, <1>4, BehindPost DEF QueueTypes, NoNews, ResetsStay, NoKilled

\* A poll moves the records of jobs on LSF, never back from an end.
LEMMA QueryStep ==
  ASSUME Inv, Query
  PROVE  Inv'
<1>1. /\ poll = "query" /\ UNCHANGED requests
      /\ \/ exists /\ Observe /\ poll' = "emit" /\ UNCHANGED <<timer, idle>>
         \/ exists /\ poll' = "no" /\ UNCHANGED <<rec, timer, idle>>
         \/ ~exists /\ poll' = "no" /\ timer' = FALSE /\ idle' = 0 /\ UNCHANGED rec
      /\ UNCHANGED <<exists, cycleVars, killVars, armVars, queue, judgeVars, seenVars>>
  BY DEF Query
<1>2. PollTypes'
  <2>1. timer' \in BOOLEAN /\ requests' \in Seq({"start", "stop", "poll"})
    BY <1>1 DEF Inv, TypeOK, PollTypes
  <2>2. idle' \in 0..1 /\ poll' \in {"no", "query", "emit", "stop"}
    BY <1>1 DEF Inv, TypeOK, PollTypes
  <2> QED
    BY <2>1, <2>2 DEF PollTypes
<1>3. GoneInv'
  BY <1>1 DEF Inv, GoneInv, storeVars, armVars, judgeVars
<1>4. CASE UNCHANGED rec
  BY <1>1, <1>2, <1>3, <1>4, PollFrame DEF storeVars
<1>5. CASE Observe /\ poll' = "emit"
  <2>1. RecMoves /\ EndsStay /\ NoNews /\ ResetsStay /\ NoKilled /\ Waiting' = Waiting
    BY <1>1, <1>5, ObserveMoves, QueueStill
  <2>2. UNCHANGED <<used, cycle, launch, todo, cancelled, launched, kill, plan, judging, recs,
                    pending_arm, post_process, finished_latch, news, ran, ahead, unconfirmed>>
    BY <1>1 DEF cycleVars, killVars, armVars, judgeVars, seenVars
  <2>3. TypeOK'
    BY <1>1, <1>2, <2>1, TypesStill DEF TypeOK
  <2>4. RecInv' /\ CycleInv' /\ ArmInv'
    BY <1>1, <2>1, <2>2, Still
  <2>5. JudgeInv'
    <3>1. CASE judging = "seen"
      <4>1. UNCHANGED rec
        BY <1>5, <3>1, ObserveNothing DEF Inv, JudgeInv
      <4> QED
        BY <1>1, <2>1, <2>2, <4>1, Still
    <3>2. CASE judging # "seen"
      BY <2>2, <3>2 DEF JudgeInv
    <3> QED
      BY <3>1, <3>2
  <2>6. /\ OnceInv'
        /\ LatchInv' /\ BehindInv'
    BY <1>1, <2>1, <2>2, StillTold
  <2>7. ComingInv'
    BY <1>5 DEF ComingInv, Coming
  <2> QED
    BY <1>3, <2>3, <2>4, <2>5, <2>6, <2>7 DEF Inv
<1> QED
  BY <1>1, <1>4, <1>5

\* A poll posts jobset_updated, which concerns no arming.
LEMMA EmitUpdatedStep ==
  ASSUME Inv, EmitUpdated
  PROVE  Inv'
<1> DEFINE s == [kind |-> "updated", of |-> None]
<1>1. /\ poll = "emit" /\ poll' = "stop" /\ queue' = Append(queue, s) /\ UNCHANGED <<requests, timer, idle>>
      /\ UNCHANGED <<storeVars, cycleVars, killVars, armVars, judgeVars, seenVars>>
  BY DEF EmitUpdated, Post
<1>2. s \in Signals /\ s.kind = "updated"
  BY SignalTypes
<1> HIDE DEF s
<1>3. RecMoves /\ EndsStay /\ UNCHANGED <<exists, rec>>
  BY <1>1, RecStill DEF storeVars
<1>4. QueueTypes' /\ NoNews /\ ResetsStay /\ NoKilled /\ BehindInv' /\ Waiting' = Waiting \cup {s}
  BY <1>1, <1>2, Posted DEF cycleVars
<1>5. UNCHANGED <<used, cycle, launch, todo, cancelled, launched, kill, plan, judging, recs,
                  pending_arm, post_process, finished_latch, news, ran, ahead, unconfirmed>>
  BY <1>1 DEF cycleVars, killVars, armVars, judgeVars, seenVars
<1>6. TypeOK'
  <2>1. PollTypes'
    BY <1>1 DEF Inv, TypeOK, PollTypes
  <2> QED
    BY <1>1, <1>3, <1>4, <2>1, TypesStill DEF TypeOK
<1>7. RecInv' /\ CycleInv' /\ ArmInv' /\ JudgeInv' /\ GoneInv'
  BY <1>1, <1>3, <1>4, <1>5, Still
<1>8. Coming'
  BY <1>2, <1>4 DEF Coming
<1> QED
  BY <1>3, <1>4, <1>5, <1>6, <1>7, <1>8, StillTold DEF Inv

-----------------------------------------------------------------------------
(* The kills.                                                              *)

Stages == {"idle", "begun", "queued", "planned", "verified", "sent", "over"}
Active == {"queued", "planned", "verified", "sent"}

\* A kill that moves on to the next stage.
LEMMA KillMoves ==
  ASSUME Inv, NEW k \in Kills, NEW st \in Stages, kill' = [kill EXCEPT ![k] = st]
  PROVE  /\ kill' \in [Kills -> Stages]
         /\ st \in Active => ActiveKills' = ActiveKills \cup {k}
         /\ st \notin Active => ActiveKills' = ActiveKills \ {k}
         /\ kill[k] \in Active <=> k \in ActiveKills
<1>1. kill \in [Kills -> Stages]
  BY DEF Inv, TypeOK, KillTypes, Stages
<1> QED
  BY <1>1 DEF ActiveKills, Active

\* A step of a kill that has not posted its result.
LEMMA KillRec ==
  ASSUME Inv, RecMoves, NoKilled, NEW k \in Kills, NEW st \in Stages,
         kill[k] \notin {"sent", "over"}, kill' = [kill EXCEPT ![k] = st], UNCHANGED plan,
         kill[k] \in {"planned", "verified"} => st \in {"planned", "verified"}
  PROVE  RecInv'
<1>1. Members' = Members
  BY DEF RecMoves, Members
<1>2. kill \in [Kills -> Stages]
  BY DEF Inv, TypeOK, KillTypes, Stages
<1>3. \A m \in Kills : \/ m = k /\ kill'[m] = st
                       \/ m # k /\ kill'[m] = kill[m]
  BY <1>2
<1>4. \A m \in Kills : /\ kill[m] \in {"planned", "verified"} => kill'[m] \in {"planned", "verified"}
                       /\ kill[m] \in {"sent", "over"} => kill'[m] \in {"sent", "over"}
  <2> TAKE m \in Kills
  <2>1. CASE m = k
    <3>1. kill'[m] = st /\ kill[m] = kill[k]
      BY <1>3, <2>1
    <3> QED
      BY <3>1
  <2>2. CASE m # k
    <3>1. kill'[m] = kill[m]
      BY <1>3, <2>2
    <3> QED
      BY <3>1
  <2> QED
    BY <2>1, <2>2
<1> QED
  BY <1>1, <1>4 DEF Inv, RecInv, RecMoves, NoKilled

\* A kill begins: it joins the kills under way and cancels the submission.
LEMMA KillBeginStep ==
  ASSUME Inv, NEW k \in Kills, KillBegin(k)
  PROVE  Inv'
<1>1. /\ judging = "no" /\ exists /\ kill[k] = "idle" /\ kill' = [kill EXCEPT ![k] = "begun"]
      /\ cancelled' = (cancelled \/ cycle # None) /\ UNCHANGED plan
      /\ UNCHANGED <<storeVars, used, cycle, launch, todo, launched, armVars, queue, judgeVars,
                     pollVars, seenVars>>
  BY DEF KillBegin, GuiFree
<1>2. RecMoves /\ EndsStay /\ NoNews /\ ResetsStay /\ NoKilled /\ Waiting' = Waiting
  BY <1>1, RecStill, QueueStill DEF storeVars
<1>3. ActiveKills' = ActiveKills /\ kill' \in [Kills -> Stages]
  <2>1. "begun" \in Stages /\ "begun" \notin Active /\ "idle" \notin Active
    BY DEF Stages, Active
  <2>2. kill' \in [Kills -> Stages] /\ ActiveKills' = ActiveKills \ {k} /\ k \notin ActiveKills
    BY <1>1, <2>1, KillMoves
  <2> QED
    BY <2>2
<1>4. UNCHANGED <<exists, rec, used, cycle, launch, todo, launched, plan, judging, recs, pending_arm,
                  post_process, finished_latch, requests, timer, poll, news, ran, ahead, unconfirmed>>
  BY <1>1 DEF storeVars, armVars, judgeVars, pollVars, seenVars
<1>5. TypeOK'
  <2>1. CycleTypes'
    <3>1. cancelled' \in BOOLEAN
      BY <1>1 DEF Inv, TypeOK, CycleTypes
    <3> QED
      BY <1>4, <3>1 DEF Inv, TypeOK, CycleTypes, Members
  <2>2. KillTypes'
    BY <1>3, <1>4 DEF Inv, TypeOK, KillTypes, Stages, Members
  <2> QED
    BY <1>1, <1>2, <1>4, <2>1, <2>2, TypesStill DEF TypeOK
<1>6. RecInv'
  BY <1>1, <1>2, KillRec DEF Stages
<1>7. CycleInv' /\ ArmInv' /\ GoneInv'
  BY <1>1, <1>2, <1>4, Still
<1>8. JudgeInv' /\ (Coming => Coming')
  BY <1>1, <1>2, <1>3, <1>4 DEF JudgeInv, Coming
<1> QED
  BY <1>1, <1>2, <1>4, <1>5, <1>6, <1>7, <1>8, StillTold DEF Inv

\* A kill that has begun is queued for its worker.
LEMMA KillQueueStep ==
  ASSUME Inv, NEW k \in Kills, KillQueue(k)
  PROVE  Inv'
<1>1. /\ judging = "no" /\ kill[k] = "begun" /\ kill' = [kill EXCEPT ![k] = "queued"] /\ UNCHANGED plan
      /\ UNCHANGED <<storeVars, cycleVars, armVars, queue, judgeVars, pollVars, seenVars>>
  BY DEF KillQueue
<1>2. RecMoves /\ EndsStay /\ NoNews /\ ResetsStay /\ NoKilled /\ Waiting' = Waiting
  BY <1>1, RecStill, QueueStill DEF storeVars
<1>3. ActiveKills' = ActiveKills \cup {k} /\ kill' \in [Kills -> Stages]
  BY <1>1, KillMoves DEF Stages, Active
<1>4. UNCHANGED <<exists, rec, used, cycle, launch, todo, launched, plan, judging, recs, pending_arm,
                  post_process, finished_latch, requests, timer, poll, news, ran, ahead, unconfirmed>>
  BY <1>1 DEF storeVars, cycleVars, armVars, judgeVars, pollVars, seenVars
<1>5. TypeOK'
  <2>1. KillTypes'
    BY <1>3, <1>4 DEF Inv, TypeOK, KillTypes, Stages, Members
  <2> QED
    BY <1>1, <1>2, <1>4, <2>1, TypesStill DEF TypeOK
<1>6. RecInv'
  BY <1>1, <1>2, KillRec DEF Stages
<1>7. CycleInv' /\ ArmInv' /\ GoneInv'
  BY <1>1, <1>2, <1>4, Still
<1>8. JudgeInv' /\ Coming'
  BY <1>1, <1>3, <1>4 DEF JudgeInv, Coming
<1> QED
  BY <1>1, <1>2, <1>4, <1>5, <1>6, <1>7, <1>8, StillTold DEF Inv

\* A kill plans the jobs that are on LSF.
LEMMA KillPlanStep ==
  ASSUME Inv, NEW k \in Kills, KillPlan(k)
  PROVE  Inv'
<1>1. /\ kill[k] = "queued" /\ kill' = [kill EXCEPT ![k] = "planned"]
      /\ plan' = [plan EXCEPT ![k] = {key \in Members : exists /\ rec[key].state = "PEND"}]
      /\ UNCHANGED <<storeVars, cycleVars, armVars, queue, judgeVars, pollVars, seenVars>>
  BY DEF KillPlan
<1>2. RecMoves /\ EndsStay /\ NoNews /\ ResetsStay /\ NoKilled /\ Waiting' = Waiting
  BY <1>1, RecStill, QueueStill DEF storeVars
<1>3. ActiveKills' = ActiveKills \cup {k} /\ k \in ActiveKills /\ kill' \in [Kills -> Stages]
  BY <1>1, KillMoves DEF Stages, Active
<1>4. UNCHANGED <<exists, rec, used, cycle, launch, todo, launched, judging, recs, pending_arm,
                  post_process, finished_latch, requests, timer, poll, news, ran, ahead, unconfirmed>>
  BY <1>1 DEF storeVars, cycleVars, armVars, judgeVars, pollVars, seenVars
<1>5. plan \in [Kills -> SUBSET Members]
  BY DEF Inv, TypeOK, KillTypes
<1>6. TypeOK'
  <2>1. KillTypes'
    <3>1. plan' \in [Kills -> SUBSET Members]
      BY <1>1, <1>5
    <3> QED
      BY <1>3, <1>4, <3>1 DEF KillTypes, Stages, Members
  <2> QED
    BY <1>1, <1>2, <1>4, <2>1, TypesStill DEF TypeOK
<1>7. RecInv'
  <2>1. ASSUME NEW m \in Kills, NEW key \in Members, key \in plan'[m]
        PROVE  kill'[m] \in {"planned", "verified"} /\ rec[key].state # "CREATED"
    <3>1. CASE m = k
      BY <1>1, <1>5, <2>1, <3>1 DEF Inv, TypeOK, KillTypes
    <3>2. CASE m # k
      <4>1. key \in plan[m] /\ kill'[m] = kill[m]
        BY <1>1, <1>5, <2>1, <3>2 DEF Inv, TypeOK, KillTypes
      <4> QED
        BY <4>1 DEF Inv, RecInv
    <3> QED
      BY <3>1, <3>2
  <2>2. ASSUME NEW m \in Kills, KilledBy(m) \in Waiting
        PROVE  kill'[m] \in {"sent", "over"}
    BY <1>1, <2>2 DEF Inv, RecInv, TypeOK, KillTypes
  <2> QED
    BY <1>2, <1>4, <2>1, <2>2 DEF Inv, RecInv, Members
<1>8. CycleInv' /\ ArmInv' /\ GoneInv'
  BY <1>1, <1>2, <1>4, Still
<1>9. JudgeInv' /\ Coming'
  <2>1. ActiveKills' # {} /\ Members' = Members
    BY <1>3, <1>4 DEF Members
  <2>2. JudgeInv'
    BY <1>4, <2>1 DEF Inv, JudgeInv, AllTerminal
  <2> QED
    BY <2>1, <2>2 DEF Coming
<1> QED
  BY <1>1, <1>2, <1>4, <1>6, <1>7, <1>8, <1>9, StillTold DEF Inv

\* The query that verifies a kill: some of its jobs may have ended.
LEMMA KillVerifyStep ==
  ASSUME Inv, NEW k \in Kills, KillVerify(k)
  PROVE  Inv'
<1>1. /\ kill[k] = "planned" /\ kill' = [kill EXCEPT ![k] = "verified"]
      /\ Observe \/ UNCHANGED rec
      /\ UNCHANGED <<exists, cycleVars, plan, armVars, queue, judgeVars, pollVars, seenVars>>
  BY DEF KillVerify
<1>2. RecMoves /\ EndsStay /\ NoNews /\ ResetsStay /\ NoKilled /\ Waiting' = Waiting
  BY <1>1, RecStill, ObserveMoves, QueueStill
<1>3. ActiveKills' = ActiveKills \cup {k} /\ kill' \in [Kills -> Stages]
  BY <1>1, KillMoves DEF Stages, Active
<1>4. UNCHANGED <<exists, used, cycle, launch, todo, launched, plan, judging, recs, pending_arm,
                  post_process, finished_latch, requests, timer, poll, news, ran, ahead, unconfirmed>>
  BY <1>1 DEF cycleVars, armVars, judgeVars, pollVars, seenVars
<1>5. Members' = Members
  BY <1>2 DEF RecMoves, Members
<1>6. TypeOK'
  <2>1. KillTypes'
    BY <1>3, <1>4, <1>5 DEF Inv, TypeOK, KillTypes, Stages
  <2> QED
    BY <1>1, <1>2, <1>4, <2>1, TypesStill DEF TypeOK
<1>7. RecInv'
  BY <1>1, <1>2, KillRec DEF Stages
<1>8. CycleInv' /\ ArmInv' /\ GoneInv'
  BY <1>1, <1>2, <1>4, Still
<1>9. JudgeInv' /\ ComingInv'
  <2>1. ActiveKills' # {}
    BY <1>3
  <2>2. AllTerminal(rec) => AllTerminal(rec)'
    BY <1>2, <1>5 DEF AllTerminal, EndsStay, Members
  <2>3. AllTerminal(recs) => AllTerminal(recs)'
    BY <1>4 DEF AllTerminal
  <2> QED
    BY <1>4, <1>5, <2>1, <2>2, <2>3 DEF Inv, JudgeInv, ComingInv, Coming
<1> QED
  BY <1>1, <1>2, <1>4, <1>6, <1>7, <1>8, <1>9, StillTold DEF Inv

\* A kill marks its records and posts kill_finished.
LEMMA KillMarkStep ==
  ASSUME Inv, NEW k \in Kills, KillMark(k)
  PROVE  Inv'
<1> DEFINE s == KilledBy(k)
<1>1. /\ kill[k] = "verified" /\ kill' = [kill EXCEPT ![k] = "sent"]
      /\ plan' = [plan EXCEPT ![k] = {}]
      /\ queue' = Append(queue, s)
      /\ UNCHANGED <<exists, cycleVars, armVars, judgeVars, pollVars, seenVars>>
  BY DEF KillMark, Post, KilledBy
<1>2. PICK S \in SUBSET plan[k], policy \in Policies :
        rec' = [key \in Members |-> IF key \in S /\ exists
                                    THEN Killed(rec[key], policy) ELSE rec[key]]
  BY DEF KillMark
<1>3. s \in Signals /\ s.kind = "killed"
  BY SignalTypes
<1> HIDE DEF s
<1>4. rec \in [Members -> Records] /\ plan \in [Kills -> SUBSET Members]
  BY DEF Inv, TypeOK, StoreTypes, KillTypes
<1>5. ASSUME NEW key \in Members
      PROVE  /\ rec'[key] \in Records
             /\ rec'[key].run = rec[key].run
             /\ rec'[key].state = "CREATED" <=> rec[key].state = "CREATED"
             /\ rec[key].state = "END" => rec'[key].state = "END"
  <2>1. CASE key \in S /\ exists
    <3>1. rec'[key] = Killed(rec[key], policy)
      BY <1>2, <2>1
    <3>2. rec[key] \in Records /\ rec[key].state # "CREATED"
      BY <1>2, <1>4, <2>1 DEF Inv, RecInv
    <3> QED
      BY <3>1, <3>2 DEF Killed, Records, States
  <2>2. CASE ~(key \in S /\ exists)
    BY <1>2, <1>4, <2>2
  <2> QED
    BY <2>1, <2>2
<1>6. RecMoves /\ EndsStay
  <2>1. DOMAIN rec' = Members /\ rec' = [key \in Members |-> rec'[key]]
    BY <1>2
  <2>2. rec' \in [Members -> Records]
    BY <1>5, <2>1
  <2> QED
    BY <1>5, <2>2 DEF RecMoves, EndsStay
<1>7. QueueTypes' /\ NoNews /\ ResetsStay /\ BehindInv' /\ Waiting' = Waiting \cup {s}
  BY <1>1, <1>3, Posted DEF cycleVars
<1>8. ActiveKills' = ActiveKills \cup {k} /\ kill' \in [Kills -> Stages]
  BY <1>1, KillMoves DEF Stages, Active
<1>9. UNCHANGED <<exists, used, cycle, launch, todo, launched, judging, recs, pending_arm,
                  post_process, finished_latch, requests, timer, poll, news, ran, ahead, unconfirmed>>
  BY <1>1 DEF cycleVars, armVars, judgeVars, pollVars, seenVars
<1>10. Members' = Members
  BY <1>6 DEF RecMoves, Members
<1>11. TypeOK'
  <2>1. KillTypes'
    BY <1>1, <1>4, <1>8, <1>10 DEF KillTypes, Stages
  <2> QED
    BY <1>1, <1>6, <1>7, <1>9, <2>1, TypesStill DEF TypeOK
<1>12. RecInv'
  <2>1. ASSUME NEW m \in Kills, NEW key \in Members, key \in plan'[m]
        PROVE  kill'[m] \in {"planned", "verified"} /\ rec[key].state # "CREATED"
    <3>1. m # k /\ key \in plan[m] /\ kill'[m] = kill[m]
      BY <1>1, <1>4, <2>1 DEF Inv, TypeOK, KillTypes
    <3> QED
      BY <3>1 DEF Inv, RecInv
  <2>2. ASSUME NEW m \in Kills, KilledBy(m) \in Waiting'
        PROVE  kill'[m] \in {"sent", "over"}
    <3>1. CASE m = k
      BY <1>1, <3>1 DEF Inv, TypeOK, KillTypes
    <3>2. CASE m # k
      <4>1. KilledBy(m) # s
        BY <3>2 DEF KilledBy, s
      <4>2. KilledBy(m) \in Waiting /\ kill'[m] = kill[m]
        BY <1>1, <1>7, <2>2, <3>2, <4>1 DEF Inv, TypeOK, KillTypes
      <4> QED
        BY <4>2 DEF Inv, RecInv
    <3> QED
      BY <3>1, <3>2
  <2> QED
    BY <1>6, <1>10, <2>1, <2>2 DEF Inv, RecInv, RecMoves
<1>13. CycleInv' /\ ArmInv' /\ GoneInv'
  BY <1>1, <1>6, <1>7, <1>9, Still
<1>14. JudgeInv' /\ ComingInv'
  <2>1. ActiveKills' # {}
    BY <1>8
  <2>2. AllTerminal(rec) => AllTerminal(rec)'
    BY <1>6, <1>10 DEF AllTerminal, EndsStay, Members
  <2>3. AllTerminal(recs) => AllTerminal(recs)'
    BY <1>9 DEF AllTerminal
  <2> QED
    BY <1>9, <1>10, <2>1, <2>2, <2>3 DEF Inv, JudgeInv, ComingInv, Coming
<1> QED
  BY <1>6, <1>7, <1>9, <1>11, <1>12, <1>13, <1>14, StillTold DEF Inv

-----------------------------------------------------------------------------
(* Signals delivered on the GUI thread.                                    *)

\* The head of the queue is taken.
LEMMA Delivered ==
  ASSUME Inv, NEW kind, Deliver(kind)
  PROVE  /\ judging = "no" /\ \A k \in Kills : kill[k] # "begun"
         /\ Head(queue) \in Signals /\ Head(queue).kind = kind
         /\ QueueTypes' /\ Waiting = {Head(queue)} \cup Waiting' /\ NoNews /\ NoKilled
         /\ kind # "reset" => ResetsStay
         /\ UNCHANGED launch => BehindInv'
         /\ UNCHANGED launch /\ kind = "reset" =>
              launch = "running" \/ \E s \in Waiting' : s.kind = "finished"
<1>1. queue \in Seq(Signals) /\ queue # << >> /\ queue' = Tail(queue)
  BY DEF Inv, TypeOK, QueueTypes, Deliver
<1>2. Head(queue) \in Signals /\ queue' \in Seq(Signals) /\ Waiting = {Head(queue)} \cup Waiting'
  BY <1>1, Served DEF Waiting
<1>3. judging = "no" /\ \A k \in Kills : kill[k] # "begun"
  BY DEF Deliver, GuiFree
<1>4. Head(queue).kind = kind
  BY DEF Deliver
<1>5. kind # "reset" => ResetsStay
  BY <1>2, <1>4, SignalTypes DEF ResetsStay
<1>6. /\ UNCHANGED launch => BehindInv'
      /\ UNCHANGED launch /\ kind = "reset" =>
           launch = "running" \/ \E s \in Waiting' : s.kind = "finished"
  BY <1>1, <1>4, BehindServed
<1> QED
  BY <1>2, <1>3, <1>4, <1>5, <1>6 DEF QueueTypes, NoNews, NoKilled

\* A signal that makes the GUI thread judge.
LEMMA JudgeDue ==
  ASSUME Inv, NEW kind \in {"finished", "updated"}, Deliver(kind), judging' \in {"no", "due"},
         exists => judging' = "due",
         UNCHANGED <<storeVars, cycleVars, killVars, armVars, recs, pollVars, seenVars>>
  PROVE  Inv'
<1>1. /\ judging = "no" /\ Head(queue).kind = kind
      /\ QueueTypes' /\ Waiting = {Head(queue)} \cup Waiting' /\ NoNews /\ NoKilled /\ ResetsStay /\ BehindInv'
  BY Delivered DEF cycleVars
<1>2. RecMoves /\ EndsStay /\ UNCHANGED <<exists, rec>>
  BY RecStill DEF storeVars
<1>3. UNCHANGED <<used, cycle, launch, todo, cancelled, launched, kill, plan, pending_arm,
                  post_process, finished_latch, requests, timer, poll, news, ran, ahead, unconfirmed>>
  BY DEF cycleVars, killVars, armVars, pollVars, seenVars
<1>4. TypeOK'
  <2>1. JudgeTypes'
    BY <1>2 DEF Inv, TypeOK, JudgeTypes, Members
  <2> QED
    BY <1>1, <1>2, <2>1, TypesStill DEF TypeOK
<1>5. RecInv' /\ CycleInv' /\ ArmInv'
  BY <1>1, <1>2, <1>3, Still
<1>6. JudgeInv'
  BY DEF JudgeInv
<1>7. GoneInv'
  BY <1>2, <1>3 DEF Inv, GoneInv
<1>8. OnceInv'
  BY <1>1, <1>2, <1>3, StillTold
<1>9. LatchInv'
  BY <1>1, <1>2, <1>3, StillTold
<1>10. ComingInv'
  BY <1>2 DEF ComingInv, Coming
<1> QED
  BY <1>1, <1>4, <1>5, <1>6, <1>7, <1>8, <1>9, <1>10 DEF Inv

\* The GUI thread serves submit_finished: a judgement is due.
LEMMA OnSubmitFinishedStep ==
  ASSUME Inv, OnSubmitFinished
  PROVE  Inv'
<1>1. /\ Deliver("finished") /\ judging' = IF exists THEN "due" ELSE "no"
      /\ UNCHANGED <<storeVars, cycleVars, killVars, armVars, recs, pollVars, seenVars>>
  BY DEF OnSubmitFinished
<1> QED
  BY <1>1, JudgeDue

\* The GUI thread serves jobset_updated: a judgement is due.
LEMMA OnPollUpdatedStep ==
  ASSUME Inv, OnPollUpdated
  PROVE  Inv'
<1>1. /\ Deliver("updated") /\ judging' = "due"
      /\ UNCHANGED <<storeVars, cycleVars, killVars, armVars, recs, pollVars, seenVars>>
  BY DEF OnPollUpdated
<1> QED
  BY <1>1, JudgeDue

\* The GUI thread serves kill_finished: a judgement is due.
LEMMA OnKillFinishedStep ==
  ASSUME Inv, OnKillFinished
  PROVE  Inv'
<1> DEFINE k == Head(queue).of
<1>1. /\ Deliver("killed") /\ judging' = "due" /\ kill' = [kill EXCEPT ![k] = "over"]
      /\ UNCHANGED <<storeVars, cycleVars, plan, armVars, recs, pollVars, seenVars>>
  BY DEF OnKillFinished
<1>2. /\ judging = "no" /\ Head(queue) \in Signals /\ Head(queue).kind = "killed"
      /\ QueueTypes' /\ Waiting = {Head(queue)} \cup Waiting' /\ NoNews /\ NoKilled /\ ResetsStay /\ BehindInv'
  BY <1>1, Delivered DEF cycleVars
<1>3. k \in Kills /\ KilledBy(k) \in Waiting
  BY <1>2, SignalTypes
<1> HIDE DEF k
<1>4. RecMoves /\ EndsStay /\ UNCHANGED <<exists, rec>>
  BY <1>1, RecStill DEF storeVars
<1>5. UNCHANGED <<used, cycle, launch, todo, cancelled, launched, plan, pending_arm,
                  post_process, finished_latch, requests, timer, poll, news, ran, ahead, unconfirmed>>
  BY <1>1 DEF cycleVars, armVars, pollVars, seenVars
<1>6. kill' \in [Kills -> Stages]
  BY <1>1, <1>3, KillMoves DEF Stages
<1>7. TypeOK'
  <2>1. JudgeTypes'
    BY <1>1, <1>4 DEF Inv, TypeOK, JudgeTypes, Members
  <2>2. KillTypes'
    BY <1>4, <1>5, <1>6 DEF Inv, TypeOK, KillTypes, Members, Stages
  <2> QED
    BY <1>1, <1>2, <1>4, <2>1, <2>2, TypesStill DEF TypeOK
<1>8. RecInv'
  <2>1. kill[k] \in {"sent", "over"}
    BY <1>3 DEF Inv, RecInv
  <2>2. ASSUME NEW m \in Kills
        PROVE  /\ kill[m] \in {"planned", "verified"} => kill'[m] \in {"planned", "verified"}
               /\ kill[m] \in {"sent", "over"} => kill'[m] \in {"sent", "over"}
    <3>1. CASE m = k
      <4>1. kill'[m] = "over" /\ kill[m] \in {"sent", "over"}
        BY <1>1, <2>1, <3>1 DEF Inv, TypeOK, KillTypes
      <4> QED
        BY <4>1
    <3>2. CASE m # k
      <4>1. kill'[m] = kill[m]
        BY <1>1, <1>3, <3>2 DEF Inv, TypeOK, KillTypes
      <4> QED
        BY <4>1
    <3> QED
      BY <3>1, <3>2
  <2> QED
    BY <1>2, <1>4, <1>5, <2>2 DEF Inv, RecInv, NoKilled, Members
<1>9. CycleInv' /\ ArmInv'
  BY <1>2, <1>4, <1>5, Still
<1>10. JudgeInv'
  BY <1>1 DEF JudgeInv
<1>11. GoneInv'
  BY <1>1, <1>4, <1>5 DEF Inv, GoneInv
<1>12. OnceInv'
  BY <1>2, <1>4, <1>5, StillTold
<1>13. LatchInv'
  BY <1>2, <1>4, <1>5, StillTold
<1>14. ComingInv'
  BY <1>1 DEF ComingInv, Coming
<1> QED
  BY <1>2, <1>7, <1>8, <1>9, <1>10, <1>11, <1>12, <1>13, <1>14 DEF Inv

\* records_reset: what is pending is armed and the latch released, if it is of
\* this cycle.
LEMMA OnRecordsResetStep ==
  ASSUME Inv, OnRecordsReset
  PROVE  Inv'
<1>0. PICK c : c = Head(queue).of
  OBVIOUS
<1>1. /\ Deliver("reset")
      /\ UNCHANGED <<storeVars, cycleVars, killVars, judgeVars, timer, idle, poll, news, ran, ahead>>
      /\ \/ /\ pending_arm = c /\ Confirm(pending_arm)
            /\ requests' \in {requests, Append(requests, "start")} /\ UNCHANGED unconfirmed
         \/ /\ pending_arm # c /\ unconfirmed' = unconfirmed \cup {c}
            /\ UNCHANGED <<armVars, requests>>
  BY <1>0 DEF OnRecordsReset
<1>2. /\ judging = "no" /\ Head(queue) \in Signals /\ Head(queue).kind = "reset"
      /\ QueueTypes' /\ Waiting = {Head(queue)} \cup Waiting' /\ NoNews /\ NoKilled /\ BehindInv'
      /\ launch = "running" \/ \E s \in Waiting' : s.kind = "finished"
  BY <1>1, Delivered DEF cycleVars
<1>3. c \in Cycles /\ Head(queue) = ResetOf(c) /\ ResetOf(c) \in Waiting
  BY <1>0, <1>2, SignalTypes
<1>4. RecMoves /\ EndsStay /\ UNCHANGED <<exists, rec>>
  BY <1>1, RecStill DEF storeVars
<1>5. UNCHANGED <<used, cycle, launch, todo, cancelled, launched, kill, plan, judging, recs,
                  timer, poll, news, ran, ahead>>
  BY <1>1 DEF cycleVars, killVars, judgeVars
<1>6. /\ cycle \in Cycles \cup {None} /\ pending_arm \in Cycles \cup {None} /\ None \notin Cycles
      /\ requests \in Seq({"start", "stop", "poll"})
  BY CompletionAssumption DEF Inv, TypeOK, CycleTypes, ArmTypes, PollTypes
<1>7. RecInv' /\ JudgeInv'
  BY <1>1, <1>2, <1>4, <1>5, Still DEF killVars
<1>8. ComingInv'
  <2>1. launch = "running" => cycle # None
    BY DEF Inv, CycleInv
  <2> QED
    BY <1>2, <1>5, <2>1 DEF ComingInv, Coming
<1>9. PollTypes' /\ SeenTypes'
  <2>1. requests' \in Seq({"start", "stop", "poll"})
    BY <1>1, <1>6
  <2>2. unconfirmed' \subseteq Cycles
    BY <1>1, <1>3 DEF Inv, TypeOK, SeenTypes
  <2>3. PollTypes'
    BY <1>1, <2>1 DEF Inv, TypeOK, PollTypes
  <2> QED
    BY <1>1, <2>2, <2>3 DEF Inv, TypeOK, SeenTypes
<1>10. CASE pending_arm # c
  <2>1. /\ UNCHANGED <<armVars, requests>> /\ unconfirmed' = unconfirmed \cup {c}
        /\ UNCHANGED <<pending_arm, post_process, finished_latch>>
    BY <1>1, <1>10 DEF armVars
  <2>2. TypeOK'
    BY <1>1, <1>2, <1>4, <1>9, <2>1, TypesStill DEF TypeOK
  <2>3. CycleInv' /\ ArmInv' /\ GoneInv'
    BY <1>2, <1>4, <1>5, <2>1, Still
  <2>4. OnceInv'
    BY <1>2, <1>4, <1>5, <2>1, StillTold
  <2>5. LatchInv'
    <3>1. \A d \in Cycles : ResetOf(d) \in Waiting => d = c \/ ResetOf(d) \in Waiting'
      BY <1>2, <1>3, SignalTypes
    <3>2. \A key \in Members : Held(key) => Held(key)'
      BY <1>4, <2>1, <3>1 DEF Held
    <3> QED
      BY <1>4, <1>5, <2>1, <3>2 DEF Inv, LatchInv, Members
  <2> QED
    BY <1>2, <1>7, <1>8, <2>2, <2>3, <2>4, <2>5 DEF Inv
<1>11. CASE pending_arm = c
  <2>1. /\ pending_arm' = None /\ finished_latch' = FALSE
        /\ post_process' \in {c, post_process}
    BY <1>1, <1>11 DEF Confirm
  <2>2. exists /\ c # None
    BY <1>3, <1>6, <1>11 DEF Inv, GoneInv
  <2>3. TypeOK'
    <3>1. ArmTypes'
      BY <1>3, <2>1 DEF Inv, TypeOK, ArmTypes
    <3> QED
      BY <1>1, <1>2, <1>4, <1>9, <3>1, TypesStill DEF TypeOK
  <2>4. CycleInv'
    BY <1>4, <1>5, <1>6, <1>11, <2>1, <2>2 DEF Inv, CycleInv
  <2>5. ArmInv'
    <3>1. launched[c] # {} /\ c \in used /\ ran[c] = 0 /\ Own(c) /\ post_process = None
      BY <1>3, <1>11, <2>2 DEF Inv, ArmInv
    <3>2. Own(c)'
      BY <1>4, <1>5, <3>1 DEF Own
    <3> QED
      BY <1>2, <1>5, <2>1, <3>1, <3>2 DEF Inv, ArmInv, NoNews
  <2>6. GoneInv'
    BY <1>4, <2>2 DEF GoneInv
  <2>7. OnceInv'
    <3>1. news # "owed" => ahead
      BY <1>3, <1>11, <2>2 DEF Inv, OnceInv
    <3>2. AllTerminal(rec)' = AllTerminal(rec)
      BY <1>4 DEF AllTerminal
    <3> QED
      BY <1>4, <1>5, <3>1, <3>2 DEF Inv, OnceInv
  <2>8. LatchInv'
    BY <2>1 DEF LatchInv
  <2> QED
    BY <1>2, <1>7, <1>8, <2>3, <2>4, <2>5, <2>6, <2>7, <2>8 DEF Inv
<1> QED
  BY <1>10, <1>11

\* gate_rejected: what is pending is dropped, if it is of this cycle.
LEMMA OnGateRejectedStep ==
  ASSUME Inv, OnGateRejected
  PROVE  Inv'
<1>0. PICK c : c = Head(queue).of
  OBVIOUS
<1>1. /\ Deliver("rejected")
      /\ pending_arm' = IF pending_arm = c THEN None ELSE pending_arm
      /\ UNCHANGED <<storeVars, cycleVars, killVars, post_process, finished_latch, judgeVars,
                     pollVars, seenVars>>
  BY <1>0 DEF OnGateRejected
<1>2. /\ judging = "no" /\ Head(queue) \in Signals /\ Head(queue).kind = "rejected"
      /\ QueueTypes' /\ Waiting = {Head(queue)} \cup Waiting' /\ NoNews /\ NoKilled /\ ResetsStay /\ BehindInv'
  BY <1>1, Delivered DEF cycleVars
<1>3. c \in Cycles /\ Head(queue) = RejectedOf(c) /\ RejectedOf(c) \in Waiting
  BY <1>0, <1>2, SignalTypes
<1>4. RecMoves /\ EndsStay /\ UNCHANGED <<exists, rec>>
  BY <1>1, RecStill DEF storeVars
<1>5. UNCHANGED <<used, cycle, launch, todo, cancelled, launched, kill, plan, judging, recs,
                  post_process, finished_latch, requests, timer, poll, news, ran, ahead, unconfirmed>>
  BY <1>1 DEF cycleVars, killVars, judgeVars, pollVars, seenVars
<1>6. /\ cycle \in Cycles \cup {None} /\ pending_arm \in Cycles \cup {None} /\ None \notin Cycles
  BY CompletionAssumption DEF Inv, TypeOK, CycleTypes, ArmTypes
<1>7. RecInv' /\ JudgeInv'
  BY <1>1, <1>2, <1>4, <1>5, Still
<1>8. Coming => Coming'
  BY <1>2, <1>4, <1>5, KillStill DEF Coming
<1>9. TypeOK'
  <2>1. ArmTypes'
    BY <1>1, <1>5, <1>6 DEF Inv, TypeOK, ArmTypes
  <2> QED
    BY <1>1, <1>2, <1>4, <2>1, TypesStill DEF TypeOK
<1>10. pending_arm' \in {pending_arm, None}
  BY <1>1
<1>11. CycleInv'
  BY <1>4, <1>5, <1>6, <1>10 DEF Inv, CycleInv
<1>12. ArmInv'
  <2>1. \A d \in Cycles : Own(d) => Own(d)'
    BY <1>4, <1>5 DEF Own
  <2>2. post_process \in Cycles \cup {None}
    BY DEF Inv, TypeOK, ArmTypes
  <2> QED
    BY <1>2, <1>5, <1>6, <1>10, <2>1, <2>2 DEF Inv, ArmInv, NoNews
<1>13. GoneInv'
  BY <1>4, <1>5, <1>10 DEF Inv, GoneInv
<1>14. OnceInv'
  <2>1. AllTerminal(rec)' = AllTerminal(rec)
    BY <1>4 DEF AllTerminal
  <2> QED
    BY <1>2, <1>4, <1>5, <1>6, <1>10, <2>1 DEF Inv, OnceInv, NoNews
<1>15. LatchInv'
  BY <1>2, <1>4, <1>5, StillTold
<1> QED
  BY <1>2, <1>4, <1>5, <1>7, <1>8, <1>9, <1>11, <1>12, <1>13, <1>14, <1>15, StillTold DEF Inv

-----------------------------------------------------------------------------
(* The judgement.                                                          *)

\* The first part of maybe_finish: the records are read.
LEMMA JudgeRecordsStep ==
  ASSUME Inv, JudgeRecords
  PROVE  Inv'
<1>1. /\ judging = "due" /\ UNCHANGED <<storeVars, cycleVars, killVars, queue, pollVars, seenVars>>
      /\ \/ cycle # None /\ judging' = "no" /\ UNCHANGED <<armVars, recs>>
         \/ /\ cycle = None /\ ~exists /\ judging' = "no"
            /\ post_process' = None /\ finished_latch' = FALSE /\ UNCHANGED <<pending_arm, recs>>
         \/ /\ cycle = None /\ exists /\ ~AllTerminal(rec) /\ judging' = "no"
            /\ finished_latch' = FALSE /\ UNCHANGED <<pending_arm, post_process, recs>>
         \/ /\ cycle = None /\ exists /\ AllTerminal(rec) /\ judging' = "seen"
            /\ recs' = rec /\ UNCHANGED armVars
  BY DEF JudgeRecords, Deferred
<1>2. RecMoves /\ EndsStay /\ NoNews /\ ResetsStay /\ NoKilled /\ Waiting' = Waiting /\ UNCHANGED <<exists, rec>>
  BY <1>1, RecStill, QueueStill DEF storeVars
<1>3. UNCHANGED <<used, cycle, launch, todo, launched, kill, plan, requests, timer, poll, news, ran, ahead, unconfirmed>>
  BY <1>1 DEF cycleVars, killVars, pollVars, seenVars
<1>4. Members' = Members /\ ActiveKills' = ActiveKills /\ AllTerminal(rec)' = AllTerminal(rec)
  BY <1>2, <1>3, KillStill DEF Members, AllTerminal
<1>5. RecInv'
  BY <1>1, <1>2, Still
<1>10. BehindInv'
  BY <1>1, <1>2, StillTold DEF cycleVars
<1>6. CASE cycle # None
  <2>1. judging' = "no" /\ UNCHANGED <<armVars, recs>>
    BY <1>1, <1>6
  <2>2. UNCHANGED <<pending_arm, post_process, finished_latch>>
    BY <2>1 DEF armVars
  <2>3. TypeOK'
    <3>1. JudgeTypes'
      BY <1>4, <2>1 DEF Inv, TypeOK, JudgeTypes
    <3> QED
      BY <1>1, <1>2, <2>1, <3>1, TypesStill DEF TypeOK
  <2>4. CycleInv' /\ ArmInv' /\ JudgeInv' /\ GoneInv'
    BY <1>2, <1>3, <2>1, <2>2, Still DEF JudgeInv, GoneInv, Inv
  <2>5. /\ OnceInv'
        /\ LatchInv'
    BY <1>2, <1>3, <2>2, StillTold
  <2>6. ComingInv'
    BY <1>3, <1>6 DEF ComingInv, Coming
  <2> QED
    BY <1>5, <1>10, <2>3, <2>4, <2>5, <2>6 DEF Inv
<1>7. CASE cycle = None /\ ~exists
  <2>1. /\ judging' = "no" /\ post_process' = None /\ finished_latch' = FALSE
        /\ UNCHANGED <<pending_arm, recs>>
    BY <1>1, <1>7
  <2>2. UNCHANGED <<pending_arm, post_process, finished_latch>>
    <3>1. finished_latch \in BOOLEAN /\ post_process = None /\ ~finished_latch
      BY <1>7 DEF Inv, GoneInv, TypeOK, ArmTypes
    <3>2. finished_latch = FALSE
      BY <3>1, Zenon
    <3> QED
      BY <2>1, <3>1, <3>2
  <2>3. TypeOK'
    <3>1. JudgeTypes' /\ ArmTypes'
      BY <1>4, <2>1, <2>2 DEF Inv, TypeOK, JudgeTypes, ArmTypes
    <3> QED
      BY <1>1, <1>2, <3>1, TypesStill DEF TypeOK
  <2>4. CycleInv' /\ ArmInv' /\ JudgeInv' /\ GoneInv'
    BY <1>2, <1>3, <2>1, <2>2, Still DEF JudgeInv, GoneInv, Inv
  <2>5. /\ OnceInv'
        /\ LatchInv'
    BY <1>2, <1>3, <2>2, StillTold
  <2>6. ComingInv'
    BY <1>2, <1>7 DEF ComingInv
  <2> QED
    BY <1>5, <1>10, <2>3, <2>4, <2>5, <2>6 DEF Inv
<1>8. CASE cycle = None /\ exists /\ ~AllTerminal(rec)
  <2>1. /\ judging' = "no" /\ finished_latch' = FALSE
        /\ UNCHANGED <<pending_arm, post_process, recs>>
    BY <1>1, <1>8
  <2>2. TypeOK'
    <3>1. JudgeTypes' /\ ArmTypes'
      BY <1>4, <2>1 DEF Inv, TypeOK, JudgeTypes, ArmTypes
    <3> QED
      BY <1>1, <1>2, <3>1, TypesStill DEF TypeOK
  <2>3. CycleInv' /\ ArmInv' /\ JudgeInv' /\ GoneInv'
    BY <1>2, <1>3, <1>8, <2>1, Still DEF JudgeInv, GoneInv
  <2>4. OnceInv'
    BY <1>2, <1>3, <1>4, <1>8 DEF Inv, OnceInv
  <2>5. LatchInv'
    BY <1>2, <1>3, <2>1 DEF Inv, LatchInv
  <2>6. ComingInv'
    BY <1>4, <1>8 DEF ComingInv
  <2> QED
    BY <1>5, <1>10, <2>2, <2>3, <2>4, <2>5, <2>6 DEF Inv
<1>9. CASE cycle = None /\ exists /\ AllTerminal(rec)
  <2>1. judging' = "seen" /\ recs' = rec /\ UNCHANGED armVars
    BY <1>1, <1>9
  <2>2. UNCHANGED <<pending_arm, post_process, finished_latch>>
    BY <2>1 DEF armVars
  <2>3. TypeOK'
    <3>1. JudgeTypes'
      BY <1>4, <2>1 DEF Inv, TypeOK, JudgeTypes, StoreTypes, Members
    <3> QED
      BY <1>1, <1>2, <2>1, <3>1, TypesStill DEF TypeOK
  <2>4. CycleInv' /\ ArmInv' /\ GoneInv'
    BY <1>2, <1>3, <1>9, <2>2, Still DEF GoneInv
  <2>5. JudgeInv'
    BY <1>2, <1>3, <1>4, <1>9, <2>1 DEF JudgeInv, AllTerminal, Members
  <2>6. /\ OnceInv'
        /\ LatchInv'
    BY <1>2, <1>3, <2>2, StillTold
  <2>7. ComingInv'
    BY <2>1 DEF ComingInv, Coming
  <2> QED
    BY <1>5, <1>10, <2>3, <2>4, <2>5, <2>6, <2>7 DEF Inv
<1> QED
  BY <1>1, <1>6, <1>7, <1>8, <1>9

\* A judgement put off while a submission or a kill is under way: what puts it
\* off asks for it again when it ends.
LEMMA JudgeLaterStep ==
  ASSUME Inv, JudgeLater
  PROVE  Inv'
<1>1. /\ judging = "seen" /\ ActiveKills # {} /\ judging' = "no" /\ recs' = << >>
      /\ UNCHANGED <<storeVars, cycleVars, killVars, armVars, queue, pollVars, seenVars>>
  BY DEF JudgeLater
<1>2. RecMoves /\ EndsStay /\ NoNews /\ ResetsStay /\ NoKilled /\ Waiting' = Waiting /\ UNCHANGED <<exists, rec>>
  BY <1>1, RecStill, QueueStill DEF storeVars
<1>3. UNCHANGED <<used, cycle, launch, todo, launched, kill, plan, pending_arm, post_process,
                  finished_latch, requests, timer, poll, news, ran, ahead, unconfirmed>>
  BY <1>1 DEF cycleVars, killVars, armVars, pollVars, seenVars
<1>4. TypeOK'
  <2>1. JudgeTypes'
    <3>1. DOMAIN << >> = {}
      OBVIOUS
    <3> QED
      BY <1>1, <3>1 DEF JudgeTypes
  <2> QED
    BY <1>1, <1>2, <2>1, TypesStill DEF TypeOK
<1>5. RecInv' /\ CycleInv' /\ ArmInv'
  BY <1>1, <1>2, <1>3, Still
<1>6. JudgeInv' /\ GoneInv'
  BY <1>1, <1>2, <1>3 DEF Inv, JudgeInv, GoneInv
<1>7. ComingInv'
  BY <1>1, <1>3, KillStill DEF ComingInv, Coming
<1> QED
  BY <1>1, <1>2, <1>3, <1>4, <1>5, <1>6, <1>7, StillTold DEF Inv

\* The second part: it is told, and what is armed runs.
LEMMA JudgeStep ==
  ASSUME Inv, Judge
  PROVE  Inv'
<1>1. /\ judging = "seen" /\ ActiveKills = {} /\ judging' = "no" /\ recs' = << >>
      /\ finished_latch' = TRUE /\ post_process' = None
      /\ ran' = [c \in Cycles |-> IF c = post_process THEN ran[c] + 1 ELSE ran[c]]
      /\ ahead' = (ahead \/ ResetWaits)
      /\ UNCHANGED <<storeVars, cycleVars, killVars, pending_arm, queue, pollVars, unconfirmed>>
  BY DEF Judge, Tell
<1>2. \/ AllKilled(recs) /\ news' = "told"
      \/ ~AllKilled(recs) /\ finished_latch /\ UNCHANGED news
      \/ ~AllKilled(recs) /\ ~finished_latch /\ news' = IF news = "owed" THEN "told" ELSE "twice"
  BY DEF Judge, Tell
<1>3. RecMoves /\ EndsStay /\ NoNews /\ ResetsStay /\ NoKilled /\ Waiting' = Waiting /\ UNCHANGED <<exists, rec>>
  BY <1>1, RecStill, QueueStill DEF storeVars
<1>4. UNCHANGED <<used, cycle, launch, todo, launched, kill, plan, pending_arm, requests, timer, poll>>
  BY <1>1 DEF cycleVars, killVars, pollVars
<1>5. exists /\ cycle = None /\ AllTerminal(rec) /\ rec = recs /\ launch = "none"
  BY <1>1 DEF Inv, JudgeInv, CycleInv
<1>6. TypeOK'
  <2>1. JudgeTypes'
    <3>1. DOMAIN << >> = {}
      OBVIOUS
    <3> QED
      BY <1>1, <3>1 DEF JudgeTypes
  <2>2. ArmTypes'
    BY <1>1, <1>4 DEF Inv, TypeOK, ArmTypes
  <2>3. news' \in {"owed", "told", "twice"}
    BY <1>2 DEF Inv, TypeOK, SeenTypes
  <2>4. ran' \in [Cycles -> Nat]
    BY <1>1 DEF Inv, TypeOK, SeenTypes
  <2>5. ahead' \in BOOLEAN
    BY <1>1 DEF ResetWaits, Inv, TypeOK, SeenTypes
  <2>6. unconfirmed' \subseteq Cycles
    BY <1>1 DEF Inv, TypeOK, SeenTypes
  <2>7. SeenTypes'
    BY <2>3, <2>4, <2>5, <2>6 DEF SeenTypes
  <2> QED
    BY <1>1, <1>3, <2>1, <2>2, <2>7, TypesStill DEF TypeOK
<1>7. RecInv'
  BY <1>1, <1>3, Still
<1>8. CycleInv'
  BY <1>3, <1>4, <1>5 DEF Inv, CycleInv
<1>9. ArmInv'
  <2>1. \A c \in Cycles : c # post_process => ran'[c] = ran[c]
    BY <1>1
  <2>2. \A c \in Cycles : Own(c) => Own(c)'
    BY <1>3, <1>4 DEF Own
  <2>3. pending_arm \in Cycles \cup {None} /\ post_process \in Cycles \cup {None} /\ None \notin Cycles
    BY CompletionAssumption DEF Inv, TypeOK, ArmTypes
  <2> QED
    BY <1>1, <1>3, <1>4, <2>1, <2>2, <2>3 DEF Inv, ArmInv, NoNews
<1>10. JudgeInv' /\ GoneInv'
  BY <1>1, <1>3, <1>5 DEF JudgeInv, GoneInv
<1>11. Members' = Members /\ AllTerminal(rec)' = AllTerminal(rec) /\ AllKilled(rec)' = AllKilled(recs)
  BY <1>3, <1>5 DEF Members, AllTerminal, AllKilled
<1>12. OnceInv'
  <2>1. OnceInv
    BY DEF Inv
  <2>2. news' = "twice" => ahead'
    BY <1>1, <1>2, <1>5, <2>1 DEF OnceInv
  <2>3. ~ahead' => \A c \in Cycles : ResetOf(c) \in Waiting => c # pending_arm
    <3>1. queue \in Seq(Signals)
      BY DEF Inv, TypeOK, QueueTypes
    <3>2. DOMAIN queue = 1..Len(queue)
      BY <3>1
    <3>3. ResetOf(pending_arm) \in Waiting => ResetWaits
      BY <3>2 DEF ResetWaits, ResetOf, Waiting, Elems
    <3> QED
      BY <1>1, <3>3
  <2> QED
    BY <1>1, <1>3, <1>4, <1>5, <1>11, <2>1, <2>2, <2>3 DEF OnceInv
<1>13. news' = "owed" => ~AllKilled(recs) /\ \E key \in Members : Held(key)
  BY <1>2, <1>5 DEF Inv, LatchInv
<1>14. ComingInv'
  <2> SUFFICES ASSUME news' = "owed", ~Coming' PROVE Excused'
    BY DEF ComingInv
  <2>1. PICK key \in Members : Held(key)
    BY <1>13
  <2>2. rec[key].state # "CREATED"
    BY <1>5 DEF AllTerminal, Members
  <2>3. \A c \in Cycles : ResetOf(c) \notin Waiting
    BY <1>3, <1>5, BehindComing DEF Coming
  <2>4. rec[key].run \in unconfirmed
    BY <2>1, <2>2, <2>3 DEF Held
  <2> QED
    BY <1>1, <1>3, <1>11, <2>4 DEF Excused
<1>15. LatchInv' /\ BehindInv'
  <2>1. \A key \in Members : Held(key) => Held(key)'
    BY <1>1, <1>3 DEF Held
  <2>2. LatchInv'
    BY <1>11, <1>13, <2>1 DEF LatchInv
  <2> QED
    BY <1>1, <1>3, <1>4, <2>2, StillTold
<1> QED
  BY <1>6, <1>7, <1>8, <1>9, <1>10, <1>12, <1>14, <1>15 DEF Inv

-----------------------------------------------------------------------------
(* Calls of the application.                                               *)

\* A submission takes the cycle: nothing of it is pending or armed.
LEMMA SubmitStep ==
  ASSUME Inv, NEW c \in Cycles, NEW ks \in SUBSET Members, Submit(c, ks)
  PROVE  Inv'
<1>1. /\ judging = "no" /\ exists /\ cycle = None /\ c \notin used /\ ks # {}
      /\ post_process' = None /\ pending_arm' = c
      /\ used' = used \cup {c} /\ cycle' = c /\ launch' = "check" /\ todo' = ks /\ cancelled' = FALSE
      /\ UNCHANGED <<finished_latch, storeVars, launched, killVars, queue, judgeVars, pollVars, seenVars>>
  BY DEF Submit, Stage, GuiFree, Busy
<1>2. RecMoves /\ EndsStay /\ NoNews /\ ResetsStay /\ NoKilled /\ Waiting' = Waiting /\ UNCHANGED <<exists, rec>>
  BY <1>1, RecStill, QueueStill DEF storeVars
<1>3. UNCHANGED <<launched, kill, plan, judging, recs, requests, timer, poll, news, ran, ahead, unconfirmed>>
  BY <1>1 DEF killVars, judgeVars, pollVars, seenVars
<1>4. Members' = Members /\ AllTerminal(rec)' = AllTerminal(rec) /\ launch = "none" /\ c # None
  BY <1>1, <1>2, CompletionAssumption DEF Members, AllTerminal, Inv, CycleInv
<1>5. TypeOK'
  <2>1. CycleTypes' /\ ArmTypes'
    BY <1>1, <1>4 DEF Inv, TypeOK, CycleTypes, ArmTypes
  <2> QED
    BY <1>1, <1>2, <2>1, TypesStill DEF TypeOK
<1>6. RecInv' /\ JudgeInv' /\ GoneInv'
  BY <1>1, <1>2, <1>3, Still DEF JudgeInv, GoneInv
<1>7. CycleInv'
  <2>1. launched[c] = {}
    BY <1>1 DEF Inv, ArmInv
  <2> QED
    BY <1>1, <1>3, <1>4, <2>1 DEF CycleInv
<1>8. ArmInv'
  <2>1. launched[c] = {} /\ ran[c] = 0
    BY <1>1 DEF Inv, ArmInv
  <2>2. Own(c)'
    BY <1>3, <2>1 DEF Own
  <2> QED
    BY <1>1, <1>2, <1>3, <2>1, <2>2 DEF Inv, ArmInv, NoNews
<1>9. OnceInv'
  <2>1. OnceInv
    BY DEF Inv
  <2>2. ResetOf(c) \notin Waiting
    BY <1>1 DEF Inv, ArmInv
  <2> QED
    BY <1>1, <1>2, <1>3, <1>4, <2>1, <2>2 DEF OnceInv
<1>10. LatchInv' /\ BehindInv'
  <2>1. \A key \in Members : Held(key) => Held(key)'
    BY <1>2, <1>3 DEF Held
  <2>2. LatchInv'
    BY <1>1, <1>2, <1>3, <1>4, <2>1 DEF Inv, LatchInv
  <2>3. BehindInv'
    BY <1>1, <1>4 DEF Inv, BehindInv
  <2> QED
    BY <2>2, <2>3
<1>11. ComingInv'
  BY <1>1, <1>4 DEF ComingInv, Coming
<1> QED
  BY <1>5, <1>6, <1>7, <1>8, <1>9, <1>10, <1>11 DEF Inv

\* A refused submission drops what is pending or armed, and a judgement is due.
LEMMA SubmitRefusedStep ==
  ASSUME Inv, NEW c \in Cycles, SubmitRefused(c)
  PROVE  Inv'
<1>1. /\ judging = "no" /\ exists /\ cycle = None /\ c \notin used
      /\ post_process' = None /\ pending_arm' = None /\ used' = used \cup {c} /\ judging' = "due"
      /\ UNCHANGED <<storeVars, cycle, launch, todo, cancelled, launched, killVars, finished_latch,
                     queue, recs, pollVars, seenVars>>
  BY DEF SubmitRefused, Busy
<1>2. RecMoves /\ EndsStay /\ NoNews /\ ResetsStay /\ NoKilled /\ Waiting' = Waiting /\ UNCHANGED <<exists, rec>>
  BY <1>1, RecStill, QueueStill DEF storeVars
<1>3. UNCHANGED <<launched, kill, plan, recs, requests, timer, poll, news, ran, ahead, unconfirmed>>
  BY <1>1 DEF killVars, pollVars, seenVars
<1>4. Members' = Members /\ launch = "none"
  BY <1>1, <1>2 DEF Members, Inv, CycleInv
<1>5. TypeOK'
  <2>1. CycleTypes' /\ ArmTypes' /\ JudgeTypes'
    BY <1>1, <1>4 DEF Inv, TypeOK, CycleTypes, ArmTypes, JudgeTypes
  <2> QED
    BY <1>1, <1>2, <2>1, TypesStill DEF TypeOK
<1>6. RecInv' /\ JudgeInv' /\ GoneInv'
  BY <1>1, <1>2, <1>3, Still DEF JudgeInv, GoneInv
<1>7. CycleInv'
  BY <1>1, <1>4 DEF CycleInv
<1>8. ArmInv'
  BY <1>1, <1>2, <1>3 DEF Inv, ArmInv, NoNews
<1>9. OnceInv'
  <2>1. AllTerminal(rec)' = AllTerminal(rec)
    BY <1>2 DEF AllTerminal
  <2> QED
    BY <1>1, <1>2, <1>3, <2>1, CompletionAssumption DEF Inv, OnceInv
<1>10. LatchInv' /\ BehindInv'
  BY <1>1, <1>2, <1>3, StillTold
<1>11. ComingInv'
  BY <1>1 DEF ComingInv, Coming
<1> QED
  BY <1>5, <1>6, <1>7, <1>8, <1>9, <1>10, <1>11 DEF Inv

\* A submission that is cancelled is only marked.
LEMMA CancelSubmitStep ==
  ASSUME Inv, CancelSubmit
  PROVE  Inv'
<1>1. /\ cancelled' = TRUE
      /\ UNCHANGED <<storeVars, used, cycle, launch, todo, launched, killVars, armVars,
                     queue, judgeVars, pollVars, seenVars>>
  BY DEF CancelSubmit
<1>2. RecMoves /\ EndsStay /\ NoNews /\ ResetsStay /\ NoKilled /\ Waiting' = Waiting /\ UNCHANGED <<exists, rec>>
  BY <1>1, RecStill, QueueStill DEF storeVars
<1>3. UNCHANGED <<used, cycle, launch, todo, launched, kill, plan, pending_arm, post_process, judging,
                  recs, finished_latch, requests, timer, poll, news, ran, ahead, unconfirmed>>
  BY <1>1 DEF killVars, armVars, judgeVars, pollVars, seenVars
<1>4. TypeOK'
  <2>1. CycleTypes'
    BY <1>1, <1>2, <1>3 DEF Inv, TypeOK, CycleTypes, Members
  <2> QED
    BY <1>1, <1>2, <2>1, TypesStill DEF TypeOK
<1>5. RecInv' /\ CycleInv' /\ ArmInv' /\ JudgeInv' /\ GoneInv'
  BY <1>1, <1>2, <1>3, Still
<1>6. Coming => Coming'
  BY <1>2, <1>3, KillStill DEF Coming
<1> QED
  BY <1>1, <1>2, <1>3, <1>4, <1>5, <1>6, StillTold DEF Inv

\* An edit makes a record CREATED again, with nothing under way.
LEMMA EditStep ==
  ASSUME Inv, NEW key \in Members, Edit(key)
  PROVE  Inv'
<1>1. /\ judging = "no" /\ exists /\ cycle = None /\ ActiveKills = {} /\ rec' = [rec EXCEPT ![key] = New]
      /\ requests' = Append(requests, "start") /\ news' = "owed" /\ ahead' = FALSE
      /\ UNCHANGED <<exists, cycleVars, killVars, armVars, queue, judgeVars, timer, idle, poll, ran, unconfirmed>>
  BY DEF Edit, GuiFree, Busy, Owe
<1>2. UNCHANGED <<used, cycle, launch, todo, cancelled, launched, kill, plan, judging, recs,
                  pending_arm, post_process, finished_latch>>
  BY <1>1 DEF cycleVars, killVars, armVars, judgeVars
<1>3. NoNews /\ NoKilled /\ Waiting' = Waiting
  BY <1>1, QueueStill
<1>4. /\ rec \in [Members -> Records] /\ None \notin Cycles
      /\ New \in Records /\ New.state = "CREATED" /\ New.run = None
  BY CompletionAssumption DEF Inv, TypeOK, StoreTypes, New, Records, States
<1>5. /\ rec' \in [Members -> Records] /\ Members' = Members
      /\ \A k \in Members : rec'[k] = rec[k] \/ rec'[k] = New
      /\ rec'[key] = New
  BY <1>1, <1>4 DEF Members
<1>6. launch = "none"
  BY <1>1 DEF Inv, CycleInv
<1>7. TypeOK'
  <2>1. StoreTypes'
    BY <1>1, <1>5 DEF Inv, TypeOK, StoreTypes
  <2>2. CycleTypes' /\ KillTypes' /\ ArmTypes' /\ QueueTypes' /\ JudgeTypes'
    BY <1>1, <1>2, <1>5 DEF Inv, TypeOK, CycleTypes, KillTypes, ArmTypes, QueueTypes, JudgeTypes
  <2>3. PollTypes'
    BY <1>1 DEF Inv, TypeOK, PollTypes
  <2>4. SeenTypes'
    BY <1>1 DEF Inv, TypeOK, SeenTypes
  <2> QED
    BY <2>1, <2>2, <2>3, <2>4 DEF TypeOK
<1>8. RecInv'
  <2>1. \A k \in Kills : kill[k] \notin {"planned", "verified"}
    BY <1>1 DEF ActiveKills
  <2> QED
    BY <1>2, <1>3, <1>4, <1>5, <2>1 DEF Inv, RecInv
<1>9. CycleInv'
  BY <1>1, <1>2, <1>6 DEF CycleInv
<1>10. ArmInv'
  <2>1. \A c \in Cycles : launched[c] \subseteq Members
    BY DEF Inv, TypeOK, CycleTypes
  <2>2. \A c \in Cycles : Own(c) => Own(c)'
    BY <1>2, <1>4, <1>5, <2>1 DEF Own
  <2>3. pending_arm \in Cycles \cup {None} /\ post_process \in Cycles \cup {None}
    BY DEF Inv, TypeOK, ArmTypes
  <2> QED
    BY <1>1, <1>2, <1>3, <2>2, <2>3 DEF Inv, ArmInv, NoNews
<1>11. JudgeInv' /\ GoneInv'
  BY <1>1, <1>2 DEF JudgeInv, GoneInv
<1>12. OnceInv'
  BY <1>1, <1>2, <1>3, <1>6 DEF OnceInv
<1>13. LatchInv' /\ BehindInv'
  <2>1. \E k \in Members' : Held(k)'
    BY <1>4, <1>5 DEF Held
  <2> QED
    BY <1>1, <1>2, <2>1 DEF Inv, LatchInv, BehindInv
<1>14. ComingInv'
  BY <1>4, <1>5 DEF ComingInv, AllTerminal, Members
<1> QED
  BY <1>7, <1>8, <1>9, <1>10, <1>11, <1>12, <1>13, <1>14 DEF Inv

\* A removed jobset is forgotten with all it had pending.
LEMMA RemoveJobsetStep ==
  ASSUME Inv, RemoveJobset
  PROVE  Inv'
<1>1. /\ judging = "no" /\ exists' = FALSE /\ cancelled' = (cancelled \/ cycle # None)
      /\ requests' = Append(requests, "stop")
      /\ pending_arm' = None /\ post_process' = None /\ finished_latch' = FALSE
      /\ UNCHANGED <<rec, used, cycle, launch, todo, launched, killVars, queue, judgeVars, timer,
                     idle, poll, seenVars>>
  BY DEF RemoveJobset, Forget, GuiFree
<1>2. RecMoves /\ EndsStay /\ NoNews /\ ResetsStay /\ NoKilled /\ Waiting' = Waiting
  BY <1>1, RecStill, QueueStill
<1>3. UNCHANGED <<rec, used, cycle, launch, todo, launched, kill, plan, judging, recs, timer, poll, news, ran, ahead, unconfirmed>>
  BY <1>1 DEF killVars, judgeVars, seenVars
<1>4. requests \in Seq({"start", "stop", "poll"})
  BY DEF Inv, TypeOK, PollTypes
<1>5. /\ requests' \in Seq({"start", "stop", "poll"}) /\ requests' # << >>
      /\ requests'[Len(requests')] = "stop"
  BY <1>1, <1>4
<1>6. TypeOK'
  <2>1. StoreTypes' /\ ArmTypes'
    BY <1>1, <1>2 DEF Inv, TypeOK, StoreTypes, ArmTypes, Members
  <2>2. cancelled' \in BOOLEAN
    BY <1>1 DEF Inv, TypeOK, CycleTypes
  <2>3. CycleTypes'
    BY <1>1, <2>2 DEF Inv, TypeOK, CycleTypes, Members
  <2>4. PollTypes'
    BY <1>1, <1>5 DEF Inv, TypeOK, PollTypes
  <2> QED
    BY <1>1, <1>2, <2>1, <2>3, <2>4, TypesStill DEF TypeOK
<1>7. RecInv'
  BY <1>1, <1>2, Still
<1>8. CycleInv'
  BY <1>1, <1>3 DEF Inv, CycleInv
<1>9. ArmInv'
  BY <1>1, <1>2, <1>3 DEF Inv, ArmInv, NoNews
<1>10. JudgeInv' /\ GoneInv'
  BY <1>1, <1>3, <1>5 DEF JudgeInv, GoneInv
<1>11. OnceInv' /\ LatchInv' /\ ComingInv'
  BY <1>1, <1>3 DEF Inv, OnceInv, LatchInv, ComingInv
<1>12. BehindInv'
  BY <1>1 DEF Inv, BehindInv
<1> QED
  BY <1>6, <1>7, <1>8, <1>9, <1>10, <1>11, <1>12 DEF Inv

-----------------------------------------------------------------------------
(* The cycle.                                                              *)

\* A cycle ends: what it posts leads to a judgement, unless it is a refusal that
\* is not reported, and one that has reset its records and not announced it is
\* remembered.
LEMMA CycleEnd ==
  ASSUME Inv, cycle \in Cycles, CycleOver, RecMoves, NoNews, ResetsStay, NoKilled, QueueTypes',
         BehindInv', EndsStay \/ launch \in {"reset", "running"},
         UNCHANGED <<exists, used, launched, killVars, armVars, judgeVars, pollVars, news, ran, ahead>>,
         unconfirmed \subseteq unconfirmed', unconfirmed' \subseteq Cycles,
         launch = "reset" /\ exists => \E key \in Members : rec[key].run \in unconfirmed',
         exists => \/ \E s \in Waiting' : s.kind = "finished"
                   \/ ~FinishOnGateReject /\ launched[cycle] = {}
  PROVE  Inv'
<1>1. cycle' = None /\ launch' = "none" /\ todo' = {} /\ cancelled' = FALSE
  BY DEF CycleOver
<1>2. UNCHANGED <<kill, plan, pending_arm, post_process, finished_latch, judging, recs, requests,
                  timer, poll, news, ran, ahead>>
  BY DEF killVars, armVars, judgeVars, pollVars
<1>3. Members' = Members /\ cycle # None /\ None \notin Cycles
  BY CompletionAssumption DEF RecMoves, Members
<1>4. TypeOK'
  <2>1. CycleTypes'
    BY <1>1, <1>3 DEF Inv, TypeOK, CycleTypes
  <2>2. SeenTypes'
    BY <1>2 DEF Inv, TypeOK, SeenTypes
  <2> QED
    BY <2>1, <2>2, TypesStill DEF TypeOK
<1>5. RecInv' /\ GoneInv'
  BY <1>2, Still
<1>6. CycleInv'
  BY <1>1 DEF CycleInv
<1>7. ArmInv'
  <2>1. \A c \in Cycles : launched[c] \subseteq Members
    BY DEF Inv, TypeOK, CycleTypes
  <2>2. \A c \in Cycles : Own(c) => Own(c)'
    BY <2>1 DEF Own, RecMoves
  <2>3. pending_arm \in Cycles \cup {None} /\ post_process \in Cycles \cup {None}
    BY DEF Inv, TypeOK, ArmTypes
  <2> QED
    BY <1>2, <2>2, <2>3 DEF Inv, ArmInv, NoNews
<1>8. JudgeInv'
  BY <1>2, <1>3 DEF Inv, JudgeInv
<1>9. OnceInv'
  <2>1. OnceInv
    BY DEF Inv
  <2>2. exists /\ news # "owed" => AllTerminal(rec')
    BY <1>3, <2>1 DEF OnceInv, AllTerminal, EndsStay, Members
  <2> QED
    BY <1>1, <1>2, <2>1, <2>2 DEF OnceInv, NoNews
<1>10. LatchInv'
  <2>1. \A key \in Members : Held(key) => Held(key)'
    BY DEF Held, RecMoves, ResetsStay
  <2>2. launch = "reset" /\ exists => \E key \in Members : Held(key)'
    BY DEF Held, RecMoves
  <2> QED
    BY <1>1, <1>2, <1>3, <2>1, <2>2 DEF Inv, LatchInv
<1>11. ComingInv'
  <2>1. CASE exists /\ ~FinishOnGateReject /\ launched[cycle] = {}
    <3>1. cycle \in used' \ {cycle'} /\ launched'[cycle] = {}
      BY <1>1, <1>3, <2>1 DEF Inv, CycleInv
    <3>2. Excused'
      BY <2>1, <3>1 DEF Excused
    <3> QED
      BY <3>2 DEF ComingInv
  <2>2. CASE \E s \in Waiting' : s.kind = "finished"
    BY <2>2 DEF ComingInv, Coming
  <2>3. CASE ~exists
    BY <2>3 DEF ComingInv
  <2> QED
    BY <2>1, <2>2, <2>3
<1> QED
  BY <1>4, <1>5, <1>6, <1>7, <1>8, <1>9, <1>10, <1>11 DEF Inv

\* gate_rejected and, as a rule, submit_finished.
LEMMA RejectPosted ==
  ASSUME Inv, NEW c \in Cycles, NEW report \in BOOLEAN, PostRejected(c, report)
  PROVE  /\ QueueTypes' /\ NoNews /\ ResetsStay /\ NoKilled
         /\ launch # "running" => BehindInv'
         /\ report => \E s \in Waiting' : s.kind = "finished"
<1> DEFINE f == [kind |-> "finished", of |-> c]
<1> DEFINE more == IF report THEN <<f>> ELSE << >>
<1>1. queue \in Seq(Signals) /\ queue' = queue \o <<RejectedOf(c)>> \o more
  BY DEF Inv, TypeOK, QueueTypes, PostRejected, RejectedOf
<1>2. RejectedOf(c) \in Signals /\ f \in Signals /\ f.kind = "finished"
  BY SignalTypes
<1> HIDE DEF f
<1>3. /\ <<RejectedOf(c)>> \in Seq(Signals) /\ Elems(<<RejectedOf(c)>>) = {RejectedOf(c)}
      /\ more \in Seq(Signals) /\ Elems(more) \subseteq {f} /\ (report => f \in Elems(more))
  BY <1>2 DEF Elems
<1> HIDE DEF more
<1>4. /\ queue' \in Seq(Signals)
      /\ Waiting' = (Waiting \cup {RejectedOf(c)}) \cup Elems(more)
  <2>1. PICK one : one = <<RejectedOf(c)>>
    OBVIOUS
  <2>2. /\ queue \in Seq(Signals) /\ one \in Seq(Signals) /\ Elems(one) = {RejectedOf(c)}
        /\ queue' = (queue \o one) \o more
    BY <1>1, <1>3, <2>1, Zenon
  <2>3. more \in Seq(Signals)
    BY <1>3, Zenon
  <2>4. queue \o one \in Seq(Signals) /\ Elems(queue \o one) = Elems(queue) \cup {RejectedOf(c)}
    BY <2>2, Joined
  <2>5. PICK m : m = queue \o one
    OBVIOUS
  <2>6. PICK n : n = more
    OBVIOUS
  <2>7. m \in Seq(Signals) /\ n \in Seq(Signals)
    BY <2>3, <2>4, <2>5, <2>6, Zenon
  <2>8. m \o n \in Seq(Signals) /\ Elems(m \o n) = Elems(m) \cup Elems(n)
    BY <2>7, Joined
  <2> QED
    BY <2>2, <2>4, <2>5, <2>6, <2>8, Zenon DEF Waiting
<1>5. \A s \in Waiting' : s \in Waiting \/ s = RejectedOf(c) \/ s = f
  BY <1>3, <1>4
<1>6. /\ \A d \in Cycles : ResetOf(d) # RejectedOf(c) /\ ResetOf(d) # f
      /\ \A k \in Kills : KilledBy(k) # RejectedOf(c) /\ KilledBy(k) # f
  BY <1>2, SignalTypes
<1>7. report => \E s \in Waiting' : s.kind = "finished"
  BY <1>2, <1>3, <1>4
<1>8. launch # "running" => BehindInv'
  <2>1. PICK t : t = <<RejectedOf(c)>> \o more
    OBVIOUS
  <2>2. PICK one : one = <<RejectedOf(c)>>
    OBVIOUS
  <2>3. PICK n : n = more
    OBVIOUS
  <2>4. /\ one \in Seq(Signals) /\ Elems(one) = {RejectedOf(c)}
        /\ n \in Seq(Signals) /\ Elems(n) \subseteq {f}
    BY <1>3, <2>2, <2>3, Zenon
  <2>5. t \in Seq(Signals) /\ Elems(t) \subseteq {RejectedOf(c), f}
    <3>1. one \o n \in Seq(Signals) /\ Elems(one \o n) = Elems(one) \cup Elems(n)
      BY <2>4, Joined
    <3>2. t = one \o n
      BY <2>1, <2>2, <2>3, Zenon
    <3> QED
      BY <2>4, <3>1, <3>2
  <2>6. queue' = queue \o t
    <3>1. queue' = (queue \o one) \o n
      BY <1>1, <2>2, <2>3, Zenon
    <3>2. t = one \o n
      BY <2>1, <2>2, <2>3, Zenon
    <3>3. (queue \o one) \o n = queue \o (one \o n)
      BY <1>1, <2>4, SMTT(30)
    <3> QED
      BY <3>1, <3>2, <3>3
  <2>7. \A i \in 1..Len(t) : t[i].kind # "reset"
    <3>1. RejectedOf(c).kind # "reset" /\ f.kind # "reset"
      BY <1>2, SignalTypes
    <3> QED
      BY <2>5, <3>1 DEF Elems
  <2> QED
    BY <2>5, <2>6, <2>7, BehindJoin
<1> QED
  BY <1>4, <1>5, <1>6, <1>7, <1>8 DEF QueueTypes, NoNews, ResetsStay, NoKilled

\* A check that fails or refuses.
LEMMA RejectStep ==
  ASSUME Inv, Reject
  PROVE  Inv'
<1>1. /\ launch = "check" /\ CycleOver
      /\ UNCHANGED <<storeVars, used, launched, killVars, armVars, judgeVars, pollVars, seenVars>>
  BY DEF Reject
<1>2. PICK report \in {TRUE, FinishOnGateReject} : PostRejected(cycle, report)
  BY DEF Reject
<1>3. cycle \in Cycles /\ report \in BOOLEAN /\ (report \/ ~FinishOnGateReject)
  <2>1. cycle \in Cycles
    BY <1>1 DEF Inv, TypeOK, CycleTypes, CycleInv
  <2>2. FinishOnGateReject \in BOOLEAN
    BY CompletionAssumption
  <2>3. report = TRUE \/ report = FinishOnGateReject
    BY <1>2
  <2>4. report \in BOOLEAN
    BY <2>2, <2>3
  <2>5. report \/ ~FinishOnGateReject
    BY <2>3, Zenon
  <2> QED
    BY <2>1, <2>4, <2>5
<1>4. RecMoves /\ EndsStay /\ UNCHANGED exists
  BY <1>1, RecStill DEF storeVars
<1>5. UNCHANGED <<news, ran, ahead, unconfirmed>> /\ unconfirmed \subseteq Cycles
  BY <1>1 DEF seenVars, Inv, TypeOK, SeenTypes
<1>6. launched[cycle] = {}
  BY <1>1, <1>3 DEF Inv, CycleInv
<1>7. exists => \/ \E s \in Waiting' : s.kind = "finished"
                \/ ~FinishOnGateReject /\ launched[cycle] = {}
  BY <1>2, <1>3, <1>6, RejectPosted
<1> QED
  BY <1>1, <1>2, <1>3, <1>4, <1>5, <1>7, RejectPosted, CycleEnd

\* A launch that fails after the reset.
LEMMA LaunchFailStep ==
  ASSUME Inv, LaunchFail
  PROVE  Inv'
<1>1. /\ launch = "reset" /\ CycleOver /\ cycle \in LaunchFails /\ PostRejected(cycle, TRUE)
      /\ rec' = [key \in Members |-> IF exists /\ key \in todo
                                     THEN [rec[key] EXCEPT !.state = "END"] ELSE rec[key]]
      /\ unconfirmed' = unconfirmed \cup {cycle}
      /\ UNCHANGED <<exists, used, launched, killVars, armVars, judgeVars, pollVars, news, ran, ahead>>
  BY DEF LaunchFail
<1>2. cycle \in Cycles /\ None \notin Cycles /\ unconfirmed \subseteq Cycles
  BY <1>1, CompletionAssumption DEF Inv, TypeOK, SeenTypes
<1>3. RecMoves
  <2>1. rec \in [Members -> Records] /\ todo \subseteq Members
    BY DEF Inv, TypeOK, StoreTypes, CycleTypes
  <2>2. ASSUME NEW key \in Members
        PROVE  /\ rec'[key] \in Records
               /\ rec'[key].run = rec[key].run
               /\ rec'[key].state = "CREATED" <=> rec[key].state = "CREATED"
    <3>1. CASE exists /\ key \in todo
      <4>1. rec'[key] = [rec[key] EXCEPT !.state = "END"] /\ rec[key] \in Records
        BY <1>1, <2>1, <3>1
      <4>2. rec[key].run = cycle /\ rec[key].state # "CREATED"
        BY <1>1, <1>2, <3>1 DEF Inv, CycleInv, RecInv
      <4> QED
        BY <4>1, <4>2 DEF Records, States
    <3>2. CASE ~(exists /\ key \in todo)
      BY <1>1, <2>1, <3>2
    <3> QED
      BY <3>1, <3>2
  <2>3. DOMAIN rec' = Members /\ rec' = [key \in Members |-> rec'[key]]
    BY <1>1
  <2>4. rec' \in [Members -> Records]
    BY <2>2, <2>3
  <2> QED
    BY <2>2, <2>4 DEF RecMoves
<1>4. /\ unconfirmed \subseteq unconfirmed' /\ unconfirmed' \subseteq Cycles
      /\ launch \in {"reset", "running"} /\ launch # "running"
  BY <1>1, <1>2
<1>5. \E key \in Members : rec[key].run \in unconfirmed'
  <2>1. PICK key \in todo : rec[key].run = cycle
    BY <1>1 DEF Inv, CycleInv
  <2>2. key \in Members
    BY DEF Inv, TypeOK, CycleTypes
  <2> QED
    BY <1>1, <2>1, <2>2
<1>6. \E s \in Waiting' : s.kind = "finished"
  BY <1>1, <1>2, RejectPosted
<1> QED
  BY <1>1, <1>2, <1>3, <1>4, <1>5, <1>6, RejectPosted, CycleEnd

\* The jobset is gone.
LEMMA ResetGoneStep ==
  ASSUME Inv, ResetGone
  PROVE  Inv'
<1> DEFINE f == [kind |-> "finished", of |-> cycle]
<1>1. /\ launch = "check" /\ ~exists /\ CycleOver /\ queue' = queue \o <<f, RejectedOf(cycle)>>
      /\ UNCHANGED <<storeVars, used, launched, killVars, armVars, judgeVars, pollVars, seenVars>>
  BY DEF ResetGone, RejectedOf
<1>2. cycle \in Cycles /\ queue \in Seq(Signals)
  BY <1>1 DEF Inv, TypeOK, CycleTypes, CycleInv, QueueTypes
<1>3. f \in Signals /\ f.kind = "finished" /\ RejectedOf(cycle) \in Signals
  BY <1>2, SignalTypes
<1> HIDE DEF f
<1>4. <<f, RejectedOf(cycle)>> \in Seq(Signals) /\ Elems(<<f, RejectedOf(cycle)>>) = {f, RejectedOf(cycle)}
  BY <1>3 DEF Elems
<1>5. queue' \in Seq(Signals) /\ Waiting' = Waiting \cup {f, RejectedOf(cycle)}
  <2>1. PICK two : two = <<f, RejectedOf(cycle)>>
    OBVIOUS
  <2>2. /\ queue \in Seq(Signals) /\ two \in Seq(Signals) /\ Elems(two) = {f, RejectedOf(cycle)}
        /\ queue' = queue \o two
    BY <1>1, <1>2, <1>4, <2>1, Zenon
  <2>3. queue \o two \in Seq(Signals) /\ Elems(queue \o two) = Elems(queue) \cup {f, RejectedOf(cycle)}
    BY <2>2, Joined
  <2> QED
    BY <2>2, <2>3, Zenon DEF Waiting
<1>6. /\ \A d \in Cycles : ResetOf(d) # RejectedOf(cycle) /\ ResetOf(d) # f
      /\ \A k \in Kills : KilledBy(k) # RejectedOf(cycle) /\ KilledBy(k) # f
  BY <1>3, SignalTypes
<1>7. QueueTypes' /\ NoKilled
  BY <1>5, <1>6 DEF QueueTypes, NoKilled
<1>8. RecMoves /\ EndsStay /\ UNCHANGED exists
  BY <1>1, RecStill DEF storeVars
<1>9. UNCHANGED <<news, ran, ahead, unconfirmed>> /\ unconfirmed \subseteq Cycles
  BY <1>1 DEF seenVars, Inv, TypeOK, SeenTypes
<1>10. NoNews /\ ResetsStay
  BY <1>5, <1>6 DEF NoNews, ResetsStay
<1>11. BehindInv'
  <2>1. PICK two : two = <<f, RejectedOf(cycle)>>
    OBVIOUS
  <2>2. two \in Seq(Signals) /\ Elems(two) = {f, RejectedOf(cycle)} /\ queue' = queue \o two
    BY <1>1, <1>4, <2>1, Zenon
  <2>3. f.kind # "reset" /\ RejectedOf(cycle).kind # "reset"
    BY <1>3, SignalTypes
  <2>4. \A i \in 1..Len(two) : two[i].kind # "reset"
    BY <2>2, <2>3 DEF Elems
  <2> QED
    BY <1>1, <2>2, <2>4, BehindJoin
<1> QED
  BY <1>1, <1>2, <1>7, <1>8, <1>9, <1>10, <1>11, CycleEnd

\* The last unit is counted.
LEMMA FinishStep ==
  ASSUME Inv, Finish
  PROVE  Inv'
<1> DEFINE f == [kind |-> "finished", of |-> cycle]
<1>1. /\ launch = "running" /\ CycleOver /\ queue' = Append(queue, f)
      /\ UNCHANGED <<storeVars, used, launched, killVars, armVars, judgeVars, pollVars, seenVars>>
  BY DEF Finish, Post, ResetOf
<1>2. cycle \in Cycles /\ queue \in Seq(Signals)
  BY <1>1 DEF Inv, TypeOK, CycleTypes, CycleInv, QueueTypes
<1>3. f \in Signals /\ f.kind = "finished"
  BY <1>2, SignalTypes
<1>4. PICK s : s = f
  OBVIOUS
<1> HIDE DEF f
<1>5. QueueTypes' /\ NoKilled /\ NoNews /\ ResetsStay /\ Waiting' = Waiting \cup {s} /\ s.kind = "finished"
  BY <1>1, <1>3, <1>4, Posted
<1>6. RecMoves /\ EndsStay /\ UNCHANGED exists
  BY <1>1, RecStill DEF storeVars
<1>7. UNCHANGED <<news, ran, ahead, unconfirmed>> /\ unconfirmed \subseteq Cycles
  BY <1>1 DEF seenVars, Inv, TypeOK, SeenTypes
<1>8. BehindInv'
  <2>1. s \in Signals /\ queue' = Append(queue, s) /\ s.kind # "reset"
    BY <1>1, <1>3, <1>4, <1>5
  <2> QED
    BY <1>5, <2>1, BehindPost
<1>9. \E t \in Waiting' : t.kind = "finished"
  BY <1>5
<1> QED
  BY <1>1, <1>2, <1>5, <1>6, <1>7, <1>8, <1>9, CycleEnd

\* The records are reset for a new execution.
LEMMA ResetStep ==
  ASSUME Inv, Reset
  PROVE  Inv'
<1>1. /\ launch = "check" /\ exists /\ launch' = "reset" /\ news' = "owed" /\ ahead' = FALSE
      /\ rec' = [key \in Members |-> IF key \in todo
                   THEN [state |-> "SUBMITTING", killed |-> FALSE, run |-> cycle] ELSE rec[key]]
      /\ launched' = [launched EXCEPT ![cycle] = todo]
      /\ UNCHANGED <<exists, used, cycle, todo, cancelled, killVars, armVars, queue, judgeVars,
                     pollVars, ran, unconfirmed>>
  BY DEF Reset, Owe
<1>2. UNCHANGED <<kill, plan, pending_arm, post_process, finished_latch, judging, recs, requests,
                  timer, poll>>
  BY <1>1 DEF killVars, armVars, judgeVars, pollVars
<1>3. NoNews /\ NoKilled /\ Waiting' = Waiting
  BY <1>1, QueueStill
<1>4. /\ cycle \in Cycles /\ None \notin Cycles /\ cycle \in used /\ todo # {} /\ todo \subseteq Members
      /\ pending_arm \in {None, cycle} /\ post_process \in {None, cycle}
  BY <1>1, CompletionAssumption DEF Inv, TypeOK, CycleTypes, CycleInv
<1>5. /\ rec \in [Members -> Records] /\ launched \in [Cycles -> SUBSET Members]
      /\ [state |-> "SUBMITTING", killed |-> FALSE, run |-> cycle] \in Records
  BY <1>4 DEF Inv, TypeOK, StoreTypes, CycleTypes, Records, States
<1>6. /\ rec' \in [Members -> Records] /\ Members' = Members
      /\ \A key \in todo : rec'[key].run = cycle /\ rec'[key].state = "SUBMITTING"
      /\ \A key \in Members \ todo : rec'[key] = rec[key]
  <2>1. \A key \in Members : \/ key \in todo /\ rec'[key] = [state |-> "SUBMITTING", killed |-> FALSE, run |-> cycle]
                             \/ key \notin todo /\ rec'[key] = rec[key]
    BY <1>1
  <2>2. DOMAIN rec' = Members /\ rec' = [key \in Members |-> rec'[key]]
    BY <1>1
  <2>3. rec' \in [Members -> Records]
    BY <1>5, <2>1, <2>2
  <2> QED
    BY <1>4, <2>1, <2>2, <2>3 DEF Members
<1>7. launched' \in [Cycles -> SUBSET Members] /\ launched'[cycle] = todo
      /\ \A c \in Cycles : c # cycle => launched'[c] = launched[c]
  BY <1>1, <1>4, <1>5
<1>8. TypeOK'
  <2>1. StoreTypes'
    BY <1>1, <1>6 DEF Inv, TypeOK, StoreTypes
  <2>2. CycleTypes'
    BY <1>1, <1>4, <1>6, <1>7 DEF Inv, TypeOK, CycleTypes
  <2>3. KillTypes' /\ ArmTypes' /\ QueueTypes' /\ JudgeTypes'
    BY <1>1, <1>2, <1>6 DEF Inv, TypeOK, KillTypes, ArmTypes, QueueTypes, JudgeTypes
  <2>4. PollTypes' /\ SeenTypes'
    BY <1>1 DEF Inv, TypeOK, PollTypes, SeenTypes, pollVars
  <2> QED
    BY <2>1, <2>2, <2>3, <2>4 DEF TypeOK
<1>9. RecInv'
  <2>1. \A key \in Members : rec'[key].state = "CREATED" => key \notin todo /\ rec'[key] = rec[key]
    BY <1>6
  <2> QED
    BY <1>2, <1>3, <1>6, <2>1 DEF Inv, RecInv
<1>10. CycleInv'
  BY <1>1, <1>2, <1>4, <1>6, <1>7 DEF CycleInv
<1>11. ArmInv'
  <2>1. Own(cycle)'
    BY <1>1, <1>6, <1>7 DEF Own
  <2> QED
    BY <1>1, <1>2, <1>3, <1>4, <1>7, <2>1 DEF Inv, ArmInv
<1>12. JudgeInv' /\ GoneInv'
  BY <1>1, <1>2, <1>4 DEF Inv, JudgeInv, GoneInv
<1>13. OnceInv'
  BY <1>1 DEF OnceInv
<1>14. LatchInv' /\ BehindInv'
  BY <1>1 DEF Inv, LatchInv, BehindInv
<1>15. ComingInv'
  BY <1>1, <1>4 DEF ComingInv, Coming
<1> QED
  BY <1>8, <1>9, <1>10, <1>11, <1>12, <1>13, <1>14, <1>15 DEF Inv

\* The reset is announced.
LEMMA FanOutStep ==
  ASSUME Inv, FanOut
  PROVE  Inv'
<1>1. /\ launch = "reset" /\ launch' = "running" /\ queue' = Append(queue, ResetOf(cycle))
      /\ UNCHANGED <<storeVars, used, cycle, todo, cancelled, launched, killVars, armVars,
                     judgeVars, pollVars, seenVars>>
  BY DEF FanOut, Post, ResetOf
<1>2. RecMoves /\ EndsStay /\ UNCHANGED <<exists, rec>>
  BY <1>1, RecStill DEF storeVars
<1>3. UNCHANGED <<used, cycle, todo, launched, kill, plan, pending_arm, post_process, finished_latch,
                  judging, recs, requests, timer, poll, news, ran, ahead, unconfirmed>>
  BY <1>1 DEF killVars, armVars, judgeVars, pollVars, seenVars
<1>4. /\ cycle \in Cycles /\ None \notin Cycles /\ queue \in Seq(Signals)
      /\ cycle \in used /\ launched[cycle] # {}
  BY <1>1, CompletionAssumption DEF Inv, TypeOK, CycleTypes, CycleInv, QueueTypes
<1>5. queue' \in Seq(Signals) /\ Waiting' = Waiting \cup {ResetOf(cycle)}
  <2>1. ResetOf(cycle) \in Signals
    BY <1>4, SignalTypes
  <2> QED
    BY <1>1, <1>4, <2>1, Appended DEF Waiting
<1>6. /\ NoKilled
      /\ \A d \in Cycles : ResetOf(d) \in Waiting' => ResetOf(d) \in Waiting \/ d = cycle
  <2>1. /\ \A d \in Cycles : ResetOf(d) = ResetOf(cycle) => d = cycle
        /\ \A k \in Kills : KilledBy(k) # ResetOf(cycle)
    BY <1>4, SignalTypes
  <2> QED
    BY <1>5, <2>1 DEF NoKilled
<1>7. TypeOK'
  <2>1. CycleTypes'
    BY <1>1, <1>2 DEF Inv, TypeOK, CycleTypes, Members
  <2> QED
    BY <1>1, <1>2, <1>5, <2>1, TypesStill DEF TypeOK, QueueTypes
<1>8. RecInv' /\ JudgeInv' /\ GoneInv'
  BY <1>1, <1>2, <1>3, <1>6, Still
<1>9. CycleInv'
  BY <1>1, <1>2, <1>3, <1>4 DEF Inv, CycleInv
<1>10. ArmInv'
  <2>1. \A c \in Cycles : Own(c) => Own(c)'
    BY <1>2, <1>3 DEF Own
  <2>2. pending_arm \in Cycles \cup {None} /\ post_process \in Cycles \cup {None}
    BY DEF Inv, TypeOK, ArmTypes
  <2> QED
    BY <1>3, <1>4, <1>6, <2>1, <2>2 DEF Inv, ArmInv
<1>11. OnceInv'
  BY <1>1, <1>3 DEF Inv, OnceInv
<1>12. LatchInv' /\ BehindInv'
  <2>1. PICK key \in todo : rec[key].run = cycle
    BY <1>1 DEF Inv, CycleInv
  <2>2. key \in Members /\ Members' = Members
    BY <1>2 DEF Inv, TypeOK, CycleTypes, Members
  <2>3. Held(key)'
    BY <1>2, <1>4, <1>5, <2>1 DEF Held
  <2> QED
    BY <1>1, <2>2, <2>3 DEF LatchInv, BehindInv
<1>13. ComingInv'
  BY <1>3, <1>4 DEF ComingInv, Coming
<1> QED
  BY <1>7, <1>8, <1>9, <1>10, <1>11, <1>12, <1>13 DEF Inv

\* The outcome of one job.
LEMMA SettleStep ==
  ASSUME Inv, NEW key \in Members, Settle(key)
  PROVE  Inv'
<1>1. /\ launch = "running" /\ key \in todo /\ todo' = todo \ {key}
      /\ UNCHANGED <<exists, used, cycle, launch, cancelled, launched, killVars, armVars, queue,
                     judgeVars, pollVars, seenVars>>
  BY DEF Settle
<1>2. \/ UNCHANGED rec
      \/ \E s \in {"PEND", "END"} : rec' = [rec EXCEPT ![key].state = s]
      \/ rec' = [rec EXCEPT ![key] = Killed(rec[key], "optimistic")]
  BY DEF Settle
<1>3. UNCHANGED <<kill, plan, pending_arm, post_process, finished_latch, judging, recs, requests,
                  timer, poll, news, ran, ahead, unconfirmed>>
  BY <1>1 DEF killVars, armVars, judgeVars, pollVars, seenVars
<1>4. NoNews /\ ResetsStay /\ NoKilled /\ Waiting' = Waiting
  BY <1>1, QueueStill
<1>5. /\ cycle \in Cycles /\ None \notin Cycles
      /\ rec \in [Members -> Records] /\ rec[key] \in Records
      /\ rec[key].run = cycle /\ rec[key].state # "CREATED"
  BY <1>1, CompletionAssumption DEF Inv, TypeOK, CycleTypes, StoreTypes, CycleInv, RecInv
<1>6. RecMoves
  <2>1. ASSUME NEW r \in Records, r.run = rec[key].run, r.state # "CREATED", rec' = [rec EXCEPT ![key] = r]
        PROVE  RecMoves
    <3>1. rec' \in [Members -> Records] /\ rec'[key] = r
          /\ \A k \in Members : k # key => rec'[k] = rec[k]
      BY <1>5, <2>1
    <3> QED
      BY <1>5, <2>1, <3>1 DEF RecMoves
  <2>2. CASE UNCHANGED rec
    BY <2>2, RecStill
  <2>3. ASSUME NEW s \in {"PEND", "END"}, rec' = [rec EXCEPT ![key].state = s]
        PROVE  RecMoves
    <3>1. PICK r : r = [rec[key] EXCEPT !.state = s]
      OBVIOUS
    <3>2. r \in Records /\ r.run = rec[key].run /\ r.state # "CREATED"
      BY <1>5, <3>1 DEF Records, States
    <3>3. rec' = [rec EXCEPT ![key] = r]
      BY <2>3, <3>1
    <3> QED
      BY <2>1, <3>2, <3>3
  <2>4. CASE rec' = [rec EXCEPT ![key] = Killed(rec[key], "optimistic")]
    <3>1. PICK r : r = Killed(rec[key], "optimistic")
      OBVIOUS
    <3>2. r \in Records /\ r.run = rec[key].run /\ r.state # "CREATED"
      BY <1>5, <3>1 DEF Killed, Records, States
    <3>3. rec' = [rec EXCEPT ![key] = r]
      BY <2>4, <3>1
    <3> QED
      BY <2>1, <3>2, <3>3
  <2> QED
    BY <1>2, <2>2, <2>3, <2>4
<1>7. Members' = Members
  BY <1>6 DEF RecMoves, Members
<1>8. TypeOK'
  <2>1. CycleTypes'
    BY <1>1, <1>7 DEF Inv, TypeOK, CycleTypes
  <2> QED
    BY <1>1, <1>6, <2>1, TypesStill DEF TypeOK
<1>9. RecInv' /\ ArmInv' /\ GoneInv'
  BY <1>1, <1>3, <1>4, <1>6, Still
<1>10. CycleInv'
  <2>1. \A k \in todo' : rec'[k].run = cycle
    BY <1>1, <1>6 DEF Inv, CycleInv, RecMoves, TypeOK, CycleTypes
  <2> QED
    BY <1>1, <1>3, <2>1 DEF Inv, CycleInv
<1>11. JudgeInv'
  BY <1>1, <1>3, <1>5 DEF Inv, JudgeInv
<1>12. /\ OnceInv'
       /\ LatchInv' /\ BehindInv'
  BY <1>1, <1>3, <1>4, <1>6, StillTold
<1>13. ComingInv'
  BY <1>1, <1>5 DEF ComingInv, Coming
<1> QED
  BY <1>8, <1>9, <1>10, <1>11, <1>12, <1>13 DEF Inv

-----------------------------------------------------------------------------
(* The theorems.                                                           *)

\* Init establishes the invariant.
LEMMA InvInit == Init => Inv
<1> SUFFICES ASSUME Init PROVE Inv
  OBVIOUS
<1>1. /\ exists = TRUE /\ used = {} /\ cycle = None /\ launch = "none" /\ todo = {} /\ cancelled = FALSE
      /\ launched = [c \in Cycles |-> {}]
      /\ kill = [k \in Kills |-> "idle"] /\ plan = [k \in Kills |-> {}]
      /\ pending_arm = None /\ post_process = None /\ finished_latch = FALSE
      /\ queue = << >> /\ judging = "no" /\ recs = << >>
      /\ requests = << >> /\ timer = FALSE /\ idle = 0 /\ poll = "no"
      /\ news = "owed" /\ ran = [c \in Cycles |-> 0] /\ ahead = FALSE /\ unconfirmed = {}
  BY DEF Init
<1>2. PICK ks \in (SUBSET Keys) \ {{}} : rec = [key \in ks |-> New]
  BY DEF Init, Blank
<1>3. /\ Members = ks /\ Members \subseteq Keys /\ Members # {}
      /\ \A key \in Members : rec[key] = New
  BY <1>2 DEF Members
<1>4. New \in Records /\ New.state = "CREATED" /\ New.run = None
  BY DEF New, Records, States
<1>5. Waiting = {}
  <2>1. Len(queue) = 0
    BY <1>1
  <2> QED
    BY <2>1 DEF Waiting, Elems
<1>6. TypeOK
  <2>1. StoreTypes
    <3>1. rec \in [Members -> Records]
      BY <1>2, <1>3, <1>4
    <3> QED
      BY <1>1, <1>3, <3>1 DEF StoreTypes
  <2>2. CycleTypes /\ KillTypes /\ ArmTypes
    BY <1>1 DEF CycleTypes, KillTypes, ArmTypes
  <2>3. QueueTypes
    BY <1>1 DEF QueueTypes
  <2>4. JudgeTypes
    <3>1. DOMAIN << >> = {}
      OBVIOUS
    <3> QED
      BY <1>1, <3>1 DEF JudgeTypes
  <2>5. PollTypes
    <3>1. requests \in Seq({"start", "stop", "poll"})
      BY <1>1
    <3>2. timer \in BOOLEAN
      BY <1>1
    <3>3. idle \in 0..1
      BY <1>1
    <3>4. poll \in {"no", "query", "emit", "stop"}
      BY <1>1
    <3> QED
      BY <3>1, <3>2, <3>3, <3>4 DEF PollTypes
  <2>6. SeenTypes
    BY <1>1 DEF SeenTypes
  <2> QED
    BY <2>1, <2>2, <2>3, <2>4, <2>5, <2>6 DEF TypeOK
<1>7. RecInv
  BY <1>1, <1>3, <1>4, <1>5 DEF RecInv
<1>8. CycleInv /\ ArmInv
  BY <1>1, <1>5 DEF CycleInv, ArmInv
<1>9. JudgeInv /\ GoneInv
  BY <1>1 DEF JudgeInv, GoneInv
<1>10. OnceInv /\ LatchInv /\ BehindInv
  <2>1. Len(queue) = 0
    BY <1>1
  <2> QED
    BY <1>1, <2>1 DEF OnceInv, LatchInv, BehindInv
<1>11. ComingInv
  BY <1>3, <1>4 DEF ComingInv, AllTerminal, Members
<1> QED
  BY <1>6, <1>7, <1>8, <1>9, <1>10, <1>11 DEF Inv

\* Every step keeps the invariant.
LEMMA InvStep == Inv /\ [Next]_vars => Inv'
<1> SUFFICES ASSUME Inv, [Next]_vars PROVE Inv'
  OBVIOUS
<1>1. CASE Application
  BY <1>1, SubmitRefusedStep, SubmitStep, CancelSubmitStep, RemoveJobsetStep, EditStep, RequestStep,
     KillBeginStep DEF Application
<1>2. CASE Gui
  BY <1>2, OnRecordsResetStep, OnGateRejectedStep, OnSubmitFinishedStep, OnPollUpdatedStep,
     OnKillFinishedStep, JudgeRecordsStep, JudgeLaterStep, JudgeStep, KillQueueStep DEF Gui
<1>3. CASE Workers
  BY <1>3, RejectStep, ResetStep, ResetGoneStep, FanOutStep, LaunchFailStep, FinishStep, SettleStep,
     KillPlanStep, KillVerifyStep, KillMarkStep, ServeStartStep, ServeStopStep, ServePollStep,
     QueryStep, EmitUpdatedStep, AutoStopStep DEF Workers
<1>4. CASE UNCHANGED vars
  <2>1. UNCHANGED <<storeVars, cycleVars, killVars, armVars, queue, judgeVars, pollVars, seenVars>>
    BY <1>4 DEF vars
  <2>2. UNCHANGED <<requests, timer, idle, poll>>
    BY <2>1 DEF pollVars
  <2>3. PollTypes'
    BY <2>2 DEF Inv, TypeOK, PollTypes
  <2>4. GoneInv'
    BY <2>1, <2>2 DEF Inv, GoneInv, storeVars, armVars, judgeVars
  <2> QED
    BY <2>1, <2>2, <2>3, <2>4, PollFrame
<1> QED
  BY <1>1, <1>2, <1>3, <1>4 DEF Next

\* The inductive invariant holds in every state of every behaviour: what is
\* pending, armed, latched, owed or told agrees with the records, the cycle and
\* the signals that are still waiting.
THEOREM Invariant == Spec => []Inv
BY InvInit, InvStep, PTL DEF Spec

\* Type correctness.
THEOREM TypeCorrect == Spec => []TypeOK
<1>1. Inv => TypeOK
  BY DEF Inv
<1> QED
  BY Invariant, <1>1, PTL

\* JudgedTruly (maybe_finish): what is announced still holds when it is
\* announced, whatever the other threads do between the read and the decision.
THEOREM JudgedTrulyHolds == Spec => []JudgedTruly
<1>1. Inv => JudgedTruly
  BY DEF Inv, JudgeInv, JudgedTruly
<1> QED
  BY Invariant, <1>1, PTL

\* NoLeftovers (remove_jobset, forget): a removed jobset leaves no arming, no
\* latch and no timer behind.
THEOREM NoLeftoversHolds == Spec => []NoLeftovers
<1>1. Inv => NoLeftovers
  BY DEF Inv, GoneInv, NoLeftovers, Quiet
<1> QED
  BY Invariant, <1>1, PTL

\* ToldOnceUnlessAhead (maybe_finish, confirm): a completion is told twice only
\* if it was told while the records_reset of its own run had not been served.
THEOREM ToldOnceUnlessAheadHolds == Spec => []ToldOnceUnlessAhead
<1>1. Inv => ToldOnceUnlessAhead
  BY Zenon DEF Inv, OnceInv, ToldOnceUnlessAhead
<1> QED
  BY Invariant, <1>1, PTL

\* ToldOrExcused (maybe_finish and the signals that lead to it): a completion is
\* always told, with the exceptions it names, under any setting of the options,
\* wherever launches fail and in whatever order the threads proceed.
THEOREM ToldOrExcusedHolds == Spec => []ToldOrExcused
<1>1. Inv => ToldOrExcused
  <2> SUFFICES ASSUME Inv, Quiet, exists, AllTerminal(rec), ~AllKilled(rec)
               PROVE  news # "owed" \/ Excused
    BY DEF ToldOrExcused
  <2>1. ComingInv
    BY Zenon DEF Inv
  <2>2. Waiting = {}
    <3>1. Len(queue) = 0
      BY DEF Quiet
    <3> QED
      BY <3>1 DEF Waiting, Elems
  <2>3. ~Coming
    BY <2>2 DEF Coming, Quiet
  <2> QED
    BY <2>1, <2>3 DEF ComingInv
<1> QED
  BY Invariant, <1>1, PTL

\* Told: when refusals are reported, no completion is missed as long as every
\* cycle that has reset its records has confirmed its arming.
THEOREM ToldHolds ==
  ASSUME FinishOnGateReject = TRUE
  PROVE  Spec => [](unconfirmed = {} => Told)
<1>1. ToldOrExcused => (unconfirmed = {} => Told)
  <2>1. unconfirmed = {} => ~Excused
    BY DEF Excused
  <2> QED
    BY <2>1 DEF ToldOrExcused, Told
<1> QED
  BY ToldOrExcusedHolds, <1>1, PTL

\* PostOnOwnRun (stage, confirm, maybe_finish): a post_process runs at most once,
\* and on records of its own run that have all ended.
THEOREM PostOnOwnRunHolds == Spec => PostOnOwnRun
<1> DEFINE Runs(c) == /\ ran'[c] = 1
                      /\ launched[c] # {}
                      /\ \A key \in launched[c] : recs[key].run = c /\ recs[key].state = "END"
<1>1. ASSUME Inv, Judge, NEW c \in Cycles, ran'[c] # ran[c]
      PROVE  Runs(c)
  <2>1. /\ judging = "seen" /\ ActiveKills = {}
        /\ ran' = [d \in Cycles |-> IF d = post_process THEN ran[d] + 1 ELSE ran[d]]
    BY <1>1 DEF Judge
  <2>2. rec = recs /\ AllTerminal(recs) /\ DOMAIN recs = Members
    BY <1>1, <2>1 DEF Inv, JudgeInv
  <2>3. c = post_process /\ ran'[c] = ran[c] + 1 /\ c # None
    BY <1>1, <2>1, CompletionAssumption
  <2>4. ran[c] = 0 /\ launched[c] # {} /\ Own(c) /\ launched[c] \subseteq Members
    BY <1>1, <2>3 DEF Inv, ArmInv, TypeOK, CycleTypes
  <2> QED
    BY <2>2, <2>3, <2>4 DEF Own, AllTerminal
<1>2. ASSUME Inv, Next, ran' # ran
      PROVE  Judge
  BY <1>2 DEF Next, Application, Gui, Workers, SubmitRefused, Submit, CancelSubmit, RemoveJobset, Edit,
     Request, KillBegin, OnRecordsReset, OnGateRejected, OnSubmitFinished, OnPollUpdated, OnKillFinished,
     JudgeRecords, JudgeLater, KillQueue, Reject, Reset, ResetGone, FanOut, LaunchFail, Finish, Settle,
     KillPlan, KillVerify, KillMark, ServeStart, ServeStop, ServePoll, Query, EmitUpdated, AutoStop, Owe, seenVars
<1>3. Inv /\ [Next]_vars => [\A c \in Cycles : ran'[c] # ran[c] => Runs(c)]_vars
  <2> SUFFICES ASSUME Inv, Next, NEW c \in Cycles, ran'[c] # ran[c] PROVE Runs(c)
    BY DEF vars, seenVars
  <2>1. Judge
    BY <1>2
  <2> QED
    BY <1>1, <2>1
<1> QED
  BY Invariant, <1>3, PTL DEF Spec, PostOnOwnRun
=============================================================================
