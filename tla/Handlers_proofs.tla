--------------------------- MODULE Handlers_proofs ---------------------------
(***************************************************************************)
(* Proofs about the handler service, for any finite set of keys, any       *)
(* number of workers and any bounds.                                       *)
(***************************************************************************)
EXTENDS Handlers, FiniteSetTheorems, TLAPS

-----------------------------------------------------------------------------
(* Types.                                                                  *)

Recs   == [gen : Nat, st : {"PEND", "RUN", "DONE", "LOST"}]
Runs   == [reg : Nat, key : Keys, rec : Recs, final : BOOLEAN]
Cycles == [key : Keys, tok : Nat]
Events == {Tick, Unregister} \cup {Recheck(k) : k \in Keys} \cup {Rearm(c) : c \in Cycles}

MainTypes ==
  /\ store \in [Keys -> Recs]
  /\ main \in Seq(Events)
  /\ cur.pc \in {"idle", "eval", "pump"}
  /\ DOMAIN cur.recs \subseteq Keys /\ \A k \in DOMAIN cur.recs : cur.recs[k] \in Recs
  /\ reg \in Nat /\ regs \in Nat
  /\ status \in [Keys -> {"PENDING", "RUNNING", "FINISHED"}]
  /\ polling \in BOOLEAN /\ emit \in BOOLEAN /\ asked \in BOOLEAN
  /\ cycle \subseteq Cycles /\ arm \in [tok : Nat, auto : BOOLEAN] /\ cycles \in Nat
  /\ closed \in {"no", "wait", "yes"}
  /\ finals \subseteq Keys /\ late \subseteq Keys /\ unarmed \subseteq Keys

PoolTypes ==
  /\ inflight \subseteq Keys
  /\ queue \in Seq(Runs)
  /\ draining \in Nat
  /\ wk \in [Workers -> [pc : {"off", "take", "call", "done"}, item : Runs \cup {<< >>}]]
  /\ \A w \in Workers : wk[w].pc \in {"call", "done"} => wk[w].item \in Runs

TypeOK == MainTypes /\ PoolTypes

-----------------------------------------------------------------------------
(* The inductive invariant.                                                *)

\* The runs there are: each of another job, on the queue or in a handler.
RunsApart ==
  /\ \A i, j \in 1..Len(queue) : queue[i].key = queue[j].key => i = j
  /\ \A v, w \in Workers :
       wk[v].pc = "call" /\ wk[w].pc = "call" /\ wk[v].item.key = wk[w].item.key => v = w
  /\ \A w \in Workers, i \in 1..Len(queue) : wk[w].pc = "call" => wk[w].item.key # queue[i].key

\* The marks are those of the runs there are.
Running(k) == (\E w \in Workers : wk[w].pc = "call" /\ wk[w].item.key = k)
              \/ \E i \in 1..Len(queue) : queue[i].key = k
MarksExact == closed = "no" => \A k \in Keys : k \in inflight <=> Running(k)

\* After shutdown nothing is evaluated any more.
ClosedInv == closed # "no" => cur.pc = "idle"

\* The workers that are on: their count, and that there is one when there is work.
On == {w \in Workers : wk[w].pc # "off"}
CountOK  == draining = Cardinality(On)
ServedOK == queue # << >> /\ cur.pc # "pump" => On # {}

Inv == TypeOK /\ RunsApart /\ MarksExact /\ ClosedInv /\ CountOK /\ ServedOK

-----------------------------------------------------------------------------
(* The data.                                                               *)

\* A set put in some order: each of its members occurs once.
LEMMA OrderOf ==
  ASSUME NEW S \in SUBSET Keys
  PROVE  /\ SetToSeq(S) \in Seq(S)
         /\ \A i, j \in 1..Len(SetToSeq(S)) : SetToSeq(S)[i] = SetToSeq(S)[j] => i = j
         /\ \A k \in S : \E i \in 1..Len(SetToSeq(S)) : SetToSeq(S)[i] = k
<1>1. IsFiniteSet(S)
  BY HandlersAssumption, FS_Subset
<1> DEFINE n == Cardinality(S)
<1>2. n \in Nat /\ ExistsBijection(1..n, S)
  BY <1>1, FS_CardinalityType
<1>3. \E f \in [1..n -> S] : IsInjective(f)
  BY <1>2 DEF ExistsBijection, Bijection, Injection
<1>4. SetToSeq(S) \in [1..n -> S] /\ IsInjective(SetToSeq(S))
  BY <1>3 DEF SetToSeq
<1>5. PICK f : f = SetToSeq(S)
  OBVIOUS
<1>6. f \in Surjection(1..n, S)
  <2>1. f \in Injection(1..n, S)
    BY <1>4, <1>5 DEF Injection
  <2>2. IsFiniteSet(1..n) /\ Cardinality(1..n) = n
    BY <1>2, FS_Interval
  <2> QED
    BY <1>1, <2>1, <2>2, FS_Injection
<1>7. f \in Seq(S) /\ Len(f) = n
  BY <1>2, <1>4, <1>5
<1>8. \A i, j \in 1..n : f[i] = f[j] => i = j
  BY <1>4, <1>5 DEF IsInjective
<1>9. \A k \in S : \E i \in 1..n : f[i] = k
  BY <1>4, <1>5, <1>6 DEF Surjection
<1> HIDE DEF n
<1> QED
  BY <1>5, <1>7, <1>8, <1>9

\* One element each, or one of the two, or none.
LEMMA AtMostOne ==
  ASSUME NEW S, NEW T, \A x, y \in S : x = y, \A x, y \in T : x = y, S = {} \/ T = {}
  PROVE  Cardinality(S) + Cardinality(T) <= 1
<1>1. ASSUME NEW A, \A x, y \in A : x = y
      PROVE  Cardinality(A) \in {0, 1} /\ (A = {} => Cardinality(A) = 0)
  <2>1. CASE A = {}
    BY <2>1, FS_EmptySet
  <2>2. CASE A # {}
    <3>1. PICK x : A = {x}
      BY <1>1, <2>2
    <3> QED
      BY <2>2, <3>1, FS_Singleton
  <2> QED
    BY <2>1, <2>2
<1>2. /\ Cardinality(S) \in {0, 1} /\ (S = {} => Cardinality(S) = 0)
      /\ Cardinality(T) \in {0, 1} /\ (T = {} => Cardinality(T) = 0)
  BY <1>1
<1> QED
  BY <1>2

\* The events and what they carry.
LEMMA EventTypes ==
  /\ Tick \in Events /\ Unregister \in Events
  /\ \A k \in Keys : Recheck(k) \in Events
  /\ \A c \in Cycles : Rearm(c) \in Events
  /\ \A e \in Events : e.kind \in {"recheck", "rearm"} => e.key \in Keys
<1>1. /\ Tick \in Events /\ Unregister \in Events
      /\ \A k \in Keys : Recheck(k) \in Events
      /\ \A c \in Cycles : Rearm(c) \in Events
  BY Zenon DEF Events
<1>2. ASSUME NEW e \in Events, e.kind \in {"recheck", "rearm"}
      PROVE  e.key \in Keys
  <2>1. Tick.kind = "tick" /\ Unregister.kind = "remove"
    BY DEF Tick, Unregister
  <2>2. /\ \A k \in Keys : Recheck(k).key \in Keys
        /\ \A c \in Cycles : Rearm(c).key \in Keys
    BY DEF Recheck, Rearm, Cycles
  <2>3. e # Tick /\ e # Unregister
    BY <1>2, <2>1
  <2>4. (\E k \in Keys : e = Recheck(k)) \/ \E c \in Cycles : e = Rearm(c)
    BY <2>3, Zenon DEF Events
  <2> QED
    BY <2>2, <2>4, Zenon
<1> QED
  BY <1>1, <1>2

\* What is left of the event queue, and what is looked at first.
LEMMA EventQueue ==
  ASSUME MainTypes
  PROVE  /\ \A e \in Events : Append(main, e) \in Seq(Events)
         /\ main # << >> => Tail(main) \in Seq(Events) /\ Head(main) \in Events
BY DEF MainTypes

-----------------------------------------------------------------------------
(* The environment and the main thread.                                    *)

\* A step that leaves queue, workers and marks alone, and starts no evaluation
\* after shutdown.
LEMMA StillPool ==
  ASSUME Inv, UNCHANGED poolVars, MainTypes', closed' = closed, cur'.pc = cur.pc \/ closed = "no",
         cur'.pc # "pump" => cur.pc # "pump"
  PROVE  Inv'
<1>1. TypeOK /\ RunsApart /\ MarksExact /\ ClosedInv /\ CountOK /\ ServedOK
  BY DEF Inv
<1>2. UNCHANGED <<inflight, queue, draining, wk>>
  BY DEF poolVars
<1>3. TypeOK'
  BY <1>1, <1>2 DEF TypeOK, PoolTypes
<1>4. RunsApart' /\ CountOK'
  BY <1>1, <1>2 DEF RunsApart, CountOK, On
<1>5. MarksExact'
  BY <1>1, <1>2 DEF MarksExact, Running
<1>6. ClosedInv' /\ ServedOK'
  BY <1>1, <1>2 DEF ClosedInv, ServedOK, On
<1> QED
  BY <1>3, <1>4, <1>5, <1>6 DEF Inv

\* What a report that waits leaves open is still a set of keys.
LEMMA LateType ==
  ASSUME late \subseteq Keys, NEW ks \in SUBSET Keys
  PROVE  Late(ks) \subseteq Keys
BY DEF Late

\* Polls, jobs, submissions and the steps of the main thread that register and arm.
LEMMA EnvStep ==
  ASSUME Inv,
         \/ \E k \in Keys, s \in {"RUN", "DONE", "LOST"} : Observe(k, s)
         \/ \E k \in Keys : Stage(k)
         \/ Reset \/ Refuse \/ Polling
         \/ AddHandler \/ RemoveHandler \/ OnRemove \/ OnRearm \/ OnStaleReset
         \/ \E w \in Workers : RequestRemove(w)
  PROVE  Inv'
<1>1. MainTypes
  BY DEF Inv, TypeOK
<1>2. ASSUME NEW k \in Keys, NEW s \in {"RUN", "DONE", "LOST"}, Observe(k, s)
      PROVE  Inv'
  <2>1. /\ store' = [store EXCEPT ![k].st = s] /\ late' \in {late, Late({k})}
        /\ UNCHANGED <<polling, emit, asked, cycle, arm, cycles, main, cur, reg, regs, status, poolVars, closed, finals, unarmed>>
    <3>1. /\ store' = [store EXCEPT ![k].st = s] /\ (late' = late \/ late' = Late({k}))
      BY <1>2 DEF Observe
    <3>2. UNCHANGED <<polling, emit, asked, cycle, arm, cycles, main, cur, reg, regs, status, poolVars, closed, finals, unarmed>>
      BY <1>2 DEF Observe, pollVars, armVars, mainVars, histVars
    <3> QED
      BY <3>1, <3>2
  <2>2. store' \in [Keys -> Recs]
    BY <1>1, <2>1 DEF MainTypes, Recs
  <2>3. late' \subseteq Keys
    BY <1>1, <2>1, LateType DEF MainTypes
  <2>4. MainTypes'
    BY <1>1, <2>1, <2>2, <2>3 DEF MainTypes
  <2> QED
    BY <2>1, <2>4, StillPool
<1>3. ASSUME NEW k \in Keys, Stage(k)
      PROVE  Inv'
  <2>1. /\ cycles' = cycles + 1 /\ cycle' = {[key |-> k, tok |-> cycles + 1]}
        /\ \E a \in AutoPolls : arm' = [tok |-> cycles + 1, auto |-> a]
        /\ UNCHANGED <<store, polling, emit, asked, main, cur, reg, regs, status, poolVars, closed, finals, late, unarmed>>
    BY <1>3 DEF Stage, pollVars, armVars, mainVars, histVars
  <2>2. cycles' \in Nat /\ cycle' \subseteq Cycles
    BY <1>1, <2>1 DEF MainTypes, Cycles
  <2>3. arm' \in [tok : Nat, auto : BOOLEAN]
    BY <1>1, <2>1, HandlersAssumption DEF MainTypes
  <2>4. MainTypes'
    BY <1>1, <2>1, <2>2, <2>3 DEF MainTypes
  <2> QED
    BY <2>1, <2>4, StillPool
<1>4. CASE Reset
  <2>1. PICK c \in cycle :
          /\ store' = [store EXCEPT ![c.key] = [gen |-> @.gen + 1, st |-> "PEND"]]
          /\ main' = Append(main, Rearm(c)) /\ finals' = finals \ {c.key}
    BY <1>4 DEF Reset
  <2>2. cycle' = {} /\ UNCHANGED <<polling, emit, asked, arm, cycles, cur, reg, regs, status, poolVars,
                                   closed, late, unarmed>>
    BY <1>4 DEF Reset, pollVars, armVars, mainVars, histVars
  <2>3. c \in Cycles /\ c.key \in Keys
    BY <1>1 DEF MainTypes, Cycles
  <2>4. store' \in [Keys -> Recs]
    <3>1. store[c.key].gen + 1 \in Nat
      BY <1>1, <2>3 DEF MainTypes, Recs
    <3>2. [gen |-> store[c.key].gen + 1, st |-> "PEND"] \in Recs
      BY <3>1 DEF Recs
    <3> QED
      BY <1>1, <2>1, <3>2 DEF MainTypes
  <2>5. main' \in Seq(Events)
    BY <1>1, <2>1, <2>3, EventTypes, EventQueue
  <2>6. MainTypes'
    BY <1>1, <2>1, <2>2, <2>4, <2>5 DEF MainTypes
  <2> QED
    BY <2>2, <2>6, StillPool
<1>5. CASE Refuse
  <2>1. cycle' = {} /\ UNCHANGED <<store, polling, emit, asked, arm, cycles, main, cur, reg, regs, status, poolVars, closed, finals, late, unarmed>>
    BY <1>5 DEF Refuse, pollVars, armVars, mainVars, histVars
  <2>2. MainTypes'
    BY <1>1, <2>1 DEF MainTypes
  <2> QED
    BY <2>1, <2>2, StillPool
<1>6. CASE Poll
  <2>1. /\ main' = Append(main, Tick) /\ emit' = TRUE /\ late' = {}
        /\ UNCHANGED <<store, polling, asked, cycle, arm, cycles, cur, reg, regs, status, poolVars,
                       closed, finals, unarmed>>
    BY <1>6 DEF Poll, pollVars, armVars, mainVars, histVars
  <2>2. main' \in Seq(Events)
    BY <1>1, <2>1, EventTypes, EventQueue
  <2>3. MainTypes'
    BY <1>1, <2>1, <2>2 DEF MainTypes
  <2> QED
    BY <2>1, <2>3, StillPool
<1>7. CASE StartPolling \/ AutoStop
  <2>1. /\ emit' \in BOOLEAN /\ polling' \in BOOLEAN /\ asked' \in BOOLEAN
        /\ UNCHANGED <<store, cycle, arm, cycles, main, cur, reg, regs, status, poolVars, closed, finals, late, unarmed>>
    <3>1. CASE AutoStop
      <4>1. (~Settled) \in BOOLEAN
        OBVIOUS
      <4> QED
        BY <1>1, <3>1, <4>1 DEF AutoStop, MainTypes, pollVars, armVars, mainVars, histVars
    <3>2. CASE StartPolling
      BY <1>1, <3>2 DEF StartPolling, MainTypes, pollVars, armVars, mainVars, histVars
    <3> QED
      BY <1>7, <3>1, <3>2
  <2>2. MainTypes'
    BY <1>1, <2>1 DEF MainTypes
  <2> QED
    BY <2>1, <2>2, StillPool
<1>8. CASE AddHandler
  <2>1. /\ regs' = regs + 1 /\ reg' = regs + 1 /\ status' = [k \in Keys |-> "PENDING"]
        /\ finals' = {} /\ unarmed' = {} /\ late' = Late(Keys)
        /\ UNCHANGED <<store, polling, emit, asked, cycle, arm, cycles, main, cur, poolVars, closed>>
    BY <1>8 DEF AddHandler, pollVars, armVars, mainVars, histVars
  <2>2. late' \subseteq Keys
    BY <1>1, <2>1, LateType DEF MainTypes
  <2>3. MainTypes'
    BY <1>1, <2>1, <2>2 DEF MainTypes
  <2> QED
    BY <2>1, <2>3, StillPool
<1>9. CASE RemoveHandler
  <2>1. reg' = 0 /\ UNCHANGED <<store, polling, emit, asked, cycle, arm, cycles, main, cur, regs, status, poolVars, closed, finals, late, unarmed>>
    BY <1>9 DEF RemoveHandler, pollVars, armVars, mainVars, histVars
  <2>2. MainTypes'
    BY <1>1, <2>1 DEF MainTypes
  <2> QED
    BY <2>1, <2>2, StillPool
<1>10. CASE OnRemove
  <2>1. main # << >> /\ main' = Tail(main) /\ reg' = 0
        /\ UNCHANGED <<store, polling, emit, asked, cycle, arm, cycles, cur, regs, status, poolVars, closed, finals, late, unarmed>>
    BY <1>10 DEF OnRemove, First, pollVars, armVars, mainVars, histVars
  <2>2. main' \in Seq(Events)
    BY <1>1, <2>1, EventQueue
  <2>3. MainTypes'
    BY <1>1, <2>1, <2>2 DEF MainTypes
  <2> QED
    BY <2>1, <2>3, StillPool
<1>11. CASE OnRearm
  <2>1. /\ main # << >> /\ main' = Tail(main) /\ Head(main).kind = "rearm"
        /\ status' = [status EXCEPT ![Head(main).key] = "PENDING"] /\ arm' = NoArm
        /\ asked' = (asked \/ arm.auto) /\ late' = Late({Head(main).key})
        /\ unarmed' = unarmed \ {Head(main).key}
        /\ UNCHANGED <<store, polling, emit, cycle, cycles, cur, reg, regs, poolVars,
                       closed, finals>>
    BY <1>11 DEF OnRearm, First
  <2>2. main' \in Seq(Events) /\ Head(main).key \in Keys
    BY <1>1, <2>1, EventTypes, EventQueue
  <2>3. status' \in [Keys -> {"PENDING", "RUNNING", "FINISHED"}]
    BY <1>1, <2>1, <2>2 DEF MainTypes
  <2>4. late' \subseteq Keys
    BY <1>1, <2>1, <2>2, LateType DEF MainTypes
  <2>5. asked' \in BOOLEAN /\ arm' \in [tok : Nat, auto : BOOLEAN]
    <3>1. (asked \/ arm.auto) \in BOOLEAN
      OBVIOUS
    <3> QED
      BY <2>1, <3>1 DEF NoArm
  <2>6. MainTypes'
    BY <1>1, <2>1, <2>2, <2>3, <2>4, <2>5 DEF MainTypes
  <2> QED
    BY <2>1, <2>6, StillPool
<1>12. CASE OnStaleReset
  <2>1. /\ main # << >> /\ main' = Tail(main) /\ Head(main).kind = "rearm"
        /\ unarmed' = unarmed \cup {Head(main).key}
        /\ UNCHANGED <<store, polling, emit, asked, cycle, arm, cycles, cur, reg, regs, status, poolVars, closed, finals, late>>
    BY <1>12 DEF OnStaleReset, First, pollVars, armVars, mainVars, histVars
  <2>2. main' \in Seq(Events) /\ Head(main).key \in Keys
    BY <1>1, <2>1, EventTypes, EventQueue
  <2>3. MainTypes'
    BY <1>1, <2>1, <2>2 DEF MainTypes
  <2> QED
    BY <2>1, <2>3, StillPool
<1>13. ASSUME NEW w \in Workers, RequestRemove(w)
       PROVE  Inv'
  <2>1. main' = Append(main, Unregister)
        /\ UNCHANGED <<store, polling, emit, asked, cycle, arm, cycles, cur, reg, regs, status, poolVars, closed, finals, late, unarmed>>
    BY <1>13 DEF RequestRemove, pollVars, armVars, mainVars, histVars
  <2>2. main' \in Seq(Events)
    BY <1>1, <2>1, EventTypes, EventQueue
  <2>3. MainTypes'
    BY <1>1, <2>1, <2>2 DEF MainTypes
  <2> QED
    BY <2>1, <2>3, StillPool
<1> QED
  BY <1>2, <1>3, <1>4, <1>5, <1>6, <1>7, <1>8, <1>9, <1>10, <1>11, <1>12, <1>13 DEF Polling

\* A tick or a second look: the records of the moment are taken for judgement.
LEMMA LookStep ==
  ASSUME Inv, OnTick \/ OnRecheck
  PROVE  Inv'
<1>1. MainTypes
  BY DEF Inv, TypeOK
<1>2. /\ cur.pc = "idle" /\ closed = "no" /\ main # << >> /\ main' = Tail(main)
      /\ UNCHANGED <<store, polling, emit, asked, cycle, arm, cycles, reg, regs, status, poolVars, closed, finals, late, unarmed>>
  BY DEF OnTick, OnRecheck, Ready, First, pollVars, armVars, histVars
<1>3. main' \in Seq(Events)
  BY <1>1, <1>2, EventQueue
<1>4. \/ cur' = cur
      \/ /\ cur'.pc = "eval" /\ DOMAIN cur'.recs \subseteq Keys
         /\ \A k \in DOMAIN cur'.recs : cur'.recs[k] \in Recs
  <2>1. CASE OnTick
    <3>1. cur' = cur \/ cur' = [pc |-> "eval", recs |-> store]
      BY <2>1 DEF OnTick
    <3> QED
      BY <1>1, <3>1 DEF MainTypes
  <2>2. CASE OnRecheck
    <3>1. Head(main).key \in Keys
      BY <1>1, <1>2, <2>2, EventTypes, EventQueue DEF OnRecheck, First
    <3>2. PICK k : k = Head(main).key
      OBVIOUS
    <3>3. cur' = cur \/ cur' = [pc |-> "eval", recs |-> [x \in {k} |-> store[k]]]
      BY <2>2, <3>2 DEF OnRecheck
    <3>4. store[k] \in Recs
      BY <1>1, <3>1, <3>2 DEF MainTypes
    <3> QED
      BY <3>1, <3>2, <3>3, <3>4
  <2> QED
    BY <2>1, <2>2
<1>5. MainTypes'
  BY <1>1, <1>2, <1>3, <1>4 DEF MainTypes
<1>6. cur'.pc # "pump"
  BY <1>2, <1>4
<1> QED
  BY <1>2, <1>5, <1>6, StillPool

\* _run_cycle queues only jobs without a mark, each once, and marks them.
LEMMA EvalStep ==
  ASSUME Inv, Eval
  PROVE  Inv'
<1> DEFINE S == Finals \cup Middles
<1>0. PICK order : order = SetToSeq(S)
  OBVIOUS
<1> DEFINE run(i) == [reg |-> reg, key |-> order[i], rec |-> cur.recs[order[i]],
                      final |-> order[i] \in Finals]
<1>00. PICK add : add = [i \in DOMAIN order |-> run(i)]
  OBVIOUS
<1>1. /\ cur.pc = "eval" /\ cur' = At("pump")
      /\ status' = [k \in Keys |-> IF k \in Finals \cup Dropped THEN "FINISHED"
                                   ELSE IF k \in Middles THEN "RUNNING" ELSE status[k]]
      /\ inflight' = inflight \cup S
      /\ queue' = queue \o add
      /\ UNCHANGED <<store, polling, emit, asked, cycle, arm, cycles, main, reg, regs, draining, wk, closed, finals, late, unarmed>>
  BY <1>0, <1>00 DEF Eval, pollVars, armVars, histVars
<1>2. TypeOK /\ RunsApart /\ MarksExact /\ ClosedInv /\ CountOK /\ ServedOK
  BY DEF Inv
<1>3. S \in SUBSET Keys /\ S \cap inflight = {}
      /\ \A k \in S : cur.recs[k] \in Recs
  BY <1>2 DEF TypeOK, MainTypes, Finals, Middles, Fresh
<1>4. /\ order \in Seq(S)
      /\ \A i, j \in 1..Len(order) : order[i] = order[j] => i = j
      /\ \A k \in S : \E i \in 1..Len(order) : order[i] = k
  BY <1>0, <1>3, OrderOf
<1> HIDE DEF S
<1>5. Len(order) \in Nat /\ DOMAIN order = 1..Len(order)
      /\ \A i \in 1..Len(order) : order[i] \in S
  BY <1>4
<1>6. \A i \in 1..Len(order) : run(i) \in Runs /\ run(i).key = order[i]
  <2> SUFFICES ASSUME NEW i \in 1..Len(order)
               PROVE  run(i) \in Runs /\ run(i).key = order[i]
    OBVIOUS
  <2>1. order[i] \in Keys /\ cur.recs[order[i]] \in Recs /\ reg \in Nat
    BY <1>2, <1>3, <1>5 DEF TypeOK, MainTypes
  <2>2. (order[i] \in Finals) \in BOOLEAN
    OBVIOUS
  <2>3. PICK b \in BOOLEAN : b = (order[i] \in Finals)
    BY <2>2
  <2>4. run(i) = [reg |-> reg, key |-> order[i], rec |-> cur.recs[order[i]], final |-> b]
    BY <2>3
  <2> QED
    BY <2>1, <2>4 DEF Runs
<1> HIDE DEF run
<1>7. /\ add \in Seq(Runs) /\ Len(add) = Len(order)
      /\ \A i \in 1..Len(order) : add[i].key = order[i]
  <2>1. add \in [1..Len(order) -> Runs]
    BY <1>00, <1>5, <1>6
  <2> QED
    BY <1>00, <1>5, <1>6, <2>1
<1>8. queue \in Seq(Runs) /\ Len(queue) \in Nat
  BY <1>2 DEF TypeOK, PoolTypes
<1>9. /\ queue' \in Seq(Runs) /\ Len(queue') = Len(queue) + Len(order)
      /\ \A i \in 1..Len(queue) : i \in 1..Len(queue') /\ queue'[i] = queue[i]
      /\ \A i \in 1..Len(order) : /\ Len(queue) + i \in 1..Len(queue')
                                  /\ queue'[Len(queue) + i].key = order[i]
      /\ \A i \in 1..Len(queue') : \/ i \in 1..Len(queue)
                                   \/ i - Len(queue) \in 1..Len(order)
                                      /\ queue'[i].key = order[i - Len(queue)]
  <2>1. /\ queue' \in Seq(Runs) /\ Len(queue') = Len(queue) + Len(order)
        /\ \A i \in 1..Len(queue) : queue'[i] = queue[i]
        /\ \A i \in 1..Len(order) : queue'[Len(queue) + i] = add[i]
    <3>1. queue' = queue \o add /\ add \in Seq(Runs) /\ queue \in Seq(Runs)
          /\ Len(add) = Len(order)
      BY <1>1, <1>7, <1>8
    <3>2. /\ queue' \in Seq(Runs) /\ Len(queue') = Len(queue) + Len(add)
          /\ \A i \in 1..Len(queue) : queue'[i] = queue[i]
      BY <1>8, <3>1
    <3>3. \A i \in 1..Len(add) : queue'[Len(queue) + i] = add[i]
      BY <1>8, <3>1
    <3> QED
      BY <3>1, <3>2, <3>3
  <2>2. ASSUME NEW i \in 1..Len(queue')
        PROVE  \/ i \in 1..Len(queue)
               \/ i - Len(queue) \in 1..Len(order) /\ queue'[i].key = order[i - Len(queue)]
    <3>1. i \in 1..Len(queue) \/ i - Len(queue) \in 1..Len(order)
      BY <1>5, <1>8, <2>1
    <3>2. i = Len(queue) + (i - Len(queue))
      BY <1>8, <2>1
    <3> QED
      BY <1>7, <2>1, <3>1, <3>2
  <2> QED
    BY <1>5, <1>7, <1>8, <2>1, <2>2
<1>10. closed = "no" /\ closed' = "no" /\ wk' = wk
  BY <1>1, <1>2 DEF ClosedInv
<1>11. \A k \in Keys : k \in inflight <=> Running(k)
  BY <1>2, <1>10 DEF MarksExact
<1>12. \A k \in S : ~Running(k)
  BY <1>3, <1>11
<1>13. TypeOK'
  <2>1. MainTypes'
    <3>1. cur'.pc = "pump" /\ DOMAIN cur'.recs = {}
      BY <1>1 DEF At
    <3>2. status' \in [Keys -> {"PENDING", "RUNNING", "FINISHED"}]
      BY <1>1, <1>2 DEF TypeOK, MainTypes
    <3> QED
      BY <1>1, <1>2, <3>1, <3>2 DEF TypeOK, MainTypes
  <2>2. PoolTypes'
    BY <1>1, <1>2, <1>3, <1>9 DEF TypeOK, PoolTypes
  <2> QED
    BY <2>1, <2>2 DEF TypeOK
<1>14. RunsApart'
  <2>1. ASSUME NEW i \in 1..Len(queue'), NEW j \in 1..Len(queue'), queue'[i].key = queue'[j].key
        PROVE  i = j
    <3>1. CASE i \in 1..Len(queue) /\ j \in 1..Len(queue)
      BY <1>2, <1>9, <2>1, <3>1 DEF RunsApart
    <3>2. CASE i \in 1..Len(queue) /\ j \notin 1..Len(queue)
      BY <1>5, <1>9, <1>12, <2>1, <3>2 DEF Running
    <3>3. CASE i \notin 1..Len(queue) /\ j \in 1..Len(queue)
      BY <1>5, <1>9, <1>12, <2>1, <3>3 DEF Running
    <3>4. CASE i \notin 1..Len(queue) /\ j \notin 1..Len(queue)
      <4>0. /\ i - Len(queue) \in 1..Len(order) /\ j - Len(queue) \in 1..Len(order)
            /\ order[i - Len(queue)] = order[j - Len(queue)]
        BY <1>9, <2>1, <3>4
      <4>1. i - Len(queue) = j - Len(queue)
        BY <1>4, <4>0, Zenon
      <4> QED
        BY <1>8, <1>9, <4>1
    <3> QED
      BY <3>1, <3>2, <3>3, <3>4
  <2>2. ASSUME NEW w \in Workers, NEW i \in 1..Len(queue'), wk'[w].pc = "call"
        PROVE  wk'[w].item.key # queue'[i].key
    <3>1. CASE i \in 1..Len(queue)
      BY <1>2, <1>9, <1>10, <2>2, <3>1 DEF RunsApart
    <3>2. CASE i \notin 1..Len(queue)
      BY <1>5, <1>9, <1>10, <1>12, <2>2, <3>2 DEF Running
    <3> QED
      BY <3>1, <3>2
  <2>3. \A v, w \in Workers :
          wk'[v].pc = "call" /\ wk'[w].pc = "call" /\ wk'[v].item.key = wk'[w].item.key => v = w
    BY <1>2, <1>10 DEF RunsApart
  <2> QED
    BY <2>1, <2>2, <2>3 DEF RunsApart
<1>15. MarksExact'
  <2> SUFFICES ASSUME NEW k \in Keys
               PROVE  k \in inflight' <=> Running(k)'
    BY DEF MarksExact
  <2>1. CASE k \in S
    <3>0. PICK i \in 1..Len(order) : order[i] = k
      BY <1>4, <2>1
    <3>1. \E j \in 1..Len(queue') : queue'[j].key = k
      <4>1. Len(queue) + i \in 1..Len(queue') /\ queue'[Len(queue) + i].key = k
        BY <1>9, <3>0
      <4> QED
        BY <4>1
    <3> QED
      BY <1>1, <2>1, <3>1 DEF Running
  <2>2. CASE k \notin S
    <3>1. Running(k) => Running(k)'
      BY <1>9, <1>10 DEF Running
    <3>2. Running(k)' => Running(k)
      BY <1>5, <1>9, <1>10, <2>2 DEF Running
    <3> QED
      BY <1>1, <1>11, <2>2, <3>1, <3>2
  <2> QED
    BY <2>1, <2>2
<1>16. ClosedInv'
  BY <1>10 DEF ClosedInv
<1>17. CountOK'
  BY <1>1, <1>2 DEF CountOK, On
<1>18. ServedOK'
  BY <1>1 DEF ServedOK, At
<1> QED
  BY <1>13, <1>14, <1>15, <1>16, <1>17, <1>18 DEF Inv

\* The workers that are on are finitely many.
LEMMA OnFinite == IsFiniteSet(On) /\ On \subseteq Workers /\ Cardinality(On) \in Nat
<1>1. On \in SUBSET Workers
  BY DEF On
<1>2. IsFiniteSet(On)
  BY <1>1, HandlersAssumption, FS_Subset
<1> QED
  BY <1>1, <1>2, FS_CardinalityType

\* _pump starts as many workers as it counts, and at least one when there is
\* work and none is on.
LEMMA PumpStep ==
  ASSUME Inv, Pump
  PROVE  Inv'
<1> DEFINE want == Smaller(Cardinality(Workers) - draining, Len(queue))
<1>1. /\ cur.pc = "pump" /\ cur' = At("idle") /\ draining' = draining + want
      /\ UNCHANGED <<store, polling, emit, asked, cycle, arm, cycles, main, reg, regs, status, inflight, queue, closed, finals, late, unarmed>>
  BY DEF Pump, pollVars, armVars, histVars
<1>2. PICK ws \in SUBSET {w \in Workers : wk[w].pc = "off"} :
        /\ Cardinality(ws) = want
        /\ wk' = [w \in Workers |-> IF w \in ws THEN [Off EXCEPT !.pc = "take"] ELSE wk[w]]
  BY DEF Pump
<1>3. TypeOK /\ RunsApart /\ MarksExact /\ ClosedInv /\ CountOK /\ ServedOK
  BY DEF Inv
<1>4. IsFiniteSet(ws) /\ ws \subseteq Workers /\ Cardinality(ws) \in Nat
  BY HandlersAssumption, FS_Subset, FS_CardinalityType
<1> HIDE DEF want
<1>5. /\ \A w \in ws : wk'[w].pc = "take" /\ wk[w].pc = "off"
      /\ \A w \in Workers \ ws : wk'[w] = wk[w]
      /\ DOMAIN wk' = Workers /\ wk' = [w \in Workers |-> wk'[w]]
      /\ \A w \in ws : wk'[w] = [pc |-> "take", item |-> << >>]
  BY <1>2 DEF Off
<1>6. TypeOK'
  <2>1. MainTypes'
    BY <1>1, <1>3 DEF TypeOK, MainTypes, At
  <2>2. \A w \in Workers :
          /\ wk'[w] \in [pc : {"off", "take", "call", "done"}, item : Runs \cup {<< >>}]
          /\ wk'[w].pc \in {"call", "done"} => wk'[w].item \in Runs
    BY <1>3, <1>5 DEF TypeOK, PoolTypes
  <2>3. draining' \in Nat
    BY <1>1, <1>2, <1>3, <1>4 DEF TypeOK, PoolTypes
  <2>4. PoolTypes'
    BY <1>1, <1>3, <1>5, <2>2, <2>3 DEF TypeOK, PoolTypes
  <2> QED
    BY <2>1, <2>4 DEF TypeOK
<1>7. \A w \in Workers : /\ wk'[w].pc = "call" <=> wk[w].pc = "call"
                         /\ wk[w].pc = "call" => wk'[w] = wk[w]
  BY <1>5
<1>8. RunsApart'
  BY <1>1, <1>3, <1>7 DEF RunsApart
<1>9. MarksExact'
  BY <1>1, <1>3, <1>7 DEF MarksExact, Running
<1>10. ClosedInv'
  BY <1>1 DEF ClosedInv, At
<1>11. On' = On \cup ws /\ On \cap ws = {}
  BY <1>4, <1>5 DEF On
<1>12. CountOK'
  <2>1. Cardinality(On \cup ws) = Cardinality(On) + Cardinality(ws) - Cardinality(On \cap ws)
    BY <1>4, OnFinite, FS_Union
  <2>2. Cardinality(On \cap ws) = 0
    BY <1>11, FS_EmptySet
  <2>3. Cardinality(On \cup ws) = Cardinality(On) + Cardinality(ws)
    BY <1>4, <2>1, <2>2, OnFinite
  <2>4. draining = Cardinality(On)
    BY <1>3 DEF CountOK
  <2>5. draining' = Cardinality(On') 
    BY <1>1, <1>2, <1>11, <2>3, <2>4
  <2> QED
    BY <2>5 DEF CountOK
<1>13. ServedOK'
  <2> SUFFICES ASSUME queue # << >>, On = {}, ws = {} PROVE FALSE
    BY <1>1, <1>11 DEF ServedOK
  <2>1. draining = 0 /\ want = 0
    BY <1>2, <1>3, FS_EmptySet DEF CountOK
  <2>2. Len(queue) > 0 /\ Len(queue) \in Nat
    BY <1>3 DEF TypeOK, PoolTypes
  <2>3. Cardinality(Workers) \in Nat /\ Cardinality(Workers) # 0
    BY HandlersAssumption, FS_CardinalityType, FS_EmptySet
  <2> QED
    BY <2>1, <2>2, <2>3 DEF want, Smaller
<1> QED
  BY <1>6, <1>8, <1>9, <1>10, <1>12, <1>13 DEF Inv

\* shutdown drops runs, and marks no longer matter.
LEMMA ShutdownStep ==
  ASSUME Inv, Shutdown
  PROVE  Inv'
<1> DEFINE kept == {i \in DOMAIN queue : queue[i].final}
<1>1. /\ cur.pc = "idle" /\ closed' = "wait" /\ reg' = 0
      /\ UNCHANGED <<store, polling, emit, asked, cycle, arm, cycles, main, cur, regs, status, inflight, draining, wk, finals, late, unarmed>>
  BY DEF Shutdown, Ready, pollVars, armVars, histVars
<1>2. PICK f \in [1..Cardinality(kept) -> kept] :
        /\ \A i, j \in DOMAIN f : i < j => f[i] < f[j]
        /\ queue' = [i \in DOMAIN f |-> queue[f[i]]]
  BY DEF Shutdown
<1>3. TypeOK /\ RunsApart /\ MarksExact /\ ClosedInv /\ CountOK /\ ServedOK
  BY DEF Inv
<1>4. queue \in Seq(Runs) /\ Len(queue) \in Nat /\ DOMAIN queue = 1..Len(queue)
  BY <1>3 DEF TypeOK, PoolTypes
<1>5. kept \subseteq 1..Len(queue) /\ Cardinality(kept) \in Nat
  <2>1. kept \in SUBSET (1..Len(queue))
    BY <1>4
  <2>2. IsFiniteSet(1..Len(queue))
    BY <1>4, FS_Interval
  <2> HIDE DEF kept
  <2> QED
    BY <2>1, <2>2, FS_Subset, FS_CardinalityType
<1> DEFINE n == Cardinality(kept)
<1> HIDE DEF kept
<1>6. \A i \in 1..n : f[i] \in 1..Len(queue) /\ queue'[i] = queue[f[i]] /\ queue'[i] \in Runs
  <2>1. DOMAIN f = 1..n /\ \A i \in 1..n : f[i] \in kept
    BY <1>2
  <2>2. \A i \in 1..n : f[i] \in 1..Len(queue)
    BY <1>5, <2>1
  <2>3. \A i \in 1..n : queue'[i] = queue[f[i]]
    BY <1>2, <2>1
  <2> QED
    BY <1>4, <2>2, <2>3
<1>7. queue' \in Seq(Runs) /\ Len(queue') = n /\ n \in Nat
  <2>1. DOMAIN f = 1..n /\ queue' = [i \in 1..n |-> queue[f[i]]]
    BY <1>2
  <2>2. queue' \in [1..n -> Runs]
    BY <1>6, <2>1
  <2> QED
    BY <1>5, <2>1, <2>2
<1>8. \A i, j \in 1..n : f[i] = f[j] => i = j
  <2> SUFFICES ASSUME NEW i \in 1..n, NEW j \in 1..n, f[i] = f[j]
               PROVE  i = j
    OBVIOUS
  <2>1. DOMAIN f = 1..n /\ f[i] \in Nat /\ f[j] \in Nat
    BY <1>2, <1>4, <1>6
  <2>2. (i < j => f[i] < f[j]) /\ (j < i => f[j] < f[i])
    BY <1>2, <2>1
  <2> QED
    BY <1>7, <2>1, <2>2
<1>9. TypeOK'
  <2>1. MainTypes'
    BY <1>1, <1>3 DEF TypeOK, MainTypes
  <2>2. PoolTypes'
    BY <1>1, <1>3, <1>7 DEF TypeOK, PoolTypes
  <2> QED
    BY <2>1, <2>2 DEF TypeOK
<1>10. RunsApart'
  <2>1. \A i, j \in 1..n : queue'[i].key = queue'[j].key => i = j
    BY <1>3, <1>6, <1>8 DEF RunsApart
  <2>2. \A w \in Workers, i \in 1..n : wk[w].pc = "call" => wk[w].item.key # queue'[i].key
    BY <1>3, <1>6 DEF RunsApart
  <2> QED
    BY <1>1, <1>3, <1>7, <2>1, <2>2 DEF RunsApart
<1>11. MarksExact' /\ ClosedInv' /\ CountOK'
  BY <1>1, <1>3 DEF MarksExact, ClosedInv, CountOK, On
<1>12. ServedOK'
  <2> SUFFICES ASSUME queue' # << >> PROVE On # {}
    BY <1>1 DEF ServedOK, On
  <2>1. 1 \in 1..n
    BY <1>7
  <2>2. Len(queue) > 0
    BY <1>4, <1>6, <2>1
  <2> QED
    BY <1>1, <1>3, <1>4, <2>2 DEF ServedOK
<1> QED
  BY <1>9, <1>10, <1>11, <1>12 DEF Inv

\* The end of shutdown.
LEMMA ShutdownDoneStep ==
  ASSUME Inv, ShutdownDone
  PROVE  Inv'
<1>1. /\ closed = "wait" /\ closed' = "yes" /\ inflight' = {}
      /\ UNCHANGED <<store, polling, emit, asked, cycle, arm, cycles, main, cur, reg, regs, status, queue, draining, wk, finals, late, unarmed>>
  BY DEF ShutdownDone, mainVars, pollVars, armVars, histVars
<1>2. TypeOK /\ RunsApart /\ MarksExact /\ ClosedInv /\ CountOK /\ ServedOK
  BY DEF Inv
<1>3. TypeOK'
  <2>1. MainTypes'
    BY <1>1, <1>2 DEF TypeOK, MainTypes
  <2>2. PoolTypes'
    BY <1>1, <1>2 DEF TypeOK, PoolTypes
  <2> QED
    BY <2>1, <2>2 DEF TypeOK
<1>4. RunsApart' /\ MarksExact' /\ ClosedInv' /\ CountOK' /\ ServedOK'
  BY <1>1, <1>2 DEF RunsApart, MarksExact, ClosedInv, CountOK, ServedOK, On
<1> QED
  BY <1>3, <1>4 DEF Inv

-----------------------------------------------------------------------------
(* The workers.                                                            *)

\* _drain takes the first run of the queue into the handler.
LEMMA TakeStep ==
  ASSUME Inv, NEW w \in Workers, Take(w)
  PROVE  Inv'
<1>0. PICK q : q = Head(queue)
  OBVIOUS
<1>1. /\ wk[w].pc = "take" /\ queue # << >> /\ queue' = Tail(queue)
      /\ wk' = [wk EXCEPT ![w] = [pc |-> "call", item |-> q]]
      /\ finals' \in {finals, finals \cup {q.key}}
      /\ UNCHANGED <<store, polling, emit, asked, cycle, arm, cycles, main, cur, reg, regs,
                     status, inflight, draining, closed, late, unarmed>>
  BY <1>0 DEF Take, mainVars, pollVars, armVars, histVars
<1>2. TypeOK /\ RunsApart /\ MarksExact /\ ClosedInv /\ CountOK /\ ServedOK
  BY DEF Inv
<1>3. /\ queue \in Seq(Runs) /\ Len(queue) \in Nat /\ Len(queue) > 0
      /\ q = queue[1] /\ q \in Runs /\ 1 \in 1..Len(queue)
      /\ queue' \in Seq(Runs) /\ Len(queue') = Len(queue) - 1
      /\ \A i \in 1..Len(queue') : queue'[i] = queue[i + 1]
  <2>1. queue \in Seq(Runs) /\ Len(queue) \in Nat /\ Len(queue) > 0
        /\ queue # << >> /\ queue' = Tail(queue)
    BY <1>1, <1>2 DEF TypeOK, PoolTypes
  <2>2. q = queue[1] /\ q \in Runs /\ 1 \in 1..Len(queue)
    BY <1>0, <2>1
  <2> QED
    BY <2>1, <2>2
<1>4. /\ \A i \in 1..Len(queue') : i + 1 \in 1..Len(queue) /\ i + 1 # 1
      /\ \A i \in 1..Len(queue) : i = 1 \/ (i - 1 \in 1..Len(queue') /\ queue'[i - 1] = queue[i])
  BY <1>3
<1>5. /\ wk'[w].pc = "call" /\ wk'[w].item = q
      /\ \A v \in Workers \ {w} : wk'[v] = wk[v]
  BY <1>1, <1>2 DEF TypeOK, PoolTypes
<1>6. TypeOK'
  <2>1. q.key \in Keys
    BY <1>3 DEF Runs
  <2>2. MainTypes'
    BY <1>1, <1>2, <2>1 DEF TypeOK, MainTypes
  <2>3. PoolTypes'
    <3>1. [pc |-> "call", item |-> q]
            \in [pc : {"off", "take", "call", "done"}, item : Runs \cup {<< >>}]
      BY <1>3
    <3> QED
      BY <1>1, <1>2, <1>3, <1>5, <3>1 DEF TypeOK, PoolTypes
  <2> QED
    BY <2>2, <2>3 DEF TypeOK
<1>7. RunsApart'
  <2>1. ASSUME NEW i \in 1..Len(queue'), NEW j \in 1..Len(queue'), queue'[i].key = queue'[j].key
        PROVE  i = j
    <3>1. i + 1 = j + 1
      BY <1>2, <1>3, <1>4, <2>1 DEF RunsApart
    <3> QED
      BY <1>3, <3>1
  <2>2. ASSUME NEW v \in Workers, NEW i \in 1..Len(queue'), wk'[v].pc = "call"
        PROVE  wk'[v].item.key # queue'[i].key
    <3>1. queue'[i] = queue[i + 1] /\ i + 1 \in 1..Len(queue) /\ i + 1 # 1
      BY <1>3, <1>4
    <3>2. CASE v = w
      <4>1. wk'[v].item = queue[1] /\ 1 \in 1..Len(queue)
        BY <1>3, <1>5, <3>2
      <4>2. queue[1].key # queue[i + 1].key
        BY <1>2, <3>1, <4>1 DEF RunsApart
      <4> QED
        BY <3>1, <4>1, <4>2
    <3>3. CASE v # w
      <4>1. wk'[v] = wk[v]
        BY <1>5, <3>3
      <4>2. wk[v].item.key # queue[i + 1].key
        BY <1>2, <2>2, <3>1, <4>1 DEF RunsApart
      <4> QED
        BY <3>1, <4>1, <4>2
    <3> QED
      BY <3>2, <3>3
  <2>3. \A u, v \in Workers :
          wk'[u].pc = "call" /\ wk'[v].pc = "call" /\ wk'[u].item.key = wk'[v].item.key => u = v
    BY <1>2, <1>3, <1>5 DEF RunsApart
  <2> QED
    BY <2>1, <2>2, <2>3 DEF RunsApart
<1>8. MarksExact'
  <2>1. ASSUME NEW k \in Keys
        PROVE  Running(k) <=> Running(k)'
    <3>1. Running(k) => Running(k)'
      <4>1. ASSUME NEW v \in Workers, wk[v].pc = "call", wk[v].item.key = k
            PROVE  Running(k)'
        <5>1. wk'[v] = wk[v]
          BY <1>1, <1>5, <4>1
        <5> QED
          BY <4>1, <5>1 DEF Running
      <4>2. ASSUME NEW i \in 1..Len(queue), queue[i].key = k
            PROVE  Running(k)'
        <5>1. CASE i = 1
          <6>1. wk'[w].pc = "call" /\ wk'[w].item.key = k
            BY <1>3, <1>5, <4>2, <5>1
          <6> QED
            BY <6>1 DEF Running
        <5>2. CASE i # 1
          <6>1. PICK j \in 1..Len(queue') : queue'[j] = queue[i]
            BY <1>4, <5>2
          <6> QED
            BY <4>2, <6>1 DEF Running
        <5> QED
          BY <5>1, <5>2
      <4> QED
        BY <4>1, <4>2 DEF Running
    <3>2. Running(k)' => Running(k)
      <4>1. ASSUME NEW v \in Workers, wk'[v].pc = "call", wk'[v].item.key = k
            PROVE  Running(k)
        <5>1. CASE v = w
          <6>1. 1 \in 1..Len(queue) /\ queue[1].key = k
            BY <1>3, <1>5, <4>1, <5>1
          <6> QED
            BY <6>1 DEF Running
        <5>2. CASE v # w
          <6>1. wk[v].pc = "call" /\ wk[v].item.key = k
            BY <1>5, <4>1, <5>2
          <6> QED
            BY <6>1 DEF Running
        <5> QED
          BY <5>1, <5>2
      <4>2. ASSUME NEW i \in 1..Len(queue'), queue'[i].key = k
            PROVE  Running(k)
        <5>1. i + 1 \in 1..Len(queue) /\ queue[i + 1].key = k
          BY <1>3, <1>4, <4>2
        <5> QED
          BY <5>1 DEF Running
      <4> QED
        BY <4>1, <4>2 DEF Running
    <3> QED
      BY <3>1, <3>2
  <2> QED
    BY <1>1, <1>2, <2>1 DEF MarksExact
<1>9. ClosedInv'
  BY <1>1, <1>2 DEF ClosedInv
<1>10. On' = On /\ w \in On
  BY <1>1, <1>5 DEF On
<1>11. CountOK' /\ ServedOK'
  BY <1>1, <1>2, <1>10 DEF CountOK, ServedOK
<1> QED
  BY <1>6, <1>7, <1>8, <1>9, <1>11 DEF Inv

\* A worker signs off only while nothing is queued.
LEMMA DrainEndStep ==
  ASSUME Inv, NEW w \in Workers, DrainEnd(w)
  PROVE  Inv'
<1>1. /\ wk[w].pc = "take" /\ queue = << >> /\ draining' = draining - 1
      /\ wk' = [wk EXCEPT ![w] = Off]
      /\ UNCHANGED <<store, polling, emit, asked, cycle, arm, cycles, main, cur, reg, regs, status, inflight, queue, closed, finals, late, unarmed>>
  BY DEF DrainEnd, mainVars, pollVars, armVars, histVars
<1>2. TypeOK /\ RunsApart /\ MarksExact /\ ClosedInv /\ CountOK /\ ServedOK
  BY DEF Inv
<1>3. wk'[w].pc = "off" /\ \A v \in Workers \ {w} : wk'[v] = wk[v]
  BY <1>1, <1>2 DEF TypeOK, PoolTypes, Off
<1>4. On' = On \ {w} /\ w \in On
  BY <1>1, <1>3 DEF On
<1>5. /\ Cardinality(On \ {w}) = Cardinality(On) - 1 /\ draining = Cardinality(On)
      /\ Cardinality(On \ {w}) \in Nat
  <2>1. Cardinality(On \ {w}) = Cardinality(On) - 1 /\ IsFiniteSet(On \ {w})
    BY <1>4, OnFinite, FS_RemoveElement
  <2> QED
    BY <1>2, <2>1, FS_CardinalityType DEF CountOK
<1>6. draining' = Cardinality(On')
  BY <1>1, <1>4, <1>5
<1>7. TypeOK'
  <2>1. MainTypes'
    BY <1>1, <1>2 DEF TypeOK, MainTypes
  <2>2. draining' \in Nat
    BY <1>4, <1>5, <1>6
  <2>3. PoolTypes'
    <3>1. Off \in [pc : {"off", "take", "call", "done"}, item : Runs \cup {<< >>}]
      BY DEF Off
    <3> QED
      BY <1>1, <1>2, <1>3, <2>2, <3>1 DEF TypeOK, PoolTypes
  <2> QED
    BY <2>1, <2>3 DEF TypeOK
<1>8. \A v \in Workers : /\ wk'[v].pc = "call" <=> wk[v].pc = "call"
                         /\ wk[v].pc = "call" => wk'[v] = wk[v]
  BY <1>1, <1>3
<1>9. RunsApart' /\ MarksExact' /\ ClosedInv'
  <2>1. RunsApart'
    BY <1>1, <1>2, <1>8 DEF RunsApart
  <2>2. MarksExact'
    BY <1>1, <1>2, <1>8 DEF MarksExact, Running
  <2>3. ClosedInv'
    BY <1>1, <1>2 DEF ClosedInv
  <2> QED
    BY <2>1, <2>2, <2>3
<1>10. CountOK' /\ ServedOK'
  BY <1>1, <1>6 DEF CountOK, ServedOK
<1> QED
  BY <1>7, <1>9, <1>10 DEF Inv

\* The handler returns: its mark goes, and no other run of the job is there.
LEMMA ReturnStep ==
  ASSUME Inv, NEW w \in Workers, Return(w)
  PROVE  Inv'
<1>1. /\ wk[w].pc = "call" /\ inflight' = inflight \ {wk[w].item.key}
      /\ wk' = [wk EXCEPT ![w].pc = "done"]
      /\ UNCHANGED <<store, polling, emit, asked, cycle, arm, cycles, main, cur, reg, regs, status, queue, draining, closed, finals, late, unarmed>>
  BY DEF Return, mainVars, pollVars, armVars, histVars
<1>2. TypeOK /\ RunsApart /\ MarksExact /\ ClosedInv /\ CountOK /\ ServedOK
  BY DEF Inv
<1>3. /\ wk'[w] = [pc |-> "done", item |-> wk[w].item] /\ wk[w].item \in Runs
      /\ \A v \in Workers \ {w} : wk'[v] = wk[v]
  BY <1>1, <1>2 DEF TypeOK, PoolTypes
<1>4. TypeOK'
  <2>1. MainTypes'
    BY <1>1, <1>2 DEF TypeOK, MainTypes
  <2>2. wk'[w] \in [pc : {"off", "take", "call", "done"}, item : Runs \cup {<< >>}]
    BY <1>3
  <2>3. DOMAIN wk' = Workers /\ wk' = [v \in Workers |-> wk'[v]]
    BY <1>1, <1>2 DEF TypeOK, PoolTypes
  <2>4. \A v \in Workers :
          /\ wk'[v] \in [pc : {"off", "take", "call", "done"}, item : Runs \cup {<< >>}]
          /\ wk'[v].pc \in {"call", "done"} => wk'[v].item \in Runs
    BY <1>2, <1>3, <2>2 DEF TypeOK, PoolTypes
  <2>5. PoolTypes'
    BY <1>1, <1>2, <2>3, <2>4 DEF TypeOK, PoolTypes
  <2> QED
    BY <2>1, <2>5 DEF TypeOK
<1>5. wk'[w].pc = "done"
  BY <1>3
<1>6. RunsApart'
  BY <1>1, <1>2, <1>3, <1>5 DEF RunsApart
<1>7. MarksExact'
  <2> SUFFICES ASSUME closed = "no", NEW k \in Keys
               PROVE  k \in inflight' <=> Running(k)'
    BY <1>1 DEF MarksExact
  <2>1. k \in inflight <=> Running(k)
    BY <1>2 DEF MarksExact
  <2>2. CASE k = wk[w].item.key
    BY <1>1, <1>2, <1>3, <1>5, <2>2 DEF Running, RunsApart
  <2>3. CASE k # wk[w].item.key
    <3>1. Running(k) <=> Running(k)'
      BY <1>1, <1>3, <1>5, <2>3 DEF Running
    <3> QED
      BY <1>1, <2>1, <2>3, <3>1
  <2> QED
    BY <2>2, <2>3
<1>8. On' = On
  BY <1>1, <1>3, <1>5 DEF On
<1>9. ClosedInv' /\ CountOK' /\ ServedOK'
  BY <1>1, <1>2, <1>8 DEF ClosedInv, CountOK, ServedOK
<1> QED
  BY <1>4, <1>6, <1>7, <1>9 DEF Inv

\* The main thread is asked to look again, and the worker goes on.
LEMMA AnnounceStep ==
  ASSUME Inv, NEW w \in Workers, Announce(w)
  PROVE  Inv'
<1>1. /\ wk[w].pc = "done" /\ main' = Append(main, Recheck(wk[w].item.key))
      /\ wk' = [wk EXCEPT ![w] = [Off EXCEPT !.pc = "take"]]
      /\ UNCHANGED <<store, polling, emit, asked, cycle, arm, cycles, cur, reg, regs, status, inflight, queue, draining,
                     closed, finals, late, unarmed>>
  BY DEF Announce, pollVars, armVars, histVars
<1>2. TypeOK /\ RunsApart /\ MarksExact /\ ClosedInv /\ CountOK /\ ServedOK
  BY DEF Inv
<1>3. wk'[w].pc = "take" /\ \A v \in Workers \ {w} : wk'[v] = wk[v]
  BY <1>1, <1>2 DEF TypeOK, PoolTypes, Off
<1>4. TypeOK'
  <2>1. MainTypes /\ wk[w].item.key \in Keys
    BY <1>1, <1>2 DEF TypeOK, PoolTypes, Runs
  <2>2. main' \in Seq(Events)
    BY <1>1, <2>1, EventTypes, EventQueue
  <2>3. MainTypes'
    BY <1>1, <2>1, <2>2 DEF MainTypes
  <2>4. [Off EXCEPT !.pc = "take"]
          \in [pc : {"off", "take", "call", "done"}, item : Runs \cup {<< >>}]
    BY DEF Off
  <2>5. PoolTypes'
    BY <1>1, <1>2, <1>3, <2>4 DEF TypeOK, PoolTypes
  <2> QED
    BY <2>3, <2>5 DEF TypeOK
<1>5. \A v \in Workers : /\ wk'[v].pc = "call" <=> wk[v].pc = "call"
                         /\ wk[v].pc = "call" => wk'[v] = wk[v]
  BY <1>1, <1>3
<1>6. RunsApart'
  BY <1>1, <1>2, <1>5 DEF RunsApart
<1>7. MarksExact'
  BY <1>1, <1>2, <1>5 DEF MarksExact, Running
<1>8. On' = On
  BY <1>1, <1>3 DEF On
<1>9. ClosedInv' /\ CountOK' /\ ServedOK'
  BY <1>1, <1>2, <1>8 DEF ClosedInv, CountOK, ServedOK
<1> QED
  BY <1>4, <1>6, <1>7, <1>9 DEF Inv

-----------------------------------------------------------------------------
(* The theorems.                                                           *)

\* Init establishes the invariant.
LEMMA InvInit == Init => Inv
<1> SUFFICES ASSUME Init PROVE Inv
  OBVIOUS
<1>1. /\ asked = FALSE /\ cycle = {} /\ arm = NoArm /\ cycles = 0 /\ late = {} /\ unarmed = {}
      /\ polling = TRUE /\ emit = FALSE /\ main = << >> /\ cur = At("idle") /\ reg = 1 /\ regs = 1
      /\ status = [k \in Keys |-> "PENDING"] /\ inflight = {} /\ queue = << >> /\ draining = 0
      /\ wk = [w \in Workers |-> Off] /\ closed = "no" /\ finals = {}
  BY DEF Init
<1>2. store \in [Keys -> Recs]
  <2>1. PICK lost : store = [k \in Keys |-> [gen |-> 1, st |-> IF k \in lost THEN "LOST" ELSE "PEND"]]
    BY DEF Init
  <2>2. \A k \in Keys : store[k] = [gen |-> 1, st |-> "LOST"] \/ store[k] = [gen |-> 1, st |-> "PEND"]
    BY <2>1
  <2>3. [gen |-> 1, st |-> "LOST"] \in Recs /\ [gen |-> 1, st |-> "PEND"] \in Recs
    BY DEF Recs
  <2> QED
    BY <2>1, <2>2, <2>3
<1>3. MainTypes
  <2>1. At("idle").pc = "idle" /\ DOMAIN At("idle").recs = {}
    BY DEF At
  <2>2. /\ status \in [Keys -> {"PENDING", "RUNNING", "FINISHED"}]
        /\ main \in Seq(Events) /\ reg \in Nat /\ regs \in Nat
        /\ arm \in [tok : Nat, auto : BOOLEAN]
    BY <1>1 DEF NoArm
  <2> QED
    BY <1>1, <1>2, <2>1, <2>2 DEF MainTypes
<1>4. Off.pc = "off" /\ Off \in [pc : {"off", "take", "call", "done"}, item : Runs \cup {<< >>}]
  BY DEF Off
<1>5. \A w \in Workers : wk[w].pc = "off"
  BY <1>1, <1>4
<1>6. PoolTypes
  BY <1>1, <1>4, <1>5 DEF PoolTypes
<1>7. Len(queue) = 0
  BY <1>1
<1>8. RunsApart /\ MarksExact
  BY <1>1, <1>5, <1>7 DEF RunsApart, MarksExact, Running
<1>9. On = {}
  BY <1>5 DEF On
<1>10. ClosedInv /\ CountOK /\ ServedOK
  BY <1>1, <1>9, FS_EmptySet DEF ClosedInv, CountOK, ServedOK
<1> QED
  BY <1>3, <1>6, <1>8, <1>10 DEF Inv, TypeOK

\* Every step keeps the invariant.
LEMMA InvStep == Inv /\ [Next]_vars => Inv'
<1> SUFFICES ASSUME Inv, [Next]_vars PROVE Inv'
  OBVIOUS
<1>1. CASE \/ \E k \in Keys, s \in {"RUN", "DONE", "LOST"} : Observe(k, s)
           \/ \E k \in Keys : Stage(k)
           \/ Reset \/ Refuse \/ Polling
           \/ AddHandler \/ RemoveHandler \/ OnRemove \/ OnRearm \/ OnStaleReset
           \/ \E w \in Workers : RequestRemove(w)
  BY <1>1, EnvStep
<1>2. CASE OnTick \/ OnRecheck
  BY <1>2, LookStep
<1>3. CASE Eval
  BY <1>3, EvalStep
<1>4. CASE Pump
  BY <1>4, PumpStep
<1>5. CASE Shutdown
  BY <1>5, ShutdownStep
<1>6. CASE ShutdownDone
  BY <1>6, ShutdownDoneStep
<1>7. ASSUME NEW w \in Workers, Drain(w)
      PROVE  Inv'
  BY <1>7, TakeStep, DrainEndStep, ReturnStep, AnnounceStep DEF Drain
<1>8. CASE UNCHANGED vars
  <2>1. UNCHANGED <<store, polling, emit, asked, cycle, arm, cycles, main, cur, reg, regs, status, inflight, queue,
                    draining, wk, closed, finals, late, unarmed>>
    BY <1>8 DEF vars, mainVars, poolVars, pollVars, armVars, histVars
  <2>2. MainTypes'
    BY <2>1 DEF Inv, TypeOK, MainTypes
  <2> QED
    BY <2>1, <2>2, StillPool DEF poolVars
<1>9. Resubmits \subseteq Keys
  BY HandlersAssumption
<1> QED
  BY <1>1, <1>2, <1>3, <1>4, <1>5, <1>6, <1>7, <1>8, <1>9 DEF Next, Main

\* The inductive invariant holds in every state of every behaviour: each job has
\* at most one run, queued or in its handler, the marks are those of the runs,
\* and the workers are counted.
THEOREM Invariant == Spec => []Inv
BY InvInit, InvStep, PTL DEF Spec

\* Type correctness.
THEOREM TypeCorrect == Spec => []TypeOK
<1>1. Inv => TypeOK
  BY DEF Inv
<1> QED
  BY Invariant, <1>1, PTL

\* NoOverlap (_eval_record, _drain, shutdown): no job is in its handler twice,
\* nor queued behind its own run, and no mark outlives its run, also when the
\* handler is removed and registered again meanwhile.
THEOREM NoOverlapHolds == Spec => []NoOverlap
<1>1. Inv => NoOverlap
  <2> SUFFICES ASSUME Inv PROVE NoOverlap
    OBVIOUS
  <2>1. DOMAIN queue = 1..Len(queue) /\ inflight \subseteq Keys
    BY DEF Inv, TypeOK, PoolTypes
  <2>2. ASSUME NEW k \in Keys
        PROVE  Cardinality(Calling(k)) + Cardinality(Queued(k)) <= 1
    <3>1. \A x, y \in Calling(k) : x = y
      BY DEF Calling, Inv, RunsApart
    <3>2. \A x, y \in Queued(k) : x = y
      BY <2>1 DEF Queued, Inv, RunsApart
    <3>3. Calling(k) = {} \/ Queued(k) = {}
      BY <2>1 DEF Calling, Queued, Inv, RunsApart
    <3> QED
      BY <3>1, <3>2, <3>3, AtMostOne
  <2>3. \A k \in Keys : Running(k) <=> Calling(k) \cup Queued(k) # {}
    BY <2>1 DEF Running, Calling, Queued
  <2>4. closed = "no" => inflight = {k \in Keys : Calling(k) \cup Queued(k) # {}}
    BY <2>1, <2>3 DEF Inv, MarksExact
  <2> QED
    BY <2>2, <2>4 DEF NoOverlap
<1> QED
  BY Invariant, <1>1, PTL

\* QueueServed (_drain, _pump): the workers are counted right, and a run that is
\* queued is never left to nobody.
THEOREM QueueServedHolds == Spec => []QueueServed
<1>1. Inv => QueueServed
  BY DEF Inv, CountOK, ServedOK, On, QueueServed
<1> QED
  BY Invariant, <1>1, PTL

-----------------------------------------------------------------------------
(* No final run is forgotten.  The second invariant says for each job that *)
(* is done and has not had it what will bring it about.                    *)

\* The events the main thread has still to serve, and the resets among them.
Waiting == {main[i] : i \in 1..Len(main)}
Told(k) == \E e \in Waiting : e.kind = "rearm" /\ e.key = k

\* What is looked at is the record as it is, one that goes on, or one whose reset
\* is still to be told.
CurInv ==
  cur.pc = "eval" =>
    /\ reg # 0
    /\ \A k \in DOMAIN cur.recs :
         cur.recs[k] = store[k] \/ cur.recs[k].st \notin Terminal \/ Told(k)

\* A job taken for finished has had its final run, or the run is queued, or its
\* reset is still to be told or was not told.
FinalQueued(k) ==
  \E i \in 1..Len(queue) : /\ queue[i].final /\ queue[i].key = k
                           /\ queue[i].reg = reg /\ queue[i].rec.gen = store[k].gen
FinishedInv ==
  closed = "no" /\ reg # 0 =>
    \A k \in Keys : status[k] = "FINISHED" =>
      \/ Told(k) \/ k \in unarmed \/ store[k].st = "LOST"
      \/ store[k].st = "DONE" /\ (k \in finals \/ FinalQueued(k))

\* A job that is not taken for finished will be looked at: on a tick, on a recheck
\* or when its run has returned; unless the last look was too early.
Coming(k) ==
  \/ Tick \in Waiting \/ Recheck(k) \in Waiting
  \/ cur.pc = "eval" /\ k \in DOMAIN cur.recs /\ cur.recs[k] = store[k]
  \/ Running(k) \/ \E w \in Workers : wk[w].pc = "done" /\ wk[w].item.key = k
OpenInv ==
  closed = "no" /\ reg # 0 =>
    \A k \in Keys : store[k].st = "DONE" /\ k \notin finals /\ status[k] # "FINISHED" =>
      Coming(k) \/ k \in late

LookInv == CurInv /\ FinishedInv /\ OpenInv

\* What waits after a post, and when an event is served.
LEMMA WaitingMoves ==
  ASSUME MainTypes
  PROVE  /\ \A e \in Events : main' = Append(main, e) => Waiting' = Waiting \cup {e}
         /\ main # << >> /\ main' = Tail(main) => Waiting = {Head(main)} \cup Waiting'
         /\ UNCHANGED main => Waiting' = Waiting
<1>1. main \in Seq(Events) /\ Len(main) \in Nat
  BY DEF MainTypes
<1>2. ASSUME NEW e \in Events, main' = Append(main, e)
      PROVE  Waiting' = Waiting \cup {e}
  <2>1. /\ Len(main') = Len(main) + 1 /\ main'[Len(main) + 1] = e
        /\ \A i \in 1..Len(main) : main'[i] = main[i]
    BY <1>1, <1>2
  <2>2. 1..Len(main') = (1..Len(main)) \cup {Len(main) + 1}
    BY <1>1, <2>1
  <2> QED
    BY <2>1, <2>2 DEF Waiting
<1>3. ASSUME main # << >>, main' = Tail(main)
      PROVE  Waiting = {Head(main)} \cup Waiting'
  <2>1. /\ Len(main) >= 1 /\ Head(main) = main[1] /\ Len(main') = Len(main) - 1
        /\ \A i \in 1..Len(main') : main'[i] = main[i + 1] /\ i + 1 \in 1..Len(main)
        /\ 1 \in 1..Len(main)
    BY <1>1, <1>3
  <2>2. \A i \in 1..Len(main) : i = 1 \/ (i - 1 \in 1..Len(main') /\ (i - 1) + 1 = i)
    BY <1>1, <2>1
  <2>3. \A i \in 1..Len(main) : main[i] = Head(main) \/ \E j \in 1..Len(main') : main[i] = main'[j]
    BY <2>1, <2>2
  <2> QED
    <3>1. \A i \in 1..Len(main') : main'[i] \in Waiting
      BY <2>1 DEF Waiting
    <3>2. Head(main) \in Waiting
      BY <2>1 DEF Waiting
    <3>3. \A i \in 1..Len(main) : main[i] \in {Head(main)} \cup Waiting'
      BY <2>3 DEF Waiting
    <3> QED
      BY <3>1, <3>2, <3>3 DEF Waiting
<1> QED
  BY <1>2, <1>3 DEF Waiting

\* The events are told apart by kind and key.
LEMMA EventKinds ==
  /\ Tick.kind = "tick" /\ Unregister.kind = "remove"
  /\ \A k : Recheck(k).kind = "recheck" /\ Recheck(k).key = k
  /\ \A c : Rearm(c).kind = "rearm" /\ Rearm(c).key = c.key
BY DEF Tick, Unregister, Recheck, Rearm

\* What happens to a set of keys is seen by a report that waits, or is noted.
LEMMA LateNoted ==
  ASSUME MainTypes, NEW ks \in SUBSET Keys, late' = Late(ks)
  PROVE  late \subseteq late' /\ (Tick \in Waiting \/ ks \subseteq late')
<1>1. DOMAIN main = 1..Len(main)
  BY DEF MainTypes
<1>2. (\E i \in DOMAIN main : main[i] = Tick) <=> Tick \in Waiting
  BY <1>1 DEF Waiting
<1> QED
  BY <1>2 DEF Late

\* A step that changes neither records nor marks of progress, and loses nothing
\* that is to come.
LEMMA LookFrame ==
  ASSUME Inv, LookInv, UNCHANGED <<store, reg, status>>, finals \subseteq finals',
         closed' = "no" => closed = "no", unarmed \subseteq unarmed',
         cur'.pc = "eval" => cur' = cur,
         \A k \in Keys : Told(k) => Told(k)' \/ (k \in unarmed' /\ cur'.pc # "eval"),
         closed' = "no" => \A k \in Keys :
           /\ FinalQueued(k) => FinalQueued(k)' \/ k \in finals'
           /\ Coming(k) \/ k \in late => Coming(k)' \/ k \in late'
  PROVE  LookInv'
<1>1. CurInv /\ FinishedInv /\ OpenInv
  BY DEF LookInv
<1>2. CurInv'
  <2>1. cur.pc = "eval" => DOMAIN cur.recs \subseteq Keys
    BY DEF Inv, TypeOK, MainTypes
  <2> QED
    BY <1>1, <2>1 DEF CurInv
<1>3. FinishedInv'
  BY <1>1 DEF FinishedInv
<1>4. OpenInv'
  BY <1>1 DEF OpenInv
<1> QED
  BY <1>2, <1>3, <1>4 DEF LookInv

\* What is still to come of a step that keeps workers, queue and what is looked at.
LEMMA ComingStill ==
  ASSUME UNCHANGED <<queue, wk, reg, store, cur>>, Waiting \subseteq Waiting', NEW k \in Keys
  PROVE  /\ FinalQueued(k) => FinalQueued(k)'
         /\ Told(k) => Told(k)'
         /\ Coming(k) => Coming(k)'
<1>1. (FinalQueued(k) => FinalQueued(k)') /\ (Running(k) => Running(k)')
  BY DEF FinalQueued, Running
<1>2. Told(k) => Told(k)'
  BY DEF Told
<1> QED
  BY <1>1, <1>2 DEF Coming

\* Polling, a submission on its way, and a handler that asks to be unregistered.
LEMMA PollLook ==
  ASSUME Inv, LookInv,
         Polling \/ Refuse \/ (\E k \in Keys : Stage(k)) \/ \E w \in Workers : RequestRemove(w)
  PROVE  LookInv'
<1>1. MainTypes
  BY DEF Inv, TypeOK
<1>2. UNCHANGED <<store, reg, status, finals, unarmed, closed, cur, queue, wk>>
  BY DEF Polling, StartPolling, Poll, AutoStop, Refuse, Stage, RequestRemove, pollVars, armVars, mainVars, poolVars, histVars
<1>3. \/ Waiting' = Waiting /\ late' = late
      \/ Waiting' = Waiting \cup {Tick}
      \/ Waiting' = Waiting \cup {Unregister} /\ late' = late
  <2>1. CASE Poll
    BY <1>1, <2>1, WaitingMoves, EventTypes DEF Poll
  <2>2. CASE \E w \in Workers : RequestRemove(w)
    BY <1>1, <2>2, WaitingMoves, EventTypes DEF RequestRemove, histVars
  <2>3. CASE ~Poll /\ ~\E w \in Workers : RequestRemove(w)
    <3>1. UNCHANGED <<main, late>>
      BY <2>3 DEF Polling, StartPolling, AutoStop, Refuse, Stage, mainVars, histVars
    <3> QED
      BY <1>1, <3>1, WaitingMoves
  <2> QED
    BY <2>1, <2>2, <2>3
<1>4. \A k \in Keys : (Coming(k) => Coming(k)') /\ (FinalQueued(k) => FinalQueued(k)') /\ (Told(k) => Told(k)')
  <2>1. UNCHANGED <<queue, wk, reg, store, cur>>
    BY <1>2
  <2>2. Waiting \subseteq Waiting'
    BY <1>3
  <2>3. \A k \in Keys : /\ FinalQueued(k) => FinalQueued(k)'
                        /\ Told(k) => Told(k)'
                        /\ Coming(k) => Coming(k)'
    BY <2>1, <2>2, ComingStill
  <2> QED
    BY <2>3
<1>5. \A k \in late : Coming(k)' \/ k \in late'
  BY <1>3 DEF Coming
<1> QED
  BY <1>2, <1>4, <1>5, LookFrame

\* A record that moves on; when it ends a report waits, or the end is noted as late.
LEMMA ObserveLook ==
  ASSUME Inv, LookInv, NEW k \in Keys, NEW s \in {"RUN", "DONE", "LOST"}, Observe(k, s)
  PROVE  LookInv'
<1>1. /\ store[k].st \notin Terminal /\ store' = [store EXCEPT ![k].st = s]
      /\ late' = IF s = "DONE" THEN Late({k}) ELSE late
      /\ UNCHANGED <<main, cur, reg, status, queue, wk, closed, finals, unarmed>>
  BY DEF Observe, mainVars, poolVars, Terminal
<1>2. store \in [Keys -> Recs] /\ DOMAIN cur.recs \subseteq Keys /\ MainTypes
  BY DEF Inv, TypeOK, MainTypes
<1>3. /\ \A l \in Keys : store'[l].gen = store[l].gen
      /\ \A l \in Keys \ {k} : store'[l] = store[l]
      /\ \A l \in Keys : store[l].st \in Terminal => store'[l] = store[l]
      /\ store'[k].st = s
  BY <1>1, <1>2 DEF Recs, Terminal
<1>4. Waiting' = Waiting /\ \A l : Told(l)' <=> Told(l)
  BY <1>1 DEF Waiting, Told
<1>5. CurInv /\ FinishedInv /\ OpenInv
  BY DEF LookInv
<1>6. late \subseteq late' /\ (s = "DONE" => Tick \in Waiting \/ k \in late')
  BY <1>1, <1>2, LateNoted
<1>7. CurInv'
  BY <1>1, <1>2, <1>3, <1>4, <1>5 DEF CurInv
<1>8. \A l \in Keys : FinalQueued(l) => FinalQueued(l)'
  BY <1>1, <1>3 DEF FinalQueued
<1>9. FinishedInv'
  <2>1. \A l \in Keys : store[l].st \in {"LOST", "DONE"} => store'[l] = store[l]
    BY <1>3 DEF Terminal
  <2>2. store[k].st \notin {"LOST", "DONE"}
    BY <1>1 DEF Terminal
  <2> QED
    BY <1>1, <1>4, <1>5, <1>8, <2>1, <2>2 DEF FinishedInv
<1>10. OpenInv'
  <2> SUFFICES ASSUME closed = "no", reg # 0, NEW l \in Keys, store'[l].st = "DONE", l \notin finals,
                      status[l] # "FINISHED"
               PROVE  Coming(l)' \/ l \in late'
    BY <1>1 DEF OpenInv
  <2>1. CASE l = k
    BY <1>3, <1>4, <1>6, <2>1 DEF Coming
  <2>2. CASE l # k
    <3>1. store'[l] = store[l]
      BY <1>3, <2>2
    <3>2. Running(l) => Running(l)'
      BY <1>1 DEF Running
    <3>3. Coming(l) => Coming(l)'
      BY <1>1, <1>4, <3>1, <3>2 DEF Coming
    <3> QED
      BY <1>5, <1>6, <3>1, <3>3 DEF OpenInv
  <2> QED
    BY <2>1, <2>2
<1> QED
  BY <1>7, <1>9, <1>10 DEF LookInv

\* A reset record: that it was reset is on its way.
LEMMA ResetLook ==
  ASSUME Inv, LookInv, Reset
  PROVE  LookInv'
<1>1. PICK c \in cycle :
        /\ store' = [store EXCEPT ![c.key] = [gen |-> @.gen + 1, st |-> "PEND"]]
        /\ main' = Append(main, Rearm(c)) /\ finals' = finals \ {c.key}
  BY DEF Reset
<1>2. UNCHANGED <<cur, reg, status, queue, wk, closed, late, unarmed>>
  BY DEF Reset, poolVars
<1>3. /\ store \in [Keys -> Recs] /\ DOMAIN cur.recs \subseteq Keys /\ MainTypes
      /\ c \in Cycles
  BY DEF Inv, TypeOK, MainTypes
<1>4. PICK k \in Keys : k = c.key
  BY <1>3 DEF Cycles
<1>5. Waiting' = Waiting \cup {Rearm(c)}
  BY <1>1, <1>3, WaitingMoves, EventTypes
<1>6. Told(k)' /\ \A l : Told(l) => Told(l)'
  BY <1>4, <1>5, EventKinds DEF Told
<1>7. store'[k].st = "PEND" /\ \A l \in Keys \ {k} : store'[l] = store[l]
  BY <1>1, <1>3, <1>4
<1>8. CurInv /\ FinishedInv /\ OpenInv
  BY DEF LookInv
<1>9. CurInv'
  BY <1>2, <1>3, <1>6, <1>7, <1>8 DEF CurInv
<1>10. \A l \in Keys \ {k} : /\ FinalQueued(l) => FinalQueued(l)'
                             /\ Running(l) => Running(l)'
  BY <1>2, <1>7 DEF FinalQueued, Running
<1>11. FinishedInv'
  BY <1>1, <1>2, <1>4, <1>6, <1>7, <1>8, <1>10 DEF FinishedInv
<1>12. \A l \in Keys \ {k} : Coming(l) => Coming(l)'
  BY <1>2, <1>5, <1>7, <1>10 DEF Coming
<1>13. OpenInv'
  BY <1>1, <1>2, <1>4, <1>7, <1>8, <1>12 DEF OpenInv
<1> QED
  BY <1>9, <1>11, <1>13 DEF LookInv

\* Without a handler nothing is promised.
LEMMA UnregisterLook ==
  ASSUME Inv, LookInv, RemoveHandler \/ OnRemove \/ Shutdown
  PROVE  LookInv'
<1>1. reg' = 0 /\ cur.pc = "idle" /\ cur' = cur
  BY DEF RemoveHandler, OnRemove, Shutdown, Ready
<1> QED
  BY <1>1 DEF LookInv, CurInv, FinishedInv, OpenInv

\* A handler that is registered again starts over.
LEMMA AddLook ==
  ASSUME Inv, LookInv, AddHandler
  PROVE  LookInv'
<1>1. /\ cur.pc = "idle" /\ status' = [k \in Keys |-> "PENDING"] /\ late' = Late(Keys)
      /\ UNCHANGED <<main, cur>>
  BY DEF AddHandler, Ready
<1>2. MainTypes
  BY DEF Inv, TypeOK
<1>3. Waiting' = Waiting
  BY <1>1 DEF Waiting
<1>4. \A k \in Keys : Coming(k)' \/ k \in late'
  BY <1>1, <1>2, <1>3, LateNoted DEF Coming
<1>5. CurInv' /\ FinishedInv' /\ OpenInv'
  BY <1>1, <1>4 DEF CurInv, FinishedInv, OpenInv
<1> QED
  BY <1>5 DEF LookInv

\* A reset that is told: what is left waiting, of this job and of the others.
LEMMA ResetTold ==
  ASSUME Inv, NEW k, k = Head(main).key, main # << >>, main' = Tail(main),
         Head(main).kind = "rearm", UNCHANGED <<store, cur, reg, queue, wk>>
  PROVE  /\ Waiting' \subseteq Waiting /\ (Tick \in Waiting => Tick \in Waiting')
         /\ \A l \in Keys \ {k} : Told(l) => Told(l)'
         /\ \A l \in Keys : (Coming(l) => Coming(l)') /\ (FinalQueued(l) => FinalQueued(l)')
<1>1. Waiting = {Head(main)} \cup Waiting'
  BY WaitingMoves DEF Inv, TypeOK
<1>2. /\ Tick \in Waiting => Tick \in Waiting'
      /\ \A l : Recheck(l) \in Waiting => Recheck(l) \in Waiting'
  BY <1>1, EventKinds
<1>3. \A l \in Keys \ {k} : Told(l) => Told(l)'
  BY <1>1 DEF Told
<1>4. \A l \in Keys : (Running(l) => Running(l)') /\ (FinalQueued(l) => FinalQueued(l)')
  BY DEF Running, FinalQueued
<1> QED
  BY <1>1, <1>2, <1>3, <1>4 DEF Coming

\* A confirmed reset starts the job over.
LEMMA RearmLook ==
  ASSUME Inv, LookInv, OnRearm
  PROVE  LookInv'
<1>0. PICK k : k = Head(main).key
  OBVIOUS
<1>1. /\ cur.pc = "idle" /\ main # << >> /\ main' = Tail(main) /\ Head(main).kind = "rearm"
      /\ status' = [status EXCEPT ![k] = "PENDING"] /\ late' = Late({k})
      /\ unarmed' = unarmed \ {k}
      /\ UNCHANGED <<store, cur, reg, queue, wk, closed, finals>>
  BY <1>0 DEF OnRearm, Ready, First, poolVars
<1>2. MainTypes /\ status \in [Keys -> {"PENDING", "RUNNING", "FINISHED"}] /\ k \in Keys
  BY <1>0, <1>1, EventTypes, EventQueue DEF Inv, TypeOK, MainTypes
<1>3. /\ Tick \in Waiting => Tick \in Waiting'
      /\ \A l \in Keys \ {k} : Told(l) => Told(l)'
      /\ \A l \in Keys : (Coming(l) => Coming(l)') /\ (FinalQueued(l) => FinalQueued(l)')
  BY <1>0, <1>1, ResetTold
<1>4. late \subseteq late' /\ (Tick \in Waiting \/ k \in late')
  BY <1>1, <1>2, LateNoted
<1>5. CurInv /\ FinishedInv /\ OpenInv
  BY DEF LookInv
<1>6. CurInv'
  BY <1>1 DEF CurInv
<1>7. FinishedInv'
  BY <1>1, <1>2, <1>3, <1>5 DEF FinishedInv
<1>8. OpenInv'
  <2> SUFFICES ASSUME closed = "no", reg # 0, NEW l \in Keys, store[l].st = "DONE", l \notin finals,
                      status'[l] # "FINISHED"
               PROVE  Coming(l)' \/ l \in late'
    BY <1>1 DEF OpenInv
  <2>1. CASE l = k
    BY <1>3, <1>4, <2>1 DEF Coming
  <2>2. CASE l # k
    BY <1>1, <1>2, <1>3, <1>4, <1>5, <2>2 DEF OpenInv
  <2> QED
    BY <2>1, <2>2
<1> QED
  BY <1>6, <1>7, <1>8 DEF LookInv

\* A reset that is ignored is noted, and takes nothing from the other jobs.
LEMMA StaleLook ==
  ASSUME Inv, LookInv, OnStaleReset
  PROVE  LookInv'
<1>0. PICK k : k = Head(main).key
  OBVIOUS
<1>1. /\ cur.pc = "idle" /\ main # << >> /\ main' = Tail(main) /\ Head(main).kind = "rearm"
      /\ unarmed' = unarmed \cup {k}
      /\ UNCHANGED <<store, cur, reg, status, queue, wk, closed, finals, late>>
  BY <1>0 DEF OnStaleReset, Ready, First, poolVars
<1>2. /\ \A l \in Keys \ {k} : Told(l) => Told(l)'
      /\ \A l \in Keys : (Coming(l) => Coming(l)') /\ (FinalQueued(l) => FinalQueued(l)')
  BY <1>0, <1>1, ResetTold
<1>3. \A l \in Keys : Told(l) => Told(l)' \/ (l \in unarmed' /\ cur'.pc # "eval")
  BY <1>1, <1>2
<1> QED
  BY <1>1, <1>2, <1>3, LookFrame

\* The records of the moment are taken for judgement: all of them on a tick, that
\* of the one job on a recheck.
LEMMA TakeLook ==
  ASSUME Inv, LookInv, OnTick \/ OnRecheck
  PROVE  LookInv'
<1>1. /\ cur.pc = "idle" /\ main # << >> /\ main' = Tail(main)
      /\ UNCHANGED <<store, reg, status, queue, wk, closed, finals, late, unarmed>>
  BY DEF OnTick, OnRecheck, Ready, First, poolVars, histVars
<1>2. MainTypes /\ DOMAIN store = Keys /\ DOMAIN cur.recs \subseteq Keys
  BY DEF Inv, TypeOK, MainTypes
<1>3. Waiting = {Head(main)} \cup Waiting' /\ Head(main).kind \in {"tick", "recheck"}
  BY <1>1, <1>2, WaitingMoves DEF OnTick, OnRecheck, First
<1>4. \A k : Told(k) => Told(k)'
  BY <1>3 DEF Told
<1>5. /\ \/ cur' = cur
         \/ cur'.pc = "eval" /\ \A k \in DOMAIN cur'.recs : cur'.recs[k] = store[k]
      /\ cur'.pc = "eval" => reg # 0
      /\ reg # 0 => \A k \in Keys : store[k].st = "DONE" /\ Head(main) \in {Tick, Recheck(k)} =>
           cur'.pc = "eval" /\ k \in DOMAIN cur'.recs /\ cur'.recs[k] = store[k]
  <2>1. CASE OnTick
    <3>1. cur' = IF reg = 0 THEN cur ELSE [pc |-> "eval", recs |-> store]
      BY <2>1 DEF OnTick
    <3> QED
      BY <1>1, <1>2, <3>1
  <2>2. CASE OnRecheck
    <3>1. PICK l : l = Head(main).key
      OBVIOUS
    <3>2. /\ Head(main).kind = "recheck"
          /\ cur' = IF reg = 0 \/ store[l].st \notin Terminal THEN cur
                    ELSE [pc |-> "eval", recs |-> [x \in {l} |-> store[l]]]
      BY <2>2, <3>1 DEF OnRecheck, First
    <3>3. \A k \in Keys : Head(main) \in {Tick, Recheck(k)} => k = l
      BY <3>1, <3>2, EventKinds
    <3> QED
      BY <1>1, <3>2, <3>3 DEF Terminal
  <2> QED
    BY <2>1, <2>2
<1>6. CurInv /\ FinishedInv /\ OpenInv
  BY DEF LookInv
<1>7. CurInv'
  BY <1>1, <1>4, <1>5, <1>6 DEF CurInv
<1>8. \A k \in Keys : (FinalQueued(k) => FinalQueued(k)') /\ (Running(k) => Running(k)')
  BY <1>1 DEF FinalQueued, Running
<1>9. FinishedInv'
  BY <1>1, <1>4, <1>6, <1>8 DEF FinishedInv
<1>10. reg # 0 => \A k \in Keys : store[k].st = "DONE" /\ Coming(k) => Coming(k)'
  <2> SUFFICES ASSUME reg # 0, NEW k \in Keys, store[k].st = "DONE", Coming(k)
               PROVE  Coming(k)'
    OBVIOUS
  <2>1. CASE Head(main) \in {Tick, Recheck(k)}
    BY <1>1, <1>5, <2>1 DEF Coming
  <2>2. CASE Head(main) \notin {Tick, Recheck(k)}
    BY <1>1, <1>3, <1>4, <1>8, <2>2 DEF Coming
  <2> QED
    BY <2>1, <2>2
<1>11. OpenInv'
  BY <1>1, <1>6, <1>10 DEF OpenInv
<1> QED
  BY <1>7, <1>9, <1>11 DEF LookInv

\* Two sequences, one after the other.
LEMMA Joined ==
  ASSUME NEW S, NEW s \in Seq(S), NEW t \in Seq(S)
  PROVE  /\ Len(s \o t) = Len(s) + Len(t)
         /\ \A i \in 1..Len(s) : (s \o t)[i] = s[i]
         /\ \A i \in 1..Len(t) : (s \o t)[Len(s) + i] = t[i]
BY SMTT(30)

\* What the evaluation puts on the queue.
LEMMA EvalQueue ==
  ASSUME Inv, Eval
  PROVE  /\ \A i \in 1..Len(queue) : i \in 1..Len(queue') /\ queue'[i] = queue[i]
         /\ \A k \in Finals \cup Middles : \E i \in 1..Len(queue') :
              /\ queue'[i].reg = reg /\ queue'[i].key = k /\ queue'[i].rec = cur.recs[k]
              /\ k \in Finals => queue'[i].final
<1> DEFINE S == Finals \cup Middles
           run(k) == [reg |-> reg, key |-> k, rec |-> cur.recs[k], final |-> k \in Finals]
<1>1. PICK order : order = SetToSeq(S)
  OBVIOUS
<1>2. queue' = queue \o [i \in DOMAIN order |-> run(order[i])]
  BY <1>1 DEF Eval
<1>3. S \in SUBSET Keys /\ queue \in Seq(Runs)
  BY DEF Inv, TypeOK, MainTypes, PoolTypes, Finals, Middles, Fresh
<1> HIDE DEF S
<1>4. order \in Seq(S) /\ \A k \in S : \E i \in 1..Len(order) : order[i] = k
  BY <1>1, <1>3, OrderOf
<1> HIDE DEF run
<1>5. PICK add : add = [i \in 1..Len(order) |-> run(order[i])]
  OBVIOUS
<1>6. Len(order) \in Nat /\ DOMAIN order = 1..Len(order)
  BY <1>4
<1>7. queue' = queue \o add
  BY <1>2, <1>5, <1>6
<1>T. PICK T : T = Runs \cup {run(order[i]) : i \in 1..Len(order)}
  OBVIOUS
<1>8. queue \in Seq(T) /\ Len(queue) \in Nat
  BY <1>3, <1>T
<1>9. add \in Seq(T) /\ Len(add) = Len(order) /\ \A i \in 1..Len(order) : add[i] = run(order[i])
  <2>1. add \in [1..Len(order) -> T]
    BY <1>5, <1>T
  <2> QED
    BY <1>5, <1>6, <2>1
<1>10. /\ Len(queue') = Len(queue) + Len(add)
       /\ \A i \in 1..Len(queue) : queue'[i] = queue[i]
       /\ \A i \in 1..Len(add) : queue'[Len(queue) + i] = add[i]
  <2>0. queue \in Seq(T) /\ add \in Seq(T)
    BY <1>8, <1>9
  <2>1. /\ Len(queue \o add) = Len(queue) + Len(add)
        /\ \A i \in 1..Len(queue) : (queue \o add)[i] = queue[i]
        /\ \A i \in 1..Len(add) : (queue \o add)[Len(queue) + i] = add[i]
    BY <2>0, Joined
  <2> QED
    BY <1>7, <2>1, Zenon
<1>11. /\ \A i \in 1..Len(queue) : i \in 1..Len(queue')
       /\ \A i \in 1..Len(add) : Len(queue) + i \in 1..Len(queue')
  BY <1>6, <1>8, <1>9, <1>10
<1>12. ASSUME NEW k \in S PROVE \E i \in 1..Len(queue') : queue'[i] = run(k)
  <2>1. PICK i \in 1..Len(order) : order[i] = k
    BY <1>4
  <2> QED
    BY <1>9, <1>10, <1>11, <2>1
<1>13. ASSUME NEW k
       PROVE  /\ run(k).reg = reg /\ run(k).key = k /\ run(k).rec = cur.recs[k]
              /\ k \in Finals => run(k).final
  <2>1. (k \in Finals) \in BOOLEAN
    OBVIOUS
  <2>2. PICK b \in BOOLEAN : b = (k \in Finals)
    BY <2>1
  <2>3. run(k) = [reg |-> reg, key |-> k, rec |-> cur.recs[k], final |-> b]
    BY <2>2 DEF run
  <2>4. /\ run(k).reg = reg /\ run(k).key = k /\ run(k).rec = cur.recs[k]
        /\ run(k).final = b
    BY <2>3
  <2>5. k \in Finals => b
    BY <2>2, Zenon
  <2> QED
    BY <2>4, <2>5, Zenon
<1>14. \A k \in Finals \cup Middles : \E i \in 1..Len(queue') : queue'[i] = run(k)
  BY <1>12 DEF S
<1> QED
  BY <1>10, <1>11, <1>13, <1>14

\* The evaluation: a job that is done and has no run gets its final one.
LEMMA EvalLook ==
  ASSUME Inv, LookInv, Eval
  PROVE  LookInv'
<1>1. /\ cur.pc = "eval" /\ cur'.pc = "pump"
      /\ status' = [k \in Keys |-> IF k \in Finals \cup Dropped THEN "FINISHED"
                                   ELSE IF k \in Middles THEN "RUNNING" ELSE status[k]]
      /\ UNCHANGED <<store, main, reg, wk, closed, finals, late, unarmed>>
  BY DEF Eval, At, histVars
<1>2. MainTypes /\ closed = "no" /\ \A k \in Keys : k \in inflight <=> Running(k)
  BY <1>1 DEF Inv, TypeOK, ClosedInv, MarksExact
<1>3. reg # 0 /\ CurInv /\ FinishedInv /\ OpenInv
  BY <1>1 DEF LookInv, CurInv
<1>4. Waiting' = Waiting /\ \A k : Told(k)' <=> Told(k)
  BY <1>1 DEF Waiting, Told
<1>5. \A k \in Keys : /\ FinalQueued(k) => FinalQueued(k)'
                      /\ Running(k) => Running(k)'
                      /\ k \in Finals \cup Middles => Running(k)'
                      /\ k \in Finals /\ cur.recs[k] = store[k] => FinalQueued(k)'
  <2> TAKE k \in Keys
  <2>1. (FinalQueued(k) => FinalQueued(k)') /\ (Running(k) => Running(k)')
    BY <1>1, EvalQueue DEF FinalQueued, Running
  <2>2. ASSUME k \in Finals \cup Middles PROVE Running(k)'
    <3>1. PICK i \in 1..Len(queue') :
            queue'[i].key = k
      BY <2>2, EvalQueue
    <3> QED
      BY <3>1 DEF Running
  <2>3. ASSUME k \in Finals, cur.recs[k] = store[k] PROVE FinalQueued(k)'
    <3>1. PICK i \in 1..Len(queue') :
            /\ queue'[i].reg = reg /\ queue'[i].key = k /\ queue'[i].rec = cur.recs[k]
            /\ queue'[i].final
      BY <2>3, EvalQueue
    <3> QED
      BY <1>1, <2>3, <3>1 DEF FinalQueued
  <2> QED
    BY <2>1, <2>2, <2>3
<1>6. \A k \in DOMAIN cur.recs : 
        cur.recs[k] = store[k] \/ cur.recs[k].st \notin Terminal \/ Told(k)
  BY <1>1, <1>3 DEF CurInv
<1>7. \A k \in Keys : store[k].st \in {"PEND", "RUN", "DONE", "LOST"}
  BY <1>2 DEF MainTypes, Recs
<1>8. CurInv'
  BY <1>1 DEF CurInv
<1>9. FinishedInv'
  <2> SUFFICES ASSUME NEW k \in Keys, status'[k] = "FINISHED"
               PROVE  \/ Told(k) \/ k \in unarmed \/ store[k].st = "LOST"
                      \/ store[k].st = "DONE" /\ (k \in finals \/ FinalQueued(k)')
    BY <1>1, <1>4 DEF FinishedInv
  <2>1. CASE k \in Finals
    BY <1>5, <1>6, <2>1 DEF Finals, Fresh, Terminal
  <2>2. CASE k \in Dropped
    BY <1>6, <2>2 DEF Dropped, Fresh, Terminal
  <2>3. CASE k \notin Finals \cup Dropped
    <3>1. status[k] = "FINISHED"
      BY <1>1, <2>3
    <3> QED
      BY <1>2, <1>3, <1>5, <3>1 DEF FinishedInv
  <2> QED
    BY <2>1, <2>2, <2>3
<1>10. OpenInv'
  <2> SUFFICES ASSUME NEW k \in Keys, store[k].st = "DONE", k \notin finals, status'[k] # "FINISHED"
               PROVE  Coming(k)' \/ k \in late
    BY <1>1 DEF OpenInv
  <2>1. k \notin Finals \cup Dropped
    BY <1>1
  <2>2. CASE k \in Middles
    BY <1>5, <2>2 DEF Coming
  <2>3. CASE k \notin Middles
    <3>1. status'[k] = status[k]
      BY <1>1, <2>1, <2>3
    <3>2. k \in DOMAIN cur.recs /\ cur.recs[k] = store[k] => Running(k)
      BY <1>2, <2>1, <3>1 DEF Finals, Fresh
    <3>3. Coming(k) => Coming(k)'
      BY <1>1, <1>4, <1>5, <3>2 DEF Coming
    <3> QED
      BY <1>2, <1>3, <3>1, <3>3 DEF OpenInv
  <2> QED
    BY <2>2, <2>3
<1> QED
  BY <1>8, <1>9, <1>10 DEF LookInv

\* The pump only switches workers on; the end of shutdown promises nothing.
LEMMA PumpLook ==
  ASSUME Inv, LookInv, Pump \/ ShutdownDone
  PROVE  LookInv'
<1>1. /\ UNCHANGED <<store, main, reg, status, queue, finals, late, unarmed>>
      /\ cur'.pc = "eval" => cur' = cur
      /\ closed' = "no" => closed = "no"
      /\ closed' = "no" => Pump
  BY DEF Pump, ShutdownDone, mainVars, histVars, At
<1>2. Waiting' = Waiting /\ \A k : Told(k)' <=> Told(k)
  BY <1>1 DEF Waiting, Told
<1>3. \A k \in Keys : FinalQueued(k) => FinalQueued(k)'
  BY <1>1 DEF FinalQueued
<1>4. ASSUME Pump
      PROVE  \A k \in Keys : Coming(k) => Coming(k)'
  <2>1. cur.pc = "pump"
    BY <1>4 DEF Pump
  <2>2. \A w \in Workers : wk[w].pc \in {"call", "done"} => wk'[w] = wk[w]
    <3>1. PICK ws \in SUBSET {w \in Workers : wk[w].pc = "off"} :
            wk' = [w \in Workers |-> IF w \in ws THEN [Off EXCEPT !.pc = "take"] ELSE wk[w]]
      BY <1>4 DEF Pump
    <3> QED
      BY <3>1
  <2>3. \A k \in Keys : Running(k) => Running(k)'
    BY <1>1, <2>2 DEF Running
  <2> QED
    BY <1>1, <1>2, <2>1, <2>2, <2>3 DEF Coming
<1> QED
  BY <1>1, <1>2, <1>3, <1>4, LookFrame

\* A worker: the final run it takes is had, and a run that returns is followed by a
\* recheck.
LEMMA DrainLook ==
  ASSUME Inv, LookInv, NEW w \in Workers, Drain(w)
  PROVE  LookInv'
<1>1. /\ UNCHANGED <<store, cur, reg, status, closed, late, unarmed>>
      /\ finals \subseteq finals'
  BY DEF Drain, Take, DrainEnd, Return, Announce, mainVars, histVars
<1>2. MainTypes /\ PoolTypes
  BY DEF Inv, TypeOK
<1>3. /\ wk \in [Workers -> [pc : {"off", "take", "call", "done"}, item : Runs \cup {<< >>}]]
      /\ wk[w].pc \in {"call", "done"} => wk[w].item.key \in Keys
  BY <1>2 DEF PoolTypes, Runs
<1>4. Waiting \subseteq Waiting' /\ \A k : Told(k) => Told(k)'
  <2>1. CASE UNCHANGED main
    BY <2>1 DEF Waiting, Told
  <2>2. CASE Announce(w)
    BY <1>2, <1>3, <2>2, WaitingMoves, EventTypes DEF Announce, Told
  <2> QED
    BY <2>1, <2>2 DEF Drain, Take, DrainEnd, Return, mainVars
<1>5. CASE Take(w)
  <2>1. PICK q : q = Head(queue)
    OBVIOUS
  <2>2. /\ wk[w].pc = "take" /\ queue # << >> /\ queue' = Tail(queue)
        /\ wk' = [wk EXCEPT ![w] = [pc |-> "call", item |-> q]]
        /\ q.final /\ q.reg = reg /\ q.rec.gen = store[q.key].gen => q.key \in finals'
    BY <1>5, <2>1 DEF Take
  <2>3. /\ q = queue[1] /\ Len(queue') = Len(queue) - 1 /\ Len(queue) \in Nat
        /\ \A i \in 1..Len(queue') : queue'[i] = queue[i + 1]
    BY <1>2, <2>1, <2>2 DEF PoolTypes
  <2>4. \A i \in 1..Len(queue) : i = 1 \/ (i - 1 \in 1..Len(queue') /\ queue'[i - 1] = queue[i])
    BY <2>3
  <2>5. ASSUME NEW k \in Keys, FinalQueued(k)
        PROVE  FinalQueued(k)' \/ k \in finals'
    <3>1. PICK i \in 1..Len(queue) : /\ queue[i].final /\ queue[i].key = k
                                     /\ queue[i].reg = reg /\ queue[i].rec.gen = store[k].gen
      BY <2>5 DEF FinalQueued
    <3>2. CASE i = 1
      BY <2>2, <2>3, <3>1, <3>2
    <3>3. CASE i - 1 \in 1..Len(queue') /\ queue'[i - 1] = queue[i]
      BY <1>1, <3>1, <3>3 DEF FinalQueued
    <3> QED
      BY <2>4, <3>2, <3>3
  <2>6. /\ wk'[w].pc = "call" /\ wk'[w].item = q
        /\ \A v \in Workers \ {w} : wk'[v] = wk[v]
    BY <1>3, <2>2
  <2>7. ASSUME NEW k \in Keys, Running(k)
        PROVE  Running(k)'
    <3>1. CASE \E v \in Workers : wk[v].pc = "call" /\ wk[v].item.key = k
      BY <2>2, <2>6, <3>1 DEF Running
    <3>2. ASSUME NEW i \in 1..Len(queue), queue[i].key = k
          PROVE  Running(k)'
      <4>1. CASE i = 1
        BY <2>3, <2>6, <3>2, <4>1 DEF Running
      <4>2. CASE i - 1 \in 1..Len(queue') /\ queue'[i - 1] = queue[i]
        BY <3>2, <4>2 DEF Running
      <4> QED
        BY <2>4, <4>1, <4>2
    <3> QED
      BY <2>7, <3>1, <3>2 DEF Running
  <2>8. ASSUME NEW k \in Keys, Coming(k)
        PROVE  Coming(k)'
    <3>1. CASE \E v \in Workers : wk[v].pc = "done" /\ wk[v].item.key = k
      BY <2>2, <2>6, <3>1 DEF Coming
    <3>2. CASE Running(k)
      BY <2>7, <3>2 DEF Coming
    <3> QED
      BY <1>1, <1>4, <2>8, <3>1, <3>2 DEF Coming
  <2> QED
    BY <1>1, <1>4, <2>5, <2>8, LookFrame
<1>6. CASE ~Take(w)
  <2>1. /\ queue' = queue /\ \A v \in Workers \ {w} : wk'[v] = wk[v]
        /\ wk[w].pc = "call" => wk'[w].pc = "done" /\ wk'[w].item = wk[w].item
        /\ wk[w].pc = "done" => Recheck(wk[w].item.key) \in Waiting'
    <3>1. CASE DrainEnd(w)
      BY <1>3, <3>1 DEF DrainEnd
    <3>2. CASE Return(w)
      BY <1>3, <3>2 DEF Return
    <3>3. CASE Announce(w)
      BY <1>2, <1>3, <3>3, WaitingMoves, EventTypes DEF Announce
    <3> QED
      BY <1>6, <3>1, <3>2, <3>3 DEF Drain
  <2>2. \A k \in Keys : FinalQueued(k) => FinalQueued(k)'
    BY <1>1, <2>1 DEF FinalQueued
  <2>3. ASSUME NEW k \in Keys, Coming(k)
        PROVE  Coming(k)'
    <3>1. CASE \E v \in Workers : wk[v].pc = "call" /\ wk[v].item.key = k
      BY <2>1, <3>1 DEF Coming, Running
    <3>2. CASE \E v \in Workers : wk[v].pc = "done" /\ wk[v].item.key = k
      BY <2>1, <3>2 DEF Coming
    <3>3. CASE \E i \in 1..Len(queue) : queue[i].key = k
      BY <2>1, <3>3 DEF Coming, Running
    <3> QED
      BY <1>1, <1>4, <2>3, <3>1, <3>2, <3>3 DEF Coming, Running
  <2> QED
    BY <1>1, <1>4, <2>2, <2>3, LookFrame
<1> QED
  BY <1>5, <1>6

\* The second invariant holds at the start: no job has ended.
LEMMA LookInit == Init => LookInv
<1> SUFFICES ASSUME Init PROVE LookInv
  OBVIOUS
<1>1. /\ cur.pc = "idle" /\ \A k \in Keys : status[k] = "PENDING" /\ store[k].st # "DONE"
  BY DEF Init, At
<1> QED
  BY <1>1 DEF LookInv, CurInv, FinishedInv, OpenInv

\* Every step keeps it.
LEMMA LookNext == Inv /\ LookInv /\ [Next]_vars => LookInv'
<1> SUFFICES ASSUME Inv, LookInv, [Next]_vars PROVE LookInv'
  OBVIOUS
<1>1. CASE \/ Polling \/ Refuse \/ \E k \in Resubmits : Stage(k)
           \/ \E w \in Workers : RequestRemove(w)
  BY <1>1, PollLook, HandlersAssumption
<1>2. CASE \E k \in Keys, s \in {"RUN", "DONE", "LOST"} : Observe(k, s)
  BY <1>2, ObserveLook
<1>3. CASE Reset
  BY <1>3, ResetLook
<1>4. CASE AddHandler
  BY <1>4, AddLook
<1>5. CASE RemoveHandler \/ OnRemove \/ Shutdown
  BY <1>5, UnregisterLook
<1>6. CASE OnRearm \/ OnStaleReset
  BY <1>6, RearmLook, StaleLook
<1>7. CASE OnTick \/ OnRecheck
  BY <1>7, TakeLook
<1>8. CASE Eval
  BY <1>8, EvalLook
<1>9. CASE Pump \/ ShutdownDone
  BY <1>9, PumpLook
<1>10. CASE \E w \in Workers : Drain(w)
  BY <1>10, DrainLook
<1>11. CASE UNCHANGED vars
  <2>1. UNCHANGED <<store, main, cur, reg, status, queue, wk, closed, finals, late, unarmed>>
    BY <1>11 DEF vars, mainVars, poolVars, histVars
  <2>2. Waiting \subseteq Waiting'
    BY <2>1 DEF Waiting
  <2>3. UNCHANGED <<queue, wk, reg, store, cur>>
    BY <2>1
  <2>4. \A k \in Keys : /\ FinalQueued(k) => FinalQueued(k)'
                        /\ Told(k) => Told(k)'
                        /\ Coming(k) => Coming(k)'
    BY <2>2, <2>3, ComingStill
  <2> QED
    BY <2>1, <2>4, LookFrame
<1> QED
  BY <1>1, <1>2, <1>3, <1>4, <1>5, <1>6, <1>7, <1>8, <1>9, <1>10, <1>11 DEF Next, Main

\* NoneForgotten (tick, _on_recheck, rearm): at rest every job that is done has had
\* its final run, but for the jobs that ended, were armed or got their handler
\* after the last look, which are not taken for finished, and for those whose reset
\* was not told.
THEOREM NoneForgottenHolds == Spec => []NoneForgotten
<1>1. LookInv => NoneForgotten
  <2> SUFFICES ASSUME LookInv, Rest, closed = "no", reg # 0,
                      NEW k \in Keys, store[k].st = "DONE", k \notin finals
               PROVE  (k \in late /\ status[k] # "FINISHED") \/ k \in unarmed
    BY DEF NoneForgotten
  <2>1. Len(main) = 0 /\ Len(queue) = 0
    BY DEF Rest
  <2>2. Waiting = {} /\ ~FinalQueued(k) /\ ~Told(k)
    BY <2>1 DEF Waiting, FinalQueued, Told
  <2>3. status[k] = "FINISHED" => k \in unarmed
    BY <2>2 DEF LookInv, FinishedInv
  <2>4. ~Coming(k)
    BY <2>1, <2>2 DEF Coming, Running, Rest
  <2> QED
    BY <2>3, <2>4 DEF LookInv, OpenInv
<1> QED
  BY Invariant, LookInit, LookNext, <1>1, PTL DEF Spec
=============================================================================
