----------------------------- MODULE Relay_proofs -----------------------------
(***************************************************************************)
(* Proofs about the way of changed records to the GUI, for any finite set  *)
(* of keys, any writers and states, and any bounds.                        *)
(***************************************************************************)
EXTENDS Relay, FiniteSetTheorems, TLAPS

-----------------------------------------------------------------------------
(* Types.                                                                  *)

Records == [key : Keys, life : Nat \ {0}, gen : Nat, rev : 0..MaxRev, st : States]
Shows   == [st : States, due : BOOLEAN]

RecordTypes ==
  /\ rec \in [Keys -> Records \cup {None}] /\ gui \in [Keys -> Records]
  /\ wr \in [Writers -> Records \cup {None}] /\ main \in Seq(Records)
  /\ DOMAIN emitted \subseteq Keys /\ \A k \in DOMAIN emitted : emitted[k] \in Nat

PacerTypes ==
  /\ DOMAIN shown \subseteq Keys /\ \A k \in DOMAIN shown : shown[k] \in Shows
  /\ DOMAIN pq \subseteq Keys /\ \A k \in DOMAIN pq : pq[k] \in Seq(Records) /\ pq[k] # << >>
  /\ timer \in BOOLEAN /\ stopped \in BOOLEAN /\ todo \in Seq(Keys)

TypeOK == RecordTypes /\ PacerTypes

-----------------------------------------------------------------------------
(* The inductive invariant.                                                *)

\* The generations of a life do not reach those of the next one.
InLife(r) == r.gen >= r.life * (MaxRev + 1) /\ r.gen <= r.life * (MaxRev + 1) + r.rev

\* The application knows every job that exists, and nothing is remembered or
\* held back of one that does not.
RecOK(k) ==
  /\ gui[k].key = k
  /\ rec[k] # None => /\ rec[k].key = k /\ rec[k].life = gui[k].life
                      /\ InLife(rec[k]) /\ k \in DOMAIN emitted
  /\ rec[k] = None => k \notin DOMAIN emitted /\ k \notin DOMAIN pq

\* What is held back is of this life, and grows from what is on display.
HeldOK(k) ==
  k \in DOMAIN pq => \A i \in 1..Len(pq[k]) :
    /\ pq[k][i].key = k /\ pq[k][i].life = gui[k].life /\ gui[k].rev <= pq[k][i].rev
    /\ \A j \in i..Len(pq[k]) : pq[k][i].rev <= pq[k][j].rev

\* The revision that is remembered is that of the last record passed on.
EmitOK(k) == rec[k] # None => emitted[k] = Latest(k).rev /\ emitted[k] <= rec[k].rev

\* A post is of a life that has begun, and not newer than its record.
PostOK(r) ==
  /\ InLife(r) /\ r.life <= gui[r.key].life
  /\ rec[r.key] # None /\ r.life = rec[r.key].life =>
       r.rev <= rec[r.key].rev /\ (r.rev = rec[r.key].rev => r = rec[r.key])

PostInv ==
  /\ \A w \in Writers : wr[w] # None => PostOK(wr[w])
  /\ \A i \in 1..Len(main) : PostOK(main[i])

\* The record in the store has been passed on, or is on its way.
Posted(r) == (\E w \in Writers : wr[w] = r) \/ \E i \in 1..Len(main) : main[i] = r
SeenOK(k) == rec[k] # None => Latest(k) = rec[k] \/ Posted(rec[k])

TimerInv == DOMAIN pq # {} /\ todo = << >> => timer

KeyInv == \A k \in Keys : RecOK(k) /\ HeldOK(k) /\ EmitOK(k) /\ SeenOK(k)

Inv == TypeOK /\ KeyInv /\ PostInv /\ TimerInv

-----------------------------------------------------------------------------
(* The data.                                                               *)

\* A generation belongs to one life.
LEMMA LifeOfGen ==
  ASSUME NEW r \in Records, NEW s \in Records, InLife(r), InLife(s), r.gen = s.gen
  PROVE  r.life = s.life
<1>1. ASSUME NEW a \in Nat, NEW b \in Nat, NEW N \in Nat, a < b
      PROVE  a * N + N <= b * N
  <2>1. PICK d \in Nat : b = a + 1 + d
    <3>1. b - a - 1 \in Nat /\ b = a + 1 + (b - a - 1)
      BY <1>1
    <3> QED
      BY <3>1
  <2>2. b * N = a * N + N + d * N
    BY <2>1
  <2>3. d * N \in Nat /\ a * N \in Nat
    OBVIOUS
  <2> QED
    BY <2>2, <2>3
<1>2. MaxRev \in Nat
  BY RelayAssumption
<1> DEFINE N == MaxRev + 1
<1>3. N \in Nat /\ r.rev < N /\ s.rev < N /\ r.rev \in Nat /\ s.rev \in Nat
      /\ r.life \in Nat /\ s.life \in Nat
  BY <1>2 DEF Records
<1>4. /\ r.gen >= r.life * N /\ r.gen <= r.life * N + r.rev
      /\ s.gen >= s.life * N /\ s.gen <= s.life * N + s.rev
  BY DEF InLife
<1> HIDE DEF N
<1>5. r.life * N \in Nat /\ s.life * N \in Nat /\ r.gen \in Nat
  BY <1>3 DEF Records
<1>6. ~(r.life < s.life)
  <2> SUFFICES ASSUME r.life < s.life PROVE FALSE
    OBVIOUS
  <2>1. r.life * N + N <= s.life * N
    BY <1>1, <1>3
  <2> QED
    BY <1>3, <1>4, <1>5, <2>1
<1>7. ~(s.life < r.life)
  <2> SUFFICES ASSUME s.life < r.life PROVE FALSE
    OBVIOUS
  <2>1. s.life * N + N <= r.life * N
    BY <1>1, <1>3
  <2> QED
    BY <1>3, <1>4, <1>5, <2>1
<1> QED
  BY <1>3, <1>6, <1>7

\* A new record is the first of its life, and is not the absent one.
LEMMA NewRecType ==
  ASSUME NEW k \in Keys, NEW n \in Nat \ {0}, NEW s \in States
  PROVE  /\ NewRec(k, n, s) \in Records
         /\ NewRec(k, n, s).key = k /\ NewRec(k, n, s).life = n /\ NewRec(k, n, s).rev = 0
         /\ InLife(NewRec(k, n, s))
<1>1. MaxRev \in Nat
  BY RelayAssumption
<1>2. n * (MaxRev + 1) \in Nat
  BY <1>1
<1> DEFINE g == n * (MaxRev + 1)
<1>3. NewRec(k, n, s) = [key |-> k, life |-> n, gen |-> g, rev |-> 0, st |-> s]
  BY DEF NewRec
<1> HIDE DEF g
<1>4. g \in Nat /\ 0 \in 0..MaxRev
  BY <1>1, <1>2 DEF g
<1>5. /\ NewRec(k, n, s) \in Records
      /\ NewRec(k, n, s).key = k /\ NewRec(k, n, s).life = n /\ NewRec(k, n, s).rev = 0
      /\ NewRec(k, n, s).gen = g
  BY <1>3, <1>4 DEF Records
<1> QED
  BY <1>2, <1>4, <1>5 DEF InLife, g

\* No record is the absent one.
LEMMA NoneIsNoRecord == None \notin Records
<1>1. None.life = 0
  BY DEF None, NewRec
<1> QED
  BY <1>1 DEF Records

\* A change keeps the life, and its revision is the next one.
LEMMA ChangedType ==
  ASSUME NEW r \in Records, NEW s \in States, NEW reset \in BOOLEAN, r.rev < MaxRev, InLife(r)
  PROVE  /\ Changed(r, s, reset) \in Records
         /\ Changed(r, s, reset).key = r.key /\ Changed(r, s, reset).life = r.life
         /\ Changed(r, s, reset).rev = r.rev + 1
         /\ InLife(Changed(r, s, reset))
<1> DEFINE g == IF reset THEN r.gen + 1 ELSE r.gen
           base == r.life * (MaxRev + 1)
<1>1. MaxRev \in Nat /\ r.rev + 1 \in 0..MaxRev /\ r.rev \in Nat /\ r.gen \in Nat
      /\ r.life \in Nat
  BY RelayAssumption DEF Records
<1>2. g \in Nat
  BY <1>1
<1>3. g \in {r.gen, r.gen + 1}
  OBVIOUS
<1>4. Changed(r, s, reset) = [r EXCEPT !.rev = r.rev + 1, !.st = s, !.gen = g]
  BY DEF Changed
<1> HIDE DEF g
<1>5. /\ Changed(r, s, reset) \in Records
      /\ Changed(r, s, reset).key = r.key /\ Changed(r, s, reset).life = r.life
      /\ Changed(r, s, reset).rev = r.rev + 1 /\ Changed(r, s, reset).gen = g
  BY <1>1, <1>2, <1>4 DEF Records
<1>6. base \in Nat /\ r.gen >= base /\ r.gen <= base + r.rev
  BY <1>1 DEF InLife
<1>7. InLife(Changed(r, s, reset)) <=> g >= base /\ g <= base + (r.rev + 1)
  BY <1>5 DEF InLife
<1> HIDE DEF base
<1> QED
  BY <1>1, <1>2, <1>3, <1>5, <1>6, <1>7

\* _enqueue: the record is the last one afterwards, and the others keep their place.
LEMMA EnqueueEffect ==
  ASSUME NEW q \in Seq(Records), q # << >>, NEW r \in Records
  PROVE  /\ Enqueue(q, r) \in Seq(Records) /\ Enqueue(q, r) # << >>
         /\ Enqueue(q, r)[Len(Enqueue(q, r))] = r
         /\ \A i \in 1..(Len(Enqueue(q, r)) - 1) : i \in 1..Len(q) /\ Enqueue(q, r)[i] = q[i]
<1>1. Len(q) \in Nat /\ Len(q) > 0
  OBVIOUS
<1>2. CASE q[Len(q)].st = r.st
  BY <1>1, <1>2 DEF Enqueue
<1>3. CASE q[Len(q)].st # r.st
  <2>1. Enqueue(q, r) = Append(q, r)
    BY <1>3 DEF Enqueue
  <2> QED
    BY <1>1, <2>1
<1> QED
  BY <1>2, <1>3

\* What is left when the first of several is taken.
LEMMA TailEffect ==
  ASSUME NEW q \in Seq(Records), Len(q) > 1
  PROVE  /\ Tail(q) \in Seq(Records) /\ Tail(q) # << >> /\ Len(Tail(q)) = Len(q) - 1
         /\ \A i \in 1..(Len(q) - 1) : Tail(q)[i] = q[i + 1]
<1>1. q # << >> /\ Len(q) \in Nat
  OBVIOUS
<1>2. Tail(q) \in Seq(Records) /\ Len(Tail(q)) = Len(q) - 1
  BY <1>1
<1>3. \A i \in 1..(Len(q) - 1) : Tail(q)[i] = q[i + 1]
  BY <1>1
<1>4. Tail(q) # << >>
  <2>1. \A t \in Seq(Records) : Len(t) > 0 => t # << >>
    OBVIOUS
  <2>2. Len(Tail(q)) > 0
    BY <1>1, <1>2
  <2> QED
    BY <1>2, <2>1, <2>2, Zenon
<1> QED
  BY <1>2, <1>3, <1>4

\* The keys of a drain: each is in it.
LEMMA DrainKeys ==
  ASSUME NEW S \in SUBSET Keys
  PROVE  /\ SetToSeq(S) \in Seq(Keys)
         /\ S # {} => SetToSeq(S) # << >>
<1>1. IsFiniteSet(S)
  BY RelayAssumption, FS_Subset
<1> DEFINE n == Cardinality(S)
<1>2. n \in Nat /\ ExistsBijection(1..n, S)
  BY <1>1, FS_CardinalityType
<1>3. \E f \in [1..n -> S] : IsInjective(f)
  BY <1>2 DEF ExistsBijection, Bijection, Injection
<1>4. SetToSeq(S) \in [1..n -> S]
  BY <1>3 DEF SetToSeq
<1>5. SetToSeq(S) \in Seq(Keys) /\ Len(SetToSeq(S)) = n
  BY <1>2, <1>4
<1>6. S # {} => n # 0
  BY <1>1, FS_EmptySet
<1> QED
  BY <1>5, <1>6

-----------------------------------------------------------------------------
(* The pacer's steps.                                                      *)

\* Queues of records, and what is on display.
Queues(p)   == DOMAIN p \subseteq Keys /\ \A k \in DOMAIN p : p[k] \in Seq(Records) /\ p[k] # << >>
Displays(d) == DOMAIN d \subseteq Keys /\ \A k \in DOMAIN d : d[k] \in Shows

\* push: the record waits behind the others of its job, or is passed on with
\* nothing of its job waiting; other jobs are not affected, and who waits has
\* a timer.
LEMMA PushEffect ==
  ASSUME NEW p, NEW sh, NEW r \in Records, NEW k, k = r.key,
         Queues(p), Displays(sh), gui \in [Keys -> Records], PushRec(p, sh, r)
  PROVE  /\ Queues(pq') /\ Displays(shown') /\ timer' \in BOOLEAN
         /\ gui' \in [Keys -> Records]
         /\ \A x \in Keys \ {k} : /\ gui'[x] = gui[x]
                                  /\ x \in DOMAIN pq' <=> x \in DOMAIN p
                                  /\ x \in DOMAIN p => pq'[x] = p[x]
         /\ DOMAIN pq' # {} => timer'
         /\ \/ /\ k \in DOMAIN pq' /\ gui'[k] = gui[k]
               /\ pq'[k][Len(pq'[k])] = r
               /\ \A i \in 1..(Len(pq'[k]) - 1) :
                    k \in DOMAIN p /\ i \in 1..Len(p[k]) /\ pq'[k][i] = p[k][i]
            \/ k \notin DOMAIN p /\ k \notin DOMAIN pq' /\ gui'[k] = r
         /\ k \notin DOMAIN p /\ k \notin DOMAIN sh => k \notin DOMAIN pq' /\ gui'[k] = r
<1>1. k \in Keys /\ r.st \in States
  BY DEF Records
<1>2. CASE Held(p, sh, r)
  <2> DEFINE q == IF k \in DOMAIN p THEN Enqueue(p[k], r) ELSE <<r>>
  <2>1. pq' = Put(p, k, q) /\ shown' = sh /\ timer' = TRUE /\ gui' = gui
    BY <1>2 DEF PushRec
  <2>2. /\ q \in Seq(Records) /\ q # << >> /\ q[Len(q)] = r
        /\ \A i \in 1..(Len(q) - 1) : k \in DOMAIN p /\ i \in 1..Len(p[k]) /\ q[i] = p[k][i]
    <3>1. CASE k \in DOMAIN p
      <4>1. p[k] \in Seq(Records) /\ p[k] # << >>
        BY <3>1 DEF Queues
      <4> QED
        BY <3>1, <4>1, EnqueueEffect
    <3>2. CASE k \notin DOMAIN p
      <4>1. q = <<r>>
        BY <3>2
      <4> HIDE DEF q
      <4> QED
        BY <4>1
    <3> QED
      BY <3>1, <3>2
  <2>3. k \in DOMAIN p \/ k \in DOMAIN sh
    BY <1>2 DEF Held
  <2> HIDE DEF q
  <2>4. /\ DOMAIN pq' = DOMAIN p \cup {k} /\ pq'[k] = q
        /\ \A x \in DOMAIN p \ {k} : pq'[x] = p[x]
    BY <2>1 DEF Put
  <2>5. Queues(pq')
    BY <1>1, <2>2, <2>4 DEF Queues
  <2> QED
    BY <1>1, <2>1, <2>2, <2>3, <2>4, <2>5
<1>3. CASE ~Held(p, sh, r)
  <2> DEFINE d == [st |-> r.st, due |-> FALSE]
  <2>1. /\ pq' = p /\ timer' = (DOMAIN p # {}) /\ gui' = [gui EXCEPT ![k] = r]
        /\ shown' = IF k \in DOMAIN sh /\ sh[k].st = r.st THEN sh ELSE Put(sh, k, d)
    BY <1>3 DEF PushRec
  <2>2. k \notin DOMAIN p
    BY <1>3 DEF Held
  <2>3. d \in Shows
    BY <1>1 DEF Shows
  <2> HIDE DEF d
  <2>4. Displays(Put(sh, k, d))
    <3>1. /\ DOMAIN Put(sh, k, d) = DOMAIN sh \cup {k} /\ Put(sh, k, d)[k] = d
          /\ \A x \in DOMAIN sh \ {k} : Put(sh, k, d)[x] = sh[x]
      BY DEF Put
    <3> QED
      BY <1>1, <2>3, <3>1 DEF Displays
  <2>5. Displays(shown')
    BY <2>1, <2>4
  <2>6. gui' \in [Keys -> Records] /\ gui'[k] = r /\ \A x \in Keys \ {k} : gui'[x] = gui[x]
    BY <1>1, <2>1
  <2> QED
    BY <1>1, <2>1, <2>2, <2>5, <2>6
<1> QED
  BY <1>2, <1>3

\* _drain: a job that is due gets its first record, or its last one when the
\* pacer has been stopped; what comes last stays what comes last.
LEMMA DrainEffect ==
  ASSUME TypeOK, DrainOne, NEW k, k = Head(todo)
  PROVE  /\ k \in Keys /\ todo' \in Seq(Keys) /\ todo # << >>
         /\ Queues(pq') /\ Displays(shown') /\ timer' \in BOOLEAN
         /\ gui' \in [Keys -> Records]
         /\ \A x \in Keys \ {k} : /\ gui'[x] = gui[x]
                                  /\ x \in DOMAIN pq' <=> x \in DOMAIN pq
                                  /\ x \in DOMAIN pq => pq'[x] = pq[x]
         /\ todo' = << >> => (DOMAIN pq' # {} => timer')
         /\ \/ gui'[k] = gui[k] /\ (k \in DOMAIN pq' <=> k \in DOMAIN pq) /\ pq'[k] = pq[k]
            \/ /\ k \in DOMAIN pq /\ k \notin DOMAIN pq' /\ gui'[k] = pq[k][Len(pq[k])]
            \/ /\ k \in DOMAIN pq /\ k \in DOMAIN pq' /\ gui'[k] = pq[k][1]
               /\ pq'[k] = Tail(pq[k]) /\ Len(pq[k]) > 1
<1>1. /\ todo # << >> /\ todo' = Tail(todo)
      /\ timer' = (IF Len(todo) = 1 THEN DOMAIN pq' # {} ELSE timer)
  BY DEF DrainOne
<1>2. todo \in Seq(Keys) /\ timer \in BOOLEAN /\ Queues(pq) /\ Displays(shown)
      /\ gui \in [Keys -> Records]
  BY DEF TypeOK, PacerTypes, RecordTypes, Queues, Displays
<1>3. k \in Keys /\ todo' \in Seq(Keys) /\ timer' \in BOOLEAN
      /\ (todo' = << >> => (DOMAIN pq' # {} => timer'))
  <2>1. k \in Keys /\ todo' \in Seq(Keys) /\ Len(todo) > 0 /\ Len(todo) \in Nat
        /\ Len(todo') = Len(todo) - 1
    BY <1>1, <1>2
  <2>2. (DOMAIN pq' # {}) \in BOOLEAN
    OBVIOUS
  <2>3. todo' = << >> => Len(todo) = 1
    BY <2>1
  <2> QED
    BY <1>1, <1>2, <2>1, <2>2, <2>3, Zenon
<1>4. CASE k \in DOMAIN pq /\ Due(k)
  <2> DEFINE r == IF stopped THEN Last(pq[k]) ELSE Head(pq[k])
             d == [st |-> r.st, due |-> FALSE]
  <2>1. /\ pq' = IF stopped \/ Len(pq[k]) = 1 THEN Drop(pq, k) ELSE [pq EXCEPT ![k] = Tail(@)]
        /\ shown' = Put(shown, k, d)
        /\ gui' = [gui EXCEPT ![k] = r]
    BY <1>4 DEF DrainOne
  <2>2. pq[k] \in Seq(Records) /\ Len(pq[k]) > 0 /\ Len(pq[k]) \in Nat
    BY <1>2, <1>4 DEF Queues
  <2>3. /\ r \in Records /\ (stopped \/ Len(pq[k]) = 1 => r = pq[k][Len(pq[k])])
        /\ ~stopped => r = pq[k][1]
    BY <2>2 DEF Last
  <2> HIDE DEF r
  <2>4. d \in Shows
    BY <2>3 DEF Shows, Records
  <2> HIDE DEF d
  <2>5. Displays(shown')
    <3>1. /\ DOMAIN Put(shown, k, d) = DOMAIN shown \cup {k} /\ Put(shown, k, d)[k] = d
          /\ \A x \in DOMAIN shown \ {k} : Put(shown, k, d)[x] = shown[x]
      BY DEF Put
    <3> QED
      BY <1>2, <1>3, <2>1, <2>4, <3>1 DEF Displays
  <2>6. gui' \in [Keys -> Records] /\ gui'[k] = r /\ \A x \in Keys \ {k} : gui'[x] = gui[x]
    BY <1>2, <1>3, <2>1, <2>3
  <2>7. CASE stopped \/ Len(pq[k]) = 1
    <3>1. DOMAIN pq' = DOMAIN pq \ {k} /\ \A x \in DOMAIN pq' : pq'[x] = pq[x]
      BY <2>1, <2>7 DEF Drop
    <3>2. Queues(pq')
      BY <1>2, <3>1 DEF Queues
    <3> QED
      BY <1>1, <1>3, <1>4, <2>3, <2>5, <2>6, <2>7, <3>1, <3>2
  <2>8. CASE ~(stopped \/ Len(pq[k]) = 1)
    <3>1. pq' = [pq EXCEPT ![k] = Tail(pq[k])]
      BY <2>1, <2>8
    <3>2. DOMAIN pq' = DOMAIN pq /\ pq'[k] = Tail(pq[k])
          /\ \A x \in DOMAIN pq \ {k} : pq'[x] = pq[x]
      BY <1>4, <3>1
    <3>0. Len(pq[k]) # 1
      BY <2>8
    <3>5. Len(pq[k]) > 1
      <4>1. \A n \in Nat : n > 0 /\ n # 1 => n > 1
        OBVIOUS
      <4> QED
        BY <2>2, <3>0, <4>1, Zenon
    <3>3. Tail(pq[k]) \in Seq(Records) /\ Tail(pq[k]) # << >>
      BY <2>2, <3>5, TailEffect, Zenon
    <3>4. Queues(pq')
      BY <1>2, <3>2, <3>3 DEF Queues
    <3>6. /\ k \in DOMAIN pq /\ k \in DOMAIN pq' /\ gui'[k] = pq[k][1]
          /\ pq'[k] = Tail(pq[k]) /\ Len(pq[k]) > 1
      BY <1>4, <2>3, <2>6, <2>8, <3>2, <3>5
    <3>7. \A x \in Keys \ {k} : (x \in DOMAIN pq' <=> x \in DOMAIN pq)
                               /\ (x \in DOMAIN pq => pq'[x] = pq[x])
      BY <3>2
    <3> QED
      BY <1>1, <1>3, <2>5, <2>6, <3>4, <3>6, <3>7
  <2> QED
    BY <2>7, <2>8
<1>5. CASE ~(k \in DOMAIN pq /\ Due(k))
  <2>1. UNCHANGED <<pq, shown, gui>>
    BY <1>5 DEF DrainOne
  <2> QED
    BY <1>1, <1>2, <1>3, <2>1 DEF Queues, Displays
<1> QED
  BY <1>4, <1>5

-----------------------------------------------------------------------------
(* What a step leaves alone, and what every step does.                     *)

\* Nothing of the key changes but what is on its way to the main thread.
Kept(k) ==
  /\ gui'[k] = gui[k] /\ rec'[k] = rec[k]
  /\ k \in DOMAIN pq' <=> k \in DOMAIN pq
  /\ k \in DOMAIN pq => pq'[k] = pq[k]
  /\ k \in DOMAIN emitted' <=> k \in DOMAIN emitted
  /\ k \in DOMAIN emitted => emitted'[k] = emitted[k]

\* A life does not go back, nor the revisions of a life, and only a job that
\* exists is given anew.
Forward ==
  \A k \in Keys :
    /\ gui'[k].life >= gui[k].life
    /\ gui'[k].life = gui[k].life => gui'[k].rev >= gui[k].rev
    /\ gui'[k] # gui[k] => rec'[k] # None

\* A key whose state is kept keeps its part of the invariant.
LEMMA KeptKey ==
  ASSUME NEW k \in Keys, Kept(k), RecOK(k), HeldOK(k), EmitOK(k)
  PROVE  RecOK(k)' /\ HeldOK(k)' /\ EmitOK(k)' /\ Latest(k)' = Latest(k)
<1>1. Latest(k)' = Latest(k)
  BY DEF Kept, Latest
<1>2. RecOK(k)'
  BY DEF Kept, RecOK, InLife
<1>3. HeldOK(k)'
  BY DEF Kept, HeldOK
<1>4. EmitOK(k)'
  BY <1>1 DEF Kept, RecOK, EmitOK
<1> QED
  BY <1>1, <1>2, <1>3, <1>4

\* The last record given or held back is the newest of those the application
\* has not seen.
LEMMA LatestAhead ==
  ASSUME TypeOK, NEW k \in Keys, RecOK(k), HeldOK(k)
  PROVE  /\ Latest(k) \in Records /\ Latest(k).rev \in Nat
         /\ Latest(k).key = k /\ Latest(k).life = gui[k].life
         /\ gui[k].rev <= Latest(k).rev
         /\ k \in DOMAIN pq => \A i \in 1..Len(pq[k]) : pq[k][i].rev <= Latest(k).rev
<1>1. gui[k] \in Records /\ MaxRev \in Nat
  BY RelayAssumption DEF TypeOK, RecordTypes
<1>2. CASE k \in DOMAIN pq
  <2>1. pq[k] \in Seq(Records) /\ Len(pq[k]) \in 1..Len(pq[k]) /\ Latest(k) = pq[k][Len(pq[k])]
    BY <1>2 DEF TypeOK, PacerTypes, Latest, Last
  <2>2. Latest(k) \in Records
    BY <2>1
  <2> QED
    BY <1>1, <1>2, <2>1, <2>2 DEF HeldOK, Records
<1>3. CASE k \notin DOMAIN pq
  BY <1>1, <1>3 DEF Latest, RecOK, Records
<1> QED
  BY <1>2, <1>3

\* A post stays allowed while the records it speaks of do not change, and a
\* life does not go back.
LEMMA KeptPost ==
  ASSUME TypeOK, TypeOK', NEW r \in Records, PostOK(r), rec'[r.key] = rec[r.key],
         gui'[r.key].life >= gui[r.key].life
  PROVE  PostOK(r)'
<1>1. /\ gui[r.key].life \in Nat /\ gui'[r.key].life \in Nat /\ r.life \in Nat
  BY DEF TypeOK, RecordTypes, Records
<1>2. r.life <= gui'[r.key].life
  BY <1>1 DEF PostOK
<1> QED
  BY <1>2 DEF PostOK, InLife

\* The types of what is looked up.
LEMMA TypeFacts ==
  ASSUME TypeOK
  PROVE  /\ MaxRev \in Nat
         /\ \A k \in Keys : /\ gui[k] \in Records
                            /\ rec[k] \in Records \cup {None}
                            /\ k \in DOMAIN emitted => emitted[k] \in Nat
         /\ \A w \in Writers : wr[w] \in Records \cup {None}
         /\ \A i \in 1..Len(main) : main[i] \in Records
         /\ \A r \in Records : /\ r.key \in Keys /\ r.rev \in Nat /\ r.rev <= MaxRev
                               /\ r.life \in Nat /\ r.gen \in Nat /\ r.st \in States
                               /\ r # None
<1>1. MaxRev \in Nat
  BY RelayAssumption
<1>2. \A r \in Records : /\ r.key \in Keys /\ r.rev \in Nat /\ r.rev <= MaxRev
                         /\ r.life \in Nat /\ r.gen \in Nat /\ r.st \in States
  BY <1>1 DEF Records
<1>3. \A r \in Records : r # None
  BY NoneIsNoRecord
<1> QED
  BY <1>1, <1>2, <1>3 DEF TypeOK, RecordTypes

-----------------------------------------------------------------------------
(* The worker threads.                                                     *)

\* A change of a record leaves it to its writer to post it.
LEMMA WriteStep ==
  ASSUME Inv, NEW w \in Writers, NEW k \in Keys, NEW s \in States, NEW reset \in BOOLEAN,
         Write(w, k, s, reset)
  PROVE  Inv' /\ Forward
<1>0. PICK r : r = Changed(rec[k], s, reset)
  OBVIOUS
<1>1. /\ wr[w] = None /\ rec[k] # None /\ rec[k].rev < MaxRev
      /\ rec' = [rec EXCEPT ![k] = r] /\ wr' = [wr EXCEPT ![w] = rec'[k]]
      /\ UNCHANGED <<main, emitted, pacerVars, gui>>
  BY <1>0 DEF Write
<1>2. TypeOK /\ KeyInv /\ PostInv /\ TimerInv
  BY DEF Inv
<1>3. RecOK(k) /\ HeldOK(k) /\ EmitOK(k) /\ rec[k] \in Records
  BY <1>1, <1>2, TypeFacts DEF KeyInv
<1>4. r \in Records /\ r.key = k /\ r.life = rec[k].life /\ r.rev = rec[k].rev + 1 /\ InLife(r)
  BY <1>0, <1>1, <1>3, ChangedType DEF RecOK
<1>5. rec'[k] = r /\ \A x \in Keys \ {k} : rec'[x] = rec[x]
  BY <1>1, <1>2 DEF TypeOK, RecordTypes
<1>6. wr'[w] = r /\ \A v \in Writers \ {w} : wr'[v] = wr[v]
  BY <1>1, <1>2, <1>5 DEF TypeOK, RecordTypes
<1>7. TypeOK'
  <2>1. RecordTypes'
    BY <1>1, <1>2, <1>4, <1>5 DEF TypeOK, RecordTypes
  <2>2. PacerTypes'
    BY <1>1, <1>2 DEF TypeOK, PacerTypes, pacerVars
  <2> QED
    BY <2>1, <2>2 DEF TypeOK
<1>8. KeyInv'
  <2> SUFFICES ASSUME NEW x \in Keys
               PROVE  RecOK(x)' /\ HeldOK(x)' /\ EmitOK(x)' /\ SeenOK(x)'
    BY DEF KeyInv
  <2>1. CASE x # k
    <3>1. Kept(x)
      BY <1>1, <1>5, <2>1 DEF Kept, pacerVars
    <3>2. RecOK(x) /\ HeldOK(x) /\ EmitOK(x) /\ SeenOK(x)
      BY <1>2 DEF KeyInv
    <3>3. RecOK(x)' /\ HeldOK(x)' /\ EmitOK(x)' /\ Latest(x)' = Latest(x)
      BY <3>1, <3>2, KeptKey
    <3>4. rec[x] # None /\ Posted(rec[x]) => Posted(rec[x])'
      BY <1>1, <1>6 DEF Posted
    <3>5. rec'[x] = rec[x]
      BY <1>5, <2>1
    <3>6. SeenOK(x)'
      BY <3>2, <3>3, <3>4, <3>5 DEF SeenOK, Posted
    <3> QED
      BY <3>3, <3>6
  <2>2. CASE x = k
    <3>1. HeldOK(k)' /\ Latest(k)' = Latest(k)
      BY <1>1, <1>3 DEF HeldOK, Latest, pacerVars
    <3>2. RecOK(k)'
      <4>1. gui'[k].key = k /\ r.life = gui'[k].life /\ k \in DOMAIN emitted' /\ r # None
        BY <1>1, <1>3, <1>4, NoneIsNoRecord DEF RecOK
      <4>2. InLife(rec[k])'
        BY <1>4, <1>5 DEF InLife
      <4> QED
        BY <1>4, <1>5, <4>1, <4>2 DEF RecOK
    <3>3. EmitOK(k)'
      <4>1. emitted'[k] = Latest(k).rev /\ emitted[k] <= rec[k].rev /\ emitted[k] \in Nat
            /\ rec[k].rev \in Nat
        BY <1>1, <1>2, <1>3, TypeFacts DEF EmitOK, RecOK
      <4>2. emitted[k] <= rec[k].rev + 1
        BY <4>1
      <4> QED
        BY <1>1, <1>4, <1>5, <3>1, <4>1, <4>2 DEF EmitOK
    <3>4. SeenOK(k)'
      BY <1>5, <1>6 DEF SeenOK, Posted
    <3> QED
      BY <2>2, <3>1, <3>2, <3>3, <3>4
  <2> QED
    BY <2>1, <2>2
<1>9. ASSUME NEW q \in Records, PostOK(q)
      PROVE  PostOK(q)'
  <2>1. CASE q.key # k
    BY <1>1, <1>2, <1>5, <1>7, <1>9, <2>1, KeptPost, TypeFacts
  <2>2. CASE q.key = k
    <3>1. q.rev \in Nat /\ rec[k].rev \in Nat
      BY <1>2, <1>3, TypeFacts
    <3>2. r.life = q.life => q.rev <= r.rev /\ q.rev # r.rev
      BY <1>1, <1>4, <1>9, <2>2, <3>1 DEF PostOK
    <3> QED
      BY <1>1, <1>5, <1>9, <2>2, <3>2 DEF PostOK, InLife
  <2> QED
    BY <2>1, <2>2
<1>10. PostOK(r)'
  <2>1. r.life <= gui'[k].life /\ r.rev <= r.rev
    BY <1>1, <1>2, <1>3, <1>4, TypeFacts DEF RecOK
  <2> QED
    BY <1>4, <1>5, <2>1 DEF PostOK, InLife
<1>11. PostInv'
  <2>1. \A v \in Writers : wr'[v] # None => PostOK(wr[v])'
    <3> SUFFICES ASSUME NEW v \in Writers, wr'[v] # None
                 PROVE  PostOK(wr[v])'
      OBVIOUS
    <3>1. PICK q : q = wr'[v]
      OBVIOUS
    <3>2. PostOK(q)'
      BY <1>2, <1>6, <1>9, <1>10, <3>1, TypeFacts DEF PostInv
    <3> QED
      BY <3>1, <3>2 DEF PostOK, InLife
  <2>2. ASSUME NEW i \in 1..Len(main')
        PROVE  PostOK(main[i])'
    <3>1. PICK q : q = main[i]
      OBVIOUS
    <3>2. PostOK(q)'
      BY <1>1, <1>2, <1>9, <3>1, TypeFacts DEF PostInv
    <3> QED
      BY <1>1, <3>1, <3>2 DEF PostOK, InLife
  <2> QED
    BY <2>1, <2>2 DEF PostInv
<1>12. TimerInv'
  BY <1>1, <1>2 DEF TimerInv, pacerVars
<1>13. Forward
  BY <1>1, <1>2, TypeFacts DEF Forward
<1> QED
  BY <1>7, <1>8, <1>11, <1>12, <1>13 DEF Inv

\* A record that is posted is on its way as before.
LEMMA PostStep ==
  ASSUME Inv, NEW w \in Writers, Post(w)
  PROVE  Inv' /\ Forward
<1>1. /\ wr[w] # None /\ main' = Append(main, wr[w]) /\ wr' = [wr EXCEPT ![w] = None]
      /\ UNCHANGED <<rec, emitted, pacerVars, gui>>
  BY DEF Post
<1>2. TypeOK /\ KeyInv /\ PostInv /\ TimerInv
  BY DEF Inv
<1>3. wr[w] \in Records /\ main \in Seq(Records) /\ PostOK(wr[w])
  BY <1>1, <1>2, TypeFacts DEF TypeOK, RecordTypes, PostInv
<1>4. wr'[w] = None /\ \A v \in Writers \ {w} : wr'[v] = wr[v]
  BY <1>1, <1>2 DEF TypeOK, RecordTypes
<1>5. /\ main' \in Seq(Records) /\ Len(main') = Len(main) + 1 /\ main'[Len(main) + 1] = wr[w]
      /\ \A i \in 1..Len(main) : main'[i] = main[i]
  BY <1>1, <1>3
<1>6. TypeOK'
  <2>1. RecordTypes'
    BY <1>1, <1>2, <1>5 DEF TypeOK, RecordTypes
  <2>2. PacerTypes'
    BY <1>1, <1>2 DEF TypeOK, PacerTypes, pacerVars
  <2> QED
    BY <2>1, <2>2 DEF TypeOK
<1>7. ASSUME NEW r, Posted(r), r # None
      PROVE  Posted(r)'
  BY <1>3, <1>4, <1>5, <1>7 DEF Posted
<1>8. KeyInv'
  <2> SUFFICES ASSUME NEW x \in Keys
               PROVE  RecOK(x)' /\ HeldOK(x)' /\ EmitOK(x)' /\ SeenOK(x)'
    BY DEF KeyInv
  <2>1. Kept(x)
    BY <1>1 DEF Kept, pacerVars
  <2>2. RecOK(x) /\ HeldOK(x) /\ EmitOK(x) /\ SeenOK(x)
    BY <1>2 DEF KeyInv
  <2>3. RecOK(x)' /\ HeldOK(x)' /\ EmitOK(x)' /\ Latest(x)' = Latest(x)
    BY <2>1, <2>2, KeptKey
  <2>4. SeenOK(x)'
    BY <1>1, <1>7, <2>2, <2>3 DEF SeenOK, Posted
  <2> QED
    BY <2>3, <2>4
<1>9. \A r : PostOK(r) => PostOK(r)'
  BY <1>1 DEF PostOK
<1>10. PostInv'
  <2>1. \A v \in Writers : wr'[v] # None => PostOK(wr[v])'
    <3> SUFFICES ASSUME NEW v \in Writers, wr'[v] # None
                 PROVE  PostOK(wr[v])'
      OBVIOUS
    <3>1. PICK q : q = wr'[v]
      OBVIOUS
    <3>2. PostOK(q)'
      BY <1>2, <1>4, <1>9, <3>1 DEF PostInv
    <3> QED
      BY <3>1, <3>2 DEF PostOK, InLife
  <2>2. ASSUME NEW i \in 1..Len(main')
        PROVE  PostOK(main[i])'
    <3>1. i \in 1..Len(main) \/ i = Len(main) + 1
      BY <1>3, <1>5
    <3>2. PICK q : q = main'[i]
      OBVIOUS
    <3>3. PostOK(q)'
      BY <1>2, <1>3, <1>5, <1>9, <3>1, <3>2 DEF PostInv
    <3> QED
      BY <3>2, <3>3 DEF PostOK, InLife
  <2> QED
    BY <2>1, <2>2 DEF PostInv
<1>11. TimerInv'
  BY <1>1, <1>2 DEF TimerInv, pacerVars
<1>12. Forward
  BY <1>1, <1>2, TypeFacts DEF Forward
<1> QED
  BY <1>6, <1>8, <1>10, <1>11, <1>12 DEF Inv

-----------------------------------------------------------------------------
(* The manager's slots.                                                    *)

\* A record that is passed on or held back: its key's part of the invariant
\* when it is at least as new as the last one and of the job's present life.
LEMMA PushedKey ==
  ASSUME TypeOK, TypeOK', NEW k \in Keys, NEW r \in Records, r.key = k, rec'[k] \in Records,
         RecOK(k), HeldOK(k), EmitOK(k), rec[k] # None, Latest(k).rev <= r.rev,
         rec'[k].key = k, r.life = gui[k].life, rec'[k].life = r.life, InLife(rec'[k]),
         r.rev <= rec'[k].rev, k \in DOMAIN emitted', emitted'[k] = r.rev,
         \/ /\ k \in DOMAIN pq' /\ gui'[k] = gui[k]
            /\ pq'[k][Len(pq'[k])] = r
            /\ \A i \in 1..(Len(pq'[k]) - 1) :
                 k \in DOMAIN pq /\ i \in 1..Len(pq[k]) /\ pq'[k][i] = pq[k][i]
         \/ k \notin DOMAIN pq' /\ gui'[k] = r
  PROVE  /\ RecOK(k)' /\ HeldOK(k)' /\ EmitOK(k)' /\ Latest(k)' = r
         /\ gui'[k].life = gui[k].life /\ gui[k].rev <= gui'[k].rev
<1>1. /\ Latest(k) \in Records /\ Latest(k).rev \in Nat /\ gui[k].rev <= Latest(k).rev
      /\ k \in DOMAIN pq => \A i \in 1..Len(pq[k]) : pq[k][i].rev <= Latest(k).rev
  BY LatestAhead
<1>2. r.rev \in Nat /\ gui[k].rev \in Nat /\ gui'[k] \in Records /\ gui[k].rev <= r.rev
  BY <1>1, TypeFacts DEF TypeOK, RecordTypes
<1>3. rec'[k] # None
  BY NoneIsNoRecord
<1>4. CASE /\ k \in DOMAIN pq' /\ gui'[k] = gui[k]
           /\ pq'[k][Len(pq'[k])] = r
           /\ \A i \in 1..(Len(pq'[k]) - 1) :
                k \in DOMAIN pq /\ i \in 1..Len(pq[k]) /\ pq'[k][i] = pq[k][i]
  <2>1. Latest(k)' = r
    BY <1>4 DEF Latest, Last
  <2>2. InLife(rec[k])'
    BY DEF InLife
  <2>3. RecOK(k)'
    BY <1>3, <1>4, <2>2 DEF RecOK
  <2>4. pq'[k] \in Seq(Records) /\ Len(pq'[k]) \in Nat
    BY <1>4 DEF TypeOK, PacerTypes
  <2>5. \A i \in 1..(Len(pq'[k]) - 1) :
          /\ pq'[k][i].key = k /\ pq'[k][i].life = gui[k].life /\ gui[k].rev <= pq'[k][i].rev
          /\ pq'[k][i].rev \in Nat /\ pq'[k][i].rev <= r.rev
          /\ \A j \in i..(Len(pq'[k]) - 1) : pq'[k][i].rev <= pq'[k][j].rev
    <3> SUFFICES ASSUME NEW i \in 1..(Len(pq'[k]) - 1)
                 PROVE  /\ pq'[k][i].key = k /\ pq'[k][i].life = gui[k].life
                        /\ gui[k].rev <= pq'[k][i].rev
                        /\ pq'[k][i].rev \in Nat /\ pq'[k][i].rev <= r.rev
                        /\ \A j \in i..(Len(pq'[k]) - 1) : pq'[k][i].rev <= pq'[k][j].rev
      OBVIOUS
    <3>1. /\ k \in DOMAIN pq /\ i \in 1..Len(pq[k]) /\ pq'[k][i] = pq[k][i]
          /\ pq[k] \in Seq(Records)
      BY <1>4 DEF TypeOK, PacerTypes
    <3>2. pq[k][i] \in Records /\ pq[k][i].rev \in Nat
      BY <3>1, TypeFacts
    <3>3. /\ pq[k][i].key = k /\ pq[k][i].life = gui[k].life /\ gui[k].rev <= pq[k][i].rev
          /\ \A j \in i..Len(pq[k]) : pq[k][i].rev <= pq[k][j].rev
      BY <3>1 DEF HeldOK
    <3>4. pq[k][i].rev <= r.rev
      BY <1>1, <1>2, <3>1, <3>2
    <3>5. ASSUME NEW j \in i..(Len(pq'[k]) - 1)
          PROVE  pq'[k][i].rev <= pq'[k][j].rev
      <4>1. j \in 1..(Len(pq'[k]) - 1) /\ j >= i
        BY <2>4
      <4>2. j \in 1..Len(pq[k]) /\ pq'[k][j] = pq[k][j]
        BY <1>4, <4>1
      <4>3. j \in i..Len(pq[k])
        BY <3>1, <4>1, <4>2
      <4> QED
        BY <3>1, <3>3, <4>2, <4>3
    <3> QED
      BY <3>1, <3>2, <3>3, <3>4, <3>5
  <2>6. \A i \in 1..Len(pq'[k]) : i \in 1..(Len(pq'[k]) - 1) \/ i = Len(pq'[k])
    BY <2>4
  <2>7. HeldOK(k)'
    <3> SUFFICES ASSUME NEW i \in 1..Len(pq'[k])
                 PROVE  /\ pq'[k][i].key = k /\ pq'[k][i].life = gui'[k].life
                        /\ gui'[k].rev <= pq'[k][i].rev
                        /\ \A j \in i..Len(pq'[k]) : pq'[k][i].rev <= pq'[k][j].rev
      BY DEF HeldOK
    <3>1. CASE i = Len(pq'[k])
      <4>1. \A j \in i..Len(pq'[k]) : j = i
        BY <2>4, <3>1
      <4> QED
        BY <1>2, <1>4, <3>1, <4>1
    <3>2. CASE i \in 1..(Len(pq'[k]) - 1)
      <4>1. \A j \in i..Len(pq'[k]) : j \in i..(Len(pq'[k]) - 1) \/ j = Len(pq'[k])
        BY <2>4
      <4> QED
        BY <1>4, <2>5, <3>2, <4>1
    <3> QED
      BY <2>6, <3>1, <3>2
  <2>8. EmitOK(k)'
    BY <2>1 DEF EmitOK
  <2> QED
    BY <1>2, <1>4, <2>1, <2>3, <2>7, <2>8
<1>5. CASE k \notin DOMAIN pq' /\ gui'[k] = r
  <2>1. Latest(k)' = r
    BY <1>5 DEF Latest
  <2>2. InLife(rec[k])'
    BY DEF InLife
  <2>3. RecOK(k)'
    BY <1>3, <1>5, <2>2 DEF RecOK
  <2>4. HeldOK(k)'
    BY <1>5 DEF HeldOK
  <2>5. EmitOK(k)'
    BY <2>1 DEF EmitOK
  <2> QED
    BY <1>2, <1>5, <2>1, <2>3, <2>4, <2>5
<1> QED
  BY <1>4, <1>5

\* _emit_jobs drops a post or passes its record on: what is in the store stays
\* on its way unless it is what is passed on.
LEMMA EmitStep ==
  ASSUME Inv, EmitJobs
  PROVE  Inv' /\ Forward
<1>0. PICK r : r = Head(main)
  OBVIOUS
<1>00. PICK k : k = r.key
  OBVIOUS
<1>1. /\ main # << >> /\ todo = << >> /\ main' = Tail(main)
      /\ UNCHANGED <<rec, wr, todo, stopped>>
      /\ IF SameExecution(r) /\ Newer(r)
         THEN /\ emitted' = Put(emitted, r.key, r.rev)
              /\ PushRec(pq, shown, r)
         ELSE UNCHANGED <<emitted, pq, shown, timer, gui>>
  BY <1>0 DEF EmitJobs
<1>2. TypeOK /\ KeyInv /\ PostInv /\ TimerInv
  BY DEF Inv
<1>3. /\ main \in Seq(Records) /\ Len(main) \in Nat /\ Len(main) > 0 /\ r = main[1]
      /\ main' \in Seq(Records) /\ Len(main') = Len(main) - 1
      /\ \A i \in 1..Len(main') : main'[i] = main[i + 1] /\ i + 1 \in 1..Len(main)
      /\ \A i \in 1..Len(main) : i = 1 \/ (i - 1 \in 1..Len(main') /\ main[i] = main'[i - 1])
  <2>1. /\ main \in Seq(Records) /\ Len(main) \in Nat /\ Len(main) > 0 /\ r = main[1]
    BY <1>0, <1>1, <1>2 DEF TypeOK, RecordTypes
  <2>2. /\ main' \in Seq(Records) /\ Len(main') = Len(main) - 1
        /\ \A i \in 1..Len(main') : main'[i] = main[i + 1]
    BY <1>1, <2>1
  <2> QED
    BY <2>1, <2>2
<1>4. r \in Records /\ PostOK(r) /\ k \in Keys
  <2>1. 1 \in 1..Len(main)
    BY <1>3
  <2>2. r \in Records /\ PostOK(r)
    BY <1>2, <1>3, <2>1, TypeFacts DEF PostInv
  <2> QED
    BY <1>00, <1>2, <2>2, TypeFacts
<1>5. ASSUME NEW q, Posted(q), q # r
      PROVE  Posted(q)'
  BY <1>1, <1>3, <1>5 DEF Posted
<1>6. RecOK(k) /\ HeldOK(k) /\ EmitOK(k) /\ SeenOK(k) /\ rec[k] \in Records \cup {None}
  BY <1>2, <1>4, TypeFacts DEF KeyInv
<1>7. ASSUME NEW x \in Keys, Kept(x), rec[x] # r \/ Latest(x) = rec[x]
      PROVE  RecOK(x)' /\ HeldOK(x)' /\ EmitOK(x)' /\ SeenOK(x)'
  <2>1. RecOK(x) /\ HeldOK(x) /\ EmitOK(x) /\ SeenOK(x)
    BY <1>2 DEF KeyInv
  <2>2. RecOK(x)' /\ HeldOK(x)' /\ EmitOK(x)' /\ Latest(x)' = Latest(x)
    BY <1>7, <2>1, KeptKey
  <2>3. SeenOK(x)'
    BY <1>1, <1>5, <1>7, <2>1, <2>2 DEF SeenOK, Posted
  <2> QED
    BY <2>2, <2>3
<1>8. CASE ~(SameExecution(r) /\ Newer(r))
  <2>1. UNCHANGED <<rec, wr, emitted, pq, shown, timer, gui, todo, stopped>>
    BY <1>1, <1>8
  <2>2. TypeOK'
    <3>1. RecordTypes'
      BY <1>2, <1>3, <2>1 DEF TypeOK, RecordTypes
    <3>2. PacerTypes'
      BY <1>2, <2>1 DEF TypeOK, PacerTypes
    <3> QED
      BY <3>1, <3>2 DEF TypeOK
  <2>3. ASSUME NEW x \in Keys, rec[x] = r
        PROVE  FALSE
    <3>1. r # None
      BY <1>4, NoneIsNoRecord
    <3>2. RecOK(x) /\ EmitOK(x) /\ x = r.key
      BY <1>2, <2>3, <3>1 DEF KeyInv, RecOK
    <3> QED
      BY <1>8, <2>3, <3>1, <3>2 DEF EmitOK, SameExecution, Newer
  <2>4. KeyInv'
    <3> SUFFICES ASSUME NEW x \in Keys
                 PROVE  RecOK(x)' /\ HeldOK(x)' /\ EmitOK(x)' /\ SeenOK(x)'
      BY DEF KeyInv
    <3>1. Kept(x)
      BY <2>1 DEF Kept
    <3> QED
      BY <1>7, <2>3, <3>1
  <2>5. \A q : PostOK(q) => PostOK(q)'
    BY <2>1 DEF PostOK
  <2>6. PostInv'
    <3>1. \A v \in Writers : wr'[v] # None => PostOK(wr[v])'
      BY <1>2, <2>1 DEF PostInv, PostOK
    <3>2. ASSUME NEW i \in 1..Len(main')
          PROVE  PostOK(main[i])'
      <4>1. PICK q : q = main'[i]
        OBVIOUS
      <4>2. PostOK(q)'
        BY <1>2, <1>3, <2>5, <4>1 DEF PostInv
      <4> QED
        BY <4>1, <4>2 DEF PostOK, InLife
    <3> QED
      BY <3>1, <3>2 DEF PostInv
  <2>7. TimerInv'
    BY <1>2, <2>1 DEF TimerInv
  <2>8. Forward
    BY <1>2, <2>1, TypeFacts DEF Forward
  <2> QED
    BY <2>2, <2>4, <2>6, <2>7, <2>8 DEF Inv
<1>9. CASE SameExecution(r) /\ Newer(r)
  <2>1. emitted' = Put(emitted, k, r.rev) /\ PushRec(pq, shown, r)
    BY <1>00, <1>1, <1>9
  <2>2. /\ Queues(pq') /\ Displays(shown') /\ timer' \in BOOLEAN
        /\ gui' \in [Keys -> Records]
        /\ \A x \in Keys \ {k} : /\ gui'[x] = gui[x]
                                 /\ x \in DOMAIN pq' <=> x \in DOMAIN pq
                                 /\ x \in DOMAIN pq => pq'[x] = pq[x]
        /\ DOMAIN pq' # {} => timer'
        /\ \/ /\ k \in DOMAIN pq' /\ gui'[k] = gui[k]
              /\ pq'[k][Len(pq'[k])] = r
              /\ \A i \in 1..(Len(pq'[k]) - 1) :
                   k \in DOMAIN pq /\ i \in 1..Len(pq[k]) /\ pq'[k][i] = pq[k][i]
           \/ k \notin DOMAIN pq /\ k \notin DOMAIN pq' /\ gui'[k] = r
    <3>1. Queues(pq) /\ Displays(shown) /\ gui \in [Keys -> Records]
      BY <1>2 DEF TypeOK, RecordTypes, PacerTypes, Queues, Displays
    <3> QED
      BY <1>00, <1>4, <2>1, <3>1, PushEffect
  <2>3. /\ DOMAIN emitted' = DOMAIN emitted \cup {k} /\ emitted'[k] = r.rev
        /\ \A x \in DOMAIN emitted \ {k} : emitted'[x] = emitted[x]
    BY <2>1 DEF Put
  <2>4. TypeOK'
    <3>1. RecordTypes'
      <4>1. r.rev \in Nat
        BY <1>2, <1>4, TypeFacts
      <4> QED
        BY <1>1, <1>2, <1>3, <1>4, <2>2, <2>3, <4>1 DEF TypeOK, RecordTypes
    <3>2. PacerTypes'
      BY <1>1, <1>2, <2>2 DEF TypeOK, PacerTypes, Queues, Displays
    <3> QED
      BY <3>1, <3>2 DEF TypeOK
  <2>5. /\ rec[k] # None /\ rec[k] \in Records /\ rec[k].gen = r.gen
        /\ rec[k].key = k /\ rec[k].life = gui[k].life /\ InLife(rec[k])
        /\ k \in DOMAIN emitted /\ emitted[k] <= r.rev
        /\ emitted[k] = Latest(k).rev
    BY <1>00, <1>6, <1>9 DEF SameExecution, Newer, RecOK, EmitOK
  <2>6. r.life = rec[k].life /\ r.rev <= rec[k].rev /\ (r.rev = rec[k].rev => r = rec[k])
    <3>1. InLife(r)
      BY <1>4 DEF PostOK
    <3>2. r.life = rec[k].life
      BY <1>4, <2>5, <3>1, LifeOfGen
    <3> QED
      BY <1>00, <1>4, <2>5, <3>2 DEF PostOK
  <2>7. rec' = rec /\ wr' = wr
    BY <1>1
  <2>8. /\ RecOK(k)' /\ HeldOK(k)' /\ EmitOK(k)' /\ Latest(k)' = r
        /\ gui'[k].life = gui[k].life /\ gui[k].rev <= gui'[k].rev
    <3>1. k \in DOMAIN emitted' /\ rec'[k] \in Records /\ rec'[k].key = k
          /\ rec'[k].life = r.life /\ InLife(rec'[k]) /\ r.rev <= rec'[k].rev
          /\ r.life = gui[k].life /\ Latest(k).rev <= r.rev /\ r.key = k
      BY <1>00, <2>3, <2>5, <2>6, <2>7
    <3>2. \/ /\ k \in DOMAIN pq' /\ gui'[k] = gui[k]
             /\ pq'[k][Len(pq'[k])] = r
             /\ \A i \in 1..(Len(pq'[k]) - 1) :
                  k \in DOMAIN pq /\ i \in 1..Len(pq[k]) /\ pq'[k][i] = pq[k][i]
          \/ k \notin DOMAIN pq' /\ gui'[k] = r
      BY <2>2
    <3> QED
      BY <1>2, <1>4, <1>6, <2>3, <2>4, <2>5, <3>1, <3>2, PushedKey
  <2>9. SeenOK(k)'
    <3>1. CASE r = rec[k]
      BY <2>7, <2>8, <3>1 DEF SeenOK
    <3>2. CASE r # rec[k]
      <4>1. r.rev \in Nat /\ rec[k].rev \in Nat /\ emitted[k] \in Nat
        BY <1>2, <1>4, <2>5, TypeFacts
      <4>2. Latest(k).rev # rec[k].rev
        BY <2>5, <2>6, <3>2, <4>1
      <4>3. Posted(rec[k])
        BY <1>6, <2>5, <4>2 DEF SeenOK
      <4> QED
        BY <1>5, <2>7, <3>2, <4>3 DEF SeenOK, Posted
    <3> QED
      BY <3>1, <3>2
  <2>10. ASSUME NEW x \in Keys, x # k
         PROVE  RecOK(x)' /\ HeldOK(x)' /\ EmitOK(x)' /\ SeenOK(x)'
    <3>1. Kept(x)
      BY <2>2, <2>3, <2>7, <2>10 DEF Kept
    <3>2. rec[x] # r
      <4> SUFFICES ASSUME rec[x] = r PROVE FALSE
        OBVIOUS
      <4>1. RecOK(x) /\ r # None
        BY <1>2, <1>4, NoneIsNoRecord DEF KeyInv
      <4> QED
        BY <1>00, <2>10, <4>1 DEF RecOK
    <3> QED
      BY <1>7, <3>1, <3>2
  <2>11. KeyInv'
    BY <2>8, <2>9, <2>10 DEF KeyInv
  <2>12. \A x \in Keys : gui'[x].life >= gui[x].life
    BY <1>2, <2>2, <2>8, TypeFacts
  <2>13. ASSUME NEW q \in Records, PostOK(q)
         PROVE  PostOK(q)'
    BY <1>2, <2>4, <2>7, <2>12, <2>13, KeptPost, TypeFacts
  <2>14. PostInv'
    <3>1. \A v \in Writers : wr'[v] # None => PostOK(wr[v])'
      <4> SUFFICES ASSUME NEW v \in Writers, wr'[v] # None
                   PROVE  PostOK(wr[v])'
        OBVIOUS
      <4>1. PICK q : q = wr'[v]
        OBVIOUS
      <4>2. PostOK(q)'
        BY <1>2, <2>7, <2>13, <4>1, TypeFacts DEF PostInv
      <4> QED
        BY <4>1, <4>2 DEF PostOK, InLife
    <3>2. ASSUME NEW i \in 1..Len(main')
          PROVE  PostOK(main[i])'
      <4>1. PICK q : q = main'[i]
        OBVIOUS
      <4>2. q \in Records /\ PostOK(q)
        BY <1>2, <1>3, <4>1, TypeFacts DEF PostInv
      <4>3. PostOK(q)'
        BY <2>13, <4>2
      <4> QED
        BY <4>1, <4>3 DEF PostOK, InLife
    <3> QED
      BY <3>1, <3>2 DEF PostInv
  <2>15. TimerInv'
    BY <2>2 DEF TimerInv
  <2>16. Forward
    BY <1>2, <2>2, <2>5, <2>7, <2>8, <2>12, TypeFacts DEF Forward
  <2> QED
    BY <2>4, <2>11, <2>14, <2>15, <2>16 DEF Inv
<1> QED
  BY <1>8, <1>9

\* What no step of the pacer or of the application changes of the posts.
LEMMA KeptPosts ==
  ASSUME TypeOK, TypeOK', PostInv, UNCHANGED <<wr, main>>,
         \A q \in Records : PostOK(q) => PostOK(q)'
  PROVE  PostInv' /\ \A q : Posted(q) => Posted(q)'
<1>1. \A v \in Writers : wr'[v] # None => PostOK(wr[v])'
  <2> SUFFICES ASSUME NEW v \in Writers, wr'[v] # None
               PROVE  PostOK(wr[v])'
    OBVIOUS
  <2>1. PICK q : q = wr'[v]
    OBVIOUS
  <2>2. q \in Records /\ PostOK(q)
    BY <2>1, TypeFacts DEF PostInv
  <2>3. PostOK(q)'
    BY <2>2
  <2> QED
    BY <2>1, <2>3 DEF PostOK, InLife
<1>2. ASSUME NEW i \in 1..Len(main')
      PROVE  PostOK(main[i])'
  <2>1. PICK q : q = main'[i]
    OBVIOUS
  <2>2. q \in Records /\ PostOK(q)
    BY <2>1, TypeFacts DEF PostInv
  <2>3. PostOK(q)'
    BY <2>2
  <2> QED
    BY <2>1, <2>3 DEF PostOK, InLife
<1> QED
  BY <1>1, <1>2 DEF PostInv, Posted

\* A key that is kept while no post changes keeps its invariant.
LEMMA KeptAll ==
  ASSUME NEW k \in Keys, Kept(k), RecOK(k), HeldOK(k), EmitOK(k), SeenOK(k),
         \A q : Posted(q) => Posted(q)'
  PROVE  RecOK(k)' /\ HeldOK(k)' /\ EmitOK(k)' /\ SeenOK(k)'
<1>1. RecOK(k)' /\ HeldOK(k)' /\ EmitOK(k)' /\ Latest(k)' = Latest(k)
  BY KeptKey
<1>2. rec'[k] = rec[k]
  BY DEF Kept
<1>3. SeenOK(k)'
  BY <1>1, <1>2 DEF SeenOK, Posted
<1> QED
  BY <1>1, <1>3

\* remove_jobs: nothing is remembered of the job, and no post is newer than it.
LEMMA RemoveStep ==
  ASSUME Inv, NEW k \in Keys, RemoveJob(k)
  PROVE  Inv' /\ Forward
<1>1. /\ rec' = [rec EXCEPT ![k] = None] /\ emitted' = Drop(emitted, k)
      /\ pq' = Drop(pq, k) /\ shown' = Drop(shown, k) /\ timer' = (DOMAIN pq' # {})
      /\ UNCHANGED <<wr, main, todo, stopped, gui>>
  BY DEF RemoveJob, Forget
<1>2. TypeOK /\ KeyInv /\ PostInv /\ TimerInv
  BY DEF Inv
<1>3. rec'[k] = None /\ \A x \in Keys \ {k} : rec'[x] = rec[x]
  BY <1>1, <1>2 DEF TypeOK, RecordTypes
<1>4. /\ DOMAIN emitted' = DOMAIN emitted \ {k} /\ \A x \in DOMAIN emitted' : emitted'[x] = emitted[x]
      /\ DOMAIN pq' = DOMAIN pq \ {k} /\ \A x \in DOMAIN pq' : pq'[x] = pq[x]
      /\ DOMAIN shown' = DOMAIN shown \ {k} /\ \A x \in DOMAIN shown' : shown'[x] = shown[x]
  BY <1>1 DEF Drop
<1>5. TypeOK'
  <2>1. RecordTypes'
    BY <1>1, <1>2, <1>4 DEF TypeOK, RecordTypes
  <2>2. PacerTypes'
    <3>1. timer' \in BOOLEAN
      BY <1>1
    <3> QED
      BY <1>1, <1>2, <1>4, <3>1 DEF TypeOK, PacerTypes
  <2> QED
    BY <2>1, <2>2 DEF TypeOK
<1>6. ASSUME NEW q \in Records, PostOK(q)
      PROVE  PostOK(q)'
  <2>1. gui' = gui
    BY <1>1
  <2>2. CASE q.key = k
    BY <1>3, <1>6, <2>1, <2>2 DEF PostOK, InLife
  <2>3. CASE q.key # k
    <3>1. q.key \in Keys
      BY <1>2, TypeFacts
    <3>2. rec'[q.key] = rec[q.key]
      BY <1>3, <2>3, <3>1
    <3> QED
      BY <1>6, <2>1, <3>2 DEF PostOK, InLife
  <2> QED
    BY <2>2, <2>3
<1>7. PostInv' /\ \A q : Posted(q) => Posted(q)'
  BY <1>1, <1>2, <1>5, <1>6, KeptPosts
<1>8. KeyInv'
  <2> SUFFICES ASSUME NEW x \in Keys
               PROVE  RecOK(x)' /\ HeldOK(x)' /\ EmitOK(x)' /\ SeenOK(x)'
    BY DEF KeyInv
  <2>1. RecOK(x) /\ HeldOK(x) /\ EmitOK(x) /\ SeenOK(x)
    BY <1>2 DEF KeyInv
  <2>2. CASE x = k
    BY <1>1, <1>3, <1>4, <2>1, <2>2 DEF RecOK, HeldOK, EmitOK, SeenOK
  <2>3. CASE x # k
    <3>1. Kept(x)
      BY <1>1, <1>3, <1>4, <2>3 DEF Kept
    <3> QED
      BY <1>7, <2>1, <3>1, KeptAll
  <2> QED
    BY <2>2, <2>3
<1>9. TimerInv'
  BY <1>1 DEF TimerInv
<1>10. Forward
  BY <1>1, <1>2, TypeFacts DEF Forward
<1> QED
  BY <1>5, <1>7, <1>8, <1>9, <1>10 DEF Inv

\* _edit_jobs: the new record begins a life or is the next revision of its job,
\* and is passed on at once, since the pacer has forgotten the key.
LEMMA EditStep ==
  ASSUME Inv, NEW k \in Keys, EditJob(k)
  PROVE  Inv' /\ Forward
<1>1. /\ IF rec[k] = None
         THEN rec' = [rec EXCEPT ![k] = NewRec(k, gui[k].life + 1, Created)]
         ELSE /\ rec[k].rev < MaxRev
              /\ rec' = [rec EXCEPT ![k] = Changed(@, Created, TRUE)]
      /\ IF k \in DOMAIN emitted => emitted[k] <= rec'[k].rev
         THEN /\ emitted' = Put(emitted, k, rec'[k].rev)
              /\ PushRec(Drop(pq, k), Drop(shown, k), rec'[k])
         ELSE UNCHANGED <<emitted, pq, shown, timer, gui>>
      /\ UNCHANGED <<wr, main, todo, stopped>>
  BY DEF EditJob
<1>2. TypeOK /\ KeyInv /\ PostInv /\ TimerInv
  BY DEF Inv
<1>3. /\ RecOK(k) /\ HeldOK(k) /\ EmitOK(k) /\ rec[k] \in Records \cup {None}
      /\ gui[k] \in Records /\ gui[k].life \in Nat /\ gui[k].rev \in Nat
      /\ k \in DOMAIN emitted => emitted[k] \in Nat
  BY <1>2, TypeFacts DEF KeyInv
<1>4. PICK r : r = rec'[k]
  OBVIOUS
<1>5. \A x \in Keys \ {k} : rec'[x] = rec[x]
  BY <1>1, <1>2 DEF TypeOK, RecordTypes
<1>6. /\ r \in Records /\ r.key = k /\ InLife(r) /\ r.rev \in Nat
      /\ k \in DOMAIN emitted => emitted[k] <= r.rev
      /\ gui[k].life <= r.life
      /\ gui[k].life = r.life => gui[k].rev <= r.rev
      /\ \A q \in Records : PostOK(q) /\ q.key = k /\ q.life = r.life => q.rev <= r.rev /\ q.rev # r.rev
  <2>1. CASE rec[k] = None
    <3>1. r = NewRec(k, gui[k].life + 1, Created)
      BY <1>1, <1>2, <1>4, <2>1 DEF TypeOK, RecordTypes
    <3>2. gui[k].life + 1 \in Nat \ {0} /\ Created \in States
      BY <1>3, RelayAssumption
    <3>3. r \in Records /\ r.key = k /\ InLife(r) /\ r.life = gui[k].life + 1
      BY <3>1, <3>2, NewRecType
    <3>4. k \notin DOMAIN emitted
      BY <1>3, <2>1 DEF RecOK
    <3>5. \A q \in Records : PostOK(q) /\ q.key = k => q.life # r.life
      BY <1>2, <1>3, <3>3, TypeFacts DEF PostOK
    <3>6. r.rev \in Nat /\ gui[k].life <= r.life /\ gui[k].life # r.life
      BY <1>2, <1>3, <3>3, TypeFacts
    <3> QED
      BY <3>3, <3>4, <3>5, <3>6
  <2>2. CASE rec[k] # None
    <3>1. rec[k].rev < MaxRev /\ r = Changed(rec[k], Created, TRUE)
      BY <1>1, <1>2, <1>4, <2>2 DEF TypeOK, RecordTypes
    <3>2. rec[k] \in Records /\ InLife(rec[k]) /\ rec[k].key = k /\ rec[k].life = gui[k].life
          /\ k \in DOMAIN emitted /\ rec[k].rev \in Nat
      BY <1>2, <1>3, <2>2, TypeFacts DEF RecOK
    <3>3. r \in Records /\ r.key = k /\ InLife(r) /\ r.life = rec[k].life /\ r.rev = rec[k].rev + 1
      BY <3>1, <3>2, ChangedType, RelayAssumption
    <3>4. emitted[k] <= rec[k].rev /\ gui[k].rev <= rec[k].rev
      <4>1. gui[k].rev <= Latest(k).rev /\ Latest(k).rev \in Nat
        BY <1>2, <1>3, LatestAhead
      <4>2. emitted[k] = Latest(k).rev /\ emitted[k] <= rec[k].rev
        BY <1>3, <2>2 DEF EmitOK
      <4> QED
        BY <1>3, <3>2, <4>1, <4>2
    <3>5. emitted[k] <= r.rev /\ gui[k].rev <= r.rev /\ r.rev \in Nat
      BY <1>3, <3>2, <3>3, <3>4
    <3>6. \A q \in Records : PostOK(q) /\ q.key = k /\ q.life = r.life => q.rev <= rec[k].rev
      BY <2>2, <3>3 DEF PostOK
    <3>7. \A q \in Records : PostOK(q) /\ q.key = k /\ q.life = r.life => q.rev <= r.rev /\ q.rev # r.rev
      BY <1>2, <3>2, <3>3, <3>6, TypeFacts
    <3> QED
      BY <1>3, <3>2, <3>3, <3>5, <3>7
  <2> QED
    BY <2>1, <2>2
<1>7. PICK p : p = Drop(pq, k)
  OBVIOUS
<1>8. PICK sh : sh = Drop(shown, k)
  OBVIOUS
<1>9. emitted' = Put(emitted, k, r.rev) /\ PushRec(p, sh, r)
  BY <1>1, <1>4, <1>6, <1>7, <1>8
<1>10. /\ DOMAIN p = DOMAIN pq \ {k} /\ \A x \in DOMAIN p : p[x] = pq[x]
       /\ DOMAIN sh = DOMAIN shown \ {k} /\ \A x \in DOMAIN sh : sh[x] = shown[x]
  BY <1>7, <1>8 DEF Drop
<1>11. /\ Queues(pq') /\ Displays(shown') /\ timer' \in BOOLEAN
       /\ gui' \in [Keys -> Records]
       /\ \A x \in Keys \ {k} : /\ gui'[x] = gui[x]
                                /\ x \in DOMAIN pq' <=> x \in DOMAIN p
                                /\ x \in DOMAIN p => pq'[x] = p[x]
       /\ DOMAIN pq' # {} => timer'
       /\ k \notin DOMAIN pq' /\ gui'[k] = r
  <2>1. Queues(p) /\ Displays(sh) /\ gui \in [Keys -> Records]
    BY <1>2, <1>10 DEF TypeOK, RecordTypes, PacerTypes, Queues, Displays
  <2>2. k \notin DOMAIN p /\ k \notin DOMAIN sh
    BY <1>10
  <2> QED
    BY <1>6, <1>9, <2>1, <2>2, PushEffect
<1>12. /\ DOMAIN emitted' = DOMAIN emitted \cup {k} /\ emitted'[k] = r.rev
       /\ \A x \in DOMAIN emitted \ {k} : emitted'[x] = emitted[x]
  BY <1>9 DEF Put
<1>13. TypeOK'
  <2>1. RecordTypes'
    <3>1. rec' \in [Keys -> Records \cup {None}]
      <4>1. DOMAIN rec' = Keys /\ rec' = [x \in Keys |-> rec'[x]]
        BY <1>1, <1>2 DEF TypeOK, RecordTypes
      <4>2. \A x \in Keys : rec'[x] \in Records \cup {None}
        BY <1>2, <1>4, <1>5, <1>6, TypeFacts
      <4> QED
        BY <4>1, <4>2
    <3> QED
      BY <1>1, <1>2, <1>6, <1>11, <1>12, <3>1 DEF TypeOK, RecordTypes
  <2>2. PacerTypes'
    BY <1>1, <1>2, <1>11 DEF TypeOK, PacerTypes, Queues, Displays
  <2> QED
    BY <2>1, <2>2 DEF TypeOK
<1>14. gui[k].life <= gui'[k].life
  BY <1>6, <1>11
<1>15. ASSUME NEW q \in Records, PostOK(q)
       PROVE  PostOK(q)'
  <2>1. CASE q.key # k
    <3>1. q.key \in Keys /\ rec'[q.key] = rec[q.key]
      BY <1>2, <1>5, <2>1, TypeFacts
    <3>2. gui'[q.key].life >= gui[q.key].life
      BY <1>2, <1>11, <2>1, <3>1, TypeFacts
    <3> QED
      BY <1>2, <1>13, <1>15, <3>1, <3>2, KeptPost
  <2>2. CASE q.key = k
    <3>1. q.life <= gui'[k].life
      BY <1>2, <1>3, <1>6, <1>11, <1>14, <1>15, <2>2, TypeFacts DEF PostOK
    <3>2. q.life = r.life => q.rev <= r.rev /\ q.rev # r.rev
      BY <1>6, <1>15, <2>2
    <3> QED
      BY <1>4, <1>15, <2>2, <3>1, <3>2 DEF PostOK, InLife
  <2> QED
    BY <2>1, <2>2
<1>16. PostInv' /\ \A q : Posted(q) => Posted(q)'
  BY <1>1, <1>2, <1>13, <1>15, KeptPosts
<1>17. KeyInv'
  <2> SUFFICES ASSUME NEW x \in Keys
               PROVE  RecOK(x)' /\ HeldOK(x)' /\ EmitOK(x)' /\ SeenOK(x)'
    BY DEF KeyInv
  <2>1. CASE x = k
    <3>1. Latest(k)' = r
      BY <1>11 DEF Latest
    <3>2. r # None
      BY <1>6, NoneIsNoRecord
    <3>3. RecOK(k)'
      <4>1. InLife(rec[k])'
        BY <1>4, <1>6 DEF InLife
      <4> QED
        BY <1>4, <1>6, <1>11, <1>12, <3>2, <4>1 DEF RecOK
    <3>4. HeldOK(k)'
      BY <1>11 DEF HeldOK
    <3>5. EmitOK(k)'
      BY <1>4, <1>6, <1>12, <3>1 DEF EmitOK
    <3>6. SeenOK(k)'
      BY <1>4, <3>1 DEF SeenOK
    <3> QED
      BY <2>1, <3>3, <3>4, <3>5, <3>6
  <2>2. CASE x # k
    <3>1. Kept(x)
      BY <1>5, <1>10, <1>11, <1>12, <2>2 DEF Kept
    <3>2. RecOK(x) /\ HeldOK(x) /\ EmitOK(x) /\ SeenOK(x)
      BY <1>2 DEF KeyInv
    <3> QED
      BY <1>16, <3>1, <3>2, KeptAll
  <2> QED
    BY <2>1, <2>2
<1>18. TimerInv'
  BY <1>11 DEF TimerInv
<1>19. Forward
  <2> SUFFICES ASSUME NEW x \in Keys
               PROVE  /\ gui'[x].life >= gui[x].life
                      /\ gui'[x].life = gui[x].life => gui'[x].rev >= gui[x].rev
                      /\ gui'[x] # gui[x] => rec'[x] # None
    BY DEF Forward
  <2>1. CASE x = k
    BY <1>2, <1>3, <1>4, <1>6, <1>11, <2>1, TypeFacts
  <2>2. CASE x # k
    BY <1>2, <1>11, <2>2, TypeFacts
  <2> QED
    BY <2>1, <2>2
<1> QED
  BY <1>13, <1>16, <1>17, <1>18, <1>19 DEF Inv

-----------------------------------------------------------------------------
(* The pacer.                                                              *)

\* Where no record moves, every key and every post stays as it is.
LEMMA StillStep ==
  ASSUME TypeOK, KeyInv, PostInv, TypeOK', UNCHANGED <<rec, wr, main, emitted, pq, gui>>
  PROVE  KeyInv' /\ PostInv' /\ Forward
<1>1. \A q \in Records : PostOK(q) => PostOK(q)'
  BY DEF PostOK, InLife
<1>2. PostInv' /\ \A q : Posted(q) => Posted(q)'
  BY <1>1, KeptPosts
<1>3. ASSUME NEW x \in Keys
      PROVE  RecOK(x)' /\ HeldOK(x)' /\ EmitOK(x)' /\ SeenOK(x)'
  <2>1. Kept(x)
    BY DEF Kept
  <2>2. RecOK(x) /\ HeldOK(x) /\ EmitOK(x) /\ SeenOK(x)
    BY DEF KeyInv
  <2> QED
    BY <1>2, <2>1, <2>2, KeptAll
<1>4. Forward
  BY TypeFacts DEF Forward
<1> QED
  BY <1>2, <1>3, <1>4 DEF KeyInv

\* The dwell ends.
LEMMA ElapseStep ==
  ASSUME Inv, NEW k \in Keys, Elapse(k)
  PROVE  Inv' /\ Forward
<1>1. /\ k \in DOMAIN shown /\ shown' = [shown EXCEPT ![k].due = TRUE]
      /\ UNCHANGED <<rec, wr, main, emitted, pq, timer, todo, stopped, gui>>
  BY DEF Elapse
<1>2. TypeOK /\ KeyInv /\ PostInv /\ TimerInv
  BY DEF Inv
<1>3. shown[k] \in Shows
  BY <1>1, <1>2 DEF TypeOK, PacerTypes
<1>4. [shown[k] EXCEPT !.due = TRUE] \in Shows
  BY <1>3 DEF Shows
<1>5. DOMAIN shown' = DOMAIN shown /\ shown'[k] = [shown[k] EXCEPT !.due = TRUE]
      /\ \A x \in DOMAIN shown \ {k} : shown'[x] = shown[x]
  BY <1>1
<1>6. TypeOK'
  <2>1. RecordTypes'
    BY <1>1, <1>2 DEF TypeOK, RecordTypes
  <2>2. PacerTypes'
    BY <1>1, <1>2, <1>4, <1>5 DEF TypeOK, PacerTypes
  <2> QED
    BY <2>1, <2>2 DEF TypeOK
<1>7. KeyInv' /\ PostInv' /\ Forward
  BY <1>1, <1>2, <1>6, StillStep
<1>8. TimerInv'
  BY <1>1, <1>2 DEF TimerInv
<1> QED
  BY <1>6, <1>7, <1>8 DEF Inv

\* A drain that begins has every key that waits before it.
LEMMA BeginStep ==
  ASSUME Inv, Timeout \/ Stop
  PROVE  Inv' /\ Forward
<1>1. /\ todo' = SetToSeq(DOMAIN pq) /\ timer' = FALSE /\ stopped' \in BOOLEAN
      /\ UNCHANGED <<rec, wr, main, emitted, shown, pq, gui>>
  BY DEF Timeout, Stop, Inv, TypeOK, PacerTypes
<1>2. TypeOK /\ KeyInv /\ PostInv /\ TimerInv
  BY DEF Inv
<1>3. DOMAIN pq \in SUBSET Keys
  BY <1>2 DEF TypeOK, PacerTypes
<1>4. todo' \in Seq(Keys) /\ (DOMAIN pq # {} => todo' # << >>)
  BY <1>1, <1>3, DrainKeys
<1>5. TypeOK'
  <2>1. RecordTypes'
    BY <1>1, <1>2 DEF TypeOK, RecordTypes
  <2>2. PacerTypes'
    BY <1>1, <1>2, <1>4 DEF TypeOK, PacerTypes
  <2> QED
    BY <2>1, <2>2 DEF TypeOK
<1>6. KeyInv' /\ PostInv' /\ Forward
  BY <1>1, <1>2, <1>5, StillStep
<1>7. TimerInv'
  BY <1>1, <1>4 DEF TimerInv
<1> QED
  BY <1>5, <1>6, <1>7 DEF Inv

\* _drain gives the application what it has held back of one job, the oldest
\* first; the newest stays the newest.
LEMMA DrainStep ==
  ASSUME Inv, DrainOne
  PROVE  Inv' /\ Forward
<1>0. PICK k : k = Head(todo)
  OBVIOUS
<1>1. TypeOK /\ KeyInv /\ PostInv /\ TimerInv
  BY DEF Inv
<1>2. UNCHANGED <<rec, wr, main, emitted, stopped>>
  BY DEF DrainOne
<1>3. /\ k \in Keys /\ todo' \in Seq(Keys)
      /\ Queues(pq') /\ Displays(shown') /\ timer' \in BOOLEAN
      /\ gui' \in [Keys -> Records]
      /\ \A x \in Keys \ {k} : /\ gui'[x] = gui[x]
                               /\ x \in DOMAIN pq' <=> x \in DOMAIN pq
                               /\ x \in DOMAIN pq => pq'[x] = pq[x]
      /\ todo' = << >> => (DOMAIN pq' # {} => timer')
      /\ \/ gui'[k] = gui[k] /\ (k \in DOMAIN pq' <=> k \in DOMAIN pq) /\ pq'[k] = pq[k]
         \/ /\ k \in DOMAIN pq /\ k \notin DOMAIN pq' /\ gui'[k] = pq[k][Len(pq[k])]
         \/ /\ k \in DOMAIN pq /\ k \in DOMAIN pq' /\ gui'[k] = pq[k][1]
            /\ pq'[k] = Tail(pq[k]) /\ Len(pq[k]) > 1
  BY <1>0, <1>1, DrainEffect
<1>4. TypeOK'
  <2>1. RecordTypes'
    BY <1>1, <1>2, <1>3 DEF TypeOK, RecordTypes
  <2>2. PacerTypes'
    BY <1>1, <1>2, <1>3 DEF TypeOK, PacerTypes, Queues, Displays
  <2> QED
    BY <2>1, <2>2 DEF TypeOK
<1>5. RecOK(k) /\ HeldOK(k) /\ EmitOK(k) /\ SeenOK(k)
  BY <1>1, <1>3 DEF KeyInv
<1>6. \A x \in Keys \ {k} : Kept(x)
  BY <1>2, <1>3 DEF Kept
<1>7. \/ Kept(k)
      \/ /\ k \in DOMAIN pq
         /\ RecOK(k)' /\ HeldOK(k)' /\ Latest(k)' = Latest(k)
         /\ gui'[k].life = gui[k].life /\ gui'[k].rev >= gui[k].rev
  <2>1. CASE gui'[k] = gui[k] /\ (k \in DOMAIN pq' <=> k \in DOMAIN pq) /\ pq'[k] = pq[k]
    BY <1>2, <2>1 DEF Kept
  <2>2. CASE k \in DOMAIN pq /\ k \notin DOMAIN pq' /\ gui'[k] = pq[k][Len(pq[k])]
    <3>1. Latest(k)' = Latest(k) /\ gui'[k] = Latest(k)
      BY <2>2 DEF Latest, Last
    <3>2. gui'[k].key = k /\ gui'[k].life = gui[k].life /\ gui[k].rev <= gui'[k].rev
          /\ gui[k].rev \in Nat /\ gui'[k].rev \in Nat
      BY <1>1, <1>3, <1>5, <3>1, LatestAhead, TypeFacts
    <3>3. HeldOK(k)'
      BY <2>2 DEF HeldOK
    <3>4. RecOK(k)'
      BY <1>2, <1>5, <2>2, <3>2 DEF RecOK, InLife
    <3> QED
      BY <2>2, <3>1, <3>2, <3>3, <3>4
  <2>3. CASE /\ k \in DOMAIN pq /\ k \in DOMAIN pq' /\ gui'[k] = pq[k][1]
             /\ pq'[k] = Tail(pq[k]) /\ Len(pq[k]) > 1
    <3>1. pq[k] \in Seq(Records) /\ Len(pq[k]) \in Nat
      BY <1>1, <2>3 DEF TypeOK, PacerTypes
    <3>2. /\ Len(pq'[k]) = Len(pq[k]) - 1
          /\ \A i \in 1..(Len(pq[k]) - 1) : pq'[k][i] = pq[k][i + 1]
      BY <2>3, <3>1, TailEffect
    <3>3. Latest(k)' = Latest(k)
      <4>1. Len(pq'[k]) \in 1..(Len(pq[k]) - 1) /\ Len(pq'[k]) + 1 = Len(pq[k])
        BY <2>3, <3>1, <3>2
      <4>2. pq'[k][Len(pq'[k])] = pq[k][Len(pq[k])]
        BY <3>2, <4>1
      <4> QED
        BY <2>3, <4>2 DEF Latest, Last
    <3>4. 1 \in 1..Len(pq[k]) /\ pq[k][1] \in Records
      BY <2>3, <3>1
    <3>5. gui'[k].key = k /\ gui'[k].life = gui[k].life /\ gui[k].rev <= gui'[k].rev
          /\ \A j \in 1..Len(pq[k]) : gui'[k].rev <= pq[k][j].rev
      BY <1>5, <2>3, <3>4 DEF HeldOK
    <3>6. RecOK(k)'
      BY <1>2, <1>5, <2>3, <3>5 DEF RecOK, InLife
    <3>7. HeldOK(k)'
      <4> SUFFICES ASSUME NEW i \in 1..Len(pq'[k])
                   PROVE  /\ pq'[k][i].key = k /\ pq'[k][i].life = gui'[k].life
                          /\ gui'[k].rev <= pq'[k][i].rev
                          /\ \A j \in i..Len(pq'[k]) : pq'[k][i].rev <= pq'[k][j].rev
        BY DEF HeldOK
      <4>1. i \in 1..(Len(pq[k]) - 1) /\ i + 1 \in 1..Len(pq[k]) /\ pq'[k][i] = pq[k][i + 1]
        BY <3>1, <3>2
      <4>2. /\ pq[k][i + 1].key = k /\ pq[k][i + 1].life = gui[k].life
            /\ gui'[k].rev <= pq[k][i + 1].rev
            /\ \A j \in (i + 1)..Len(pq[k]) : pq[k][i + 1].rev <= pq[k][j].rev
        BY <1>5, <2>3, <3>5, <4>1 DEF HeldOK
      <4>3. ASSUME NEW j \in i..Len(pq'[k])
            PROVE  pq'[k][i].rev <= pq'[k][j].rev
        <5>1. j \in 1..(Len(pq[k]) - 1) /\ j + 1 \in (i + 1)..Len(pq[k])
          BY <3>1, <3>2, <4>1
        <5>2. pq'[k][j] = pq[k][j + 1]
          BY <3>2, <5>1
        <5> QED
          BY <4>1, <4>2, <5>1, <5>2
      <4> QED
        BY <3>5, <4>1, <4>2, <4>3
    <3>8. gui'[k].rev >= gui[k].rev
      BY <1>1, <1>3, <3>5, TypeFacts
    <3> QED
      BY <2>3, <3>3, <3>5, <3>6, <3>7, <3>8
  <2> QED
    BY <1>3, <2>1, <2>2, <2>3
<1>8. \A x \in Keys : gui'[x].life = gui[x].life /\ rec'[x] = rec[x]
  BY <1>2, <1>6, <1>7 DEF Kept
<1>9. \A q \in Records : PostOK(q) => PostOK(q)'
  BY <1>1, <1>2, <1>8, TypeFacts DEF PostOK, InLife
<1>10. PostInv' /\ \A q : Posted(q) => Posted(q)'
  BY <1>1, <1>2, <1>4, <1>9, KeptPosts
<1>11. KeyInv'
  <2> SUFFICES ASSUME NEW x \in Keys
               PROVE  RecOK(x)' /\ HeldOK(x)' /\ EmitOK(x)' /\ SeenOK(x)'
    BY DEF KeyInv
  <2>1. RecOK(x) /\ HeldOK(x) /\ EmitOK(x) /\ SeenOK(x)
    BY <1>1 DEF KeyInv
  <2>2. CASE Kept(x)
    BY <1>10, <2>1, <2>2, KeptAll
  <2>3. CASE ~Kept(x)
    <3>1. x = k /\ RecOK(x)' /\ HeldOK(x)' /\ Latest(x)' = Latest(x)
      BY <1>6, <1>7, <2>3
    <3>2. EmitOK(x)'
      BY <1>2, <2>1, <3>1 DEF EmitOK
    <3>3. SeenOK(x)'
      BY <1>2, <2>1, <3>1 DEF SeenOK, Posted
    <3> QED
      BY <3>1, <3>2, <3>3
  <2> QED
    BY <2>2, <2>3
<1>12. TimerInv'
  BY <1>3 DEF TimerInv
<1>13. Forward
  <2> SUFFICES ASSUME NEW x \in Keys
               PROVE  /\ gui'[x].life >= gui[x].life
                      /\ gui'[x].life = gui[x].life => gui'[x].rev >= gui[x].rev
                      /\ gui'[x] # gui[x] => rec'[x] # None
    BY DEF Forward
  <2>1. gui'[x].life >= gui[x].life
    BY <1>1, <1>8, TypeFacts
  <2>2. CASE Kept(x)
    BY <1>1, <2>1, <2>2, TypeFacts DEF Kept
  <2>3. CASE ~Kept(x)
    <3>1. x = k /\ k \in DOMAIN pq /\ gui'[x].rev >= gui[x].rev
      BY <1>6, <1>7, <2>3
    <3>2. rec'[x] # None
      BY <1>2, <1>5, <3>1 DEF RecOK
    <3> QED
      BY <2>1, <3>1, <3>2
  <2> QED
    BY <2>2, <2>3
<1> QED
  BY <1>4, <1>10, <1>11, <1>12, <1>13 DEF Inv

-----------------------------------------------------------------------------
(* The theorems.                                                           *)

\* Init establishes the invariant.
LEMMA InvInit == Init => Inv
<1> SUFFICES ASSUME Init PROVE Inv
  OBVIOUS
<1>1. /\ wr = [w \in Writers |-> None] /\ main = << >>
      /\ emitted = [k \in Keys |-> 0]
      /\ shown = [k \in Keys |-> [st |-> rec[k].st, due |-> TRUE]]
      /\ pq = Empty /\ timer = FALSE /\ todo = << >> /\ stopped \in BOOLEAN
      /\ gui = rec
  BY DEF Init
<1>2. PICK s \in States : rec = [k \in Keys |-> NewRec(k, 1, s)]
  BY DEF Init
<1>3. \A k \in Keys : /\ rec[k] \in Records /\ rec[k].key = k /\ rec[k].life = 1
                      /\ rec[k].rev = 0 /\ InLife(rec[k]) /\ rec[k].st \in States
                      /\ rec[k] # None
  <2> SUFFICES ASSUME NEW k \in Keys
               PROVE  /\ rec[k] \in Records /\ rec[k].key = k /\ rec[k].life = 1
                      /\ rec[k].rev = 0 /\ InLife(rec[k]) /\ rec[k].st \in States
                      /\ rec[k] # None
    OBVIOUS
  <2>1. 1 \in Nat \ {0} /\ rec[k] = NewRec(k, 1, s)
    BY <1>2
  <2>2. /\ rec[k] \in Records /\ rec[k].key = k /\ rec[k].life = 1
        /\ rec[k].rev = 0 /\ InLife(rec[k])
    BY <2>1, NewRecType
  <2> QED
    BY <2>2, NoneIsNoRecord DEF Records
<1>4. DOMAIN pq = {} /\ main \in Seq(Records) /\ Len(main) = 0 /\ todo \in Seq(Keys)
  BY <1>1 DEF Empty
<1>5. TypeOK
  <2>1. RecordTypes
    BY <1>1, <1>2, <1>3, <1>4 DEF RecordTypes
  <2>2. \A k \in DOMAIN shown : shown[k] \in Shows
    BY <1>1, <1>3 DEF Shows
  <2>3. PacerTypes
    BY <1>1, <1>4, <2>2 DEF PacerTypes
  <2> QED
    BY <2>1, <2>3 DEF TypeOK
<1>6. KeyInv
  <2> SUFFICES ASSUME NEW k \in Keys
               PROVE  RecOK(k) /\ HeldOK(k) /\ EmitOK(k) /\ SeenOK(k)
    BY DEF KeyInv
  <2>1. Latest(k) = rec[k]
    BY <1>1, <1>4 DEF Latest
  <2>2. RecOK(k) /\ HeldOK(k) /\ SeenOK(k)
    BY <1>1, <1>3, <1>4, <2>1 DEF RecOK, HeldOK, SeenOK
  <2>3. EmitOK(k)
    BY <1>1, <1>3, <2>1 DEF EmitOK
  <2> QED
    BY <2>2, <2>3
<1>7. PostInv
  BY <1>1, <1>4 DEF PostInv
<1>8. TimerInv
  BY <1>4 DEF TimerInv
<1> QED
  BY <1>5, <1>6, <1>7, <1>8 DEF Inv

\* Every step keeps the invariant and goes forward.
LEMMA InvStep ==
  ASSUME Inv, Next
  PROVE  Inv' /\ Forward
<1>1. ASSUME NEW w \in Writers, Post(w)
      PROVE  Inv' /\ Forward
  BY <1>1, PostStep
<1>2. ASSUME NEW w \in Writers, NEW k \in Keys, NEW s \in States, NEW reset \in BOOLEAN,
             Write(w, k, s, reset)
      PROVE  Inv' /\ Forward
  BY <1>2, WriteStep
<1>3. CASE EmitJobs
  BY <1>3, EmitStep
<1>4. ASSUME NEW k \in Keys, Elapse(k)
      PROVE  Inv' /\ Forward
  BY <1>4, ElapseStep
<1>5. CASE Timeout \/ Stop
  BY <1>5, BeginStep
<1>6. CASE DrainOne
  BY <1>6, DrainStep
<1>7. ASSUME NEW k \in Editable, EditJob(k)
      PROVE  Inv' /\ Forward
  BY <1>7, EditStep, RelayAssumption
<1>8. ASSUME NEW k \in Editable, RemoveJob(k)
      PROVE  Inv' /\ Forward
  BY <1>8, RemoveStep, RelayAssumption
<1> QED
  BY <1>1, <1>2, <1>3, <1>4, <1>5, <1>6, <1>7, <1>8 DEF Next

\* A step that changes nothing keeps the invariant.
LEMMA InvStutter ==
  ASSUME Inv, UNCHANGED vars
  PROVE  Inv' /\ Forward
<1>1. TypeOK /\ KeyInv /\ PostInv /\ TimerInv
  BY DEF Inv
<1>2. UNCHANGED <<rec, wr, main, emitted, shown, pq, timer, todo, stopped, gui>>
  BY DEF vars, pacerVars
<1>3. TypeOK'
  BY <1>1, <1>2 DEF TypeOK, RecordTypes, PacerTypes
<1>4. KeyInv' /\ PostInv' /\ Forward
  BY <1>1, <1>2, <1>3, StillStep
<1>5. TimerInv'
  BY <1>1, <1>2 DEF TimerInv
<1> QED
  BY <1>3, <1>4, <1>5 DEF Inv

\* The inductive invariant holds in every state of every behaviour: what the
\* slots of the manager and the pacer keep agrees with the records in the
\* store, whatever order the posts arrive in.
THEOREM Invariant == Spec => []Inv
<1>1. Inv /\ [Next]_vars => Inv'
  BY InvStep, InvStutter
<1> QED
  BY InvInit, <1>1, PTL DEF Spec

\* Type correctness.
THEOREM TypeCorrect == Spec => []TypeOK
<1>1. Inv => TypeOK
  BY DEF Inv
<1> QED
  BY Invariant, <1>1, PTL

\* Converges (_emit_jobs, StatePacer.push and _drain): once no post is
\* outstanding the application has, or will be given last, what the store has,
\* and what the pacer holds back has a timer.
THEOREM ConvergesHolds == Spec => []Converges
<1>1. Inv => Converges
  <2> SUFFICES ASSUME Inv PROVE Converges
    OBVIOUS
  <2>1. ASSUME main = << >>, \A w \in Writers : wr[w] = None, NEW k \in Keys, rec[k] # None
        PROVE  Latest(k) = rec[k]
    <3>1. Len(main) = 0
      BY <2>1
    <3>2. ~Posted(rec[k])
      BY <2>1, <3>1 DEF Posted
    <3> QED
      BY <2>1, <3>2 DEF Inv, KeyInv, SeenOK
  <2> QED
    BY <2>1 DEF Converges, Inv, TimerInv
<1> QED
  BY Invariant, <1>1, PTL

\* InOrder (_emit_jobs): while a job exists the application is never given an
\* older revision after a younger one.
THEOREM InOrderHolds == Spec => InOrder
<1>1. Inv /\ [Next]_vars =>
        [\A k \in Keys : gui'[k].life = gui[k].life => gui'[k].rev >= gui[k].rev]_vars
  BY InvStep DEF Forward
<1> QED
  BY Invariant, <1>1, PTL DEF Spec, InOrder

\* NoGhostRow (_current_records, StatePacer.forget): the application is given a
\* record only of a job that is in the store, and of its present life.
THEOREM NoGhostRowHolds == Spec => NoGhostRow
<1>1. Inv /\ [Next]_vars =>
        [\A k \in Keys : gui'[k] # gui[k] => rec'[k] # None /\ rec'[k].life = gui'[k].life]_vars
  <2> SUFFICES ASSUME Inv, Next, NEW k \in Keys, gui'[k] # gui[k]
               PROVE  rec'[k] # None /\ rec'[k].life = gui'[k].life
    OBVIOUS
  <2>1. Inv' /\ rec'[k] # None
    BY InvStep DEF Forward
  <2>2. RecOK(k)'
    BY <2>1 DEF Inv, KeyInv
  <2> QED
    BY <2>1, <2>2 DEF RecOK
<1> QED
  BY Invariant, <1>1, PTL DEF Spec, NoGhostRow
=============================================================================
