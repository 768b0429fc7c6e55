--------------------------- MODULE Querier_proofs ---------------------------
(***************************************************************************)
(* Proofs about the status query, for any finite job arrays, any queriers  *)
(* and readers, and any number of executions, chunks and formats.          *)
(***************************************************************************)
EXTENDS Querier, FiniteSetTheorems, TLAPS

-----------------------------------------------------------------------------
(* Types.                                                                  *)

States     == {"PEND", "RUN", "DONE", "EXIT", "LOST", "GONE"}
RecordType == [gen : Nat, st : States, start : BOOLEAN, finish : BOOLEAN,
               young : BOOLEAN, killed : BOOLEAN]
RowType    == [st : OnLsf \cup Ended, start : BOOLEAN, finish : BOOLEAN]
CountType  == [gen : Nat, n : Nat]
\* Dictionaries of some keys.
Dicts(T)   == UNION {[S -> T] : S \in SUBSET Keys}
ThreadType == [pc : {"idle", "wait", "ask", "run", "pop", "judge", "update", "lose", "exit"},
               entry : Nat, snap : Dicts(RecordType), rows : Dicts(RowType),
               failed : SUBSET Keys, asked : SUBSET Keys, prev : Dicts(CountType),
               used : 1..Formats, lost : SUBSET Keys]

StoreType ==
  /\ rec \in [Keys -> RecordType]
  /\ forgets \subseteq SUBSET Keys
  /\ gens \in Nat
  /\ miss \in [Keys -> Nat]

LsfType ==
  /\ lsf = [k \in Keys |-> lsf[k]]
  /\ \A k \in Keys : lsf[k] \in [Elements[k] -> OnLsf \cup Ended]
  /\ supported \in 1..Formats
  /\ fmt \in 1..Formats

QueryType ==
  /\ streaks \in Dicts(CountType)
  /\ table \in Nat
  /\ th \in [Threads -> ThreadType]

TypeOK == StoreType /\ LsfType /\ QueryType

-----------------------------------------------------------------------------
(* The inductive invariant.                                                *)

\* Who is in a query holds the entry in the table, and only one has the turn;
\* readers have none and never judge.
TurnInv ==
  /\ \A t \in Queriers :
       /\ th[t].pc # "idle" <=> th[t].entry # None
       /\ th[t].entry # None => th[t].entry = table
  /\ \A t, u \in Queriers : Busy(t) /\ Busy(u) => t = u
  /\ \A t \in Readers : th[t].pc \in {"idle", "ask", "run"}

\* No execution that is known anywhere is younger than the last one started.
GenInv ==
  /\ gens > 0
  /\ \A k \in Keys : rec[k].gen <= gens /\ (rec[k].gen = 0 <=> rec[k].st = "GONE")
  /\ \A k \in DOMAIN streaks : streaks[k].gen <= gens
  /\ \A t \in Queriers :
       /\ \A k \in DOMAIN th[t].prev : th[t].prev[k].gen <= gens
       /\ \A k \in DOMAIN th[t].snap : th[t].snap[k].gen \in 1..gens

AllEnded(k) == \A e \in Elements[k] : lsf[k][e] \in Ended

\* What the records say is so.
RecInv ==
  \A k \in Keys :
    /\ rec[k].killed => rec[k].st = "EXIT"
    /\ rec[k].finish => rec[k].st \in Ended
    /\ rec[k].st \in Ended /\ ~rec[k].killed => AllEnded(k)

Reading == {"ask", "run", "pop", "judge"}

\* The snapshot of a query is of living jobs, and a record that is unchanged has
\* the fields it had.
SnapOK(t) ==
  \A k \in DOMAIN th[t].snap :
    /\ th[t].snap[k].st \in OnLsf /\ ~th[t].snap[k].killed /\ ~th[t].snap[k].finish
    /\ th[t].pc \in Reading \cup {"update"} /\ Unchanged(rec[k], th[t].snap[k]) =>
         rec[k].start = th[t].snap[k].start

\* A row that says that the job has ended is right as long as the execution is
\* the one that was asked about.
RowsOK(t) ==
  \A k \in DOMAIN th[t].rows :
    /\ k \in DOMAIN th[t].snap
    /\ th[t].rows[k].finish => th[t].rows[k].st \in Ended
    /\ rec[k].gen = th[t].snap[k].gen /\ th[t].rows[k].st \in Ended => AllEnded(k)

\* Every job of the snapshot was either asked about or cannot be judged.
AskedOK(t) ==
  /\ DOMAIN th[t].rows \subseteq th[t].asked
  /\ th[t].asked \subseteq DOMAIN th[t].snap
  /\ \A k \in DOMAIN th[t].snap : k \in th[t].asked <=> k \notin th[t].failed

\* An execution the query does not know has not been missed yet.
NewOK(t) ==
  \A k \in Keys :
    rec[k].st \in OnLsf /\ (k \in DOMAIN th[t].snap => th[t].snap[k].gen # rec[k].gen) =>
      miss[k] = 0

\* What is about to become LOST has been missed often enough.
LostOK(t) ==
  \A k \in th[t].lost :
    /\ k \in DOMAIN th[t].snap
    /\ rec[k].gen = th[t].snap[k].gen /\ rec[k].st \in OnLsf => miss[k] >= LostAfter

QueryInv ==
  \A t \in Queriers :
    /\ Busy(t) => SnapOK(t)
    /\ th[t].pc \in {"pop", "judge", "update"} => RowsOK(t)
    /\ th[t].pc \in {"pop", "judge"} => AskedOK(t)
    /\ th[t].pc \in Reading => NewOK(t)
    /\ th[t].pc \in {"update", "lose"} => LostOK(t)

\* The counts s are those of the living jobs.
Counted(s) ==
  \A k \in Keys : rec[k].st \in OnLsf =>
    miss[k] = IF k \in DOMAIN s /\ s[k].gen = rec[k].gen THEN s[k].n ELSE 0

\* The counts are in the dictionary, or with the thread that has taken them out.
StreakInv ==
  /\ \A k \in DOMAIN streaks : streaks[k].gen = rec[k].gen \/ {k} \in forgets
  /\ (\A t \in Queriers : th[t].pc # "judge") => Counted(streaks)
  /\ \A t \in Queriers : th[t].pc = "judge" => Counted(th[t].prev)

Inv == TypeOK /\ TurnInv /\ GenInv /\ RecInv /\ QueryInv /\ StreakInv /\ FormatTight

-----------------------------------------------------------------------------
(* Type correctness, with what every query step does to its thread.        *)

\* A function from some keys is a dictionary.
LEMMA DictFrom ==
  ASSUME NEW T, NEW S \in SUBSET Keys, NEW f \in [S -> T]
  PROVE  f \in Dicts(T)
BY DEF Dicts

\* Its domain is a set of keys and its values are typed.
LEMMA DictTo ==
  ASSUME NEW T, NEW f \in Dicts(T)
  PROVE  /\ DOMAIN f \subseteq Keys
         /\ f \in [DOMAIN f -> T]
BY DEF Dicts

\* The dictionary without entries, and the thread that does nothing.
LEMMA InitialThread ==
  /\ \A T : Empty \in Dicts(T)
  /\ DOMAIN Empty = {}
  /\ Idle \in ThreadType
<1>1. DOMAIN Empty = {} /\ \A T : Empty \in [{} -> T]
  BY DEF Empty
<1>2. \A T : Empty \in Dicts(T)
  BY <1>1, DictFrom
<1> QED
  BY <1>1, <1>2, QuerierAssumption DEF Idle, ThreadType, None

\* Counts are of keys, and are numbers.
LEMMA CountsTyped ==
  ASSUME TypeOK
  PROVE  /\ \A k \in DOMAIN streaks : k \in Keys /\ streaks[k].gen \in Nat /\ streaks[k].n \in Nat
         /\ \A t \in Threads : \A k \in DOMAIN th[t].prev :
              k \in Keys /\ th[t].prev[k].gen \in Nat /\ th[t].prev[k].n \in Nat
<1>1. ASSUME NEW f \in Dicts(CountType)
      PROVE  \A k \in DOMAIN f : k \in Keys /\ f[k].gen \in Nat /\ f[k].n \in Nat
  <2>1. DOMAIN f \subseteq Keys /\ f \in [DOMAIN f -> CountType]
    BY DictTo
  <2> QED
    BY <2>1 DEF CountType
<1>2. streaks \in Dicts(CountType) /\ \A t \in Threads : th[t].prev \in Dicts(CountType)
  BY DEF TypeOK, QueryType, ThreadType
<1> QED
  BY <1>1, <1>2

\* A thread's record changes alone.
LEMMA SetThread ==
  ASSUME TypeOK, NEW t \in Threads, NEW r \in ThreadType, th' = [th EXCEPT ![t] = r]
  PROVE  /\ th' \in [Threads -> ThreadType]
         /\ th'[t] = r
         /\ \A u \in Threads \ {t} : th'[u] = th[u]
BY DEF TypeOK, QueryType

\* New records and removed ones are typed.
LEMMA NewRecType ==
  /\ \A g \in Nat, young \in BOOLEAN :
       /\ NewRec(g, young) \in RecordType
       /\ NewRec(g, young).gen = g /\ NewRec(g, young).st = "PEND"
       /\ NewRec(g, young).killed = FALSE /\ NewRec(g, young).finish = FALSE
  /\ NoRec \in RecordType /\ NoRec.gen = 0 /\ NoRec.st = "GONE"
  /\ NoRec.killed = FALSE /\ NoRec.finish = FALSE
BY DEF NewRec, NoRec, RecordType, States

\* Lock entries are numbers, and not None.
LEMMA EntryType == \A e \in Entries : e \in Nat /\ e # None
BY DEF Entries, None

\* The steps of the turn: no record and no count changes.
LEMMA EnterEffect ==
  ASSUME TypeOK, NEW t \in Threads, Enter(t)
  PROVE  /\ th' \in [Threads -> ThreadType]
         /\ t \in Queriers /\ th[t].pc = "idle" /\ th'[t].pc = "wait"
         /\ th'[t].entry = table' /\ th'[t].entry # None
         /\ th'[t].snap = th[t].snap /\ th'[t].prev = th[t].prev
         /\ table # None => table' = table
         /\ table = None => \A u \in Queriers : th[u].entry # th'[t].entry
         /\ \A u \in Threads \ {t} : th'[u] = th[u]
         /\ table' \in Nat
<1>1. PICK e \in Entries :
        /\ IF table # None THEN e = table ELSE \A u \in Queriers : th[u].entry # e
        /\ table' = e
        /\ th' = [th EXCEPT ![t] = [@ EXCEPT !.pc = "wait", !.entry = e]]
  BY DEF Enter
<1>2. e \in Nat /\ e # None
  BY EntryType
<1> DEFINE r == [th[t] EXCEPT !.pc = "wait", !.entry = e]
<1>3. r \in ThreadType /\ r.pc = "wait" /\ r.entry = e
      /\ r.snap = th[t].snap /\ r.prev = th[t].prev
  BY <1>2 DEF TypeOK, QueryType, ThreadType
<1>4. th' = [th EXCEPT ![t] = r]
  BY <1>1
<1> HIDE DEF r
<1>5. th' \in [Threads -> ThreadType] /\ th'[t] = r /\ \A u \in Threads \ {t} : th'[u] = th[u]
  BY <1>3, <1>4, SetThread
<1>6. t \in Queriers /\ th[t].pc = "idle"
  BY DEF Enter
<1> QED
  BY <1>1, <1>2, <1>3, <1>5, <1>6

\* The snapshot is of the living jobs, and is taken by the one who has the turn.
LEMMA SnapshotEffect ==
  ASSUME TypeOK, NEW t \in Threads, Snapshot(t)
  PROVE  /\ th' \in [Threads -> ThreadType]
         /\ th[t].pc = "wait" /\ th'[t].pc \in {"ask", "exit"}
         /\ \A u \in Queriers : Busy(u) => th[u].entry # th[t].entry
         /\ th'[t].entry = th[t].entry /\ th'[t].prev = th[t].prev
         /\ DOMAIN th'[t].snap = {k \in Keys : rec[k].st \in OnLsf}
         /\ \A k \in DOMAIN th'[t].snap : th'[t].snap[k] = rec[k]
         /\ \A u \in Threads \ {t} : th'[u] = th[u]
<1> DEFINE targets == {k \in Keys : rec[k].st \in OnLsf}
           snap == [k \in targets |-> rec[k]]
           r == [th[t] EXCEPT !.pc = IF targets = {} THEN "exit" ELSE "ask", !.snap = snap]
<1>1. snap \in Dicts(RecordType)
  <2>1. targets \in SUBSET Keys /\ snap \in [targets -> RecordType]
    BY DEF TypeOK, StoreType
  <2> HIDE DEF targets, snap
  <2> QED
    BY <2>1, DictFrom
<1>2. DOMAIN snap = targets /\ \A k \in targets : snap[k] = rec[k]
  OBVIOUS
<1>3. th' = [th EXCEPT ![t] = r]
  BY DEF Snapshot
<1> HIDE DEF targets, snap
<1>4. r \in ThreadType /\ r.pc \in {"ask", "exit"} /\ r.entry = th[t].entry
      /\ r.prev = th[t].prev /\ r.snap = snap
  BY <1>1 DEF TypeOK, QueryType, ThreadType
<1> HIDE DEF r
<1>5. th' \in [Threads -> ThreadType] /\ th'[t] = r /\ \A u \in Threads \ {t} : th'[u] = th[u]
  BY <1>3, <1>4, SetThread
<1>6. th[t].pc = "wait" /\ \A u \in Queriers : Busy(u) => th[u].entry # th[t].entry
  BY DEF Snapshot
<1> QED
  BY <1>2, <1>4, <1>5, <1>6 DEF targets

\* The last user takes the entry out of the table.
LEMMA ExitEffect ==
  ASSUME TypeOK, NEW t \in Threads, Exit(t)
  PROVE  /\ th' \in [Threads -> ThreadType]
         /\ th[t].pc = "exit" /\ th'[t] = Idle
         /\ \A u \in Threads \ {t} : th'[u] = th[u]
         /\ table' = IF \A u \in Queriers \ {t} : th[u].entry # th[t].entry
                     THEN None ELSE table
         /\ table' \in Nat
<1>1. th' \in [Threads -> ThreadType] /\ th'[t] = Idle /\ \A u \in Threads \ {t} : th'[u] = th[u]
  BY InitialThread, SetThread DEF Exit
<1> QED
  BY <1>1 DEF Exit, TypeOK, QueryType, None

\* The steps between the snapshot and the answer.
LEMMA AskEffect ==
  ASSUME TypeOK, NEW t \in Threads, ReadIds(t) \/ ReadFormat(t) \/ Downgrade(t)
  PROVE  /\ th' \in [Threads -> ThreadType]
         /\ ReadIds(t) => t \in Readers /\ th[t].pc = "idle"
         /\ ~ReadIds(t) => th[t].pc \in {"ask", "run"}
         /\ th'[t].pc \in {"ask", "run"}
         /\ th'[t].entry = th[t].entry /\ th'[t].prev = th[t].prev
         /\ th'[t].snap = th[t].snap
         /\ \A u \in Threads \ {t} : th'[u] = th[u]
<1>1. ASSUME NEW r \in ThreadType, th' = [th EXCEPT ![t] = r], r.pc \in {"ask", "run"},
             r.entry = th[t].entry, r.prev = th[t].prev, r.snap = th[t].snap
      PROVE  /\ th' \in [Threads -> ThreadType]
             /\ th'[t].pc \in {"ask", "run"}
             /\ th'[t].entry = th[t].entry /\ th'[t].prev = th[t].prev
             /\ th'[t].snap = th[t].snap
             /\ \A u \in Threads \ {t} : th'[u] = th[u]
  BY <1>1, SetThread
<1>2. th[t] \in ThreadType /\ fmt \in 1..Formats
  BY DEF TypeOK, QueryType, LsfType
<1>3. CASE ReadFormat(t)
  <2> DEFINE r == [th[t] EXCEPT !.pc = "run", !.used = fmt]
  <2>1. th' = [th EXCEPT ![t] = r] /\ th[t].pc = "ask"
    BY <1>3 DEF ReadFormat
  <2>2. /\ r \in ThreadType /\ r.pc \in {"ask", "run"}
        /\ r.entry = th[t].entry /\ r.prev = th[t].prev /\ r.snap = th[t].snap
    BY <1>2 DEF ThreadType
  <2> HIDE DEF r
  <2>3. ~ReadIds(t)
    BY <2>1 DEF ReadIds
  <2> QED
    BY <1>1, <2>1, <2>2, <2>3
<1>4. CASE ReadIds(t) \/ Downgrade(t)
  <2> DEFINE r == [th[t] EXCEPT !.pc = "ask"]
  <2>1. th' = [th EXCEPT ![t] = r]
    BY <1>4 DEF ReadIds, Downgrade
  <2>2. /\ r \in ThreadType /\ r.pc \in {"ask", "run"}
        /\ r.entry = th[t].entry /\ r.prev = th[t].prev /\ r.snap = th[t].snap
    BY <1>2 DEF ThreadType
  <2> HIDE DEF r
  <2>3. /\ ReadIds(t) => t \in Readers /\ th[t].pc = "idle"
        /\ ~ReadIds(t) => th[t].pc \in {"ask", "run"}
    BY <1>4 DEF ReadIds, Downgrade
  <2> QED
    BY <1>1, <2>1, <2>2, <2>3
<1> QED
  BY <1>3, <1>4

-----------------------------------------------------------------------------
(* The answer of LSF.                                                      *)

\* chunk_args puts every id into one chunk, and none into two.
LEMMA ChunksPartition ==
  ASSUME NEW ids
  PROVE  /\ \A k \in ids : /\ ChunkOf(ids, k) \in DOMAIN ChunkArgs(ids)
                           /\ k \in ChunkArgs(ids)[ChunkOf(ids, k)]
         /\ \A i \in DOMAIN ChunkArgs(ids) : \A k \in ChunkArgs(ids)[i] :
              k \in ids /\ i = ChunkOf(ids, k)
BY DEF ChunkArgs

\* Whatever chunks fail and whenever the loop gives up, an id is either asked
\* about with an answer or reported as failed.
LEMMA AskedOrFailed ==
  ASSUME NEW ids, NEW ok
  PROVE  /\ AskedIds(ChunkArgs(ids), ok) \subseteq ids
         /\ FailedIds(ChunkArgs(ids), ok) \subseteq ids
         /\ \A k \in ids :
              k \in AskedIds(ChunkArgs(ids), ok) <=> k \notin FailedIds(ChunkArgs(ids), ok)
<1> DEFINE chunks == ChunkArgs(ids)
           asked == AskedIds(chunks, ok)
           Lost(x) == ~ok[x] \/ GivenUp(ok, x)
<1>1. /\ \A k \in ids : ChunkOf(ids, k) \in DOMAIN chunks /\ k \in chunks[ChunkOf(ids, k)]
      /\ \A i \in DOMAIN chunks : \A k \in chunks[i] : k \in ids /\ i = ChunkOf(ids, k)
  BY ChunksPartition
<1>2. asked = UNION {chunks[i] : i \in {x \in DOMAIN chunks : ~Lost(x)}}
  BY DEF AskedIds
<1>3. FailedIds(chunks, ok) = UNION {chunks[i] : i \in {x \in DOMAIN chunks : Lost(x)}}
  BY DEF FailedIds
<1> HIDE DEF chunks, asked, Lost
<1>4. asked \subseteq ids /\ FailedIds(chunks, ok) \subseteq ids
  BY <1>1, <1>2, <1>3
<1>5. ASSUME NEW k \in ids PROVE k \in asked <=> k \notin FailedIds(chunks, ok)
  <2>1. k \in asked <=> ~Lost(ChunkOf(ids, k))
    BY <1>1, <1>2
  <2>2. k \in FailedIds(chunks, ok) <=> Lost(ChunkOf(ids, k))
    BY <1>1, <1>3
  <2> QED
    BY <2>1, <2>2
<1> QED
  BY <1>4, <1>5 DEF chunks, asked

\* What a row, or the rows of the elements together, say about the end of the
\* job is so, and a finish time is given of an ended job only.
LEMMA LookupIsTrue ==
  ASSUME NEW E, IsFiniteSet(E), NEW s \in [E -> OnLsf \cup Ended], NEW f \in 1..Formats,
         NEW rows, rows = [e \in E |-> ParseBjobs(f, s[e])]
  PROVE  /\ Lookup(rows) \in RowType
         /\ Lookup(rows).finish => Lookup(rows).st \in Ended
         /\ Lookup(rows).st \in Ended => \A e \in E : s[e] \in Ended
<1>1. ASSUME NEW e \in E
      PROVE  /\ rows[e] \in RowType
             /\ rows[e].st = s[e]
             /\ rows[e].finish => rows[e].st \in Ended
  <2> DEFINE start == f < Formats /\ s[e] # "PEND"
             finish == f < Formats /\ s[e] \in Ended
  <2>1. rows[e] = [st |-> s[e], start |-> start, finish |-> finish]
    BY DEF ParseBjobs
  <2>2. start \in BOOLEAN /\ finish \in BOOLEAN /\ (finish => s[e] \in Ended)
    OBVIOUS
  <2>3. s[e] \in OnLsf \cup Ended
    OBVIOUS
  <2> HIDE DEF start, finish
  <2>4. rows[e] \in RowType /\ rows[e].st = s[e]
    BY <2>1, <2>2, <2>3 DEF RowType
  <2>5. rows[e].finish => s[e] \in Ended
    BY <2>1, <2>2
  <2> QED
    BY <2>4, <2>5
<1>2. DOMAIN rows = E
  OBVIOUS
<1>3. CASE Cardinality(E) = 1
  <2>1. PICK e : E = {e}
    BY <1>3, FS_Singleton
  <2>2. (CHOOSE x \in DOMAIN rows : TRUE) = e
    BY <1>2, <2>1
  <2>3. Lookup(rows) = rows[e]
    BY <1>2, <1>3, <2>2 DEF Lookup
  <2> QED
    BY <1>1, <2>1, <2>3
<1>4. CASE Cardinality(E) # 1
  <2> DEFINE on == {e \in E : rows[e].st \in OnLsf}
  <2>1. Lookup(rows) = Aggregate(rows)
    BY <1>2, <1>4 DEF Lookup
  <2> DEFINE st == IF \E e \in on : rows[e].st = "RUN" THEN "RUN"
                   ELSE IF on # {} THEN "PEND"
                   ELSE IF \E e \in E : rows[e].st = "EXIT" THEN "EXIT" ELSE "DONE"
             start == \E e \in E : rows[e].start
             finish == on = {} /\ \E e \in E : rows[e].finish
  <2>2. Aggregate(rows) = [st |-> st, start |-> start, finish |-> finish]
    BY <1>2 DEF Aggregate
  <2>3. /\ st \in OnLsf \cup Ended
        /\ st \in Ended <=> on = {}
    <3> HIDE DEF on
    <3> QED
      BY DEF OnLsf, Ended
  <2>4. start \in BOOLEAN /\ finish \in BOOLEAN /\ (finish => on = {})
    OBVIOUS
  <2>5. on = {} => \A e \in E : s[e] \in Ended
    BY <1>1
  <2> HIDE DEF on, st, start, finish
  <2>6. Aggregate(rows) \in RowType /\ Aggregate(rows).st = st
    BY <2>2, <2>3, <2>4 DEF RowType
  <2>7. Aggregate(rows).finish => on = {}
    BY <2>2, <2>4
  <2> QED
    BY <2>1, <2>3, <2>5, <2>6, <2>7
<1> QED
  BY <1>3, <1>4

\* bjobs_by_ids: every job of the snapshot is accounted for, and the rows are
\* true of the execution that was asked about.
LEMMA RunEffect ==
  ASSUME TypeOK, NEW t \in Threads, RunBjobs(t)
  PROVE  /\ th' \in [Threads -> ThreadType]
         /\ t \in Queriers /\ th[t].pc = "run" /\ th'[t].pc = "pop"
         /\ th'[t].entry = th[t].entry /\ th'[t].prev = th[t].prev
         /\ th'[t].snap = th[t].snap
         /\ AskedOK(t)'
         /\ \A k \in DOMAIN th'[t].rows :
              /\ k \in Keys
              /\ th'[t].rows[k].finish => th'[t].rows[k].st \in Ended
              /\ th'[t].rows[k].st \in Ended => AllEnded(k)
         /\ \A u \in Threads \ {t} : th'[u] = th[u]
<1> DEFINE chunks == ChunkArgs(DOMAIN th[t].snap)
           same   == {k \in DOMAIN th[t].snap : rec[k].gen = th[t].snap[k].gen}
           Asked(ok) == AskedIds(chunks, ok)
           Row(k) == Lookup([e \in Elements[k] |-> ParseBjobs(th[t].used, lsf[k][e])])
           R(ok, found) == [th[t] EXCEPT !.pc = "pop", !.used = 1, !.asked = Asked(ok),
                              !.failed = FailedIds(chunks, ok),
                              !.rows = [k \in found |-> Row(k)]]
<1>0. PICK ok \in [DOMAIN chunks -> BOOLEAN] : \E found \in SUBSET (Asked(ok) \cap same) :
        th' = [th EXCEPT ![t] = R(ok, found)]
  BY DEF RunBjobs
<1>1. PICK found \in SUBSET (Asked(ok) \cap same) : th' = [th EXCEPT ![t] = R(ok, found)]
  BY <1>0
<1> DEFINE asked == Asked(ok)
           failed == FailedIds(chunks, ok)
           rows == [k \in found |-> Row(k)]
<1>2. th[t] \in ThreadType /\ DOMAIN th[t].snap \subseteq Keys
  <2>1. th[t] \in ThreadType
    BY DEF TypeOK, QueryType
  <2>2. th[t].snap \in Dicts(RecordType)
    BY <2>1 DEF ThreadType
  <2> QED
    BY <2>1, <2>2, DictTo
<1>3. /\ asked \subseteq DOMAIN th[t].snap /\ failed \subseteq DOMAIN th[t].snap
      /\ \A k \in DOMAIN th[t].snap : k \in asked <=> k \notin failed
  BY AskedOrFailed
<1>4. found \subseteq Keys /\ found \subseteq asked
  BY <1>2, <1>3
<1>5. ASSUME NEW k \in found
      PROVE  /\ Row(k) \in RowType
             /\ Row(k).finish => Row(k).st \in Ended
             /\ Row(k).st \in Ended => AllEnded(k)
  <2>1. k \in Keys /\ IsFiniteSet(Elements[k])
    BY <1>4, QuerierAssumption
  <2>2. lsf[k] \in [Elements[k] -> OnLsf \cup Ended] /\ th[t].used \in 1..Formats
    BY <1>2, <2>1 DEF TypeOK, LsfType, ThreadType
  <2> QED
    BY <2>1, <2>2, LookupIsTrue DEF AllEnded
<1> HIDE DEF Row, Asked
<1>6. rows \in Dicts(RowType) /\ DOMAIN rows = found /\ \A k \in found : rows[k] = Row(k)
  <2>1. rows \in [found -> RowType]
    BY <1>5
  <2> QED
    BY <1>4, <2>1, DictFrom
<1> DEFINE r == [th[t] EXCEPT !.pc = "pop", !.used = 1, !.asked = asked,
                              !.failed = failed, !.rows = rows]
<1>7. th' = [th EXCEPT ![t] = r]
  BY <1>1
<1>8. rows \in Dicts(RowType) /\ 1 \in 1..Formats /\ asked \in SUBSET Keys
       /\ failed \in SUBSET Keys
  BY <1>2, <1>3, <1>6, QuerierAssumption
<1> HIDE DEF R, asked, failed, rows
<1>9. /\ r \in ThreadType /\ r.pc = "pop" /\ r.asked = asked /\ r.failed = failed
      /\ r.rows = rows /\ r.entry = th[t].entry /\ r.prev = th[t].prev /\ r.snap = th[t].snap
  BY <1>2, <1>8 DEF ThreadType
<1> HIDE DEF r
<1>10. /\ th' \in [Threads -> ThreadType] /\ th'[t] = r
      /\ \A u \in Threads \ {t} : th'[u] = th[u]
  BY <1>9, <1>7, SetThread
<1>11. AskedOK(t)'
  BY <1>3, <1>4, <1>6, <1>9, <1>10 DEF AskedOK
<1>12. t \in Queriers /\ th[t].pc = "run"
  BY DEF RunBjobs
<1> QED
  BY <1>4, <1>5, <1>6, <1>9, <1>10, <1>11, <1>12

-----------------------------------------------------------------------------
(* The judgement and the writes.                                           *)

\* A reader has its answer.
LEMMA DoneEffect ==
  ASSUME TypeOK, NEW t \in Threads, ReadDone(t)
  PROVE  /\ th' \in [Threads -> ThreadType] /\ t \in Readers /\ th'[t] = Idle
         /\ \A u \in Threads \ {t} : th'[u] = th[u]
BY InitialThread, SetThread DEF ReadDone

\* A querier takes the counts out of the dictionary.
LEMMA PopEffect ==
  ASSUME TypeOK, NEW t \in Threads, PopStreaks(t)
  PROVE  /\ th' \in [Threads -> ThreadType]
         /\ th[t].pc = "pop" /\ th'[t].pc = "judge"
         /\ th'[t].entry = th[t].entry /\ th'[t].snap = th[t].snap
         /\ th'[t].rows = th[t].rows /\ th'[t].asked = th[t].asked
         /\ th'[t].failed = th[t].failed /\ th'[t].prev = streaks
         /\ \A u \in Threads \ {t} : th'[u] = th[u]
<1> DEFINE r == [th[t] EXCEPT !.pc = "judge", !.prev = streaks]
<1>1. th' = [th EXCEPT ![t] = r] /\ th[t].pc = "pop"
  BY DEF PopStreaks
<1>2. /\ r \in ThreadType /\ r.pc = "judge" /\ r.entry = th[t].entry /\ r.snap = th[t].snap
      /\ r.rows = th[t].rows /\ r.asked = th[t].asked /\ r.failed = th[t].failed
      /\ r.prev = streaks
  BY DEF TypeOK, QueryType, ThreadType
<1> HIDE DEF r
<1>3. th' \in [Threads -> ThreadType] /\ th'[t] = r /\ \A u \in Threads \ {t} : th'[u] = th[u]
  BY <1>1, <1>2, SetThread
<1> QED
  BY <1>1, <1>2, <1>3

\* A count is a number.
LEMMA CountOfType ==
  ASSUME TypeOK, NEW t \in Threads, NEW k \in Keys
  PROVE  CountOf(t, k) \in Nat
<1>1. th[t].prev \in Dicts(CountType)
  BY DEF TypeOK, QueryType, ThreadType
<1>2. th[t].prev \in [DOMAIN th[t].prev -> CountType]
  BY <1>1, DictTo
<1>3. k \in DOMAIN th[t].prev => th[t].prev[k].n \in Nat
  BY <1>2 DEF CountType
<1> QED
  BY <1>3 DEF CountOf

\* The jobs that count are in the snapshot.
LEMMA CountableKeys ==
  ASSUME TypeOK, NEW t \in Threads
  PROVE  Countable(t) \subseteq DOMAIN th[t].snap /\ Countable(t) \subseteq Keys
         /\ \A k \in DOMAIN th[t].snap : k \in Keys /\ th[t].snap[k] \in RecordType
<1>1. th[t].snap \in Dicts(RecordType)
  BY DEF TypeOK, QueryType, ThreadType
<1>2. DOMAIN th[t].snap \subseteq Keys /\ th[t].snap \in [DOMAIN th[t].snap -> RecordType]
  BY <1>1, DictTo
<1> QED
  BY <1>2 DEF Countable

\* _judge_missing, second half: the counts of the living jobs of the snapshot.
LEMMA JudgeEffect ==
  ASSUME TypeOK, NEW t \in Threads, Judge(t)
  PROVE  /\ th' \in [Threads -> ThreadType]
         /\ th[t].pc = "judge" /\ th'[t].pc = "update"
         /\ th'[t].entry = th[t].entry /\ th'[t].snap = th[t].snap
         /\ th'[t].rows = th[t].rows /\ DOMAIN th'[t].prev = {}
         /\ th'[t].lost = {k \in Countable(t) : CountOf(t, k) >= LostAfter}
         /\ streaks' \in Dicts(CountType)
         /\ DOMAIN streaks' = {k \in Countable(t) : /\ rec[k].gen = th[t].snap[k].gen
                                                    /\ rec[k].st \in OnLsf}
         /\ \A k \in DOMAIN streaks' : /\ streaks'[k].gen = th[t].snap[k].gen
                                       /\ streaks'[k].n = CountOf(t, k)
         /\ miss' \in [Keys -> Nat]
         /\ \A k \in Keys :
              miss'[k] = IF k \notin DOMAIN th[t].snap \/ rec[k].gen # th[t].snap[k].gen
                         THEN miss[k] ELSE IF Missed(t, k) THEN miss[k] + 1 ELSE 0
         /\ \A u \in Threads \ {t} : th'[u] = th[u]
<1> DEFINE cur  == [k \in Countable(t) |-> [gen |-> th[t].snap[k].gen, n |-> CountOf(t, k)]]
           lost == {k \in DOMAIN cur : cur[k].n >= LostAfter}
           live == {k \in DOMAIN cur : rec[k].gen = cur[k].gen /\ rec[k].st \in OnLsf}
           r == [th[t] EXCEPT !.pc = "update", !.prev = Empty, !.asked = {}, !.failed = {},
                              !.lost = lost]
<1>1. /\ th' = [th EXCEPT ![t] = r] /\ th[t].pc = "judge"
      /\ streaks' = [k \in live |-> cur[k]]
      /\ miss' = [k \in Keys |->
            IF k \notin DOMAIN th[t].snap \/ rec[k].gen # th[t].snap[k].gen THEN miss[k]
            ELSE IF Missed(t, k) THEN miss[k] + 1 ELSE 0]
  BY DEF Judge, Current
<1>2. /\ Countable(t) \subseteq Keys /\ DOMAIN cur = Countable(t)
      /\ \A k \in Countable(t) : cur[k] = [gen |-> th[t].snap[k].gen, n |-> CountOf(t, k)]
  BY CountableKeys
<1>3. \A k \in Countable(t) : /\ cur[k] \in CountType
                              /\ cur[k].gen = th[t].snap[k].gen /\ cur[k].n = CountOf(t, k)
  <2>1. \A k \in Countable(t) : th[t].snap[k].gen \in Nat /\ CountOf(t, k) \in Nat
    BY <1>2, CountableKeys, CountOfType DEF RecordType
  <2> HIDE DEF cur
  <2> QED
    BY <1>2, <2>1 DEF CountType
<1> HIDE DEF cur
<1>4. lost = {k \in Countable(t) : CountOf(t, k) >= LostAfter} /\ lost \subseteq Keys
  BY <1>2, <1>3
<1>5. live = {k \in Countable(t) : rec[k].gen = th[t].snap[k].gen /\ rec[k].st \in OnLsf}
      /\ live \subseteq Keys
  BY <1>2, <1>3
<1> HIDE DEF live, lost
<1>6. /\ streaks' \in Dicts(CountType) /\ DOMAIN streaks' = live
      /\ \A k \in live : streaks'[k].gen = th[t].snap[k].gen /\ streaks'[k].n = CountOf(t, k)
  <2>1. streaks' \in [live -> CountType]
    BY <1>1, <1>3, <1>5
  <2> QED
    BY <1>1, <1>3, <1>5, <2>1, DictFrom
<1>7. /\ r \in ThreadType /\ r.pc = "update" /\ r.entry = th[t].entry /\ r.snap = th[t].snap
      /\ r.rows = th[t].rows /\ r.prev = Empty /\ r.lost = lost
  BY <1>4, InitialThread DEF TypeOK, QueryType, ThreadType
<1> HIDE DEF r
<1>8. th' \in [Threads -> ThreadType] /\ th'[t] = r /\ \A u \in Threads \ {t} : th'[u] = th[u]
  BY <1>1, <1>7, SetThread
<1>9. miss' \in [Keys -> Nat]
  BY <1>1 DEF TypeOK, StoreType
<1>10. \A k \in Keys :
         miss'[k] = IF k \notin DOMAIN th[t].snap \/ rec[k].gen # th[t].snap[k].gen
                    THEN miss[k] ELSE IF Missed(t, k) THEN miss[k] + 1 ELSE 0
  BY <1>1
<1> QED
  BY <1>1, <1>4, <1>5, <1>6, <1>7, <1>8, <1>9, <1>10, InitialThread

\* A row is written over the snapshot of a record that has not moved.
Written(t, k) ==
  /\ k \in DOMAIN th[t].rows /\ Unchanged(rec[k], th[t].snap[k])
  /\ rec'[k].gen = rec[k].gen /\ rec'[k].st = th[t].rows[k].st
  /\ rec'[k].killed = th[t].snap[k].killed
  /\ rec'[k].start <=> th[t].snap[k].start \/ th[t].rows[k].start
  /\ rec'[k].finish <=> th[t].snap[k].finish \/ th[t].rows[k].finish

\* merge_fields gives a typed record.
LEMMA MergeType ==
  ASSUME NEW r \in RecordType, NEW row \in RowType
  PROVE  /\ MergeFields(r, row) \in RecordType
         /\ MergeFields(r, row).gen = r.gen /\ MergeFields(r, row).st = row.st
         /\ MergeFields(r, row).killed = r.killed
         /\ MergeFields(r, row).start <=> r.start \/ row.start
         /\ MergeFields(r, row).finish <=> r.finish \/ row.finish
<1> DEFINE m == MergeFields(r, row)
           start == r.start \/ row.start
           finish == r.finish \/ row.finish
<1>1. m = [r EXCEPT !.st = row.st, !.start = start, !.finish = finish]
  BY DEF MergeFields, RecordType
<1>2. start \in BOOLEAN /\ finish \in BOOLEAN
  OBVIOUS
<1>3. row.st \in States
  BY DEF RowType, States, OnLsf, Ended
<1> HIDE DEF m, start, finish
<1>4. /\ m \in RecordType /\ m.gen = r.gen /\ m.st = row.st /\ m.killed = r.killed
      /\ m.start = start /\ m.finish = finish
  BY <1>1, <1>2, <1>3 DEF RecordType
<1> QED
  BY <1>4 DEF m, start, finish

\* The first batch, of rows that belong to the snapshot.
LEMMA UpdateEffect ==
  ASSUME TypeOK, NEW t \in Threads, ApplyUpdates(t),
         DOMAIN th[t].rows \subseteq DOMAIN th[t].snap
  PROVE  /\ th' \in [Threads -> ThreadType]
         /\ th[t].pc = "update" /\ th'[t].pc = "lose"
         /\ th'[t].entry = th[t].entry /\ th'[t].snap = th[t].snap
         /\ th'[t].lost = th[t].lost /\ th'[t].prev = th[t].prev
         /\ rec' \in [Keys -> RecordType]
         /\ \A k \in Keys : rec'[k] = rec[k] \/ Written(t, k)
         /\ \A u \in Threads \ {t} : th'[u] = th[u]
<1> DEFINE r == [th[t] EXCEPT !.pc = "lose", !.rows = Empty]
<1>1. th' = [th EXCEPT ![t] = r] /\ th[t].pc = "update"
  BY DEF ApplyUpdates
<1>2. /\ r \in ThreadType /\ r.pc = "lose" /\ r.entry = th[t].entry /\ r.snap = th[t].snap
      /\ r.lost = th[t].lost /\ r.prev = th[t].prev
  BY InitialThread DEF TypeOK, QueryType, ThreadType
<1> HIDE DEF r
<1>3. th' \in [Threads -> ThreadType] /\ th'[t] = r /\ \A u \in Threads \ {t} : th'[u] = th[u]
  BY <1>1, <1>2, SetThread
<1>4. \A k \in DOMAIN th[t].rows : th[t].rows[k] \in RowType
  BY DictTo DEF TypeOK, QueryType, ThreadType
<1>5. ASSUME NEW k \in Keys
      PROVE  rec'[k] \in RecordType /\ (rec'[k] = rec[k] \/ Written(t, k))
  <2>1. rec[k] \in RecordType
    BY DEF TypeOK, StoreType
  <2>2. CASE k \in DOMAIN th[t].rows /\ Unchanged(rec[k], th[t].snap[k])
    <3>1. rec'[k] = [MergeFields(th[t].snap[k], th[t].rows[k]) EXCEPT !.young = rec[k].young]
      BY <2>2 DEF ApplyUpdates
    <3>2. th[t].snap[k] \in RecordType /\ th[t].rows[k] \in RowType /\ rec[k].young \in BOOLEAN
      BY <1>4, <2>1, <2>2, CountableKeys DEF RecordType
    <3> DEFINE m == MergeFields(th[t].snap[k], th[t].rows[k])
    <3>5. /\ m \in RecordType
          /\ m.gen = th[t].snap[k].gen /\ m.st = th[t].rows[k].st
          /\ m.killed = th[t].snap[k].killed
          /\ m.start <=> th[t].snap[k].start \/ th[t].rows[k].start
          /\ m.finish <=> th[t].snap[k].finish \/ th[t].rows[k].finish
      BY <3>2, MergeType
    <3> HIDE DEF m
    <3>6. /\ rec'[k] \in RecordType
          /\ rec'[k].gen = m.gen /\ rec'[k].st = m.st /\ rec'[k].killed = m.killed
          /\ rec'[k].start = m.start /\ rec'[k].finish = m.finish
      BY <3>1, <3>2, <3>5 DEF RecordType, m
    <3>3. /\ rec'[k] \in RecordType
          /\ rec'[k].gen = th[t].snap[k].gen /\ rec'[k].st = th[t].rows[k].st
          /\ rec'[k].killed = th[t].snap[k].killed
          /\ rec'[k].start <=> th[t].snap[k].start \/ th[t].rows[k].start
          /\ rec'[k].finish <=> th[t].snap[k].finish \/ th[t].rows[k].finish
      BY <3>5, <3>6
    <3>4. rec[k].gen = th[t].snap[k].gen
      BY <2>2 DEF Unchanged
    <3> QED
      BY <2>2, <3>3, <3>4 DEF Written
  <2>3. CASE ~(k \in DOMAIN th[t].rows /\ Unchanged(rec[k], th[t].snap[k]))
    BY <2>1, <2>3 DEF ApplyUpdates
  <2> QED
    BY <2>2, <2>3
<1>6. rec' \in [Keys -> RecordType]
  <2>1. rec' = [k \in Keys |-> rec'[k]]
    BY DEF ApplyUpdates
  <2> QED
    BY <1>5, <2>1
<1> QED
  BY <1>1, <1>2, <1>3, <1>5, <1>6

\* The second batch: a living record becomes LOST.
LEMMA LoseEffect ==
  ASSUME TypeOK, NEW t \in Threads, ApplyLost(t)
  PROVE  /\ th' \in [Threads -> ThreadType]
         /\ th[t].pc = "lose" /\ th'[t].pc = "exit" /\ th'[t].entry = th[t].entry
         /\ DOMAIN th'[t].snap = {} /\ DOMAIN th'[t].prev = {}
         /\ rec' \in [Keys -> RecordType]
         /\ \A k \in Keys :
              \/ rec'[k] = rec[k]
              \/ /\ k \in th[t].lost /\ Unchanged(rec[k], th[t].snap[k])
                 /\ rec'[k].gen = rec[k].gen /\ rec'[k].st = "LOST"
                 /\ rec'[k].killed = rec[k].killed /\ rec'[k].start = rec[k].start
                 /\ rec'[k].finish = rec[k].finish
         /\ \A u \in Threads \ {t} : th'[u] = th[u]
<1> DEFINE r == [Idle EXCEPT !.pc = "exit", !.entry = th[t].entry]
<1>1. th' = [th EXCEPT ![t] = r] /\ th[t].pc = "lose"
  BY DEF ApplyLost
<1>2. /\ r \in ThreadType /\ r.pc = "exit" /\ r.entry = th[t].entry
      /\ r.snap = Empty /\ r.prev = Empty
  BY InitialThread DEF TypeOK, QueryType, ThreadType, Idle
<1> HIDE DEF r
<1>3. th' \in [Threads -> ThreadType] /\ th'[t] = r /\ \A u \in Threads \ {t} : th'[u] = th[u]
  BY <1>1, <1>2, SetThread
<1> DEFINE Lost(k) ==
      /\ k \in th[t].lost /\ Unchanged(rec[k], th[t].snap[k])
      /\ rec'[k].gen = rec[k].gen /\ rec'[k].st = "LOST"
      /\ rec'[k].killed = rec[k].killed /\ rec'[k].start = rec[k].start
      /\ rec'[k].finish = rec[k].finish
<1>4. ASSUME NEW k \in Keys
      PROVE  rec'[k] \in RecordType /\ (rec'[k] = rec[k] \/ Lost(k))
  <2>1. rec[k] \in RecordType
    BY DEF TypeOK, StoreType
  <2>2. CASE k \in th[t].lost /\ Unchanged(rec[k], th[t].snap[k])
    <3>1. rec'[k] = [rec[k] EXCEPT !.st = "LOST"]
      BY <2>2 DEF ApplyLost
    <3>2. /\ rec'[k] \in RecordType
          /\ rec'[k].gen = rec[k].gen /\ rec'[k].st = "LOST"
          /\ rec'[k].killed = rec[k].killed /\ rec'[k].start = rec[k].start
          /\ rec'[k].finish = rec[k].finish
      BY <2>1, <3>1 DEF RecordType, States
    <3> QED
      BY <2>2, <3>2
  <2>3. CASE ~(k \in th[t].lost /\ Unchanged(rec[k], th[t].snap[k]))
    BY <2>1, <2>3 DEF ApplyLost
  <2> QED
    BY <2>2, <2>3
<1>5. rec' \in [Keys -> RecordType]
  <2>1. rec' = [k \in Keys |-> rec'[k]]
    BY DEF ApplyLost
  <2> QED
    BY <1>4, <2>1
<1> QED
  BY <1>1, <1>2, <1>3, <1>4, <1>5, InitialThread

-----------------------------------------------------------------------------
(* What the jobs, their owners and LSF do to a query.                      *)

World ==
  \/ \E ks \in forgets : Forget(ks)
  \/ Reconfigure
  \/ \E k \in Volatile : \/ RemoveJob(k) \/ MarkKilled(k)
                         \/ \E young \in BOOLEAN : Resubmit(k, young)
  \/ \E k \in Keys : Age(k) \/ \E e \in Elements[k] : LsfStep(k, e)

\* The execution goes on, or is marked by a kill.
Continues(k) ==
  /\ rec'[k].gen = rec[k].gen /\ miss'[k] = miss[k]
  /\ rec'[k].start = rec[k].start /\ rec'[k].finish = rec[k].finish
  /\ AllEnded(k) => AllEnded(k)'
  /\ \/ rec'[k].st = rec[k].st /\ rec'[k].killed = rec[k].killed
     \/ rec[k].st \in OnLsf /\ rec'[k].st = "EXIT" /\ rec'[k].killed

\* Another execution begins, or there is none any more; a forget is due.
Replaced(k) ==
  /\ \/ rec'[k].gen = gens + 1 /\ gens' = gens + 1 /\ rec'[k].st = "PEND"
     \/ rec'[k].gen = 0 /\ rec'[k].st = "GONE" /\ rec[k].st # "GONE"
  /\ ~rec'[k].killed /\ ~rec'[k].finish /\ miss'[k] = 0 /\ {k} \in forgets'

\* The counts that are kept, and why the others may go.
Forgotten ==
  /\ DOMAIN streaks' \subseteq DOMAIN streaks
  /\ \A k \in DOMAIN streaks' :
       streaks'[k] = streaks[k] /\ ({k} \in forgets => {k} \in forgets' \/ streaks[k].gen = rec'[k].gen)
  /\ \A k \in DOMAIN streaks \ DOMAIN streaks' :
       ~(rec'[k].st \in OnLsf /\ streaks[k].gen = rec'[k].gen)

WorldMoves ==
  /\ StoreType' /\ LsfType' /\ QueryType'
  /\ th' = th /\ table' = table /\ gens <= gens' /\ fmt' = fmt /\ supported <= supported'
  /\ \A k \in Keys : Continues(k) \/ Replaced(k)
  /\ Forgotten

\* What no step but forget does to the counts.
LEMMA CountsStay ==
  ASSUME TypeOK, streaks' = streaks, table' = table, th' = th, forgets \subseteq forgets'
  PROVE  Forgotten /\ QueryType'
BY DEF TypeOK, QueryType, Forgotten

\* forget: only counts of executions that are not tracked any more are dropped.
LEMMA ForgetMoves ==
  ASSUME TypeOK, NEW ks \in forgets, Forget(ks)
  PROVE  WorldMoves
<1> DEFINE here == ks \cap DOMAIN streaks
           live == {k \in here : rec[k].gen = streaks[k].gen /\ rec[k].st \in OnLsf}
           left == (DOMAIN streaks \ ks) \cup live
<1>1. DOMAIN Current([k \in here |-> streaks[k]]) = live
  BY DEF Current
<1>2. streaks' = [k \in left |-> streaks[k]] /\ forgets' = forgets \ {ks}
      /\ UNCHANGED <<rec, lsf, table, th, fmt, supported, gens, miss>>
  BY <1>1 DEF Forget
<1>3. DOMAIN streaks \subseteq Keys /\ streaks \in [DOMAIN streaks -> CountType]
  BY DictTo DEF TypeOK, QueryType
<1>4. left \subseteq DOMAIN streaks
  OBVIOUS
<1>5. streaks' \in Dicts(CountType)
  <2>1. left \in SUBSET Keys /\ streaks' \in [left -> CountType]
    BY <1>2, <1>3, <1>4
  <2> QED
    BY <2>1, DictFrom
<1>6. Forgotten
  <2>1. ASSUME NEW k \in left
        PROVE  {k} \in forgets => {k} \in forgets' \/ streaks[k].gen = rec[k].gen
    BY <1>2
  <2>2. ASSUME NEW k \in DOMAIN streaks \ left
        PROVE  ~(rec[k].st \in OnLsf /\ streaks[k].gen = rec[k].gen)
    OBVIOUS
  <2> HIDE DEF left
  <2> QED
    BY <1>2, <1>4, <2>1, <2>2 DEF Forgotten
<1>7. \A k \in Keys : Continues(k)
  BY <1>2 DEF Continues, AllEnded
<1>8. StoreType' /\ LsfType' /\ QueryType' /\ gens <= gens' /\ supported <= supported'
  BY <1>2, <1>5 DEF TypeOK, StoreType, LsfType, QueryType
<1> QED
  BY <1>2, <1>6, <1>7, <1>8 DEF WorldMoves

\* resubmit, remove and kill: one key is affected.
LEMMA OwnerMoves ==
  ASSUME TypeOK, NEW k \in Volatile,
         RemoveJob(k) \/ MarkKilled(k) \/ \E young \in BOOLEAN : Resubmit(k, young)
  PROVE  WorldMoves
<1>1. k \in Keys
  BY QuerierAssumption
<1>2. CASE RemoveJob(k)
  <2>1. /\ rec' = [rec EXCEPT ![k] = NoRec] /\ miss' = [miss EXCEPT ![k] = 0]
        /\ forgets' = forgets \cup {{k}}
        /\ UNCHANGED <<lsf, streaks, table, th, fmt, supported, gens>>
    BY <1>2 DEF RemoveJob
  <2>2. \A j \in Keys \ {k} : Continues(j)
    BY <2>1 DEF Continues, AllEnded, TypeOK, StoreType
  <2>3. Replaced(k)
    BY <1>1, <1>2, <2>1, NewRecType DEF Replaced, TypeOK, StoreType, RemoveJob
  <2>4. StoreType' /\ LsfType' /\ gens <= gens' /\ supported <= supported'
    BY <1>1, <2>1, NewRecType DEF TypeOK, StoreType, LsfType
  <2>5. Forgotten /\ QueryType'
    BY <2>1, CountsStay
  <2> QED
    BY <2>1, <2>2, <2>3, <2>4, <2>5 DEF WorldMoves
<1>3. CASE MarkKilled(k)
  <2>1. /\ rec' = [rec EXCEPT ![k] = [@ EXCEPT !.st = "EXIT", !.killed = TRUE]]
        /\ rec[k].st \in OnLsf
        /\ UNCHANGED <<lsf, streaks, table, th, fmt, supported, forgets, gens, miss>>
    BY <1>3 DEF MarkKilled
  <2>2. \A j \in Keys \ {k} : Continues(j)
    BY <2>1 DEF Continues, AllEnded, TypeOK, StoreType
  <2>3. rec'[k] = [rec[k] EXCEPT !.st = "EXIT", !.killed = TRUE] /\ rec[k] \in RecordType
    BY <1>1, <2>1 DEF TypeOK, StoreType
  <2>4. /\ rec'[k] \in RecordType /\ rec'[k].gen = rec[k].gen /\ rec'[k].start = rec[k].start
        /\ rec'[k].finish = rec[k].finish /\ rec'[k].st = "EXIT" /\ rec'[k].killed
    BY <2>3 DEF RecordType, States
  <2>5. Continues(k)
    BY <2>1, <2>4 DEF Continues, AllEnded
  <2>6. rec' \in [Keys -> RecordType]
    BY <1>1, <2>1, <2>3, <2>4 DEF TypeOK, StoreType
  <2>7. StoreType' /\ LsfType' /\ gens <= gens' /\ supported <= supported'
    BY <2>1, <2>6 DEF TypeOK, StoreType, LsfType
  <2>8. Forgotten /\ QueryType'
    BY <2>1, CountsStay
  <2> QED
    BY <2>1, <2>2, <2>5, <2>7, <2>8 DEF WorldMoves
<1>4. ASSUME NEW young \in BOOLEAN, Resubmit(k, young)
      PROVE  WorldMoves
  <2>1. /\ rec' = [rec EXCEPT ![k] = NewRec(gens + 1, young)] /\ miss' = [miss EXCEPT ![k] = 0]
        /\ lsf' = [lsf EXCEPT ![k] = [e \in Elements[k] |-> "PEND"]]
        /\ forgets' = forgets \cup {{k}} /\ gens' = gens + 1
        /\ UNCHANGED <<streaks, table, th, fmt, supported>>
    BY <1>4 DEF Resubmit
  <2>2. gens + 1 \in Nat /\ gens \in Nat
    BY DEF TypeOK, StoreType
  <2>3. \A j \in Keys \ {k} : Continues(j)
    BY <1>1, <2>1 DEF Continues, AllEnded, TypeOK, StoreType, LsfType
  <2>4. Replaced(k)
    BY <1>1, <2>1, <2>2, NewRecType DEF Replaced, TypeOK, StoreType
  <2>5. StoreType' /\ gens <= gens' /\ supported <= supported'
    BY <1>1, <2>1, <2>2, NewRecType DEF TypeOK, StoreType, LsfType
  <2>6. LsfType'
    <3>1. \A j \in Keys : lsf'[j] \in [Elements[j] -> OnLsf \cup Ended]
      BY <1>1, <2>1 DEF TypeOK, LsfType, OnLsf
    <3>2. lsf' = [j \in Keys |-> lsf'[j]]
      BY <1>1, <2>1 DEF TypeOK, LsfType
    <3> QED
      BY <2>1, <3>1, <3>2 DEF TypeOK, LsfType
  <2>7. Forgotten /\ QueryType'
    BY <2>1, CountsStay
  <2> QED
    BY <2>1, <2>3, <2>4, <2>5, <2>6, <2>7 DEF WorldMoves
<1> QED
  BY <1>2, <1>3, <1>4

\* Time and LSF: the record of the execution stays, and what has ended has ended.
LEMMA TimeMoves ==
  ASSUME TypeOK, NEW k \in Keys, Age(k) \/ \E e \in Elements[k] : LsfStep(k, e)
  PROVE  WorldMoves
<1>1. CASE Age(k)
  <2>1. /\ rec' = [rec EXCEPT ![k].young = FALSE]
        /\ UNCHANGED <<lsf, streaks, table, th, fmt, supported, forgets, gens, miss>>
    BY <1>1 DEF Age
  <2>2. \A j \in Keys \ {k} : Continues(j)
    BY <2>1 DEF Continues, AllEnded, TypeOK, StoreType
  <2>3. rec'[k] = [rec[k] EXCEPT !.young = FALSE] /\ rec[k] \in RecordType
    BY <2>1 DEF TypeOK, StoreType
  <2>4. /\ rec'[k] \in RecordType /\ rec'[k].gen = rec[k].gen /\ rec'[k].start = rec[k].start
        /\ rec'[k].finish = rec[k].finish /\ rec'[k].st = rec[k].st
        /\ rec'[k].killed = rec[k].killed
    BY <2>3 DEF RecordType
  <2>5. Continues(k)
    BY <2>1, <2>4 DEF Continues, AllEnded
  <2>6. rec' \in [Keys -> RecordType]
    BY <2>1, <2>4 DEF TypeOK, StoreType
  <2>7. StoreType' /\ LsfType' /\ gens <= gens' /\ supported <= supported'
    BY <2>1, <2>6 DEF TypeOK, StoreType, LsfType
  <2>8. Forgotten /\ QueryType'
    BY <2>1, CountsStay
  <2> QED
    BY <2>1, <2>2, <2>5, <2>7, <2>8 DEF WorldMoves
<1>2. ASSUME NEW e \in Elements[k], LsfStep(k, e)
      PROVE  WorldMoves
  <2>1. /\ \E s \in {"RUN"} \cup Ended : /\ lsf' = [lsf EXCEPT ![k][e] = s]
                                         /\ s = "RUN" => lsf[k][e] = "PEND"
        /\ lsf[k][e] \notin Ended
        /\ UNCHANGED <<rec, streaks, table, th, fmt, supported, forgets, gens, miss>>
    BY <1>2 DEF LsfStep, Ended
  <2>2. PICK s \in {"RUN"} \cup Ended : lsf' = [lsf EXCEPT ![k][e] = s]
    BY <2>1
  <2>3. lsf' = [j \in Keys |-> lsf'[j]]
        /\ \A j \in Keys : lsf'[j] \in [Elements[j] -> OnLsf \cup Ended]
    BY <2>2 DEF TypeOK, LsfType, OnLsf
  <2>4. ASSUME NEW j \in Keys, AllEnded(j) PROVE AllEnded(j)'
    <3>1. j # k
      BY <2>1, <2>4 DEF AllEnded
    <3> QED
      BY <2>2, <2>4, <3>1 DEF AllEnded, TypeOK, LsfType
  <2>5. \A j \in Keys : Continues(j)
    BY <2>1, <2>4 DEF Continues
  <2>6. StoreType' /\ LsfType' /\ gens <= gens' /\ supported <= supported'
    BY <2>1, <2>3 DEF TypeOK, StoreType, LsfType
  <2>7. Forgotten /\ QueryType'
    BY <2>1, CountsStay
  <2> QED
    BY <2>1, <2>5, <2>6, <2>7 DEF WorldMoves
<1> QED
  BY <1>1, <1>2

\* Nothing else happens to a query from outside.
LEMMA WorldEffect ==
  ASSUME TypeOK, World
  PROVE  WorldMoves
<1>1. CASE Reconfigure
  <2>1. /\ supported \in 1..Formats /\ supported' \in (supported + 1)..Formats
        /\ UNCHANGED <<rec, lsf, streaks, table, th, fmt, forgets, gens, miss>>
    BY <1>1 DEF Reconfigure, TypeOK, LsfType
  <2>2. supported' \in 1..Formats /\ supported <= supported'
    BY <2>1, QuerierAssumption
  <2>3. StoreType' /\ LsfType' /\ gens <= gens'
    BY <2>1, <2>2 DEF TypeOK, StoreType, LsfType
  <2>4. Forgotten /\ QueryType'
    BY <2>1, CountsStay
  <2>5. \A k \in Keys : Continues(k)
    BY <2>1 DEF Continues, AllEnded
  <2> QED
    BY <2>1, <2>2, <2>3, <2>4, <2>5 DEF WorldMoves
<1> QED
  BY <1>1, ForgetMoves, OwnerMoves, TimeMoves DEF World

\* Under the invariant of the executions: nothing that is known is brought back.
LEMMA WorldGen ==
  ASSUME TypeOK, GenInv, WorldMoves
  PROVE  GenInv'
<1>1. gens \in Nat /\ gens' \in Nat /\ gens <= gens'
  BY DEF WorldMoves, StoreType, TypeOK
<1>2. ASSUME NEW k \in Keys
      PROVE  rec'[k].gen <= gens' /\ (rec'[k].gen = 0 <=> rec'[k].st = "GONE")
  <2>1. rec[k].gen \in Nat /\ rec[k].gen <= gens /\ (rec[k].gen = 0 <=> rec[k].st = "GONE")
    BY DEF TypeOK, StoreType, RecordType, GenInv
  <2>2. CASE Continues(k)
    BY <1>1, <2>1, <2>2 DEF Continues, OnLsf
  <2>3. CASE Replaced(k)
    BY <1>1, <2>3 DEF Replaced
  <2> QED
    BY <2>2, <2>3 DEF WorldMoves
<1>3. ASSUME NEW k \in DOMAIN streaks' PROVE streaks'[k].gen <= gens'
  <2>1. k \in DOMAIN streaks /\ streaks'[k] = streaks[k] /\ streaks[k].gen <= gens
    BY DEF WorldMoves, Forgotten, GenInv
  <2>2. streaks[k].gen \in Nat
    BY <2>1, CountsTyped
  <2> QED
    BY <1>1, <2>1, <2>2
<1>4. ASSUME NEW t \in Queriers
      PROVE  /\ \A k \in DOMAIN th[t].prev : th[t].prev[k].gen <= gens'
             /\ \A k \in DOMAIN th[t].snap : th[t].snap[k].gen \in 1..gens'
  <2>1. \A k \in DOMAIN th[t].prev : th[t].prev[k].gen \in Nat
    BY CountsTyped DEF Threads
  <2> QED
    BY <1>1, <2>1 DEF GenInv
<1>5. gens' > 0
  BY <1>1 DEF GenInv
<1>6. th' = th
  BY DEF WorldMoves
<1> QED
  BY <1>2, <1>3, <1>4, <1>5, <1>6 DEF GenInv

\* What the records say stays so.
LEMMA WorldRec ==
  ASSUME TypeOK, RecInv, WorldMoves
  PROVE  RecInv'
<1>1. ASSUME NEW k \in Keys
      PROVE  /\ rec'[k].killed => rec'[k].st = "EXIT"
             /\ rec'[k].finish => rec'[k].st \in Ended
             /\ rec'[k].st \in Ended /\ ~rec'[k].killed => AllEnded(k)'
  <2>1. /\ rec[k].killed => rec[k].st = "EXIT"
        /\ rec[k].finish => rec[k].st \in Ended
        /\ rec[k].st \in Ended /\ ~rec[k].killed => AllEnded(k)
    BY DEF RecInv
  <2>2. CASE Continues(k)
    BY <2>1, <2>2 DEF Continues, Ended
  <2>3. CASE Replaced(k)
    BY <2>3 DEF Replaced, Ended
  <2> QED
    BY <2>2, <2>3 DEF WorldMoves
<1> QED
  BY <1>1 DEF RecInv

\* A query in progress: another execution is not the one it asked about.
LEMMA WorldQuery ==
  ASSUME TypeOK, GenInv, QueryInv, WorldMoves
  PROVE  QueryInv'
<1>1. th' = th /\ gens \in Nat
  BY DEF WorldMoves, TypeOK, StoreType
<1> SUFFICES ASSUME NEW t \in Queriers
             PROVE  /\ Busy(t) => SnapOK(t)'
                    /\ th[t].pc \in {"pop", "judge", "update"} => RowsOK(t)'
                    /\ th[t].pc \in {"pop", "judge"} => AskedOK(t)'
                    /\ th[t].pc \in Reading => NewOK(t)'
                    /\ th[t].pc \in {"update", "lose"} => LostOK(t)'
  BY <1>1 DEF QueryInv, Busy
<1>2. th[t].snap \in Dicts(RecordType)
  BY DEF TypeOK, QueryType, ThreadType, Threads
<1>3. ASSUME NEW k \in DOMAIN th[t].snap
      PROVE  /\ k \in Keys /\ th[t].snap[k].gen \in 1..gens
             /\ rec'[k].gen = th[t].snap[k].gen => Continues(k)
  <2>1. k \in Keys /\ th[t].snap[k].gen \in 1..gens
    BY <1>2, DictTo DEF GenInv
  <2>2. Replaced(k) => rec'[k].gen # th[t].snap[k].gen
    BY <1>1, <2>1 DEF Replaced
  <2> QED
    BY <2>1, <2>2 DEF WorldMoves
<1>4. ASSUME Busy(t) PROVE SnapOK(t)'
  <2> SUFFICES ASSUME NEW k \in DOMAIN th[t].snap
               PROVE  /\ th[t].snap[k].st \in OnLsf /\ ~th[t].snap[k].killed
                      /\ ~th[t].snap[k].finish
                      /\ th[t].pc \in Reading \cup {"update"} /\ Unchanged(rec'[k], th[t].snap[k]) =>
                           rec'[k].start = th[t].snap[k].start
    BY <1>1 DEF SnapOK
  <2>1. /\ th[t].snap[k].st \in OnLsf /\ ~th[t].snap[k].killed /\ ~th[t].snap[k].finish
        /\ th[t].pc \in Reading \cup {"update"} /\ Unchanged(rec[k], th[t].snap[k]) =>
             rec[k].start = th[t].snap[k].start
    BY <1>4 DEF QueryInv, SnapOK
  <2>2. ASSUME Unchanged(rec'[k], th[t].snap[k])
        PROVE  Unchanged(rec[k], th[t].snap[k]) /\ rec'[k].start = rec[k].start
    BY <1>3, <2>1, <2>2 DEF Continues, Unchanged, OnLsf
  <2> QED
    BY <2>1, <2>2
<1>5. ASSUME th[t].pc \in {"pop", "judge", "update"} PROVE RowsOK(t)'
  <2> SUFFICES ASSUME NEW k \in DOMAIN th[t].rows
               PROVE  /\ k \in DOMAIN th[t].snap
                      /\ th[t].rows[k].finish => th[t].rows[k].st \in Ended
                      /\ rec'[k].gen = th[t].snap[k].gen /\ th[t].rows[k].st \in Ended =>
                           AllEnded(k)'
    BY <1>1 DEF RowsOK
  <2>1. /\ k \in DOMAIN th[t].snap
        /\ th[t].rows[k].finish => th[t].rows[k].st \in Ended
        /\ rec[k].gen = th[t].snap[k].gen /\ th[t].rows[k].st \in Ended => AllEnded(k)
    BY <1>5 DEF QueryInv, RowsOK
  <2> QED
    BY <1>3, <2>1 DEF Continues
<1>6. ASSUME th[t].pc \in {"pop", "judge"} PROVE AskedOK(t)'
  BY <1>1, <1>6 DEF QueryInv, AskedOK
<1>7. ASSUME th[t].pc \in Reading PROVE NewOK(t)'
  <2> SUFFICES ASSUME NEW k \in Keys, rec'[k].st \in OnLsf,
                      k \in DOMAIN th[t].snap => th[t].snap[k].gen # rec'[k].gen
               PROVE  miss'[k] = 0
    BY <1>1 DEF NewOK
  <2>1. Continues(k) => rec[k].st \in OnLsf /\ rec[k].gen = rec'[k].gen /\ miss'[k] = miss[k]
    BY DEF Continues, OnLsf
  <2>2. CASE Continues(k)
    BY <1>7, <2>1, <2>2 DEF QueryInv, NewOK
  <2>3. CASE Replaced(k)
    BY <2>3 DEF Replaced
  <2> QED
    BY <2>2, <2>3 DEF WorldMoves
<1>8. ASSUME th[t].pc \in {"update", "lose"} PROVE LostOK(t)'
  <2> SUFFICES ASSUME NEW k \in th[t].lost
               PROVE  /\ k \in DOMAIN th[t].snap
                      /\ rec'[k].gen = th[t].snap[k].gen /\ rec'[k].st \in OnLsf =>
                           miss'[k] >= LostAfter
    BY <1>1 DEF LostOK
  <2>1. /\ k \in DOMAIN th[t].snap
        /\ rec[k].gen = th[t].snap[k].gen /\ rec[k].st \in OnLsf => miss[k] >= LostAfter
    BY <1>8 DEF QueryInv, LostOK
  <2> QED
    BY <1>3, <2>1 DEF Continues, OnLsf
<1> QED
  BY <1>4, <1>5, <1>6, <1>7, <1>8

\* The counts s of the living jobs stay exact when others are dropped: a new
\* execution starts from zero.
LEMMA WorldCounts ==
  ASSUME TypeOK, WorldMoves, NEW s, NEW s1, Counted(s),
         \A k \in DOMAIN s : s[k].gen \in Nat /\ s[k].gen <= gens,
         DOMAIN s1 \subseteq DOMAIN s, \A k \in DOMAIN s1 : s1[k] = s[k],
         \A k \in DOMAIN s \ DOMAIN s1 : ~(rec'[k].st \in OnLsf /\ s[k].gen = rec'[k].gen),
         NEW k \in Keys, rec'[k].st \in OnLsf
  PROVE  miss'[k] = IF k \in DOMAIN s1 /\ s1[k].gen = rec'[k].gen THEN s1[k].n ELSE 0
<1>1. CASE Continues(k)
  <2>1. rec[k].st \in OnLsf /\ rec[k].gen = rec'[k].gen /\ miss'[k] = miss[k]
    BY <1>1 DEF Continues, OnLsf
  <2>2. miss[k] = IF k \in DOMAIN s /\ s[k].gen = rec[k].gen THEN s[k].n ELSE 0
    BY <2>1 DEF Counted
  <2> QED
    BY <2>1, <2>2
<1>2. CASE Replaced(k)
  <2>1. rec'[k].gen = gens + 1 /\ miss'[k] = 0
    BY <1>2 DEF Replaced, OnLsf
  <2>2. k \in DOMAIN s1 => s1[k].gen # gens + 1
    BY DEF TypeOK, StoreType
  <2> QED
    BY <2>1, <2>2
<1> QED
  BY <1>1, <1>2 DEF WorldMoves

\* forget, resubmit and remove do not disturb the counts of what lives.
LEMMA WorldStreak ==
  ASSUME TypeOK, GenInv, StreakInv, WorldMoves
  PROVE  StreakInv'
<1>1. th' = th
  BY DEF WorldMoves
<1>2. \A k \in DOMAIN streaks : streaks[k].gen \in Nat /\ streaks[k].gen <= gens /\ k \in Keys
  BY CountsTyped DEF GenInv
<1>3. ASSUME NEW k \in DOMAIN streaks'
      PROVE  streaks'[k].gen = rec'[k].gen \/ {k} \in forgets'
  <2>1. /\ k \in DOMAIN streaks /\ streaks'[k] = streaks[k] /\ k \in Keys
        /\ {k} \in forgets => {k} \in forgets' \/ streaks[k].gen = rec'[k].gen
        /\ streaks[k].gen = rec[k].gen \/ {k} \in forgets
    BY <1>2 DEF WorldMoves, Forgotten, StreakInv
  <2>2. rec'[k].gen = rec[k].gen \/ {k} \in forgets'
    BY <2>1 DEF WorldMoves, Continues, Replaced
  <2> QED
    BY <2>1, <2>2
<1>4. ASSUME Counted(streaks) PROVE Counted(streaks)'
  <2>1. /\ DOMAIN streaks' \subseteq DOMAIN streaks
        /\ \A k \in DOMAIN streaks' : streaks'[k] = streaks[k]
        /\ \A k \in DOMAIN streaks \ DOMAIN streaks' :
             ~(rec'[k].st \in OnLsf /\ streaks[k].gen = rec'[k].gen)
    BY DEF WorldMoves, Forgotten
  <2>2. \A k \in DOMAIN streaks : streaks[k].gen \in Nat /\ streaks[k].gen <= gens
    BY <1>2
  <2>3. ASSUME NEW k \in Keys, rec'[k].st \in OnLsf
        PROVE  miss'[k] = IF k \in DOMAIN streaks' /\ streaks'[k].gen = rec'[k].gen
                          THEN streaks'[k].n ELSE 0
    BY <1>4, <2>1, <2>2, <2>3, WorldCounts
  <2> QED
    BY <2>3 DEF Counted
<1>5. ASSUME NEW t \in Queriers, Counted(th[t].prev) PROVE Counted(th[t].prev)'
  <2>1. \A k \in DOMAIN th[t].prev : th[t].prev[k].gen \in Nat /\ th[t].prev[k].gen <= gens
    BY CountsTyped DEF GenInv, Threads
  <2>2. \A k \in Keys : rec'[k].st \in OnLsf =>
          miss'[k] = IF k \in DOMAIN th[t].prev /\ th[t].prev[k].gen = rec'[k].gen
                     THEN th[t].prev[k].n ELSE 0
    BY <1>5, <2>1, WorldCounts
  <2> QED
    BY <1>1, <2>2 DEF Counted
<1> QED
  BY <1>1, <1>3, <1>4, <1>5 DEF StreakInv

\* The environment keeps the whole invariant.
LEMMA WorldInv ==
  ASSUME Inv, World
  PROVE  Inv'
<1>1. WorldMoves
  BY WorldEffect DEF Inv
<1>2. TypeOK' /\ TurnInv'
  BY <1>1 DEF WorldMoves, Inv, TypeOK, TurnInv, Busy
<1>3. FormatTight'
  BY <1>1 DEF WorldMoves, Inv, FormatTight, TypeOK, LsfType
<1> QED
  BY <1>1, <1>2, <1>3, WorldGen, WorldRec, WorldQuery, WorldStreak DEF Inv

-----------------------------------------------------------------------------
(* The steps of a query.                                                   *)

\* The steps that only move a query: no record, no count and no execution.
Moving(t) ==
  Enter(t) \/ Snapshot(t) \/ ReadIds(t) \/ ReadFormat(t) \/ Downgrade(t)
  \/ RunBjobs(t) \/ ReadDone(t) \/ Exit(t)

\* The other steps judge and write.
LEMMA QueryCases ==
  ASSUME NEW t, Query(t)
  PROVE  Moving(t) \/ PopStreaks(t) \/ Judge(t) \/ ApplyUpdates(t) \/ ApplyLost(t)
BY DEF Query, Moving

\* They leave the store alone, and the dictionary of counts.
LEMMA MovingKeeps ==
  ASSUME NEW t, Moving(t)
  PROVE  /\ rec' = rec /\ lsf' = lsf /\ streaks' = streaks /\ miss' = miss
         /\ forgets' = forgets /\ gens' = gens
         /\ th[t].pc \notin {"pop", "judge", "update", "lose"}
BY DEF Moving, Enter, Snapshot, ReadIds, ReadFormat, Downgrade, RunBjobs, ReadDone, Exit

\* Only a querier that has the turn judges and writes.
LEMMA JudgeHasTurn ==
  ASSUME TurnInv, NEW t \in Threads, th[t].pc \in {"pop", "judge", "update", "lose"}
  PROVE  t \in Queriers /\ Busy(t) /\ \A u \in Queriers : Busy(u) => u = t
BY DEF TurnInv, Threads, Busy

\* The rows of a query are of jobs in its snapshot.
LEMMA RowsInSnap ==
  ASSUME Inv, NEW t \in Threads, th[t].pc = "update"
  PROVE  t \in Queriers /\ RowsOK(t) /\ SnapOK(t) /\ DOMAIN th[t].rows \subseteq DOMAIN th[t].snap
<1>1. t \in Queriers /\ Busy(t)
  BY JudgeHasTurn DEF Inv
<1>2. RowsOK(t) /\ SnapOK(t)
  BY <1>1 DEF Inv, QueryInv
<1> QED
  BY <1>1, <1>2 DEF RowsOK

\* What the step does to its thread alone.
LEMMA OthersStay ==
  ASSUME Inv, NEW t \in Threads, Query(t)
  PROVE  /\ th' \in [Threads -> ThreadType]
         /\ \A u \in Threads \ {t} : th'[u] = th[u]
<1>1. TypeOK
  BY DEF Inv
<1>2. CASE ApplyUpdates(t)
  <2>1. th[t].pc = "update"
    BY <1>2 DEF ApplyUpdates
  <2> QED
    BY <1>1, <1>2, <2>1, RowsInSnap, UpdateEffect
<1>3. CASE Enter(t) \/ Snapshot(t) \/ Exit(t)
  BY <1>1, <1>3, EnterEffect, SnapshotEffect, ExitEffect
<1>4. CASE ReadIds(t) \/ ReadFormat(t) \/ Downgrade(t) \/ RunBjobs(t) \/ ReadDone(t)
  BY <1>1, <1>4, AskEffect, RunEffect, DoneEffect
<1>5. CASE PopStreaks(t) \/ Judge(t) \/ ApplyLost(t)
  BY <1>1, <1>5, PopEffect, JudgeEffect, LoseEffect
<1> QED
  BY <1>2, <1>3, <1>4, <1>5 DEF Query

\* Every step of a query is typed.
LEMMA TypeStep ==
  ASSUME Inv, NEW t \in Threads, Query(t)
  PROVE  TypeOK'
<1>1. TypeOK /\ th' \in [Threads -> ThreadType]
  BY OthersStay DEF Inv
<1>2. StoreType'
  <2>1. CASE Moving(t) \/ PopStreaks(t)
    BY <1>1, <2>1, MovingKeeps DEF PopStreaks, TypeOK, StoreType
  <2>2. CASE Judge(t)
    BY <1>1, <2>2, JudgeEffect DEF Judge, TypeOK, StoreType
  <2>3. CASE ApplyUpdates(t)
    <3>1. rec' \in [Keys -> RecordType]
      BY <1>1, <2>3, RowsInSnap, UpdateEffect DEF ApplyUpdates
    <3> QED
      BY <1>1, <2>3, <3>1 DEF ApplyUpdates, TypeOK, StoreType
  <2>4. CASE ApplyLost(t)
    <3>1. rec' \in [Keys -> RecordType]
      BY <1>1, <2>4, LoseEffect
    <3> QED
      BY <1>1, <2>4, <3>1 DEF ApplyLost, TypeOK, StoreType
  <2> QED
    BY <2>1, <2>2, <2>3, <2>4, QueryCases
<1>3. LsfType'
  <2>1. lsf' = lsf /\ supported' = supported
    BY DEF Query, Enter, Snapshot, ReadIds, ReadFormat, Downgrade, RunBjobs, ReadDone,
           PopStreaks, Judge, ApplyUpdates, ApplyLost, Exit
  <2>2. fmt' \in 1..Formats
    <3>1. CASE Downgrade(t)
      <4>1. th[t].used \in 1..Formats /\ fmt \in 1..Formats /\ supported \in 1..Formats
        BY <1>1 DEF TypeOK, QueryType, LsfType, ThreadType
      <4>2. th[t].used < supported /\ fmt' = IF fmt = th[t].used THEN fmt + 1 ELSE fmt
        BY <3>1 DEF Downgrade
      <4> QED
        BY <4>1, <4>2, QuerierAssumption
    <3>2. CASE ~Downgrade(t)
      <4>1. fmt' = fmt
        BY <3>2 DEF Query, Enter, Snapshot, ReadIds, ReadFormat, RunBjobs, ReadDone,
                    PopStreaks, Judge, ApplyUpdates, ApplyLost, Exit
      <4> QED
        BY <1>1, <4>1 DEF TypeOK, LsfType
    <3> QED
      BY <3>1, <3>2
  <2> QED
    BY <1>1, <2>1, <2>2 DEF TypeOK, LsfType
<1>4. streaks' \in Dicts(CountType)
  <2>1. CASE PopStreaks(t)
    BY <2>1, InitialThread DEF PopStreaks
  <2>2. CASE Judge(t)
    BY <1>1, <2>2, JudgeEffect
  <2>3. CASE Moving(t) \/ ApplyUpdates(t) \/ ApplyLost(t)
    <3>1. streaks' = streaks
      BY <2>3, MovingKeeps DEF ApplyUpdates, ApplyLost
    <3> QED
      BY <1>1, <3>1 DEF TypeOK, QueryType
  <2> QED
    BY <2>1, <2>2, <2>3, QueryCases
<1>5. table' \in Nat
  <2>1. CASE Enter(t) \/ Exit(t)
    BY <1>1, <2>1, EnterEffect, ExitEffect
  <2>2. CASE ~(Enter(t) \/ Exit(t))
    <3>1. table' = table
      BY <2>2 DEF Query, Snapshot, ReadIds, ReadFormat, Downgrade, RunBjobs, ReadDone,
                  PopStreaks, Judge, ApplyUpdates, ApplyLost
    <3> QED
      BY <1>1, <3>1 DEF TypeOK, QueryType
  <2> QED
    BY <2>1, <2>2
<1> QED
  BY <1>1, <1>2, <1>3, <1>4, <1>5 DEF TypeOK, QueryType

\* _bjobs: a step down is one step, from the format that was refused.
LEMMA FormatStep ==
  ASSUME Inv, NEW t \in Threads, Query(t)
  PROVE  FormatTight'
<1>1. fmt \in 1..Formats /\ supported \in 1..Formats /\ fmt <= supported
      /\ th[t].used \in 1..Formats
  BY DEF Inv, TypeOK, LsfType, QueryType, ThreadType, FormatTight
<1>2. CASE Downgrade(t)
  <2>1. th[t].used < supported /\ fmt' = (IF fmt = th[t].used THEN fmt + 1 ELSE fmt)
        /\ supported' = supported
    BY <1>2 DEF Downgrade
  <2> QED
    BY <1>1, <2>1, QuerierAssumption DEF FormatTight
<1>3. CASE ~Downgrade(t)
  <2>1. fmt' = fmt /\ supported' = supported
    BY <1>3 DEF Query, Enter, Snapshot, ReadIds, ReadFormat, RunBjobs, ReadDone,
                PopStreaks, Judge, ApplyUpdates, ApplyLost, Exit
  <2> QED
    BY <1>1, <2>1 DEF FormatTight
<1> QED
  BY <1>2, <1>3

\* One query at a time, on the entry that is in the table.
LEMMA TurnStep ==
  ASSUME Inv, NEW t \in Threads, Query(t)
  PROVE  TurnInv'
<1>1. TypeOK /\ TurnInv /\ \A u \in Threads \ {t} : th'[u] = th[u]
  BY OthersStay DEF Inv
<1>2. Queriers \cap Readers = {} /\ Threads = Queriers \cup Readers
  BY QuerierAssumption DEF Threads
<1>3. CASE Enter(t)
  <2>1. /\ t \in Queriers /\ th[t].pc = "idle" /\ th'[t].pc = "wait"
        /\ th'[t].entry = table' /\ th'[t].entry # None
        /\ table # None => table' = table
    BY <1>1, <1>3, EnterEffect
  <2> QED
    BY <1>1, <1>2, <2>1 DEF TurnInv, Busy
<1>4. CASE Snapshot(t)
  <2>1. /\ th[t].pc = "wait" /\ th'[t].pc \in {"ask", "exit"} /\ th'[t].entry = th[t].entry
        /\ \A u \in Queriers : Busy(u) => th[u].entry # th[t].entry
        /\ table' = table
    BY <1>1, <1>4, SnapshotEffect DEF Snapshot
  <2>2. t \in Queriers
    BY <1>1, <1>2, <2>1 DEF TurnInv
  <2>3. \A u \in Queriers : ~Busy(u)
    BY <1>1, <2>1, <2>2 DEF TurnInv, Busy
  <2> QED
    BY <1>1, <1>2, <2>1, <2>2, <2>3 DEF TurnInv, Busy
<1>5. CASE ReadIds(t) \/ ReadDone(t)
  <2>1. t \in Readers /\ th'[t].pc \in {"idle", "ask", "run"} /\ table' = table
    BY <1>1, <1>5, AskEffect, DoneEffect DEF ReadIds, ReadDone, Idle
  <2> QED
    BY <1>1, <1>2, <2>1 DEF TurnInv, Busy
<1>6. ASSUME th[t].pc \in {"ask", "run", "pop", "judge", "update", "lose"},
             th'[t].pc \in {"ask", "run", "pop", "judge", "update", "lose", "exit"},
             th'[t].pc \in {"ask", "run"} \/ t \in Queriers,
             th'[t].entry = th[t].entry, table' = table
      PROVE  TurnInv'
  BY <1>1, <1>2, <1>6 DEF TurnInv, Busy
<1>7. CASE ReadFormat(t) \/ Downgrade(t)
  <2>1. th[t].pc \in {"ask", "run"} /\ th'[t].pc \in {"ask", "run"}
        /\ th'[t].entry = th[t].entry /\ table' = table
    <3>1. ~ReadIds(t) \/ th[t].pc \in {"ask", "run"}
      BY <1>7 DEF ReadFormat, Downgrade
    <3> QED
      BY <1>1, <1>7, <3>1, AskEffect DEF ReadFormat, Downgrade
  <2> QED
    BY <1>6, <2>1
<1>8. CASE RunBjobs(t)
  BY <1>1, <1>6, <1>8, RunEffect DEF RunBjobs
<1>9. CASE PopStreaks(t)
  BY <1>1, <1>6, <1>9, PopEffect, JudgeHasTurn DEF PopStreaks
<1>10. CASE Judge(t)
  BY <1>1, <1>6, <1>10, JudgeEffect, JudgeHasTurn DEF Judge
<1>11. CASE ApplyUpdates(t)
  BY <1>1, <1>6, <1>11, UpdateEffect, RowsInSnap DEF ApplyUpdates
<1>12. CASE ApplyLost(t)
  BY <1>1, <1>6, <1>12, LoseEffect, JudgeHasTurn DEF ApplyLost
<1>13. CASE Exit(t)
  <2>1. /\ th[t].pc = "exit" /\ th'[t].pc = "idle" /\ th'[t].entry = None
        /\ table' = IF \A u \in Queriers \ {t} : th[u].entry # th[t].entry THEN None ELSE table
    BY <1>1, <1>13, ExitEffect DEF Idle
  <2>2. t \in Queriers /\ th[t].entry = table
    BY <1>1, <1>2, <2>1 DEF TurnInv
  <2>3. \A u \in Queriers \ {t} : th[u].entry # None => table' = table
    BY <1>1, <2>1, <2>2 DEF TurnInv
  <2> QED
    BY <1>1, <1>2, <2>1, <2>2, <2>3 DEF TurnInv, Busy
<1> QED
  BY <1>3, <1>4, <1>5, <1>7, <1>8, <1>9, <1>10, <1>11, <1>12, <1>13 DEF Query

\* A row or a judgement writes the record of the execution it was about.
LEMMA WriteEffect ==
  ASSUME Inv, NEW t \in Threads, ApplyUpdates(t) \/ ApplyLost(t), NEW k \in Keys
  PROVE  /\ rec'[k].gen = rec[k].gen
         /\ rec'[k] # rec[k] =>
              /\ k \in DOMAIN th[t].snap /\ th[t].snap[k].gen = rec[k].gen
              /\ rec[k].st = th[t].snap[k].st /\ rec[k].st \in OnLsf
              /\ ~rec'[k].killed /\ rec'[k].st # "GONE"
              /\ rec'[k].finish => rec'[k].st \in Ended
              /\ rec'[k].st \in Ended => AllEnded(k)
              /\ rec[k].start => rec'[k].start
              /\ rec'[k].st = "LOST" => miss[k] >= LostAfter
<1>1. TypeOK /\ RecInv /\ GenInv
  BY DEF Inv
<1>2. CASE ApplyUpdates(t)
  <2>1. th[t].pc = "update"
    BY <1>2 DEF ApplyUpdates
  <2>2. t \in Queriers /\ RowsOK(t) /\ SnapOK(t)
    BY <2>1, RowsInSnap
  <2>3. rec'[k] = rec[k] \/ Written(t, k)
    BY <1>1, <1>2, <2>1, RowsInSnap, UpdateEffect
  <2>4. CASE Written(t, k)
    <3>1. /\ k \in DOMAIN th[t].rows /\ Unchanged(rec[k], th[t].snap[k])
          /\ rec'[k].gen = rec[k].gen /\ rec'[k].st = th[t].rows[k].st
          /\ rec'[k].killed = th[t].snap[k].killed
          /\ rec'[k].start <=> th[t].snap[k].start \/ th[t].rows[k].start
          /\ rec'[k].finish <=> th[t].snap[k].finish \/ th[t].rows[k].finish
      BY <2>4 DEF Written
    <3>2. /\ k \in DOMAIN th[t].snap
          /\ rec[k].gen = th[t].snap[k].gen /\ rec[k].st = th[t].snap[k].st
          /\ th[t].rows[k].finish => th[t].rows[k].st \in Ended
          /\ th[t].rows[k].st \in Ended => AllEnded(k)
      BY <2>2, <3>1 DEF RowsOK, Unchanged
    <3>3. /\ th[t].snap[k].st \in OnLsf /\ ~th[t].snap[k].killed /\ ~th[t].snap[k].finish
          /\ rec[k].start = th[t].snap[k].start
      BY <2>1, <2>2, <3>1, <3>2 DEF SnapOK
    <3>4. th[t].rows[k].st \notin {"GONE", "LOST"}
      <4>1. th[t].rows \in Dicts(RowType)
        BY <1>1 DEF TypeOK, QueryType, ThreadType
      <4>2. th[t].rows[k] \in RowType
        BY <3>1, <4>1, DictTo
      <4> QED
        BY <4>2 DEF RowType, OnLsf, Ended
    <3> QED
      BY <3>1, <3>2, <3>3, <3>4
  <2> QED
    BY <2>3, <2>4
<1>3. CASE ApplyLost(t)
  <2>1. th[t].pc = "lose"
    BY <1>3 DEF ApplyLost
  <2>2. t \in Queriers /\ Busy(t)
    BY <2>1, JudgeHasTurn DEF Inv
  <2>3. LostOK(t) /\ SnapOK(t)
    BY <2>1, <2>2 DEF Inv, QueryInv
  <2>4. \/ rec'[k] = rec[k]
        \/ /\ k \in th[t].lost /\ Unchanged(rec[k], th[t].snap[k])
           /\ rec'[k].gen = rec[k].gen /\ rec'[k].st = "LOST"
           /\ rec'[k].killed = rec[k].killed /\ rec'[k].start = rec[k].start
           /\ rec'[k].finish = rec[k].finish
    BY <1>1, <1>3, LoseEffect
  <2>5. ASSUME k \in th[t].lost, Unchanged(rec[k], th[t].snap[k])
        PROVE  /\ k \in DOMAIN th[t].snap /\ th[t].snap[k].gen = rec[k].gen
               /\ rec[k].st = th[t].snap[k].st /\ rec[k].st \in OnLsf
               /\ miss[k] >= LostAfter /\ ~rec[k].killed /\ ~rec[k].finish
    BY <1>1, <2>3, <2>5 DEF LostOK, SnapOK, Unchanged, RecInv, OnLsf, Ended
  <2> QED
    BY <2>4, <2>5 DEF Ended
<1> QED
  BY <1>2, <1>3

\* The executions that are known.
LEMMA GenStep ==
  ASSUME Inv, NEW t \in Threads, Query(t)
  PROVE  GenInv'
<1>1. TypeOK /\ GenInv /\ TurnInv /\ \A u \in Threads \ {t} : th'[u] = th[u]
  BY OthersStay DEF Inv
<1>2. Queriers \subseteq Threads
  BY DEF Threads
<1>3. gens' = gens
  BY QueryCases, MovingKeeps DEF PopStreaks, Judge, ApplyUpdates, ApplyLost
<1>4. ASSUME NEW k \in Keys
      PROVE  rec'[k].gen <= gens /\ (rec'[k].gen = 0 <=> rec'[k].st = "GONE")
  <2>1. rec[k].gen <= gens /\ (rec[k].gen = 0 <=> rec[k].st = "GONE")
    BY <1>1 DEF GenInv
  <2>2. CASE rec'[k] = rec[k]
    BY <2>1, <2>2
  <2>3. CASE rec'[k] # rec[k]
    <3>1. ApplyUpdates(t) \/ ApplyLost(t)
      BY <2>3, QueryCases, MovingKeeps DEF PopStreaks, Judge
    <3>2. rec'[k].gen = rec[k].gen /\ rec[k].st \in OnLsf /\ rec'[k].st # "GONE"
      BY <2>3, <3>1, WriteEffect
    <3> QED
      BY <2>1, <3>2 DEF OnLsf
  <2> QED
    BY <2>2, <2>3
<1>5. ASSUME NEW k \in DOMAIN streaks' PROVE streaks'[k].gen <= gens
  <2>1. CASE PopStreaks(t)
    BY <1>5, <2>1, InitialThread DEF PopStreaks
  <2>2. CASE Judge(t)
    <3>1. /\ DOMAIN streaks' = {j \in Countable(t) : /\ rec[j].gen = th[t].snap[j].gen
                                                     /\ rec[j].st \in OnLsf}
          /\ \A j \in DOMAIN streaks' : streaks'[j].gen = th[t].snap[j].gen
      BY <1>1, <2>2, JudgeEffect
    <3>2. k \in Countable(t) /\ streaks'[k].gen = rec[k].gen
      BY <1>5, <3>1
    <3>3. k \in Keys
      BY <1>1, <3>2, CountableKeys
    <3> QED
      BY <1>1, <3>2, <3>3 DEF GenInv
  <2>3. CASE ~PopStreaks(t) /\ ~Judge(t)
    <3>1. streaks' = streaks
      BY <2>3, QueryCases, MovingKeeps DEF ApplyUpdates, ApplyLost
    <3> QED
      BY <1>1, <3>1, <1>5 DEF GenInv
  <2> QED
    BY <2>1, <2>2, <2>3
<1>6. ASSUME t \in Queriers
      PROVE  /\ \A k \in DOMAIN th'[t].prev : th'[t].prev[k].gen <= gens
             /\ \A k \in DOMAIN th'[t].snap : th'[t].snap[k].gen \in 1..gens
  <2>1. /\ \A k \in DOMAIN th[t].prev : th[t].prev[k].gen <= gens
        /\ \A k \in DOMAIN th[t].snap : th[t].snap[k].gen \in 1..gens
    BY <1>1, <1>6 DEF GenInv
  <2>2. CASE Snapshot(t)
    <3>1. /\ th'[t].prev = th[t].prev
          /\ DOMAIN th'[t].snap = {k \in Keys : rec[k].st \in OnLsf}
          /\ \A k \in DOMAIN th'[t].snap : th'[t].snap[k] = rec[k]
      BY <1>1, <2>2, SnapshotEffect
    <3>2. ASSUME NEW k \in Keys, rec[k].st \in OnLsf PROVE rec[k].gen \in 1..gens
      <4>1. rec[k].gen \in Nat /\ gens \in Nat
        BY <1>1 DEF TypeOK, StoreType, RecordType
      <4>2. rec[k].gen # 0 /\ rec[k].gen <= gens
        BY <1>1, <3>2 DEF GenInv, OnLsf
      <4> QED
        BY <4>1, <4>2
    <3> QED
      BY <2>1, <3>1, <3>2
  <2>3. CASE PopStreaks(t)
    <3>1. th'[t].prev = streaks /\ th'[t].snap = th[t].snap
      BY <1>1, <2>3, PopEffect
    <3> QED
      BY <1>1, <2>1, <3>1 DEF GenInv
  <2>4. CASE Judge(t)
    BY <1>1, <2>1, <2>4, JudgeEffect
  <2>5. CASE ApplyUpdates(t)
    <3>1. th[t].pc = "update"
      BY <2>5 DEF ApplyUpdates
    <3> QED
      BY <1>1, <2>1, <2>5, <3>1, RowsInSnap, UpdateEffect
  <2>6. CASE ApplyLost(t)
    BY <1>1, <2>6, LoseEffect
  <2>7. CASE ReadDone(t) \/ Exit(t)
    <3>1. th'[t] = Idle
      BY <1>1, <2>7, DoneEffect, ExitEffect
    <3>2. Idle.prev = Empty /\ Idle.snap = Empty
      BY DEF Idle
    <3> QED
      BY <3>1, <3>2, InitialThread
  <2>8. CASE Enter(t) \/ ReadIds(t) \/ ReadFormat(t) \/ Downgrade(t) \/ RunBjobs(t)
    <3>1. th'[t].prev = th[t].prev /\ th'[t].snap = th[t].snap
      BY <1>1, <2>8, EnterEffect, AskEffect, RunEffect
    <3> QED
      BY <2>1, <3>1
  <2> QED
    BY <2>2, <2>3, <2>4, <2>5, <2>6, <2>7, <2>8 DEF Query
<1> QED
  BY <1>1, <1>2, <1>3, <1>4, <1>5, <1>6 DEF GenInv

\* What the records say.
LEMMA RecStep ==
  ASSUME Inv, NEW t \in Threads, Query(t)
  PROVE  RecInv'
<1>1. RecInv /\ lsf' = lsf
  BY QueryCases, MovingKeeps DEF Inv, PopStreaks, Judge, ApplyUpdates, ApplyLost
<1> SUFFICES ASSUME NEW k \in Keys
             PROVE  /\ rec'[k].killed => rec'[k].st = "EXIT"
                    /\ rec'[k].finish => rec'[k].st \in Ended
                    /\ rec'[k].st \in Ended /\ ~rec'[k].killed => AllEnded(k)
  BY <1>1 DEF RecInv, AllEnded
<1>2. CASE rec'[k] = rec[k]
  BY <1>1, <1>2 DEF RecInv
<1>3. CASE rec'[k] # rec[k]
  <2>1. ApplyUpdates(t) \/ ApplyLost(t)
    BY <1>3, QueryCases, MovingKeeps DEF PopStreaks, Judge
  <2> QED
    BY <1>3, <2>1, WriteEffect
<1> QED
  BY <1>2, <1>3

\* Who is in the middle of a query while another thread steps: that thread has
\* not the turn and writes nothing.
LEMMA OtherQuery ==
  ASSUME Inv, NEW t \in Threads, Query(t), NEW u \in Queriers, u # t, Busy(u)
  PROVE  /\ th'[u] = th[u]
         /\ rec' = rec /\ lsf' = lsf /\ streaks' = streaks /\ miss' = miss
<1>1. th'[u] = th[u]
  BY OthersStay DEF Threads
<1>2. Moving(t)
  <2>1. ~Moving(t) => th[t].pc \in {"pop", "judge", "update", "lose"}
    BY QueryCases DEF PopStreaks, Judge, ApplyUpdates, ApplyLost
  <2> QED
    BY <2>1, JudgeHasTurn DEF Inv
<1> QED
  BY <1>1, <1>2, MovingKeeps

\* The count of a living job that was asked about and not listed is the number
\* of answers in a row that missed it, this one included.
LEMMA CountIsMiss ==
  ASSUME Inv, NEW t \in Threads, Judge(t), NEW k \in DOMAIN th[t].snap,
         rec[k].gen = th[t].snap[k].gen, rec[k].st \in OnLsf
  PROVE  /\ k \in Keys
         /\ Missed(t, k) <=> k \in Countable(t)
         /\ k \in Countable(t) => miss'[k] = CountOf(t, k)
         /\ k \notin Countable(t) => miss'[k] = 0
<1>1. t \in Queriers /\ th[t].pc = "judge"
  BY JudgeHasTurn DEF Judge, Inv
<1>2. k \in Keys
  BY CountableKeys DEF Inv
<1>3. AskedOK(t) /\ Counted(th[t].prev)
  BY <1>1 DEF Inv, QueryInv, StreakInv
<1>4. Missed(t, k) <=> k \in Countable(t)
  BY <1>3 DEF AskedOK, Missed, Countable
<1>5. miss[k] = IF k \in DOMAIN th[t].prev /\ th[t].prev[k].gen = rec[k].gen
                THEN th[t].prev[k].n ELSE 0
  BY <1>2, <1>3 DEF Counted
<1>6. miss[k] + 1 = CountOf(t, k)
  BY <1>5 DEF CountOf
<1>7. miss'[k] = IF Missed(t, k) THEN miss[k] + 1 ELSE 0
  BY <1>2, JudgeEffect DEF Inv
<1> QED
  BY <1>2, <1>4, <1>6, <1>7

\* The query in progress.
LEMMA QueryStep ==
  ASSUME Inv, NEW t \in Threads, Query(t)
  PROVE  QueryInv'
<1>1. TypeOK /\ TurnInv /\ RecInv /\ QueryInv
  BY DEF Inv
<1> SUFFICES ASSUME NEW u \in Queriers
             PROVE  /\ Busy(u)' => SnapOK(u)'
                    /\ th'[u].pc \in {"pop", "judge", "update"} => RowsOK(u)'
                    /\ th'[u].pc \in {"pop", "judge"} => AskedOK(u)'
                    /\ th'[u].pc \in Reading => NewOK(u)'
                    /\ th'[u].pc \in {"update", "lose"} => LostOK(u)'
  BY DEF QueryInv
<1>2. /\ Busy(u) => SnapOK(u)
      /\ th[u].pc \in {"pop", "judge", "update"} => RowsOK(u)
      /\ th[u].pc \in {"pop", "judge"} => AskedOK(u)
      /\ th[u].pc \in Reading => NewOK(u)
      /\ th[u].pc \in {"update", "lose"} => LostOK(u)
  BY <1>1 DEF QueryInv
<1>3. CASE u # t
  <2>1. th'[u] = th[u]
    BY <1>3, OthersStay DEF Threads
  <2>2. CASE ~Busy(u)
    BY <2>1, <2>2 DEF Busy, Reading
  <2>3. CASE Busy(u)
    <3>1. rec' = rec /\ lsf' = lsf /\ miss' = miss
      BY <1>3, <2>3, OtherQuery
    <3>2. /\ SnapOK(u) => SnapOK(u)'
          /\ RowsOK(u) => RowsOK(u)'
          /\ AskedOK(u) => AskedOK(u)'
          /\ NewOK(u) => NewOK(u)'
          /\ LostOK(u) => LostOK(u)'
      BY <2>1, <3>1 DEF SnapOK, RowsOK, AskedOK, NewOK, LostOK, AllEnded
    <3> QED
      BY <1>2, <2>1, <2>3, <3>2
  <2> QED
    BY <2>2, <2>3
<1>4. CASE u = t
  <2>1. CASE Enter(t) \/ Exit(t) \/ ReadDone(t) \/ ApplyLost(t)
    <3>1. th'[t].pc \in {"idle", "wait", "exit"}
      BY <1>1, <2>1, EnterEffect, ExitEffect, DoneEffect, LoseEffect DEF Idle
    <3> QED
      BY <1>4, <3>1 DEF Busy, Reading
  <2>2. CASE Snapshot(t)
    <3>1. /\ th'[t].pc \in {"ask", "exit"}
          /\ DOMAIN th'[t].snap = {k \in Keys : rec[k].st \in OnLsf}
          /\ \A k \in DOMAIN th'[t].snap : th'[t].snap[k] = rec[k]
          /\ rec' = rec /\ miss' = miss
      BY <1>1, <2>2, SnapshotEffect DEF Snapshot
    <3>2. \A k \in Keys : rec[k].st \in OnLsf => ~rec[k].killed /\ ~rec[k].finish
      BY <1>1 DEF RecInv, OnLsf, Ended
    <3>3. SnapOK(t)'
      BY <3>1, <3>2 DEF SnapOK
    <3>4. NewOK(t)'
      BY <3>1 DEF NewOK
    <3> QED
      BY <1>4, <3>1, <3>3, <3>4
  <2>3. CASE ReadIds(t) \/ ReadFormat(t) \/ Downgrade(t)
    <3>1. ~ReadIds(t)
      BY <1>1, <1>4, QuerierAssumption DEF ReadIds
    <3>2. /\ th[t].pc \in {"ask", "run"} /\ th'[t].pc \in {"ask", "run"}
          /\ th'[t].snap = th[t].snap
          /\ rec' = rec /\ lsf' = lsf /\ miss' = miss
      BY <1>1, <2>3, <3>1, AskEffect, MovingKeeps DEF Moving
    <3>3. Busy(t) /\ th[t].pc \in Reading /\ th'[t].pc \in Reading
      BY <3>2 DEF Busy, Reading
    <3>4. SnapOK(t)' /\ NewOK(t)'
      BY <1>2, <1>4, <3>2, <3>3 DEF SnapOK, NewOK
    <3> QED
      BY <1>4, <3>2, <3>4
  <2>4. CASE RunBjobs(t)
    <3>1. /\ th[t].pc = "run" /\ th'[t].pc = "pop" /\ th'[t].snap = th[t].snap
          /\ AskedOK(t)'
          /\ \A k \in DOMAIN th'[t].rows :
               /\ th'[t].rows[k].finish => th'[t].rows[k].st \in Ended
               /\ th'[t].rows[k].st \in Ended => AllEnded(k)
          /\ rec' = rec /\ lsf' = lsf /\ miss' = miss
      BY <1>1, <2>4, RunEffect, MovingKeeps DEF Moving
    <3>2. Busy(t) /\ th[t].pc \in Reading /\ th'[t].pc \in Reading
      BY <3>1 DEF Busy, Reading
    <3>3. SnapOK(t)' /\ NewOK(t)'
      BY <1>2, <1>4, <3>1, <3>2 DEF SnapOK, NewOK
    <3>4. RowsOK(t)'
      BY <3>1 DEF RowsOK, AskedOK, AllEnded
    <3> QED
      BY <1>4, <3>1, <3>3, <3>4
  <2>5. CASE PopStreaks(t)
    <3>1. /\ th[t].pc = "pop" /\ th'[t].pc = "judge"
          /\ th'[t].snap = th[t].snap /\ th'[t].rows = th[t].rows
          /\ th'[t].asked = th[t].asked /\ th'[t].failed = th[t].failed
          /\ rec' = rec /\ lsf' = lsf /\ miss' = miss
      BY <1>1, <2>5, PopEffect DEF PopStreaks
    <3>2. SnapOK(t) /\ RowsOK(t) /\ AskedOK(t) /\ NewOK(t) /\ th[t].pc \in Reading
      BY <1>2, <1>4, <3>1 DEF Busy, Reading
    <3>3. SnapOK(t)' /\ RowsOK(t)' /\ AskedOK(t)' /\ NewOK(t)'
      BY <3>1, <3>2 DEF SnapOK, RowsOK, AskedOK, NewOK, AllEnded
    <3> QED
      BY <1>4, <3>1, <3>3
  <2>6. CASE Judge(t)
    <3>1. /\ th[t].pc = "judge" /\ th'[t].pc = "update"
          /\ th'[t].snap = th[t].snap /\ th'[t].rows = th[t].rows
          /\ th'[t].lost = {k \in Countable(t) : CountOf(t, k) >= LostAfter}
          /\ rec' = rec /\ lsf' = lsf
      BY <1>1, <2>6, JudgeEffect DEF Judge
    <3>2. SnapOK(t) /\ RowsOK(t) /\ th[t].pc \in Reading
      BY <1>2, <1>4, <3>1 DEF Busy, Reading
    <3>3. SnapOK(t)' /\ RowsOK(t)'
      BY <3>1, <3>2 DEF SnapOK, RowsOK, AllEnded
    <3>4. ASSUME NEW k \in th'[t].lost
          PROVE  /\ k \in DOMAIN th[t].snap
                 /\ rec[k].gen = th[t].snap[k].gen /\ rec[k].st \in OnLsf =>
                      miss'[k] >= LostAfter
      <4>1. k \in Countable(t) /\ CountOf(t, k) >= LostAfter /\ k \in DOMAIN th[t].snap
        BY <1>1, <3>1, <3>4, CountableKeys
      <4> QED
        BY <2>6, <4>1, CountIsMiss
    <3>5. LostOK(t)'
      BY <3>1, <3>4 DEF LostOK
    <3> QED
      BY <1>4, <3>1, <3>3, <3>5 DEF Reading
  <2>7. CASE ApplyUpdates(t)
    <3>0. th[t].pc = "update"
      BY <2>7 DEF ApplyUpdates
    <3>1. /\ th'[t].pc = "lose" /\ th'[t].snap = th[t].snap /\ th'[t].lost = th[t].lost
          /\ lsf' = lsf /\ miss' = miss
      BY <1>1, <2>7, <3>0, RowsInSnap, UpdateEffect DEF ApplyUpdates
    <3>2. SnapOK(t) /\ LostOK(t)
      BY <1>2, <1>4, <3>0 DEF Busy
    <3>3. SnapOK(t)'
      BY <3>1, <3>2 DEF SnapOK, Reading
    <3>4. \A k \in DOMAIN th[t].snap :
            rec'[k].gen = rec[k].gen /\ (rec'[k].st \in OnLsf => rec[k].st \in OnLsf)
      BY <1>1, <2>7, CountableKeys, WriteEffect
    <3>5. LostOK(t)'
      BY <3>1, <3>2, <3>4 DEF LostOK
    <3> QED
      BY <1>4, <3>1, <3>3, <3>5 DEF Reading
  <2> QED
    BY <2>1, <2>2, <2>3, <2>4, <2>5, <2>6, <2>7 DEF Query
<1> QED
  BY <1>3, <1>4

\* The counts: with the dictionary or with the thread that judges.
LEMMA StreakStep ==
  ASSUME Inv, NEW t \in Threads, Query(t)
  PROVE  StreakInv'
<1>1. TypeOK /\ TurnInv /\ StreakInv /\ GenInv /\ \A u \in Threads \ {t} : th'[u] = th[u]
  BY OthersStay DEF Inv
<1>2. Queriers \subseteq Threads
  BY DEF Threads
<1>3. forgets' = forgets
  BY QueryCases, MovingKeeps DEF PopStreaks, Judge, ApplyUpdates, ApplyLost
\* A thread that judges while another one steps has its counts undisturbed.
<1>4. ASSUME NEW u \in Queriers, u # t, th'[u].pc = "judge"
      PROVE  Counted(th[u].prev)'
  <2>1. th'[u] = th[u] /\ Busy(u)
    BY <1>1, <1>2, <1>4 DEF Busy
  <2>2. rec' = rec /\ miss' = miss
    BY <1>4, <2>1, OtherQuery
  <2>3. Counted(th[u].prev)
    BY <1>1, <1>4, <2>1 DEF StreakInv
  <2> QED
    BY <2>1, <2>2, <2>3 DEF Counted
<1>5. CASE Moving(t)
  <2>1. /\ rec' = rec /\ streaks' = streaks /\ miss' = miss
        /\ th[t].pc # "judge"
    BY <1>5, MovingKeeps
  <2>2. th'[t].pc # "judge"
    BY <1>1, <1>5, EnterEffect, SnapshotEffect, AskEffect, RunEffect, DoneEffect, ExitEffect
    DEF Moving, Idle
  <2>3. Counted(streaks) => Counted(streaks)'
    BY <2>1 DEF Counted
  <2>4. (\A u \in Queriers : th'[u].pc # "judge") => \A u \in Queriers : th[u].pc # "judge"
    BY <1>1, <1>2, <2>1
  <2> QED
    BY <1>1, <1>3, <1>4, <2>1, <2>2, <2>3, <2>4 DEF StreakInv
<1>6. CASE PopStreaks(t)
  <2>1. /\ th[t].pc = "pop" /\ th'[t].pc = "judge" /\ th'[t].prev = streaks
        /\ DOMAIN streaks' = {} /\ rec' = rec /\ miss' = miss
    BY <1>1, <1>6, PopEffect, InitialThread DEF PopStreaks
  <2>2. t \in Queriers /\ \A u \in Queriers : th[u].pc # "judge"
    BY <1>1, <2>1, JudgeHasTurn DEF Busy
  <2>3. Counted(streaks)
    BY <1>1, <2>2 DEF StreakInv
  <2>4. Counted(th[t].prev)'
    BY <2>1, <2>3 DEF Counted
  <2> QED
    BY <1>4, <2>1, <2>2, <2>4 DEF StreakInv
<1>7. CASE Judge(t)
  <2>1. /\ th[t].pc = "judge" /\ th'[t].pc = "update" /\ rec' = rec
        /\ DOMAIN streaks' = {k \in Countable(t) : /\ rec[k].gen = th[t].snap[k].gen
                                                   /\ rec[k].st \in OnLsf}
        /\ \A k \in DOMAIN streaks' : /\ streaks'[k].gen = th[t].snap[k].gen
                                      /\ streaks'[k].n = CountOf(t, k)
        /\ \A k \in Keys :
             k \notin DOMAIN th[t].snap \/ rec[k].gen # th[t].snap[k].gen => miss'[k] = miss[k]
    BY <1>1, <1>7, JudgeEffect DEF Judge
  <2>2. t \in Queriers /\ NewOK(t)
    <3>1. t \in Queriers
      BY <1>1, <2>1, JudgeHasTurn
    <3> QED
      BY <2>1, <3>1 DEF Inv, QueryInv, Reading
  <2>3. \A k \in DOMAIN streaks' : streaks'[k].gen = rec'[k].gen
    BY <2>1
  <2>4. ASSUME NEW k \in Keys, rec[k].st \in OnLsf
        PROVE  miss'[k] = IF k \in DOMAIN streaks' /\ streaks'[k].gen = rec[k].gen
                          THEN streaks'[k].n ELSE 0
    <3>1. CASE k \in DOMAIN th[t].snap /\ rec[k].gen = th[t].snap[k].gen
      <4>1. /\ k \in Countable(t) => miss'[k] = CountOf(t, k)
            /\ k \notin Countable(t) => miss'[k] = 0
        BY <1>7, <2>4, <3>1, CountIsMiss
      <4>2. k \in DOMAIN streaks' <=> k \in Countable(t)
        BY <2>1, <2>4, <3>1
      <4> QED
        BY <2>1, <3>1, <4>1, <4>2
    <3>2. CASE ~(k \in DOMAIN th[t].snap /\ rec[k].gen = th[t].snap[k].gen)
      <4>1. miss[k] = 0
        BY <2>2, <2>4, <3>2 DEF NewOK
      <4>2. miss'[k] = 0
        BY <2>1, <3>2, <4>1
      <4>3. k \notin DOMAIN streaks'
        <5>1. Countable(t) \subseteq DOMAIN th[t].snap
          BY <1>1, CountableKeys
        <5> QED
          BY <2>1, <3>2, <5>1
      <4> QED
        BY <4>2, <4>3
    <3> QED
      BY <3>1, <3>2
  <2>5. Counted(streaks)'
    BY <2>1, <2>4 DEF Counted
  <2> QED
    BY <1>4, <2>1, <2>3, <2>5 DEF StreakInv
<1>8. CASE ApplyUpdates(t) \/ ApplyLost(t)
  <2>1. streaks' = streaks /\ miss' = miss /\ th[t].pc \in {"update", "lose"}
    BY <1>8 DEF ApplyUpdates, ApplyLost
  <2>2. th'[t].pc # "judge"
    <3>1. CASE ApplyUpdates(t)
      <4>1. th[t].pc = "update"
        BY <3>1 DEF ApplyUpdates
      <4> QED
        BY <1>1, <3>1, <4>1, RowsInSnap, UpdateEffect
    <3>2. CASE ApplyLost(t)
      BY <1>1, <3>2, LoseEffect
    <3> QED
      BY <1>8, <3>1, <3>2
  <2>3. \A k \in Keys : rec'[k].gen = rec[k].gen /\ (rec'[k].st \in OnLsf => rec[k].st \in OnLsf)
    BY <1>8, WriteEffect
  <2>4. Counted(streaks) => Counted(streaks)'
    BY <2>1, <2>3 DEF Counted
  <2>5. \A k \in DOMAIN streaks' : streaks'[k].gen = rec'[k].gen \/ {k} \in forgets'
    <3>1. \A k \in DOMAIN streaks : k \in Keys
      BY <1>1, CountsTyped
    <3> QED
      BY <1>1, <1>3, <2>1, <2>3, <3>1 DEF StreakInv
  <2>6. (\A u \in Queriers : th'[u].pc # "judge") => \A u \in Queriers : th[u].pc # "judge"
    BY <1>1, <1>2, <2>1
  <2> QED
    BY <1>1, <1>4, <2>2, <2>4, <2>5, <2>6 DEF StreakInv
<1> QED
  BY <1>5, <1>6, <1>7, <1>8, QueryCases

-----------------------------------------------------------------------------
(* Theorems.                                                               *)

\* The first state: nothing is asked, and nothing is missed.
LEMMA InvInit == Init => Inv
<1> SUFFICES ASSUME Init PROVE Inv
  OBVIOUS
<1>1. PICK present \in SUBSET Keys :
        rec = [k \in Keys |-> IF k \in present THEN NewRec(1, FALSE) ELSE NoRec]
  BY DEF Init
<1>2. \A k \in Keys : /\ rec[k] \in RecordType /\ ~rec[k].killed /\ ~rec[k].finish
                      /\ \/ rec[k].gen = 1 /\ rec[k].st = "PEND"
                         \/ rec[k].gen = 0 /\ rec[k].st = "GONE"
  BY <1>1, NewRecType
<1>3. /\ streaks = Empty /\ table = None /\ th = [t \in Threads |-> Idle] /\ fmt = 1
      /\ supported = 1 /\ forgets = {} /\ gens = 1 /\ miss = [k \in Keys |-> 0]
      /\ lsf = [k \in Keys |-> [e \in Elements[k] |-> "PEND"]]
  BY DEF Init
<1>4. /\ Empty \in Dicts(CountType) /\ DOMAIN Empty = {} /\ Idle \in ThreadType
      /\ Idle.pc = "idle" /\ Idle.entry = None /\ Idle.snap = Empty /\ Idle.prev = Empty
  <2>1. Idle.pc = "idle" /\ Idle.entry = None /\ Idle.snap = Empty /\ Idle.prev = Empty
    BY DEF Idle
  <2> QED
    BY <2>1, InitialThread
<1>5. TypeOK
  <2>1. rec \in [Keys -> RecordType]
    BY <1>1, <1>2
  <2>2. StoreType
    BY <1>3, <2>1 DEF StoreType
  <2>3. LsfType
    BY <1>3, QuerierAssumption DEF LsfType, OnLsf
  <2>4. QueryType
    BY <1>3, <1>4 DEF QueryType, None
  <2> QED
    BY <2>2, <2>3, <2>4 DEF TypeOK
<1>6. \A t \in Threads : th[t] = Idle
  BY <1>3
<1>7. TurnInv
  BY <1>4, <1>6 DEF TurnInv, Busy, Threads
<1>8. GenInv
  BY <1>2, <1>3, <1>4, <1>6 DEF GenInv, Threads
<1>9. RecInv
  BY <1>2 DEF RecInv, Ended
<1>10. QueryInv
  BY <1>4, <1>6 DEF QueryInv, Busy, Reading, Threads
<1>11. StreakInv
  BY <1>3, <1>4, <1>6 DEF StreakInv, Counted, Threads
<1>12. FormatTight
  BY <1>3 DEF FormatTight
<1> QED
  BY <1>5, <1>7, <1>8, <1>9, <1>10, <1>11, <1>12 DEF Inv

\* Every step keeps it.
LEMMA InvStep == Inv /\ [Next]_vars => Inv'
<1> SUFFICES ASSUME Inv, [Next]_vars PROVE Inv'
  OBVIOUS
<1>1. ASSUME NEW t \in Threads, Query(t) PROVE Inv'
  BY <1>1, TypeStep, TurnStep, GenStep, RecStep, QueryStep, StreakStep, FormatStep DEF Inv
<1>2. CASE World
  BY <1>2, WorldInv
<1>3. CASE UNCHANGED vars
  BY <1>3 DEF vars, Inv, TypeOK, StoreType, LsfType, QueryType, TurnInv, Busy, GenInv, RecInv,
     AllEnded, QueryInv, SnapOK, RowsOK, AskedOK, NewOK, LostOK, StreakInv, Counted, FormatTight
<1> QED
  BY <1>1, <1>2, <1>3 DEF Next, World

\* The inductive invariant holds throughout, for any number of jobs, elements,
\* executions, threads, chunks and formats of JobsetQuerier.
THEOREM Invariant == Spec => []Inv
BY InvInit, InvStep, PTL DEF Spec

\* The records, the counts and the threads have their types in every state.
THEOREM TypeCorrect == Spec => []TypeOK
<1>1. Inv => TypeOK
  BY DEF Inv
<1> QED
  BY <1>1, Invariant, PTL

\* _bjobs: however many threads meet a field error together, the format is
\* never taken past the first one that LSF understands.
THEOREM FormatTightHolds == Spec => []FormatTight
<1>1. Inv => FormatTight
  BY DEF Inv
<1> QED
  BY <1>1, Invariant, PTL

\* The guard `unchanged' and _aggregate_elements: a record says that its job
\* ended only if all elements of this execution have, and a kill's mark stays.
THEOREM EndIsRealHolds == Spec => []EndIsReal
<1>1. Inv => EndIsReal
  BY DEF Inv, RecInv, AllEnded, EndIsReal
<1> QED
  BY <1>1, Invariant, PTL

\* _judge_missing and forget: no count outlives its execution once the forget of
\* it is done, and between two queries the counts of the living jobs are exact.
THEOREM StreakExactHolds == Spec => []StreakExact
<1>1. Inv => StreakExact
  BY DEF Inv, StreakInv, Counted, Busy, StreakExact
<1> QED
  BY <1>1, Invariant, PTL

\* _judge_missing: LOST only after LostAfter answers in a row that asked about
\* this very execution and did not list it.
THEOREM NoEarlyLostHolds == Spec => NoEarlyLost
<1>1. ASSUME Inv, [Next]_vars, NEW k \in Keys, rec[k].st # "LOST", rec'[k].st = "LOST"
      PROVE  miss[k] >= LostAfter
  <2>1. ASSUME NEW t \in Threads, Query(t) PROVE miss[k] >= LostAfter
    <3>1. ApplyUpdates(t) \/ ApplyLost(t)
      BY <1>1, <2>1, QueryCases, MovingKeeps DEF PopStreaks, Judge
    <3> QED
      BY <1>1, <3>1, WriteEffect
  <2>2. ~World
    <3> SUFFICES ASSUME World PROVE FALSE
      OBVIOUS
    <3>1. Continues(k) \/ Replaced(k)
      BY <1>1, WorldEffect DEF WorldMoves, Inv
    <3> QED
      BY <1>1, <3>1 DEF Continues, Replaced
  <2>3. ~UNCHANGED vars
    BY <1>1 DEF vars
  <2> QED
    BY <1>1, <2>1, <2>2, <2>3 DEF Next, World
<1>2. Inv /\ [Next]_vars =>
        [\A k \in Keys : rec[k].st # "LOST" /\ rec'[k].st = "LOST" => miss[k] >= LostAfter]_vars
  BY <1>1
<1> QED
  BY <1>2, Invariant, PTL DEF Spec, NoEarlyLost

\* merge_fields and _parse_bjobs: a downgraded format costs a record nothing it
\* knows of its execution, and an estimate is never stored as a finish time.
THEOREM FieldsKeptHolds == Spec => FieldsKept
<1>1. ASSUME Inv, [Next]_vars, NEW k \in Keys
      PROVE  /\ rec'[k].gen = rec[k].gen /\ rec[k].start => rec'[k].start
             /\ rec'[k].finish => rec'[k].st \in Ended
  <2>1. rec'[k].finish => rec'[k].st \in Ended
    BY <1>1, InvStep DEF Inv, RecInv
  <2>2. ASSUME rec'[k].gen = rec[k].gen, rec[k].start PROVE rec'[k].start
    <3>1. CASE UNCHANGED vars
      BY <2>2, <3>1 DEF vars
    <3>2. CASE World
      <4>1. gens \in Nat /\ rec[k].gen \in Nat /\ rec[k].gen <= gens
            /\ (rec[k].gen = 0 <=> rec[k].st = "GONE")
        BY <1>1 DEF Inv, TypeOK, StoreType, RecordType, GenInv
      <4>2. ~Replaced(k)
        BY <2>2, <4>1 DEF Replaced
      <4>3. Continues(k)
        BY <1>1, <3>2, <4>2, WorldEffect DEF WorldMoves, Inv
      <4> QED
        BY <2>2, <4>3 DEF Continues
    <3>3. ASSUME NEW t \in Threads, Query(t) PROVE rec'[k].start
      <4>1. CASE rec'[k] = rec[k]
        BY <2>2, <4>1
      <4>2. CASE rec'[k] # rec[k]
        <5>1. ApplyUpdates(t) \/ ApplyLost(t)
          BY <3>3, <4>2, QueryCases, MovingKeeps DEF PopStreaks, Judge
        <5> QED
          BY <1>1, <2>2, <4>2, <5>1, WriteEffect
      <4> QED
        BY <4>1, <4>2
    <3> QED
      BY <1>1, <3>1, <3>2, <3>3 DEF Next, World
  <2> QED
    BY <2>1, <2>2
<1>2. Inv /\ [Next]_vars =>
        [\A k \in Keys : /\ rec'[k].gen = rec[k].gen /\ rec[k].start => rec'[k].start
                         /\ rec'[k].finish => rec'[k].st \in Ended]_vars
  BY <1>1
<1> QED
  BY <1>2, Invariant, PTL DEF Spec, FieldsKept
=============================================================================
