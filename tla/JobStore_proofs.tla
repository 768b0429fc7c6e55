--------------------------- MODULE JobStore_proofs ---------------------------
(***************************************************************************)
(* The store and jobset_core for any finite set of keys, any set of        *)
(* threads and any bounds.                                                 *)
(***************************************************************************)
EXTENDS JobStore, FiniteSetTheorems, TLAPS

-----------------------------------------------------------------------------
(* Dictionaries and counters.                                              *)

\* What setting an entry does to a dictionary.
LEMMA WithDict ==
  ASSUME NEW D, NEW R, NEW d, IsDict(d, D, R), NEW k \in D, NEW v \in R
  PROVE  /\ IsDict(With(d, k, v), D, R)
         /\ DOMAIN With(d, k, v) = DOMAIN d \cup {k}
         /\ With(d, k, v)[k] = v
         /\ \A x \in DOMAIN d \ {k} : With(d, k, v)[x] = d[x]
  BY DEF IsDict, With

\* What removing an entry does to a dictionary.
LEMMA WithoutDict ==
  ASSUME NEW D, NEW R, NEW d, IsDict(d, D, R), NEW k
  PROVE  /\ IsDict(Without(d, k), D, R)
         /\ DOMAIN Without(d, k) = DOMAIN d \ {k}
         /\ \A x \in DOMAIN d \ {k} : Without(d, k)[x] = d[x]
  BY DEF IsDict, Without

\* The empty dictionary.
LEMMA EmptyDict ==
  ASSUME NEW D, NEW R
  PROVE  IsDict(Empty, D, R) /\ DOMAIN Empty = {}
  BY DEF IsDict, Empty

Counters(c) == IsDict(c, States, Nat \ {0})

\* _count_del takes one off an entry and leaves the others alone.
LEMMA CountDelGet ==
  ASSUME NEW c, Counters(c), NEW s \in States
  PROVE  /\ Counters(CountDel(c, s))
         /\ \A t \in States : Get(CountDel(c, s), t) =
              IF t = s /\ Get(c, s) > 0 THEN Get(c, s) - 1 ELSE Get(c, t)
<1>0. Get(c, s) \in Nat
  BY DEF Get, Counters, IsDict
<1>1. CASE Get(c, s) > 1
  <2>1. s \in DOMAIN c /\ c[s] \in Nat /\ c[s] > 1
    BY <1>1 DEF Get, Counters, IsDict
  <2>2. c[s] - 1 \in Nat \ {0}
    BY <2>1
  <2>3. Counters(With(c, s, c[s] - 1))
    BY <2>2, WithDict DEF Counters
  <2>4. \A t \in States : Get(With(c, s, c[s] - 1), t) =
              IF t = s THEN Get(c, s) - 1 ELSE Get(c, t)
    BY <2>1 DEF Get, With
  <2>5. CountDel(c, s) = With(c, s, c[s] - 1)
    BY <1>1 DEF CountDel
  <2> QED BY <1>0, <1>1, <2>3, <2>4, <2>5
<1>2. CASE ~(Get(c, s) > 1)
  <2>1. Get(c, s) \in {0, 1}
    BY <1>2 DEF Get, Counters, IsDict
  <2>2. Counters(Without(c, s))
    BY WithoutDict DEF Counters
  <2>3. \A t \in States : Get(Without(c, s), t) = IF t = s THEN 0 ELSE Get(c, t)
    BY DEF Get, Without
  <2>4. CountDel(c, s) = Without(c, s)
    BY <1>2 DEF CountDel
  <2> QED BY <2>1, <2>2, <2>3, <2>4
<1> QED BY <1>1, <1>2

\* Counting one more.
LEMMA CountAddGet ==
  ASSUME NEW c, Counters(c), NEW s \in States
  PROVE  /\ Counters(CountAdd(c, s))
         /\ \A t \in States : Get(CountAdd(c, s), t) =
              IF t = s THEN Get(c, s) + 1 ELSE Get(c, t)
<1>1. Get(c, s) + 1 \in Nat \ {0}
  BY DEF Get, Counters, IsDict
<1>2. Counters(CountAdd(c, s))
  BY <1>1, WithDict DEF Counters, CountAdd
<1>3. \A t \in States : Get(CountAdd(c, s), t) =
              IF t = s THEN Get(c, s) + 1 ELSE Get(c, t)
  BY DEF Get, With, CountAdd
<1> QED BY <1>2, <1>3

-----------------------------------------------------------------------------
(* The funnel.                                                             *)

Jobs(j) == IsDict(j, Keys, Records)

\* Only finitely many records have a state, whatever the dictionary.
LEMMA FiniteStates ==
  ASSUME NEW j, Jobs(j), NEW s
  PROVE  /\ IsFiniteSet(DOMAIN j)
         /\ IsFiniteSet({key \in DOMAIN j : j[key].state = s})
<1>1. IsFiniteSet(DOMAIN j)
  BY JobStoreAssumption, FS_Subset, DOMAIN j \in SUBSET Keys DEF Jobs, IsDict
<1>2. {key \in DOMAIN j : j[key].state = s} \in SUBSET DOMAIN j
  OBVIOUS
<1> QED BY <1>1, <1>2, FS_Subset

\* _put_rec keeps the counters in step with the records.
LEMMA PutCorrect ==
  ASSUME Jobs(jobs), Counters(counts), CountsOK,
         NEW key \in Keys, NEW r \in Records, PutRec(key, r)
  PROVE  /\ Jobs(jobs') /\ Counters(counts') /\ CountsOK'
         /\ DOMAIN jobs' = DOMAIN jobs \cup {key}
         /\ jobs'[key] = r
         /\ \A x \in DOMAIN jobs \ {key} : jobs'[x] = jobs[x]
<1> DEFINE base == IF key \in DOMAIN jobs THEN CountDel(counts, jobs[key].state) ELSE counts
<1>1. jobs' = With(jobs, key, r) /\ counts' = CountAdd(base, r.state)
  BY DEF PutRec
<1>2. /\ Jobs(jobs')
      /\ DOMAIN jobs' = DOMAIN jobs \cup {key}
      /\ jobs'[key] = r
      /\ \A x \in DOMAIN jobs \ {key} : jobs'[x] = jobs[x]
  BY <1>1 DEF Jobs, IsDict, With
<1>3. r.state \in States /\ (key \in DOMAIN jobs => jobs[key].state \in States)
  BY DEF Records, Jobs, IsDict
<1>4. ASSUME NEW s \in States
      PROVE  /\ IsFiniteSet(InState(s) \ {key})
             /\ Cardinality(InState(s) \ {key}) \in Nat
             /\ Get(base, s) = Cardinality(InState(s) \ {key})
  <2>1. /\ IsFiniteSet(InState(s))
        /\ Cardinality(InState(s)) \in Nat
    BY FiniteStates, FS_CardinalityType DEF InState
  <2>2. /\ IsFiniteSet(InState(s) \ {key})
        /\ Cardinality(InState(s) \ {key}) =
             IF key \in InState(s) THEN Cardinality(InState(s)) - 1 ELSE Cardinality(InState(s))
    BY <2>1, FS_RemoveElement
  <2>3. Cardinality(InState(s) \ {key}) \in Nat
    BY <2>2, FS_CardinalityType
  <2>4. Get(counts, s) = Cardinality(InState(s))
    BY DEF CountsOK
  <2>5. CASE key \in DOMAIN jobs /\ jobs[key].state = s
    <3>1. key \in InState(s)
      BY <2>5 DEF InState
    <3>2. Get(counts, s) > 0
      BY <3>1, <2>1, <2>2, <2>3, <2>4
    <3>3. Get(base, s) = Get(counts, s) - 1
      BY <3>2, <2>5, CountDelGet
    <3> QED BY <3>1, <3>3, <2>2, <2>3, <2>4
  <2>6. CASE key \in DOMAIN jobs /\ jobs[key].state # s
    <3>1. key \notin InState(s)
      BY <2>6 DEF InState
    <3>2. Get(base, s) = Get(counts, s)
      BY <1>3, <2>6, CountDelGet
    <3> QED BY <3>1, <3>2, <2>2, <2>3, <2>4
  <2>7. CASE key \notin DOMAIN jobs
    <3>1. key \notin InState(s)
      BY <2>7 DEF InState
    <3> QED BY <3>1, <2>7, <2>2, <2>3, <2>4
  <2> QED BY <2>5, <2>6, <2>7
<1>5. Counters(base)
  BY <1>3, CountDelGet
<1>6. Counters(counts') /\ \A t \in States :
        Get(counts', t) = IF t = r.state THEN Get(base, r.state) + 1 ELSE Get(base, t)
  BY <1>1, <1>3, <1>5, CountAddGet
<1>7. ASSUME NEW s \in States
      PROVE  Get(counts', s) = Cardinality(InState(s)')
  <2>1. CASE s = r.state
    <3>1. InState(s)' = (InState(s) \ {key}) \cup {key}
      BY <1>2, <2>1 DEF InState
    <3>2. Cardinality(InState(s)') = Cardinality(InState(s) \ {key}) + 1
      BY <3>1, <1>4, FS_AddElement
    <3> QED BY <3>2, <2>1, <1>4, <1>6
  <2>2. CASE s # r.state
    <3>1. InState(s)' = InState(s) \ {key}
      BY <1>2, <2>2 DEF InState
    <3> QED BY <3>1, <2>2, <1>4, <1>6
  <2> QED BY <2>1, <2>2
<1>8. CountsOK'
  BY <1>7 DEF CountsOK
<1> QED BY <1>2, <1>6, <1>8

\* ... and so does _drop_rec.
LEMMA DropCorrect ==
  ASSUME Jobs(jobs), Counters(counts), CountsOK,
         NEW key \in DOMAIN jobs, DropRec(key)
  PROVE  /\ Jobs(jobs') /\ Counters(counts') /\ CountsOK'
         /\ DOMAIN jobs' = DOMAIN jobs \ {key}
         /\ \A x \in DOMAIN jobs \ {key} : jobs'[x] = jobs[x]
<1>1. jobs' = Without(jobs, key) /\ counts' = CountDel(counts, jobs[key].state)
  BY DEF DropRec
<1>2. /\ Jobs(jobs')
      /\ DOMAIN jobs' = DOMAIN jobs \ {key}
      /\ \A x \in DOMAIN jobs \ {key} : jobs'[x] = jobs[x]
  BY <1>1 DEF Jobs, IsDict, Without
<1>3. jobs[key].state \in States
  BY DEF Records, Jobs, IsDict
<1>4. Counters(counts') /\ \A t \in States :
        Get(counts', t) = IF t = jobs[key].state /\ Get(counts, t) > 0
                          THEN Get(counts, t) - 1 ELSE Get(counts, t)
  BY <1>1, <1>3, CountDelGet
<1>5. ASSUME NEW s \in States
      PROVE  Get(counts', s) = Cardinality(InState(s)')
  <2>1. /\ IsFiniteSet(InState(s))
        /\ Cardinality(InState(s)) \in Nat
    BY FiniteStates, FS_CardinalityType DEF InState
  <2>2. /\ IsFiniteSet(InState(s) \ {key})
        /\ Cardinality(InState(s) \ {key}) =
             IF key \in InState(s) THEN Cardinality(InState(s)) - 1 ELSE Cardinality(InState(s))
    BY <2>1, FS_RemoveElement
  <2>3. Cardinality(InState(s) \ {key}) \in Nat
    BY <2>2, FS_CardinalityType
  <2>4. InState(s)' = InState(s) \ {key}
    BY <1>2 DEF InState
  <2>5. key \in InState(s) <=> jobs[key].state = s
    BY DEF InState
  <2>6. Get(counts, s) = Cardinality(InState(s))
    BY DEF CountsOK
  <2> QED BY <1>4, <2>1, <2>2, <2>3, <2>4, <2>5, <2>6
<1>6. CountsOK'
  BY <1>5 DEF CountsOK
<1> QED BY <1>2, <1>4, <1>6

\* A write of a record that is there changes that record only.
LEMMA ReplaceCorrect ==
  ASSUME Jobs(jobs), Counters(counts), CountsOK,
         NEW key \in DOMAIN jobs, NEW r \in Records, ReplaceRec(key, r)
  PROVE  /\ Jobs(jobs') /\ Counters(counts') /\ CountsOK'
         /\ DOMAIN jobs' = DOMAIN jobs
         /\ jobs'[key] = [r EXCEPT !.revision = jobs[key].revision + 1]
         /\ \A x \in DOMAIN jobs \ {key} : jobs'[x] = jobs[x]
<1> DEFINE w == [r EXCEPT !.revision = jobs[key].revision + 1]
<1>1. key \in Keys /\ w \in Records
  BY DEF Jobs, IsDict, Records
<1>2. PutRec(key, w)
  BY DEF ReplaceRec, NextRevision
<1> QED BY <1>1, <1>2, PutCorrect

-----------------------------------------------------------------------------
(* Records, counters and executions.                                       *)

Data == Jobs(jobs) /\ Counters(counts) /\ CountsOK /\ GenerationInv

\* A write that keeps the execution of a record keeps Data.
LEMMA KeepExecution ==
  ASSUME StoreInv, NEW key \in DOMAIN jobs, NEW r \in Records, r.gen = jobs[key].gen,
         ReplaceRec(key, r), fresh' = fresh
  PROVE  Data' /\ DOMAIN jobs' = DOMAIN jobs
<1>1. /\ Jobs(jobs') /\ Counters(counts') /\ CountsOK'
      /\ DOMAIN jobs' = DOMAIN jobs
      /\ jobs'[key] = [r EXCEPT !.revision = jobs[key].revision + 1]
      /\ \A x \in DOMAIN jobs \ {key} : jobs'[x] = jobs[x]
  BY ReplaceCorrect DEF StoreInv, TypeOK, Jobs, Counters
<1>2. jobs'[key].gen = jobs[key].gen
  BY <1>1 DEF Records
<1>3. GenerationInv'
  BY <1>1, <1>2 DEF StoreInv, GenerationInv
<1> QED BY <1>1, <1>3 DEF Data

\* A write that starts a new execution of a record keeps Data, ...
LEMMA StartExecution ==
  ASSUME StoreInv, NEW key \in DOMAIN jobs, NEW r \in Records, r.gen = fresh[key],
         ReplaceRec(key, r), NewGeneration(key)
  PROVE  Data' /\ DOMAIN jobs' = DOMAIN jobs
<1>1. /\ Jobs(jobs') /\ Counters(counts') /\ CountsOK'
      /\ DOMAIN jobs' = DOMAIN jobs
      /\ jobs'[key] = [r EXCEPT !.revision = jobs[key].revision + 1]
      /\ \A x \in DOMAIN jobs \ {key} : jobs'[x] = jobs[x]
  BY ReplaceCorrect DEF StoreInv, TypeOK, Jobs, Counters
<1>2. jobs'[key].gen = fresh[key]
  BY <1>1 DEF Records
<1>3. fresh \in [Keys -> Nat] /\ DOMAIN jobs \subseteq Keys
  BY DEF StoreInv, TypeOK, IsDict
<1>4. /\ fresh'[key] = fresh[key] + 1 /\ fresh[key] < fresh'[key]
      /\ \A x \in DOMAIN jobs \ {key} : fresh'[x] = fresh[x]
  BY <1>3 DEF NewGeneration
<1>5. GenerationInv'
  BY <1>1, <1>2, <1>4 DEF StoreInv, GenerationInv
<1> QED BY <1>1, <1>5 DEF Data

\* ... and so does a new record.
LEMMA AddRecord ==
  ASSUME StoreInv, NEW key \in Keys, PutRec(key, NewRec(key)), NewGeneration(key)
  PROVE  Data' /\ DOMAIN jobs' = DOMAIN jobs \cup {key}
<1>0. fresh \in [Keys -> Nat] /\ DOMAIN jobs \subseteq Keys
  BY DEF StoreInv, TypeOK, IsDict
<1>1. NewRec(key) \in Records /\ NewRec(key).gen = fresh[key]
  BY <1>0 DEF NewRec, Records, States
<1>2. /\ Jobs(jobs') /\ Counters(counts') /\ CountsOK'
      /\ DOMAIN jobs' = DOMAIN jobs \cup {key}
      /\ jobs'[key] = NewRec(key)
      /\ \A x \in DOMAIN jobs \ {key} : jobs'[x] = jobs[x]
  BY <1>1, PutCorrect DEF StoreInv, TypeOK, Jobs, Counters
<1>3. /\ fresh'[key] = fresh[key] + 1 /\ fresh[key] < fresh'[key]
      /\ \A x \in DOMAIN jobs \ {key} : fresh'[x] = fresh[x]
  BY <1>0 DEF NewGeneration
<1>4. GenerationInv'
  BY <1>1, <1>2, <1>3 DEF StoreInv, GenerationInv
<1> QED BY <1>2, <1>4 DEF Data

\* A deletion keeps Data.
LEMMA DeleteRecord ==
  ASSUME StoreInv, NEW key \in DOMAIN jobs, DropRec(key), fresh' = fresh
  PROVE  Data' /\ DOMAIN jobs' = DOMAIN jobs \ {key}
<1>1. /\ Jobs(jobs') /\ Counters(counts') /\ CountsOK'
      /\ DOMAIN jobs' = DOMAIN jobs \ {key}
      /\ \A x \in DOMAIN jobs \ {key} : jobs'[x] = jobs[x]
  BY DropCorrect DEF StoreInv, TypeOK, Jobs, Counters
<1>2. GenerationInv'
  BY <1>1 DEF StoreInv, GenerationInv
<1> QED BY <1>1, <1>2 DEF Data

\* What is not written keeps Data.
LEMMA NoWrite ==
  ASSUME StoreInv, UNCHANGED <<jobs, counts, fresh>>
  PROVE  Data' /\ DOMAIN jobs' = DOMAIN jobs
  BY DEF StoreInv, Data, TypeOK, Jobs, Counters, CountsOK, InState, GenerationInv

\* A transition of a thread that does not edit.
LEMMA WorkData ==
  ASSUME StoreInv, Working
  PROVE  Data' /\ DOMAIN jobs' = DOMAIN jobs /\ UNCHANGED <<exists, editVars>>
<1>0. /\ fresh \in [Keys -> Nat] /\ DOMAIN jobs \subseteq Keys
      /\ \A key \in DOMAIN jobs : jobs[key] \in Records
  BY DEF StoreInv, TypeOK, IsDict
<1>1. CASE \E ks \in SUBSET Keys : Submit(ks)
  BY <1>1, NoWrite DEF Submit, storeVars
<1>2. ASSUME NEW key \in Keys, Reset(key) PROVE Data' /\ DOMAIN jobs' = DOMAIN jobs
  <2> DEFINE r == [jobs[key] EXCEPT !.state = "SUBMITTING", !.id = FALSE, !.gen = fresh[key]]
  <2>1. CASE key \in DOMAIN jobs /\ NewGeneration(key) /\ ReplaceRec(key, r)
    <3>1. NewGeneration(key) /\ ReplaceRec(key, r)
      BY <2>1
    <3>2. jobs[key] \in Records /\ fresh[key] \in Nat /\ "SUBMITTING" \in States
      BY <1>0, <2>1 DEF States
    <3>3. r \in Records /\ r.gen = fresh[key]
      BY <3>2 DEF Records
    <3> QED BY <2>1, <3>1, <3>3, StartExecution
  <2>2. CASE UNCHANGED <<jobs, counts, fresh>>
    BY <2>2, NoWrite
  <2> QED BY <1>2, <2>1, <2>2 DEF Reset
<1>3. ASSUME NEW key \in Keys, Attempt(key) \/ Outcome(key)
      PROVE Data' /\ DOMAIN jobs' = DOMAIN jobs
  <2> DEFINE R == {[jobs[key] EXCEPT !.state = "SUBMITTING"],
                   [jobs[key] EXCEPT !.state = "RETRY_WAIT"],
                   [jobs[key] EXCEPT !.state = "PEND", !.id = TRUE],
                   [jobs[key] EXCEPT !.state = "END"]}
  <2>0. fresh' = fresh
    BY <1>3 DEF Attempt, Outcome
  <2>1. CASE key \in DOMAIN jobs /\ \E r \in R : ReplaceRec(key, r)
    <3>1. PICK r \in R : ReplaceRec(key, r)
      BY <2>1
    <3>0. jobs[key] \in Records /\ {"SUBMITTING", "RETRY_WAIT", "PEND", "END"} \subseteq States
      BY <1>0, <2>1 DEF States
    <3>2. r \in Records /\ r.gen = jobs[key].gen
      BY <3>0 DEF Records
    <3> QED BY <2>0, <2>1, <3>1, <3>2, KeepExecution
  <2>2. CASE UNCHANGED <<jobs, counts>>
    BY <2>0, <2>2, NoWrite
  <2> QED BY <1>3, <2>1, <2>2 DEF Attempt, Outcome, Submitting
<1>4. ASSUME NEW key \in Keys, ResolveRef(key) PROVE Data' /\ DOMAIN jobs' = DOMAIN jobs
  BY <1>4, NoWrite DEF ResolveRef, storeVars
<1>5. ASSUME NEW key \in Keys, SetUserData(key) PROVE Data' /\ DOMAIN jobs' = DOMAIN jobs
  <2>1. CASE key \in DOMAIN jobs
    <3>1. ReplaceRec(key, jobs[key]) /\ fresh' = fresh
      BY <1>5, <2>1 DEF SetUserData
    <3> QED BY <1>0, <2>1, <3>1, KeepExecution
  <2>2. CASE key \notin DOMAIN jobs
    BY <1>5, <2>2, NoWrite DEF SetUserData
  <2> QED BY <2>1, <2>2
<1>6. ASSUME NEW r \in Readers, Snapshot(r) PROVE Data' /\ DOMAIN jobs' = DOMAIN jobs
  BY <1>6, NoWrite DEF Snapshot, storeVars
<1>7. ASSUME NEW r \in Readers, NEW key \in Keys, ApplyOne(r, key)
      PROVE Data' /\ DOMAIN jobs' = DOMAIN jobs
  <2>0. fresh' = fresh
    BY <1>7 DEF ApplyOne
  <2>1. CASE /\ key \in DOMAIN jobs
             /\ \E s \in Found(r) : ReplaceRec(key, [jobs[key] EXCEPT !.state = s])
    <3>1. PICK s \in Found(r) : ReplaceRec(key, [jobs[key] EXCEPT !.state = s])
      BY <2>1
    <3>2. s \in States
      BY DEF Found, States
    <3>3. /\ [jobs[key] EXCEPT !.state = s] \in Records
          /\ [jobs[key] EXCEPT !.state = s].gen = jobs[key].gen
      BY <1>0, <2>1, <3>2 DEF Records
    <3> QED BY <2>0, <2>1, <3>1, <3>3, KeepExecution
  <2>2. CASE UNCHANGED <<jobs, counts>>
    BY <2>0, <2>2, NoWrite
  <2> QED BY <1>7, <2>1, <2>2 DEF ApplyOne
<1>8. UNCHANGED <<exists, editVars>>
  BY DEF Working, Submit, Reset, Attempt, Outcome, ResolveRef, SetUserData, Snapshot,
         ApplyOne, storeVars
<1> QED BY <1>1, <1>2, <1>3, <1>4, <1>5, <1>6, <1>7, <1>8 DEF Working

Beginning(e) ==
  \/ \E ks \in SUBSET Keys : LocalCreateJobs(e, ks)
  \/ \E ks \in SUBSET Keys, force \in BOOLEAN :
       \/ LocalRemoveJobs(e, ks, force)
       \/ \E policy \in {"add", "replace", "upsert"} : LocalEditJobs(e, policy, ks, force)
  \/ \E force \in BOOLEAN : LocalRemoveJobset(e, force)

Counting(e) == CountForGrow(e) \/ CountForSync(e) \/ Grow(e) \/ Sync(e)

\* The cases of a step of an editor.
LEMMA EditingCases ==
  ASSUME NEW e, Editing(e)
  PROVE  \/ Beginning(e) \/ Counting(e) \/ DeleteJobset(e)
         \/ \E key \in Keys : AddOne(e, key) \/ EditOne(e, key) \/ DropOne(e, key)
  BY DEF Editing, Beginning, Counting

\* Beginning an operation only takes _meta_lock and plans.
LEMMA BeginningBegins ==
  ASSUME NEW e, Beginning(e)
  PROVE  /\ UNCHANGED <<storeVars, intended, lock, synced, fresh, workVars>>
         /\ meta = None /\ meta' = e /\ exists = "there"
  BY DEF Beginning, LocalCreateJobs, LocalRemoveJobs, LocalEditJobs, LocalRemoveJobset,
         Begin, Acquire

\* Every step of an editor keeps records, counters and executions in order.
LEMMA EditData ==
  ASSUME StoreInv, NEW e \in Editors, Editing(e)
  PROVE  Data'
<1>1. CASE Beginning(e)
  BY <1>1, BeginningBegins, NoWrite DEF storeVars
<1>2. CASE Counting(e)
  BY <1>2, NoWrite DEF Counting, CountForGrow, CountForSync, Grow, Sync, storeVars
<1>3. CASE DeleteJobset(e)
  <2>1. jobs' = Empty /\ counts' = Empty
    BY <1>3 DEF DeleteJobset
  <2>2. Jobs(jobs') /\ Counters(counts') /\ DOMAIN jobs' = {} /\ DOMAIN counts' = {}
    BY <2>1, EmptyDict DEF Jobs, Counters
  <2>3. \A s : InState(s)' = {}
    BY <2>2 DEF InState
  <2>4. CountsOK'
    BY <2>2, <2>3, FS_EmptySet DEF CountsOK, Get
  <2> QED BY <2>2, <2>4 DEF Data, GenerationInv
<1>4. ASSUME NEW key \in Keys, AddOne(e, key) PROVE Data'
  BY <1>4, AddRecord DEF AddOne
<1>5. ASSUME NEW key \in Keys, EditOne(e, key) PROVE Data'
  <2>0. NewGeneration(key) /\ edit[e].step = "edit" /\ key \in edit[e].todo
    BY <1>5 DEF EditOne
  <2>1. CASE key \in edit[e].old
    <3>1. key \in DOMAIN jobs
      BY <2>0, <2>1 DEF StoreInv, BatchApplies
    <3>2. ReplaceRec(key, NewRec(key))
      BY <1>5, <2>1 DEF EditOne
    <3>3. NewRec(key) \in Records /\ NewRec(key).gen = fresh[key]
      BY DEF StoreInv, TypeOK, NewRec, Records, States
    <3> QED BY <2>0, <3>1, <3>2, <3>3, StartExecution
  <2>2. CASE key \notin edit[e].old
    BY <1>5, <2>0, <2>2, AddRecord DEF EditOne
  <2> QED BY <2>1, <2>2
<1>6. ASSUME NEW key \in Keys, DropOne(e, key) PROVE Data'
  <2>1. key \in DOMAIN jobs
    BY <1>6 DEF DropOne, StoreInv, BatchApplies
  <2> QED BY <1>6, <2>1, DeleteRecord DEF DropOne
<1> QED BY <1>1, <1>2, <1>3, <1>4, <1>5, <1>6, EditingCases

-----------------------------------------------------------------------------
(* The lock, the batches and the total.                                    *)

Control == LockInv /\ BatchApplies /\ TotalInv

\* The records that are there are finitely many.
LEMMA FiniteJobs ==
  ASSUME StoreInv
  PROVE  IsFiniteSet(DOMAIN jobs) /\ Cardinality(DOMAIN jobs) \in Nat
<1>1. IsFiniteSet(DOMAIN jobs)
  BY FiniteStates DEF StoreInv, TypeOK, Jobs
<1> QED BY <1>1, FS_CardinalityType

\* Nothing a worker does is noticed by an editor.
LEMMA WorkControl ==
  ASSUME StoreInv, Working
  PROVE  Control'
<1>1. DOMAIN jobs' = DOMAIN jobs /\ UNCHANGED <<exists, intended, meta, edit, synced>>
  BY WorkData DEF editVars
<1> QED BY <1>1 DEF StoreInv, Control, LockInv, BatchApplies, TotalInv, NoGhosts

\* Only the holder of _meta_lock is at work.
LEMMA OneEditor ==
  ASSUME StoreInv, NEW e \in Editors, edit[e].step # "idle"
  PROVE  /\ meta = e /\ meta # None
         /\ \A f \in Editors \ {e} : edit[f].step = "idle"
  BY JobStoreAssumption DEF StoreInv, LockInv

\* A plan is made under the lock, from the records there are.
LEMMA BeginControl ==
  ASSUME StoreInv, NEW e \in Editors, Beginning(e)
  PROVE  Control'
<1>1. /\ jobs' = jobs /\ exists' = exists /\ intended' = intended /\ synced' = synced
      /\ meta = None /\ meta' = e /\ exists = "there"
  BY BeginningBegins DEF storeVars
<1>2. \A f \in Editors : edit[f].step = "idle"
  BY <1>1, JobStoreAssumption DEF StoreInv, LockInv
<1>3. e # None
  BY JobStoreAssumption
<1>4. /\ \A f \in Editors \ {e} : edit'[f] = edit[f]
      /\ \/ edit'[e].step = "create" /\ edit'[e].todo \cap DOMAIN jobs = {}
         \/ edit'[e].step = "edit" /\ edit'[e].todo \cap DOMAIN jobs = edit'[e].old
              /\ edit'[e].old \subseteq edit'[e].todo
         \/ edit'[e].step = "delete" /\ edit'[e].todo \subseteq DOMAIN jobs
         \/ edit'[e].step = "remove"
  <2>0. edit \in [Editors -> Edits]
    BY DEF StoreInv, TypeOK
  <2>1. ASSUME NEW ks \in SUBSET Keys, LocalCreateJobs(e, ks)
        PROVE  /\ \A f \in Editors \ {e} : edit'[f] = edit[f]
               /\ edit'[e].step = "create" /\ edit'[e].todo \cap DOMAIN jobs = {}
    BY <2>0, <2>1 DEF LocalCreateJobs, Begin, Idle
  <2>2. ASSUME NEW ks \in SUBSET Keys, NEW force \in BOOLEAN, LocalRemoveJobs(e, ks, force)
        PROVE  /\ \A f \in Editors \ {e} : edit'[f] = edit[f]
               /\ edit'[e].step = "delete" /\ edit'[e].todo \subseteq DOMAIN jobs
    BY <2>0, <2>2 DEF LocalRemoveJobs, Begin, Idle
  <2>3. ASSUME NEW ks \in SUBSET Keys, NEW force \in BOOLEAN, NEW policy,
               LocalEditJobs(e, policy, ks, force)
        PROVE  /\ \A f \in Editors \ {e} : edit'[f] = edit[f]
               /\ edit'[e].step = "edit" /\ edit'[e].todo \cap DOMAIN jobs = edit'[e].old
               /\ edit'[e].old \subseteq edit'[e].todo
    BY <2>0, <2>3 DEF LocalEditJobs, Begin, Idle
  <2>4. ASSUME NEW force \in BOOLEAN, LocalRemoveJobset(e, force)
        PROVE  /\ \A f \in Editors \ {e} : edit'[f] = edit[f]
               /\ edit'[e].step = "remove"
    BY <2>0, <2>4 DEF LocalRemoveJobset, Begin, Idle
  <2> QED BY <2>1, <2>2, <2>3, <2>4 DEF Beginning
<1>5. LockInv'
  BY <1>1, <1>2, <1>4 DEF LockInv
<1>6. BatchApplies'
  BY <1>1, <1>2, <1>4 DEF BatchApplies
<1>7. synced => intended <= Cardinality(DOMAIN jobs)
  BY <1>1, FiniteJobs DEF StoreInv, TotalInv, NoGhosts
<1>8. TotalInv'
  BY <1>1, <1>2, <1>3, <1>7 DEF StoreInv, TotalInv, NoGhosts
<1> QED BY <1>5, <1>6, <1>8 DEF Control

\* One more record of a batch: the rest of the plan stays true.
LEMMA BatchControl ==
  ASSUME StoreInv, NEW e \in Editors, NEW key \in Keys,
         AddOne(e, key) \/ EditOne(e, key) \/ DropOne(e, key)
  PROVE  Control'
<1>0. edit \in [Editors -> Edits]
  BY DEF StoreInv, TypeOK
<1>1. /\ exists' = exists /\ intended' = intended /\ meta' = meta /\ synced' = synced
      /\ edit' = [edit EXCEPT ![e].todo = @ \ {key}]
      /\ edit[e].step \in {"create", "edit", "delete"} /\ key \in edit[e].todo
  BY DEF AddOne, EditOne, DropOne, Done
<1>2. /\ meta = e /\ meta # None
      /\ \A f \in Editors \ {e} : edit[f].step = "idle"
  BY <1>1, OneEditor
<1>3. /\ edit'[e].step = edit[e].step /\ edit'[e].old = edit[e].old
      /\ edit'[e].todo = edit[e].todo \ {key}
      /\ \A f \in Editors \ {e} : edit'[f].step = "idle"
  BY <1>0, <1>1, <1>2 DEF Edits
<1>4. exists = "there"
  BY <1>1 DEF StoreInv, BatchApplies
<1>5. LockInv'
  BY <1>1, <1>2, <1>3 DEF LockInv
<1>6. CASE AddOne(e, key)
  <2>1. DOMAIN jobs' = DOMAIN jobs \cup {key} /\ edit[e].step = "create"
    BY <1>6, AddRecord DEF AddOne
  <2>2. Cardinality(DOMAIN jobs) <= Cardinality(DOMAIN jobs')
    <3>1. Cardinality(DOMAIN jobs \cup {key}) =
            IF key \in DOMAIN jobs THEN Cardinality(DOMAIN jobs) ELSE Cardinality(DOMAIN jobs) + 1
      BY FiniteJobs, FS_AddElement
    <3> QED BY <2>1, <3>1, FiniteJobs
  <2>3. Cardinality(DOMAIN jobs') \in Nat
    BY <2>1, FiniteJobs, FS_AddElement, FS_CardinalityType
  <2>4. BatchApplies'
    BY <1>1, <1>3, <1>4, <2>1 DEF StoreInv, BatchApplies
  <2>5. synced => intended <= Cardinality(DOMAIN jobs)
    BY <2>1 DEF StoreInv, TotalInv
  <2>6. synced => intended <= Cardinality(DOMAIN jobs')
    BY <2>2, <2>3, <2>5, FiniteJobs DEF StoreInv, TypeOK
  <2>7. TotalInv'
    BY <1>1, <1>2, <1>4, <2>6 DEF TotalInv, NoGhosts
  <2> QED BY <1>5, <2>4, <2>7 DEF Control
<1>7. CASE EditOne(e, key)
  <2>1. edit[e].step = "edit"
    BY <1>7 DEF EditOne
  <2>2. DOMAIN jobs' = DOMAIN jobs \cup {key}
    <3>1. CASE key \in edit[e].old
      <4>1. key \in DOMAIN jobs
        BY <1>1, <2>1, <3>1 DEF StoreInv, BatchApplies
      <4>2. ReplaceRec(key, NewRec(key))
        BY <1>7, <3>1 DEF EditOne
      <4>3. NewRec(key) \in Records
        BY DEF StoreInv, TypeOK, NewRec, Records, States
      <4> QED BY <4>1, <4>2, <4>3, ReplaceCorrect DEF StoreInv, TypeOK, Jobs, Counters
    <3>2. CASE key \notin edit[e].old
      BY <1>7, <3>2, AddRecord DEF EditOne
    <3> QED BY <3>1, <3>2
  <2>3. BatchApplies'
    BY <1>1, <1>3, <1>4, <2>1, <2>2 DEF StoreInv, BatchApplies
  <2>4. TotalInv'
    BY <1>1, <1>2, <1>3, <1>4, <2>1 DEF TotalInv, NoGhosts
  <2> QED BY <1>5, <2>3, <2>4 DEF Control
<1>8. CASE DropOne(e, key)
  <2>1. edit[e].step = "delete"
    BY <1>8 DEF DropOne
  <2>2. DOMAIN jobs' = DOMAIN jobs \ {key}
    <3>1. key \in DOMAIN jobs
      BY <1>1, <2>1 DEF StoreInv, BatchApplies
    <3> QED BY <1>8, <3>1, DeleteRecord DEF DropOne
  <2>3. BatchApplies'
    BY <1>1, <1>3, <1>4, <2>1, <2>2 DEF StoreInv, BatchApplies
  <2>4. TotalInv'
    BY <1>1, <1>2, <1>3, <1>4, <2>1 DEF TotalInv, NoGhosts
  <2> QED BY <1>5, <2>3, <2>4 DEF Control
<1> QED BY <1>6, <1>7, <1>8

\* The records are counted, and the total follows, before the lock is free.
LEMMA CountControl ==
  ASSUME StoreInv, NEW e \in Editors, Counting(e) \/ DeleteJobset(e)
  PROVE  Control'
<1>0. /\ edit \in [Editors -> Edits] /\ intended \in Nat
      /\ Cardinality(DOMAIN jobs) \in Nat
  BY FiniteJobs DEF StoreInv, TypeOK
<1>1. edit[e].step \in {"create", "edit", "delete", "grow", "sync", "remove"}
  BY DEF Counting, CountForGrow, CountForSync, Grow, Sync, DeleteJobset
<1>2. /\ meta = e /\ meta # None /\ exists = "there"
      /\ \A f \in Editors \ {e} : edit[f].step = "idle"
  BY <1>1, OneEditor DEF StoreInv, BatchApplies
<1>3. CASE CountForGrow(e) \/ CountForSync(e)
  <2>1. /\ UNCHANGED <<storeVars, intended, meta, synced>>
        /\ \/ edit' = [edit EXCEPT ![e].step = "grow", ![e].n = Cardinality(DOMAIN jobs)]
                /\ edit[e].step = "create"
           \/ edit' = [edit EXCEPT ![e].step = "sync", ![e].n = Cardinality(DOMAIN jobs)]
    BY <1>3 DEF CountForGrow, CountForSync
  <2>2. /\ \/ edit'[e].step = "grow" /\ edit[e].step = "create"
           \/ edit'[e].step = "sync"
        /\ edit'[e].n = Cardinality(DOMAIN jobs)
        /\ \A f \in Editors \ {e} : edit'[f] = edit[f]
    BY <1>0, <2>1 DEF Edits
  <2>3. jobs' = jobs /\ exists' = exists
    BY <2>1 DEF storeVars
  <2>4. LockInv'
    BY <1>2, <2>1, <2>2, <2>3 DEF LockInv
  <2>5. BatchApplies'
    BY <1>2, <2>1, <2>2, <2>3 DEF BatchApplies
  <2>6. TotalInv'
    BY <1>2, <2>1, <2>2, <2>3 DEF StoreInv, TotalInv, NoGhosts
  <2> QED BY <2>4, <2>5, <2>6 DEF Control
<1>4. CASE Grow(e) \/ Sync(e) \/ DeleteJobset(e)
  <2>1. meta' = None /\ edit' = [edit EXCEPT ![e] = Idle]
    BY <1>4 DEF Grow, Sync, DeleteJobset, End
  <2>2. \A f \in Editors : edit'[f].step = "idle"
    BY <1>0, <1>2, <2>1 DEF Idle
  <2>3. LockInv' /\ BatchApplies'
    BY <2>2 DEF LockInv, BatchApplies
  <2>4. CASE Grow(e)
    <3>1. /\ UNCHANGED <<jobs, exists, synced>>
          /\ edit[e].step = "grow"
          /\ intended' = IF edit[e].n > intended THEN edit[e].n ELSE intended
      BY <2>4 DEF Grow, storeVars
    <3>2. edit[e].n = Cardinality(DOMAIN jobs)
      BY <3>1 DEF StoreInv, LockInv
    <3>3. Cardinality(DOMAIN jobs') <= intended'
      BY <1>0, <3>1, <3>2
    <3>4. synced => intended' = Cardinality(DOMAIN jobs')
      BY <1>0, <3>1, <3>2 DEF StoreInv, TotalInv
    <3> QED BY <1>2, <2>2, <2>3, <3>1, <3>3, <3>4 DEF Control, TotalInv, NoGhosts
  <2>5. CASE Sync(e)
    <3>1. /\ UNCHANGED <<jobs, exists>>
          /\ edit[e].step = "sync" /\ intended' = edit[e].n
      BY <2>5 DEF Sync, storeVars
    <3>2. intended' = Cardinality(DOMAIN jobs')
      BY <3>1 DEF StoreInv, LockInv
    <3> QED BY <1>0, <1>2, <2>2, <2>3, <3>1, <3>2 DEF Control, TotalInv, NoGhosts
  <2>6. CASE DeleteJobset(e)
    <3>1. DOMAIN jobs' = {} /\ exists' = "removed" /\ intended' = 0
      BY <2>6, EmptyDict DEF DeleteJobset
    <3>2. Cardinality(DOMAIN jobs') = 0
      BY <3>1, FS_EmptySet
    <3> QED BY <2>2, <2>3, <3>1, <3>2 DEF Control, TotalInv, NoGhosts
  <2> QED BY <1>4, <2>4, <2>5, <2>6
<1> QED BY <1>3, <1>4 DEF Counting

-----------------------------------------------------------------------------
(* Types of the variables that are not records or counters.                *)

TypeRest ==
  /\ exists \in {"unborn", "there", "removed"}
  /\ intended \in Nat
  /\ lock \in Editors \cup Readers \cup {None}
  /\ meta \in Editors \cup {None}
  /\ edit \in [Editors -> Edits]
  /\ synced \in BOOLEAN
  /\ fresh \in [Keys -> Nat]
  /\ cycle \in [Keys -> {"no", "reset", "run"}]
  /\ snap = [r \in Readers |-> snap[r]] /\ \A r \in Readers : IsDict(snap[r], Keys, Records)
  /\ IsDict(ref, Keys, Records)

\* A step of an editor writes values of the right type.
LEMMA EditType ==
  ASSUME StoreInv, NEW e \in Editors, Editing(e)
  PROVE  TypeRest'
<1>0. TypeRest /\ Idle \in Edits
  BY DEF StoreInv, TypeOK, TypeRest, Idle, Edits, Steps
<1>1. CASE Beginning(e)
  <2>1. edit' \in [Editors -> Edits]
    <3>1. \A ks \in SUBSET Keys, old \in SUBSET Keys, force \in BOOLEAN :
            /\ [Idle EXCEPT !.step = "create", !.todo = ks] \in Edits
            /\ [Idle EXCEPT !.step = "delete", !.todo = ks, !.force = force] \in Edits
            /\ [Idle EXCEPT !.step = "edit", !.todo = ks, !.old = old, !.force = force] \in Edits
            /\ [Idle EXCEPT !.step = "remove", !.force = force] \in Edits
      BY DEF Idle, Edits, Steps
    <3>2. \E what \in Edits : edit' = [edit EXCEPT ![e] = what]
      <4>1. CASE \E ks \in SUBSET Keys : LocalCreateJobs(e, ks)
        BY <3>1, <4>1 DEF LocalCreateJobs, Begin
      <4>2. CASE \E ks \in SUBSET Keys, force \in BOOLEAN : LocalRemoveJobs(e, ks, force)
        BY <3>1, <4>2 DEF LocalRemoveJobs, Begin
      <4>3. ASSUME NEW ks \in SUBSET Keys, NEW force \in BOOLEAN, NEW policy,
                   LocalEditJobs(e, policy, ks, force)
            PROVE  \E what \in Edits : edit' = [edit EXCEPT ![e] = what]
        <5>1. ks \cap DOMAIN jobs \in SUBSET Keys
          OBVIOUS
        <5> QED BY <3>1, <4>3, <5>1 DEF LocalEditJobs, Begin
      <4>4. CASE \E force \in BOOLEAN : LocalRemoveJobset(e, force)
        BY <3>1, <4>4 DEF LocalRemoveJobset, Begin
      <4> QED BY <1>1, <4>1, <4>2, <4>3, <4>4 DEF Beginning
    <3> QED BY <1>0, <3>2 DEF TypeRest
  <2> QED BY <1>0, <1>1, <2>1, BeginningBegins DEF TypeRest, storeVars, workVars
<1>2. CASE Counting(e)
  <2>1. Cardinality(DOMAIN jobs) \in Nat
    BY FiniteJobs
  <2>2. edit' \in [Editors -> Edits]
    <3>1. edit \in [Editors -> Edits] /\ edit[e] \in Edits
      BY <1>0 DEF TypeRest
    <3>2. CASE CountForGrow(e) \/ CountForSync(e)
      <4>1. PICK t \in {"grow", "sync"} :
              edit' = [edit EXCEPT ![e].step = t, ![e].n = Cardinality(DOMAIN jobs)]
        BY <3>2 DEF CountForGrow, CountForSync
      <4>2. [edit[e] EXCEPT !.step = t, !.n = Cardinality(DOMAIN jobs)] \in Edits
        BY <2>1, <3>1 DEF Edits, Steps
      <4> QED BY <3>1, <4>1, <4>2
    <3>3. CASE Grow(e) \/ Sync(e)
      BY <1>0, <3>1, <3>3 DEF Grow, Sync, End
    <3> QED BY <1>2, <3>2, <3>3 DEF Counting
  <2>3. intended' \in Nat /\ meta' \in Editors \cup {None} /\ synced' \in BOOLEAN
    <3>1. edit[e].n \in Nat
      BY <1>0 DEF TypeRest, Edits
    <3>2. intended' \in Nat
      BY <1>0, <1>2, <3>1 DEF TypeRest, Counting, CountForGrow, CountForSync, Grow, Sync
    <3>3. meta' \in Editors \cup {None}
      BY <1>0, <1>2 DEF TypeRest, Counting, CountForGrow, CountForSync, Grow, Sync, End
    <3>4. synced' = synced \/ synced' = TRUE
      BY <1>2, Zenon DEF Counting, CountForGrow, CountForSync, Grow, Sync
    <3> QED BY <1>0, <3>2, <3>3, <3>4 DEF TypeRest
  <2>4. UNCHANGED <<exists, lock, fresh, cycle, snap, ref>>
    BY <1>2 DEF Counting, CountForGrow, CountForSync, Grow, Sync, storeVars, workVars
  <2> QED BY <1>0, <2>2, <2>3, <2>4 DEF TypeRest
<1>3. CASE DeleteJobset(e)
  BY <1>0, <1>3 DEF TypeRest, DeleteJobset, End, workVars
<1>4. ASSUME NEW key \in Keys, AddOne(e, key) \/ EditOne(e, key) \/ DropOne(e, key)
      PROVE  TypeRest'
  <2>1. edit' \in [Editors -> Edits]
    BY <1>0, <1>4 DEF TypeRest, AddOne, EditOne, DropOne, Done, Edits
  <2>2. fresh' \in [Keys -> Nat]
    BY <1>0, <1>4 DEF TypeRest, AddOne, EditOne, DropOne, NewGeneration
  <2>3. lock' \in Editors \cup Readers \cup {None}
    BY <1>0, <1>4 DEF TypeRest, AddOne, EditOne, DropOne, HoldLock
  <2>4. UNCHANGED <<exists, intended, meta, synced, cycle, snap, ref>>
    BY <1>4 DEF AddOne, EditOne, DropOne, workVars
  <2> QED BY <1>0, <2>1, <2>2, <2>3, <2>4 DEF TypeRest
<1> QED BY <1>1, <1>2, <1>3, <1>4, EditingCases

\* So does a step of another thread.
LEMMA WorkType ==
  ASSUME StoreInv, Working
  PROVE  TypeRest'
<1>0. TypeRest /\ IsDict(jobs, Keys, Records)
  BY DEF StoreInv, TypeOK, TypeRest
<1>1. UNCHANGED <<exists, intended, meta, edit, synced>>
  BY WorkData DEF editVars
<1>2. ASSUME NEW ks \in SUBSET Keys, Submit(ks) PROVE TypeRest'
  BY <1>0, <1>1, <1>2 DEF TypeRest, Submit
<1>3. ASSUME NEW key \in Keys, Reset(key) \/ Attempt(key) \/ Outcome(key) PROVE TypeRest'
  <2>1. fresh' \in [Keys -> Nat] /\ cycle' \in [Keys -> {"no", "reset", "run"}]
    BY <1>0, <1>3 DEF TypeRest, Reset, Attempt, Outcome, NewGeneration, workVars
  <2>2. UNCHANGED <<lock, snap, ref>>
    BY <1>3 DEF Reset, Attempt, Outcome, workVars
  <2> QED BY <1>0, <1>1, <2>1, <2>2 DEF TypeRest
<1>4. ASSUME NEW key \in Keys, ResolveRef(key) PROVE TypeRest'
  <2>1. IsDict(ref', Keys, Records)
    BY <1>0, <1>4 DEF ResolveRef, With, Empty, IsDict
  <2>2. UNCHANGED <<lock, fresh, cycle, snap>>
    BY <1>4 DEF ResolveRef
  <2> QED BY <1>0, <1>1, <2>1, <2>2 DEF TypeRest
<1>5. ASSUME NEW key \in Keys, SetUserData(key) PROVE TypeRest'
  <2>1. IsDict(ref', Keys, Records)
    BY <1>5, EmptyDict DEF SetUserData
  <2>2. UNCHANGED <<lock, fresh, cycle, snap>>
    BY <1>5 DEF SetUserData
  <2> QED BY <1>0, <1>1, <2>1, <2>2 DEF TypeRest
<1>6. ASSUME NEW r \in Readers, Snapshot(r) PROVE TypeRest'
  <2>1. IsDict([key \in Candidates(r) |-> jobs[key]], Keys, Records)
    BY <1>0 DEF Candidates, IsDict
  <2>2. snap' = [snap EXCEPT ![r] = [key \in Candidates(r) |-> jobs[key]]]
    BY <1>6 DEF Snapshot
  <2>3. /\ snap' = [q \in Readers |-> snap'[q]]
        /\ \A q \in Readers : IsDict(snap'[q], Keys, Records)
    BY <1>0, <2>1, <2>2 DEF TypeRest
  <2>4. UNCHANGED <<lock, fresh, cycle, ref>>
    BY <1>6 DEF Snapshot
  <2> QED BY <1>0, <1>1, <2>3, <2>4 DEF TypeRest
<1>7. ASSUME NEW r \in Readers, NEW key \in Keys, ApplyOne(r, key) PROVE TypeRest'
  <2>1. IsDict(Without(snap[r], key), Keys, Records)
    BY <1>0, WithoutDict DEF TypeRest
  <2>2. snap' = [snap EXCEPT ![r] = Without(snap[r], key)]
    BY <1>7 DEF ApplyOne
  <2>3. /\ snap' = [q \in Readers |-> snap'[q]]
        /\ \A q \in Readers : IsDict(snap'[q], Keys, Records)
    BY <1>0, <2>1, <2>2 DEF TypeRest
  <2>4. lock' \in Editors \cup Readers \cup {None}
    BY <1>7 DEF ApplyOne, HoldLockForAnswers
  <2>5. UNCHANGED <<fresh, cycle, ref>>
    BY <1>7 DEF ApplyOne
  <2> QED BY <1>0, <1>1, <2>3, <2>4, <2>5 DEF TypeRest
<1> QED BY <1>2, <1>3, <1>4, <1>5, <1>6, <1>7 DEF Working

-----------------------------------------------------------------------------
(* The invariant.                                                          *)

\* The parts give the whole.
LEMMA PartsOfStoreInv == StoreInv <=> Data /\ TypeRest /\ Control
  BY DEF StoreInv, TypeOK, Data, TypeRest, Control, Jobs, Counters

\* Nothing is there at first.
LEMMA InitStoreInv == Init => StoreInv
<1> SUFFICES ASSUME Init PROVE Data /\ TypeRest /\ Control
  BY PartsOfStoreInv
<1>1. /\ DOMAIN jobs = {} /\ DOMAIN counts = {} /\ Jobs(jobs) /\ Counters(counts)
      /\ Cardinality(DOMAIN jobs) = 0
  BY EmptyDict, FS_EmptySet DEF Init, Jobs, Counters
<1>2. \A s : InState(s) = {}
  BY <1>1 DEF InState
<1>3. Data
  BY <1>1, <1>2, FS_EmptySet DEF Data, CountsOK, Get, GenerationInv
<1>4. Idle \in Edits /\ Idle.step = "idle"
  BY DEF Idle, Edits, Steps
<1>5. TypeRest
  BY <1>4, EmptyDict DEF Init, TypeRest
<1>6. \A e \in Editors : edit[e].step = "idle"
  BY <1>4 DEF Init
<1>7. Control
  BY <1>1, <1>6 DEF Init, Control, LockInv, BatchApplies, TotalInv, NoGhosts
<1> QED BY <1>3, <1>5, <1>7

\* Every step keeps the invariant.
LEMMA NextStoreInv == StoreInv /\ [Next]_vars => StoreInv'
<1> SUFFICES ASSUME StoreInv, [Next]_vars PROVE StoreInv'
  OBVIOUS
<1>0. StoreInv' <=> Data' /\ TypeRest' /\ Control'
  BY DEF StoreInv, TypeOK, Data, TypeRest, Control, Jobs, Counters
<1>1. ASSUME NEW n \in 0..MaxIntended, LocalCreateJobset(n) PROVE StoreInv'
  <2>1. Data' /\ DOMAIN jobs' = DOMAIN jobs
    BY <1>1, NoWrite DEF LocalCreateJobset
  <2>2. n \in Nat
    BY JobStoreAssumption
  <2>3. TypeRest'
    BY <1>1, <2>2 DEF StoreInv, TypeOK, TypeRest, LocalCreateJobset, workVars
  <2>4. exists = "unborn" /\ DOMAIN jobs = {} /\ ~synced
    BY <1>1 DEF LocalCreateJobset, StoreInv, TotalInv
  <2>5. \A e \in Editors : edit[e].step = "idle"
    BY <2>4 DEF StoreInv, BatchApplies
  <2>6. Cardinality(DOMAIN jobs) = 0
    BY <2>4, FS_EmptySet
  <2>7. /\ UNCHANGED <<meta, edit, synced>> /\ exists' = "there" /\ intended' = n
    BY <1>1 DEF LocalCreateJobset
  <2>8. Control'
    BY <2>1, <2>2, <2>4, <2>5, <2>6, <2>7 DEF Control, LockInv, BatchApplies, TotalInv, NoGhosts
  <2> QED BY <1>0, <2>1, <2>3, <2>8
<1>2. ASSUME NEW e \in Editors, Editing(e) PROVE StoreInv'
  <2>1. Control'
    BY <1>2, EditingCases, BeginControl, BatchControl, CountControl
  <2> QED BY <1>0, <1>2, <2>1, EditData, EditType
<1>3. CASE Working
  BY <1>0, <1>3, WorkData, WorkType, WorkControl
<1>4. CASE UNCHANGED vars
  BY <1>4 DEF vars, storeVars, editVars, workVars, StoreInv, TypeOK, CountsOK, InState,
     GenerationInv, LockInv, BatchApplies, TotalInv, NoGhosts
<1> QED BY <1>1, <1>2, <1>3, <1>4 DEF Next

\* The inductive invariant holds: store and jobset_core keep everything they
\* promise together, for any number of keys and threads.
THEOREM StoreInvariant == Spec => []StoreInv
  BY InitStoreInv, NextStoreInv, PTL DEF Spec

\* Type correctness; in particular no counter is ever left at 0.
THEOREM TypeCorrect == Spec => []TypeOK
<1>1. StoreInv => TypeOK
  BY DEF StoreInv
<1> QED BY <1>1, StoreInvariant, PTL

\* The incremental counters of InMemoryStore always agree with its records.
THEOREM CountersAgree == Spec => []CountsOK
<1>1. StoreInv => CountsOK
  BY DEF StoreInv
<1> QED BY <1>1, StoreInvariant, PTL

\* No batch of local_create_jobs, local_edit_jobs or local_remove_jobs stops
\* half-way because a record came or went after it was checked.
THEOREM BatchesApply == Spec => []BatchApplies
<1>1. StoreInv => BatchApplies
  BY DEF StoreInv
<1> QED BY <1>1, StoreInvariant, PTL

\* After an edit the total of the summary is the number of records.
THEOREM NoGhostRecords == Spec => []NoGhosts
<1>1. StoreInv => NoGhosts
  BY DEF StoreInv, TotalInv
<1> QED BY <1>1, StoreInvariant, PTL

-----------------------------------------------------------------------------
(* What a step may do to a record.                                         *)

\* r may be written for the record of key: a new execution, or the same one
\* with its id.
Writable(key, r) ==
  r.gen = fresh[key] \/ (r.gen = jobs[key].gen /\ (jobs[key].id => r.id))

Kept(key) == key \in DOMAIN jobs /\ jobs'[key] = jobs[key]
Added(key) == key \notin DOMAIN jobs /\ jobs'[key] = NewRec(key)
Written(key) ==
  /\ key \in DOMAIN jobs
  /\ \E r \in Records : /\ jobs'[key] = [r EXCEPT !.revision = jobs[key].revision + 1]
                        /\ Writable(key, r)

\* A write through _replace_rec.
LEMMA ReplaceWrites ==
  ASSUME StoreInv, NEW key \in DOMAIN jobs, NEW r \in Records, ReplaceRec(key, r),
         Writable(key, r)
  PROVE  \A x \in DOMAIN jobs' : Kept(x) \/ Added(x) \/ Written(x)
<1>1. /\ DOMAIN jobs' = DOMAIN jobs
      /\ jobs'[key] = [r EXCEPT !.revision = jobs[key].revision + 1]
      /\ \A x \in DOMAIN jobs \ {key} : jobs'[x] = jobs[x]
  BY ReplaceCorrect DEF StoreInv, TypeOK, Jobs, Counters
<1> QED BY <1>1 DEF Kept, Written

\* Every write is one of these.
LEMMA StepWrites ==
  ASSUME StoreInv, [Next]_vars
  PROVE  \A x \in DOMAIN jobs' : Kept(x) \/ Added(x) \/ Written(x)
<1> DEFINE Goal == \A x \in DOMAIN jobs' : Kept(x) \/ Added(x) \/ Written(x)
<1>0. /\ fresh \in [Keys -> Nat] /\ DOMAIN jobs \subseteq Keys
      /\ \A key \in DOMAIN jobs : jobs[key] \in Records
  BY DEF StoreInv, TypeOK, IsDict
<1>1. CASE jobs' = jobs
  BY <1>1 DEF Kept
<1>2. ASSUME NEW key \in Keys, key \notin DOMAIN jobs, PutRec(key, NewRec(key)) PROVE Goal
  <2>1. /\ DOMAIN jobs' = DOMAIN jobs \cup {key}
        /\ jobs'[key] = NewRec(key)
        /\ \A x \in DOMAIN jobs : jobs'[x] = jobs[x]
    BY <1>2 DEF PutRec, With
  <2> QED BY <1>2, <2>1 DEF Kept, Added
<1>3. ASSUME NEW e \in Editors, Editing(e) PROVE Goal
  <2>1. CASE Beginning(e)
    BY <1>1, <2>1, BeginningBegins DEF storeVars
  <2>2. CASE Counting(e)
    BY <1>1, <2>2 DEF Counting, CountForGrow, CountForSync, Grow, Sync, storeVars
  <2>3. CASE DeleteJobset(e)
    BY <2>3, EmptyDict DEF DeleteJobset
  <2>4. ASSUME NEW key \in Keys, AddOne(e, key) PROVE Goal
    <3>1. key \notin DOMAIN jobs
      BY <2>4 DEF AddOne, StoreInv, BatchApplies
    <3> QED BY <1>2, <2>4, <3>1 DEF AddOne
  <2>5. ASSUME NEW key \in Keys, EditOne(e, key) PROVE Goal
    <3>1. key \in DOMAIN jobs <=> key \in edit[e].old
      BY <2>5 DEF EditOne, StoreInv, BatchApplies
    <3>2. CASE key \in edit[e].old
      <4>1. NewRec(key) \in Records /\ NewRec(key).gen = fresh[key]
        BY <1>0 DEF NewRec, Records, States
      <4>2. ReplaceRec(key, NewRec(key))
        BY <2>5, <3>2 DEF EditOne
      <4> QED BY <3>1, <3>2, <4>1, <4>2, ReplaceWrites DEF Writable
    <3>3. CASE key \notin edit[e].old
      BY <1>2, <2>5, <3>1, <3>3 DEF EditOne
    <3> QED BY <3>2, <3>3
  <2>6. ASSUME NEW key \in Keys, DropOne(e, key) PROVE Goal
    BY <2>6 DEF DropOne, DropRec, Without, Kept
  <2> QED BY <1>3, <2>1, <2>2, <2>3, <2>4, <2>5, <2>6, EditingCases
<1>4. CASE \E ks \in SUBSET Keys : Submit(ks)
  BY <1>1, <1>4 DEF Submit, storeVars
<1>5. ASSUME NEW key \in Keys, Reset(key) PROVE Goal
  <2> DEFINE r == [jobs[key] EXCEPT !.state = "SUBMITTING", !.id = FALSE, !.gen = fresh[key]]
  <2>1. CASE key \in DOMAIN jobs /\ ReplaceRec(key, r)
    <3>1. ReplaceRec(key, r)
      BY <2>1
    <3>2. r \in Records /\ r.gen = fresh[key]
      BY <1>0, <2>1 DEF Records, States
    <3> QED BY <2>1, <3>1, <3>2, ReplaceWrites DEF Writable
  <2>2. CASE UNCHANGED <<jobs, counts, fresh>>
    BY <1>1, <2>2
  <2> QED BY <1>5, <2>1, <2>2 DEF Reset
<1>6. ASSUME NEW key \in Keys, Attempt(key) \/ Outcome(key) PROVE Goal
  <2> DEFINE R == {[jobs[key] EXCEPT !.state = "SUBMITTING"],
                   [jobs[key] EXCEPT !.state = "RETRY_WAIT"],
                   [jobs[key] EXCEPT !.state = "PEND", !.id = TRUE],
                   [jobs[key] EXCEPT !.state = "END"]}
  <2>1. CASE key \in DOMAIN jobs /\ \E r \in R : ReplaceRec(key, r)
    <3>1. PICK r \in R : ReplaceRec(key, r)
      BY <2>1
    <3>0. jobs[key] \in Records /\ {"SUBMITTING", "RETRY_WAIT", "PEND", "END"} \subseteq States
      BY <1>0, <2>1 DEF States
    <3>2. r \in Records /\ r.gen = jobs[key].gen /\ (jobs[key].id => r.id)
      BY <3>0 DEF Records
    <3> QED BY <2>1, <3>1, <3>2, ReplaceWrites DEF Writable
  <2>2. CASE UNCHANGED <<jobs, counts>>
    BY <1>1, <2>2
  <2> QED BY <1>6, <2>1, <2>2 DEF Attempt, Outcome, Submitting
<1>7. ASSUME NEW key \in Keys, ResolveRef(key) \/ SetUserData(key) PROVE Goal
  <2>1. CASE key \in DOMAIN jobs /\ ReplaceRec(key, jobs[key])
    BY <1>0, <2>1, ReplaceWrites DEF Writable
  <2> QED BY <1>1, <1>7, <2>1 DEF ResolveRef, SetUserData, storeVars
<1>8. ASSUME NEW r \in Readers, Snapshot(r) PROVE Goal
  BY <1>1, <1>8 DEF Snapshot, storeVars
<1>9. ASSUME NEW r \in Readers, NEW key \in Keys, ApplyOne(r, key) PROVE Goal
  <2>1. CASE /\ key \in DOMAIN jobs
             /\ \E s \in Found(r) : ReplaceRec(key, [jobs[key] EXCEPT !.state = s])
    <3>1. PICK s \in Found(r) : ReplaceRec(key, [jobs[key] EXCEPT !.state = s])
      BY <2>1
    <3>2. /\ [jobs[key] EXCEPT !.state = s] \in Records
          /\ [jobs[key] EXCEPT !.state = s].gen = jobs[key].gen
          /\ [jobs[key] EXCEPT !.state = s].id = jobs[key].id
      BY <1>0, <2>1 DEF Records, Found, States
    <3> QED BY <2>1, <3>1, <3>2, ReplaceWrites DEF Writable
  <2>2. CASE UNCHANGED <<jobs, counts>>
    BY <1>1, <2>2
  <2> QED BY <1>9, <2>1, <2>2 DEF ApplyOne
<1>10. CASE (\E n \in 0..MaxIntended : LocalCreateJobset(n)) \/ UNCHANGED vars
  BY <1>1, <1>10 DEF LocalCreateJobset, vars, storeVars
<1> QED BY <1>3, <1>4, <1>5, <1>6, <1>7, <1>8, <1>9, <1>10 DEF Next, Working

\* Whichever thread writes a record, from whatever copy, the revision grows by
\* one: the order the manager relays signals in is the order of the writes.
THEOREM RevisionsGrowAlways == Spec => RevisionsGrow
<1>1. ASSUME StoreInv, [Next]_vars
      PROVE  [\A key \in DOMAIN jobs' :
               IF key \in DOMAIN jobs
               THEN jobs'[key] = jobs[key] \/ jobs'[key].revision = jobs[key].revision + 1
               ELSE jobs'[key].revision = 0]_vars
  <2>1. \A key \in DOMAIN jobs' : Kept(key) \/ Added(key) \/ Written(key)
    BY <1>1, StepWrites
  <2> QED BY <2>1 DEF Kept, Added, Written, NewRec, Records
<1> QED BY <1>1, StoreInvariant, PTL DEF Spec, RevisionsGrow

\* No write of any thread takes the job id away from an execution.
THEOREM IdKeptAlways == Spec => IdKept
<1>1. ASSUME StoreInv, [Next]_vars
      PROVE  [\A key \in DOMAIN jobs \cap DOMAIN jobs' :
               jobs[key].id /\ jobs'[key].gen = jobs[key].gen => jobs'[key].id]_vars
  <2>0. fresh \in [Keys -> Nat] /\ DOMAIN jobs \subseteq Keys
    BY <1>1 DEF StoreInv, TypeOK, IsDict
  <2>1. SUFFICES ASSUME NEW key \in DOMAIN jobs \cap DOMAIN jobs',
                        jobs[key].id, jobs'[key].gen = jobs[key].gen
                 PROVE  jobs'[key].id
    OBVIOUS
  <2>2. Kept(key) \/ Written(key)
    BY <1>1, <2>1, StepWrites DEF Added
  <2>3. CASE Written(key)
    <3>1. PICK r \in Records : /\ jobs'[key] = [r EXCEPT !.revision = jobs[key].revision + 1]
                               /\ Writable(key, r)
      BY <2>3 DEF Written
    <3>2. jobs'[key].gen = r.gen /\ jobs'[key].id = r.id
      BY <3>1 DEF Records
    <3>3. jobs[key].gen < fresh[key] /\ jobs[key].gen \in Nat /\ fresh[key] \in Nat
      BY <1>1, <2>0 DEF StoreInv, GenerationInv, TypeOK, IsDict, Records
    <3>4. r.gen # fresh[key]
      BY <2>1, <3>2, <3>3
    <3> QED BY <2>1, <3>1, <3>2, <3>4 DEF Writable
  <2> QED BY <2>1, <2>2, <2>3 DEF Kept
<1> QED BY <1>1, StoreInvariant, PTL DEF Spec, IdKept

\* The answer of a query reaches only the execution it is about.
THEOREM AnswersMatchAlways == Spec => AnswersMatch
<1> DEFINE Match == \A r \in Readers : \A key \in DOMAIN snap[r] \ DOMAIN snap'[r] :
                      key \in DOMAIN jobs /\ jobs'[key] # jobs[key] =>
                        jobs[key].gen = snap[r][key].gen /\ jobs[key].id = snap[r][key].id
<1>1. ASSUME StoreInv, [Next]_vars PROVE [Match]_vars
  <2>0. snap = [r \in Readers |-> snap[r]]
    BY <1>1 DEF StoreInv, TypeOK
  <2>1. ASSUME NEW q \in Readers, NEW k \in Keys, ApplyOne(q, k) PROVE Match
    <3>1. snap' = [snap EXCEPT ![q] = Without(snap[q], k)]
      BY <2>1 DEF ApplyOne
    <3>2. \A r \in Readers : DOMAIN snap[r] \ DOMAIN snap'[r] \subseteq
                               (IF r = q THEN {k} ELSE {})
      BY <2>0, <3>1 DEF Without
    <3>3. CASE k \in DOMAIN jobs /\ Unchanged(k, snap[q][k])
      BY <3>2, <3>3 DEF Unchanged
    <3>4. CASE UNCHANGED <<jobs, counts>>
      BY <3>2, <3>4
    <3> QED BY <2>1, <3>3, <3>4 DEF ApplyOne
  <2>2. ASSUME NEW q \in Readers, Snapshot(q) PROVE Match
    <3>1. DOMAIN snap[q] = {} /\ snap' = [snap EXCEPT ![q] = snap'[q]]
      BY <2>0, <2>2, EmptyDict DEF Snapshot
    <3> QED BY <2>0, <3>1
  <2>3. ASSUME snap' = snap PROVE Match
    BY <2>3
  <2>4. CASE \E q \in Readers : Snapshot(q) \/ \E k \in Keys : ApplyOne(q, k)
    BY <2>1, <2>2, <2>4
  <2>5. CASE \E n \in 0..MaxIntended : LocalCreateJobset(n)
    BY <2>3, <2>5 DEF LocalCreateJobset, workVars
  <2>6. ASSUME NEW e \in Editors, Editing(e) PROVE Match
    <3>1. snap' = snap
      BY <2>6, EditingCases, BeginningBegins
      DEF Counting, CountForGrow, CountForSync, Grow, Sync, DeleteJobset, AddOne, EditOne,
          DropOne, workVars
    <3> QED BY <2>3, <3>1
  <2>7. ASSUME NEW key \in Keys,
               Reset(key) \/ Attempt(key) \/ Outcome(key) \/ ResolveRef(key) \/ SetUserData(key)
        PROVE  Match
    BY <2>3, <2>7 DEF Reset, Attempt, Outcome, ResolveRef, SetUserData, workVars
  <2>8. CASE \E ks \in SUBSET Keys : Submit(ks)
    BY <2>3, <2>8 DEF Submit
  <2>9. CASE UNCHANGED vars
    BY <2>9
  <2> QED BY <1>1, <2>4, <2>5, <2>6, <2>7, <2>8, <2>9 DEF Next, Working
<1> QED BY <1>1, StoreInvariant, PTL DEF Spec, AnswersMatch

-----------------------------------------------------------------------------
(* The summary.                                                            *)

\* The size of a union of two disjoint finite sets.
LEMMA DisjointUnion ==
  ASSUME NEW S, NEW T, IsFiniteSet(S), IsFiniteSet(T), S \cap T = {}
  PROVE  /\ IsFiniteSet(S \cup T) /\ Cardinality(S) \in Nat /\ Cardinality(T) \in Nat
         /\ Cardinality(S \cup T) = Cardinality(S) + Cardinality(T)
<1>1. /\ IsFiniteSet(S \cup T)
      /\ Cardinality(S \cup T) = Cardinality(S) + Cardinality(T) - Cardinality(S \cap T)
  BY FS_Union
<1>2. Cardinality(S \cap T) = 0
  BY FS_EmptySet
<1>3. Cardinality(S) \in Nat /\ Cardinality(T) \in Nat
  BY FS_CardinalityType
<1> QED
  BY <1>1, <1>2, <1>3

\* Every record is counted under one state: the counters add up to the records.
LEMMA CountsAddUp ==
  ASSUME Jobs(jobs), CountsOK
  PROVE  SumOf(counts) = Cardinality(DOMAIN jobs)
<1> DEFINE A == InState("CREATED")
           B == InState("SUBMITTING")
           C == InState("RETRY_WAIT")
           D == InState("PEND")
           E == InState("END")
           F == InState("LOST")
<1>1. \A s : IsFiniteSet(InState(s))
  BY FiniteStates DEF InState
<1>2. \A s, t : s # t => InState(s) \cap InState(t) = {}
  BY DEF InState
<1>3. /\ IsFiniteSet(A \cup B) /\ Cardinality(A) \in Nat /\ Cardinality(B) \in Nat
      /\ Cardinality(A \cup B) = Cardinality(A) + Cardinality(B)
  <2>1. A \cap B = {}
    BY <1>2
  <2> QED
    BY <1>1, <2>1, DisjointUnion
<1>4. /\ IsFiniteSet(A \cup B \cup C) /\ Cardinality(C) \in Nat
      /\ Cardinality(A \cup B \cup C) = Cardinality(A \cup B) + Cardinality(C)
  <2>1. (A \cup B) \cap C = {}
    BY <1>2
  <2> HIDE DEF A, B, C
  <2>2. IsFiniteSet(C)
    BY <1>1 DEF C
  <2> QED
    BY <1>3, <2>1, <2>2, DisjointUnion
<1>5. /\ IsFiniteSet(A \cup B \cup C \cup D) /\ Cardinality(D) \in Nat
      /\ Cardinality(A \cup B \cup C \cup D) = Cardinality(A \cup B \cup C) + Cardinality(D)
  <2>1. (A \cup B \cup C) \cap D = {}
    BY <1>2
  <2> HIDE DEF A, B, C, D
  <2>2. IsFiniteSet(D)
    BY <1>1 DEF D
  <2> QED
    BY <1>4, <2>1, <2>2, DisjointUnion
<1>6. /\ IsFiniteSet(A \cup B \cup C \cup D \cup E) /\ Cardinality(E) \in Nat
      /\ Cardinality(A \cup B \cup C \cup D \cup E)
           = Cardinality(A \cup B \cup C \cup D) + Cardinality(E)
  <2>1. (A \cup B \cup C \cup D) \cap E = {}
    BY <1>2
  <2> HIDE DEF A, B, C, D, E
  <2>2. IsFiniteSet(E)
    BY <1>1 DEF E
  <2> QED
    BY <1>5, <2>1, <2>2, DisjointUnion
<1>7. /\ Cardinality(F) \in Nat
      /\ Cardinality(A \cup B \cup C \cup D \cup E \cup F)
           = Cardinality(A \cup B \cup C \cup D \cup E) + Cardinality(F)
  <2>1. (A \cup B \cup C \cup D \cup E) \cap F = {}
    BY <1>2
  <2> HIDE DEF A, B, C, D, E, F
  <2>2. IsFiniteSet(F)
    BY <1>1 DEF F
  <2> QED
    BY <1>6, <2>1, <2>2, DisjointUnion
<1>8. DOMAIN jobs = A \cup B \cup C \cup D \cup E \cup F
  <2>1. \A key \in DOMAIN jobs : jobs[key].state \in States
    BY DEF Jobs, IsDict, Records
  <2> QED
    BY <2>1 DEF States, InState
<1>9. /\ Get(counts, "CREATED") = Cardinality(A) /\ Get(counts, "SUBMITTING") = Cardinality(B)
      /\ Get(counts, "RETRY_WAIT") = Cardinality(C) /\ Get(counts, "PEND") = Cardinality(D)
      /\ Get(counts, "END") = Cardinality(E) /\ Get(counts, "LOST") = Cardinality(F)
  BY DEF CountsOK, States
<1> HIDE DEF A, B, C, D, E, F
<1> QED
  BY <1>3, <1>4, <1>5, <1>6, <1>7, <1>8, <1>9 DEF SumOf

\* SummaryAgrees (summary_from_counts): with _meta_lock free, the states of a
\* summary add up to its total, whatever the polling thread and the submitter
\* write meanwhile and however the edits before followed each other, and the total
\* is of records there are.
THEOREM SummaryAgreesHolds == Spec => []SummaryAgrees
<1>1. ASSUME StoreInv, meta = None, exists = "there" PROVE SumOf(Summary) = intended
  <2>1. Jobs(jobs) /\ Counters(counts) /\ intended \in Nat
    BY <1>1 DEF StoreInv, TypeOK, Jobs, Counters
  <2>2. SumOf(counts) = Cardinality(DOMAIN jobs)
    BY <1>1, <2>1, CountsAddUp DEF StoreInv
  <2>3. SumOf(counts) <= intended
    BY <1>1, <2>2 DEF StoreInv, TotalInv
  <2>4. \A s \in States : Get(counts, s) \in Nat
    BY <2>1 DEF Counters, IsDict, Get
  <2>5. SumOf(counts) \in Nat
    BY <2>4 DEF SumOf, States
  <2>6. CASE intended > SumOf(counts)
    <3> DEFINE more == Get(counts, "CREATED") + intended - SumOf(counts)
    <3>1. Summary = With(counts, "CREATED", more)
      BY <2>6 DEF Summary
    <3>2. /\ Get(Summary, "CREATED") = more
          /\ \A s \in States \ {"CREATED"} : Get(Summary, s) = Get(counts, s)
      BY <3>1 DEF Get, With
    <3>3. SumOf(Summary) = SumOf(counts) + (intended - SumOf(counts))
      BY <2>1, <2>4, <2>5, <3>2 DEF SumOf, States
    <3> QED
      BY <2>1, <2>5, <3>3
  <2>7. CASE ~(intended > SumOf(counts))
    BY <2>1, <2>3, <2>5, <2>7 DEF Summary
  <2> QED
    BY <2>6, <2>7
<1>2. StoreInv => SummaryAgrees
  BY <1>1 DEF SummaryAgrees, StoreInv, TotalInv
<1> QED
  BY StoreInvariant, <1>2, PTL
=============================================================================
