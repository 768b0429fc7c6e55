------------------------------ MODULE JobStore ------------------------------
(***************************************************************************)
(* The records of one jobset: lsfmgr/store/memory.py, the operations of    *)
(* lsfmgr/jobset_core.py that edit them, and the transitions with which    *)
(* the other threads update them.                                          *)
(*                                                                         *)
(* The store lock makes each store call atomic; a call that works through  *)
(* a batch holds it from the first element to the last.  The operations of *)
(* jobset_core are several store calls and hold _meta_lock, which the      *)
(* transitions of the submitter, the poll and set_user_data do not take.   *)
(***************************************************************************)
EXTENDS Naturals, FiniteSets

CONSTANTS
  Keys, Editors,      \* job keys; threads that use jobset_core
  None,               \* no thread
  MaxIntended,        \* bound: the intended_count a jobset is created with
  MaxGeneration,      \* bound: executions of a key
  MaxRevision         \* bound: writes to a record

ASSUME JobStoreAssumption ==
  /\ IsFiniteSet(Keys)
  /\ None \notin Editors \cup {"poll", "lost"}
  /\ Editors \cap {"poll", "lost"} = {}
  /\ MaxIntended \in Nat /\ MaxGeneration \in Nat /\ MaxRevision \in Nat

VARIABLES
  exists,     \* "unborn", "there" or "removed"
  jobs,       \* _jobs: the records, by key
  counts,     \* _counts: how many records have each state, by state
  intended,   \* intended_count of the jobset
  lock,       \* the thread that is inside a batch, and so holds the store lock
  meta,       \* the thread that holds _meta_lock
  edit,       \* what each editor is doing
  synced,     \* the intended count has been made to agree with the records
  fresh,      \* the number of executions each key has had
  cycle,      \* what the submitter still has to do with each key
  snap,       \* what the poll and detect_lost have read, by key
  ref         \* the key and the record set_user_data has resolved

storeVars == <<exists, jobs, counts>>
editVars  == <<intended, meta, edit, synced>>
workVars  == <<cycle, snap, ref>>
vars == <<storeVars, editVars, lock, fresh, workVars>>

Readers == {"poll", "lost"}
States == {"CREATED", "SUBMITTING", "RETRY_WAIT", "PEND", "END", "LOST"}
Submitting == {"SUBMITTING", "RETRY_WAIT"}
Inactive == {"CREATED", "END", "LOST"}
Terminal == {"END", "LOST"}

\* gen is _generation, id whether the record has a job_id.
Records == [state : States, id : BOOLEAN, gen : Nat, revision : Nat]

\* Dictionaries: d is a function on part of D with values in R.
IsDict(d, D, R) == DOMAIN d \subseteq D /\ d \in [DOMAIN d -> R]
Empty == [k \in {} |-> k]
Without(d, k) == [x \in DOMAIN d \ {k} |-> d[x]]
With(d, k, v) == [x \in DOMAIN d \cup {k} |-> IF x = k THEN v ELSE d[x]]

Idle == [step |-> "idle", todo |-> {}, old |-> {}, force |-> FALSE, n |-> 0]
Steps == {"idle", "create", "edit", "delete", "grow", "sync", "remove"}
Edits == [step : Steps, todo : SUBSET Keys, old : SUBSET Keys, force : BOOLEAN, n : Nat]

TypeOK ==
  /\ exists \in {"unborn", "there", "removed"}
  /\ IsDict(jobs, Keys, Records)
  /\ IsDict(counts, States, Nat \ {0})
  /\ intended \in Nat
  /\ lock \in Editors \cup Readers \cup {None}
  /\ meta \in Editors \cup {None}
  /\ edit \in [Editors -> Edits]
  /\ synced \in BOOLEAN
  /\ fresh \in [Keys -> Nat]
  /\ cycle \in [Keys -> {"no", "reset", "run"}]
  /\ snap = [r \in Readers |-> snap[r]] /\ \A r \in Readers : IsDict(snap[r], Keys, Records)
  /\ IsDict(ref, Keys, Records)

Init ==
  /\ exists = "unborn" /\ jobs = Empty /\ counts = Empty
  /\ intended = 0 /\ meta = None /\ edit = [e \in Editors |-> Idle] /\ synced = FALSE
  /\ lock = None
  /\ fresh = [key \in Keys |-> 0]
  /\ cycle = [key \in Keys |-> "no"] /\ snap = [r \in Readers |-> Empty] /\ ref = Empty

-----------------------------------------------------------------------------
(* The funnel every write of a record goes through.                        *)

Get(c, s) == IF s \in DOMAIN c THEN c[s] ELSE 0

\* _count_del: one less, and no entry rather than 0.
CountDel(c, s) == IF Get(c, s) > 1 THEN With(c, s, c[s] - 1) ELSE Without(c, s)

CountAdd(c, s) == With(c, s, Get(c, s) + 1)

\* Mutant of PutRec: the record that is replaced stays counted.
PutRecForgetsOld(key, r) ==
  /\ jobs' = With(jobs, key, r)
  /\ counts' = CountAdd(counts, r.state)

\* _put_rec and _drop_rec.
PutRec(key, r) ==
  /\ jobs' = With(jobs, key, r)
  /\ counts' = CountAdd(IF key \in DOMAIN jobs THEN CountDel(counts, jobs[key].state)
                                               ELSE counts, r.state)

DropRec(key) ==
  /\ jobs' = Without(jobs, key)
  /\ counts' = CountDel(counts, jobs[key].state)

\* Mutant of NextRevision: it is that of the record handed in.
RevisionOfInput(key, r) == r.revision + 1

\* The revision of a write is one more than that of the record it replaces,
\* whatever the record it writes carries.
NextRevision(key, r) == jobs[key].revision + 1

ReplaceRec(key, r) ==
  /\ jobs[key].revision < MaxRevision
  /\ PutRec(key, [r EXCEPT !.revision = NextRevision(key, r)])

\* A record as build_records makes it, and a new execution of a record.
NewRec(key) == [state |-> "CREATED", id |-> FALSE, gen |-> fresh[key], revision |-> 0]
NewGeneration(key) ==
  /\ fresh[key] < MaxGeneration
  /\ fresh' = [fresh EXCEPT ![key] = @ + 1]

\* The summary of the jobset; records still to come count as CREATED.
SumOf(c) == Get(c, "CREATED") + Get(c, "SUBMITTING") + Get(c, "RETRY_WAIT")
            + Get(c, "PEND") + Get(c, "END") + Get(c, "LOST")
Summary ==
  IF intended > SumOf(counts)
  THEN With(counts, "CREATED", Get(counts, "CREATED") + intended - SumOf(counts))
  ELSE counts

-----------------------------------------------------------------------------
(* jobset_core: under _meta_lock, by threads of its users.                 *)

\* Mutant of Acquire: the lock is not waited for.
AcquireAnyhow(e) == edit[e] = Idle /\ meta' = e

Acquire(e) == meta = None /\ meta' = e

Begin(e, what) ==
  /\ Acquire(e) /\ lock = None /\ exists = "there"
  /\ edit' = [edit EXCEPT ![e] = what]
  /\ UNCHANGED <<storeVars, intended, lock, synced, fresh, workVars>>

\* local_create_jobset.
LocalCreateJobset(n) ==
  /\ exists = "unborn"
  /\ exists' = "there" /\ intended' = n
  /\ UNCHANGED <<jobs, counts, lock, meta, edit, synced, fresh, workVars>>

\* local_create_jobs: keys that are there already are refused.
LocalCreateJobs(e, ks) ==
  /\ ks # {} /\ ks \cap DOMAIN jobs = {}
  /\ Begin(e, [Idle EXCEPT !.step = "create", !.todo = ks])

\* local_edit_jobs, up to the point where all of the batch is checked: the
\* policy, and that nothing active is replaced except by force.  The manager
\* edits only while no cycle is under way.
LocalEditJobs(e, policy, ks, force) ==
  LET old == ks \cap DOMAIN jobs IN
  /\ \A key \in Keys : cycle[key] = "no"
  /\ ks # {}
  /\ policy = "add" => old = {}
  /\ policy = "replace" => old = ks
  /\ force \/ \A key \in old : jobs[key].state \in Inactive
  /\ Begin(e, [Idle EXCEPT !.step = "edit", !.todo = ks, !.old = old, !.force = force])

\* local_remove_jobs of ks, and local_clear_jobs of all there are.
LocalRemoveJobs(e, ks, force) ==
  /\ ks \subseteq DOMAIN jobs /\ (ks # {} \/ DOMAIN jobs = {})
  /\ force \/ \A key \in ks : jobs[key].state \in Inactive
  /\ Begin(e, [Idle EXCEPT !.step = "delete", !.todo = ks, !.force = force])

\* local_remove_jobset, up to the deletion.
LocalRemoveJobset(e, force) ==
  /\ force \/ \A key \in DOMAIN jobs : jobs[key].state \in Terminal
  /\ force \/ \A key \in Keys : cycle[key] = "no"
  /\ Begin(e, [Idle EXCEPT !.step = "remove", !.force = force])

Done(e, key) == edit' = [edit EXCEPT ![e].todo = @ \ {key}]

\* A batch keeps the store lock until its last element.
HoldLock(thread, todo) ==
  /\ lock \in {None, thread}
  /\ lock' = IF Cardinality(todo) > 1 THEN thread ELSE None

\* store_add_jobs: one more record of the batch.
AddOne(e, key) ==
  /\ edit[e].step = "create" /\ key \in edit[e].todo
  /\ HoldLock(e, edit[e].todo)
  /\ NewGeneration(key) /\ PutRec(key, NewRec(key))
  /\ Done(e, key)
  /\ UNCHANGED <<exists, intended, meta, synced, workVars>>

\* update_job or store_add_job, as planned: a store call per record.
EditOne(e, key) ==
  /\ edit[e].step = "edit" /\ key \in edit[e].todo /\ lock = None
  /\ NewGeneration(key)
  /\ IF key \in edit[e].old THEN ReplaceRec(key, NewRec(key)) ELSE PutRec(key, NewRec(key))
  /\ Done(e, key)
  /\ UNCHANGED <<exists, intended, lock, meta, synced, workVars>>

\* store_delete_jobs: one more record of the batch.
DropOne(e, key) ==
  /\ edit[e].step = "delete" /\ key \in edit[e].todo
  /\ HoldLock(e, edit[e].todo)
  /\ DropRec(key)
  /\ Done(e, key)
  /\ UNCHANGED <<exists, intended, meta, synced, fresh, workVars>>

\* The records are counted: at the end of local_create_jobs, where the
\* intended count only grows, ...
CountForGrow(e) ==
  /\ edit[e].step = "create" /\ edit[e].todo = {} /\ lock = None
  /\ edit' = [edit EXCEPT ![e].step = "grow", ![e].n = Cardinality(DOMAIN jobs)]
  /\ UNCHANGED <<storeVars, intended, lock, meta, synced, fresh, workVars>>

\* ... and in _sync_intended_count.
CountForSync(e) ==
  /\ edit[e].step \in {"edit", "delete"} /\ edit[e].todo = {} /\ lock = None
  /\ edit' = [edit EXCEPT ![e].step = "sync", ![e].n = Cardinality(DOMAIN jobs)]
  /\ UNCHANGED <<storeVars, intended, lock, meta, synced, fresh, workVars>>

End(e) == meta' = None /\ edit' = [edit EXCEPT ![e] = Idle]

\* Mutant of Grow: a count announced in advance is never raised.
GrowFromZero(e) ==
  /\ edit[e].step = "grow" /\ lock = None
  /\ intended' = IF intended = 0 THEN edit[e].n ELSE intended
  /\ End(e)
  /\ UNCHANGED <<storeVars, lock, synced, fresh, workVars>>

Grow(e) ==
  /\ edit[e].step = "grow" /\ lock = None
  /\ intended' = IF edit[e].n > intended THEN edit[e].n ELSE intended
  /\ End(e)
  /\ UNCHANGED <<storeVars, lock, synced, fresh, workVars>>

Sync(e) ==
  /\ edit[e].step = "sync" /\ lock = None
  /\ intended' = edit[e].n
  /\ synced' = TRUE
  /\ End(e)
  /\ UNCHANGED <<storeVars, lock, fresh, workVars>>

\* store_delete_jobset.
DeleteJobset(e) ==
  /\ edit[e].step = "remove" /\ lock = None
  /\ exists' = "removed" /\ jobs' = Empty /\ counts' = Empty
  /\ intended' = 0 /\ synced' = TRUE
  /\ End(e)
  /\ UNCHANGED <<lock, fresh, workVars>>

-----------------------------------------------------------------------------
(* Transitions of the other threads.  None of them takes _meta_lock.       *)

\* submit of inactive jobs; submit_targets takes no lock but that of the store.
Submit(ks) ==
  /\ lock = None /\ exists = "there"
  /\ \A key \in Keys : cycle[key] = "no"
  /\ ks # {} /\ ks \subseteq DOMAIN jobs
  /\ \A key \in ks : jobs[key].state \in Inactive
  /\ cycle' = [key \in Keys |-> IF key \in ks THEN "reset" ELSE "no"]
  /\ UNCHANGED <<storeVars, editVars, lock, fresh, snap, ref>>

\* _reset_records: a new execution, unless the record is gone or a kill has
\* cancelled the job.
Reset(key) ==
  /\ cycle[key] = "reset" /\ lock = None
  /\ \/ /\ key \in DOMAIN jobs
        /\ NewGeneration(key)
        /\ ReplaceRec(key, [jobs[key] EXCEPT !.state = "SUBMITTING", !.id = FALSE,
                                             !.gen = fresh[key]])
        /\ cycle' = [cycle EXCEPT ![key] = "run"]
     \/ /\ cycle' = [cycle EXCEPT ![key] = "no"]
        /\ UNCHANGED <<jobs, counts, fresh>>
  /\ UNCHANGED <<exists, editVars, lock, snap, ref>>

\* An attempt begins, or has failed and waits to be repeated: whatever the
\* state is.
Attempt(key) ==
  /\ cycle[key] = "run" /\ lock = None /\ key \in DOMAIN jobs
  /\ \E s \in Submitting : ReplaceRec(key, [jobs[key] EXCEPT !.state = s])
  /\ UNCHANGED <<exists, editVars, lock, fresh, workVars>>

\* _task_succeeded; _task_failed and _task_crashed; _mark_cancelled of a job
\* that is no longer being submitted, or any of them when it is gone.
Outcome(key) ==
  /\ cycle[key] = "run" /\ lock = None
  /\ cycle' = [cycle EXCEPT ![key] = "no"]
  /\ \/ /\ key \in DOMAIN jobs
        /\ \/ ReplaceRec(key, [jobs[key] EXCEPT !.state = "PEND", !.id = TRUE])
           \/ ReplaceRec(key, [jobs[key] EXCEPT !.state = "END"])
     \/ /\ key \in DOMAIN jobs => jobs[key].state \notin Submitting
        /\ UNCHANGED <<jobs, counts>>
  /\ UNCHANGED <<exists, editVars, lock, fresh, snap, ref>>

\* The poll looks at jobs on LSF, detect_lost at jobs without an id.
Candidates(r) ==
  {key \in DOMAIN jobs : IF r = "poll" THEN jobs[key].state = "PEND"
                                       ELSE jobs[key].state = "SUBMITTING" /\ ~jobs[key].id}

Snapshot(r) ==
  /\ snap[r] = Empty /\ lock = None /\ Candidates(r) # {}
  /\ snap' = [snap EXCEPT ![r] = [key \in Candidates(r) |-> jobs[key]]]
  /\ UNCHANGED <<storeVars, editVars, lock, fresh, cycle, ref>>

\* Mutant of Unchanged: the same state is enough.
SameState(key, r) == jobs[key].state = r.state

\* The guard of both: the record is that of the snapshot.
Unchanged(key, r) ==
  jobs[key].gen = r.gen /\ jobs[key].id = r.id /\ jobs[key].state = r.state

Found(r) == IF r = "poll" THEN {"PEND", "END", "LOST"} ELSE {"LOST"}

\* detect_lost applies one batch, the poll two, one of updates and one of LOST:
\* its first may end at any job.
HoldLockForAnswers(r) ==
  /\ lock \in {None, r}
  /\ lock' \in IF Cardinality(DOMAIN snap[r]) = 1 THEN {None}
               ELSE IF r = "poll" THEN {None, r} ELSE {r}

\* transition_many: one more of the batch, written only if it is unchanged.
\* The poll has nothing to store of a job that looks as before.
ApplyOne(r, key) ==
  /\ key \in DOMAIN snap[r]
  /\ HoldLockForAnswers(r)
  /\ snap' = [snap EXCEPT ![r] = Without(@, key)]
  /\ \/ /\ key \in DOMAIN jobs /\ Unchanged(key, snap[r][key])
        /\ \E s \in Found(r) : ReplaceRec(key, [jobs[key] EXCEPT !.state = s])
     \/ /\ r # "poll" => ~(key \in DOMAIN jobs /\ Unchanged(key, snap[r][key]))
        /\ UNCHANGED <<jobs, counts>>
  /\ UNCHANGED <<exists, editVars, fresh, cycle, ref>>

\* set_user_data resolves the job, ...
ResolveRef(key) ==
  /\ ref = Empty /\ lock = None /\ key \in DOMAIN jobs
  /\ ref' = With(Empty, key, jobs[key])
  /\ UNCHANGED <<storeVars, editVars, lock, fresh, cycle, snap>>

\* Mutant of SetUserData: the record that was read is written back.
SetUserDataOnSnapshot(key) ==
  /\ key \in DOMAIN ref /\ lock = None
  /\ ref' = Empty
  /\ IF key \in DOMAIN jobs THEN ReplaceRec(key, ref[key]) ELSE UNCHANGED <<jobs, counts>>
  /\ UNCHANGED <<exists, editVars, lock, fresh, cycle, snap>>

\* ... and the transition keeps everything else as it is by then.
SetUserData(key) ==
  /\ key \in DOMAIN ref /\ lock = None
  /\ ref' = Empty
  /\ IF key \in DOMAIN jobs THEN ReplaceRec(key, jobs[key]) ELSE UNCHANGED <<jobs, counts>>
  /\ UNCHANGED <<exists, editVars, lock, fresh, cycle, snap>>

-----------------------------------------------------------------------------
Editing(e) ==
  \/ \E ks \in SUBSET Keys : LocalCreateJobs(e, ks)
  \/ \E ks \in SUBSET Keys, force \in BOOLEAN :
       \/ LocalRemoveJobs(e, ks, force)
       \/ \E policy \in {"add", "replace", "upsert"} : LocalEditJobs(e, policy, ks, force)
  \/ \E force \in BOOLEAN : LocalRemoveJobset(e, force)
  \/ \E key \in Keys : AddOne(e, key) \/ EditOne(e, key) \/ DropOne(e, key)
  \/ CountForGrow(e) \/ CountForSync(e) \/ Grow(e) \/ Sync(e) \/ DeleteJobset(e)

Working ==
  \/ \E ks \in SUBSET Keys : Submit(ks)
  \/ \E key \in Keys : Reset(key) \/ Attempt(key) \/ Outcome(key)
  \/ \E key \in Keys : ResolveRef(key) \/ SetUserData(key)
  \/ \E r \in Readers : Snapshot(r) \/ \E key \in Keys : ApplyOne(r, key)

Next ==
  \/ \E n \in 0..MaxIntended : LocalCreateJobset(n)
  \/ \E e \in Editors : Editing(e)
  \/ Working

Spec == Init /\ [][Next]_vars

-----------------------------------------------------------------------------
(* Properties.                                                             *)

InState(s) == {key \in DOMAIN jobs : jobs[key].state = s}

\* The incremental counters agree with the records after every write of one,
\* inside a batch too (_debug_counts_ok); no state has an entry 0 (TypeOK).
CountsOK == \A s \in States : Get(counts, s) = Cardinality(InState(s))

\* Once a job has been added, replaced or removed, the total is the number
\* of records: no CREATED is left of a job that is gone (_delete_jobs: "no
\* ghost CREATED remains"), and of a count announced in advance.
NoGhosts == meta = None /\ synced => intended = Cardinality(DOMAIN jobs)

\* What summary returns adds up to its total (base.py: "the sum over the
\* states == intended_count") and shows no ghosts whenever no edit is under way:
\* an edit writes its records first and the total afterwards.
SummaryAgrees ==
  /\ meta = None /\ exists = "there" => SumOf(Summary) = intended
  /\ NoGhosts

\* A batch that was checked is applied to the end: no update_job, store_add_job
\* or deletion of it meets a key that came or went since the check
\* (local_edit_jobs: "no part of a batch is changed because of bad input").
BatchApplies ==
  \A e \in Editors : edit[e].step # "idle" =>
    /\ exists = "there"
    /\ edit[e].step = "create" => edit[e].todo \cap DOMAIN jobs = {}
    /\ edit[e].step = "edit" => edit[e].todo \cap DOMAIN jobs = edit[e].todo \cap edit[e].old
    /\ edit[e].step = "delete" => edit[e].todo \subseteq DOMAIN jobs

\* local_remove_jobs without force deletes no active job (it reads the states
\* inside the lock because a worker could otherwise change them meanwhile).
RemovesInactive ==
  \A e \in Editors : edit[e].step = "delete" /\ ~edit[e].force =>
    \A key \in edit[e].todo : jobs[key].state \in Inactive

\* The job id of an execution is never lost (set_user_data: with the record
\* written back, "the job_id a submit worker recorded was erased").
IdKept ==
  [][\A key \in DOMAIN jobs \cap DOMAIN jobs' :
       jobs[key].id /\ jobs'[key].gen = jobs[key].gen => jobs'[key].id]_vars

\* What the poll or detect_lost has found out is stored only for the execution
\* it was found out about, and not when the job got its id meanwhile: a job
\* resubmitted during the query is not ended or lost by its answer.
AnswersMatch ==
  [][\A r \in Readers : \A key \in DOMAIN snap[r] \ DOMAIN snap'[r] :
       key \in DOMAIN jobs /\ jobs'[key] # jobs[key] =>
         jobs[key].gen = snap[r][key].gen /\ jobs[key].id = snap[r][key].id]_vars

\* A write of a record carries the next revision, whichever thread made it
\* from however old a copy; a key that is added again starts from 0.  The
\* manager drops signals with an older revision than one it has emitted.
RevisionsGrow ==
  [][\A key \in DOMAIN jobs' :
       IF key \in DOMAIN jobs
       THEN jobs'[key] = jobs[key] \/ jobs'[key].revision = jobs[key].revision + 1
       ELSE jobs'[key].revision = 0]_vars

-----------------------------------------------------------------------------
(* The inductive invariant of JobStore_proofs.                             *)

\* The identity of an execution is never given out again.
GenerationInv == \A key \in DOMAIN jobs : jobs[key].gen < fresh[key]

\* Who works under _meta_lock holds it, and what it counted is still true.
LockInv ==
  \A e \in Editors :
    /\ edit[e].step # "idle" => meta = e
    /\ edit[e].step \in {"grow", "sync"} => edit[e].n = Cardinality(DOMAIN jobs)

\* With the lock free the total covers the records; once it was made to agree
\* with them, adding more cannot leave it above them.
TotalInv ==
  /\ exists # "there" => DOMAIN jobs = {}
  /\ exists = "unborn" => ~synced
  /\ meta = None => Cardinality(DOMAIN jobs) <= intended
  /\ NoGhosts
  /\ \A e \in Editors : synced /\ edit[e].step \in {"create", "grow"} =>
       intended <= Cardinality(DOMAIN jobs)

\* All of it, for editors that follow the lock and writers that do not.
StoreInv == TypeOK /\ CountsOK /\ GenerationInv /\ LockInv /\ BatchApplies /\ TotalInv
=============================================================================
