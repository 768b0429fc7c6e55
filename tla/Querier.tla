------------------------------- MODULE Querier -------------------------------
(***************************************************************************)
(* The status query of one jobset (JobsetQuerier in lsfmgr/monitor.py over *)
(* LsfCommand.bjobs_by_ids in lsfmgr/command.py).                          *)
(*                                                                         *)
(* The polling thread and the kill verification ask LSF for the jobs the   *)
(* store believes to be there, merge what the rows say into the records    *)
(* and count how often in a row a job was not found; a job that is missing *)
(* often enough becomes LOST, for good.  Queries of the jobset take turns. *)
(* Meanwhile LSF works on, jobs are resubmitted, killed, removed and added *)
(* again, and the main thread forgets the counts of executions that ended. *)
(*                                                                         *)
(* A job_id stands for one execution, so it is not kept beside `gen'.  An  *)
(* extended field of a row is present or absent (None), never a value.     *)
(***************************************************************************)
EXTENDS Naturals, FiniteSets

CONSTANTS
  Keys,        \* job_keys, as numbers: the order of their job_ids
  Elements,    \* key -> the elements of the job its wrapper submits
  Volatile,    \* the keys that are killed, resubmitted, removed and added
  Queriers,    \* threads that call JobsetQuerier.query
  Readers,     \* threads that call query_ids alone (kill_jobs, kill targets)
  LostAfter,   \* config.lost_after_missing_polls
  ChunkSize,   \* config.chunk_size
  Formats,     \* number of bjobs -o formats; the last one has no extended fields
  MaxGen       \* bound: executions started in a behaviour

ASSUME QuerierAssumption ==
  /\ Keys \subseteq Nat /\ Volatile \subseteq Keys
  /\ LostAfter \in Nat \ {0} /\ ChunkSize \in Nat \ {0}
  /\ Formats \in Nat \ {0}
  /\ Queriers \cap Readers = {}
  /\ \A k \in Keys : IsFiniteSet(Elements[k])

VARIABLES
  rec,      \* the records in the store
  lsf,      \* state of every element of the key's current execution
  streaks,  \* JobsetQuerier._missing_streak of the jobset
  table,    \* the entry of _query_locks for the jobset; None if there is none
  th,       \* the query every thread is in
  fmt,      \* LsfCommand._bjobs_fmt_idx
  supported, \* the first format the LSF host that answers understands
  forgets,  \* forget calls the main thread has still to make
  gens,     \* executions started so far
  miss      \* history: answers in a row that did not list the execution

vars == <<rec, lsf, streaks, table, th, fmt, supported, forgets, gens, miss>>

Threads == Queriers \cup Readers
None    == 0
Entries == 1..Cardinality(Queriers)    \* lock entries, as many as can be in use

Ended == {"DONE", "EXIT"}
OnLsf == {"PEND", "RUN"}               \* JobState.is_on_lsf
Empty == << >>                         \* a dictionary without entries
Idle  == [pc |-> "idle", entry |-> None, snap |-> Empty, rows |-> Empty,
          failed |-> {}, asked |-> {}, prev |-> Empty, used |-> 1, lost |-> {}]

\* A record of execution g that has just been accepted by LSF.
NewRec(g, young) == [gen |-> g, st |-> "PEND", start |-> FALSE,
                     finish |-> FALSE, young |-> young, killed |-> FALSE]
NoRec == [NewRec(0, FALSE) EXCEPT !.st = "GONE"]

Init ==
  /\ \E present \in SUBSET Keys :
       rec = [k \in Keys |-> IF k \in present THEN NewRec(1, FALSE) ELSE NoRec]
  /\ lsf = [k \in Keys |-> [e \in Elements[k] |-> "PEND"]]
  /\ streaks = Empty
  /\ table = None
  /\ th = [t \in Threads |-> Idle]
  /\ fmt = 1
  /\ supported = 1
  /\ forgets = {}
  /\ gens = 1
  /\ miss = [k \in Keys |-> 0]

-----------------------------------------------------------------------------
(* LSF's answer: chunks, rows and what they amount to for one record.      *)

\* chunk_args over the sorted ids: the number of the chunk an id falls in.
ChunkOf(ids, k) == (Cardinality({j \in ids : j < k}) \div ChunkSize) + 1

ChunkArgs(ids) ==
  [i \in {ChunkOf(ids, k) : k \in ids} |-> {k \in ids : ChunkOf(ids, k) = i}]

\* Two failures in a row before chunk i: the loop has ended and never asks it.
GivenUp(ok, i) == \E j \in 1..(i - 2) : ~ok[j] /\ ~ok[j + 1]

\* The ids of the chunks that have been answered.
AskedIds(chunks, ok) ==
  UNION {chunks[i] : i \in {x \in DOMAIN chunks : ok[x] /\ ~GivenUp(ok, x)}}

\* The ids nothing can be said about: failed chunks and chunks never asked.
FailedIds(chunks, ok) ==
  UNION {chunks[i] : i \in {x \in DOMAIN chunks : ~ok[x] \/ GivenUp(ok, x)}}

\* One row in format f.  LSF prints a finish time, an estimate, while the job
\* runs: only that of an ended job is kept.
ParseBjobs(f, s) ==
  [st |-> s, start |-> f < Formats /\ s # "PEND", finish |-> f < Formats /\ s \in Ended]

\* _aggregate_elements: alive while one element is, and only then without a
\* finish time; otherwise failed if one element failed.
Aggregate(rows) ==
  LET es == DOMAIN rows
      on == {e \in es : rows[e].st \in OnLsf}
  IN  [st     |-> IF \E e \in on : rows[e].st = "RUN" THEN "RUN"
                  ELSE IF on # {} THEN "PEND"
                  ELSE IF \E e \in es : rows[e].st = "EXIT" THEN "EXIT" ELSE "DONE",
       start  |-> \E e \in es : rows[e].start,
       finish |-> on = {} /\ \E e \in es : rows[e].finish]

\* lookup: the row of the job itself, or what the rows of its elements amount to.
Lookup(rows) ==
  IF Cardinality(DOMAIN rows) = 1 THEN rows[CHOOSE e \in DOMAIN rows : TRUE]
  ELSE Aggregate(rows)

\* Mutant of MergeFields: a field the format does not have is stored as None.
MergeAbsent(r, st) == [r EXCEPT !.st = st.st, !.start = st.start, !.finish = st.finish]

\* merge_fields: a field the answer does not have keeps its stored value.
MergeFields(r, st) ==
  [r EXCEPT !.st = st.st, !.start = @ \/ st.start, !.finish = @ \/ st.finish]

\* Mutant of Unchanged: the state of the record is not compared.
SameExecution(cur, r) == cur.gen = r.gen /\ cur.st # "GONE"

\* The guard of every write: the record is still the one that was asked about.
Unchanged(cur, r) == cur.gen = r.gen /\ cur.st = r.st

-----------------------------------------------------------------------------
(* The query of one thread.                                                *)

Busy(t) == th[t].pc \notin {"idle", "wait", "exit"}

\* _serialized_query: find or make the lock entry and count as a user of it.
Enter(t) ==
  /\ t \in Queriers
  /\ th[t].pc = "idle"
  /\ \E e \in Entries :
       /\ IF table # None THEN e = table ELSE \A u \in Queriers : th[u].entry # e
       /\ table' = e
       /\ th' = [th EXCEPT ![t] = [@ EXCEPT !.pc = "wait", !.entry = e]]
  /\ UNCHANGED <<rec, lsf, streaks, fmt, supported, forgets, gens, miss>>

\* The lock is taken and the targets are read; with none there is nothing to ask.
Snapshot(t) ==
  /\ th[t].pc = "wait"
  /\ \A u \in Queriers : Busy(u) => th[u].entry # th[t].entry
  /\ LET targets == {k \in Keys : rec[k].st \in OnLsf}
     IN  th' = [th EXCEPT ![t] =
               [@ EXCEPT !.pc = IF targets = {} THEN "exit" ELSE "ask",
                         !.snap = [k \in targets |-> rec[k]]]]
  /\ UNCHANGED <<rec, lsf, streaks, table, fmt, supported, forgets, gens, miss>>

\* query_ids without a jobset: the same command, no turn and no judgement.
ReadIds(t) ==
  /\ t \in Readers
  /\ th[t].pc = "idle"
  /\ th' = [th EXCEPT ![t].pc = "ask"]
  /\ UNCHANGED <<rec, lsf, streaks, table, fmt, supported, forgets, gens, miss>>

\* _bjobs looks up the format it is going to use.
ReadFormat(t) ==
  /\ th[t].pc = "ask"
  /\ th' = [th EXCEPT ![t] = [@ EXCEPT !.pc = "run", !.used = fmt]]
  /\ UNCHANGED <<rec, lsf, streaks, table, fmt, supported, forgets, gens, miss>>

\* Mutant of Downgrade: the step is taken whatever the others have done.
DowngradeTwice(t) ==
  /\ th[t].pc = "run"
  /\ th[t].used < supported
  /\ fmt' = IF fmt < Formats THEN fmt + 1 ELSE fmt
  /\ th' = [th EXCEPT ![t].pc = "ask"]
  /\ UNCHANGED <<rec, lsf, streaks, table, supported, forgets, gens, miss>>

\* The format is refused with a field error: one step down, unless another
\* thread has taken it since, and again.
Downgrade(t) ==
  /\ th[t].pc = "run"
  /\ th[t].used < supported
  /\ fmt' = IF fmt = th[t].used THEN fmt + 1 ELSE fmt
  /\ th' = [th EXCEPT ![t].pc = "ask"]
  /\ UNCHANGED <<rec, lsf, streaks, table, supported, forgets, gens, miss>>

\* bjobs_by_ids runs its chunks, each of which LSF answers or not.  An answered
\* chunk lists the jobs LSF knows of, whatever its exit code; LSF may not know a
\* living job (late registration, another cluster) nor one it has purged.
RunBjobs(t) ==
  /\ t \in Queriers
  /\ th[t].pc = "run"
  /\ th[t].used >= supported
  /\ LET chunks == ChunkArgs(DOMAIN th[t].snap)
         same   == {k \in DOMAIN th[t].snap : rec[k].gen = th[t].snap[k].gen}
     IN \E ok \in [DOMAIN chunks -> BOOLEAN] :
          LET asked == AskedIds(chunks, ok)
          IN \E found \in SUBSET (asked \cap same) :
               th' = [th EXCEPT ![t] = [@ EXCEPT
                 !.pc = "pop",
                 !.used = 1,
                 !.asked = asked,
                 !.failed = FailedIds(chunks, ok),
                 !.rows = [k \in found |->
                    Lookup([e \in Elements[k] |->
                              ParseBjobs(th[t].used, lsf[k][e])])]]]
  /\ UNCHANGED <<rec, lsf, streaks, table, fmt, supported, forgets, gens, miss>>

\* A reader takes its answer and leaves.
ReadDone(t) ==
  /\ t \in Readers
  /\ th[t].pc = "run"
  /\ th[t].used >= supported
  /\ th' = [th EXCEPT ![t] = Idle]
  /\ UNCHANGED <<rec, lsf, streaks, table, fmt, supported, forgets, gens, miss>>

\* _pop_streaks, the first half of _judge_missing.
PopStreaks(t) ==
  /\ th[t].pc = "pop"
  /\ th' = [th EXCEPT ![t] = [@ EXCEPT !.pc = "judge", !.prev = streaks]]
  /\ streaks' = Empty
  /\ UNCHANGED <<rec, lsf, table, fmt, supported, forgets, gens, miss>>

\* _within_submit_grace; a record that has been replaced is no longer written.
Young(t, k) == rec[k].gen = th[t].snap[k].gen /\ rec[k].young

\* History: the execution was asked for, is old enough and was not listed.
Missed(t, k) == k \in th[t].asked \ DOMAIN th[t].rows /\ ~Young(t, k)

\* The missing jobs that count: not those whose query failed, nor those so
\* young that a callback source may not list them yet.
Countable(t) ==
  {k \in DOMAIN th[t].snap \ (DOMAIN th[t].rows \cup th[t].failed) : ~Young(t, k)}

\* Mutant of CountOf: the count of an earlier execution is carried on.
CountOfKey(t, k) == IF k \in DOMAIN th[t].prev THEN th[t].prev[k].n + 1 ELSE 1

\* The count of a missing job: one more, from zero for another execution.
CountOf(t, k) ==
  IF k \in DOMAIN th[t].prev /\ th[t].prev[k].gen = th[t].snap[k].gen
  THEN th[t].prev[k].n + 1 ELSE 1

\* Mutant of Current: the counts are written back as they are.
CurrentAll(s) == s

\* _current_streaks: the counts of executions that are still tracked.
Current(s) ==
  LET live == {k \in DOMAIN s : rec[k].gen = s[k].gen /\ rec[k].st \in OnLsf}
  IN  [k \in live |-> s[k]]

\* The second half of _judge_missing: the counts are written back under the
\* lock forget takes, and the jobs that are missing often enough are LOST.
Judge(t) ==
  /\ th[t].pc = "judge"
  /\ LET cur == [k \in Countable(t) |-> [gen |-> th[t].snap[k].gen, n |-> CountOf(t, k)]]
     IN  /\ streaks' = Current(cur)
         /\ th' = [th EXCEPT ![t] =
              [@ EXCEPT !.pc = "update", !.prev = Empty, !.asked = {}, !.failed = {},
                        !.lost = {k \in DOMAIN cur : cur[k].n >= LostAfter}]]
  /\ miss' = [k \in Keys |->
       IF k \notin DOMAIN th[t].snap \/ rec[k].gen # th[t].snap[k].gen THEN miss[k]
       ELSE IF Missed(t, k) THEN miss[k] + 1 ELSE 0]
  /\ UNCHANGED <<rec, lsf, table, fmt, supported, forgets, gens>>

\* The first batch: what the rows say, for the records that have not moved.
ApplyUpdates(t) ==
  /\ th[t].pc = "update"
  /\ rec' = [k \in Keys |->
       IF k \in DOMAIN th[t].rows /\ Unchanged(rec[k], th[t].snap[k])
       THEN [MergeFields(th[t].snap[k], th[t].rows[k]) EXCEPT !.young = rec[k].young]
       ELSE rec[k]]
  /\ th' = [th EXCEPT ![t] = [@ EXCEPT !.pc = "lose", !.rows = Empty]]
  /\ UNCHANGED <<lsf, streaks, table, fmt, supported, forgets, gens, miss>>

\* The second batch, under the same guard.
ApplyLost(t) ==
  /\ th[t].pc = "lose"
  /\ rec' = [k \in Keys |->
       IF k \in th[t].lost /\ Unchanged(rec[k], th[t].snap[k])
       THEN [rec[k] EXCEPT !.st = "LOST"] ELSE rec[k]]
  /\ th' = [th EXCEPT ![t] = [Idle EXCEPT !.pc = "exit", !.entry = th[t].entry]]
  /\ UNCHANGED <<lsf, streaks, table, fmt, supported, forgets, gens, miss>>

\* The lock is free; the last user takes the entry out of the table.
Exit(t) ==
  /\ th[t].pc = "exit"
  /\ table' = IF \A u \in Queriers \ {t} : th[u].entry # th[t].entry
              THEN None ELSE table
  /\ th' = [th EXCEPT ![t] = Idle]
  /\ UNCHANGED <<rec, lsf, streaks, fmt, supported, forgets, gens, miss>>

Query(t) ==
  \/ Enter(t) \/ Snapshot(t) \/ ReadIds(t) \/ ReadFormat(t) \/ Downgrade(t)
  \/ RunBjobs(t) \/ ReadDone(t) \/ PopStreaks(t) \/ Judge(t)
  \/ ApplyUpdates(t) \/ ApplyLost(t) \/ Exit(t)

-----------------------------------------------------------------------------
(* The jobs, their owners and LSF.                                         *)

\* JobsetQuerier.forget on the main thread: counts of the named keys go,
\* unless their execution is still the one that is tracked.
Forget(ks) ==
  /\ ks \in forgets
  /\ forgets' = forgets \ {ks}
  /\ LET kept == DOMAIN Current([k \in ks \cap DOMAIN streaks |-> streaks[k]])
     IN  streaks' = [k \in (DOMAIN streaks \ ks) \cup kept |-> streaks[k]]
  /\ UNCHANGED <<rec, lsf, table, th, fmt, supported, gens, miss>>

\* The submitter starts a new execution of an inactive key and LSF takes it;
\* the main thread is told to forget what it knows of the old one.
Resubmit(k, young) ==
  /\ rec[k].st \in {"EXIT", "DONE", "LOST", "GONE"}
  /\ gens < MaxGen
  /\ gens' = gens + 1
  /\ rec' = [rec EXCEPT ![k] = NewRec(gens + 1, young)]
  /\ lsf' = [lsf EXCEPT ![k] = [e \in Elements[k] |-> "PEND"]]
  /\ miss' = [miss EXCEPT ![k] = 0]
  /\ forgets' = forgets \cup {{k}}
  /\ UNCHANGED <<streaks, table, th, fmt, supported>>

\* The record is deleted (remove_jobs), with its forget on the way.
RemoveJob(k) ==
  /\ rec[k].st \in {"EXIT", "DONE", "LOST"}
  /\ rec' = [rec EXCEPT ![k] = NoRec]
  /\ miss' = [miss EXCEPT ![k] = 0]
  /\ forgets' = forgets \cup {{k}}
  /\ UNCHANGED <<lsf, streaks, table, th, fmt, supported, gens>>

\* An optimistic kill marks the record itself (killer.py).
MarkKilled(k) ==
  /\ rec[k].st \in OnLsf
  /\ rec' = [rec EXCEPT ![k] = [@ EXCEPT !.st = "EXIT", !.killed = TRUE]]
  /\ UNCHANGED <<lsf, streaks, table, th, fmt, supported, forgets, gens, miss>>

\* Time passes: the grace after the submission is over.
Age(k) ==
  /\ rec[k].young
  /\ rec' = [rec EXCEPT ![k].young = FALSE]
  /\ UNCHANGED <<lsf, streaks, table, th, fmt, supported, forgets, gens, miss>>

\* An element of the job starts or ends.
LsfStep(k, e) ==
  /\ rec[k].st # "GONE"
  /\ \/ lsf[k][e] = "PEND" /\ lsf' = [lsf EXCEPT ![k][e] = "RUN"]
     \/ /\ lsf[k][e] = "RUN"
        /\ \E s \in Ended : lsf' = [lsf EXCEPT ![k][e] = s]
  /\ UNCHANGED <<rec, streaks, table, th, fmt, supported, forgets, gens, miss>>

\* Another host answers, or LSF is reconfigured: fewer fields are understood.
Reconfigure ==
  /\ supported < Formats
  /\ supported' \in (supported + 1)..Formats
  /\ UNCHANGED <<rec, lsf, streaks, table, th, fmt, forgets, gens, miss>>

Next ==
  \/ \E t \in Threads : Query(t)
  \/ \E ks \in forgets : Forget(ks)
  \/ Reconfigure
  \/ \E k \in Volatile : \/ RemoveJob(k) \/ MarkKilled(k)
                         \/ \E young \in BOOLEAN : Resubmit(k, young)
  \/ \E k \in Keys : Age(k) \/ \E e \in Elements[k] : LsfStep(k, e)

Spec == Init /\ [][Next]_vars

-----------------------------------------------------------------------------
(* Properties.                                                             *)

\* _judge_missing: LOST cannot be taken back, so a record may only become LOST
\* when LostAfter answers in a row, of queries that worked, asked about this
\* very execution when it was old enough, have not listed it.
NoEarlyLost ==
  [][\A k \in Keys : rec[k].st # "LOST" /\ rec'[k].st = "LOST" => miss[k] >= LostAfter]_vars

\* _set_streaks and forget: a count never outlives its execution once the
\* forget of it is done, however a query in progress and the forget interleave,
\* and between two queries the count of a tracked job is exactly the number of
\* answers in a row that missed it (forget does not cost a living job its count).
StreakExact ==
  /\ \A k \in DOMAIN streaks : streaks[k].gen = rec[k].gen \/ {k} \in forgets
  /\ (\A t \in Queriers : ~Busy(t)) =>
       \A k \in Keys : rec[k].st \in OnLsf =>
         miss[k] = IF k \in DOMAIN streaks /\ streaks[k].gen = rec[k].gen
                   THEN streaks[k].n ELSE 0

\* The guard `unchanged' and _aggregate_elements: a record says that its job
\* ended only if every element of this execution has, and a record a kill has
\* marked is not brought back by an answer that was on its way.
EndIsReal ==
  \A k \in Keys :
    /\ rec[k].st \in Ended /\ ~rec[k].killed =>
         \A e \in Elements[k] : lsf[k][e] \in Ended
    /\ rec[k].killed => rec[k].st = "EXIT"

\* merge_fields and _parse_bjobs: what is known of an execution is not lost
\* again when the format is downgraded, and no estimate is stored as a finish.
FieldsKept ==
  [][\A k \in Keys :
       /\ rec'[k].gen = rec[k].gen /\ rec[k].start => rec'[k].start
       /\ rec'[k].finish => rec'[k].st \in Ended]_vars

\* _bjobs: threads that meet the same field error together go down one format
\* together, never past the first format LSF understands.
FormatTight == fmt <= supported

=============================================================================
