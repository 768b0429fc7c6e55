--------------------------- MODULE InternalStatus ---------------------------
(***************************************************************************)
(* The callback status source (InternalStatusSource,                       *)
(* lsfmgr/internal_status.py) with the bookkeeping of its readers          *)
(* (JobsetQuerier.query_ids, lsfmgr/monitor.py).                           *)
(*                                                                         *)
(* Readers that need newer data than the ledger holds make sure that one   *)
(* fetch runs and wait for it.  A fetch calls the application's callback   *)
(* in a thread of its own, without a lock, for as long as it likes: one    *)
(* that is overdue is superseded by a new one and may still answer later.  *)
(* Answers are merged into the ledger, for the ids somebody is interested  *)
(* in only.  An id that is no longer tracked is forgotten by whoever drops *)
(* it, or by the last reader that was still asking for it.                 *)
(*                                                                         *)
(* The clock is read only where a reader starts and where a fetch starts;  *)
(* each reading gives a new value.  The callback lists every job the user  *)
(* has, and `truth' counts how often the state of a job has changed.       *)
(***************************************************************************)
EXTENDS Naturals, FiniteSets

CONSTANTS
  Ids,          \* job_ids
  Readers,      \* threads that call query_ids
  Fetches,      \* slots for fetch threads
  MAX_INFLIGHT, \* bound the code sets on fetches that have not returned
  Failover,     \* job_status_fetcher_failover is given
  MaxClock,     \* bound: readings of the clock
  MaxTruth      \* bound: changes of a job's state

ASSUME StatusAssumption ==
  /\ MAX_INFLIGHT \in Nat \ {0} /\ MaxClock \in Nat /\ MaxTruth \in Nat
  /\ Failover \in BOOLEAN /\ IsFiniteSet(Fetches)

VARIABLES
  truth,          \* state of every job at its source; 0 before it exists
  track,          \* the store's record of the id: new, on (LSF), done, gone
  forgets,        \* ids whose record was dropped and which are yet to be forgotten
  ledger,         \* _ledger
  interest,       \* _interest
  last_fetch_at,  \* _last_fetch_at; 0 for minus infinity
  current,        \* _fetch_token, {} when no fetch is in progress
  overdue,        \* the fetch in progress has passed _fetch_deadline
  inflight,       \* _inflight
  closed,         \* _closed
  fetch,          \* the fetch threads
  reader,         \* the readers
  clock,          \* the last reading of the clock
  floor           \* history: truth of the job when the youngest fetch that was
                  \* merged for it started

sourceVars == <<truth, track, forgets>>
cacheVars  == <<ledger, interest, last_fetch_at, floor>>
flightVars == <<current, overdue, inflight, fetch>>
vars == <<sourceVars, cacheVars, flightVars, closed, reader, clock>>

Empty == [j \in {} |-> 0]
Free  == [pc |-> "free", at |-> 0, base |-> Empty, data |-> Empty, via |-> "primary"]
Idle  == [pc |-> "idle", ids |-> {}, fresh |-> FALSE, min |-> 0, base |-> Empty,
          before |-> 0, woken |-> "no", ok |-> FALSE, rows |-> Empty]

Init ==
  /\ truth = [j \in Ids |-> 0]
  /\ track = [j \in Ids |-> "new"]
  /\ forgets = {}
  /\ ledger = Empty
  /\ interest = {}
  /\ last_fetch_at = 0
  /\ current = {}
  /\ overdue = FALSE
  /\ inflight = 0
  /\ closed = FALSE
  /\ fetch = [f \in Fetches |-> Free]
  /\ reader = [c \in Readers |-> Idle]
  /\ clock = 0
  /\ floor = [j \in Ids |-> 0]

-----------------------------------------------------------------------------
(* The jobs and their records.                                             *)

\* A submission gets its id; the job exists from then on.
Submitted(j) ==
  /\ track[j] = "new"
  /\ track' = [track EXCEPT ![j] = "on"]
  /\ truth' = [truth EXCEPT ![j] = 1]
  /\ UNCHANGED <<forgets, cacheVars, flightVars, closed, reader, clock>>

\* The state of the job changes.
Change(j) ==
  /\ truth[j] \in 1..(MaxTruth - 1)
  /\ truth' = [truth EXCEPT ![j] = @ + 1]
  /\ UNCHANGED <<track, forgets, cacheVars, flightVars, closed, reader, clock>>

\* The record becomes terminal; the id is not asked for any more.
Settle(j) ==
  /\ track[j] = "on"
  /\ track' = [track EXCEPT ![j] = "done"]
  /\ UNCHANGED <<truth, forgets, cacheVars, flightVars, closed, reader, clock>>

\* The store drops the id (removal, replacement, reset) and forgets it after.
DropId(j) ==
  /\ track[j] \in {"on", "done"}
  /\ track' = [track EXCEPT ![j] = "gone"]
  /\ forgets' = forgets \cup {j}
  /\ UNCHANGED <<truth, cacheVars, flightVars, closed, reader, clock>>

\* InternalStatusSource.forget.
ForgetIds(js) ==
  /\ interest' = interest \ js
  /\ ledger' = [j \in DOMAIN ledger \ js |-> ledger[j]]

Forget(j) ==
  /\ j \in forgets
  /\ forgets' = forgets \ {j}
  /\ ForgetIds({j})
  /\ UNCHANGED <<truth, track, last_fetch_at, floor, flightVars, closed, reader, clock>>

-----------------------------------------------------------------------------
(* Starting a fetch.                                                       *)

\* A primary call that has started and not returned.
PrimaryUnreturned == \E f \in Fetches : fetch[f].pc = "call" /\ fetch[f].via = "primary"

\* _start_fetch_locked, in a free slot.
StartFetch(f) ==
  /\ fetch[f].pc = "free"
  /\ fetch' = [fetch EXCEPT ![f] = [Free EXCEPT !.pc = "new",
       !.via = IF Failover /\ PrimaryUnreturned THEN "failover" ELSE "primary"]]
  /\ current' = {f}
  /\ overdue' = FALSE
  /\ inflight' = inflight + 1

\* Mutant of CanStart: an overdue fetch is always superseded.
CanStartAlways == current = {} \/ overdue

\* Whether _start_or_takeover_locked starts one: none is in progress, or the
\* one that is has had its time and there are not too many yet.
CanStart == current = {} \/ (overdue /\ inflight < MAX_INFLIGHT)

-----------------------------------------------------------------------------
(* A reader.                                                               *)

\* query_ids counts the reader in before it asks.
Call(c, ids, fresh) ==
  /\ reader[c].pc = "idle"
  /\ ids # {} /\ \A j \in ids : track[j] = "on"
  /\ clock < MaxClock
  /\ reader' = [reader EXCEPT ![c] =
       [@ EXCEPT !.pc = "register", !.ids = ids, !.fresh = fresh]]
  /\ UNCHANGED <<sourceVars, cacheVars, flightVars, closed, clock>>

\* A reader that brings a new id needs data as fresh as one that asks for it.
Fresh(c) == reader[c].fresh \/ ~(reader[c].ids \subseteq interest)

\* statuses_by_ids registers the ids and _ensure_fetched reads the clock: what
\* started before that is too old for a fresh reader; for another one data of
\* the last fetches may be new enough or not.
Register(c) ==
  /\ reader[c].pc = "register"
  /\ clock < MaxClock
  /\ clock' = clock + 1
  /\ interest' = interest \cup reader[c].ids
  /\ \E min \in {1, clock + 1} :
       /\ Fresh(c) => min = clock + 1
       /\ reader' = [reader EXCEPT ![c] = [@ EXCEPT !.pc = "check", !.fresh = Fresh(c),
                                                    !.min = min, !.base = truth]]
  /\ UNCHANGED <<sourceVars, ledger, last_fetch_at, floor, flightVars, closed>>

Answered(c, ok) ==
  [reader EXCEPT ![c] = [@ EXCEPT !.pc = IF ok THEN "read" ELSE "leave", !.ok = ok,
                                  !.woken = "no", !.before = 0, !.min = 0]]

\* The ledger is new enough, or the source has been shut down.
CheckDone(c) ==
  /\ reader[c].pc = "check"
  /\ closed \/ last_fetch_at >= reader[c].min
  /\ reader' = Answered(c, ~closed)
  /\ UNCHANGED <<sourceVars, cacheVars, flightVars, closed, clock>>

\* It is not: see to it that a fetch is in progress, and wait.
CheckWait(c) ==
  /\ reader[c].pc = "check"
  /\ ~closed /\ last_fetch_at < reader[c].min
  /\ IF CanStart THEN \E f \in Fetches : StartFetch(f)
     ELSE ~overdue /\ UNCHANGED flightVars
  /\ reader' = [reader EXCEPT ![c] = [@ EXCEPT !.pc = "wait", !.before = last_fetch_at]]
  /\ UNCHANGED <<sourceVars, cacheVars, closed, clock>>

\* Too many fetches have not returned.
CheckRefused(c) ==
  /\ reader[c].pc = "check"
  /\ ~closed /\ last_fetch_at < reader[c].min
  /\ current # {} /\ overdue /\ ~CanStart
  /\ reader' = Answered(c, FALSE)
  /\ UNCHANGED <<sourceVars, cacheVars, flightVars, closed, clock>>

\* Mutant of Enough: any fetch that has come back will do.
EnoughAnyhow(c) == TRUE

\* A fetch that came back is new enough for the reader.
Enough(c) == last_fetch_at >= reader[c].min \/ ~reader[c].fresh

Again(c) ==
  [reader EXCEPT ![c] = [@ EXCEPT !.pc = "check", !.woken = "no", !.before = 0]]

\* Woken: judge the fetch that ended, or look again.
Wake(c) ==
  /\ reader[c].pc = "wait" /\ reader[c].woken # "no"
  /\ reader' =
       IF closed THEN Answered(c, FALSE)
       ELSE IF reader[c].woken = "other" THEN Again(c)
       ELSE IF last_fetch_at <= reader[c].before THEN Answered(c, FALSE)
       ELSE IF Enough(c) THEN Answered(c, TRUE)
       ELSE Again(c)
  /\ UNCHANGED <<sourceVars, cacheVars, flightVars, closed, clock>>

\* The reader has waited long enough.
WaitTimeout(c) ==
  /\ reader[c].pc = "wait" /\ reader[c].woken = "no"
  /\ reader' = Answered(c, FALSE)
  /\ UNCHANGED <<sourceVars, cacheVars, flightVars, closed, clock>>

\* The rows are read, under the lock taken anew.
Read(c) ==
  /\ reader[c].pc = "read"
  /\ reader' = [reader EXCEPT ![c] = [@ EXCEPT !.pc = "leave",
       !.rows = [j \in reader[c].ids \cap DOMAIN ledger |-> ledger[j].val]]]
  /\ UNCHANGED <<sourceVars, cacheVars, flightVars, closed, clock>>

\* Ids of the reader that no other reader is asking for.
Finished(c) ==
  {j \in reader[c].ids : \A d \in Readers \ {c} : j \notin reader[d].ids}

\* Mutant of Leave: the reader does not clean up.
LeaveAsIs(c) ==
  /\ reader[c].pc = "leave"
  /\ reader' = [reader EXCEPT ![c] = Idle]
  /\ UNCHANGED <<sourceVars, cacheVars, flightVars, closed, clock>>

\* The last reader of an id forgets it if the store does not have it any more.
Leave(c) ==
  /\ reader[c].pc = "leave"
  /\ ForgetIds({j \in Finished(c) : track[j] = "gone"})
  /\ reader' = [reader EXCEPT ![c] = Idle]
  /\ UNCHANGED <<sourceVars, last_fetch_at, floor, flightVars, closed, clock>>

-----------------------------------------------------------------------------
(* A fetch thread.                                                         *)

\* It reads the clock and calls the callback.
Begin(f) ==
  /\ fetch[f].pc = "new"
  /\ clock < MaxClock
  /\ clock' = clock + 1
  /\ fetch' = [fetch EXCEPT ![f] =
       [@ EXCEPT !.pc = "call", !.at = clock + 1, !.base = truth]]
  /\ UNCHANGED <<sourceVars, cacheVars, current, overdue, inflight, closed, reader>>

\* The callback returns, in time or much later, what the source had for each
\* job at some moment of the call; the rows of ids that are of interest by now
\* are parsed.
Parse(f) ==
  /\ fetch[f].pc = "call"
  /\ \E got \in [Ids -> 0..MaxTruth] :
       /\ \A j \in Ids : fetch[f].base[j] <= got[j] /\ got[j] <= truth[j]
       /\ fetch' = [fetch EXCEPT ![f] = [@ EXCEPT !.pc = "parsed",
            !.data = [j \in {x \in interest : got[x] > 0} |-> got[j]]]]
  /\ UNCHANGED <<sourceVars, cacheVars, current, overdue, inflight, closed, reader, clock>>

\* The callback raises or its answer makes no sense: the failover callback is
\* tried, if there is one and it was not it that failed.
Raise(f) ==
  /\ fetch[f].pc = "call"
  /\ fetch' = [fetch EXCEPT ![f] =
       IF Failover /\ @.via = "primary"
       THEN [@ EXCEPT !.via = "failover"] ELSE [@ EXCEPT !.pc = "failed"]]
  /\ UNCHANGED <<sourceVars, cacheVars, current, overdue, inflight, closed,
                 reader, clock>>

\* The ids a fetch has an answer for that are still of interest.
Answers(f) == DOMAIN fetch[f].data \cap interest

\* Mutant of Merge: the answer that arrives last is kept.
MergeLast(f) ==
  [j \in DOMAIN ledger \cup Answers(f) |->
     IF j \in Answers(f)
     THEN [at |-> fetch[f].at, val |-> fetch[f].data[j]] ELSE ledger[j]]

\* _merge_locked: rows of interest, unless the entry is of a younger fetch.
Merge(f) ==
  [j \in DOMAIN ledger \cup Answers(f) |->
     IF /\ j \in Answers(f)
        /\ j \in DOMAIN ledger => ledger[j].at <= fetch[f].at
     THEN [at |-> fetch[f].at, val |-> fetch[f].data[j]] ELSE ledger[j]]

\* notify_all.  A reader compares _gen with its value before the wait: it sees
\* a difference once a fetch has ended that was not superseded.
Notify(why) ==
  reader' = [c \in Readers |->
    IF reader[c].pc = "wait" /\ reader[c].woken # "ended"
    THEN [reader[c] EXCEPT !.woken = why] ELSE reader[c]]

\* The end of _fetch_worker, in one critical section: the answer is merged and
\* what expired long ago is dropped; if the fetch was not superseded none is in
\* progress now; the waiting readers are woken.
FinishFetch(f) ==
  /\ fetch[f].pc \in {"parsed", "failed"}
  /\ LET ok == fetch[f].pc = "parsed"
     IN  /\ IF ok
            THEN \E old \in SUBSET {j \in DOMAIN Merge(f) : track[j] = "done"} :
                   /\ ledger' = [j \in DOMAIN Merge(f) \ old |-> Merge(f)[j]]
                   /\ interest' = interest \ old
            ELSE UNCHANGED <<ledger, interest>>
         /\ last_fetch_at' = IF ok /\ fetch[f].at > last_fetch_at THEN fetch[f].at ELSE last_fetch_at
         /\ floor' = [j \in Ids |-> IF ok /\ j \in Answers(f) /\ fetch[f].base[j] > floor[j]
                                   THEN fetch[f].base[j] ELSE floor[j]]
  /\ inflight' = inflight - 1
  /\ fetch' = [fetch EXCEPT ![f] = Free]
  /\ IF f \in current THEN current' = {} /\ overdue' = FALSE
     ELSE UNCHANGED <<current, overdue>>
  /\ Notify(IF f \in current THEN "ended" ELSE "other")
  /\ UNCHANGED <<sourceVars, closed, clock>>

\* The fetch in progress passes its deadline.
Overdue ==
  /\ current # {} /\ ~overdue
  /\ overdue' = TRUE
  /\ UNCHANGED <<sourceVars, cacheVars, current, inflight, fetch, closed, reader, clock>>

\* shutdown wakes everybody.
Shutdown ==
  /\ ~closed
  /\ closed' = TRUE
  /\ Notify("other")
  /\ UNCHANGED <<sourceVars, cacheVars, flightVars, clock>>

Next ==
  \/ \E j \in Ids : Submitted(j) \/ Change(j) \/ Settle(j) \/ DropId(j) \/ Forget(j)
  \/ \E c \in Readers :
       \/ \E ids \in SUBSET Ids, fresh \in BOOLEAN : Call(c, ids, fresh)
       \/ Register(c) \/ CheckDone(c) \/ CheckWait(c) \/ CheckRefused(c)
       \/ Wake(c) \/ WaitTimeout(c) \/ Read(c) \/ Leave(c)
  \/ \E f \in Fetches : Begin(f) \/ Parse(f) \/ Raise(f) \/ FinishFetch(f)
  \/ Overdue \/ Shutdown

Spec == Init /\ [][Next]_vars

-----------------------------------------------------------------------------
(* Properties.                                                             *)

\* _merge_locked merges in the order of the fetches, job by job: what the ledger
\* holds for a job that is tracked is no older than the start of the youngest
\* fetch that was merged for it, although superseded ones answer late.
LedgerFresh ==
  \A j \in DOMAIN ledger : track[j] = "on" => ledger[j].val >= floor[j]

\* _ensure_fetched: what a fresh reader (a kill verification, or the first one
\* to ask for an id) is given for an id the store still has is never older than
\* its call, and never lacks the id: a living job is not reported absent.
FreshIsFresh ==
  \A c \in Readers :
    reader[c].pc = "leave" /\ reader[c].ok /\ reader[c].fresh =>
      \A j \in reader[c].ids : track[j] = "on" =>
        j \in DOMAIN reader[c].rows /\ reader[c].rows[j] >= reader[c].base[j]

\* MAX_INFLIGHT: callbacks that never return cannot pile up, and the count of
\* them is right whatever order they return in.
InflightBound ==
  /\ inflight = Cardinality({f \in Fetches : fetch[f].pc # "free"})
  /\ inflight <= MAX_INFLIGHT

\* query_ids and forget: an id the store has dropped and forgotten does not
\* stay behind because a reader or a fetch was under way when it was dropped.
GoneForgotten ==
  \A j \in interest \cup DOMAIN ledger :
    track[j] # "gone" \/ j \in forgets \/ \E c \in Readers : j \in reader[c].ids

\* internal_status.py: interest is registered before the merge so that no id is
\* missing from the first answer.  Nobody is told that a living job is absent.
AbsentIsReal ==
  \A c \in Readers :
    reader[c].pc = "leave" /\ reader[c].ok =>
      \A j \in reader[c].ids : track[j] = "on" => j \in DOMAIN reader[c].rows
=============================================================================
