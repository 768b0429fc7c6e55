-------------------------------- MODULE Relay --------------------------------
(***************************************************************************)
(* How changed records reach the GUI: the relay slots of the manager       *)
(* (_emit_jobs and _forget_paced, lsfmgr/manager.py) and the StatePacer    *)
(* (lsfmgr/pacer.py).                                                      *)
(*                                                                         *)
(* Worker threads change records and then post what they wrote to the main *)
(* thread, so the posts can arrive in another order than the writes.  The  *)
(* manager drops what belongs to another execution and what is older than  *)
(* what it has passed on.  The pacer holds a state back until the one on   *)
(* display has been there long enough; a timer drains what is held back.   *)
(*                                                                         *)
(* Every key stands for a jobset of its own, so that the drain calls the   *)
(* application once per key, and the application may edit jobs from there. *)
(* A manager without a pacer passes everything on, as a stopped one does.  *)
(***************************************************************************)
EXTENDS Naturals, Sequences, FiniteSets, SequencesExt

CONSTANTS
  Keys,     \* job_keys
  Writers,  \* threads that change records and post them
  States,   \* states a record can be seen in
  Created,  \* the one it has when it is added or replaced
  Editable, \* bound: the keys the application removes, adds and replaces
  MaxRev,   \* bound: revisions of a record
  MaxLife   \* bound: times a key is added

ASSUME RelayAssumption ==
  /\ IsFiniteSet(Keys) /\ Editable \subseteq Keys
  /\ Created \in States
  /\ MaxRev \in Nat /\ MaxLife \in Nat

VARIABLES
  rec,      \* the records in the store
  wr,       \* what each writer has written and not yet posted
  main,     \* posts waiting for the main thread
  emitted,  \* LsfJobManager._emitted_revisions
  shown,    \* StatePacer._shown: state on display, and whether its dwell is over
  pq,       \* StatePacer._queue
  timer,    \* the pacer's timer is running
  todo,     \* keys the drain in progress has still to look at
  stopped,  \* the pacer has been stopped: nothing is held back any more
  gui       \* the record the application was last given for the key

pacerVars == <<shown, pq, timer, todo, stopped>>
vars == <<rec, wr, main, emitted, pacerVars, gui>>

\* A record as it is added; no two executions of a key share a generation.
NewRec(k, life, s) == [key |-> k, life |-> life, gen |-> life * (MaxRev + 1), rev |-> 0, st |-> s]
None  == NewRec("", 0, "")
Empty == << >>

\* The record after another change, in its execution or in a new one.
Changed(r, s, reset) ==
  [r EXCEPT !.rev = @ + 1, !.st = s, !.gen = IF reset THEN @ + 1 ELSE @]

Put(f, k, v) == [x \in DOMAIN f \cup {k} |-> IF x = k THEN v ELSE f[x]]
Drop(f, k)   == [x \in DOMAIN f \ {k} |-> f[x]]

Init ==
  /\ \E s \in States : rec = [k \in Keys |-> NewRec(k, 1, s)]
  /\ wr = [w \in Writers |-> None]
  /\ main = << >>
  /\ emitted = [k \in Keys |-> 0]
  /\ shown = [k \in Keys |-> [st |-> rec[k].st, due |-> TRUE]]
  /\ pq = Empty
  /\ timer = FALSE
  /\ todo = << >>
  /\ stopped \in BOOLEAN
  /\ gui = rec

-----------------------------------------------------------------------------
(* Worker threads.                                                         *)

\* A worker changes a record, in its execution or, as the submitter does when
\* it resets the record, into a new one: the revision grows either way.
Write(w, k, s, reset) ==
  /\ wr[w] = None
  /\ rec[k] # None
  /\ rec[k].rev < MaxRev
  /\ rec' = [rec EXCEPT ![k] = Changed(@, s, reset)]
  /\ wr' = [wr EXCEPT ![w] = rec'[k]]
  /\ UNCHANGED <<main, emitted, pacerVars, gui>>

\* Later it posts what it has written.
Post(w) ==
  /\ wr[w] # None
  /\ main' = Append(main, wr[w])
  /\ wr' = [wr EXCEPT ![w] = None]
  /\ UNCHANGED <<rec, emitted, pacerVars, gui>>

-----------------------------------------------------------------------------
(* The pacer.                                                              *)

\* _enqueue: another value in the same state takes the place of the last one.
Enqueue(q, r) ==
  IF q[Len(q)].st = r.st THEN [q EXCEPT ![Len(q)] = r] ELSE Append(q, r)

\* The state on display has been there for the dwell, or there is none.
Due(k) == stopped \/ k \notin DOMAIN shown \/ shown[k].due

\* Whether push holds the record back: others of its job wait already, or its
\* state is new and the one on display has not been there long enough.
Held(p, sh, r) ==
  \/ r.key \in DOMAIN p
  \/ /\ r.key \in DOMAIN sh /\ sh[r.key].st # r.st
     /\ ~(stopped \/ sh[r.key].due)

\* push of one record onto queue p with sh on display.
PushRec(p, sh, r) ==
  IF Held(p, sh, r)
  THEN /\ pq' = Put(p, r.key, IF r.key \in DOMAIN p THEN Enqueue(p[r.key], r) ELSE <<r>>)
       /\ shown' = sh
       /\ timer' = TRUE
       /\ UNCHANGED gui
  ELSE /\ pq' = p
       /\ shown' = IF r.key \in DOMAIN sh /\ sh[r.key].st = r.st THEN sh
                   ELSE Put(sh, r.key, [st |-> r.st, due |-> FALSE])
       /\ timer' = (DOMAIN p # {})
       /\ gui' = [gui EXCEPT ![r.key] = r]

\* The dwell of the state on display ends.
Elapse(k) ==
  /\ todo = << >>
  /\ k \in DOMAIN shown /\ ~shown[k].due
  /\ shown' = [shown EXCEPT ![k].due = TRUE]
  /\ UNCHANGED <<rec, wr, main, emitted, pq, timer, todo, stopped, gui>>

\* The timer runs out, at the earliest when one job is due: _drain begins.
Timeout ==
  /\ timer /\ todo = << >>
  /\ \E k \in DOMAIN pq : Due(k)
  /\ timer' = FALSE
  /\ todo' = SetToSeq(DOMAIN pq)
  /\ UNCHANGED <<rec, wr, main, emitted, shown, pq, stopped, gui>>

\* Mutant of DrainOne: the timer is not set again for what is left.
DrainOnce ==
  /\ todo # << >>
  /\ todo' = Tail(todo)
  /\ LET k == Head(todo)
     IN  IF k \in DOMAIN pq /\ Due(k)
         THEN LET r == IF stopped THEN Last(pq[k]) ELSE Head(pq[k])
              IN  /\ pq' = IF stopped \/ Len(pq[k]) = 1 THEN Drop(pq, k)
                           ELSE [pq EXCEPT ![k] = Tail(@)]
                  /\ shown' = Put(shown, k, [st |-> r.st, due |-> FALSE])
                  /\ gui' = [gui EXCEPT ![k] = r]
         ELSE UNCHANGED <<pq, shown, gui>>
  /\ UNCHANGED <<rec, wr, main, emitted, stopped, timer>>

\* _drain takes one record of each job that is due, looking at the queue only
\* when it is the job's turn; a stopped pacer gives the last one.  In the end
\* the timer is set again for what is left.
DrainOne ==
  /\ todo # << >>
  /\ todo' = Tail(todo)
  /\ LET k == Head(todo)
     IN  IF k \in DOMAIN pq /\ Due(k)
         THEN LET r == IF stopped THEN Last(pq[k]) ELSE Head(pq[k])
              IN  /\ pq' = IF stopped \/ Len(pq[k]) = 1 THEN Drop(pq, k)
                           ELSE [pq EXCEPT ![k] = Tail(@)]
                  /\ shown' = Put(shown, k, [st |-> r.st, due |-> FALSE])
                  /\ gui' = [gui EXCEPT ![k] = r]
         ELSE UNCHANGED <<pq, shown, gui>>
  /\ timer' = (IF Len(todo) = 1 THEN DOMAIN pq' # {} ELSE timer)
  /\ UNCHANGED <<rec, wr, main, emitted, stopped>>

\* StatePacer.forget: nothing of the job is held back or on display any more.
Forget(k) ==
  /\ pq' = Drop(pq, k)
  /\ shown' = Drop(shown, k)
  /\ timer' = (DOMAIN pq' # {})

\* StatePacer.stop: everything that waits goes out, and nothing waits again.
Stop ==
  /\ ~stopped /\ todo = << >>
  /\ stopped' = TRUE
  /\ timer' = FALSE
  /\ todo' = SetToSeq(DOMAIN pq)
  /\ UNCHANGED <<rec, wr, main, emitted, shown, pq, gui>>

-----------------------------------------------------------------------------
(* The manager's slots, on the main thread.                                *)

\* Mutant of Newer: what arrives is passed on, in whatever order.
NewerAlways(r) == TRUE

\* No younger revision of the key has been passed on.
Newer(r) == r.key \in DOMAIN emitted => emitted[r.key] <= r.rev

\* _current_records: the record's execution is the one in the store.
SameExecution(r) == rec[r.key] # None /\ rec[r.key].gen = r.gen

\* _emit_jobs for the next post.
EmitJobs ==
  /\ main # << >> /\ todo = << >>
  /\ main' = Tail(main)
  /\ LET r == Head(main)
     IN  IF SameExecution(r) /\ Newer(r)
         THEN /\ emitted' = Put(emitted, r.key, r.rev)
              /\ PushRec(pq, shown, r)
         ELSE UNCHANGED <<emitted, pq, shown, timer, gui>>
  /\ UNCHANGED <<rec, wr, todo, stopped>>

\* The application's calls come from the event loop or from a slot the drain
\* is calling.  _edit_jobs with a new key, or in place of an old record, whose
\* revision goes on: the pacer forgets the key and the new record is passed on.
EditJob(k) ==
  /\ IF rec[k] = None
     THEN /\ gui[k].life < MaxLife
          /\ rec' = [rec EXCEPT ![k] = NewRec(k, gui[k].life + 1, Created)]
     ELSE /\ rec[k].rev < MaxRev
          /\ rec' = [rec EXCEPT ![k] = Changed(@, Created, TRUE)]
  /\ IF k \in DOMAIN emitted => emitted[k] <= rec'[k].rev
     THEN /\ emitted' = Put(emitted, k, rec'[k].rev)
          /\ PushRec(Drop(pq, k), Drop(shown, k), rec'[k])
     ELSE UNCHANGED <<emitted, pq, shown, timer, gui>>
  /\ UNCHANGED <<wr, main, todo, stopped>>

\* Mutant of RemoveJob: what the pacer holds back is left there.
RemoveKeepsPaced(k) ==
  /\ rec[k] # None
  /\ rec' = [rec EXCEPT ![k] = None]
  /\ emitted' = Drop(emitted, k)
  /\ UNCHANGED <<wr, main, pacerVars, gui>>

\* remove_jobs: the record goes, and with it (_forget_paced) what the pacer
\* holds back and the revision that was passed on.
RemoveJob(k) ==
  /\ rec[k] # None
  /\ rec' = [rec EXCEPT ![k] = None]
  /\ emitted' = Drop(emitted, k)
  /\ Forget(k)
  /\ UNCHANGED <<wr, main, todo, stopped, gui>>

Next ==
  \/ \E w \in Writers : Post(w) \/ \E k \in Keys, s \in States, reset \in BOOLEAN : Write(w, k, s, reset)
  \/ EmitJobs
  \/ \E k \in Keys : Elapse(k)
  \/ Timeout \/ DrainOne \/ Stop
  \/ \E k \in Editable : EditJob(k) \/ RemoveJob(k)

Spec == Init /\ [][Next]_vars

-----------------------------------------------------------------------------
(* Properties.                                                             *)

\* _emit_jobs: while a key exists the application is never given an older
\* record after a younger one, whatever order the workers' posts arrive in and
\* whatever the pacer holds back.
InOrder ==
  [][\A k \in Keys : gui'[k].life = gui[k].life => gui'[k].rev >= gui[k].rev]_vars

\* StatePacer.forget and _current_records: no record of a job that was removed
\* is given to the application any more, also from the drain that is calling it.
NoGhostRow ==
  [][\A k \in Keys : gui'[k] # gui[k] => rec'[k] # None /\ rec'[k].life = gui'[k].life]_vars

\* What the application has, or will have when the pacer's queue has drained.
Latest(k) == IF k \in DOMAIN pq THEN Last(pq[k]) ELSE gui[k]

\* Nothing gets lost on the way: with no post outstanding the last record given
\* or held back is the one in the store, and what is held back has a timer.
Converges ==
  /\ main = << >> /\ (\A w \in Writers : wr[w] = None) =>
       \A k \in Keys : rec[k] # None => Latest(k) = rec[k]
  /\ DOMAIN pq # {} /\ todo = << >> => timer
=============================================================================
