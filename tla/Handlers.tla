------------------------------ MODULE Handlers ------------------------------
(***************************************************************************)
(* The handlers of one jobset (JobSetHandlerService, lsfmgr/handlers.py).  *)
(*                                                                         *)
(* After every poll the main thread looks at the records: a job that has   *)
(* entered a start state is put on a queue once per poll, a job in an end  *)
(* state once more, as the final run.  Worker threads empty the queue and  *)
(* call the handler.  A job that is queued or in its handler is skipped,   *)
(* so a worker asks the main thread to look again when it is through.      *)
(* A poll first reports and then stops the polling if every job is         *)
(* terminal by then; a submission starts it again once its reset is told.  *)
(*                                                                         *)
(* One handler name is modelled; others share only the queue.  Registering *)
(* the name again makes a new handler object.  The start state is RUN, the *)
(* end state DONE, and LOST is a terminal state that is neither.           *)
(***************************************************************************)
EXTENDS Naturals, Sequences, FiniteSets, SequencesExt

CONSTANTS
  Keys,      \* job_keys of the jobset
  Workers,   \* the drain workers, MAX_HANDLER_WORKERS of them
  Resubmits, \* bound: the keys that may be submitted again
  Losable,   \* bound: the keys LSF may lose while they run
  AutoPolls, \* the values of auto_poll that submissions use
  MaxCycles, \* bound: submissions accepted
  MaxReg,    \* bound: registrations of the handler name
  MaxTicks   \* bound: poll results waiting for the main thread

ASSUME HandlersAssumption ==
  /\ IsFiniteSet(Keys) /\ Resubmits \subseteq Keys
  /\ IsFiniteSet(Workers) /\ Workers # {}
  /\ AutoPolls \subseteq BOOLEAN

VARIABLES
  store,     \* the records
  polling,   \* the jobset is polled
  emit,      \* the poll has reported and has yet to decide whether to stop
  asked,     \* a request to start polling waits for the polling thread
  cycle,     \* the accepted submission that has not reset its record yet, if any
  arm,       \* CompletionTracker._pending_arm: the submission to be armed
  cycles,    \* submissions so far; the last one's token
  main,      \* the event queue of the main thread
  cur,       \* the records the main thread is looking at, and how far it is
  reg,       \* the registered handler object; 0 when there is none
  regs,      \* registrations made so far
  status,    \* _Handler.status of the registered object
  inflight,  \* JobSetHandlerService._inflight
  queue,     \* JobSetHandlerService._queue
  draining,  \* JobSetHandlerService._draining
  wk,        \* what every worker does
  closed,    \* shutdown: "no", "wait" until the workers are through, "yes"
  finals,    \* history: keys whose execution had its final run by this object
  late,      \* history: keys that ended, or that the handler started over with,
             \* after the last look at the records
  unarmed    \* history: keys whose reset was not told to the handler

pollVars == <<polling, emit, asked>>
armVars  == <<cycle, arm, cycles>>
mainVars == <<main, cur, reg, regs, status>>
poolVars == <<inflight, queue, draining, wk>>
histVars == <<finals, late, unarmed>>
vars == <<store, pollVars, armVars, mainVars, poolVars, closed, histVars>>

Terminal == {"DONE", "LOST"}
At(pc)   == [pc |-> pc, recs |-> << >>]
Off      == [pc |-> "off", item |-> << >>]
NoArm    == [tok |-> 0, auto |-> FALSE]
Settled  == \A k \in Keys : store[k].st \in Terminal

Tick       == [kind |-> "tick"]
Recheck(k) == [kind |-> "recheck", key |-> k]
Rearm(c)   == [kind |-> "rearm", key |-> c.key, tok |-> c.tok]
Unregister == [kind |-> "remove"]

\* What happens to ks now is seen by the next look only if a report is waiting.
Late(ks) == IF \E i \in DOMAIN main : main[i] = Tick THEN late ELSE late \cup ks

Init ==
  /\ \E lost \in (SUBSET Keys) \ {Keys} :     \* lost before the handler came
       store = [k \in Keys |-> [gen |-> 1, st |-> IF k \in lost THEN "LOST" ELSE "PEND"]]
  /\ polling = TRUE
  /\ emit = FALSE
  /\ asked = FALSE
  /\ cycle = {}
  /\ arm = NoArm
  /\ cycles = 0
  /\ main = << >>
  /\ cur = At("idle")
  /\ reg = 1
  /\ regs = 1
  /\ status = [k \in Keys |-> "PENDING"]
  /\ inflight = {}
  /\ queue = << >>
  /\ draining = 0
  /\ wk = [w \in Workers |-> Off]
  /\ closed = "no"
  /\ finals = {}
  /\ late = {}
  /\ unarmed = {}

-----------------------------------------------------------------------------
(* The jobs: polling, kills and new executions.                            *)

\* A record moves on: a poll, a kill or its verification writes the state.
Observe(k, s) ==
  /\ <<store[k].st, s>> \in {<<"PEND", "RUN">>, <<"RUN", "DONE">>, <<"PEND", "DONE">>,
                             <<"RUN", "LOST">>}
  /\ s = "LOST" => k \in Losable
  /\ store' = [store EXCEPT ![k].st = s]
  /\ late' = IF s = "DONE" THEN Late({k}) ELSE late
  /\ UNCHANGED <<pollVars, armVars, mainVars, poolVars, closed, finals, unarmed>>

\* _poll: the answers are in the store; the report goes to the main thread's queue.
Poll ==
  /\ polling /\ ~emit
  /\ Cardinality({i \in DOMAIN main : main[i] = Tick}) < MaxTicks
  /\ main' = Append(main, Tick)
  /\ emit' = TRUE
  /\ late' = {}
  /\ UNCHANGED <<store, polling, asked, armVars, cur, reg, regs, status, poolVars,
                 closed, finals, unarmed>>

\* Then _maybe_auto_stop reads the store, and polls no more if all is terminal.
AutoStop ==
  /\ emit
  /\ emit' = FALSE
  /\ polling' = ~Settled
  /\ UNCHANGED <<store, asked, armVars, mainVars, poolVars, closed, histVars>>

\* The polling thread comes to a request to start.
StartPolling ==
  /\ asked /\ ~emit
  /\ asked' = FALSE
  /\ polling' = TRUE
  /\ UNCHANGED <<store, emit, armVars, mainVars, poolVars, closed, histVars>>

\* The submission thread resets the terminal record and tells the main thread.
Reset ==
  /\ \E c \in cycle :
       /\ store' = [store EXCEPT ![c.key] = [gen |-> @.gen + 1, st |-> "PEND"]]
       /\ main' = Append(main, Rearm(c))
       /\ finals' = finals \ {c.key}
  /\ cycle' = {}
  /\ UNCHANGED <<pollVars, arm, cycles, cur, reg, regs, status, poolVars, closed,
                 late, unarmed>>

\* Or its gate refuses.  What was staged is dropped with it or was overwritten:
\* nothing comes with its token any more.
Refuse ==
  /\ cycle # {}
  /\ cycle' = {}
  /\ UNCHANGED <<store, pollVars, arm, cycles, mainVars, poolVars, closed, histVars>>

-----------------------------------------------------------------------------
(* The main thread.                                                        *)

Ready == cur.pc = "idle" /\ closed = "no"
First(kind) == main # << >> /\ Head(main).kind = kind

\* Mutant of AddHandler: the marks live in the handler object.
AddHandlerForgetsMarks ==
  /\ Ready
  /\ reg = 0 /\ regs < MaxReg
  /\ regs' = regs + 1
  /\ reg' = regs + 1
  /\ status' = [k \in Keys |-> "PENDING"]
  /\ inflight' = {}
  /\ finals' = {}
  /\ late' = Late(Keys)
  /\ unarmed' = {}
  /\ UNCHANGED <<store, pollVars, armVars, main, cur, queue, draining, wk, closed>>

\* add_handler: a name that is taken is an error.
AddHandler ==
  /\ Ready
  /\ reg = 0 /\ regs < MaxReg
  /\ regs' = regs + 1
  /\ reg' = regs + 1
  /\ status' = [k \in Keys |-> "PENDING"]
  /\ finals' = {}
  /\ late' = Late(Keys)
  /\ unarmed' = {}
  /\ UNCHANGED <<store, pollVars, armVars, main, cur, poolVars, closed>>

\* remove_handler on the main thread.
RemoveHandler ==
  /\ Ready
  /\ reg # 0 /\ regs < MaxReg
  /\ reg' = 0
  /\ UNCHANGED <<store, pollVars, armVars, main, cur, regs, status, poolVars, closed, histVars>>

\* remove_handler from inside a handler is handed to the main thread.
RequestRemove(w) ==
  /\ wk[w].pc = "call" /\ regs < MaxReg
  /\ ~\E i \in DOMAIN main : main[i] = Unregister
  /\ main' = Append(main, Unregister)
  /\ UNCHANGED <<store, pollVars, armVars, cur, reg, regs, status, poolVars, closed, histVars>>

OnRemove ==
  /\ Ready /\ First("remove")
  /\ main' = Tail(main)
  /\ reg' = 0
  /\ UNCHANGED <<store, pollVars, armVars, cur, regs, status, poolVars, closed, histVars>>

\* submit(only=[k]): a submission at a time, of a terminal job.  It takes the
\* place of the one that waits to be armed.
Stage(k) ==
  /\ Ready
  /\ cycle = {} /\ store[k].st \in Terminal
  /\ cycles < MaxCycles
  /\ cycles' = cycles + 1
  /\ cycle' = {[key |-> k, tok |-> cycles + 1]}
  /\ \E a \in AutoPolls : arm' = [tok |-> cycles + 1, auto |-> a]
  /\ UNCHANGED <<store, pollVars, mainVars, poolVars, closed, histVars>>

\* _on_records_reset, confirmed: the handler starts over with the key, and with
\* auto_poll polling is asked for.
OnRearm ==
  /\ Ready /\ First("rearm")
  /\ Head(main).tok = arm.tok
  /\ main' = Tail(main)
  /\ arm' = NoArm
  /\ status' = [status EXCEPT ![Head(main).key] = "PENDING"]
  /\ asked' = (asked \/ arm.auto)
  /\ late' = Late({Head(main).key})
  /\ unarmed' = unarmed \ {Head(main).key}
  /\ UNCHANGED <<store, polling, emit, cycle, cycles, cur, reg, regs, poolVars,
                 closed, finals>>

\* _on_records_reset with the token of a submission that is no longer the one to
\* be armed: nothing is done.
OnStaleReset ==
  /\ Ready /\ First("rearm")
  /\ Head(main).tok # arm.tok
  /\ main' = Tail(main)
  /\ unarmed' = unarmed \cup {Head(main).key}
  /\ UNCHANGED <<store, pollVars, armVars, cur, reg, regs, status, poolVars, closed,
                 finals, late>>

\* tick: with a handler registered, read the records of the jobset.
OnTick ==
  /\ Ready /\ First("tick")
  /\ main' = Tail(main)
  /\ cur' = IF reg = 0 THEN cur ELSE [pc |-> "eval", recs |-> store]
  /\ UNCHANGED <<store, pollVars, armVars, reg, regs, status, poolVars, closed, histVars>>

\* Mutant of OnRecheck: the end of a run is not looked at.
OnRecheckIgnored ==
  /\ Ready /\ First("recheck")
  /\ main' = Tail(main)
  /\ UNCHANGED <<store, pollVars, armVars, cur, reg, regs, status, poolVars, closed, histVars>>

\* _on_recheck: the one job again, if it has become terminal.
OnRecheck ==
  /\ Ready /\ First("recheck")
  /\ main' = Tail(main)
  /\ LET k == Head(main).key
     IN  cur' = IF reg = 0 \/ store[k].st \notin Terminal THEN cur
                ELSE [pc |-> "eval", recs |-> [x \in {k} |-> store[k]]]
  /\ UNCHANGED <<store, pollVars, armVars, reg, regs, status, poolVars, closed, histVars>>

\* The records _eval_record puts on the queue, as final runs and as others.
Fresh    == {k \in DOMAIN cur.recs : status[k] # "FINISHED" /\ k \notin inflight}
Finals   == {k \in Fresh : cur.recs[k].st = "DONE"}
Middles  == {k \in Fresh : \/ cur.recs[k].st = "RUN"
                           \/ cur.recs[k].st = "PEND" /\ status[k] = "RUNNING"}
Dropped  == {k \in Fresh : cur.recs[k].st \in Terminal \ {"DONE"}}

\* _run_cycle: every record is judged and marked; the runs go to the queue.
Eval ==
  /\ cur.pc = "eval"
  /\ status' = [k \in Keys |-> IF k \in Finals \cup Dropped THEN "FINISHED"
                               ELSE IF k \in Middles THEN "RUNNING" ELSE status[k]]
  /\ inflight' = inflight \cup Finals \cup Middles
  /\ LET order == SetToSeq(Finals \cup Middles)
     IN  queue' = queue \o [i \in DOMAIN order |->
           [reg |-> reg, key |-> order[i], rec |-> cur.recs[order[i]],
            final |-> order[i] \in Finals]]
  /\ cur' = At("pump")
  /\ UNCHANGED <<store, pollVars, armVars, main, reg, regs, draining, wk, closed, histVars>>

Smaller(a, b) == IF a < b THEN a ELSE b

\* _pump: as many workers as there is work for, up to the limit.
Pump ==
  /\ cur.pc = "pump"
  /\ cur' = At("idle")
  /\ LET want == Smaller(Cardinality(Workers) - draining, Len(queue))
     IN  /\ draining' = draining + want
         /\ \E ws \in SUBSET {w \in Workers : wk[w].pc = "off"} :
              /\ Cardinality(ws) = want
              /\ wk' = [w \in Workers |-> IF w \in ws THEN [Off EXCEPT !.pc = "take"] ELSE wk[w]]
  /\ UNCHANGED <<store, pollVars, armVars, main, reg, regs, status, inflight, queue, closed, histVars>>

\* shutdown: the handlers go, of the queued runs only the final ones stay, in
\* their order.
Shutdown ==
  /\ Ready
  /\ closed' = "wait"
  /\ reg' = 0
  /\ LET kept == {i \in DOMAIN queue : queue[i].final}
     IN  \E f \in [1..Cardinality(kept) -> kept] :
           /\ \A i, j \in DOMAIN f : i < j => f[i] < f[j]
           /\ queue' = [i \in DOMAIN f |-> queue[f[i]]]
  /\ UNCHANGED <<store, pollVars, armVars, main, cur, regs, status, inflight, draining, wk, histVars>>

\* It ends when the workers do; the marks of the dropped runs are cleared.
ShutdownDone ==
  /\ closed = "wait"
  /\ \A w \in Workers : wk[w].pc = "off"
  /\ closed' = "yes"
  /\ inflight' = {}
  /\ UNCHANGED <<store, pollVars, armVars, mainVars, queue, draining, wk, histVars>>

-----------------------------------------------------------------------------
(* The workers.                                                            *)

\* _drain takes the next run and calls the handler.
Take(w) ==
  /\ wk[w].pc = "take"
  /\ queue # << >>
  /\ LET q == Head(queue)
     IN  /\ wk' = [wk EXCEPT ![w] = [pc |-> "call", item |-> q]]
         /\ finals' = IF q.final /\ q.reg = reg /\ q.rec.gen = store[q.key].gen
                      THEN finals \cup {q.key} ELSE finals
  /\ queue' = Tail(queue)
  /\ UNCHANGED <<store, pollVars, armVars, mainVars, inflight, draining, closed, late, unarmed>>

\* Mutant of DrainEnd: the worker looks at the queue and signs off later.
DrainEndSplit(w) ==
  /\ \/ /\ wk[w].pc = "take" /\ queue = << >>
        /\ wk' = [wk EXCEPT ![w].pc = "end"]
        /\ UNCHANGED draining
     \/ /\ wk[w].pc = "end"
        /\ wk' = [wk EXCEPT ![w] = Off]
        /\ draining' = draining - 1
  /\ UNCHANGED <<store, pollVars, armVars, mainVars, inflight, queue, closed, histVars>>

\* The queue is empty: the look and the sign-off are one critical section.
DrainEnd(w) ==
  /\ wk[w].pc = "take" /\ queue = << >>
  /\ wk' = [wk EXCEPT ![w] = Off]
  /\ draining' = draining - 1
  /\ UNCHANGED <<store, pollVars, armVars, mainVars, inflight, queue, closed, histVars>>

\* Mutant of Return: a handler that raises leaves its mark behind.
ReturnKeepsMark(w) ==
  /\ wk[w].pc = "call"
  /\ \E raised \in BOOLEAN :
       inflight' = IF raised THEN inflight ELSE inflight \ {wk[w].item.key}
  /\ wk' = [wk EXCEPT ![w].pc = "done"]
  /\ UNCHANGED <<store, pollVars, armVars, mainVars, queue, draining, closed, histVars>>

\* The handler returns or raises; either way the mark is cleared.
Return(w) ==
  /\ wk[w].pc = "call"
  /\ inflight' = inflight \ {wk[w].item.key}
  /\ wk' = [wk EXCEPT ![w].pc = "done"]
  /\ UNCHANGED <<store, pollVars, armVars, mainVars, queue, draining, closed, histVars>>

\* Then the result is reported and the main thread is asked to look again.
Announce(w) ==
  /\ wk[w].pc = "done"
  /\ main' = Append(main, Recheck(wk[w].item.key))
  /\ wk' = [wk EXCEPT ![w] = [Off EXCEPT !.pc = "take"]]
  /\ UNCHANGED <<store, pollVars, armVars, cur, reg, regs, status, inflight, queue,
                 draining, closed, histVars>>

-----------------------------------------------------------------------------
Main    == OnRemove \/ OnRearm \/ OnStaleReset \/ OnTick \/ OnRecheck \/ Eval \/ Pump
           \/ ShutdownDone
Polling == StartPolling \/ Poll \/ AutoStop
Drain(w) == Take(w) \/ DrainEnd(w) \/ Return(w) \/ Announce(w)

Next ==
  \/ \E k \in Keys, s \in {"RUN", "DONE", "LOST"} : Observe(k, s)
  \/ \E k \in Resubmits : Stage(k)
  \/ Reset \/ Refuse
  \/ Polling
  \/ AddHandler \/ RemoveHandler \/ Shutdown
  \/ \E w \in Workers : RequestRemove(w)
  \/ Main
  \/ \E w \in Workers : Drain(w)

\* The event loop, the polling thread and the pool threads go on, and a handler
\* returns; jobs, users, gates and the handler's own requests do as they like.
Fairness == WF_vars(Main) /\ WF_vars(Polling) /\ \A w \in Workers : WF_vars(Drain(w))

Spec == Init /\ [][Next]_vars /\ Fairness

-----------------------------------------------------------------------------
(* Properties.                                                             *)

Calling(k) == {w \in Workers : wk[w].pc = "call" /\ wk[w].item.key = k}
Queued(k)  == {i \in DOMAIN queue : queue[i].key = k}

\* The service keeps the marks, not the handler object: a job is never in its
\* handler twice at a time, nor queued behind its own run, also when the handler
\* is removed and registered again meanwhile; and no mark outlives its run.
NoOverlap ==
  /\ \A k \in Keys : Cardinality(Calling(k)) + Cardinality(Queued(k)) <= 1
  /\ closed = "no" => inflight = {k \in Keys : Calling(k) \cup Queued(k) # {}}

\* _drain and _pump: a run that is queued has a worker to take it, and the
\* count of workers is right, so the queue is never left to nobody.
QueueServed ==
  /\ draining = Cardinality({w \in Workers : wk[w].pc # "off"})
  /\ queue # << >> /\ cur.pc # "pump" => \E w \in Workers : wk[w].pc # "off"

\* Nothing is under way but the polling of the jobset.
Rest ==
  /\ main = << >> /\ cur.pc = "idle" /\ ~emit /\ queue = << >>
  /\ \A w \in Workers : wk[w].pc \in {"off", "take"}

\* tick, _on_recheck and rearm: at rest no final run is forgotten.  A job that is
\* done has had it, with these exact exceptions: the job ended, was armed or got
\* its handler after the last look at the records, and then the next look will
\* not take it for finished; or its reset was not told because another submission
\* was accepted before.
NoneForgotten ==
  Rest /\ closed = "no" /\ reg # 0 =>
    \A k \in Keys : store[k].st = "DONE" =>
      \/ k \in finals
      \/ k \in late /\ status[k] # "FINISHED"
      \/ k \in unarmed

\* tick and _on_recheck: a job that is done while it is polled gets its final
\* run, although the evaluation skips jobs that are in their handler and polling
\* stops with the last job; unless the handler goes, the job starts anew, or one
\* of the exceptions of NoneForgotten applies.
FinalRuns ==
  \A k \in Keys :
    (store[k].st = "DONE" /\ polling /\ reg # 0 /\ k \notin late) ~>
      (k \in finals \/ reg = 0 \/ store[k].st # "DONE" \/ k \in late \cup unarmed)

=============================================================================
