----------------------------- MODULE MCHandlers -----------------------------
(* Instances of Handlers for TLC.                                          *)
EXTENDS Handlers

\* What the environment does besides: the user registers the name again, submits
\* or shuts the service down.
Moves == {m \in {"add", "submit", "close"} :
            \/ m = "add" /\ (regs > 1 \/ (reg = 0 /\ closed = "no") \/ Unregister \in Range(main))
            \/ m = "submit" /\ cycles > 0
            \/ m = "close" /\ closed # "no"}

Lost(k) == store[k].st = "LOST"

\* Two jobs that run to their ends and nobody interferes.
TwoJobs == Moves = {} /\ ~Lost("k1") /\ ~Lost("k2")

\* k1 alone and at most one of the moves.  Only the last submission polls, and the
\* job is not lost after it.
OneJob ==
  /\ Lost("k2") /\ Cardinality(Moves) <= 1
  /\ arm # NoArm => (arm.auto <=> arm.tok = MaxCycles)
  /\ cycles = MaxCycles => ~Lost("k1")

OneScenario == TwoJobs \/ OneJob
=============================================================================
