----------------------------- MODULE MCQuerier -----------------------------
(* Instances of Querier for TLC.                                           *)
EXTENDS Querier

\* Key 1 is an array job of its wrapper, the others are plain jobs.
MCElements == [k \in Keys |-> IF k = 1 THEN 1..2 ELSE {1}]

\* Three questions in one run: key 1 alone is killed, removed and resubmitted
\* while both queriers run; the formats change under all threads while one job,
\* plain or an array, does its work; three chunks fail or not under one querier.
Alone(k) == \A j \in Keys \ {k} : rec[j].st = "GONE"
Quiet    == gens = 1 /\ \A k \in Keys : ~rec[k].killed
Queued   == \A k \in Keys : lsf[k][1] = "PEND"
Bounded  ==
  \/ /\ Alone(1) /\ supported = 1 /\ th["r1"].pc = "idle"
     /\ \A e \in 1..2 : lsf[1][e] # "EXIT"
  \/ (Alone(1) \/ Alone(2)) /\ Quiet
  \/ /\ \A k \in Keys : rec[k].st # "GONE"
     /\ supported = 1 /\ th["q2"].pc = "idle" /\ th["r1"].pc = "idle"
     /\ Quiet /\ Queued
============================================================================
