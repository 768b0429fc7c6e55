---------------------------- MODULE MCCompletion ----------------------------
(***************************************************************************)
(* Instances of Completion for TLC.                                        *)
(***************************************************************************)
EXTENDS Completion, FiniteSets, TLC

\* Keys are interchangeable, and so are cycles that may all do the same.
Symmetry == Permutations(Keys) \cup Permutations(Cycles)

Activities == Cardinality(used) + Cardinality({k \in Kills : kill[k] # "idle"})

\* Two cycles, or a cycle and a kill, on two jobs; or three of them on one, polled
\* without the user stopping it or asking for a single poll; none of these is removed.
Full ==
  /\ exists /\ Activities + Cardinality(Members) <= 4
  /\ Activities = 3 => \A i \in DOMAIN requests : requests[i] = "start"

\* Two of them on one job, which may be removed.
Small == Cardinality(Members) = 1 /\ Activities <= 2

OneScenario == Full \/ Small
=============================================================================
