----------------------------- MODULE MCJobStore -----------------------------
(***************************************************************************)
(* Instances of JobStore for TLC.                                          *)
(***************************************************************************)
EXTENDS JobStore, TLC

\* Keys and editors are interchangeable.
Symmetry == Permutations(Keys) \cup Permutations(Editors)

\* Two jobs with short histories, or one with a longer history.
Short(key) == fresh[key] <= 2 /\ (key \in DOMAIN jobs => jobs[key].revision <= 2)
ShortOrAlone == \A key \in Keys : Short(key) \/ \A k \in Keys \ {key} : fresh[k] = 0
=============================================================================
