------------------------------ MODULE MCRelay ------------------------------
(* Instances of Relay for TLC.                                             *)
EXTENDS Relay

\* k1 changes twice, or k1 and k2 once each, so that both can be held back.
FewWrites == rec["k1"].rev + rec["k2"].rev <= 2 /\ rec["k2"].rev <= 1 /\ rec["k2"].gen = MaxRev + 1
============================================================================
