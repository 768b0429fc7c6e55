------------------------- MODULE MCInternalStatus -------------------------
(* Instances of InternalStatus for TLC.                                    *)
EXTENDS InternalStatus, TLC

Sym == Permutations(Fetches) \cup Permutations(Readers)

\* Nothing is settled or dropped in a run in which the source is shut down,
\* and such a run ends with its last reader.
OneEnding ==
  closed => /\ \A j \in Ids : track[j] \in {"new", "on"}
            /\ \E c \in Readers : reader[c].pc # "idle"
===========================================================================
