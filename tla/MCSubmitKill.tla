---------------------------- MODULE MCSubmitKill ----------------------------
(***************************************************************************)
(* Instances of SubmitKill for TLC.                                        *)
(***************************************************************************)
EXTENDS SubmitKill, TLC

\* Keys are interchangeable, and so are cycles.
Symmetry == Permutations(Keys) \cup Permutations(Cycles)

Submitted == {c \in Cycles : launch[c] # "none"}
Named == UNION {want[c] : c \in Submitted} \cup UNION {keys[k] : k \in Kills}

Removed == {key \in Keys : rec[key].state = "GONE"}

\* The state space is cut to one of four scenarios: one cycle of one key and a
\* selective kill, with everything; one cycle over both keys, with cancel_submit
\* or with a selective kill and one retry; two cycles over one key and a
\* selective kill, without a retry; one cycle over one key and both kills,
\* without a retry.  A key is removed when it is alone.  A selective kill names
\* a key.
OneScenario ==
  LET kill      == \E k \in Kills : stage[k] # "idle"
      wholeKill == \E k \in WholeKills : stage[k] # "idle"
      cancel    == \E c \in Cycles : cancel_event[c]
      oneCycle  == Cardinality(Submitted) <= 1
      oneKey    == Cardinality(Named \cup Removed) <= 1
      retried   == {j \in Jobs : attempt[j[1]][j[2]] # 0}
  IN  /\ \/ ~wholeKill /\ oneCycle /\ oneKey
         \/ ~kill /\ oneCycle
         \/ ~wholeKill /\ oneCycle /\ ~cancel /\ Cardinality(retried) <= 1
         \/ ~wholeKill /\ oneKey /\ ~cancel /\ retried = {}
         \/ oneCycle /\ oneKey /\ retried = {}
      /\ Removed # {} => oneKey /\ oneCycle
      /\ \A k \in Kills \ WholeKills : stage[k] = "idle" \/ keys[k] # {}
=============================================================================
