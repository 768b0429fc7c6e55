------------------------ MODULE InternalStatus_proofs ------------------------
(***************************************************************************)
(* Proofs about the callback status source, for any number of ids, readers *)
(* and fetches, any MAX_INFLIGHT, and clocks and states without bound.     *)
(***************************************************************************)
EXTENDS InternalStatus, FiniteSetTheorems, TLAPS

-----------------------------------------------------------------------------
(* Types.                                                                  *)

Answer     == [at : Nat, val : Nat]
\* Ways a set of ids can be mapped to states.
Versions   == UNION {[S -> Nat] : S \in SUBSET Ids}
FetchType  == [pc : {"free", "new", "call", "parsed", "failed"}, at : Nat,
               base : Versions, data : Versions, via : {"primary", "failover"}]
ReaderType == [pc : {"idle", "register", "check", "wait", "read", "leave"},
               ids : SUBSET Ids, fresh : BOOLEAN, min : Nat, base : Versions,
               before : Nat, woken : {"no", "ended", "other"}, ok : BOOLEAN,
               rows : Versions]

\* The fetches that have called the callback, and those with an answer.
Begun  == {f \in Fetches : fetch[f].pc \in {"call", "parsed", "failed"}}
Parsed == {f \in Fetches : fetch[f].pc = "parsed"}

SourceType ==
  /\ truth \in [Ids -> Nat]
  /\ track \in [Ids -> {"new", "on", "done", "gone"}]
  /\ forgets \subseteq Ids

CacheType ==
  /\ interest \subseteq Ids
  /\ ledger \in UNION {[S -> Answer] : S \in SUBSET interest}
  /\ last_fetch_at \in Nat
  /\ floor \in [Ids -> Nat]

FlightType ==
  /\ current \subseteq Fetches
  /\ overdue \in BOOLEAN
  /\ inflight \in Nat
  /\ fetch \in [Fetches -> FetchType]
  /\ \A f \in Fetches :
       fetch[f].pc \in {"call", "parsed", "failed"} => fetch[f].base \in [Ids -> Nat]

TypeOK ==
  /\ SourceType /\ CacheType /\ FlightType
  /\ closed \in BOOLEAN
  /\ reader \in [Readers -> ReaderType]
  /\ clock \in Nat

-----------------------------------------------------------------------------
(* The inductive invariant.                                                *)

\* The count is right, and with no fetch in progress there is room for one.
CountInv ==
  /\ inflight = Cardinality({f \in Fetches : fetch[f].pc # "free"})
  /\ inflight <= MAX_INFLIGHT
  /\ current = {} => inflight < MAX_INFLIGHT
  /\ \A f \in current : fetch[f].pc # "free"

\* A record goes new, on, done, gone; a job is of interest only once its record
\* exists, and is to be forgotten only when it is gone.
TrackInv ==
  \A j \in Ids :
    /\ track[j] = "new" => truth[j] = 0 /\ j \notin interest
    /\ track[j] # "new" => truth[j] > 0
    /\ j \in forgets => track[j] = "gone"

\* Fetches saw the jobs as they were at their start, those that started later
\* saw them later.
ClockInv ==
  /\ last_fetch_at <= clock
  /\ \A j \in DOMAIN ledger : ledger[j].at <= clock
  /\ \A j \in Ids : floor[j] <= truth[j]
  /\ \A f \in Begun :
       /\ fetch[f].at <= clock
       /\ \A j \in Ids : fetch[f].base[j] <= truth[j]
  /\ \A f \in Parsed : \A j \in DOMAIN fetch[f].data : fetch[f].data[j] >= fetch[f].base[j]
  /\ \A f, g \in Begun :
       fetch[f].at <= fetch[g].at => \A j \in Ids : fetch[f].base[j] <= fetch[g].base[j]

\* What the ledger has for a job is no older than the floor of the job, and the
\* fetches that may replace it started no earlier than the one that set the
\* floor.
FloorInv ==
  \A j \in Ids : track[j] = "on" =>
    /\ j \notin DOMAIN ledger => floor[j] = 0
    /\ j \in DOMAIN ledger =>
         /\ ledger[j].val >= floor[j]
         /\ \A f \in Begun :
              IF fetch[f].at >= ledger[j].at THEN fetch[f].base[j] >= floor[j]
              ELSE fetch[f].base[j] <= floor[j]

\* The ledger is good enough for what the reader has asked.
Held(c) ==
  \A j \in reader[c].ids : track[j] = "on" =>
    j \in DOMAIN ledger /\ floor[j] >= reader[c].base[j]

\* The reader was given, for each id the store still has, data of after its call.
Served(c) ==
  \A j \in reader[c].ids : track[j] = "on" =>
    j \in DOMAIN reader[c].rows /\ reader[c].rows[j] >= reader[c].base[j]

\* A fetch that started after the reader asked will answer it.
Answering(c) ==
  \A f \in Begun : fetch[f].at >= reader[c].min =>
    /\ \A j \in reader[c].ids : fetch[f].base[j] >= reader[c].base[j]
    /\ f \in Parsed =>
         \A j \in reader[c].ids : track[j] = "on" => j \in DOMAIN fetch[f].data

Asked == {"check", "wait", "read", "leave"}

ReaderOK(c) ==
  /\ reader[c].pc = "idle" => reader[c].ids = {}
  /\ reader[c].pc # "idle" => \A j \in reader[c].ids : track[j] # "new"
  /\ reader[c].pc \in Asked =>
       /\ reader[c].base \in [Ids -> Nat]
       /\ \A j \in reader[c].ids :
            /\ 0 < reader[c].base[j] /\ reader[c].base[j] <= truth[j]
            /\ track[j] = "on" => j \in interest
  /\ reader[c].pc \in {"check", "wait"} =>
       /\ reader[c].min <= clock
       /\ reader[c].fresh =>
            /\ Answering(c)
            /\ last_fetch_at >= reader[c].min => Held(c)
  /\ reader[c].pc = "read" /\ reader[c].fresh => Held(c)
  /\ reader[c].pc = "leave" /\ reader[c].ok /\ reader[c].fresh => Served(c)

ReaderInv == \A c \in Readers : ReaderOK(c)

Inv == /\ TypeOK /\ CountInv /\ TrackInv /\ ClockInv /\ FloorInv
       /\ ReaderInv /\ GoneForgotten
-----------------------------------------------------------------------------
(* Type correctness.                                                       *)

\* A function from some ids to states is one of the Versions.
LEMMA VersionsFrom ==
  ASSUME NEW S \in SUBSET Ids, NEW v \in [S -> Nat]
  PROVE  v \in Versions
BY DEF Versions

\* Its domain is a set of ids and its values are states.
LEMMA VersionsTo ==
  ASSUME NEW v \in Versions
  PROVE  /\ DOMAIN v \subseteq Ids
         /\ \A j \in DOMAIN v : v[j] \in Nat
BY DEF Versions

\* What the ledger has been given stays typed when some ids are left out.
LEMMA LedgerCut ==
  ASSUME CacheType, NEW S \in SUBSET DOMAIN ledger, NEW ids, S \subseteq ids
  PROVE  [j \in S |-> ledger[j]] \in UNION {[T -> Answer] : T \in SUBSET ids}
BY DEF CacheType

\* The free fetch and the idle reader are typed.
LEMMA InitialRecords == Free \in FetchType /\ Idle \in ReaderType
<1>1. Empty \in [{} -> Nat]
  BY DEF Empty
<1>2. Empty \in Versions
  BY <1>1, VersionsFrom
<1> QED
  BY <1>2 DEF Free, Idle, FetchType, ReaderType

\* A reader's record changes alone.
LEMMA SetReader ==
  ASSUME TypeOK, NEW c \in Readers, NEW r \in ReaderType,
         reader' = [reader EXCEPT ![c] = r]
  PROVE  /\ reader' \in [Readers -> ReaderType]
         /\ reader'[c] = r
         /\ \A d \in Readers \ {c} : reader'[d] = reader[d]
BY DEF TypeOK

\* The steps of jobs and records, and of shutdown and the deadline.
LEMMA TypeSource ==
  ASSUME TypeOK,
         \/ \E j \in Ids : Submitted(j) \/ Change(j) \/ Settle(j) \/ DropId(j) \/ Forget(j)
         \/ Overdue \/ Shutdown
  PROVE  TypeOK'
<1> USE DEF TypeOK
<1>1. ASSUME NEW j \in Ids, Submitted(j) \/ Change(j) \/ Settle(j) \/ DropId(j)
      PROVE  TypeOK'
  BY <1>1 DEF Submitted, Change, Settle, DropId, SourceType, cacheVars, flightVars,
              CacheType, FlightType
<1>2. ASSUME NEW j \in Ids, Forget(j) PROVE TypeOK'
  <2>1. SourceType' /\ FlightType'
    BY <1>2 DEF Forget, SourceType, FlightType, flightVars
  <2>2. CacheType'
    <3>1. ledger' \in UNION {[T -> Answer] : T \in SUBSET interest'}
      <4>1. DOMAIN ledger \subseteq interest
        BY DEF CacheType
      <4> QED
        BY <1>2, <4>1, LedgerCut DEF Forget, ForgetIds
    <3> QED
      BY <1>2, <3>1 DEF Forget, ForgetIds, CacheType
  <2> QED
    BY <1>2, <2>1, <2>2 DEF Forget
<1>3. CASE Overdue
  BY <1>3 DEF Overdue, SourceType, CacheType, FlightType, sourceVars, cacheVars
<1>4. CASE Shutdown
  <2>1. reader' \in [Readers -> ReaderType]
    BY <1>4 DEF Shutdown, Notify, ReaderType
  <2> QED
    BY <1>4, <2>1 DEF Shutdown, SourceType, CacheType, FlightType, sourceVars, cacheVars,
                      flightVars
<1> QED
  BY <1>1, <1>2, <1>3, <1>4

\* The start of a fetch takes one free slot and no other.
LEMMA StartType ==
  ASSUME FlightType, NEW f \in Fetches, StartFetch(f)
  PROVE  /\ FlightType'
         /\ fetch[f].pc = "free" /\ fetch'[f].pc = "new"
         /\ \A g \in Fetches \ {f} : fetch'[g] = fetch[g]
<1>1. fetch'[f] \in FetchType /\ fetch'[f].pc = "new"
  BY InitialRecords DEF StartFetch, FlightType, FetchType
<1>2. \A g \in Fetches \ {f} : fetch'[g] = fetch[g]
  BY DEF StartFetch, FlightType
<1>3. fetch' \in [Fetches -> FetchType]
  <2>1. fetch' = [g \in Fetches |-> fetch'[g]]
    BY DEF StartFetch, FlightType
  <2> QED
    BY <1>1, <1>2, <2>1 DEF FlightType
<1>4. current' = {f} /\ inflight' = inflight + 1 /\ fetch[f].pc = "free"
  BY DEF StartFetch
<1>5. overdue' \in BOOLEAN
  BY DEF StartFetch
<1>6. FlightType'
  BY <1>1, <1>2, <1>3, <1>4, <1>5 DEF FlightType
<1> QED
  BY <1>1, <1>2, <1>4, <1>6

\* The steps of a reader.
LEMMA TypeReader ==
  ASSUME TypeOK, NEW c \in Readers,
         \/ \E ids \in SUBSET Ids, fresh \in BOOLEAN : Call(c, ids, fresh)
         \/ Register(c) \/ CheckDone(c) \/ CheckWait(c) \/ CheckRefused(c)
         \/ Wake(c) \/ WaitTimeout(c) \/ Read(c) \/ Leave(c)
  PROVE  TypeOK'
<1> USE DEF TypeOK
<1>1. ASSUME NEW ids \in SUBSET Ids, NEW fresh \in BOOLEAN, Call(c, ids, fresh)
      PROVE  TypeOK'
  <2>1. [reader[c] EXCEPT !.pc = "register", !.ids = ids, !.fresh = fresh] \in ReaderType
    BY DEF ReaderType
  <2>2. reader' \in [Readers -> ReaderType]
    BY <1>1, <2>1, SetReader DEF Call
  <2> QED
    BY <1>1, <2>2 DEF Call, SourceType, CacheType, FlightType, sourceVars, cacheVars,
                      flightVars
<1>2. CASE Register(c)
  <2>1. truth \in Versions /\ Fresh(c) \in BOOLEAN
    BY VersionsFrom DEF SourceType, Fresh, ReaderType
  <2>2. reader' \in [Readers -> ReaderType]
    <3>1. ASSUME NEW fresh \in BOOLEAN, NEW min \in Nat, NEW v \in Versions
          PROVE  [reader[c] EXCEPT !.pc = "check", !.fresh = fresh, !.min = min,
                                   !.base = v] \in ReaderType
      BY DEF ReaderType
    <3>2. 1 \in Nat /\ clock + 1 \in Nat
      OBVIOUS
    <3> QED
      BY <1>2, <2>1, <3>1, <3>2, SetReader DEF Register
  <2>3. CacheType'
    BY <1>2 DEF Register, CacheType, ReaderType
  <2> QED
    BY <1>2, <2>2, <2>3 DEF Register, SourceType, FlightType, sourceVars, flightVars
<1>3. ASSUME UNCHANGED <<sourceVars, cacheVars, flightVars, closed, clock>>,
             NEW r \in ReaderType, reader' = [reader EXCEPT ![c] = r]
      PROVE  TypeOK'
  BY <1>3 DEF SourceType, CacheType, FlightType, sourceVars, cacheVars, flightVars
<1>4. CASE CheckWait(c)
  <2>1. reader' \in [Readers -> ReaderType]
    <3>1. [reader[c] EXCEPT !.pc = "wait", !.before = last_fetch_at] \in ReaderType
      BY DEF ReaderType, CacheType
    <3> QED
      BY <1>4, <3>1, SetReader DEF CheckWait
  <2>2. FlightType'
    <3>1. CASE CanStart
      BY <1>4, <3>1, StartType DEF CheckWait
    <3>2. CASE ~CanStart
      BY <1>4, <3>2 DEF CheckWait, flightVars, FlightType
    <3> QED
      BY <3>1, <3>2
  <2> QED
    BY <1>4, <2>1, <2>2 DEF CheckWait, SourceType, CacheType, sourceVars, cacheVars
<1>5. CASE Read(c)
  <2>1. [j \in reader[c].ids \cap DOMAIN ledger |-> ledger[j].val] \in Versions
    <3>1. \A j \in DOMAIN ledger : ledger[j].val \in Nat
      BY DEF CacheType, Answer
    <3>2. reader[c].ids \cap DOMAIN ledger \subseteq Ids
      BY DEF ReaderType
    <3> QED
      BY <3>1, <3>2, VersionsFrom
  <2>2. reader' \in [Readers -> ReaderType]
    <3> DEFINE rows == [j \in reader[c].ids \cap DOMAIN ledger |-> ledger[j].val]
    <3>1. [reader[c] EXCEPT !.pc = "leave", !.rows = rows] \in ReaderType
      BY <2>1 DEF ReaderType
    <3> QED
      BY <1>5, <3>1, SetReader DEF Read
  <2> QED
    BY <1>5, <2>2 DEF Read, SourceType, CacheType, FlightType, sourceVars, cacheVars,
                      flightVars
<1>6. CASE CheckDone(c) \/ CheckRefused(c) \/ Wake(c) \/ WaitTimeout(c)
  <2>1. Again(c) \in [Readers -> ReaderType]
    <3>1. [reader[c] EXCEPT !.pc = "check", !.woken = "no", !.before = 0] \in ReaderType
      BY DEF ReaderType
    <3> QED
      BY <3>1 DEF Again
  <2>2. ASSUME NEW ok \in BOOLEAN PROVE Answered(c, ok) \in [Readers -> ReaderType]
    <3>1. ASSUME NEW pc \in {"read", "leave"}
          PROVE  [reader[c] EXCEPT !.pc = pc, !.ok = ok, !.woken = "no", !.before = 0,
                                   !.min = 0] \in ReaderType
      <4>1. reader[c] \in ReaderType
        OBVIOUS
      <4> QED
        BY <2>2, <4>1 DEF ReaderType
    <3>2. [reader[c] EXCEPT !.pc = IF ok THEN "read" ELSE "leave", !.ok = ok,
                            !.woken = "no", !.before = 0, !.min = 0] \in ReaderType
      BY <3>1
    <3> QED
      BY <3>2 DEF Answered
  <2>3. \/ reader' = Again(c)
        \/ \E ok \in BOOLEAN : reader' = Answered(c, ok)
    BY <1>6 DEF CheckDone, CheckRefused, Wake, WaitTimeout
  <2>4. UNCHANGED <<sourceVars, cacheVars, flightVars, closed, clock>>
    BY <1>6 DEF CheckDone, CheckRefused, Wake, WaitTimeout
  <2> QED
    BY <2>1, <2>2, <2>3, <2>4
    DEF SourceType, CacheType, FlightType, sourceVars, cacheVars, flightVars
<1>7. CASE Leave(c)
  <2>1. reader' \in [Readers -> ReaderType]
    BY <1>7, InitialRecords DEF Leave
  <2>2. CacheType'
    <3> DEFINE js == {j \in Finished(c) : track[j] = "gone"}
    <3>1. ledger' \in UNION {[T -> Answer] : T \in SUBSET interest'}
      <4>1. DOMAIN ledger \subseteq interest
        BY DEF CacheType
      <4>2. /\ interest' = interest \ js
            /\ ledger' = [j \in DOMAIN ledger \ js |-> ledger[j]]
        BY <1>7 DEF Leave, ForgetIds
      <4> QED
        BY <4>1, <4>2, LedgerCut
    <3> QED
      BY <1>7, <3>1 DEF Leave, ForgetIds, CacheType
  <2> QED
    BY <1>7, <2>1, <2>2 DEF Leave, SourceType, FlightType, sourceVars, flightVars
<1> QED
  BY <1>1, <1>2, <1>4, <1>5, <1>6, <1>7

\* A fetch's record changes alone.
LEMMA SetFetch ==
  ASSUME FlightType, NEW f \in Fetches, NEW r \in FetchType,
         fetch' = [fetch EXCEPT ![f] = r]
  PROVE  /\ fetch' \in [Fetches -> FetchType]
         /\ fetch'[f] = r
         /\ \A g \in Fetches \ {f} : fetch'[g] = fetch[g]
BY DEF FlightType

\* The answer fetch f has for j is put into the ledger.
Taken(f, j) ==
  /\ f \in Parsed /\ j \in Answers(f)
  /\ j \in DOMAIN ledger => ledger[j].at <= fetch[f].at

\* A fetch that finishes replaces or adds the answers it is young enough for,
\* raises the floors of all it has an answer for, and drops nothing but settled
\* ids.
LEMMA FinishEffect ==
  ASSUME TypeOK, NEW f \in Fetches, FinishFetch(f)
  PROVE  /\ f \in Begun
         /\ interest' \subseteq interest
         /\ \A j \in interest : track[j] # "done" => j \in interest'
         /\ ledger' \in UNION {[T -> Answer] : T \in SUBSET interest'}
         /\ floor' \in [Ids -> Nat]
         /\ \A j \in DOMAIN ledger' :
              ledger'[j] = IF Taken(f, j) THEN [at |-> fetch[f].at, val |-> fetch[f].data[j]]
                           ELSE ledger[j]
         /\ \A j \in DOMAIN ledger' : j \in DOMAIN ledger \/ Taken(f, j)
         /\ \A j \in Ids : track[j] # "done" =>
              (j \in DOMAIN ledger' <=> j \in DOMAIN ledger \/ Taken(f, j))
         /\ \A j \in Ids :
              IF f \in Parsed /\ j \in Answers(f) /\ fetch[f].base[j] > floor[j]
              THEN floor'[j] = fetch[f].base[j] ELSE floor'[j] = floor[j]
         /\ last_fetch_at' = IF f \in Parsed /\ fetch[f].at > last_fetch_at
                             THEN fetch[f].at ELSE last_fetch_at
         /\ \A d \in Readers :
              reader'[d] = reader[d] \/ \E w : reader'[d] = [reader[d] EXCEPT !.woken = w]
<1>1. f \in Begun /\ (f \in Parsed <=> fetch[f].pc = "parsed")
  BY DEF FinishFetch, Begun, Parsed
<1>2. /\ fetch[f].base \in [Ids -> Nat] /\ fetch[f].at \in Nat
      /\ fetch[f].data \in Versions
  BY <1>1 DEF TypeOK, FlightType, FetchType, Begun
<1>3. /\ DOMAIN fetch[f].data \subseteq Ids
      /\ \A j \in DOMAIN fetch[f].data : fetch[f].data[j] \in Nat
  BY <1>2, VersionsTo
<1>4. /\ DOMAIN ledger \subseteq interest /\ interest \subseteq Ids
      /\ \A j \in DOMAIN ledger : ledger[j] \in Answer
  BY DEF TypeOK, CacheType
<1>5. floor' = [j \in Ids |-> IF f \in Parsed /\ j \in Answers(f) /\ fetch[f].base[j] > floor[j]
                              THEN fetch[f].base[j] ELSE floor[j]]
  BY <1>1 DEF FinishFetch
<1>6. floor' \in [Ids -> Nat]
  BY <1>2, <1>5 DEF TypeOK, CacheType
<1>7. \A d \in Readers :
        reader'[d] = reader[d] \/ \E w : reader'[d] = [reader[d] EXCEPT !.woken = w]
  BY DEF FinishFetch, Notify
<1>8. last_fetch_at' = IF f \in Parsed /\ fetch[f].at > last_fetch_at
                       THEN fetch[f].at ELSE last_fetch_at
  BY <1>1 DEF FinishFetch
<1>9. CASE f \notin Parsed
  <2>1. UNCHANGED <<ledger, interest>>
    BY <1>1, <1>9 DEF FinishFetch
  <2> QED
    BY <1>1, <1>4, <1>5, <1>6, <1>7, <1>8, <1>9, <2>1 DEF Taken, TypeOK, CacheType
<1>10. CASE f \in Parsed
  <2>1. PICK old \in SUBSET {j \in DOMAIN Merge(f) : track[j] = "done"} :
          /\ ledger' = [j \in DOMAIN Merge(f) \ old |-> Merge(f)[j]]
          /\ interest' = interest \ old
    BY <1>1, <1>10 DEF FinishFetch
  <2>2. DOMAIN Merge(f) = DOMAIN ledger \cup Answers(f)
    BY DEF Merge
  <2>3. \A j \in Ids : j \in DOMAIN Merge(f) <=> j \in DOMAIN ledger \/ Taken(f, j)
    BY <1>10, <2>2 DEF Taken
  <2>4. \A j \in DOMAIN Merge(f) :
          Merge(f)[j] = IF Taken(f, j) THEN [at |-> fetch[f].at, val |-> fetch[f].data[j]]
                        ELSE ledger[j]
    BY <1>10, <2>2 DEF Merge, Taken
  <2>5. Answers(f) \subseteq interest /\ Answers(f) \subseteq DOMAIN fetch[f].data
    BY DEF Answers
  <2>6. \A j \in DOMAIN Merge(f) : Merge(f)[j] \in Answer
    <3>1. ASSUME NEW j \in DOMAIN Merge(f), Taken(f, j) PROVE Merge(f)[j] \in Answer
      <4>1. j \in DOMAIN fetch[f].data
        BY <3>1, <2>5 DEF Taken
      <4> QED
        BY <3>1, <4>1, <1>2, <1>3, <2>4 DEF Answer
    <3>2. ASSUME NEW j \in DOMAIN Merge(f), ~Taken(f, j) PROVE Merge(f)[j] \in Answer
      <4>1. j \in DOMAIN ledger
        BY <3>2, <1>4, <1>10, <2>2, <2>5 DEF Taken
      <4> QED
        BY <3>2, <4>1, <1>4, <2>4
    <3> QED
      BY <3>1, <3>2
  <2>7. ledger' \in [DOMAIN Merge(f) \ old -> Answer]
    BY <2>1, <2>6
  <2>8. DOMAIN Merge(f) \ old \subseteq interest'
    BY <1>4, <2>1, <2>2, <2>5
  <2>9. DOMAIN Merge(f) \subseteq interest /\ DOMAIN Merge(f) \subseteq Ids
    BY <1>4, <2>2, <2>5
  <2>10. /\ interest' \subseteq interest
         /\ \A j \in interest : track[j] # "done" => j \in interest'
         /\ ledger' \in UNION {[T -> Answer] : T \in SUBSET interest'}
    BY <2>1, <2>7, <2>8
  <2>11. \A j \in DOMAIN ledger' :
           /\ ledger'[j] = IF Taken(f, j) THEN [at |-> fetch[f].at, val |-> fetch[f].data[j]]
                           ELSE ledger[j]
           /\ j \in DOMAIN ledger \/ Taken(f, j)
    BY <2>1, <2>3, <2>4, <2>9
  <2>12. \A j \in Ids : track[j] # "done" =>
           (j \in DOMAIN ledger' <=> j \in DOMAIN ledger \/ Taken(f, j))
    BY <2>1, <2>3
  <2>13. \A j \in Ids :
           IF f \in Parsed /\ j \in Answers(f) /\ fetch[f].base[j] > floor[j]
           THEN floor'[j] = fetch[f].base[j] ELSE floor'[j] = floor[j]
    BY <1>5
  <2> QED
    BY <1>1, <1>6, <1>7, <1>8, <2>10, <2>11, <2>12, <2>13
<1> QED
  BY <1>9, <1>10

\* The steps of a fetch thread.
LEMMA TypeFetch ==
  ASSUME TypeOK, NEW f \in Fetches,
         inflight > 0 \/ ~FinishFetch(f),
         Begin(f) \/ Parse(f) \/ Raise(f) \/ FinishFetch(f)
  PROVE  TypeOK'
<1> USE DEF TypeOK
<1>t. fetch[f] \in FetchType /\ \A g \in Begun : fetch[g].base \in [Ids -> Nat]
  BY DEF FlightType, Begun
<1>o. ASSUME NEW r \in FetchType, fetch' = [fetch EXCEPT ![f] = r],
             r.pc \in {"free", "new"} \/ r.base \in [Ids -> Nat],
             current' \subseteq Fetches, overdue' \in BOOLEAN, inflight' \in Nat
      PROVE  FlightType'
  <2>1. /\ fetch' \in [Fetches -> FetchType]
        /\ fetch'[f] = r
        /\ \A g \in Fetches \ {f} : fetch'[g] = fetch[g]
    BY <1>o, SetFetch
  <2>2. \A g \in Fetches : fetch'[g].pc \in {"call", "parsed", "failed"} =>
                            fetch'[g].base \in [Ids -> Nat]
    BY <1>o, <2>1 DEF FlightType
  <2> QED
    BY <1>o, <2>1, <2>2 DEF FlightType
<1>1. CASE Begin(f)
  <2>1. ASSUME NEW at \in Nat, NEW v \in Versions
        PROVE  [fetch[f] EXCEPT !.pc = "call", !.at = at, !.base = v] \in FetchType
    BY <1>t DEF FetchType
  <2>2. truth \in Versions /\ truth \in [Ids -> Nat] /\ clock + 1 \in Nat
    BY VersionsFrom DEF SourceType
  <2> DEFINE r == [fetch[f] EXCEPT !.pc = "call", !.at = clock + 1, !.base = truth]
  <2>3. r \in FetchType /\ r.base \in [Ids -> Nat]
    BY <1>t, <2>1, <2>2 DEF FetchType
  <2>4. fetch' = [fetch EXCEPT ![f] = r] /\ UNCHANGED <<current, overdue, inflight>>
    BY <1>1 DEF Begin
  <2>5. FlightType'
    <3> HIDE DEF r
    <3> QED
      BY <1>o, <2>3, <2>4 DEF FlightType
  <2> QED
    BY <1>1, <2>2, <2>5 DEF Begin, SourceType, CacheType, sourceVars, cacheVars
<1>2. CASE Parse(f)
  <2>1. PICK got \in [Ids -> 0..MaxTruth] :
          fetch' = [fetch EXCEPT ![f] = [@ EXCEPT !.pc = "parsed",
            !.data = [j \in {x \in interest : got[x] > 0} |-> got[j]]]]
    BY <1>2 DEF Parse
  <2> DEFINE data == [j \in {x \in interest : got[x] > 0} |-> got[j]]
             r    == [fetch[f] EXCEPT !.pc = "parsed", !.data = data]
  <2>2. data \in Versions
    <3>1. {x \in interest : got[x] > 0} \in SUBSET Ids
      BY DEF CacheType
    <3>2. data \in [{x \in interest : got[x] > 0} -> Nat]
      BY <3>1, StatusAssumption
    <3> QED
      BY <3>1, <3>2, VersionsFrom
  <2>3. fetch[f].base \in [Ids -> Nat]
    BY <1>2, <1>t DEF Parse, Begun
  <2>4. ASSUME NEW v \in Versions
        PROVE  /\ [fetch[f] EXCEPT !.pc = "parsed", !.data = v] \in FetchType
               /\ [fetch[f] EXCEPT !.pc = "parsed", !.data = v].base = fetch[f].base
    BY <1>t DEF FetchType
  <2>5. FlightType'
    <3>1. r \in FetchType /\ r.base \in [Ids -> Nat] /\ fetch' = [fetch EXCEPT ![f] = r]
      BY <2>1, <2>2, <2>3, <2>4
    <3>2. UNCHANGED <<current, overdue, inflight>>
      BY <1>2 DEF Parse
    <3> HIDE DEF r
    <3> QED
      BY <1>o, <3>1, <3>2 DEF FlightType
  <2> QED
    BY <1>2, <2>5 DEF Parse, SourceType, CacheType, sourceVars, cacheVars
<1>3. CASE Raise(f)
  <2> DEFINE r == IF Failover /\ fetch[f].via = "primary"
                  THEN [fetch[f] EXCEPT !.via = "failover"]
                  ELSE [fetch[f] EXCEPT !.pc = "failed"]
  <2>1. fetch[f].base \in [Ids -> Nat]
    BY <1>3, <1>t DEF Raise, Begun
  <2>2. r \in FetchType /\ r.base = fetch[f].base
    BY <1>t DEF FetchType
  <2>3. fetch' = [fetch EXCEPT ![f] = r] /\ UNCHANGED <<current, overdue, inflight>>
    BY <1>3 DEF Raise
  <2>4. FlightType'
    <3> HIDE DEF r
    <3> QED
      BY <1>o, <2>1, <2>2, <2>3 DEF FlightType
  <2> QED
    BY <1>3, <2>4 DEF Raise, SourceType, CacheType, sourceVars, cacheVars
<1>4. CASE FinishFetch(f)
  <2>1. fetch' = [fetch EXCEPT ![f] = Free] /\ inflight' = inflight - 1
    BY <1>4 DEF FinishFetch
  <2>2. current' \subseteq Fetches /\ overdue' \in BOOLEAN
    BY <1>4 DEF FinishFetch, FlightType
  <2>3. FlightType'
    <3>1. inflight' \in Nat
      BY <1>4, <2>1 DEF FlightType
    <3>2. Free \in FetchType /\ Free.pc = "free"
      BY InitialRecords DEF Free
    <3> QED
      BY <1>o, <2>1, <2>2, <3>1, <3>2
  <2>4. CacheType'
    <3>1. last_fetch_at' \in Nat
      BY <1>4, <1>t, FinishEffect DEF CacheType, FetchType
    <3> QED
      BY <1>4, <3>1, FinishEffect DEF CacheType
  <2>5. reader' \in [Readers -> ReaderType]
    <3>1. ASSUME NEW r \in ReaderType, NEW w \in {"ended", "other"}
          PROVE  [r EXCEPT !.woken = w] \in ReaderType
      BY DEF ReaderType
    <3> QED
      BY <1>4, <3>1 DEF FinishFetch, Notify
  <2> QED
    BY <1>4, <2>3, <2>4, <2>5 DEF FinishFetch, SourceType, sourceVars
<1> QED
  BY <1>1, <1>2, <1>3, <1>4

\* Some fetch ends.
Finishing == \E f \in Fetches : FinishFetch(f)

\* Every step keeps the types.
LEMMA TypeStep ==
  TypeOK /\ (inflight > 0 \/ ~Finishing) /\ [Next]_vars => TypeOK'
<1> SUFFICES ASSUME TypeOK, inflight > 0 \/ ~Finishing, [Next]_vars
             PROVE  TypeOK'
  OBVIOUS
<1>1. CASE UNCHANGED vars
  BY <1>1 DEF vars, sourceVars, cacheVars, flightVars, TypeOK, SourceType, CacheType, FlightType
<1>2. ASSUME NEW f \in Fetches, Begin(f) \/ Parse(f) \/ Raise(f) \/ FinishFetch(f)
      PROVE  TypeOK'
  BY <1>2, TypeFetch DEF Finishing
<1> QED
  BY <1>1, <1>2, TypeSource, TypeReader DEF Next

-----------------------------------------------------------------------------
(* What steps do to the jobs, the ledger and the fetches.                  *)

\* Clocks and states go forward; a record goes from new to on with its first
\* state, and from there to done and gone.
LEMMA SourceMoves ==
  ASSUME TypeOK, TrackInv, [Next]_vars
  PROVE  /\ clock <= clock'
         /\ \A j \in Ids : truth[j] <= truth'[j]
         /\ \A j \in Ids :
              \/ track'[j] = track[j] /\ (track[j] = "new" => truth'[j] = truth[j])
              \/ track[j] = "new" /\ track'[j] = "on" /\ truth'[j] = 1
              \/ track[j] = "on" /\ track'[j] = "done"
              \/ track[j] \in {"on", "done"} /\ track'[j] = "gone"
         /\ \A j \in forgets' : j \in forgets \/ track'[j] = "gone"
<1> USE DEF TypeOK, SourceType
<1> DEFINE Goal ==
     /\ clock <= clock'
     /\ \A j \in Ids : truth[j] <= truth'[j]
     /\ \A j \in Ids :
          \/ track'[j] = track[j] /\ (track[j] = "new" => truth'[j] = truth[j])
          \/ track[j] = "new" /\ track'[j] = "on" /\ truth'[j] = 1
          \/ track[j] = "on" /\ track'[j] = "done"
          \/ track[j] \in {"on", "done"} /\ track'[j] = "gone"
     /\ \A j \in forgets' : j \in forgets \/ track'[j] = "gone"
<1>q. ASSUME UNCHANGED sourceVars, clock <= clock' PROVE Goal
  BY <1>q DEF sourceVars
<1>1. ASSUME NEW j \in Ids, Submitted(j) PROVE Goal
  BY <1>1 DEF Submitted, TrackInv
<1>2. ASSUME NEW j \in Ids, Change(j) PROVE Goal
  BY <1>2, StatusAssumption DEF Change, TrackInv
<1>3. ASSUME NEW j \in Ids, Settle(j) \/ DropId(j) \/ Forget(j) PROVE Goal
  BY <1>3 DEF Settle, DropId, Forget
<1> HIDE DEF Goal
<1>4. ASSUME NEW c \in Readers,
             \/ \E ids \in SUBSET Ids, fresh \in BOOLEAN : Call(c, ids, fresh)
             \/ Register(c) \/ CheckDone(c) \/ CheckWait(c) \/ CheckRefused(c)
             \/ Wake(c) \/ WaitTimeout(c) \/ Read(c) \/ Leave(c)
      PROVE  Goal
  <2>1. UNCHANGED sourceVars /\ (clock' = clock \/ clock' = clock + 1)
    BY <1>4 DEF Call, Register, CheckDone, CheckWait, CheckRefused, Wake, WaitTimeout, Read,
                Leave
  <2> QED
    BY <1>q, <2>1
<1>5. ASSUME NEW f \in Fetches, Begin(f) \/ Parse(f) \/ Raise(f) \/ FinishFetch(f)
      PROVE  Goal
  <2>1. UNCHANGED sourceVars /\ (clock' = clock \/ clock' = clock + 1)
    BY <1>5 DEF Begin, Parse, Raise, FinishFetch
  <2> QED
    BY <1>q, <2>1
<1>6. ASSUME Overdue \/ Shutdown \/ UNCHANGED vars PROVE Goal
  <2>1. UNCHANGED sourceVars /\ clock' = clock
    BY <1>6 DEF Overdue, Shutdown, vars
  <2> QED
    BY <1>q, <2>1
<1> QED
  BY <1>1, <1>2, <1>3, <1>4, <1>5, <1>6 DEF Next, Goal

\* Unless a fetch finishes, the ledger and the interest lose ids only once their
\* record is gone, and gain none but the interest of a reader that registers.
LEMMA CacheMoves ==
  ASSUME TypeOK, TrackInv, [Next]_vars, ~Finishing
  PROVE  /\ UNCHANGED <<floor, last_fetch_at>>
         /\ DOMAIN ledger' \subseteq DOMAIN ledger
         /\ \A j \in DOMAIN ledger' : ledger'[j] = ledger[j]
         /\ \A j \in DOMAIN ledger : track[j] # "gone" => j \in DOMAIN ledger'
         /\ \A j \in interest : track[j] # "gone" => j \in interest'
         /\ \A j \in interest' : \/ j \in interest
                                 \/ \E c \in Readers : Register(c) /\ j \in reader[c].ids
<1> DEFINE Goal ==
     /\ UNCHANGED <<floor, last_fetch_at>>
     /\ DOMAIN ledger' \subseteq DOMAIN ledger
     /\ \A j \in DOMAIN ledger' : ledger'[j] = ledger[j]
     /\ \A j \in DOMAIN ledger : track[j] # "gone" => j \in DOMAIN ledger'
     /\ \A j \in interest : track[j] # "gone" => j \in interest'
     /\ \A j \in interest' : \/ j \in interest
                             \/ \E c \in Readers : Register(c) /\ j \in reader[c].ids
<1>q. ASSUME UNCHANGED cacheVars PROVE Goal
  BY <1>q DEF cacheVars
<1>f. ASSUME NEW js, ForgetIds(js), \A j \in js : j \in Ids => track[j] = "gone",
             UNCHANGED <<floor, last_fetch_at>>
      PROVE  Goal
  <2>1. DOMAIN ledger \subseteq Ids /\ interest \subseteq Ids
    BY DEF TypeOK, CacheType
  <2> QED
    BY <1>f, <2>1 DEF ForgetIds
<1>1. ASSUME NEW j \in Ids, Forget(j) PROVE Goal
  <2>1. track[j] = "gone"
    BY <1>1 DEF Forget, TrackInv
  <2> QED
    BY <1>1, <1>f, <2>1 DEF Forget
<1>2. ASSUME NEW c \in Readers, Register(c) PROVE Goal
  BY <1>2 DEF Register
<1>3. ASSUME NEW c \in Readers, Leave(c) PROVE Goal
  <2> DEFINE js == {j \in Finished(c) : track[j] = "gone"}
  <2>1. ForgetIds(js) /\ UNCHANGED <<floor, last_fetch_at>>
    BY <1>3 DEF Leave
  <2>2. \A j \in js : track[j] = "gone"
    OBVIOUS
  <2> HIDE DEF js
  <2> QED
    BY <1>f, <2>1, <2>2
<1> HIDE DEF Goal
<1>4. ASSUME NEW j \in Ids, Submitted(j) \/ Change(j) \/ Settle(j) \/ DropId(j) PROVE Goal
  BY <1>4, <1>q DEF Submitted, Change, Settle, DropId
<1>5. ASSUME NEW c \in Readers,
             \/ \E ids \in SUBSET Ids, fresh \in BOOLEAN : Call(c, ids, fresh)
             \/ CheckDone(c) \/ CheckWait(c) \/ CheckRefused(c)
             \/ Wake(c) \/ WaitTimeout(c) \/ Read(c)
      PROVE  Goal
  BY <1>5, <1>q DEF Call, CheckDone, CheckWait, CheckRefused, Wake, WaitTimeout, Read
<1>6. ASSUME NEW f \in Fetches, Begin(f) \/ Parse(f) \/ Raise(f) PROVE Goal
  BY <1>6, <1>q DEF Begin, Parse, Raise
<1>7. ASSUME Overdue \/ Shutdown \/ UNCHANGED vars PROVE Goal
  <2>1. UNCHANGED cacheVars
    BY <1>7 DEF Overdue, Shutdown, vars
  <2> QED
    BY <1>q, <2>1
<1> QED
  BY <1>1, <1>2, <1>3, <1>4, <1>5, <1>6, <1>7 DEF Next, Goal, Finishing

\* A fetch that goes on keeps its time and what it saw.
FetchKept(f) ==
  f \in Begun /\ fetch'[f].at = fetch[f].at /\ fetch'[f].base = fetch[f].base

\* A fetch that has begun is kept, and gets its answer by Parse only; one begins
\* with the next reading of the clock, and sees the jobs as they are.
LEMMA FetchMoves ==
  ASSUME TypeOK, [Next]_vars, NEW f \in Begun'
  PROVE  \/ /\ FetchKept(f)
            /\ \/ Parse(f)
               \/ (f \in Parsed' => f \in Parsed) /\ fetch'[f].data = fetch[f].data
         \/ /\ Begin(f) /\ f \notin Parsed' /\ f \notin Begun
            /\ clock' = clock + 1 /\ fetch'[f].at = clock' /\ fetch'[f].base = truth
            /\ \A g \in Fetches \ {f} : fetch'[g] = fetch[g]
<1> DEFINE Goal ==
     \/ /\ FetchKept(f)
        /\ \/ Parse(f)
           \/ (f \in Parsed' => f \in Parsed) /\ fetch'[f].data = fetch[f].data
     \/ /\ Begin(f) /\ f \notin Parsed' /\ f \notin Begun
        /\ clock' = clock + 1 /\ fetch'[f].at = clock' /\ fetch'[f].base = truth
        /\ \A g \in Fetches \ {f} : fetch'[g] = fetch[g]
<1>t. f \in Fetches /\ fetch \in [Fetches -> FetchType]
  BY DEF Begun, TypeOK, FlightType
<1>q. ASSUME fetch'[f] = fetch[f] PROVE Goal
  BY <1>q, <1>t DEF FetchKept, Begun, Parsed
<1>1. ASSUME NEW g \in Fetches, Begin(g) PROVE Goal
  <2>1. CASE g = f
    <3>1. /\ fetch'[f] = [fetch[f] EXCEPT !.pc = "call", !.at = clock + 1, !.base = truth]
          /\ fetch[f].pc = "new" /\ clock' = clock + 1
          /\ \A h \in Fetches \ {f} : fetch'[h] = fetch[h]
      BY <1>1, <1>t, <2>1 DEF Begin
    <3>2. fetch'[f].at = clock' /\ fetch'[f].base = truth /\ fetch'[f].pc = "call"
      BY <1>t, <3>1 DEF FetchType
    <3> QED
      BY <1>1, <1>t, <2>1, <3>1, <3>2 DEF Begun, Parsed
  <2>2. CASE g # f
    BY <1>1, <1>t, <1>q, <2>2 DEF Begin
  <2> QED
    BY <2>1, <2>2
<1>2. ASSUME NEW g \in Fetches, Parse(g) PROVE Goal
  <2>1. CASE g = f
    <3>1. PICK data : fetch'[f] = [fetch[f] EXCEPT !.pc = "parsed", !.data = data]
      BY <1>2, <1>t, <2>1 DEF Parse
    <3>2. fetch'[f].at = fetch[f].at /\ fetch'[f].base = fetch[f].base /\ fetch[f].pc = "call"
      BY <1>2, <1>t, <2>1, <3>1 DEF FetchType, Parse
    <3> QED
      BY <1>2, <1>t, <2>1, <3>2 DEF FetchKept, Begun
  <2>2. CASE g # f
    <3>1. fetch'[f] = fetch[f]
      BY <1>2, <1>t, <2>2 DEF Parse
    <3> QED
      BY <1>q, <3>1
  <2> QED
    BY <2>1, <2>2
<1>3. ASSUME NEW g \in Fetches, Raise(g) PROVE Goal
  <2>1. CASE g = f
    <3>1. /\ fetch[f].pc = "call"
          /\ \/ fetch'[f] = [fetch[f] EXCEPT !.via = "failover"]
             \/ fetch'[f] = [fetch[f] EXCEPT !.pc = "failed"]
      BY <1>3, <1>t, <2>1 DEF Raise
    <3>2. /\ fetch'[f].at = fetch[f].at /\ fetch'[f].base = fetch[f].base
          /\ fetch'[f].data = fetch[f].data /\ fetch'[f].pc # "parsed"
      BY <1>t, <3>1 DEF FetchType
    <3> QED
      BY <1>t, <3>1, <3>2 DEF FetchKept, Begun, Parsed
  <2>2. CASE g # f
    BY <1>3, <1>t, <1>q, <2>2 DEF Raise
  <2> QED
    BY <2>1, <2>2
<1>4. ASSUME NEW g \in Fetches, FinishFetch(g) PROVE Goal
  <2>1. fetch' = [fetch EXCEPT ![g] = Free]
    BY <1>4 DEF FinishFetch
  <2>2. g # f
    BY <1>t, <2>1 DEF Begun, Free
  <2> QED
    BY <1>t, <1>q, <2>1, <2>2
<1>5. ASSUME NEW c \in Readers, CheckWait(c) PROVE Goal
  <2>1. CASE ~CanStart
    BY <1>5, <1>q, <2>1 DEF CheckWait, flightVars
  <2>2. ASSUME NEW g \in Fetches, StartFetch(g) PROVE Goal
    <3>1. fetch'[g].pc = "new" /\ \A h \in Fetches \ {g} : fetch'[h] = fetch[h]
      BY <2>2, StartType DEF TypeOK
    <3>2. g # f
      BY <3>1 DEF Begun
    <3> QED
      BY <1>q, <1>t, <3>1, <3>2
  <2> QED
    BY <1>5, <2>1, <2>2 DEF CheckWait
<1>6. ASSUME UNCHANGED fetch PROVE Goal
  BY <1>6, <1>q
<1> HIDE DEF Goal
<1>7. ASSUME NEW j \in Ids, Submitted(j) \/ Change(j) \/ Settle(j) \/ DropId(j) \/ Forget(j)
      PROVE  UNCHANGED fetch
  BY <1>7 DEF Submitted, Change, Settle, DropId, Forget, flightVars
<1>8. ASSUME NEW c \in Readers,
             \/ \E ids \in SUBSET Ids, fresh \in BOOLEAN : Call(c, ids, fresh)
             \/ Register(c) \/ CheckDone(c) \/ CheckRefused(c)
             \/ Wake(c) \/ WaitTimeout(c) \/ Read(c) \/ Leave(c)
      PROVE  UNCHANGED fetch
  BY <1>8 DEF Call, Register, CheckDone, CheckRefused, Wake, WaitTimeout, Read, Leave, flightVars
<1>9. ASSUME Overdue \/ Shutdown \/ UNCHANGED vars PROVE Goal
  BY <1>6, <1>9 DEF Overdue, Shutdown, vars, flightVars
<1> QED
  BY <1>1, <1>2, <1>3, <1>4, <1>5, <1>6, <1>7, <1>8, <1>9 DEF Next, Goal

-----------------------------------------------------------------------------
(* The count of fetches.                                                   *)

\* The fetches that are under way.
Busy == {f \in Fetches : fetch[f].pc # "free"}

\* There are finitely many.
LEMMA BusyFinite == IsFiniteSet(Busy)
BY FS_Subset, StatusAssumption DEF Busy

\* One that finishes is counted.
LEMMA FinishCounted == TypeOK /\ CountInv /\ Finishing => inflight > 0
<1> SUFFICES ASSUME TypeOK, CountInv, NEW f \in Fetches, FinishFetch(f) PROVE inflight > 0
  BY DEF Finishing
<1>1. f \in Busy
  BY DEF FinishFetch, Busy
<1>2. Cardinality(Busy) \in Nat /\ Cardinality(Busy) # 0
  BY <1>1, BusyFinite, FS_CardinalityType, FS_EmptySet
<1> QED
  BY <1>2 DEF CountInv, Busy

\* CanStart leaves room for the fetch that is started; a fetch that finishes is
\* counted out, superseded or not.
LEMMA CountStep == TypeOK /\ CountInv /\ [Next]_vars => CountInv'
<1> SUFFICES ASSUME TypeOK, CountInv, [Next]_vars PROVE CountInv'
  OBVIOUS
<1> DEFINE Goal == CountInv'
<1>t. fetch \in [Fetches -> FetchType] /\ inflight \in Nat /\ current \subseteq Fetches
  BY DEF TypeOK, FlightType
<1>b. IsFiniteSet(Busy) /\ inflight = Cardinality(Busy)
  BY BusyFinite DEF CountInv, Busy
<1>q. ASSUME UNCHANGED <<inflight, current>>,
             \A g \in Fetches : fetch'[g].pc = "free" <=> fetch[g].pc = "free"
      PROVE  Goal
  BY <1>q, <1>t DEF CountInv
<1>1. ASSUME NEW f \in Fetches, StartFetch(f), CanStart PROVE Goal
  <2>1. /\ fetch[f].pc = "free" /\ fetch'[f].pc = "new"
        /\ \A g \in Fetches \ {f} : fetch'[g] = fetch[g]
    BY <1>1, StartType DEF TypeOK
  <2>2. Busy' = Busy \cup {f} /\ f \notin Busy
    BY <2>1 DEF Busy
  <2>3. Cardinality(Busy') = Cardinality(Busy) + 1
    BY <1>b, <2>2, FS_AddElement
  <2>4. inflight' = inflight + 1 /\ current' = {f}
    BY <1>1 DEF StartFetch
  <2>5. inflight < MAX_INFLIGHT
    BY <1>1 DEF CanStart, CountInv
  <2>6. inflight' = Cardinality(Busy)' /\ inflight' <= MAX_INFLIGHT
    BY <1>b, <1>t, <2>3, <2>4, <2>5, StatusAssumption
  <2> QED
    BY <2>1, <2>4, <2>6 DEF CountInv, Busy
<1>2. ASSUME NEW f \in Fetches, FinishFetch(f) PROVE Goal
  <2>1. /\ fetch' = [fetch EXCEPT ![f] = Free] /\ fetch[f].pc # "free"
        /\ inflight' = inflight - 1
        /\ current' = current \/ current' = {}
        /\ f \in current <=> current' = {} /\ current # {}
    BY <1>2 DEF FinishFetch
  <2>2. fetch'[f].pc = "free" /\ \A g \in Fetches \ {f} : fetch'[g] = fetch[g]
    BY <1>t, <2>1 DEF Free
  <2>3. Busy' = Busy \ {f} /\ f \in Busy
    BY <2>1, <2>2 DEF Busy
  <2>4. Cardinality(Busy') = Cardinality(Busy) - 1
    BY <1>b, <2>3, FS_RemoveElement
  <2>5. inflight' = Cardinality(Busy)'
    BY <1>b, <2>1, <2>4
  <2>6. inflight' < MAX_INFLIGHT
    BY <1>t, <2>1, StatusAssumption DEF CountInv
  <2>7. \A g \in current' : g # f /\ g \in current
    BY <2>1
  <2> QED
    BY <1>t, <2>2, <2>5, <2>6, <2>7, StatusAssumption DEF CountInv, Busy
<1>3. ASSUME NEW f \in Fetches, Begin(f) \/ Parse(f) \/ Raise(f) PROVE Goal
  <2>1. /\ UNCHANGED <<inflight, current>> /\ fetch[f].pc \in {"new", "call"}
        /\ \A g \in Fetches \ {f} : fetch'[g] = fetch[g]
    BY <1>3, <1>t DEF Begin, Parse, Raise
  <2>2. fetch'[f].pc # "free"
    <3>1. CASE Begin(f)
      BY <1>t, <3>1 DEF Begin, FetchType
    <3>2. CASE Parse(f)
      BY <1>t, <3>2 DEF Parse, FetchType
    <3>3. CASE Raise(f)
      BY <1>t, <3>3 DEF Raise, FetchType
    <3> QED
      BY <1>3, <3>1, <3>2, <3>3
  <2> QED
    BY <1>q, <2>1, <2>2
<1> HIDE DEF Goal
<1>4. ASSUME NEW c \in Readers, CheckWait(c) PROVE Goal
  <2>1. ASSUME ~CanStart PROVE Goal
    <3>1. UNCHANGED <<inflight, current, fetch>>
      BY <1>4, <2>1 DEF CheckWait, flightVars
    <3> QED
      BY <1>q, <3>1
  <2> QED
    BY <1>1, <1>4, <2>1 DEF CheckWait
<1>5. ASSUME UNCHANGED <<inflight, current, fetch>> PROVE Goal
  BY <1>q, <1>5
<1>6. ASSUME NEW j \in Ids, Submitted(j) \/ Change(j) \/ Settle(j) \/ DropId(j) \/ Forget(j)
      PROVE  Goal
  BY <1>5, <1>6 DEF Submitted, Change, Settle, DropId, Forget, flightVars
<1>7. ASSUME NEW c \in Readers,
             \/ \E ids \in SUBSET Ids, fresh \in BOOLEAN : Call(c, ids, fresh)
             \/ Register(c) \/ CheckDone(c) \/ CheckRefused(c)
             \/ Wake(c) \/ WaitTimeout(c) \/ Read(c) \/ Leave(c)
      PROVE  Goal
  <2>1. UNCHANGED <<inflight, current, fetch>>
    BY <1>7 DEF Call, Register, CheckDone, CheckRefused, Wake, WaitTimeout, Read, Leave,
                flightVars
  <2> QED
    BY <1>5, <2>1
<1>8. ASSUME Overdue \/ Shutdown \/ UNCHANGED vars PROVE Goal
  BY <1>5, <1>8 DEF Overdue, Shutdown, vars, flightVars
<1> QED
  BY <1>2, <1>3, <1>4, <1>6, <1>7, <1>8 DEF Next, Goal

-----------------------------------------------------------------------------
(* The ledger.                                                             *)

\* Records keep their order, and only what has a record is of interest.
LEMMA TrackStep ==
  TypeOK /\ TypeOK' /\ TrackInv /\ ReaderInv /\ [Next]_vars => TrackInv'
<1> SUFFICES ASSUME TypeOK, TypeOK', TrackInv, ReaderInv, [Next]_vars, NEW j \in Ids
             PROVE  /\ track'[j] = "new" => truth'[j] = 0 /\ j \notin interest'
                    /\ track'[j] # "new" => truth'[j] > 0
                    /\ j \in forgets' => track'[j] = "gone"
  BY DEF TrackInv
<1>t. truth[j] \in Nat /\ truth'[j] \in Nat
  BY DEF TypeOK, SourceType
<1>1. /\ truth[j] <= truth'[j]
      /\ \/ track'[j] = track[j] /\ (track[j] = "new" => truth'[j] = truth[j])
         \/ track[j] = "new" /\ track'[j] = "on" /\ truth'[j] = 1
         \/ track[j] = "on" /\ track'[j] = "done"
         \/ track[j] \in {"on", "done"} /\ track'[j] = "gone"
      /\ j \in forgets' => j \in forgets \/ track'[j] = "gone"
  BY SourceMoves
<1>2. track[j] = "new" => j \notin interest'
  <2>1. CASE Finishing
    BY <2>1, FinishEffect DEF Finishing, TrackInv
  <2>2. CASE ~Finishing
    <3>1. ASSUME NEW c \in Readers, Register(c), j \in reader[c].ids PROVE track[j] # "new"
      BY <3>1 DEF ReaderInv, ReaderOK, Register
    <3> QED
      BY <2>2, <3>1, CacheMoves DEF TrackInv
  <2> QED
    BY <2>1, <2>2
<1> QED
  BY <1>1, <1>2, <1>t DEF TrackInv

\* Nothing that has begun or been merged is ahead of the clock or of the jobs.
LEMMA ClockStep ==
  TypeOK /\ TypeOK' /\ TrackInv /\ ClockInv /\ [Next]_vars => ClockInv'
<1> SUFFICES ASSUME TypeOK, TypeOK', TrackInv, ClockInv, [Next]_vars PROVE ClockInv'
  OBVIOUS
<1>t. /\ clock \in Nat /\ clock' \in Nat /\ last_fetch_at \in Nat
      /\ clock <= clock' /\ \A j \in Ids : truth[j] <= truth'[j]
  BY SourceMoves DEF TypeOK, CacheType
<1>n. /\ \A j \in Ids : truth[j] \in Nat /\ truth'[j] \in Nat
      /\ \A j \in Ids : floor[j] \in Nat /\ floor'[j] \in Nat
  BY DEF TypeOK, SourceType, CacheType
<1>d. DOMAIN ledger \subseteq Ids /\ DOMAIN ledger' \subseteq Ids
  BY DEF TypeOK, CacheType
<1>a. /\ \A j \in DOMAIN ledger : ledger[j].at \in Nat
      /\ \A f \in Begun : fetch[f].at \in Nat /\ fetch[f].base \in [Ids -> Nat]
      /\ \A f \in Parsed : f \in Begun
  BY DEF TypeOK, CacheType, FlightType, FetchType, Answer, Begun, Parsed
<1>1. /\ last_fetch_at' <= clock'
      /\ \A j \in DOMAIN ledger' : ledger'[j].at <= clock'
      /\ \A j \in Ids : floor'[j] <= truth'[j]
  <2>1. CASE ~Finishing
    BY <1>t, <1>n, <1>a, <2>1, CacheMoves DEF ClockInv
  <2>2. ASSUME NEW f \in Fetches, FinishFetch(f)
        PROVE  /\ last_fetch_at' <= clock'
               /\ \A j \in DOMAIN ledger' : ledger'[j].at <= clock'
               /\ \A j \in Ids : floor'[j] <= truth'[j]
    <3>1. f \in Begun
      BY <2>2, FinishEffect
    <3>2. fetch[f].at <= clock /\ \A j \in Ids : fetch[f].base[j] <= truth[j]
      BY <3>1 DEF ClockInv
    <3>3. last_fetch_at' \in {last_fetch_at, fetch[f].at}
      BY <2>2, FinishEffect
    <3>4. ASSUME NEW j \in DOMAIN ledger'
          PROVE  \/ ledger'[j].at = fetch[f].at
                 \/ j \in DOMAIN ledger /\ ledger'[j] = ledger[j]
      <4>1. /\ Taken(f, j) => ledger'[j] = [at |-> fetch[f].at, val |-> fetch[f].data[j]]
            /\ ~Taken(f, j) => j \in DOMAIN ledger /\ ledger'[j] = ledger[j]
        BY <2>2, FinishEffect
      <4> QED
        BY <4>1
    <3>5. \A j \in Ids : floor'[j] \in {floor[j], fetch[f].base[j]}
      BY <2>2, FinishEffect
    <3>6. last_fetch_at' <= clock'
      BY <1>t, <1>a, <3>1, <3>2, <3>3 DEF ClockInv
    <3>7. \A j \in DOMAIN ledger' : ledger'[j].at <= clock'
      BY <1>t, <1>a, <3>1, <3>2, <3>4 DEF ClockInv
    <3>8. \A j \in Ids : floor'[j] <= truth'[j]
      BY <1>t, <1>a, <1>n, <3>1, <3>2, <3>5 DEF ClockInv
    <3> QED
      BY <3>6, <3>7, <3>8
  <2> QED
    BY <2>1, <2>2 DEF Finishing
<1>2. ASSUME NEW f \in Begun'
      PROVE  /\ fetch'[f].at <= clock'
             /\ \A j \in Ids : fetch'[f].base[j] <= truth'[j]
  <2>1. CASE FetchKept(f)
    BY <1>t, <1>n, <1>a, <2>1 DEF FetchKept, ClockInv
  <2>2. CASE ~FetchKept(f)
    BY <1>t, <1>n, <2>2, FetchMoves
  <2> QED
    BY <2>1, <2>2
<1>3. ASSUME NEW f \in Parsed', NEW j \in DOMAIN fetch'[f].data
      PROVE  fetch'[f].data[j] >= fetch'[f].base[j]
  <2>1. f \in Begun'
    BY DEF Parsed, Begun
  <2>2. CASE Parse(f)
    <3>1. PICK got \in [Ids -> 0..MaxTruth] :
            /\ \A i \in Ids : fetch[f].base[i] <= got[i]
            /\ fetch' = [fetch EXCEPT ![f] = [@ EXCEPT !.pc = "parsed",
                 !.data = [i \in {x \in interest : got[x] > 0} |-> got[i]]]]
      BY <2>2 DEF Parse
    <3>2. fetch \in [Fetches -> FetchType] /\ f \in Fetches /\ interest \subseteq Ids
      BY DEF Parsed, TypeOK, FlightType, CacheType
    <3>3. /\ fetch'[f].data = [i \in {x \in interest : got[x] > 0} |-> got[i]]
          /\ fetch'[f].base = fetch[f].base
      BY <3>1, <3>2 DEF FetchType
    <3>4. fetch'[f].data[j] = got[j] /\ j \in Ids
      BY <3>2, <3>3
    <3>5. fetch[f].base[j] \in Nat /\ got[j] \in Nat
      BY <1>a, <2>2, <3>2, <3>4, StatusAssumption DEF Parse, Begun
    <3> QED
      BY <3>1, <3>3, <3>4, <3>5
  <2>3. CASE ~Parse(f)
    BY <2>1, <2>3, FetchMoves DEF FetchKept, ClockInv
  <2> QED
    BY <2>2, <2>3
<1>4. ASSUME NEW f \in Begun', NEW g \in Begun', fetch'[f].at <= fetch'[g].at, NEW j \in Ids
      PROVE  fetch'[f].base[j] <= fetch'[g].base[j]
  <2>1. CASE f = g
    BY <2>1 DEF TypeOK, FlightType, Begun
  <2>2. CASE FetchKept(f) /\ FetchKept(g)
    BY <1>4, <2>2 DEF FetchKept, ClockInv
  <2>3. CASE f # g /\ ~FetchKept(f)
    <3>1. fetch'[f].at = clock + 1 /\ FetchKept(g)
      BY <2>3, FetchMoves DEF Begun, FetchKept
    <3>2. fetch'[g].at <= clock /\ fetch'[g].at \in Nat
      BY <1>a, <3>1 DEF FetchKept, ClockInv
    <3> QED
      BY <1>4, <1>t, <3>1, <3>2
  <2>4. CASE f # g /\ FetchKept(f) /\ ~FetchKept(g)
    BY <2>4, FetchMoves DEF FetchKept, ClockInv
  <2> QED
    BY <2>1, <2>2, <2>3, <2>4
<1> QED
  BY <1>1, <1>2, <1>3, <1>4 DEF ClockInv

\* A late answer neither lowers what the ledger has below the floor nor raises
\* the floor above what the ledger has.
LEMMA FloorStep ==
  TypeOK /\ TypeOK' /\ TrackInv /\ ClockInv /\ FloorInv /\ [Next]_vars => FloorInv'
<1> SUFFICES ASSUME TypeOK, TypeOK', TrackInv, ClockInv, FloorInv, [Next]_vars,
                    NEW j \in Ids, track'[j] = "on"
             PROVE  /\ j \notin DOMAIN ledger' => floor'[j] = 0
                    /\ j \in DOMAIN ledger' =>
                         /\ ledger'[j].val >= floor'[j]
                         /\ \A f \in Begun' :
                              IF fetch'[f].at >= ledger'[j].at
                              THEN fetch'[f].base[j] >= floor'[j]
                              ELSE fetch'[f].base[j] <= floor'[j]
  BY DEF FloorInv
<1>t. /\ clock \in Nat /\ truth[j] \in Nat /\ floor[j] \in Nat /\ floor'[j] \in Nat
      /\ DOMAIN ledger \subseteq interest
      /\ \A f \in Begun : fetch[f].at \in Nat /\ fetch[f].base \in [Ids -> Nat]
      /\ \A i \in DOMAIN ledger : ledger[i].at \in Nat /\ ledger[i].val \in Nat
  BY DEF TypeOK, SourceType, CacheType, FlightType, FetchType, Answer, Begun
<1>1. track[j] \in {"new", "on"}
  BY SourceMoves
<1>2. CASE ~Finishing
  <2>1. /\ floor'[j] = floor[j]
        /\ j \in DOMAIN ledger' <=> j \in DOMAIN ledger
        /\ j \in DOMAIN ledger' => ledger'[j] = ledger[j]
    BY <1>1, <1>2, CacheMoves
  <2>2. CASE track[j] = "new"
    BY <1>t, <2>1, <2>2 DEF TrackInv, ClockInv
  <2>3. CASE track[j] = "on"
    <3>1. ASSUME j \in DOMAIN ledger, NEW f \in Begun'
          PROVE  IF fetch'[f].at >= ledger[j].at THEN fetch'[f].base[j] >= floor[j]
                 ELSE fetch'[f].base[j] <= floor[j]
      <4>1. CASE FetchKept(f)
        BY <2>3, <3>1, <4>1 DEF FetchKept, FloorInv
      <4>2. CASE ~FetchKept(f)
        <5>1. fetch'[f].at = clock + 1 /\ fetch'[f].base = truth
          BY <4>2, FetchMoves
        <5>2. ledger[j].at <= clock /\ floor[j] <= truth[j]
          BY <3>1 DEF ClockInv
        <5> QED
          BY <1>t, <3>1, <5>1, <5>2
      <4> QED
        BY <4>1, <4>2
    <3> QED
      BY <2>1, <2>3, <3>1 DEF FloorInv
  <2> QED
    BY <1>1, <2>2, <2>3
<1>3. ASSUME NEW f \in Fetches, FinishFetch(f)
      PROVE  /\ j \notin DOMAIN ledger' => floor'[j] = 0
             /\ j \in DOMAIN ledger' =>
                  /\ ledger'[j].val >= floor'[j]
                  /\ \A g \in Begun' :
                       IF fetch'[g].at >= ledger'[j].at
                       THEN fetch'[g].base[j] >= floor'[j]
                       ELSE fetch'[g].base[j] <= floor'[j]
  <2>1. /\ f \in Begun /\ track[j] = "on" /\ track' = track
        /\ j \in Answers(f) => j \in DOMAIN fetch[f].data
    BY <1>3, FinishEffect DEF FinishFetch, sourceVars, Answers
  <2>2. ASSUME NEW g \in Begun'
        PROVE  g \in Begun /\ fetch'[g].at = fetch[g].at /\ fetch'[g].base = fetch[g].base
    <3>1. ~Begin(g)
      BY <1>3, <1>t DEF FinishFetch, Begin
    <3> QED
      BY <3>1, FetchMoves DEF FetchKept
  <2>3. \A g, h \in Begun :
          fetch[g].at <= fetch[h].at => fetch[g].base[j] <= fetch[h].base[j]
    BY DEF ClockInv
  <2>4. IF f \in Parsed /\ j \in Answers(f) /\ fetch[f].base[j] > floor[j]
        THEN floor'[j] = fetch[f].base[j] ELSE floor'[j] = floor[j]
    BY <1>3, FinishEffect
  <2>5. j \in DOMAIN ledger' <=> j \in DOMAIN ledger \/ Taken(f, j)
    BY <1>3, <2>1, FinishEffect
  <2>6. j \in DOMAIN ledger' =>
          ledger'[j] = IF Taken(f, j) THEN [at |-> fetch[f].at, val |-> fetch[f].data[j]]
                       ELSE ledger[j]
    BY <1>3, FinishEffect
  <2>7. CASE Taken(f, j)
    <3>1. /\ f \in Parsed /\ j \in Answers(f) /\ j \in DOMAIN ledger'
          /\ ledger'[j].at = fetch[f].at /\ ledger'[j].val = fetch[f].data[j]
          /\ j \in DOMAIN ledger => ledger[j].at <= fetch[f].at
      BY <2>5, <2>6, <2>7 DEF Taken
    <3>2. fetch[f].base[j] >= floor[j]
      BY <1>t, <2>1, <3>1 DEF FloorInv
    <3>3. floor'[j] = fetch[f].base[j]
      BY <1>t, <2>1, <2>4, <3>1, <3>2
    <3>4. ledger'[j].val >= floor'[j]
      BY <2>1, <3>1, <3>3 DEF ClockInv
    <3>5. \A g \in Begun' : IF fetch'[g].at >= ledger'[j].at
                            THEN fetch'[g].base[j] >= floor'[j]
                            ELSE fetch'[g].base[j] <= floor'[j]
      BY <1>t, <2>1, <2>2, <2>3, <3>1, <3>3
    <3> QED
      BY <3>1, <3>4, <3>5
  <2>8. CASE ~Taken(f, j)
    <3>1. (j \in DOMAIN ledger' <=> j \in DOMAIN ledger)
          /\ (j \in DOMAIN ledger' => ledger'[j] = ledger[j])
      BY <2>5, <2>6, <2>8
    <3>2. floor'[j] = floor[j]
      BY <1>t, <2>1, <2>4, <2>8 DEF Taken, FloorInv
    <3> QED
      BY <2>1, <2>2, <3>1, <3>2 DEF FloorInv
  <2> QED
    BY <2>7, <2>8
<1> QED
  BY <1>2, <1>3 DEF Finishing

-----------------------------------------------------------------------------
(* The readers.                                                            *)

\* No floor is lowered, and no id of a job on LSF leaves the ledger or the
\* interest.
LEMMA LedgerKept ==
  ASSUME TypeOK, TypeOK', TrackInv, [Next]_vars
  PROVE  /\ \A j \in Ids : floor[j] <= floor'[j]
         /\ \A j \in DOMAIN ledger : track[j] = "on" => j \in DOMAIN ledger'
         /\ \A j \in interest : track[j] = "on" => j \in interest'
<1>t. /\ DOMAIN ledger \subseteq Ids /\ \A j \in Ids : floor[j] \in Nat /\ floor'[j] \in Nat
      /\ \A f \in Begun : fetch[f].base \in [Ids -> Nat]
  BY DEF TypeOK, CacheType, FlightType, Begun
<1>1. CASE ~Finishing
  BY <1>1, <1>t, CacheMoves
<1>2. ASSUME NEW f \in Fetches, FinishFetch(f)
      PROVE  /\ \A j \in Ids : floor[j] <= floor'[j]
             /\ \A j \in DOMAIN ledger : track[j] = "on" => j \in DOMAIN ledger'
             /\ \A j \in interest : track[j] = "on" => j \in interest'
  <2>1. /\ f \in Begun
        /\ \A j \in Ids :
              IF f \in Parsed /\ j \in Answers(f) /\ fetch[f].base[j] > floor[j]
              THEN floor'[j] = fetch[f].base[j] ELSE floor'[j] = floor[j]
    BY <1>2, FinishEffect
  <2>2. \A j \in Ids : floor[j] <= floor'[j]
    BY <1>t, <2>1
  <2>3. \A j \in DOMAIN ledger : track[j] = "on" => j \in DOMAIN ledger'
    BY <1>2, <1>t, FinishEffect
  <2>4. \A j \in interest : track[j] = "on" => j \in interest'
    BY <1>2, FinishEffect
  <2> QED
    BY <2>2, <2>3, <2>4
<1> QED
  BY <1>1, <1>2 DEF Finishing

\* The reader has made no progress but to begin or end a wait.
Alike(c) ==
  /\ \/ reader'[c].pc = reader[c].pc
     \/ {reader'[c].pc, reader[c].pc} \subseteq {"check", "wait"}
  /\ reader'[c].ids = reader[c].ids /\ reader'[c].fresh = reader[c].fresh
  /\ reader'[c].min = reader[c].min /\ reader'[c].base = reader[c].base
  /\ reader'[c].ok = reader[c].ok /\ reader'[c].rows = reader[c].rows

\* Such a reader is served no worse by what the others do.
LEMMA AlikeOK ==
  ASSUME TypeOK, TypeOK', TrackInv, ClockInv, ReaderInv, [Next]_vars,
         NEW c \in Readers, Alike(c)
  PROVE  ReaderOK(c)'
<1>t. /\ reader[c].ids \subseteq Ids /\ reader[c].min \in Nat /\ clock \in Nat /\ clock' \in Nat
      /\ clock <= clock' /\ last_fetch_at \in Nat
      /\ reader[c].fresh \in BOOLEAN /\ reader[c].ok \in BOOLEAN
      /\ \A f \in Begun : fetch[f].base \in [Ids -> Nat] /\ fetch[f].at \in Nat
      /\ \A j \in Ids : /\ truth[j] \in Nat /\ truth'[j] \in Nat /\ truth[j] <= truth'[j]
                        /\ floor[j] \in Nat /\ floor'[j] \in Nat
  BY SourceMoves DEF TypeOK, SourceType, CacheType, FlightType, FetchType, ReaderType, Begun
<1>o. ReaderOK(c)
  BY DEF ReaderInv
<1>a. /\ reader'[c].ids = reader[c].ids /\ reader'[c].fresh = reader[c].fresh
      /\ reader'[c].min = reader[c].min /\ reader'[c].base = reader[c].base
      /\ reader'[c].ok = reader[c].ok /\ reader'[c].rows = reader[c].rows
      /\ reader'[c].pc \in {"check", "wait"} <=> reader[c].pc \in {"check", "wait"}
      /\ reader'[c].pc \notin {"check", "wait"} => reader'[c].pc = reader[c].pc
  BY DEF Alike
<1>1. ASSUME reader[c].pc # "idle", NEW j \in reader[c].ids
      PROVE  track'[j] # "new" /\ (track'[j] = "on" => track[j] = "on")
  BY <1>1, <1>o, <1>t, SourceMoves DEF ReaderOK
<1>2. ASSUME reader[c].pc \in Asked
      PROVE  /\ reader[c].base \in [Ids -> Nat]
             /\ \A j \in reader[c].ids :
                  /\ 0 < reader[c].base[j] /\ reader[c].base[j] <= truth[j]
                  /\ reader[c].base[j] <= truth'[j]
                  /\ track'[j] = "on" => j \in interest /\ j \in interest'
  BY <1>2, <1>o, <1>t, <1>1, LedgerKept DEF ReaderOK, Asked
<1>3. ASSUME reader[c].pc \in Asked, Held(c) PROVE Held(c)'
  <2>1. ASSUME NEW j \in reader[c].ids, track'[j] = "on"
        PROVE  j \in DOMAIN ledger' /\ floor'[j] >= reader[c].base[j]
    <3>1. j \in DOMAIN ledger /\ track[j] = "on" /\ floor[j] >= reader[c].base[j]
      BY <1>1, <1>3, <2>1 DEF Held, Asked
    <3>2. reader[c].base[j] \in Nat /\ j \in Ids
      BY <1>2, <1>3, <1>t
    <3> QED
      BY <1>t, <3>1, <3>2, LedgerKept
  <2> QED
    BY <1>a, <2>1 DEF Held
<1>4. ASSUME reader[c].pc \in {"check", "wait"}, reader[c].fresh
      PROVE  Answering(c)'
  <2>1. Answering(c) /\ reader[c].pc \in Asked
    BY <1>4, <1>o DEF ReaderOK, Asked
  <2>2. ASSUME NEW f \in Begun', fetch'[f].at >= reader[c].min
        PROVE  /\ \A j \in reader[c].ids : fetch'[f].base[j] >= reader[c].base[j]
               /\ f \in Parsed' =>
                    \A j \in reader[c].ids : track'[j] = "on" => j \in DOMAIN fetch'[f].data
    <3>1. CASE FetchKept(f)
      <4>1. \A j \in reader[c].ids : fetch[f].base[j] >= reader[c].base[j]
        BY <2>1, <2>2, <3>1 DEF Answering, FetchKept
      <4>2. ASSUME Parse(f), NEW j \in reader[c].ids, track'[j] = "on"
            PROVE  j \in DOMAIN fetch'[f].data
        <5>1. PICK got \in [Ids -> 0..MaxTruth] :
                /\ \A i \in Ids : fetch[f].base[i] <= got[i]
                /\ fetch' = [fetch EXCEPT ![f] = [@ EXCEPT !.pc = "parsed",
                     !.data = [i \in {x \in interest : got[x] > 0} |-> got[i]]]]
          BY <4>2 DEF Parse
        <5>2. fetch \in [Fetches -> FetchType] /\ f \in Fetches
          BY <2>2 DEF TypeOK, FlightType, Begun
        <5>3. DOMAIN fetch'[f].data = {x \in interest : got[x] > 0}
          BY <5>1, <5>2 DEF FetchType
        <5>4. j \in interest /\ 0 < reader[c].base[j] /\ reader[c].base[j] \in Nat /\ j \in Ids
          BY <1>2, <1>t, <2>1, <4>2
        <5>5. got[j] \in Nat /\ fetch[f].base[j] \in Nat
          BY <1>t, <3>1, <5>4, StatusAssumption DEF FetchKept
        <5> QED
          BY <4>1, <5>1, <5>3, <5>4, <5>5
      <4>3. ASSUME ~Parse(f), f \in Parsed', NEW j \in reader[c].ids, track'[j] = "on"
            PROVE  j \in DOMAIN fetch'[f].data
        <5>1. f \in Parsed /\ fetch'[f].data = fetch[f].data
          BY <2>2, <3>1, <4>3, FetchMoves DEF FetchKept
        <5>2. track[j] = "on"
          BY <1>1, <1>4, <4>3
        <5> QED
          BY <2>1, <2>2, <3>1, <5>1, <5>2 DEF Answering, FetchKept
      <4> QED
        BY <3>1, <4>1, <4>2, <4>3 DEF FetchKept
    <3>2. CASE ~FetchKept(f)
      <4>1. fetch'[f].base = truth /\ f \notin Parsed'
        BY <2>2, <3>2, FetchMoves
      <4>2. \A j \in reader[c].ids : reader[c].base[j] <= truth[j] /\ reader[c].base[j] \in Nat
        BY <1>2, <1>t, <2>1
      <4> QED
        BY <1>t, <4>1, <4>2
    <3> QED
      BY <3>1, <3>2
  <2> QED
    BY <1>a, <2>2 DEF Answering
<1>5. ASSUME reader[c].pc \in {"check", "wait"}, reader[c].fresh,
             last_fetch_at' >= reader[c].min
      PROVE  Held(c)'
  <2>0. Answering(c) /\ reader[c].pc \in Asked
    BY <1>5, <1>o DEF ReaderOK, Asked
  <2>1. CASE last_fetch_at >= reader[c].min
    BY <1>3, <1>5, <1>o, <2>0, <2>1 DEF ReaderOK
  <2>2. ASSUME ~(last_fetch_at >= reader[c].min), NEW f \in Fetches, FinishFetch(f)
        PROVE  Held(c)'
    <3>1. f \in Begun /\ f \in Parsed /\ fetch[f].at >= reader[c].min
      BY <1>5, <1>t, <2>2, FinishEffect
    <3>2. ASSUME NEW j \in reader[c].ids, track'[j] = "on"
          PROVE  j \in DOMAIN ledger' /\ floor'[j] >= reader[c].base[j]
      <4>1. track[j] = "on" /\ j \in interest /\ j \in Ids /\ reader[c].base[j] \in Nat
        BY <1>1, <1>2, <1>5, <1>t, <2>0, <3>2
      <4>2. j \in DOMAIN fetch[f].data /\ fetch[f].base[j] >= reader[c].base[j]
        BY <2>0, <3>1, <4>1 DEF Answering
      <4>3. j \in Answers(f) /\ fetch[f].base[j] \in Nat
        BY <1>t, <3>1, <4>1, <4>2 DEF Answers
      <4>4. j \in DOMAIN ledger \/ Taken(f, j)
        BY <3>1, <4>3 DEF Taken
      <4>5. j \in DOMAIN ledger'
        BY <2>2, <4>1, <4>4, FinishEffect
      <4>6. IF fetch[f].base[j] > floor[j] THEN floor'[j] = fetch[f].base[j]
            ELSE floor'[j] = floor[j]
        BY <2>2, <3>1, <4>1, <4>3, FinishEffect
      <4> QED
        BY <1>t, <4>1, <4>2, <4>3, <4>5, <4>6
    <3> QED
      BY <1>a, <3>2 DEF Held
  <2>3. CASE ~Finishing
    <3>1. last_fetch_at' = last_fetch_at
      BY <2>3, CacheMoves
    <3> QED
      BY <1>5, <2>1, <3>1
  <2> QED
    BY <2>1, <2>2, <2>3 DEF Finishing
<1>6. ASSUME reader[c].pc = "leave", reader[c].ok, reader[c].fresh PROVE Served(c)'
  BY <1>6, <1>1, <1>a, <1>o DEF ReaderOK, Served
<1>7. /\ reader'[c].pc = "idle" => reader'[c].ids = {}
      /\ reader'[c].pc # "idle" => \A j \in reader'[c].ids : track'[j] # "new"
  BY <1>1, <1>a, <1>o DEF ReaderOK
<1>8. reader'[c].pc \in Asked =>
       /\ reader'[c].base \in [Ids -> Nat]
       /\ \A j \in reader'[c].ids :
            /\ 0 < reader'[c].base[j] /\ reader'[c].base[j] <= truth'[j]
            /\ track'[j] = "on" => j \in interest'
  BY <1>2, <1>a DEF Asked
<1>9. reader'[c].pc \in {"check", "wait"} =>
       /\ reader'[c].min <= clock'
       /\ reader'[c].fresh =>
            /\ Answering(c)'
            /\ last_fetch_at' >= reader'[c].min => Held(c)'
  BY <1>4, <1>5, <1>a, <1>o, <1>t DEF ReaderOK
<1>10. reader'[c].pc = "read" /\ reader'[c].fresh => Held(c)'
  BY <1>3, <1>a, <1>o DEF ReaderOK, Asked
<1>11. reader'[c].pc = "leave" /\ reader'[c].ok /\ reader'[c].fresh => Served(c)'
  BY <1>6, <1>a
<1> QED
  BY <1>7, <1>8, <1>9, <1>10, <1>11 DEF ReaderOK

\* What a reader's record is after it has been answered.
LEMMA AnsweredRecord ==
  ASSUME TypeOK, NEW c \in Readers, NEW ok \in BOOLEAN, reader' = Answered(c, ok)
  PROVE  /\ reader'[c].pc = (IF ok THEN "read" ELSE "leave") /\ reader'[c].ok = ok
         /\ reader'[c].ids = reader[c].ids /\ reader'[c].fresh = reader[c].fresh
         /\ reader'[c].base = reader[c].base
<1>1. reader[c] \in ReaderType
  BY DEF TypeOK
<1>2. reader'[c] = [reader[c] EXCEPT !.pc = IF ok THEN "read" ELSE "leave", !.ok = ok,
                                    !.woken = "no", !.before = 0, !.min = 0]
  BY DEF Answered, TypeOK
<1> QED
  BY <1>1, <1>2 DEF ReaderType

\* A reader is answered with what the ledger holds by then, or not at all.
LEMMA AnsweredOK ==
  ASSUME TypeOK, NEW c \in Readers, ReaderOK(c), NEW ok \in BOOLEAN,
         reader' = Answered(c, ok), UNCHANGED <<sourceVars, cacheVars>>,
         reader[c].pc \in {"check", "wait"},
         ok => last_fetch_at >= reader[c].min \/ ~reader[c].fresh
  PROVE  ReaderOK(c)'
<1>1. /\ reader'[c].pc = (IF ok THEN "read" ELSE "leave") /\ reader'[c].ok = ok
      /\ reader'[c].ids = reader[c].ids /\ reader'[c].fresh = reader[c].fresh
      /\ reader'[c].base = reader[c].base
  BY AnsweredRecord
<1>2. UNCHANGED <<truth, track, interest, ledger, floor, last_fetch_at>>
  BY DEF sourceVars, cacheVars
<1>3. ok /\ reader[c].fresh => Held(c)
  BY DEF ReaderOK
<1>4. ok /\ reader[c].fresh => Held(c)'
  BY <1>1, <1>2, <1>3 DEF Held
<1>5. /\ reader[c].base \in [Ids -> Nat]
      /\ \A j \in reader[c].ids :
           /\ 0 < reader[c].base[j] /\ reader[c].base[j] <= truth[j] /\ track[j] # "new"
           /\ track[j] = "on" => j \in interest
  BY DEF ReaderOK, Asked
<1> QED
  BY <1>1, <1>2, <1>4, <1>5 DEF ReaderOK

\* Every step serves every reader.
LEMMA ReaderStep ==
  TypeOK /\ TypeOK' /\ TrackInv /\ ClockInv /\ FloorInv /\ ReaderInv /\ [Next]_vars => ReaderInv'
<1> SUFFICES ASSUME TypeOK, TypeOK', TrackInv, ClockInv, FloorInv, ReaderInv, [Next]_vars,
                    NEW c \in Readers
             PROVE  ReaderOK(c)'
  BY DEF ReaderInv
<1> DEFINE Goal == ReaderOK(c)'
<1>t. /\ reader \in [Readers -> ReaderType] /\ reader[c] \in ReaderType
      /\ reader[c].ids \subseteq Ids
  BY DEF TypeOK, ReaderType
<1>o. ReaderOK(c)
  BY DEF ReaderInv
<1>a. Alike(c) => Goal
  BY AlikeOK
<1>q. ASSUME reader'[c] = reader[c] PROVE Goal
  BY <1>q, <1>a DEF Alike
<1>w. ASSUME NEW w, reader'[c] = [reader[c] EXCEPT !.woken = w] PROVE Goal
  BY <1>t, <1>w, <1>a DEF Alike, ReaderType
<1>1. ASSUME NEW ids \in SUBSET Ids, NEW fresh \in BOOLEAN, Call(c, ids, fresh) PROVE Goal
  <2>1. reader'[c] = [reader[c] EXCEPT !.pc = "register", !.ids = ids, !.fresh = fresh]
    BY <1>1, <1>t DEF Call
  <2>2. reader'[c].pc = "register" /\ reader'[c].ids = ids
    BY <1>t, <2>1 DEF ReaderType
  <2>3. \A j \in ids : track'[j] = "on"
    BY <1>1 DEF Call, sourceVars
  <2> QED
    BY <2>2, <2>3 DEF ReaderOK, Asked
<1>2. ASSUME Register(c) PROVE Goal
  <2>1. PICK min \in {1, clock + 1} :
          /\ Fresh(c) => min = clock + 1
          /\ reader' = [reader EXCEPT ![c] = [@ EXCEPT !.pc = "check", !.fresh = Fresh(c),
                                                      !.min = min, !.base = truth]]
    BY <1>2 DEF Register
  <2>2. reader'[c] = [reader[c] EXCEPT !.pc = "check", !.fresh = Fresh(c), !.min = min,
                                      !.base = truth]
    BY <1>t, <2>1
  <2>3. /\ reader'[c].pc = "check" /\ reader'[c].fresh = Fresh(c) /\ reader'[c].min = min
        /\ reader'[c].base = truth /\ reader'[c].ids = reader[c].ids
    BY <1>t, <2>2 DEF ReaderType
  <2>4. /\ UNCHANGED <<truth, track, ledger, floor, last_fetch_at, fetch>>
        /\ clock' = clock + 1 /\ interest' = interest \cup reader[c].ids
    BY <1>2 DEF Register, sourceVars, flightVars
  <2>5. clock \in Nat /\ last_fetch_at \in Nat /\ last_fetch_at <= clock
    BY DEF TypeOK, CacheType, ClockInv
  <2>6. \A f \in Begun' : fetch'[f].at <= clock /\ fetch'[f].at \in Nat
    BY <2>4 DEF Begun, ClockInv, TypeOK, FlightType, FetchType
  <2>7. reader'[c].fresh => /\ Answering(c)'
                            /\ ~(last_fetch_at' >= reader'[c].min)
    BY <2>1, <2>3, <2>4, <2>5, <2>6 DEF Answering
  <2>8. \A j \in reader[c].ids : track[j] # "new" /\ truth[j] > 0 /\ truth[j] \in Nat
    BY <1>2, <1>o, <1>t DEF Register, ReaderOK, TrackInv, TypeOK, SourceType
  <2>9. truth \in [Ids -> Nat]
    BY DEF TypeOK, SourceType
  <2> QED
    BY <2>1, <2>3, <2>4, <2>5, <2>7, <2>8, <2>9 DEF ReaderOK
<1>3. ASSUME CheckDone(c) \/ CheckRefused(c) \/ WaitTimeout(c) PROVE Goal
  <2>1. CASE CheckDone(c)
    BY <1>o, <2>1, AnsweredOK DEF CheckDone, TypeOK
  <2>2. CASE CheckRefused(c) \/ WaitTimeout(c)
    BY <1>o, <2>2, AnsweredOK DEF CheckRefused, WaitTimeout
  <2> QED
    BY <1>3, <2>1, <2>2
<1>4. ASSUME NEW r, reader' = [reader EXCEPT ![c] = r],
             \/ \E n : r = [reader[c] EXCEPT !.pc = "wait", !.before = n]
             \/ r = [reader[c] EXCEPT !.pc = "check", !.woken = "no", !.before = 0],
             reader[c].pc \in {"check", "wait"}
      PROVE  Goal
  <2>1. reader'[c] = r
    BY <1>4, <1>t
  <2>2. Alike(c)
    BY <1>4, <1>t, <2>1 DEF Alike, ReaderType
  <2> QED
    BY <1>a, <2>2
<1>5. ASSUME CheckWait(c) PROVE Goal
  BY <1>4, <1>5 DEF CheckWait
<1>6. ASSUME Wake(c) PROVE Goal
  <2>1. /\ reader[c].pc = "wait" /\ UNCHANGED <<sourceVars, cacheVars>>
        /\ \/ reader' = Answered(c, FALSE)
           \/ reader' = Again(c)
           \/ reader' = Answered(c, TRUE) /\ Enough(c)
    BY <1>6 DEF Wake
  <2>2. CASE reader' = Answered(c, FALSE)
    BY <1>o, <2>1, <2>2, AnsweredOK
  <2>3. CASE reader' = Answered(c, TRUE) /\ Enough(c)
    BY <1>o, <2>1, <2>3, AnsweredOK DEF Enough
  <2>4. ASSUME reader' = Again(c) PROVE Goal
    BY <1>4, <2>1, <2>4 DEF Again
  <2> QED
    BY <2>1, <2>2, <2>3, <2>4
<1>7. ASSUME Read(c) PROVE Goal
  <2> DEFINE rows == [j \in reader[c].ids \cap DOMAIN ledger |-> ledger[j].val]
  <2>1. reader'[c] = [reader[c] EXCEPT !.pc = "leave", !.rows = rows]
    BY <1>7, <1>t DEF Read
  <2>2. /\ reader'[c].pc = "leave" /\ reader'[c].rows = rows
        /\ reader'[c].ids = reader[c].ids /\ reader'[c].fresh = reader[c].fresh
        /\ reader'[c].base = reader[c].base
    BY <1>t, <2>1 DEF ReaderType
  <2>3. UNCHANGED <<truth, track, interest>> /\ reader[c].pc = "read"
    BY <1>7 DEF Read, sourceVars, cacheVars
  <2>4. /\ reader[c].base \in [Ids -> Nat]
        /\ \A j \in reader[c].ids :
             /\ 0 < reader[c].base[j] /\ reader[c].base[j] <= truth[j] /\ track[j] # "new"
             /\ track[j] = "on" => j \in interest
        /\ reader[c].fresh => Held(c)
    BY <1>o, <2>3 DEF ReaderOK, Asked
  <2>5. ASSUME reader[c].fresh, NEW j \in reader[c].ids, track[j] = "on"
        PROVE  j \in DOMAIN rows /\ rows[j] >= reader[c].base[j]
    <3>1. j \in DOMAIN ledger /\ floor[j] >= reader[c].base[j] /\ j \in Ids
      BY <1>t, <2>4, <2>5 DEF Held
    <3>2. ledger[j].val >= floor[j]
      BY <2>5, <3>1 DEF FloorInv
    <3>3. ledger[j].val \in Nat /\ floor[j] \in Nat /\ reader[c].base[j] \in Nat
      BY <2>4, <3>1 DEF TypeOK, CacheType, Answer
    <3>4. rows[j] = ledger[j].val /\ j \in DOMAIN rows
      BY <2>5, <3>1
    <3> HIDE DEF rows
    <3> QED
      BY <3>1, <3>2, <3>3, <3>4
  <2> HIDE DEF rows
  <2>6. reader'[c].fresh => Served(c)'
    BY <2>2, <2>3, <2>5 DEF Served
  <2> QED
    BY <2>2, <2>3, <2>4, <2>6 DEF ReaderOK
<1>8. ASSUME Leave(c) PROVE Goal
  BY <1>8, <1>t DEF Leave, Idle, ReaderOK, Asked
<1> HIDE DEF Goal
<1>9. ASSUME NEW d \in Readers, d # c,
             \/ \E ids \in SUBSET Ids, fresh \in BOOLEAN : Call(d, ids, fresh)
             \/ Register(d) \/ CheckDone(d) \/ CheckWait(d) \/ CheckRefused(d)
             \/ Wake(d) \/ WaitTimeout(d) \/ Read(d) \/ Leave(d)
      PROVE  Goal
  <2>1. \E r : reader' = [reader EXCEPT ![d] = r]
    BY <1>9 DEF Call, Register, CheckDone, CheckWait, CheckRefused, Wake, WaitTimeout, Read,
                Leave, Answered, Again
  <2>2. reader'[c] = reader[c]
    BY <1>9, <1>t, <2>1
  <2> QED
    BY <1>q, <2>2
<1>10. ASSUME NEW j \in Ids, Submitted(j) \/ Change(j) \/ Settle(j) \/ DropId(j) \/ Forget(j)
       PROVE  Goal
  <2>1. reader' = reader
    BY <1>10 DEF Submitted, Change, Settle, DropId, Forget
  <2> QED
    BY <1>q, <2>1
<1>11. ASSUME NEW f \in Fetches, Begin(f) \/ Parse(f) \/ Raise(f) PROVE Goal
  <2>1. reader' = reader
    BY <1>11 DEF Begin, Parse, Raise
  <2> QED
    BY <1>q, <2>1
<1>12. ASSUME NEW f \in Fetches, FinishFetch(f) PROVE Goal
  BY <1>12, <1>q, <1>w, FinishEffect
<1>13. ASSUME Shutdown PROVE Goal
  <2>1. reader'[c] = reader[c] \/ \E w : reader'[c] = [reader[c] EXCEPT !.woken = w]
    BY <1>13 DEF Shutdown, Notify
  <2> QED
    BY <1>q, <1>w, <2>1
<1>14. ASSUME Overdue \/ UNCHANGED vars PROVE Goal
  <2>1. reader' = reader
    BY <1>14 DEF Overdue, vars
  <2> QED
    BY <1>q, <2>1
<1>15. ASSUME NEW d \in Readers,
              \/ \E ids \in SUBSET Ids, fresh \in BOOLEAN : Call(d, ids, fresh)
              \/ Register(d) \/ CheckDone(d) \/ CheckWait(d) \/ CheckRefused(d)
              \/ Wake(d) \/ WaitTimeout(d) \/ Read(d) \/ Leave(d)
       PROVE  Goal
  <2>1. CASE d # c
    BY <1>9, <1>15, <2>1
  <2>2. ASSUME d = c PROVE Goal
    BY <1>1, <1>2, <1>3, <1>5, <1>6, <1>7, <1>8, <1>15, <2>2
  <2> QED
    BY <1>9, <1>15, <2>2
<1> QED
  BY <1>10, <1>11, <1>12, <1>13, <1>14, <1>15 DEF Next, Goal

\* An id that is gone stays of interest only as long as its drop is on its way
\* or a reader asks for it: the one that drops it will forget it, and the last
\* reader that leaves does.
LEMMA GoneForgottenStep ==
  TypeOK /\ TypeOK' /\ ReaderInv /\ GoneForgotten /\ [Next]_vars => GoneForgotten'
<1> SUFFICES ASSUME TypeOK, TypeOK', ReaderInv, GoneForgotten, [Next]_vars, NEW j \in interest'
             PROVE  track'[j] # "gone" \/ j \in forgets' \/ \E c \in Readers : j \in reader'[c].ids
  BY DEF GoneForgotten, TypeOK, CacheType
<1> DEFINE Goal == \/ track'[j] # "gone" \/ j \in forgets'
                   \/ \E c \in Readers : j \in reader'[c].ids
<1>t. /\ reader \in [Readers -> ReaderType] /\ track \in [Ids -> {"new", "on", "done", "gone"}]
      /\ j \in Ids
  BY DEF TypeOK, SourceType, CacheType
<1>i. j \in interest => \/ track[j] # "gone" \/ j \in forgets
                        \/ \E c \in Readers : j \in reader[c].ids
  BY DEF GoneForgotten
<1>k. ASSUME j \in interest, track'[j] # "gone" \/ track'[j] = track[j], forgets \subseteq forgets',
             \A c \in Readers : reader[c].ids \subseteq reader'[c].ids
      PROVE  Goal
  BY <1>i, <1>k
<1>1. ASSUME NEW i \in Ids, Submitted(i) \/ Change(i) \/ Settle(i) PROVE Goal
  <2>1. UNCHANGED <<interest, forgets, reader>> /\ (track'[j] # "gone" \/ track'[j] = track[j])
    BY <1>1, <1>t DEF Submitted, Change, Settle, cacheVars
  <2> QED
    BY <1>k, <2>1
<1>2. ASSUME NEW i \in Ids, DropId(i) PROVE Goal
  <2>1. /\ UNCHANGED <<interest, reader>> /\ forgets' = forgets \cup {i}
        /\ i # j => track'[j] = track[j]
    BY <1>2, <1>t DEF DropId, cacheVars
  <2> QED
    BY <1>k, <2>1
<1>3. ASSUME NEW i \in Ids, Forget(i) PROVE Goal
  <2>1. /\ j \in interest /\ j # i /\ forgets' = forgets \ {i}
        /\ UNCHANGED <<track, reader>>
    BY <1>3 DEF Forget, ForgetIds
  <2> QED
    BY <1>i, <2>1
<1>4. ASSUME NEW c \in Readers, NEW ids \in SUBSET Ids, NEW fresh \in BOOLEAN,
             Call(c, ids, fresh)
      PROVE  Goal
  <2>1. UNCHANGED <<interest, track, forgets>> /\ reader[c].ids = {}
    BY <1>4 DEF Call, sourceVars, cacheVars, ReaderInv, ReaderOK
  <2>2. \A d \in Readers \ {c} : reader'[d] = reader[d]
    BY <1>4, <1>t DEF Call
  <2>3. \A d \in Readers : reader[d].ids \subseteq reader'[d].ids
    BY <2>1, <2>2
  <2> QED
    BY <1>k, <2>1, <2>3
<1>5. ASSUME NEW c \in Readers,
             \/ Register(c) \/ CheckDone(c) \/ CheckWait(c) \/ CheckRefused(c)
             \/ Wake(c) \/ WaitTimeout(c) \/ Read(c)
      PROVE  /\ UNCHANGED <<track, forgets>>
             /\ j \in interest \/ j \in reader[c].ids
             /\ \A d \in Readers : reader'[d].ids = reader[d].ids
  <2>1. UNCHANGED <<track, forgets>>
    BY <1>5 DEF Register, CheckDone, CheckWait, CheckRefused, Wake, WaitTimeout, Read, sourceVars
  <2>2. j \in interest \/ j \in reader[c].ids
    BY <1>5 DEF Register, CheckDone, CheckWait, CheckRefused, Wake, WaitTimeout, Read, cacheVars
  <2>3. ASSUME NEW d \in Readers PROVE reader'[d].ids = reader[d].ids
    <3>1. CASE Register(c)
      BY <1>t, <3>1 DEF Register, ReaderType
    <3>2. CASE CheckWait(c)
      BY <1>t, <3>2 DEF CheckWait, ReaderType
    <3>3. CASE Read(c)
      BY <1>t, <3>3 DEF Read, ReaderType
    <3>4. CASE CheckDone(c) \/ CheckRefused(c) \/ Wake(c) \/ WaitTimeout(c)
      <4>1. \/ reader' = Again(c)
            \/ \E ok \in BOOLEAN : reader' = Answered(c, ok)
        BY <3>4 DEF CheckDone, CheckRefused, Wake, WaitTimeout
      <4>2. ASSUME reader' = Again(c) PROVE reader'[d].ids = reader[d].ids
        BY <1>t, <4>2 DEF Again, ReaderType
      <4>3. ASSUME NEW ok \in BOOLEAN, reader' = Answered(c, ok)
            PROVE  reader'[d].ids = reader[d].ids
        <5>1. d # c => reader'[d] = reader[d]
          BY <1>t, <4>3 DEF Answered
        <5> QED
          BY <4>3, <5>1, AnsweredRecord
      <4> QED
        BY <4>1, <4>2, <4>3
    <3> QED
      BY <1>5, <3>1, <3>2, <3>3, <3>4
  <2> QED
    BY <2>1, <2>2, <2>3
<1>6. ASSUME NEW c \in Readers, Leave(c) PROVE Goal
  <2> DEFINE js == {x \in Finished(c) : track[x] = "gone"}
  <2>1. /\ interest' = interest \ js /\ UNCHANGED <<track, forgets>>
        /\ \A d \in Readers \ {c} : reader'[d] = reader[d]
    BY <1>6, <1>t DEF Leave, ForgetIds, sourceVars
  <2>2. j \in interest /\ j \notin js
    BY <2>1
  <2>3. ASSUME track[j] = "gone", NEW d \in Readers, j \in reader[d].ids
        PROVE  \E e \in Readers \ {c} : j \in reader[e].ids
    <3>1. CASE d # c
      BY <2>3, <3>1
    <3>2. CASE d = c
      <4>1. j \notin Finished(c)
        BY <2>2, <2>3
      <4> QED
        BY <2>3, <3>2, <4>1 DEF Finished
    <3> QED
      BY <3>1, <3>2
  <2> HIDE DEF js
  <2> QED
    BY <1>i, <2>1, <2>2, <2>3
<1>7. ASSUME NEW f \in Fetches, FinishFetch(f) PROVE Goal
  <2>1. UNCHANGED <<track, forgets>> /\ j \in interest
    BY <1>7, FinishEffect DEF FinishFetch, sourceVars
  <2>2. ASSUME NEW d \in Readers PROVE reader'[d].ids = reader[d].ids
    <3>1. reader'[d] = reader[d] \/ \E w : reader'[d] = [reader[d] EXCEPT !.woken = w]
      BY <1>7, FinishEffect
    <3> QED
      BY <1>t, <3>1 DEF ReaderType
  <2> QED
    BY <1>i, <2>1, <2>2
<1>8. ASSUME Shutdown PROVE Goal
  <2>1. UNCHANGED <<track, forgets, interest>>
    BY <1>8 DEF Shutdown, sourceVars, cacheVars
  <2>2. ASSUME NEW d \in Readers PROVE reader'[d].ids = reader[d].ids
    <3>1. reader'[d] = reader[d] \/ \E w : reader'[d] = [reader[d] EXCEPT !.woken = w]
      BY <1>8 DEF Shutdown, Notify
    <3> QED
      BY <1>t, <3>1 DEF ReaderType
  <2> QED
    BY <1>i, <2>1, <2>2
<1>9. ASSUME \/ \E f \in Fetches : Begin(f) \/ Parse(f) \/ Raise(f)
             \/ Overdue \/ UNCHANGED vars
      PROVE  Goal
  <2>1. UNCHANGED <<track, forgets, interest, reader>>
    BY <1>9 DEF Begin, Parse, Raise, Overdue, vars, sourceVars, cacheVars
  <2> QED
    BY <1>i, <2>1
<1>10. ASSUME NEW c \in Readers,
              \/ Register(c) \/ CheckDone(c) \/ CheckWait(c) \/ CheckRefused(c)
              \/ Wake(c) \/ WaitTimeout(c) \/ Read(c)
       PROVE  Goal
  BY <1>5, <1>10, <1>i
<1> HIDE DEF Goal
<1> QED
  BY <1>1, <1>2, <1>3, <1>4, <1>6, <1>7, <1>8, <1>9, <1>10 DEF Next, Goal

-----------------------------------------------------------------------------
(* The theorems.                                                           *)

\* It holds before anything has been asked.
LEMMA InvInit == Init => Inv
<1> SUFFICES ASSUME Init PROVE Inv
  OBVIOUS
<1>1. Empty \in [{} -> Nat] /\ Empty \in [{} -> Answer] /\ DOMAIN Empty = {}
  BY DEF Empty
<1>2. TypeOK
  <2>1. CacheType
    BY <1>1 DEF Init, CacheType
  <2> QED
    BY <2>1, InitialRecords DEF Init, TypeOK, SourceType, FlightType, Free
<1>3. CountInv
  <2>1. {f \in Fetches : fetch[f].pc # "free"} = {}
    BY DEF Init, Free
  <2> QED
    BY <2>1, FS_EmptySet, StatusAssumption DEF Init, CountInv
<1>4. Begun = {} /\ Parsed = {}
  BY DEF Init, Begun, Parsed, Free
<1>5. TrackInv /\ ClockInv /\ FloorInv /\ GoneForgotten
  BY <1>1, <1>4 DEF Init, TrackInv, ClockInv, FloorInv, GoneForgotten
<1>6. ReaderInv
  BY DEF Init, ReaderInv, ReaderOK, Idle, Asked
<1> QED
  BY <1>2, <1>3, <1>5, <1>6 DEF Inv

\* Every step keeps it.
LEMMA InvStep == Inv /\ [Next]_vars => Inv'
<1> SUFFICES ASSUME Inv, [Next]_vars PROVE Inv'
  OBVIOUS
<1> USE DEF Inv
<1>1. TypeOK'
  BY FinishCounted, TypeStep
<1>2. CountInv'
  BY CountStep
<1>3. TrackInv' /\ ClockInv' /\ ReaderInv'
  BY <1>1, TrackStep, ClockStep, ReaderStep
<1>4. FloorInv'
  BY <1>1, FloorStep
<1>5. GoneForgotten'
  BY <1>1, GoneForgottenStep
<1> QED
  BY <1>1, <1>2, <1>3, <1>4, <1>5

\* The inductive invariant holds throughout, for any number of ids, readers and
\* fetches of InternalStatusSource.
THEOREM Invariant == Spec => []Inv
BY InvInit, InvStep, PTL DEF Spec

\* The ledger, the fetches and the readers have their types in every state.
THEOREM TypeCorrect == Spec => []TypeOK
<1>1. Inv => TypeOK
  BY DEF Inv
<1> QED
  BY <1>1, Invariant, PTL

\* _merge_locked: a late answer of a superseded fetch never takes a tracked job
\* back behind the start of the youngest fetch that was merged for it.
THEOREM LedgerFreshHolds == Spec => []LedgerFresh
<1>1. Inv => LedgerFresh
  <2> SUFFICES ASSUME Inv, NEW j \in DOMAIN ledger, track[j] = "on"
               PROVE  ledger[j].val >= floor[j]
    BY DEF LedgerFresh
  <2>1. j \in Ids
    BY DEF Inv, TypeOK, CacheType
  <2> QED
    BY <2>1 DEF Inv, FloorInv
<1> QED
  BY <1>1, Invariant, PTL

\* _ensure_fetched: what a fresh reader is given is never older than its call
\* and never lacks a living job, whatever fetches are overdue, superseded or
\* late, and whoever else forgets or registers ids.
THEOREM FreshIsFreshHolds == Spec => []FreshIsFresh
<1>1. Inv => FreshIsFresh
  BY DEF Inv, ReaderInv, ReaderOK, Served, FreshIsFresh
<1> QED
  BY <1>1, Invariant, PTL

\* MAX_INFLIGHT: however many callbacks hang and in whatever order the others
\* return, the count is exact and the bound is kept.
THEOREM InflightBoundHolds == Spec => []InflightBound
<1>1. Inv => InflightBound
  BY DEF Inv, CountInv, InflightBound
<1> QED
  BY <1>1, Invariant, PTL

\* query_ids and forget: nothing about a dropped id stays behind.
THEOREM GoneForgottenHolds == Spec => []GoneForgotten
<1>1. Inv => GoneForgotten
  BY DEF Inv
<1> QED
  BY <1>1, Invariant, PTL
=============================================================================
