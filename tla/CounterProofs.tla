---------------------------- MODULE CounterProofs ----------------------------
(***************************************************************************)
(* Proofs about the agent's counters: ReportRotation, for any set of       *)
(* mappings and any cap of a report, and CounterFold, for any set of       *)
(* mappings and any amount of traffic.  Neither looks at the state of the  *)
(* other.                                                                  *)
(***************************************************************************)
EXTENDS ReportRotation, CounterFold, TLAPS, FiniteSetTheorems

Cumulative(id) == Entry(m, id).cum
Baseline(id) == Entry(m, id).last

(***************************************************************************)
(* What holds of one mapping.  The two properties are its first lines.     *)
(* Between a replace and its MarkReset the baselines are those of counters *)
(* that no longer exist, and the books balance with the raw counter; while *)
(* the totals know of every replace no baseline is ahead of its counter,   *)
(* or one more packet would turn the next reading into a reset.            *)
(***************************************************************************)
Balanced(id) ==
    /\ Cumulative(id) + Unread(id) <= owed[id]
    /\ marked /\ pc # "replaced" => Cumulative(id) + Unread(id) = owed[id]
    /\ pc = "replaced" => Cumulative(id) + Held(id) = owed[id]
    /\ marked /\ pc # "replaced" => Baseline(id) <= Held(id) \/ id \notin DOMAIN counter

CountersInv == FoldTypeOK /\ \A id \in CountedIDs : Balanced(id)

-----------------------------------------------------------------------------
LEMMA EntryType ==
    ASSUME FoldTypeOK, NEW id
    PROVE  /\ Entry(m, id).cum \in Nat /\ Entry(m, id).last \in Nat
           /\ Entry(m, id).last <= Entry(m, id).cum
  BY DEF FoldTypeOK, Totals, Entry

(***************************************************************************)
(* foldCounters leaves a mapping alone or takes all of its counter over.   *)
(***************************************************************************)
LEMMA FoldStep ==
    ASSUME FoldTypeOK, m' \in FoldCounters(m)
    PROVE  /\ DOMAIN m' \subseteq CountedIDs /\ m' \in [DOMAIN m' -> Totals]
           /\ \A id \in CountedIDs :
                 \/ Entry(m', id) = Entry(m, id)
                 \/ /\ id \in DOMAIN counter
                    /\ Entry(m', id) = FoldField(Entry(m, id), counter[id])
<1>1. CASE m' = m
  BY <1>1 DEF FoldTypeOK
<1>2. CASE m' = Fold(m, counter)
  <2>1. DOMAIN m' = DOMAIN m \cup DOMAIN counter
    BY <1>2 DEF Fold
  <2>2. ASSUME NEW id \in DOMAIN counter
        PROVE  /\ Entry(m', id) = FoldField(Entry(m, id), counter[id])
               /\ m'[id] \in Totals
    <3>1. m'[id] = FoldField(Entry(m, id), counter[id])
      BY <1>2 DEF Fold
    <3>2. FoldField(Entry(m, id), counter[id]) \in Totals
      BY EntryType DEF FoldTypeOK, FoldField, Delta, Totals
    <3> QED
      BY <2>1, <3>1, <3>2 DEF Entry
  <2>3. ASSUME NEW id \in CountedIDs \ DOMAIN counter
        PROVE  Entry(m', id) = Entry(m, id) /\ (id \in DOMAIN m' => m'[id] \in Totals)
    BY <1>2 DEF Fold, Entry, FoldTypeOK
  <2>4. m' = [id \in DOMAIN m' |-> m'[id]]
    BY <1>2, <2>1 DEF Fold
  <2> QED
    BY <2>1, <2>2, <2>3, <2>4 DEF FoldTypeOK
<1> QED
  BY <1>1, <1>2 DEF FoldCounters

(***************************************************************************)
(* A fold moves what was unread into the total.                            *)
(***************************************************************************)
LEMMA FoldBalances ==
    ASSUME FoldTypeOK, m' \in FoldCounters(m), UNCHANGED <<counter, history>>,
           pc # "replaced", pc' # "replaced",
           NEW id \in CountedIDs, Balanced(id)
    PROVE  Balanced(id)'
<1>1. CASE Entry(m', id) = Entry(m, id)
  BY <1>1 DEF Balanced, Cumulative, Baseline, Unread, Held, Delta, history
<1>2. CASE id \in DOMAIN counter /\ Entry(m', id) = FoldField(Entry(m, id), counter[id])
  <2>1. counter[id] \in Nat /\ owed[id] \in Nat
    BY <1>2 DEF FoldTypeOK
  <2>2. Cumulative(id)' = Cumulative(id) + Unread(id) /\ Baseline(id)' = counter[id]
    BY <1>2 DEF FoldField, Cumulative, Baseline, Unread
  <2>3. Unread(id)' = 0 /\ Held(id)' = counter[id]
    BY <1>2, <2>1, <2>2 DEF Unread, Delta, Held, Baseline
  <2>4. Cumulative(id) + Unread(id) \in Nat
    BY <1>2, <2>1, EntryType DEF Cumulative, Unread, Delta
  <2> QED
    BY <2>1, <2>2, <2>3, <2>4 DEF Balanced, history
<1> QED
  BY FoldStep, <1>1, <1>2

(***************************************************************************)
(* A replaced table counts from zero, and what was not read is lost.       *)
(***************************************************************************)
LEMMA InstallBalances ==
    ASSUME FoldTypeOK, NEW ids \in SUBSET CountedIDs, Install(ids), UNCHANGED m,
           ~marked' \/ pc' = "replaced"
    PROVE  /\ DOMAIN counter' \subseteq CountedIDs /\ counter' \in [DOMAIN counter' -> Nat]
           /\ owed' \in [CountedIDs -> Nat]
           /\ \A id \in CountedIDs : Balanced(id)'
<1>1. DOMAIN counter' = ids /\ counter' \in [ids -> Nat]
  BY DEF Install
<1>2. owed' = [id \in CountedIDs |-> Entry(m, id).cum]
  BY DEF Install, Destroyed
<1>3. owed' \in [CountedIDs -> Nat]
  BY <1>2, EntryType
<1>4. ASSUME NEW id \in CountedIDs PROVE Balanced(id)'
  <2>1. Unread(id)' = 0 /\ Held(id)' = 0
    BY EntryType DEF Install, Unread, Held, Delta
  <2>2. Cumulative(id)' = owed'[id] /\ Cumulative(id)' \in Nat
    BY <1>2, EntryType DEF Cumulative
  <2> QED
    BY <2>1, <2>2 DEF Balanced
<1> QED
  BY <1>1, <1>3, <1>4

LEMMA CountersInit == FoldInit => CountersInv
<1> SUFFICES ASSUME FoldInit PROVE CountersInv
  OBVIOUS
<1>1. FoldTypeOK
  <2>1. present \in BOOLEAN /\ booted \in BOOLEAN /\ marked \in BOOLEAN
    BY DEF FoldInit
  <2>2. owed \in [CountedIDs -> Nat]
    BY DEF FoldInit, Zero
  <2> QED
    BY <2>1, <2>2 DEF FoldInit, FoldTypeOK, Nothing
<1>2. ASSUME NEW id \in CountedIDs PROVE Balanced(id)
  BY DEF FoldInit, Balanced, Cumulative, Baseline, Unread, Held, Entry, Nothing,
       Zero
<1> QED
  BY <1>1, <1>2 DEF CountersInv

(***************************************************************************)
(* The steps that read the counters, or nothing, on the way to a replace.  *)
(***************************************************************************)
LEMMA ReadingSteps ==
    ASSUME CountersInv, NEW ids \in SUBSET CountedIDs,
           Boot(ids) \/ Poll \/ AnswerIdle \/ AnswerChanged(ids) \/ AnswerAssert
           \/ AnswerRetry \/ ReplaceFails
    PROVE  CountersInv'
<1> USE DEF CountersInv
<1>1. UNCHANGED <<present, counter, booted, installed, history>>
  BY DEF Boot, Poll, AnswerIdle, AnswerChanged, AnswerAssert, AnswerRetry,
       ReplaceFails,
         StartReplace
<1>2. /\ pc \in {"down", "idle", "polled", "replace"}
      /\ pc' \in {"idle", "polled", "replace"}
      /\ m' \in FoldCounters(m)
  BY DEF Boot, Poll, AnswerIdle, AnswerChanged, AnswerAssert, AnswerRetry,
       ReplaceFails,
         StartReplace, FoldCounters
<1>3. /\ job'.kind \in {"none", "boot", "cycle", "assert", "retry"}
      /\ job'.ids \subseteq CountedIDs
  BY DEF Boot, Poll, AnswerIdle, AnswerChanged, AnswerAssert, AnswerRetry,
       ReplaceFails,
         StartReplace, FoldTypeOK
<1>4. FoldTypeOK'
  <2>1. present' \in BOOLEAN /\ booted' \in BOOLEAN /\ marked' \in BOOLEAN
    BY <1>1 DEF FoldTypeOK, history
  <2> QED
    BY <1>1, <1>2, <1>3, <2>1, FoldStep DEF FoldTypeOK, history
<1>5. ASSUME NEW id \in CountedIDs PROVE Balanced(id)'
  BY <1>1, <1>2, FoldBalances
<1> QED
  BY <1>4, <1>5

LEMMA ReplaceTablePreserves == ASSUME CountersInv, ReplaceTable PROVE CountersInv'
<1> USE DEF CountersInv
<1>1. Install(job.ids) /\ job.ids \in SUBSET CountedIDs /\ UNCHANGED m
      /\ pc' = "replaced" /\ marked' = TRUE
  BY DEF ReplaceTable, FoldTypeOK
<1>2. present' \in BOOLEAN /\ booted' \in BOOLEAN /\ marked' \in BOOLEAN
  BY DEF ReplaceTable, Install, FoldTypeOK
<1>3. FoldTypeOK'
  BY <1>1, <1>2, InstallBalances DEF ReplaceTable, FoldTypeOK
<1> QED
  BY <1>1, <1>3, InstallBalances

LEMMA OneShotPreserves ==
    ASSUME CountersInv, NEW ids \in SUBSET CountedIDs, OneShotApply(ids) PROVE CountersInv'
<1> USE DEF CountersInv
<1>1. Install(ids) /\ UNCHANGED m /\ marked' = FALSE
  BY DEF OneShotApply
<1>2. present' \in BOOLEAN /\ booted' \in BOOLEAN /\ marked' \in BOOLEAN
  BY DEF OneShotApply, Install, FoldTypeOK
<1>3. FoldTypeOK'
  BY <1>1, <1>2, InstallBalances DEF OneShotApply, FoldTypeOK
<1> QED
  BY <1>1, <1>3, InstallBalances

(***************************************************************************)
(* MarkReset puts the baselines of the new table in place; a mapping that  *)
(* is pruned is no longer owed anything but what its counter holds.        *)
(***************************************************************************)
LEMMA ApplyDonePreserves == ASSUME CountersInv, ApplyDone PROVE CountersInv'
<1> USE DEF CountersInv
<1>1. pc = "replaced" /\ pc' = "idle" /\ UNCHANGED <<present, counter, job, marked>>
  BY DEF ApplyDone
<1>2. /\ DOMAIN m' \subseteq DOMAIN m
      /\ m' \in [DOMAIN m' -> Totals]
      /\ \A id \in DOMAIN m' : m'[id].cum = m[id].cum /\ m'[id].last = 0
  <2> DEFINE reset == MarkReset(m)
  <2>1. /\ DOMAIN reset = DOMAIN m /\ reset \in [DOMAIN m -> Totals]
        /\ \A id \in DOMAIN m : reset[id].cum = m[id].cum /\ reset[id].last = 0
    BY DEF MarkReset, FoldTypeOK, Totals
  <2>2. m' = Prune(reset, job.ids) \/ m' = reset
    BY DEF ApplyDone
  <2> HIDE DEF reset
  <2> QED
    BY <2>1, <2>2 DEF Prune
<1>3. owed' = [id \in CountedIDs |-> IF id \in DOMAIN m' THEN owed[id] ELSE Held(id)]
  BY DEF ApplyDone
<1>4. \A id : Held(id) \in Nat /\ Held(id)' = Held(id)
  BY <1>1 DEF Held, FoldTypeOK
<1>5. owed' \in [CountedIDs -> Nat]
  BY <1>3, <1>4 DEF FoldTypeOK
<1>6. FoldTypeOK'
  <2>1. present' \in BOOLEAN /\ booted' \in BOOLEAN /\ marked' \in BOOLEAN
    BY DEF ApplyDone, FoldTypeOK
  <2> QED
    BY <1>1, <1>2, <1>5, <2>1 DEF ApplyDone, FoldTypeOK
<1>7. ASSUME NEW id \in CountedIDs PROVE Balanced(id)'
  <2>1. Unread(id)' = Held(id) /\ Baseline(id)' = 0
    BY <1>1, <1>2, <1>4 DEF Unread, Delta, Entry, Held, Baseline, FoldTypeOK
  <2>2. Cumulative(id)' + Held(id) = owed'[id] /\ Cumulative(id)' \in Nat
    <3>1. CASE id \in DOMAIN m'
      BY <1>1, <1>2, <1>3, <3>1, EntryType DEF Cumulative, Entry, Balanced
    <3>2. CASE id \notin DOMAIN m'
      BY <1>3, <1>4, <3>2 DEF Cumulative, Entry
    <3> QED
      BY <3>1, <3>2
  <2> QED
    BY <1>1, <1>4, <2>1, <2>2 DEF Balanced
<1> QED
  BY <1>6, <1>7

LEMMA ApplyAbortsPreserves == ASSUME CountersInv, ApplyAborts PROVE CountersInv'
<1> USE DEF CountersInv
<1>1. FoldTypeOK'
  <2>1. present' \in BOOLEAN /\ booted' \in BOOLEAN /\ marked' \in BOOLEAN
    BY DEF ApplyAborts, FoldTypeOK
  <2> QED
    BY <2>1 DEF ApplyAborts, FoldTypeOK
<1>2. ASSUME NEW id \in CountedIDs PROVE Balanced(id)'
  BY DEF ApplyAborts, Balanced, Cumulative, Baseline, Unread, Held
<1> QED
  BY <1>1, <1>2

-----------------------------------------------------------------------------
LEMMA PacketPreserves ==
    ASSUME CountersInv, NEW p \in DOMAIN counter, Packet(p) PROVE CountersInv'
<1> USE DEF CountersInv
<1>1. p \in CountedIDs /\ counter[p] \in Nat /\ owed[p] \in Nat
  BY DEF FoldTypeOK
<1>2. /\ DOMAIN counter' = DOMAIN counter /\ counter'[p] = counter[p] + 1
      /\ \A id \in DOMAIN counter \ {p} : counter'[id] = counter[id]
      /\ counter' \in [DOMAIN counter -> Nat]
  BY <1>1 DEF Packet, FoldTypeOK
<1>3. /\ owed' \in [CountedIDs -> Nat] /\ owed'[p] = owed[p] + 1
      /\ \A id \in CountedIDs \ {p} : owed'[id] = owed[id]
  BY <1>1 DEF Packet, FoldTypeOK
<1>4. FoldTypeOK'
  <2>1. present' \in BOOLEAN /\ booted' \in BOOLEAN /\ marked' \in BOOLEAN
    BY DEF Packet, FoldTypeOK
  <2> QED
    BY <1>2, <1>3, <2>1 DEF Packet, FoldTypeOK
<1>5. ASSUME NEW id \in CountedIDs PROVE Balanced(id)'
  <2>0. UNCHANGED <<m, pc, marked>>
    BY DEF Packet
  <2>1. CASE id = p
    <3>1. /\ Cumulative(id)' = Cumulative(id) /\ Baseline(id)' = Baseline(id)
          /\ Cumulative(id) \in Nat /\ Baseline(id) \in Nat
      BY <2>0, EntryType DEF Cumulative, Baseline
    <3>2. Unread(id) = IF counter[p] >= Baseline(id) THEN counter[p] - Baseline(id)
                       ELSE counter[p]
      BY <2>1 DEF Unread, Delta, Baseline
    <3>3. Unread(id)' = IF counter'[p] >= Baseline(id)' THEN counter'[p] - Baseline(id)'
                         ELSE counter'[p]
      BY <1>2, <2>1 DEF Unread, Delta, Baseline
    <3>4. Held(id) = counter[p] /\ Held(id)' = counter[p] + 1
      BY <1>2, <2>1 DEF Held
    <3> QED
      BY <1>1, <1>2, <1>3, <2>0, <2>1, <3>1, <3>2, <3>3, <3>4 DEF Balanced
  <2>2. CASE id # p
    <3>1. Cumulative(id)' = Cumulative(id) /\ Baseline(id)' = Baseline(id)
      BY <2>0 DEF Cumulative, Baseline
    <3>2. Unread(id)' = Unread(id) /\ Held(id)' = Held(id)
      BY <1>2, <2>0, <2>2 DEF Unread, Held
    <3> QED
      BY <1>2, <1>3, <2>0, <2>2, <3>1, <3>2 DEF Balanced
  <2> QED
    BY <2>1, <2>2
<1> QED
  BY <1>4, <1>5

LEMMA WipePreserves == ASSUME CountersInv, Wipe PROVE CountersInv'
<1> USE DEF CountersInv
<1>1. counter' = Nothing /\ DOMAIN counter' = {} /\ UNCHANGED <<m, pc, marked>>
  BY DEF Wipe, Nothing
<1>2. owed' = [id \in CountedIDs |-> IF id \in DOMAIN counter THEN Entry(m, id).cum
                                     ELSE owed[id]]
  BY DEF Wipe, Destroyed
<1>3. owed' \in [CountedIDs -> Nat]
  BY <1>2, EntryType DEF FoldTypeOK
<1>4. FoldTypeOK'
  <2>1. present' \in BOOLEAN /\ booted' \in BOOLEAN /\ marked' \in BOOLEAN
    BY DEF Wipe, FoldTypeOK
  <2>2. counter' \in [DOMAIN counter' -> Nat]
    BY <1>1 DEF Nothing
  <2> QED
    BY <1>1, <1>3, <2>1, <2>2 DEF Wipe, FoldTypeOK
<1>5. ASSUME NEW id \in CountedIDs PROVE Balanced(id)'
  <2>1. Unread(id)' = 0 /\ Held(id)' = 0
    BY <1>1 DEF Unread, Held
  <2>2. Cumulative(id)' = Cumulative(id) /\ Cumulative(id) \in Nat
    BY <1>1, EntryType DEF Cumulative
  <2>3. CASE id \in DOMAIN counter
    <3>1. owed'[id] = Cumulative(id)
      BY <1>2, <2>3 DEF Cumulative
    <3> QED
      BY <1>1, <2>1, <2>2, <3>1 DEF Balanced
  <2>4. CASE id \notin DOMAIN counter
    <3>1. Unread(id) = 0 /\ Held(id) = 0 /\ owed'[id] = owed[id]
      BY <1>2, <2>4 DEF Unread, Held
    <3> QED
      BY <1>1, <2>1, <2>2, <3>1 DEF Balanced
  <2> QED
    BY <2>3, <2>4
<1> QED
  BY <1>4, <1>5

LEMMA RestartPreserves == ASSUME CountersInv, Restart PROVE CountersInv'
<1> USE DEF CountersInv
<1>1. m' = Nothing /\ DOMAIN m' = {} /\ pc' = "down" /\ UNCHANGED counter
  BY DEF Restart, Nothing
<1>2. owed' = [id \in CountedIDs |-> Held(id)]
  BY DEF Restart
<1>3. \A id : Held(id) \in Nat /\ Held(id)' = Held(id)
  BY <1>1 DEF Held, FoldTypeOK
<1>4. FoldTypeOK'
  <2>1. present' \in BOOLEAN /\ booted' \in BOOLEAN /\ marked' \in BOOLEAN
    BY DEF Restart, FoldTypeOK
  <2>2. owed' \in [CountedIDs -> Nat]
    BY <1>2, <1>3
  <2>3. m' \in [DOMAIN m' -> Totals]
    BY <1>1 DEF Nothing
  <2> QED
    BY <1>1, <2>1, <2>2, <2>3 DEF Restart, FoldTypeOK
<1>5. ASSUME NEW id \in CountedIDs PROVE Balanced(id)'
  <2>1. Cumulative(id)' = 0 /\ Baseline(id)' = 0
    BY <1>1 DEF Cumulative, Baseline, Entry
  <2>2. Unread(id)' = Held(id)
    BY <1>1, <1>3, <2>1 DEF Unread, Delta, Held, Baseline
  <2> QED
    BY <1>1, <1>2, <1>3, <2>1, <2>2 DEF Balanced
<1> QED
  BY <1>4, <1>5

LEMMA CountersNext == CountersInv /\ [FoldNext]_foldVars => CountersInv'
<1> SUFFICES ASSUME CountersInv, [FoldNext]_foldVars PROVE CountersInv'
  OBVIOUS
<1>1. CASE UNCHANGED foldVars
  <2>1. FoldTypeOK'
    BY <1>1 DEF CountersInv, FoldTypeOK, foldVars
  <2>2. ASSUME NEW id \in CountedIDs PROVE Balanced(id)'
    BY <1>1 DEF CountersInv, Balanced, Cumulative, Baseline, Unread, Held, foldVars
  <2> QED
    BY <2>1, <2>2 DEF CountersInv
<1> QED
  BY <1>1, ReadingSteps, ReplaceTablePreserves, OneShotPreserves, ApplyDonePreserves,
     ApplyAbortsPreserves, PacketPreserves, WipePreserves, RestartPreserves DEF FoldNext

LEMMA CountersInvariance == FoldSpec => []CountersInv
  BY CountersInit, CountersNext, PTL DEF FoldSpec

(***************************************************************************)
(* No packet is ever in a total twice, whichever of fold, replace, persist *)
(* and MarkReset fails, and whoever else replaces the table.               *)
(***************************************************************************)
THEOREM NoOvercount == FoldSpec => []NeverOvercounts
<1>1. CountersInv => NeverOvercounts
  BY DEF CountersInv, Balanced, Cumulative, NeverOvercounts
<1> QED
  BY <1>1, CountersInvariance, PTL

(***************************************************************************)
(* As long as the totals were told of the last replace, they miss nothing  *)
(* but what a replace or a wipe destroyed unread.                          *)
(***************************************************************************)
THEOREM NoUndercount == FoldSpec => []NothingUndercounted
<1>1. CountersInv => NothingUndercounted
  BY DEF CountersInv, Balanced, Cumulative, NothingUndercounted
<1> QED
  BY <1>1, CountersInvariance, PTL

-----------------------------------------------------------------------------
(***************************************************************************)
(* Around the ring of n positions.                                         *)
(***************************************************************************)
Wrap(x, n) == IF x < n THEN x ELSE x - n

LEMMA ModIsWrap ==
    ASSUME NEW n \in Nat \ {0}, NEW x \in Nat, x < n + n
    PROVE  x % n = Wrap(x, n)
<1>1. CASE x < n
  BY <1>1 DEF Wrap
<1>2. CASE ~(x < n)
  BY <1>2 DEF Wrap
<1> QED
  BY <1>1, <1>2

LEMMA MinOfTwo ==
    ASSUME NEW a \in Int, NEW b \in Int
    PROVE  Min({a, b}) = IF a <= b THEN a ELSE b
<1>1. \E x \in {a, b} : \A y \in {a, b} : x <= y
  <2>1. CASE a <= b
    BY <2>1
  <2>2. CASE ~(a <= b)
    BY <2>2
  <2> QED
    BY <2>1, <2>2
<1> DEFINE z == CHOOSE x \in {a, b} : \A y \in {a, b} : x <= y
<1>2. z \in {a, b} /\ \A y \in {a, b} : z <= y
  BY <1>1
<1> HIDE DEF z
<1>3. Min({a, b}) = z
  BY DEF Min, z
<1> QED
  BY <1>2, <1>3

(***************************************************************************)
(* The positions number the live ids from 0 to n - 1.                      *)
(***************************************************************************)
Pos(L, id) == Cardinality({x \in L : x < id})

LEMMA PosRange ==
    ASSUME NEW L, L \subseteq Nat, IsFiniteSet(L), NEW p \in L
    PROVE  Pos(L, p) \in 0..(Cardinality(L) - 1)
<1> DEFINE A == {x \in L : x < p}
<1>1. A \subseteq L \ {p}
  OBVIOUS
<1>2. IsFiniteSet(L \ {p}) /\ Cardinality(L \ {p}) = Cardinality(L) - 1
  BY FS_RemoveElement
<1>3. IsFiniteSet(A) /\ Cardinality(A) <= Cardinality(L) - 1
  BY <1>1, <1>2, FS_Subset
<1>4. Cardinality(A) \in Nat /\ Cardinality(L) \in Nat
  BY <1>3, FS_CardinalityType
<1>5. Pos(L, p) = Cardinality(A)
  BY DEF Pos
<1> HIDE DEF A
<1> QED
  BY <1>3, <1>4, <1>5

LEMMA PosOrders ==
    ASSUME NEW L, L \subseteq Nat, IsFiniteSet(L), NEW p \in L, NEW q \in L, p < q
    PROVE  Pos(L, p) < Pos(L, q)
<1> DEFINE A == {x \in L : x < p}
           B == {x \in L : x < q}
<1>1. IsFiniteSet(A) /\ IsFiniteSet(B)
  BY FS_Subset
<1>2. p \notin A /\ A \cup {p} \subseteq B
  <2>1. \A x \in L : x < p => x < q
    OBVIOUS
  <2>2. ~(p < p)
    OBVIOUS
  <2> QED
    BY <2>1, <2>2
<1>3. Cardinality(A \cup {p}) = Cardinality(A) + 1
  BY <1>1, <1>2, FS_AddElement
<1>4. Cardinality(A \cup {p}) <= Cardinality(B)
  BY <1>1, <1>2, FS_Subset
<1>5. Cardinality(A) \in Nat /\ Cardinality(B) \in Nat
  BY <1>1, FS_CardinalityType
<1>6. Pos(L, p) = Cardinality(A) /\ Pos(L, q) = Cardinality(B)
  BY DEF Pos
<1> HIDE DEF A, B
<1> QED
  BY <1>3, <1>4, <1>5, <1>6

LEMMA PosOnto ==
    ASSUME NEW L, L \subseteq Nat, IsFiniteSet(L), NEW k \in 0..(Cardinality(L) - 1)
    PROVE  \E p \in L : Pos(L, p) = k
<1> DEFINE n == Cardinality(L)
           R == [p \in L |-> Pos(L, p)]
<1>1. n \in Nat
  BY FS_CardinalityType
<1>2. ASSUME NEW p \in L PROVE R[p] \in 0..(n - 1)
  BY PosRange
<1>3. ASSUME NEW p \in L, NEW q \in L, R[p] = R[q] PROVE p = q
  <2> SUFFICES ASSUME p # q PROVE FALSE
    OBVIOUS
  <2>1. p < q \/ q < p
    OBVIOUS
  <2>2. R[p] < R[q] \/ R[q] < R[p]
    BY <2>1, PosOrders
  <2>3. R[p] \in Nat /\ R[q] \in Nat
    BY <1>2
  <2> HIDE DEF R
  <2> QED
    BY <2>2, <2>3, <1>3
<1>4. R \in Injection(L, 0..(n - 1))
  <2>1. R \in [L -> 0..(n - 1)]
    BY <1>2
  <2>2. IsInjective(R)
    BY <1>3 DEF IsInjective
  <2> QED
    BY <2>1, <2>2 DEF Injection
<1>5. R \in Surjection(L, 0..(n - 1))
  <2>1. IsFiniteSet(0..(n - 1)) /\ Cardinality(0..(n - 1)) = n
    BY <1>1, FS_Interval
  <2> QED
    BY <2>1, <1>4, FS_Injection
<1> QED
  BY <1>5 DEF Surjection

LEMMA LeastOfFinite ==
    ASSUME NEW L, L \subseteq Nat, IsFiniteSet(L), L # {}
    PROVE  \E x \in L : \A y \in L : x <= y
<1>1. Cardinality(L) \in Nat /\ Cardinality(L) # 0
  BY FS_CardinalityType, FS_EmptySet
<1>2. 0 \in 0..(Cardinality(L) - 1)
  BY <1>1
<1>3. PICK x \in L : Pos(L, x) = 0
  BY <1>2, PosOnto
<1> DEFINE A == {y \in L : y < x}
<1>4. IsFiniteSet(A) /\ Cardinality(A) = 0
  BY <1>3, FS_Subset DEF Pos
<1>5. A = {}
  <2> HIDE DEF A
  <2> QED
    BY <1>4, FS_EmptySet
<1>6. \A y \in L : ~(y < x)
  BY <1>5
<1>7. \A y \in L : x <= y
  BY <1>6
<1> QED
  BY <1>7

(***************************************************************************)
(* r reports after the live ids last changed the cursor is r windows past  *)
(* the place b where the first of them began, and everything between has   *)
(* been seen; once the windows have gone around, all has.                  *)
(***************************************************************************)
Offset(L, id, b) == Wrap((Pos(L, id) - b) + Cardinality(L), Cardinality(L))

Between(L, b, k, s) == \A id \in L : Offset(L, id, b) < k => id \in s

Covered(L, c, r, s) ==
    r > 0 =>
        \/ Cardinality(L) <= r * maxReportedCounters /\ s = L
        \/ /\ r * maxReportedCounters < Cardinality(L) /\ c \in L
           /\ \E b \in 0..(Cardinality(L) - 1) :
                 /\ Pos(L, c) = Wrap(b + r * maxReportedCounters, Cardinality(L))
                 /\ Between(L, b, r * maxReportedCounters, s)

RotationInv == TypeOK /\ Covered(live, cursor, rounds, seen)

(***************************************************************************)
(* One window more.                                                        *)
(***************************************************************************)
LEMMA OneMoreWindow ==
    ASSUME NEW L, L \subseteq Nat, IsFiniteSet(L), NEW cap \in Nat, NEW k \in Nat,
           NEW b \in 0..(Cardinality(L) - 1), NEW st, NEW s, NEW w,
           k < Cardinality(L), cap < Cardinality(L),
           st = Wrap(b + k, Cardinality(L)), Between(L, b, k, s),
           \A id \in L : Offset(L, id, st) < cap => id \in w
    PROVE  Between(L, b, k + cap, s \cup w)
<1> DEFINE n == Cardinality(L)
<1>1. n \in Nat
  BY FS_CardinalityType
<1>2. SUFFICES ASSUME NEW id \in L, Offset(L, id, b) < k + cap, id \notin s
               PROVE  id \in w
  BY DEF Between
<1>3. Pos(L, id) \in 0..(n - 1)
  BY PosRange
<1>4. ~(Offset(L, id, b) < k)
  BY <1>2 DEF Between
<1> DEFINE p == Pos(L, id)
<1> HIDE DEF n, p
<1>5. /\ p \in 0..(n - 1) /\ b \in 0..(n - 1) /\ k < n /\ cap < n
      /\ st = Wrap(b + k, n)
      /\ ~(Wrap((p - b) + n, n) < k) /\ Wrap((p - b) + n, n) < k + cap
  BY <1>2, <1>3, <1>4 DEF Offset, n, p
<1>6. Wrap((p - st) + n, n) < cap
  <2>1. CASE b + k < n
    BY <1>1, <1>5, <2>1 DEF Wrap
  <2>2. CASE ~(b + k < n)
    BY <1>1, <1>5, <2>2 DEF Wrap
  <2> QED
    BY <2>1, <2>2
<1>7. Offset(L, id, st) < cap
  BY <1>6 DEF Offset, n, p
<1> QED
  BY <1>7

LEMMA AroundTheRing ==
    ASSUME NEW L, L \subseteq Nat, IsFiniteSet(L), NEW k \in Nat,
           NEW b \in 0..(Cardinality(L) - 1), NEW s, Cardinality(L) <= k, Between(L, b, k, s)
    PROVE  L \subseteq s
<1> DEFINE n == Cardinality(L)
<1>1. n \in Nat
  BY FS_CardinalityType
<1>2. ASSUME NEW id \in L PROVE id \in s
  <2>1. Pos(L, id) \in 0..(n - 1)
    BY PosRange
  <2> DEFINE p == Pos(L, id)
  <2> HIDE DEF n, p
  <2>2. p \in 0..(n - 1) /\ b \in 0..(n - 1) /\ n <= k
    BY <2>1 DEF n, p
  <2>3. Wrap((p - b) + n, n) < k
    BY <1>1, <2>2 DEF Wrap
  <2>4. Offset(L, id, b) < k
    BY <2>3 DEF Offset, n, p
  <2> QED
    BY <2>4 DEF Between
<1> QED
  BY <1>2

(***************************************************************************)
(* Where a report begins and what it sends.                                *)
(***************************************************************************)
LEMMA LiveIsFinite ==
    ASSUME TypeOK
    PROVE  /\ live \subseteq Nat /\ IsFiniteSet(live) /\ Total \in Nat
           /\ Total <= Cardinality(MappingIDs) /\ Cardinality(MappingIDs) \in Nat
           /\ Total = Cardinality(live) /\ \A id : Position(id) = Pos(live, id)
<1>1. live \subseteq MappingIDs /\ MappingIDs \subseteq Nat /\ IsFiniteSet(MappingIDs)
  BY RotationAssumption DEF TypeOK
<1>2. IsFiniteSet(live) /\ Cardinality(live) <= Cardinality(MappingIDs)
  BY <1>1, FS_Subset
<1>3. Cardinality(live) \in Nat /\ Cardinality(MappingIDs) \in Nat
  BY <1>1, <1>2, FS_CardinalityType
<1> QED
  BY <1>1, <1>2, <1>3 DEF Total, Position, Pos

LEMMA StartIs ==
    ASSUME TypeOK, live # {}
    PROVE  /\ Start \in 0..(Total - 1)
           /\ cursor \in live => Start = Pos(live, cursor)
<1> DEFINE after == {id \in live : id >= cursor}
<1>1. /\ live \subseteq Nat /\ IsFiniteSet(live) /\ Total \in Nat
      /\ Total = Cardinality(live) /\ \A id : Position(id) = Pos(live, id)
  BY LiveIsFinite
<1>2. cursor \in Nat
  BY RotationAssumption DEF TypeOK
<1>3. Start = IF after = {} THEN 0 ELSE Pos(live, Min(after))
  BY <1>1 DEF Start
<1>4. CASE after = {}
  <2>1. cursor \notin live
    BY <1>2, <1>4
  <2>2. Total # 0
    BY <1>1, FS_EmptySet
  <2> QED
    BY <1>1, <1>3, <1>4, <2>1, <2>2
<1>5. CASE after # {}
  <2>1. \E x \in after : \A y \in after : x <= y
    <3>1. after \subseteq Nat /\ IsFiniteSet(after)
      BY <1>1, FS_Subset
    <3> HIDE DEF after
    <3> QED
      BY <1>5, <3>1, LeastOfFinite
  <2>2. Min(after) \in after /\ \A y \in after : Min(after) <= y
    <3> HIDE DEF after
    <3> QED
      BY <2>1 DEF Min
  <2>3. Min(after) \in live
    BY <2>2
  <2>4. Start = Pos(live, Min(after))
    BY <1>3, <1>5
  <2>5. Pos(live, Min(after)) \in 0..(Total - 1)
    BY <1>1, <2>3, PosRange
  <2>6. cursor \in live => Min(after) = cursor
    <3>1. SUFFICES ASSUME cursor \in live PROVE Min(after) = cursor
      OBVIOUS
    <3>2. cursor \in after
      BY <3>1, <1>2
    <3>3. Min(after) <= cursor /\ Min(after) >= cursor /\ Min(after) \in Nat
      BY <2>2, <3>2, <1>1
    <3> QED
      BY <3>3, <1>2
  <2> QED
    BY <2>4, <2>5, <2>6
<1> QED
  BY <1>4, <1>5

LEMMA ReportStep ==
    ASSUME RotationInv, Snapshot
    PROVE  RotationInv'
<1> DEFINE n == Cardinality(live)
           cap == maxReportedCounters
<1>1. TypeOK /\ Covered(live, cursor, rounds, seen)
  BY DEF RotationInv
<1>2. /\ live \subseteq Nat /\ IsFiniteSet(live) /\ n \in Nat
      /\ n <= Cardinality(MappingIDs) /\ Cardinality(MappingIDs) \in Nat
      /\ Total = n /\ \A id : Position(id) = Pos(live, id)
  BY <1>1, LiveIsFinite
<1>3. cap \in Nat \ {0} /\ rounds \in Nat /\ seen \subseteq live /\ live \subseteq MappingIDs
  BY <1>1, <1>2, RotationAssumption DEF TypeOK
<1>4. /\ reported' = IF n > cap THEN Window ELSE live
      /\ cursor' = IF n > cap THEN Resume ELSE IF live = {} THEN cursor ELSE 0
      /\ seen' = seen \cup reported' /\ live' = live
      /\ rounds' = Min({rounds + 1, n})
  BY <1>2 DEF Snapshot, Overflowing
<1>5. rounds' = IF rounds + 1 <= n THEN rounds + 1 ELSE n
  <2>1. rounds + 1 \in Int /\ n \in Int
    BY <1>2, <1>3
  <2> HIDE DEF n
  <2> QED
    BY <1>4, <2>1, MinOfTwo
<1>6. Window \subseteq live
  BY DEF Window
<1>7. rounds' \in 0..Cardinality(MappingIDs) /\ rounds' \in Nat
  <2> HIDE DEF n
  <2> QED
    BY <1>2, <1>3, <1>5
<1>8. seen' \subseteq live /\ reported' \subseteq live
  BY <1>3, <1>4, <1>6
<1>9. ASSUME cursor' \in MappingIDs \cup {0}, Covered(live, cursor', rounds', seen') PROVE RotationInv'
  <2>1. TypeOK'
    BY <1>3, <1>4, <1>7, <1>8, <1>9 DEF TypeOK
  <2> QED
    BY <1>4, <1>9, <2>1 DEF RotationInv
<1>10. ASSUME NEW r \in Nat, r > 0 PROVE r <= r * cap /\ cap <= r * cap /\ r * cap \in Nat
  <2>1. r * cap \in Nat
    BY <1>3
  <2>2. \A x, y \in Nat \ {0} : x <= x * y /\ y <= x * y
    OBVIOUS
  <2> QED
    BY <1>3, <1>10, <2>1, <2>2
<1>11. CASE ~(n > cap)
  <2>1. seen' = live
    BY <1>3, <1>4, <1>11
  <2>2. cursor' \in MappingIDs \cup {0}
    BY <1>1, <1>4, <1>11 DEF TypeOK
  <2>3. rounds' > 0 => n <= rounds' * cap
    <3>1. rounds' > 0 => cap <= rounds' * cap /\ rounds' * cap \in Nat
      BY <1>7, <1>10
    <3>2. \A x, y, z \in Nat : ~(x > y) /\ y <= z => x <= z
      OBVIOUS
    <3> QED
      BY <3>1, <3>2, <1>2, <1>3, <1>11, Zenon
  <2>4. Covered(live, cursor', rounds', seen')
    BY <2>1, <2>3 DEF Covered
  <2> QED
    BY <1>9, <2>2, <2>4
<1>12. CASE n > cap
  <2>1. live # {}
    <3>1. n # 0
      BY <1>2, <1>3, <1>12
    <3> QED
      BY <3>1, FS_EmptySet
  <2>2. Start \in 0..(n - 1) /\ (cursor \in live => Start = Pos(live, cursor))
    BY <1>1, <1>2, <2>1, StartIs
  <2> DEFINE at == Wrap(Start + cap, n)
  <2>3. at \in 0..(n - 1) /\ (Start + cap) % n = at
    <3> HIDE DEF n
    <3>1. Start + cap \in Nat /\ Start + cap < n + n /\ n \in Nat \ {0}
      BY <1>2, <1>3, <1>12, <2>2
    <3>2. (Start + cap) % n = at
      BY <3>1, ModIsWrap
    <3>3. at \in 0..(n - 1)
      BY <3>1, <1>3, <1>12, <2>2 DEF Wrap
    <3> QED
      BY <3>2, <3>3
  <2>4. cursor' \in live /\ Pos(live, cursor') = at
    <3>1. cursor' = CHOOSE id \in live : Pos(live, id) = at
      <4> HIDE DEF at, n
      <4> QED
        BY <1>2, <1>4, <1>12, <2>3 DEF Resume, At
    <3>2. \E id \in live : Pos(live, id) = at
      <4> HIDE DEF at
      <4> QED
        BY <1>2, <2>3, PosOnto
    <3> HIDE DEF at
    <3> QED
      BY <3>1, <3>2
  <2>5. cursor' \in MappingIDs \cup {0}
    BY <1>3, <2>4
  <2>6. \A id \in live : Offset(live, id, Start) < cap => id \in reported'
    <3>1. SUFFICES ASSUME NEW id \in live, Offset(live, id, Start) < cap PROVE id \in Window
      BY <1>4, <1>12
    <3> DEFINE p == Pos(live, id)
    <3>2. p \in 0..(n - 1)
      BY <1>2, PosRange
    <3> HIDE DEF n, p
    <3>3. (p - Start) + n \in Nat /\ (p - Start) + n < n + n /\ n \in Nat \ {0}
      BY <1>2, <1>3, <1>12, <2>2, <3>2
    <3>4. ((p - Start) + n) % n = Wrap((p - Start) + n, n)
      BY <3>3, ModIsWrap
    <3>5. Wrap((p - Start) + n, n) < cap
      BY <3>1 DEF Offset, n, p
    <3>6. (Position(id) - Start + Total) % Total < maxReportedCounters
      BY <1>2, <3>4, <3>5 DEF p
    <3> QED
      BY <3>6 DEF Window
  <2>7. CASE rounds = 0
    <3>1. rounds' = 1 /\ 1 * cap = cap
      <4> HIDE DEF n
      <4> QED
        BY <1>2, <1>3, <1>5, <1>12, <2>7
    <3>2. Between(live, Start, cap, seen')
      BY <1>4, <2>6 DEF Between
    <3>3. Covered(live, cursor', rounds', seen')
      <4> HIDE DEF at
      <4>1. cap < n /\ Pos(live, cursor') = Wrap(Start + cap, n)
        BY <1>2, <1>3, <1>12, <2>4 DEF at
      <4> QED
        BY <2>2, <2>4, <3>1, <3>2, <4>1 DEF Covered
    <3> QED
      BY <1>9, <2>5, <3>3
  <2>8. CASE rounds # 0 /\ n <= rounds * cap
    <3>1. seen = live
      <4>1. rounds > 0 /\ ~(rounds * cap < n)
        BY <1>2, <1>3, <1>10, <2>8
      <4> QED
        BY <1>1, <4>1 DEF Covered
    <3>2. seen' = live
      BY <1>8, <1>4, <3>1
    <3>3. n <= rounds' * cap
      <4>1. CASE rounds + 1 <= n
        <5>1. rounds' = rounds + 1 /\ (rounds + 1) * cap = rounds * cap + cap
          BY <1>3, <1>5, <4>1
        <5>2. rounds * cap \in Nat
          BY <1>3, <1>10, <2>8
        <5> HIDE DEF n
        <5> QED
          BY <1>2, <1>3, <2>8, <5>1, <5>2
      <4>2. CASE ~(rounds + 1 <= n)
        <5>1. rounds' = n /\ n > 0
          <6> HIDE DEF n
          <6> QED
            BY <1>2, <1>3, <1>5, <1>12, <4>2
        <5> HIDE DEF n
        <5>2. n <= n * cap
          BY <1>2, <1>10, <5>1
        <5> QED
          BY <5>1, <5>2
      <4> QED
        BY <4>1, <4>2
    <3>4. Covered(live, cursor', rounds', seen')
      BY <3>2, <3>3 DEF Covered
    <3> QED
      BY <1>9, <2>5, <3>4
  <2>9. CASE rounds # 0 /\ ~(n <= rounds * cap)
    <3> DEFINE k == rounds * cap
    <3>1. rounds > 0 /\ k \in Nat /\ rounds <= k /\ k < n
      <4>1. rounds > 0
        BY <1>3, <2>9
      <4> HIDE DEF n
      <4> QED
        BY <1>2, <1>3, <1>10, <2>9, <4>1
    <3>2. /\ cursor \in live
          /\ \E b \in 0..(n - 1) : Pos(live, cursor) = Wrap(b + k, n) /\ Between(live, b, k, seen)
      BY <1>1, <2>9, <3>1 DEF Covered
    <3>3. PICK b \in 0..(n - 1) : Pos(live, cursor) = Wrap(b + k, n) /\ Between(live, b, k, seen)
      BY <3>2
    <3>4. rounds' = rounds + 1 /\ rounds' * cap = k + cap /\ rounds' > 0
      <4>1. rounds' = rounds + 1
        <5> HIDE DEF n, k
        <5> QED
          BY <1>2, <1>3, <1>5, <3>1
      <4>2. (rounds + 1) * cap = rounds * cap + cap
        BY <1>3
      <4> QED
        BY <1>3, <4>1, <4>2
    <3>5. Start = Wrap(b + k, n)
      BY <2>2, <3>2, <3>3
    <3> HIDE DEF k
    <3>6. Between(live, b, k + cap, seen')
      <4>1. cap < n
        BY <1>2, <1>3, <1>12
      <4>2. cap \in Nat
        BY <1>3
      <4>3. Between(live, b, k + cap, seen \cup reported')
        BY <1>2, <2>6, <3>1, <3>3, <3>5, <4>1, <4>2, OneMoreWindow
      <4> QED
        BY <1>4, <4>3
    <3>7. CASE n <= k + cap
      <4>1. live \subseteq seen'
        <5>1. k + cap \in Nat
          BY <1>3, <3>1
        <5> QED
          BY <1>2, <3>6, <3>7, <5>1, AroundTheRing
      <4>2. seen' = live
        BY <1>8, <4>1
      <4>3. Covered(live, cursor', rounds', seen')
        BY <3>4, <3>7, <4>2 DEF Covered
      <4> QED
        BY <1>9, <2>5, <4>3
    <3>8. CASE ~(n <= k + cap)
      <4>1. k + cap < n
        <5> HIDE DEF n
        <5> QED
          BY <1>2, <1>3, <3>1, <3>8
      <4>2. Pos(live, cursor') = Wrap(b + (k + cap), n)
        <5>1. Pos(live, cursor') = Wrap(Wrap(b + k, n) + cap, n)
          BY <2>4, <3>5
        <5>2. Wrap(Wrap(b + k, n) + cap, n) = Wrap(b + (k + cap), n)
          <6> HIDE DEF n
          <6> QED
            BY <1>2, <1>3, <3>1, <4>1 DEF Wrap
        <5> QED
          BY <5>1, <5>2
      <4>3. Covered(live, cursor', rounds', seen')
        BY <2>4, <3>4, <3>6, <4>1, <4>2 DEF Covered
      <4> QED
        BY <1>9, <2>5, <4>3
    <3> QED
      BY <3>7, <3>8
  <2> QED
    BY <2>7, <2>8, <2>9
<1> QED
  BY <1>11, <1>12

LEMMA RotationInvariance == Spec => []RotationInv
<1>1. Init => RotationInv
  <2>1. SUFFICES ASSUME Init PROVE RotationInv
    OBVIOUS
  <2>2. Cardinality(MappingIDs) \in Nat
    BY FS_CardinalityType, RotationAssumption
  <2>3. TypeOK
    BY <2>1, <2>2 DEF Init, TypeOK
  <2> QED
    BY <2>1, <2>3 DEF Init, RotationInv, Covered
<1>2. RotationInv /\ [Next]_vars => RotationInv'
  <2>1. SUFFICES ASSUME RotationInv, [Next]_vars PROVE RotationInv'
    OBVIOUS
  <2>2. TypeOK /\ Cardinality(MappingIDs) \in Nat
    BY <2>1, FS_CardinalityType, RotationAssumption DEF RotationInv
  <2>3. CASE Snapshot
    BY <2>1, <2>3, ReportStep
  <2>4. ASSUME live' \subseteq MappingIDs, rounds' = 0, seen' = {}, cursor' = cursor, reported' = reported
        PROVE  RotationInv'
    <3>1. TypeOK'
      BY <2>2, <2>4 DEF TypeOK
    <3> QED
      BY <2>4, <3>1 DEF RotationInv, Covered
  <2>5. ASSUME NEW ids \in SUBSET MappingIDs, Grow(ids) PROVE RotationInv'
    BY <2>2, <2>4, <2>5 DEF Grow, TypeOK
  <2>6. ASSUME NEW ids \in SUBSET MappingIDs, Shrink(ids) PROVE RotationInv'
    BY <2>2, <2>4, <2>6 DEF Shrink, TypeOK
  <2>7. CASE UNCHANGED vars
    BY <2>1, <2>7 DEF vars, RotationInv, TypeOK, Covered
  <2> QED
    BY <2>1, <2>3, <2>5, <2>6, <2>7 DEF Next
<1> QED
  BY <1>1, <1>2, PTL DEF Spec

(***************************************************************************)
(* While the live mappings stay the same, ceil(n / cap) consecutive        *)
(* reports hold every one of them, for any number of mappings, any cap and *)
(* wherever the cursor was left by mappings that were there before.        *)
(***************************************************************************)
THEOREM RotationIsFair == Spec => []RotationCovers
<1>1. RotationInv => RotationCovers
  <2>1. SUFFICES ASSUME RotationInv, rounds * maxReportedCounters >= Total, rounds > 0
                 PROVE  seen = live
    BY DEF RotationCovers
  <2>2. TypeOK /\ Covered(live, cursor, rounds, seen)
    BY <2>1 DEF RotationInv
  <2>3. Total \in Nat /\ Total = Cardinality(live) /\ Cardinality(MappingIDs) \in Nat
    BY <2>2, LiveIsFinite
  <2>4. rounds * maxReportedCounters \in Nat
    BY <2>2, <2>3, RotationAssumption DEF TypeOK
  <2>5. ~(rounds * maxReportedCounters < Cardinality(live))
    BY <2>1, <2>3, <2>4
  <2> QED
    BY <2>1, <2>2, <2>5 DEF Covered
<1> QED
  BY <1>1, RotationInvariance, PTL
=============================================================================
