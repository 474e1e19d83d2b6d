---------------------------- MODULE LedgerLemmas ----------------------------
(***************************************************************************)
(* What Prepare and Clear do to one ledger, for every size of the          *)
(* constants: facts the proofs about LedgerMachine and RelayAgent share.   *)
(***************************************************************************)
EXTENDS RetirementLedger, Sequences, FiniteSetTheorems, TLAPS

(***************************************************************************)
(* What the lemmas need of a document: less than Validate, and all of it   *)
(* true of every document that passes Validate.                            *)
(***************************************************************************)
WellFormed(s) ==
    /\ s \in Snapshots /\ IsFiniteSet(s.retirements)
    /\ s.managed => /\ s.ack \in Generations
                    /\ \A m \in s.mappings : m.mark \in Marks /\ m.mark > 0
                    /\ \A m \in s.mappings, r \in s.retirements : m.id # r.id
    /\ ~s.managed => \A m \in s.mappings : m.mark = Absent

LEMMA ValidIsWellFormed ==
    ASSUME NEW s \in Snapshots, IsFiniteSet(s.retirements), Validate(s)
    PROVE  WellFormed(s)
<1>1. s.managed => s.ack \in Generations
  BY DEF Snapshots, Validate, AckMatchesForm
<1>2. ASSUME NEW m \in s.mappings
      PROVE  IF s.managed THEN m.mark \in Marks /\ m.mark > 0 ELSE m.mark = Absent
  <2>1. m.mark \in Marks \cup {Absent}
    BY DEF Snapshots, Mappings
  <2> QED
    BY <2>1, BoundsAssumption DEF Validate, MappingOK, Marks, Absent
<1>3. \A m \in s.mappings, r \in s.retirements : m.id # r.id
  BY DEF Validate, RetirementOK
<1> QED
  BY <1>1, <1>2, <1>3 DEF WellFormed

(***************************************************************************)
(* A non-empty set of numbers up to N has a largest member, and Max finds  *)
(* it: the high-water marks really are upper bounds.                       *)
(***************************************************************************)
LEMMA MaxBounded ==
    ASSUME NEW N \in Nat, NEW S, S \subseteq 0..N, S # {}
    PROVE  Max(S) \in S /\ \A x \in S : x <= Max(S)
<1> DEFINE T == {n \in Nat : \A y \in S : y <= n}
<1> DEFINE R == OpToRel(<, Nat)
<1>1. N \in T
  OBVIOUS
<1>2. PICK b \in T : \A c \in T : ~(<<c, b>> \in R)
  <2>1. IsWellFoundedOn(R, Nat)
    BY NatLessThanWellFounded
  <2>2. T \subseteq Nat /\ T # {}
    BY <1>1
  <2> HIDE DEF T, R
  <2> QED
    BY <2>1, <2>2, WFMin
<1>3. \A c \in T : ~(c < b)
  BY <1>2 DEF OpToRel
<1>4. b \in S
  <2> SUFFICES ASSUME b \notin S PROVE FALSE
    OBVIOUS
  <2>1. \A y \in S : y \in Nat /\ y <= b /\ y # b
    OBVIOUS
  <2>2. PICK y \in S : TRUE
    OBVIOUS
  <2>3. b \in Nat /\ b # 0 /\ b - 1 \in Nat
    BY <2>1, <2>2
  <2>4. b - 1 \in T
    BY <2>1, <2>3
  <2> QED
    BY <1>3, <2>3, <2>4
<1>5. \E x \in S : \A y \in S : x >= y
  <2> WITNESS b \in S
  <2> QED
    BY <1>4
<1> QED
  BY <1>5 DEF Max

(***************************************************************************)
(* The high-water marks of an accepted snapshot stay in range, never fall  *)
(* and cover every mapping and retirement that is new in it.               *)
(***************************************************************************)
LEMMA AdvanceHighWater ==
    ASSUME NEW l \in Ledgers, NEW s, WellFormed(s), s.managed
    PROVE  /\ Advance(l, s).idHW \in IDs /\ l.idHW <= Advance(l, s).idHW
           /\ Advance(l, s).markHW \in Marks
           /\ l.markHW <= Advance(l, s).markHW
           /\ Advance(l, s).retHW \in Generations
           /\ l.retHW <= Advance(l, s).retHW
           /\ \A m \in FreshMappings(l, s) :
                m.id <= Advance(l, s).idHW /\ m.mark <= Advance(l, s).markHW
<1> DEFINE I == {l.idHW} \cup {m.id : m \in FreshMappings(l, s)}
           K == {l.markHW} \cup {m.mark : m \in FreshMappings(l, s)}
           G == {l.retHW} \cup {r.gen : r \in FreshRetirements(l, s)}
<1>1. /\ Advance(l, s).idHW = Max(I)
      /\ Advance(l, s).markHW = Max(K)
      /\ Advance(l, s).retHW = Max(G)
  BY DEF Advance
<1>2. l.idHW \in IDs /\ l.markHW \in Marks /\ l.retHW \in Generations
  BY DEF Ledgers
<1>3. FreshMappings(l, s) \subseteq s.mappings /\ s.mappings \subseteq Mappings
  BY DEF FreshMappings, WellFormed, Snapshots
<1>4. \A m \in FreshMappings(l, s) : m.id \in IDs /\ m.mark \in Marks
  <2> TAKE m \in FreshMappings(l, s)
  <2> QED
    BY <1>3 DEF WellFormed, Mappings
<1>5. \A r \in FreshRetirements(l, s) : r.gen \in Generations
  BY DEF FreshRetirements, WellFormed, Snapshots, Retirements
<1>6. MaxID \in Nat /\ MaxMark \in Nat /\ MaxGeneration \in Nat
  BY BoundsAssumption
<1>7. I \subseteq 0..MaxID /\ I # {}
  BY <1>2, <1>4 DEF IDs
<1>8. K \subseteq 0..MaxMark /\ K # {}
  BY <1>2, <1>4 DEF Marks
<1>9. G \subseteq 0..MaxGeneration /\ G # {}
  BY <1>2, <1>5 DEF Generations
<1>10. Max(I) \in I /\ \A x \in I : x <= Max(I)
  BY <1>6, <1>7, MaxBounded
<1>11. Max(K) \in K /\ \A x \in K : x <= Max(K)
  BY <1>6, <1>8, MaxBounded
<1>12. Max(G) \in G /\ \A x \in G : x <= Max(G)
  BY <1>6, <1>9, MaxBounded
<1>13. l.idHW \in I /\ l.markHW \in K /\ l.retHW \in G
  OBVIOUS
<1>14. \A m \in FreshMappings(l, s) : m.id \in I /\ m.mark \in K
  OBVIOUS
<1> HIDE DEF I, K, G
<1> QED
  BY <1>1, <1>7, <1>8, <1>9, <1>10, <1>11, <1>12, <1>13, <1>14
     DEF IDs, Marks, Generations

(***************************************************************************)
(* The hash of a managed snapshot is a hash, and never the empty one.      *)
(***************************************************************************)
LEMMA DesiredHashType ==
    ASSUME NEW s \in Snapshots
    PROVE  DesiredHash(s) \in DesiredHashes /\ DesiredHash(s) # NoHash
<1>1. /\ s.gen \in Generations /\ s.mappings \in SUBSET Mappings
      /\ s.retirements \in SUBSET Retirements
      /\ s.ack \in Generations \cup {Absent}
  BY DEF Snapshots
<1>2. DesiredHash(s) \in DesiredHashes
  BY <1>1 DEF DesiredHash, DesiredHashes
<1>3. Len(<<s.gen, s.mappings, s.retirements, s.ack>>) = 4 /\ Len(<<>>) = 0
  OBVIOUS
<1> QED
  BY <1>2, <1>3 DEF DesiredHash, NoHash

(***************************************************************************)
(* Prepare yields a well-formed ledger record.                             *)
(***************************************************************************)
LEMMA AdvanceType ==
    ASSUME NEW l \in Ledgers, NEW s, WellFormed(s), s.managed
    PROVE  Advance(l, s) \in Ledgers
<1>1. /\ s.gen \in Generations /\ s.mappings \subseteq Mappings
      /\ s.retirements \subseteq Retirements
  BY DEF WellFormed, Snapshots
<1>2. s.ack \in Generations
  BY DEF WellFormed
<1>3. NextActive(l, s) \subseteq Epochs
  <2>1. \A m \in s.mappings : EpochOf(m) \in Epochs
    <3> TAKE m \in s.mappings
    <3>1. m \in Mappings /\ m.mark \in Marks
      BY <1>1 DEF WellFormed
    <3>2. /\ m.id \in IDs /\ m.key \in Keys /\ m.target \in Targets
          /\ m.mark \in Marks
      BY <3>1 DEF Mappings
    <3>3. MappingHash(m) \in Hashes
      BY <3>2 DEF MappingHash, TupleHash, Hashes
    <3> QED
      BY <3>2, <3>3 DEF EpochOf, Epochs
  <2> QED
    BY <2>1 DEF NextActive
<1>4. NextEntries(l, s) \subseteq Entries
  <2>1. l.entries \subseteq Entries
    BY DEF Ledgers
  <2>2. Kept(l, s.ack) \subseteq Entries
    BY <2>1 DEF Kept
  <2>3. \A r \in FreshRetirements(l, s) : [ret |-> r, cleared |-> FALSE] \in Entries
    BY <1>1 DEF FreshRetirements, Entries
  <2> QED
    BY <2>2, <2>3 DEF NextEntries
<1>5. DesiredHash(s) \in DesiredHashes
  BY DesiredHashType DEF WellFormed
<1> QED
  BY <1>1, <1>2, <1>3, <1>4, <1>5, AdvanceHighWater DEF Advance, Ledgers

-----------------------------------------------------------------------------
(***************************************************************************)
(* What Clear does to each entry, and that it keeps the ledger a ledger    *)
(* that Load accepts.                                                      *)
(***************************************************************************)
Marked(e, rids) == IF e.ret.rid \in rids THEN [e EXCEPT !.cleared = TRUE] ELSE e

LEMMA MarkedEntry ==
    ASSUME NEW e \in Entries, NEW rids
    PROVE  /\ Marked(e, rids) \in Entries
           /\ Marked(e, rids).ret = e.ret
           /\ Marked(e, rids).cleared <=> e.cleared \/ e.ret.rid \in rids
  BY DEF Entries, Marked

LEMMA ClearKeepsLedger ==
    ASSUME NEW l \in Ledgers, NEW rids,
           ValidLedger(l), IsFiniteSet(l.entries)
    PROVE  /\ Clear(l, rids) \in Ledgers
           /\ Clear(l, rids) = [l EXCEPT !.entries = Clear(l, rids).entries]
           /\ Clear(l, rids).entries = {Marked(e, rids) : e \in l.entries}
           /\ ValidLedger(Clear(l, rids))
           /\ IsFiniteSet(Clear(l, rids).entries)
<1> DEFINE n == Clear(l, rids)
           E == {Marked(e, rids) : e \in l.entries}
<1>1. n = [l EXCEPT !.entries = E]
  BY DEF Clear, Marked
<1>2. l.entries \subseteq Entries
  BY DEF Ledgers
<1>3. /\ n.entries = E /\ n.active = l.active /\ n.armed = l.armed
      /\ n.idHW = l.idHW /\ n.markHW = l.markHW /\ n.retHW = l.retHW
      /\ n.genHW = l.genHW /\ n.desired = l.desired /\ n.ackHW = l.ackHW
  BY <1>1 DEF Ledgers
<1>4. E \subseteq Entries
  BY <1>2, MarkedEntry
<1>5. n \in Ledgers
  BY <1>1, <1>4 DEF Ledgers
<1>6. IsFiniteSet(E) /\ Cardinality(E) <= Cardinality(l.entries)
  <2> DEFINE f == [e \in l.entries |-> Marked(e, rids)]
  <2>1. f \in Surjection(l.entries, E)
    BY DEF Surjection
  <2> HIDE DEF f, E
  <2> QED
    BY <2>1, FS_Surjection
<1>7. ActiveValid(n)
  BY <1>3 DEF ValidLedger, ActiveValid
<1>8. EntriesValid(n)
  <2>1. Cardinality(n.entries) <= MaxRetirements
    <3>1. Cardinality(l.entries) \in Nat /\ Cardinality(E) \in Nat
      BY <1>6, FS_CardinalityType
    <3>2. Cardinality(l.entries) <= MaxRetirements
      BY DEF ValidLedger, EntriesValid
    <3> HIDE DEF E, n
    <3> QED
      BY <3>1, <3>2, <1>3, <1>6, BoundsAssumption
  <2>2. \A d \in n.entries : \E e \in l.entries : d = Marked(e, rids) /\ d.ret = e.ret
    BY <1>2, <1>3, MarkedEntry
  <2> HIDE DEF n, E
  <2>3. \A d \in n.entries :
        /\ d.ret.id > 0 /\ d.ret.id <= n.idHW
        /\ d.ret.mark > 0 /\ d.ret.mark <= n.markHW
        /\ d.ret.gen <= n.retHW
        /\ d.ret.hash = TupleHash(d.ret.id, d.ret.key, d.ret.target, d.ret.mark)
        /\ \A a \in n.active : a.id # d.ret.id /\ a.mark # d.ret.mark
    BY <1>3, <2>2 DEF ValidLedger, EntriesValid
  <2>4. \A c, d \in n.entries :
        c # d => /\ c.ret.rid # d.ret.rid
                 /\ c.ret.id # d.ret.id
                 /\ c.ret.mark # d.ret.mark
    BY <1>3, <2>2 DEF ValidLedger, EntriesValid
  <2> QED
    BY <2>1, <2>3, <2>4 DEF EntriesValid
<1>9. ValidLedger(n)
  BY <1>3, <1>7, <1>8 DEF ValidLedger
<1> QED
  BY <1>1, <1>3, <1>5, <1>6, <1>9

-----------------------------------------------------------------------------
(***************************************************************************)
(* What Prepare makes of the active set and of the entries: a continuing   *)
(* epoch keeps its tuple, a new one lies above both high-water marks, and  *)
(* a new entry fences exactly an epoch that was active.                    *)
(***************************************************************************)
LEMMA NextActiveOrigin ==
    ASSUME NEW l, NEW s, s.managed, PrepareOK(l, s), NEW a \in NextActive(l, s)
    PROVE  a \in l.active \/ (a.id > l.idHW /\ a.mark > l.markHW)
<1>1. PICK m \in s.mappings : a = EpochOf(m)
  BY DEF NextActive
<1>2. a.id = m.id /\ a.mark = m.mark
  BY <1>1 DEF EpochOf
<1>3. EpochOK(l, m)
  BY DEF PrepareOK
<1> QED
  BY <1>1, <1>2, <1>3 DEF EpochOK

LEMMA NextEntryOrigin ==
    ASSUME NEW l, NEW s, s.managed, PrepareOK(l, s), NEW d \in NextEntries(l, s)
    PROVE  \/ d \in l.entries /\ d.ret.gen > s.ack
           \/ /\ ~d.cleared /\ d.ret.gen > l.retHW
              /\ RetiredEpoch(d.ret) \in l.active
<1>1. CASE d \in Kept(l, s.ack)
  BY <1>1 DEF Kept
<1>2. CASE d \notin Kept(l, s.ack)
  <2>1. PICK r \in FreshRetirements(l, s) : d = [ret |-> r, cleared |-> FALSE]
    BY <1>2 DEF NextEntries
  <2>2. r \in s.retirements /\ ~KnownEntry(l, s, r)
    BY DEF FreshRetirements
  <2>3. RetirementAccepted(l, s, r)
    BY <2>2 DEF PrepareOK
  <2> QED
    BY <2>1, <2>2, <2>3 DEF RetirementAccepted
<1> QED
  BY <1>1, <1>2

LEMMA NextEntriesFinite ==
    ASSUME NEW l, NEW s, IsFiniteSet(l.entries), IsFiniteSet(s.retirements)
    PROVE  IsFiniteSet(NextEntries(l, s))
<1> DEFINE F == FreshRetirements(l, s)
           E == {[ret |-> r, cleared |-> FALSE] : r \in F}
           f == [r \in F |-> [ret |-> r, cleared |-> FALSE]]
<1>1. IsFiniteSet(Kept(l, s.ack))
  <2>1. Kept(l, s.ack) \subseteq l.entries
    BY DEF Kept
  <2> QED
    BY <2>1, FS_Subset
<1>2. IsFiniteSet(F)
  <2>1. F \subseteq s.retirements
    BY DEF FreshRetirements
  <2> QED
    BY <2>1, FS_Subset
<1>3. f \in Surjection(F, E)
  <2> HIDE DEF F
  <2> QED
    BY DEF Surjection
<1>4. IsFiniteSet(E)
  <2> HIDE DEF f, E, F
  <2> QED
    BY <1>2, <1>3, FS_Surjection
<1>5. NextEntries(l, s) = Kept(l, s.ack) \cup E
  BY DEF NextEntries
<1> HIDE DEF E
<1> QED
  BY <1>1, <1>4, <1>5, FS_Union

(***************************************************************************)
(* An accepted managed snapshot loses no epoch: each one that was active   *)
(* stays active or gets its entry, and an entry leaves only with its proof *)
(* on record.                                                              *)
(***************************************************************************)
LEMMA ActiveStaysOrRetires ==
    ASSUME NEW l, ActiveValid(l), EntriesValid(l),
           NEW s, s.managed, PrepareOK(l, s), NEW e \in l.active
    PROVE  \/ e \in NextActive(l, s)
           \/ \E d \in NextEntries(l, s) : RetiredEpoch(d.ret) = e
<1>1. CASE e.id \in RetiredIDs(l, s)
  <2>1. PICK d \in NextEntries(l, s) : d.ret.id = e.id
    BY <1>1 DEF RetiredIDs
  <2>2. d \notin l.entries
    BY <2>1 DEF EntriesValid
  <2>3. RetiredEpoch(d.ret) \in l.active
    BY <2>2, NextEntryOrigin
  <2>4. RetiredEpoch(d.ret).id = e.id
    BY <2>1 DEF RetiredEpoch
  <2>5. RetiredEpoch(d.ret) = e
    BY <2>3, <2>4 DEF ActiveValid
  <2> QED
    BY <2>5
<1>2. CASE e.id \notin RetiredIDs(l, s)
  <2>1. NoneVanished(l, s)
    BY DEF PrepareOK
  <2>2. PICK m \in s.mappings : m.id = e.id
    BY <1>2, <2>1 DEF NoneVanished
  <2>3. EpochOK(l, m) /\ Continues(l, m)
    BY <2>2 DEF PrepareOK, Continues
  <2>4. EpochOf(m) \in l.active /\ EpochOf(m).id = e.id
    BY <2>2, <2>3 DEF EpochOK, EpochOf
  <2>5. EpochOf(m) = e
    BY <2>4 DEF ActiveValid
  <2>6. EpochOf(m) \in NextActive(l, s)
    BY <1>2, <2>2 DEF NextActive
  <2> QED
    BY <2>5, <2>6
<1> QED
  BY <1>1, <1>2

LEMMA EntryStaysOrCleared ==
    ASSUME NEW l \in Ledgers, NEW s \in Snapshots, s.managed, PrepareOK(l, s),
           NEW d \in l.entries
    PROVE  d \in NextEntries(l, s) \/ d.cleared
<1>1. d.ret.gen \in Int /\ s.ack \in Int
  BY DEF Ledgers, Entries, Retirements, Snapshots, Generations, Absent
<1>2. CASE d.ret.gen > s.ack
  BY <1>2 DEF NextEntries, Kept
<1>3. CASE ~(d.ret.gen > s.ack)
  <2>1. d \in Compacted(l, s.ack)
    BY <1>1, <1>3 DEF Compacted
  <2> QED
    BY <2>1 DEF PrepareOK, AckOK
<1> QED
  BY <1>2, <1>3

-----------------------------------------------------------------------------
(***************************************************************************)
(* A sound ledger is one that Load accepts, whose acknowledgement lies     *)
(* below every entry, and whose active epochs are the mappings of the      *)
(* document it has the hash of.                                            *)
(***************************************************************************)
AckBelow(l) == \A e \in l.entries : e.ret.gen > l.ackHW

ActiveIsDesired(l) == l.desired # NoHash => l.active = {EpochOf(m) : m \in l.desired[2]}

Sound(l) ==
    /\ l \in Ledgers /\ ValidLedger(l) /\ IsFiniteSet(l.entries)
    /\ AckBelow(l) /\ ActiveIsDesired(l)

LEMMA NewLedgerSound == Sound(NewLedger)
<1>1. NewLedger \in Ledgers
  BY BoundsAssumption DEF NewLedger, Ledgers, IDs, Marks, Generations, DesiredHashes
<1>2. IsFiniteSet({}) /\ Cardinality({}) = 0
  BY FS_EmptySet
<1>3. ValidLedger(NewLedger)
  BY <1>2, BoundsAssumption DEF NewLedger, ValidLedger, ActiveValid, EntriesValid
<1> QED
  BY <1>1, <1>2, <1>3 DEF Sound, AckBelow, ActiveIsDesired, NewLedger

(***************************************************************************)
(* In an accepted document no mapping is retired: a continuing one is      *)
(* active, which no entry is, and a new one lies above every entry.        *)
(***************************************************************************)
LEMMA MappingsStayActive ==
    ASSUME NEW l, Sound(l), NEW s, WellFormed(s), s.managed, PrepareOK(l, s)
    PROVE  NextActive(l, s) = {EpochOf(m) : m \in s.mappings}
<1> SUFFICES ASSUME NEW m \in s.mappings, NEW d \in NextEntries(l, s), d.ret.id = m.id
             PROVE  FALSE
  BY DEF NextActive, RetiredIDs
<1>1. EpochOK(l, m) /\ EpochOf(m).id = m.id
  BY DEF PrepareOK, EpochOf
<1>2. l.idHW \in Int /\ m.id \in Int
  BY DEF Sound, Ledgers, IDs, WellFormed, Snapshots, Mappings
<1>3. CASE d \in Kept(l, s.ack)
  <2>1. d \in l.entries
    BY <1>3 DEF Kept
  <2>2. d.ret.id <= l.idHW /\ \A a \in l.active : a.id # d.ret.id
    BY <2>1 DEF Sound, ValidLedger, EntriesValid
  <2> QED
    BY <1>1, <1>2, <2>2 DEF EpochOK
<1>4. CASE d \notin Kept(l, s.ack)
  <2>1. d.ret \in s.retirements
    BY <1>4 DEF NextEntries, FreshRetirements
  <2> QED
    BY <2>1 DEF WellFormed
<1> QED
  BY <1>3, <1>4

LEMMA PreparedSound ==
    ASSUME NEW l, Sound(l), NEW s, WellFormed(s), PrepareOK(l, s)
    PROVE  Sound(Prepared(l, s))
<1>1. CASE ~s.managed
  BY <1>1 DEF Prepared
<1>2. CASE s.managed
  <2> DEFINE n == Advance(l, s)
  <2>1. Prepared(l, s) = n
    BY <1>2 DEF Prepared
  <2>2. n \in Ledgers /\ ValidLedger(n)
    BY <1>2, AdvanceType DEF Sound, PrepareOK
  <2>3. n.entries = NextEntries(l, s) /\ n.ackHW = s.ack /\ n.desired = DesiredHash(s)
        /\ n.active = NextActive(l, s)
    BY DEF Advance
  <2>4. IsFiniteSet(n.entries)
    BY <2>3, NextEntriesFinite DEF Sound, WellFormed
  <2>5. ASSUME NEW d \in n.entries PROVE d.ret.gen > n.ackHW
    <3>1. d.ret.gen \in Int /\ l.retHW \in Int /\ s.ack \in Int
      BY <1>2, <2>2 DEF Ledgers, Entries, Retirements, Generations, Sound, WellFormed
    <3>2. s.ack <= l.retHW
      BY <1>2 DEF PrepareOK, AckOK
    <3>3. d.ret.gen > s.ack \/ d.ret.gen > l.retHW
      BY <1>2, <2>3, NextEntryOrigin
    <3> QED
      BY <2>3, <3>1, <3>2, <3>3
  <2>6. n.desired[2] = s.mappings
    BY <2>3 DEF DesiredHash
  <2>7. n.active = {EpochOf(m) : m \in n.desired[2]}
    BY <1>2, <2>3, <2>6, MappingsStayActive
  <2> HIDE DEF n
  <2> QED
    BY <2>1, <2>2, <2>4, <2>5, <2>7 DEF Sound, AckBelow, ActiveIsDesired
<1> QED
  BY <1>1, <1>2

LEMMA ClearSound ==
    ASSUME NEW l, Sound(l), NEW rids
    PROVE  Sound(Clear(l, rids))
<1> DEFINE n == Clear(l, rids)
<1>1. /\ n \in Ledgers /\ ValidLedger(n) /\ IsFiniteSet(n.entries)
      /\ n = [l EXCEPT !.entries = n.entries]
      /\ n.entries = {Marked(e, rids) : e \in l.entries}
  BY ClearKeepsLedger DEF Sound
<1>2. n.active = l.active /\ n.desired = l.desired /\ n.ackHW = l.ackHW
  BY <1>1 DEF Sound, Ledgers
<1>3. \A e \in l.entries : Marked(e, rids).ret = e.ret
  BY MarkedEntry DEF Sound, Ledgers
<1> HIDE DEF n
<1>4. AckBelow(n)
  BY <1>1, <1>2, <1>3 DEF Sound, AckBelow
<1>5. ActiveIsDesired(n)
  BY <1>2 DEF Sound, ActiveIsDesired
<1> QED
  BY <1>1, <1>4, <1>5 DEF Sound, n

(***************************************************************************)
(* Preparing a document that the ledger has already absorbed changes       *)
(* nothing: what a restore at boot relies on.                              *)
(***************************************************************************)
LEMMA PrepareIdempotent ==
    ASSUME NEW l, Sound(l), l.armed, NEW s, WellFormed(s), s.managed,
           PrepareOK(l, s), s.gen <= l.genHW, s.ack = l.ackHW
    PROVE  Advance(l, s) = l
<1>1. s.gen = l.genHW /\ l.desired = DesiredHash(s)
  <2>1. s.gen \in Int /\ l.genHW \in Int /\ s.gen >= l.genHW
    BY DEF Sound, Ledgers, WellFormed, Snapshots, Generations, PrepareOK, GenerationOK
  <2>2. s.gen = l.genHW
    BY <2>1
  <2> QED
    BY <2>2 DEF PrepareOK, GenerationOK, Sound, ValidLedger
<1>2. l.active = {EpochOf(m) : m \in s.mappings}
  <2>1. l.desired # NoHash /\ l.desired[2] = s.mappings
    BY <1>1, DesiredHashType DEF WellFormed, DesiredHash
  <2> QED
    BY <2>1 DEF Sound, ActiveIsDesired
<1>3. FreshMappings(l, s) = {}
  <2> SUFFICES ASSUME NEW m \in s.mappings PROVE Continues(l, m)
    BY DEF FreshMappings
  <2>1. EpochOf(m) \in l.active /\ EpochOf(m).id = m.id
    BY <1>2 DEF EpochOf
  <2> QED
    BY <2>1 DEF Continues
<1>4. FreshRetirements(l, s) = {}
  <2> SUFFICES ASSUME NEW r \in s.retirements, ~KnownEntry(l, s, r) PROVE FALSE
    BY DEF FreshRetirements
  <2>1. RetiredEpoch(r) \in l.active /\ RetiredEpoch(r).id = r.id
    BY DEF PrepareOK, RetirementAccepted, RetiredEpoch
  <2>2. PICK m \in s.mappings : RetiredEpoch(r) = EpochOf(m)
    BY <1>2, <2>1
  <2>3. m.id = r.id
    BY <2>1, <2>2 DEF EpochOf
  <2> QED
    BY <2>3 DEF WellFormed
<1>5. NextEntries(l, s) = l.entries
  BY <1>4 DEF NextEntries, Kept, Sound, AckBelow
<1>6. NextActive(l, s) = l.active
  BY <1>2, MappingsStayActive
<1>7. Max({l.idHW}) = l.idHW /\ Max({l.markHW}) = l.markHW /\ Max({l.retHW}) = l.retHW
  <2>1. ASSUME NEW N \in Nat, NEW x \in 0..N PROVE Max({x}) = x
    BY MaxBounded
  <2>2. l.idHW \in 0..MaxID /\ l.markHW \in 0..MaxMark /\ l.retHW \in 0..MaxGeneration
    BY DEF Sound, Ledgers, IDs, Marks, Generations
  <2>3. MaxID \in Nat /\ MaxMark \in Nat /\ MaxGeneration \in Nat
    BY BoundsAssumption
  <2> QED
    BY <2>1, <2>2, <2>3
<1>8. Advance(l, s) =
        [armed |-> TRUE, idHW |-> l.idHW, markHW |-> l.markHW, retHW |-> l.retHW,
         genHW |-> l.genHW, desired |-> l.desired, ackHW |-> l.ackHW,
         active |-> l.active, entries |-> l.entries]
  <2>1. /\ {l.idHW} \cup {m.id : m \in FreshMappings(l, s)} = {l.idHW}
        /\ {l.markHW} \cup {m.mark : m \in FreshMappings(l, s)} = {l.markHW}
        /\ {l.retHW} \cup {r.gen : r \in FreshRetirements(l, s)} = {l.retHW}
    BY <1>3, <1>4
  <2> QED
    BY <1>1, <1>5, <1>6, <1>7, <2>1 DEF Advance
<1>9. l.armed = TRUE
  BY DEF Sound, Ledgers
<1> QED
  BY <1>8, <1>9 DEF Sound, Ledgers

-----------------------------------------------------------------------------
(***************************************************************************)
(* The moves of EpochLifecycle.                                            *)
(***************************************************************************)
StageMoves == {<<"fresh", "active">>, <<"fresh", "gone">>, <<"active", "retired">>,
               <<"retired", "cleared">>, <<"cleared", "gone">>}

HasActive(l, m) == \E a \in l.active : a.mark = m
HasEntry(l, m) == \E e \in l.entries : e.ret.mark = m
HasCleared(l, m) == \E e \in l.entries : e.ret.mark = m /\ e.cleared

(***************************************************************************)
(* In a valid ledger a mark is in at most one place, below the high water. *)
(***************************************************************************)
LEMMA MarkPlace ==
    ASSUME NEW l \in Ledgers, ValidLedger(l), NEW m \in 1..MaxMark
    PROVE  /\ HasActive(l, m) => ~HasEntry(l, m) /\ m <= l.markHW
           /\ HasEntry(l, m) => m <= l.markHW
           /\ HasCleared(l, m) => HasEntry(l, m)
  BY DEF ValidLedger, ActiveValid, EntriesValid, HasActive, HasEntry, HasCleared

LEMMA LifeByPlace ==
    ASSUME NEW l, NEW m
    PROVE  LedgerLife(l, m) = IF HasActive(l, m) THEN "active"
                              ELSE IF HasCleared(l, m) THEN "cleared"
                              ELSE IF HasEntry(l, m) THEN "retired"
                              ELSE IF m > l.markHW THEN "fresh" ELSE "gone"
  BY DEF LedgerLife, HasActive, HasEntry, HasCleared

(***************************************************************************)
(* Accepting a managed document moves a mark one stage or not at all.      *)
(***************************************************************************)
LEMMA AdvanceMoves ==
    ASSUME NEW l \in Ledgers, ValidLedger(l),
           NEW s, WellFormed(s), s.managed, PrepareOK(l, s),
           NEW m \in 1..MaxMark,
           LedgerLife(Advance(l, s), m) # LedgerLife(l, m)
    PROVE  <<LedgerLife(l, m), LedgerLife(Advance(l, s), m)>> \in StageMoves
<1> DEFINE n == Advance(l, s)
<1>1. /\ n.active = NextActive(l, s) /\ n.entries = NextEntries(l, s)
  BY DEF Advance
<1>2. n \in Ledgers /\ ValidLedger(n)
  BY AdvanceType DEF PrepareOK
<1>3. l.markHW \in Int /\ n.markHW \in Int /\ l.markHW <= n.markHW
  BY <1>2, AdvanceHighWater DEF Ledgers, Marks
<1>4. ActiveValid(l) /\ EntriesValid(l)
  BY DEF ValidLedger
<1> HIDE DEF n
<1>5. HasActive(n, m) => HasActive(l, m) \/ m > l.markHW
  BY <1>1, NextActiveOrigin DEF HasActive
<1>6. HasCleared(n, m) => HasCleared(l, m)
  BY <1>1, NextEntryOrigin DEF HasCleared
<1>7. HasEntry(n, m) => HasEntry(l, m) \/ HasActive(l, m)
  <2> SUFFICES ASSUME NEW d \in n.entries, d.ret.mark = m
               PROVE  HasEntry(l, m) \/ HasActive(l, m)
    BY DEF HasEntry
  <2>1. d \in l.entries \/ RetiredEpoch(d.ret) \in l.active
    BY <1>1, NextEntryOrigin
  <2>2. RetiredEpoch(d.ret).mark = m
    BY DEF RetiredEpoch
  <2> QED
    BY <2>1, <2>2 DEF HasEntry, HasActive
<1>8. HasEntry(n, m) /\ HasCleared(l, m) => HasCleared(n, m)
  <2> SUFFICES ASSUME NEW d \in n.entries, d.ret.mark = m,
                      NEW e \in l.entries, e.ret.mark = m, e.cleared
               PROVE  d.cleared
    BY DEF HasEntry, HasCleared
  <2>1. RetiredEpoch(d.ret) \notin l.active
    BY <1>4 DEF EntriesValid, RetiredEpoch
  <2>2. d \in l.entries
    BY <1>1, <2>1, NextEntryOrigin
  <2> QED
    BY <1>4, <2>2 DEF EntriesValid
<1>9. HasActive(l, m) => HasActive(n, m) \/ HasEntry(n, m)
  <2> SUFFICES ASSUME NEW a \in l.active, a.mark = m
               PROVE  HasActive(n, m) \/ HasEntry(n, m)
    BY DEF HasActive
  <2>1. CASE a \in NextActive(l, s)
    BY <1>1, <2>1 DEF HasActive
  <2>2. CASE \E d \in NextEntries(l, s) : RetiredEpoch(d.ret) = a
    <3>1. PICK d \in NextEntries(l, s) : RetiredEpoch(d.ret) = a
      BY <2>2
    <3>2. d.ret.mark = m
      BY <3>1 DEF RetiredEpoch
    <3> QED
      BY <1>1, <3>2 DEF HasEntry
  <2> QED
    BY <1>4, <2>1, <2>2, ActiveStaysOrRetires
<1>10. HasEntry(l, m) => HasEntry(n, m) \/ HasCleared(l, m)
  BY <1>1, EntryStaysOrCleared DEF HasEntry, HasCleared, WellFormed
<1>11. /\ HasActive(l, m) => ~HasEntry(l, m) /\ m <= l.markHW
       /\ HasEntry(l, m) => m <= l.markHW
       /\ HasCleared(l, m) => HasEntry(l, m)
  BY MarkPlace
<1>12. /\ HasActive(n, m) => ~HasEntry(n, m) /\ m <= n.markHW
       /\ HasEntry(n, m) => m <= n.markHW
       /\ HasCleared(n, m) => HasEntry(n, m)
  BY <1>2, MarkPlace
<1>13. m \in Int
  BY BoundsAssumption
<1>14. LedgerLife(n, m) # LedgerLife(l, m)
  BY DEF n
<1> HIDE DEF HasActive, HasEntry, HasCleared
<1>15. <<LedgerLife(l, m), LedgerLife(n, m)>> \in StageMoves
  BY <1>3, <1>5, <1>6, <1>7, <1>8, <1>9, <1>10, <1>11, <1>12, <1>13, <1>14,
     LifeByPlace DEF StageMoves
<1> QED
  BY <1>15 DEF n

(***************************************************************************)
(* Recording a proof moves a mark from retired to cleared or not at all.   *)
(***************************************************************************)
LEMMA ClearMoves ==
    ASSUME NEW l \in Ledgers, ValidLedger(l), IsFiniteSet(l.entries), NEW rids,
           NEW m \in 1..MaxMark,
           LedgerLife(Clear(l, rids), m) # LedgerLife(l, m)
    PROVE  <<LedgerLife(l, m), LedgerLife(Clear(l, rids), m)>> \in StageMoves
<1> DEFINE n == Clear(l, rids)
<1>1. /\ n = [l EXCEPT !.entries = n.entries]
      /\ n.entries = {Marked(e, rids) : e \in l.entries}
  BY ClearKeepsLedger
<1>2. n.active = l.active /\ n.markHW = l.markHW
  BY <1>1 DEF Ledgers
<1>3. \A e \in l.entries :
        Marked(e, rids).ret = e.ret /\ (e.cleared => Marked(e, rids).cleared)
  BY MarkedEntry DEF Ledgers
<1> HIDE DEF n
<1>4. HasActive(n, m) <=> HasActive(l, m)
  BY <1>2 DEF HasActive
<1>5. HasEntry(n, m) <=> HasEntry(l, m)
  BY <1>1, <1>3 DEF HasEntry
<1>6. HasCleared(l, m) => HasCleared(n, m)
  BY <1>1, <1>3 DEF HasCleared
<1>7. HasCleared(n, m) => HasEntry(n, m)
  BY DEF HasCleared, HasEntry
<1>8. LedgerLife(n, m) # LedgerLife(l, m)
  BY DEF n
<1>9. <<LedgerLife(l, m), LedgerLife(n, m)>> \in StageMoves
  BY <1>2, <1>4, <1>5, <1>6, <1>7, <1>8, LifeByPlace DEF StageMoves
<1> QED
  BY <1>9 DEF n
=============================================================================
