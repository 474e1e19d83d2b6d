---------------------------- MODULE LedgerProofs ----------------------------
(***************************************************************************)
(* Proofs about LedgerMachine for every set of documents on offer and      *)
(* every size of the constants.                                            *)
(***************************************************************************)
EXTENDS LedgerMachine, LedgerLemmas

(***************************************************************************)
(* The inductive invariant.  The listed properties do not imply themselves *)
(* after a step: they need the history to lie below the high-water marks,  *)
(* every cleared entry to have its proof, and the newest accepted document *)
(* to be the one whose hash the ledger keeps.                              *)
(***************************************************************************)
BornBelowHighWater ==
    /\ ledger.active \subseteq born
    /\ \A e \in born : e.id <= ledger.idHW /\ e.mark <= ledger.markHW

ClearedIsProven ==
    \A e \in ledger.entries : e.cleared => RetiredEpoch(e.ret) \in proven

NewestIsRemembered ==
    \A t \in accepted :
        /\ t.managed /\ t.gen <= ledger.genHW
        /\ t.gen = ledger.genHW => ledger.desired = DesiredHash(t)

LedgerValid == ValidLedger(ledger)

IndInv ==
    /\ TypeOK
    /\ IsFiniteSet(ledger.entries)
    /\ LedgerValid
    /\ AckSeparates
    /\ BornBelowHighWater
    /\ ClearedIsProven
    /\ NewestIsRemembered
    /\ EveryEpochAccounted
    /\ EpochsNeverShare
    /\ GenerationNamesContent

LEMMA InitIndInv == Init => IndInv
<1> SUFFICES ASSUME Init PROVE IndInv
  OBVIOUS
<1>1. /\ ledger.active = {} /\ ledger.entries = {} /\ ledger.ackHW = 0
      /\ ledger.retHW = 0 /\ ledger.armed = FALSE
  BY DEF Init, NewLedger
<1>2. ledger \in Ledgers
  BY BoundsAssumption
     DEF Init, NewLedger, Ledgers, IDs, Marks, Generations, DesiredHashes
<1>3. IsFiniteSet(ledger.entries) /\ Cardinality(ledger.entries) = 0
  BY <1>1, FS_EmptySet
<1>4. ValidLedger(ledger)
  BY <1>1, <1>3, BoundsAssumption DEF ValidLedger, ActiveValid, EntriesValid
<1> QED
  BY <1>1, <1>2, <1>3, <1>4
     DEF Init, IndInv, TypeOK, LedgerValid, AckSeparates,
         BornBelowHighWater, ClearedIsProven, NewestIsRemembered,
         EveryEpochAccounted, EpochsNeverShare, GenerationNamesContent

(***************************************************************************)
(* Recording conntrack proofs preserves the invariant.                     *)
(***************************************************************************)
LEMMA RecordClearedPreserves ==
    ASSUME IndInv, NEW es \in SUBSET Uncleared(ledger), RecordCleared(es)
    PROVE  IndInv'
<1> DEFINE rids == {e.ret.rid : e \in es}
<1>1. /\ ledger' = Clear(ledger, rids)
      /\ proven' = proven \cup {RetiredEpoch(e.ret) : e \in es}
      /\ born' = born /\ accepted' = accepted
  BY DEF RecordCleared
<1>2. /\ ledger \in Ledgers /\ ValidLedger(ledger)
      /\ IsFiniteSet(ledger.entries) /\ es \subseteq ledger.entries
  BY DEF IndInv, TypeOK, LedgerValid, Uncleared
<1>3. /\ ledger' \in Ledgers /\ ValidLedger(ledger')
      /\ IsFiniteSet(ledger'.entries)
      /\ ledger' = [ledger EXCEPT !.entries = ledger'.entries]
      /\ ledger'.entries = {Marked(e, rids) : e \in ledger.entries}
  <2> HIDE DEF rids
  <2> QED
    BY <1>1, <1>2, ClearKeepsLedger
<1>4. /\ ledger'.active = ledger.active /\ ledger'.idHW = ledger.idHW
      /\ ledger'.markHW = ledger.markHW /\ ledger'.genHW = ledger.genHW
      /\ ledger'.desired = ledger.desired /\ ledger'.ackHW = ledger.ackHW
  BY <1>2, <1>3 DEF Ledgers
<1>5. ledger.entries \subseteq Entries
  BY <1>2 DEF Ledgers
<1>6. \A d \in ledger'.entries : \E e \in ledger.entries :
        d.ret = e.ret /\ (d.cleared <=> e.cleared \/ e.ret.rid \in rids)
  <2> SUFFICES ASSUME NEW d \in ledger'.entries
               PROVE  \E e \in ledger.entries :
                        /\ d.ret = e.ret
                        /\ d.cleared <=> e.cleared \/ e.ret.rid \in rids
    OBVIOUS
  <2>1. PICK e \in ledger.entries : d = Marked(e, rids)
    BY <1>3
  <2> HIDE DEF rids
  <2>2. /\ Marked(e, rids).ret = e.ret
        /\ Marked(e, rids).cleared <=> e.cleared \/ e.ret.rid \in rids
    BY <1>5, MarkedEntry
  <2> QED
    BY <2>1, <2>2
<1>7. \A e \in ledger.entries : \E d \in ledger'.entries : d.ret = e.ret
  <2> SUFFICES ASSUME NEW e \in ledger.entries
               PROVE  \E d \in ledger'.entries : d.ret = e.ret
    OBVIOUS
  <2>1. Marked(e, rids) \in ledger'.entries
    BY <1>3
  <2> HIDE DEF rids
  <2>2. Marked(e, rids).ret = e.ret
    BY <1>5, MarkedEntry
  <2> QED
    BY <2>1, <2>2
<1>8. TypeOK'
  <2>1. \A e \in es : RetiredEpoch(e.ret) \in Epochs
    BY <1>2, <1>5 DEF Entries, Retirements, RetiredEpoch, Epochs
  <2> QED
    BY <1>1, <1>3, <2>1 DEF IndInv, TypeOK
<1>9. LedgerValid' /\ IsFiniteSet(ledger.entries)'
  BY <1>3 DEF LedgerValid
<1>10. AckSeparates'
  BY <1>4, <1>6 DEF IndInv, AckSeparates
<1>11. BornBelowHighWater'
  BY <1>1, <1>4 DEF IndInv, BornBelowHighWater
<1>12. ClearedIsProven'
  <2> SUFFICES ASSUME NEW d \in ledger'.entries, d.cleared
               PROVE  RetiredEpoch(d.ret) \in proven'
    BY DEF ClearedIsProven
  <2>1. PICK e \in ledger.entries :
          d.ret = e.ret /\ (d.cleared <=> e.cleared \/ e.ret.rid \in rids)
    BY <1>6
  <2>2. CASE e.cleared
    BY <1>1, <2>1, <2>2 DEF IndInv, ClearedIsProven
  <2>3. CASE e.ret.rid \in rids
    <3>1. PICK c \in es : c.ret.rid = e.ret.rid
      BY <2>3
    <3>2. c = e
      BY <1>2, <3>1 DEF ValidLedger, EntriesValid
    <3> QED
      BY <1>1, <2>1, <3>2
  <2> QED
    BY <2>1, <2>2, <2>3
<1>13. NewestIsRemembered'
  BY <1>1, <1>4 DEF IndInv, NewestIsRemembered
<1>14. EveryEpochAccounted'
  <2>1. FencedEpochs \subseteq FencedEpochs'
    BY <1>7 DEF FencedEpochs, Outstanding
  <2> QED
    BY <1>1, <1>4, <2>1 DEF IndInv, EveryEpochAccounted
<1>15. EpochsNeverShare' /\ GenerationNamesContent'
  BY <1>1 DEF IndInv, EpochsNeverShare, GenerationNamesContent
<1> QED
  BY <1>8, <1>9, <1>10, <1>11, <1>12, <1>13, <1>14, <1>15 DEF IndInv

(***************************************************************************)
(* A managed snapshot that names the generation of an accepted one passes  *)
(* Prepare only with the same content.                                     *)
(***************************************************************************)
LEMMA SameGenerationSameContent ==
    ASSUME IndInv, NEW s \in Snapshots, s.managed, GenerationOK(ledger, s),
           NEW t \in accepted
    PROVE  /\ t.gen <= s.gen
           /\ t.gen = s.gen => t = s /\ DesiredHash(t) = DesiredHash(s)
<1>1. /\ t \in Snapshots /\ t.managed /\ t.gen <= ledger.genHW
      /\ t.gen = ledger.genHW => ledger.desired = DesiredHash(t)
  BY DEF IndInv, TypeOK, NewestIsRemembered
<1>2. ledger.genHW \in Int /\ s.gen \in Int /\ t.gen \in Int
  BY <1>1 DEF IndInv, TypeOK, Ledgers, Snapshots, Generations
<1>3. s.gen >= ledger.genHW
  BY DEF GenerationOK
<1>4. ASSUME t.gen = s.gen PROVE DesiredHash(t) = DesiredHash(s)
  <2>1. s.gen = ledger.genHW /\ ledger.desired = DesiredHash(t)
    BY <1>1, <1>2, <1>3, <1>4
  <2>2. DesiredHash(t) # NoHash
    BY <1>1, DesiredHashType
  <2> QED
    BY <2>1, <2>2 DEF GenerationOK
<1>5. ASSUME DesiredHash(t) = DesiredHash(s) PROVE t = s
  <2>1. /\ t.gen = s.gen /\ t.mappings = s.mappings
        /\ t.retirements = s.retirements /\ t.ack = s.ack
    BY <1>5 DEF DesiredHash
  <2>2. t.managed = s.managed
    BY <1>1 DEF Snapshots
  <2> QED
    BY <1>1, <2>1, <2>2 DEF Snapshots
<1> QED
  BY <1>1, <1>2, <1>3, <1>4, <1>5

LEMMA AcceptedLosesNothing ==
    ASSUME IndInv, NEW s \in Snapshots, s.managed, PrepareOK(ledger, s),
           NEW e \in born
    PROVE  \/ e \in NextActive(ledger, s)
           \/ \E d \in NextEntries(ledger, s) : RetiredEpoch(d.ret) = e
           \/ e \in proven
<1>1. CASE e \in ledger.active
  <2>1. ActiveValid(ledger) /\ EntriesValid(ledger)
    BY DEF IndInv, LedgerValid, ValidLedger
  <2> QED
    BY <1>1, <2>1, ActiveStaysOrRetires
<1>2. CASE e \in FencedEpochs
  <2>1. PICK d \in ledger.entries : RetiredEpoch(d.ret) = e
    BY <1>2 DEF FencedEpochs, Outstanding
  <2>2. ledger \in Ledgers
    BY DEF IndInv, TypeOK
  <2>3. d \in NextEntries(ledger, s) \/ d.cleared
    BY <2>2, EntryStaysOrCleared
  <2> QED
    BY <2>1, <2>3 DEF IndInv, ClearedIsProven
<1> QED
  BY <1>1, <1>2 DEF IndInv, EveryEpochAccounted

(***************************************************************************)
(* Accepting a document preserves the invariant.                           *)
(***************************************************************************)
LEMMA ReceivePreserves ==
    ASSUME IndInv, NEW s \in Offers, Receive(s)
    PROVE  IndInv'
<1>1. s \in Snapshots /\ IsFiniteSet(s.retirements)
  BY OffersAssumption
<1>2. /\ ledger' = Prepared(ledger, s) /\ born' = born \cup ledger'.active
      /\ accepted' = accepted \cup (IF s.managed THEN {s} ELSE {})
      /\ proven' = proven
  BY DEF Receive
<1>3. CASE ~s.managed
  <2>1. /\ ledger' = ledger /\ accepted' = accepted /\ proven' = proven
        /\ born' = born
    BY <1>2, <1>3 DEF Prepared, IndInv, BornBelowHighWater
  <2> QED
    BY <2>1 DEF IndInv, TypeOK, LedgerValid, AckSeparates,
         BornBelowHighWater, ClearedIsProven, NewestIsRemembered,
         EveryEpochAccounted, FencedEpochs, Outstanding, EpochsNeverShare,
         GenerationNamesContent
<1>4. CASE s.managed
  <2>1. /\ WellFormed(s) /\ PrepareOK(ledger, s) /\ GenerationOK(ledger, s)
        /\ AckOK(ledger, s) /\ ValidLedger(Advance(ledger, s))
    BY <1>1, <1>4, ValidIsWellFormed DEF Receive, PrepareOK
  <2>2. ledger \in Ledgers
    BY DEF IndInv, TypeOK
  <2>3. ledger' = Advance(ledger, s) /\ accepted' = accepted \cup {s}
    BY <1>2, <1>4 DEF Prepared
  <2>4. /\ ledger'.active = NextActive(ledger, s)
        /\ ledger'.entries = NextEntries(ledger, s)
        /\ ledger'.ackHW = s.ack /\ ledger'.genHW = s.gen
        /\ ledger'.desired = DesiredHash(s)
    BY <2>3 DEF Advance
  <2>5. ledger' \in Ledgers
    BY <1>1, <1>4, <2>1, <2>2, <2>3, AdvanceType
  <2>6. ledger.idHW <= ledger'.idHW /\ ledger.markHW <= ledger'.markHW
    BY <1>1, <1>4, <2>1, <2>2, <2>3, AdvanceHighWater
  <2>7. /\ ledger.idHW \in Int /\ ledger'.idHW \in Int
        /\ ledger.markHW \in Int /\ ledger'.markHW \in Int
        /\ ledger.retHW \in Int /\ s.ack \in Int
        /\ \A e \in Epochs : e.id \in Int /\ e.mark \in Int
    BY <1>1, <2>2, <2>5
       DEF Ledgers, IDs, Marks, Generations, Snapshots, Epochs, Absent
  <2>8. born \subseteq Epochs /\ ledger'.active \subseteq Epochs
    BY <2>5 DEF IndInv, TypeOK, Ledgers
  <2>9. \A a \in ledger'.active :
          \/ a \in ledger.active
          \/ a.id > ledger.idHW /\ a.mark > ledger.markHW
    BY <1>4, <2>1, <2>4, NextActiveOrigin
  <2>10. TypeOK'
    BY <1>1, <1>2, <2>3, <2>5, <2>8 DEF IndInv, TypeOK
  <2>11. IsFiniteSet(ledger.entries)'
    BY <1>1, <2>4, NextEntriesFinite DEF IndInv
  <2>12. LedgerValid'
    BY <2>1, <2>3 DEF LedgerValid
  <2>13. AckSeparates'
    <3> SUFFICES ASSUME NEW d \in NextEntries(ledger, s)
                 PROVE  d.ret.gen > s.ack
      BY <2>4 DEF AckSeparates
    <3>1. s.ack <= ledger.retHW
      BY <2>1 DEF AckOK
    <3>2. d.ret.gen \in Int
      BY <2>4, <2>5 DEF Ledgers, Entries, Retirements, Generations
    <3>3. d.ret.gen > s.ack \/ d.ret.gen > ledger.retHW
      BY <1>4, <2>1, NextEntryOrigin
    <3> QED
      BY <2>7, <3>1, <3>2, <3>3
  <2>14. BornBelowHighWater'
    <3>1. \A e \in born : e.id <= ledger'.idHW /\ e.mark <= ledger'.markHW
      BY <2>6, <2>7, <2>8 DEF IndInv, BornBelowHighWater
    <3>2. \A e \in ledger'.active :
            e.id <= ledger'.idHW /\ e.mark <= ledger'.markHW
      BY <2>1, <2>3 DEF ValidLedger, ActiveValid
    <3> QED
      BY <1>2, <3>1, <3>2 DEF BornBelowHighWater
  <2>15. ClearedIsProven'
    BY <1>2, <1>4, <2>1, <2>4, NextEntryOrigin DEF IndInv, ClearedIsProven
  <2>16. NewestIsRemembered'
    <3>1. \A t \in accepted :
            /\ t.managed /\ t.gen <= s.gen
            /\ t.gen = s.gen => DesiredHash(t) = DesiredHash(s)
      BY <1>1, <1>4, <2>1, SameGenerationSameContent
         DEF IndInv, NewestIsRemembered
    <3>2. s.gen <= s.gen
      BY <1>1 DEF Snapshots, Generations
    <3> QED
      BY <1>4, <2>3, <2>4, <3>1, <3>2 DEF NewestIsRemembered
  <2>17. EveryEpochAccounted'
    <3> SUFFICES ASSUME NEW e \in born', e \notin ledger'.active,
                        e \notin proven'
                 PROVE  e \in FencedEpochs'
      BY DEF EveryEpochAccounted
    <3>1. e \in born /\ e \notin proven
      BY <1>2
    <3>2. \E d \in ledger'.entries : RetiredEpoch(d.ret) = e
      BY <1>1, <1>4, <2>1, <2>4, <3>1, AcceptedLosesNothing
    <3> QED
      BY <3>2 DEF FencedEpochs, Outstanding
  <2>18. EpochsNeverShare'
    <3>1. \A e \in born, f \in ledger'.active :
            (e.id = f.id \/ e.mark = f.mark) => e = f
      <4> TAKE e \in born, f \in ledger'.active
      <4>1. CASE f \in ledger.active
        BY <4>1 DEF IndInv, EpochsNeverShare, BornBelowHighWater
      <4>2. CASE f.id > ledger.idHW /\ f.mark > ledger.markHW
        <5>1. e.id <= ledger.idHW /\ e.mark <= ledger.markHW
          BY DEF IndInv, BornBelowHighWater
        <5> QED
          BY <2>7, <2>8, <4>2, <5>1
      <4> QED
        BY <2>9, <4>1, <4>2
    <3>2. \A e, f \in ledger'.active :
            (e.id = f.id \/ e.mark = f.mark) => e = f
      BY <2>1, <2>3 DEF ValidLedger, ActiveValid
    <3>3. \A e, f \in born : (e.id = f.id \/ e.mark = f.mark) => e = f
      BY DEF IndInv, EpochsNeverShare
    <3> QED
      BY <1>2, <3>1, <3>2, <3>3 DEF EpochsNeverShare
  <2>19. GenerationNamesContent'
    <3>1. \A t \in accepted : t.gen = s.gen => t = s
      BY <1>1, <1>4, <2>1, SameGenerationSameContent
    <3> QED
      BY <2>3, <3>1 DEF IndInv, GenerationNamesContent
  <2> QED
    BY <2>10, <2>11, <2>12, <2>13, <2>14, <2>15, <2>16, <2>17, <2>18, <2>19
       DEF IndInv
<1> QED
  BY <1>3, <1>4

-----------------------------------------------------------------------------
(***************************************************************************)
(* The invariant holds in every behaviour of the ledger.                   *)
(***************************************************************************)
LEMMA NextPreserves == IndInv /\ [Next]_vars => IndInv'
<1> SUFFICES ASSUME IndInv, [Next]_vars PROVE IndInv'
  OBVIOUS
<1>1. ASSUME NEW s \in Offers, Receive(s) PROVE IndInv'
  BY <1>1, ReceivePreserves
<1>2. ASSUME NEW es \in SUBSET Uncleared(ledger), RecordCleared(es)
      PROVE  IndInv'
  BY <1>2, RecordClearedPreserves
<1>3. CASE UNCHANGED vars
  BY <1>3 DEF vars, IndInv, TypeOK, LedgerValid, AckSeparates,
       BornBelowHighWater, ClearedIsProven, NewestIsRemembered,
       EveryEpochAccounted, FencedEpochs, Outstanding, EpochsNeverShare,
       GenerationNamesContent
<1> QED
  BY <1>1, <1>2, <1>3 DEF Next

LEMMA Invariance == Spec => []IndInv
  BY InitIndInv, NextPreserves, PTL DEF Spec

-----------------------------------------------------------------------------
(***************************************************************************)
(* Every value the ledger and its histories take has its type: Prepare and *)
(* Clear build well-formed ledgers from any valid document.                *)
(***************************************************************************)
THEOREM TypeCorrect == Spec => []TypeOK
<1>1. IndInv => TypeOK
  BY DEF IndInv
<1> QED
  BY <1>1, Invariance, PTL

(***************************************************************************)
(* No sequence of documents and proofs makes the ledger lose an epoch: the *)
(* disappearance and acknowledgement checks of Prepare are enough.         *)
(***************************************************************************)
THEOREM EpochsAccounted == Spec => []EveryEpochAccounted
<1>1. IndInv => EveryEpochAccounted
  BY DEF IndInv
<1> QED
  BY <1>1, Invariance, PTL

(***************************************************************************)
(* No sequence of documents binds an id or a mark to two epochs: the       *)
(* high-water checks of Prepare are enough, although the ledger forgets    *)
(* compacted epochs.                                                       *)
(***************************************************************************)
THEOREM EpochsUnshared == Spec => []EpochsNeverShare
<1>1. IndInv => EpochsNeverShare
  BY DEF IndInv
<1> QED
  BY <1>1, Invariance, PTL

(***************************************************************************)
(* Two accepted documents of one generation are the same document: keeping *)
(* the hash of only the newest one is enough.                              *)
(***************************************************************************)
THEOREM ContentFixed == Spec => []GenerationNamesContent
<1>1. IndInv => GenerationNamesContent
  BY DEF IndInv
<1> QED
  BY <1>1, Invariance, PTL

(***************************************************************************)
(* Every outstanding entry lies above the acknowledgement: what Prepare    *)
(* compacts is exactly what the platform acknowledged.                     *)
(***************************************************************************)
THEOREM AckSeparated == Spec => []AckSeparates
<1>1. IndInv => AckSeparates
  BY DEF IndInv
<1> QED
  BY <1>1, Invariance, PTL

(***************************************************************************)
(* An epoch that was retired is never active again, and neither its id nor *)
(* its mark is: Prepare refuses whatever is not above the high water.      *)
(***************************************************************************)
THEOREM RetiredForEver == Spec => NoResurrection
<1> DEFINE A == \A e \in born \ ledger.active :
                  \A a \in ledger'.active : a.id # e.id /\ a.mark # e.mark
<1>1. IndInv /\ [Next]_vars => [A]_vars
  <2> SUFFICES ASSUME IndInv, Next, NEW e \in born \ ledger.active,
                      NEW a \in ledger'.active
               PROVE  a.id # e.id /\ a.mark # e.mark
    OBVIOUS
  <2>1. CASE a \in ledger.active
    BY <2>1 DEF IndInv, EpochsNeverShare, BornBelowHighWater
  <2>2. CASE a \notin ledger.active
    <3>1. ASSUME NEW s \in Offers, Receive(s)
          PROVE  a.id > ledger.idHW /\ a.mark > ledger.markHW
      <4>1. s.managed /\ PrepareOK(ledger, s)
        BY <2>2, <3>1 DEF Receive, Prepared
      <4>2. ledger'.active = NextActive(ledger, s)
        BY <3>1, <4>1 DEF Receive, Prepared, Advance
      <4> QED
        BY <2>2, <4>1, <4>2, NextActiveOrigin
    <3>2. ASSUME NEW es \in SUBSET Uncleared(ledger), RecordCleared(es)
          PROVE  FALSE
      <4>1. ledger'.active = ledger.active
        BY <3>2 DEF RecordCleared, Clear, IndInv, TypeOK, Ledgers
      <4> QED
        BY <2>2, <4>1
    <3>3. /\ e \in Epochs /\ ledger \in Ledgers /\ ledger' \in Ledgers
          /\ e.id <= ledger.idHW /\ e.mark <= ledger.markHW
      BY NextPreserves DEF IndInv, TypeOK, BornBelowHighWater
    <3>4. /\ e.id \in Int /\ e.mark \in Int /\ a.id \in Int /\ a.mark \in Int
          /\ ledger.idHW \in Int /\ ledger.markHW \in Int
      BY <3>3 DEF Ledgers, Epochs, IDs, Marks
    <3> QED
      BY <3>1, <3>2, <3>3, <3>4 DEF Next
  <2> QED
    BY <2>1, <2>2
<1> QED
  BY <1>1, Invariance, PTL DEF Spec, NoResurrection

-----------------------------------------------------------------------------
(***************************************************************************)
(* The ledger keeps the promise of EpochLifecycle about every flow mark:   *)
(* initial states map to initial states, and a step of the ledger is a     *)
(* step of the lifecycle or leaves it alone.                               *)
(***************************************************************************)
THEOREM LedgerImplementsLifecycle == Spec => ImplementsLifecycle
<1> DEFINE L == [m \in 1..MaxMark |-> LedgerLife(ledger, m)]
<1>1. Init => Lifecycle!Init
  <2> SUFFICES ASSUME Init, NEW m \in 1..MaxMark
               PROVE  LedgerLife(ledger, m) = "fresh"
    BY DEF Lifecycle!Init
  <2>1. ledger.active = {} /\ ledger.entries = {} /\ ledger.markHW = 0
    BY DEF Init, NewLedger
  <2>2. m > 0
    BY BoundsAssumption
  <2> QED
    BY <2>1, <2>2 DEF LedgerLife
<1>2. IndInv /\ [Next]_vars => [Lifecycle!Next]_L
  <2> SUFFICES ASSUME IndInv, [Next]_vars PROVE Lifecycle!Next
    OBVIOUS
  <2>1. /\ ledger \in Ledgers /\ ValidLedger(ledger)
        /\ IsFiniteSet(ledger.entries)
    BY DEF IndInv, TypeOK, LedgerValid
  <2>2. \A m \in 1..MaxMark : LedgerLife(ledger', m) \in Lifecycle!Stages
    BY DEF LedgerLife, Lifecycle!Stages
  <2>3. ASSUME NEW m \in 1..MaxMark,
               LedgerLife(ledger', m) # LedgerLife(ledger, m)
        PROVE  <<LedgerLife(ledger, m), LedgerLife(ledger', m)>>
                  \in Lifecycle!Moves
    <3>1. ASSUME NEW s \in Offers, Receive(s)
          PROVE  <<LedgerLife(ledger, m), LedgerLife(ledger', m)>>
                    \in Lifecycle!Moves
      <4>1. WellFormed(s) /\ PrepareOK(ledger, s)
        BY <3>1, OffersAssumption, ValidIsWellFormed DEF Receive
      <4>2. s.managed /\ ledger' = Advance(ledger, s)
        BY <2>3, <3>1 DEF Receive, Prepared
      <4>3. LedgerLife(Advance(ledger, s), m) # LedgerLife(ledger, m)
        BY <2>3, <4>2
      <4>4. <<LedgerLife(ledger, m), LedgerLife(Advance(ledger, s), m)>>
               \in StageMoves
        BY <2>1, <4>1, <4>2, <4>3, AdvanceMoves
      <4> QED
        BY <4>2, <4>4 DEF StageMoves, Lifecycle!Moves
    <3>2. ASSUME NEW es \in SUBSET Uncleared(ledger), RecordCleared(es)
          PROVE  <<LedgerLife(ledger, m), LedgerLife(ledger', m)>>
                    \in Lifecycle!Moves
      <4> DEFINE rids == {e.ret.rid : e \in es}
      <4>1. ledger' = Clear(ledger, rids)
        BY <3>2 DEF RecordCleared
      <4> HIDE DEF rids
      <4>2. LedgerLife(Clear(ledger, rids), m) # LedgerLife(ledger, m)
        BY <2>3, <4>1
      <4>3. <<LedgerLife(ledger, m), LedgerLife(Clear(ledger, rids), m)>>
               \in StageMoves
        BY <2>1, <4>2, ClearMoves
      <4> QED
        BY <4>1, <4>3 DEF StageMoves, Lifecycle!Moves
    <3>3. CASE UNCHANGED vars
      BY <2>3, <3>3 DEF vars
    <3> QED
      BY <3>1, <3>2, <3>3 DEF Next
  <2> QED
    BY <2>2, <2>3 DEF Lifecycle!Next
<1> QED
  BY <1>1, <1>2, Invariance, PTL DEF Spec, ImplementsLifecycle, Lifecycle!Spec

-----------------------------------------------------------------------------
(***************************************************************************)
(* What Validate checked of the documents and the ledger still shows: no   *)
(* retirement is newer than the newest document, and keys, targets and     *)
(* number of the active mappings are those of a valid document.            *)
(***************************************************************************)
Shape(l) ==
    /\ l.retHW <= l.genHW
    /\ IsFiniteSet(l.active) /\ Cardinality(l.active) <= MaxMappings
    /\ \A a \in l.active :
        /\ a.hash = TupleHash(a.id, a.hash[2], a.hash[3], a.mark)
        /\ a.hash[2] \in ValidKeys /\ a.hash[3] \in ValidTargets
    /\ \A a, b \in l.active : a # b => a.hash[2] # b.hash[2]
    /\ \A e \in l.entries :
        e.ret.gen > 0 /\ e.ret.key \in ValidKeys /\ e.ret.target \in CanonicalTargets

LEMMA ImageBound ==
    ASSUME NEW S, IsFiniteSet(S), NEW f, DOMAIN f = S, NEW T,
           T = {f[x] : x \in S}
    PROVE  /\ IsFiniteSet(T)
           /\ Cardinality(T) \in Nat /\ Cardinality(S) \in Nat
           /\ Cardinality(T) <= Cardinality(S)
<1> DEFINE g == [x \in S |-> f[x]]
<1>1. g \in Surjection(S, T)
  BY DEF Surjection
<1>2. IsFiniteSet(T) /\ Cardinality(T) <= Cardinality(S)
  BY <1>1, FS_Surjection
<1> QED
  BY <1>2, FS_CardinalityType

(***************************************************************************)
(* The retirement high water of a prepared ledger: the old one or the      *)
(* generation of a retirement that is new.                                 *)
(***************************************************************************)
LEMMA AdvanceRetHW ==
    ASSUME NEW l \in Ledgers, NEW s, WellFormed(s)
    PROVE  /\ \/ Advance(l, s).retHW = l.retHW
              \/ \E r \in FreshRetirements(l, s) : Advance(l, s).retHW = r.gen
           /\ \A r \in FreshRetirements(l, s) : r.gen <= Advance(l, s).retHW
<1> DEFINE G == {l.retHW} \cup {r.gen : r \in FreshRetirements(l, s)}
<1>1. Advance(l, s).retHW = Max(G)
  BY DEF Advance
<1>2. \A r \in FreshRetirements(l, s) : r.gen \in Generations
  BY DEF FreshRetirements, WellFormed, Snapshots, Retirements
<1>3. G \subseteq 0..MaxGeneration /\ G # {}
  BY <1>2 DEF Ledgers, Generations
<1>4. Max(G) \in G /\ \A x \in G : x <= Max(G)
  BY <1>3, BoundsAssumption, MaxBounded
<1> QED
  BY <1>1, <1>4

-----------------------------------------------------------------------------
(***************************************************************************)
(* A prepared ledger takes its shape from the document.                    *)
(***************************************************************************)
LEMMA PreparedShape ==
    ASSUME NEW l \in Ledgers, Shape(l), NEW s \in Snapshots, s.managed,
           IsFiniteSet(s.mappings), IsFiniteSet(s.retirements),
           Validate(s), PrepareOK(l, s)
    PROVE  Shape(Advance(l, s))
<1> DEFINE n == Advance(l, s)
<1>1. /\ n.active = NextActive(l, s) /\ n.entries = NextEntries(l, s)
      /\ n.genHW = s.gen
  BY DEF Advance
<1>2. WellFormed(s)
  BY ValidIsWellFormed
<1>3. /\ l.retHW \in Int /\ l.genHW \in Int /\ s.gen \in Int
      /\ l.retHW <= l.genHW /\ l.genHW <= s.gen
  BY DEF Ledgers, Snapshots, Generations, Shape, PrepareOK, GenerationOK
<1>4. n.retHW <= n.genHW
  <2>1. CASE n.retHW = l.retHW
    BY <1>1, <1>3, <2>1
  <2>2. CASE \E r \in FreshRetirements(l, s) : n.retHW = r.gen
    BY <1>1, <2>2 DEF FreshRetirements, Validate, RetirementOK
  <2> QED
    BY <1>2, <2>1, <2>2, AdvanceRetHW
<1>5. IsFiniteSet(n.active) /\ Cardinality(n.active) <= MaxMappings
  <2> DEFINE S == {m \in s.mappings : m.id \notin RetiredIDs(l, s)}
             f == [m \in S |-> EpochOf(m)]
  <2>1. /\ IsFiniteSet(S) /\ Cardinality(S) <= Cardinality(s.mappings)
        /\ Cardinality(s.mappings) \in Nat /\ Cardinality(S) \in Nat
    <3>1. S \in SUBSET s.mappings
      OBVIOUS
    <3> HIDE DEF S
    <3>2. IsFiniteSet(S) /\ Cardinality(S) <= Cardinality(s.mappings)
      BY <3>1, FS_Subset
    <3> QED
      BY <3>2, FS_CardinalityType
  <2>2. n.active = {f[m] : m \in S} /\ DOMAIN f = S
    BY <1>1 DEF NextActive
  <2> HIDE DEF S, f, n
  <2>3. /\ IsFiniteSet(n.active) /\ Cardinality(n.active) \in Nat
        /\ Cardinality(n.active) <= Cardinality(S)
    BY <2>1, <2>2, ImageBound
  <2>4. Cardinality(s.mappings) <= MaxMappings /\ MaxMappings \in Nat
    BY BoundsAssumption DEF Validate
  <2> QED
    BY <2>1, <2>3, <2>4
<1>6. \A m \in s.mappings :
        /\ EpochOf(m).id = m.id /\ EpochOf(m).mark = m.mark
        /\ EpochOf(m).hash = TupleHash(m.id, m.key, m.target, m.mark)
        /\ EpochOf(m).hash[2] = m.key /\ EpochOf(m).hash[3] = m.target
  BY DEF EpochOf, MappingHash, TupleHash
<1>7. \A a \in n.active : \E m \in s.mappings : a = EpochOf(m)
  BY <1>1 DEF NextActive
<1>8. \A a \in n.active :
        /\ a.hash = TupleHash(a.id, a.hash[2], a.hash[3], a.mark)
        /\ a.hash[2] \in ValidKeys /\ a.hash[3] \in ValidTargets
  <2> TAKE a \in n.active
  <2>1. PICK m \in s.mappings : a = EpochOf(m)
    BY <1>7
  <2>2. m.key \in ValidKeys /\ m.target \in ValidTargets
    BY DEF Validate, MappingOK
  <2> QED
    BY <1>6, <2>1, <2>2
<1>9. \A a, b \in n.active : a # b => a.hash[2] # b.hash[2]
  <2> TAKE a, b \in n.active
  <2>1. PICK m \in s.mappings : a = EpochOf(m)
    BY <1>7
  <2>2. PICK p \in s.mappings : b = EpochOf(p)
    BY <1>7
  <2>3. m # p => m.key # p.key
    BY DEF Validate, MappingsDistinct
  <2> QED
    BY <1>6, <2>1, <2>2, <2>3
<1>10. ASSUME NEW e \in n.entries
       PROVE  e.ret.gen > 0 /\ e.ret.key \in ValidKeys /\ e.ret.target \in CanonicalTargets
  <2>1. CASE e \in l.entries
    BY <2>1 DEF Shape
  <2>2. CASE e \notin l.entries
    <3>1. PICK r \in s.retirements : e = [ret |-> r, cleared |-> FALSE]
      BY <1>1, <2>2 DEF NextEntries, Kept, FreshRetirements
    <3> QED
      BY <3>1 DEF Validate, RetirementOK
  <2> QED
    BY <2>1, <2>2
<1>11. n = Advance(l, s)
  OBVIOUS
<1> HIDE DEF n
<1>12. Shape(n)
  BY <1>4, <1>5, <1>8, <1>9, <1>10 DEF Shape
<1> QED
  BY <1>11, <1>12

LEMMA ShapeInvariance == Spec => []Shape(ledger)
<1>1. Init => Shape(ledger)
  <2> SUFFICES ASSUME Init PROVE Shape(ledger)
    OBVIOUS
  <2>1. /\ ledger.active = {} /\ ledger.entries = {}
        /\ ledger.retHW = 0 /\ ledger.genHW = 0
    BY DEF Init, NewLedger
  <2>2. IsFiniteSet(ledger.active) /\ Cardinality(ledger.active) = 0
    BY <2>1, FS_EmptySet
  <2> QED
    BY <2>1, <2>2, BoundsAssumption DEF Shape
<1>2. IndInv /\ Shape(ledger) /\ [Next]_vars => Shape(ledger)'
  <2> SUFFICES ASSUME IndInv, Shape(ledger), [Next]_vars PROVE Shape(ledger)'
    OBVIOUS
  <2>1. /\ ledger \in Ledgers /\ ValidLedger(ledger)
        /\ IsFiniteSet(ledger.entries)
    BY DEF IndInv, TypeOK, LedgerValid
  <2>2. ASSUME NEW s \in Offers, Receive(s) PROVE Shape(ledger')
    <3>1. /\ s \in Snapshots /\ IsFiniteSet(s.mappings)
          /\ IsFiniteSet(s.retirements)
      BY OffersAssumption
    <3>2. /\ Validate(s) /\ PrepareOK(ledger, s)
          /\ ledger' = IF s.managed THEN Advance(ledger, s) ELSE ledger
      BY <2>2 DEF Receive, Prepared
    <3>3. CASE s.managed
      <4>1. Shape(Advance(ledger, s))
        BY <2>1, <3>1, <3>2, <3>3, PreparedShape
      <4> QED
        BY <3>2, <3>3, <4>1
    <3>4. CASE ~s.managed
      BY <3>2, <3>4
    <3> QED
      BY <3>3, <3>4
  <2>3. ASSUME NEW es \in SUBSET Uncleared(ledger), RecordCleared(es)
        PROVE  Shape(ledger')
    <3> DEFINE rids == {e.ret.rid : e \in es}
    <3>1. ledger' = Clear(ledger, rids)
      BY <2>3 DEF RecordCleared
    <3> HIDE DEF rids
    <3>2. /\ ledger' = [ledger EXCEPT !.entries = ledger'.entries]
          /\ ledger'.entries = {Marked(e, rids) : e \in ledger.entries}
      BY <2>1, <3>1, ClearKeepsLedger
    <3>3. /\ ledger'.active = ledger.active /\ ledger'.retHW = ledger.retHW
          /\ ledger'.genHW = ledger.genHW
      BY <2>1, <3>2 DEF Ledgers
    <3>4. \A d \in ledger'.entries : \E e \in ledger.entries : d.ret = e.ret
      BY <2>1, <3>2, MarkedEntry DEF Ledgers
    <3> QED
      BY <3>3, <3>4 DEF Shape
  <2>4. CASE UNCHANGED vars
    BY <2>4 DEF vars
  <2> QED
    BY <2>2, <2>3, <2>4 DEF Next
<1> QED
  BY <1>1, <1>2, Invariance, PTL DEF Spec

-----------------------------------------------------------------------------
(***************************************************************************)
(* The next document of a platform in good order passes every check of     *)
(* Validate and Prepare.                                                   *)
(***************************************************************************)
LEMMA ContinuationAccepted ==
    ASSUME NEW l \in Ledgers, ValidLedger(l), Shape(l), IsFiniteSet(l.entries),
           l.genHW < MaxGeneration,
           NEW u \in RetirementIDs, NEW o \in ValidOptions,
           NEW k \in ProvenAcks(l), NEW gone \in Retirable(l, u, k)
    PROVE  LET s == Continuation(l, gone, u, o, k)
           IN  Validate(s) /\ PrepareOK(l, s)
<1> DEFINE g == l.genHW + 1
           s == Continuation(l, gone, u, o, k)
           K == Kept(l, k)
           New == {[ret |-> RetirementOf(a, u, g), cleared |-> FALSE] : a \in gone}
<1> SUFFICES Validate(s) /\ PrepareOK(l, s)
  OBVIOUS
<1>1. /\ s.gen = g /\ s.managed /\ s.ack = k
      /\ s.mappings = {MappingOf(a, o) : a \in l.active \ gone}
      /\ s.retirements = {e.ret : e \in K} \cup {RetirementOf(a, u, g) : a \in gone}
  BY DEF Continuation
<1>2. /\ l.ackHW \in Nat /\ l.retHW \in Nat /\ l.genHW \in Nat /\ MaxGeneration \in Nat
      /\ l.idHW \in Nat /\ l.markHW \in Nat
  BY BoundsAssumption DEF Ledgers, IDs, Marks, Generations
<1>3. /\ k \in Generations /\ k # Absent /\ l.ackHW <= k /\ k <= l.retHW
      /\ \A e \in Compacted(l, k) : e.cleared
  BY <1>2 DEF ProvenAcks, Ledgers, Generations, Absent
<1>4. g \in Generations /\ g > 0 /\ l.genHW < g /\ l.retHW < g
  BY <1>2 DEF Shape, Generations
<1>5. /\ gone \subseteq l.active
      /\ gone = {} \/ \E a \in l.active : gone = {a}
      /\ gone # {} => /\ \A e \in K : e.ret.rid # u
                      /\ Cardinality(K) < MaxRetirements
  BY DEF Retirable
<1>6. K \subseteq l.entries /\ \A e \in K : e.ret.gen > k
  BY DEF Kept
<1>7. \A a \in l.active :
        /\ a.id \in IDs /\ a.id > 0 /\ a.id <= l.idHW
        /\ a.mark \in Marks /\ a.mark > 0 /\ a.mark <= l.markHW
        /\ a.hash \in Hashes /\ a.hash[2] \in ValidKeys /\ a.hash[3] \in ValidTargets
        /\ TupleHash(a.id, a.hash[2], a.hash[3], a.mark) = a.hash
        /\ a = [id |-> a.id, mark |-> a.mark, hash |-> a.hash]
  BY DEF ValidLedger, ActiveValid, Shape, Ledgers, Epochs
<1>8. \A a, b \in l.active :
        a # b => a.id # b.id /\ a.mark # b.mark /\ a.hash[2] # b.hash[2]
  BY DEF ValidLedger, ActiveValid, Shape
<1>9. \A e \in l.entries :
        /\ e.ret \in Retirements /\ e.ret.id > 0 /\ e.ret.id <= l.idHW
        /\ e.ret.mark > 0 /\ e.ret.mark <= l.markHW
        /\ e.ret.gen > 0 /\ e.ret.gen <= l.retHW
        /\ e.ret.hash = TupleHash(e.ret.id, e.ret.key, e.ret.target, e.ret.mark)
        /\ e.ret.key \in ValidKeys /\ e.ret.target \in CanonicalTargets
        /\ \A a \in l.active : a.id # e.ret.id /\ a.mark # e.ret.mark
  BY DEF ValidLedger, EntriesValid, Shape, Ledgers, Entries
<1>10. \A e, f \in l.entries :
        e # f => e.ret.rid # f.ret.rid /\ e.ret.id # f.ret.id /\ e.ret.mark # f.ret.mark
  BY DEF ValidLedger, EntriesValid
<1>11. \A a \in l.active :
        /\ MappingOf(a, o).id = a.id /\ MappingOf(a, o).mark = a.mark
        /\ MappingOf(a, o).key = a.hash[2] /\ MappingOf(a, o).target = a.hash[3]
        /\ MappingOf(a, o).opts = o
        /\ EpochOf(MappingOf(a, o)) = a
  BY <1>7 DEF MappingOf, EpochOf, MappingHash
<1>12. \A a \in l.active :
        /\ RetirementOf(a, u, g).rid = u /\ RetirementOf(a, u, g).id = a.id
        /\ RetirementOf(a, u, g).gen = g /\ RetirementOf(a, u, g).key = a.hash[2]
        /\ RetirementOf(a, u, g).target = a.hash[3]
        /\ RetirementOf(a, u, g).mark = a.mark /\ RetirementOf(a, u, g).hash = a.hash
        /\ RetiredEpoch(RetirementOf(a, u, g)) = a
  BY <1>7 DEF RetirementOf, RetiredEpoch
<1>13. \A m \in s.mappings : \E a \in l.active \ gone : m = MappingOf(a, o)
  BY <1>1
<1>14. \A r \in s.retirements :
        (\E e \in K : r = e.ret) \/ (\E a \in gone : r = RetirementOf(a, u, g))
  BY <1>1
<1>15. s \in Snapshots
  <2>1. \A a \in l.active : MappingOf(a, o) \in Mappings
    BY <1>7, ValidSetsAssumption DEF MappingOf, Mappings
  <2>2. \A a \in l.active : RetirementOf(a, u, g) \in Retirements
    BY <1>4, <1>7, ValidSetsAssumption DEF RetirementOf, Retirements
  <2>3. s.mappings \subseteq Mappings /\ s.retirements \subseteq Retirements
    BY <1>1, <1>5, <1>6, <1>9, <2>1, <2>2
  <2> QED
    BY <1>1, <1>3, <1>4, <2>3 DEF Continuation, Snapshots
<1>16. /\ IsFiniteSet(K) /\ Cardinality(K) \in Nat /\ MaxRetirements \in Nat
       /\ Cardinality(K) <= MaxRetirements
  <2>1. IsFiniteSet(K) /\ Cardinality(K) <= Cardinality(l.entries)
    BY <1>6, FS_Subset
  <2>2. Cardinality(l.entries) <= MaxRetirements
    BY DEF ValidLedger, EntriesValid
  <2>3. Cardinality(K) \in Nat /\ Cardinality(l.entries) \in Nat
    BY <2>1, FS_CardinalityType
  <2> QED
    BY <2>1, <2>2, <2>3, BoundsAssumption
<1>17. Cardinality(s.mappings) <= MaxMappings
  <2> DEFINE S == l.active \ gone
             f == [a \in S |-> MappingOf(a, o)]
  <2>1. /\ IsFiniteSet(S) /\ Cardinality(S) <= Cardinality(l.active)
        /\ Cardinality(S) \in Nat /\ Cardinality(l.active) \in Nat
    <3>1. S \in SUBSET l.active /\ IsFiniteSet(l.active)
      BY DEF Shape
    <3> HIDE DEF S
    <3>2. IsFiniteSet(S) /\ Cardinality(S) <= Cardinality(l.active)
      BY <3>1, FS_Subset
    <3> QED
      BY <3>1, <3>2, FS_CardinalityType
  <2>2. s.mappings = {f[a] : a \in S} /\ DOMAIN f = S
    BY <1>1
  <2> HIDE DEF S, f, s
  <2>3. Cardinality(s.mappings) \in Nat /\ Cardinality(s.mappings) <= Cardinality(S)
    BY <2>1, <2>2, ImageBound
  <2>4. Cardinality(l.active) <= MaxMappings /\ MaxMappings \in Nat
    BY BoundsAssumption DEF Shape
  <2> QED
    BY <2>1, <2>3, <2>4
<1>18. IsFiniteSet(s.retirements) /\ Cardinality(s.retirements) <= MaxRetirements
  <2> DEFINE S == {e.ret : e \in K}
             f == [e \in K |-> e.ret]
  <2>1. S = {f[e] : e \in K} /\ DOMAIN f = K
    OBVIOUS
  <2>2. s.retirements = S \cup {RetirementOf(a, u, g) : a \in gone}
    BY <1>1
  <2> HIDE DEF S, f, s, K
  <2>3. /\ IsFiniteSet(S) /\ Cardinality(S) \in Nat
        /\ Cardinality(S) <= Cardinality(K)
    BY <1>16, <2>1, ImageBound
  <2>4. CASE gone = {}
    <3>1. s.retirements = S
      BY <2>2, <2>4
    <3> QED
      BY <1>16, <2>3, <3>1
  <2>5. CASE \E a \in l.active : gone = {a}
    <3>1. PICK a \in l.active : gone = {a}
      BY <2>5
    <3>2. s.retirements = S \cup {RetirementOf(a, u, g)}
      BY <2>2, <3>1
    <3>3. /\ IsFiniteSet(s.retirements)
          /\ \/ Cardinality(s.retirements) = Cardinality(S)
             \/ Cardinality(s.retirements) = Cardinality(S) + 1
      BY <2>3, <3>2, FS_AddElement
    <3>4. Cardinality(K) < MaxRetirements
      BY <1>5, <3>1
    <3> QED
      BY <1>16, <2>3, <3>3, <3>4
  <2> QED
    BY <1>5, <2>4, <2>5
<1>19. \A m \in s.mappings : MappingOK(s, m)
  <2> TAKE m \in s.mappings
  <2>1. PICK a \in l.active \ gone : m = MappingOf(a, o)
    BY <1>13
  <2> QED
    BY <1>1, <1>7, <1>11, <2>1 DEF MappingOK
<1>20. MappingsDistinct(s)
  <2> SUFFICES ASSUME NEW m \in s.mappings, NEW p \in s.mappings, m # p
               PROVE  m.id # p.id /\ m.key # p.key /\ m.mark # p.mark
    BY DEF MappingsDistinct
  <2>1. PICK a \in l.active \ gone : m = MappingOf(a, o)
    BY <1>13
  <2>2. PICK b \in l.active \ gone : p = MappingOf(b, o)
    BY <1>13
  <2>3. a # b
    BY <2>1, <2>2
  <2> HIDE DEF s
  <2> QED
    BY <1>8, <1>11, <2>1, <2>2, <2>3
<1>21. \A r \in s.retirements : RetirementOK(s, r)
  <2> TAKE r \in s.retirements
  <2>1. CASE \E e \in K : r = e.ret
    <3>1. PICK e \in K : r = e.ret
      BY <2>1
    <3>2. \A m \in s.mappings : m.id # r.id /\ m.mark # r.mark
      BY <1>6, <1>9, <1>11, <1>13, <3>1
    <3>3. r.gen <= s.gen
      BY <1>1, <1>2, <1>4, <1>6, <1>9, <3>1 DEF Retirements, Generations
    <3> QED
      BY <1>6, <1>9, <3>1, <3>2, <3>3 DEF RetirementOK
  <2>2. CASE \E a \in gone : r = RetirementOf(a, u, g)
    <3>1. PICK a \in gone : r = RetirementOf(a, u, g)
      BY <2>2
    <3>2. a \in l.active
      BY <1>5
    <3>3. \A m \in s.mappings : m.id # r.id /\ m.mark # r.mark
      BY <1>8, <1>11, <1>12, <1>13, <3>1, <3>2
    <3>4. r.gen > 0 /\ r.gen <= s.gen
      BY <1>1, <1>4, <1>12, <3>1, <3>2 DEF Generations
    <3> QED
      BY <1>7, <1>12, <3>1, <3>2, <3>3, <3>4, ValidSetsAssumption DEF RetirementOK
  <2> QED
    BY <1>14, <2>1, <2>2
<1>22. RetirementsDistinct(s)
  <2> SUFFICES ASSUME NEW r \in s.retirements, NEW q \in s.retirements, r # q
               PROVE  r.rid # q.rid /\ r.mark # q.mark
    BY DEF RetirementsDistinct
  <2> HIDE DEF s
  <2>1. CASE (\E e \in K : r = e.ret) /\ (\E e \in K : q = e.ret)
    BY <1>6, <1>10, <2>1
  <2>2. CASE (\E e \in K : r = e.ret) /\ (\E a \in gone : q = RetirementOf(a, u, g))
    BY <1>5, <1>6, <1>9, <1>12, <2>2
  <2>3. CASE (\E a \in gone : r = RetirementOf(a, u, g)) /\ (\E e \in K : q = e.ret)
    BY <1>5, <1>6, <1>9, <1>12, <2>3
  <2>4. CASE /\ \E a \in gone : r = RetirementOf(a, u, g)
             /\ \E a \in gone : q = RetirementOf(a, u, g)
    BY <1>5, <2>4
  <2> QED
    BY <1>14, <2>1, <2>2, <2>3, <2>4
<1>23. Validate(s)
  <2>1. GenerationZeroIsEmpty(s) /\ AckMatchesForm(s)
    BY <1>1, <1>3, <1>4 DEF GenerationZeroIsEmpty, AckMatchesForm
  <2> HIDE DEF s
  <2> QED
    BY <1>1, <1>17, <1>18, <1>19, <1>20, <1>21, <1>22, <2>1 DEF Validate
<1>24. WellFormed(s)
  BY <1>15, <1>18, <1>23, ValidIsWellFormed
<1>25. GenerationOK(l, s) /\ AckOK(l, s)
  BY <1>1, <1>2, <1>3, <1>4 DEF GenerationOK, AckOK
<1>26. \A m \in s.mappings : EpochOf(m) \in l.active /\ Continues(l, m) /\ EpochOK(l, m)
  <2> TAKE m \in s.mappings
  <2>1. PICK a \in l.active \ gone : m = MappingOf(a, o)
    BY <1>13
  <2> HIDE DEF s
  <2>2. EpochOf(m) = a /\ a.id = m.id
    BY <1>11, <2>1
  <2> QED
    BY <2>1, <2>2 DEF Continues, EpochOK
<1>27. \A r \in s.retirements :
        /\ KnownEntry(l, s, r) => \E e \in K : r = e.ret
        /\ ~KnownEntry(l, s, r) => \E a \in gone : r = RetirementOf(a, u, g)
        /\ RetirementAccepted(l, s, r)
  <2> TAKE r \in s.retirements
  <2>1. KnownEntry(l, s, r) <=> \E e \in K : e.ret.rid = r.rid
    BY <1>1 DEF KnownEntry
  <2>2. RetirementAccepted(l, s, r) <=>
          IF KnownEntry(l, s, r)
          THEN \A e \in K : e.ret.rid = r.rid => e.ret = r
          ELSE RetiredEpoch(r) \in l.active /\ r.gen > l.retHW
    BY <1>1 DEF RetirementAccepted
  <2> HIDE DEF s, K
  <2>3. CASE \E e \in K : r = e.ret
    BY <1>6, <1>10, <2>1, <2>2, <2>3
  <2>4. CASE \E a \in gone : r = RetirementOf(a, u, g)
    <3>1. PICK a \in gone : r = RetirementOf(a, u, g)
      BY <2>4
    <3>2. a \in l.active /\ \A e \in K : e.ret.rid # u
      BY <1>5
    <3>3. r.rid = u /\ RetiredEpoch(r) = a /\ r.gen = g
      BY <1>12, <3>1, <3>2
    <3>4. ~KnownEntry(l, s, r)
      BY <2>1, <3>2, <3>3
    <3>5. g > l.retHW
      BY <1>2, <1>4
    <3> QED
      BY <2>2, <3>1, <3>2, <3>3, <3>4, <3>5
  <2> QED
    BY <1>14, <2>3, <2>4
<1>28. NextEntries(l, s) = K \cup New
  <2>1. FreshRetirements(l, s) = {RetirementOf(a, u, g) : a \in gone}
    <3>1. \A a \in gone : RetirementOf(a, u, g) \in s.retirements
      BY <1>1
    <3>2. \A a \in gone : ~KnownEntry(l, s, RetirementOf(a, u, g))
      <4> SUFFICES ASSUME NEW a \in gone, NEW e \in K,
                          e.ret.rid = RetirementOf(a, u, g).rid
                   PROVE  FALSE
        BY <1>1 DEF KnownEntry
      <4> QED
        BY <1>5, <1>12
    <3> HIDE DEF s
    <3> QED
      BY <1>27, <3>1, <3>2 DEF FreshRetirements
  <2> QED
    BY <1>1, <2>1 DEF NextEntries
<1>29. NoneVanished(l, s)
  <2> SUFFICES ASSUME NEW a \in l.active
               PROVE  (\E m \in s.mappings : m.id = a.id) \/ a.id \in RetiredIDs(l, s)
    BY DEF NoneVanished
  <2>1. CASE a \notin gone
    <3>1. MappingOf(a, o) \in s.mappings
      BY <1>1, <2>1
    <3> QED
      BY <1>11, <3>1
  <2>2. CASE a \in gone
    <3>1. [ret |-> RetirementOf(a, u, g), cleared |-> FALSE] \in NextEntries(l, s)
      BY <1>28, <2>2
    <3>2. RetirementOf(a, u, g).id \in RetiredIDs(l, s)
      BY <3>1 DEF RetiredIDs
    <3> QED
      BY <1>12, <3>2
  <2> QED
    BY <2>1, <2>2
<1>30. ValidLedger(Advance(l, s))
  <2> DEFINE n == Advance(l, s)
  <2>1. /\ n.entries = K \cup New /\ n.ackHW = k /\ n.genHW = g
        /\ n.desired = DesiredHash(s) /\ n.active = NextActive(l, s)
    BY <1>1, <1>28 DEF Advance
  <2>2. /\ l.idHW <= n.idHW /\ l.markHW <= n.markHW /\ l.retHW <= n.retHW
        /\ n.idHW \in Nat /\ n.markHW \in Nat /\ n.retHW \in Nat
    BY <1>1, <1>24, AdvanceHighWater, BoundsAssumption DEF IDs, Marks, Generations
  <2>3. \A a \in gone : g <= n.retHW
    <3> TAKE a \in gone
    <3>1. RetirementOf(a, u, g) \in s.retirements /\ a \in l.active
      BY <1>1, <1>5
    <3>2. RetirementOf(a, u, g) \in FreshRetirements(l, s)
      <4> SUFFICES ASSUME NEW e \in K, e.ret.rid = RetirementOf(a, u, g).rid
                   PROVE  FALSE
        BY <1>1, <3>1 DEF KnownEntry, FreshRetirements
      <4> QED
        BY <1>5, <1>12
    <3>3. RetirementOf(a, u, g).gen <= n.retHW
      BY <1>24, <3>2, AdvanceRetHW
    <3> QED
      BY <1>12, <3>1, <3>3
  <2>4. DesiredHash(s) # NoHash
    BY <1>15, DesiredHashType
  <2>5. n.active \subseteq l.active \ gone
    <3>1. \A m \in s.mappings : EpochOf(m) \in l.active \ gone
      <4> TAKE m \in s.mappings
      <4>1. PICK a \in l.active \ gone : m = MappingOf(a, o)
        BY <1>13
      <4> HIDE DEF s
      <4> QED
        BY <1>11, <4>1
    <3> HIDE DEF s, n
    <3> QED
      BY <2>1, <3>1 DEF NextActive
  <2>6. \A d \in New : \E a \in gone :
          a \in l.active /\ d.ret = RetirementOf(a, u, g)
    BY <1>5
  <2>7. Cardinality(K \cup New) <= MaxRetirements
    <3>1. CASE gone = {}
      <4>1. K \cup New = K
        BY <3>1
      <4> HIDE DEF K, New
      <4> QED
        BY <1>16, <4>1
    <3>2. CASE \E a \in l.active : gone = {a}
      <4>1. PICK a \in l.active : gone = {a}
        BY <3>2
      <4>2. New = {[ret |-> RetirementOf(a, u, g), cleared |-> FALSE]}
        BY <4>1
      <4>3. Cardinality(K) < MaxRetirements
        BY <1>5, <4>1
      <4> HIDE DEF K, New
      <4>4. \/ Cardinality(K \cup New) = Cardinality(K)
            \/ Cardinality(K \cup New) = Cardinality(K) + 1
        BY <1>16, <4>2, FS_AddElement
      <4> QED
        BY <1>16, <4>3, <4>4
    <3> QED
      BY <1>5, <3>1, <3>2
  <2> HIDE DEF n, s, K, New
  <2>8. ActiveValid(n)
    BY <1>2, <1>7, <1>8, <2>2, <2>5 DEF ActiveValid, IDs, Marks
  <2>9. ASSUME NEW d \in K \cup New
        PROVE  /\ d.ret.id > 0 /\ d.ret.id <= n.idHW
               /\ d.ret.mark > 0 /\ d.ret.mark <= n.markHW
               /\ d.ret.gen <= n.retHW
               /\ d.ret.hash = TupleHash(d.ret.id, d.ret.key, d.ret.target, d.ret.mark)
               /\ \A a \in n.active : a.id # d.ret.id /\ a.mark # d.ret.mark
    <3>1. CASE d \in K
      <4>1. /\ d.ret.id \in Int /\ d.ret.mark \in Int /\ d.ret.gen \in Int
            /\ d \in l.entries
        BY <1>6, <1>9, <3>1 DEF Retirements, IDs, Marks, Generations
      <4> QED
        BY <1>2, <1>9, <2>2, <2>5, <4>1
    <3>2. CASE d \in New
      <4>1. PICK a \in gone : a \in l.active /\ d.ret = RetirementOf(a, u, g)
        BY <2>6, <3>2
      <4>2. a.id \in Int /\ a.mark \in Int
        BY <1>7, <4>1 DEF IDs, Marks
      <4>3. \A b \in n.active : b.id # a.id /\ b.mark # a.mark
        BY <1>8, <2>5, <4>1
      <4>4. a.id <= n.idHW /\ a.mark <= n.markHW
        BY <1>2, <1>7, <2>2, <4>1, <4>2
      <4> QED
        BY <1>7, <1>12, <2>3, <4>1, <4>3, <4>4
    <3> QED
      BY <3>1, <3>2
  <2>10. ASSUME NEW d \in K \cup New, NEW f \in K \cup New, d # f
         PROVE  d.ret.rid # f.ret.rid /\ d.ret.id # f.ret.id /\ d.ret.mark # f.ret.mark
    <3>1. ASSUME NEW x \in K, NEW y \in New
          PROVE  x.ret.rid # y.ret.rid /\ x.ret.id # y.ret.id /\ x.ret.mark # y.ret.mark
      <4>1. PICK a \in gone : a \in l.active /\ y.ret = RetirementOf(a, u, g)
        BY <2>6, <3>1
      <4> QED
        BY <1>5, <1>6, <1>9, <1>12, <3>1, <4>1
    <3>2. CASE d \in K /\ f \in K
      BY <1>6, <1>10, <2>10, <3>2
    <3>3. CASE d \in New /\ f \in New
      <4>1. \A x, y \in New : x = y
        BY <1>5 DEF New
      <4> QED
        BY <2>10, <3>3, <4>1
    <3> QED
      BY <2>10, <3>1, <3>2, <3>3
  <2>11. EntriesValid(n)
    BY <2>1, <2>7, <2>9, <2>10 DEF EntriesValid
  <2>12. n.ackHW <= n.retHW
    BY <1>2, <1>3, <2>1, <2>2 DEF Generations
  <2> QED
    BY <1>4, <2>1, <2>4, <2>8, <2>11, <2>12 DEF ValidLedger, n
<1>31. \A m \in s.mappings : EpochOK(l, m)
  BY <1>26
<1>32. \A r \in s.retirements : RetirementAccepted(l, s, r)
  BY <1>27
<1> HIDE DEF s
<1> QED
  BY <1>1, <1>23, <1>25, <1>29, <1>30, <1>31, <1>32 DEF PrepareOK

(***************************************************************************)
(* Whatever was accepted before, the ledger always accepts the next        *)
(* document of a platform in good order, for any caps, any documents on    *)
(* offer and any number of epochs, as long as generations last.            *)
(***************************************************************************)
THEOREM LedgerNeverWedged == Spec => []NeverWedged
<1>1. IndInv /\ Shape(ledger) => NeverWedged
  <2> SUFFICES ASSUME IndInv, Shape(ledger) PROVE NeverWedged
    OBVIOUS
  <2>1. /\ ledger \in Ledgers /\ ValidLedger(ledger)
        /\ IsFiniteSet(ledger.entries)
    BY DEF IndInv, TypeOK, LedgerValid
  <2> QED
    BY <2>1, ContinuationAccepted DEF NeverWedged
<1> QED
  BY <1>1, Invariance, ShapeInvariance, PTL

=============================================================================
