----------------------------- MODULE AgentProofs -----------------------------
(***************************************************************************)
(* Proofs about RelayAgent for any number of epochs, generations, faults   *)
(* and one-shot files.  The invariants come in layers: types, control and  *)
(* ledgers hold in every environment; what builds on them names what it    *)
(* assumes of the environment (no restored platform database, no damaged   *)
(* ledger file, no one-shot apply), and only that.                         *)
(***************************************************************************)
EXTENDS RelayAgent, LedgerLemmas

Healthy == pc # "down" /\ ~ledgerLost

Applying == pc \in {"apply", "verify", "clear", "record"}
Installed == pc \in {"verify", "clear", "record"}

-----------------------------------------------------------------------------
(***************************************************************************)
(* Layer 1: types.  A document of the platform lists epochs it has issued, *)
(* and a retired one only as a retirement.                                 *)
(***************************************************************************)
Document(s, i) ==
    /\ s \in Snapshots /\ IsFiniteSet(s.retirements) /\ s.ack <= s.gen
    /\ IF s.managed THEN s.ack \in Generations
       ELSE s.ack = Absent /\ s.retirements = {}
    /\ \A m \in s.mappings : m.id \in 1..i /\ m = EpochMapping(m.id, s.managed)
    /\ \A r \in s.retirements :
          /\ r.id \in 1..i /\ r.rid = r.id /\ r.gen <= s.gen /\ r.gen > s.ack
          /\ \A m \in s.mappings : m.id # r.id
          /\ \A q \in s.retirements : q.rid = r.rid => q = r

KernelOK == table \in Tables /\ flows \subseteq Flows /\ inflight \subseteq Flows

DiskOK == ledgerFile \in LedgerFiles /\ snapFile \in SnapFiles /\ WellFormed(snapFile.snap)

JobOK ==
    /\ pc \in {"down", "idle", "persist", "snap", "apply", "verify", "clear", "record"}
    /\ job \in Jobs /\ WellFormed(job.snap)

MemoryOK ==
    /\ ledger \in Ledgers /\ ledgerLost \in BOOLEAN
    /\ applied \in BOOLEAN /\ appliedGen \in Generations
    /\ WellFormed(lastApplied) /\ lastErr \in BOOLEAN /\ bootFailed \in BOOLEAN

PlatformOK ==
    /\ issued \in IDs /\ Document(want, issued)
    /\ known \in IDs /\ receipts \subseteq RetirementIDs
    /\ backup \in Backups /\ Document(backup.want, backup.issued)

TypeInv ==
    /\ KernelOK /\ DiskOK /\ JobOK /\ MemoryOK /\ PlatformOK
    /\ faults \in 0..FaultBudget

(***************************************************************************)
(* Control: a quarantined agent is idle; what each kind of job is about.   *)
(***************************************************************************)
ControlInv ==
    /\ ledgerLost => pc = "idle"
    /\ pc = "down" => /\ ledger = NewLedger /\ ~applied
                      /\ appliedGen = 0 /\ lastApplied = NoSnapshot
    /\ pc \in {"down", "idle"} <=> job.kind = "none"
    /\ pc = "persist" => job.kind = "cycle"
    /\ pc = "snap" => job.kind = "cycle"
    /\ job.kind \in {"boot", "bootEmpty", "retry"} => ~applied
    /\ job.kind = "assert" => job.snap = lastApplied
    /\ ~table.present => table = NoTable


-----------------------------------------------------------------------------
(***************************************************************************)
(* The bounds are numbers, and the platform's tuples are in their sets.    *)
(***************************************************************************)
LEMMA Numbers ==
    /\ MaxID \in Nat /\ MaxMark \in Nat /\ MaxGeneration \in Nat
    /\ MaxID <= MaxMark /\ FaultBudget \in Nat
    /\ IDs \subseteq Marks /\ IDs \subseteq Nat /\ Generations \subseteq Nat
    /\ 0 \in IDs /\ 0 \in Generations /\ Absent \notin Generations
  BY BoundsAssumption, PlatformAssumption DEF IDs, Marks, Generations, Absent

LEMMA EpochMappingType ==
    ASSUME NEW e \in 1..MaxID, NEW b \in BOOLEAN
    PROVE  /\ EpochMapping(e, b) \in Mappings /\ EpochMapping(e, b).id = e
           /\ EpochMapping(e, b).mark = IF b THEN e ELSE Absent
<1>1. KeyOf[e] \in Keys /\ TargetOf[e] \in Targets /\ AnyOption \in Options
  BY PlatformAssumption, ValidSetsAssumption
<1>2. e \in IDs /\ e \in Marks
  BY Numbers DEF IDs, Marks
<1> QED
  BY <1>1, <1>2 DEF EpochMapping, Mappings

LEMMA NoSnapshotDocument == \A i : Document(NoSnapshot, i)
<1>1. NoSnapshot \in Snapshots
  BY Numbers DEF NoSnapshot, Snapshots
<1>2. IsFiniteSet({})
  BY FS_EmptySet
<1> QED
  BY <1>1, <1>2 DEF Document, NoSnapshot, Absent

(***************************************************************************)
(* A platform document is well formed.                                     *)
(***************************************************************************)
LEMMA DocumentWellFormed ==
    ASSUME NEW i \in IDs, NEW s, Document(s, i)
    PROVE  WellFormed(s)
<1>1. s \in Snapshots /\ IsFiniteSet(s.retirements) /\ s.managed \in BOOLEAN
  BY DEF Document, Snapshots
<1>2. s.managed => s.ack \in Generations
  BY DEF Document
<1>3. ASSUME NEW m \in s.mappings
      PROVE  IF s.managed THEN m.mark \in Marks /\ m.mark > 0 ELSE m.mark = Absent
  <2>1. m.id \in 1..i /\ m = EpochMapping(m.id, s.managed)
    BY DEF Document
  <2>2. m.id \in 1..MaxID
    BY <2>1, Numbers DEF IDs
  <2>3. m.mark = IF s.managed THEN m.id ELSE Absent
    BY <1>1, <2>1, <2>2, EpochMappingType
  <2> QED
    BY <2>2, <2>3, Numbers DEF Marks
<1>4. \A m \in s.mappings, r \in s.retirements : m.id # r.id
  BY DEF Document
<1> QED
  BY <1>1, <1>2, <1>3, <1>4 DEF WellFormed

(***************************************************************************)
(* A plan is a set of rules, and the table the agent renders is a table.   *)
(***************************************************************************)
LEMMA PlanType ==
    ASSUME NEW s \in Snapshots
    PROVE  Plan(s) \subseteq Rules
<1> SUFFICES ASSUME NEW m \in s.mappings
             PROVE  RuleOf(m) \in Rules
  BY DEF Plan
<1>1. m \in Mappings
  BY DEF Snapshots
<1>2. ValueOrZero(m.mark) \in Marks
  BY <1>1, Numbers DEF Mappings, ValueOrZero, Marks
<1> QED
  BY <1>1, <1>2 DEF RuleOf, Rules, Mappings

LEMMA RenderedType ==
    ASSUME JobOK, ledger \in Ledgers
    PROVE  Rendered \in Tables /\ Rendered.present = TRUE
<1>1. Plan(job.snap) \subseteq Rules
  BY PlanType DEF JobOK, Jobs
<1>2. Outstanding(ledger) \subseteq Retirements
  BY DEF Ledgers, Entries, Outstanding
<1> QED
  BY <1>1, <1>2 DEF Rendered, ApplyManaged, Tables

LEMMA FixedTables == NoTable \in Tables /\ Quarantine \in Tables
  BY DEF NoTable, Quarantine, Tables

LEMMA ClearType ==
    ASSUME NEW l \in Ledgers, NEW rids
    PROVE  Clear(l, rids) \in Ledgers
<1>1. Clear(l, rids) = [l EXCEPT !.entries = {Marked(e, rids) : e \in l.entries}]
  BY DEF Clear, Marked
<1>2. l.entries \subseteq Entries
  BY DEF Ledgers
<1>3. {Marked(e, rids) : e \in l.entries} \subseteq Entries
  BY <1>2, MarkedEntry
<1> QED
  BY <1>1, <1>3 DEF Ledgers

LEMMA PreparedType ==
    ASSUME NEW l \in Ledgers, NEW s, WellFormed(s)
    PROVE  Prepared(l, s) \in Ledgers
  BY AdvanceType DEF Prepared

-----------------------------------------------------------------------------
(***************************************************************************)
(* What each change of the desired state yields is a document again.       *)
(***************************************************************************)
LEMMA ArmDocument ==
    ASSUME PlatformOK, PlatformArm
    PROVE  Document(want, issued)' /\ UNCHANGED <<issued, known, receipts, backup>>
<1> DEFINE M == {EpochMapping(m.id, TRUE) : m \in want.mappings}
<1>1. /\ want \in Snapshots /\ want.managed = FALSE /\ want.retirements = {}
      /\ want.gen < MaxGeneration
      /\ UNCHANGED <<issued, known, receipts, backup>>
      /\ want' = [want EXCEPT !.managed = TRUE, !.ack = 0, !.mappings = M,
                              !.gen = want.gen + 1]
  BY DEF PlatformOK, Document, Snapshots, PlatformArm, Desire
<1>2. ASSUME NEW m \in want.mappings
      PROVE  /\ EpochMapping(m.id, TRUE) \in Mappings /\ m.id \in 1..issued
             /\ EpochMapping(m.id, TRUE).id = m.id
  <2>1. m.id \in 1..issued
    BY DEF PlatformOK, Document
  <2>2. m.id \in 1..MaxID /\ TRUE \in BOOLEAN
    BY <2>1, Numbers DEF PlatformOK, IDs
  <2> QED
    BY <2>1, <2>2, EpochMappingType
<1>3. M \subseteq Mappings /\ \A n \in M : n.id \in 1..issued /\ n = EpochMapping(n.id, TRUE)
  BY <1>2
<1> HIDE DEF M
<1>4. want.gen + 1 \in Generations /\ 0 \in Generations
  BY <1>1, Numbers DEF Snapshots, Generations
<1>5. /\ want'.gen = want.gen + 1 /\ want'.mappings = M /\ want'.managed = TRUE
      /\ want'.retirements = {} /\ want'.ack = 0 /\ want' \in Snapshots
  BY <1>1, <1>3, <1>4 DEF Snapshots
<1>6. IsFiniteSet({})
  BY FS_EmptySet
<1>7. IsFiniteSet(want'.retirements)
  BY <1>5, <1>6
<1>8. want'.ack <= want'.gen
  BY <1>4, <1>5, Numbers DEF Generations
<1> QED
  BY <1>1, <1>3, <1>4, <1>5, <1>7, <1>8 DEF Document

LEMMA AddDocument ==
    ASSUME PlatformOK, PlatformAdd
    PROVE  Document(want, issued)' /\ issued' \in IDs /\ UNCHANGED <<known, receipts, backup>>
<1> DEFINE e == issued + 1
           M == want.mappings \cup {EpochMapping(e, want.managed)}
<1>1. /\ want \in Snapshots /\ want.managed \in BOOLEAN /\ issued \in IDs
      /\ issued < MaxID /\ want.gen < MaxGeneration
      /\ issued' = e /\ UNCHANGED <<known, receipts, backup>>
      /\ want' = [want EXCEPT !.mappings = M, !.gen = want.gen + 1]
  BY DEF PlatformOK, Document, Snapshots, PlatformAdd, Desire
<1>2. e \in 1..MaxID /\ e \in IDs /\ \A x \in 1..issued : x \in 1..e /\ x # e
  BY <1>1, Numbers DEF IDs
<1>3. EpochMapping(e, want.managed) \in Mappings /\ EpochMapping(e, want.managed).id = e
  BY <1>1, <1>2, EpochMappingType
<1>4. want.gen + 1 \in Generations /\ want.gen \in Nat /\ want.ack <= want.gen + 1
  BY <1>1, Numbers DEF PlatformOK, Document, Snapshots, Generations, Absent
<1>5. \A n \in M : n.id \in 1..e /\ n = EpochMapping(n.id, want.managed)
  BY <1>2, <1>3 DEF PlatformOK, Document
<1>6. \A n \in M, r \in want.retirements : n.id # r.id
  BY <1>2, <1>3 DEF PlatformOK, Document
<1>7. M \subseteq Mappings
  BY <1>1, <1>3 DEF Snapshots
<1>8. /\ want'.gen = want.gen + 1 /\ want'.mappings = M /\ want'.managed = want.managed
      /\ want'.retirements = want.retirements /\ want'.ack = want.ack
      /\ want' \in Snapshots
  BY <1>1, <1>4, <1>7 DEF Snapshots
<1>9. \A r \in want.retirements : r.gen <= want.gen + 1
  BY <1>1, <1>4, Numbers DEF PlatformOK, Document, Snapshots, Retirements
<1>10. \A r \in want.retirements :
          /\ r.id \in 1..e /\ r.rid = r.id /\ r.gen > want.ack
          /\ \A q \in want.retirements : q.rid = r.rid => q = r
  BY <1>2 DEF PlatformOK, Document
<1>11. /\ IsFiniteSet(want.retirements)
       /\ IF want.managed THEN want.ack \in Generations
          ELSE want.ack = Absent /\ want.retirements = {}
  BY DEF PlatformOK, Document
<1> HIDE DEF M, e
<1> QED
  BY <1>1, <1>2, <1>4, <1>5, <1>6, <1>8, <1>9, <1>10, <1>11 DEF Document

LEMMA RemoveDocument ==
    ASSUME PlatformOK, NEW m \in want.mappings, PlatformRemove(m)
    PROVE  /\ Document(want, issued)'
           /\ UNCHANGED <<issued, known, receipts, backup>>
<1> DEFINE q == RetirementFor(m)
           R == IF want.managed THEN want.retirements \cup {q} ELSE want.retirements
           M == want.mappings \ {m}
<1>1. /\ want \in Snapshots /\ want.managed \in BOOLEAN /\ issued \in IDs
      /\ want.gen < MaxGeneration
      /\ UNCHANGED <<issued, known, receipts, backup>>
      /\ want' = [want EXCEPT !.mappings = M, !.retirements = R, !.gen = want.gen + 1]
  BY DEF PlatformOK, Document, Snapshots, PlatformRemove, Desire
<1>2. m.id \in 1..issued /\ m.id \in 1..MaxID /\ m = EpochMapping(m.id, want.managed)
  BY <1>1, Numbers DEF PlatformOK, Document, IDs
<1>3. want.gen + 1 \in Generations /\ want.gen \in Nat /\ want.ack < want.gen + 1
  BY <1>1, Numbers DEF PlatformOK, Document, Snapshots, Generations, Absent
<1>4. want.managed => q \in Retirements
  <2> SUFFICES ASSUME want.managed
               PROVE  q \in Retirements
    OBVIOUS
  <2>1. m.mark = m.id /\ m \in Mappings
    BY <1>1, <1>2, EpochMappingType DEF Snapshots
  <2>2. m.id \in IDs /\ m.id \in Marks /\ m.id \in RetirementIDs
    BY <1>2, Numbers, PlatformAssumption DEF IDs, Marks
  <2>3. m.key \in Keys /\ m.target \in Targets
    BY <2>1 DEF Mappings
  <2>4. MappingHash(m) \in Hashes
    BY <2>1, <2>2, <2>3 DEF MappingHash, TupleHash, Hashes
  <2> QED
    BY <1>3, <2>1, <2>2, <2>3, <2>4 DEF RetirementFor, Retirements
<1>5. q.id = m.id /\ q.rid = m.id /\ q.gen = want.gen + 1
  BY DEF RetirementFor
<1>6. \A n \in M : n.id \in 1..issued /\ n = EpochMapping(n.id, want.managed) /\ n.id # m.id
  BY <1>2 DEF PlatformOK, Document
<1>7. \A r \in want.retirements :
         /\ r.id \in 1..issued /\ r.rid = r.id /\ r.gen > want.ack /\ r.id # m.id
         /\ \A n \in M : n.id # r.id
         /\ \A p \in want.retirements : p.rid = r.rid => p = r
  BY DEF PlatformOK, Document
<1>8. \A r \in want.retirements : r.gen <= want.gen + 1
  BY <1>1, <1>3, Numbers DEF PlatformOK, Document, Snapshots, Retirements
<1>9. IsFiniteSet(want.retirements)
  BY DEF PlatformOK, Document
<1>10. IsFiniteSet(want.retirements \cup {q})
  BY <1>9, FS_AddElement
<1>11. IsFiniteSet(R) /\ (~want.managed => R = {})
  BY <1>9, <1>10 DEF PlatformOK, Document
<1>12. IF want.managed THEN want.ack \in Generations ELSE want.ack = Absent
  BY DEF PlatformOK, Document
<1>13. M \subseteq Mappings /\ R \subseteq Retirements
  BY <1>1, <1>4 DEF Snapshots
<1>14. \A r \in R : r \in want.retirements \/ r = q
  OBVIOUS
<1> HIDE DEF M, R, q
<1>15. \A r \in R :
          /\ r.id \in 1..issued /\ r.rid = r.id /\ r.gen <= want.gen + 1 /\ r.gen > want.ack
          /\ \A n \in M : n.id # r.id
          /\ \A p \in R : p.rid = r.rid => p = r
  BY <1>2, <1>3, <1>5, <1>6, <1>7, <1>8, <1>14
<1>16. /\ want'.gen = want.gen + 1 /\ want'.mappings = M /\ want'.managed = want.managed
       /\ want'.retirements = R /\ want'.ack = want.ack /\ want' \in Snapshots
  BY <1>1, <1>3, <1>13 DEF Snapshots
<1>17. want'.ack <= want'.gen
  BY <1>1, <1>3, <1>16 DEF Snapshots, Generations, Absent
<1> QED
  BY <1>1, <1>6, <1>11, <1>12, <1>15, <1>16, <1>17 DEF Document

(***************************************************************************)
(* An acknowledgement covers the acknowledged retirements and none of the  *)
(* others.                                                                 *)
(***************************************************************************)
LEMMA AcknowledgeDocument ==
    ASSUME PlatformOK, PlatformAcknowledge
    PROVE  /\ Document(want, issued)'
           /\ UNCHANGED <<issued, known, receipts, backup>>
           /\ want'.ack \in {r.gen : r \in Acknowledgeable}
           /\ \A r \in Acknowledgeable : r.gen <= want'.ack
           /\ want.ack < want'.ack
<1> DEFINE A == Acknowledgeable
           G == {r.gen : r \in A}
           a == Max(G)
           R == want.retirements \ A
<1>1. /\ want \in Snapshots /\ want.managed \in BOOLEAN /\ issued \in IDs
      /\ want.gen < MaxGeneration /\ A # {}
      /\ UNCHANGED <<issued, known, receipts, backup>>
      /\ want' = [want EXCEPT !.retirements = R, !.ack = a, !.gen = want.gen + 1]
  BY DEF PlatformOK, Document, Snapshots, PlatformAcknowledge, Desire
<1>2. A \subseteq want.retirements
  BY DEF Acknowledgeable
<1>3. want.managed = TRUE /\ want.ack \in Generations
  BY <1>1, <1>2 DEF PlatformOK, Document
<1>4. \A r \in want.retirements :
         /\ r \in Retirements /\ r.gen \in Generations /\ r.gen <= want.gen /\ r.gen > want.ack
         /\ r.id \in 1..issued /\ r.rid = r.id
         /\ \A n \in want.mappings : n.id # r.id
         /\ \A p \in want.retirements : p.rid = r.rid => p = r
  BY <1>1 DEF PlatformOK, Document, Snapshots, Retirements
<1>5. G \subseteq 0..MaxGeneration /\ G # {} /\ MaxGeneration \in Nat
  BY <1>1, <1>2, <1>4, Numbers DEF Generations
<1>6. a \in G /\ \A x \in G : x <= a
  BY <1>5, MaxBounded
<1>7. PICK z \in A : a = z.gen
  BY <1>6
<1>8. \A r \in A : r.gen <= a
  BY <1>6
<1>9. \A r \in R : r.gen > a
  <2> SUFFICES ASSUME NEW r \in R, r.gen <= a
               PROVE  FALSE
    BY <1>2, <1>4, <1>7, Numbers DEF Generations
  <2>1. \A q \in want.retirements : q.gen <= z.gen => q.rid \in receipts
    BY DEF Acknowledgeable
  <2>2. \A q \in want.retirements : q.gen <= r.gen => q.gen <= z.gen
    BY <1>2, <1>4, <1>7, Numbers DEF Generations
  <2> QED
    BY <2>1, <2>2 DEF Acknowledgeable
<1>10. want.gen \in Nat /\ want.gen + 1 \in Generations
  BY <1>1, Numbers DEF Snapshots, Generations
<1>11. a \in Generations /\ a <= want.gen /\ want.ack < a
  BY <1>2, <1>4, <1>7
<1>12. IsFiniteSet(R)
  BY FS_Subset DEF PlatformOK, Document
<1>13. \A n \in want.mappings : n.id \in 1..issued /\ n = EpochMapping(n.id, want.managed)
  BY DEF PlatformOK, Document
<1> HIDE DEF a, R, A, G
<1>14. /\ want'.gen = want.gen + 1 /\ want'.mappings = want.mappings
       /\ want'.managed = TRUE /\ want'.retirements = R /\ want'.ack = a
       /\ want' \in Snapshots
  <2>1. R \subseteq Retirements
    BY <1>4 DEF R
  <2> QED
    BY <1>1, <1>3, <1>10, <1>11, <2>1 DEF Snapshots
<1>15. want'.ack <= want'.gen
  BY <1>10, <1>11, <1>14, Numbers
<1>16. \A r \in R :
          /\ r.id \in 1..issued /\ r.rid = r.id /\ r.gen <= want.gen + 1 /\ r.gen > a
          /\ \A n \in want.mappings : n.id # r.id
          /\ \A p \in R : p.rid = r.rid => p = r
  <2>1. R \subseteq want.retirements
    BY DEF R
  <2> QED
    BY <1>4, <1>9, <1>10, <2>1, Numbers DEF Generations
<1>17. Document(want, issued)'
  BY <1>1, <1>3, <1>11, <1>12, <1>13, <1>14, <1>15, <1>16 DEF Document
<1> QED
  BY <1>1, <1>6, <1>8, <1>11, <1>14, <1>17 DEF G, A

-----------------------------------------------------------------------------
(***************************************************************************)
(* Who writes what.  The table: the apply step, the quarantine, a wipe and *)
(* the one-shot command.                                                   *)
(***************************************************************************)
OneShotTable(t) ==
    \E s \in OneShotFiles : Validate(s) /\ ~s.managed /\ t = ApplyManaged(Plan(s), {})

LEMMA TableWriters ==
    ASSUME Next
    PROVE  \/ table' = table
           \/ table' = NoTable
           \/ table' = Quarantine /\ (pc = "down" \/ ledgerLost)
           \/ table' = Rendered /\ ApplyTable
           \/ OneShotTable(table')
<1>1. CASE Boot
  BY <1>1 DEF Boot, BootLost, BootUnreadable, BootRefused, BootRestore, BootEmpty,
     EnsureQuarantine, kernelVars
<1>2. CASE Work
  BY <1>2 DEF Work, PersistLedger, PersistSnapshot, ApplyTable, VerifyTable,
     ClearConntrack, RecordCleared, kernelVars
<1>3. CASE Sync
  BY <1>3 DEF Sync, Answered, SyncUnchanged, SyncRefused, SyncConverged, SyncChanged,
     QuarantineCycle, SyncFails, SyncMalformed, EnsureQuarantine
<1>4. CASE Adversity
  <2>1. CASE \E s \in OneShotFiles : OneShotApply(s)
    BY <2>1 DEF OneShotApply, OneShotTable
  <2>2. CASE ~\E s \in OneShotFiles : OneShotApply(s)
    BY <1>4, <2>2 DEF Adversity, Crash, HostReboot, WipeTable, DamageLedger, kernelVars
  <2> QED
    BY <2>1, <2>2
<1>5. CASE Traffic
  BY <1>5 DEF Traffic, PacketArrives, PacketConfirmed, FlowEnds
<1>6. CASE Platform
  BY <1>6 DEF Platform, PlatformArm, PlatformAdd, PlatformAcknowledge, PlatformRemove,
     PlatformBackup, PlatformRestore, Desire, kernelVars
<1> QED
  BY <1>1, <1>2, <1>3, <1>4, <1>5, <1>6 DEF Next

(***************************************************************************)
(* The flows: only traffic adds one, and only where the table lets it.     *)
(***************************************************************************)
LEMMA FlowWriters ==
    ASSUME Next
    PROVE  \A f \in flows' \cup inflight' :
              \/ f \in flows \cup inflight
              \/ \E r \in table.rules : f = FlowOf(r) /\ table' = table
<1>1. CASE Boot
  BY <1>1 DEF Boot, BootLost, BootUnreadable, BootRefused, BootRestore, BootEmpty,
     kernelVars
<1>2. CASE Work
  BY <1>2 DEF Work, PersistLedger, PersistSnapshot, ApplyTable, VerifyTable,
     ClearConntrack, RecordCleared, kernelVars
<1>3. CASE Sync
  BY <1>3 DEF Sync, Answered, SyncUnchanged, SyncRefused, SyncConverged, SyncChanged,
     QuarantineCycle, SyncFails, SyncMalformed, Poll, Settle
<1>4. CASE Adversity
  BY <1>4 DEF Adversity, Crash, HostReboot, WipeTable, DamageLedger, OneShotApply, kernelVars
<1>5. CASE Traffic
  <2>1. CASE \E r \in table.rules : PacketArrives(r)
    BY <2>1 DEF PacketArrives
  <2>2. CASE ~\E r \in table.rules : PacketArrives(r)
    BY <1>5, <2>2 DEF Traffic, PacketConfirmed, FlowEnds
  <2> QED
    BY <2>1, <2>2
<1>6. CASE Platform
  BY <1>6 DEF Platform, PlatformArm, PlatformAdd, PlatformAcknowledge, PlatformRemove,
     PlatformBackup, PlatformRestore, Desire, kernelVars
<1> QED
  BY <1>1, <1>2, <1>3, <1>4, <1>5, <1>6 DEF Next

(***************************************************************************)
(* The snapshot file: the persist of a cycle, the removal at boot and the  *)
(* one-shot command.                                                       *)
(***************************************************************************)
LEMMA SnapWriters ==
    ASSUME Next
    PROVE  \/ snapFile' = snapFile
           \/ snapFile' = NoSnapFile
           \/ snapFile' = Saved(job.snap) /\ pc = "snap" /\ ledgerFile' = ledgerFile
                /\ ledger' = ledger
           \/ \E s \in OneShotFiles : Validate(s) /\ ~s.managed /\ snapFile' = Saved(s)
<1>1. CASE Boot
  BY <1>1 DEF Boot, BootLost, BootUnreadable, BootRefused, BootRestore, BootEmpty,
     diskVars
<1>2. CASE Work
  BY <1>2 DEF Work, PersistLedger, PersistSnapshot, ApplyTable, VerifyTable,
     ClearConntrack, RecordCleared, diskVars
<1>3. CASE Sync
  BY <1>3 DEF Sync, Answered, SyncUnchanged, SyncRefused, SyncConverged, SyncChanged,
     QuarantineCycle, SyncFails, SyncMalformed, diskVars
<1>4. CASE Adversity
  <2>1. CASE \E s \in OneShotFiles : OneShotApply(s)
    BY <2>1 DEF OneShotApply
  <2>2. CASE ~\E s \in OneShotFiles : OneShotApply(s)
    BY <1>4, <2>2 DEF Adversity, Crash, HostReboot, WipeTable, DamageLedger, diskVars
  <2> QED
    BY <2>1, <2>2
<1>5. CASE Traffic
  BY <1>5 DEF Traffic, PacketArrives, PacketConfirmed, FlowEnds, diskVars
<1>6. CASE Platform
  BY <1>6 DEF Platform, PlatformArm, PlatformAdd, PlatformAcknowledge, PlatformRemove,
     PlatformBackup, PlatformRestore, Desire, diskVars
<1> QED
  BY <1>1, <1>2, <1>3, <1>4, <1>5, <1>6 DEF Next

(***************************************************************************)
(* The two ledgers.  Each step that writes one of them is named; a damaged *)
(* file keeps its last content, which nobody reads.                        *)
(***************************************************************************)
Lose ==
    /\ LossAllowed /\ UNCHANGED agentVars /\ UNCHANGED snapFile
    /\ ledgerFile' \in {NoLedgerFile, [ledgerFile EXCEPT !.state = "corrupt"]}

LEMMA LedgerWriters ==
    ASSUME Next
    PROVE  \/ UNCHANGED <<ledger, ledgerFile>>
           \/ Boot \/ Lose \/ PersistLedger \/ RecordCleared
           \/ LoseMemory /\ UNCHANGED diskVars
<1>1. CASE Boot
  BY <1>1
<1>2. CASE Work
  BY <1>2 DEF Work, PersistSnapshot, ApplyTable, VerifyTable, ClearConntrack, diskVars
<1>3. CASE Sync
  BY <1>3 DEF Sync, Answered, SyncUnchanged, SyncRefused, SyncConverged, SyncChanged,
     QuarantineCycle, SyncFails, SyncMalformed, StayIdle, StartJob, agentVars, diskVars
<1>4. CASE Adversity
  <2>1. CASE DamageLedger
    BY <2>1 DEF DamageLedger, Lose
  <2>2. CASE ~DamageLedger
    BY <1>4, <2>2 DEF Adversity, Crash, HostReboot, WipeTable, OneShotApply, diskVars,
       agentVars
  <2> QED
    BY <2>1, <2>2
<1>5. CASE Traffic
  BY <1>5 DEF Traffic, PacketArrives, PacketConfirmed, FlowEnds, diskVars, agentVars
<1>6. CASE Platform
  BY <1>6 DEF Platform, PlatformArm, PlatformAdd, PlatformAcknowledge, PlatformRemove,
     PlatformBackup, PlatformRestore, Desire, diskVars, agentVars
<1> QED
  BY <1>1, <1>2, <1>3, <1>4, <1>5, <1>6 DEF Next

(***************************************************************************)
(* The job: a boot, a poll that starts one, the steps of the job itself,   *)
(* and the loss of the process.                                            *)
(***************************************************************************)
Start ==
    /\ pc = "idle" /\ ~ledgerLost
    /\ UNCHANGED <<table, ledger, ledgerFile, snapFile, ledgerLost, appliedVars, want, issued>>
    /\ \/ /\ want.gen = appliedGen /\ applied /\ pc' = "apply"
          /\ job' = [kind |-> "assert", snap |-> lastApplied] /\ lastErr' = FALSE
       \/ /\ ~applied /\ pc' = "apply" /\ job' = [kind |-> "retry", snap |-> NoSnapshot]
          /\ want.gen = appliedGen /\ lastErr' = FALSE
       \/ /\ AcceptedAnswer(want) /\ job' = [kind |-> "cycle", snap |-> want]
          /\ pc' = IF Prepared(ledger, want).armed THEN "persist" ELSE "apply"
          /\ UNCHANGED lastErr

(***************************************************************************)
(* The steps as the ledgers see them.                                      *)
(***************************************************************************)
Quiet == UNCHANGED <<pc, job, ledger, ledgerFile, snapFile, ledgerLost, appliedVars>>

OneShot == \E s \in OneShotFiles : OneShotApply(s)

LEMMA StepCases ==
    ASSUME Next
    PROVE  \/ Boot \/ Work \/ Start \/ Quiet
           \/ LoseMemory /\ UNCHANGED <<diskVars, platformVars>>
           \/ Lose /\ UNCHANGED <<kernelVars, platformVars>>
           \/ OneShot
<1>1. CASE Adversity
  BY <1>1 DEF Adversity, Crash, HostReboot, WipeTable, DamageLedger, OneShot, Quiet, Lose,
     agentVars, appliedVars, diskVars
<1>2. CASE Sync
  <2>1. UNCHANGED diskVars
    BY <1>2 DEF Sync, Answered, SyncUnchanged, SyncRefused, SyncConverged, SyncChanged,
       QuarantineCycle, SyncFails, SyncMalformed, diskVars
  <2>2. Start \/ UNCHANGED <<pc, job, ledger, ledgerLost, appliedVars>>
    <3>1. CASE SyncUnchanged
      BY <3>1 DEF SyncUnchanged, Poll, Deliver, Start, StartJob, StayIdle, appliedVars,
         diskVars
    <3>2. CASE SyncChanged
      BY <3>2 DEF SyncChanged, Poll, Deliver, Start, StartJob, appliedVars, diskVars
    <3> QED
      BY <1>2, <3>1, <3>2 DEF Sync, Answered, SyncRefused, SyncConverged, SyncFails,
         SyncMalformed, QuarantineCycle, StayIdle, agentVars, appliedVars
  <2> QED
    BY <2>1, <2>2 DEF Quiet, diskVars, appliedVars
<1>3. CASE Traffic
  BY <1>3 DEF Traffic, PacketArrives, PacketConfirmed, FlowEnds, Quiet, agentVars,
     appliedVars, diskVars
<1>4. CASE Platform
  BY <1>4 DEF Platform, PlatformArm, PlatformAdd, PlatformAcknowledge, PlatformRemove,
     PlatformBackup, PlatformRestore, Desire, Quiet, agentVars, appliedVars, diskVars
<1> QED
  BY <1>1, <1>2, <1>3, <1>4 DEF Next

LEMMA JobWriters ==
    ASSUME Next
    PROVE  \/ UNCHANGED <<pc, job, ledger, ledgerLost, appliedVars>>
           \/ Boot \/ Work \/ Start \/ LoseMemory
  BY StepCases DEF Quiet, Lose, OneShot, OneShotApply, agentVars, appliedVars

(***************************************************************************)
(* The platform: the report of a poll and its own changes of mind.         *)
(***************************************************************************)
LEMMA PlatformWriters ==
    ASSUME Next
    PROVE  \/ UNCHANGED platformVars
           \/ Deliver /\ pc = "idle" /\ ~ledgerLost /\ UNCHANGED <<ledger, diskVars, table>>
           \/ Platform
<1>1. CASE Boot
  BY <1>1 DEF Boot, BootLost, BootUnreadable, BootRefused, BootRestore, BootEmpty
<1>2. CASE Work
  BY <1>2 DEF Work, PersistLedger, PersistSnapshot, ApplyTable, VerifyTable,
     ClearConntrack, RecordCleared
<1>3. CASE Sync
  BY <1>3 DEF Sync, Answered, SyncUnchanged, SyncRefused, SyncConverged, SyncChanged,
     QuarantineCycle, SyncFails, SyncMalformed, Poll, DeliverNothing, StayIdle, StartJob
<1>4. CASE Adversity
  BY <1>4 DEF Adversity, Crash, HostReboot, WipeTable, DamageLedger, OneShotApply
<1>5. CASE Traffic
  BY <1>5 DEF Traffic, PacketArrives, PacketConfirmed, FlowEnds
<1>6. CASE Platform
  BY <1>6
<1> QED
  BY <1>1, <1>2, <1>3, <1>4, <1>5, <1>6 DEF Next

(***************************************************************************)
(* A boot leaves flows and platform alone; it ends in quarantine, with a   *)
(* snapshot to restore or with the empty set to apply.                     *)
(***************************************************************************)
LedgerReadable ==
    /\ ledgerFile.state # "corrupt"
    /\ ledgerFile.state = "none" =>
          (snapFile.exists => ~snapFile.snap.managed) /\ ~HasManagedState(table)

Quarantined ==
    /\ pc' = "idle" /\ ledgerLost' = TRUE /\ ledger' \in {NewLedger, LoadedLedger}
    /\ snapFile' = snapFile
    /\ UNCHANGED <<job, appliedVars>>

Restoring ==
    /\ pc' = "apply" /\ snapFile.exists /\ snapFile' = snapFile
    /\ job' = [kind |-> "boot", snap |-> snapFile.snap]
    /\ ~WouldCompact(LoadedLedger, snapFile.snap)
    /\ PrepareOK(LoadedLedger, snapFile.snap)
    /\ ledger' = Prepared(LoadedLedger, snapFile.snap)
    /\ ledgerFile' = Stored(LoadedLedger) /\ LedgerReadable
    /\ UNCHANGED <<table, ledgerLost, appliedVars, lastErr>>

Emptying ==
    /\ pc' = "apply" /\ snapFile' \in {snapFile, NoSnapFile}
    /\ job' = [kind |-> "bootEmpty", snap |-> NoSnapshot]
    /\ ledger' = LoadedLedger
    /\ ledgerFile' = Stored(LoadedLedger) /\ LedgerReadable
    /\ UNCHANGED <<table, ledgerLost, appliedVars, lastErr>>

LEMMA BootEffects ==
    ASSUME Boot
    PROVE  /\ pc = "down" /\ UNCHANGED <<flows, inflight, want, issued, known, receipts, backup>>
           /\ table' \in {table, Quarantine}
           /\ \/ ledgerFile' = ledgerFile
              \/ ledgerFile' = Stored(LoadedLedger) /\ LedgerReadable
           /\ Quarantined \/ Restoring \/ Emptying
<1>1. PICK v \in Verdicts : \/ BootLost(v) \/ BootUnreadable(v) \/ BootRefused(v)
                            \/ BootRestore(v) \/ BootEmpty(v)
  BY DEF Boot
<1>2. CASE BootLost(v)
  BY <1>2 DEF BootLost, EnterQuarantine, EnsureQuarantine, Quarantined, diskVars,
     platformVars, appliedVars
<1>3. CASE BootUnreadable(v)
  BY <1>3 DEF BootUnreadable, EnterQuarantine, Quarantined, LedgerUnusable, LegacyUnproven, LedgerReadable,
     platformVars, appliedVars
<1>4. CASE BootRefused(v)
  BY <1>4 DEF BootRefused, EnterQuarantine, EnsureQuarantine, Quarantined, LedgerUnusable, LegacyUnproven, LedgerReadable,
     platformVars, appliedVars
<1>5. CASE BootRestore(v)
  BY <1>5 DEF BootRestore, LedgerUnusable, LegacyUnproven, Restorable, SnapshotRefused,
     LedgerReadable, Restoring, kernelVars, platformVars, appliedVars
<1>6. CASE BootEmpty(v)
  BY <1>6 DEF BootEmpty, LedgerUnusable, LegacyUnproven, LedgerReadable, Emptying, kernelVars,
     platformVars, appliedVars
<1> QED
  BY <1>1, <1>2, <1>3, <1>4, <1>5, <1>6

(***************************************************************************)
(* A step of a job fails, finishes it or goes on.                          *)
(***************************************************************************)
LEMMA WorkEffects ==
    ASSUME Work
    PROVE  /\ pc \in {"persist", "snap", "apply", "verify", "clear", "record"}
           /\ UNCHANGED <<want, issued, known, receipts, backup>>
           /\ \/ Fail /\ ledger' = ledger
              \/ Finish /\ pc \in {"snap", "apply", "record"}
              \/ /\ \/ Continue("snap") /\ (pc = "persist" \/ (pc = "apply" /\ job.kind = "cycle"))
                    \/ Continue("apply") /\ pc = "snap" /\ ledger.armed
                    \/ Continue("verify") /\ pc = "apply" /\ ledger.armed
                    \/ Continue("clear") /\ pc = "verify"
                    \/ Continue("record") /\ pc = "clear"
                 /\ pc # "persist" => ledger' = ledger
<1>1. CASE PersistLedger
  BY <1>1 DEF PersistLedger, platformVars
<1>2. CASE PersistSnapshot
  BY <1>2 DEF PersistSnapshot, platformVars
<1>3. CASE ApplyTable
  BY <1>3 DEF ApplyTable, platformVars
<1>4. CASE VerifyTable
  BY <1>4 DEF VerifyTable, platformVars
<1>5. CASE ClearConntrack
  BY <1>5 DEF ClearConntrack, platformVars
<1>6. CASE RecordCleared
  BY <1>6 DEF RecordCleared, Reverted, platformVars
<1> QED
  BY <1>1, <1>2, <1>3, <1>4, <1>5, <1>6 DEF Work

LEMMA FlagsType ==
    ASSUME Next, lastErr \in BOOLEAN, bootFailed \in BOOLEAN
    PROVE  lastErr' \in BOOLEAN /\ bootFailed' \in BOOLEAN
<1>1. CASE Boot
  BY <1>1 DEF Boot, BootLost, BootUnreadable, BootRefused, BootRestore, BootEmpty,
     EnterQuarantine
<1>2. CASE Work
  <2>1. (bootFailed \/ job.kind \in {"boot", "bootEmpty"}) \in BOOLEAN
    OBVIOUS
  <2>2. Fail \/ Finish \/ UNCHANGED <<lastErr, bootFailed>>
    BY <1>2, WorkEffects DEF Continue
  <2>3. CASE Fail
    BY <2>1, <2>3 DEF Fail
  <2>4. CASE Finish
    BY <2>4 DEF Finish
  <2> QED
    BY <2>2, <2>3, <2>4
<1>3. CASE Sync
  BY <1>3 DEF Sync, Answered, SyncUnchanged, SyncRefused, SyncConverged, SyncChanged,
     QuarantineCycle, SyncFails, SyncMalformed, StayIdle, StartJob, agentVars
<1>4. CASE Adversity
  BY <1>4 DEF Adversity, Crash, HostReboot, WipeTable, DamageLedger, OneShotApply,
     LoseMemory, agentVars
<1>5. CASE Traffic
  BY <1>5 DEF Traffic, PacketArrives, PacketConfirmed, FlowEnds, agentVars
<1>6. CASE Platform
  BY <1>6 DEF Platform, PlatformArm, PlatformAdd, PlatformAcknowledge, PlatformRemove,
     PlatformBackup, PlatformRestore, Desire, agentVars
<1> QED
  BY <1>1, <1>2, <1>3, <1>4, <1>5, <1>6 DEF Next

LEMMA FaultsType ==
    ASSUME Next, faults \in 0..FaultBudget
    PROVE  faults' \in 0..FaultBudget
<1> SUFFICES Fault \/ UNCHANGED faults
  BY Numbers DEF Fault
<1>1. CASE Boot
  BY <1>1 DEF Boot, BootLost, BootUnreadable, BootRefused, BootRestore, BootEmpty,
     EnsureQuarantine, NoFault
<1>2. CASE Work
  BY <1>2 DEF Work, PersistLedger, PersistSnapshot, ApplyTable, VerifyTable,
     ClearConntrack, RecordCleared, NoFault
<1>3. CASE Sync
  BY <1>3 DEF Sync, Answered, SyncUnchanged, SyncRefused, SyncConverged, SyncChanged,
     QuarantineCycle, SyncFails, SyncMalformed, EnsureQuarantine, NoFault
<1>4. CASE Adversity
  BY <1>4 DEF Adversity, Crash, HostReboot, WipeTable, DamageLedger, OneShotApply
<1>5. CASE Traffic
  BY <1>5 DEF Traffic, PacketArrives, PacketConfirmed, FlowEnds
<1>6. CASE Platform
  BY <1>6 DEF Platform, PlatformArm, PlatformAdd, PlatformAcknowledge, PlatformRemove,
     PlatformBackup, PlatformRestore, Desire
<1> QED
  BY <1>1, <1>2, <1>3, <1>4, <1>5, <1>6 DEF Next

LEMMA OneShotWellFormed ==
    ASSUME NEW s \in OneShotFiles, Validate(s), ~s.managed
    PROVE  s \in Snapshots /\ WellFormed(s)
<1>1. s \in Snapshots
  BY PlatformAssumption
<1>2. s.retirements = {}
  BY DEF Validate
<1>3. IsFiniteSet(s.retirements)
  BY <1>2, FS_EmptySet
<1> QED
  BY <1>1, <1>3, ValidIsWellFormed

LEMMA LoadedType ==
    ASSUME ledgerFile \in LedgerFiles
    PROVE  LoadedLedger \in Ledgers /\ ledgerFile.led \in Ledgers
  BY NewLedgerSound DEF LoadedLedger, LedgerFiles, Sound

LEMMA NoSnapshotType == NoSnapshot \in Snapshots /\ WellFormed(NoSnapshot)
<1>1. Document(NoSnapshot, 0) /\ 0 \in IDs
  BY NoSnapshotDocument, Numbers
<1> QED
  BY <1>1, DocumentWellFormed DEF Document

LEMMA NoLedgerFileType == NoLedgerFile \in LedgerFiles /\ NoLedgerFile.led = NewLedger
  BY NewLedgerSound DEF NoLedgerFile, LedgerFiles, Sound

LEMMA StoredType ==
    ASSUME NEW l \in Ledgers
    PROVE  Stored(l) \in LedgerFiles /\ Stored(l).led = l /\ Stored(l).state = "ok"
  BY DEF Stored, LedgerFiles

LEMMA SavedType ==
    ASSUME NEW s \in Snapshots
    PROVE  /\ Saved(s) \in SnapFiles /\ Saved(s).snap = s
           /\ NoSnapFile \in SnapFiles /\ NoSnapFile.snap = NoSnapshot
  BY NoSnapshotType DEF Saved, SnapFiles, NoSnapFile

(***************************************************************************)
(* Init, and one lemma per part of the type invariant.                     *)
(***************************************************************************)
LEMMA TypeInit == Init => TypeInv /\ ControlInv
<1> SUFFICES ASSUME Init
             PROVE  TypeInv /\ ControlInv
  OBVIOUS
<1>1. KernelOK
  BY FixedTables DEF Init, KernelOK
<1>2. DiskOK
  BY NoLedgerFileType, NoSnapshotType, SavedType DEF Init, DiskOK
<1>3. job \in Jobs /\ job.snap = NoSnapshot /\ job.kind = "none"
  BY NoSnapshotType DEF Init, Idle, Jobs
<1>4. JobOK
  BY <1>3, NoSnapshotType DEF JobOK, Init
<1>5. MemoryOK
  BY NewLedgerSound, NoSnapshotType, Numbers DEF Init, MemoryOK, Sound
<1>6. backup \in Backups /\ backup.want = NoSnapshot
  BY NoSnapshotType, Numbers DEF Init, Backups
<1>7. PlatformOK
  BY <1>6, NoSnapshotDocument, Numbers DEF Init, PlatformOK
<1>8. faults \in 0..FaultBudget
  BY Numbers DEF Init
<1>9. ControlInv
  BY <1>3 DEF ControlInv, Init
<1> QED
  BY <1>1, <1>2, <1>4, <1>5, <1>7, <1>8, <1>9 DEF TypeInv

LEMMA KernelStep == ASSUME TypeInv, Next PROVE KernelOK'
<1>1. table' \in Tables
  <2>1. table \in Tables
    BY DEF TypeInv, KernelOK
  <2>2. Rendered \in Tables
    BY RenderedType DEF TypeInv, MemoryOK
  <2>3. ASSUME OneShotTable(table')
        PROVE  table' \in Tables
    <3>1. PICK s \in OneShotFiles : Validate(s) /\ ~s.managed
                                    /\ table' = ApplyManaged(Plan(s), {})
      BY <2>3 DEF OneShotTable
    <3>2. Plan(s) \subseteq Rules
      BY <3>1, OneShotWellFormed, PlanType
    <3> QED
      BY <3>1, <3>2 DEF ApplyManaged, Tables
  <2> QED
    BY <2>1, <2>2, <2>3, TableWriters, FixedTables
<1>2. flows' \cup inflight' \subseteq Flows
  <2>1. flows \cup inflight \subseteq Flows
    BY DEF TypeInv, KernelOK
  <2>2. \A r \in table.rules : FlowOf(r) \in Flows
    BY DEF TypeInv, KernelOK, Tables, Rules, FlowOf, Flows
  <2> QED
    BY <2>1, <2>2, FlowWriters
<1> QED
  BY <1>1, <1>2 DEF KernelOK

LEMMA DiskStep == ASSUME TypeInv, Next PROVE DiskOK'
<1>1. ledgerFile' \in LedgerFiles
  <2>1. ledgerFile \in LedgerFiles /\ ledger \in Ledgers /\ WellFormed(job.snap)
    BY DEF TypeInv, DiskOK, MemoryOK, JobOK
  <2>2. CASE Boot
    BY <2>1, <2>2, BootEffects, LoadedType, StoredType
  <2>3. CASE Lose
    BY <2>1, <2>3, NoLedgerFileType DEF Lose, LedgerFiles
  <2>4. CASE PersistLedger
    BY <2>1, <2>4, PreparedType, StoredType DEF PersistLedger
  <2>5. CASE RecordCleared
    BY <2>1, <2>5, ClearType, StoredType DEF RecordCleared
  <2> QED
    BY <2>1, <2>2, <2>3, <2>4, <2>5, LedgerWriters DEF diskVars
<1>2. snapFile' \in SnapFiles /\ WellFormed(snapFile'.snap)
  <2>1. snapFile \in SnapFiles /\ WellFormed(snapFile.snap)
    BY DEF TypeInv, DiskOK
  <2>2. WellFormed(job.snap) /\ job.snap \in Snapshots
    BY DEF TypeInv, JobOK, WellFormed
  <2>3. CASE snapFile' = NoSnapFile
    BY <2>3, NoSnapshotType, SavedType
  <2>4. CASE snapFile' = Saved(job.snap)
    BY <2>2, <2>4, SavedType
  <2>5. CASE \E s \in OneShotFiles : Validate(s) /\ ~s.managed /\ snapFile' = Saved(s)
    BY <2>5, OneShotWellFormed, SavedType
  <2> QED
    BY <2>1, <2>3, <2>4, <2>5, SnapWriters
<1> QED
  BY <1>1, <1>2 DEF DiskOK

LEMMA JobStep == ASSUME TypeInv, Next PROVE JobOK'
<1>1. /\ JobOK /\ WellFormed(snapFile.snap) /\ snapFile.snap \in Snapshots
      /\ WellFormed(lastApplied) /\ lastApplied \in Snapshots
  BY DEF TypeInv, DiskOK, MemoryOK, WellFormed
<1>2. WellFormed(want) /\ want \in Snapshots
  BY DocumentWellFormed DEF TypeInv, PlatformOK, Document
<1>3. WellFormed(NoSnapshot) /\ NoSnapshot \in Snapshots
  BY NoSnapshotType
<1>4. Idle \in Jobs /\ Idle.snap = NoSnapshot
  BY <1>3 DEF Idle, Jobs
<1>5. CASE UNCHANGED <<pc, job>>
  BY <1>1, <1>5 DEF JobOK
<1>6. CASE Boot
  <2>1. Quarantined \/ Restoring \/ Emptying
    BY <1>6, BootEffects
  <2>2. CASE Quarantined
    BY <1>1, <2>2 DEF Quarantined, JobOK
  <2>3. CASE Restoring
    BY <1>1, <2>3 DEF Restoring, JobOK, Jobs
  <2>4. CASE Emptying
    BY <1>3, <2>4 DEF Emptying, JobOK, Jobs
  <2> QED
    BY <2>1, <2>2, <2>3, <2>4
<1>7. CASE Work
  BY <1>1, <1>3, <1>4, <1>7, WorkEffects DEF JobOK, Fail, Finish, Continue
<1>8. CASE Start
  <2>1. pc' \in {"persist", "apply"}
    BY <1>8 DEF Start
  <2>2. job' \in Jobs /\ WellFormed(job'.snap)
    BY <1>1, <1>2, <1>3, <1>8 DEF Start, Jobs
  <2> QED
    BY <2>1, <2>2 DEF JobOK
<1>9. CASE LoseMemory
  BY <1>3, <1>4, <1>9 DEF LoseMemory, JobOK
<1> QED
  BY <1>5, <1>6, <1>7, <1>8, <1>9, JobWriters

LEMMA LedgerStep == ASSUME TypeInv, Next PROVE ledger' \in Ledgers
<1>1. /\ ledgerFile \in LedgerFiles /\ ledger \in Ledgers /\ WellFormed(job.snap)
      /\ WellFormed(snapFile.snap)
  BY DEF TypeInv, DiskOK, MemoryOK, JobOK
<1>2. NewLedger \in Ledgers /\ LoadedLedger \in Ledgers
  BY <1>1, NewLedgerSound, LoadedType DEF Sound
<1>3. CASE Boot
  BY <1>1, <1>2, <1>3, BootEffects, PreparedType DEF Quarantined, Restoring, Emptying
<1>4. CASE PersistLedger
  BY <1>1, <1>4, PreparedType DEF PersistLedger
<1>5. CASE RecordCleared
  BY <1>1, <1>5, ClearType DEF RecordCleared, Reverted
<1> QED
  BY <1>1, <1>2, <1>3, <1>4, <1>5, LedgerWriters DEF Lose, LoseMemory, agentVars

LEMMA MemoryStep == ASSUME TypeInv, Next PROVE MemoryOK'
<1>1. /\ ledgerLost \in BOOLEAN /\ applied \in BOOLEAN /\ appliedGen \in Generations
      /\ WellFormed(lastApplied) /\ lastErr \in BOOLEAN /\ bootFailed \in BOOLEAN
      /\ WellFormed(job.snap) /\ job.snap.gen \in Generations
  BY DEF TypeInv, MemoryOK, JobOK, Jobs, Snapshots
<1>2. WellFormed(NoSnapshot) /\ 0 \in Generations
  BY NoSnapshotType, Numbers
<1>3. /\ ledgerLost' \in BOOLEAN /\ applied' \in BOOLEAN /\ appliedGen' \in Generations
      /\ WellFormed(lastApplied')
  <2>1. CASE UNCHANGED <<ledgerLost, appliedVars>>
    BY <1>1, <2>1 DEF appliedVars
  <2>2. CASE Boot
    BY <1>1, <2>2, BootEffects DEF Quarantined, Restoring, Emptying, appliedVars
  <2>3. CASE Work
    BY <1>1, <2>3, WorkEffects DEF Fail, Finish, Continue, appliedVars
  <2>4. CASE Start
    BY <1>1, <2>4 DEF Start, appliedVars
  <2>5. CASE LoseMemory
    BY <1>2, <2>5 DEF LoseMemory
  <2> QED
    BY <2>1, <2>2, <2>3, <2>4, <2>5, JobWriters
<1> QED
  BY <1>1, <1>3, LedgerStep, FlagsType DEF MemoryOK

LEMMA PlatformStep == ASSUME TypeInv, Next PROVE PlatformOK'
<1>1. PlatformOK /\ ledger \in Ledgers
  BY DEF TypeInv, MemoryOK
<1>2. CASE UNCHANGED platformVars
  BY <1>1, <1>2 DEF PlatformOK, platformVars
<1>3. CASE Deliver
  <2>1. {known, ledger.idHW} \subseteq 0..MaxID /\ MaxID \in Nat
    BY <1>1, Numbers DEF PlatformOK, Ledgers, IDs
  <2>2. known' \in IDs
    BY <1>3, <2>1, MaxBounded DEF Deliver, IDs
  <2>3. receipts' \subseteq RetirementIDs
    BY <1>1, <1>3 DEF Deliver, PlatformOK, ClearedEntries, Ledgers, Entries, Retirements
  <2> QED
    BY <1>1, <1>3, <2>2, <2>3 DEF Deliver, PlatformOK
<1>4. CASE PlatformArm
  BY <1>1, <1>4, ArmDocument DEF PlatformOK
<1>5. CASE PlatformAdd
  BY <1>1, <1>5, AddDocument DEF PlatformOK
<1>6. CASE PlatformAcknowledge
  BY <1>1, <1>6, AcknowledgeDocument DEF PlatformOK
<1>7. CASE \E m \in want.mappings : PlatformRemove(m)
  BY <1>1, <1>7, RemoveDocument DEF PlatformOK
<1>8. CASE PlatformBackup
  <2>1. want \in Snapshots /\ issued \in IDs /\ known \in IDs /\ receipts \subseteq RetirementIDs
    BY <1>1 DEF PlatformOK, Document
  <2>2. /\ UNCHANGED <<want, issued, known, receipts>>
        /\ backup' = [state |-> "taken", want |-> want, issued |-> issued, known |-> known,
                      receipts |-> receipts]
    BY <1>8 DEF PlatformBackup
  <2>3. backup' \in Backups /\ backup'.want = want /\ backup'.issued = issued
    BY <2>1, <2>2 DEF Backups
  <2> QED
    BY <1>1, <2>2, <2>3 DEF PlatformOK
<1>9. CASE PlatformRestore
  <2>1. /\ want' = backup.want /\ issued' = backup.issued
        /\ known' = backup.known /\ receipts' = backup.receipts
        /\ backup' = [backup EXCEPT !.state = "used"]
    BY <1>9 DEF PlatformRestore
  <2>2. /\ backup.issued \in IDs /\ backup.known \in IDs
        /\ backup.receipts \subseteq RetirementIDs
        /\ backup' \in Backups /\ backup'.want = backup.want
        /\ backup'.issued = backup.issued
    BY <1>1, <2>1 DEF PlatformOK, Backups
  <2> QED
    BY <1>1, <2>1, <2>2 DEF PlatformOK
<1> QED
  BY <1>2, <1>3, <1>4, <1>5, <1>6, <1>7, <1>8, <1>9, PlatformWriters DEF Platform

LEMMA TypeStep == TypeInv /\ [Next]_vars => TypeInv'
<1> SUFFICES ASSUME TypeInv, [Next]_vars
             PROVE  TypeInv'
  OBVIOUS
<1>1. CASE Next
  BY <1>1, KernelStep, DiskStep, JobStep, MemoryStep, PlatformStep, FaultsType DEF TypeInv
<1>2. CASE UNCHANGED vars
  BY <1>2 DEF vars, kernelVars, diskVars, agentVars, platformVars, TypeInv, KernelOK,
     DiskOK, JobOK, MemoryOK, PlatformOK
<1> QED
  BY <1>1, <1>2

(***************************************************************************)
(* Files, memory, table, flows and documents keep their types through      *)
(* every crash, failing call, wipe and database restore.                   *)
(***************************************************************************)
THEOREM AgentTypes == Spec => []TypeOK
<1>1. TypeInv => TypeOK
  BY DEF TypeInv, TypeOK, KernelOK, DiskOK, JobOK, MemoryOK, PlatformOK, Document,
     WellFormed
<1> QED
  BY <1>1, TypeInit, TypeStep, PTL DEF Spec

LEMMA ControlStep == TypeInv /\ ControlInv /\ [Next]_vars => ControlInv'
<1> SUFFICES ASSUME TypeInv, ControlInv, [Next]_vars
             PROVE  ControlInv'
  OBVIOUS
<1> DEFINE Kinds ==
      /\ ledgerLost => pc = "idle"
      /\ pc = "down" => ledger = NewLedger /\ ~applied /\ appliedGen = 0
                        /\ lastApplied = NoSnapshot
      /\ pc \in {"down", "idle"} <=> job.kind = "none"
      /\ pc = "persist" => job.kind = "cycle"
      /\ pc = "snap" => job.kind = "cycle"
      /\ job.kind \in {"boot", "bootEmpty", "retry"} => ~applied
      /\ job.kind = "assert" => job.snap = lastApplied
<1>1. Kinds
  BY DEF ControlInv
<1>2. Idle.kind = "none"
  BY DEF Idle
<1>3. CASE Next
  <2>1. Kinds'
    <3>1. CASE UNCHANGED <<pc, job, ledger, ledgerLost, appliedVars>>
      BY <1>1, <3>1 DEF appliedVars
    <3>2. CASE Boot
      <4>1. pc = "down" /\ (Quarantined \/ Restoring \/ Emptying)
        BY <3>2, BootEffects
      <4>2. CASE Quarantined
        BY <1>1, <4>1, <4>2 DEF Quarantined, appliedVars
      <4>3. CASE Restoring
        BY <1>1, <4>1, <4>3 DEF Restoring, appliedVars
      <4>4. CASE Emptying
        BY <1>1, <4>1, <4>4 DEF Emptying, appliedVars
      <4> QED
        BY <4>1, <4>2, <4>3, <4>4
    <3>3. CASE Work
      <4>1. CASE Fail
        BY <1>1, <1>2, <3>3, <4>1, WorkEffects DEF Fail, appliedVars
      <4>2. CASE Finish
        BY <1>1, <1>2, <3>3, <4>2, WorkEffects DEF Finish, appliedVars
      <4>3. CASE ~Fail /\ ~Finish
        BY <1>1, <3>3, <4>3, WorkEffects DEF Continue, appliedVars
      <4> QED
        BY <4>1, <4>2, <4>3
    <3>4. CASE Start
      BY <1>1, <3>4 DEF Start, appliedVars
    <3>5. CASE LoseMemory
      BY <1>2, <3>5 DEF LoseMemory
    <3> QED
      BY <3>1, <3>2, <3>3, <3>4, <3>5, <1>3, JobWriters
  <2>2. ~table'.present => table' = NoTable
    <3>1. Rendered.present = TRUE /\ Quarantine.present = TRUE
      BY DEF Rendered, Quarantine, ApplyManaged
    <3>2. OneShotTable(table') => table'.present = TRUE
      BY DEF OneShotTable, ApplyManaged
    <3> QED
      BY <1>3, <3>1, <3>2, TableWriters DEF ControlInv
  <2> QED
    BY <2>1, <2>2 DEF ControlInv
<1>4. CASE UNCHANGED vars
  BY <1>4 DEF vars, kernelVars, agentVars, ControlInv
<1> QED
  BY <1>3, <1>4

(***************************************************************************)
(* Nobody but the agent replaces its table.                                *)
(***************************************************************************)
NoOneShot == OneShotFiles = {}

(***************************************************************************)
(* A quarantined agent installs no DNAT rule until it is restarted: every  *)
(* job belongs to a healthy process.                                       *)
(***************************************************************************)
THEOREM QuarantineHolds == ASSUME NoOneShot PROVE Spec => QuarantineSticks
<1>1. ASSUME ControlInv, [Next]_vars, ledgerLost
      PROVE  table'.rules \subseteq table.rules
  <2>1. pc = "idle"
    BY <1>1 DEF ControlInv
  <2>2. NoTable.rules = {} /\ Quarantine.rules = {}
    BY DEF NoTable, Quarantine
  <2>3. CASE Next
    <3>1. table' \in {table, NoTable, Quarantine}
      BY <2>1, <2>3, TableWriters DEF NoOneShot, OneShotTable, ApplyTable
    <3> QED
      BY <2>2, <3>1
  <2> QED
    BY <1>1, <2>3 DEF vars, kernelVars
<1>2. TypeInv /\ ControlInv /\ [Next]_vars => [ledgerLost => table'.rules \subseteq table.rules]_vars
  BY <1>1
<1> QED
  BY <1>2, TypeInit, TypeStep, ControlStep, PTL DEF Spec, QuarantineSticks

(***************************************************************************)
(* A fence leaves the table only when its entry has left the ledger: the   *)
(* only step that removes one renders the ledger it decides by.            *)
(***************************************************************************)
THEOREM FencesRemovedWithProof == ASSUME NoOneShot PROVE Spec => FenceRemovalProven
<1>1. ASSUME ControlInv, Next, table'.present, ~table'.quarantine,
             NEW r \in table.fences \ table'.fences
      PROVE  r \notin Outstanding(Authority')
  <2>1. NoTable.present = FALSE /\ Quarantine.quarantine = TRUE
    BY DEF NoTable, Quarantine
  <2>2. table' = Rendered /\ ApplyTable
    BY <1>1, <2>1, TableWriters DEF NoOneShot, OneShotTable
  <2>3. Rendered.fences = Outstanding(ledger)
    BY DEF Rendered, ApplyManaged
  <2>4. ~ledgerLost
    BY <1>1, <2>2 DEF ControlInv, ApplyTable
  <2>5. ledger' = ledger /\ ledgerLost' = ledgerLost /\ pc' # "down"
    BY <2>2 DEF ApplyTable, Continue, Finish, Fail
  <2>6. Authority' = ledger
    BY <2>4, <2>5 DEF Authority
  <2> QED
    BY <1>1, <2>2, <2>3, <2>6
<1>2. TypeInv /\ ControlInv /\ [Next]_vars =>
        [table'.present /\ ~table'.quarantine =>
            \A r \in table.fences \ table'.fences : r \notin Outstanding(Authority')]_vars
  BY <1>1
<1> QED
  BY <1>2, TypeInit, TypeStep, ControlStep, PTL DEF Spec, FenceRemovalProven
-----------------------------------------------------------------------------
(***************************************************************************)
(* Layer 2: the ledgers.  A snapshot is persisted, applied or held only    *)
(* after the ledger in memory, and for the file the one on disk, has       *)
(* absorbed it; so Prepare at boot changes nothing.                        *)
(***************************************************************************)
Absorbed(l, s) == s.managed => l.armed /\ s.gen <= l.genHW

LedgerInv ==
    /\ Sound(ledger) /\ Sound(ledgerFile.led)
    /\ ledgerFile.state = "none" => ledgerFile.led = NewLedger
    /\ ~snapFile.exists => snapFile.snap = NoSnapshot
    /\ ledgerFile.state = "ok" => Absorbed(ledgerFile.led, snapFile.snap)
    /\ Healthy => Absorbed(ledger, snapFile.snap) /\ Absorbed(ledger, lastApplied)
    /\ pc = "persist" => PrepareOK(ledger, job.snap)
    /\ Applying \/ pc = "snap" => Absorbed(ledger, job.snap)
    /\ pc = "snap" /\ ledgerFile.state = "ok" => Absorbed(ledgerFile.led, job.snap)

(***************************************************************************)
(* Without damage, the file is where memory is or one stage ahead.         *)
(***************************************************************************)
Follows(a, b) == a = b \/ <<a, b>> \in StageMoves

FileAhead ==
    /\ ledgerFile.state # "corrupt"
    /\ Healthy => \A m \in 1..MaxMark :
                     Follows(LedgerLife(ledger, m), LedgerLife(ledgerFile.led, m))

-----------------------------------------------------------------------------
(***************************************************************************)
(* What a ledger has absorbed stays absorbed: neither Prepare nor Clear    *)
(* disarms it or takes its generation back.                                *)
(***************************************************************************)
Succeeds(n, l) == (l.armed => n.armed) /\ l.genHW <= n.genHW

LEMMA PreparedSucceeds ==
    ASSUME NEW l, Sound(l), NEW s, WellFormed(s), PrepareOK(l, s)
    PROVE  Succeeds(Prepared(l, s), l) /\ Absorbed(Prepared(l, s), s)
<1>1. l.genHW \in Int /\ s.gen \in Int
  BY DEF Sound, Ledgers, Generations, WellFormed, Snapshots
<1>2. CASE s.managed
  <2>1. Prepared(l, s) = Advance(l, s) /\ Advance(l, s).armed = TRUE
        /\ Advance(l, s).genHW = s.gen
    BY <1>2 DEF Prepared, Advance
  <2>2. s.gen >= l.genHW
    BY <1>2 DEF PrepareOK, GenerationOK
  <2> QED
    BY <1>1, <2>1, <2>2 DEF Succeeds, Absorbed
<1>3. CASE ~s.managed
  BY <1>1, <1>3 DEF Prepared, Succeeds, Absorbed
<1> QED
  BY <1>2, <1>3

LEMMA ClearSucceeds ==
    ASSUME NEW l, Sound(l), NEW rids
    PROVE  Succeeds(Clear(l, rids), l)
<1>1. l \in Ledgers /\ l.genHW \in Int
  BY DEF Sound, Ledgers, Generations
<1> QED
  BY <1>1 DEF Clear, Succeeds, Ledgers

LEMMA AbsorbedStays ==
    ASSUME NEW l \in Ledgers, NEW n \in Ledgers, Succeeds(n, l),
           NEW s \in Snapshots, Absorbed(l, s)
    PROVE  Absorbed(n, s)
<1>1. l.genHW \in Int /\ n.genHW \in Int /\ s.gen \in Int
  BY DEF Ledgers, Generations, Snapshots
<1> QED
  BY <1>1 DEF Succeeds, Absorbed

LEMMA LoadedSound ==
    ASSUME LedgerInv
    PROVE  Sound(LoadedLedger)
  BY NewLedgerSound DEF LedgerInv, LoadedLedger

(***************************************************************************)
(* A readable ledger has absorbed the snapshot file, so restoring the      *)
(* snapshot leaves the ledger as it was loaded.                            *)
(***************************************************************************)
LEMMA LoadedAbsorbs ==
    ASSUME LedgerInv, TypeInv, LedgerReadable
    PROVE  Absorbed(LoadedLedger, snapFile.snap)
<1>1. ledgerFile.state \in {"none", "ok", "corrupt"}
  BY DEF TypeInv, DiskOK, LedgerFiles
<1>2. NoSnapshot.managed = FALSE
  BY DEF NoSnapshot
<1>3. CASE ledgerFile.state = "ok"
  BY <1>3 DEF LoadedLedger, LedgerInv
<1>4. CASE ledgerFile.state = "none"
  BY <1>2, <1>4 DEF LedgerReadable, LedgerInv, Absorbed
<1> QED
  BY <1>1, <1>3, <1>4 DEF LedgerReadable

LEMMA RestoreKeepsLedger ==
    ASSUME LedgerInv, TypeInv, Restoring
    PROVE  ledger' = LoadedLedger /\ Absorbed(LoadedLedger, snapFile.snap)
<1> DEFINE s == snapFile.snap
           l == LoadedLedger
<1>1. LedgerReadable /\ ~WouldCompact(l, s) /\ PrepareOK(l, s) /\ ledger' = Prepared(l, s)
  BY DEF Restoring
<1>2. Absorbed(l, s) /\ Sound(l) /\ WellFormed(s)
  BY <1>1, LoadedAbsorbs, LoadedSound DEF TypeInv, DiskOK
<1> HIDE DEF s, l
<1>3. CASE s.managed
  <2>1. l.armed /\ s.gen <= l.genHW /\ s.ack = l.ackHW
    BY <1>1, <1>2, <1>3 DEF Absorbed, WouldCompact
  <2>2. Advance(l, s) = l
    BY <1>1, <1>2, <1>3, <2>1, PrepareIdempotent
  <2> QED
    BY <1>1, <1>2, <1>3, <2>2 DEF Prepared, s, l
<1>4. CASE ~s.managed
  BY <1>1, <1>2, <1>4 DEF Prepared, s, l
<1> QED
  BY <1>3, <1>4

-----------------------------------------------------------------------------
(***************************************************************************)
(* One lemma per writer: boot, persist, record, the other steps.           *)
(***************************************************************************)
LEMMA LedgerInit == Init => LedgerInv
<1>1. NoSnapshot.managed = FALSE /\ NoSnapFile.snap = NoSnapshot /\ NoSnapFile.exists = FALSE
      /\ NoLedgerFile.state = "none" /\ NoLedgerFile.led = NewLedger
  BY DEF NoSnapshot, NoSnapFile, NoLedgerFile
<1> QED
  BY <1>1, NewLedgerSound DEF Init, LedgerInv, Healthy, Applying

LEMMA LedgerBoot ==
    ASSUME TypeInv, ControlInv, LedgerInv, Boot
    PROVE  LedgerInv'
<1>1. pc = "down" /\ (Quarantined \/ Restoring \/ Emptying)
  BY BootEffects
<1>2. NoSnapshot.managed = FALSE /\ NoSnapFile.snap = NoSnapshot
  BY DEF NoSnapshot, NoSnapFile
<1>3. Sound(LoadedLedger) /\ Sound(NewLedger) /\ Sound(ledgerFile.led)
  BY LoadedSound, NewLedgerSound DEF LedgerInv
<1>4. LoadedLedger \in Ledgers
  BY <1>3 DEF Sound
<1>5. snapFile' \in {snapFile, NoSnapFile} /\ lastApplied' = NoSnapshot
  BY <1>1 DEF Quarantined, Restoring, Emptying, ControlInv, appliedVars
<1>6. /\ Sound(ledgerFile'.led) /\ (ledgerFile'.state = "none" => ledgerFile'.led = NewLedger)
      /\ ledgerFile'.state = "ok" => Absorbed(ledgerFile'.led, snapFile'.snap)
  <2>1. CASE ledgerFile' = ledgerFile
    BY <1>2, <1>3, <1>5, <2>1 DEF LedgerInv, Absorbed
  <2>2. CASE ledgerFile' = Stored(LoadedLedger) /\ LedgerReadable
    BY <1>2, <1>3, <1>4, <1>5, <2>2, StoredType, LoadedAbsorbs DEF Absorbed
  <2> QED
    BY <2>1, <2>2, BootEffects
<1>7. ~snapFile'.exists => snapFile'.snap = NoSnapshot
  BY <1>2, <1>5 DEF LedgerInv
<1>8. Sound(ledger') /\ (Restoring => ledger' = LoadedLedger)
  BY <1>1, <1>3, RestoreKeepsLedger DEF Quarantined, Restoring, Emptying
<1>9. CASE Quarantined
  BY <1>6, <1>7, <1>8, <1>9 DEF Quarantined, LedgerInv, Healthy, Applying
<1>10. CASE Restoring \/ Emptying
  <2>1. /\ pc' = "apply" /\ ledger' = LoadedLedger
        /\ Absorbed(LoadedLedger, snapFile.snap) /\ job'.snap \in {snapFile.snap, NoSnapshot}
    BY <1>8, <1>10, LoadedAbsorbs DEF Restoring, Emptying
  <2>2. Absorbed(ledger', snapFile'.snap) /\ Absorbed(ledger', job'.snap)
        /\ Absorbed(ledger', lastApplied')
    BY <1>2, <1>5, <2>1 DEF Absorbed
  <2> QED
    BY <1>6, <1>7, <1>8, <2>1, <2>2 DEF LedgerInv, Healthy, Applying
<1> QED
  BY <1>1, <1>9, <1>10

LEMMA LedgerPersist ==
    ASSUME TypeInv, ControlInv, LedgerInv, PersistLedger
    PROVE  LedgerInv'
<1> DEFINE n == Prepared(ledger, job.snap)
<1>1. /\ pc = "persist" /\ Healthy /\ PrepareOK(ledger, job.snap) /\ snapFile' = snapFile
      /\ ledgerFile' \in {ledgerFile, Stored(n)}
      /\ \/ Continue("snap") /\ ledger' = n /\ ledgerFile' = Stored(n)
         \/ Fail /\ ledger' = ledger
  BY DEF PersistLedger, Healthy, ControlInv, LedgerInv
<1>2. Sound(ledger) /\ WellFormed(job.snap) /\ snapFile.snap \in Snapshots
      /\ lastApplied \in Snapshots /\ job.snap \in Snapshots
  BY DEF LedgerInv, TypeInv, JobOK, MemoryOK, DiskOK, WellFormed
<1>3. Sound(n) /\ Succeeds(n, ledger) /\ Absorbed(n, job.snap)
  BY <1>1, <1>2, PreparedSound, PreparedSucceeds
<1>4. ledger \in Ledgers /\ n \in Ledgers
  BY <1>2, <1>3 DEF Sound
<1>5. Absorbed(ledger, snapFile.snap) /\ Absorbed(ledger, lastApplied)
  BY <1>1 DEF LedgerInv
<1>6. Absorbed(n, snapFile.snap) /\ Absorbed(n, lastApplied)
  BY <1>2, <1>3, <1>4, <1>5, AbsorbedStays
<1>7. Stored(n).led = n /\ Stored(n).state = "ok"
  BY DEF Stored
<1> HIDE DEF n
<1>8. /\ Sound(ledgerFile'.led) /\ (ledgerFile'.state = "none" => ledgerFile'.led = NewLedger)
      /\ ledgerFile'.state = "ok" => Absorbed(ledgerFile'.led, snapFile'.snap)
      /\ ~snapFile'.exists => snapFile'.snap = NoSnapshot
  BY <1>1, <1>3, <1>6, <1>7 DEF LedgerInv
<1>9. CASE Continue("snap") /\ ledger' = n /\ ledgerFile' = Stored(n)
  <2>1. pc' = "snap" /\ job' = job /\ lastApplied' = lastApplied
    BY <1>9 DEF Continue, appliedVars
  <2> QED
    BY <1>1, <1>3, <1>6, <1>7, <1>8, <1>9, <2>1 DEF LedgerInv, Applying
<1>10. CASE Fail /\ ledger' = ledger
  <2>1. pc' = "idle" /\ lastApplied' = lastApplied
    BY <1>10 DEF Fail, appliedVars
  <2> QED
    BY <1>1, <1>2, <1>5, <1>8, <1>10, <2>1 DEF LedgerInv, Applying
<1> QED
  BY <1>1, <1>9, <1>10

LEMMA LedgerRecord ==
    ASSUME TypeInv, ControlInv, LedgerInv, RecordCleared
    PROVE  LedgerInv'
<1> DEFINE n == Clear(ledger, {r.rid : r \in ToClear})
<1>1. /\ pc = "record" /\ Healthy /\ snapFile' = snapFile
      /\ ledgerFile' \in {ledgerFile, Stored(n)} /\ ledger' \in {ledger, n}
      /\ Fail \/ Finish
  BY DEF RecordCleared, Reverted, Healthy, ControlInv
<1>2. Sound(ledger) /\ snapFile.snap \in Snapshots
      /\ lastApplied \in Snapshots /\ job.snap \in Snapshots
  BY DEF LedgerInv, TypeInv, JobOK, MemoryOK, DiskOK, WellFormed
<1>3. Sound(n) /\ Succeeds(n, ledger)
  BY <1>1, <1>2, ClearSound, ClearSucceeds
<1>4. ledger \in Ledgers /\ n \in Ledgers
  BY <1>2, <1>3 DEF Sound
<1>5. Absorbed(ledger, snapFile.snap) /\ Absorbed(ledger, lastApplied)
      /\ Absorbed(ledger, job.snap)
  BY <1>1 DEF LedgerInv, Applying
<1>6. Absorbed(n, snapFile.snap) /\ Absorbed(n, lastApplied) /\ Absorbed(n, job.snap)
  BY <1>2, <1>3, <1>4, <1>5, AbsorbedStays
<1>7. Stored(n).led = n /\ Stored(n).state = "ok"
  BY DEF Stored
<1> HIDE DEF n
<1>8. pc' = "idle" /\ lastApplied' \in {lastApplied, job.snap}
  BY <1>1 DEF Fail, Finish, appliedVars
<1> QED
  BY <1>1, <1>2, <1>3, <1>5, <1>6, <1>7, <1>8 DEF LedgerInv, Applying

LEMMA LedgerStart ==
    ASSUME TypeInv, LedgerInv, Start
    PROVE  LedgerInv'
<1>1. /\ Healthy /\ UNCHANGED <<ledger, ledgerFile, snapFile>> /\ lastApplied' = lastApplied
      /\ pc' \in {"apply", "persist"}
  BY DEF Start, Healthy, appliedVars
<1>2. Absorbed(ledger, snapFile.snap) /\ Absorbed(ledger, lastApplied)
  BY <1>1 DEF LedgerInv
<1>3. NoSnapshot.managed = FALSE
  BY DEF NoSnapshot
<1>4. pc' = "persist" => PrepareOK(ledger, job'.snap)
  BY DEF Start, AcceptedAnswer
<1>5. pc' = "apply" => Absorbed(ledger, job'.snap)
  <2>1. want.managed => Prepared(ledger, want).armed
    BY DEF Prepared, Advance
  <2> QED
    BY <1>2, <1>3, <2>1 DEF Start, Absorbed
<1> QED
  BY <1>1, <1>2, <1>4, <1>5 DEF LedgerInv, Applying

(***************************************************************************)
(* The other steps of a job leave both ledgers alone.                      *)
(***************************************************************************)
LEMMA LedgerWork ==
    ASSUME TypeInv, ControlInv, LedgerInv,
           PersistSnapshot \/ ApplyTable \/ VerifyTable \/ ClearConntrack
    PROVE  LedgerInv'
<1>1. UNCHANGED <<ledger, ledgerFile>> /\ snapFile' \in {snapFile, Saved(job.snap)}
      /\ (snapFile' # snapFile => pc = "snap")
  BY DEF PersistSnapshot, ApplyTable, VerifyTable, ClearConntrack, diskVars
<1>2. Saved(job.snap).snap = job.snap /\ Saved(job.snap).exists = TRUE
  BY DEF Saved
<1>3. Work /\ pc \in {"snap", "apply", "verify", "clear"}
  BY DEF Work, PersistSnapshot, ApplyTable, VerifyTable, ClearConntrack
<1>4. Healthy /\ Absorbed(ledger, job.snap) /\ Absorbed(ledger, snapFile.snap)
      /\ Absorbed(ledger, lastApplied)
  BY <1>3 DEF Healthy, ControlInv, LedgerInv, Applying
<1>5. Absorbed(ledger, snapFile'.snap) /\ (~snapFile'.exists => snapFile'.snap = NoSnapshot)
  BY <1>1, <1>2, <1>4 DEF LedgerInv
<1>6. ledgerFile.state = "ok" => Absorbed(ledgerFile.led, snapFile'.snap)
  BY <1>1, <1>2 DEF LedgerInv
<1>7. lastApplied' \in {lastApplied, job.snap}
      /\ (pc' = "idle" \/ (job' = job /\ pc' \in {"snap", "apply", "verify", "clear", "record"}))
  BY <1>3, WorkEffects DEF Fail, Finish, Continue, appliedVars
<1>8. pc' = "snap" /\ ledgerFile.state = "ok" => Absorbed(ledgerFile.led, job.snap)
  <2> SUFFICES ASSUME pc' = "snap"
               PROVE  ~job.snap.managed
    BY DEF Absorbed
  <2>1. ApplyTable /\ ~ledger.armed
    BY DEF PersistSnapshot, ApplyTable, VerifyTable, ClearConntrack, Continue, Finish, Fail
  <2> QED
    BY <1>4, <2>1 DEF Absorbed
<1> QED
  BY <1>1, <1>4, <1>5, <1>6, <1>7, <1>8 DEF LedgerInv, Applying

LEMMA LedgerStepInv == TypeInv /\ ControlInv /\ LedgerInv /\ [Next]_vars => LedgerInv'
<1> SUFFICES ASSUME TypeInv, ControlInv, LedgerInv, [Next]_vars
             PROVE  LedgerInv'
  OBVIOUS
<1>1. CASE Quiet
  BY <1>1 DEF Quiet, appliedVars, LedgerInv, Healthy, Applying
<1>2. CASE LoseMemory /\ UNCHANGED <<diskVars, platformVars>>
  BY <1>2, NewLedgerSound DEF LoseMemory, diskVars, LedgerInv, Healthy, Applying
<1>3. CASE Lose
  <2>1. /\ UNCHANGED <<pc, job, ledger, ledgerLost, lastApplied>> /\ snapFile' = snapFile
        /\ ledgerFile'.state # "ok" /\ ledgerFile'.led \in {NewLedger, ledgerFile.led}
        /\ (ledgerFile'.state = "none" => ledgerFile'.led = NewLedger)
    BY <1>3 DEF Lose, agentVars, NoLedgerFile, TypeInv, DiskOK, LedgerFiles
  <2> QED
    BY <2>1, NewLedgerSound DEF LedgerInv, Healthy, Applying
<1>4. CASE OneShot
  <2>1. PICK s \in OneShotFiles : OneShotApply(s)
    BY <1>4 DEF OneShot
  <2>2. /\ UNCHANGED <<pc, job, ledger, ledgerFile, ledgerLost, lastApplied>>
        /\ snapFile' \in {snapFile, Saved(s)} /\ ~s.managed
    BY <2>1 DEF OneShotApply, agentVars
  <2>3. Saved(s).snap = s /\ Saved(s).exists = TRUE
    BY DEF Saved
  <2>4. /\ ~snapFile'.exists => snapFile'.snap = NoSnapshot
        /\ snapFile'.snap = snapFile.snap \/ ~snapFile'.snap.managed
    BY <2>2, <2>3 DEF LedgerInv
  <2> QED
    BY <2>2, <2>4 DEF LedgerInv, Healthy, Applying, Absorbed
<1>5. CASE Next
  BY <1>1, <1>2, <1>3, <1>4, <1>5, StepCases, LedgerBoot, LedgerPersist, LedgerRecord,
     LedgerStart, LedgerWork DEF Work
<1>6. CASE UNCHANGED vars
  BY <1>1, <1>6 DEF vars, agentVars, diskVars, Quiet, appliedVars
<1> QED
  BY <1>5, <1>6

-----------------------------------------------------------------------------
(***************************************************************************)
(* The lifecycle of the marks through crashes and failed persists, where   *)
(* no ledger file is lost.                                                 *)
(***************************************************************************)
NoLoss == ~LossAllowed

LEMMA PreparedMoves ==
    ASSUME NEW l, Sound(l), NEW s, WellFormed(s), PrepareOK(l, s), NEW m \in 1..MaxMark
    PROVE  Follows(LedgerLife(l, m), LedgerLife(Prepared(l, s), m))
<1>1. l \in Ledgers /\ ValidLedger(l)
  BY DEF Sound
<1>2. CASE s.managed
  BY <1>1, <1>2, AdvanceMoves DEF Prepared, Follows
<1>3. CASE ~s.managed
  BY <1>3 DEF Prepared, Follows
<1> QED
  BY <1>2, <1>3

LEMMA ClearedMoves ==
    ASSUME NEW l, Sound(l), NEW rids, NEW m \in 1..MaxMark
    PROVE  Follows(LedgerLife(l, m), LedgerLife(Clear(l, rids), m))
  BY ClearMoves DEF Sound, Follows

LEMMA LoadedFromFile ==
    ASSUME TypeInv, LedgerInv, ledgerFile.state # "corrupt"
    PROVE  LoadedLedger = ledgerFile.led
  BY DEF TypeInv, DiskOK, LedgerFiles, LedgerInv, LoadedLedger

(***************************************************************************)
(* The file stays with memory or one stage ahead of it, and each step      *)
(* moves a mark of the deciding ledger one stage or not at all.            *)
(***************************************************************************)
LEMMA FileAheadStep ==
    ASSUME NoLoss, TypeInv, ControlInv, LedgerInv, FileAhead, Next
    PROVE  /\ FileAhead'
           /\ \A m \in 1..MaxMark : Follows(LedgerLife(Authority, m), LedgerLife(Authority', m))
<1>1. \A l, m : Follows(LedgerLife(l, m), LedgerLife(l, m))
  BY DEF Follows
<1>2. CASE Boot
  <2>1. /\ pc = "down" /\ (Quarantined \/ Restoring \/ Emptying)
        /\ ledgerFile' \in {ledgerFile, Stored(LoadedLedger)}
    BY <1>2, BootEffects
  <2>2. LoadedLedger = ledgerFile.led
    BY LoadedFromFile DEF FileAhead
  <2>3. ledgerFile'.led = ledgerFile.led /\ ledgerFile'.state # "corrupt"
    BY <2>1, <2>2 DEF Stored, FileAhead
  <2>4. Healthy' => ledger' = ledgerFile.led
    BY <2>1, <2>2, RestoreKeepsLedger DEF Quarantined, Emptying, Healthy
  <2>5. Authority = ledgerFile.led /\ Authority' = ledgerFile.led
    BY <2>1, <2>3, <2>4 DEF Authority, Healthy
  <2> QED
    BY <1>1, <2>3, <2>4, <2>5 DEF FileAhead
<1>3. CASE PersistLedger
  <2> DEFINE n == Prepared(ledger, job.snap)
  <2>1. /\ pc = "persist" /\ Healthy /\ PrepareOK(ledger, job.snap)
        /\ ledgerFile' \in {ledgerFile, Stored(n)} /\ ledger' \in {ledger, n}
        /\ ledger' = n => ledgerFile' = Stored(n) \/ n = ledger
        /\ pc' # "down" /\ ledgerLost' = ledgerLost
    BY <1>3 DEF PersistLedger, Healthy, ControlInv, LedgerInv, Continue, Fail
  <2>2. Sound(ledger) /\ WellFormed(job.snap)
    BY DEF LedgerInv, TypeInv, JobOK
  <2>3. \A m \in 1..MaxMark : Follows(LedgerLife(ledger, m), LedgerLife(n, m))
    BY <2>1, <2>2, PreparedMoves
  <2>4. Stored(n).led = n /\ Stored(n).state = "ok"
    BY DEF Stored
  <2>5. Authority = ledger /\ Authority' = ledger'
    BY <2>1 DEF Authority, Healthy
  <2> HIDE DEF n
  <2> QED
    BY <1>1, <2>1, <2>3, <2>4, <2>5 DEF FileAhead, Healthy
<1>4. CASE RecordCleared
  <2> DEFINE n == Clear(ledger, {r.rid : r \in ToClear})
  <2>1. /\ pc = "record" /\ Healthy
        /\ ledgerFile' \in {ledgerFile, Stored(n)} /\ ledger' \in {ledger, n}
        /\ ledger' = n => ledgerFile' = Stored(n) \/ n = ledger
        /\ pc' # "down" /\ ledgerLost' = ledgerLost
    BY <1>4 DEF RecordCleared, Reverted, Healthy, ControlInv, Finish, Fail
  <2>2. Sound(ledger)
    BY DEF LedgerInv
  <2>3. \A m \in 1..MaxMark : Follows(LedgerLife(ledger, m), LedgerLife(n, m))
    BY <2>2, ClearedMoves
  <2>4. Stored(n).led = n /\ Stored(n).state = "ok"
    BY DEF Stored
  <2>5. Authority = ledger /\ Authority' = ledger'
    BY <2>1 DEF Authority, Healthy
  <2> HIDE DEF n
  <2> QED
    BY <1>1, <2>1, <2>3, <2>4, <2>5 DEF FileAhead, Healthy
<1>5. CASE LoseMemory /\ UNCHANGED diskVars
  <2>1. pc' = "down" /\ ledgerFile' = ledgerFile
    BY <1>5 DEF LoseMemory, diskVars
  <2>2. Authority' = ledgerFile.led /\ (Authority = ledgerFile.led \/ (Healthy /\ Authority = ledger))
    BY <2>1 DEF Authority, Healthy
  <2> QED
    BY <1>1, <2>1, <2>2 DEF FileAhead, Healthy
<1>6. CASE UNCHANGED <<ledger, ledgerFile>> /\ ~Boot /\ ~(LoseMemory /\ UNCHANGED diskVars)
  <2>1. ledgerLost' = ledgerLost /\ (pc = "down" <=> pc' = "down")
    BY <1>6, StepCases, WorkEffects DEF Quiet, Lose, OneShot, OneShotApply, agentVars,
       Start, Fail, Finish, Continue
  <2> QED
    BY <1>1, <1>6, <2>1 DEF FileAhead, Healthy, Authority
<1> QED
  BY <1>2, <1>3, <1>4, <1>5, <1>6, LedgerWriters DEF NoLoss, Lose

(***************************************************************************)
(* Whatever crashes and fails, also with one-shot applies and a restored   *)
(* platform database, the marks live the promised life.                    *)
(***************************************************************************)
THEOREM AgentImplementsLifecycle == ASSUME NoLoss PROVE Spec => ImplementsLifecycle
<1> DEFINE L == [m \in 1..MaxMark |-> LedgerLife(Authority, m)]
           Inv == TypeInv /\ ControlInv /\ LedgerInv /\ FileAhead
<1>1. Init => Lifecycle!Init
  <2> SUFFICES ASSUME Init, NEW m \in 1..MaxMark
               PROVE  LedgerLife(Authority, m) = "fresh"
    BY DEF Lifecycle!Init
  <2>1. Authority.active = {} /\ Authority.entries = {} /\ Authority.markHW = 0
    BY DEF Init, Authority, NoLedgerFile, NewLedger
  <2>2. m > 0
    BY Numbers
  <2> QED
    BY <2>1, <2>2 DEF LedgerLife
<1>2. Init => Inv
  BY TypeInit, LedgerInit DEF Init, FileAhead, NoLedgerFile, Healthy
<1>3. Inv /\ [Next]_vars => FileAhead'
  <2>1. CASE UNCHANGED vars
    BY <2>1 DEF vars, diskVars, agentVars, FileAhead, Healthy
  <2> QED
    BY <2>1, FileAheadStep
<1>4. Inv /\ [Next]_vars => Inv'
  BY <1>3, TypeStep, ControlStep, LedgerStepInv
<1>5. Inv /\ [Next]_vars => [Lifecycle!Next]_L
  <2> SUFFICES ASSUME Inv, [Next]_vars PROVE Lifecycle!Next
    OBVIOUS
  <2>1. \A m \in 1..MaxMark : LedgerLife(Authority', m) \in Lifecycle!Stages
    BY DEF LedgerLife, Lifecycle!Stages
  <2>2. \A m \in 1..MaxMark : Follows(LedgerLife(Authority, m), LedgerLife(Authority', m))
    <3>1. CASE UNCHANGED vars
      BY <3>1 DEF vars, diskVars, agentVars, Authority, Follows
    <3> QED
      BY <3>1, FileAheadStep
  <2>3. \A m \in 1..MaxMark :
           LedgerLife(Authority', m) # LedgerLife(Authority, m) =>
              <<LedgerLife(Authority, m), LedgerLife(Authority', m)>> \in Lifecycle!Moves
    BY <2>2 DEF Follows, StageMoves, Lifecycle!Moves
  <2> QED
    BY <2>1, <2>3 DEF Lifecycle!Next
<1> QED
  BY <1>1, <1>2, <1>4, <1>5, PTL DEF Spec, ImplementsLifecycle, Lifecycle!Spec
-----------------------------------------------------------------------------
(***************************************************************************)
(* Layer 3: a platform that never restores its database.  Nothing that     *)
(* circulates is newer than the desired state, and the same generation is  *)
(* the same document.                                                      *)
(***************************************************************************)
NotAhead(w, s) == s.gen <= w.gen /\ (s.gen = w.gen => s = w)

LedgerNotAhead(w, l) ==
    l.genHW <= w.gen /\ (l.armed /\ l.genHW = w.gen => l.desired = DesiredHash(w))

CurrentInv ==
    /\ backup.state = "none"
    /\ job.snap.managed => NotAhead(want, job.snap)
    /\ lastApplied.managed => NotAhead(want, lastApplied)
    /\ snapFile.snap.managed => NotAhead(want, snapFile.snap)
    /\ LedgerNotAhead(want, ledger) /\ LedgerNotAhead(want, ledgerFile.led)
    /\ appliedGen = lastApplied.gen

(***************************************************************************)
(* The mappings of a snapshot on its way to the table are active epochs,   *)
(* and no rule has the mark of a cleared entry, in memory or on disk.      *)
(***************************************************************************)
ActiveIn(l, s) == s.managed => \A m \in s.mappings : EpochOf(m) \in l.active

RulesActive(t, l) ==
    \A r \in t.rules : r.mark = 0 \/ \E a \in l.active : a.mark = r.mark

RuleFree(t, l) == \A e \in ClearedEntries(l), r \in t.rules : r.mark # e.ret.mark

ActiveInv ==
    /\ Applying \/ pc = "snap" => ActiveIn(ledger, job.snap)
    /\ Installed => RulesActive(table, ledger)
    /\ RuleFree(table, ledgerFile.led) /\ (Healthy => RuleFree(table, ledger))
    /\ Healthy => \A e \in ClearedEntries(ledgerFile.led) : e.ret \in Outstanding(ledger)

NoRestore == ~Restores

(***************************************************************************)
(* The desired state changes only when everything else stands still, and   *)
(* then its generation rises.                                              *)
(***************************************************************************)
LEMMA WantMoves ==
    ASSUME NoRestore, TypeInv, backup.state = "none", Next
    PROVE  /\ backup'.state = "none"
           /\ \/ want' = want /\ issued' = issued
              \/ /\ Platform /\ Quiet /\ want'.gen = want.gen + 1
                 /\ UNCHANGED <<table, flows, inflight, receipts>>
<1>1. want \in [gen : {want.gen}, mappings : {want.mappings}, managed : {want.managed},
                retirements : {want.retirements}, ack : {want.ack}]
  BY DEF TypeInv, PlatformOK, Document, Snapshots
<1>2. ASSUME NEW s, Desire(s)
      PROVE  Quiet /\ backup' = backup /\ UNCHANGED <<table, flows, inflight, receipts>>
  BY <1>2 DEF Desire, Quiet, kernelVars, diskVars, agentVars, appliedVars
<1>3. CASE PlatformArm
  <2>1. want'.gen = want.gen + 1
    BY <1>1, <1>3 DEF PlatformArm, Desire
  <2> QED
    BY <1>2, <1>3, <2>1 DEF PlatformArm, Platform
<1>4. CASE PlatformAdd
  <2>1. want'.gen = want.gen + 1
    BY <1>1, <1>4 DEF PlatformAdd, Desire
  <2> QED
    BY <1>2, <1>4, <2>1 DEF PlatformAdd, Platform
<1>5. CASE PlatformAcknowledge
  <2>1. want'.gen = want.gen + 1
    BY <1>1, <1>5 DEF PlatformAcknowledge, Desire
  <2> QED
    BY <1>2, <1>5, <2>1 DEF PlatformAcknowledge, Platform
<1>6. CASE \E m \in want.mappings : PlatformRemove(m)
  <2>1. want'.gen = want.gen + 1
    BY <1>1, <1>6 DEF PlatformRemove, Desire
  <2> QED
    BY <1>2, <1>6, <2>1 DEF PlatformRemove, Platform
<1>7. CASE PlatformBackup \/ PlatformRestore
  BY <1>7 DEF PlatformBackup, PlatformRestore, NoRestore
<1> QED
  BY <1>3, <1>4, <1>5, <1>6, <1>7, PlatformWriters DEF Platform, platformVars, Deliver

LEMMA CurrentInit == Init => CurrentInv
<1>1. NoSnapshot.gen = 0 /\ NoSnapshot.managed = FALSE /\ Idle.snap = NoSnapshot
      /\ NoSnapFile.snap = NoSnapshot /\ NoLedgerFile.led = NewLedger
      /\ NewLedger.genHW = 0 /\ NewLedger.armed = FALSE
  BY DEF NoSnapshot, Idle, NoSnapFile, NoLedgerFile, NewLedger
<1> QED
  BY <1>1 DEF Init, CurrentInv, LedgerNotAhead

(***************************************************************************)
(* What Prepare and Clear do to the generation a ledger stands at.         *)
(***************************************************************************)
LEMMA PreparedNotAhead ==
    ASSUME NEW l, LedgerNotAhead(want, l), NEW s, s.managed => NotAhead(want, s)
    PROVE  LedgerNotAhead(want, Prepared(l, s))
  BY DEF LedgerNotAhead, NotAhead, Prepared, Advance

LEMMA ClearNotAhead ==
    ASSUME NEW l \in Ledgers, LedgerNotAhead(want, l), NEW rids
    PROVE  LedgerNotAhead(want, Clear(l, rids))
  BY DEF LedgerNotAhead, Clear, Ledgers

LEMMA CurrentStep ==
    ASSUME NoRestore, TypeInv, ControlInv, LedgerInv, CurrentInv, Next
    PROVE  CurrentInv'
<1>1. /\ NoSnapshot.gen = 0 /\ NoSnapshot.managed = FALSE /\ Idle.snap = NoSnapshot
      /\ NoSnapFile.snap = NoSnapshot /\ NoLedgerFile.led = NewLedger
      /\ NewLedger.genHW = 0 /\ NewLedger.armed = FALSE
  BY DEF NoSnapshot, Idle, NoSnapFile, NoLedgerFile, NewLedger
<1>2. /\ want.gen \in Nat /\ job.snap.gen \in Nat /\ lastApplied.gen \in Nat
      /\ snapFile.snap.gen \in Nat /\ ledger.genHW \in Nat /\ ledgerFile.led.genHW \in Nat
      /\ ledger \in Ledgers
  BY Numbers DEF TypeInv, PlatformOK, Document, JobOK, MemoryOK, DiskOK, WellFormed,
     Snapshots, LedgerInv, Sound, Ledgers
<1>3. LedgerNotAhead(want, NewLedger)
  BY <1>1, <1>2 DEF LedgerNotAhead
<1>4. backup'.state = "none"
  BY WantMoves DEF CurrentInv
<1>5. CASE Quiet /\ want'.gen = want.gen + 1
  <2>1. UNCHANGED <<job, ledger, ledgerFile, snapFile, lastApplied, appliedGen>>
    BY <1>5 DEF Quiet, appliedVars
  <2> QED
    BY <1>2, <1>4, <1>5, <2>1 DEF CurrentInv, NotAhead, LedgerNotAhead
<1> SUFFICES ASSUME want' = want
             PROVE  CurrentInv'
  BY <1>5, WantMoves DEF CurrentInv
<1>6. CASE Boot
  <2>1. /\ Quarantined \/ Restoring \/ Emptying
        /\ ledgerFile' \in {ledgerFile, Stored(LoadedLedger)}
    BY <1>6, BootEffects
  <2>2. LedgerNotAhead(want, LoadedLedger)
    BY <1>3 DEF LoadedLedger, CurrentInv
  <2>3. Stored(LoadedLedger).led = LoadedLedger
    BY DEF Stored
  <2>4. LedgerNotAhead(want, ledger') /\ LedgerNotAhead(want, ledgerFile'.led)
    BY <1>3, <2>1, <2>2, <2>3, RestoreKeepsLedger DEF Quarantined, Emptying, CurrentInv
  <2>5. snapFile' \in {snapFile, NoSnapFile} /\ UNCHANGED appliedVars
        /\ job'.snap \in {job.snap, snapFile.snap, NoSnapshot}
    BY <2>1 DEF Quarantined, Restoring, Emptying
  <2> QED
    BY <1>1, <1>4, <2>4, <2>5 DEF CurrentInv, appliedVars
<1>7. CASE Work
  <2>1. /\ LedgerNotAhead(want, Prepared(ledger, job.snap))
        /\ \A rids : LedgerNotAhead(want, Clear(ledger, rids))
    BY <1>2, PreparedNotAhead, ClearNotAhead DEF CurrentInv
  <2>2. LedgerNotAhead(want, ledger') /\ LedgerNotAhead(want, ledgerFile'.led)
    BY <1>7, <2>1 DEF Work, PersistLedger, PersistSnapshot, ApplyTable, VerifyTable,
       ClearConntrack, RecordCleared, Reverted, Stored, diskVars, CurrentInv
  <2>3. snapFile' \in {snapFile, Saved(job.snap)}
    BY <1>7 DEF Work, PersistLedger, PersistSnapshot, ApplyTable, VerifyTable,
       ClearConntrack, RecordCleared, diskVars
  <2>4. Saved(job.snap).snap = job.snap
    BY DEF Saved
  <2>5. job' \in {job, Idle} /\ (UNCHANGED appliedVars
                                \/ (lastApplied' = job.snap /\ appliedGen' = job.snap.gen))
    BY <1>7, WorkEffects DEF Fail, Finish, Continue
  <2> QED
    BY <1>1, <1>4, <2>2, <2>3, <2>4, <2>5 DEF CurrentInv, appliedVars
<1>8. CASE Start
  <2>1. /\ UNCHANGED <<ledger, ledgerFile, snapFile, appliedVars>>
        /\ job'.snap \in {lastApplied, NoSnapshot, want}
    BY <1>8 DEF Start
  <2>2. NotAhead(want, want)
    BY <1>2 DEF NotAhead
  <2> QED
    BY <1>1, <1>4, <2>1, <2>2 DEF CurrentInv, appliedVars
<1>9. CASE Quiet
  BY <1>4, <1>9 DEF Quiet, appliedVars, CurrentInv
<1>10. CASE LoseMemory /\ UNCHANGED <<diskVars, platformVars>>
  BY <1>1, <1>3, <1>4, <1>10 DEF LoseMemory, diskVars, CurrentInv
<1>11. CASE Lose
  <2>1. ledgerFile'.led \in {NewLedger, ledgerFile.led} /\ snapFile' = snapFile
        /\ UNCHANGED <<job, ledger, lastApplied, appliedGen>>
    BY <1>11 DEF Lose, agentVars, NoLedgerFile, TypeInv, DiskOK, LedgerFiles
  <2> QED
    BY <1>3, <1>4, <2>1 DEF CurrentInv
<1>12. CASE OneShot
  BY <1>4, <1>12 DEF OneShot, OneShotApply, Saved, agentVars, CurrentInv
<1> QED
  BY <1>6, <1>7, <1>8, <1>9, <1>10, <1>11, <1>12, StepCases

-----------------------------------------------------------------------------
(***************************************************************************)
(* What a plan and the ledgers have to do with each other.                 *)
(***************************************************************************)
LEMMA PlanActive ==
    ASSUME NEW s, WellFormed(s), NEW l, ActiveIn(l, s), NEW r \in Plan(s)
    PROVE  r.mark = 0 \/ \E a \in l.active : a.mark = r.mark
<1>1. PICK m \in s.mappings : r = RuleOf(m)
  BY DEF Plan
<1>2. m \in Mappings /\ s.managed \in BOOLEAN
  BY DEF WellFormed, Snapshots
<1>3. r.mark = ValueOrZero(m.mark)
  BY <1>1, <1>2 DEF RuleOf, Mappings
<1>4. CASE s.managed
  <2>1. EpochOf(m) \in l.active /\ EpochOf(m).mark = m.mark
    BY <1>4 DEF ActiveIn, EpochOf
  <2>2. m.mark \in Marks
    BY <1>4 DEF WellFormed
  <2>3. m.mark # Absent
    BY <2>2, Numbers DEF Marks, Absent
  <2> QED
    BY <1>3, <2>1, <2>3 DEF ValueOrZero
<1>5. CASE ~s.managed
  BY <1>3, <1>5 DEF WellFormed, ValueOrZero
<1> QED
  BY <1>4, <1>5

LEMMA RulesNotRetired ==
    ASSUME NEW l, Sound(l), NEW t, RulesActive(t, l)
    PROVE  \A e \in l.entries, r \in t.rules : r.mark # e.ret.mark
<1> SUFFICES ASSUME NEW e \in l.entries, NEW r \in t.rules, r.mark = e.ret.mark
             PROVE  FALSE
  OBVIOUS
<1>1. e.ret.mark > 0 /\ \A a \in l.active : a.mark # e.ret.mark
  BY DEF Sound, ValidLedger, EntriesValid
<1> QED
  BY <1>1 DEF RulesActive

LEMMA PreparedActive ==
    ASSUME NEW l, Sound(l), NEW s, WellFormed(s), PrepareOK(l, s)
    PROVE  ActiveIn(Prepared(l, s), s)
<1> SUFFICES ASSUME s.managed
             PROVE  \A m \in s.mappings : EpochOf(m) \in Prepared(l, s).active
  BY DEF ActiveIn
<1>1. Prepared(l, s).active = NextActive(l, s)
  BY DEF Prepared, Advance
<1> QED
  BY <1>1, MappingsStayActive

LEMMA PreparedCleared ==
    ASSUME NEW l, NEW s, PrepareOK(l, s), NEW e \in ClearedEntries(Prepared(l, s))
    PROVE  e \in ClearedEntries(l)
<1>1. CASE s.managed
  <2>1. e \in NextEntries(l, s) /\ e.cleared
    BY <1>1 DEF ClearedEntries, Prepared, Advance
  <2> QED
    BY <1>1, <2>1, NextEntryOrigin DEF ClearedEntries
<1>2. CASE ~s.managed
  BY <1>2 DEF Prepared
<1> QED
  BY <1>1, <1>2

LEMMA ClearedRets ==
    ASSUME NEW l, Sound(l), NEW rids
    PROVE  /\ Clear(l, rids).active = l.active
           /\ Outstanding(Clear(l, rids)) = Outstanding(l)
<1>1. l \in Ledgers /\ l.entries \subseteq Entries
  BY DEF Sound, Ledgers
<1>2. Clear(l, rids) = [l EXCEPT !.entries = {Marked(e, rids) : e \in l.entries}]
  BY DEF Clear, Marked
<1>3. Clear(l, rids).active = l.active
      /\ Clear(l, rids).entries = {Marked(e, rids) : e \in l.entries}
  BY <1>1, <1>2 DEF Ledgers
<1>4. \A e \in l.entries : Marked(e, rids).ret = e.ret
  BY <1>1, MarkedEntry
<1> QED
  BY <1>3, <1>4 DEF Outstanding

(***************************************************************************)
(* A snapshot is applied again only while the ledger stands at it: its     *)
(* mappings are the active epochs.                                         *)
(***************************************************************************)
LEMMA AssertedIsActive ==
    ASSUME TypeInv, LedgerInv, CurrentInv, Healthy, want.gen = appliedGen
    PROVE  ActiveIn(ledger, lastApplied)
<1> SUFFICES ASSUME lastApplied.managed
             PROVE  \A m \in lastApplied.mappings : EpochOf(m) \in ledger.active
  BY DEF ActiveIn
<1>1. lastApplied = want
  BY DEF CurrentInv, NotAhead
<1>2. ledger.armed /\ want.gen <= ledger.genHW
  BY <1>1 DEF LedgerInv, Absorbed
<1>3. want.gen \in Int /\ ledger.genHW \in Int /\ want \in Snapshots /\ Sound(ledger)
  BY DEF TypeInv, PlatformOK, Document, Snapshots, Generations, LedgerInv, Sound, Ledgers
<1>4. ledger.desired = DesiredHash(want)
  BY <1>2, <1>3 DEF CurrentInv, LedgerNotAhead
<1>5. ledger.desired # NoHash /\ ledger.desired[2] = want.mappings
  BY <1>3, <1>4, DesiredHashType DEF DesiredHash
<1>6. ledger.active = {EpochOf(m) : m \in want.mappings}
  BY <1>3, <1>5 DEF Sound, ActiveIsDesired
<1> QED
  BY <1>1, <1>6

(***************************************************************************)
(* Every table that is not rendered from the ledger has no marked rules.   *)
(***************************************************************************)
LEMMA OtherTables ==
    /\ NoTable.rules = {} /\ Quarantine.rules = {}
    /\ Rendered.rules = Plan(job.snap) /\ Rendered.fences = Outstanding(ledger)
  BY DEF NoTable, Quarantine, Rendered, ApplyManaged

LEMMA OneShotRules ==
    ASSUME NEW t, OneShotTable(t)
    PROVE  \A r \in t.rules : r.mark = 0
<1>1. PICK s \in OneShotFiles : Validate(s) /\ ~s.managed /\ t = ApplyManaged(Plan(s), {})
  BY DEF OneShotTable
<1>2. WellFormed(s) /\ ActiveIn(NewLedger, s)
  BY <1>1, OneShotWellFormed DEF ActiveIn
<1>3. NewLedger.active = {} /\ t.rules = Plan(s)
  BY <1>1 DEF NewLedger, ApplyManaged
<1> QED
  BY <1>2, <1>3, PlanActive

(***************************************************************************)
(* What a new table's rules are, whoever wrote it.                         *)
(***************************************************************************)
LEMMA NewRules ==
    ASSUME TypeInv, ControlInv, ActiveInv, Next
    PROVE  \A r \in table'.rules :
              \/ r \in table.rules \/ r.mark = 0
              \/ ApplyTable /\ \E a \in ledger.active : a.mark = r.mark
<1>1. ApplyTable => \A r \in Plan(job.snap) : r.mark = 0 \/ \E a \in ledger.active : a.mark = r.mark
  <2> SUFFICES ASSUME ApplyTable
               PROVE  \A r \in Plan(job.snap) :
                         r.mark = 0 \/ \E a \in ledger.active : a.mark = r.mark
    OBVIOUS
  <2>1. ActiveIn(ledger, job.snap) /\ WellFormed(job.snap)
    BY DEF ApplyTable, ActiveInv, Applying, TypeInv, JobOK
  <2> QED
    BY <2>1, PlanActive
<1> QED
  BY <1>1, TableWriters, OtherTables, OneShotRules

LEMMA ActiveInit == Init => ActiveInv
<1>1. NoLedgerFile.led = NewLedger /\ NewLedger.entries = {}
  BY DEF NoLedgerFile, NewLedger
<1> QED
  BY <1>1, OtherTables DEF Init, ActiveInv, Applying, Installed, Healthy, RuleFree,
     ClearedEntries

(***************************************************************************)
(* The job keeps working on active mappings.                               *)
(***************************************************************************)
LEMMA JobActive ==
    ASSUME TypeInv, ControlInv, LedgerInv, CurrentInv, ActiveInv, Next
    PROVE  (Applying \/ pc = "snap" => ActiveIn(ledger, job.snap))'
<1>1. NoSnapshot.managed = FALSE
  BY DEF NoSnapshot
<1>2. \A l : ActiveIn(l, NoSnapshot)
  BY <1>1 DEF ActiveIn
<1>3. CASE Boot
  <2>1. CASE Restoring
    <3>1. PrepareOK(LoadedLedger, snapFile.snap) /\ Sound(LoadedLedger)
          /\ WellFormed(snapFile.snap)
      BY <2>1, LoadedSound DEF Restoring, TypeInv, DiskOK
    <3>2. ActiveIn(Prepared(LoadedLedger, snapFile.snap), snapFile.snap)
      BY <3>1, PreparedActive
    <3> QED
      BY <2>1, <3>2 DEF Restoring
  <2>2. CASE Emptying
    BY <1>2, <2>2 DEF Emptying
  <2>3. CASE Quarantined
    BY <2>3 DEF Quarantined, Applying
  <2> QED
    BY <1>3, <2>1, <2>2, <2>3, BootEffects
<1>4. CASE Work
  <2>1. CASE PersistLedger
    <3>1. PrepareOK(ledger, job.snap) /\ Sound(ledger) /\ WellFormed(job.snap)
      BY <2>1 DEF PersistLedger, LedgerInv, TypeInv, JobOK
    <3>2. ActiveIn(Prepared(ledger, job.snap), job.snap)
      BY <3>1, PreparedActive
    <3> QED
      BY <2>1, <3>2 DEF PersistLedger, Continue, Fail, Applying
  <2>2. CASE ~PersistLedger
    <3>1. pc # "persist"
      BY <1>4, <2>2 DEF Work, PersistSnapshot, ApplyTable, VerifyTable, ClearConntrack,
         RecordCleared
    <3>2. ActiveIn(ledger, job.snap)
      BY <1>4, <3>1, WorkEffects DEF ActiveInv, Applying
    <3> QED
      BY <1>4, <3>1, <3>2, WorkEffects DEF Fail, Finish, Continue, Applying
  <2> QED
    BY <2>1, <2>2
<1>5. CASE Start
  <2>1. Healthy /\ ledger' = ledger
    BY <1>5 DEF Start, Healthy
  <2>2. want.gen = appliedGen => ActiveIn(ledger, lastApplied)
    BY <2>1, AssertedIsActive
  <2>3. ~want.managed => ActiveIn(ledger, want)
    BY DEF ActiveIn
  <2>4. want.managed => Prepared(ledger, want).armed
    BY DEF Prepared, Advance
  <2> QED
    BY <1>2, <1>5, <2>1, <2>2, <2>3, <2>4 DEF Start, Applying
<1>6. CASE UNCHANGED <<pc, job, ledger, ledgerLost, appliedVars>>
  BY <1>6 DEF ActiveInv, Applying
<1>7. CASE LoseMemory
  BY <1>7 DEF LoseMemory, Applying
<1> QED
  BY <1>3, <1>4, <1>5, <1>6, <1>7, JobWriters

(***************************************************************************)
(* The installed rules belong to active epochs until the job ends.         *)
(***************************************************************************)
LEMMA InstalledActive ==
    ASSUME TypeInv, ControlInv, LedgerInv, ActiveInv, Next
    PROVE  (Installed => RulesActive(table, ledger))'
<1> SUFFICES ASSUME Installed'
             PROVE  RulesActive(table', ledger')
  OBVIOUS
<1>1. ledger' = ledger /\ (ApplyTable \/ Installed)
  <2>1. CASE Boot
    BY <2>1, BootEffects DEF Installed, Quarantined, Restoring, Emptying
  <2>2. CASE Work
    BY <2>2, WorkEffects DEF Work, Installed, Fail, Finish, Continue, ApplyTable,
       PersistLedger, PersistSnapshot, VerifyTable, ClearConntrack, RecordCleared
  <2>3. CASE ~Boot /\ ~Work
    BY <2>3, JobWriters DEF Installed, Start, LoseMemory
  <2> QED
    BY <2>1, <2>2, <2>3
<1>2. CASE ApplyTable
  <2>1. table' = Rendered
    BY <1>2 DEF ApplyTable, Installed, Fail, Finish, Continue
  <2>2. ActiveIn(ledger, job.snap) /\ WellFormed(job.snap)
    BY <1>2 DEF ApplyTable, ActiveInv, Applying, TypeInv, JobOK
  <2> QED
    BY <1>1, <2>1, <2>2, PlanActive, OtherTables DEF RulesActive
<1>3. CASE ~ApplyTable
  BY <1>1, <1>3, NewRules DEF RulesActive, ActiveInv
<1> QED
  BY <1>2, <1>3

(***************************************************************************)
(* No step gives a cleared entry a rule, neither a new table nor a newly   *)
(* recorded proof.                                                         *)
(***************************************************************************)
LEMMA ClearedRuleFree ==
    ASSUME TypeInv, ControlInv, LedgerInv, ActiveInv, Next,
           NEW l, RuleFree(table, l), Sound(l),
           Healthy => \A e \in ClearedEntries(l) : e.ret \in Outstanding(ledger)
    PROVE  RuleFree(table', l)
<1> SUFFICES ASSUME NEW e \in ClearedEntries(l), NEW r \in table'.rules, r.mark = e.ret.mark
             PROVE  FALSE
  BY DEF RuleFree
<1>1. e.ret.mark > 0 /\ r \notin table.rules
  BY DEF Sound, ValidLedger, EntriesValid, ClearedEntries, RuleFree
<1>2. ApplyTable /\ \E a \in ledger.active : a.mark = r.mark
  BY <1>1, NewRules
<1>3. Healthy /\ Sound(ledger)
  BY <1>2 DEF ApplyTable, Healthy, ControlInv, LedgerInv
<1>4. PICK d \in ledger.entries : d.ret = e.ret
  BY <1>3 DEF Outstanding
<1>5. \A a \in ledger.active : a.mark # d.ret.mark
  BY <1>3 DEF Sound, ValidLedger, EntriesValid
<1> QED
  BY <1>2, <1>4, <1>5

LEMMA ActiveStep ==
    ASSUME TypeInv, ControlInv, LedgerInv, CurrentInv, ActiveInv, Next
    PROVE  ActiveInv'
<1> DEFINE Held(l, f) == \A e \in ClearedEntries(f) : e.ret \in Outstanding(l)
<1>1. Sound(ledger) /\ Sound(ledgerFile.led) /\ Sound(NewLedger) /\ NewLedger.entries = {}
  BY NewLedgerSound DEF LedgerInv, NewLedger
<1>2. \A l : Held(l, l)
  BY DEF ClearedEntries, Outstanding
<1>3. RuleFree(table, NewLedger) /\ \A t, l : RuleFree(t, NewLedger) /\ Held(l, NewLedger)
  BY <1>1 DEF RuleFree, ClearedEntries
<1>4. /\ RuleFree(table', ledgerFile.led)
      /\ Healthy => RuleFree(table', ledger) /\ Held(ledger, ledgerFile.led)
  BY <1>1, <1>2, ClearedRuleFree DEF ActiveInv
<1> SUFFICES /\ RuleFree(table', ledgerFile'.led)
             /\ Healthy' => RuleFree(table', ledger') /\ Held(ledger', ledgerFile'.led)
  BY JobActive, InstalledActive DEF ActiveInv
<1>5. CASE Boot
  <2>1. /\ Quarantined \/ Restoring \/ Emptying
        /\ ledgerFile' \in {ledgerFile, Stored(LoadedLedger)}
    BY <1>5, BootEffects
  <2>2. Stored(LoadedLedger).led = LoadedLedger /\ LoadedLedger \in {NewLedger, ledgerFile.led}
    BY DEF Stored, LoadedLedger
  <2>3. RuleFree(table', LoadedLedger) /\ RuleFree(table', ledgerFile'.led)
    BY <1>3, <1>4, <2>1, <2>2
  <2>4. Healthy' => ledger' = LoadedLedger /\ ledgerFile'.led = LoadedLedger
    BY <2>1, <2>2, RestoreKeepsLedger DEF Quarantined, Restoring, Emptying, Healthy
  <2> HIDE DEF Held
  <2> QED
    BY <1>2, <2>3, <2>4
<1>6. CASE PersistLedger
  <2> DEFINE n == Prepared(ledger, job.snap)
  <2>1. /\ Healthy /\ PrepareOK(ledger, job.snap) /\ Stored(n).led = n
        /\ ledgerFile' \in {ledgerFile, Stored(n)} /\ ledger' \in {ledger, n}
        /\ ledger' = n => ledgerFile' = Stored(n) \/ n = ledger
    BY <1>6 DEF PersistLedger, Healthy, ControlInv, LedgerInv, Stored
  <2>2. \A e \in ClearedEntries(n) : e \in ClearedEntries(ledger)
    BY <2>1, PreparedCleared
  <2>3. RuleFree(table', n) /\ Held(ledger, n)
    BY <1>2, <1>4, <2>1, <2>2 DEF RuleFree
  <2> HIDE DEF n, Held
  <2> QED
    BY <1>2, <1>4, <2>1, <2>3
<1>7. CASE RecordCleared
  <2> DEFINE n == Clear(ledger, {r.rid : r \in ToClear})
  <2>1. /\ Healthy /\ Installed /\ Stored(n).led = n /\ table' = table
        /\ ledgerFile' \in {ledgerFile, Stored(n)} /\ ledger' \in {ledger, n}
        /\ ledger' = n => ledgerFile' = Stored(n) \/ n = ledger
    BY <1>7 DEF RecordCleared, Reverted, Healthy, ControlInv, Installed, Stored, kernelVars
  <2>2. Outstanding(n) = Outstanding(ledger)
    BY <1>1, ClearedRets
  <2>3. \A e \in ClearedEntries(n) : e.ret \in Outstanding(ledger)
    BY <2>2 DEF ClearedEntries, Outstanding
  <2>4. \A e \in ledger.entries, r \in table.rules : r.mark # e.ret.mark
    BY <1>1, <2>1, RulesNotRetired DEF ActiveInv
  <2>5. RuleFree(table', n)
    BY <2>1, <2>3, <2>4 DEF RuleFree, Outstanding
  <2>6. Held(ledger, n)
    BY <2>3
  <2> HIDE DEF n, Held
  <2> QED
    BY <1>2, <1>4, <2>1, <2>5, <2>6
<1>8. CASE Lose
  <2>1. ledgerFile'.led \in {NewLedger, ledgerFile.led} /\ UNCHANGED <<pc, ledgerLost, ledger>>
    BY <1>8 DEF Lose, agentVars, NoLedgerFile, TypeInv, DiskOK, LedgerFiles
  <2> HIDE DEF Held
  <2> QED
    BY <1>3, <1>4, <2>1 DEF Healthy
<1>9. CASE LoseMemory /\ UNCHANGED diskVars
  BY <1>4, <1>9 DEF LoseMemory, diskVars, Healthy
<1>10. CASE UNCHANGED <<ledger, ledgerFile>> /\ ~Boot
  <2>1. Healthy' => Healthy
    BY <1>10, StepCases, WorkEffects DEF Quiet, Lose, LoseMemory, OneShot, OneShotApply,
       agentVars, Start, Fail, Finish, Continue, Healthy
  <2> HIDE DEF Held
  <2> QED
    BY <1>4, <1>10, <2>1
<1> QED
  BY <1>5, <1>6, <1>7, <1>8, <1>9, <1>10, LedgerWriters

(***************************************************************************)
(* The layers up to here, in one invariant.                                *)
(***************************************************************************)
CoreInv == TypeInv /\ ControlInv /\ LedgerInv /\ CurrentInv /\ ActiveInv

LEMMA CoreInvariant == ASSUME NoRestore PROVE Spec => []CoreInv
<1>1. Init => CoreInv
  BY TypeInit, LedgerInit, CurrentInit, ActiveInit DEF CoreInv
<1>2. CoreInv /\ [Next]_vars => CoreInv'
  <2>1. CASE Next
    BY <2>1, TypeStep, ControlStep, LedgerStepInv, CurrentStep, ActiveStep DEF CoreInv
  <2>2. CASE UNCHANGED vars
    <3>1. CurrentInv /\ ActiveInv => CurrentInv' /\ ActiveInv'
      BY <2>2 DEF vars, kernelVars, diskVars, agentVars, platformVars, CurrentInv, ActiveInv,
         Applying, Installed, Healthy
    <3> QED
      BY <2>2, <3>1, TypeStep, ControlStep, LedgerStepInv DEF CoreInv
  <2> QED
    BY <2>1, <2>2
<1> QED
  BY <1>1, <1>2, PTL DEF Spec

(***************************************************************************)
(* DNAT of an epoch is installed only while the ledger has it active, also *)
(* with lost ledgers and one-shot applies.                                 *)
(***************************************************************************)
THEOREM EpochsNeverReactivated == ASSUME NoRestore PROVE Spec => NeverReactivated
<1>1. CoreInv /\ [Next]_vars =>
        [\A r \in table'.rules \ table.rules :
            r.mark = 0 \/ \E a \in ledger.active : a.mark = r.mark]_vars
  BY NewRules DEF CoreInv
<1> QED
  BY <1>1, CoreInvariant, PTL DEF Spec, NeverReactivated

-----------------------------------------------------------------------------
(***************************************************************************)
(* The fences likewise, where nobody else replaces the table.              *)
(***************************************************************************)
Fenced(t, l) == t.present => \A e \in ClearedEntries(l) : Dropped(t, FlowOf(e.ret))

FenceInv ==
    /\ Installed /\ table.present => Outstanding(ledger) \subseteq table.fences
    /\ Fenced(table, ledgerFile.led) /\ (Healthy => Fenced(table, ledger))

LEMMA FencedBy ==
    ASSUME NEW t, NEW l, \A e \in ClearedEntries(l) : e.ret \in t.fences
    PROVE  Fenced(t, l)
  BY DEF Fenced, Dropped, Fences, FlowOf

LEMMA FenceInit == Init => FenceInv
<1>1. NoTable.present = FALSE
  BY DEF NoTable
<1> QED
  BY <1>1 DEF Init, FenceInv, Installed, Fenced

LEMMA NewFences ==
    ASSUME NoOneShot, ControlInv, Next, NEW l, Fenced(table, l),
           Healthy => \A e \in ClearedEntries(l) : e.ret \in Outstanding(ledger)
    PROVE  Fenced(table', l)
<1>1. CASE table' = NoTable
  BY <1>1 DEF NoTable, Fenced
<1>2. CASE table' = Quarantine
  BY <1>2 DEF Quarantine, Fenced, Dropped
<1>3. CASE table' = Rendered /\ ApplyTable
  <2>1. Healthy
    BY <1>3 DEF ApplyTable, Healthy, ControlInv
  <2> QED
    BY <1>3, <2>1, FencedBy, OtherTables
<1> QED
  BY <1>1, <1>2, <1>3, TableWriters DEF NoOneShot, OneShotTable

LEMMA InstalledFenced ==
    ASSUME NoOneShot, TypeInv, ControlInv, FenceInv, Next
    PROVE  (Installed /\ table.present => Outstanding(ledger) \subseteq table.fences)'
<1> SUFFICES ASSUME Installed', table'.present
             PROVE  Outstanding(ledger') \subseteq table'.fences
  OBVIOUS
<1>1. ledger' = ledger /\ (ApplyTable \/ Installed)
  <2>1. CASE Boot
    BY <2>1, BootEffects DEF Installed, Quarantined, Restoring, Emptying
  <2>2. CASE Work
    BY <2>2, WorkEffects DEF Work, Installed, Fail, Finish, Continue, ApplyTable,
       PersistLedger, PersistSnapshot, VerifyTable, ClearConntrack, RecordCleared
  <2>3. CASE ~Boot /\ ~Work
    BY <2>3, JobWriters DEF Installed, Start, LoseMemory
  <2> QED
    BY <2>1, <2>2, <2>3
<1>2. CASE ApplyTable
  <2>1. table' = Rendered
    BY <1>2 DEF ApplyTable, Installed, Fail, Finish, Continue
  <2> QED
    BY <1>1, <2>1, OtherTables
<1>3. CASE ~ApplyTable
  <2>1. Installed /\ NoTable.present = FALSE
    BY <1>1, <1>3 DEF NoTable
  <2>2. table' = table
    BY <1>3, <2>1, TableWriters DEF NoOneShot, OneShotTable, Installed, ControlInv
  <2> QED
    BY <1>1, <2>1, <2>2 DEF FenceInv
<1> QED
  BY <1>2, <1>3

LEMMA FenceStep ==
    ASSUME NoOneShot, TypeInv, ControlInv, LedgerInv, ActiveInv, FenceInv, Next
    PROVE  FenceInv'
<1>1. Sound(ledger) /\ NewLedger.entries = {}
  BY DEF LedgerInv, NewLedger
<1>2. \A t : Fenced(t, NewLedger)
  BY <1>1 DEF Fenced, ClearedEntries
<1>3. \A l : \A e \in ClearedEntries(l) : e.ret \in Outstanding(l)
  BY DEF ClearedEntries, Outstanding
<1>4. Fenced(table', ledgerFile.led) /\ (Healthy => Fenced(table', ledger))
  BY <1>3, NewFences DEF FenceInv, ActiveInv
<1> SUFFICES Fenced(table', ledgerFile'.led) /\ (Healthy' => Fenced(table', ledger'))
  BY InstalledFenced DEF FenceInv
<1>5. CASE Boot
  <2>1. /\ Quarantined \/ Restoring \/ Emptying
        /\ ledgerFile' \in {ledgerFile, Stored(LoadedLedger)}
    BY <1>5, BootEffects
  <2>2. Stored(LoadedLedger).led = LoadedLedger /\ LoadedLedger \in {NewLedger, ledgerFile.led}
    BY DEF Stored, LoadedLedger
  <2>3. Healthy' => ledger' = LoadedLedger
    BY <2>1, RestoreKeepsLedger DEF Quarantined, Emptying, Healthy
  <2> QED
    BY <1>2, <1>4, <2>1, <2>2, <2>3
<1>6. CASE PersistLedger
  <2> DEFINE n == Prepared(ledger, job.snap)
  <2>1. /\ Healthy /\ PrepareOK(ledger, job.snap) /\ Stored(n).led = n
        /\ ledgerFile' \in {ledgerFile, Stored(n)} /\ ledger' \in {ledger, n}
    BY <1>6 DEF PersistLedger, Healthy, ControlInv, LedgerInv, Stored
  <2>2. \A e \in ClearedEntries(n) : e \in ClearedEntries(ledger)
    BY <2>1, PreparedCleared
  <2>3. Fenced(table', n)
    BY <1>4, <2>1, <2>2 DEF Fenced
  <2> HIDE DEF n
  <2> QED
    BY <1>4, <2>1, <2>3
<1>7. CASE RecordCleared
  <2> DEFINE n == Clear(ledger, {r.rid : r \in ToClear})
  <2>1. /\ Healthy /\ Installed /\ Stored(n).led = n /\ table' = table
        /\ ledgerFile' \in {ledgerFile, Stored(n)} /\ ledger' \in {ledger, n}
    BY <1>7 DEF RecordCleared, Reverted, Healthy, ControlInv, Installed, Stored, kernelVars
  <2>2. Outstanding(n) = Outstanding(ledger)
    BY <1>1, ClearedRets
  <2>3. Fenced(table', n)
    <3>1. CASE table.present
      BY <1>3, <2>1, <2>2, <3>1, FencedBy DEF FenceInv
    <3>2. CASE ~table.present
      BY <2>1, <3>2 DEF Fenced
    <3> QED
      BY <3>1, <3>2
  <2> HIDE DEF n
  <2> QED
    BY <1>4, <2>1, <2>3
<1>8. CASE Lose
  <2>1. ledgerFile'.led \in {NewLedger, ledgerFile.led} /\ UNCHANGED <<pc, ledgerLost, ledger>>
    BY <1>8 DEF Lose, agentVars, NoLedgerFile, TypeInv, DiskOK, LedgerFiles
  <2> QED
    BY <1>2, <1>4, <2>1 DEF Healthy
<1>9. CASE LoseMemory /\ UNCHANGED diskVars
  BY <1>4, <1>9 DEF LoseMemory, diskVars, Healthy
<1>10. CASE UNCHANGED <<ledger, ledgerFile>> /\ ~Boot
  <2>1. Healthy' => Healthy
    BY <1>10, StepCases, WorkEffects DEF Quiet, Lose, LoseMemory, OneShot, OneShotApply,
       agentVars, Start, Fail, Finish, Continue, Healthy
  <2> QED
    BY <1>4, <1>10, <2>1
<1> QED
  BY <1>5, <1>6, <1>7, <1>8, <1>9, <1>10, LedgerWriters

(***************************************************************************)
(* An entry recorded as cleared is closed in every table the agent         *)
(* installs: fenced, and without a rule of its mark.  A lost ledger file   *)
(* does not open it.                                                       *)
(***************************************************************************)
THEOREM ClearedStaysClosed == ASSUME NoRestore, NoOneShot PROVE Spec => []ClearedIsClosed
<1>1. Init => FenceInv
  BY FenceInit
<1>2. CoreInv /\ FenceInv /\ [Next]_vars => FenceInv'
  <2>1. CASE UNCHANGED vars
    BY <2>1 DEF vars, kernelVars, diskVars, agentVars, FenceInv, Installed, Healthy
  <2> QED
    BY <2>1, FenceStep DEF CoreInv
<1>3. CoreInv /\ FenceInv => ClearedIsClosed
  <2> SUFFICES ASSUME CoreInv, FenceInv
               PROVE  ClearedIsClosed
    OBVIOUS
  <2>1. Fenced(table, Authority) /\ RuleFree(table, Authority)
    BY DEF Authority, CoreInv, ActiveInv, FenceInv, Healthy
  <2> QED
    BY <2>1 DEF ClearedIsClosed, Fenced, RuleFree
<1> QED
  BY <1>1, <1>2, <1>3, CoreInvariant, PTL DEF Spec

-----------------------------------------------------------------------------
(***************************************************************************)
(* Every flow, and every rule that could start one, belongs to an epoch    *)
(* that is active or outstanding, in memory and on disk; a persist that    *)
(* drops entries has seen none of their flows.  The platform names a       *)
(* retirement after its epoch, so a dropped one never returns.             *)
(***************************************************************************)
ActiveEpochIn(l, f) ==
    \E a \in l.active :
        a.mark = f.mark /\ a.hash = TupleHash(a.id, f.key, f.target, f.mark)

EpochIn(l, f) ==
    \/ f.mark = 0
    \/ ActiveEpochIn(l, f)
    \/ \E e \in l.entries : FlowOf(e.ret) = f

Carried == flows \cup inflight \cup {FlowOf(r) : r \in table.rules}

Covers(n, l) ==
    \A a \in l.active :
        a \in n.active \/ \E e \in n.entries : RetiredEpoch(e.ret) = a

Named(l) == \A e \in l.entries : e.ret.rid = e.ret.id

SilenceInv ==
    /\ ledgerFile.state # "corrupt"
    /\ \A f \in Carried : EpochIn(ledgerFile.led, f)
    /\ Healthy => \A f \in Carried : EpochIn(ledger, f)
    /\ Healthy => Covers(ledgerFile.led, ledger)
    /\ Named(ledger) /\ Named(ledgerFile.led)
    /\ pc = "persist" => /\ \A r \in job.snap.retirements : r.rid = r.id
                         /\ ZeroOK(ledger, Prepared(ledger, job.snap))

LEMMA CoveredEpoch ==
    ASSUME NEW n, Sound(n), NEW l, Covers(n, l), NEW f \in Flows, ActiveEpochIn(l, f)
    PROVE  EpochIn(n, f)
<1>1. PICK a \in l.active :
         a.mark = f.mark /\ a.hash = TupleHash(a.id, f.key, f.target, f.mark)
  BY DEF ActiveEpochIn
<1>2. CASE a \in n.active
  BY <1>1, <1>2 DEF EpochIn, ActiveEpochIn
<1>3. CASE a \notin n.active
  <2>1. PICK e \in n.entries : RetiredEpoch(e.ret) = a
    BY <1>3 DEF Covers
  <2>2. e.ret.mark = a.mark /\ e.ret.hash = a.hash
    BY <2>1 DEF RetiredEpoch
  <2>3. e.ret.hash = TupleHash(e.ret.id, e.ret.key, e.ret.target, e.ret.mark)
    BY DEF Sound, ValidLedger, EntriesValid
  <2>4. e.ret.key = f.key /\ e.ret.target = f.target
    BY <1>1, <2>2, <2>3 DEF TupleHash
  <2>5. FlowOf(e.ret) = f
    BY <1>1, <2>2, <2>4 DEF FlowOf, Flows
  <2> QED
    BY <2>5 DEF EpochIn
<1> QED
  BY <1>2, <1>3

LEMMA PlanEpochs ==
    ASSUME NEW s, WellFormed(s), NEW l, ActiveIn(l, s), NEW r \in Plan(s)
    PROVE  FlowOf(r).mark = 0 \/ ActiveEpochIn(l, FlowOf(r))
<1>1. PICK m \in s.mappings : r = RuleOf(m)
  BY DEF Plan
<1>2. m \in Mappings /\ s.managed \in BOOLEAN
  BY DEF WellFormed, Snapshots
<1>3. r.mark = ValueOrZero(m.mark) /\ r.key = m.key /\ r.target = m.target
  BY <1>1, <1>2 DEF RuleOf, Mappings
<1>4. FlowOf(r).mark = r.mark /\ FlowOf(r).key = r.key /\ FlowOf(r).target = r.target
  BY DEF FlowOf
<1>5. CASE s.managed
  <2>1. EpochOf(m) \in l.active
    BY <1>5 DEF ActiveIn
  <2>2. m.mark # Absent
    BY <1>5, Numbers DEF WellFormed, Marks, Absent
  <2>3. /\ EpochOf(m).mark = FlowOf(r).mark
        /\ EpochOf(m).hash = TupleHash(EpochOf(m).id, FlowOf(r).key, FlowOf(r).target,
                                       FlowOf(r).mark)
    BY <1>3, <1>4, <2>2 DEF ValueOrZero, EpochOf, MappingHash
  <2> QED
    BY <2>1, <2>3 DEF ActiveEpochIn
<1>6. CASE ~s.managed
  BY <1>3, <1>4, <1>6 DEF WellFormed, ValueOrZero
<1> QED
  BY <1>5, <1>6

(***************************************************************************)
(* A step carries no flow of a new epoch, except an apply: that of an      *)
(* active one.                                                             *)
(***************************************************************************)
LEMMA CarriedStep ==
    ASSUME TypeInv, ControlInv, ActiveInv, Next
    PROVE  \A f \in Carried' : \/ f \in Carried \/ f.mark = 0
                               \/ ApplyTable /\ ActiveEpochIn(ledger, f)
<1>1. ASSUME NEW r \in table'.rules
      PROVE  \/ FlowOf(r) \in Carried \/ FlowOf(r).mark = 0
             \/ ApplyTable /\ ActiveEpochIn(ledger, FlowOf(r))
  <2>1. CASE table' = Rendered /\ ApplyTable
    <3>1. ActiveIn(ledger, job.snap) /\ WellFormed(job.snap) /\ r \in Plan(job.snap)
      BY <2>1, OtherTables DEF ApplyTable, ActiveInv, Applying, TypeInv, JobOK
    <3> QED
      BY <2>1, <3>1, PlanEpochs
  <2>2. CASE OneShotTable(table')
    BY <2>2, OneShotRules DEF FlowOf
  <2>3. CASE table' = table
    BY <2>3 DEF Carried
  <2> QED
    BY <2>1, <2>2, <2>3, TableWriters, OtherTables
<1>2. \A f \in flows' \cup inflight' : f \in Carried
  BY FlowWriters DEF Carried
<1> QED
  BY <1>1, <1>2 DEF Carried

(***************************************************************************)
(* What Prepare and Clear forget.                                          *)
(***************************************************************************)
LEMMA PreparedCovers ==
    ASSUME NEW l, Sound(l), NEW s, PrepareOK(l, s)
    PROVE  Covers(Prepared(l, s), l)
<1>1. CASE s.managed
  <2>1. /\ Prepared(l, s).active = NextActive(l, s)
        /\ Prepared(l, s).entries = NextEntries(l, s)
    BY <1>1 DEF Prepared, Advance
  <2>2. ActiveValid(l) /\ EntriesValid(l)
    BY DEF Sound, ValidLedger
  <2> QED
    BY <1>1, <2>1, <2>2, ActiveStaysOrRetires DEF Covers
<1>2. CASE ~s.managed
  BY <1>2 DEF Prepared, Covers
<1> QED
  BY <1>1, <1>2

LEMMA DroppedIsCleared ==
    ASSUME NEW l \in Ledgers, NEW s, WellFormed(s), PrepareOK(l, s),
           NEW o \in l.entries, \A k \in Prepared(l, s).entries : k.ret.rid # o.ret.rid
    PROVE  o.cleared
<1>1. s.managed /\ s \in Snapshots
  BY DEF Prepared, WellFormed
<1>2. Prepared(l, s).entries = NextEntries(l, s)
  BY <1>1 DEF Prepared, Advance
<1> QED
  BY <1>1, <1>2, EntryStaysOrCleared

LEMMA PreparedNames ==
    ASSUME NEW l, Named(l), NEW s, PrepareOK(l, s), \A r \in s.retirements : r.rid = r.id
    PROVE  Named(Prepared(l, s))
<1>1. CASE s.managed
  <2>1. Prepared(l, s).entries = NextEntries(l, s)
    BY <1>1 DEF Prepared, Advance
  <2> QED
    BY <2>1 DEF Named, NextEntries, Kept, FreshRetirements
<1>2. CASE ~s.managed
  BY <1>2 DEF Prepared
<1> QED
  BY <1>1, <1>2

(***************************************************************************)
(* An entry that Prepare forgets is among those whose flows the zero check *)
(* looks for: no new retirement takes its name.                            *)
(***************************************************************************)
LEMMA ForgottenIsDropped ==
    ASSUME NEW l, Sound(l), Named(l), NEW s, WellFormed(s), PrepareOK(l, s),
           \A r \in s.retirements : r.rid = r.id,
           NEW o \in l.entries, o \notin Prepared(l, s).entries
    PROVE  o.ret \in Dropping(l, Prepared(l, s))
<1> SUFFICES ASSUME NEW k \in Prepared(l, s).entries, k.ret.rid = o.ret.rid
             PROVE  FALSE
  BY DEF Dropping
<1>1. s.managed /\ k \in NextEntries(l, s)
  BY DEF Prepared, Advance
<1>2. Named(Prepared(l, s))
  BY PreparedNames
<1>3. k.ret.id = o.ret.id
  BY <1>2 DEF Named
<1>4. CASE k \in l.entries
  <2>1. k = o
    BY <1>3, <1>4 DEF Sound, ValidLedger, EntriesValid
  <2> QED
    BY <2>1
<1>5. CASE RetiredEpoch(k.ret) \in l.active
  <2>1. \A a \in l.active : a.id # o.ret.id
    BY DEF Sound, ValidLedger, EntriesValid
  <2> QED
    BY <1>3, <1>5, <2>1 DEF RetiredEpoch
<1> QED
  BY <1>1, <1>4, <1>5, NextEntryOrigin

LEMMA PreparedSilent ==
    ASSUME TypeInv, LedgerInv, ActiveInv, SilenceInv, Healthy, pc = "persist",
           NEW f \in Carried
    PROVE  EpochIn(Prepared(ledger, job.snap), f)
<1> DEFINE n == Prepared(ledger, job.snap)
<1>1. /\ Sound(ledger) /\ WellFormed(job.snap) /\ PrepareOK(ledger, job.snap)
      /\ EpochIn(ledger, f) /\ RuleFree(table, ledger) /\ Named(ledger) /\ ledger \in Ledgers
      /\ \A r \in job.snap.retirements : r.rid = r.id
  BY DEF LedgerInv, TypeInv, JobOK, ActiveInv, SilenceInv, Sound
<1>2. Sound(n) /\ Covers(n, ledger)
  BY <1>1, PreparedSound, PreparedCovers
<1>3. f \in Flows
  BY DEF Carried, TypeInv, KernelOK, Tables, Rules, FlowOf, Flows
<1>4. CASE f.mark = 0
  BY <1>4 DEF EpochIn
<1>5. CASE ActiveEpochIn(ledger, f)
  BY <1>2, <1>3, <1>5, CoveredEpoch
<1>6. ASSUME NEW e \in ledger.entries, FlowOf(e.ret) = f, e \notin n.entries
      PROVE  FALSE
  <2>1. e.ret \in Dropping(ledger, n)
    BY <1>1, <1>6, ForgottenIsDropped
  <2>2. f.mark = e.ret.mark /\ f.key = e.ret.key /\ f.target = e.ret.target
    BY <1>6 DEF FlowOf
  <2>3. f \notin flows \cup inflight
    BY <2>1, <2>2 DEF SilenceInv, ZeroOK, FlowsOf, Matches
  <2>4. PICK o \in ledger.entries : o.ret = e.ret /\ \A k \in n.entries : k.ret.rid # o.ret.rid
    BY <2>1 DEF Dropping
  <2>5. o.cleared
    BY <1>1, <2>4, DroppedIsCleared
  <2>6. \A r \in table.rules : r.mark # e.ret.mark
    BY <1>1, <2>4, <2>5 DEF RuleFree, ClearedEntries
  <2>7. \A r \in table.rules : FlowOf(r).mark = r.mark
    BY DEF FlowOf
  <2> QED
    BY <2>2, <2>3, <2>6, <2>7 DEF Carried
<1>7. (\E e \in ledger.entries : FlowOf(e.ret) = f) => \E e \in n.entries : FlowOf(e.ret) = f
  BY <1>6
<1> QED
  BY <1>1, <1>4, <1>5, <1>7 DEF EpochIn

LEMMA ClearKeepsEpochs ==
    ASSUME NEW l, Sound(l), NEW rids
    PROVE  /\ \A f : EpochIn(l, f) => EpochIn(Clear(l, rids), f)
           /\ Covers(Clear(l, rids), l)
           /\ Named(l) => Named(Clear(l, rids))
<1>1. Clear(l, rids).active = l.active /\ Outstanding(Clear(l, rids)) = Outstanding(l)
  BY ClearedRets
<1>2. \A e \in l.entries : \E d \in Clear(l, rids).entries : d.ret = e.ret
  BY <1>1 DEF Outstanding
<1>3. \A d \in Clear(l, rids).entries : \E e \in l.entries : d.ret = e.ret
  BY <1>1 DEF Outstanding
<1>4. ASSUME NEW f, EpochIn(l, f)
      PROVE  EpochIn(Clear(l, rids), f)
  BY <1>1, <1>2, <1>4 DEF EpochIn, ActiveEpochIn
<1> QED
  BY <1>1, <1>3, <1>4 DEF Covers, Named

(***************************************************************************)
(* The zero check of a cycle still holds when its ledger is persisted: no  *)
(* rule is left that could start a flow of a dropped entry.                *)
(***************************************************************************)
LEMMA ZeroStays ==
    ASSUME Next, NEW l \in Ledgers, RuleFree(table, l), NEW s, WellFormed(s),
           PrepareOK(l, s), ZeroOK(l, Prepared(l, s)),
           NEW f \in flows' \cup inflight', NEW r \in Dropping(l, Prepared(l, s))
    PROVE  ~Matches(f, r)
<1>1. CASE f \in flows \cup inflight
  BY <1>1 DEF ZeroOK, FlowsOf
<1>2. CASE f \notin flows \cup inflight
  <2>1. PICK q \in table.rules : f = FlowOf(q)
    BY <1>2, FlowWriters
  <2>2. PICK o \in l.entries : o.ret = r /\ \A k \in Prepared(l, s).entries : k.ret.rid # o.ret.rid
    BY DEF Dropping
  <2>3. o.cleared
    BY <2>2, DroppedIsCleared
  <2>4. q.mark # r.mark /\ f.mark = q.mark
    BY <2>1, <2>2, <2>3 DEF RuleFree, ClearedEntries, FlowOf
  <2> QED
    BY <2>4 DEF Matches
<1> QED
  BY <1>1, <1>2

LEMMA SilenceInit == Init => SilenceInv
<1>1. NoLedgerFile.led = NewLedger /\ NewLedger.entries = {} /\ NoLedgerFile.state = "none"
  BY DEF NoLedgerFile, NewLedger
<1> QED
  BY <1>1, OtherTables DEF Init, SilenceInv, Carried, Healthy, Named

LEMMA ZeroStep ==
    ASSUME TypeInv, ControlInv, LedgerInv, ActiveInv, SilenceInv, Next
    PROVE  (pc = "persist" => /\ \A r \in job.snap.retirements : r.rid = r.id
                              /\ ZeroOK(ledger, Prepared(ledger, job.snap)))'
<1> SUFFICES ASSUME pc' = "persist"
             PROVE  /\ \A r \in job'.snap.retirements : r.rid = r.id
                    /\ FlowsOf(flows' \cup inflight',
                               Dropping(ledger', Prepared(ledger', job'.snap))) = {}
  BY DEF ZeroOK
<1>1. ledger' = ledger /\ Healthy
      /\ ((pc = "persist" /\ job' = job) \/ (job'.snap = want /\ AcceptedAnswer(want)))
  <2>1. CASE Boot
    BY <2>1, BootEffects DEF Quarantined, Restoring, Emptying
  <2>2. CASE Work
    BY <2>2, WorkEffects DEF Fail, Finish, Continue
  <2>3. CASE Start
    BY <2>3 DEF Start, Healthy
  <2>4. CASE UNCHANGED <<pc, job, ledger, ledgerLost, appliedVars>>
    BY <2>4 DEF ControlInv, Healthy
  <2> QED
    BY <2>1, <2>2, <2>3, <2>4, JobWriters DEF LoseMemory
<1>2. /\ ledger \in Ledgers /\ RuleFree(table, ledger) /\ WellFormed(job'.snap)
      /\ PrepareOK(ledger, job'.snap) /\ ZeroOK(ledger, Prepared(ledger, job'.snap))
  <2>1. CASE pc = "persist" /\ job' = job
    BY <1>1, <2>1 DEF TypeInv, MemoryOK, JobOK, ActiveInv, LedgerInv, SilenceInv
  <2>2. CASE job'.snap = want /\ AcceptedAnswer(want)
    BY <1>1, <2>2, DocumentWellFormed DEF TypeInv, MemoryOK, PlatformOK, ActiveInv,
       AcceptedAnswer
  <2> QED
    BY <1>1, <2>1, <2>2
<1>3. \A r \in job'.snap.retirements : r.rid = r.id
  BY <1>1 DEF SilenceInv, TypeInv, PlatformOK, Document
<1>4. \A f \in flows' \cup inflight', r \in Dropping(ledger, Prepared(ledger, job'.snap)) :
         ~Matches(f, r)
  BY <1>2, ZeroStays
<1> QED
  BY <1>1, <1>3, <1>4 DEF FlowsOf

LEMMA SilenceStep ==
    ASSUME NoLoss, TypeInv, ControlInv, LedgerInv, ActiveInv, SilenceInv, Next
    PROVE  SilenceInv'
<1> DEFINE Silent(l) == \A f \in Carried' : EpochIn(l, f)
<1>1. Sound(ledger) /\ Sound(ledgerFile.led) /\ NewLedger.entries = {}
  BY DEF LedgerInv, NewLedger
<1>2. Carried' \subseteq Flows
  <2>1. KernelOK'
    BY KernelStep
  <2> QED
    BY <2>1 DEF Carried, KernelOK, Tables, Rules, FlowOf, Flows
<1>3. Healthy => Silent(ledger)
  BY CarriedStep DEF SilenceInv, EpochIn
<1>4. Silent(ledgerFile.led)
  <2> SUFFICES ASSUME NEW f \in Carried'
               PROVE  EpochIn(ledgerFile.led, f)
    OBVIOUS
  <2>1. CASE ApplyTable /\ ActiveEpochIn(ledger, f)
    <3>1. Covers(ledgerFile.led, ledger)
      BY <2>1 DEF SilenceInv, ApplyTable, Healthy, ControlInv
    <3> QED
      BY <1>1, <1>2, <2>1, <3>1, CoveredEpoch
  <2> QED
    BY <2>1, CarriedStep DEF SilenceInv, EpochIn
<1>5. \A l : Covers(l, l)
  BY DEF Covers
<1> SUFFICES /\ ledgerFile'.state # "corrupt" /\ Silent(ledgerFile'.led)
             /\ Healthy' => Silent(ledger') /\ Covers(ledgerFile'.led, ledger')
             /\ Named(ledger') /\ Named(ledgerFile'.led)
  BY ZeroStep DEF SilenceInv
<1>6. CASE Boot
  <2>1. /\ Quarantined \/ Restoring \/ Emptying
        /\ ledgerFile' \in {ledgerFile, Stored(LoadedLedger)}
    BY <1>6, BootEffects
  <2>2. LoadedLedger = ledgerFile.led
    BY LoadedFromFile DEF SilenceInv
  <2>3. ledgerFile'.led = ledgerFile.led /\ ledgerFile'.state # "corrupt"
    BY <2>1, <2>2 DEF Stored, SilenceInv
  <2>4. /\ ledger' \in {NewLedger, ledgerFile.led}
        /\ Healthy' => ledger' = ledgerFile.led
    BY <2>1, <2>2, RestoreKeepsLedger DEF Quarantined, Emptying, Healthy
  <2>5. Named(ledger') /\ Named(ledgerFile'.led)
    BY <1>1, <2>3, <2>4 DEF Named, SilenceInv
  <2> HIDE DEF Silent
  <2> QED
    BY <1>4, <1>5, <2>3, <2>4, <2>5
<1>7. CASE PersistLedger
  <2> DEFINE n == Prepared(ledger, job.snap)
  <2>1. /\ Healthy /\ pc = "persist" /\ PrepareOK(ledger, job.snap)
        /\ Stored(n).led = n /\ Stored(n).state = "ok"
        /\ ledgerFile' \in {ledgerFile, Stored(n)} /\ ledger' \in {ledger, n}
        /\ ledger' = n => ledgerFile' = Stored(n) \/ n = ledger
    BY <1>7 DEF PersistLedger, Healthy, ControlInv, LedgerInv, Stored
  <2>2. Covers(n, ledger)
    BY <1>1, <2>1, PreparedCovers
  <2>3. Named(n)
    BY <2>1, PreparedNames DEF SilenceInv
  <2>4. Carried' = Carried
    BY <1>7 DEF PersistLedger, kernelVars, Carried
  <2>5. Silent(n)
    BY <2>1, <2>4, PreparedSilent
  <2> HIDE DEF n, Silent
  <2> QED
    BY <1>3, <1>4, <1>5, <2>1, <2>2, <2>3, <2>5 DEF SilenceInv
<1>8. CASE RecordCleared
  <2> DEFINE n == Clear(ledger, {r.rid : r \in ToClear})
  <2>1. /\ Healthy /\ Stored(n).led = n /\ Stored(n).state = "ok"
        /\ ledgerFile' \in {ledgerFile, Stored(n)} /\ ledger' \in {ledger, n}
        /\ ledger' = n => ledgerFile' = Stored(n) \/ n = ledger
    BY <1>8 DEF RecordCleared, Reverted, Healthy, ControlInv, Stored
  <2>2. Covers(n, ledger) /\ Named(n) /\ \A f : EpochIn(ledger, f) => EpochIn(n, f)
    BY <1>1, ClearKeepsEpochs DEF SilenceInv
  <2>3. Silent(n)
    BY <1>3, <2>1, <2>2
  <2> HIDE DEF n, Silent
  <2> QED
    BY <1>3, <1>4, <1>5, <2>1, <2>2, <2>3 DEF SilenceInv
<1>9. CASE LoseMemory /\ UNCHANGED diskVars
  BY <1>1, <1>4, <1>9 DEF LoseMemory, diskVars, Healthy, SilenceInv, Named
<1>10. CASE UNCHANGED <<ledger, ledgerFile>> /\ ~Boot
  <2>1. Healthy' => Healthy
    BY <1>10, StepCases, WorkEffects DEF Quiet, Lose, LoseMemory, OneShot, OneShotApply,
       agentVars, Start, Fail, Finish, Continue, Healthy
  <2> HIDE DEF Silent
  <2> QED
    BY <1>3, <1>4, <1>10, <2>1 DEF SilenceInv
<1> QED
  BY <1>6, <1>7, <1>8, <1>9, <1>10, LedgerWriters DEF Lose, NoLoss

(***************************************************************************)
(* A mark the ledger has forgotten carries no traffic, although packets    *)
(* move between the conntrack clear, the acknowledgement, the zero check   *)
(* and the persist, and any of them may be cut off by a crash.             *)
(***************************************************************************)
THEOREM ForgottenMarksSilent == ASSUME NoRestore, NoLoss PROVE Spec => []ForgottenIsSilent
<1>1. CoreInv /\ SilenceInv /\ [Next]_vars => SilenceInv'
  <2>1. CASE UNCHANGED vars
    BY <2>1 DEF vars, kernelVars, diskVars, agentVars, SilenceInv, Carried, Healthy, ZeroOK
  <2> QED
    BY <2>1, SilenceStep DEF CoreInv
<1>2. SilenceInv => ForgottenIsSilent
  <2> SUFFICES ASSUME SilenceInv, NEW f \in flows \cup inflight, f.mark # 0
               PROVE  f.mark \in MarksOf(Authority)
    BY DEF ForgottenIsSilent
  <2>1. EpochIn(Authority, f)
    BY DEF SilenceInv, Authority, Healthy, Carried
  <2>2. \A e : FlowOf(e.ret).mark = e.ret.mark
    BY DEF FlowOf
  <2> QED
    BY <2>1, <2>2 DEF EpochIn, ActiveEpochIn, MarksOf, Outstanding
<1> QED
  BY <1>1, <1>2, SilenceInit, CoreInvariant, PTL DEF Spec

-----------------------------------------------------------------------------
(***************************************************************************)
(* Retirements: each one that the relay has seen is still desired or       *)
(* acknowledged, and its id is spent; a receipt stands for an entry that   *)
(* is cleared in memory and on disk.                                       *)
(***************************************************************************)
Spent(w, i, x) == x \in 1..i /\ \A m \in w.mappings : m.id # x

Seen(w, i, r) ==
    /\ Spent(w, i, r.rid)
    /\ \A q \in w.retirements : q.rid = r.rid => q = r
    /\ r \in w.retirements \/ r.gen <= w.ack

ClearedIn(l, r) == [ret |-> r, cleared |-> TRUE] \in l.entries

ReceiptInv ==
    /\ ledgerFile.state # "corrupt"
    /\ \A e \in ledger.entries \cup ledgerFile.led.entries : Seen(want, issued, e.ret)
    /\ pc = "persist" => /\ job.snap.ack <= want.ack
                         /\ \A r \in job.snap.retirements : Seen(want, issued, r)
    /\ \A x \in receipts : Spent(want, issued, x)
    /\ \A r \in want.retirements :
          r.rid \in receipts => /\ ClearedIn(ledgerFile.led, r)
                                /\ Healthy => ClearedIn(ledger, r)
    /\ Healthy => \A e \in ClearedEntries(ledger) :
                     e \in ledgerFile.led.entries \/ e.ret.gen <= want.ack

(***************************************************************************)
(* A change of mind of the platform: ids are issued upwards, only mapped   *)
(* epochs are retired, and retirements leave only below the                *)
(* acknowledgement.                                                        *)
(***************************************************************************)
WantGrows ==
    /\ issued <= issued' /\ want.ack <= want'.ack
    /\ \A n \in want'.mappings : n.id > issued \/ \E m \in want.mappings : m.id = n.id
    /\ \A r \in want.retirements : r \in want'.retirements \/ r.gen <= want'.ack
    /\ \A q \in want'.retirements :
          q \in want.retirements \/ \E m \in want.mappings : m.id = q.rid

LEMMA PlatformGrows ==
    ASSUME NoRestore, TypeInv, backup.state = "none", Platform
    PROVE  WantGrows
<1>1. /\ want \in Snapshots /\ issued \in Nat /\ want.ack \in Int /\ PlatformOK
      /\ (~want.managed => want.ack = Absent)
  BY Numbers DEF TypeInv, PlatformOK, Document, Snapshots, Generations, Absent
<1>2. want \in [gen : {want.gen}, mappings : {want.mappings}, managed : {want.managed},
                retirements : {want.retirements}, ack : {want.ack}]
  BY <1>1 DEF Snapshots
<1>3. CASE PlatformArm
  <2>1. /\ want'.mappings = {EpochMapping(m.id, TRUE) : m \in want.mappings}
        /\ want'.retirements = want.retirements /\ want'.ack = 0 /\ want.ack = Absent
        /\ issued' = issued
    BY <1>1, <1>2, <1>3 DEF PlatformArm, Desire
  <2>2. \A m \in want.mappings : EpochMapping(m.id, TRUE).id = m.id
    BY DEF EpochMapping
  <2>3. \A n \in want'.mappings : \E m \in want.mappings : m.id = n.id
    BY <2>1, <2>2
  <2>4. issued <= issued' /\ want.ack <= want'.ack
    BY <1>1, <2>1 DEF Absent
  <2> QED
    BY <2>1, <2>3, <2>4 DEF WantGrows
<1>4. CASE PlatformAdd
  <2>1. /\ want'.mappings = want.mappings \cup {EpochMapping(issued + 1, want.managed)}
        /\ want'.retirements = want.retirements /\ want'.ack = want.ack
        /\ issued' = issued + 1
    BY <1>2, <1>4 DEF PlatformAdd, Desire
  <2>2. EpochMapping(issued + 1, want.managed).id = issued + 1
    BY DEF EpochMapping
  <2> QED
    BY <1>1, <2>1, <2>2 DEF WantGrows
<1>5. CASE PlatformAcknowledge
  <2>1. want'.mappings = want.mappings /\ want'.retirements = want.retirements \ Acknowledgeable
    BY <1>2, <1>5 DEF PlatformAcknowledge, Desire
  <2>2. /\ want.ack < want'.ack /\ issued' = issued
        /\ \A r \in Acknowledgeable : r.gen <= want'.ack
    BY <1>1, <1>5, AcknowledgeDocument
  <2>3. want'.ack \in Int
    BY <1>1, <1>5, AcknowledgeDocument DEF Acknowledgeable, Snapshots, Retirements, Generations
  <2> QED
    BY <1>1, <2>1, <2>2, <2>3 DEF WantGrows
<1>6. ASSUME NEW m \in want.mappings, PlatformRemove(m)
      PROVE  WantGrows
  <2>1. /\ want'.mappings = want.mappings \ {m} /\ want'.ack = want.ack /\ issued' = issued
        /\ want'.retirements = IF want.managed THEN want.retirements \cup {RetirementFor(m)}
                               ELSE want.retirements
    BY <1>2, <1>6 DEF PlatformRemove, Desire
  <2>2. RetirementFor(m).rid = m.id
    BY DEF RetirementFor
  <2> QED
    BY <1>1, <2>1, <2>2 DEF WantGrows
<1>7. CASE PlatformBackup \/ PlatformRestore
  BY <1>7 DEF PlatformBackup, PlatformRestore, NoRestore
<1> QED
  BY <1>3, <1>4, <1>5, <1>6, <1>7 DEF Platform

LEMMA SpentStays ==
    ASSUME WantGrows, issued \in Nat, issued' \in Nat, NEW x, Spent(want, issued, x)
    PROVE  Spent(want', issued', x)
  BY DEF WantGrows, Spent

LEMMA SeenStays ==
    ASSUME WantGrows, issued \in Nat, issued' \in Nat, want.ack \in Int, want'.ack \in Int,
           NEW r, r.gen \in Int, Seen(want, issued, r)
    PROVE  Seen(want', issued', r)
<1>1. Spent(want', issued', r.rid)
  BY SpentStays DEF Seen
<1>2. \A q \in want'.retirements : q.rid = r.rid => q = r
  BY DEF WantGrows, Seen, Spent
<1>3. r \in want'.retirements \/ r.gen <= want'.ack
  BY DEF WantGrows, Seen
<1> QED
  BY <1>1, <1>2, <1>3 DEF Seen

LEMMA DesiredIsSeen ==
    ASSUME TypeInv, NEW r \in want.retirements
    PROVE  Seen(want, issued, r) /\ r.gen > want.ack
  BY DEF TypeInv, PlatformOK, Document, Seen, Spent

(***************************************************************************)
(* What Prepare and Clear do to seen and cleared entries.                  *)
(***************************************************************************)
LEMMA PreparedEntries ==
    ASSUME NEW l, NEW s, PrepareOK(l, s), NEW e \in Prepared(l, s).entries
    PROVE  e \in l.entries \/ e.ret \in s.retirements
<1>1. CASE s.managed
  <2>1. e \in NextEntries(l, s)
    BY <1>1 DEF Prepared, Advance
  <2> QED
    BY <2>1 DEF NextEntries, Kept, FreshRetirements
<1>2. CASE ~s.managed
  BY <1>2 DEF Prepared
<1> QED
  BY <1>1, <1>2

LEMMA PreparedKeeps ==
    ASSUME NEW l, NEW s, NEW e \in l.entries, e.ret.gen \in Int, s.ack \in Int
    PROVE  e \in Prepared(l, s).entries \/ e.ret.gen <= s.ack
<1>1. CASE s.managed
  <2>1. Prepared(l, s).entries = NextEntries(l, s)
    BY <1>1 DEF Prepared, Advance
  <2> QED
    BY <2>1 DEF NextEntries, Kept
<1>2. CASE ~s.managed
  BY <1>2 DEF Prepared
<1> QED
  BY <1>1, <1>2

LEMMA ClearKeepsCleared ==
    ASSUME NEW l, Sound(l), NEW rids, NEW e \in l.entries, e.cleared
    PROVE  e \in Clear(l, rids).entries
<1>1. l \in Ledgers /\ e \in Entries
  BY DEF Sound, Ledgers
<1>2. Clear(l, rids).entries = {Marked(d, rids) : d \in l.entries}
  BY <1>1 DEF Clear, Marked, Ledgers
<1>3. e.cleared = TRUE
  BY <1>1 DEF Entries
<1>4. Marked(e, rids) = e
  BY <1>1, <1>3 DEF Marked, Entries
<1> QED
  BY <1>2, <1>4

LEMMA ReceiptInit == Init => ReceiptInv
<1>1. /\ NoLedgerFile.led = NewLedger /\ NewLedger.entries = {} /\ NoLedgerFile.state = "none"
      /\ NoSnapshot.retirements = {}
  BY DEF NoLedgerFile, NewLedger, NoSnapshot
<1> QED
  BY <1>1 DEF Init, ReceiptInv, Healthy

(***************************************************************************)
(* A change of mind of the platform retires no epoch a receipt is for.     *)
(***************************************************************************)
LEMMA ReceiptPlatform ==
    ASSUME TypeInv, TypeInv', LedgerInv, ReceiptInv, WantGrows, Quiet, receipts' = receipts
    PROVE  ReceiptInv'
<1>1. /\ issued \in Nat /\ issued' \in Nat /\ want.ack \in Int /\ want'.ack \in Int
      /\ job.snap.ack \in Int
  BY Numbers DEF TypeInv, PlatformOK, Document, JobOK, Jobs, Snapshots, Generations, Absent
<1>2. /\ \A e \in ledger.entries \cup ledgerFile.led.entries : e.ret.gen \in Int
      /\ \A r \in job.snap.retirements : r.gen \in Int
  BY Numbers DEF LedgerInv, Sound, Ledgers, Entries, Retirements, TypeInv, JobOK, Jobs,
     Snapshots, Generations
<1>3. \A e \in ledger.entries \cup ledgerFile.led.entries : Seen(want', issued', e.ret)
  BY <1>1, <1>2, SeenStays DEF ReceiptInv
<1>4. pc = "persist" => /\ job.snap.ack <= want'.ack
                        /\ \A r \in job.snap.retirements : Seen(want', issued', r)
  BY <1>1, <1>2, SeenStays DEF ReceiptInv, WantGrows
<1>5. \A x \in receipts : Spent(want', issued', x)
  BY <1>1, SpentStays DEF ReceiptInv
<1>6. \A r \in want'.retirements : r.rid \in receipts => r \in want.retirements
  BY DEF WantGrows, ReceiptInv, Spent
<1>7. Healthy => \A e \in ClearedEntries(ledger) :
                    e \in ledgerFile.led.entries \/ e.ret.gen <= want'.ack
  BY <1>1, <1>2 DEF ReceiptInv, WantGrows, ClearedEntries
<1> QED
  BY <1>3, <1>4, <1>5, <1>6, <1>7 DEF ReceiptInv, Quiet, Healthy

(***************************************************************************)
(* A report turns cleared entries into receipts: they are on disk, unless  *)
(* the platform has acknowledged them.                                     *)
(***************************************************************************)
LEMMA ReceiptDeliver ==
    ASSUME TypeInv, LedgerInv, ReceiptInv, Next, want' = want, issued' = issued,
           backup.state = "none", NoRestore
    PROVE  /\ \A x \in receipts' : Spent(want, issued, x)
           /\ \A r \in want.retirements :
                 r.rid \in receipts' => /\ ClearedIn(ledgerFile.led, r)
                                        /\ Healthy => ClearedIn(ledger, r)
<1>1. CASE receipts' = receipts
  BY <1>1 DEF ReceiptInv
<1>2. CASE Healthy /\ receipts' = receipts \cup {e.ret.rid : e \in ClearedEntries(ledger)}
  <2>1. \A x \in receipts' : Spent(want, issued, x)
    BY <1>2 DEF ReceiptInv, Seen, ClearedEntries
  <2>2. ASSUME NEW r \in want.retirements, NEW e \in ClearedEntries(ledger), r.rid = e.ret.rid
        PROVE  ClearedIn(ledgerFile.led, r) /\ ClearedIn(ledger, r)
    <3>1. r = e.ret
      BY <2>2 DEF ReceiptInv, Seen, ClearedEntries
    <3>2. e.ret.gen \in Int /\ want.ack \in Int /\ r.gen > want.ack
      BY <3>1, DesiredIsSeen, Numbers DEF TypeInv, PlatformOK, Document, Snapshots, Generations,
         Absent, Retirements
    <3>3. e \in ledgerFile.led.entries /\ e \in ledger.entries
      BY <1>2, <3>1, <3>2 DEF ReceiptInv, ClearedEntries
    <3>4. e = [ret |-> r, cleared |-> TRUE]
      BY <3>1 DEF ClearedEntries, LedgerInv, Sound, Ledgers, Entries
    <3> QED
      BY <3>3, <3>4 DEF ClearedIn
  <2> QED
    BY <1>2, <2>1, <2>2 DEF ReceiptInv
<1>3. CASE Platform
  BY <1>1, <1>3, WantMoves DEF Platform, PlatformArm, PlatformAdd, PlatformAcknowledge,
     PlatformRemove, PlatformBackup, PlatformRestore, Desire, NoRestore
<1> QED
  BY <1>1, <1>2, <1>3, PlatformWriters DEF platformVars, Deliver, Healthy

LEMMA ReceiptStep ==
    ASSUME NoRestore, NoLoss, TypeInv, TypeInv', ControlInv, LedgerInv, CurrentInv, ReceiptInv,
           Next
    PROVE  ReceiptInv'
<1>1. CASE want' # want \/ issued' # issued
  <2>1. Platform /\ Quiet /\ receipts' = receipts /\ WantGrows
    BY <1>1, WantMoves, PlatformGrows DEF CurrentInv
  <2> QED
    BY <2>1, ReceiptPlatform
<1> SUFFICES ASSUME want' = want, issued' = issued
             PROVE  ReceiptInv'
  BY <1>1
<1>2. /\ \A x \in receipts' : Spent(want, issued, x)
      /\ \A r \in want.retirements :
            r.rid \in receipts' => /\ ClearedIn(ledgerFile.led, r)
                                   /\ Healthy => ClearedIn(ledger, r)
  BY ReceiptDeliver DEF CurrentInv
<1>3. /\ Sound(ledger) /\ Sound(ledgerFile.led) /\ NewLedger.entries = {}
      /\ \A e \in ledger.entries : e.ret.gen \in Int
      /\ want.ack \in Int /\ job.snap.ack \in Int
      /\ \A r \in want.retirements : r.gen \in Int /\ r.gen > want.ack
  BY Numbers, DesiredIsSeen DEF LedgerInv, Sound, Ledgers, Entries, Retirements, TypeInv, JobOK, Jobs,
     Snapshots, Generations, NewLedger, PlatformOK, Document, Absent
<1>4. pc' = "persist" => /\ job'.snap.ack <= want.ack
                         /\ \A r \in job'.snap.retirements : Seen(want, issued, r)
  <2> SUFFICES ASSUME pc' = "persist"
               PROVE  /\ job'.snap.ack <= want.ack
                      /\ \A r \in job'.snap.retirements : Seen(want, issued, r)
    OBVIOUS
  <2>1. CASE Boot
    BY <2>1, BootEffects DEF Quarantined, Restoring, Emptying
  <2>2. CASE Work
    BY <2>2, WorkEffects DEF Fail, Finish, Continue
  <2>3. CASE Start
    BY <2>3, <1>3, DesiredIsSeen DEF Start
  <2>4. CASE UNCHANGED <<pc, job, ledger, ledgerLost, appliedVars>>
    BY <2>4 DEF ReceiptInv
  <2> QED
    BY <2>1, <2>2, <2>3, <2>4, JobWriters DEF LoseMemory
<1> DEFINE Kept5(l) == \A r \in want.retirements : r.rid \in receipts' => ClearedIn(l, r)
           OnDisk(l, d) == \A e \in ClearedEntries(l) : e \in d.entries \/ e.ret.gen <= want.ack
           AllSeen(l) == \A e \in l.entries : Seen(want, issued, e.ret)
<1>5. /\ AllSeen(ledger) /\ AllSeen(ledgerFile.led) /\ AllSeen(NewLedger)
      /\ Kept5(ledgerFile.led) /\ (Healthy => Kept5(ledger))
      /\ Healthy => OnDisk(ledger, ledgerFile.led)
      /\ \A l : OnDisk(l, l)
  BY <1>2, <1>3 DEF ReceiptInv, ClearedEntries
<1> SUFFICES /\ ledgerFile'.state # "corrupt" /\ AllSeen(ledgerFile'.led) /\ AllSeen(ledger')
             /\ Kept5(ledgerFile'.led)
             /\ Healthy' => Kept5(ledger') /\ OnDisk(ledger', ledgerFile'.led)
  BY <1>2, <1>4 DEF ReceiptInv
<1>6. CASE Boot
  <2>1. /\ Quarantined \/ Restoring \/ Emptying
        /\ ledgerFile' \in {ledgerFile, Stored(LoadedLedger)}
    BY <1>6, BootEffects
  <2>2. LoadedLedger = ledgerFile.led
    BY LoadedFromFile DEF ReceiptInv
  <2>3. ledgerFile'.led = ledgerFile.led /\ ledgerFile'.state # "corrupt"
    BY <2>1, <2>2 DEF Stored, ReceiptInv
  <2>4. /\ ledger' \in {NewLedger, ledgerFile.led}
        /\ Healthy' => ledger' = ledgerFile.led
    BY <2>1, <2>2, RestoreKeepsLedger DEF Quarantined, Emptying, Healthy
  <2> HIDE DEF Kept5, OnDisk, AllSeen
  <2> QED
    BY <1>5, <2>3, <2>4
<1>7. CASE PersistLedger
  <2> DEFINE n == Prepared(ledger, job.snap)
  <2>1. /\ Healthy /\ pc = "persist" /\ PrepareOK(ledger, job.snap)
        /\ Stored(n).led = n /\ Stored(n).state = "ok"
        /\ ledgerFile' \in {ledgerFile, Stored(n)} /\ ledger' \in {ledger, n}
        /\ ledger' = n => ledgerFile' = Stored(n) \/ n = ledger
    BY <1>7 DEF PersistLedger, Healthy, ControlInv, LedgerInv, Stored
  <2>2. AllSeen(n)
    BY <1>5, <2>1, PreparedEntries DEF ReceiptInv
  <2>3. \A e \in ledger.entries : e \in n.entries \/ e.ret.gen <= want.ack
    BY <1>3, <2>1, PreparedKeeps DEF ReceiptInv
  <2>4. Kept5(n)
    <3> SUFFICES ASSUME NEW r \in want.retirements, r.rid \in receipts'
                 PROVE  [ret |-> r, cleared |-> TRUE] \in n.entries
      BY DEF ClearedIn
    <3>1. [ret |-> r, cleared |-> TRUE] \in ledger.entries
      BY <1>5, <2>1 DEF ClearedIn
    <3> QED
      BY <1>3, <2>3, <3>1
  <2>5. OnDisk(ledger, n)
    BY <2>3 DEF ClearedEntries
  <2> HIDE DEF n, Kept5, OnDisk, AllSeen
  <2> QED
    BY <1>5, <2>1, <2>2, <2>4, <2>5 DEF ReceiptInv
<1>8. CASE RecordCleared
  <2> DEFINE n == Clear(ledger, {r.rid : r \in ToClear})
  <2>1. /\ Healthy /\ Stored(n).led = n /\ Stored(n).state = "ok"
        /\ ledgerFile' \in {ledgerFile, Stored(n)} /\ ledger' \in {ledger, n}
        /\ ledger' = n => ledgerFile' = Stored(n) \/ n = ledger
    BY <1>8 DEF RecordCleared, Reverted, Healthy, ControlInv, Stored
  <2>2. AllSeen(n)
    BY <1>3, <1>5, ClearedRets DEF Outstanding
  <2>3. \A e \in ledger.entries : e.cleared => e \in n.entries
    BY <1>3, ClearKeepsCleared
  <2>4. Kept5(n) /\ OnDisk(ledger, n)
    BY <1>5, <2>1, <2>3 DEF ClearedIn, ClearedEntries
  <2> HIDE DEF n, Kept5, OnDisk, AllSeen
  <2> QED
    BY <1>5, <2>1, <2>2, <2>4 DEF ReceiptInv
<1>9. CASE LoseMemory /\ UNCHANGED diskVars
  BY <1>5, <1>9 DEF LoseMemory, diskVars, Healthy, ReceiptInv
<1>10. CASE UNCHANGED <<ledger, ledgerFile>> /\ ~Boot
  <2>1. Healthy' => Healthy
    BY <1>10, StepCases, WorkEffects DEF Quiet, Lose, LoseMemory, OneShot, OneShotApply,
       agentVars, Start, Fail, Finish, Continue, Healthy
  <2> HIDE DEF Kept5, OnDisk, AllSeen
  <2> QED
    BY <1>5, <1>10, <2>1 DEF ReceiptInv
<1> QED
  BY <1>6, <1>7, <1>8, <1>9, <1>10, LedgerWriters DEF Lose, NoLoss

(***************************************************************************)
(* A receipt the platform holds survives the relay: whatever crashes or    *)
(* fails, the ledger on disk has its retirement as cleared until the       *)
(* platform acknowledges it.                                               *)
(***************************************************************************)
THEOREM ReceiptsSurvive == ASSUME NoRestore, NoLoss PROVE Spec => []ReceiptsDurable
<1>1. CoreInv /\ ReceiptInv /\ [Next]_vars => ReceiptInv'
  <2>1. CASE UNCHANGED vars
    BY <2>1 DEF vars, kernelVars, diskVars, agentVars, platformVars, ReceiptInv, Healthy
  <2> QED
    BY <2>1, ReceiptStep, TypeStep DEF CoreInv
<1>2. ReceiptInv => ReceiptsDurable
  BY DEF ReceiptInv, ReceiptsDurable, ClearedIn
<1> QED
  BY <1>1, <1>2, ReceiptInit, CoreInvariant, PTL DEF Spec

-----------------------------------------------------------------------------
(***************************************************************************)
(* What is installed against what is reported.  Every document on its way  *)
(* is the desired state or an older one, so a cycle never applies less     *)
(* than what is held; a job in which the apply succeeded has its plan in   *)
(* the table; and the table is that of the last applied document while it  *)
(* is the desired one, or while there is no error to report.               *)
(***************************************************************************)
Circulating ==
    /\ NotAhead(want, NoSnapshot) /\ NotAhead(want, job.snap)
    /\ NotAhead(want, lastApplied) /\ NotAhead(want, snapFile.snap)

Forward ==
    /\ job.kind = "cycle" => appliedGen <= job.snap.gen
    /\ pc = "persist" => Prepared(ledger, job.snap).armed

PlanInstalled ==
    table.present /\ (Installed \/ (pc = "snap" /\ ~ledger.armed))
        => table.rules = Plan(job.snap)

HeldWhole ==
    Healthy /\ applied /\ table.present
    /\ (appliedGen = want.gen \/ (pc = "idle" /\ ~lastErr))
        => table.rules = Plan(lastApplied)

ReportInv == Circulating /\ Forward /\ PlanInstalled /\ HeldWhole

LEMMA ReportInit == Init => ReportInv
<1>1. Idle.snap = NoSnapshot /\ NoSnapFile.snap = NoSnapshot /\ NoSnapshot.gen = 0
      /\ Idle.kind = "none"
  BY DEF Idle, NoSnapFile, NoSnapshot
<1> QED
  BY <1>1 DEF Init, ReportInv, Circulating, NotAhead, Forward, PlanInstalled, HeldWhole,
     Healthy, Installed

LEMMA CirculatingStep ==
    ASSUME NoRestore, NoOneShot, TypeInv, CurrentInv, Circulating, Next
    PROVE  Circulating'
<1>1. /\ Idle.snap = NoSnapshot /\ NoSnapFile.snap = NoSnapshot
      /\ Saved(job.snap).snap = job.snap
  BY DEF Idle, NoSnapFile, Saved
<1>2. /\ want.gen \in Nat /\ job.snap.gen \in Nat /\ lastApplied.gen \in Nat
      /\ snapFile.snap.gen \in Nat /\ NoSnapshot.gen \in Nat
  BY Numbers, NoSnapshotType DEF TypeInv, PlatformOK, Document, JobOK, MemoryOK, DiskOK,
     WellFormed, Snapshots
<1>3. CASE Quiet /\ want'.gen = want.gen + 1
  <2>1. UNCHANGED <<job, snapFile, lastApplied>>
    BY <1>3 DEF Quiet, appliedVars
  <2> QED
    BY <1>2, <1>3, <2>1 DEF Circulating, NotAhead
<1> SUFFICES ASSUME want' = want
             PROVE  Circulating'
  BY <1>3, WantMoves DEF CurrentInv
<1>4. NotAhead(want, want)
  BY <1>2 DEF NotAhead
<1> DEFINE Docs == {NoSnapshot, job.snap, lastApplied, snapFile.snap, want}
<1>5. job'.snap \in Docs /\ lastApplied' \in Docs
  <2>1. CASE Boot
    <3>1. Quarantined \/ Restoring \/ Emptying
      BY <2>1, BootEffects
    <3>2. job'.snap \in {job.snap, snapFile.snap, NoSnapshot} /\ UNCHANGED appliedVars
      BY <3>1 DEF Quarantined, Restoring, Emptying
    <3> QED
      BY <3>2 DEF appliedVars
  <2>2. CASE Work
    BY <1>1, <2>2, WorkEffects DEF Fail, Finish, Continue, appliedVars
  <2>3. CASE Start
    BY <2>3 DEF Start, appliedVars
  <2>4. CASE LoseMemory
    BY <1>1, <2>4 DEF LoseMemory
  <2> QED
    BY <2>1, <2>2, <2>3, <2>4, JobWriters DEF appliedVars
<1>6. snapFile'.snap \in Docs
  BY <1>1, SnapWriters DEF NoOneShot
<1>7. \A s \in Docs : NotAhead(want, s)
  BY <1>4 DEF Circulating
<1> QED
  BY <1>5, <1>6, <1>7 DEF Circulating

(***************************************************************************)
(* The error of the last report is withdrawn only by a job that succeeds,  *)
(* or where the desired generation is the applied one.                     *)
(***************************************************************************)
LEMMA ErrorWithdrawn ==
    ASSUME Next, ~Work, pc' # "down"
    PROVE  lastErr' = lastErr \/ lastErr' = TRUE \/ (want.gen = appliedGen /\ want' = want)
<1>1. CASE Boot
  BY <1>1 DEF Boot, BootLost, BootUnreadable, BootRefused, BootRestore, BootEmpty,
     EnterQuarantine
<1>2. CASE Sync
  BY <1>2 DEF Sync, Answered, SyncUnchanged, SyncRefused, SyncConverged, SyncChanged, Converged,
     QuarantineCycle, SyncFails, SyncMalformed, Poll, Deliver, agentVars
<1>3. CASE Adversity
  BY <1>3 DEF Adversity, Crash, HostReboot, WipeTable, DamageLedger, OneShotApply, LoseMemory,
     agentVars
<1>4. CASE Traffic
  BY <1>4 DEF Traffic, PacketArrives, PacketConfirmed, FlowEnds, agentVars
<1>5. CASE Platform
  BY <1>5 DEF Platform, PlatformArm, PlatformAdd, PlatformAcknowledge, PlatformRemove,
     PlatformBackup, PlatformRestore, Desire, agentVars
<1> QED
  BY <1>1, <1>2, <1>3, <1>4, <1>5 DEF Next

LEMMA ForwardStep ==
    ASSUME TypeInv, ControlInv, CurrentInv, ReportInv, Next
    PROVE  Forward'
<1>1. Idle.kind = "none"
  BY DEF Idle
<1>2. CASE Boot
  <2>1. pc = "down" /\ (Quarantined \/ Restoring \/ Emptying)
    BY <1>2, BootEffects
  <2>2. job'.kind \in {"none", "boot", "bootEmpty"} /\ pc' # "persist"
    BY <2>1 DEF Quarantined, Restoring, Emptying, ControlInv
  <2> QED
    BY <2>2 DEF Forward
<1>3. CASE Work
  BY <1>1, <1>3, WorkEffects DEF Fail, Finish, Continue, appliedVars, Forward, ReportInv
<1>4. CASE Start
  BY <1>4 DEF Start, appliedVars, Forward, ReportInv, Circulating, NotAhead, CurrentInv
<1>5. CASE UNCHANGED <<pc, job, ledger, ledgerLost, appliedVars>>
  BY <1>5 DEF appliedVars, Forward, ReportInv
<1>6. CASE LoseMemory
  BY <1>1, <1>6 DEF LoseMemory, Forward
<1> QED
  BY <1>2, <1>3, <1>4, <1>5, <1>6, JobWriters

LEMMA NoTablePresent == NoTable.present = FALSE
  BY DEF NoTable

LEMMA PlanInstalledStep ==
    ASSUME NoOneShot, ControlInv, ReportInv, Next
    PROVE  PlanInstalled'
<1> SUFFICES ASSUME table'.present, pc' # "idle", pc' # "apply", pc' # "down",
                    pc' \in {"verify", "clear", "record"} \/ (pc' = "snap" /\ ~ledger'.armed)
             PROVE  table'.rules = Plan(job'.snap)
  BY DEF PlanInstalled, Installed
<1>1. CASE PersistLedger
  BY <1>1 DEF PersistLedger, Continue, Fail, ReportInv, Forward
<1>2. CASE PersistSnapshot
  BY <1>2 DEF PersistSnapshot, Continue, Fail, Finish
<1>3. CASE ApplyTable
  BY <1>3, OtherTables DEF ApplyTable, Continue, Fail, Finish
<1>4. CASE VerifyTable \/ ClearConntrack
  BY <1>4 DEF VerifyTable, ClearConntrack, Continue, Fail, kernelVars, ReportInv, PlanInstalled,
     Installed
<1>5. CASE RecordCleared
  BY <1>5 DEF RecordCleared, Fail, Finish
<1>6. CASE UNCHANGED <<pc, job, ledger, ledgerLost, appliedVars>> /\ ~ApplyTable
  <2>1. table' = table
    BY <1>6, TableWriters, NoTablePresent DEF OneShotTable, NoOneShot, ControlInv
  <2> QED
    BY <1>6, <2>1 DEF ReportInv, PlanInstalled, Installed
<1>7. CASE Boot
  BY <1>7, BootEffects DEF Quarantined, Restoring, Emptying
<1>8. CASE Start \/ LoseMemory
  BY <1>8 DEF Start, LoseMemory
<1> QED
  BY <1>1, <1>2, <1>3, <1>4, <1>5, <1>6, <1>7, <1>8, JobWriters DEF Work

(***************************************************************************)
(* A step of a job: a success installs what it reports; a failure leaves   *)
(* an error, and where the applied generation is the desired one, it has   *)
(* applied the same document.                                              *)
(***************************************************************************)
LEMMA SamePlan ==
    ASSUME TypeInv, ControlInv, CurrentInv, ReportInv, pc \notin {"down", "idle"}, applied,
           appliedGen = want.gen
    PROVE  job.snap = lastApplied
<1>1. want.gen \in Nat /\ job.snap.gen \in Nat /\ lastApplied.gen \in Nat /\ job \in Jobs
  BY Numbers DEF TypeInv, PlatformOK, Document, JobOK, MemoryOK, WellFormed, Snapshots, Jobs
<1>2. CASE job.kind = "cycle"
  <2>1. job.snap.gen = want.gen
    BY <1>1, <1>2 DEF ReportInv, Forward, Circulating, NotAhead
  <2> QED
    BY <2>1 DEF ReportInv, Circulating, NotAhead, CurrentInv
<1>3. CASE job.kind = "assert"
  BY <1>3 DEF ControlInv
<1> QED
  BY <1>1, <1>2, <1>3 DEF ControlInv, Jobs

LEMMA HeldWork ==
    ASSUME TypeInv, ControlInv, CurrentInv, ReportInv, Work
    PROVE  HeldWhole'
<1> SUFFICES ASSUME applied', table'.present,
                    appliedGen' = want'.gen \/ (pc' = "idle" /\ ~lastErr')
             PROVE  table'.rules = Plan(lastApplied')
  BY DEF HeldWhole
<1>1. Healthy /\ pc \notin {"down", "idle"} /\ want' = want
  BY WorkEffects DEF Healthy, ControlInv
<1>2. CASE Finish /\ ~Fail
  <2>1. lastApplied' = job.snap
    BY <1>2 DEF Finish, appliedVars, ControlInv
  <2>2. CASE ApplyTable
    BY <1>2, <2>1, <2>2, OtherTables DEF ApplyTable
  <2>3. CASE PersistSnapshot
    <3>1. pc = "snap" /\ table' = table /\ ~ledger.armed
      BY <1>2, <2>3 DEF PersistSnapshot, Finish, Continue, kernelVars
    <3> QED
      BY <2>1, <3>1 DEF ReportInv, PlanInstalled
  <2>4. CASE RecordCleared
    BY <1>2, <2>1, <2>4 DEF RecordCleared, kernelVars, ReportInv, PlanInstalled, Installed
  <2> QED
    BY <1>2, <2>2, <2>3, <2>4 DEF Work, PersistLedger, VerifyTable, ClearConntrack, Continue,
       Finish
<1>3. CASE UNCHANGED appliedVars /\ appliedGen = want.gen
  <2>1. applied /\ lastApplied' = lastApplied /\ job.snap = lastApplied
    BY <1>1, <1>3, SamePlan DEF appliedVars
  <2>2. table' = table \/ table' = Rendered
    BY DEF Work, PersistLedger, PersistSnapshot, ApplyTable, VerifyTable, ClearConntrack,
       RecordCleared, kernelVars
  <2> QED
    BY <1>1, <1>3, <2>1, <2>2, OtherTables DEF ReportInv, HeldWhole
<1> QED
  BY <1>1, <1>2, <1>3, WorkEffects DEF Fail, Continue, appliedVars

LEMMA HeldStep ==
    ASSUME NoRestore, NoOneShot, TypeInv, ControlInv, CurrentInv, ReportInv, Next
    PROVE  HeldWhole'
<1>1. CASE Work
  BY <1>1, HeldWork
<1>2. CASE Boot
  <2>1. ~applied'
    BY <1>2, BootEffects DEF Quarantined, Restoring, Emptying, appliedVars, ControlInv
  <2> QED
    BY <2>1 DEF HeldWhole
<1>3. CASE LoseMemory
  BY <1>3 DEF LoseMemory, HeldWhole
<1>4. CASE Start
  BY <1>4 DEF Start, appliedVars, HeldWhole, ReportInv, Healthy
<1>5. CASE UNCHANGED <<pc, job, ledger, ledgerLost, appliedVars>> /\ ~Work
  <2> SUFFICES ASSUME Healthy', applied', table'.present,
                      appliedGen' = want'.gen \/ (pc' = "idle" /\ ~lastErr')
               PROVE  table'.rules = Plan(lastApplied')
    BY DEF HeldWhole
  <2>1. Healthy /\ applied /\ UNCHANGED <<pc, appliedGen, lastApplied>>
    BY <1>5 DEF Healthy, appliedVars
  <2>2. table' = table
    BY <1>5, <2>1, TableWriters, NoTablePresent DEF OneShotTable, NoOneShot, Healthy, Work
  <2>3. appliedGen = want.gen \/ (pc = "idle" /\ ~lastErr)
    <3>1. want.gen \in Nat /\ appliedGen \in Nat /\ appliedGen <= want.gen /\ lastErr \in BOOLEAN
      BY Numbers DEF TypeInv, PlatformOK, Document, MemoryOK, Snapshots, ReportInv,
         Circulating, NotAhead, CurrentInv
    <3>2. want' = want \/ want'.gen = want.gen + 1
      BY WantMoves DEF CurrentInv
    <3>3. appliedGen' = want'.gen => appliedGen = want.gen
      BY <2>1, <3>1, <3>2
    <3>4. pc' # "down"
      BY DEF Healthy
    <3> QED
      BY <1>5, <2>1, <3>3, <3>4, ErrorWithdrawn
  <2> QED
    BY <2>1, <2>2, <2>3 DEF ReportInv, HeldWhole
<1> QED
  BY <1>1, <1>2, <1>3, <1>4, <1>5, JobWriters

(***************************************************************************)
(* An agent that reports a generation and no error, with its table in      *)
(* place, holds exactly the rules of that generation, whatever failed,     *)
(* crashed, or was wiped and put back on the way.                          *)
(***************************************************************************)
THEOREM CleanReportsTrue == ASSUME NoRestore, NoOneShot PROVE Spec => []CleanReportIsTrue
<1>1. CoreInv /\ ReportInv /\ [Next]_vars => ReportInv'
  <2>1. CASE UNCHANGED vars
    BY <2>1 DEF vars, kernelVars, diskVars, agentVars, platformVars, ReportInv, Circulating,
       Forward, PlanInstalled, HeldWhole, Healthy, Installed
  <2>2. CASE CoreInv /\ ReportInv /\ Next
    <3>1. Circulating'
      BY <2>2, CirculatingStep DEF CoreInv, ReportInv
    <3> QED
      BY <2>2, <3>1, ForwardStep, PlanInstalledStep, HeldStep DEF CoreInv, ReportInv
  <2> QED
    BY <2>1, <2>2
<1>2. CoreInv /\ ReportInv => CleanReportIsTrue
  BY DEF CoreInv, CurrentInv, ReportInv, HeldWhole, Healthy, CleanReportIsTrue
<1> QED
  BY <1>1, <1>2, ReportInit, CoreInvariant, PTL DEF Spec
=============================================================================
