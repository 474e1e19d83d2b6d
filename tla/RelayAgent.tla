----------------------------- MODULE RelayAgent -----------------------------
(***************************************************************************)
(* One relay: the agent process (internal/agent), its two files, the       *)
(* kernel it programs, the platform it polls, and everything that happens  *)
(* to them in between.                                                     *)
(*                                                                         *)
(* A poll cycle or a boot is cut into steps at each effect that survives   *)
(* the process: the ledger rename, the snapshot rename, the table replace, *)
(* the readback, the conntrack deletion.  Between two of them the agent    *)
(* may die, the table may be wiped, packets move and the platform changes  *)
(* its mind.  The decision part of a cycle (report, answer, Parse,         *)
(* Prepare, Zero, presence check) has no such effect and is one step.      *)
(*                                                                         *)
(* Time is abstracted: the ticker and the immediate follow-up cycle are    *)
(* both the next poll, and the age of the persisted snapshot is a verdict  *)
(* chosen at boot.  FaultBudget bounds crashes, failing calls and          *)
(* tampering together; failed polls are not bounded.                       *)
(***************************************************************************)
EXTENDS RelayKernel

CONSTANTS
    KeyOf, TargetOf,     \* the tuple the platform gives to each epoch
    AnyOption,           \* the option value the platform uses
    FaultBudget,
    LossAllowed,         \* may the ledger file be lost or damaged?
    Restores,            \* may the platform restore its database?
    OneShotFiles         \* snapshots an operator may give to `apply`

ASSUME PlatformAssumption ==
    /\ KeyOf \in [1..MaxID -> ValidKeys]
    /\ TargetOf \in [1..MaxID -> ValidTargets \cap CanonicalTargets]
    /\ AnyOption \in ValidOptions
    /\ MaxMark >= MaxID
    /\ 1..MaxID \subseteq RetirementIDs
    /\ FaultBudget \in Nat
    /\ LossAllowed \in BOOLEAN /\ Restores \in BOOLEAN
    /\ OneShotFiles \subseteq Snapshots

VARIABLES
    table, flows, inflight,                              \* kernel
    ledgerFile, snapFile,                                \* disk
    pc, job, ledger, ledgerLost, applied, appliedGen,
    lastApplied, lastErr, bootFailed,                    \* agent memory
    want, issued, known, receipts, backup,               \* platform
    faults                                               \* adversity so far

kernelVars == <<table, flows, inflight>>
diskVars == <<ledgerFile, snapFile>>
agentVars == <<pc, job, ledger, ledgerLost, applied, appliedGen, lastApplied,
               lastErr, bootFailed>>
appliedVars == <<applied, appliedGen, lastApplied>>
platformVars == <<want, issued, known, receipts, backup>>
vars == <<kernelVars, diskVars, agentVars, platformVars, faults>>

-----------------------------------------------------------------------------
(***************************************************************************)
(* A nil snapshot and an empty one at generation 0 are treated alike by    *)
(* the code: no rules, generation 0.                                       *)
(***************************************************************************)
NoSnapshot ==
    [gen |-> 0, mappings |-> {}, managed |-> FALSE, retirements |-> {},
     ack |-> Absent]

Jobs == [kind : {"none", "boot", "bootEmpty", "cycle", "assert", "retry"},
         snap : Snapshots]
Idle == [kind |-> "none", snap |-> NoSnapshot]

LedgerFiles == [state : {"none", "ok", "corrupt"}, led : Ledgers]
NoLedgerFile == [state |-> "none", led |-> NewLedger]
Stored(l) == [state |-> "ok", led |-> l]

SnapFiles == [exists : BOOLEAN, snap : Snapshots]
NoSnapFile == [exists |-> FALSE, snap |-> NoSnapshot]
Saved(s) == [exists |-> TRUE, snap |-> s]

Backups == [state : {"none", "taken", "used"}, want : Snapshots,
            issued : IDs, known : IDs, receipts : SUBSET RetirementIDs]

Init ==
    /\ table = NoTable /\ flows = {} /\ inflight = {}
    /\ ledgerFile = NoLedgerFile /\ snapFile = NoSnapFile
    /\ pc = "down" /\ job = Idle
    /\ ledger = NewLedger /\ ledgerLost = FALSE
    /\ applied = FALSE /\ appliedGen = 0 /\ lastApplied = NoSnapshot
    /\ lastErr = FALSE /\ bootFailed = FALSE
    /\ want = NoSnapshot /\ issued = 0 /\ known = 0 /\ receipts = {}
    /\ backup = [state |-> "none", want |-> NoSnapshot, issued |-> 0,
                 known |-> 0, receipts |-> {}]
    /\ faults = 0

Fault == faults < FaultBudget /\ faults' = faults + 1
NoFault == UNCHANGED faults

-----------------------------------------------------------------------------
(***************************************************************************)
(* BootReapply and loadLedger.  The verdict on the persisted snapshot is   *)
(* fresh (young enough to restore), stale (parsed, but too old or from the *)
(* future) or invalid (does not parse under the current limits).           *)
(***************************************************************************)
Verdicts == {"fresh", "stale", "invalid"}

(* seeded fault: a start without a snapshot begins a new ledger *)
LoadedLedgerForgets ==
    IF ledgerFile.state = "ok" /\ snapFile.exists
    THEN ledgerFile.led ELSE NewLedger

LoadedLedger == IF ledgerFile.state = "ok" THEN ledgerFile.led ELSE NewLedger

LegacyUnproven(v) ==
    \/ snapFile.exists /\ (v = "invalid" \/ snapFile.snap.managed)
    \/ HasManagedState(table)

LedgerUnusable(v) ==
    \/ ledgerFile.state = "corrupt"
    \/ ledgerFile.state = "none" /\ LegacyUnproven(v)

Restorable(v) == snapFile.exists /\ v = "fresh"

WouldCompact(l, s) == s.managed /\ s.ack # l.ackHW

(* seeded fault: the restored snapshot is not checked against the ledger *)
SnapshotRefusedNever(l, s) == FALSE

SnapshotRefused(l, s) == WouldCompact(l, s) \/ ~PrepareOK(l, s)

EnterQuarantine(l) ==
    /\ pc' = "idle"
    /\ ledger' = l /\ ledgerLost' = TRUE
    /\ lastErr' = TRUE /\ bootFailed' = TRUE
    /\ UNCHANGED <<job, appliedVars>>

EnsureQuarantine ==
    \/ table' = Quarantine /\ NoFault
    \/ table' = table /\ Fault

BootLost(v) ==
    /\ pc = "down"
    /\ LedgerUnusable(v)
    /\ EnterQuarantine(NewLedger)
    /\ EnsureQuarantine
    /\ UNCHANGED <<flows, inflight, diskVars, platformVars>>

(***************************************************************************)
(* A read of the ledger, the inspection of the kernel or the first persist *)
(* of a new ledger fails.                                                  *)
(***************************************************************************)
BootUnreadable(v) ==
    /\ pc = "down"
    /\ ~LedgerUnusable(v)
    /\ EnterQuarantine(NewLedger)
    /\ table' \in {table, Quarantine} /\ Fault
    /\ ledgerFile' \in {ledgerFile, Stored(LoadedLedger)}
    /\ UNCHANGED <<flows, inflight, snapFile, platformVars>>

BootRefused(v) ==
    /\ pc = "down"
    /\ ~LedgerUnusable(v) /\ Restorable(v)
    /\ SnapshotRefused(LoadedLedger, snapFile.snap)
    /\ EnterQuarantine(LoadedLedger)
    /\ EnsureQuarantine
    /\ ledgerFile' = Stored(LoadedLedger)
    /\ UNCHANGED <<flows, inflight, snapFile, platformVars>>

BootRestore(v) ==
    /\ pc = "down"
    /\ ~LedgerUnusable(v) /\ Restorable(v)
    /\ ~SnapshotRefused(LoadedLedger, snapFile.snap)
    /\ pc' = "apply"
    /\ job' = [kind |-> "boot", snap |-> snapFile.snap]
    /\ ledger' = Prepared(LoadedLedger, snapFile.snap)
    /\ ledgerFile' = Stored(LoadedLedger)
    /\ UNCHANGED <<kernelVars, snapFile, ledgerLost, appliedVars, lastErr,
                   bootFailed, platformVars, faults>>

(***************************************************************************)
(* No snapshot to restore: the file is removed (an error of the removal is *)
(* ignored) and the empty set applied.                                     *)
(***************************************************************************)
BootEmpty(v) ==
    /\ pc = "down"
    /\ ~LedgerUnusable(v) /\ ~Restorable(v)
    /\ pc' = "apply"
    /\ job' = [kind |-> "bootEmpty", snap |-> NoSnapshot]
    /\ ledger' = LoadedLedger
    /\ ledgerFile' = Stored(LoadedLedger)
    /\ \/ snapFile' = NoSnapFile /\ NoFault
       \/ snapFile' = snapFile /\ snapFile.exists /\ Fault
    /\ UNCHANGED <<kernelVars, ledgerLost, appliedVars, lastErr, bootFailed,
                   platformVars>>

-----------------------------------------------------------------------------
(***************************************************************************)
(* One poll.  The report carries the high-water marks and the receipts of  *)
(* the cleared entries; a packet in flight when the poll starts has        *)
(* reached conntrack when its answer is handled.                           *)
(***************************************************************************)
Deliver ==
    /\ known' = Max({known, ledger.idHW})
    /\ receipts' = receipts \cup {e.ret.rid : e \in ClearedEntries(ledger)}
    /\ UNCHANGED <<want, issued, backup>>

(* A quarantined agent does not claim the retirement capability, and a     *)
(* report without it is sent without the ledger fields.                    *)
DeliverNothing == UNCHANGED platformVars

Settle == flows' = flows \cup inflight /\ inflight' = {}

(* seeded fault: the quarantine check after Sync is missing *)
PollAnyway == pc = "idle" /\ Deliver /\ Settle

Poll == pc = "idle" /\ ~ledgerLost /\ Deliver /\ Settle

StayIdle == UNCHANGED <<pc, job, ledger, ledgerLost, appliedVars, bootFailed>>

StartJob(p, kind, s) ==
    /\ pc' = p
    /\ job' = [kind |-> kind, snap |-> s]
    /\ UNCHANGED <<ledger, ledgerLost, appliedVars, bootFailed>>

(***************************************************************************)
(* The answer is lost after the report arrived (a report that is lost too  *)
(* changes nothing).                                                       *)
(***************************************************************************)
SyncFails ==
    /\ Poll
    /\ StayIdle
    /\ UNCHANGED <<table, diskVars, lastErr, faults>>

(***************************************************************************)
(* A changed answer whose body Parse rejects.                              *)
(***************************************************************************)
SyncMalformed ==
    /\ Poll
    /\ StayIdle
    /\ lastErr' = TRUE
    /\ UNCHANGED <<table, diskVars, faults>>

(* seeded fault: a failed boot converge is never tried again *)
RetriesNever == FALSE

RetriesBoot == bootFailed

(***************************************************************************)
(* ensureAsserted on an unchanged answer: re-apply what was last applied   *)
(* when the table is gone or cannot be inspected, or retry a failed boot.  *)
(***************************************************************************)
SyncUnchanged ==
    /\ Poll
    /\ want.gen = appliedGen
    /\ lastErr' = FALSE
    /\ \/ applied /\ table.present /\ StayIdle /\ NoFault
       \/ applied /\ ~table.present /\ NoFault
            /\ StartJob("apply", "assert", lastApplied)
       \/ applied /\ table.present /\ Fault
            /\ StartJob("apply", "assert", lastApplied)
       \/ ~applied /\ NoFault
            /\ IF RetriesBoot THEN StartJob("apply", "retry", NoSnapshot)
               ELSE StayIdle
    /\ UNCHANGED <<table, diskVars>>

(***************************************************************************)
(* The conntrack Zero check of the entries this snapshot compacts.         *)
(***************************************************************************)
Dropping(l, n) ==
    {e.ret : e \in {o \in l.entries :
        \A k \in n.entries : k.ret.rid # o.ret.rid}}

(* seeded fault: no zero check before a fence is dropped *)
ZeroAssumed(l, n) == TRUE

ZeroOK(l, n) == FlowsOf(flows \cup inflight, Dropping(l, n)) = {}

LedgerChanged(l, n) ==
    \/ n.desired # l.desired \/ n.genHW # l.genHW \/ n.armed # l.armed
    \/ n.idHW # l.idHW \/ n.markHW # l.markHW
    \/ n.retHW # l.retHW \/ n.ackHW # l.ackHW
    \/ Cardinality(n.active) # Cardinality(l.active)
    \/ Cardinality(n.entries) # Cardinality(l.entries)

Converged(s) ==
    /\ applied /\ s.gen = appliedGen
    /\ ~LedgerChanged(ledger, Prepared(ledger, s))
    /\ table.present

AcceptedAnswer(s) ==
    PrepareOK(ledger, s) /\ ZeroOK(ledger, Prepared(ledger, s))

(***************************************************************************)
(* A changed answer: refused by Prepare or by Zero (or Zero itself fails), *)
(* already held, or to be applied.  An armed ledger is persisted first.    *)
(***************************************************************************)
SyncRefused ==
    /\ Poll
    /\ \/ ~AcceptedAnswer(want) /\ NoFault
       \/ AcceptedAnswer(want) /\ Dropping(ledger, Prepared(ledger, want)) # {}
            /\ Fault
    /\ lastErr' = TRUE
    /\ StayIdle
    /\ UNCHANGED <<table, diskVars>>

SyncConverged ==
    /\ Poll
    /\ AcceptedAnswer(want) /\ Converged(want)
    /\ lastErr' = FALSE
    /\ StayIdle
    /\ UNCHANGED <<table, diskVars, faults>>

SyncChanged ==
    /\ Poll
    /\ AcceptedAnswer(want)
    /\ \/ ~Converged(want) /\ NoFault
       \/ Converged(want) /\ Fault
    /\ StartJob(IF Prepared(ledger, want).armed THEN "persist" ELSE "apply",
                "cycle", want)
    /\ UNCHANGED <<table, diskVars, lastErr>>

(***************************************************************************)
(* A poll of a quarantined agent: whatever the answer, only the quarantine *)
(* is asserted again.                                                      *)
(***************************************************************************)
(* seeded fault: the quarantine is only installed at boot *)
QuarantineCycleIdle ==
    /\ pc = "idle" /\ ledgerLost
    /\ DeliverNothing /\ Settle
    /\ UNCHANGED <<table, agentVars, diskVars, faults>>

QuarantineCycle ==
    /\ pc = "idle" /\ ledgerLost
    /\ DeliverNothing /\ Settle
    /\ EnsureQuarantine
    /\ UNCHANGED <<agentVars, diskVars>>

-----------------------------------------------------------------------------
(***************************************************************************)
(* The steps of a job.  Fail is the error return of its caller, Finish the *)
(* code after the successful call.                                         *)
(***************************************************************************)
(* seeded fault: the error of a failed job is not kept for the report *)
FailSilently ==
    /\ pc' = "idle" /\ job' = Idle
    /\ bootFailed' = (bootFailed \/ job.kind \in {"boot", "bootEmpty"})
    /\ UNCHANGED <<lastErr, ledgerLost, appliedVars>>

Fail ==
    /\ pc' = "idle" /\ job' = Idle
    /\ lastErr' = TRUE
    /\ bootFailed' = (bootFailed \/ job.kind \in {"boot", "bootEmpty"})
    /\ UNCHANGED <<ledgerLost, appliedVars>>

Finish ==
    /\ pc' = "idle" /\ job' = Idle
    /\ IF job.kind = "assert"
       THEN UNCHANGED appliedVars
       ELSE /\ applied' = TRUE
            /\ appliedGen' = job.snap.gen
            /\ lastApplied' = job.snap
    /\ bootFailed' = IF job.kind \in {"cycle", "retry"} THEN FALSE ELSE bootFailed
    /\ lastErr' = IF job.kind = "cycle" THEN FALSE ELSE lastErr
    /\ UNCHANGED ledgerLost

Continue(p) ==
    /\ pc' = p
    /\ UNCHANGED <<job, ledgerLost, appliedVars, lastErr, bootFailed>>

(***************************************************************************)
(* A persist that fails leaves the old file, or, when only the directory   *)
(* sync failed, the new one.                                               *)
(***************************************************************************)
PersistLedger ==
    LET n == Prepared(ledger, job.snap) IN
    /\ pc = "persist"
    /\ \/ ledgerFile' = Stored(n) /\ ledger' = n /\ Continue("snap") /\ NoFault
       \/ ledgerFile' \in {ledgerFile, Stored(n)} /\ Fail /\ Fault
            /\ UNCHANGED ledger
    /\ UNCHANGED <<kernelVars, snapFile, platformVars>>

(***************************************************************************)
(* Persist of the snapshot: before the apply of an armed ledger, where a   *)
(* failure aborts the cycle, and after a legacy apply, where it is logged. *)
(***************************************************************************)
PersistSnapshot ==
    /\ pc = "snap"
    /\ \/ /\ snapFile' = Saved(job.snap) /\ NoFault
          /\ IF ledger.armed THEN Continue("apply") ELSE Finish
       \/ /\ snapFile' \in {snapFile, Saved(job.snap)} /\ Fault
          /\ IF ledger.armed THEN Fail ELSE Finish
    /\ UNCHANGED <<kernelVars, ledgerFile, ledger, platformVars>>

(***************************************************************************)
(* apply: replace the table; a legacy ledger is done then.  The error of   *)
(* the netlink batch may arrive although the batch took effect.            *)
(***************************************************************************)
ToClear == {e.ret : e \in Uncleared(ledger)}

(* seeded fault: an entry whose flows are cleared is no longer fenced *)
RenderedUncleared == ApplyManaged(Plan(job.snap), ToClear)

Rendered == ApplyManaged(Plan(job.snap), Outstanding(ledger))

ApplyTable ==
    /\ pc = "apply"
    /\ \/ /\ table' = Rendered /\ NoFault
          /\ IF ledger.armed THEN Continue("verify")
             ELSE IF job.kind = "cycle" THEN Continue("snap") ELSE Finish
       \/ table' \in {table, Rendered} /\ Fail /\ Fault
    /\ UNCHANGED <<flows, inflight, diskVars, ledger, platformVars>>

ReadbackOK == VerifyManaged(table, Plan(job.snap), Outstanding(ledger))

VerifyTable ==
    /\ pc = "verify"
    /\ \/ ReadbackOK /\ Continue("clear") /\ NoFault
       \/ ~ReadbackOK /\ Fail /\ NoFault
       \/ ReadbackOK /\ Fail /\ Fault
    /\ UNCHANGED <<kernelVars, diskVars, ledger, platformVars>>

(***************************************************************************)
(* conntrack Clear of every entry not yet cleared: dump, delete, dump      *)
(* again.  A failure leaves an arbitrary part deleted.                     *)
(***************************************************************************)
ClearConntrack ==
    /\ pc = "clear"
    /\ \/ /\ flows' = flows \ FlowsOf(flows, ToClear)
          /\ Continue("record") /\ NoFault
       \/ /\ ToClear # {}
          /\ \E part \in SUBSET FlowsOf(flows, ToClear) : flows' = flows \ part
          /\ Fail /\ Fault
    /\ UNCHANGED <<table, inflight, diskVars, ledger, platformVars>>

(***************************************************************************)
(* The proofs are recorded in the ledger and persisted.  When that fails   *)
(* the entries in memory are reverted.                                     *)
(***************************************************************************)
(* seeded fault: the revert is missing *)
NotReverted(n) == n

Reverted(n) == ledger

RecordCleared ==
    LET n == Clear(ledger, {r.rid : r \in ToClear}) IN
    /\ pc = "record"
    /\ \/ ledgerFile' = Stored(n) /\ ledger' = n /\ Finish /\ NoFault
       \/ ledgerFile' \in {ledgerFile, Stored(n)} /\ Fail /\ Fault
            /\ ledger' = Reverted(n)
    /\ UNCHANGED <<kernelVars, snapFile, platformVars>>

-----------------------------------------------------------------------------
(***************************************************************************)
(* What happens to the relay from outside.                                 *)
(***************************************************************************)
LoseMemory ==
    /\ pc' = "down" /\ job' = Idle
    /\ ledger' = NewLedger /\ ledgerLost' = FALSE
    /\ applied' = FALSE /\ appliedGen' = 0 /\ lastApplied' = NoSnapshot
    /\ lastErr' = FALSE /\ bootFailed' = FALSE

Crash ==
    /\ pc # "down" /\ Fault
    /\ LoseMemory
    /\ UNCHANGED <<kernelVars, diskVars, platformVars>>

HostReboot ==
    /\ Fault
    /\ LoseMemory
    /\ table' = NoTable /\ flows' = {} /\ inflight' = {}
    /\ UNCHANGED <<diskVars, platformVars>>

(* `nft flush ruleset`, or an nftables restart without the drop-in *)
WipeTable ==
    /\ table.present /\ Fault
    /\ table' = NoTable
    /\ UNCHANGED <<flows, inflight, diskVars, agentVars, platformVars>>

DamageLedger ==
    /\ LossAllowed /\ ledgerFile.state = "ok" /\ Fault
    /\ ledgerFile' \in {NoLedgerFile, [ledgerFile EXCEPT !.state = "corrupt"]}
    /\ UNCHANGED <<kernelVars, snapFile, agentVars, platformVars>>

(***************************************************************************)
(* `relay-agent apply -file`: refuses a managed file, replaces the table   *)
(* and persists the snapshot, without looking at the ledger.               *)
(***************************************************************************)
OneShotApply(s) ==
    /\ Validate(s) /\ ~s.managed
    /\ Fault
    /\ table' = ApplyManaged(Plan(s), {})
    /\ snapFile' \in {snapFile, Saved(s)}
    /\ UNCHANGED <<flows, inflight, ledgerFile, agentVars, platformVars>>

(***************************************************************************)
(* The first packet of a flow passes the DNAT rule and the forward chain;  *)
(* later its conntrack entry is confirmed; some day the flow ends.         *)
(***************************************************************************)
PacketArrives(r) ==
    LET f == FlowOf(r) IN
    /\ f \notin flows \cup inflight
    /\ ~Dropped(table, f)
    /\ inflight' = inflight \cup {f}
    /\ UNCHANGED <<table, flows, diskVars, agentVars, platformVars, faults>>

PacketConfirmed(f) ==
    /\ flows' = flows \cup {f} /\ inflight' = inflight \ {f}
    /\ UNCHANGED <<table, diskVars, agentVars, platformVars, faults>>

FlowEnds(f) ==
    /\ flows' = flows \ {f}
    /\ UNCHANGED <<table, inflight, diskVars, agentVars, platformVars, faults>>

-----------------------------------------------------------------------------
(***************************************************************************)
(* The platform (external).  Each change of the desired state takes the    *)
(* next generation.  Ids and marks are issued in order and never twice,    *)
(* unless its database is restored.  A mapping the relay has reported is   *)
(* removed through a retirement; retirements are acknowledged in order     *)
(* once their receipts arrived.                                            *)
(***************************************************************************)
EpochMapping(e, managed) ==
    [id |-> e, key |-> KeyOf[e], target |-> TargetOf[e], opts |-> AnyOption,
     mark |-> IF managed THEN e ELSE Absent]

Desire(s) ==
    /\ want.gen < MaxGeneration
    /\ want' = [s EXCEPT !.gen = want.gen + 1]
    /\ UNCHANGED <<kernelVars, diskVars, agentVars, known, receipts, backup,
                   faults>>

PlatformArm ==
    /\ ~want.managed
    /\ Desire([want EXCEPT !.managed = TRUE, !.ack = 0,
                           !.mappings = {EpochMapping(m.id, TRUE) : m \in @}])
    /\ UNCHANGED issued

PlatformAdd ==
    /\ issued < MaxID
    /\ \A m \in want.mappings : m.key # KeyOf[issued + 1]
    /\ Desire([want EXCEPT !.mappings =
                    @ \cup {EpochMapping(issued + 1, want.managed)}])
    /\ issued' = issued + 1

RetirementFor(m) ==
    [rid |-> m.id, id |-> m.id, gen |-> want.gen + 1, key |-> m.key,
     target |-> m.target, mark |-> m.mark, hash |-> MappingHash(m)]

PlatformRemove(m) ==
    /\ want.managed => known >= m.id
    /\ Desire([want EXCEPT !.mappings = @ \ {m},
                           !.retirements = IF want.managed
                                           THEN @ \cup {RetirementFor(m)} ELSE @])
    /\ UNCHANGED issued

Acknowledgeable ==
    {r \in want.retirements :
        \A q \in want.retirements : q.gen <= r.gen => q.rid \in receipts}

PlatformAcknowledge ==
    /\ Acknowledgeable # {}
    /\ Desire([want EXCEPT !.retirements = @ \ Acknowledgeable,
                           !.ack = Max({r.gen : r \in Acknowledgeable})])
    /\ UNCHANGED issued

PlatformBackup ==
    /\ Restores /\ backup.state = "none"
    /\ backup' = [state |-> "taken", want |-> want, issued |-> issued,
                  known |-> known, receipts |-> receipts]
    /\ UNCHANGED <<kernelVars, diskVars, agentVars, want, issued, known,
                   receipts, faults>>

PlatformRestore ==
    /\ backup.state = "taken"
    /\ want' = backup.want /\ issued' = backup.issued
    /\ known' = backup.known /\ receipts' = backup.receipts
    /\ backup' = [backup EXCEPT !.state = "used"]
    /\ UNCHANGED <<kernelVars, diskVars, agentVars, faults>>

-----------------------------------------------------------------------------
Boot == \E v \in Verdicts :
    BootLost(v) \/ BootUnreadable(v) \/ BootRefused(v) \/ BootRestore(v)
                \/ BootEmpty(v)

Work == PersistLedger \/ PersistSnapshot \/ ApplyTable \/ VerifyTable
            \/ ClearConntrack \/ RecordCleared

Answered == SyncUnchanged \/ SyncRefused \/ SyncConverged \/ SyncChanged
                \/ QuarantineCycle

Sync == Answered \/ SyncFails \/ SyncMalformed

Adversity == Crash \/ HostReboot \/ WipeTable \/ DamageLedger
                \/ \E s \in OneShotFiles : OneShotApply(s)

Traffic == \/ \E r \in table.rules : PacketArrives(r)
           \/ \E f \in inflight : PacketConfirmed(f)
           \/ \E f \in flows : FlowEnds(f)

Platform == PlatformArm \/ PlatformAdd \/ PlatformAcknowledge
                \/ (\E m \in want.mappings : PlatformRemove(m))
                \/ PlatformBackup \/ PlatformRestore

Next == Boot \/ Work \/ Sync \/ Adversity \/ Traffic \/ Platform

Spec == Init /\ [][Next]_vars

(***************************************************************************)
(* Fairness.  systemd restarts the process, the poll loop never stops, the *)
(* platform answers some poll and acknowledges what it can, and a client's *)
(* connection ends some day.  An HTTP platform sends a body only when its  *)
(* generation is not the reported one, so nothing more is assumed of it.   *)
(***************************************************************************)
FairAnswer ==
    \/ SyncUnchanged \/ QuarantineCycle
    \/ want.gen # appliedGen /\ (SyncRefused \/ SyncChanged)

Fairness ==
    /\ WF_vars(Boot)
    /\ WF_vars(Work)
    /\ WF_vars(FairAnswer)
    /\ WF_vars(PlatformAcknowledge)
    /\ \A k \in 1..MaxMark :
        WF_vars(\E f \in flows : f.mark = k /\ FlowEnds(f))

FairSpec == Spec /\ Fairness

-----------------------------------------------------------------------------
(***************************************************************************)
(* Types; files, memory, table and flows keep their form across every      *)
(* crash, failing call and wipe (a nil flow mark never reaches the table). *)
(***************************************************************************)
TypeOK ==
    /\ table \in Tables /\ flows \subseteq Flows /\ inflight \subseteq Flows
    /\ ledgerFile \in LedgerFiles /\ snapFile \in SnapFiles
    /\ pc \in {"down", "idle", "persist", "snap", "apply", "verify", "clear",
               "record"}
    /\ job \in Jobs /\ ledger \in Ledgers /\ ledgerLost \in BOOLEAN
    /\ applied \in BOOLEAN /\ appliedGen \in Generations
    /\ lastApplied \in Snapshots /\ lastErr \in BOOLEAN /\ bootFailed \in BOOLEAN
    /\ want \in Snapshots /\ issued \in IDs /\ known \in IDs
    /\ receipts \subseteq RetirementIDs /\ backup \in Backups
    /\ faults \in 0..FaultBudget

(***************************************************************************)
(* The ledger that decides: the one in memory while a healthy agent runs,  *)
(* otherwise the one the next start will read.                             *)
(***************************************************************************)
Authority == IF pc = "down" \/ ledgerLost THEN ledgerFile.led ELSE ledger

MarksOf(l) == {a.mark : a \in l.active} \cup {r.mark : r \in Outstanding(l)}

(***************************************************************************)
(* Whatever crashes and fails, the marks live the promised life: a crash   *)
(* between two persists neither frees a mark nor skips a proof.            *)
(***************************************************************************)
Lifecycle == INSTANCE EpochLifecycle WITH
    FlowMarks <- 1..MaxMark,
    life <- [m \in 1..MaxMark |-> LedgerLife(Authority, m)]

ImplementsLifecycle == Lifecycle!Spec

(***************************************************************************)
(* A mark the ledger has forgotten carries no traffic: when an entry is    *)
(* compacted, no flow of its epoch is established or on its way, although  *)
(* a packet may be confirmed after the conntrack Clear.                    *)
(***************************************************************************)
ForgottenIsSilent ==
    \A f \in flows \cup inflight : f.mark = 0 \/ f.mark \in MarksOf(Authority)

(***************************************************************************)
(* Until it is compacted, an entry recorded as cleared is closed in every  *)
(* table the agent installs: fenced, and with no DNAT rule of its mark.    *)
(***************************************************************************)
ClearedIsClosed ==
    table.present =>
        \A e \in ClearedEntries(Authority) :
            /\ Dropped(table, FlowOf(e.ret))
            /\ \A r \in table.rules : r.mark # e.ret.mark

(***************************************************************************)
(* A receipt the platform holds survives the relay: while the platform     *)
(* still lists the retirement, the ledger on disk has it as cleared, so    *)
(* the acknowledgement can be accepted after any crash.                    *)
(***************************************************************************)
ReceiptsDurable ==
    \A r \in want.retirements :
        r.rid \in receipts =>
            [ret |-> r, cleared |-> TRUE] \in ledgerFile.led.entries

(***************************************************************************)
(* An agent that reports a generation and no error, with its table in      *)
(* place, holds exactly the rules of that generation.                      *)
(***************************************************************************)
CleanReportIsTrue ==
    pc = "idle" /\ applied /\ ~lastErr /\ ~ledgerLost /\ table.present
        => table.rules = Plan(lastApplied) /\ appliedGen = lastApplied.gen

(***************************************************************************)
(* DNAT of an epoch is installed only while the ledger has it active.      *)
(***************************************************************************)
NeverReactivated ==
    [][\A r \in table'.rules \ table.rules :
          r.mark = 0 \/ \E a \in ledger.active : a.mark = r.mark]_vars

(***************************************************************************)
(* A quarantined agent installs no DNAT rule until it is restarted.        *)
(***************************************************************************)
QuarantineSticks == [][ledgerLost => table'.rules \subseteq table.rules]_vars

(***************************************************************************)
(* A fence leaves the table only when its entry is compacted: through an   *)
(* acknowledgement and a conntrack zero check.  A wiped table is not the   *)
(* agent's doing, and the quarantine blocks more than the fences did.      *)
(***************************************************************************)
FenceRemovalProven ==
    [][table'.present /\ ~table'.quarantine =>
          \A r \in table.fences \ table'.fences : r \notin Outstanding(Authority')
      ]_vars

(***************************************************************************)
(* Under bounded adversity the relay ends up holding what the platform     *)
(* wants, or in quarantine: no refused snapshot, failed boot or lost       *)
(* answer blocks it for ever.                                              *)
(***************************************************************************)
EventuallyHeld ==
    <>[](ledgerLost \/ /\ applied /\ appliedGen = want.gen
                       /\ table.present /\ table.rules = Plan(want))

(***************************************************************************)
(* No retirement stays outstanding for ever: fenced, cleared, reported,    *)
(* acknowledged, checked for zero and compacted, whatever fails once.  (A  *)
(* platform that has used up the generations of this instance cannot       *)
(* acknowledge.)                                                           *)
(***************************************************************************)
RetirementsComplete ==
    []<>(\/ ledgerLost \/ ledger.entries = {}
         \/ want.retirements # {} /\ want.gen = MaxGeneration)

(***************************************************************************)
(* A lost ledger ends in an installed quarantine.                          *)
(***************************************************************************)
LossIsContained == ledgerLost ~> (table.quarantine \/ pc = "down")
=============================================================================
