# Verification of pickle-relay-agent

TLA+ models, TLC runs and TLAPS proofs for the relay agent: the process that
keeps one nftables table of a relay host equal to the mapping set the platform
wants, and that retires removed mappings so that no old connection survives
into a new tenant's epoch.

## The system

| Part | State | Operations |
|---|---|---|
| Document (`internal/snapshot`) | generation, mappings, retirements, acknowledgement | `Parse`, `Validate`, `DesiredHash`, `Persist`, `LoadPersisted` |
| Ledger (`internal/retirement`) | active epochs, outstanding entries with a cleared flag, five high-water marks | `Load`, `Validate`, `Prepare`, `Clear`, `Persist` |
| Agent (`internal/agent`) | ledger in memory, applied generation and snapshot, last error, boot-failed and ledger-lost flags | `BootReapply`, `cycle`, `apply`, `ensureAsserted`, `retryBootConverge`, `ensureQuarantine` |
| Table (`internal/nftctl`) | the kernel table: DNAT rules, fences, quarantine | `ApplyManaged`, `VerifyManaged`, `ApplyQuarantine`, `HasManagedState`, `Present` |
| Conntrack (`internal/conntrackctl`) | the kernel's flows | `Clear`, `Zero` |
| Source (`internal/source`) | none | `Sync`: report out, document in |
| Command (`cmd/relay-agent`) | none | `run`, `apply` |
| Counters (`internal/agent/counters.go`) | cumulative totals, kernel baseline, report cursor | `Fold`, `MarkReset`, `Prune`, `Snapshot` |
| Source policy (`internal/sourcepolicy`) | optional allowlist of a mapping | `Parse`, JSON in and out, the drop rule |
| Configuration (`internal/config`) | limits, guards, authority, read once | `Load` |
| Scripts, service unit | none | |

One poll sends a report (applied generation, last error, high-water marks,
receipts of the cleared entries) and gets a document. The ledger decides
whether the document is a legal continuation (`Prepare`), conntrack whether a
fence may go (`Zero`), and then come five effects, each of which may fail or be
the last thing the process does: ledger file, snapshot file, table, conntrack
deletion, ledger file again. A start runs the same effects from the files.
Nothing in the agent runs concurrently with itself; what it races with is
packets, crashes, operators (`nft flush`, the `apply` mode, a changed
environment), a failing disk or netlink socket, a clock that is set, and a
platform that may lose answers or restore its database. The one place with two
goroutines is `withConn`: caller, worker and timer.

What makes each part correct:

* ledger: no epoch is lost, shared or revived, whatever documents arrive, and
  none of them leaves a ledger that refuses what a platform in good order sends;
* agent: what it reports is true, what it proved is durable before it is
  reported, a lost ledger blocks traffic, and it always gets unstuck;
* table and conntrack: a retired epoch is closed until its flows are proven
  gone, and no flow outlives the ledger's memory of its mark; a readback that
  passes means the table does what was applied; a conntrack call returns and
  leaves nothing running;
* guards and policy: exactly the admitted sources pass, and floods are bounded
  in the order the rules are evaluated in;
* counters: nothing is counted twice, and every mapping gets into the reports;
* snapshot file: what a start restores is within the limits of that start, and
  a withdrawn mapping comes back only within the age window, whatever clocks do;
* loop: it polls for ever, never spins, and stops when told to.

## Modules

| Module | Content |
|---|---|
| `Snapshot` | the document and `Validate` |
| `RetirementLedger` | the ledger, `Validate`, `Prepare` guard by guard, `Clear` |
| `EpochLifecycle` | abstract promise: a flow mark moves fresh, active, retired, cleared, gone, one stage at a time |
| `LedgerMachine` | the ledger against an arbitrary platform; properties |
| `RelayKernel` | table and flows, with the operations of `nftctl` and `conntrackctl` |
| `RelayAgent` | the composition: agent, files, kernel, platform, adversity; properties |
| `SyncLoop` | ticker, `runOnce`, one HTTP exchange and the signal, in seconds |
| `CounterFold` | totals against kernel counters over folds, replaces, wipes, restarts |
| `ReportRotation` | the rotating window of `Snapshot` when a report cannot hold all rows |
| `ConntrackCall` | `withConn`: caller, worker, channel, timer, socket; `Clear` and `Zero` inside |
| `SnapshotAge` | stamp and age of the persisted file, clock, platform quarantine |
| `SourcePolicy` | allowlists: parsing, wire and file form, the comparison of the drop rule |
| `NftRules` | both chains as rendered, guard by guard, with tags and sets |
| `RelayConfig` | every check of `Load` |
| `PacketPath` | `NftRules` under traffic, time and restarts with `RelayConfig`'s environments |
| `NftTable` | the table in the kernel, edited by others, against `VerifyManaged` and `VerifyQuarantine`; packets of established flows |
| `LedgerLemmas` | TLAPS lemmas about `Prepare`, `Clear` and `LedgerLife` |
| `LedgerProofs` | proofs about `LedgerMachine` |
| `AgentProofs` | proofs about `RelayAgent` |
| `CounterProofs` | proofs about `ReportRotation` and `CounterFold` |
| `TimingProofs` | proofs about `SnapshotAge`, `SyncLoop` and `ConntrackCall` |
| `ChainLemmas` | TLAPS lemmas about `NftRules`: what a rendered chain and its tags are, position by position |
| `PathProofs`, `TableProofs` | proofs about `PacketPath` and `NftTable` |
| `MCLedger`, `MCAgent`, `MCPath`, `MCTable`, `MCRestart` | TLC instances; `MCRestart` checks `CounterFold` and `SnapshotAge`, which share no state, each behaviour running one of them |

`RelayAgent` extends `RelayKernel`, which extends `RetirementLedger`, which
extends `Snapshot`. `LedgerMachine` extends `RetirementLedger`. Both machines
instantiate `EpochLifecycle`. `LedgerProofs` and `AgentProofs` each extend their
machine and `LedgerLemmas`, `PathProofs` and `TableProofs` theirs and
`ChainLemmas`. `CounterProofs` and `TimingProofs` are about specifications that
share no state; they extend all of them, and therefore `CounterFold`, `SyncLoop`
and `ConntrackCall` have names of their own for their specification (`FoldSpec`,
`LoopSpec`, `CallSpec`, with the initial condition, next-state relation and
types named alike). `PacketPath` composes `NftRules` (which extends
`SourcePolicy`) with `RelayConfig`; `NftTable` extends `NftRules`. `RelayAgent`
takes as given what the others examine: that a table is installed as rendered
(`NftTable`), that a conntrack call returns (`ConntrackCall`), that polls go on
(`SyncLoop`) and that the age of the file is some verdict (`SnapshotAge`).

Operators whose comment begins with "seeded fault" are not used by any
specification. Each is a wrong version of the definition it stands in front
of; substituting it must break the property it is paired with, which shows that
the property can fail.

### Correspondence with the code

*Data.* A (proto, public port) pair is a key, an (address, port) pair a target,
the guard overrides and the source policy an option; `ValidKeys`,
`ValidTargets`, `ValidOptions` are the values that pass the field checks.
SHA-256 is taken as collision free, so a hash is the tuple that is hashed. A
nil pointer is `Absent`, turned into 0 by `ValueOrZero`.

*Ledger.* `PrepareOK` has one conjunct per rejection of `Prepare`, `Advance`
builds the returned ledger. The code validates its result again; so does
`PrepareOK`. `Clear` sets flags in place.

*Agent.* `pc` is where a boot or cycle stands between two effects that survive
the process, `job` what it is applying and for whom.

| Action | Code |
|---|---|
| `BootLost`, `BootUnreadable`, `BootRefused`, `BootRestore`, `BootEmpty` | the outcomes of `BootReapply` and `loadLedger` |
| `SyncFails`, `SyncMalformed`, `SyncUnchanged`, `SyncRefused`, `SyncConverged`, `SyncChanged`, `QuarantineCycle` | the outcomes of `cycle` up to its first effect |
| `PersistLedger`, `PersistSnapshot`, `ApplyTable`, `VerifyTable`, `ClearConntrack`, `RecordCleared` | the effects of `cycle` and `apply`, each with its success and its error path |
| `OneShotApply` | the `apply` mode |
| `Crash`, `HostReboot`, `WipeTable`, `DamageLedger` | the environment |
| `PacketArrives`, `PacketConfirmed`, `FlowEnds` | traffic |
| `Platform...` | the platform |

`Fail` and `Finish` are the code after `apply` returns, by caller. A persist
that fails may leave the old or the new file, because the directory sync comes
after the rename; a netlink batch that fails may have taken effect.

*The loop* (`SyncLoop`). `tickIn` and `left` are what is left of the ticker and
of the request or apply; `slot` is the ticker's channel, which holds one tick.
`EndCycle` decides on the follow-up cycle. Time does not pass a deadline that is
due. An apply that overruns is cut at `ApplyTime`.

*Counters* (`CounterFold`). One field stands for the eight that are folded
alike. A fold happens at a boot, at every poll and once more before a changed
document is applied, not before a re-assert; `ApplyAborts` is any failure after
the replace, which skips `MarkReset`. `owed` is what the kernel has counted and
nobody destroyed unread. 64-bit wrap is out of reach of real traffic.
`ReportRotation` keeps the sorted ids, the cursor and the window arithmetic.

*Conntrack* (`ConntrackCall`). A request takes effect when it is sent; its answer
may come late or never, until the socket is closed under it. Only the flows of
one retirement are shown.

*File age* (`SnapshotAge`). Real time `now`, wall clock `wall`; `Persist` stamps,
`Loadable` is the comparison of `LoadPersisted`, with its tolerance for stamps
in the future. `mode` says what the wall clock is: set (right up to `MaxDrift`
either way), behind after a reboot (a saved time or an RTC before NTP, up to
`MaxLag`) or counting from zero. `honest` says that the stamp did not come from
a clock that counts from zero.

*Rules* (`NftRules`, `PacketPath`, `NftTable`). A rule is a record of the fields
its expressions compare and of what it does; register loads and byte orders are
left out. The readback's several dumps are one step: edits happen
before or after it, not between two of its dumps. `RenderRules`, `RenderForwardRules`, the tags and the sets follow the
code's order. How the kernel evaluates limit, dynset and connlimit is external.
In `PacketPath` addresses have two bits and ports are scaled down to 0..9, with
the constants of the code (`PortFloor`, `ReservedRelayPorts`, `MaxUint32`,
`MaxGuardValue`) scaled alike. A restart takes any environment; one that `Load`
refuses does not start, so it is no step.

*Assumptions about the outside.* The platform issues ids and marks in order and
never twice (unless `Restores`), removes a mapping the relay has reported
through a retirement, and acknowledges retirements in order once their receipts
arrived. A packet that is in flight when a poll starts is confirmed or dropped
by the time the answer is handled (`Settle`): microseconds against a network
round trip. `Zero` alone could not exclude it. One packet step covers both a
new connection's DNAT and its way to the forward chain.

*Abstractions.* In `RelayAgent` the ticker and the follow-up cycle are both "the
next poll". The age of the snapshot file is a verdict chosen at each start (fresh, stale,
invalid), so every clock is covered. A quarantined agent keeps its in-memory
ledger only where the code does. `ApplyQuarantine` reads back what it wrote and
only logs an error, so its two outcomes are installed and not installed. Lines
125 to 129 of `agent.go` are unreachable (every error of `loadLedger` sets
`ledgerLost`) and have no action.

## Runs

| Run | Question | Instance | Result |
|---|---|---|---|
| `ledger` | Is `Prepare` enough, whatever documents come? | 2 ids, 3 marks, generations to 4, some 1,400 documents | holds |
| `agent_safety` | Do traffic, fences, receipts and reports stay consistent? | 2 epochs, generations to 6, any 2 faults | holds |
| `agent_live` | Does it always get unstuck? | 2 epochs, generations to 4, 1 fault, ledger loss included | holds |
| `agent_adversity` | And when the platform's database goes back in time, or an operator runs `apply` beside the agent? | 1 epoch issued twice, generations to 5, one restore, any 2 faults | holds |
| `find_restore` | Does a restored database never reactivate an old epoch? | 2 epochs, generations to 3, one restore, 2 faults | violated |
| `restart` | Are totals right whatever fails between fold, replace and reset, and how old can the document be that a start restores? | 2 mappings, 3 packets each; window = quarantine = 2, lag 2, latency, drift and tolerance 1, 7 units of time | holds |
| `find_window` | With the window equal to the quarantine, does a start never restore an address that was handed out again? | window = quarantine = 2, latency 1, perfect clock | violated |
| `report_rotation` | Does every mapping get into the reports? | 5 mappings, 2 rows | holds |
| `conntrack_call` | Does the timeout protocol return, clean up and tell the truth? | 3 flows, 2 timeouts | holds |
| `packet_path` | Do allowlist, guards and limits hold under floods and restarts? | 3 sources, 22 documents, 21 environments, 3 seconds | holds |
| `table_readback` | Does a passed readback mean the right table? | 5 plans and quarantine, 2 edits | holds |
| `sync_loop` | Does the loop go on, not spin, and stop? | interval 5, timeout 4, apply up to 2, 4 changes | holds |

*Bounds.* Two epochs on different public ports are the least in which one is
retired while another is active, is added after it, or is left over from before
it. A full life (arm, add, retire, acknowledge) takes four generations and
six allow a second epoch to overlap it at each point. The ledger instance pairs
both ids with right and wrong marks and has a third mark, so an id can meet a
spent mark, a fresh one and somebody else's. Two faults are needed where one
fault must hit the recovery from another. `FaultBudget` counts crashes,
reboots, wipes, failing calls and one-shot applies together; lost answers are
free. In `agent_adversity` one epoch is enough, because the restored platform
issues the same id and mark again; more generations add no state.

Three packets let a counter climb past an old baseline after two reads. Five
mappings and two rows make the window wrap at an odd place, and mappings come
and go under the cursor. Three flows leave one to end, one to appear and one to
delete within a call. In `restart` the time from 12 to 19 covers a withdrawal at
the start and the window, latency, drift and lag after it (12 + 2 + 1 + 1 + 2) and
one moment more; `Start` lies so far from zero that a reset clock is
recognisable. In `packet_path` the per-source set
holds two of three sources, so that it overflows; three seconds exceed the
set's timeout; documents cover each policy form and each guard switched off or
widened, or repeat a port or an id (`MappingsDistinct`, which the proofs need:
the guard state of a mapping is found by its id), and 18 of the 21 environments
are wrong in one way each. In `table_readback` two mappings have neighbouring
ports, so that an edited rule can send a flow to the port of another one. Two
edits allow a rule to be removed and another changed to look like it. Four changes of
the desired state allow a change in every request of two ticks.

Deadlock is checked everywhere but in `ledger`, where the platform runs out of
generations, and in `sync_loop`, where the process stops on a signal.

*What the safety properties say.* `NeverWedged`: after any documents and proofs,
forged ones included, the ledger accepts the next document of a platform in good
order: any acknowledgement of proven entries, any guard overrides, and one more
retirement wherever the cap leaves room once the acknowledged entries are gone.
So the rejections of `Validate` and `Prepare` together, the validation of the
result included, cannot shut a legal continuation out. It says nothing at the
last generation (`MaxGeneration`), after which there is no next document.

`ForgottenIsSilent`: no flow carries a mark
the ledger no longer knows, although a packet may be confirmed after the
conntrack deletion. `ClearedIsClosed`: a cleared entry stays fenced and without
DNAT. `ReceiptsDurable`: the platform holds no receipt that a crash could
revoke. `CleanReportIsTrue`: a report without an error describes the kernel.
`FenceRemovalProven`: a fence goes only with its entry. `NeverReactivated`: DNAT
is installed only for epochs the ledger has active. `QuarantineSticks`: a
quarantined agent installs no DNAT. `ImplementsLifecycle`: across crashes, the
ledger that would decide next moves each mark one stage forward.

`NeverOvercounts` and `NothingUndercounted` compare the total and the next fold
with what the kernel counted. The first holds always. The second is lost when a
replace goes unnoticed (a later step of the apply fails, or the one-shot apply
made it) and is shown to be restored by the next successful apply.
`RotationCovers`: any ceil(n / rows) consecutive reports name all n mappings;
`NoneStarves`: with mappings coming and going each is reported again.
`NoStrayWorker`, `SuccessIsProof`, `CallReturns`, `EventuallyCleared`: no worker
outlives its call, success means that at some moment of the call no flow of the
epoch existed, each call returns though the kernel is silent, and a clear
succeeds some day. `RestoredIsRecent`: a start restores DNAT of a withdrawn
mapping only within the window after the withdrawal, plus the latency from
composing the document to stamping it, the drift of a set clock and the lag of
one that came back behind; a clock that counts from zero gets no such allowance,
and a copy stamped by one is excepted. It follows that a window smaller than the
quarantine by latency, drift and lag is safe. The repository prescribes a window
*equal* to the quarantine; that `BootNeverMisroutes` is false there is the second
finding. `AclExact`,
`DeniedLeavesNoTrace`, `AggregateHolds`, `FloodContained`: the allowlist of the
document as sent, through file and restart, decides; a denied source uses up
nothing; the aggregate guard bounds new flows also when the per-source set
overflows; one source cannot drain the shared bucket (`BurstRefills`, for bursts up to rate
times timeout: a larger one is granted again when the idle entry expires).
`LimitsHold`: no environment that loads lets a mapping take the relay's own
ports, and a start restores nothing outside its own limits. `VerifiedIsExact`,
`OwnTableVerifies`: what passes the readback fences, translates and counts as
applied, and what the agent builds always passes. `NoTightLoop`: at most two
requests start per tick, however often the platform changes its mind;
`KeepsPolling`: polls go on although no exchange succeeds; `StopsWhenAsked`: a
signal ends the loop, also during a request.

`TypeOK` is an invariant of `ledger` and `agent_safety`. The other modules state
theirs too, as documentation of the state and as the ground of the proofs
below; it is an invariant of their instances, but the runs are kept to
the properties that say something about the code.

*Fairness* (`agent_live`): systemd restarts the process (`Boot`), an operation
that was started returns (`Work`; the netlink and conntrack calls have
timeouts), some poll is answered by the platform (`FairAnswer`: unchanged when
the generations agree, a body only when they differ), the platform acknowledges
what it can, and a connection ends some day. The last one is needed: an entry
that is already cleared is not cleared again, so a flow that was confirmed late
blocks its acknowledgement until it ends by itself.
`sync_loop` assumes that time goes on, that the runtime delivers ticks and runs
the loop, and that an apply ends; nothing of the platform or the network.
`conntrack_call` assumes that goroutines run and the timer expires, not that the
kernel answers; only `EventuallyCleared` states, as its own hypothesis, that the
agent polls on and the kernel answers. `report_rotation` assumes that reports
are made.

## Findings

`find_restore`: a cycle that fails after the ledger persist leaves the ledger
ahead of `lastApplied`. A database restored to the applied generation then
answers "unchanged", and after a wipe the re-assert installs DNAT of an epoch
the ledger has retired (`agent.go:499`), which the README of the repository
rules out ("even after a restore an old id or mark at or below the high water is
not activated again").

`find_window`: the age of the copy is counted from its stamp, which `Persist`
takes when it writes (`snapshot.go:367`), later than the platform composed the
document. With the window equal to the quarantine, as `config.go:32` and the
README of the repository (48) prescribe, a document composed just before a
withdrawal and stamped after it is still loadable when the address has been
handed out again: composed and withdrawn at 12, stamped at 13, restored at 15.
The clock is perfect in this run; a clock that comes back behind adds its lag,
because an old stamp then looks fresh and is not in the future.

## Observations

Disagreements between code and text met while modelling, and limits of what the
properties say. They have no run of their own.

1. `agent.go:428-433`: a crash between the two persists of a cycle quarantines a
   managed relay at the next start although its ledger is intact, where the
   README promises that a restart brings the mappings back. Fail-closed, but it
   needs an operator. `EventuallyHeld` allows it (`ledgerLost`).
2. `nftctl.go:402`: `apply`, then the first `run`, quarantines, because legacy
   rules carry the managed tag too and `apply` writes no ledger.
3. `agent.go:478`: a failed boot converge is retried only on unchanged answers,
   not every cycle (README, `main.go:96`); with a file source never.
4. `main.go:67`: `apply` on an armed relay removes its fences.
5. `agent.go:451`: when a step after the table replace fails, `MarkReset` is
   skipped, and a counter that climbs past the old baseline before the next
   read is undercounted (`counters.go:66` asks for the call right after the
   replace). `NothingUndercounted` excludes exactly this.
6. `agent.go:135`: the totals of a restarted agent begin with what the previous
   run's table holds, not at zero (`source.go:54`). `CounterFold` starts the
   books of a new process there, so no property speaks of it.
7. `counters.go:91`: a mapping that is removed and added again by legacy
   documents is reported with a smaller total by the same process
   (`counters.go:28` says monotonic).
8. `snapshot.go:362`: the stamp is refreshed by changed documents only, and a
   running agent that is cut off keeps its table beyond the window.
9. `snapshot.go:429`: hence the exception in `RestoredIsRecent`: a copy written while the clock runs from zero looks fresh
   after the next boot with such a clock, however old it is.
10. `nftctl.go:733`: the connection list belongs to the rule, so every replace
    forgets the flows made before; the limit holds for one table at a time.
11. `nftctl.go:932`: counting rules do not compare the mark and precede the
    fences, so packets of a retired flow are counted for the next mapping on the
    port, then dropped. `VerifiedIsExact` is about packets that are forwarded.
12. `agent.go:483`: with unchanged answers only the presence of the table is
    checked; rules edited in place stay, while the generation is reported as
    held. A refused document returns before even that check.
13. `agent.go:313`: the request of a follow-up cycle may still be waiting when
    the ticker fires, against `http.go:18`; cycles do not pile up all the same.
14. `http.go:87`: a report the client gave up may be read by the platform after
    a newer one; nothing in it orders the two.

## Proofs

The theorems hold for every value of the constants: any number of ids, marks,
generations, flows, faults, any documents and one-shot files. TLC evaluates
every ASSUME they rest on in a passing run. The inductive invariants were
model-checked on the instances of the runs before they were proved. Every
invariant and every action property that a run checks is stated by a theorem;
only liveness is left to TLC.

### The ledger (`LedgerProofs`)

`Offers` is an arbitrary subset of `Snapshots`, each with finitely many
mappings and retirements.

| Theorem | Statement |
|---|---|
| `TypeCorrect` | `Spec => []TypeOK` |
| `EpochsAccounted` | `Spec => []EveryEpochAccounted` |
| `EpochsUnshared` | `Spec => []EpochsNeverShare` |
| `LedgerNeverWedged` | `Spec => []NeverWedged` |
| `ContentFixed` | `Spec => []GenerationNamesContent` |
| `AckSeparated` | `Spec => []AckSeparates` |
| `RetiredForEver` | `Spec => NoResurrection` |
| `LedgerImplementsLifecycle` | `Spec => ImplementsLifecycle` |

The inductive invariant `IndInv` adds to the properties that the ledger is valid
and four facts, because each of them talks about history the ledger has thrown away:

* `BornBelowHighWater`: every epoch ever active lies at or below the high-water
  marks, so "above the high water" means "never seen" (`EpochsNeverShare`,
  `NoResurrection`);
* `ClearedIsProven`: a cleared flag has its proof, so compaction loses nothing
  (`EveryEpochAccounted`);
* `NewestIsRemembered`: every accepted generation is at most the recorded one,
  and the recorded hash is that of the newest document, so one hash is enough
  (`GenerationNamesContent`);
* the entries are finite, so that their number means something.

`AdvanceHighWater` and `AdvanceType` say what `Prepare` builds,
`NextActiveOrigin` and `NextEntryOrigin` where its active epochs and entries
come from, `ActiveStaysOrRetires` and `EntryStaysOrCleared` where the old ones
go; `ReceivePreserves` and `RecordClearedPreserves` are the two steps. The
refinement is the same lemmas read mark by mark (`AdvanceMoves`, `ClearMoves`).

`LedgerNeverWedged` needs to know what the entries look like, which no other
property does. `Shape` is a second inductive invariant on top of the first: keys
and targets inside the remembered hashes, and in the entries, are such as
`Validate` admits, active keys differ, the active mappings are within the cap, and
no retirement is newer than the newest document (`PreparedShape`,
`ShapeInvariance`). `ContinuationAccepted` then takes the guards
of `Validate` and `PrepareOK` one by one; `ImageBound` keeps the continuation's
mappings within the cap.

### The agent (`AgentProofs`)

| Theorem | Environment | Statement |
|---|---|---|
| `AgentTypes` | any | `Spec => []TypeOK` |
| `QuarantineHolds` | `NoOneShot` | `Spec => QuarantineSticks` |
| `FencesRemovedWithProof` | `NoOneShot` | `Spec => FenceRemovalProven` |
| `AgentImplementsLifecycle` | `NoLoss` | `Spec => ImplementsLifecycle` |
| `EpochsNeverReactivated` | `NoRestore` | `Spec => NeverReactivated` |
| `ClearedStaysClosed` | `NoRestore`, `NoOneShot` | `Spec => []ClearedIsClosed` |
| `ForgottenMarksSilent` | `NoRestore`, `NoLoss` | `Spec => []ForgottenIsSilent` |
| `ReceiptsSurvive` | `NoRestore`, `NoLoss` | `Spec => []ReceiptsDurable` |
| `CleanReportsTrue` | `NoRestore`, `NoOneShot` | `Spec => []CleanReportIsTrue` |

The environment is a hypothesis on the constants: `NoRestore` (the platform's
database never goes back in time), `NoLoss` (no ledger file is damaged or
deleted), `NoOneShot` (nobody runs `apply` beside the agent). Crashes, reboots,
wipes, failing calls and lost answers are always in. A hypothesis is there only
where the property is false without it: TLC finds a violation of each property
when one of its hypotheses is dropped. The exception is `ForgottenIsSilent` under
a restore, where TLC found none in the part of the instance it searched. One
restore is all the model has, and a second could bring back an applied
generation whose epochs are compacted by then; the theorem does not claim it.

The invariants come in layers, each resting on those before it:

* `TypeInv`: types, and what a document of the platform looks like (its mappings
  are issued epochs, a retired epoch is no mapping, retirements lie above the
  acknowledgement). `ControlInv`: which job belongs to which `pc`.
* `LedgerInv`: both ledgers, in memory and on disk, pass `Validate`, and have
  *absorbed* every snapshot that is persisted, applied or held. Hence `Prepare`
  at boot changes nothing, which makes a restart invisible to the ledger
  (`RestoreKeepsLedger`).
* `FileAhead`: the file is where memory is, or one stage ahead of it. This is
  what a persist that fails after the rename leaves behind, and it is why the
  deciding ledger moves one stage at a time across a crash.
* `CurrentInv`: nothing that circulates is newer than the desired state, and
  equal generations are equal documents. False after a restore, which is the
  finding.
* `ActiveInv`: the mappings of a job are active in the ledger, rules in the
  table are active once it is installed, and no rule has the mark of a cleared
  entry, in either ledger. `FenceInv`: the same for the fences.
* `SilenceInv`: every flow, *and every rule that could start one*, belongs to
  an epoch that is active or outstanding in both ledgers; and the zero check of
  a cycle stays true until its ledger is persisted, because no rule is left for
  a dropped entry (`ZeroStays`). A retirement is named after its epoch, so an
  entry cannot be replaced by another of its name while it is dropped
  (`ForgottenIsDropped`).
* `ReceiptInv`: a retirement the relay has seen is still desired or
  acknowledged, and its id is spent; a cleared entry in memory is on disk or
  acknowledged; a receipt has its cleared entry in both ledgers.
* `ReportInv`: a cycle never applies less than what is held (`Forward`), a job
  whose apply succeeded has its plan in the table (`PlanInstalled`), and the
  table is that of the last applied document while it is the desired one *or*
  there is no error (`HeldWhole`): the error is withdrawn without a job only
  where the generations agree, and there a failed apply has installed the same
  document (`SamePlan`).

`TableWriters`, `FlowWriters`, `SnapWriters`, `LedgerWriters`, `JobWriters`,
`PlatformWriters`, `BootEffects` and `WorkEffects` say once who writes what; the
step lemmas cite them and so go by effect, not by action.

### The rules a packet meets (`PathProofs`)

For all documents, environments, guards, sources, sizes and lengths of the run;
`PathAssumption` only says of which form they are (a document is a sequence of
mappings, an override a number, an environment has at most one band).

| Theorem | Statement |
|---|---|
| `AllowlistExact` | `Spec => []AclExact` |
| `DeniedUsesNothing` | `Spec => DeniedLeavesNoTrace` |
| `AggregateBound` | `Spec => []AggregateHolds` |
| `FloodBound` | `Spec => []FloodContained` |
| `TableWithinLimits` | `Spec => []LimitsHold` |

A packet walks a chain of any length, so the proofs need induction over it. The
library's induction theorems take the induction predicate as an operator, which
the provers cannot instantiate; `LeastExists` (a set of naturals that is not
empty has a least element, from the well-foundedness of `Below`) does the same
work with sets: the least place at which a claim fails cannot exist.

1. *The walk.* `Trace` says that a function lists the state after each rule;
   `TraceExists` and `TraceUnique` make `Down` its last value, and `DownConcat`
   and `DownFlatten` cut the walk at the blocks of the mappings. Of all blocks
   only the one with the packet's protocol and port does anything (`DownSkips`;
   `MappingsDistinct` makes it one).
2. *One block.* `AclStep`, `PerSourceStep`, `AggregateStep`, `ConnlimitStep` and
   `DnatStep` take the five rules in their order. Together they give `Effect`:
   the guard state of other mappings is untouched, the aggregate bucket loses a
   token exactly when the packet drew one, the source's entry loses its own
   first, and a verdict of the allowlist leaves everything as it was.
3. *The allowlist.* `MaskedIsMembership`: comparing under the mask is membership
   in the prefix. `ParseKeepsPrefixes`: sorting (`Rank`) neither loses nor adds
   one, by `RanksDiffer`. `UnmarshalRenders` and `MarshalKeepsField` carry the
   policy through wire, file and restart.
4. *Over time.* `PathInv` says that rules and chain are those of the document
   (`Placed`), and balances what was taken against time: `AggregateLeft`, what
   was admitted *plus what is left in the bucket* is at most burst plus rate
   times seconds; `SourceLeft`, the same for the entry of a source, *and* for
   its idle time, which is what makes the removal of an idle entry harmless
   when `BurstRefills`. Without the second half the step in which an entry
   expires does not preserve it, and without `BurstRefills` it is false.

### The readback (`TableProofs`)

| Theorem | Statement |
|---|---|
| `BuiltTableVerifies` | `Spec => []OwnTableVerifies` |
| `ReadbackExact` | `Spec => []VerifiedIsExact` |

For all plans whose mappings have different (proto, port) pairs and at most one
allowlist each, all guards and any number of edits (`TableAssumption`, which
`Validate` guarantees of the documents plans are made of).

`ChainLemmas` gives the shape of what is built. `Places` says where each block
of a flattened sequence begins and that the blocks cover it (`FlattenPlaces`);
`Rendered` that the DNAT rules are the ends of the blocks, in the order of the
mappings. `TagsAgree` is the heart of the first theorem: `ApplyManaged` tags
the n-th DNAT rule it meets with the n-th mapping, the readback lays out the
tags mapping by mapping, and counting ends of blocks shows that both give every
position the same tag. `TwoBlocks` and `PairsPlaced` do the forward chain, where
each mapping and each retirement has one rule per direction.

The inductive invariant is small (`TableInv`: the chains remain sequences under
removals, replacements and swaps, `EditKeepsChains`), because the second theorem
is about one state: `EqualChain` turns a passed comparison into equality with
what would be built, and `WalkExact` follows a packet of an established flow
through the forward chain, in which the counting rules come before the drops.

### Counters (`CounterProofs`) and time (`TimingProofs`)

| Theorem | Statement | Inductive invariant, beyond the types |
|---|---|---|
| `NoOvercount`, `NoUndercount` | `NeverOvercounts`, `NothingUndercounted` | `Balanced`: between a replace and its `MarkReset` the books balance with the raw counter, otherwise with what the next fold would add; while every replace is marked no baseline is ahead of its counter |
| `RotationIsFair` | `RotationCovers` | `Covered`: the cursor stands as many windows past the place where the first report began as reports were made, and everything between has been seen |
| `WorkersJoined`, `SuccessProven` | `NoStrayWorker`, `SuccessIsProof` | an empty dump on its way, and a success in the channel of a call not yet returned, come from a moment without a flow |
| `RestoresRecent` | `RestoredIsRecent`, for every window and quarantine | the clock is right up to the drift, behind by at most the lag, or counts from a reboot (`ClockInv`); a document that lists a withdrawn mapping is older than the withdrawal (`ComposedInv`); an honest stamp is at most latency and drift later than its document (`StampInv`) |
| `LoopNeverSpins` | `NoTightLoop` | a run has made no request before its first cycle and one before its follow-up; an answer is never older than what is held |

`RotationIsFair` works on the ring of positions. A position is the number of
smaller ids; `PosOrders` and `PosOnto` make it a bijection between the ids and
`0 .. n - 1`, the second because an injection of a finite set into one of the
same size is onto. `OneMoreWindow` adds a window to what `Between` has covered,
`AroundTheRing` says that n places are all.

`RestoresRecent` has no hypothesis about window and quarantine. Where a reboot
may reset the clock, `AgeAssumption` keeps the run of time shorter than the
distance of real time from zero (1970 against today): otherwise a clock that
started over could reach old stamps (`ResetClockRefuses`).

### Only model-checked

All liveness (`EventuallyHeld`, `RetirementsComplete`, `LossIsContained`,
`NoneStarves`, `CallReturns`, `EventuallyCleared`, `KeepsPolling`,
`StopsWhenAsked`): fairness and ENABLED are outside what the prover handles.

## Not modelled

JSON decoding, the byte cap and unknown fields of an answer (failures like
others); sanitising of error texts in the report; the names of counter objects
and their parser, a pure string conversion; register-level nftables expressions;
the file source (its answers are always "changed"); scripts and the service unit
(restart after a crash is the fairness of `Boot`). Kernel behaviour with guard
defaults near 2^32 is outside the repository. In `PacketPath` applies and
persists succeed; where they fail is the subject of `RelayAgent`, `CounterFold`
and `SnapshotAge`.

## Plan

1. Done: document, ledger, lifecycle, agent with kernel and platform, ledger
   proofs.
2. Done: counters and report rotation, conntrack calls, file age, source policy,
   rendered rules, packet path with configuration, readback, poll loop.
3. Done: proofs of every safety property of `RelayAgent`, `CounterFold`,
   `ConntrackCall`, `SnapshotAge` and `SyncLoop`, and of `LimitsHold`.
4. Done: proofs of the properties of `PacketPath`, `NftTable` and
   `ReportRotation`, with lemmas about folds and flattened sequences.
5. Open: liveness, for which the prover would have to handle fairness; the type
   invariant of `PacketPath` as a theorem of its own (`PathProofs` uses a
   different one, `Typed`).
