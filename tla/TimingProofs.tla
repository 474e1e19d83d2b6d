---------------------------- MODULE TimingProofs ----------------------------
(***************************************************************************)
(* Proofs about the three modules in which time runs: SnapshotAge, for     *)
(* every window, latency, drift, lag and starting time; SyncLoop, for      *)
(* every interval, timeout and duration of an apply; ConntrackCall, for    *)
(* any set of flows and any number of timeouts.  The three share no state  *)
(* and no name but the library's.                                          *)
(***************************************************************************)
EXTENDS SnapshotAge, SyncLoop, ConntrackCall, TLAPS

(***************************************************************************)
(* A clock that has been set is off by the drift at most; one that came    *)
(* back behind by the lag at most; one that was reset counts from the      *)
(* reboot.                                                                 *)
(***************************************************************************)
ClockInv ==
    /\ Start <= now /\ now <= MaxNow
    /\ mode = "set" => now <= wall + MaxDrift /\ wall <= now + MaxDrift
    /\ mode = "behind" => now <= wall + MaxLag /\ wall <= now
    /\ mode = "reset" => ClockMayReset /\ wall + Start <= now

(***************************************************************************)
(* A document that lists the mapping was composed while it was desired,    *)
(* and if it no longer is, it was withdrawn afterwards.                    *)
(***************************************************************************)
ComposedInv ==
    /\ sent.has => want \/ sent.at <= released
    /\ file.has => want \/ file.at <= released
    /\ sent.gen <= gen /\ file.at <= now
    /\ Unstamped => now <= sent.at + Latency

(***************************************************************************)
(* An honest stamp is of the present, behind by drift or lag, and at most  *)
(* latency and drift later than the composition of the document.           *)
(***************************************************************************)
StampInv ==
    file.honest => /\ Start <= file.stamp + MaxDrift + MaxLag
                   /\ file.stamp <= file.at + Latency + MaxDrift

IndInv == TypeOK /\ ClockInv /\ ComposedInv /\ StampInv

LEMMA Bounds ==
    /\ MaxAge \in Nat /\ Tolerance \in Nat /\ Quarantine \in Nat /\ Latency \in Nat
    /\ MaxDrift \in Nat /\ MaxLag \in Nat
    /\ Start \in Nat /\ MaxNow \in Nat /\ MaxGen \in Nat
    /\ Start <= MaxNow /\ 1 <= MaxGen
    /\ ClockMayReset => MaxNow + Tolerance + MaxDrift + MaxLag < Start + Start
  BY AgeAssumption

LEMMA InitIndInv == Init => IndInv
<1> SUFFICES ASSUME Init PROVE IndInv
  OBVIOUS
<1>1. TypeOK
  <2>1. /\ mode = "set" /\ want \in BOOLEAN /\ managed \in BOOLEAN
        /\ up \in BOOLEAN /\ table \in BOOLEAN
    BY DEF Init
  <2>2. sent \in [gen : 0..MaxGen, has : BOOLEAN, at : 0..now]
    BY Bounds DEF Init
  <2>3. file \in Copies /\ file.gen = 0
    BY Bounds DEF Init, NoFile, Copies
  <2> QED
    BY <2>1, <2>2, <2>3, Bounds DEF Init, TypeOK
<1>2. ClockInv
  BY Bounds DEF Init, ClockInv
<1>3. ComposedInv
  BY Bounds DEF Init, ComposedInv, Unstamped, NoFile
<1>4. StampInv
  BY DEF Init, StampInv, NoFile
<1> QED
  BY <1>1, <1>2, <1>3, <1>4 DEF IndInv

-----------------------------------------------------------------------------
(***************************************************************************)
(* Stamping the file with an answer that is not yet stamped.               *)
(***************************************************************************)
LEMMA StampedStep ==
    ASSUME IndInv, Stamped, Unstamped, UNCHANGED <<clock, platform, sent>>
    PROVE  /\ file' \in Copies /\ file'.gen <= gen'
           /\ file'.has => want' \/ file'.at <= released'
           /\ file'.at <= now'
           /\ StampInv'
<1>1. /\ file'.gen = sent.gen /\ file'.has = sent.has /\ file'.at = sent.at
      /\ file'.stamp = wall
  BY DEF Stamped
<1>2. file' \in Copies
  BY DEF Stamped, Copies, IndInv, TypeOK
<1>3. /\ file'.gen <= gen' /\ file'.at <= now'
      /\ file'.has => want' \/ file'.at <= released'
  BY <1>1, Bounds DEF IndInv, TypeOK, ComposedInv, clock, platform
<1>4. file'.honest => mode # "reset"
  BY DEF Stamped
<1>5. ASSUME mode # "reset"
      PROVE  /\ Start <= wall + MaxDrift + MaxLag
             /\ wall <= sent.at + Latency + MaxDrift
  <2>1. now <= sent.at + Latency /\ Start <= now
    BY DEF IndInv, ComposedInv, ClockInv
  <2>2. now <= wall + MaxDrift + MaxLag /\ wall <= now + MaxDrift
    BY <1>5, Bounds DEF IndInv, TypeOK, ClockInv
  <2> QED
    BY <2>1, <2>2, Bounds DEF IndInv, TypeOK
<1>6. StampInv'
  BY <1>1, <1>4, <1>5 DEF StampInv
<1> QED
  BY <1>2, <1>3, <1>6

LEMMA NextPreserves == IndInv /\ [Next]_vars => IndInv'
<1> SUFFICES ASSUME IndInv, [Next]_vars PROVE IndInv'
  OBVIOUS
<1> USE Bounds DEF clock, platform
<1>1. CASE Withdraw
  <2>1. UNCHANGED <<clock, managed, up, stage, sent, held, table, file>>
        /\ want' = FALSE /\ released' = now /\ gen' = gen + 1 /\ gen < MaxGen
    BY <1>1 DEF Withdraw
  <2>2. TypeOK'
    <3>1. gen' \in 1..MaxGen /\ held \in 0..gen' /\ file.gen <= gen'
      BY <2>1 DEF IndInv, TypeOK, Copies
    <3>2. want' \in BOOLEAN
      BY <2>1
    <3> QED
      BY <2>1, <3>1, <3>2 DEF IndInv, TypeOK
  <2>3. ClockInv' /\ StampInv'
    BY <2>1 DEF IndInv, ClockInv, StampInv
  <2>4. ComposedInv'
    BY <2>1 DEF IndInv, TypeOK, ComposedInv, Unstamped
  <2> QED
    BY <2>2, <2>3, <2>4 DEF IndInv
<1>2. CASE Grant
  <2>1. UNCHANGED <<clock, released, managed, up, stage, sent, held, table, file>>
        /\ want' = TRUE /\ gen' = gen + 1 /\ gen < MaxGen
    BY <1>2 DEF Grant
  <2>2. TypeOK'
    <3>1. gen' \in 1..MaxGen /\ held \in 0..gen' /\ file.gen <= gen'
      BY <2>1 DEF IndInv, TypeOK, Copies
    <3>2. want' \in BOOLEAN
      BY <2>1
    <3> QED
      BY <2>1, <3>1, <3>2 DEF IndInv, TypeOK
  <2>3. ClockInv' /\ StampInv'
    BY <2>1 DEF IndInv, ClockInv, StampInv
  <2>4. ComposedInv'
    BY <2>1 DEF IndInv, TypeOK, ComposedInv, Unstamped
  <2> QED
    BY <2>2, <2>3, <2>4 DEF IndInv
<1>3. CASE Tick
  <2>1. /\ UNCHANGED <<mode, platform, up, stage, sent, held, table, file>>
        /\ now' = now + 1 /\ wall' = wall + 1 /\ now < MaxNow
        /\ Unstamped => now < sent.at + Latency
    BY <1>3 DEF Tick
  <2>2. TypeOK'
    <3>1. sent' \in [gen : 0..MaxGen, has : BOOLEAN, at : 0..now']
      BY <2>1 DEF IndInv, TypeOK
    <3> QED
      BY <2>1, <3>1 DEF IndInv, TypeOK
  <2>3. ClockInv' /\ StampInv'
    BY <2>1 DEF IndInv, TypeOK, ClockInv, StampInv
  <2>4. ComposedInv'
    BY <2>1 DEF IndInv, TypeOK, Copies, ComposedInv, Unstamped
  <2> QED
    BY <2>2, <2>3, <2>4 DEF IndInv
<1>4. CASE SetClock
  <2>1. wall' \in Nat /\ wall' <= now + MaxDrift /\ now <= wall' + MaxDrift
    <3>1. PICK w \in 0..(now + MaxDrift) : now <= w + MaxDrift /\ wall' = w
      BY <1>4 DEF SetClock
    <3> QED
      BY <3>1 DEF IndInv, TypeOK
  <2>2. UNCHANGED <<now, platform, up, stage, sent, held, table, file>> /\ mode' = "set"
    BY <1>4 DEF SetClock
  <2>3. TypeOK'
    BY <2>1, <2>2 DEF IndInv, TypeOK
  <2>4. ClockInv'
    BY <2>1, <2>2 DEF IndInv, TypeOK, ClockInv
  <2>5. ComposedInv' /\ StampInv'
    BY <2>2 DEF IndInv, ComposedInv, StampInv, Unstamped
  <2> QED
    BY <2>3, <2>4, <2>5 DEF IndInv
<1>5. CASE Answer
  <2>1. /\ UNCHANGED <<clock, platform, up, held, table, file>>
        /\ stage' = "got" /\ sent' = [gen |-> gen, has |-> want, at |-> now]
    BY <1>5 DEF Answer
  <2>2. TypeOK'
    <3>1. sent' \in [gen : 0..MaxGen, has : BOOLEAN, at : 0..now']
      BY <2>1 DEF IndInv, TypeOK
    <3> QED
      BY <2>1, <3>1 DEF IndInv, TypeOK
  <2>3. ClockInv' /\ StampInv'
    BY <2>1 DEF IndInv, ClockInv, StampInv
  <2>4. ComposedInv'
    BY <2>1 DEF IndInv, TypeOK, ComposedInv, Unstamped
  <2> QED
    BY <2>2, <2>3, <2>4 DEF IndInv
<1>6. CASE Persist \/ PersistFails
  <2>1. /\ UNCHANGED <<clock, platform, up, sent, table>>
        /\ Stamped \/ UNCHANGED file
        /\ held' \in {held, sent.gen}
        /\ stage' = "idle" \/ (stage' = "mid" /\ managed)
        /\ Unstamped
    BY <1>6 DEF Persist, PersistFails, PersistStep, Unstamped
  <2>2. /\ file' \in Copies /\ file'.gen <= gen'
        /\ file'.has => want' \/ file'.at <= released'
        /\ file'.at <= now'
        /\ StampInv'
    <3>1. CASE Stamped
      BY <2>1, <3>1, StampedStep
    <3>2. CASE UNCHANGED file
      BY <2>1, <3>2 DEF IndInv, TypeOK, ComposedInv, StampInv
    <3> QED
      BY <2>1, <3>1, <3>2
  <2>3. TypeOK'
    BY <2>1, <2>2 DEF IndInv, TypeOK, ComposedInv
  <2>4. ClockInv'
    BY <2>1 DEF IndInv, ClockInv
  <2>5. ComposedInv'
    BY <2>1, <2>2 DEF IndInv, ComposedInv, Unstamped
  <2> QED
    BY <2>2, <2>3, <2>4, <2>5 DEF IndInv
<1>7. CASE Apply \/ ApplyFails \/ Crash \/ HostReboot
  <2>1. /\ UNCHANGED <<now, platform, sent, file>>
        /\ Unstamped' => Unstamped
        /\ held' \in {held, sent.gen, 0}
        /\ stage' \in {"idle", "mid"}
    BY <1>7 DEF Apply, ApplyFails, Crash, HostReboot, ApplyStep, Unstamped, IndInv, TypeOK
  <2>2. up' \in BOOLEAN /\ table' \in BOOLEAN
    BY <1>7 DEF Apply, ApplyFails, Crash, HostReboot, IndInv, TypeOK
  <2>3. \/ UNCHANGED <<wall, mode>>
        \/ mode' = "behind" /\ \E w \in 0..now : now <= w + MaxLag /\ wall' = w
        \/ ClockMayReset /\ wall' = 0 /\ mode' = "reset"
    BY <1>7 DEF Apply, ApplyFails, Crash, HostReboot
  <2>4. wall' \in Nat /\ mode' \in {"set", "behind", "reset"}
    BY <2>3 DEF IndInv, TypeOK
  <2>5. TypeOK'
    BY <2>1, <2>2, <2>4 DEF IndInv, TypeOK, ComposedInv
  <2>6. ClockInv'
    BY <2>1, <2>3 DEF IndInv, TypeOK, ClockInv
  <2>7. ComposedInv' /\ StampInv'
    BY <2>1 DEF IndInv, ComposedInv, StampInv
  <2> QED
    BY <2>5, <2>6, <2>7 DEF IndInv
<1>8. CASE BootRestore \/ BootEmpty \/ BootApplyFails
  <2>1. /\ UNCHANGED <<clock, platform, stage, sent>>
        /\ file' = file \/ file' = NoFile
        /\ held' \in {0, file.gen}
    BY <1>8 DEF BootRestore, BootEmpty, BootApplyFails
  <2>2. up' \in BOOLEAN /\ table' \in BOOLEAN
    BY <1>8 DEF BootRestore, BootEmpty, BootApplyFails, IndInv, TypeOK, Copies
  <2>3. file' \in Copies /\ file'.gen <= gen /\ file.gen \in 0..gen
    <3>1. NoFile \in Copies /\ NoFile.gen = 0
      BY DEF NoFile, Copies
    <3>2. file.gen \in 0..gen /\ gen \in Nat
      BY DEF IndInv, TypeOK, Copies
    <3> QED
      BY <2>1, <3>1, <3>2 DEF IndInv, TypeOK
  <2>4. TypeOK'
    BY <2>1, <2>2, <2>3 DEF IndInv, TypeOK
  <2>5. ClockInv'
    BY <2>1 DEF IndInv, ClockInv
  <2>6. ComposedInv' /\ StampInv'
    BY <2>1 DEF IndInv, TypeOK, ComposedInv, StampInv, NoFile, Unstamped
  <2> QED
    BY <2>4, <2>5, <2>6 DEF IndInv
<1>9. CASE UNCHANGED vars
  BY <1>9 DEF vars, IndInv, TypeOK, ClockInv, ComposedInv, StampInv, Unstamped
<1> QED
  BY <1>1, <1>2, <1>3, <1>4, <1>5, <1>6, <1>7, <1>8, <1>9 DEF Next

LEMMA Invariance == Spec => []IndInv
  BY InitIndInv, NextPreserves, PTL DEF Spec

-----------------------------------------------------------------------------
(***************************************************************************)
(* LoadPersisted sees through a clock that counts from zero: to it, an     *)
(* honest stamp lies in the future.                                        *)
(***************************************************************************)
LEMMA ResetClockRefuses ==
    ASSUME IndInv, Loadable, file.honest
    PROVE  mode # "reset"
<1> SUFFICES ASSUME mode = "reset" PROVE FALSE
  OBVIOUS
<1>1. file.stamp \in Nat /\ now \in Nat /\ wall \in Nat
  BY DEF IndInv, TypeOK, Copies
<1>2. file.stamp <= wall + Tolerance
  BY DEF Loadable
<1>3. Start <= file.stamp + MaxDrift + MaxLag
  BY DEF IndInv, StampInv
<1>4. wall + Start <= now /\ now <= MaxNow
      /\ MaxNow + Tolerance + MaxDrift + MaxLag < Start + Start
  BY Bounds DEF IndInv, ClockInv
<1> QED
  BY <1>1, <1>2, <1>3, <1>4, Bounds

(***************************************************************************)
(* What a start restores of a withdrawn mapping is from the window before: *)
(* the document is older than the withdrawal, its stamp later by latency   *)
(* and drift at most, and the judging clock behind by its lag.             *)
(***************************************************************************)
LEMMA LoadableIsRecent ==
    ASSUME IndInv, Loadable, file.has, file.honest, ~want
    PROVE  now <= released + MaxAge + Latency + MaxDrift + Lag
<1>1. /\ file.stamp \in Nat /\ file.at \in Nat /\ now \in Nat /\ wall \in Nat
      /\ released \in Nat
  BY DEF IndInv, TypeOK, Copies
<1>2. wall <= file.stamp + MaxAge
  BY DEF Loadable
<1>3. file.at <= released
  BY DEF IndInv, ComposedInv
<1>4. file.stamp <= file.at + Latency + MaxDrift
  BY DEF IndInv, StampInv
<1>5. Lag \in Nat /\ now <= wall + Lag
  <2>1. mode # "reset"
    BY ResetClockRefuses
  <2> QED
    BY <1>1, <2>1 DEF Lag
<1> QED
  BY <1>1, <1>2, <1>3, <1>4, <1>5, Bounds

(***************************************************************************)
(* For every window, tolerance, latency, drift and lag, and however often  *)
(* the clock is corrected, falls behind or starts over, a start restores   *)
(* a withdrawn mapping within the window after its withdrawal, plus        *)
(* latency, drift and lag.                                                 *)
(***************************************************************************)
THEOREM RestoresRecent == Spec => RestoredIsRecent
<1>1. IndInv /\ [Next]_vars =>
        [BootRestore /\ file.has /\ file.honest /\ ~want =>
            now <= released + MaxAge + Latency + MaxDrift + Lag]_vars
  BY LoadableIsRecent DEF BootRestore
<1> QED
  BY <1>1, Invariance, PTL DEF Spec, RestoredIsRecent

-----------------------------------------------------------------------------
(***************************************************************************)
(* The poll loop.                                                          *)
(***************************************************************************)
LEMMA LoopBounds ==
    /\ Interval \in Nat /\ RequestTimeout \in Nat
    /\ ApplyTime \in Nat /\ MaxChanges \in Nat
  BY LoopAssumption

(***************************************************************************)
(* A runOnce has made no request before its first cycle and at most one    *)
(* before its follow-up; only the first cycle can be followed.             *)
(***************************************************************************)
Requests ==
    /\ pc = "cycle" => inRun = IF follow THEN 1 ELSE 0
    /\ pc \in {"request", "apply"} => inRun = IF follow THEN 2 ELSE 1
    /\ pc \in {"select", "stopped"} => inRun \in 0..2

(***************************************************************************)
(* An answer is never older than the generation the agent holds.           *)
(***************************************************************************)
AnswerIsCurrent ==
    /\ pc \in {"request", "apply"} /\ reply.kind # "none" => heldGen <= reply.gen
    /\ pc = "apply" => reply.kind # "none"

LoopInv == LoopTypeOK /\ Requests /\ AnswerIsCurrent

LEMMA InitLoop == LoopInit => LoopInv
<1> SUFFICES ASSUME LoopInit PROVE LoopInv
  OBVIOUS
<1>1. LoopTypeOK
  <2>1. reply \in [kind : {"none", "unchanged", "changed"}, gen : 0..desired]
    BY DEF LoopInit, NoReply
  <2>2. follow \in BOOLEAN /\ cancelled \in BOOLEAN
    BY DEF LoopInit
  <2> QED
    BY <2>1, <2>2, LoopBounds DEF LoopInit, LoopTypeOK
<1>2. Requests
  BY DEF LoopInit, Requests
<1>3. AnswerIsCurrent
  BY DEF LoopInit, AnswerIsCurrent
<1> QED
  BY <1>1, <1>2, <1>3 DEF LoopInv

LEMMA NextLoop == LoopInv /\ [LoopNext]_loopVars => LoopInv'
<1> SUFFICES ASSUME LoopInv, [LoopNext]_loopVars PROVE LoopInv'
  OBVIOUS
<1> USE LoopBounds DEF LoopInv, LoopTypeOK, Requests, AnswerIsCurrent, loop,
        exchange, NoReply
<1>1. CASE BeginCycle
  BY <1>1 DEF BeginCycle
<1>2. CASE Stop
  BY <1>2 DEF Stop
<1>3. CASE TakeTick
  BY <1>3 DEF TakeTick
<1>4. CASE GiveUp /\ pc = "request"
  BY <1>4 DEF EndCycle, GiveUp
<1>5. CASE RequestRefused
  BY <1>5 DEF EndCycle, RequestRefused
<1>6. CASE AnswerUnchanged
  BY <1>6 DEF EndCycle, AnswerUnchanged
<1>7. CASE AnswerChanged
  BY <1>7 DEF AnswerChanged
<1>8. CASE ApplyEnds
  <2>1. reply.gen \in 0..desired /\ heldGen <= reply.gen
    BY <1>8 DEF ApplyEnds
  <2>2. CASE reply.gen # heldGen /\ ~follow
    <3>1. pc' = "cycle" /\ follow' = TRUE
      BY <1>8, <2>2 DEF EndCycle, ApplyEnds
    <3> QED
      BY <1>8, <2>1, <2>2, <3>1 DEF EndCycle, ApplyEnds
  <2>3. CASE ~(reply.gen # heldGen /\ ~follow)
    <3>1. pc' = "select" /\ follow' = FALSE
      BY <1>8, <2>3 DEF EndCycle, ApplyEnds
    <3> QED
      BY <1>8, <2>1, <3>1 DEF EndCycle, ApplyEnds
  <2> QED
    BY <2>2, <2>3
<1>9. CASE LoopApplyFails
  BY <1>9 DEF EndCycle, LoopApplyFails
<1>10. CASE PlatformAnswers
  BY <1>10 DEF PlatformAnswers
<1>11. CASE PlatformChanges
  BY <1>11 DEF PlatformChanges
<1>12. CASE Second
  BY <1>12 DEF Second, Working, Idle
<1>13. CASE TickerFires
  BY <1>13 DEF TickerFires
<1>14. CASE Signal
  BY <1>14 DEF Signal
<1>15. CASE UNCHANGED loopVars
  BY <1>15 DEF loopVars
<1> QED
  BY <1>1, <1>2, <1>3, <1>4, <1>5, <1>6, <1>7, <1>8, <1>9, <1>10, <1>11, <1>12,
     <1>13, <1>14, <1>15 DEF LoopNext, Finishes, RequestTimesOut,
     RequestCancelled, BadAnswer

LEMMA LoopInvariance == LoopSpec => []LoopInv
  BY InitLoop, NextLoop, PTL DEF LoopSpec

(***************************************************************************)
(* Between two ticks the agent makes at most two requests, whatever the    *)
(* timers are set to and however often the desired state changes.          *)
(***************************************************************************)
THEOREM LoopNeverSpins == LoopSpec => []NoTightLoop
<1>1. LoopInv => NoTightLoop
  BY DEF LoopInv, LoopTypeOK, Requests, NoTightLoop
<1> QED
  BY <1>1, LoopInvariance, PTL

-----------------------------------------------------------------------------
(***************************************************************************)
(* The calls into conntrack.                                               *)
(***************************************************************************)
(***************************************************************************)
(* An empty dump that is on its way, or a success in the channel of a call *)
(* that has not returned, comes from a moment without a flow.              *)
(***************************************************************************)
DumpIsProof ==
    asked /\ worker \in {"find", "check"} /\ answer = {} => empty

DoneIsProof ==
    caller # "idle" /\ done = "ok" => empty

CallInv == CallTypeOK /\ NoStrayWorker /\ SuccessIsProof /\ DumpIsProof /\ DoneIsProof

LEMMA InitCall == CallInit => CallInv
<1> SUFFICES ASSUME CallInit PROVE CallInv
  OBVIOUS
<1>1. CallTypeOK
  <2>1. asked \in BOOLEAN /\ cleared \in BOOLEAN /\ empty \in BOOLEAN
    BY DEF CallInit
  <2>2. flows \subseteq Flows /\ late \subseteq Flows
    BY DEF CallInit
  <2>3. answer \subseteq Flows /\ todo \subseteq Flows
    BY DEF CallInit
  <2>4. timeouts \in 0..MaxTimeouts
    BY CallAssumption DEF CallInit
  <2> QED
    BY <2>1, <2>2, <2>3, <2>4 DEF CallInit, CallTypeOK
<1>2. NoStrayWorker /\ SuccessIsProof /\ DumpIsProof /\ DoneIsProof
  BY DEF CallInit, NoStrayWorker, SuccessIsProof, DumpIsProof, DoneIsProof
<1> QED
  BY <1>1, <1>2 DEF CallInv

LEMMA NextCall == CallInv /\ [CallNext]_callVars => CallInv'
<1> SUFFICES ASSUME CallInv, [CallNext]_callVars PROVE CallInv'
  OBVIOUS
<1> USE CallAssumption DEF CallInv, CallTypeOK, NoStrayWorker,
        SuccessIsProof, DumpIsProof, DoneIsProof,
        kernel, callerVars, workerVars, Watch
<1>1. CASE DialFails
  BY <1>1 DEF DialFails
<1>2. CASE Call
  BY <1>2 DEF Call
<1>3. CASE ReceiveDone
  BY <1>3 DEF ReceiveDone, Return
<1>4. CASE TimerFires
  BY <1>4 DEF TimerFires
<1>5. CASE TimeoutReturns
  BY <1>5 DEF TimeoutReturns, Return
<1>6. CASE Dump
  BY <1>6 DEF Dump
<1>7. ASSUME NEW f \in todo, Delete(f) PROVE CallInv'
  BY <1>7 DEF Delete
<1>8. CASE Hear
  <2>1. ASSUME NEW r \in {"ok", "error"}, Finish(r), worker \in {"find", "delete", "check"},
               r = "ok" => empty
        PROVE  CallInv'
    BY <2>1 DEF Finish
  <2>2. ASSUME NEW step \in {"delete", "check"}, GoOn(step),
               worker \in {"find", "delete"}, todo' \subseteq Flows
        PROVE  CallInv'
    BY <1>8, <2>2 DEF Hear, GoOn
  <2>3. CASE worker = "find" /\ AfterFind
    <3>1. CASE answer = {}
      BY <2>2, <2>3, <3>1 DEF AfterFind
    <3>2. CASE answer # {}
      BY <2>2, <2>3, <3>2 DEF AfterFind
    <3> QED
      BY <3>1, <3>2
  <2>4. CASE worker = "delete" /\ AfterDeletes
    <3>1. CASE todo = {}
      BY <2>2, <2>4, <3>1 DEF AfterDeletes
    <3>2. CASE todo # {}
      BY <2>2, <2>4, <3>2 DEF AfterDeletes
    <3> QED
      BY <3>1, <3>2
  <2>5. CASE worker \in {"find", "check"} /\ Finish(ZeroVerdict)
    BY <1>8, <2>1, <2>5 DEF Hear, ZeroVerdict
  <2>6. CASE worker = "delete" /\ Finish("error")
    BY <2>1, <2>6
  <2> QED
    BY <1>8, <2>3, <2>4, <2>5, <2>6 DEF Hear, Heard
<1>9. CASE SocketError
  BY <1>9 DEF SocketError, Finish
<1>10. ASSUME NEW f \in flows, FlowEnds(f) PROVE CallInv'
  BY <1>10 DEF FlowEnds
<1>11. ASSUME NEW f \in late, LatePacket(f) PROVE CallInv'
  BY <1>11 DEF LatePacket
<1>12. CASE UNCHANGED callVars
  BY <1>12 DEF callVars
<1> QED
  BY <1>1, <1>2, <1>3, <1>4, <1>5, <1>6, <1>7, <1>8, <1>9, <1>10, <1>11, <1>12
     DEF CallNext, Send

LEMMA CallInvariance == CallSpec => []CallInv
  BY InitCall, NextCall, PTL DEF CallSpec

(***************************************************************************)
(* Once withConn has returned, with a timeout too, its worker has ended    *)
(* and its socket is closed.                                               *)
(***************************************************************************)
THEOREM WorkersJoined == CallSpec => []NoStrayWorker
<1>1. CallInv => NoStrayWorker
  BY DEF CallInv
<1> QED
  BY <1>1, CallInvariance, PTL

(***************************************************************************)
(* Success of Clear and of Zero proves that the retirement had no flow at  *)
(* some moment of that very call.                                          *)
(***************************************************************************)
THEOREM SuccessProven == CallSpec => []SuccessIsProof
<1>1. CallInv => SuccessIsProof
  BY DEF CallInv
<1> QED
  BY <1>1, CallInvariance, PTL
=============================================================================
