------------------------------ MODULE SyncLoop ------------------------------
(***************************************************************************)
(* The poll loop in time: Run's ticker and select, runOnce's follow-up     *)
(* cycle, and one HTTP exchange with its timeout (agent.go, http.go).  The *)
(* ticker's channel holds one tick; a tick that finds it full is dropped.  *)
(*                                                                         *)
(* Time is counted in seconds, by what is left of each timer.              *)
(***************************************************************************)
EXTENDS Naturals

CONSTANTS
    Interval,        \* cfg.PollInterval
    RequestTimeout,  \* requestTimeout of the HTTP client
    ApplyTime,       \* bound: duration of one apply
    MaxChanges           \* bound: changes of the desired state

ASSUME LoopAssumption ==
    /\ {Interval, RequestTimeout} \subseteq Nat \ {0}
    /\ {ApplyTime, MaxChanges} \subseteq Nat

VARIABLES
    tickIn, slot,        \* ticker: seconds to its next tick, the channel
    pc, follow,          \* loop: where it is, is this the follow-up cycle?
    left,                \* seconds left of the request or the apply
    reportedGen, reply,         \* the generation reported in this cycle, the answer
    heldGen, desired,       \* generations: applied by the agent, of the platform
    cancelled,           \* the context (SIGTERM)
    inRun                \* history: requests of this runOnce

loop == <<tickIn, slot, pc, follow, left>>
exchange == <<reportedGen, reply>>
loopVars == <<loop, exchange, heldGen, desired, cancelled, inRun>>

NoReply == [kind |-> "none", gen |-> 0]

LoopInit ==
    /\ tickIn = Interval /\ slot = 0 /\ pc = "cycle" /\ follow = FALSE /\ left = 0
    /\ reportedGen = 0 /\ reply = NoReply /\ heldGen = 0 /\ desired = 0
    /\ cancelled = FALSE /\ inRun = 0

-----------------------------------------------------------------------------
(***************************************************************************)
(* Run and runOnce.  A cycle that advanced the generation is followed by   *)
(* one more; after that, and after any failure, only the ticker re-enters. *)
(***************************************************************************)
BeginCycle ==
    /\ pc = "cycle" /\ ~cancelled
    /\ pc' = "request" /\ left' = RequestTimeout /\ inRun' = inRun + 1
    /\ reportedGen' = heldGen /\ reply' = NoReply
    /\ UNCHANGED <<tickIn, slot, follow, heldGen, desired, cancelled>>

(* seeded fault: every cycle that advanced is followed by another *)
EndCycleAgain(advanced) ==
    /\ follow' = advanced
    /\ pc' = IF advanced THEN "cycle" ELSE "select"
    /\ left' = 0

EndCycle(advanced) ==
    /\ follow' = (advanced /\ ~follow)
    /\ pc' = IF advanced /\ ~follow THEN "cycle" ELSE "select"
    /\ left' = 0

(* seeded fault: the loop waits for the tick alone *)
StopNever ==
    /\ pc = "select" /\ cancelled /\ slot > 1
    /\ UNCHANGED loopVars

Stop ==
    /\ pc = "select" /\ cancelled
    /\ pc' = "stopped"
    /\ UNCHANGED <<tickIn, slot, follow, left, exchange, heldGen, desired, cancelled, inRun>>

TakeTick ==
    /\ pc = "select" /\ slot = 1
    /\ pc' = "cycle" /\ follow' = FALSE /\ slot' = 0 /\ inRun' = 0
    /\ UNCHANGED <<tickIn, left, exchange, heldGen, desired, cancelled>>

-----------------------------------------------------------------------------
(***************************************************************************)
(* The exchange.  The client waits for the whole answer until the timeout  *)
(* or the end of the context; anything but a well-formed answer, or an     *)
(* unchanged answer that confirms another generation, is an error.         *)
(***************************************************************************)
GiveUp ==
    /\ EndCycle(FALSE)
    /\ UNCHANGED <<tickIn, slot, exchange, heldGen, desired, cancelled, inRun>>

(* seeded fault: the client has no timeout *)
RequestHangs == pc = "request" /\ left = 0 /\ cancelled /\ GiveUp

RequestTimesOut == pc = "request" /\ left = 0 /\ GiveUp

RequestCancelled == pc = "request" /\ cancelled /\ GiveUp

(***************************************************************************)
(* A request whose context has ended already is not sent.                  *)
(***************************************************************************)
RequestRefused ==
    /\ pc = "cycle" /\ cancelled
    /\ EndCycle(FALSE)
    /\ UNCHANGED <<tickIn, slot, exchange, heldGen, desired, cancelled, inRun>>

BadAnswer == pc = "request" /\ reply # NoReply /\ GiveUp

AnswerUnchanged ==
    /\ pc = "request" /\ reply.kind = "unchanged"
    /\ EndCycle(FALSE)
    /\ UNCHANGED <<tickIn, slot, exchange, heldGen, desired, cancelled, inRun>>

AnswerChanged ==
    /\ pc = "request" /\ reply.kind = "changed"
    /\ pc' = "apply" /\ left' = ApplyTime
    /\ UNCHANGED <<tickIn, slot, follow, exchange, heldGen, desired, cancelled, inRun>>

ApplyEnds ==
    /\ pc = "apply"
    /\ heldGen' = reply.gen /\ EndCycle(reply.gen # heldGen)
    /\ UNCHANGED <<tickIn, slot, exchange, desired, cancelled, inRun>>

LoopApplyFails ==
    /\ pc = "apply"
    /\ EndCycle(FALSE)
    /\ UNCHANGED <<tickIn, slot, exchange, heldGen, desired, cancelled, inRun>>

-----------------------------------------------------------------------------
(***************************************************************************)
(* The platform answers, late or never; its desired state changes.         *)
(***************************************************************************)
PlatformAnswers ==
    /\ pc = "request" /\ reply = NoReply
    /\ reply' = [kind |-> IF reportedGen = desired THEN "unchanged" ELSE "changed", gen |-> desired]
    /\ UNCHANGED <<loop, reportedGen, heldGen, desired, cancelled, inRun>>

PlatformChanges ==
    /\ desired < MaxChanges /\ desired' = desired + 1
    /\ UNCHANGED <<loop, exchange, heldGen, cancelled, inRun>>

-----------------------------------------------------------------------------
(***************************************************************************)
(* Time does not pass a deadline that is due, nor a step that is ready.    *)
(***************************************************************************)
Working == pc \in {"request", "apply"}

Idle == pc = "select" /\ ~cancelled /\ slot = 0

Second ==
    /\ tickIn > 0 /\ (Idle \/ (Working /\ left > 0))
    /\ tickIn' = tickIn - 1
    /\ left' = IF Working THEN left - 1 ELSE left
    /\ UNCHANGED <<slot, pc, follow, exchange, heldGen, desired, cancelled, inRun>>

TickerFires ==
    /\ tickIn = 0
    /\ slot' = 1 /\ tickIn' = Interval
    /\ UNCHANGED <<pc, follow, left, exchange, heldGen, desired, cancelled, inRun>>

Signal ==
    /\ ~cancelled /\ cancelled' = TRUE
    /\ UNCHANGED <<loop, exchange, heldGen, desired, inRun>>

Finishes == ApplyEnds \/ LoopApplyFails

LoopNext ==
    \/ BeginCycle \/ Stop \/ TakeTick
    \/ RequestTimesOut \/ RequestCancelled \/ RequestRefused \/ BadAnswer
    \/ AnswerUnchanged \/ AnswerChanged
    \/ Finishes
    \/ PlatformAnswers \/ PlatformChanges
    \/ Second \/ TickerFires \/ Signal

(***************************************************************************)
(* Time goes on, the runtime delivers ticks and runs the loop, and an      *)
(* apply ends.  Nothing is assumed of the platform or the network.         *)
(***************************************************************************)
LoopFairness ==
    /\ WF_loopVars(Second) /\ WF_loopVars(TickerFires) /\ WF_loopVars(BeginCycle)
    /\ WF_loopVars(Stop \/ TakeTick) /\ WF_loopVars(Finishes)
    /\ WF_loopVars(RequestTimesOut \/ RequestCancelled \/ RequestRefused)

LoopSpec == LoopInit /\ [][LoopNext]_loopVars /\ LoopFairness

-----------------------------------------------------------------------------
(***************************************************************************)
(* Types; the ticker holds at most one tick, and the agent never holds a   *)
(* generation the platform has not issued.                                 *)
(***************************************************************************)
LoopTypeOK ==
    /\ tickIn \in 0..Interval /\ slot \in {0, 1}
    /\ pc \in {"cycle", "request", "apply", "select", "stopped"} /\ follow \in BOOLEAN
    /\ left \in 0..RequestTimeout + ApplyTime
    /\ reportedGen \in 0..heldGen
    /\ reply \in [kind : {"none", "unchanged", "changed"}, gen : 0..desired]
    /\ heldGen \in 0..desired /\ desired \in 0..MaxChanges
    /\ cancelled \in BOOLEAN /\ inRun \in Nat

(***************************************************************************)
(* "nothing can tight-loop" (agent.go, runOnce): between two ticks the     *)
(* agent makes at most two requests, however often the desired state       *)
(* changes under it and whatever fails.                                    *)
(***************************************************************************)
NoTightLoop == inRun <= 2

(***************************************************************************)
(* The agent goes on polling although the platform is silent for ever,     *)
(* until it is told to stop.                                               *)
(***************************************************************************)
KeepsPolling == []<>(pc = "cycle" \/ cancelled)

(***************************************************************************)
(* A signal ends the loop, also when it arrives in the middle of a request *)
(* or of an apply, or together with a tick (Run's select).                 *)
(***************************************************************************)
StopsWhenAsked == cancelled ~> pc = "stopped"
=============================================================================
