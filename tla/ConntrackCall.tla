---------------------------- MODULE ConntrackCall ----------------------------
(***************************************************************************)
(* One conntrack operation under its timeout (internal/conntrackctl).      *)
(* withConn opens a netlink socket and hands it to a worker goroutine,     *)
(* which runs Clear or Zero of one retirement; the caller waits for the    *)
(* worker or for the timer, closes the socket and, after a timeout, still  *)
(* waits for the worker.                                                   *)
(*                                                                         *)
(* A netlink request takes effect in the kernel when it is sent; its       *)
(* answer may come late or never, until the socket is closed under it.     *)
(* The caller is the agent: it repeats Clear until one call succeeds, then *)
(* checks Zero.  Only flows of the retirement are shown; they are fenced,  *)
(* so none is new, but packets that passed the old rule may still be       *)
(* confirmed and flows may end by themselves at any moment.                *)
(***************************************************************************)
EXTENDS Naturals

CONSTANTS
    Flows,           \* conntrack entries that match the retirement
    MaxTimeouts      \* bound: calls that exceed operationTimeout

ASSUME CallAssumption == MaxTimeouts \in Nat

VARIABLES
    flows, late,             \* kernel: entries, packets not yet confirmed
    caller, op, result,      \* withConn: its state, what it runs, what it returned
    worker, asked, answer,   \* goroutine: its step, a request on its way
    todo,                    \* goroutine: found flows not yet deleted
    sock, done,              \* the socket, the buffered channel
    cleared,                 \* has a Clear succeeded (the ledger's flag)?
    timeouts,
    empty                    \* history: no flow existed at some point of the call

kernel == <<flows, late>>
callerVars == <<caller, op, result, cleared, timeouts>>
workerVars == <<worker, asked, answer, todo>>
callVars == <<kernel, callerVars, workerVars, sock, done, empty>>

CallInit ==
    /\ flows \in SUBSET Flows /\ late \in SUBSET (Flows \ flows)
    /\ caller = "idle" /\ op = "clear" /\ result = "none"
    /\ worker = "none" /\ asked = FALSE /\ answer = {} /\ todo = {}
    /\ sock = "closed" /\ done = "empty"
    /\ cleared = FALSE /\ timeouts = 0 /\ empty = FALSE

Watch == empty' = (empty \/ flows' = {})

-----------------------------------------------------------------------------
(***************************************************************************)
(* The caller.                                                             *)
(***************************************************************************)
DialFails ==
    /\ caller = "idle"
    /\ result' = "error"
    /\ empty' = FALSE
    /\ UNCHANGED <<kernel, caller, op, cleared, timeouts, workerVars, sock, done>>

Call ==
    /\ caller = "idle"
    /\ caller' = "waiting" /\ result' = "none"
    /\ op' = IF cleared THEN "zero" ELSE "clear"
    /\ sock' = "open" /\ done' = "empty"
    /\ worker' = "find" /\ asked' = FALSE /\ answer' = {} /\ todo' = {}
    /\ empty' = (flows = {})
    /\ UNCHANGED <<kernel, cleared, timeouts>>

Return(r) ==
    /\ caller' = "idle" /\ result' = r
    /\ cleared' = (cleared \/ (op = "clear" /\ r = "ok"))
    /\ sock' = "closed"
    /\ UNCHANGED <<kernel, op, timeouts, workerVars, done, empty>>

ReceiveDone ==
    /\ caller = "waiting" /\ done # "empty"
    /\ Return(done)

(* seeded fault: the socket is left open *)
TimerFiresOpen ==
    /\ caller = "waiting" /\ timeouts < MaxTimeouts
    /\ timeouts' = timeouts + 1
    /\ caller' = "closing"
    /\ UNCHANGED <<kernel, op, result, cleared, workerVars, sock, done, empty>>

TimerFires ==
    /\ caller = "waiting" /\ timeouts < MaxTimeouts
    /\ timeouts' = timeouts + 1
    /\ caller' = "closing" /\ sock' = "closed"
    /\ UNCHANGED <<kernel, op, result, cleared, workerVars, done, empty>>

(* seeded fault: the timed-out call does not wait for its worker *)
TimeoutUnjoined == caller = "closing" /\ Return("error")

TimeoutReturns ==
    /\ caller = "closing" /\ done # "empty"
    /\ Return("error")

-----------------------------------------------------------------------------
(***************************************************************************)
(* The worker.  find, delete and check are the requests of Clear; Zero has *)
(* the first only.                                                         *)
(***************************************************************************)
Finish(r) ==
    /\ worker' = "ended" /\ asked' = FALSE /\ done' = r
    /\ UNCHANGED <<kernel, callerVars, answer, todo, sock, empty>>

GoOn(step) ==
    /\ worker' = step /\ asked' = FALSE
    /\ UNCHANGED <<kernel, callerVars, answer, sock, done, empty>>

Dump ==
    /\ worker \in {"find", "check"} /\ ~asked /\ sock = "open"
    /\ asked' = TRUE /\ answer' = flows
    /\ UNCHANGED <<kernel, callerVars, worker, todo, sock, done>>
    /\ Watch

(***************************************************************************)
(* Deleting an entry that has ended meanwhile is an error.                 *)
(***************************************************************************)
Delete(f) ==
    /\ worker = "delete" /\ ~asked /\ sock = "open" /\ f \in todo
    /\ asked' = TRUE
    /\ answer' = {f} \cap flows
    /\ flows' = flows \ {f}
    /\ todo' = todo \ {f}
    /\ Watch
    /\ UNCHANGED <<late, callerVars, worker, sock, done>>

ZeroVerdict == IF answer = {} THEN "ok" ELSE "error"

(* seeded fault: the deletions are trusted, no second dump *)
AfterDeletesTrusting == IF todo = {} THEN Finish("ok") ELSE GoOn("delete") /\ UNCHANGED todo

AfterDeletes == GoOn(IF todo = {} THEN "check" ELSE "delete") /\ UNCHANGED todo

(* seeded fault: the found flows are not deleted *)
AfterFindSkips == GoOn("check") /\ UNCHANGED todo

AfterFind ==
    /\ GoOn(IF answer = {} THEN "check" ELSE "delete")
    /\ todo' = answer

Heard ==
    \/ worker = "find" /\ op = "zero" /\ Finish(ZeroVerdict)
    \/ worker = "find" /\ op = "clear" /\ AfterFind
    \/ worker = "delete" /\ answer # {} /\ AfterDeletes
    \/ worker = "delete" /\ answer = {} /\ Finish("error")
    \/ worker = "check" /\ Finish(ZeroVerdict)

Hear == asked /\ sock = "open" /\ Heard

(***************************************************************************)
(* A request on a closed socket, or one it is closed under, fails.         *)
(***************************************************************************)
SocketError ==
    /\ worker \in {"find", "delete", "check"} /\ sock = "closed"
    /\ Finish("error")

-----------------------------------------------------------------------------
FlowEnds(f) ==
    /\ flows' = flows \ {f}
    /\ Watch
    /\ UNCHANGED <<late, callerVars, workerVars, sock, done>>

LatePacket(f) ==
    /\ flows' = flows \cup {f} /\ late' = late \ {f}
    /\ UNCHANGED <<callerVars, workerVars, sock, done, empty>>

Send == Dump \/ \E f \in todo : Delete(f)

CallNext ==
    \/ DialFails \/ Call \/ ReceiveDone \/ TimerFires \/ TimeoutReturns
    \/ Send \/ Hear \/ SocketError
    \/ \E f \in flows : FlowEnds(f)
    \/ \E f \in late : LatePacket(f)

(***************************************************************************)
(* The goroutines run and the timer expires; the kernel may leave a        *)
(* request without an answer.  A call may time out however often.          *)
(***************************************************************************)
CallFairness ==
    /\ WF_callVars(ReceiveDone \/ TimeoutReturns)
    /\ WF_callVars(TimerFires)
    /\ WF_callVars(Send \/ SocketError)

CallSpec == CallInit /\ [][CallNext]_callVars /\ CallFairness

-----------------------------------------------------------------------------
(***************************************************************************)
(* Types; the channel of withConn holds an answer only of a worker that    *)
(* has ended.                                                              *)
(***************************************************************************)
CallTypeOK ==
    /\ flows \subseteq Flows /\ late \subseteq Flows
    /\ caller \in {"idle", "waiting", "closing"} /\ op \in {"clear", "zero"}
    /\ result \in {"none", "ok", "error"} /\ done \in {"empty", "ok", "error"}
    /\ worker \in {"none", "find", "delete", "check", "ended"}
    /\ asked \in BOOLEAN /\ answer \subseteq Flows /\ todo \subseteq Flows
    /\ sock \in {"open", "closed"} /\ cleared \in BOOLEAN
    /\ timeouts \in 0..MaxTimeouts /\ empty \in BOOLEAN
    /\ done # "empty" => worker = "ended"

(***************************************************************************)
(* No worker outlives its call: once withConn has returned, with a timeout *)
(* too, nothing deletes a flow any more and the socket is closed.          *)
(***************************************************************************)
NoStrayWorker ==
    caller = "idle" => worker \in {"none", "ended"} /\ sock = "closed"

(***************************************************************************)
(* A call that reports success has seen the retirement without a flow: at  *)
(* some moment during the call there was none, whatever was confirmed or   *)
(* ended while it deleted.                                                 *)
(***************************************************************************)
SuccessIsProof == caller = "idle" /\ result = "ok" => empty

(***************************************************************************)
(* Every call returns, although the kernel may never answer: the timeout   *)
(* closes the socket, which ends the worker, which lets the caller go.     *)
(* (A call that could no longer time out in this instance is left out.)    *)
(***************************************************************************)
CallReturns ==
    caller # "idle" ~> (caller = "idle" \/ (timeouts = MaxTimeouts /\ caller = "waiting"))

(***************************************************************************)
(* A retirement is cleared in the end: a deletion that failed because its  *)
(* flow had just ended, or a timeout after everything was deleted, is made *)
(* good by a later call.  It takes an agent that polls on and a kernel     *)
(* that answers the requests which are not cut off.                        *)
(***************************************************************************)
EventuallyCleared == WF_callVars(Call) /\ WF_callVars(Hear) => <>cleared
=============================================================================
