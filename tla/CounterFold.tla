----------------------------- MODULE CounterFold -----------------------------
(***************************************************************************)
(* Traffic counters: the kernel's counter objects, which every table       *)
(* replace recreates at zero, and the running totals the agent keeps of    *)
(* them (internal/agent/counters.go).                                      *)
(*                                                                         *)
(* A fold reads the counters and adds what is new; a replace destroys what *)
(* was not read; MarkReset tells the totals that the counters start over.  *)
(* The module follows one agent through its boots and poll cycles at these *)
(* three points.  Packets are counted, the table is wiped and the process  *)
(* dies between any two of them.  The eight fields of a counter are folded *)
(* alike, so one stands for all.  A quarantined agent has no counter       *)
(* objects and no totals, and is left out.                                 *)
(***************************************************************************)
EXTENDS Naturals

CONSTANTS
    CountedIDs,
    MaxTraffic           \* bound: packets counted and not destroyed, by mapping

ASSUME CounterAssumption == MaxTraffic \in Nat

VARIABLES
    present,     \* kernel: is the table there?
    counter,     \* kernel: the counter objects, by mapping
    m,           \* agent: [cum, last] of every mapping it ever folded
    pc, job,     \* agent: where it is, and what it is installing
    booted,      \* agent: did the boot apply take?
    installed,   \* agent: mappings of the last successful apply
    marked,      \* history: the last replace was the agent's own, and its
                 \* MarkReset has followed or is still to come
    owed         \* history: packets counted and not destroyed unread

foldVars == <<present, counter, m, pc, job, booted, installed, marked, owed>>

-----------------------------------------------------------------------------
Zero == [id \in CountedIDs |-> 0]
Nothing == [id \in {} |-> 0]

Entry(mm, id) == IF id \in DOMAIN mm THEN mm[id] ELSE [cum |-> 0, last |-> 0]

(***************************************************************************)
(* What a fold adds for a raw reading k: a reading below the last one      *)
(* means that the counter started over.                                    *)
(***************************************************************************)
Delta(e, k) == IF k >= e.last THEN k - e.last ELSE k

(* seeded fault: the last reading is not remembered *)
FoldFieldForgets(e, k) == [cum |-> e.cum + Delta(e, k), last |-> e.last]

FoldField(e, k) == [cum |-> e.cum + Delta(e, k), last |-> k]

Fold(mm, read) ==
    [id \in DOMAIN mm \cup DOMAIN read |->
        IF id \in DOMAIN read THEN FoldField(Entry(mm, id), read[id])
        ELSE mm[id]]

(* seeded fault: the baselines are kept *)
MarkResetNot(mm) == mm

MarkReset(mm) == [id \in DOMAIN mm |-> [mm[id] EXCEPT !.last = 0]]

Prune(mm, keep) == [id \in DOMAIN mm \cap keep |-> mm[id]]

(***************************************************************************)
(* foldCounters: without a table, or on a netlink error, nothing changes.  *)
(***************************************************************************)
FoldCounters(mm) == {mm} \cup (IF present THEN {Fold(mm, counter)} ELSE {})

Held(id) == IF id \in DOMAIN counter THEN counter[id] ELSE 0

Unread(id) ==
    IF id \in DOMAIN counter THEN Delta(Entry(m, id), counter[id]) ELSE 0

-----------------------------------------------------------------------------
FoldInit ==
    /\ present = FALSE /\ counter = Nothing
    /\ m = Nothing /\ pc = "down" /\ job = [kind |-> "none", ids |-> {}]
    /\ booted = FALSE /\ installed = {} /\ marked = TRUE
    /\ owed = Zero

history == <<marked, owed>>

(***************************************************************************)
(* Boot folds what the previous run's table counted, then installs the     *)
(* restored mappings or none.                                              *)
(***************************************************************************)
Boot(ids) ==
    /\ pc = "down"
    /\ m' \in FoldCounters(m)
    /\ pc' = "replace" /\ job' = [kind |-> "boot", ids |-> ids]
    /\ UNCHANGED <<present, counter, booted, installed, history>>

(***************************************************************************)
(* A poll folds first; its report carries the totals.                      *)
(***************************************************************************)
Poll ==
    /\ pc = "idle"
    /\ m' \in FoldCounters(m)
    /\ pc' = "polled"
    /\ UNCHANGED <<present, counter, job, booted, installed, history>>

(***************************************************************************)
(* The answer.  Nothing to do; a changed document (folded once more before *)
(* its replace); a table that is gone or cannot be inspected, re-asserted  *)
(* without another fold; a boot converge to retry.                         *)
(***************************************************************************)
AnswerIdle ==
    /\ pc = "polled"
    /\ pc' = "idle"
    /\ UNCHANGED <<present, counter, m, job, booted, installed, history>>

StartReplace(kind, ids) ==
    /\ pc = "polled"
    /\ pc' = "replace" /\ job' = [kind |-> kind, ids |-> ids]
    /\ UNCHANGED <<present, counter, booted, installed, history>>

AnswerChanged(ids) == StartReplace("cycle", ids) /\ m' \in FoldCounters(m)

AnswerAssert == booted /\ StartReplace("assert", installed) /\ m' = m

AnswerRetry == ~booted /\ StartReplace("retry", {}) /\ m' \in FoldCounters(m)

(***************************************************************************)
(* The replace: every counter object is new, what was not folded is gone.  *)
(***************************************************************************)
Destroyed(S) == [id \in CountedIDs |-> IF id \in S THEN Entry(m, id).cum ELSE owed[id]]

Install(ids) ==
    /\ present' = TRUE
    /\ counter' = [id \in ids |-> 0]
    /\ owed' = Destroyed(CountedIDs)

ReplaceTable ==
    /\ pc = "replace"
    /\ Install(job.ids)
    /\ pc' = "replaced" /\ marked' = TRUE
    /\ UNCHANGED <<m, job, booted, installed>>

(***************************************************************************)
(* A persist before the replace, or the replace itself, fails.             *)
(***************************************************************************)
ReplaceFails ==
    /\ pc = "replace"
    /\ pc' = "idle"
    /\ UNCHANGED <<present, counter, m, job, booted, installed, history>>

(***************************************************************************)
(* Everything after the replace went well.  Only a cycle prunes.           *)
(***************************************************************************)
ApplyDone ==
    /\ pc = "replaced"
    /\ pc' = "idle"
    /\ m' = IF job.kind = "cycle" THEN Prune(MarkReset(m), job.ids) ELSE MarkReset(m)
    /\ owed' = [id \in CountedIDs |-> IF id \in DOMAIN m' THEN owed[id] ELSE Held(id)]
    /\ booted' = TRUE /\ installed' = job.ids
    /\ UNCHANGED <<present, counter, job, marked>>

(***************************************************************************)
(* The readback, a conntrack deletion or the second persist fails: the     *)
(* table is new, and nothing says so to the totals.                        *)
(***************************************************************************)
ApplyAborts ==
    /\ pc = "replaced"
    /\ pc' = "idle" /\ marked' = FALSE
    /\ UNCHANGED <<present, counter, m, job, booted, installed, owed>>

-----------------------------------------------------------------------------
Packet(id) ==
    /\ owed[id] < MaxTraffic
    /\ counter' = [counter EXCEPT ![id] = @ + 1]
    /\ owed' = [owed EXCEPT ![id] = @ + 1]
    /\ UNCHANGED <<present, m, pc, job, booted, installed, marked>>

Wipe ==
    /\ present
    /\ present' = FALSE /\ counter' = Nothing
    /\ owed' = Destroyed(DOMAIN counter)
    /\ UNCHANGED <<m, pc, job, booted, installed, marked>>

(* `relay-agent apply` beside a running agent *)
OneShotApply(ids) ==
    /\ Install(ids)
    /\ marked' = FALSE
    /\ UNCHANGED <<m, pc, job, booted, installed>>

Restart ==
    /\ pc # "down"
    /\ pc' = "down" /\ m' = Nothing /\ job' = [kind |-> "none", ids |-> {}]
    /\ booted' = FALSE /\ installed' = {} /\ marked' = TRUE
    /\ owed' = [id \in CountedIDs |-> Held(id)]
    /\ UNCHANGED <<present, counter>>

FoldNext ==
    \/ \E ids \in SUBSET CountedIDs :
          Boot(ids) \/ AnswerChanged(ids) \/ OneShotApply(ids)
    \/ Poll \/ AnswerIdle \/ AnswerAssert \/ AnswerRetry
    \/ ReplaceTable \/ ReplaceFails \/ ApplyDone \/ ApplyAborts
    \/ \E id \in DOMAIN counter : Packet(id)
    \/ Wipe \/ Restart

FoldSpec == FoldInit /\ [][FoldNext]_foldVars

-----------------------------------------------------------------------------
Totals == {t \in [cum : Nat, last : Nat] : t.last <= t.cum}

(***************************************************************************)
(* Types; a baseline never exceeds its total, across folds, resets and     *)
(* wipes (foldField, MarkReset).                                           *)
(***************************************************************************)
FoldTypeOK ==
    /\ present \in BOOLEAN
    /\ DOMAIN counter \subseteq CountedIDs /\ counter \in [DOMAIN counter -> Nat]
    /\ DOMAIN m \subseteq CountedIDs /\ m \in [DOMAIN m -> Totals]
    /\ pc \in {"down", "idle", "polled", "replace", "replaced"}
    /\ job.kind \in {"none", "boot", "cycle", "assert", "retry"}
    /\ job.ids \subseteq CountedIDs
    /\ booted \in BOOLEAN /\ installed \subseteq CountedIDs
    /\ marked \in BOOLEAN
    /\ owed \in [CountedIDs -> Nat]

(***************************************************************************)
(* No packet is counted twice, whatever fails between a fold, a replace    *)
(* and the MarkReset: the total, with what the next fold would add, stays  *)
(* within the packets the kernel counted for the mapping.                  *)
(***************************************************************************)
NeverOvercounts ==
    \A id \in CountedIDs : Entry(m, id).cum + Unread(id) <= owed[id]

(***************************************************************************)
(* Nothing is undercounted either: the only packets missing from a total   *)
(* are those a replace or a wipe destroyed before they were read.  It      *)
(* holds again after every successful apply, and is lost only by a replace *)
(* the totals are not told of: a step after it fails, or another process   *)
(* made it (cycle calls MarkReset at the end of a successful apply).       *)
(***************************************************************************)
NothingUndercounted ==
    marked /\ pc # "replaced" =>
        \A id \in CountedIDs : Entry(m, id).cum + Unread(id) = owed[id]

=============================================================================
