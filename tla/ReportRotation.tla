--------------------------- MODULE ReportRotation ---------------------------
(***************************************************************************)
(* counterState.Snapshot: at most maxReportedCounters rows go into one     *)
(* report.  When more mappings are live, the window of reported ids        *)
(* rotates: a cursor remembers where the next report resumes.  Between two *)
(* reports folds add mappings and prunes remove them, and with them the    *)
(* mapping the cursor stands on.                                           *)
(***************************************************************************)
EXTENDS Integers, FiniteSets, FiniteSetsExt

CONSTANTS
    MappingIDs,              \* positive ids
    maxReportedCounters

ASSUME RotationAssumption ==
    /\ MappingIDs \subseteq Nat \ {0} /\ IsFiniteSet(MappingIDs)
    /\ maxReportedCounters \in Nat \ {0}

VARIABLES
    live,        \* ids the agent keeps totals for
    cursor,      \* id the next report starts at; 0 is the front
    reported,    \* ids of the last report
    rounds,      \* history: reports since live last changed
    seen         \* history: ids reported since live last changed

vars == <<live, cursor, reported, rounds, seen>>

Init ==
    /\ live = {} /\ cursor = 0 /\ reported = {}
    /\ rounds = 0 /\ seen = {}

-----------------------------------------------------------------------------
(***************************************************************************)
(* Positions count from 0 in ascending order of the ids.                   *)
(***************************************************************************)
Total == Cardinality(live)

Position(id) == Cardinality({x \in live : x < id})

At(n) == CHOOSE id \in live : Position(id) = n

(***************************************************************************)
(* The first id at or after the cursor; past the last id, the front.       *)
(***************************************************************************)
(* seeded fault: a cursor whose mapping was pruned restarts at the front *)
StartExact == IF cursor \in live THEN Position(cursor) ELSE 0

Start ==
    LET after == {id \in live : id >= cursor} IN
    IF after = {} THEN 0 ELSE Position(Min(after))

Overflowing == Total > maxReportedCounters

Window ==
    {id \in live :
        (Position(id) - Start + Total) % Total < maxReportedCounters}

(* seeded fault: the cursor stays on the last id sent *)
ResumeAtLast == At((Start + maxReportedCounters - 1) % Total)

Resume == At((Start + maxReportedCounters) % Total)

Snapshot ==
    /\ reported' = IF Overflowing THEN Window ELSE live
    /\ cursor' = IF Overflowing THEN Resume ELSE IF live = {} THEN cursor ELSE 0
    /\ seen' = seen \cup reported'
    /\ rounds' = Min({rounds + 1, Total})
    /\ UNCHANGED live

(***************************************************************************)
(* A fold adds the ids of the table, a prune keeps those of a document.    *)
(***************************************************************************)
Grow(ids) ==
    /\ live' = live \cup ids /\ live' # live
    /\ rounds' = 0 /\ seen' = {}
    /\ UNCHANGED <<cursor, reported>>

Shrink(keep) ==
    /\ live' = live \cap keep /\ live' # live
    /\ rounds' = 0 /\ seen' = {}
    /\ UNCHANGED <<cursor, reported>>

Next ==
    \/ Snapshot
    \/ \E ids \in SUBSET MappingIDs : Grow(ids) \/ Shrink(ids)

(***************************************************************************)
(* Every poll reports, also one whose answer is lost.                      *)
(***************************************************************************)
Spec == Init /\ [][Next]_vars /\ WF_vars(Snapshot)

-----------------------------------------------------------------------------
(***************************************************************************)
(* Types; the cursor is the front or an id that was live once              *)
(* (counterState.cursor).                                                  *)
(***************************************************************************)
TypeOK ==
    /\ live \subseteq MappingIDs /\ reported \subseteq MappingIDs
    /\ cursor \in MappingIDs \cup {0}
    /\ rounds \in 0..Cardinality(MappingIDs) /\ seen \subseteq live

(***************************************************************************)
(* While the live mappings stay the same, every one of them is in one of   *)
(* ceil(n / cap) consecutive reports, wherever the cursor was left by the  *)
(* mappings that were there before.                                        *)
(***************************************************************************)
RotationCovers == rounds * maxReportedCounters >= Total /\ rounds > 0 => seen = live

(***************************************************************************)
(* None starves even while mappings come and go: a mapping that stays is   *)
(* reported again and again.                                               *)
(***************************************************************************)
NoneStarves == \A id \in MappingIDs : []<>(id \notin live \/ id \in reported)
=============================================================================
