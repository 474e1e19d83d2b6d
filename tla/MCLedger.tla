------------------------------ MODULE MCLedger ------------------------------
(***************************************************************************)
(* Small instance of LedgerMachine.  The documents on offer pair ids with  *)
(* right and wrong marks at every generation, give one mapping a second    *)
(* target, and retire under a foreign UUID or with a stale target, so      *)
(* replayed, contradictory and forged snapshots all occur.  Documents that *)
(* can never be valid are left out, two kinds excepted: a retirement of an *)
(* active mapping and one whose hash does not match.                       *)
(***************************************************************************)
EXTENDS LedgerMachine

MCKeys == {"k1", "k2"}
MCTargets == {"t1", "t2"}
MCOptions == {"plain"}
MCRetirementIDs == {"r1", "r2"}

Map(i, k, t) ==
    [id |-> i, key |-> IF i = 1 THEN "k1" ELSE "k2", target |-> t,
     opts |-> "plain", mark |-> k]

Retire(u, m, g) ==
    [rid |-> u, id |-> m.id, gen |-> g, key |-> m.key, target |-> m.target,
     mark |-> m.mark, hash |-> MappingHash(m)]

First == Map(1, 1, "t1")
Second == Map(2, 2, "t1")

OfferedMappings ==
    {{}, {First}, {Second}, {First, Second}, {Map(1, 1, "t2")},
     {Map(1, 2, "t1")}, {Map(2, 1, "t1")}, {First, Map(2, 3, "t1")},
     {Map(1, 3, "t1"), Second}}

OfferedRetirements(g) ==
    {{}, {Retire("r1", First, g)}, {Retire("r2", Second, g)},
     {Retire("r1", Second, g)},
     {Retire("r1", Map(1, 1, "t2"), g)},
     {[Retire("r1", First, g) EXCEPT !.target = "t2"]}}

OfferedAt(g) ==
    [gen : {g}, managed : {TRUE}, mappings : OfferedMappings,
     retirements : UNION {OfferedRetirements(h) : h \in 1..g},
     ack : 0..(g - 1)]

LegacyOffers ==
    [gen : 0..1, mappings : {{}}, managed : {FALSE}, retirements : {{}},
     ack : {Absent}]

ManagedZero ==
    [gen : {0}, mappings : {{}}, managed : {TRUE}, retirements : {{}}, ack : {0}]

MCOffers == UNION {OfferedAt(g) : g \in 1..MaxGeneration}
                \cup LegacyOffers \cup ManagedZero
=============================================================================
