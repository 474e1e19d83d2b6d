----------------------------- MODULE RelayKernel -----------------------------
(***************************************************************************)
(* The two kernel objects the agent owns or edits: its nftables table      *)
(* (internal/nftctl), replaced in one atomic batch, and the conntrack      *)
(* entries its DNAT rules create (internal/conntrackctl).                  *)
(*                                                                         *)
(* A table is its DNAT rules, its retirement drop rules (both directions   *)
(* of one retirement count as one fence) and the quarantine drop rule.     *)
(***************************************************************************)
EXTENDS RetirementLedger

Rules == [id : IDs, key : Keys, target : Targets, opts : Options, mark : Marks]

Tables ==
    [present : BOOLEAN, rules : SUBSET Rules, fences : SUBSET Retirements,
     quarantine : BOOLEAN]

NoTable ==
    [present |-> FALSE, rules |-> {}, fences |-> {}, quarantine |-> FALSE]

(***************************************************************************)
(* Plan turns mappings into rules; a nil flow mark becomes 0.              *)
(***************************************************************************)
(* seeded fault: a nil mark is dereferenced as it is *)
ValueAsIs(v) == v

ValueOrZero(v) == IF v = Absent THEN 0 ELSE v

RuleOf(m) == [m EXCEPT !.mark = ValueOrZero(m.mark)]

Plan(s) == {RuleOf(m) : m \in s.mappings}

ApplyManaged(rules, retirements) ==
    [present |-> TRUE, rules |-> rules, fences |-> retirements,
     quarantine |-> FALSE]

Quarantine ==
    [present |-> TRUE, rules |-> {}, fences |-> {}, quarantine |-> TRUE]

(***************************************************************************)
(* HasManagedState looks for the agent's rule tags.  Every DNAT rule       *)
(* carries one, a rule of a legacy mapping too.                            *)
(***************************************************************************)
HasManagedState(t) == t.rules # {} \/ t.fences # {} \/ t.quarantine

VerifyManaged(t, rules, retirements) == t = ApplyManaged(rules, retirements)

-----------------------------------------------------------------------------
(***************************************************************************)
(* A flow is what its first packet was translated by.                      *)
(***************************************************************************)
Flows == [mark : Marks, key : Keys, target : Targets]

FlowOf(r) == [mark |-> r.mark, key |-> r.key, target |-> r.target]

(***************************************************************************)
(* The drop rules of the forward chain: a retirement fence matches the     *)
(* mark and the original public port of a translated flow, the quarantine  *)
(* matches every translated flow.                                          *)
(***************************************************************************)
Fences(r, f) == r.mark = f.mark /\ r.key = f.key

Dropped(t, f) == t.quarantine \/ \E r \in t.fences : Fences(r, f)

(***************************************************************************)
(* conntrackctl.matches: the exact flows of one retirement.                *)
(***************************************************************************)
Matches(f, r) == f.mark = r.mark /\ f.key = r.key /\ f.target = r.target

FlowsOf(flows, rs) == {f \in flows : \E r \in rs : Matches(f, r)}
=============================================================================
