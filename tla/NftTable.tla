------------------------------ MODULE NftTable ------------------------------
(***************************************************************************)
(* The agent's table as it lies in the kernel: built by ApplyManaged or    *)
(* ApplyQuarantine in one batch, read back rule by rule by VerifyManaged   *)
(* or VerifyQuarantine, edited by somebody else in between, and run by the *)
(* packets of established flows, which only see the forward chain.         *)
(***************************************************************************)
EXTENDS NftRules

CONSTANTS
    Plans,           \* pairs of a rule sequence and a retirement sequence
    Guards,          \* cfg.Guards
    MaxEdits         \* bound: changes of the table by somebody else

ASSUME TableAssumption ==
    /\ MaxEdits \in Nat
    /\ \A p \in Plans :
          /\ p.rules \in Seq(ToSet(p.rules)) /\ p.rets \in Seq(ToSet(p.rets))
          /\ ~p.quarantine
          /\ \A r \in ToSet(p.rules) : \A k, l \in r.policy : k = l
          /\ \A i, j \in DOMAIN p.rules :
                p.rules[i].proto = p.rules[j].proto /\ p.rules[i].port = p.rules[j].port => i = j

VARIABLES
    plan,        \* what the agent applied last: rules and retirements, or quarantine
    present,     \* does the table exist?
    table,       \* its chains with tags, sets and hooks
    flows,       \* established flows
    edits

vars == <<plan, present, table, flows, edits>>

WithTags(chain, tags) == [i \in DOMAIN chain |-> [rule |-> chain[i], tag |-> tags[i]]]

Untagged(chain) == [i \in DOMAIN chain |-> NoTag]

-----------------------------------------------------------------------------
ForwardChain(p) ==
    WithTags(RenderForwardRules(p.rules), Untagged(RenderForwardRules(p.rules)))
    \o WithTags(RetirementDrops(p.rets), RetirementTags(p.rets))

NatChain(p) ==
    LET chain == RenderRules(p.rules, Guards) IN WithTags(chain, Tagged(chain, p.rules))

QuarantineChain ==
    [d \in 1..2 |-> [rule |-> QuarantineRule(Directions[d]), tag |-> QuarantineTag(Directions[d])]]

Installed(p) ==
    IF p.quarantine THEN [nat |-> <<>>, fwd |-> QuarantineChain, sets |-> {}, hooks |-> TRUE]
    ELSE [nat |-> NatChain(p), fwd |-> ForwardChain(p),
          sets |-> PerSourceSets(p.rules, Guards), hooks |-> TRUE]

QuarantinePlan == [rules |-> <<>>, rets |-> <<>>, quarantine |-> TRUE]

EmptyPlan == [rules |-> <<>>, rets |-> <<>>, quarantine |-> FALSE]

Init ==
    /\ plan = EmptyPlan
    /\ present = TRUE /\ table = Installed(plan)
    /\ flows = {} /\ edits = 0

Replace(p) ==
    /\ plan' = p /\ present' = TRUE /\ table' = Installed(p)
    /\ UNCHANGED <<flows, edits>>

-----------------------------------------------------------------------------
(***************************************************************************)
(* The readback compares chains, rules and tags by position, and sets.     *)
(***************************************************************************)
SameRule(a, b) == a.kind = b.kind /\ a = b

ChainEqual(got, want, tags) ==
    /\ Len(got) = Len(want)
    /\ \A i \in DOMAIN want : got[i].tag = tags[i] /\ SameRule(got[i].rule, want[i])

ForwardRules(p) == RenderForwardRules(p.rules) \o RetirementDrops(p.rets)

ForwardTags(p) == Untagged(RenderForwardRules(p.rules)) \o RetirementTags(p.rets)

(* seeded fault: the readback relies on the tags *)
ManagedReadbackByTag(t, p) ==
    /\ t.hooks
    /\ [i \in DOMAIN t.nat |-> t.nat[i].tag] = ExpectedNatTags(p.rules, Guards)
    /\ [i \in DOMAIN t.fwd |-> t.fwd[i].tag] = ForwardTags(p)
    /\ t.sets = PerSourceSets(p.rules, Guards)

ManagedReadback(t, p) ==
    /\ t.hooks
    /\ ChainEqual(t.nat, RenderRules(p.rules, Guards), ExpectedNatTags(p.rules, Guards))
    /\ ChainEqual(t.fwd, ForwardRules(p), ForwardTags(p))
    /\ t.sets = PerSourceSets(p.rules, Guards)

QuarantineReadback(t) ==
    /\ t.nat = <<>> /\ Len(t.fwd) = 2 /\ t.sets = {} /\ t.hooks
    /\ \A d \in 1..2 :
          /\ t.fwd[d].tag = QuarantineTag(Directions[d])
          /\ SameRule(t.fwd[d].rule, QuarantineRule(Directions[d]))

Verified ==
    /\ present
    /\ IF plan.quarantine THEN QuarantineReadback(table) ELSE ManagedReadback(table, plan)

-----------------------------------------------------------------------------
(***************************************************************************)
(* Somebody else: rules are removed, swapped, retagged or changed, a hook  *)
(* or a set is, or the table is deleted.                                   *)
(***************************************************************************)
Swapped(s, i) == [s EXCEPT ![i] = s[i + 1], ![i + 1] = s[i]]

Edited(t) ==
    {[t EXCEPT !.nat = RemoveAt(@, i)] : i \in DOMAIN t.nat}
    \cup {[t EXCEPT !.fwd = RemoveAt(@, i)] : i \in DOMAIN t.fwd}
    \cup {[t EXCEPT !.nat = Swapped(@, i)] : i \in 1..Len(t.nat) - 1}
    \cup {[t EXCEPT !.fwd = Swapped(@, i)] : i \in 1..Len(t.fwd) - 1}
    \cup {[t EXCEPT !.fwd[i].tag = NoTag] : i \in DOMAIN t.fwd}
    \cup {[t EXCEPT !.fwd[i].rule.mark = @ + 1] :
              i \in {j \in DOMAIN t.fwd : t.fwd[j].rule.kind = "drop"}}
    \cup {[t EXCEPT !.nat[i].rule.port = @ + 1] : i \in DOMAIN t.nat}
    \cup {[t EXCEPT !.sets = @ \ {s}] : s \in t.sets}
    \cup {[t EXCEPT !.hooks = FALSE]}

Edit ==
    /\ present /\ edits < MaxEdits
    /\ edits' = edits + 1
    /\ table' \in Edited(table) \ {table}
    /\ UNCHANGED <<plan, present, flows>>

Wipe ==
    /\ present /\ edits < MaxEdits
    /\ edits' = edits + 1 /\ present' = FALSE
    /\ UNCHANGED <<plan, table, flows>>

(***************************************************************************)
(* An unchanged poll: the table is rebuilt if it is missing.               *)
(***************************************************************************)
PollUnchanged == ~present /\ Replace(plan)

-----------------------------------------------------------------------------
(***************************************************************************)
(* Packets.  A new flow, of a source the guards let through, takes the     *)
(* first DNAT rule of its port; later packets run down the forward chain,  *)
(* which counts until it drops.                                            *)
(***************************************************************************)
Hooked == present /\ table.hooks

DnatRules(proto, port) ==
    {i \in DOMAIN table.nat : /\ table.nat[i].rule.kind = "dnat"
                             /\ table.nat[i].rule.proto = proto /\ table.nat[i].rule.port = port}

NewFlow(r) ==
    LET found == DnatRules(r.proto, r.port)
        rule == table.nat[Min(found)].rule
    IN  /\ Hooked /\ found # {}
        /\ flows' = flows \cup {[id |-> rule.id, proto |-> r.proto, port |-> r.port,
                                 mark |-> rule.args[2]]}
        /\ UNCHANGED <<plan, present, table, edits>>

FlowEnds(f) ==
    /\ flows' = flows \ {f}
    /\ UNCHANGED <<plan, present, table, edits>>

ForwardMatches(rule, f, dir) ==
    /\ rule.dir = dir
    /\ rule.kind \in {"count", "drop"} => rule.port = f.port /\ rule.proto = f.proto
    /\ rule.kind = "drop" => rule.mark = f.mark

Forward(chain, f, dir) ==
    LET hits == {i \in DOMAIN chain : ForwardMatches(chain[i].rule, f, dir)}
        drops == {i \in hits : chain[i].rule.kind # "count"}
        counts == {i \in hits : \A j \in drops : i < j}
    IN  [counted |-> {chain[i].rule.id : i \in counts},
         verdict |-> IF drops = {} THEN "forwarded" ELSE "dropped"]

Next ==
    \/ \E p \in Plans \cup {QuarantinePlan} : Replace(p)
    \/ Edit \/ Wipe \/ PollUnchanged
    \/ \E i \in DOMAIN plan.rules : NewFlow(plan.rules[i])
    \/ \E f \in flows : FlowEnds(f)

Spec == Init /\ [][Next]_vars

-----------------------------------------------------------------------------
(***************************************************************************)
(* Types; the chains are sequences, whatever was removed from them.        *)
(***************************************************************************)
TypeOK ==
    /\ plan \in Plans \cup {QuarantinePlan, EmptyPlan}
    /\ present \in BOOLEAN /\ edits \in 0..MaxEdits
    /\ table.nat \in Seq(ToSet(table.nat)) /\ table.fwd \in Seq(ToSet(table.fwd))

Fenced(f) ==
    \/ plan.quarantine
    \/ \E i \in DOMAIN plan.rets :
          /\ plan.rets[i].proto = f.proto /\ plan.rets[i].port = f.port
          /\ plan.rets[i].mark = f.mark

Active(f) ==
    \E i \in DOMAIN plan.rules :
        /\ plan.rules[i].id = f.id /\ plan.rules[i].mark = f.mark
        /\ plan.rules[i].proto = f.proto /\ plan.rules[i].port = f.port

(***************************************************************************)
(* A table that passes the readback (VerifyManaged, VerifyQuarantine) does *)
(* what the agent applied, whoever edited it before: a flow is dropped, in *)
(* both directions, iff it is retired or all is quarantined, a flow of an  *)
(* active mapping is counted for that mapping and for no other, and a port *)
(* leads to the mapping that owns it.  (A flow that an edited rule sent to *)
(* the port of another mapping is counted there.)                          *)
(***************************************************************************)
VerifiedIsExact ==
    Verified =>
        /\ \A f \in flows, d \in 1..2 :
              LET w == Forward(table.fwd, f, Directions[d])
              IN  /\ w.verdict = "dropped" <=> Fenced(f)
                  /\ w.verdict = "forwarded" /\ Active(f) => w.counted = {f.id}
        /\ \A i \in DOMAIN plan.rules :
              LET r == plan.rules[i]
              IN  \E k \in DOMAIN table.nat :
                     DnatRules(r.proto, r.port) = {k} /\ table.nat[k].rule = DnatRule(r)
        /\ \A k \in DOMAIN table.nat :
              table.nat[k].rule.kind = "dnat" =>
                  \E i \in DOMAIN plan.rules : table.nat[k].rule = DnatRule(plan.rules[i])

(***************************************************************************)
(* What the agent builds passes its own readback: the tags given while the *)
(* rules are added agree with the tags counted for the comparison.         *)
(***************************************************************************)
OwnTableVerifies == present /\ table = Installed(plan) => Verified
=============================================================================
