------------------------------ MODULE NftRules ------------------------------
(***************************************************************************)
(* The rules of the agent's table as nftctl renders them: the nat chain    *)
(* (allowlist, per-source guard, aggregate guard, connection limit, DNAT   *)
(* for every mapping), the forward chain (two counting rules for every     *)
(* mapping, two drop rules for every retirement), the tags and the sets.   *)
(*                                                                         *)
(* A planned rule r is [id, proto, port, target, mark, policy, over]; over *)
(* holds the guard overrides of the mapping.  A chain is a sequence of     *)
(* rules, each with the match and the statement that the properties tell   *)
(* apart.                                                                  *)
(***************************************************************************)
EXTENDS SourcePolicy, FiniteSets

(***************************************************************************)
(* Tags are kept in the kernel as user data of a rule.  The tag of a       *)
(* mapping holds the hash of its tuple.                                    *)
(***************************************************************************)
NoTag == <<"untagged", 0, <<>>>>

ActiveTag(r) == <<"active", r.id, <<r.proto, r.port, r.target, r.mark>>>>

RetirementTag(t, dir) == <<"retired", t.id, <<dir>>>>

QuarantineTag(dir) == <<"quarantine", 0, <<dir>>>>

(***************************************************************************)
(* An override replaces the default, with 0 too; 0 disables a guard.       *)
(***************************************************************************)
EffectiveGuards(r, g) ==
    [k \in DOMAIN g |-> IF k \in DOMAIN r.over THEN r.over[k] ELSE g[k]]

NatRule(kind, r, args) == [kind |-> kind, id |-> r.id, proto |-> r.proto, port |-> r.port, args |-> args]

When(c, rule) == IF c THEN <<rule>> ELSE <<>>

AclRules(r) == [i \in 1..Cardinality(r.policy) |-> NatRule("acl", r, CHOOSE l \in r.policy : TRUE)]

PerSourceRules(r, e) == When(e.psRate > 0, NatRule("persource", r, <<e.psRate, e.psBurst>>))

AggregateRules(r, e) == When(e.rate > 0, NatRule("aggregate", r, <<e.rate, e.burst>>))

ConnlimitRules(r, e) == When(e.maxConn > 0, NatRule("connlimit", r, <<e.maxConn>>))

DnatRule(r) == NatRule("dnat", r, <<r.target, r.mark>>)

(* seeded fault: the guards come before the allowlist *)
MappingRulesAclLate(r, g) ==
    LET e == EffectiveGuards(r, g)
    IN  PerSourceRules(r, e) \o AggregateRules(r, e) \o ConnlimitRules(r, e)
        \o AclRules(r) \o <<DnatRule(r)>>

(* seeded fault: the aggregate guard comes before the per-source guard *)
MappingRulesAggregateFirst(r, g) ==
    LET e == EffectiveGuards(r, g)
    IN  AclRules(r) \o AggregateRules(r, e) \o PerSourceRules(r, e)
        \o ConnlimitRules(r, e) \o <<DnatRule(r)>>

(* seeded fault: the aggregate guard is left out where a per-source one is *)
MappingRulesOneRate(r, g) ==
    LET e == EffectiveGuards(r, g)
    IN  AclRules(r) \o PerSourceRules(r, e)
        \o (IF e.psRate > 0 THEN <<>> ELSE AggregateRules(r, e))
        \o ConnlimitRules(r, e) \o <<DnatRule(r)>>

MappingRules(r, g) ==
    LET e == EffectiveGuards(r, g)
    IN  AclRules(r) \o PerSourceRules(r, e) \o AggregateRules(r, e)
        \o ConnlimitRules(r, e) \o <<DnatRule(r)>>

RenderRules(rules, g) == FlattenSeq([i \in DOMAIN rules |-> MappingRules(rules[i], g)])

(***************************************************************************)
(* ApplyManaged gives the k-th DNAT rule the tag of the k-th mapping;      *)
(* expectedNatTags counts the rules of each mapping again.                 *)
(***************************************************************************)
Tagged(chain, rules) ==
    LET dnats(i) == Cardinality({j \in 1..i : chain[j].kind = "dnat"})
    IN  [i \in DOMAIN chain |->
            IF chain[i].kind = "dnat" THEN ActiveTag(rules[dnats(i)]) ELSE NoTag]

(* seeded fault: the allowlist rule is not counted *)
MappingTagsNoAcl(r, g) ==
    LET e == EffectiveGuards(r, g)
    IN  (IF e.psRate > 0 THEN <<NoTag>> ELSE <<>>)
        \o (IF e.rate > 0 THEN <<NoTag>> ELSE <<>>)
        \o (IF e.maxConn > 0 THEN <<NoTag>> ELSE <<>>)
        \o <<ActiveTag(r)>>

MappingTags(r, g) ==
    LET e == EffectiveGuards(r, g)
    IN  (IF r.policy # {} THEN <<NoTag>> ELSE <<>>)
        \o (IF e.psRate > 0 THEN <<NoTag>> ELSE <<>>)
        \o (IF e.rate > 0 THEN <<NoTag>> ELSE <<>>)
        \o (IF e.maxConn > 0 THEN <<NoTag>> ELSE <<>>)
        \o <<ActiveTag(r)>>

ExpectedNatTags(rules, g) == FlattenSeq([i \in DOMAIN rules |-> MappingTags(rules[i], g)])

PerSourceSets(rules, g) ==
    {rules[i].id : i \in {j \in DOMAIN rules : EffectiveGuards(rules[j], g).psRate > 0}}

-----------------------------------------------------------------------------
(***************************************************************************)
(* The forward chain.  A counting rule looks at the direction, the         *)
(* protocol, the original port and the DNAT status of a flow; a drop rule  *)
(* of a retirement at its mark too.                                        *)
(***************************************************************************)
Directions == <<"in", "out">>

CountRule(r, dir) ==
    [kind |-> "count", dir |-> dir, proto |-> r.proto, port |-> r.port, mark |-> 0, id |-> r.id]

DropRule(t, dir) ==
    [kind |-> "drop", dir |-> dir, proto |-> t.proto, port |-> t.port, mark |-> t.mark, id |-> 0]

QuarantineRule(dir) ==
    [kind |-> "quarantine", dir |-> dir, proto |-> "", port |-> 0, mark |-> 0, id |-> 0]

RenderForwardRules(rules) ==
    FlattenSeq([i \in DOMAIN rules |-> [d \in 1..2 |-> CountRule(rules[i], Directions[d])]])

RetirementDrops(rets) ==
    FlattenSeq([i \in DOMAIN rets |-> [d \in 1..2 |-> DropRule(rets[i], Directions[d])]])

RetirementTags(rets) ==
    FlattenSeq([i \in DOMAIN rets |-> [d \in 1..2 |-> RetirementTag(rets[i], Directions[d])]])
=============================================================================
