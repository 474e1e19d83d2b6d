---------------------------- MODULE SourcePolicy ----------------------------
(***************************************************************************)
(* The source allowlist of a mapping (internal/sourcepolicy) and the drop  *)
(* rule it becomes (nftctl/source_policy.go).  Addresses have Width bits.  *)
(* A policy is optional: {} is the legacy nil policy, {l} the explicit     *)
(* list l, which may be empty.  On the wire and on disk it is a field with *)
(* a form: omitted, null, or an object holding a list.                     *)
(***************************************************************************)
EXTENDS Naturals, Sequences, SequencesExt, FiniteSets

CONSTANTS Width, MaxCIDRs

Addresses == 0 .. 2^Width - 1

CIDRs == [addr : Addresses, bits : 0..Width]

(***************************************************************************)
(* The address under a netmask of the given length.                        *)
(***************************************************************************)
Masked(a, bits) == a - (a % 2^(Width - bits))

-----------------------------------------------------------------------------
(***************************************************************************)
(* Parse: at most MaxCIDRs prefixes, canonical, without a repetition; kept *)
(* in order of address, then length, so that the k-th has k-1 before it.   *)
(***************************************************************************)
PolicyOK(cidrs) ==
    /\ Len(cidrs) <= MaxCIDRs
    /\ \A i \in DOMAIN cidrs : cidrs[i].addr = Masked(cidrs[i].addr, cidrs[i].bits)
    /\ IsInjective(cidrs)

Before(p, q) == p.addr < q.addr \/ (p.addr = q.addr /\ p.bits < q.bits)

Rank(cidrs, p) == Cardinality({q \in ToSet(cidrs) : Before(q, p)})

Parse(cidrs) == [k \in DOMAIN cidrs |-> CHOOSE p \in ToSet(cidrs) : Rank(cidrs, p) = k - 1]

(***************************************************************************)
(* UnmarshalJSON refuses null, MarshalJSON with omitzero writes an empty   *)
(* list as an empty list and leaves the nil policy out.                    *)
(***************************************************************************)
Fields == [form : {"omitted", "null", "list"}, cidrs : Seq(CIDRs)]

UnmarshalOK(f) == f.form = "omitted" \/ (f.form = "list" /\ PolicyOK(f.cidrs))

Unmarshal(f) == IF f.form = "omitted" THEN {} ELSE {Parse(f.cidrs)}

(* seeded fault: omitempty, an empty list is left out *)
MarshalOmitEmpty(p) ==
    IF p \in {{}, {<<>>}} THEN [form |-> "omitted", cidrs |-> <<>>]
    ELSE [form |-> "list", cidrs |-> CHOOSE l \in p : TRUE]

Marshal(p) ==
    IF p = {} THEN [form |-> "omitted", cidrs |-> <<>>]
    ELSE [form |-> "list", cidrs |-> CHOOSE l \in p : TRUE]

-----------------------------------------------------------------------------
(***************************************************************************)
(* sourceDropExprs: one comparison per prefix; the drop is reached when    *)
(* every one of them finds the masked source different.                    *)
(***************************************************************************)
SourceDrops(cidrs, src) ==
    \A i \in DOMAIN cidrs : Masked(src, cidrs[i].bits) # cidrs[i].addr

(***************************************************************************)
(* What the field says, as the documentation defines it: an omitted policy *)
(* admits everybody, a list the addresses from the first to the last of    *)
(* one of its networks.                                                    *)
(***************************************************************************)
Admits(f, src) ==
    \/ f.form = "omitted"
    \/ \E i \in DOMAIN f.cidrs :
          src \in f.cidrs[i].addr .. f.cidrs[i].addr + 2^(Width - f.cidrs[i].bits) - 1
=============================================================================
