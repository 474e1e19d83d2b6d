------------------------------ MODULE Snapshot ------------------------------
(***************************************************************************)
(* The desired-state document of the relay (internal/snapshot): the full   *)
(* mapping set at one generation, and the retirements of removed mappings. *)
(*                                                                         *)
(* A public (proto, port) pair is a member of Keys, a target (address,     *)
(* port) a member of Targets, the guard overrides and the source policy of *)
(* a mapping a member of Options; the three Valid sets say which of them   *)
(* pass the field checks of Validate (known proto, port inside the band,   *)
(* IPv4 inside the target network, guard ceilings).  Lists are sets: their *)
(* order matters to no reader of the document, and a repeated element is a *)
(* repeated id, which Validate rejects in either representation.  A body   *)
(* without a mappings key is malformed and never becomes a document.       *)
(***************************************************************************)
EXTENDS Integers, FiniteSets

CONSTANTS
    MaxID,            \* largest mapping id        (int64 in the code)
    MaxMark,          \* largest flow mark         (uint32 in the code)
    MaxGeneration,    \* largest generation        (int64 in the code)
    Keys, ValidKeys,
    Targets, ValidTargets, CanonicalTargets,
    Options, ValidOptions,
    RetirementIDs,    \* retirement UUIDs
    MaxMappings,      \* snapshot.MaxMappings
    MaxRetirements    \* snapshot.MaxRetirements = retirement.MaxOutstanding

ASSUME BoundsAssumption ==
    /\ MaxID \in Nat \ {0}
    /\ MaxMark \in Nat \ {0}
    /\ MaxGeneration \in Nat \ {0}
    /\ MaxMappings \in Nat
    /\ MaxRetirements \in Nat

ASSUME ValidSetsAssumption ==
    /\ ValidKeys \subseteq Keys
    /\ ValidTargets \subseteq Targets
    /\ CanonicalTargets \subseteq Targets
    /\ ValidOptions \subseteq Options
    \* an IPv4 address that parses is spelled the canonical way
    /\ ValidTargets \subseteq CanonicalTargets

(***************************************************************************)
(* An omitted JSON field: a nil FlowMark or acknowledgement pointer.       *)
(***************************************************************************)
Absent == -1

IDs == 0..MaxID
Marks == 0..MaxMark
Generations == 0..MaxGeneration

(***************************************************************************)
(* TupleHash binds a mark to the exact mapping tuple.  SHA-256 is taken to *)
(* be collision free, so the hash is the tuple that is hashed.             *)
(***************************************************************************)
TupleHash(id, key, target, mark) == <<id, key, target, mark>>

Hashes == IDs \X Keys \X Targets \X (Marks \cup {Absent})

Mappings ==
    [id : IDs, key : Keys, target : Targets, opts : Options,
     mark : Marks \cup {Absent}]

Retirements ==
    [rid : RetirementIDs, id : IDs, gen : Generations, key : Keys,
     target : Targets, mark : Marks, hash : Hashes]

Snapshots ==
    [gen : Generations, mappings : SUBSET Mappings, managed : BOOLEAN,
     retirements : SUBSET Retirements, ack : Generations \cup {Absent}]

(***************************************************************************)
(* DesiredHash covers the whole document except its persistence time, in   *)
(* canonical order; again the hash is what is hashed.                      *)
(***************************************************************************)
DesiredHash(s) == <<s.gen, s.mappings, s.retirements, s.ack>>

MappingHash(m) == TupleHash(m.id, m.key, m.target, m.mark)

(***************************************************************************)
(* Snapshot.Validate, one conjunct per group of checks.                    *)
(***************************************************************************)
GenerationZeroIsEmpty(s) == s.gen = 0 => s.mappings = {}

AckMatchesForm(s) == s.managed <=> s.ack # Absent

MappingOK(s, m) ==
    /\ m.id > 0
    /\ IF s.managed THEN m.mark > 0 ELSE m.mark = Absent
    /\ m.key \in ValidKeys
    /\ m.target \in ValidTargets
    /\ m.opts \in ValidOptions

MappingsDistinct(s) ==
    \A m, n \in s.mappings :
        m # n => /\ m.id # n.id
                 /\ m.key # n.key
                 /\ s.managed => m.mark # n.mark

RetirementOK(s, r) ==
    /\ r.id > 0 /\ r.mark > 0
    /\ r.gen > 0 /\ r.gen <= s.gen
    /\ \A m \in s.mappings : m.id # r.id /\ m.mark # r.mark
    /\ r.key \in ValidKeys
    /\ r.target \in CanonicalTargets
    /\ r.hash = TupleHash(r.id, r.key, r.target, r.mark)

RetirementsDistinct(s) ==
    \A r, q \in s.retirements : r # q => r.rid # q.rid /\ r.mark # q.mark

Validate(s) ==
    /\ GenerationZeroIsEmpty(s)
    /\ Cardinality(s.mappings) <= MaxMappings
    /\ AckMatchesForm(s)
    /\ \A m \in s.mappings : MappingOK(s, m)
    /\ MappingsDistinct(s)
    /\ s.managed \/ s.retirements = {}
    /\ Cardinality(s.retirements) <= MaxRetirements
    /\ \A r \in s.retirements : RetirementOK(s, r)
    /\ RetirementsDistinct(s)
=============================================================================
