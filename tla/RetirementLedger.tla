-------------------------- MODULE RetirementLedger --------------------------
(***************************************************************************)
(* The durable retirement ledger (internal/retirement): which mapping      *)
(* epochs are active, which are retired and still fenced, and the          *)
(* high-water marks below which an id or a mark is spent for ever.         *)
(*                                                                         *)
(* An epoch is an id together with its flow mark and tuple hash.  The      *)
(* random ledger UUID and the format version carry no behaviour here.      *)
(***************************************************************************)
EXTENDS Snapshot, FiniteSetsExt

NoHash == <<>>        \* the empty DesiredHash of a ledger never armed

Epochs == [id : IDs, mark : Marks, hash : Hashes]
Entries == [ret : Retirements, cleared : BOOLEAN]
DesiredHashes ==
    {NoHash} \cup (Generations \X (SUBSET Mappings) \X (SUBSET Retirements)
                               \X (Generations \cup {Absent}))

Ledgers ==
    [armed : BOOLEAN, idHW : IDs, markHW : Marks, retHW : Generations,
     genHW : Generations, desired : DesiredHashes, ackHW : Generations,
     active : SUBSET Epochs, entries : SUBSET Entries]

(* seeded fault: a counter of the new ledger is left unset *)
NewLedgerUnset ==
    [armed |-> FALSE, idHW |-> 0, markHW |-> 0, retHW |-> 0, genHW |-> 0,
     desired |-> NoHash, ackHW |-> Absent, active |-> {}, entries |-> {}]

NewLedger ==
    [armed |-> FALSE, idHW |-> 0, markHW |-> 0, retHW |-> 0, genHW |-> 0,
     desired |-> NoHash, ackHW |-> 0, active |-> {}, entries |-> {}]

EpochOf(m) == [id |-> m.id, mark |-> m.mark, hash |-> MappingHash(m)]
RetiredEpoch(r) == [id |-> r.id, mark |-> r.mark, hash |-> r.hash]

(***************************************************************************)
(* Ledger.Validate: the shape every loaded, prepared or persisted ledger   *)
(* has.                                                                    *)
(***************************************************************************)
ActiveValid(l) ==
    /\ \A a \in l.active : /\ a.id > 0 /\ a.id <= l.idHW
                           /\ a.mark > 0 /\ a.mark <= l.markHW
    /\ \A a, b \in l.active : a # b => a.id # b.id /\ a.mark # b.mark

EntriesValid(l) ==
    /\ Cardinality(l.entries) <= MaxRetirements
    /\ \A e \in l.entries :
        /\ e.ret.id > 0 /\ e.ret.id <= l.idHW
        /\ e.ret.mark > 0 /\ e.ret.mark <= l.markHW
        /\ e.ret.gen <= l.retHW
        /\ e.ret.hash = TupleHash(e.ret.id, e.ret.key, e.ret.target, e.ret.mark)
        /\ \A a \in l.active : a.id # e.ret.id /\ a.mark # e.ret.mark
    /\ \A e, f \in l.entries :
        e # f => /\ e.ret.rid # f.ret.rid
                 /\ e.ret.id # f.ret.id
                 /\ e.ret.mark # f.ret.mark

ValidLedger(l) ==
    /\ ActiveValid(l)
    /\ EntriesValid(l)
    /\ l.ackHW <= l.retHW
    /\ l.armed => l.genHW > 0 /\ l.desired # NoHash

(***************************************************************************)
(* Ledger.Prepare, guard by guard.  A snapshot that fails one of them is   *)
(* rejected and the ledger stays as it was.                                *)
(***************************************************************************)
(* seeded fault: the content of an equal generation is not compared *)
GenerationNotBelow(l, s) == s.gen >= l.genHW

GenerationOK(l, s) ==
    /\ s.gen >= l.genHW
    /\ s.gen = l.genHW => l.desired \in {NoHash, DesiredHash(s)}

Compacted(l, ack) == {e \in l.entries : e.ret.gen <= ack}
(* seeded fault: off by one, the acknowledged entry itself is kept *)
KeptInclusive(l, ack) == {e \in l.entries : e.ret.gen >= ack}

Kept(l, ack) == {e \in l.entries : e.ret.gen > ack}

(* seeded fault: an entry is compacted without its proof *)
AckUnproven(l, s) == l.ackHW <= s.ack /\ s.ack <= l.retHW

AckOK(l, s) ==
    /\ l.ackHW <= s.ack /\ s.ack <= l.retHW
    /\ \A e \in Compacted(l, s.ack) : e.cleared

Continues(l, m) == \E a \in l.active : a.id = m.id

(* seeded fault: only the id of a new epoch must be above its high water *)
EpochFreshByID(l, m) ==
    IF Continues(l, m) THEN EpochOf(m) \in l.active ELSE m.id > l.idHW

(* seeded fault: a fresh mark is enough to bring an id back *)
EpochFreshByEither(l, m) ==
    IF Continues(l, m)
    THEN EpochOf(m) \in l.active
    ELSE m.id > l.idHW \/ m.mark > l.markHW

EpochOK(l, m) ==
    IF Continues(l, m)
    THEN EpochOf(m) \in l.active
    ELSE m.id > l.idHW /\ m.mark > l.markHW

KnownEntry(l, s, r) == \E e \in Kept(l, s.ack) : e.ret.rid = r.rid

(* seeded fault: every listed retirement is taken for a new one *)
RetirementAlwaysNew(l, s, r) == RetiredEpoch(r) \in l.active /\ r.gen > l.retHW

RetirementAccepted(l, s, r) ==
    IF KnownEntry(l, s, r)
    THEN \A e \in Kept(l, s.ack) : e.ret.rid = r.rid => e.ret = r
    ELSE RetiredEpoch(r) \in l.active /\ r.gen > l.retHW

FreshMappings(l, s) == {m \in s.mappings : ~Continues(l, m)}
FreshRetirements(l, s) == {r \in s.retirements : ~KnownEntry(l, s, r)}

NextEntries(l, s) ==
    Kept(l, s.ack)
        \cup {[ret |-> r, cleared |-> FALSE] : r \in FreshRetirements(l, s)}

RetiredIDs(l, s) == {e.ret.id : e \in NextEntries(l, s)}

(* seeded fault: an active epoch may silently disappear *)
VanishingAllowed(l, s) == TRUE

NoneVanished(l, s) ==
    \A a \in l.active :
        \/ \E m \in s.mappings : m.id = a.id
        \/ a.id \in RetiredIDs(l, s)

NextActive(l, s) ==
    {EpochOf(m) : m \in {n \in s.mappings : n.id \notin RetiredIDs(l, s)}}

Advance(l, s) ==
    [armed   |-> TRUE,
     idHW    |-> Max({l.idHW} \cup {m.id : m \in FreshMappings(l, s)}),
     markHW  |-> Max({l.markHW} \cup {m.mark : m \in FreshMappings(l, s)}),
     retHW   |-> Max({l.retHW} \cup {r.gen : r \in FreshRetirements(l, s)}),
     genHW   |-> s.gen,
     desired |-> DesiredHash(s),
     ackHW   |-> s.ack,
     active  |-> NextActive(l, s),
     entries |-> NextEntries(l, s)]

PrepareOK(l, s) ==
    IF ~s.managed
    THEN ~l.armed
    ELSE /\ GenerationOK(l, s)
         /\ AckOK(l, s)
         /\ \A m \in s.mappings : EpochOK(l, m)
         /\ \A r \in s.retirements : RetirementAccepted(l, s, r)
         /\ NoneVanished(l, s)
         /\ ValidLedger(Advance(l, s))

Prepared(l, s) == IF s.managed THEN Advance(l, s) ELSE l

(***************************************************************************)
(* Ledger.Clear marks the named retirements as proven gone from conntrack. *)
(***************************************************************************)
(* seeded fault: the flag is set on a copy of each entry *)
ClearCopy(l, rids) == l

Clear(l, rids) ==
    [l EXCEPT !.entries =
        {IF e.ret.rid \in rids THEN [e EXCEPT !.cleared = TRUE] ELSE e :
            e \in l.entries}]

ClearedEntries(l) == {e \in l.entries : e.cleared}
Uncleared(l) == {e \in l.entries : ~e.cleared}
Outstanding(l) == {e.ret : e \in l.entries}

(***************************************************************************)
(* Where a flow mark is in its life, as a ledger alone records it.         *)
(***************************************************************************)
LedgerLife(l, m) ==
    IF \E a \in l.active : a.mark = m THEN "active"
    ELSE IF \E e \in l.entries : e.ret.mark = m /\ e.cleared THEN "cleared"
    ELSE IF \E e \in l.entries : e.ret.mark = m THEN "retired"
    ELSE IF m > l.markHW THEN "fresh" ELSE "gone"
=============================================================================
