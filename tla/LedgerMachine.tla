---------------------------- MODULE LedgerMachine ----------------------------
(***************************************************************************)
(* The ledger as a state machine: a platform that may send any document    *)
(* whatever (Offers is an arbitrary set of them: stale, replayed, forged   *)
(* or contradictory ones included), and conntrack proofs recorded at any   *)
(* moment.  What holds here holds for every agent that drives the ledger   *)
(* through Prepare and Clear, whatever its order of persists and retries.  *)
(***************************************************************************)
EXTENDS RetirementLedger

CONSTANT Offers        \* the snapshots the platform may send

ASSUME OffersAssumption ==
    /\ Offers \subseteq Snapshots
    /\ \A s \in Offers : IsFiniteSet(s.mappings) /\ IsFiniteSet(s.retirements)

VARIABLES
    ledger,
    born,              \* history: every epoch that was ever active
    proven,            \* history: every epoch recorded as cleared
    accepted           \* history: every managed snapshot accepted

vars == <<ledger, born, proven, accepted>>

Init ==
    /\ ledger = NewLedger
    /\ born = {}
    /\ proven = {}
    /\ accepted = {}

(***************************************************************************)
(* Parse and Prepare of one received body.  A rejected body changes        *)
(* nothing, so it is not an action.                                        *)
(***************************************************************************)
Receive(s) ==
    /\ Validate(s)
    /\ PrepareOK(ledger, s)
    /\ ledger' = Prepared(ledger, s)
    /\ born' = born \cup ledger'.active
    /\ accepted' = accepted \cup (IF s.managed THEN {s} ELSE {})
    /\ UNCHANGED proven

(***************************************************************************)
(* apply records the retirements whose conntrack Clear succeeded: those    *)
(* are the not yet cleared entries, all of them or (after a failed persist *)
(* that reverts them and a later retry) in any grouping.                   *)
(***************************************************************************)
RecordCleared(es) ==
    /\ ledger' = Clear(ledger, {e.ret.rid : e \in es})
    /\ proven' = proven \cup {RetiredEpoch(e.ret) : e \in es}
    /\ UNCHANGED <<born, accepted>>

Next ==
    \/ \E s \in Offers : Receive(s)
    \/ \E es \in SUBSET Uncleared(ledger) : RecordCleared(es)

Spec == Init /\ [][Next]_vars

-----------------------------------------------------------------------------
(***************************************************************************)
(* Types; whatever documents arrive, Prepare and Clear build a ledger of   *)
(* the form the file has.                                                  *)
(***************************************************************************)
TypeOK ==
    /\ ledger \in Ledgers
    /\ born \subseteq Epochs
    /\ proven \subseteq Epochs
    /\ accepted \subseteq Snapshots

FencedEpochs == {RetiredEpoch(r) : r \in Outstanding(ledger)}

(***************************************************************************)
(* No epoch falls out of the ledger: each one that was ever active is      *)
(* active, or fenced by an outstanding entry, or its flows were proven     *)
(* gone.  (Prepare's disappearance and acknowledgement checks.)            *)
(***************************************************************************)
EveryEpochAccounted == born \subseteq ledger.active \cup FencedEpochs \cup proven

(***************************************************************************)
(* An id, and a mark, is bound to one epoch for ever: fencing a mark can   *)
(* only hit the flows of the mapping it was issued for.                    *)
(***************************************************************************)
EpochsNeverShare ==
    \A e, f \in born : (e.id = f.id \/ e.mark = f.mark) => e = f

(***************************************************************************)
(* What a platform in good order sends next, seen from the ledger: the     *)
(* active mappings as they are, at most one of them retired, every entry   *)
(* that is not acknowledged, and an acknowledgement of proven ones only.   *)
(* The guard overrides of a mapping may change; its key and target are     *)
(* those the hash was taken of.                                            *)
(***************************************************************************)
MappingOf(a, o) ==
    [id |-> a.id, key |-> a.hash[2], target |-> a.hash[3], opts |-> o, mark |-> a.mark]

RetirementOf(a, u, g) ==
    [rid |-> u, id |-> a.id, gen |-> g, key |-> a.hash[2], target |-> a.hash[3],
     mark |-> a.mark, hash |-> a.hash]

ProvenAcks(l) ==
    {k \in l.ackHW..l.retHW : \A e \in Compacted(l, k) : e.cleared}

Continuation(l, gone, u, o, k) ==
    [gen |-> l.genHW + 1, managed |-> TRUE, ack |-> k,
     mappings |-> {MappingOf(a, o) : a \in l.active \ gone},
     retirements |-> {e.ret : e \in Kept(l, k)}
                        \cup {RetirementOf(a, u, l.genHW + 1) : a \in gone}]

Retirable(l, u, k) ==
    {{}} \cup (IF /\ \A e \in Kept(l, k) : e.ret.rid # u
                  /\ Cardinality(Kept(l, k)) < MaxRetirements
               THEN {{a} : a \in l.active} ELSE {})

(***************************************************************************)
(* No sequence of documents, forged ones included, wedges the ledger: it   *)
(* always accepts the next document of a platform in good order, at the    *)
(* cap of outstanding retirements too, where one that acknowledges enough  *)
(* may retire as well.  (All rejections of Validate and Prepare together.) *)
(***************************************************************************)
NeverWedged ==
    ledger.genHW < MaxGeneration =>
        \A u \in RetirementIDs, o \in ValidOptions, k \in ProvenAcks(ledger) :
            \A gone \in Retirable(ledger, u, k) :
                LET s == Continuation(ledger, gone, u, o, k)
                IN Validate(s) /\ PrepareOK(ledger, s)

(***************************************************************************)
(* A generation names one document: two managed snapshots accepted at the  *)
(* same generation, however far apart, have the same content.              *)
(***************************************************************************)
GenerationNamesContent ==
    \A s, t \in accepted : s.gen = t.gen => s = t

(***************************************************************************)
(* An epoch that has left the active set never returns to it, even after   *)
(* its entry is compacted and forgotten.                                   *)
(***************************************************************************)
NoResurrection ==
    [][\A e \in born \ ledger.active :
          \A a \in ledger'.active : a.id # e.id /\ a.mark # e.mark]_vars

(***************************************************************************)
(* The acknowledgement separates what is compacted from what is            *)
(* outstanding: no entry at or below it is left, so a replayed             *)
(* acknowledgement can never drop an entry it did not cover before.        *)
(***************************************************************************)
AckSeparates == \A e \in ledger.entries : e.ret.gen > ledger.ackHW

(***************************************************************************)
(* The life of a mark as the ledger alone records it, and the promise it   *)
(* implements.                                                             *)
(***************************************************************************)
Lifecycle == INSTANCE EpochLifecycle WITH
    FlowMarks <- 1..MaxMark,
    life <- [m \in 1..MaxMark |-> LedgerLife(ledger, m)]

ImplementsLifecycle == Lifecycle!Spec
=============================================================================
