----------------------------- MODULE RelayConfig -----------------------------
(***************************************************************************)
(* The configuration (internal/config): the environment is read once at    *)
(* start and refused as a whole if anything in it is wrong.  What it means *)
(* for the tables of the relay is in PacketPath.                           *)
(*                                                                         *)
(* A variable of the environment is a set: {} when it is unset or empty,   *)
(* {v} otherwise; a prefix or band that does not parse is {} as well, and  *)
(* an interface name is its length.  The state directory is the same in    *)
(* all environments that have one.                                         *)
(***************************************************************************)
EXTENDS Integers

CONSTANTS
    PortFloor,           \* lowest port of a band
    ReservedRelayPorts,
    MaxPort, MaxUint32,
    DefaultGuards        \* the guards of an environment that sets none

GuardNames == {"maxConn", "rate", "burst", "psRate", "psBurst"}

ASSUME ConfigAssumption ==
    /\ {PortFloor, MaxPort, MaxUint32} \subseteq Nat
    /\ ReservedRelayPorts \subseteq 0..MaxPort
    /\ DefaultGuards \in [GuardNames -> 0..MaxUint32]

The(opt) == CHOOSE v \in opt : TRUE

-----------------------------------------------------------------------------
(***************************************************************************)
(* Load.                                                                   *)
(***************************************************************************)
TargetCidrOK(e) == e.targetCidr # {}

BandOK(e) ==
    \E b \in e.band :
        /\ b.min >= PortFloor /\ b.min <= b.max /\ b.max <= MaxPort
        /\ \A p \in ReservedRelayPorts : ~(b.min <= p /\ p <= b.max)

HostOK(e) == (\E n \in e.publicIface : n <= 15) /\ e.stateDir # {}

MaxAgeOK(e) == \E h \in e.maxAgeHours : h \in 1 .. 24 * 30

PollSeconds(e) == IF e.pollSeconds = {} THEN 15 ELSE The(e.pollSeconds)

PollOK(e) == PollSeconds(e) \in 5..300

AuthorityOK(e) ==
    /\ IF e.syncURL = {} THEN e.syncToken = {}
       ELSE e.syncURL = {"http"} /\ e.syncToken = {"token"}
    /\ e.syncURL = {} \/ e.sourceFile = {}

GuardsOK(e) == \A k \in GuardNames : e.guards[k] \subseteq 0..MaxUint32

GuardsOf(e) ==
    [k \in GuardNames |->
        IF e.guards[k] = {} THEN DefaultGuards[k] ELSE The(e.guards[k])]

LoadOK(e) ==
    /\ TargetCidrOK(e) /\ BandOK(e) /\ HostOK(e) /\ MaxAgeOK(e) /\ PollOK(e)
    /\ AuthorityOK(e) /\ GuardsOK(e)

(***************************************************************************)
(* Run mode needs a source as well.                                        *)
(***************************************************************************)
StartOK(e) == LoadOK(e) /\ (e.syncURL # {} \/ e.sourceFile # {})
=============================================================================
