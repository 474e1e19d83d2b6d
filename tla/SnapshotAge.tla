----------------------------- MODULE SnapshotAge -----------------------------
(***************************************************************************)
(* How old the restored snapshot can really be (snapshot.go Persist and    *)
(* LoadPersisted, agent.go BootReapply).  The file is stamped with the     *)
(* wall clock when it is written, which is after the platform composed the *)
(* document, and its age is judged at boot by a wall clock that may have   *)
(* been set in between.  The window matters because the platform gives the *)
(* address of a withdrawn mapping to another tenant after a quarantine.    *)
(*                                                                         *)
(* One mapping stands for all: a document says whether it is there.  The   *)
(* other reasons to refuse a file (parsing, the ledger) are in RelayAgent. *)
(***************************************************************************)
EXTENDS Naturals

CONSTANTS
    MaxAge,          \* cfg.SnapshotMaxAge
    Tolerance,       \* clockSkewTolerance
    Quarantine,      \* how long the platform keeps a released address back
    Latency,         \* bound: from composing an answer to stamping the file
    MaxDrift,        \* bound: error of a clock that has been set, either way
    MaxLag,          \* bound: how far behind a reboot may leave the clock
    ClockMayReset,   \* may a reboot start at time zero until the clock is set?
    Start,           \* real time at the beginning
    MaxNow, MaxGen   \* bounds: real time, changes of the desired state

ASSUME AgeAssumption ==
    /\ {MaxAge, Tolerance, Quarantine, Latency, MaxDrift, MaxLag} \subseteq Nat
    /\ {Start, MaxNow, MaxGen} \subseteq Nat
    /\ ClockMayReset \in BOOLEAN
    /\ Start <= MaxNow /\ 1 <= MaxGen
    \* a clock that starts from zero (1970) never gets near the present
    /\ ClockMayReset => MaxNow + Tolerance + MaxDrift + MaxLag < Start + Start

VARIABLES
    now, wall,           \* real time, the wall clock
    mode,                \* the wall clock is set, behind (a saved time or an RTC
                         \* before NTP) or reset (counts from zero)
    want, released, gen, \* platform: mapping desired, last withdrawal, generation
    managed,             \* does the document carry retirements?
    up, stage, sent,     \* agent: running, step of the cycle, answer being handled
    held,                \* agent: applied generation, 0 for none
    table,               \* kernel: is the mapping in the table?
    file                 \* the persisted snapshot

clock == <<now, wall, mode>>
platform == <<want, released, gen, managed>>
vars == <<clock, platform, up, stage, sent, held, table, file>>

NoFile == [gen |-> 0, has |-> FALSE, stamp |-> 0, at |-> 0, honest |-> FALSE]

Init ==
    /\ now = Start /\ wall = Start /\ mode = "set"
    /\ want = TRUE /\ released = 0 /\ gen = 1 /\ managed \in BOOLEAN
    /\ up = FALSE /\ stage = "idle" /\ sent = [gen |-> 0, has |-> FALSE, at |-> 0]
    /\ held = 0 /\ table = FALSE /\ file = NoFile

\* kept back for the whole of the quarantine, its last moment included
Reassigned == ~want /\ now > released + Quarantine

-----------------------------------------------------------------------------
(***************************************************************************)
(* Platform and clock.                                                     *)
(***************************************************************************)
Withdraw ==
    /\ want /\ gen < MaxGen
    /\ want' = FALSE /\ released' = now /\ gen' = gen + 1
    /\ UNCHANGED <<clock, managed, up, stage, sent, held, table, file>>

Grant ==
    /\ ~want /\ ~Reassigned /\ gen < MaxGen
    /\ want' = TRUE /\ gen' = gen + 1
    /\ UNCHANGED <<clock, released, managed, up, stage, sent, held, table, file>>

Unstamped == stage = "got" \/ (stage = "mid" /\ ~managed)

Tick ==
    /\ now < MaxNow
    /\ Unstamped => now < sent.at + Latency
    /\ now' = now + 1 /\ wall' = wall + 1
    /\ UNCHANGED <<mode, platform, up, stage, sent, held, table, file>>

SetClock ==
    /\ \E w \in 0..(now + MaxDrift) : now <= w + MaxDrift /\ wall' = w
    /\ mode' = "set"
    /\ UNCHANGED <<now, platform, up, stage, sent, held, table, file>>

-----------------------------------------------------------------------------
(***************************************************************************)
(* A cycle that gets a changed document.  A managed one is persisted       *)
(* before the apply, a legacy one after it; the legacy agent carries on    *)
(* when that fails.  A failing Persist may have replaced the file.         *)
(***************************************************************************)
Answer ==
    /\ up /\ stage = "idle" /\ gen # held
    /\ sent' = [gen |-> gen, has |-> want, at |-> now]
    /\ stage' = "got"
    /\ UNCHANGED <<clock, platform, up, held, table, file>>

PersistStep == IF managed THEN "got" ELSE "mid"
ApplyStep == IF managed THEN "mid" ELSE "got"

Stamped ==
    file' = [gen |-> sent.gen, has |-> sent.has, at |-> sent.at, stamp |-> wall,
             honest |-> mode # "reset"]

Persist ==
    /\ stage = PersistStep
    /\ Stamped
    /\ stage' = IF managed THEN "mid" ELSE "idle"
    /\ held' = IF managed THEN held ELSE sent.gen
    /\ UNCHANGED <<clock, platform, up, sent, table>>

PersistFails ==
    /\ stage = PersistStep
    /\ Stamped \/ UNCHANGED file
    /\ stage' = "idle"
    /\ held' = IF managed THEN held ELSE sent.gen
    /\ UNCHANGED <<clock, platform, up, sent, table>>

Apply ==
    /\ stage = ApplyStep
    /\ table' = sent.has
    /\ stage' = IF managed THEN "idle" ELSE "mid"
    /\ held' = IF managed THEN sent.gen ELSE held
    /\ UNCHANGED <<clock, platform, up, sent, file>>

ApplyFails ==
    /\ stage = ApplyStep
    /\ stage' = "idle"
    /\ UNCHANGED <<clock, platform, up, sent, held, table, file>>

-----------------------------------------------------------------------------
(***************************************************************************)
(* Stop and start.  The table outlives the process, not the host.          *)
(***************************************************************************)
Crash ==
    /\ up
    /\ up' = FALSE /\ stage' = "idle" /\ held' = 0
    /\ UNCHANGED <<clock, platform, sent, table, file>>

HostReboot ==
    /\ up' = FALSE /\ stage' = "idle" /\ held' = 0 /\ table' = FALSE
    /\ \/ UNCHANGED <<wall, mode>>
       \/ mode' = "behind" /\ \E w \in 0..now : now <= w + MaxLag /\ wall' = w
       \/ ClockMayReset /\ wall' = 0 /\ mode' = "reset"
    /\ UNCHANGED <<now, platform, sent, file>>

(* seeded fault: a stamp from the future passes for a young one *)
LoadableFromFuture == file # NoFile /\ wall <= file.stamp + MaxAge

Loadable ==
    /\ file # NoFile
    /\ file.stamp <= wall + Tolerance
    /\ wall <= file.stamp + MaxAge

BootRestore ==
    /\ ~up /\ Loadable
    /\ up' = TRUE /\ table' = file.has /\ held' = file.gen
    /\ UNCHANGED <<clock, platform, stage, sent, file>>

BootEmpty ==
    /\ ~up /\ ~Loadable
    /\ up' = TRUE /\ table' = FALSE /\ held' = 0 /\ file' = NoFile
    /\ UNCHANGED <<clock, platform, stage, sent>>

BootApplyFails ==
    /\ ~up
    /\ up' = TRUE /\ held' = 0
    /\ file' = IF Loadable THEN file ELSE NoFile
    /\ UNCHANGED <<clock, platform, stage, sent, table>>

Next ==
    \/ Withdraw \/ Grant \/ Tick \/ SetClock
    \/ Answer \/ Persist \/ PersistFails \/ Apply \/ ApplyFails
    \/ Crash \/ HostReboot \/ BootRestore \/ BootEmpty \/ BootApplyFails

Spec == Init /\ [][Next]_vars

-----------------------------------------------------------------------------
Copies == [gen : 0..MaxGen, has : BOOLEAN, stamp : Nat, at : Nat, honest : BOOLEAN]

(***************************************************************************)
(* Types; neither the file nor the agent is ahead of the platform.         *)
(***************************************************************************)
TypeOK ==
    /\ now \in Nat /\ wall \in Nat /\ mode \in {"set", "behind", "reset"}
    /\ want \in BOOLEAN /\ released \in 0..now /\ gen \in 1..MaxGen
    /\ managed \in BOOLEAN /\ up \in BOOLEAN /\ table \in BOOLEAN
    /\ stage \in {"idle", "got", "mid"} /\ held \in 0..gen
    /\ sent \in [gen : 0..MaxGen, has : BOOLEAN, at : 0..now]
    /\ file \in Copies
    /\ file.gen <= gen

(***************************************************************************)
(* How far the wall clock is behind real time.  A clock that counts from   *)
(* zero is not excused by this: LoadPersisted must see through it.         *)
(***************************************************************************)
Lag == IF mode = "reset" \/ now <= wall THEN 0 ELSE now - wall

(***************************************************************************)
(* A start restores DNAT of a withdrawn mapping only within the window     *)
(* after the withdrawal, give or take the time from composing the document *)
(* to stamping it and the error of the clocks that stamped and judged it   *)
(* (LoadPersisted's two comparisons): however often agent or host restart, *)
(* whatever persist or apply failed, and although a clock from zero makes  *)
(* every age negative.  A copy stamped by such a clock is excepted.        *)
(***************************************************************************)
RestoredIsRecent ==
    [][BootRestore /\ file.has /\ file.honest /\ ~want =>
          now <= released + MaxAge + Latency + MaxDrift + Lag]_vars

(***************************************************************************)
(* What the age check is for, in the words of LoadPersisted's comment: a   *)
(* copy whose target may have been assigned to another tenant after the    *)
(* quarantine is not applied again at boot.                                *)
(***************************************************************************)
BootNeverMisroutes == [][BootRestore /\ file.has => ~Reassigned]_vars
=============================================================================
