----------------------------- MODULE PacketPath -----------------------------
(***************************************************************************)
(* New connections through the rendered nat chain.  The first packet of a  *)
(* flow runs down the rules until one of them gives a verdict; on its way  *)
(* it takes tokens from the buckets of the guards and joins the list of    *)
(* the connection limit.  Time refills the buckets and forgets idle        *)
(* sources, replacing the table starts every guard afresh, and a restart,  *)
(* perhaps under a changed environment, renders the table again from the   *)
(* file, if the file is within the limits of that environment.             *)
(*                                                                         *)
(* Documents are legacy ones.  Applies and persists that fail, the age of  *)
(* the file and the one-shot apply are in RelayAgent and SnapshotAge.      *)
(*                                                                         *)
(* How the kernel evaluates limit, dynset and connlimit is external; what  *)
(* it evaluates is what RenderRules produces.                              *)
(***************************************************************************)
EXTENDS NftRules, RelayConfig, FiniteSets

CONSTANTS
    Documents,       \* sequences of mappings the platform may send
    Environments,    \* what the operator may have configured
    MaxGuardValue,   \* the largest override of a guard
    Sources,         \* addresses that send
    SetSize,         \* perSourceSetSize
    Timeout,         \* perSourceTimeout, in ticks
    KernelBurst,     \* the burst the kernel takes for 0
    MaxTicks         \* bound: seconds since the table was replaced

ASSUME PathAssumption ==
    /\ {Width, MaxCIDRs, MaxGuardValue, SetSize, Timeout, MaxTicks} \subseteq Nat
    /\ Sources \subseteq Addresses
    /\ KernelBurst \in Nat \ {0}
    /\ \A d \in Documents :
          /\ d \in Seq(ToSet(d))
          /\ \A m \in ToSet(d) :
                /\ DOMAIN m = {"id", "proto", "port", "target", "mark", "policy", "over"}
                /\ m.policy \in Fields
                /\ DOMAIN m.over \subseteq GuardNames /\ m.over \in [DOMAIN m.over -> Nat]
    /\ \A e \in Environments : /\ e.band \subseteq [min : Nat, max : Nat]
                              /\ \A b, c \in e.band : b = c

VARIABLES
    cfg,         \* the environment the running agent has loaded
    doc,         \* the document the table was made from, as on the wire
    file,        \* the persisted snapshot, as on disk
    rules,       \* the plan the table was rendered from
    chain,       \* the nat chain in the kernel
    guard,       \* state of the guards of each mapping
    last,        \* the last packet and its verdict
    drawn,       \* history: tokens each source took from the aggregate bucket
    made,        \* history: flows of each mapping made through this table
    full,        \* history: a packet found the per-source set of the mapping full
    ticks

vars == <<cfg, doc, file, rules, chain, guard, last, drawn, made, full, ticks>>

IDs == UNION {{d[i].id : i \in DOMAIN d} : d \in Documents}

NoPacket == [src |-> 0, id |-> 0, verdict |-> "none"]

-----------------------------------------------------------------------------
(***************************************************************************)
(* Plan, and the JSON it comes from and goes to.                           *)
(***************************************************************************)
Decoded(d) == [i \in DOMAIN d |-> [d[i] EXCEPT !.policy = Unmarshal(@)]]

Encoded(p) == [i \in DOMAIN p |-> [p[i] EXCEPT !.policy = Marshal(@)]]

(***************************************************************************)
(* Validate: a burst needs its rate, every override has a ceiling, no id   *)
(* and no public port repeats, port and target are within the limits of    *)
(* the environment.                                                        *)
(***************************************************************************)
Rates == [burst |-> "rate", psBurst |-> "psRate"]

OverridesOK(over) ==
    /\ \A b \in DOMAIN Rates \cap DOMAIN over :
          Rates[b] \in DOMAIN over /\ over[Rates[b]] > 0
    /\ \A k \in DOMAIN over : over[k] <= MaxGuardValue

MappingsDistinct(d) ==
    \A i, j \in DOMAIN d :
        i # j => d[i].id # d[j].id /\ (d[i].proto = d[j].proto => d[i].port # d[j].port)

DocumentOK(d) ==
    /\ \A i \in DOMAIN d : UnmarshalOK(d[i].policy) /\ OverridesOK(d[i].over)
    /\ MappingsDistinct(d)

WithinLimits(e, d) ==
    \A i \in DOMAIN d : /\ d[i].port \in The(e.band).min .. The(e.band).max
                        /\ d[i].target \in The(e.targetCidr)

PlanOf(id) == CHOOSE r \in ToSet(rules) : r.id = id

Effective(id) == EffectiveGuards(PlanOf(id), GuardsOf(cfg))

Installed == {r.id : r \in ToSet(rules)}

(***************************************************************************)
(* Guards of a fresh table: full buckets, empty set, empty list.           *)
(***************************************************************************)
Capacity(burst) == IF burst = 0 THEN KernelBurst ELSE burst

NoSources == [s \in {} |-> [tokens |-> 0, idle |-> 0]]

Fresh(p, e) ==
    [i \in IDs |->
        [tokens |-> IF \E r \in ToSet(p) : r.id = i
                    THEN Capacity(EffectiveGuards(CHOOSE r \in ToSet(p) : r.id = i, GuardsOf(e)).burst)
                    ELSE 0,
         sources |-> NoSources, conns |-> 0]]

Replace(p, e) ==
    /\ rules' = p /\ chain' = RenderRules(p, GuardsOf(e))
    /\ guard' = Fresh(p, e)
    /\ last' = NoPacket
    /\ drawn' = [i \in IDs |-> [s \in Sources |-> 0]]
    /\ made' = [i \in IDs |-> 0]
    /\ full' = [i \in IDs |-> FALSE]
    /\ ticks' = 0

Init ==
    /\ cfg \in {e \in Environments : StartOK(e)}
    /\ doc = <<>> /\ file = <<>> /\ rules = <<>> /\ chain = <<>>
    /\ guard = Fresh(<<>>, cfg)
    /\ last = NoPacket
    /\ drawn = [i \in IDs |-> [s \in Sources |-> 0]]
    /\ made = [i \in IDs |-> 0] /\ full = [i \in IDs |-> FALSE]
    /\ ticks = 0

Apply(d) ==
    /\ d # doc /\ DocumentOK(d) /\ WithinLimits(cfg, d)
    /\ Replace(Decoded(d), cfg)
    /\ doc' = d /\ file' = Encoded(Decoded(d))
    /\ UNCHANGED cfg

(***************************************************************************)
(* The agent stops and starts under environment e: it restores the file,   *)
(* or drops a refused one and empties the table.  (Under an environment    *)
(* that does not load it does not start, and the old table stays.)         *)
(***************************************************************************)
(* seeded fault: the persisted snapshot is not validated again *)
LoadableTrusting(e) == TRUE

Loadable(e) == DocumentOK(file) /\ WithinLimits(e, file)

Restart(e) ==
    /\ StartOK(e)
    /\ cfg' = e
    /\ IF Loadable(e)
       THEN Replace(Decoded(file), e) /\ UNCHANGED <<doc, file>>
       ELSE Replace(<<>>, e) /\ doc' = <<>> /\ file' = <<>>

-----------------------------------------------------------------------------
(***************************************************************************)
(* One rule and one packet.  A walk w carries the packet's verdict and the *)
(* guards of all mappings.  A guard matches when its limit is exceeded.    *)
(* conns are the flows of a mapping that has a connection limit.           *)
(***************************************************************************)
Selects(rule, pkt) == rule.port = pkt.port /\ rule.proto = pkt.proto

Tracked(w, rule, src) == src \in DOMAIN w.guard[rule.id].sources

Bucket(w, rule, src) ==
    IF Tracked(w, rule, src) THEN w.guard[rule.id].sources[src].tokens
    ELSE Capacity(rule.args[2])

SourceSetFull(w, rule, src) ==
    ~Tracked(w, rule, src) /\ Cardinality(DOMAIN w.guard[rule.id].sources) = SetSize

UpdateSource(w, rule, src, n) ==
    [s \in DOMAIN w.guard[rule.id].sources \cup {src} |->
        IF s = src THEN [tokens |-> n, idle |-> 0] ELSE w.guard[rule.id].sources[s]]

PerSource(w, rule, src) ==
    IF SourceSetFull(w, rule, src) THEN [w EXCEPT !.full = TRUE]
    ELSE IF Bucket(w, rule, src) = 0
    THEN [w EXCEPT !.verdict = "persource",
                   !.guard[rule.id].sources = UpdateSource(w, rule, src, 0)]
    ELSE [w EXCEPT !.guard[rule.id].sources =
                       UpdateSource(w, rule, src, Bucket(w, rule, src) - 1)]

Aggregate(w, rule) ==
    IF w.guard[rule.id].tokens = 0 THEN [w EXCEPT !.verdict = "aggregate"]
    ELSE [w EXCEPT !.guard[rule.id].tokens = @ - 1, !.drew = TRUE]

Connlimit(w, rule) ==
    IF w.guard[rule.id].conns >= rule.args[1] THEN [w EXCEPT !.verdict = "connlimit"] ELSE w

Through(rule, pkt, w) ==
    IF w.verdict # "none" \/ ~Selects(rule, pkt) THEN w
    ELSE CASE rule.kind = "acl" ->
                IF SourceDrops(rule.args, pkt.src) THEN [w EXCEPT !.verdict = "acl"] ELSE w
           [] rule.kind = "persource" -> PerSource(w, rule, pkt.src)
           [] rule.kind = "aggregate" -> Aggregate(w, rule)
           [] rule.kind = "connlimit" -> Connlimit(w, rule)
           [] rule.kind = "dnat" ->
                [w EXCEPT !.verdict = "dnat",
                          !.guard[rule.id].conns =
                              IF Effective(rule.id).maxConn > 0 THEN @ + 1 ELSE @]

Down(rs, pkt, w) ==
    LET after[i \in 0..Len(rs)] == IF i = 0 THEN w ELSE Through(rs[i], pkt, after[i - 1])
    IN  after[Len(rs)]

Walk(pkt) ==
    Down(chain, pkt, [verdict |-> "none", guard |-> guard, full |-> FALSE, drew |-> FALSE])

Packet(r, src) ==
    LET w == Walk([src |-> src, proto |-> r.proto, port |-> r.port])
    IN  /\ guard' = w.guard
        /\ last' = [src |-> src, id |-> r.id, verdict |-> w.verdict]
        /\ drawn' = [drawn EXCEPT ![r.id][src] = IF w.drew THEN @ + 1 ELSE @]
        /\ made' = [made EXCEPT ![r.id] = IF w.verdict = "dnat" THEN @ + 1 ELSE @]
        /\ full' = [full EXCEPT ![r.id] = @ \/ w.full]
        /\ UNCHANGED <<cfg, doc, file, rules, chain, ticks>>

-----------------------------------------------------------------------------
(***************************************************************************)
(* A second passes: buckets fill up, sources idle for Timeout are gone.    *)
(***************************************************************************)
Lower(a, b) == IF a < b THEN a ELSE b

Aged(s, e) ==
    [tokens |-> Lower(s.tokens + e.psRate, Capacity(e.psBurst)), idle |-> s.idle + 1]

AgedGuard(id) ==
    IF id \notin Installed THEN guard[id]
    ELSE LET e == Effective(id)
             kept == {s \in DOMAIN guard[id].sources : guard[id].sources[s].idle + 1 < Timeout}
         IN  [guard[id] EXCEPT
                 !.tokens = Lower(@ + e.rate, Capacity(e.burst)),
                 !.sources = [s \in kept |-> Aged(@[s], e)]]

Tick ==
    /\ ticks < MaxTicks
    /\ ticks' = ticks + 1
    /\ guard' = [i \in IDs |-> AgedGuard(i)]
    /\ last' = NoPacket
    /\ UNCHANGED <<cfg, doc, file, rules, chain, drawn, made, full>>

FlowEnds(id) ==
    /\ guard[id].conns > 0
    /\ guard' = [guard EXCEPT ![id].conns = @ - 1]
    /\ last' = NoPacket
    /\ UNCHANGED <<cfg, doc, file, rules, chain, drawn, made, full, ticks>>

Next ==
    \/ \E d \in Documents : Apply(d)
    \/ \E e \in Environments : Restart(e)
    \/ \E r \in ToSet(rules), src \in Sources : Packet(r, src)
    \/ Tick
    \/ \E id \in IDs : FlowEnds(id)

Spec == Init /\ [][Next]_vars

-----------------------------------------------------------------------------
(***************************************************************************)
(* Types; no bucket or set exceeds its size, and the running agent has one *)
(* authority and a poll interval above the four seconds of a request.      *)
(***************************************************************************)
TypeOK ==
    /\ cfg \in Environments
    /\ (cfg.syncURL = {}) # (cfg.sourceFile = {}) /\ PollSeconds(cfg) > 4
    /\ \A i \in IDs :
          /\ guard[i].tokens \in Nat /\ guard[i].conns \in Nat
          /\ Cardinality(DOMAIN guard[i].sources) <= SetSize
          /\ \A s \in DOMAIN guard[i].sources :
                /\ guard[i].sources[s].tokens \in 0..Capacity(Effective(i).psBurst)
                /\ guard[i].sources[s].idle \in 0..Timeout - 1
    /\ \A i \in Installed : guard[i].tokens <= Capacity(Effective(i).burst)
    /\ ticks \in 0..MaxTicks

PolicySent(id) == (CHOOSE m \in ToSet(doc) : m.id = id).policy

(***************************************************************************)
(* The allowlist drops exactly the sources the platform's document does    *)
(* not admit, after a restart from the persisted file too: an empty list   *)
(* stays deny-all, an omitted one stays open.                              *)
(***************************************************************************)
AclExact ==
    last.verdict # "none" => (last.verdict = "acl" <=> ~Admits(PolicySent(last.id), last.src))

(***************************************************************************)
(* A source that the allowlist denies uses up nothing: no token, no place  *)
(* in the per-source set, no place in the connection list.                 *)
(***************************************************************************)
DeniedLeavesNoTrace ==
    [][last'.verdict # "none" /\ ~Admits(PolicySent(last'.id), last'.src) => UNCHANGED guard]_vars

(***************************************************************************)
(* With the aggregate guard on, a mapping admits no more new flows than    *)
(* its burst and its rate allow since the table was replaced, although     *)
(* sources that find the per-source set full are not limited one by one.   *)
(***************************************************************************)
AggregateHolds ==
    \A i \in Installed :
        Effective(i).rate > 0 =>
            made[i] <= Capacity(Effective(i).burst) + Effective(i).rate * ticks

BurstRefills(e) == e.psRate > 0 /\ Capacity(e.psBurst) <= e.psRate * Timeout

(***************************************************************************)
(* As long as the per-source set has room, one source, however much it     *)
(* sends, takes no more of the mapping's aggregate bucket than its own     *)
(* burst and rate allow.  (Bursts up to rate * Timeout: a larger one is    *)
(* granted again when the idle entry expires.)                             *)
(***************************************************************************)
FloodContained ==
    \A i \in Installed :
        BurstRefills(Effective(i)) /\ ~full[i] =>
            \A s \in Sources :
                drawn[i][s] <= Capacity(Effective(i).psBurst) + Effective(i).psRate * ticks

(***************************************************************************)
(* The table is within the limits the running agent was started with, and  *)
(* clear of the relay's own ports (admin sshd, WireGuard), whatever the    *)
(* operator configured before: a snapshot that an earlier process          *)
(* persisted under a wider band or another target network does not come    *)
(* back (config.Load; LoadPersisted validates on every load).              *)
(***************************************************************************)
LimitsHold ==
    WithinLimits(cfg, rules) /\ \A r \in ToSet(rules) : r.port \notin ReservedRelayPorts
=============================================================================
