----------------------------- MODULE PathProofs -----------------------------
(***************************************************************************)
(* Proofs about PacketPath for any documents, environments, guards and     *)
(* sources.  First the limits of the table, then what a packet meets on    *)
(* its way down the chain.  The chain is as long as the document: that a   *)
(* packet meets the rules of its own mapping, and only those, is shown by  *)
(* taking the shortest prefix of the chain for which it fails.             *)
(***************************************************************************)
EXTENDS PacketPath, ChainLemmas

Complete(d) == \A i \in DOMAIN d : {"port", "target", "policy"} \subseteq DOMAIN d[i]

(***************************************************************************)
(* The running agent has loaded its environment, and the table is within   *)
(* its limits; the file may be within the limits of another one.           *)
(***************************************************************************)
IndInv ==
    /\ cfg \in Environments /\ StartOK(cfg)
    /\ Complete(file)
    /\ WithinLimits(cfg, rules)

(***************************************************************************)
(* Neither the wire nor the file format touches ports and targets.         *)
(***************************************************************************)
LEMMA DecodedLimits ==
    ASSUME NEW e, NEW d, Complete(d), WithinLimits(e, d)
    PROVE  WithinLimits(e, Decoded(d)) /\ Complete(Encoded(Decoded(d)))
<1>1. DOMAIN Decoded(d) = DOMAIN d /\ DOMAIN Encoded(Decoded(d)) = DOMAIN d
  BY DEF Decoded, Encoded
<1>2. ASSUME NEW i \in DOMAIN d
      PROVE  /\ Decoded(d)[i].port = d[i].port /\ Decoded(d)[i].target = d[i].target
             /\ DOMAIN Encoded(Decoded(d))[i] = DOMAIN d[i]
  <2>1. Decoded(d)[i] = [d[i] EXCEPT !.policy = Unmarshal(d[i].policy)]
    BY DEF Decoded
  <2>2. Encoded(Decoded(d))[i] = [Decoded(d)[i] EXCEPT !.policy = Marshal(Decoded(d)[i].policy)]
    BY <1>1 DEF Encoded
  <2> QED
    BY <2>1, <2>2 DEF Complete
<1> QED
  BY <1>1, <1>2 DEF WithinLimits, Complete

(***************************************************************************)
(* A band that Load accepts has no port of the relay itself in it.         *)
(***************************************************************************)
LEMMA BandClear ==
    ASSUME NEW e \in Environments, StartOK(e), NEW p \in The(e.band).min .. The(e.band).max
    PROVE  p \notin ReservedRelayPorts
<1>1. PICK b \in e.band : \A q \in ReservedRelayPorts : ~(b.min <= q /\ q <= b.max)
  BY DEF StartOK, LoadOK, BandOK
<1>2. The(e.band) \in e.band
  BY <1>1 DEF The
<1>3. The(e.band) = b /\ b.min \in Nat /\ b.max \in Nat
  BY <1>1, <1>2, PathAssumption
<1> QED
  BY <1>1, <1>3

LEMMA InitIndInv == Init => IndInv
  BY DEF Init, IndInv, Complete, WithinLimits

LEMMA NextPreserves == IndInv /\ [Next]_vars => IndInv'
<1> SUFFICES ASSUME IndInv, [Next]_vars PROVE IndInv'
  OBVIOUS
<1> USE DEF IndInv
<1>1. ASSUME NEW d \in Documents, Apply(d) PROVE IndInv'
  <2>1. /\ WithinLimits(cfg, d) /\ cfg' = cfg
        /\ rules' = Decoded(d) /\ file' = Encoded(Decoded(d))
    BY <1>1 DEF Apply, Replace
  <2>2. Complete(d)
    <3>1. ASSUME NEW i \in DOMAIN d PROVE {"port", "target", "policy"} \subseteq DOMAIN d[i]
      <4>1. d[i] \in ToSet(d)
        BY DEF ToSet
      <4>2. DOMAIN d[i] = {"id", "proto", "port", "target", "mark", "policy", "over"}
        BY <4>1, PathAssumption
      <4> QED
        BY <4>2
    <3> QED
      BY <3>1 DEF Complete
  <2> QED
    BY <2>1, <2>2, DecodedLimits
<1>2. ASSUME NEW e \in Environments, Restart(e) PROVE IndInv'
  <2>1. cfg' = e /\ StartOK(e)
    BY <1>2 DEF Restart
  <2>2. CASE Loadable(e)
    <3>1. rules' = Decoded(file) /\ file' = file /\ WithinLimits(e, file)
      BY <1>2, <2>2 DEF Restart, Replace, Loadable
    <3> QED
      BY <2>1, <3>1, DecodedLimits
  <2>3. CASE ~Loadable(e)
    <3>1. rules' = <<>> /\ file' = <<>>
      BY <1>2, <2>3 DEF Restart, Replace
    <3> QED
      BY <2>1, <3>1 DEF Complete, WithinLimits
  <2> QED
    BY <2>2, <2>3
<1>3. CASE UNCHANGED <<cfg, file, rules>>
  BY <1>3 DEF Complete, WithinLimits
<1> QED
  BY <1>1, <1>2, <1>3 DEF Next, Packet, Tick, FlowEnds, vars

LEMMA Invariance == Spec => []IndInv
  BY InitIndInv, NextPreserves, PTL DEF Spec

(***************************************************************************)
(* No table has a port or a target outside the limits the running agent    *)
(* was started with, nor a port of the relay itself, however the operator  *)
(* changes the environment between two starts.                             *)
(***************************************************************************)
THEOREM TableWithinLimits == Spec => []LimitsHold
<1>1. IndInv => LimitsHold
  <2> SUFFICES ASSUME IndInv, NEW i \in DOMAIN rules
               PROVE  rules[i].port \notin ReservedRelayPorts
    BY DEF IndInv, LimitsHold, ToSet
  <2>1. rules[i].port \in The(cfg.band).min .. The(cfg.band).max
    BY DEF IndInv, WithinLimits
  <2> QED
    BY <2>1, BandClear DEF IndInv
<1> QED
  BY <1>1, Invariance, PTL

-----------------------------------------------------------------------------
(***************************************************************************)
(* after, as Down defines it, for the rules rs up to the n-th.             *)
(***************************************************************************)
Trace(f, rs, pkt, w, n) ==
    f = [i \in 0..n |-> IF i = 0 THEN w ELSE Through(rs[i], pkt, f[i - 1])]

LEMMA TraceExists ==
    ASSUME NEW rs, NEW pkt, NEW w, NEW n \in Nat
    PROVE  \E f : Trace(f, rs, pkt, w, n)
<1> DEFINE T == {k \in Nat : ~\E f : Trace(f, rs, pkt, w, k)}
<1> SUFFICES ASSUME T # {} PROVE FALSE
  OBVIOUS
<1>1. PICK k \in T : \A y \in T : k <= y
  BY LeastExists
<1>2. k # 0
  <2> DEFINE g == [i \in 0..0 |-> w]
  <2>1. g = [i \in 0..0 |-> IF i = 0 THEN w ELSE Through(rs[i], pkt, g[i - 1])]
    OBVIOUS
  <2>2. Trace(g, rs, pkt, w, 0)
    BY <2>1, Zenon DEF Trace
  <2> QED
    BY <2>2
<1>3. k - 1 \in Nat /\ k - 1 \notin T
  BY <1>1, <1>2
<1>4. PICK f : Trace(f, rs, pkt, w, k - 1)
  BY <1>3
<1> DEFINE g == [i \in 0..k |-> IF i = k THEN Through(rs[k], pkt, f[k - 1]) ELSE f[i]]
<1>5. g = [i \in 0..k |-> IF i = 0 THEN w ELSE Through(rs[i], pkt, g[i - 1])]
  <2>1. ASSUME NEW i \in 0..k
        PROVE  g[i] = IF i = 0 THEN w ELSE Through(rs[i], pkt, g[i - 1])
    <3>1. CASE i = k
      <4>1. g[i - 1] = f[k - 1]
        BY <3>1, <1>2
      <4> QED
        BY <4>1, <3>1, <1>2
    <3>2. CASE i # k
      <4>1. i \in 0..(k - 1)
        BY <3>2
      <4>2. f[i] = IF i = 0 THEN w ELSE Through(rs[i], pkt, f[i - 1])
        BY <4>1, <1>4 DEF Trace
      <4>3. i # 0 => g[i - 1] = f[i - 1]
        BY <4>1
      <4> QED
        BY <4>2, <4>3, <3>2
    <3> QED
      BY <3>1, <3>2
  <2> QED
    BY <2>1
<1>6. Trace(g, rs, pkt, w, k)
  BY <1>5, Zenon DEF Trace
<1> QED
  BY <1>6

LEMMA TraceUnique ==
    ASSUME NEW rs, NEW pkt, NEW w, NEW n \in Nat, NEW f, NEW g,
           Trace(f, rs, pkt, w, n), Trace(g, rs, pkt, w, n)
    PROVE  f[n] = g[n]
<1> DEFINE T == {k \in Nat : k <= n /\ f[k] # g[k]}
<1> SUFFICES ASSUME T # {} PROVE FALSE
  OBVIOUS
<1>1. PICK k \in T : \A y \in T : k <= y
  BY LeastExists
<1>2. k \in 0..n
  OBVIOUS
<1>3. /\ f[k] = IF k = 0 THEN w ELSE Through(rs[k], pkt, f[k - 1])
      /\ g[k] = IF k = 0 THEN w ELSE Through(rs[k], pkt, g[k - 1])
  BY <1>2 DEF Trace
<1>4. k # 0 => f[k - 1] = g[k - 1]
  BY <1>1
<1> QED
  BY <1>3, <1>4

(***************************************************************************)
(* What a walk ends with is the last value of any such function.           *)
(***************************************************************************)
LEMMA DownIs ==
    ASSUME NEW rs, Len(rs) \in Nat, NEW pkt, NEW w, NEW f, Trace(f, rs, pkt, w, Len(rs))
    PROVE  Down(rs, pkt, w) = f[Len(rs)]
<1> DEFINE n == Len(rs)
<1> DEFINE g == CHOOSE h : h = [i \in 0..n |-> IF i = 0 THEN w ELSE Through(rs[i], pkt, h[i - 1])]
<1>1. Down(rs, pkt, w) = g[n]
  BY DEF Down
<1>2. g = [i \in 0..n |-> IF i = 0 THEN w ELSE Through(rs[i], pkt, g[i - 1])]
  BY DEF Trace
<1>3. Trace(g, rs, pkt, w, n)
  BY <1>2, Zenon DEF Trace
<1> QED
  BY <1>1, <1>3, TraceUnique

(***************************************************************************)
(* Rules that do not select the packet leave the walk alone.               *)
(***************************************************************************)
LEMMA DownSkips ==
    ASSUME NEW rs, Len(rs) \in Nat, NEW pkt, NEW w, \A i \in 1..Len(rs) : ~Selects(rs[i], pkt)
    PROVE  Down(rs, pkt, w) = w
<1> DEFINE f == [i \in 0..Len(rs) |-> w]
<1>1. ASSUME NEW i \in 0..Len(rs)
      PROVE  f[i] = IF i = 0 THEN w ELSE Through(rs[i], pkt, f[i - 1])
  BY DEF Through
<1>2. f = [i \in 0..Len(rs) |-> IF i = 0 THEN w ELSE Through(rs[i], pkt, f[i - 1])]
  BY <1>1
<1>3. Trace(f, rs, pkt, w, Len(rs))
  BY <1>2, Zenon DEF Trace
<1> QED
  BY <1>3, DownIs

LEMMA DownOne ==
    ASSUME NEW rule, NEW pkt, NEW w
    PROVE  Down(<<rule>>, pkt, w) = Through(rule, pkt, w)
<1> DEFINE rs == <<rule>>
           f == [i \in 0..1 |-> IF i = 0 THEN w ELSE Through(rule, pkt, w)]
<1>1. Len(rs) = 1 /\ rs[1] = rule
  OBVIOUS
<1>2. f = [i \in 0..1 |-> IF i = 0 THEN w ELSE Through(rs[i], pkt, f[i - 1])]
  <2>1. ASSUME NEW i \in 0..1
        PROVE  f[i] = IF i = 0 THEN w ELSE Through(rs[i], pkt, f[i - 1])
    <3>1. CASE i = 0
      BY <3>1
    <3>2. CASE i = 1
      <4>1. rs[i] = rule /\ f[i - 1] = w
        BY <3>2
      <4> QED
        BY <4>1, <3>2
    <3> QED
      BY <3>1, <3>2
  <2> QED
    BY <2>1
<1>3. Trace(f, rs, pkt, w, 1)
  BY <1>2, Zenon DEF Trace
<1> QED
  BY <1>1, <1>3, DownIs

(***************************************************************************)
(* A walk down two chains is a walk down one and then the other.           *)
(***************************************************************************)
LEMMA DownConcat ==
    ASSUME NEW S, NEW rs \in Seq(S), NEW ss \in Seq(S), NEW pkt, NEW w
    PROVE  Down(rs \o ss, pkt, w) = Down(ss, pkt, Down(rs, pkt, w))
<1> DEFINE n == Len(rs)
           m == Len(ss)
           v == Down(rs, pkt, w)
<1>1. n \in Nat /\ m \in Nat
  BY LenProperties
<1>2. PICK f : Trace(f, rs, pkt, w, n)
  BY <1>1, TraceExists
<1>3. v = f[n]
  BY <1>1, <1>2, DownIs
<1>4. PICK g : Trace(g, ss, pkt, v, m)
  BY <1>1, TraceExists
<1>5. Down(ss, pkt, v) = g[m]
  BY <1>1, <1>4, DownIs
<1>6. /\ Len(rs \o ss) = n + m
      /\ \A i \in 1..(n + m) : (rs \o ss)[i] = IF i <= n THEN rs[i] ELSE ss[i - n]
  BY ConcatProperties
<1> HIDE DEF n, m, v
<1> DEFINE h == [i \in 0..(n + m) |-> IF i <= n THEN f[i] ELSE g[i - n]]
<1>7. ASSUME NEW i \in 0..(n + m)
      PROVE  h[i] = IF i = 0 THEN w ELSE Through((rs \o ss)[i], pkt, h[i - 1])
  <2>1. CASE i <= n
    <3>1. i \in 0..n
      BY <2>1, <1>1
    <3>2. f[i] = IF i = 0 THEN w ELSE Through(rs[i], pkt, f[i - 1])
      BY <3>1, <1>2 DEF Trace
    <3>3. i # 0 => (h[i - 1] = f[i - 1] /\ (rs \o ss)[i] = rs[i])
      BY <3>1, <1>1, <1>6
    <3> QED
      BY <3>2, <3>3, <2>1
  <2>2. CASE i > n
    <3>1. i - n \in 0..m /\ i - n # 0 /\ i # 0
      BY <2>2, <1>1
    <3>2. g[i - n] = Through(ss[i - n], pkt, g[(i - n) - 1])
      BY <3>1, <1>4 DEF Trace
    <3>3. (rs \o ss)[i] = ss[i - n]
      BY <2>2, <1>1, <1>6
    <3>4. h[i - 1] = g[(i - n) - 1]
      <4>1. CASE i - 1 > n
        BY <4>1, <1>1
      <4>2. CASE i - 1 = n
        <5>1. g[0] = v
          BY <1>1, <1>4 DEF Trace
        <5>2. h[n] = f[n]
          BY <1>1
        <5>3. (i - n) - 1 = 0
          BY <4>2, <1>1
        <5> QED
          BY <5>1, <5>2, <5>3, <4>2, <1>3
      <4> QED
        BY <4>1, <4>2, <2>2, <1>1
    <3>5. h[i] = g[i - n]
      BY <2>2, <1>1
    <3> QED
      BY <3>1, <3>2, <3>3, <3>4, <3>5
  <2>3. i <= n \/ i > n
    BY <1>1
  <2> QED
    BY <2>1, <2>2, <2>3
<1>8. h = [i \in 0..(n + m) |-> IF i = 0 THEN w ELSE Through((rs \o ss)[i], pkt, h[i - 1])]
  BY <1>7
<1>9. Trace(h, rs \o ss, pkt, w, Len(rs \o ss))
  BY <1>6, <1>8, Zenon DEF Trace
<1> HIDE DEF h
<1>10. Down(rs \o ss, pkt, w) = h[n + m]
  <2>1. Len(rs \o ss) \in Nat
    BY <1>1, <1>6
  <2> QED
    BY <2>1, <1>9, <1>6, DownIs
<1> USE DEF h
<1>11. h[n + m] = g[m]
  <2>1. CASE m = 0
    <3>1. g[0] = v
      BY <1>1, <1>4 DEF Trace
    <3> QED
      BY <3>1, <2>1, <1>1, <1>3
  <2>2. CASE m # 0
    BY <2>2, <1>1
  <2> QED
    BY <2>1, <2>2
<1> QED
  BY <1>5, <1>10, <1>11 DEF v

(***************************************************************************)
(* A packet that no rule outside the m-th block selects walks down that    *)
(* block only.                                                             *)
(***************************************************************************)
LEMMA DownFlatten ==
    ASSUME NEW S, NEW seqs \in Seq(Seq(S)), NEW m \in 1..Len(seqs), NEW pkt, NEW w,
           \A i \in 1..Len(seqs) : i # m => \A j \in 1..Len(seqs[i]) : ~Selects(seqs[i][j], pkt)
    PROVE  Down(FlattenSeq(seqs), pkt, w) = Down(seqs[m], pkt, w)
<1> DEFINE n == Len(seqs)
           met(k) == IF k < m THEN w ELSE Down(seqs[m], pkt, w)
<1>1. n \in Nat \ {0} /\ \A i \in 1..n : seqs[i] \in Seq(S) /\ Len(seqs[i]) \in Nat
  BY LenProperties, ElementOfSeq
<1>2. PICK f : Joined(f, seqs, n) /\ FlattenSeq(seqs) = f[n]
  BY <1>1, FlattenIs
<1>3. ASSUME NEW i \in 1..n, i # m, NEW v PROVE Down(seqs[i], pkt, v) = v
  BY <1>1, <1>3, DownSkips
<1> DEFINE T == {k \in Nat : k \in 1..n /\ ~(f[k] \in Seq(S) /\ Down(f[k], pkt, w) = met(k))}
<1>4. T = {}
  <2> SUFFICES ASSUME T # {} PROVE FALSE
    OBVIOUS
  <2>1. PICK k \in T : \A y \in T : k <= y
    BY LeastExists
  <2>2. k \in 1..n
    OBVIOUS
  <2>3. f[k] = IF k = 1 THEN seqs[k] ELSE f[k - 1] \o seqs[k]
    BY <2>2, <1>2 DEF Joined
  <2>4. CASE k = 1
    <3>1. f[k] = seqs[k] /\ f[k] \in Seq(S)
      BY <2>3, <2>4, <2>2, <1>1
    <3>2. CASE k = m
      BY <3>1, <3>2
    <3>3. CASE k # m
      <4>1. Down(f[k], pkt, w) = w
        BY <3>1, <3>3, <2>2, <1>3
      <4>2. k < m
        BY <3>3, <2>4
      <4> QED
        BY <3>1, <4>1, <4>2
    <3> QED
      BY <3>2, <3>3
  <2>5. CASE k # 1
    <3>1. k - 1 \in 1..n /\ k - 1 \in Nat /\ k - 1 \notin T
      BY <2>1, <2>2, <2>5
    <3>2. f[k - 1] \in Seq(S) /\ Down(f[k - 1], pkt, w) = met(k - 1)
      BY <3>1
    <3>3. f[k] = f[k - 1] \o seqs[k] /\ seqs[k] \in Seq(S)
      BY <2>3, <2>5, <2>2, <1>1
    <3>4. f[k] \in Seq(S)
      BY <3>2, <3>3, ConcatProperties
    <3>5. Down(f[k], pkt, w) = Down(seqs[k], pkt, met(k - 1))
      <4>1. Down(f[k - 1] \o seqs[k], pkt, w) = Down(seqs[k], pkt, Down(f[k - 1], pkt, w))
        <5>1. f[k - 1] \in Seq(S) /\ seqs[k] \in Seq(S)
          BY <3>2, <3>3
        <5>2. ASSUME NEW a \in Seq(S), NEW b \in Seq(S), NEW v
              PROVE  Down(a \o b, pkt, v) = Down(b, pkt, Down(a, pkt, v))
          BY DownConcat
        <5> HIDE DEF met, T, n
        <5> QED
          BY <5>1, <5>2
      <4> HIDE DEF met
      <4> QED
        BY <4>1, <3>2, <3>3
    <3>6. CASE k = m
      <4>1. met(k - 1) = w
        BY <3>6, <2>2
      <4>2. met(k) = Down(seqs[k], pkt, w)
        BY <3>6, <2>2
      <4> QED
        BY <3>4, <3>5, <4>1, <4>2
    <3>7. CASE k # m
      <4>1. met(k - 1) = met(k)
        BY <3>7, <2>2
      <4>2. Down(seqs[k], pkt, met(k - 1)) = met(k - 1)
        BY <3>7, <2>2, <1>3
      <4> QED
        BY <3>4, <3>5, <4>1, <4>2
    <3> QED
      BY <3>6, <3>7
  <2> QED
    BY <2>4, <2>5
<1>5. Down(f[n], pkt, w) = met(n)
  BY <1>1, <1>4
<1>6. met(n) = Down(seqs[m], pkt, w)
  BY <1>1
<1> QED
  BY <1>2, <1>5, <1>6

(***************************************************************************)
(* The rules of one mapping, one after the other.                          *)
(***************************************************************************)
Optionally(c, rule, pkt, w) == IF c THEN Through(rule, pkt, w) ELSE w

AfterAcl(r, pkt, w) == Optionally(r.policy # {}, AclRule(r), pkt, w)
AfterPerSource(r, e, pkt, w) ==
    Optionally(e.psRate > 0, PerSourceRule(r, e), pkt, AfterAcl(r, pkt, w))
AfterAggregate(r, e, pkt, w) ==
    Optionally(e.rate > 0, AggregateRule(r, e), pkt, AfterPerSource(r, e, pkt, w))
AfterConnlimit(r, e, pkt, w) ==
    Optionally(e.maxConn > 0, ConnlimitRule(r, e), pkt, AfterAggregate(r, e, pkt, w))
AfterDnat(r, e, pkt, w) == Through(DnatRule(r), pkt, AfterConnlimit(r, e, pkt, w))

LEMMA DownWhen ==
    ASSUME NEW c, NEW rule, NEW pkt, NEW w
    PROVE  Down(When(c, rule), pkt, w) = Optionally(c, rule, pkt, w)
<1>1. CASE c
  <2>1. When(c, rule) = <<rule>>
    BY <1>1 DEF When
  <2> QED
    BY <1>1, <2>1, DownOne DEF Optionally
<1>2. CASE ~c
  <2>1. When(c, rule) = <<>>
    BY <1>2 DEF When
  <2>2. Len(<<>>) = 0 /\ Len(<<>>) \in Nat
    OBVIOUS
  <2>3. \A i \in 1..Len(<<>>) : ~Selects(<<>>[i], pkt)
    BY <2>2
  <2>4. Down(<<>>, pkt, w) = w
    BY <2>2, <2>3, DownSkips
  <2> QED
    BY <1>2, <2>1, <2>4 DEF Optionally
<1> QED
  BY <1>1, <1>2

LEMMA DownMapping ==
    ASSUME NEW r, NEW g, NEW pkt, NEW w, \A k, l \in r.policy : k = l
    PROVE  Down(MappingRules(r, g), pkt, w) = AfterDnat(r, EffectiveGuards(r, g), pkt, w)
<1> DEFINE e == EffectiveGuards(r, g)
           S == {AclRule(r), PerSourceRule(r, e), AggregateRule(r, e), ConnlimitRule(r, e),
                 DnatRule(r)}
           s1 == When(r.policy # {}, AclRule(r))
           s2 == When(e.psRate > 0, PerSourceRule(r, e))
           s3 == When(e.rate > 0, AggregateRule(r, e))
           s4 == When(e.maxConn > 0, ConnlimitRule(r, e))
           s5 == <<DnatRule(r)>>
<1>1. MappingRules(r, g) = (((s1 \o s2) \o s3) \o s4) \o s5
  BY AclRulesAre, Zenon DEF MappingRules, PerSourceRules, PerSourceRule, AggregateRules,
     AggregateRule, ConnlimitRules, ConnlimitRule
<1>2. s1 \in Seq(S) /\ s2 \in Seq(S) /\ s3 \in Seq(S) /\ s4 \in Seq(S) /\ s5 \in Seq(S)
  <2>1. /\ AclRule(r) \in S /\ PerSourceRule(r, e) \in S /\ AggregateRule(r, e) \in S
        /\ ConnlimitRule(r, e) \in S /\ DnatRule(r) \in S
    OBVIOUS
  <2> HIDE DEF S, e
  <2> QED
    BY <2>1, OneOrNone
<1>3. ASSUME NEW a \in Seq(S), NEW b \in Seq(S), NEW v
      PROVE  a \o b \in Seq(S) /\ Down(a \o b, pkt, v) = Down(b, pkt, Down(a, pkt, v))
  <2> HIDE DEF S
  <2> QED
    BY DownConcat, ConcatProperties
<1>4. /\ \A v : Down(s1, pkt, v) = Optionally(r.policy # {}, AclRule(r), pkt, v)
      /\ \A v : Down(s2, pkt, v) = Optionally(e.psRate > 0, PerSourceRule(r, e), pkt, v)
      /\ \A v : Down(s3, pkt, v) = Optionally(e.rate > 0, AggregateRule(r, e), pkt, v)
      /\ \A v : Down(s4, pkt, v) = Optionally(e.maxConn > 0, ConnlimitRule(r, e), pkt, v)
      /\ \A v : Down(s5, pkt, v) = Through(DnatRule(r), pkt, v)
  BY DownWhen, DownOne
<1> HIDE DEF S, s1, s2, s3, s4, s5, e
<1>5. Down(s1, pkt, w) = AfterAcl(r, pkt, w)
  BY <1>4 DEF AfterAcl
<1>6. s1 \o s2 \in Seq(S) /\ Down(s1 \o s2, pkt, w) = AfterPerSource(r, e, pkt, w)
  BY <1>2, <1>3, <1>4, <1>5 DEF AfterPerSource
<1>7. (s1 \o s2) \o s3 \in Seq(S) /\ Down((s1 \o s2) \o s3, pkt, w) = AfterAggregate(r, e, pkt, w)
  <2>1. (s1 \o s2) \in Seq(S) /\ s3 \in Seq(S)
    BY <1>2, <1>6
  <2>2. /\ (s1 \o s2) \o s3 \in Seq(S)
        /\ Down((s1 \o s2) \o s3, pkt, w) = Down(s3, pkt, Down((s1 \o s2), pkt, w))
    BY <2>1, <1>3, Zenon
  <2> QED
    BY <2>2, <1>4, <1>6 DEF AfterAggregate
<1>8. /\ ((s1 \o s2) \o s3) \o s4 \in Seq(S)
      /\ Down(((s1 \o s2) \o s3) \o s4, pkt, w) = AfterConnlimit(r, e, pkt, w)
  <2>1. ((s1 \o s2) \o s3) \in Seq(S) /\ s4 \in Seq(S)
    BY <1>2, <1>7
  <2>2. /\ ((s1 \o s2) \o s3) \o s4 \in Seq(S)
        /\ Down(((s1 \o s2) \o s3) \o s4, pkt, w) = Down(s4, pkt, Down(((s1 \o s2) \o s3), pkt, w))
    BY <2>1, <1>3, Zenon
  <2> QED
    BY <2>2, <1>4, <1>7 DEF AfterConnlimit
<1>9. Down((((s1 \o s2) \o s3) \o s4) \o s5, pkt, w) = AfterDnat(r, e, pkt, w)
  <2>1. (((s1 \o s2) \o s3) \o s4) \in Seq(S) /\ s5 \in Seq(S)
    BY <1>2, <1>8
  <2>2. /\ (((s1 \o s2) \o s3) \o s4) \o s5 \in Seq(S)
        /\ Down((((s1 \o s2) \o s3) \o s4) \o s5, pkt, w) = Down(s5, pkt, Down((((s1 \o s2) \o s3) \o s4), pkt, w))
    BY <2>1, <1>3, Zenon
  <2> QED
    BY <2>2, <1>4, <1>8 DEF AfterDnat
<1> QED
  BY <1>1, <1>9 DEF e

-----------------------------------------------------------------------------
(***************************************************************************)
(* Types of the guards and of a walk.                                      *)
(***************************************************************************)
Entries == [tokens : Nat, idle : Nat]

SourceSets == UNION {[D -> Entries] : D \in SUBSET Sources}

GuardStates == [tokens : Nat, sources : SourceSets, conns : Nat]

Verdicts == {"none", "acl", "persource", "aggregate", "connlimit", "dnat"}

Walks == [verdict : Verdicts, guard : [IDs -> GuardStates], full : BOOLEAN, drew : BOOLEAN]

LEMMA SourceSetsIn ==
    ASSUME NEW D \in SUBSET Sources, NEW f \in [D -> Entries]
    PROVE  f \in SourceSets
  BY DEF SourceSets

LEMMA SourceSetsOut ==
    ASSUME NEW f \in SourceSets
    PROVE  DOMAIN f \subseteq Sources /\ f \in [DOMAIN f -> Entries]
<1>1. PICK D \in SUBSET Sources : f \in [D -> Entries]
  BY DEF SourceSets
<1>2. DOMAIN f = D
  BY <1>1
<1> QED
  BY <1>1, <1>2

LEMMA CapacityType ==
    ASSUME NEW b \in Nat
    PROVE  Capacity(b) \in Nat
  BY PathAssumption DEF Capacity

-----------------------------------------------------------------------------
(***************************************************************************)
(* What a walk w that began with the guards G may have done on the rules   *)
(* of mapping r, with guards e, to a packet from src.                      *)
(***************************************************************************)
Denied(r, src) == r.policy # {} /\ SourceDrops(CHOOSE l \in r.policy : TRUE, src)

Level(old, src, e) == IF src \in DOMAIN old THEN old[src].tokens ELSE Capacity(e.psBurst)

Charged(old, new, src) ==
    /\ DOMAIN new = DOMAIN old \cup {src}
    /\ \A s \in DOMAIN old \ {src} : new[s] = old[s]
    /\ new[src].idle = 0

SourcesMoved(w, old, new, src, e) ==
    \/ new = old /\ ~w.drew /\ w.verdict = "acl"
    \/ Charged(old, new, src) /\ ~w.drew /\ w.verdict = "persource" /\ new[src].tokens = 0
    \/ Charged(old, new, src) /\ Level(old, src, e) > 0 /\ new[src].tokens = Level(old, src, e) - 1

Effect(w, G, r, src, e) ==
    /\ w \in Walks
    /\ \A i \in IDs \ {r.id} : w.guard[i] = G[i]
    /\ w.guard[r.id].tokens = IF w.drew THEN G[r.id].tokens - 1 ELSE G[r.id].tokens
    /\ (e.psRate > 0 /\ ~w.full) => SourcesMoved(w, G[r.id].sources, w.guard[r.id].sources, src, e)
    /\ w.verdict = "acl" <=> Denied(r, src)
    /\ w.verdict = "acl" => w.guard = G

(***************************************************************************)
(* Everything the lemmas on single rules are about: a mapping, its guards, *)
(* and a packet for it.                                                    *)
(***************************************************************************)
Meets(r, e, pkt, G) ==
    /\ r.id \in IDs /\ e \in [GuardNames -> Nat]
    /\ pkt.src \in Sources /\ pkt.port = r.port /\ pkt.proto = r.proto
    /\ G \in [IDs -> GuardStates]

Started(G) == [verdict |-> "none", guard |-> G, full |-> FALSE, drew |-> FALSE]

LEMMA RuleSelects ==
    ASSUME NEW r, NEW e, NEW pkt, NEW G, Meets(r, e, pkt, G), NEW k, NEW a
    PROVE  /\ Selects(NatRule(k, r, a), pkt)
           /\ NatRule(k, r, a).kind = k /\ NatRule(k, r, a).id = r.id /\ NatRule(k, r, a).args = a
  BY DEF Meets, Selects, NatRule

LEMMA ThroughDone ==
    ASSUME NEW rule, NEW pkt, NEW w, w.verdict # "none"
    PROVE  Through(rule, pkt, w) = w
  BY DEF Through

LEMMA AclStep ==
    ASSUME NEW r, NEW e, NEW pkt, NEW G, Meets(r, e, pkt, G)
    PROVE  AfterAcl(r, pkt, Started(G)) =
             IF Denied(r, pkt.src) THEN [Started(G) EXCEPT !.verdict = "acl"] ELSE Started(G)
<1>1. /\ Selects(AclRule(r), pkt) /\ AclRule(r).kind = "acl"
      /\ AclRule(r).args = CHOOSE l \in r.policy : TRUE
  BY RuleSelects DEF AclRule
<1>2. Started(G).verdict = "none"
  BY DEF Started
<1>3. Through(AclRule(r), pkt, Started(G)) =
        IF SourceDrops(AclRule(r).args, pkt.src) THEN [Started(G) EXCEPT !.verdict = "acl"]
        ELSE Started(G)
  BY <1>1, <1>2 DEF Through
<1> QED
  BY <1>1, <1>3 DEF AfterAcl, Optionally, Denied

LEMMA PerSourceStep ==
    ASSUME NEW r, NEW e, NEW pkt, NEW G, Meets(r, e, pkt, G)
    PROVE  LET w == AfterPerSource(r, e, pkt, Started(G))
           IN  /\ Effect(w, G, r, pkt.src, e)
               /\ ~w.drew /\ w.verdict \in {"none", "acl", "persource"}
<1> DEFINE w0 == Started(G)
           v == AfterAcl(r, pkt, w0)
           w == AfterPerSource(r, e, pkt, w0)
           rule == PerSourceRule(r, e)
           src == pkt.src
           old == G[r.id].sources
<1>1. r.id \in IDs /\ src \in Sources /\ G \in [IDs -> GuardStates] /\ e.psBurst \in Nat
  BY DEF Meets, GuardNames
<1>2. old \in SourceSets /\ G[r.id].tokens \in Nat /\ G[r.id].conns \in Nat
  BY <1>1 DEF GuardStates
<1>3. w0 \in Walks
  BY <1>1 DEF Walks, Verdicts, Started
<1>4. CASE Denied(r, src)
  <2>1. v = [w0 EXCEPT !.verdict = "acl"]
    BY <1>4, AclStep
  <2>2. v \in Walks /\ v.verdict = "acl" /\ v.guard = G /\ ~v.drew /\ ~v.full
    BY <2>1, <1>3 DEF Walks, Verdicts, Started
  <2>3. w = v
    BY <2>2, ThroughDone DEF AfterPerSource, Optionally
  <2> QED
    BY <2>2, <2>3, <1>4 DEF Effect, SourcesMoved
<1>5. CASE ~Denied(r, src)
  <2>1. v = w0 /\ v.verdict = "none" /\ v.guard = G /\ ~v.drew /\ ~v.full
    <3>1. v = w0
      BY <1>5, AclStep
    <3> QED
      BY <3>1 DEF Started
  <2>2. CASE ~(e.psRate > 0)
    <3>1. w = w0
      BY <2>1, <2>2 DEF AfterPerSource, Optionally
    <3> QED
      BY <3>1, <2>1, <2>2, <1>3, <1>5 DEF Effect
  <2>3. CASE e.psRate > 0
    <3>1. /\ Selects(rule, pkt) /\ rule.kind = "persource" /\ rule.id = r.id
          /\ rule.args = <<e.psRate, e.psBurst>>
      BY RuleSelects DEF PerSourceRule
    <3>2. w = PerSource(w0, rule, src)
      BY <3>1, <2>1, <2>3 DEF AfterPerSource, Optionally, Through
    <3>3. Bucket(w0, rule, src) = Level(old, src, e)
      BY <3>1 DEF Bucket, Tracked, Level, Started
    <3>4. Level(old, src, e) \in Nat
      BY <1>1, <1>2, SourceSetsOut, CapacityType DEF Level, Entries
    <3>5. ASSUME NEW n \in Nat
          PROVE  LET new == UpdateSource(w0, rule, src, n)
                 IN  new \in SourceSets /\ Charged(old, new, src) /\ new[src].tokens = n
      <4> DEFINE new == UpdateSource(w0, rule, src, n)
      <4>1. new = [s \in DOMAIN old \cup {src} |->
                     IF s = src THEN [tokens |-> n, idle |-> 0] ELSE old[s]]
        BY <3>1 DEF UpdateSource, Started
      <4>2. DOMAIN old \subseteq Sources /\ \A s \in DOMAIN old : old[s] \in Entries
        BY <1>2, SourceSetsOut
      <4>3. [tokens |-> n, idle |-> 0] \in Entries
        BY DEF Entries
      <4>4. new \in [DOMAIN old \cup {src} -> Entries]
        BY <4>1, <4>2, <4>3
      <4>5. DOMAIN old \cup {src} \in SUBSET Sources
        BY <4>2, <1>1
      <4>6. new \in SourceSets
        BY <4>4, <4>5, SourceSetsIn
      <4> QED
        BY <4>1, <4>6 DEF Charged
    <3> DEFINE up(n) == [G EXCEPT ![r.id].sources = UpdateSource(w0, rule, src, n)]
    <3>6. ASSUME NEW n \in Nat
          PROVE  /\ up(n) \in [IDs -> GuardStates] /\ \A i \in IDs \ {r.id} : up(n)[i] = G[i]
                 /\ up(n)[r.id].tokens = G[r.id].tokens
                 /\ up(n)[r.id].sources = UpdateSource(w0, rule, src, n)
      <4>1. UpdateSource(w0, rule, src, n) \in SourceSets
        BY <3>5
      <4> QED
        BY <4>1, <1>1 DEF GuardStates
    <3>7. CASE SourceSetFull(w0, rule, src)
      <4>1. w = [w0 EXCEPT !.full = TRUE]
        BY <3>2, <3>7 DEF PerSource
      <4> QED
        BY <4>1, <1>3, <1>5 DEF Effect, Walks, Verdicts, Started
    <3>8. CASE ~SourceSetFull(w0, rule, src) /\ Bucket(w0, rule, src) = 0
      <4>1. w = [verdict |-> "persource", guard |-> up(0), full |-> FALSE, drew |-> FALSE]
        BY <3>1, <3>2, <3>8 DEF PerSource, Started
      <4>2. Charged(old, up(0)[r.id].sources, src) /\ up(0)[r.id].sources[src].tokens = 0
        <5>1. 0 \in Nat
          OBVIOUS
        <5>2. up(0)[r.id].sources = UpdateSource(w0, rule, src, 0)
          BY <5>1, <3>6
        <5> HIDE DEF up
        <5> QED
          BY <5>1, <5>2, <3>5
      <4>3. w \in Walks
        BY <4>1, <3>6 DEF Walks, Verdicts
      <4>4. /\ \A i \in IDs \ {r.id} : up(0)[i] = G[i]
            /\ up(0)[r.id].tokens = G[r.id].tokens
        BY <3>6
      <4>5. /\ w.verdict = "persource" /\ w.guard = up(0) /\ ~w.drew
        BY <4>1
      <4>6. SourcesMoved(w, old, up(0)[r.id].sources, src, e)
        <5> HIDE DEF up, old, w
        <5> QED
          BY <4>2, <4>5 DEF SourcesMoved
      <4>7. Effect(w, G, r, src, e)
        <5> HIDE DEF up, w
        <5> QED
          BY <4>3, <4>4, <4>5, <4>6, <1>5 DEF Effect
      <4> QED
        BY <4>5, <4>7
    <3>9. CASE ~SourceSetFull(w0, rule, src) /\ Bucket(w0, rule, src) # 0
      <4> DEFINE n == Level(old, src, e) - 1
      <4>1. n \in Nat /\ Level(old, src, e) > 0
        BY <3>3, <3>4, <3>9
      <4>2. w = [verdict |-> "none", guard |-> up(n), full |-> FALSE, drew |-> FALSE]
        BY <3>1, <3>2, <3>3, <3>9 DEF PerSource, Started
      <4>3. Charged(old, up(n)[r.id].sources, src) /\ up(n)[r.id].sources[src].tokens = n
        BY <4>1, <3>5, <3>6
      <4>4. w \in Walks
        BY <4>1, <4>2, <3>6 DEF Walks, Verdicts
      <4>5. /\ \A i \in IDs \ {r.id} : up(n)[i] = G[i]
            /\ up(n)[r.id].tokens = G[r.id].tokens
        BY <4>1, <3>6
      <4>6. SourcesMoved(w, old, up(n)[r.id].sources, src, e)
        <5> HIDE DEF up, old, w
        <5> QED
          BY <4>1, <4>3 DEF SourcesMoved
      <4>7. /\ w.verdict = "none" /\ w.guard = up(n) /\ ~w.drew
        BY <4>2
      <4>8. Effect(w, G, r, src, e)
        <5> HIDE DEF up, n, w
        <5> QED
          BY <4>4, <4>5, <4>6, <4>7, <1>5 DEF Effect
      <4> QED
        BY <4>7, <4>8
    <3> QED
      BY <3>7, <3>8, <3>9
  <2> QED
    BY <2>2, <2>3
<1> QED
  BY <1>4, <1>5

(***************************************************************************)
(* A step that changes neither the guard of src nor the tokens.            *)
(***************************************************************************)
LEMMA AggregateStep ==
    ASSUME NEW r, NEW e, NEW pkt, NEW G, Meets(r, e, pkt, G)
    PROVE  LET w == AfterAggregate(r, e, pkt, Started(G))
           IN  /\ Effect(w, G, r, pkt.src, e)
               /\ w.verdict # "dnat"
               /\ (w.verdict = "none" /\ e.rate > 0) => w.drew
<1> DEFINE v == AfterPerSource(r, e, pkt, Started(G))
           w == AfterAggregate(r, e, pkt, Started(G))
           rule == AggregateRule(r, e)
<1>1. /\ Effect(v, G, r, pkt.src, e)
      /\ ~v.drew /\ v.verdict \in {"none", "acl", "persource"}
  BY PerSourceStep
<1> HIDE DEF v
<1>2. CASE ~(e.rate > 0)
  <2>1. w = v
    BY <1>2 DEF AfterAggregate, Optionally, v
  <2> QED
    BY <2>1, <1>1, <1>2
<1>3. CASE e.rate > 0 /\ v.verdict # "none"
  <2>1. w = v
    BY <1>3, ThroughDone DEF AfterAggregate, Optionally, v
  <2> QED
    BY <2>1, <1>1, <1>3
<1>4. CASE e.rate > 0 /\ v.verdict = "none"
  <2>1. Selects(rule, pkt) /\ rule.kind = "aggregate" /\ rule.id = r.id
    BY RuleSelects DEF AggregateRule
  <2>2. w = Aggregate(v, rule)
    BY <2>1, <1>4 DEF AfterAggregate, Optionally, Through, v
  <2>3. r.id \in IDs /\ v \in Walks /\ v.guard \in [IDs -> GuardStates]
    BY <1>1 DEF Meets, Effect, Walks
  <2>4. v.guard[r.id] \in GuardStates /\ v.guard[r.id].tokens \in Nat
    BY <2>3 DEF GuardStates
  <2>5. ~Denied(r, pkt.src)
    BY <1>1, <1>4 DEF Effect
  <2>6. CASE v.guard[r.id].tokens = 0
    <3>1. w = [v EXCEPT !.verdict = "aggregate"]
      BY <2>1, <2>2, <2>6 DEF Aggregate
    <3>2. /\ w \in Walks /\ w.verdict = "aggregate" /\ w.guard = v.guard
          /\ w.drew = v.drew /\ w.full = v.full
      BY <3>1, <2>3 DEF Walks, Verdicts
    <3> QED
      BY <3>2, <2>5, <1>1, <1>4 DEF Effect, SourcesMoved
  <2>7. CASE v.guard[r.id].tokens # 0
    <3> DEFINE h == [v.guard EXCEPT ![r.id].tokens = @ - 1]
    <3>1. w = [v EXCEPT !.guard = h, !.drew = TRUE]
      BY <2>1, <2>2, <2>3, <2>7 DEF Aggregate, Walks
    <3>2. v.guard[r.id].tokens - 1 \in Nat
      BY <2>4, <2>7
    <3>3. /\ h \in [IDs -> GuardStates] /\ \A i \in IDs \ {r.id} : h[i] = v.guard[i]
          /\ h[r.id].tokens = v.guard[r.id].tokens - 1
          /\ h[r.id].sources = v.guard[r.id].sources
      BY <2>3, <2>4, <3>2 DEF GuardStates
    <3> HIDE DEF h
    <3>4. /\ w \in Walks /\ w.verdict = "none" /\ w.guard = h
          /\ w.drew /\ w.full = v.full
      BY <3>1, <3>3, <2>3, <1>4 DEF Walks, Verdicts
    <3>5. v.guard[r.id].tokens = G[r.id].tokens
      BY <1>1 DEF Effect
    <3>6. (e.psRate > 0 /\ ~w.full) =>
              SourcesMoved(w, G[r.id].sources, w.guard[r.id].sources, pkt.src, e)
      BY <3>3, <3>4, <1>1, <1>4 DEF Effect, SourcesMoved
    <3> QED
      BY <3>3, <3>4, <3>5, <3>6, <2>5, <1>1 DEF Effect
  <2> QED
    BY <2>6, <2>7
<1> QED
  BY <1>2, <1>3, <1>4

LEMMA ConnlimitStep ==
    ASSUME NEW r, NEW e, NEW pkt, NEW G, Meets(r, e, pkt, G)
    PROVE  LET w == AfterConnlimit(r, e, pkt, Started(G))
           IN  /\ Effect(w, G, r, pkt.src, e)
               /\ w.verdict # "dnat"
               /\ (w.verdict = "none" /\ e.rate > 0) => w.drew
<1> DEFINE v == AfterAggregate(r, e, pkt, Started(G))
           w == AfterConnlimit(r, e, pkt, Started(G))
           rule == ConnlimitRule(r, e)
<1>1. /\ Effect(v, G, r, pkt.src, e)
      /\ v.verdict # "dnat"
      /\ (v.verdict = "none" /\ e.rate > 0) => v.drew
  BY AggregateStep
<1> HIDE DEF v
<1>2. CASE w = v
  BY <1>1, <1>2
<1>3. CASE w # v
  <2>1. e.maxConn > 0 /\ v.verdict = "none"
    BY <1>3, ThroughDone DEF AfterConnlimit, Optionally, v
  <2>2. Selects(rule, pkt) /\ rule.kind = "connlimit" /\ rule.id = r.id
    BY RuleSelects DEF ConnlimitRule
  <2>3. w = Connlimit(v, rule)
    BY <2>1, <2>2 DEF AfterConnlimit, Optionally, Through, v
  <2>4. w = [v EXCEPT !.verdict = "connlimit"]
    BY <2>3, <1>3 DEF Connlimit
  <2>5. /\ w \in Walks /\ w.verdict = "connlimit" /\ w.guard = v.guard
        /\ w.drew = v.drew /\ w.full = v.full
    BY <2>4, <1>1 DEF Effect, Walks, Verdicts
  <2>6. ~Denied(r, pkt.src)
    BY <1>1, <2>1 DEF Effect
  <2> QED
    BY <2>1, <2>5, <2>6, <1>1 DEF Effect, SourcesMoved
<1> QED
  BY <1>2, <1>3

LEMMA DnatStep ==
    ASSUME NEW r, NEW e, NEW pkt, NEW G, Meets(r, e, pkt, G)
    PROVE  LET w == AfterDnat(r, e, pkt, Started(G))
           IN  /\ Effect(w, G, r, pkt.src, e)
               /\ w.verdict # "none"
               /\ (w.verdict = "dnat" /\ e.rate > 0) => w.drew
<1> DEFINE v == AfterConnlimit(r, e, pkt, Started(G))
           w == AfterDnat(r, e, pkt, Started(G))
           rule == DnatRule(r)
<1>1. /\ Effect(v, G, r, pkt.src, e)
      /\ v.verdict # "dnat"
      /\ (v.verdict = "none" /\ e.rate > 0) => v.drew
  BY ConnlimitStep
<1> HIDE DEF v
<1>2. CASE v.verdict # "none"
  <2>1. w = v
    BY <1>2, ThroughDone DEF AfterDnat, v
  <2> QED
    BY <2>1, <1>1, <1>2
<1>3. CASE v.verdict = "none"
  <2>1. Selects(rule, pkt) /\ rule.kind = "dnat" /\ rule.id = r.id
    BY RuleSelects DEF DnatRule
  <2>2. r.id \in IDs /\ v \in Walks /\ v.guard \in [IDs -> GuardStates]
    BY <1>1 DEF Meets, Effect, Walks
  <2>3. v.guard[r.id].conns \in Nat
    BY <2>2 DEF GuardStates
  <2> DEFINE n == IF Effective(r.id).maxConn > 0 THEN v.guard[r.id].conns + 1 ELSE v.guard[r.id].conns
             h == [v.guard EXCEPT ![r.id].conns = n]
  <2>4. w = [v EXCEPT !.verdict = "dnat", !.guard = h]
    BY <2>1, <2>2, <1>3 DEF AfterDnat, Through, Walks, v
  <2>5. n \in Nat
    BY <2>3
  <2> HIDE DEF n
  <2>6. /\ h \in [IDs -> GuardStates] /\ \A i \in IDs \ {r.id} : h[i] = v.guard[i]
        /\ h[r.id].tokens = v.guard[r.id].tokens /\ h[r.id].sources = v.guard[r.id].sources
    BY <2>2, <2>5 DEF GuardStates
  <2> HIDE DEF h
  <2>7. /\ w \in Walks /\ w.verdict = "dnat" /\ w.guard = h
        /\ w.drew = v.drew /\ w.full = v.full
    BY <2>4, <2>6, <2>2 DEF Walks, Verdicts
  <2>8. ~Denied(r, pkt.src)
    BY <1>1, <1>3 DEF Effect
  <2>9. (e.psRate > 0 /\ ~w.full) =>
            SourcesMoved(w, G[r.id].sources, w.guard[r.id].sources, pkt.src, e)
    BY <2>6, <2>7, <1>1, <1>3 DEF Effect, SourcesMoved
  <2> QED
    BY <2>6, <2>7, <2>8, <2>9, <1>1, <1>3 DEF Effect
<1> QED
  BY <1>2, <1>3

-----------------------------------------------------------------------------
(***************************************************************************)
(* Networks.                                                               *)
(***************************************************************************)
LEMMA PowerPositive ==
    ASSUME NEW n \in Nat
    PROVE  2^n \in Nat \ {0}
<1>1. IsFiniteSet(1..n) /\ Cardinality(1..n) = n
  BY FS_Interval
<1>2. IsFiniteSet(SUBSET (1..n)) /\ Cardinality(SUBSET (1..n)) = 2^n
  BY <1>1, FS_SUBSET
<1>3. Cardinality(SUBSET (1..n)) \in Nat
  BY <1>2, FS_CardinalityType
<1>4. SUBSET (1..n) # {}
  OBVIOUS
<1>5. Cardinality(SUBSET (1..n)) # 0
  BY <1>2, <1>4, FS_EmptySet
<1> QED
  BY <1>2, <1>3, <1>5

LEMMA Division ==
    ASSUME NEW a \in Nat, NEW k \in Nat \ {0}
    PROVE  a % k \in 0..(k - 1) /\ \E q \in Nat : a = (k * q) + (a % k)
<1>1. a = (k * (a \div k)) + (a % k)
  OBVIOUS
<1>2. a \div k \in Nat /\ a % k \in 0..(k - 1)
  OBVIOUS
<1> QED
  BY <1>1, <1>2

(***************************************************************************)
(* The address under the mask is that of the network exactly if the        *)
(* address is one of the network's, for a network b without host bits.     *)
(***************************************************************************)
LEMMA MaskComparison ==
    ASSUME NEW a \in Nat, NEW b \in Nat, NEW k \in Nat \ {0}, b = b - (b % k)
    PROVE  (a - (a % k) = b) <=> a \in b..((b + k) - 1)
<1>1. a % k \in 0..(k - 1) /\ b % k = 0
  BY Division
<1>2. PICK q \in Nat : a = (k * q) + (a % k)
  BY Division
<1>3. PICK p \in Nat : b = (k * p) + (b % k)
  BY Division
<1>4. b = k * p
  BY <1>1, <1>3
<1>5. ASSUME a \in b..((b + k) - 1) PROVE a - (a % k) = b
  <2>1. CASE q < p
    <3>1. k * (q + 1) <= k * p
      BY <2>1
    <3> QED
      BY <3>1, <1>1, <1>2, <1>4, <1>5
  <2>2. CASE q > p
    <3>1. k * (p + 1) <= k * q
      BY <2>2
    <3> QED
      BY <3>1, <1>1, <1>2, <1>4, <1>5
  <2>3. CASE q = p
    <3>1. a = b + (a % k)
      BY <2>3, <1>2, <1>4
    <3> QED
      BY <3>1, <1>1
  <2> QED
    BY <2>1, <2>2, <2>3
<1> QED
  BY <1>1, <1>5

LEMMA MaskedIsMembership ==
    ASSUME NEW c \in CIDRs, c.addr = Masked(c.addr, c.bits), NEW src \in Addresses
    PROVE  Masked(src, c.bits) = c.addr <=> src \in c.addr .. c.addr + 2^(Width - c.bits) - 1
<1> DEFINE k == 2^(Width - c.bits)
<1>1. Width \in Nat /\ c.addr \in Addresses /\ c.bits \in 0..Width
  BY PathAssumption DEF CIDRs
<1>2. c.addr \in Nat /\ src \in Nat
  BY <1>1, PowerPositive DEF Addresses
<1>3. Width - c.bits \in Nat
  BY <1>1
<1>4. k \in Nat \ {0}
  BY <1>3, PowerPositive
<1>5. c.addr = c.addr - (c.addr % k) /\ Masked(src, c.bits) = src - (src % k)
  BY DEF Masked
<1> HIDE DEF k
<1>6. (src - (src % k) = c.addr) <=> src \in c.addr..((c.addr + k) - 1)
  BY <1>2, <1>4, <1>5, MaskComparison
<1>7. c.addr .. c.addr + k - 1 = c.addr..((c.addr + k) - 1)
  BY <1>2, <1>4
<1> QED
  BY <1>5, <1>6, <1>7, Zenon DEF k

(***************************************************************************)
(* Sorting a list without repetitions neither adds nor loses a prefix.     *)
(***************************************************************************)
LEMMA BeforeOrders ==
    /\ \A p, q \in CIDRs : p # q => Before(p, q) \/ Before(q, p)
    /\ \A p \in CIDRs : ~Before(p, p)
    /\ \A p, q, x \in CIDRs : Before(p, q) /\ Before(q, x) => Before(p, x)
<1>1. \A p \in CIDRs : p.addr \in Nat /\ p.bits \in Nat
  <2>1. 2^Width \in Nat
    BY PathAssumption, PowerPositive
  <2> QED
    BY <2>1, PathAssumption DEF CIDRs, Addresses
<1>2. ASSUME NEW p \in CIDRs, NEW q \in CIDRs, p # q PROVE Before(p, q) \/ Before(q, p)
  <2>1. p.addr # q.addr \/ p.bits # q.bits
    BY <1>2 DEF CIDRs
  <2> QED
    BY <1>1, <2>1 DEF Before
<1>3. \A p \in CIDRs : ~Before(p, p)
  BY <1>1 DEF Before
<1>4. \A p, q, x \in CIDRs : Before(p, q) /\ Before(q, x) => Before(p, x)
  BY <1>1 DEF Before
<1> QED
  BY <1>2, <1>3, <1>4

LEMMA RanksDiffer ==
    ASSUME NEW cidrs \in Seq(CIDRs), IsFiniteSet(ToSet(cidrs)),
           NEW p \in ToSet(cidrs), NEW q \in ToSet(cidrs), Before(p, q)
    PROVE  Rank(cidrs, p) < Rank(cidrs, q)
<1> DEFINE S == ToSet(cidrs)
           A == {x \in S : Before(x, p)}
           B == {x \in S : Before(x, q)}
<1>1. S \subseteq CIDRs
  BY LenProperties DEF ToSet
<1>2. IsFiniteSet(A) /\ IsFiniteSet(B)
  BY FS_Subset
<1>3. p \notin A
  BY <1>1, BeforeOrders
<1>4. A \cup {p} \subseteq B
  <2>1. ASSUME NEW x \in A PROVE x \in B
    BY <1>1, BeforeOrders
  <2> QED
    BY <2>1
<1>5. Cardinality(A \cup {p}) = Cardinality(A) + 1
  BY <1>2, <1>3, FS_AddElement
<1>6. Cardinality(A \cup {p}) <= Cardinality(B)
  BY <1>2, <1>4, FS_Subset
<1>7. Cardinality(A) \in Nat /\ Cardinality(B) \in Nat
  BY <1>2, FS_CardinalityType
<1>8. Rank(cidrs, p) = Cardinality(A) /\ Rank(cidrs, q) = Cardinality(B)
  BY DEF Rank
<1> HIDE DEF A, B
<1> QED
  BY <1>5, <1>6, <1>7, <1>8

LEMMA RankRange ==
    ASSUME NEW cidrs \in Seq(CIDRs), IsFiniteSet(ToSet(cidrs)), NEW p \in ToSet(cidrs)
    PROVE  Rank(cidrs, p) \in 0..(Cardinality(ToSet(cidrs)) - 1)
<1> DEFINE S == ToSet(cidrs)
           A == {x \in S : Before(x, p)}
<1>1. S \subseteq CIDRs
  BY LenProperties DEF ToSet
<1>2. A \subseteq S \ {p}
  BY <1>1, BeforeOrders
<1>3. IsFiniteSet(S \ {p}) /\ Cardinality(S \ {p}) = Cardinality(S) - 1
  BY FS_RemoveElement
<1>4. IsFiniteSet(A) /\ Cardinality(A) <= Cardinality(S) - 1
  BY <1>2, <1>3, FS_Subset
<1>5. Cardinality(A) \in Nat /\ Cardinality(S) \in Nat
  BY <1>4, FS_CardinalityType
<1>6. Rank(cidrs, p) = Cardinality(A)
  BY DEF Rank
<1> HIDE DEF A
<1> QED
  BY <1>4, <1>5, <1>6

LEMMA ParseKeepsPrefixes ==
    ASSUME NEW cidrs \in Seq(CIDRs), IsInjective(cidrs)
    PROVE  ToSet(Parse(cidrs)) = ToSet(cidrs)
<1> DEFINE S == ToSet(cidrs)
           n == Len(cidrs)
           R == [p \in S |-> Rank(cidrs, p)]
<1>1. n \in Nat /\ cidrs \in [1..n -> CIDRs] /\ DOMAIN cidrs = 1..n
  BY LenProperties
<1>2. S \subseteq CIDRs
  BY <1>1 DEF ToSet
<1>3. IsFiniteSet(1..n) /\ Cardinality(1..n) = n
  BY <1>1, FS_Interval
<1>4. IsFiniteSet(S) /\ Cardinality(S) = n
  <2>1. cidrs \in Surjection(1..n, S)
    BY <1>1 DEF Surjection, ToSet
  <2>2. cidrs \in Injection(1..n, S)
    BY <1>1, <2>1 DEF Injection, IsInjective, Surjection
  <2> QED
    BY <2>1, <2>2, <1>3, FS_Surjection
<1>5. ASSUME NEW p \in S PROVE R[p] \in 0..(n - 1)
  BY <1>4, RankRange
<1>6. ASSUME NEW p \in S, NEW q \in S, R[p] = R[q] PROVE p = q
  <2> SUFFICES ASSUME p # q PROVE FALSE
    OBVIOUS
  <2>1. Before(p, q) \/ Before(q, p)
    BY <1>2, BeforeOrders
  <2>2. R[p] < R[q] \/ R[q] < R[p]
    BY <2>1, <1>4, RanksDiffer
  <2>3. R[p] \in Nat /\ R[q] \in Nat
    BY <1>5
  <2> HIDE DEF R
  <2> QED
    BY <2>2, <2>3, <1>6
<1>7. R \in Injection(S, 0..(n - 1))
  <2>1. R \in [S -> 0..(n - 1)]
    BY <1>5
  <2>2. IsInjective(R)
    BY <1>6 DEF IsInjective
  <2> QED
    BY <2>1, <2>2 DEF Injection
<1>8. R \in Surjection(S, 0..(n - 1))
  <2>1. IsFiniteSet(0..(n - 1)) /\ Cardinality(0..(n - 1)) = n
    BY <1>1, FS_Interval
  <2> QED
    BY <2>1, <1>4, <1>7, FS_Injection
<1>9. ASSUME NEW k \in 1..n
      PROVE  Parse(cidrs)[k] \in S /\ R[Parse(cidrs)[k]] = k - 1
  <2>1. k - 1 \in 0..(n - 1)
    BY <1>1
  <2>2. \E p \in S : Rank(cidrs, p) = k - 1
    BY <2>1, <1>8 DEF Surjection
  <2>3. Parse(cidrs)[k] = CHOOSE p \in S : Rank(cidrs, p) = k - 1
    BY <1>1 DEF Parse
  <2> QED
    BY <2>2, <2>3
<1>10. DOMAIN Parse(cidrs) = 1..n
  BY <1>1 DEF Parse
<1>11. ASSUME NEW p \in S PROVE p \in ToSet(Parse(cidrs))
  <2> DEFINE k == R[p] + 1
  <2>1. k \in 1..n /\ k - 1 = R[p]
    BY <1>5, <1>1
  <2>2. Parse(cidrs)[k] = p
    BY <2>1, <1>6, <1>9
  <2> HIDE DEF k
  <2> QED
    BY <2>1, <2>2, <1>10 DEF ToSet
<1>12. ASSUME NEW p \in ToSet(Parse(cidrs)) PROVE p \in S
  BY <1>9, <1>10 DEF ToSet
<1> QED
  BY <1>11, <1>12

-----------------------------------------------------------------------------
(***************************************************************************)
(* The planned policy p is what the field f of the document says.          *)
(***************************************************************************)
Renders(p, f) ==
    IF f.form = "omitted" THEN p = {} ELSE \E l : p = {l} /\ ToSet(l) = ToSet(f.cidrs)

LEMMA DeniedExactly ==
    ASSUME NEW r, NEW f \in Fields, UnmarshalOK(f), Renders(r.policy, f), NEW src \in Addresses
    PROVE  Denied(r, src) <=> ~Admits(f, src)
<1>1. CASE f.form = "omitted"
  BY <1>1 DEF Renders, Denied, Admits
<1>2. CASE f.form # "omitted"
  <2> DEFINE cs == f.cidrs
  <2>1. cs \in Seq(CIDRs) /\ PolicyOK(cs)
    BY <1>2 DEF Fields, UnmarshalOK
  <2>2. PICK l : r.policy = {l} /\ ToSet(l) = ToSet(cs)
    BY <1>2 DEF Renders
  <2>3. (CHOOSE k \in r.policy : TRUE) = l
    BY <2>2
  <2>4. DOMAIN cs = 1..Len(cs) /\ \A i \in DOMAIN cs : cs[i] \in CIDRs
    BY <2>1, LenProperties
  <2>5. ASSUME NEW c \in ToSet(cs)
        PROVE  Masked(src, c.bits) = c.addr <=> src \in c.addr .. c.addr + 2^(Width - c.bits) - 1
    <3>1. c \in CIDRs /\ c.addr = Masked(c.addr, c.bits)
      BY <2>1, <2>4 DEF ToSet, PolicyOK
    <3> QED
      BY <3>1, MaskedIsMembership
  <2>6. SourceDrops(l, src) <=> \A c \in ToSet(l) : Masked(src, c.bits) # c.addr
    BY DEF SourceDrops, ToSet
  <2>7. Admits(f, src) <=>
            \E c \in ToSet(cs) : src \in c.addr .. c.addr + 2^(Width - c.bits) - 1
    BY <1>2 DEF Admits, ToSet
  <2>8. Denied(r, src) <=> SourceDrops(l, src)
    BY <2>2, <2>3 DEF Denied
  <2> HIDE DEF cs
  <2> QED
    BY <2>2, <2>5, <2>6, <2>7, <2>8
<1> QED
  BY <1>1, <1>2

LEMMA UnmarshalRenders ==
    ASSUME NEW f \in Fields, UnmarshalOK(f)
    PROVE  Renders(Unmarshal(f), f)
<1>1. CASE f.form = "omitted"
  BY <1>1 DEF Renders, Unmarshal
<1>2. CASE f.form # "omitted"
  <2>1. f.cidrs \in Seq(CIDRs) /\ IsInjective(f.cidrs)
    BY <1>2 DEF Fields, UnmarshalOK, PolicyOK
  <2>2. ToSet(Parse(f.cidrs)) = ToSet(f.cidrs)
    BY <2>1, ParseKeepsPrefixes
  <2>3. Unmarshal(f) = {Parse(f.cidrs)}
    BY <1>2 DEF Unmarshal
  <2> QED
    BY <1>2, <2>2, <2>3 DEF Renders
<1> QED
  BY <1>1, <1>2

(***************************************************************************)
(* Writing a policy to the file keeps the three forms apart.               *)
(***************************************************************************)
LEMMA MarshalKeepsField ==
    ASSUME NEW f \in Fields, UnmarshalOK(f)
    PROVE  LET g == Marshal(Unmarshal(f))
           IN  /\ g \in Fields
               /\ g.form = "omitted" <=> f.form = "omitted"
               /\ f.form # "omitted" => ToSet(g.cidrs) = ToSet(f.cidrs)
<1> DEFINE g == Marshal(Unmarshal(f))
<1>1. CASE f.form = "omitted"
  <2>1. g = [form |-> "omitted", cidrs |-> <<>>]
    BY <1>1 DEF Marshal, Unmarshal
  <2>2. <<>> \in Seq(CIDRs)
    BY EmptySeq
  <2> QED
    BY <1>1, <2>1, <2>2 DEF Fields
<1>2. CASE f.form # "omitted"
  <2> DEFINE cs == f.cidrs
  <2>1. cs \in Seq(CIDRs) /\ IsInjective(cs)
    BY <1>2 DEF Fields, UnmarshalOK, PolicyOK
  <2>2. ToSet(Parse(cs)) = ToSet(cs)
    BY <2>1, ParseKeepsPrefixes
  <2>3. Unmarshal(f) = {Parse(cs)}
    BY <1>2 DEF Unmarshal
  <2>4. g = [form |-> "list", cidrs |-> Parse(cs)]
    BY <2>3 DEF Marshal
  <2>5. Parse(cs) \in Seq(CIDRs)
    <3>1. Len(cs) \in Nat /\ DOMAIN cs = 1..Len(cs) /\ cs \in [1..Len(cs) -> CIDRs]
      BY <2>1, LenProperties
    <3>2. ToSet(cs) \subseteq CIDRs
      BY <3>1 DEF ToSet
    <3>3. DOMAIN Parse(cs) = 1..Len(cs)
      BY <3>1 DEF Parse
    <3>4. \A k \in 1..Len(cs) : Parse(cs)[k] \in CIDRs
      BY <2>2, <3>2, <3>3 DEF ToSet
    <3>5. Parse(cs) = [k \in 1..Len(cs) |-> Parse(cs)[k]]
      BY <3>1 DEF Parse
    <3>6. Parse(cs) \in [1..Len(cs) -> CIDRs]
      BY <3>4, <3>5
    <3> QED
      BY <3>1, <3>6, SeqDef
  <2> HIDE DEF cs
  <2> QED
    BY <1>2, <2>2, <2>4, <2>5 DEF Fields, cs
<1> QED
  BY <1>1, <1>2

-----------------------------------------------------------------------------
(***************************************************************************)
(* Documents as the assumption on the constants describes them, and the    *)
(* plan made from one.                                                     *)
(***************************************************************************)
MappingTyped(m) ==
    /\ DOMAIN m = {"id", "proto", "port", "target", "mark", "policy", "over"}
    /\ m.id \in IDs
    /\ m.policy \in Fields
    /\ DOMAIN m.over \subseteq GuardNames /\ m.over \in [DOMAIN m.over -> Nat]

DocumentTyped(d) ==
    /\ Len(d) \in Nat /\ DOMAIN d = 1..Len(d)
    /\ \A i \in DOMAIN d : MappingTyped(d[i])

Planned(p, d) ==
    /\ p \in Seq(ToSet(p)) /\ DOMAIN p = DOMAIN d
    /\ \A i \in DOMAIN d :
          /\ p[i].id = d[i].id /\ p[i].proto = d[i].proto /\ p[i].port = d[i].port
          /\ p[i].over = d[i].over
          /\ Renders(p[i].policy, d[i].policy)

LEMMA FunctionIsSeq ==
    ASSUME NEW p, NEW n \in Nat, p = [i \in 1..n |-> p[i]]
    PROVE  p \in Seq(ToSet(p)) /\ Len(p) = n
<1>1. p \in [1..n -> ToSet(p)]
  BY DEF ToSet
<1>2. p \in Seq(ToSet(p))
  BY <1>1, SeqDef
<1>3. Len(p) \in Nat /\ DOMAIN p = 1..Len(p) /\ DOMAIN p = 1..n
  BY <1>1, <1>2, LenProperties
<1> QED
  BY <1>2, <1>3

LEMMA DecodedPlans ==
    ASSUME NEW d, DocumentTyped(d), DocumentOK(d)
    PROVE  Planned(Decoded(d), d)
<1> DEFINE p == Decoded(d)
<1>1. /\ DOMAIN p = DOMAIN d /\ DOMAIN d = 1..Len(d) /\ Len(d) \in Nat
      /\ p = [i \in 1..Len(d) |-> p[i]]
  BY DEF Decoded, DocumentTyped
<1>2. p \in Seq(ToSet(p))
  <2> HIDE DEF p
  <2> QED
    BY <1>1, FunctionIsSeq
<1>3. ASSUME NEW i \in DOMAIN d
      PROVE  /\ p[i].id = d[i].id /\ p[i].proto = d[i].proto /\ p[i].port = d[i].port
             /\ p[i].over = d[i].over
             /\ Renders(p[i].policy, d[i].policy)
  <2>1. p[i] = [d[i] EXCEPT !.policy = Unmarshal(d[i].policy)]
    BY DEF Decoded
  <2>2. MappingTyped(d[i]) /\ UnmarshalOK(d[i].policy)
    BY DEF DocumentTyped, DocumentOK
  <2>3. Renders(Unmarshal(d[i].policy), d[i].policy)
    BY <2>2, UnmarshalRenders DEF MappingTyped
  <2> QED
    BY <2>1, <2>2, <2>3 DEF MappingTyped
<1> QED
  BY <1>1, <1>2, <1>3 DEF Planned

(***************************************************************************)
(* A plan read back from the file is a plan of the document too.           *)
(***************************************************************************)
LEMMA FilePlans ==
    ASSUME NEW d, DocumentTyped(d), DocumentOK(d), DocumentOK(Encoded(Decoded(d)))
    PROVE  Planned(Decoded(Encoded(Decoded(d))), d)
<1> DEFINE f == Encoded(Decoded(d))
<1>1. Len(d) \in Nat /\ DOMAIN d = 1..Len(d) /\ DOMAIN f = DOMAIN d
  BY DEF DocumentTyped, Decoded, Encoded
<1>2. f \in Seq(ToSet(f)) /\ Len(f) = Len(d)
  <2>1. f = [i \in 1..Len(d) |-> f[i]]
    BY <1>1 DEF Encoded
  <2> HIDE DEF f
  <2> QED
    BY <1>1, <2>1, FunctionIsSeq
<1>3. ASSUME NEW i \in DOMAIN d
      PROVE  /\ MappingTyped(f[i])
             /\ f[i].id = d[i].id /\ f[i].proto = d[i].proto /\ f[i].port = d[i].port
             /\ f[i].over = d[i].over
             /\ f[i].policy = Marshal(Unmarshal(d[i].policy))
  <2>1. MappingTyped(d[i]) /\ UnmarshalOK(d[i].policy)
    BY DEF DocumentTyped, DocumentOK
  <2>2. Decoded(d)[i] = [d[i] EXCEPT !.policy = Unmarshal(d[i].policy)]
    BY DEF Decoded
  <2>3. f[i] = [Decoded(d)[i] EXCEPT !.policy = Marshal(Decoded(d)[i].policy)]
    BY DEF Encoded, Decoded
  <2>4. f[i] = [d[i] EXCEPT !.policy = Marshal(Unmarshal(d[i].policy))]
    BY <2>1, <2>2, <2>3 DEF MappingTyped
  <2>5. Marshal(Unmarshal(d[i].policy)) \in Fields
    BY <2>1, MarshalKeepsField DEF MappingTyped
  <2> HIDE DEF f
  <2> QED
    BY <2>1, <2>4, <2>5 DEF MappingTyped
<1>4. DocumentTyped(f)
  BY <1>1, <1>2, <1>3 DEF DocumentTyped
<1>5. Planned(Decoded(f), f)
  BY <1>4, DecodedPlans
<1>6. ASSUME NEW i \in DOMAIN d, NEW q, Renders(q, f[i].policy)
      PROVE  Renders(q, d[i].policy)
  <2>1. d[i].policy \in Fields /\ UnmarshalOK(d[i].policy)
    BY DEF DocumentTyped, DocumentOK, MappingTyped
  <2>2. /\ f[i].policy.form = "omitted" <=> d[i].policy.form = "omitted"
        /\ d[i].policy.form # "omitted" => ToSet(f[i].policy.cidrs) = ToSet(d[i].policy.cidrs)
    BY <2>1, <1>3, MarshalKeepsField
  <2> HIDE DEF f
  <2> QED
    BY <1>6, <2>2 DEF Renders
<1> HIDE DEF f
<1> QED
  BY <1>1, <1>3, <1>5, <1>6 DEF Planned, f

-----------------------------------------------------------------------------
LEMMA GuardsOfType ==
    ASSUME NEW e, GuardsOK(e)
    PROVE  GuardsOf(e) \in [GuardNames -> Nat]
<1>1. ASSUME NEW k \in GuardNames
      PROVE  (IF e.guards[k] = {} THEN DefaultGuards[k] ELSE The(e.guards[k])) \in Nat
  <2>1. CASE e.guards[k] = {}
    <3>1. DefaultGuards[k] \in 0..MaxUint32 /\ MaxUint32 \in Nat
      BY ConfigAssumption
    <3> QED
      BY <2>1, <3>1
  <2>2. CASE e.guards[k] # {}
    <3>1. The(e.guards[k]) \in e.guards[k]
      BY <2>2 DEF The
    <3>2. e.guards[k] \subseteq 0..MaxUint32 /\ MaxUint32 \in Nat
      BY ConfigAssumption DEF GuardsOK
    <3> QED
      BY <2>2, <3>1, <3>2
  <2> QED
    BY <2>1, <2>2
<1> QED
  BY <1>1 DEF GuardsOf

LEMMA EffectiveType ==
    ASSUME NEW r, NEW g \in [GuardNames -> Nat],
           DOMAIN r.over \subseteq GuardNames, r.over \in [DOMAIN r.over -> Nat]
    PROVE  EffectiveGuards(r, g) \in [GuardNames -> Nat]
  BY DEF EffectiveGuards

(***************************************************************************)
(* The state of the agent: its environment loaded, the plan one of the     *)
(* document, directly or through the file, and the chain rendered from it. *)
(***************************************************************************)
Placed ==
    /\ cfg \in Environments /\ StartOK(cfg)
    /\ DocumentTyped(doc) /\ DocumentOK(doc) /\ file = Encoded(Decoded(doc))
    /\ Planned(rules, doc)
    /\ chain = RenderRules(rules, GuardsOf(cfg))

Typed ==
    /\ guard \in [IDs -> GuardStates]
    /\ made \in [IDs -> Nat] /\ drawn \in [IDs -> [Sources -> Nat]]
    /\ full \in [IDs -> BOOLEAN] /\ ticks \in Nat

(***************************************************************************)
(* What a plan p of document d holds, under an environment e that loads.   *)
(***************************************************************************)
LEMMA PlanFacts ==
    ASSUME NEW p, NEW d, NEW e, DocumentTyped(d), DocumentOK(d), Planned(p, d), GuardsOK(e),
           NEW m \in DOMAIN p
    PROVE  /\ p[m].id \in IDs
           /\ \A k, l \in p[m].policy : k = l
           /\ (CHOOSE r \in ToSet(p) : r.id = p[m].id) = p[m]
           /\ EffectiveGuards(p[m], GuardsOf(e)) \in [GuardNames -> Nat]
<1> DEFINE r == p[m]
<1>1. /\ DOMAIN p = DOMAIN d
      /\ r.id = d[m].id /\ r.over = d[m].over /\ Renders(r.policy, d[m].policy)
  BY DEF Planned
<1>2. MappingTyped(d[m])
  BY <1>1 DEF DocumentTyped
<1>3. (CHOOSE q \in ToSet(p) : q.id = r.id) = r
  <2>1. \A k \in DOMAIN p : p[k].id = r.id => k = m
    BY <1>1 DEF Planned, DocumentOK, MappingsDistinct
  <2>2. r \in ToSet(p) /\ \A q \in ToSet(p) : q.id = r.id => q = r
    BY <2>1 DEF ToSet
  <2> HIDE DEF r
  <2> QED
    BY <2>2
<1>4. \A k, l \in r.policy : k = l
  BY <1>1 DEF Renders
<1>5. GuardsOf(e) \in [GuardNames -> Nat]
  BY GuardsOfType
<1>6. /\ r.id \in IDs /\ DOMAIN r.over \subseteq GuardNames
      /\ r.over \in [DOMAIN r.over -> Nat]
  BY <1>1, <1>2 DEF MappingTyped
<1> HIDE DEF r
<1>7. EffectiveGuards(r, GuardsOf(e)) \in [GuardNames -> Nat]
  BY <1>5, <1>6, EffectiveType
<1> QED
  BY <1>3, <1>4, <1>6, <1>7 DEF r

LEMMA RuleFacts ==
    ASSUME Placed, NEW m \in DOMAIN rules
    PROVE  /\ rules[m].id \in IDs
           /\ \A k, l \in rules[m].policy : k = l
           /\ Effective(rules[m].id) = EffectiveGuards(rules[m], GuardsOf(cfg))
           /\ Effective(rules[m].id) \in [GuardNames -> Nat]
<1>1. GuardsOK(cfg)
  BY DEF Placed, StartOK, LoadOK
<1>2. /\ rules[m].id \in IDs
      /\ \A k, l \in rules[m].policy : k = l
      /\ PlanOf(rules[m].id) = rules[m]
      /\ EffectiveGuards(rules[m], GuardsOf(cfg)) \in [GuardNames -> Nat]
  BY <1>1, PlanFacts DEF Placed, PlanOf
<1> QED
  BY <1>2 DEF Effective

LEMMA PacketEffect ==
    ASSUME Placed, Typed, NEW m \in DOMAIN rules, NEW src \in Sources
    PROVE  LET r == rules[m]
               w == Walk([src |-> src, proto |-> r.proto, port |-> r.port])
           IN  /\ Effect(w, guard, r, src, Effective(r.id))
               /\ w.verdict # "none"
               /\ (w.verdict = "dnat" /\ Effective(r.id).rate > 0) => w.drew
<1> DEFINE r == rules[m]
           g == GuardsOf(cfg)
           e == EffectiveGuards(r, g)
           pkt == [src |-> src, proto |-> r.proto, port |-> r.port]
           seqs == [i \in DOMAIN rules |-> MappingRules(rules[i], g)]
           S == UNION {RulesOf(rules[i], EffectiveGuards(rules[i], g)) : i \in DOMAIN rules}
<1>1. rules \in Seq(ToSet(rules)) /\ DOMAIN rules = DOMAIN doc
  BY DEF Placed, Planned
<1>2. Len(rules) \in Nat /\ DOMAIN rules = 1..Len(rules)
  BY <1>1, LenProperties
<1>3. ASSUME NEW i \in DOMAIN rules
      PROVE  /\ seqs[i] \in Seq(RulesOf(rules[i], EffectiveGuards(rules[i], g)))
             /\ seqs[i] \in Seq(S)
  <2> DEFINE R == RulesOf(rules[i], EffectiveGuards(rules[i], g))
  <2>1. seqs[i] \in Seq(R)
    BY RuleFacts, MappingRulesType
  <2>2. R \subseteq S
    OBVIOUS
  <2> HIDE DEF R, S, seqs
  <2> QED
    BY <2>1, <2>2, SeqMonotonic DEF R
<1>4. seqs \in Seq(Seq(S)) /\ Len(seqs) = Len(rules)
  <2>1. seqs \in [1..Len(rules) -> Seq(S)]
    BY <1>2, <1>3
  <2>2. DOMAIN seqs = 1..Len(rules)
    BY <1>2
  <2> HIDE DEF seqs, S
  <2>3. seqs \in Seq(Seq(S))
    BY <2>1, <1>2, SeqDef
  <2>4. Len(seqs) \in Nat /\ DOMAIN seqs = 1..Len(seqs)
    BY <2>3, LenProperties
  <2> QED
    BY <2>2, <2>3, <2>4, <1>2
<1>5. ASSUME NEW i \in DOMAIN rules, i # m, NEW j \in 1..Len(seqs[i])
      PROVE  ~Selects(seqs[i][j], pkt)
  <2>1. seqs[i][j] \in RulesOf(rules[i], EffectiveGuards(rules[i], g))
    BY <1>3, ElementOfSeq
  <2>2. seqs[i][j].port = rules[i].port /\ seqs[i][j].proto = rules[i].proto
    BY <2>1, RulesOfSelect
  <2>3. rules[i].proto = r.proto => rules[i].port # r.port
    BY <1>1, <1>5 DEF Placed, Planned, DocumentOK, MappingsDistinct
  <2> HIDE DEF seqs, r
  <2> QED
    BY <2>2, <2>3 DEF Selects
<1>6. Walk(pkt) = Down(FlattenSeq(seqs), pkt, Started(guard))
  BY DEF Walk, Started, Placed, RenderRules
<1>7. Down(FlattenSeq(seqs), pkt, Started(guard)) = Down(seqs[m], pkt, Started(guard))
  <2>1. m \in 1..Len(seqs)
    BY <1>2, <1>4
  <2>2. \A i \in 1..Len(seqs) : i # m => \A j \in 1..Len(seqs[i]) : ~Selects(seqs[i][j], pkt)
    BY <1>2, <1>4, <1>5
  <2> HIDE DEF seqs, S, pkt
  <2> QED
    BY <2>1, <2>2, <1>4, DownFlatten
<1>8. Down(seqs[m], pkt, Started(guard)) = AfterDnat(r, e, pkt, Started(guard))
  <2>1. seqs[m] = MappingRules(r, g) /\ \A k, l \in r.policy : k = l
    BY RuleFacts
  <2> HIDE DEF seqs, r, g, pkt
  <2> QED
    BY <2>1, DownMapping
<1>9. Effective(r.id) = e /\ e \in [GuardNames -> Nat] /\ r.id \in IDs
  BY RuleFacts
<1>10. Meets(r, e, pkt, guard) /\ pkt.src = src
  BY <1>9 DEF Meets, Typed
<1> DEFINE w == AfterDnat(r, e, pkt, Started(guard))
<1>11. /\ Effect(w, guard, r, src, e)
       /\ w.verdict # "none"
       /\ (w.verdict = "dnat" /\ e.rate > 0) => w.drew
  <2> HIDE DEF r, e, pkt
  <2> QED
    BY <1>10, DnatStep
<1>12. Walk(pkt) = w
  BY <1>6, <1>7, <1>8
<1> HIDE DEF w, e
<1> QED
  BY <1>9, <1>11, <1>12

-----------------------------------------------------------------------------
(***************************************************************************)
(* The aggregate bucket holds what is left of its burst and its rate.      *)
(***************************************************************************)
InEffect(m) == EffectiveGuards(rules[m], GuardsOf(cfg))

AggregateLeft(e, n, g, k) == e.rate > 0 => n + g.tokens <= Capacity(e.burst) + e.rate * k

AggregateInv ==
    \A m \in DOMAIN rules :
        AggregateLeft(InEffect(m), made[rules[m].id], guard[rules[m].id], ticks)

(***************************************************************************)
(* What source s, which took n tokens by time k, may take now: the tokens  *)
(* of its entry, and at most the burst less what the rate gives back while *)
(* the entry is idle; without an entry it starts with a full bucket.       *)
(***************************************************************************)
SourceLeft(e, ss, s, n, k) ==
    IF s \in DOMAIN ss
    THEN /\ n + ss[s].tokens <= Capacity(e.psBurst) + e.psRate * k
         /\ n + e.psRate * ss[s].idle <= Capacity(e.psBurst) + e.psRate * k
    ELSE n <= e.psRate * k

FloodInv ==
    \A m \in DOMAIN rules :
        BurstRefills(InEffect(m)) /\ ~full[rules[m].id] =>
            \A s \in Sources :
                SourceLeft(InEffect(m), guard[rules[m].id].sources, s, drawn[rules[m].id][s], ticks)

PathInv == Placed /\ Typed /\ AggregateInv /\ FloodInv /\ AclExact

-----------------------------------------------------------------------------
(***************************************************************************)
(* The plan in effect: one of the document, directly or through the file.  *)
(***************************************************************************)
LEMMA SentTyped ==
    ASSUME NEW d \in Documents
    PROVE  DocumentTyped(d)
<1>1. d \in Seq(ToSet(d))
  BY PathAssumption
<1>2. Len(d) \in Nat /\ DOMAIN d = 1..Len(d)
  BY <1>1, LenProperties
<1>3. ASSUME NEW i \in DOMAIN d PROVE MappingTyped(d[i])
  <2>1. d[i] \in ToSet(d)
    BY DEF ToSet
  <2>2. d[i].id \in IDs
    BY DEF IDs
  <2> QED
    BY <2>1, <2>2, PathAssumption DEF MappingTyped
<1> QED
  BY <1>2, <1>3 DEF DocumentTyped

LEMMA EmptyPlan ==
    /\ DocumentTyped(<<>>) /\ DocumentOK(<<>>) /\ Planned(<<>>, <<>>)
    /\ Encoded(Decoded(<<>>)) = <<>>
<1>1. DOMAIN <<>> = {} /\ Len(<<>>) = 0 /\ <<>> \in Seq(ToSet(<<>>))
  OBVIOUS
<1>2. Decoded(<<>>) = <<>>
  BY <1>1 DEF Decoded
<1>3. Encoded(<<>>) = <<>>
  BY <1>1 DEF Encoded
<1> QED
  BY <1>1, <1>2, <1>3 DEF DocumentTyped, DocumentOK, MappingsDistinct, Planned

LEMMA EmptyChain ==
    ASSUME NEW g
    PROVE  RenderRules(<<>>, g) = <<>>
<1> DEFINE seqs == [i \in DOMAIN <<>> |-> MappingRules(<<>>[i], g)]
<1>1. seqs = <<>>
  OBVIOUS
<1>2. FlattenSeq(<<>>) = <<>>
  BY DEF FlattenSeq
<1> QED
  BY <1>1, <1>2 DEF RenderRules

-----------------------------------------------------------------------------
(***************************************************************************)
(* A fresh table.                                                          *)
(***************************************************************************)
LEMMA FreshTyped ==
    ASSUME NEW p, NEW d, NEW e, DocumentTyped(d), DocumentOK(d), Planned(p, d), GuardsOK(e)
    PROVE  Fresh(p, e) \in [IDs -> GuardStates]
<1>1. NoSources \in SourceSets
  <2>1. NoSources \in [{} -> Entries] /\ {} \in SUBSET Sources
    BY DEF NoSources
  <2> QED
    BY <2>1, SourceSetsIn
<1>2. ASSUME NEW i \in IDs, \E r \in ToSet(p) : r.id = i
      PROVE  Capacity(EffectiveGuards(CHOOSE r \in ToSet(p) : r.id = i, GuardsOf(e)).burst) \in Nat
  <2>1. PICK m \in DOMAIN p : p[m].id = i
    BY <1>2 DEF ToSet
  <2>2. /\ (CHOOSE r \in ToSet(p) : r.id = p[m].id) = p[m]
        /\ EffectiveGuards(p[m], GuardsOf(e)) \in [GuardNames -> Nat]
    BY PlanFacts
  <2>3. EffectiveGuards(p[m], GuardsOf(e)).burst \in Nat
    BY <2>2 DEF GuardNames
  <2> QED
    BY <2>1, <2>2, <2>3, CapacityType
<1> QED
  BY <1>1, <1>2 DEF Fresh, GuardStates

LEMMA FreshInv ==
    ASSUME NEW p, NEW d, NEW e, DocumentTyped(d), DocumentOK(d), Planned(p, d), GuardsOK(e),
           Replace(p, e), cfg' = e
    PROVE  Typed' /\ AggregateInv' /\ FloodInv' /\ AclExact'
<1>1. /\ rules' = p /\ guard' = Fresh(p, e) /\ last' = NoPacket
      /\ drawn' = [i \in IDs |-> [s \in Sources |-> 0]]
      /\ made' = [i \in IDs |-> 0] /\ full' = [i \in IDs |-> FALSE] /\ ticks' = 0
  BY DEF Replace
<1>2. Typed'
  BY <1>1, FreshTyped DEF Typed
<1>3. AclExact'
  BY <1>1 DEF AclExact, NoPacket
<1>4. ASSUME NEW m \in DOMAIN p
      PROVE  LET g == EffectiveGuards(p[m], GuardsOf(e))
             IN  /\ AggregateLeft(g, made'[p[m].id], guard'[p[m].id], ticks')
                 /\ \A s \in Sources :
                       SourceLeft(g, guard'[p[m].id].sources, s, drawn'[p[m].id][s], ticks')
  <2> DEFINE r == p[m]
             g == EffectiveGuards(r, GuardsOf(e))
  <2>1. /\ r.id \in IDs /\ (CHOOSE q \in ToSet(p) : q.id = r.id) = r
        /\ g \in [GuardNames -> Nat]
    BY PlanFacts
  <2>2. r \in ToSet(p)
    BY DEF ToSet
  <2>3. guard'[r.id].tokens = Capacity(g.burst) /\ guard'[r.id].sources = NoSources
    BY <1>1, <2>1, <2>2 DEF Fresh
  <2>4. g.rate \in Nat /\ g.psRate \in Nat /\ Capacity(g.burst) \in Nat
    BY <2>1, CapacityType DEF GuardNames
  <2>5. made'[r.id] = 0 /\ ticks' = 0 /\ \A s \in Sources : drawn'[r.id][s] = 0
    BY <1>1, <2>1
  <2>6. DOMAIN NoSources = {}
    BY DEF NoSources
  <2> HIDE DEF r, g
  <2>7. AggregateLeft(g, made'[r.id], guard'[r.id], ticks')
    BY <2>3, <2>4, <2>5 DEF AggregateLeft
  <2>8. \A s \in Sources : SourceLeft(g, guard'[r.id].sources, s, drawn'[r.id][s], ticks')
    BY <2>3, <2>4, <2>5, <2>6 DEF SourceLeft
  <2> QED
    BY <2>7, <2>8 DEF g, r
<1> QED
  BY <1>1, <1>2, <1>3, <1>4 DEF AggregateInv, FloodInv, InEffect

-----------------------------------------------------------------------------
(***************************************************************************)
(* What a packet and a second leave to a source.                           *)
(***************************************************************************)
LEMMA PacketLeaves ==
    ASSUME NEW e \in [GuardNames -> Nat], NEW old \in SourceSets, NEW new, NEW w,
           NEW src, NEW s, NEW n \in Nat, NEW k \in Nat,
           SourcesMoved(w, old, new, src, e), SourceLeft(e, old, s, n, k)
    PROVE  SourceLeft(e, new, s, IF s = src /\ w.drew THEN n + 1 ELSE n, k)
<1> DEFINE B == e.psRate * k
           C == Capacity(e.psBurst)
<1>1. B \in Nat /\ C \in Nat /\ e.psRate \in Nat
  BY CapacityType DEF GuardNames
<1>2. ASSUME NEW x \in DOMAIN old PROVE old[x].tokens \in Nat /\ old[x].idle \in Nat
  BY SourceSetsOut DEF Entries
<1>3. e.psRate * 0 = 0
  BY <1>1
<1>4. IF s \in DOMAIN old
      THEN n + old[s].tokens <= C + B /\ n + e.psRate * old[s].idle <= C + B
      ELSE n <= B
  BY DEF SourceLeft
<1>5. SUFFICES LET q == IF s = src /\ w.drew THEN n + 1 ELSE n
               IN  IF s \in DOMAIN new
                   THEN q + new[s].tokens <= C + B /\ q + e.psRate * new[s].idle <= C + B
                   ELSE q <= B
  BY DEF SourceLeft
<1> HIDE DEF B, C
<1>6. CASE new = old /\ ~w.drew
  BY <1>4, <1>6
<1>7. CASE Charged(old, new, src) /\ s # src
  BY <1>4, <1>7 DEF Charged
<1>8. CASE Charged(old, new, src) /\ s = src /\ ~w.drew /\ new[src].tokens = 0
  BY <1>1, <1>2, <1>3, <1>4, <1>8 DEF Charged
<1>9. CASE /\ Charged(old, new, src) /\ s = src
           /\ Level(old, src, e) > 0 /\ new[src].tokens = Level(old, src, e) - 1
  <2>1. src \in DOMAIN new /\ new[src].idle = 0
    BY <1>9 DEF Charged
  <2>2. n + Level(old, src, e) <= C + B /\ Level(old, src, e) \in Nat
    BY <1>1, <1>2, <1>4, <1>9 DEF Level, C
  <2> QED
    BY <1>1, <1>3, <1>9, <2>1, <2>2
<1> QED
  BY <1>6, <1>7, <1>8, <1>9 DEF SourcesMoved

LEMMA SecondLeaves ==
    ASSUME NEW e \in [GuardNames -> Nat], NEW old \in SourceSets, NEW new, BurstRefills(e),
           new = [x \in {y \in DOMAIN old : old[y].idle + 1 < Timeout} |-> Aged(old[x], e)],
           NEW s, NEW n \in Nat, NEW k \in Nat, SourceLeft(e, old, s, n, k)
    PROVE  SourceLeft(e, new, s, n, k + 1)
<1> DEFINE B == e.psRate * k
           C == Capacity(e.psBurst)
           R == e.psRate
<1>1. B \in Nat /\ C \in Nat /\ R \in Nat /\ Timeout \in Nat
  <2>1. e.psRate \in Nat /\ e.psBurst \in Nat
    BY DEF GuardNames
  <2>2. Capacity(e.psBurst) \in Nat
    BY <2>1, CapacityType
  <2>3. Timeout \in Nat
    BY PathAssumption
  <2> QED
    BY <2>1, <2>2, <2>3
<1>2. e.psRate * (k + 1) = B + R
  BY <1>1
<1>3. IF s \in DOMAIN old
      THEN n + old[s].tokens <= C + B /\ n + R * old[s].idle <= C + B
      ELSE n <= B
  BY DEF SourceLeft
<1>4. SUFFICES IF s \in DOMAIN new
               THEN n + new[s].tokens <= C + (B + R) /\ n + R * new[s].idle <= C + (B + R)
               ELSE n <= B + R
  BY <1>2 DEF SourceLeft
<1>5. CASE s \notin DOMAIN old
  BY <1>1, <1>3, <1>5
<1>6. CASE s \in DOMAIN old
  <2>1. old[s].tokens \in Nat /\ old[s].idle \in Nat
    BY <1>6, SourceSetsOut DEF Entries
  <2> DEFINE I == R * old[s].idle
  <2>2. I \in Nat /\ R * (old[s].idle + 1) = I + R
    BY <1>1, <2>1
  <2>3. n + old[s].tokens <= C + B /\ n + I <= C + B
    BY <1>3, <1>6
  <2>4. CASE s \in DOMAIN new
    <3>1. new[s].tokens = Lower(old[s].tokens + R, C) /\ new[s].idle = old[s].idle + 1
      BY <2>4 DEF Aged
    <3>2. new[s].tokens <= old[s].tokens + R /\ new[s].tokens \in Nat
      BY <3>1, <1>1, <2>1 DEF Lower
    <3>3. R * new[s].idle = I + R
      BY <3>1, <2>2
    <3> HIDE DEF B, C, R, I
    <3> QED
      BY <1>1, <2>1, <2>2, <2>3, <2>4, <3>2, <3>3
  <2>5. CASE s \notin DOMAIN new
    <3>1. Timeout <= old[s].idle + 1
      BY <1>1, <1>6, <2>1, <2>5
    <3>2. R * Timeout <= R * (old[s].idle + 1)
      BY <1>1, <2>1, <3>1
    <3>3. C <= R * Timeout /\ R * Timeout \in Nat
      BY <1>1 DEF BurstRefills
    <3>4. C <= I + R
      <4> HIDE DEF C, I
      <4> QED
        BY <1>1, <2>2, <3>2, <3>3
    <3> HIDE DEF B, C, R, I
    <3> QED
      BY <1>1, <2>2, <2>3, <2>5, <3>4
  <2> QED
    BY <2>4, <2>5
<1> QED
  BY <1>5, <1>6

-----------------------------------------------------------------------------
(***************************************************************************)
(* One step.                                                               *)
(***************************************************************************)
LEMMA InitPath == Init => PathInv
<1> SUFFICES ASSUME Init PROVE PathInv
  OBVIOUS
<1>1. /\ cfg \in Environments /\ StartOK(cfg)
      /\ doc = <<>> /\ file = <<>> /\ rules = <<>> /\ chain = <<>>
  BY DEF Init
<1>2. Placed
  BY <1>1, EmptyPlan, EmptyChain DEF Placed
<1>3. GuardsOK(cfg)
  BY <1>1 DEF StartOK, LoadOK
<1>4. Fresh(<<>>, cfg) \in [IDs -> GuardStates]
  BY <1>3, EmptyPlan, FreshTyped
<1>5. Typed
  BY <1>4 DEF Init, Typed
<1>6. AggregateInv /\ FloodInv
  BY <1>1 DEF AggregateInv, FloodInv
<1>7. AclExact
  BY DEF Init, AclExact, NoPacket
<1> QED
  BY <1>2, <1>5, <1>6, <1>7 DEF PathInv

LEMMA ApplyPath ==
    ASSUME PathInv, NEW d \in Documents, Apply(d)
    PROVE  PathInv'
<1>1. /\ DocumentOK(d) /\ Replace(Decoded(d), cfg) /\ cfg' = cfg
      /\ doc' = d /\ file' = Encoded(Decoded(d))
  BY DEF Apply
<1>2. cfg \in Environments /\ StartOK(cfg) /\ GuardsOK(cfg)
  BY DEF PathInv, Placed, StartOK, LoadOK
<1>3. DocumentTyped(d) /\ Planned(Decoded(d), d)
  BY <1>1, SentTyped, DecodedPlans
<1>4. rules' = Decoded(d) /\ chain' = RenderRules(Decoded(d), GuardsOf(cfg))
  BY <1>1 DEF Replace
<1>5. Placed'
  BY <1>1, <1>2, <1>3, <1>4 DEF Placed
<1>6. Typed' /\ AggregateInv' /\ FloodInv' /\ AclExact'
  BY <1>1, <1>2, <1>3, FreshInv
<1> QED
  BY <1>5, <1>6 DEF PathInv

LEMMA RestartPath ==
    ASSUME PathInv, NEW e \in Environments, Restart(e)
    PROVE  PathInv'
<1>1. cfg' = e /\ StartOK(e) /\ GuardsOK(e)
  BY DEF Restart, StartOK, LoadOK
<1>2. PICK p : /\ Replace(p, e) /\ Planned(p, doc')
               /\ DocumentTyped(doc') /\ DocumentOK(doc') /\ file' = Encoded(Decoded(doc'))
  <2>1. CASE Loadable(e)
    <3>1. Replace(Decoded(file), e) /\ doc' = doc /\ file' = file /\ DocumentOK(file)
      BY <2>1 DEF Restart, Loadable
    <3>2. DocumentTyped(doc) /\ DocumentOK(doc) /\ file = Encoded(Decoded(doc))
      BY DEF PathInv, Placed
    <3>3. Planned(Decoded(file), doc)
      BY <3>1, <3>2, FilePlans
    <3> QED
      BY <3>1, <3>2, <3>3
  <2>2. CASE ~Loadable(e)
    <3>1. Replace(<<>>, e) /\ doc' = <<>> /\ file' = <<>>
      BY <2>2 DEF Restart
    <3> QED
      BY <3>1, EmptyPlan
  <2> QED
    BY <2>1, <2>2
<1>3. rules' = p /\ chain' = RenderRules(p, GuardsOf(e))
  BY <1>2 DEF Replace
<1>4. Placed'
  BY <1>1, <1>2, <1>3 DEF Placed
<1>5. Typed' /\ AggregateInv' /\ FloodInv' /\ AclExact'
  BY <1>1, <1>2, FreshInv
<1> QED
  BY <1>4, <1>5 DEF PathInv

(***************************************************************************)
(* The mapping of a packet, and what the document says of its sources.     *)
(***************************************************************************)
LEMMA SentPolicy ==
    ASSUME Placed, NEW m \in DOMAIN rules, NEW src \in Sources
    PROVE  Denied(rules[m], src) <=> ~Admits(PolicySent(rules[m].id), src)
<1>1. /\ DOMAIN rules = DOMAIN doc /\ rules[m].id = doc[m].id
      /\ Renders(rules[m].policy, doc[m].policy)
  BY DEF Placed, Planned
<1>2. doc[m].policy \in Fields /\ UnmarshalOK(doc[m].policy)
  BY <1>1 DEF Placed, DocumentTyped, MappingTyped, DocumentOK
<1>3. PolicySent(rules[m].id) = doc[m].policy
  <2>1. \A k \in DOMAIN doc : doc[k].id = doc[m].id => k = m
    BY <1>1 DEF Placed, DocumentOK, MappingsDistinct
  <2>2. doc[m] \in ToSet(doc) /\ \A q \in ToSet(doc) : q.id = doc[m].id => q = doc[m]
    BY <1>1, <2>1 DEF ToSet
  <2>3. (CHOOSE q \in ToSet(doc) : q.id = doc[m].id) = doc[m]
    BY <2>2
  <2> QED
    BY <1>1, <2>3 DEF PolicySent
<1>4. src \in Addresses
  BY PathAssumption
<1> QED
  BY <1>1, <1>2, <1>3, <1>4, DeniedExactly

LEMMA DistinctIds ==
    ASSUME Placed, NEW m \in DOMAIN rules, NEW k \in DOMAIN rules, rules[k].id = rules[m].id
    PROVE  k = m
  BY DEF Placed, Planned, DocumentOK, MappingsDistinct

LEMMA PacketPathInv ==
    ASSUME PathInv, NEW m \in DOMAIN rules, NEW src \in Sources, Packet(rules[m], src)
    PROVE  PathInv'
<1> DEFINE r == rules[m]
           w == Walk([src |-> src, proto |-> r.proto, port |-> r.port])
           e == Effective(r.id)
<1>1. Placed /\ Typed /\ AggregateInv /\ FloodInv
  BY DEF PathInv
<1>2. /\ Effect(w, guard, r, src, e)
      /\ w.verdict # "none"
      /\ (w.verdict = "dnat" /\ e.rate > 0) => w.drew
  BY <1>1, PacketEffect
<1>3. r.id \in IDs /\ e = InEffect(m) /\ e \in [GuardNames -> Nat]
  BY <1>1, RuleFacts DEF InEffect
<1>4. /\ guard' = w.guard
      /\ last' = [src |-> src, id |-> r.id, verdict |-> w.verdict]
      /\ drawn' = [drawn EXCEPT ![r.id][src] = IF w.drew THEN @ + 1 ELSE @]
      /\ made' = [made EXCEPT ![r.id] = IF w.verdict = "dnat" THEN @ + 1 ELSE @]
      /\ full' = [full EXCEPT ![r.id] = @ \/ w.full]
      /\ UNCHANGED <<cfg, doc, file, rules, chain, ticks>>
  BY DEF Packet
<1> HIDE DEF w, e
<1>5. Placed'
  BY <1>1, <1>4 DEF Placed
<1>6. w \in Walks
  BY <1>2 DEF Effect
<1>7. Typed'
  <2>1. guard' \in [IDs -> GuardStates] /\ w.full \in BOOLEAN
    BY <1>4, <1>6 DEF Walks
  <2>2. made' \in [IDs -> Nat]
    BY <1>1, <1>3, <1>4 DEF Typed
  <2>3. drawn' \in [IDs -> [Sources -> Nat]]
    BY <1>1, <1>3, <1>4 DEF Typed
  <2>4. full' \in [IDs -> BOOLEAN]
    BY <1>1, <1>3, <1>4, <2>1 DEF Typed
  <2> QED
    BY <1>1, <1>4, <2>1, <2>2, <2>3, <2>4 DEF Typed
<1>8. AclExact'
  <2>1. last'.verdict = w.verdict /\ last'.id = r.id /\ last'.src = src
    BY <1>4
  <2>2. w.verdict = "acl" <=> Denied(r, src)
    BY <1>2 DEF Effect
  <2>3. PolicySent(r.id)' = PolicySent(r.id)
    BY <1>4 DEF PolicySent
  <2>4. PolicySent(last.id)' = PolicySent(r.id)
    BY <2>1, <1>4 DEF PolicySent
  <2> QED
    BY <2>1, <2>2, <2>4, <1>1, SentPolicy DEF AclExact
<1>9. ASSUME NEW k \in DOMAIN rules, k # m
      PROVE  /\ rules[k].id \in IDs /\ rules[k].id # r.id
             /\ guard'[rules[k].id] = guard[rules[k].id]
             /\ made'[rules[k].id] = made[rules[k].id]
             /\ drawn'[rules[k].id] = drawn[rules[k].id]
             /\ full'[rules[k].id] = full[rules[k].id]
  <2>1. rules[k].id \in IDs /\ rules[k].id # r.id
    BY <1>1, <1>9, RuleFacts, DistinctIds
  <2>2. guard'[rules[k].id] = guard[rules[k].id]
    BY <2>1, <1>2, <1>4 DEF Effect
  <2> QED
    BY <2>1, <2>2, <1>1, <1>4 DEF Typed
<1>10. ASSUME NEW k \in DOMAIN rules PROVE InEffect(k)' = InEffect(k)
  BY <1>4 DEF InEffect
<1>11. rules' = rules /\ ticks' = ticks
  BY <1>4
<1>12. AggregateLeft(e, made'[r.id], guard'[r.id], ticks)
  <2>1. AggregateLeft(e, made[r.id], guard[r.id], ticks)
    BY <1>1, <1>3 DEF AggregateInv
  <2>2. /\ e.rate \in Nat /\ Capacity(e.burst) \in Nat /\ made[r.id] \in Nat /\ ticks \in Nat
        /\ guard[r.id].tokens \in Nat /\ guard'[r.id].tokens \in Nat
    <3>1. e.rate \in Nat /\ e.burst \in Nat
      BY <1>3 DEF GuardNames
    <3> QED
      BY <3>1, <1>1, <1>3, <1>7, CapacityType DEF Typed, GuardStates
  <2>3. made'[r.id] = IF w.verdict = "dnat" THEN made[r.id] + 1 ELSE made[r.id]
    BY <1>1, <1>3, <1>4 DEF Typed
  <2>4. guard'[r.id].tokens = IF w.drew THEN guard[r.id].tokens - 1 ELSE guard[r.id].tokens
    BY <1>2, <1>4 DEF Effect
  <2>5. e.rate * ticks \in Nat
    BY <2>2
  <2> DEFINE B == e.rate * ticks
  <2> HIDE DEF B
  <2>6. e.rate > 0 => made[r.id] + guard[r.id].tokens <= Capacity(e.burst) + B
    BY <2>1 DEF AggregateLeft, B
  <2>7. e.rate > 0 => made'[r.id] + guard'[r.id].tokens <= Capacity(e.burst) + B
    BY <2>2, <2>3, <2>4, <2>5, <2>6, <1>2 DEF B
  <2> QED
    BY <2>7 DEF AggregateLeft, B
<1>13. AggregateInv'
  <2>1. ASSUME NEW k \in DOMAIN rules
        PROVE  AggregateLeft(InEffect(k), made'[rules[k].id], guard'[rules[k].id], ticks)
    <3>1. CASE k = m
      BY <3>1, <1>3, <1>12
    <3>2. CASE k # m
      <4>1. AggregateLeft(InEffect(k), made[rules[k].id], guard[rules[k].id], ticks)
        BY <1>1 DEF AggregateInv
      <4> QED
        BY <4>1, <3>2, <1>9
    <3> QED
      BY <3>1, <3>2
  <2> QED
    BY <2>1, <1>10, <1>11 DEF AggregateInv
<1>14. ASSUME BurstRefills(e), ~full'[r.id], NEW s \in Sources
       PROVE  SourceLeft(e, guard'[r.id].sources, s, drawn'[r.id][s], ticks)
  <2>1. full'[r.id] = (full[r.id] \/ w.full)
    BY <1>1, <1>3, <1>4 DEF Typed
  <2>2. ~full[r.id] /\ ~w.full
    BY <1>14, <2>1
  <2>3. SourceLeft(e, guard[r.id].sources, s, drawn[r.id][s], ticks)
    BY <1>1, <1>3, <1>14, <2>2 DEF FloodInv
  <2>4. SourcesMoved(w, guard[r.id].sources, guard'[r.id].sources, src, e)
    BY <1>2, <1>4, <1>14, <2>2 DEF Effect, BurstRefills
  <2>5. guard[r.id].sources \in SourceSets /\ drawn[r.id][s] \in Nat /\ ticks \in Nat
    BY <1>1, <1>3 DEF Typed, GuardStates
  <2>6. drawn'[r.id][s] = IF s = src /\ w.drew THEN drawn[r.id][s] + 1 ELSE drawn[r.id][s]
    BY <1>1, <1>3, <1>4 DEF Typed
  <2> HIDE DEF r
  <2>7. SourceLeft(e, guard'[r.id].sources, s,
                   IF s = src /\ w.drew THEN drawn[r.id][s] + 1 ELSE drawn[r.id][s], ticks)
    BY <1>3, <2>3, <2>4, <2>5, PacketLeaves
  <2> QED
    BY <2>6, <2>7
<1>15. FloodInv'
  <2>1. ASSUME NEW k \in DOMAIN rules, BurstRefills(InEffect(k)), ~full'[rules[k].id],
               NEW s \in Sources
        PROVE  SourceLeft(InEffect(k), guard'[rules[k].id].sources, s, drawn'[rules[k].id][s], ticks)
    <3>1. CASE k = m
      BY <2>1, <3>1, <1>3, <1>14
    <3>2. CASE k # m
      <4>1. SourceLeft(InEffect(k), guard[rules[k].id].sources, s, drawn[rules[k].id][s], ticks)
        BY <2>1, <3>2, <1>1, <1>9 DEF FloodInv
      <4> QED
        BY <4>1, <3>2, <1>9
    <3> QED
      BY <3>1, <3>2
  <2> QED
    BY <2>1, <1>10, <1>11 DEF FloodInv
<1> QED
  BY <1>5, <1>7, <1>8, <1>13, <1>15 DEF PathInv


(***************************************************************************)
(* A second: what is left grows by the rate at most.                       *)
(***************************************************************************)
LEMMA AgedTyped ==
    ASSUME Placed, Typed, NEW m \in DOMAIN rules
    PROVE  LET i == rules[m].id
               e == InEffect(m)
               old == guard[i].sources
           IN  /\ AgedGuard(i) \in GuardStates
               /\ AgedGuard(i).tokens = Lower(guard[i].tokens + e.rate, Capacity(e.burst))
               /\ AgedGuard(i).sources =
                     [x \in {y \in DOMAIN old : old[y].idle + 1 < Timeout} |-> Aged(old[x], e)]
<1> DEFINE i == rules[m].id
           e == InEffect(m)
           old == guard[i].sources
           kept == {y \in DOMAIN old : old[y].idle + 1 < Timeout}
           new == [x \in kept |-> Aged(old[x], e)]
           n == Lower(guard[i].tokens + e.rate, Capacity(e.burst))
<1>1. i \in IDs /\ Effective(i) = e /\ e \in [GuardNames -> Nat]
  BY RuleFacts DEF InEffect
<1>2. i \in Installed
  BY DEF Installed, ToSet
<1>3. guard[i] \in GuardStates /\ old \in SourceSets /\ guard[i].tokens \in Nat
  BY <1>1 DEF Typed, GuardStates
<1>4. /\ e.rate \in Nat /\ e.psRate \in Nat
      /\ Capacity(e.burst) \in Nat /\ Capacity(e.psBurst) \in Nat
  <2>1. e.rate \in Nat /\ e.psRate \in Nat /\ e.burst \in Nat /\ e.psBurst \in Nat
    BY <1>1 DEF GuardNames
  <2> QED
    BY <2>1, CapacityType
<1>5. AgedGuard(i) = [guard[i] EXCEPT !.tokens = n, !.sources = new]
  BY <1>1, <1>2, <1>3 DEF AgedGuard, GuardStates
<1>6. n \in Nat
  BY <1>3, <1>4 DEF Lower
<1>7. new \in SourceSets
  <2>1. DOMAIN old \subseteq Sources /\ \A x \in DOMAIN old : old[x] \in Entries
    BY <1>3, SourceSetsOut
  <2>2. ASSUME NEW x \in DOMAIN old PROVE Aged(old[x], e) \in Entries
    <3>1. old[x].tokens \in Nat /\ old[x].idle \in Nat
      BY <2>1 DEF Entries
    <3> HIDE DEF e, old
    <3> QED
      BY <3>1, <1>4 DEF Aged, Lower, Entries
  <2>3. new \in [kept -> Entries] /\ kept \in SUBSET Sources
    BY <2>1, <2>2
  <2> HIDE DEF new, kept
  <2> QED
    BY <2>3, SourceSetsIn
<1> HIDE DEF n, new
<1>8. /\ AgedGuard(i) \in GuardStates /\ AgedGuard(i).tokens = n /\ AgedGuard(i).sources = new
  BY <1>3, <1>5, <1>6, <1>7 DEF GuardStates
<1> QED
  BY <1>8 DEF n, new

LEMMA TickPath ==
    ASSUME PathInv, Tick
    PROVE  PathInv'
<1>1. Placed /\ Typed /\ AggregateInv /\ FloodInv
  BY DEF PathInv
<1>2. /\ ticks' = ticks + 1 /\ guard' = [i \in IDs |-> AgedGuard(i)] /\ last' = NoPacket
      /\ UNCHANGED <<cfg, doc, file, rules, chain, drawn, made, full>>
  BY DEF Tick
<1>3. Placed'
  BY <1>1, <1>2 DEF Placed
<1>4. AclExact'
  BY <1>2 DEF AclExact, NoPacket
<1>5. Typed'
  <2>1. ASSUME NEW i \in IDs PROVE AgedGuard(i) \in GuardStates
    <3>1. CASE i \in Installed
      <4>1. PICK m \in DOMAIN rules : rules[m].id = i
        BY <3>1 DEF Installed, ToSet
      <4> QED
        BY <4>1, <1>1, AgedTyped
    <3>2. CASE i \notin Installed
      BY <3>2, <1>1 DEF AgedGuard, Typed
    <3> QED
      BY <3>1, <3>2
  <2> QED
    BY <2>1, <1>1, <1>2 DEF Typed
<1>6. ASSUME NEW m \in DOMAIN rules PROVE InEffect(m)' = InEffect(m)
  BY <1>2 DEF InEffect
<1>7. ASSUME NEW m \in DOMAIN rules
      PROVE  LET i == rules[m].id
                 e == InEffect(m)
             IN  /\ AggregateLeft(e, made[i], guard'[i], ticks + 1)
                 /\ (BurstRefills(e) /\ ~full[i]) =>
                       \A s \in Sources :
                           SourceLeft(e, guard'[i].sources, s, drawn[i][s], ticks + 1)
  <2> DEFINE i == rules[m].id
             e == InEffect(m)
             old == guard[i].sources
  <2>1. i \in IDs /\ e \in [GuardNames -> Nat]
    BY <1>1, RuleFacts DEF InEffect
  <2>2. guard'[i] = AgedGuard(i)
    BY <2>1, <1>2
  <2>3. /\ guard'[i].tokens = Lower(guard[i].tokens + e.rate, Capacity(e.burst))
        /\ guard'[i].sources =
              [x \in {y \in DOMAIN old : old[y].idle + 1 < Timeout} |-> Aged(old[x], e)]
    BY <2>2, <1>1, AgedTyped
  <2>4. /\ made[i] \in Nat /\ ticks \in Nat /\ guard[i].tokens \in Nat /\ old \in SourceSets
        /\ \A s \in Sources : drawn[i][s] \in Nat
    BY <2>1, <1>1 DEF Typed, GuardStates
  <2>5. AggregateLeft(e, made[i], guard[i], ticks)
    BY <1>1 DEF AggregateInv
  <2>6. (BurstRefills(e) /\ ~full[i]) =>
            \A s \in Sources : SourceLeft(e, old, s, drawn[i][s], ticks)
    BY <1>1 DEF FloodInv
  <2> HIDE DEF i, e, old
  <2>7. AggregateLeft(e, made[i], guard'[i], ticks + 1)
    <3>1. e.rate \in Nat /\ e.burst \in Nat
      BY <2>1 DEF GuardNames
    <3>2. Capacity(e.burst) \in Nat
      BY <3>1, CapacityType
    <3> DEFINE B == e.rate * ticks
    <3>3. B \in Nat /\ e.rate * (ticks + 1) = B + e.rate
      BY <3>1, <2>4
    <3>4. e.rate > 0 => made[i] + guard[i].tokens <= Capacity(e.burst) + B
      BY <2>5 DEF AggregateLeft
    <3>5. guard'[i].tokens <= guard[i].tokens + e.rate /\ guard'[i].tokens \in Nat
      BY <2>3, <2>4, <3>1, <3>2 DEF Lower
    <3> HIDE DEF B
    <3>6. e.rate > 0 => made[i] + guard'[i].tokens <= Capacity(e.burst) + (B + e.rate)
      BY <2>4, <3>1, <3>2, <3>3, <3>4, <3>5
    <3> QED
      BY <3>3, <3>6 DEF AggregateLeft
  <2>8. ASSUME BurstRefills(e), ~full[i], NEW s \in Sources
        PROVE  SourceLeft(e, guard'[i].sources, s, drawn[i][s], ticks + 1)
    BY <2>1, <2>3, <2>4, <2>6, <2>8, SecondLeaves
  <2> QED
    BY <2>7, <2>8 DEF i, e
<1>8. AggregateInv'
  BY <1>2, <1>6, <1>7 DEF AggregateInv
<1>9. FloodInv'
  BY <1>2, <1>6, <1>7 DEF FloodInv
<1> QED
  BY <1>3, <1>4, <1>5, <1>8, <1>9 DEF PathInv

LEMMA FlowEndsPath ==
    ASSUME PathInv, NEW id \in IDs, FlowEnds(id)
    PROVE  PathInv'
<1>1. Placed /\ Typed /\ AggregateInv /\ FloodInv
  BY DEF PathInv
<1>2. /\ guard[id].conns > 0 /\ guard' = [guard EXCEPT ![id].conns = @ - 1]
      /\ last' = NoPacket
      /\ UNCHANGED <<cfg, doc, file, rules, chain, drawn, made, full, ticks>>
  BY DEF FlowEnds
<1>3. Placed'
  BY <1>1, <1>2 DEF Placed
<1>4. AclExact'
  BY <1>2 DEF AclExact, NoPacket
<1>5. guard \in [IDs -> GuardStates]
  BY <1>1 DEF Typed
<1>6. guard[id].conns - 1 \in Nat
  BY <1>2, <1>5 DEF GuardStates
<1>7. /\ guard' \in [IDs -> GuardStates]
      /\ \A i \in IDs : guard'[i].tokens = guard[i].tokens /\ guard'[i].sources = guard[i].sources
  BY <1>2, <1>5, <1>6 DEF GuardStates
<1>8. Typed'
  BY <1>1, <1>2, <1>7 DEF Typed
<1>9. ASSUME NEW m \in DOMAIN rules
      PROVE  rules[m].id \in IDs /\ InEffect(m)' = InEffect(m)
  BY <1>1, <1>2, RuleFacts DEF InEffect
<1>10. AggregateInv'
  BY <1>1, <1>2, <1>7, <1>9 DEF AggregateInv, AggregateLeft
<1>11. FloodInv'
  BY <1>1, <1>2, <1>7, <1>9 DEF FloodInv
<1> QED
  BY <1>3, <1>4, <1>8, <1>10, <1>11 DEF PathInv

LEMMA NextPath == PathInv /\ [Next]_vars => PathInv'
<1> SUFFICES ASSUME PathInv, [Next]_vars PROVE PathInv'
  OBVIOUS
<1>1. ASSUME NEW r \in ToSet(rules), NEW src \in Sources, Packet(r, src) PROVE PathInv'
  <2>1. PICK m \in DOMAIN rules : r = rules[m]
    BY DEF ToSet
  <2> QED
    BY <1>1, <2>1, PacketPathInv
<1>2. CASE UNCHANGED vars
  BY <1>2 DEF vars, PathInv, Placed, Typed, AggregateInv, FloodInv, InEffect, AclExact, PolicySent
<1> QED
  BY <1>1, <1>2, ApplyPath, RestartPath, TickPath, FlowEndsPath DEF Next

LEMMA PathInvariance == Spec => []PathInv
  BY InitPath, NextPath, PTL DEF Spec

-----------------------------------------------------------------------------
(***************************************************************************)
(* The rendered allowlist drops exactly the sources the document does not  *)
(* admit, for every list of prefixes and every width of an address: the    *)
(* masked comparisons of the drop rule, the sorting of the list and the    *)
(* way of the policy through the persisted file lose nothing.              *)
(***************************************************************************)
THEOREM AllowlistExact == Spec => []AclExact
  BY PathInvariance, PTL DEF PathInv

(***************************************************************************)
(* A packet that the allowlist denies leaves every guard as it was,        *)
(* whatever rules of other mappings stand in the chain around it.          *)
(***************************************************************************)
THEOREM DeniedUsesNothing == Spec => DeniedLeavesNoTrace
<1>1. ASSUME PathInv, [Next]_vars,
             last'.verdict # "none", ~Admits(PolicySent(last'.id), last'.src),
             ~UNCHANGED vars
      PROVE  UNCHANGED guard
  <2>1. PICK r \in ToSet(rules), src \in Sources : Packet(r, src)
    BY <1>1 DEF Next, Apply, Restart, Replace, Tick, FlowEnds, NoPacket
  <2>2. PICK m \in DOMAIN rules : r = rules[m]
    BY DEF ToSet
  <2> DEFINE w == Walk([src |-> src, proto |-> r.proto, port |-> r.port])
  <2>3. guard' = w.guard /\ last' = [src |-> src, id |-> r.id, verdict |-> w.verdict]
    BY <2>1 DEF Packet
  <2>4. Effect(w, guard, r, src, Effective(r.id))
    BY <1>1, <2>2, PacketEffect DEF PathInv
  <2> HIDE DEF w
  <2>5. Denied(r, src)
    BY <1>1, <2>2, <2>3, SentPolicy DEF PathInv
  <2> QED
    BY <2>3, <2>4, <2>5 DEF Effect
<1>2. PathInv /\ [Next]_vars =>
        [last'.verdict # "none" /\ ~Admits(PolicySent(last'.id), last'.src) => UNCHANGED guard]_vars
  BY <1>1
<1> QED
  BY <1>2, PathInvariance, PTL DEF Spec, DeniedLeavesNoTrace

LEMMA InstalledAt ==
    ASSUME PathInv, NEW i \in Installed
    PROVE  \E m \in DOMAIN rules :
              /\ rules[m].id = i /\ i \in IDs
              /\ Effective(i) = InEffect(m) /\ Effective(i) \in [GuardNames -> Nat]
<1>1. PICK m \in DOMAIN rules : rules[m].id = i
  BY DEF Installed, ToSet
<1> QED
  BY <1>1, RuleFacts DEF PathInv, InEffect

(***************************************************************************)
(* With the aggregate guard on, no mapping admits more flows than burst    *)
(* and rate allow, for any guards, any number of sources and any time.     *)
(***************************************************************************)
THEOREM AggregateBound == Spec => []AggregateHolds
<1>1. ASSUME PathInv, NEW i \in Installed, Effective(i).rate > 0
      PROVE  made[i] <= Capacity(Effective(i).burst) + Effective(i).rate * ticks
  <2>1. PICK m \in DOMAIN rules :
            /\ rules[m].id = i /\ i \in IDs
            /\ Effective(i) = InEffect(m) /\ Effective(i) \in [GuardNames -> Nat]
    BY <1>1, InstalledAt
  <2> DEFINE e == Effective(i)
  <2>2. AggregateLeft(e, made[i], guard[i], ticks)
    BY <1>1, <2>1 DEF PathInv, AggregateInv
  <2>3. made[i] \in Nat /\ guard[i].tokens \in Nat /\ ticks \in Nat
    BY <1>1, <2>1 DEF PathInv, Typed, GuardStates
  <2>4. e.rate \in Nat /\ e.burst \in Nat
    BY <2>1 DEF GuardNames
  <2>5. Capacity(e.burst) \in Nat /\ e.rate * ticks \in Nat
    BY <2>3, <2>4, CapacityType
  <2>6. made[i] + guard[i].tokens <= Capacity(e.burst) + e.rate * ticks
    BY <1>1, <2>2 DEF AggregateLeft
  <2> QED
    BY <2>3, <2>5, <2>6
<1>2. PathInv => AggregateHolds
  BY <1>1 DEF AggregateHolds
<1> QED
  BY <1>2, PathInvariance, PTL

(***************************************************************************)
(* While the per-source set has room and the burst refills before an entry *)
(* expires, no source takes more of the aggregate bucket than its own      *)
(* burst and rate, whatever the others send and however often its entry    *)
(* expires and is made again.                                              *)
(***************************************************************************)
THEOREM FloodBound == Spec => []FloodContained
<1>1. ASSUME PathInv, NEW i \in Installed, BurstRefills(Effective(i)), ~full[i], NEW s \in Sources
      PROVE  drawn[i][s] <= Capacity(Effective(i).psBurst) + Effective(i).psRate * ticks
  <2>1. PICK m \in DOMAIN rules :
            /\ rules[m].id = i /\ i \in IDs
            /\ Effective(i) = InEffect(m) /\ Effective(i) \in [GuardNames -> Nat]
    BY <1>1, InstalledAt
  <2> DEFINE e == Effective(i)
             ss == guard[i].sources
  <2>2. SourceLeft(e, ss, s, drawn[i][s], ticks)
    BY <1>1, <2>1 DEF PathInv, FloodInv
  <2>3. drawn[i][s] \in Nat /\ ss \in SourceSets /\ ticks \in Nat
    BY <1>1, <2>1 DEF PathInv, Typed, GuardStates
  <2>4. e.psRate \in Nat /\ e.psBurst \in Nat
    BY <2>1 DEF GuardNames
  <2>5. Capacity(e.psBurst) \in Nat /\ e.psRate * ticks \in Nat
    BY <2>3, <2>4, CapacityType
  <2>6. s \in DOMAIN ss => ss[s].tokens \in Nat
    BY <2>3, SourceSetsOut DEF Entries
  <2> HIDE DEF e, ss
  <2>7. IF s \in DOMAIN ss THEN drawn[i][s] + ss[s].tokens <= Capacity(e.psBurst) + e.psRate * ticks
        ELSE drawn[i][s] <= e.psRate * ticks
    BY <2>2 DEF SourceLeft
  <2>8. drawn[i][s] <= Capacity(e.psBurst) + e.psRate * ticks
    BY <2>3, <2>5, <2>6, <2>7
  <2> QED
    BY <2>8 DEF e
<1>2. PathInv => FloodContained
  BY <1>1 DEF FloodContained
<1> QED
  BY <1>2, PathInvariance, PTL
=============================================================================
