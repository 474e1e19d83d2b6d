---------------------------- MODULE ChainLemmas -----------------------------
(***************************************************************************)
(* What the rendered chains look like, for any number of mappings and      *)
(* retirements: least elements in place of induction, where the blocks of  *)
(* a flattened sequence lie, the rules of one mapping, and the nat chain   *)
(* with its tags.                                                          *)
(***************************************************************************)
EXTENDS NftRules, TLAPS, WellFoundedInduction, SequenceTheorems, FiniteSetTheorems

Below == {p \in Nat \X Nat : p[1] < p[2]}

(***************************************************************************)
(* A non-empty set of naturals has a least element: induction, without an  *)
(* operator as a parameter.                                                *)
(***************************************************************************)
LEMMA LeastExists ==
    ASSUME NEW T, T \subseteq Nat, T # {}
    PROVE  \E x \in T : \A y \in T : x <= y
<1>1. IsWellFoundedOn(Below, Nat)
  BY NatLessThanWellFounded, Zenon DEF OpToRel, Below
<1>2. PICK x \in T : \A y \in T : ~(<<y, x>> \in Below)
  BY <1>1, WFMin
<1>3. ASSUME NEW y \in T PROVE x <= y
  <2>1. <<y, x>> \in Nat \X Nat /\ <<y, x>>[1] = y /\ <<y, x>>[2] = x
    OBVIOUS
  <2>2. ~(<<y, x>>[1] < <<y, x>>[2])
    BY <1>2, <2>1, Zenon DEF Below
  <2> QED
    BY <2>1, <2>2
<1> QED
  BY <1>3

(***************************************************************************)
(* flatten, as FlattenSeq defines it, for the first n sequences.           *)
(***************************************************************************)
Joined(f, seqs, n) == f = [i \in 1..n |-> IF i = 1 THEN seqs[i] ELSE f[i - 1] \o seqs[i]]

LEMMA JoinedExists ==
    ASSUME NEW seqs, NEW n \in Nat
    PROVE  \E f : Joined(f, seqs, n)
<1> DEFINE T == {k \in Nat : ~\E f : Joined(f, seqs, k)}
<1> SUFFICES ASSUME T # {} PROVE FALSE
  OBVIOUS
<1>1. PICK k \in T : \A y \in T : k <= y
  BY LeastExists
<1>2. k # 0
  <2> DEFINE g == [i \in 1..0 |-> seqs[i]]
  <2>1. g = [i \in 1..0 |-> IF i = 1 THEN seqs[i] ELSE g[i - 1] \o seqs[i]]
    OBVIOUS
  <2>2. Joined(g, seqs, 0)
    BY <2>1, Zenon DEF Joined
  <2> QED
    BY <2>2
<1>3. k - 1 \in Nat /\ k - 1 \notin T
  BY <1>1, <1>2
<1>4. PICK f : Joined(f, seqs, k - 1)
  BY <1>3
<1> DEFINE last_ == IF k = 1 THEN seqs[k] ELSE f[k - 1] \o seqs[k]
           g == [i \in 1..k |-> IF i = k THEN last_ ELSE f[i]]
<1>5. ASSUME NEW i \in 1..k
      PROVE  g[i] = IF i = 1 THEN seqs[i] ELSE g[i - 1] \o seqs[i]
  <2>1. CASE i = k
    <3>1. i # 1 => g[i - 1] = f[k - 1]
      BY <2>1
    <3> QED
      BY <3>1, <2>1
  <2>2. CASE i # k
    <3>1. i \in 1..(k - 1)
      BY <2>2
    <3>2. f[i] = IF i = 1 THEN seqs[i] ELSE f[i - 1] \o seqs[i]
      BY <3>1, <1>4 DEF Joined
    <3>3. i # 1 => g[i - 1] = f[i - 1]
      BY <3>1
    <3> QED
      BY <3>2, <3>3, <2>2
  <2> QED
    BY <2>1, <2>2
<1>6. g = [i \in 1..k |-> IF i = 1 THEN seqs[i] ELSE g[i - 1] \o seqs[i]]
  BY <1>5
<1>7. Joined(g, seqs, k)
  BY <1>6, Zenon DEF Joined
<1> QED
  BY <1>7

LEMMA FlattenIs ==
    ASSUME NEW seqs, Len(seqs) \in Nat \ {0}
    PROVE  \E f : Joined(f, seqs, Len(seqs)) /\ FlattenSeq(seqs) = f[Len(seqs)]
<1> DEFINE n == Len(seqs)
           g == CHOOSE h : h = [i \in 1..n |-> IF i = 1 THEN seqs[i] ELSE h[i - 1] \o seqs[i]]
<1>1. FlattenSeq(seqs) = g[n]
  BY DEF FlattenSeq
<1>2. PICK f : Joined(f, seqs, n)
  BY JoinedExists
<1>3. g = [i \in 1..n |-> IF i = 1 THEN seqs[i] ELSE g[i - 1] \o seqs[i]]
  BY <1>2 DEF Joined
<1>4. Joined(g, seqs, n)
  BY <1>3, Zenon DEF Joined
<1> QED
  BY <1>1, <1>4

-----------------------------------------------------------------------------
(***************************************************************************)
(* The rules of one mapping.                                               *)
(***************************************************************************)
AclRule(r) == NatRule("acl", r, CHOOSE l \in r.policy : TRUE)
PerSourceRule(r, e) == NatRule("persource", r, <<e.psRate, e.psBurst>>)
AggregateRule(r, e) == NatRule("aggregate", r, <<e.rate, e.burst>>)
ConnlimitRule(r, e) == NatRule("connlimit", r, <<e.maxConn>>)

LEMMA OneOrNone ==
    ASSUME NEW S, NEW c, NEW rule \in S
    PROVE  When(c, rule) \in Seq(S)
  BY DEF When

LEMMA AclRulesAre ==
    ASSUME NEW r, \A k, l \in r.policy : k = l
    PROVE  AclRules(r) = When(r.policy # {}, AclRule(r))
<1>1. CASE r.policy = {}
  <2>1. Cardinality(r.policy) = 0
    BY <1>1, FS_EmptySet
  <2>2. AclRules(r) = <<>>
    BY <2>1 DEF AclRules
  <2> QED
    BY <1>1, <2>2 DEF When
<1>2. CASE r.policy # {}
  <2>1. PICK l : r.policy = {l}
    BY <1>2
  <2>2. Cardinality(r.policy) = 1
    BY <2>1, FS_Singleton
  <2>3. AclRules(r) = [i \in 1..1 |-> AclRule(r)]
    BY <2>2 DEF AclRules, AclRule
  <2> QED
    BY <1>2, <2>3 DEF When
<1> QED
  BY <1>1, <1>2

(***************************************************************************)
(* The five rules a mapping may have; all of them look at its own port.    *)
(***************************************************************************)
RulesOf(r, e) ==
    {AclRule(r), PerSourceRule(r, e), AggregateRule(r, e), ConnlimitRule(r, e), DnatRule(r)}

LEMMA RulesOfSelect ==
    ASSUME NEW r, NEW e, NEW rule \in RulesOf(r, e)
    PROVE  rule.port = r.port /\ rule.proto = r.proto
  BY DEF RulesOf, AclRule, PerSourceRule, AggregateRule, ConnlimitRule, DnatRule, NatRule

LEMMA MappingRulesType ==
    ASSUME NEW r, NEW g, \A k, l \in r.policy : k = l
    PROVE  MappingRules(r, g) \in Seq(RulesOf(r, EffectiveGuards(r, g)))
<1> DEFINE e == EffectiveGuards(r, g)
           S == RulesOf(r, e)
           s1 == When(r.policy # {}, AclRule(r))
           s2 == When(e.psRate > 0, PerSourceRule(r, e))
           s3 == When(e.rate > 0, AggregateRule(r, e))
           s4 == When(e.maxConn > 0, ConnlimitRule(r, e))
           s5 == <<DnatRule(r)>>
<1>1. MappingRules(r, g) = (((s1 \o s2) \o s3) \o s4) \o s5
  BY AclRulesAre, Zenon DEF MappingRules, PerSourceRules, PerSourceRule, AggregateRules,
     AggregateRule, ConnlimitRules, ConnlimitRule
<1>2. s1 \in Seq(S) /\ s2 \in Seq(S) /\ s3 \in Seq(S) /\ s4 \in Seq(S) /\ s5 \in Seq(S)
  <2>1. /\ AclRule(r) \in S /\ PerSourceRule(r, e) \in S /\ AggregateRule(r, e) \in S
        /\ ConnlimitRule(r, e) \in S /\ DnatRule(r) \in S
    BY DEF RulesOf
  <2> HIDE DEF S, e
  <2> QED
    BY <2>1, OneOrNone
<1>3. ASSUME NEW a \in Seq(S), NEW b \in Seq(S) PROVE a \o b \in Seq(S)
  BY ConcatProperties
<1> HIDE DEF S, s1, s2, s3, s4, s5
<1>4. s1 \o s2 \in Seq(S)
  BY <1>2, <1>3
<1>5. (s1 \o s2) \o s3 \in Seq(S)
  BY <1>2, <1>3, <1>4
<1>6. ((s1 \o s2) \o s3) \o s4 \in Seq(S)
  BY <1>2, <1>3, <1>5
<1>7. (((s1 \o s2) \o s3) \o s4) \o s5 \in Seq(S)
  BY <1>2, <1>3, <1>6
<1> QED
  BY <1>1, <1>7 DEF S


-----------------------------------------------------------------------------
(***************************************************************************)
(* Where the blocks of a flattened sequence lie: block i of seqs begins    *)
(* after position at[i] of the chain, and the blocks follow one another.   *)
(***************************************************************************)
Places(chain, seqs, at) ==
    /\ at \in [1..Len(seqs) -> Nat] /\ Len(chain) \in Nat
    /\ \A i \in 1..Len(seqs) : at[i] = IF i = 1 THEN 0 ELSE at[i - 1] + Len(seqs[i - 1])
    /\ \A i, k \in 1..Len(seqs) : i < k => at[i] + Len(seqs[i]) <= at[k]
    /\ \A i \in 1..Len(seqs) : \A j \in 1..Len(seqs[i]) :
          at[i] + j <= Len(chain) /\ chain[at[i] + j] = seqs[i][j]
    /\ \A p \in 1..Len(chain) : \E i \in 1..Len(seqs) : \E j \in 1..Len(seqs[i]) : p = at[i] + j

(***************************************************************************)
(* The same for the first k blocks, joined in f[k].                        *)
(***************************************************************************)
StartOf(f, i) == IF i = 1 THEN 0 ELSE Len(f[i - 1])

PlacesUpTo(f, seqs, S, k) ==
    /\ f[k] \in Seq(S)
    /\ Len(f[k]) = StartOf(f, k) + Len(seqs[k])
    /\ \A i \in 1..k : \A j \in 1..Len(seqs[i]) :
          /\ StartOf(f, i) \in Nat /\ StartOf(f, i) + j <= Len(f[k])
          /\ f[k][StartOf(f, i) + j] = seqs[i][j]
    /\ \A p \in 1..Len(f[k]) :
          \E i \in 1..k : \E j \in 1..Len(seqs[i]) : p = StartOf(f, i) + j

LEMMA JoinedPlaces ==
    ASSUME NEW S, NEW seqs \in Seq(Seq(S)), NEW f, Joined(f, seqs, Len(seqs)),
           NEW m \in 1..Len(seqs)
    PROVE  PlacesUpTo(f, seqs, S, m)
<1> DEFINE n == Len(seqs)
           T == {k \in 1..n : ~PlacesUpTo(f, seqs, S, k)}
<1>1. n \in Nat /\ \A i \in 1..n : seqs[i] \in Seq(S)
  BY LenProperties
<1>2. \A i \in 1..n : Len(seqs[i]) \in Nat /\ DOMAIN seqs[i] = 1..Len(seqs[i])
  BY <1>1, LenProperties
<1>3. \A i \in 1..n : f[i] = IF i = 1 THEN seqs[i] ELSE f[i - 1] \o seqs[i]
  BY <1>1, Zenon DEF Joined
<1>4. SUFFICES ASSUME T # {} PROVE FALSE
  <2>1. T = {} => PlacesUpTo(f, seqs, S, m)
    OBVIOUS
  <2> QED
    BY <2>1
<1>5. PICK k \in T : \A y \in T : k <= y
  <2>1. T \subseteq Nat
    BY <1>1
  <2> HIDE DEF T
  <2> QED
    BY <2>1, <1>4, LeastExists
<1>6. k \in 1..n /\ ~PlacesUpTo(f, seqs, S, k)
  OBVIOUS
<1>7. CASE k = 1
  <2>1. f[1] = seqs[1] /\ 1 \in 1..n
    BY <1>3, <1>6, <1>7
  <2>2. PlacesUpTo(f, seqs, S, 1)
    BY <2>1, <1>1, <1>2 DEF PlacesUpTo, StartOf
  <2> QED
    BY <2>2, <1>6, <1>7
<1>8. CASE k # 1
  <2>1. k - 1 \in 1..n /\ k - 1 \notin T
    BY <1>1, <1>5, <1>6, <1>8
  <2>2. PlacesUpTo(f, seqs, S, k - 1)
    BY <2>1
  <2> DEFINE a == f[k - 1]
             b == seqs[k]
             c == f[k]
  <2>3. a \in Seq(S) /\ b \in Seq(S) /\ c = a \o b
    BY <2>2, <1>1, <1>3, <1>6, <1>8 DEF PlacesUpTo
  <2>4. /\ Len(a) \in Nat /\ Len(b) \in Nat /\ c \in Seq(S) /\ Len(c) = Len(a) + Len(b)
        /\ \A j \in 1..Len(a) : c[j] = a[j]
        /\ \A j \in 1..Len(b) : c[Len(a) + j] = b[j]
    <3> HIDE DEF a, b, c
    <3>1. Len(a) \in Nat /\ Len(b) \in Nat
      BY <2>3, LenProperties
    <3>2. /\ a \o b \in Seq(S) /\ Len(a \o b) = Len(a) + Len(b)
          /\ \A i \in 1..(Len(a) + Len(b)) :
                (a \o b)[i] = IF i <= Len(a) THEN a[i] ELSE b[i - Len(a)]
      BY <2>3, ConcatProperties
    <3> QED
      BY <3>1, <3>2, <2>3
  <2>5. StartOf(f, k) = Len(a)
    BY <1>8 DEF StartOf
  <2>6. \A i \in 1..(k - 1) : \A j \in 1..Len(seqs[i]) :
            StartOf(f, i) \in Nat /\ StartOf(f, i) + j <= Len(a) /\ a[StartOf(f, i) + j] = seqs[i][j]
    BY <2>2 DEF PlacesUpTo
  <2>7. \A p \in 1..Len(a) : \E i \in 1..(k - 1) : \E j \in 1..Len(seqs[i]) : p = StartOf(f, i) + j
    BY <2>2 DEF PlacesUpTo
  <2> HIDE DEF a, c
  <2>8. ASSUME NEW i \in 1..k, NEW j \in 1..Len(seqs[i])
        PROVE  StartOf(f, i) \in Nat /\ StartOf(f, i) + j <= Len(c) /\ c[StartOf(f, i) + j] = seqs[i][j]
    <3>0. i \in 1..n /\ Len(seqs[i]) \in Nat /\ j \in Nat /\ j >= 1
      BY <1>1, <1>2, <1>6
    <3>1. CASE i = k
      <4>1. j \in 1..Len(b) /\ seqs[i][j] = b[j]
        BY <3>1
      <4>2. Len(a) + j <= Len(c) /\ c[Len(a) + j] = b[j] /\ Len(a) \in Nat
        <5> HIDE DEF b
        <5> QED
          BY <4>1, <2>4
      <4> QED
        BY <3>1, <4>1, <4>2, <2>5
    <3>2. CASE i # k
      <4>1. i \in 1..(k - 1)
        BY <1>6, <3>2
      <4>2. StartOf(f, i) \in Nat /\ StartOf(f, i) + j <= Len(a) /\ a[StartOf(f, i) + j] = seqs[i][j]
        BY <4>1, <2>6
      <4>3. StartOf(f, i) + j \in 1..Len(a)
        BY <4>2, <3>0, <2>4
      <4>4. StartOf(f, i) + j <= Len(c) /\ c[StartOf(f, i) + j] = a[StartOf(f, i) + j]
        <5> DEFINE q == StartOf(f, i) + j
        <5>1. q \in 1..Len(a)
          BY <4>3
        <5> HIDE DEF b, q
        <5>2. q <= Len(c) /\ c[q] = a[q]
          BY <5>1, <2>4
        <5> QED
          BY <5>2 DEF q
      <4> QED
        BY <4>2, <4>4
    <3> QED
      BY <3>1, <3>2
  <2>9. ASSUME NEW p \in 1..Len(c)
        PROVE  \E i \in 1..k : \E j \in 1..Len(seqs[i]) : p = StartOf(f, i) + j
    <3>1. CASE p <= Len(a)
      <4>1. p \in 1..Len(a)
        BY <3>1, <2>4
      <4>2. PICK i \in 1..(k - 1) : \E j \in 1..Len(seqs[i]) : p = StartOf(f, i) + j
        BY <4>1, <2>7
      <4>3. i \in 1..k
        BY <1>6
      <4> QED
        BY <4>2, <4>3
    <3>2. CASE ~(p <= Len(a))
      <4>1. p - Len(a) \in 1..Len(b) /\ p = StartOf(f, k) + (p - Len(a))
        BY <3>2, <2>4, <2>5
      <4>2. k \in 1..k
        BY <1>6
      <4> QED
        BY <4>1, <4>2 DEF b
    <3> QED
      BY <3>1, <3>2
  <2>10. PlacesUpTo(f, seqs, S, k)
    BY <2>4, <2>5, <2>8, <2>9 DEF PlacesUpTo, a, b, c
  <2> QED
    BY <2>10, <1>6
<1> QED
  BY <1>7, <1>8

LEMMA FlattenPlaces ==
    ASSUME NEW S, NEW seqs \in Seq(Seq(S))
    PROVE  FlattenSeq(seqs) \in Seq(S) /\ \E at : Places(FlattenSeq(seqs), seqs, at)
<1> DEFINE n == Len(seqs)
           chain == FlattenSeq(seqs)
<1>1. n \in Nat /\ \A i \in 1..n : seqs[i] \in Seq(S)
  BY LenProperties
<1>2. \A i \in 1..n : Len(seqs[i]) \in Nat
  BY <1>1, LenProperties
<1>3. CASE n = 0
  <2>1. seqs = <<>>
    BY <1>3, EmptySeq
  <2>2. chain = <<>>
    BY <1>3, <2>1 DEF FlattenSeq
  <2>3. Len(<<>>) = 0 /\ <<>> \in Seq(S)
    OBVIOUS
  <2> DEFINE at == [i \in 1..0 |-> 0]
  <2>4. at \in [1..n -> Nat]
    BY <1>3
  <2>5. Places(chain, seqs, at)
    BY <1>3, <2>2, <2>3, <2>4 DEF Places
  <2> QED
    BY <2>2, <2>3, <2>5
<1>4. CASE n # 0
  <2>1. PICK f : Joined(f, seqs, n) /\ chain = f[n]
    BY <1>1, <1>4, FlattenIs
  <2> DEFINE at == [i \in 1..n |-> StartOf(f, i)]
  <2>2. ASSUME NEW m \in 1..n
        PROVE  /\ f[m] \in Seq(S) /\ Len(f[m]) \in Nat
               /\ Len(f[m]) = StartOf(f, m) + Len(seqs[m])
               /\ \A i \in 1..m : \A j \in 1..Len(seqs[i]) :
                     StartOf(f, i) \in Nat /\ StartOf(f, i) + j <= Len(f[m]) /\ f[m][StartOf(f, i) + j] = seqs[i][j]
               /\ \A p \in 1..Len(f[m]) : \E i \in 1..m : \E j \in 1..Len(seqs[i]) : p = StartOf(f, i) + j
    <3>1. /\ f[m] \in Seq(S)
          /\ Len(f[m]) = StartOf(f, m) + Len(seqs[m])
          /\ \A i \in 1..m : \A j \in 1..Len(seqs[i]) :
                StartOf(f, i) \in Nat /\ StartOf(f, i) + j <= Len(f[m]) /\ f[m][StartOf(f, i) + j] = seqs[i][j]
          /\ \A p \in 1..Len(f[m]) : \E i \in 1..m : \E j \in 1..Len(seqs[i]) : p = StartOf(f, i) + j
      BY <2>1, JoinedPlaces DEF PlacesUpTo
    <3>2. Len(f[m]) \in Nat
      BY <3>1, LenProperties
    <3> QED
      BY <3>1, <3>2
  <2>3. ASSUME NEW i \in 1..n PROVE StartOf(f, i) \in Nat /\ (i # 1 => StartOf(f, i) = StartOf(f, i - 1) + Len(seqs[i - 1]))
    <3>1. CASE i = 1
      BY <3>1 DEF StartOf
    <3>2. CASE i # 1
      <4>1. i - 1 \in 1..n
        BY <3>2, <1>1
      <4> QED
        BY <4>1, <3>2, <2>2 DEF StartOf
    <3> QED
      BY <3>1, <3>2
  <2>4. ASSUME NEW i \in 1..n, NEW k \in 1..n, i < k
        PROVE  StartOf(f, i) + Len(seqs[i]) <= StartOf(f, k)
    <3>1. k - 1 \in 1..n /\ i \in 1..(k - 1) /\ StartOf(f, k) = Len(f[k - 1])
      BY <2>4, <1>1 DEF StartOf
    <3>2. CASE Len(seqs[i]) = 0
      <4>1. StartOf(f, i) <= Len(f[i]) /\ StartOf(f, i) \in Nat /\ Len(f[i]) = StartOf(f, i)
        BY <3>2, <2>2, <2>3
      <4>2. CASE i = k - 1
        BY <4>1, <4>2, <3>1, <3>2
      <4>3. CASE i # k - 1
        <5>1. Len(f[i]) <= Len(f[k - 1])
          <6>1. CASE Len(f[i]) = 0
            BY <6>1, <3>1, <2>2
          <6>2. CASE Len(f[i]) # 0
            <7>1. Len(f[i]) \in 1..Len(f[i])
              BY <6>2, <2>2
            <7>2. PICK x \in 1..i : \E j \in 1..Len(seqs[x]) : Len(f[i]) = StartOf(f, x) + j
              BY <7>1, <2>2
            <7>3. x \in 1..(k - 1)
              BY <3>1
            <7>4. \A j \in 1..Len(seqs[x]) : StartOf(f, x) + j <= Len(f[k - 1])
              BY <7>3, <3>1, <2>2
            <7> QED
              BY <7>2, <7>4
          <6> QED
            BY <6>1, <6>2
        <5> QED
          BY <5>1, <4>1, <3>1, <3>2
      <4> QED
        BY <4>2, <4>3
    <3>3. CASE Len(seqs[i]) # 0
      <4>1. Len(seqs[i]) \in 1..Len(seqs[i])
        BY <3>3, <1>2
      <4>2. StartOf(f, i) + Len(seqs[i]) <= Len(f[k - 1])
        BY <4>1, <3>1, <2>2
      <4> QED
        BY <4>2, <3>1
    <3> QED
      BY <3>2, <3>3
  <2>5. n \in 1..n
    BY <1>1, <1>4
  <2>6. /\ chain \in Seq(S) /\ Len(chain) \in Nat
        /\ \A i \in 1..n : \A j \in 1..Len(seqs[i]) :
              StartOf(f, i) + j <= Len(chain) /\ chain[StartOf(f, i) + j] = seqs[i][j]
        /\ \A p \in 1..Len(chain) : \E i \in 1..n : \E j \in 1..Len(seqs[i]) : p = StartOf(f, i) + j
    <3> HIDE DEF chain
    <3> QED
      BY <2>1, <2>2, <2>5
  <2>7. at \in [1..n -> Nat] /\ \A i \in 1..n : at[i] = StartOf(f, i)
    BY <2>3
  <2>8. \A i \in 1..n : at[i] = IF i = 1 THEN 0 ELSE at[i - 1] + Len(seqs[i - 1])
    <3>1. ASSUME NEW i \in 1..n, i # 1 PROVE i - 1 \in 1..n
      BY <1>1, <3>1
    <3> QED
      BY <3>1, <2>3, <2>7 DEF StartOf
  <2> HIDE DEF at, chain
  <2>9. Places(chain, seqs, at)
    BY <2>4, <2>6, <2>7, <2>8 DEF Places, n
  <2> QED
    BY <2>6, <2>9 DEF chain
<1> QED
  BY <1>1, <1>3, <1>4


(***************************************************************************)
(* Blocks of the same lengths lie at the same places, blocks of two at     *)
(* every second one.                                                       *)
(***************************************************************************)
LEMMA SamePlaces ==
    ASSUME NEW ss, NEW ts, NEW c, NEW d, NEW at, NEW bt, Len(ss) \in Nat, Len(ts) = Len(ss),
           \A i \in 1..Len(ss) : Len(ts[i]) = Len(ss[i]),
           Places(c, ss, at), Places(d, ts, bt), NEW m \in 1..Len(ss)
    PROVE  at[m] = bt[m]
<1> DEFINE T == {k \in 1..Len(ss) : at[k] # bt[k]}
<1>1. SUFFICES ASSUME T # {} PROVE FALSE
  OBVIOUS
<1>2. PICK k \in T : \A y \in T : k <= y
  <2>1. T \subseteq Nat
    OBVIOUS
  <2> HIDE DEF T
  <2> QED
    BY <2>1, <1>1, LeastExists
<1>3. /\ at[k] = IF k = 1 THEN 0 ELSE at[k - 1] + Len(ss[k - 1])
      /\ bt[k] = IF k = 1 THEN 0 ELSE bt[k - 1] + Len(ts[k - 1])
  BY <1>2 DEF Places
<1>4. k # 1 => k - 1 \in 1..Len(ss) /\ k - 1 \notin T
  BY <1>2
<1> QED
  BY <1>2, <1>3, <1>4

LEMMA TwoBlocks ==
    ASSUME NEW S, NEW seqs \in Seq(Seq(S)), \A i \in 1..Len(seqs) : Len(seqs[i]) = 2
    PROVE  LET chain == FlattenSeq(seqs)
           IN  /\ chain \in Seq(S) /\ Len(chain) = 2 * Len(seqs)
               /\ \A i \in 1..Len(seqs) : \A j \in 1..2 : chain[2 * (i - 1) + j] = seqs[i][j]
               /\ \A p \in 1..Len(chain) :
                     \E i \in 1..Len(seqs) : \E j \in 1..2 : p = 2 * (i - 1) + j
<1> DEFINE chain == FlattenSeq(seqs)
           n == Len(seqs)
<1>1. n \in Nat
  BY LenProperties
<1>2. chain \in Seq(S) /\ \E at : Places(chain, seqs, at)
  BY FlattenPlaces
<1>3. PICK at : Places(chain, seqs, at)
  BY <1>2
<1> HIDE DEF chain
<1> DEFINE T == {k \in 1..n : at[k] # 2 * (k - 1)}
<1>4. ASSUME T # {} PROVE FALSE
  <2>1. PICK k \in T : \A y \in T : k <= y
    <3>1. T \subseteq Nat
      BY <1>1
    <3> HIDE DEF T
    <3> QED
      BY <3>1, <1>4, LeastExists
  <2>2. k \in 1..n /\ at[k] # 2 * (k - 1)
    OBVIOUS
  <2>3. at[k] = IF k = 1 THEN 0 ELSE at[k - 1] + Len(seqs[k - 1])
    BY <1>3, <2>2 DEF Places
  <2>4. CASE k = 1
    BY <2>2, <2>3, <2>4
  <2>5. CASE k # 1
    <3>1. k - 1 \in 1..n /\ k - 1 \notin T
      BY <1>1, <2>1, <2>2, <2>5
    <3>2. at[k - 1] = 2 * ((k - 1) - 1) /\ Len(seqs[k - 1]) = 2
      BY <3>1
    <3> HIDE DEF T
    <3> QED
      BY <1>1, <2>2, <2>3, <2>5, <3>2
  <2> QED
    BY <2>4, <2>5
<1>5. \A k \in 1..n : at[k] = 2 * (k - 1)
  BY <1>4
<1>6. /\ Len(chain) \in Nat
      /\ \A i \in 1..n : \A j \in 1..2 :
            2 * (i - 1) + j <= Len(chain) /\ chain[2 * (i - 1) + j] = seqs[i][j]
      /\ \A p \in 1..Len(chain) : \E i \in 1..n : \E j \in 1..2 : p = 2 * (i - 1) + j
  <2>1. /\ Len(chain) \in Nat
        /\ \A i \in 1..n : \A j \in 1..Len(seqs[i]) :
              at[i] + j <= Len(chain) /\ chain[at[i] + j] = seqs[i][j]
        /\ \A p \in 1..Len(chain) : \E i \in 1..n : \E j \in 1..Len(seqs[i]) : p = at[i] + j
    BY <1>3 DEF Places
  <2>2. \A i \in 1..n : Len(seqs[i]) = 2
    OBVIOUS
  <2> HIDE DEF n, T
  <2>3. ASSUME NEW i \in 1..n, NEW j \in 1..2
        PROVE  2 * (i - 1) + j <= Len(chain) /\ chain[2 * (i - 1) + j] = seqs[i][j]
    <3>1. at[i] = 2 * (i - 1) /\ Len(seqs[i]) = 2
      BY <1>5, <2>2
    <3>2. at[i] + j <= Len(chain) /\ chain[at[i] + j] = seqs[i][j]
      BY <3>1, <2>1
    <3> QED
      BY <3>1, <3>2
  <2>4. ASSUME NEW p \in 1..Len(chain) PROVE \E i \in 1..n : \E j \in 1..2 : p = 2 * (i - 1) + j
    <3>1. PICK i \in 1..n : \E j \in 1..Len(seqs[i]) : p = at[i] + j
      BY <2>1
    <3>2. at[i] = 2 * (i - 1) /\ Len(seqs[i]) = 2
      BY <1>5, <2>2
    <3> QED
      BY <3>1, <3>2
  <2> QED
    BY <2>1, <2>3, <2>4
<1>7. Len(chain) = 2 * n
  <2>1. n # 0 => 2 * n <= Len(chain)
    <3>1. n # 0 => (n \in 1..n /\ 2 * (n - 1) + 2 = 2 * n)
      BY <1>1
    <3> QED
      BY <3>1, <1>6
  <2>2. Len(chain) # 0 => Len(chain) <= 2 * n
    <3>1. Len(chain) # 0 => Len(chain) \in 1..Len(chain)
      BY <1>6
    <3>2. \A i \in 1..n : \A j \in 1..2 : 2 * (i - 1) + j <= 2 * n
      BY <1>1
    <3> QED
      BY <3>1, <3>2, <1>6
  <2> QED
    BY <1>1, <1>6, <2>1, <2>2
<1> HIDE DEF n
<1> QED
  BY <1>2, <1>6, <1>7 DEF chain, n

-----------------------------------------------------------------------------
(***************************************************************************)
(* The rules of a mapping before its DNAT rule, and their tags.            *)
(***************************************************************************)
Guarding(c, t, S) ==
    /\ c \in Seq(S) /\ t \in Seq({NoTag}) /\ Len(c) = Len(t)
    /\ \A j \in 1..Len(c) : c[j].kind # "dnat" /\ t[j] = NoTag

LEMMA GuardingOne ==
    ASSUME NEW S, NEW c, NEW rule \in S, rule.kind # "dnat"
    PROVE  Guarding(When(c, rule), IF c THEN <<NoTag>> ELSE <<>>, S)
<1>1. CASE c
  <2>1. When(c, rule) = <<rule>>
    BY <1>1 DEF When
  <2>2. /\ <<rule>> \in Seq(S) /\ Len(<<rule>>) = 1 /\ <<rule>>[1] = rule
        /\ <<NoTag>> \in Seq({NoTag}) /\ Len(<<NoTag>>) = 1 /\ <<NoTag>>[1] = NoTag
    OBVIOUS
  <2>3. Guarding(<<rule>>, <<NoTag>>, S)
    BY <2>2 DEF Guarding
  <2> QED
    BY <1>1, <2>1, <2>3
<1>2. CASE ~c
  <2>1. When(c, rule) = <<>>
    BY <1>2 DEF When
  <2> QED
    BY <1>2, <2>1 DEF Guarding
<1> QED
  BY <1>1, <1>2

LEMMA GuardingMore ==
    ASSUME NEW S, NEW a, NEW b, NEW s, NEW t, Guarding(a, s, S), Guarding(b, t, S)
    PROVE  Guarding(a \o b, s \o t, S)
<1>1. /\ a \in Seq(S) /\ b \in Seq(S) /\ s \in Seq({NoTag}) /\ t \in Seq({NoTag})
      /\ Len(a) = Len(s) /\ Len(b) = Len(t)
      /\ \A j \in 1..Len(a) : a[j].kind # "dnat"
      /\ \A j \in 1..Len(b) : b[j].kind # "dnat"
  BY DEF Guarding
<1>2. Len(a) \in Nat /\ Len(b) \in Nat
  BY <1>1, LenProperties
<1>3. /\ a \o b \in Seq(S) /\ Len(a \o b) = Len(a) + Len(b)
      /\ \A i \in 1..(Len(a) + Len(b)) : (a \o b)[i] = IF i <= Len(a) THEN a[i] ELSE b[i - Len(a)]
  <2>1. a \in Seq(S) /\ b \in Seq(S)
    BY <1>1
  <2> QED
    BY <2>1, ConcatProperties
<1>4. s \o t \in Seq({NoTag}) /\ Len(s \o t) = Len(s) + Len(t)
  BY <1>1, ConcatProperties
<1>5. \A i \in 1..(Len(s) + Len(t)) : (s \o t)[i] \in {NoTag}
  <2> DEFINE u == s \o t
  <2> HIDE DEF u
  <2>1. u \in Seq({NoTag}) /\ Len(u) = Len(s) + Len(t)
    BY <1>4 DEF u
  <2>2. \A i \in 1..Len(u) : u[i] \in {NoTag}
    BY <2>1, ElementOfSeq
  <2> QED
    BY <2>1, <2>2 DEF u
<1>6. ASSUME NEW j \in 1..(Len(a) + Len(b)) PROVE (a \o b)[j].kind # "dnat"
  <2>1. CASE j <= Len(a)
    <3>1. (a \o b)[j] = a[j] /\ j \in 1..Len(a)
      BY <2>1, <1>2, <1>3
    <3> QED
      BY <3>1, <1>1
  <2>2. CASE ~(j <= Len(a))
    <3>1. (a \o b)[j] = b[j - Len(a)] /\ j - Len(a) \in 1..Len(b)
      BY <2>2, <1>2, <1>3
    <3> QED
      BY <3>1, <1>1
  <2> QED
    BY <2>1, <2>2
<1> DEFINE c == a \o b
           u == s \o t
<1> HIDE DEF c, u
<1>7. /\ c \in Seq(S) /\ u \in Seq({NoTag}) /\ Len(c) = Len(u)
      /\ \A j \in 1..Len(c) : c[j].kind # "dnat" /\ u[j] = NoTag
  BY <1>1, <1>3, <1>4, <1>5, <1>6 DEF c, u
<1> QED
  BY <1>7 DEF Guarding, c, u

(***************************************************************************)
(* A mapping has its DNAT rule, with its tag, last, and no other rule with *)
(* a tag; expectedNatTags counts as many rules as renderRules renders.     *)
(***************************************************************************)
Block(c, t, r) ==
    /\ Len(c) \in Nat \ {0} /\ Len(t) = Len(c)
    /\ c[Len(c)] = DnatRule(r) /\ t[Len(c)] = ActiveTag(r)
    /\ \A j \in 1..(Len(c) - 1) : c[j].kind # "dnat" /\ t[j] = NoTag

LEMMA MappingBlock ==
    ASSUME NEW r, NEW g, \A k, l \in r.policy : k = l
    PROVE  /\ Block(MappingRules(r, g), MappingTags(r, g), r)
           /\ MappingTags(r, g) \in Seq({NoTag, ActiveTag(r)})
<1> DEFINE e == EffectiveGuards(r, g)
           S == RulesOf(r, e)
           s1 == When(r.policy # {}, AclRule(r))
           s2 == When(e.psRate > 0, PerSourceRule(r, e))
           s3 == When(e.rate > 0, AggregateRule(r, e))
           s4 == When(e.maxConn > 0, ConnlimitRule(r, e))
           t1 == IF r.policy # {} THEN <<NoTag>> ELSE <<>>
           t2 == IF e.psRate > 0 THEN <<NoTag>> ELSE <<>>
           t3 == IF e.rate > 0 THEN <<NoTag>> ELSE <<>>
           t4 == IF e.maxConn > 0 THEN <<NoTag>> ELSE <<>>
<1>1. MappingRules(r, g) = (((s1 \o s2) \o s3) \o s4) \o <<DnatRule(r)>>
  BY AclRulesAre, Zenon DEF MappingRules, PerSourceRules, PerSourceRule, AggregateRules,
     AggregateRule, ConnlimitRules, ConnlimitRule
<1>2. MappingTags(r, g) = (((t1 \o t2) \o t3) \o t4) \o <<ActiveTag(r)>>
  BY Zenon DEF MappingTags
<1>3. /\ AclRule(r) \in S /\ PerSourceRule(r, e) \in S /\ AggregateRule(r, e) \in S
      /\ ConnlimitRule(r, e) \in S /\ DnatRule(r) \in S
  BY DEF RulesOf
<1>4. /\ AclRule(r).kind # "dnat" /\ PerSourceRule(r, e).kind # "dnat"
      /\ AggregateRule(r, e).kind # "dnat" /\ ConnlimitRule(r, e).kind # "dnat"
  BY DEF AclRule, PerSourceRule, AggregateRule, ConnlimitRule, NatRule
<1> HIDE DEF S, e
<1>5. Guarding(s1, t1, S) /\ Guarding(s2, t2, S) /\ Guarding(s3, t3, S) /\ Guarding(s4, t4, S)
  BY <1>3, <1>4, GuardingOne
<1> HIDE DEF s1, s2, s3, s4, t1, t2, t3, t4
<1>6. Guarding(s1 \o s2, t1 \o t2, S)
  BY <1>5, GuardingMore
<1>7. Guarding((s1 \o s2) \o s3, (t1 \o t2) \o t3, S)
  BY <1>5, <1>6, GuardingMore
<1>8. Guarding(((s1 \o s2) \o s3) \o s4, ((t1 \o t2) \o t3) \o t4, S)
  BY <1>5, <1>7, GuardingMore
<1> DEFINE a == ((s1 \o s2) \o s3) \o s4
           u == ((t1 \o t2) \o t3) \o t4
<1> HIDE DEF a, u
<1>9. /\ a \in Seq(S) /\ u \in Seq({NoTag}) /\ Len(a) = Len(u)
      /\ \A j \in 1..Len(a) : a[j].kind # "dnat" /\ u[j] = NoTag
  BY <1>8 DEF Guarding, a, u
<1>10. Len(a) \in Nat
  BY <1>9, LenProperties
<1> DEFINE c == a \o <<DnatRule(r)>>
           t == u \o <<ActiveTag(r)>>
           U == {NoTag, ActiveTag(r)}
<1>11. /\ Len(c) = Len(a) + 1 /\ c[Len(a) + 1] = DnatRule(r)
       /\ \A j \in 1..Len(a) : c[j] = a[j]
  <2>1. <<DnatRule(r)>> \in Seq(S) /\ Len(<<DnatRule(r)>>) = 1 /\ <<DnatRule(r)>>[1] = DnatRule(r)
    BY <1>3
  <2>2. /\ Len(c) = Len(a) + Len(<<DnatRule(r)>>)
        /\ \A i \in 1..(Len(a) + Len(<<DnatRule(r)>>)) :
              c[i] = IF i <= Len(a) THEN a[i] ELSE <<DnatRule(r)>>[i - Len(a)]
    BY <1>9, <2>1, ConcatProperties
  <2> HIDE DEF c
  <2> QED
    BY <2>1, <2>2, <1>10
<1>12. /\ Len(t) = Len(u) + 1 /\ t[Len(u) + 1] = ActiveTag(r) /\ t \in Seq(U)
       /\ \A j \in 1..Len(u) : t[j] = u[j]
  <2>1. /\ <<ActiveTag(r)>> \in Seq(U) /\ Len(<<ActiveTag(r)>>) = 1
        /\ <<ActiveTag(r)>>[1] = ActiveTag(r)
    OBVIOUS
  <2>2. u \in Seq(U)
    <3>1. {NoTag} \subseteq U
      OBVIOUS
    <3> HIDE DEF U
    <3> QED
      BY <3>1, <1>9, SeqMonotonic
  <2>3. /\ t \in Seq(U) /\ Len(t) = Len(u) + Len(<<ActiveTag(r)>>)
        /\ \A i \in 1..(Len(u) + Len(<<ActiveTag(r)>>)) :
              t[i] = IF i <= Len(u) THEN u[i] ELSE <<ActiveTag(r)>>[i - Len(u)]
    <3> HIDE DEF U
    <3> QED
      BY <2>1, <2>2, ConcatProperties
  <2> HIDE DEF t, U
  <2> QED
    BY <2>1, <2>3, <1>9, <1>10
<1> HIDE DEF c, t
<1>13. Block(c, t, r)
  BY <1>9, <1>10, <1>11, <1>12 DEF Block
<1>14. MappingRules(r, g) = c /\ MappingTags(r, g) = t
  BY <1>1, <1>2 DEF c, t, a, u
<1> QED
  BY <1>12, <1>13, <1>14


(***************************************************************************)
(* The nat chain of a plan and its tags: the DNAT rule of the i-th mapping *)
(* is at end[i], in the order of the mappings, and no other rule is one.   *)
(***************************************************************************)
Rendered(chain, tags, rules, end) ==
    /\ Len(chain) \in Nat /\ DOMAIN chain = 1..Len(chain)
    /\ \A i \in 1..Len(rules) : /\ end[i] \in 1..Len(chain)
                                /\ chain[end[i]] = DnatRule(rules[i])
                                /\ tags[end[i]] = ActiveTag(rules[i])
    /\ \A i, k \in 1..Len(rules) : i < k => end[i] < end[k]
    /\ \A p \in 1..Len(chain) :
          (\E i \in 1..Len(rules) : p = end[i]) \/ (chain[p].kind # "dnat" /\ tags[p] = NoTag)

LEMMA NatChainRendered ==
    ASSUME NEW rules, rules \in Seq(ToSet(rules)), NEW g,
           \A r \in ToSet(rules) : \A k, l \in r.policy : k = l
    PROVE  \E end : Rendered(RenderRules(rules, g), ExpectedNatTags(rules, g), rules, end)
<1> DEFINE n == Len(rules)
           ss == [i \in DOMAIN rules |-> MappingRules(rules[i], g)]
           ts == [i \in DOMAIN rules |-> MappingTags(rules[i], g)]
           S == UNION {RulesOf(rules[i], EffectiveGuards(rules[i], g)) : i \in DOMAIN rules}
           U == UNION {{NoTag, ActiveTag(rules[i])} : i \in DOMAIN rules}
           chain == RenderRules(rules, g)
           tags == ExpectedNatTags(rules, g)
<1>1. n \in Nat /\ DOMAIN rules = 1..n
  BY LenProperties
<1>2. ASSUME NEW i \in 1..n
      PROVE  /\ ss[i] \in Seq(S) /\ ts[i] \in Seq(U) /\ Block(ss[i], ts[i], rules[i])
  <2> DEFINE r == rules[i]
             R == RulesOf(r, EffectiveGuards(r, g))
             V == {NoTag, ActiveTag(r)}
  <2>1. \A k, l \in r.policy : k = l
    BY <1>1 DEF ToSet
  <2>2. ss[i] = MappingRules(r, g) /\ ts[i] = MappingTags(r, g)
    BY <1>1
  <2>3. R \subseteq S /\ V \subseteq U
    BY <1>1
  <2> HIDE DEF r, R, V, S, U, ss, ts
  <2>4. MappingRules(r, g) \in Seq(R)
    BY <2>1, MappingRulesType DEF R
  <2>5. Block(MappingRules(r, g), MappingTags(r, g), r) /\ MappingTags(r, g) \in Seq(V)
    BY <2>1, MappingBlock DEF V
  <2>6. ss[i] \in Seq(S) /\ ts[i] \in Seq(U)
    BY <2>2, <2>3, <2>4, <2>5, SeqMonotonic
  <2> QED
    BY <2>2, <2>5, <2>6 DEF r
<1>3. /\ ss \in Seq(Seq(S)) /\ Len(ss) = n
      /\ ts \in Seq(Seq(U)) /\ Len(ts) = n
  <2>1. ss \in [1..n -> Seq(S)] /\ ts \in [1..n -> Seq(U)] /\ DOMAIN ss = 1..n /\ DOMAIN ts = 1..n
    BY <1>1, <1>2
  <2> HIDE DEF ss, ts, S, U, n
  <2>2. ss \in Seq(Seq(S)) /\ ts \in Seq(Seq(U))
    BY <2>1, <1>1, SeqDef
  <2>3. /\ Len(ss) \in Nat /\ DOMAIN ss = 1..Len(ss)
        /\ Len(ts) \in Nat /\ DOMAIN ts = 1..Len(ts)
    BY <2>2, LenProperties
  <2> QED
    BY <2>1, <2>2, <2>3, <1>1
<1>4. chain = FlattenSeq(ss) /\ tags = FlattenSeq(ts)
  BY DEF RenderRules, ExpectedNatTags
<1> HIDE DEF ss, ts, S, U, chain, tags, n
<1>5. chain \in Seq(S) /\ \E at : Places(chain, ss, at)
  BY <1>3, <1>4, FlattenPlaces
<1>6. PICK at : Places(chain, ss, at)
  BY <1>5
<1>7. PICK bt : Places(tags, ts, bt)
  BY <1>3, <1>4, FlattenPlaces
<1>8. /\ \A i \in 1..n : Len(ss[i]) \in Nat \ {0} /\ Len(ts[i]) = Len(ss[i])
  BY <1>2 DEF Block
<1>9. \A i \in 1..n : at[i] = bt[i]
  <2>1. /\ Len(ss) \in Nat /\ Len(ts) = Len(ss)
        /\ \A i \in 1..Len(ss) : Len(ts[i]) = Len(ss[i])
    BY <1>1, <1>3, <1>8
  <2>2. \A i \in 1..Len(ss) : at[i] = bt[i]
    BY <2>1, <1>6, <1>7, SamePlaces
  <2> QED
    BY <2>2, <1>3
<1>10. Len(chain) \in Nat /\ DOMAIN chain = 1..Len(chain)
  BY <1>5, LenProperties
<1>11. /\ \A i \in 1..n : at[i] \in Nat
       /\ \A i, k \in 1..n : i < k => at[i] + Len(ss[i]) <= at[k]
       /\ \A i \in 1..n : \A j \in 1..Len(ss[i]) :
             at[i] + j <= Len(chain) /\ chain[at[i] + j] = ss[i][j]
       /\ \A p \in 1..Len(chain) : \E i \in 1..n : \E j \in 1..Len(ss[i]) : p = at[i] + j
  <2>1. Len(ss) = n
    BY <1>3
  <2>2. at \in [1..Len(ss) -> Nat]
    BY <1>6 DEF Places
  <2>3. \A i, k \in 1..Len(ss) : i < k => at[i] + Len(ss[i]) <= at[k]
    BY <1>6 DEF Places
  <2>4. \A i \in 1..Len(ss) : \A j \in 1..Len(ss[i]) :
            at[i] + j <= Len(chain) /\ chain[at[i] + j] = ss[i][j]
    BY <1>6 DEF Places
  <2>5. \A p \in 1..Len(chain) : \E i \in 1..Len(ss) : \E j \in 1..Len(ss[i]) : p = at[i] + j
    BY <1>6, Zenon DEF Places
  <2> QED
    BY <2>1, <2>2, <2>3, <2>4, <2>5
<1> DEFINE end == [i \in 1..n |-> at[i] + Len(ss[i])]
<1>12. \A i \in 1..n : \A j \in 1..Len(ss[i]) : tags[at[i] + j] = ts[i][j]
  <2>1. \A i \in 1..n : \A j \in 1..Len(ts[i]) : tags[bt[i] + j] = ts[i][j]
    BY <1>3, <1>7 DEF Places
  <2> QED
    BY <2>1, <1>8, <1>9
<1>13. ASSUME NEW i \in 1..n
       PROVE  /\ end[i] \in 1..Len(chain)
              /\ chain[end[i]] = DnatRule(rules[i]) /\ tags[end[i]] = ActiveTag(rules[i])
  <2>1. Len(ss[i]) \in 1..Len(ss[i]) /\ Block(ss[i], ts[i], rules[i])
    BY <1>2, <1>8
  <2>2. end[i] = at[i] + Len(ss[i]) /\ at[i] \in Nat
    BY <1>11
  <2>3. /\ at[i] + Len(ss[i]) <= Len(chain) /\ chain[at[i] + Len(ss[i])] = ss[i][Len(ss[i])]
        /\ tags[at[i] + Len(ss[i])] = ts[i][Len(ss[i])]
    BY <2>1, <1>11, <1>12
  <2> HIDE DEF end
  <2> QED
    BY <2>1, <2>2, <2>3, <1>10 DEF Block
<1>14. ASSUME NEW i \in 1..n, NEW k \in 1..n, i < k PROVE end[i] < end[k]
  <2>1. /\ end[i] = at[i] + Len(ss[i]) /\ end[k] = at[k] + Len(ss[k]) /\ at[i] \in Nat
        /\ at[k] \in Nat /\ at[i] + Len(ss[i]) <= at[k]
        /\ Len(ss[i]) \in Nat /\ Len(ss[k]) \in Nat /\ Len(ss[k]) # 0
    BY <1>8, <1>11, <1>14
  <2> HIDE DEF end
  <2> QED
    BY <2>1
<1>15. ASSUME NEW p \in 1..Len(chain)
       PROVE  (\E i \in 1..n : p = end[i]) \/ (chain[p].kind # "dnat" /\ tags[p] = NoTag)
  <2>1. PICK i \in 1..n : \E j \in 1..Len(ss[i]) : p = at[i] + j
    BY <1>11
  <2>2. PICK j \in 1..Len(ss[i]) : p = at[i] + j
    BY <2>1
  <2>3. CASE j = Len(ss[i])
    <3>1. p = end[i]
      BY <2>2, <2>3
    <3> QED
      BY <3>1
  <2>4. CASE j # Len(ss[i])
    <3>1. j \in 1..(Len(ss[i]) - 1)
      BY <2>4, <1>8
    <3>2. ss[i][j].kind # "dnat" /\ ts[i][j] = NoTag
      BY <3>1, <1>2 DEF Block
    <3>3. chain[p] = ss[i][j] /\ tags[p] = ts[i][j]
      BY <2>2, <1>11, <1>12
    <3> QED
      BY <3>2, <3>3
  <2> QED
    BY <2>3, <2>4
<1> HIDE DEF end
<1>16. Rendered(chain, tags, rules, end)
  BY <1>10, <1>13, <1>14, <1>15 DEF Rendered, n
<1> QED
  BY <1>16 DEF chain, tags

(***************************************************************************)
(* The tags ApplyManaged gives, by counting DNAT rules, are the tags the   *)
(* readback expects, by counting the rules of each mapping.                *)
(***************************************************************************)
LEMMA TagsAgree ==
    ASSUME NEW chain, NEW tags, NEW rules, NEW end, Len(rules) \in Nat,
           Rendered(chain, tags, rules, end), NEW p \in DOMAIN chain
    PROVE  Tagged(chain, rules)[p] = tags[p]
<1> DEFINE n == Len(rules)
           D(q) == {j \in 1..q : chain[j].kind = "dnat"}
<1>1. /\ Len(chain) \in Nat /\ DOMAIN chain = 1..Len(chain)
      /\ \A i \in 1..n : /\ end[i] \in 1..Len(chain)
                         /\ chain[end[i]] = DnatRule(rules[i])
                         /\ tags[end[i]] = ActiveTag(rules[i])
      /\ \A i, k \in 1..n : i < k => end[i] < end[k]
      /\ \A q \in 1..Len(chain) :
            (\E i \in 1..n : q = end[i]) \/ (chain[q].kind # "dnat" /\ tags[q] = NoTag)
  BY DEF Rendered
<1>2. Tagged(chain, rules)[p] =
        IF chain[p].kind = "dnat" THEN ActiveTag(rules[Cardinality(D(p))]) ELSE NoTag
  BY Zenon DEF Tagged
<1>3. \A i \in 1..n : chain[end[i]].kind = "dnat"
  <2>1. \A r : DnatRule(r).kind = "dnat"
    BY DEF DnatRule, NatRule
  <2>2. \A i \in 1..n : chain[end[i]] = DnatRule(rules[i])
    BY <1>1
  <2> HIDE DEF n, D
  <2> QED
    BY <2>1, <2>2
<1>4. CASE \E i \in 1..n : p = end[i]
  <2>1. PICK i \in 1..n : p = end[i]
    BY <1>4
  <2> DEFINE b == [x \in 1..i |-> end[x]]
  <2>2. i \in Nat /\ \A x \in 1..i : x \in 1..n
    OBVIOUS
  <2>3. ASSUME NEW x \in 1..i PROVE end[x] \in D(p)
    <3>1. x \in 1..n /\ end[x] \in 1..Len(chain) /\ p \in 1..Len(chain)
      BY <2>1, <1>1
    <3>2. end[x] <= p
      <4>1. CASE x = i
        BY <4>1, <2>1, <3>1
      <4>2. CASE x # i
        <5>1. x < i
          BY <4>2
        <5> QED
          BY <5>1, <3>1, <2>1, <1>1
      <4> QED
        BY <4>1, <4>2
    <3> QED
      BY <3>1, <3>2, <1>3
  <2>4. ASSUME NEW q \in D(p) PROVE \E x \in 1..i : q = end[x]
    <3>1. q \in 1..Len(chain) /\ q <= p /\ chain[q].kind = "dnat"
      BY <2>1, <1>1
    <3>2. PICK x \in 1..n : q = end[x]
      BY <3>1, <1>1
    <3>3. x <= i
      <4>1. SUFFICES ASSUME i < x PROVE FALSE
        OBVIOUS
      <4>2. end[i] < end[x]
        BY <4>1, <1>1
      <4>3. end[i] \in 1..Len(chain) /\ end[x] \in 1..Len(chain)
        BY <1>1
      <4> HIDE DEF n, D
      <4> QED
        BY <4>2, <4>3, <3>1, <3>2, <2>1, <1>1
    <3>4. x \in 1..i
      BY <3>3
    <3> QED
      BY <3>2, <3>4
  <2>5. \A x, y \in 1..i : x # y => end[x] # end[y]
    <3>1. ASSUME NEW x \in 1..i, NEW y \in 1..i, x < y PROVE end[x] # end[y]
      <4>1. x \in 1..n /\ y \in 1..n
        OBVIOUS
      <4>2. end[x] < end[y] /\ end[x] \in 1..Len(chain) /\ end[y] \in 1..Len(chain)
        BY <4>1, <3>1, <1>1
      <4> QED
        BY <4>2
    <3>2. ASSUME NEW x \in 1..i, NEW y \in 1..i, x # y PROVE end[x] # end[y]
      <4>1. x < y \/ y < x
        BY <3>2
      <4> QED
        BY <4>1, <3>1
    <3> QED
      BY <3>2
  <2> HIDE DEF D
  <2>6. b \in Bijection(1..i, D(p))
    BY <2>3, <2>4, <2>5 DEF Bijection, Injection, Surjection, IsInjective
  <2>7. Cardinality(D(p)) = i
    <3>1. ExistsBijection(1..i, D(p))
      BY <2>6 DEF ExistsBijection
    <3> QED
      BY <3>1, <2>2, FS_CountingElements
  <2> QED
    BY <1>1, <1>2, <1>3, <2>1, <2>7
<1>5. CASE ~\E i \in 1..n : p = end[i]
  BY <1>1, <1>2, <1>5
<1> QED
  BY <1>4, <1>5
=============================================================================
