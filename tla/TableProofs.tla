---------------------------- MODULE TableProofs -----------------------------
(***************************************************************************)
(* Proofs about NftTable for any number of mappings, retirements and       *)
(* edits: what the agent builds passes its own readback, and what passes   *)
(* the readback does what the agent applied.                               *)
(***************************************************************************)
EXTENDS NftTable, ChainLemmas

(***************************************************************************)
(* Sequences, with the set of their own elements as their type.            *)
(***************************************************************************)
LEMMA SeqIntro ==
    ASSUME NEW n \in Nat, NEW S, NEW s \in [1..n -> S]
    PROVE  s \in Seq(S) /\ Len(s) = n /\ DOMAIN s = 1..n
<1>1. s \in Seq(S)
  BY SeqDef
<1>2. Len(s) \in Nat /\ DOMAIN s = 1..Len(s) /\ DOMAIN s = 1..n
  BY <1>1, LenProperties
<1> QED
  BY <1>1, <1>2

LEMMA OwnType ==
    ASSUME NEW n \in Nat, NEW s, s = [i \in 1..n |-> s[i]]
    PROVE  s \in Seq(ToSet(s)) /\ Len(s) = n /\ DOMAIN s = 1..n
<1> DEFINE S == ToSet(s)
<1>1. DOMAIN s = 1..n
  OBVIOUS
<1>2. \A i \in 1..n : s[i] \in S
  BY <1>1 DEF ToSet
<1> HIDE DEF S
<1>3. s \in [1..n -> S]
  BY <1>2
<1>4. s \in Seq(S)
  BY <1>3, SeqDef
<1>5. Len(s) \in Nat /\ DOMAIN s = 1..Len(s)
  BY <1>4, LenProperties
<1> QED
  BY <1>1, <1>4, <1>5 DEF S

LEMMA AsOwnType ==
    ASSUME NEW S, NEW s \in Seq(S)
    PROVE  s \in Seq(ToSet(s)) /\ s = [i \in 1..Len(s) |-> s[i]] /\ Len(s) \in Nat /\ DOMAIN s = 1..Len(s)
<1>1. Len(s) \in Nat /\ DOMAIN s = 1..Len(s) /\ s = [i \in 1..Len(s) |-> s[i]]
  BY LenProperties, SeqDef
<1> QED
  BY <1>1, OwnType

LEMMA Appended ==
    ASSUME NEW a, NEW b, a \in Seq(ToSet(a)), b \in Seq(ToSet(b))
    PROVE  /\ a \o b \in Seq(ToSet(a \o b))
           /\ Len(a \o b) = Len(a) + Len(b) /\ Len(a) \in Nat /\ Len(b) \in Nat
           /\ DOMAIN (a \o b) = 1..(Len(a) + Len(b))
           /\ \A i \in 1..Len(a) : (a \o b)[i] = a[i]
           /\ \A i \in 1..Len(b) : (a \o b)[Len(a) + i] = b[i]
<1> DEFINE S == ToSet(a) \cup ToSet(b)
           c == a \o b
<1>1. ToSet(a) \subseteq S /\ ToSet(b) \subseteq S
  OBVIOUS
<1> HIDE DEF S
<1>2. a \in Seq(S) /\ b \in Seq(S)
  BY <1>1, SeqMonotonic
<1>3. Len(a) \in Nat /\ Len(b) \in Nat
  BY <1>2, LenProperties
<1>4. /\ c \in Seq(S) /\ Len(c) = Len(a) + Len(b)
      /\ \A i \in 1..(Len(a) + Len(b)) : c[i] = IF i <= Len(a) THEN a[i] ELSE b[i - Len(a)]
  BY <1>2, ConcatProperties
<1> HIDE DEF c
<1>5. c \in Seq(ToSet(c)) /\ DOMAIN c = 1..Len(c)
  BY <1>4, AsOwnType
<1> QED
  BY <1>3, <1>4, <1>5 DEF c

-----------------------------------------------------------------------------
(***************************************************************************)
(* A chain of pairs, one rule for each direction.                          *)
(***************************************************************************)
Pairs(c, ss, n) ==
    /\ c \in Seq(ToSet(c)) /\ Len(c) = 2 * n /\ DOMAIN c = 1..(2 * n)
    /\ \A i \in 1..n : \A j \in 1..2 : c[2 * (i - 1) + j] = ss[i][j]
    /\ \A p \in 1..(2 * n) : \E i \in 1..n : \E j \in 1..2 : p = 2 * (i - 1) + j

InPairs(ss, n) == ss = [i \in 1..n |-> [d \in 1..2 |-> ss[i][d]]]

LEMMA PairsPlaced ==
    ASSUME NEW n \in Nat, NEW ss, InPairs(ss, n)
    PROVE  Pairs(FlattenSeq(ss), ss, n)
<1> DEFINE S == {ss[i][d] : i \in 1..n, d \in 1..2}
           c == FlattenSeq(ss)
<1>1. ASSUME NEW i \in 1..n PROVE ss[i] \in Seq(S) /\ Len(ss[i]) = 2
  <2>1. ss[i] = [d \in 1..2 |-> ss[i][d]]
    BY DEF InPairs
  <2>2. \A d \in 1..2 : ss[i][d] \in S
    OBVIOUS
  <2> HIDE DEF S
  <2>3. ss[i] \in [1..2 -> S]
    BY <2>1, <2>2
  <2>4. 2 \in Nat
    OBVIOUS
  <2> QED
    BY <2>3, <2>4, SeqIntro, Zenon
<1> HIDE DEF S
<1>2. ss \in [1..n -> Seq(S)] /\ DOMAIN ss = 1..n
  <2>1. DOMAIN ss = 1..n /\ ss = [i \in 1..n |-> ss[i]]
    BY DEF InPairs
  <2>2. \A i \in 1..n : ss[i] \in Seq(S)
    BY <1>1
  <2> QED
    BY <2>1, <2>2, Zenon
<1>3. ss \in Seq(Seq(S))
  BY <1>2, SeqIntro, Zenon
<1>4. Len(ss) = n
  BY <1>2, SeqIntro, Zenon
<1>5. /\ c \in Seq(S) /\ Len(c) = 2 * Len(ss)
      /\ \A i \in 1..Len(ss) : \A j \in 1..2 : c[2 * (i - 1) + j] = ss[i][j]
      /\ \A p \in 1..Len(c) : \E i \in 1..Len(ss) : \E j \in 1..2 : p = 2 * (i - 1) + j
  <2>1. \A i \in 1..Len(ss) : Len(ss[i]) = 2
    BY <1>1, <1>4
  <2> QED
    BY <1>3, <2>1, TwoBlocks
<1> HIDE DEF c
<1>6. c \in Seq(ToSet(c)) /\ DOMAIN c = 1..Len(c)
  BY <1>5, AsOwnType
<1>7. Pairs(c, ss, n)
  BY <1>4, <1>5, <1>6 DEF Pairs
<1> QED
  BY <1>7 DEF c


-----------------------------------------------------------------------------
(***************************************************************************)
(* What the plans are.                                                     *)
(***************************************************************************)
PlanTyped(p) ==
    /\ p.rules \in Seq(ToSet(p.rules)) /\ p.rets \in Seq(ToSet(p.rets))
    /\ \A r \in ToSet(p.rules) : \A k, l \in r.policy : k = l
    /\ \A i, j \in DOMAIN p.rules :
          p.rules[i].proto = p.rules[j].proto /\ p.rules[i].port = p.rules[j].port => i = j
    /\ p.quarantine => p = QuarantinePlan

LEMMA PlansTyped ==
    ASSUME NEW p \in Plans \cup {QuarantinePlan, EmptyPlan}
    PROVE  PlanTyped(p)
<1>1. CASE p \in Plans
  BY <1>1, TableAssumption DEF PlanTyped
<1>2. CASE p \in {QuarantinePlan, EmptyPlan}
  <2>1. p.rules = <<>> /\ p.rets = <<>> /\ (p.quarantine => p = QuarantinePlan)
    BY <1>2 DEF QuarantinePlan, EmptyPlan
  <2>2. <<>> \in Seq(ToSet(<<>>)) /\ ToSet(<<>>) = {} /\ DOMAIN <<>> = {}
    <3>1. DOMAIN <<>> = {}
      OBVIOUS
    <3>2. ToSet(<<>>) = {}
      BY <3>1 DEF ToSet
    <3> QED
      BY <3>1, <3>2
  <2> QED
    BY <2>1, <2>2 DEF PlanTyped
<1> QED
  BY <1>1, <1>2

(***************************************************************************)
(* The forward chain of a plan: a pair of counting rules for each mapping, *)
(* then a pair of drop rules for each retirement.                          *)
(***************************************************************************)
ForwardShape(p, c) ==
    LET n == Len(p.rules)
        m == Len(p.rets)
    IN  /\ Len(c) = 2 * n + 2 * m /\ DOMAIN c = 1..(2 * n + 2 * m)
        /\ \A i \in 1..n : \A j \in 1..2 : c[2 * (i - 1) + j] = CountRule(p.rules[i], Directions[j])
        /\ \A i \in 1..m : \A j \in 1..2 : c[2 * n + (2 * (i - 1) + j)] = DropRule(p.rets[i], Directions[j])
        /\ \A q \in 1..(2 * n + 2 * m) :
              \/ \E i \in 1..n : \E j \in 1..2 : q = 2 * (i - 1) + j
              \/ \E i \in 1..m : \E j \in 1..2 : q = 2 * n + (2 * (i - 1) + j)

CountPairs(rules) == [i \in DOMAIN rules |-> [d \in 1..2 |-> CountRule(rules[i], Directions[d])]]
DropPairs(rets) == [i \in DOMAIN rets |-> [d \in 1..2 |-> DropRule(rets[i], Directions[d])]]
TagPairs(rets) == [i \in DOMAIN rets |-> [d \in 1..2 |-> RetirementTag(rets[i], Directions[d])]]

LEMMA ForwardParts ==
    ASSUME NEW p, PlanTyped(p)
    PROVE  /\ Len(p.rules) \in Nat /\ Len(p.rets) \in Nat
           /\ DOMAIN p.rules = 1..Len(p.rules) /\ DOMAIN p.rets = 1..Len(p.rets)
           /\ Pairs(RenderForwardRules(p.rules), CountPairs(p.rules), Len(p.rules))
           /\ Pairs(RetirementDrops(p.rets), DropPairs(p.rets), Len(p.rets))
           /\ Pairs(RetirementTags(p.rets), TagPairs(p.rets), Len(p.rets))
<1> DEFINE n == Len(p.rules)
           m == Len(p.rets)
           a == CountPairs(p.rules)
           b == DropPairs(p.rets)
           t == TagPairs(p.rets)
<1>1. n \in Nat /\ m \in Nat /\ DOMAIN p.rules = 1..n /\ DOMAIN p.rets = 1..m
  <2>1. p.rules \in Seq(ToSet(p.rules)) /\ p.rets \in Seq(ToSet(p.rets))
    BY DEF PlanTyped
  <2> QED
    BY <2>1, LenProperties
<1>2. InPairs(a, n)
  BY <1>1 DEF CountPairs, InPairs
<1>3. InPairs(b, m)
  BY <1>1 DEF DropPairs, InPairs
<1>4. InPairs(t, m)
  BY <1>1 DEF TagPairs, InPairs
<1>5. /\ RenderForwardRules(p.rules) = FlattenSeq(a)
      /\ RetirementDrops(p.rets) = FlattenSeq(b) /\ RetirementTags(p.rets) = FlattenSeq(t)
  BY DEF RenderForwardRules, RetirementDrops, RetirementTags, CountPairs, DropPairs, TagPairs
<1> HIDE DEF n, m, a, b, t
<1>6. Pairs(FlattenSeq(a), a, n) /\ Pairs(FlattenSeq(b), b, m) /\ Pairs(FlattenSeq(t), t, m)
  BY <1>1, <1>2, <1>3, <1>4, PairsPlaced
<1> QED
  BY <1>1, <1>5, <1>6 DEF n, m, a, b, t

LEMMA ForwardShaped ==
    ASSUME NEW p, PlanTyped(p)
    PROVE  ForwardShape(p, ForwardRules(p))
<1> DEFINE n == Len(p.rules)
           m == Len(p.rets)
           a == RenderForwardRules(p.rules)
           b == RetirementDrops(p.rets)
           c == a \o b
<1>1. /\ n \in Nat /\ m \in Nat /\ DOMAIN p.rules = 1..n /\ DOMAIN p.rets = 1..m
      /\ Pairs(a, CountPairs(p.rules), n) /\ Pairs(b, DropPairs(p.rets), m)
  BY ForwardParts
<1>2. /\ \A i \in 1..n : \A j \in 1..2 : CountPairs(p.rules)[i][j] = CountRule(p.rules[i], Directions[j])
      /\ \A i \in 1..m : \A j \in 1..2 : DropPairs(p.rets)[i][j] = DropRule(p.rets[i], Directions[j])
  BY <1>1 DEF CountPairs, DropPairs
<1> HIDE DEF n, m, a, b
<1>3. /\ a \in Seq(ToSet(a)) /\ Len(a) = 2 * n
      /\ \A i \in 1..n : \A j \in 1..2 : a[2 * (i - 1) + j] = CountRule(p.rules[i], Directions[j])
      /\ \A q \in 1..(2 * n) : \E i \in 1..n : \E j \in 1..2 : q = 2 * (i - 1) + j
  <2>1. a \in Seq(ToSet(a)) /\ Len(a) = 2 * n
    BY <1>1 DEF Pairs
  <2>2. \A i \in 1..n : \A j \in 1..2 : a[2 * (i - 1) + j] = CountPairs(p.rules)[i][j]
    BY <1>1 DEF Pairs
  <2>3. \A q \in 1..(2 * n) : \E i \in 1..n : \E j \in 1..2 : q = 2 * (i - 1) + j
    BY <1>1, Zenon DEF Pairs
  <2> QED
    BY <1>2, <2>1, <2>2, <2>3
<1>4. /\ b \in Seq(ToSet(b)) /\ Len(b) = 2 * m
      /\ \A i \in 1..m : \A j \in 1..2 : b[2 * (i - 1) + j] = DropRule(p.rets[i], Directions[j])
      /\ \A q \in 1..(2 * m) : \E i \in 1..m : \E j \in 1..2 : q = 2 * (i - 1) + j
  <2>1. b \in Seq(ToSet(b)) /\ Len(b) = 2 * m
    BY <1>1 DEF Pairs
  <2>2. \A i \in 1..m : \A j \in 1..2 : b[2 * (i - 1) + j] = DropPairs(p.rets)[i][j]
    BY <1>1 DEF Pairs
  <2>3. \A q \in 1..(2 * m) : \E i \in 1..m : \E j \in 1..2 : q = 2 * (i - 1) + j
    BY <1>1, Zenon DEF Pairs
  <2> QED
    BY <1>2, <2>1, <2>2, <2>3
<1>5. /\ Len(c) = 2 * n + 2 * m /\ DOMAIN c = 1..(2 * n + 2 * m)
      /\ \A i \in 1..(2 * n) : c[i] = a[i]
      /\ \A i \in 1..(2 * m) : c[2 * n + i] = b[i]
  <2>1. /\ Len(c) = Len(a) + Len(b) /\ DOMAIN c = 1..(Len(a) + Len(b))
        /\ \A i \in 1..Len(a) : c[i] = a[i]
        /\ \A i \in 1..Len(b) : c[Len(a) + i] = b[i]
    <3>1. a \in Seq(ToSet(a)) /\ b \in Seq(ToSet(b))
      BY <1>3, <1>4
    <3> QED
      BY <3>1, Appended
  <2> HIDE DEF c
  <2> QED
    BY <2>1, <1>3, <1>4
<1> HIDE DEF c
<1>6. ASSUME NEW i \in 1..n, NEW j \in 1..2 PROVE c[2 * (i - 1) + j] = CountRule(p.rules[i], Directions[j])
  <2>1. 2 * (i - 1) + j \in 1..(2 * n)
    BY <1>1
  <2> QED
    BY <2>1, <1>3, <1>5
<1>7. ASSUME NEW i \in 1..m, NEW j \in 1..2
      PROVE  c[2 * n + (2 * (i - 1) + j)] = DropRule(p.rets[i], Directions[j])
  <2>1. 2 * (i - 1) + j \in 1..(2 * m)
    BY <1>1
  <2> QED
    BY <2>1, <1>4, <1>5
<1>8. ASSUME NEW q \in 1..(2 * n + 2 * m)
      PROVE  \/ \E i \in 1..n : \E j \in 1..2 : q = 2 * (i - 1) + j
             \/ \E i \in 1..m : \E j \in 1..2 : q = 2 * n + (2 * (i - 1) + j)
  <2>1. CASE q <= 2 * n
    <3>1. q \in 1..(2 * n)
      BY <2>1, <1>1
    <3> QED
      BY <3>1, <1>3
  <2>2. CASE ~(q <= 2 * n)
    <3>1. q - 2 * n \in 1..(2 * m)
      BY <2>2, <1>1
    <3>2. PICK i \in 1..m : \E j \in 1..2 : q - 2 * n = 2 * (i - 1) + j
      BY <3>1, <1>4
    <3>3. PICK j \in 1..2 : q - 2 * n = 2 * (i - 1) + j
      BY <3>2
    <3>4. q = 2 * n + (2 * (i - 1) + j)
      BY <3>3, <1>1
    <3> QED
      BY <3>4
  <2> QED
    BY <2>1, <2>2
<1>9. c = ForwardRules(p)
  BY DEF ForwardRules, a, b, c
<1> QED
  BY <1>5, <1>6, <1>7, <1>8, <1>9 DEF ForwardShape, n, m


-----------------------------------------------------------------------------
(***************************************************************************)
(* What the agent installs, rule by rule.                                  *)
(***************************************************************************)
LEMMA NatInstalled ==
    ASSUME NEW p, PlanTyped(p)
    PROVE  LET chain == RenderRules(p.rules, Guards)
           IN  /\ NatChain(p) \in Seq(ToSet(NatChain(p)))
               /\ Len(chain) \in Nat /\ DOMAIN chain = 1..Len(chain)
               /\ Len(NatChain(p)) = Len(chain)
               /\ \A i \in DOMAIN chain : /\ NatChain(p)[i].rule = chain[i]
                                          /\ NatChain(p)[i].tag = ExpectedNatTags(p.rules, Guards)[i]
<1> DEFINE chain == RenderRules(p.rules, Guards)
           tags == ExpectedNatTags(p.rules, Guards)
           c == NatChain(p)
<1>1. p.rules \in Seq(ToSet(p.rules)) /\ \A r \in ToSet(p.rules) : \A k, l \in r.policy : k = l
  BY DEF PlanTyped
<1>2. Len(p.rules) \in Nat
  BY <1>1, LenProperties
<1>3. PICK end : Rendered(chain, tags, p.rules, end)
  <2> DEFINE rules == p.rules
  <2>1. rules \in Seq(ToSet(rules)) /\ \A r \in ToSet(rules) : \A k, l \in r.policy : k = l
    BY <1>1
  <2> HIDE DEF rules
  <2>2. \E end : Rendered(RenderRules(rules, Guards), ExpectedNatTags(rules, Guards), rules, end)
    BY <2>1, NatChainRendered
  <2> QED
    BY <2>2 DEF rules
<1>4. Len(chain) \in Nat /\ DOMAIN chain = 1..Len(chain)
  BY <1>3 DEF Rendered
<1>5. \A i \in DOMAIN chain : Tagged(chain, p.rules)[i] = tags[i]
  <2> HIDE DEF chain, tags
  <2> QED
    BY <1>2, <1>3, TagsAgree
<1>6. c = [i \in DOMAIN chain |-> [rule |-> chain[i], tag |-> Tagged(chain, p.rules)[i]]]
  BY Zenon DEF NatChain, WithTags
<1> HIDE DEF chain, tags, c
<1>7. c = [i \in 1..Len(chain) |-> c[i]]
  BY <1>4, <1>6
<1>8. c \in Seq(ToSet(c)) /\ Len(c) = Len(chain)
  BY <1>4, <1>7, OwnType
<1>9. \A i \in DOMAIN chain : c[i].rule = chain[i] /\ c[i].tag = tags[i]
  BY <1>5, <1>6
<1> QED
  BY <1>4, <1>8, <1>9 DEF chain, tags, c

LEMMA ForwardInstalled ==
    ASSUME NEW p, PlanTyped(p)
    PROVE  /\ ForwardChain(p) \in Seq(ToSet(ForwardChain(p)))
           /\ Len(ForwardChain(p)) = Len(ForwardRules(p))
           /\ \A i \in DOMAIN ForwardRules(p) :
                 /\ ForwardChain(p)[i].rule = ForwardRules(p)[i]
                 /\ ForwardChain(p)[i].tag = ForwardTags(p)[i]
<1> DEFINE a == RenderForwardRules(p.rules)
           b == RetirementDrops(p.rets)
           u == Untagged(a)
           t == RetirementTags(p.rets)
           x == WithTags(a, u)
           y == WithTags(b, t)
           n == 2 * Len(p.rules)
           m == 2 * Len(p.rets)
<1>1. /\ n \in Nat /\ m \in Nat
      /\ a \in Seq(ToSet(a)) /\ Len(a) = n /\ DOMAIN a = 1..n
      /\ b \in Seq(ToSet(b)) /\ Len(b) = m /\ DOMAIN b = 1..m
      /\ t \in Seq(ToSet(t)) /\ Len(t) = m /\ DOMAIN t = 1..m
  BY ForwardParts DEF Pairs
<1> HIDE DEF a, b, t, n, m
<1>2. u = [i \in 1..n |-> NoTag] /\ u = [i \in 1..n |-> u[i]]
  BY <1>1 DEF Untagged
<1>3. x = [i \in 1..n |-> [rule |-> a[i], tag |-> u[i]]] /\ x = [i \in 1..n |-> x[i]]
  BY <1>1 DEF WithTags
<1>4. y = [i \in 1..m |-> [rule |-> b[i], tag |-> t[i]]] /\ y = [i \in 1..m |-> y[i]]
  BY <1>1 DEF WithTags
<1> HIDE DEF u, x, y
<1>5. /\ u \in Seq(ToSet(u)) /\ Len(u) = n
      /\ x \in Seq(ToSet(x)) /\ Len(x) = n
      /\ y \in Seq(ToSet(y)) /\ Len(y) = m
  BY <1>1, <1>2, <1>3, <1>4, OwnType
<1> DEFINE f == x \o y
           c == a \o b
           v == u \o t
<1>6. /\ f \in Seq(ToSet(f)) /\ Len(f) = n + m
      /\ \A i \in 1..n : f[i] = x[i]
      /\ \A i \in 1..m : f[n + i] = y[i]
  <2>1. x \in Seq(ToSet(x)) /\ y \in Seq(ToSet(y))
    BY <1>5
  <2>2. /\ f \in Seq(ToSet(f)) /\ Len(f) = Len(x) + Len(y)
        /\ \A i \in 1..Len(x) : f[i] = x[i]
        /\ \A i \in 1..Len(y) : f[Len(x) + i] = y[i]
    BY <2>1, Appended
  <2> HIDE DEF f
  <2> QED
    BY <1>5, <2>2
<1>7. /\ Len(c) = n + m /\ DOMAIN c = 1..(n + m)
      /\ \A i \in 1..n : c[i] = a[i]
      /\ \A i \in 1..m : c[n + i] = b[i]
  BY <1>1, Appended
<1>8. /\ \A i \in 1..n : v[i] = u[i]
      /\ \A i \in 1..m : v[n + i] = t[i]
  <2>1. u \in Seq(ToSet(u)) /\ t \in Seq(ToSet(t))
    BY <1>1, <1>5
  <2>2. /\ \A i \in 1..Len(u) : v[i] = u[i]
        /\ \A i \in 1..Len(t) : v[Len(u) + i] = t[i]
    BY <2>1, Appended
  <2> HIDE DEF v
  <2> QED
    BY <1>1, <1>5, <2>2
<1>9. f = ForwardChain(p) /\ c = ForwardRules(p) /\ v = ForwardTags(p)
  BY Zenon DEF f, c, v, ForwardChain, ForwardRules, ForwardTags, a, b, u, t, x, y
<1> HIDE DEF f, c, v
<1>10. ASSUME NEW i \in 1..(n + m) PROVE f[i].rule = c[i] /\ f[i].tag = v[i]
  <2>1. CASE i <= n
    <3>1. i \in 1..n
      BY <2>1, <1>1
    <3>2. x[i].rule = a[i] /\ x[i].tag = u[i]
      BY <3>1, <1>3
    <3> QED
      BY <3>1, <3>2, <1>6, <1>7, <1>8
  <2>2. CASE ~(i <= n)
    <3> DEFINE j == i - n
    <3>1. j \in 1..m /\ i = n + j
      BY <2>2, <1>1
    <3> HIDE DEF j
    <3>2. y[j].rule = b[j] /\ y[j].tag = t[j]
      BY <3>1, <1>4
    <3>3. f[n + j] = y[j] /\ c[n + j] = b[j] /\ v[n + j] = t[j]
      BY <3>1, <1>6, <1>7, <1>8
    <3> QED
      BY <3>1, <3>2, <3>3
  <2> QED
    BY <2>1, <2>2
<1>11. /\ f \in Seq(ToSet(f)) /\ Len(f) = Len(c)
       /\ \A i \in DOMAIN c : f[i].rule = c[i] /\ f[i].tag = v[i]
  BY <1>6, <1>7, <1>10
<1> QED
  BY <1>9, <1>11

LEMMA QuarantineInstalled ==
    /\ QuarantineChain \in Seq(ToSet(QuarantineChain)) /\ Len(QuarantineChain) = 2
    /\ \A d \in 1..2 : /\ QuarantineChain[d].rule = QuarantineRule(Directions[d])
                       /\ QuarantineChain[d].tag = QuarantineTag(Directions[d])
<1>1. QuarantineChain = [d \in 1..2 |-> QuarantineChain[d]] /\ 2 \in Nat
  BY DEF QuarantineChain
<1>2. QuarantineChain \in Seq(ToSet(QuarantineChain)) /\ Len(QuarantineChain) = 2
  BY <1>1, OwnType, Zenon
<1> QED
  BY <1>2 DEF QuarantineChain

(***************************************************************************)
(* The table the agent builds passes its readback, for every plan.         *)
(***************************************************************************)
LEMMA InstalledVerifies ==
    ASSUME NEW p, PlanTyped(p)
    PROVE  IF p.quarantine THEN QuarantineReadback(Installed(p)) ELSE ManagedReadback(Installed(p), p)
<1>1. CASE p.quarantine
  <2>1. /\ Installed(p).nat = <<>> /\ Installed(p).fwd = QuarantineChain
        /\ Installed(p).sets = {} /\ Installed(p).hooks
    BY <1>1 DEF Installed
  <2>2. QuarantineReadback(Installed(p))
    BY <2>1, QuarantineInstalled DEF QuarantineReadback, SameRule
  <2> QED
    BY <1>1, <2>2
<1>2. CASE ~p.quarantine
  <2>1. /\ Installed(p).nat = NatChain(p) /\ Installed(p).fwd = ForwardChain(p)
        /\ Installed(p).sets = PerSourceSets(p.rules, Guards) /\ Installed(p).hooks
    BY <1>2 DEF Installed
  <2>2. ChainEqual(NatChain(p), RenderRules(p.rules, Guards), ExpectedNatTags(p.rules, Guards))
    BY NatInstalled DEF ChainEqual, SameRule
  <2>3. ChainEqual(ForwardChain(p), ForwardRules(p), ForwardTags(p))
    BY ForwardInstalled DEF ChainEqual, SameRule
  <2>4. ManagedReadback(Installed(p), p)
    BY <2>1, <2>2, <2>3, Zenon DEF ManagedReadback
  <2> QED
    BY <1>2, <2>4
<1> QED
  BY <1>1, <1>2


-----------------------------------------------------------------------------
(***************************************************************************)
(* Whatever somebody else does to them, the chains stay sequences.         *)
(***************************************************************************)
TableFields == {"nat", "fwd", "sets", "hooks"}

Chains(t) ==
    /\ DOMAIN t = TableFields
    /\ t.nat \in Seq(ToSet(t.nat)) /\ t.fwd \in Seq(ToSet(t.fwd))

TableInv == TypeOK /\ Chains(table)

LEMMA RemovedIsSeq ==
    ASSUME NEW s, s \in Seq(ToSet(s)), NEW i \in DOMAIN s
    PROVE  RemoveAt(s, i) \in Seq(ToSet(RemoveAt(s, i)))
<1> DEFINE S == ToSet(s)
<1>1. Len(s) \in Nat /\ DOMAIN s = 1..Len(s)
  BY LenProperties
<1>2. i \in Int /\ i >= 1 /\ i <= Len(s)
  BY <1>1
<1>3. \A j \in 1..Len(s) : s[j] \in S
  BY <1>1 DEF ToSet
<1> HIDE DEF S
<1>4. SubSeq(s, 1, i - 1) \in Seq(S)
  <2>1. \A j \in 1..(i - 1) : s[j] \in S
    BY <1>1, <1>2, <1>3
  <2>2. 1 \in Int /\ i - 1 \in Int
    BY <1>2
  <2> QED
    BY <2>1, <2>2, SubSeqProperties
<1>5. SubSeq(s, i + 1, Len(s)) \in Seq(S)
  <2>1. \A j \in (i + 1)..Len(s) : s[j] \in S
    BY <1>1, <1>2, <1>3
  <2>2. i + 1 \in Int /\ Len(s) \in Int
    BY <1>1, <1>2
  <2> QED
    BY <2>1, <2>2, SubSeqProperties
<1>6. RemoveAt(s, i) \in Seq(S)
  BY <1>4, <1>5, ConcatProperties DEF RemoveAt
<1> QED
  BY <1>6, AsOwnType

LEMMA ReplacedIsSeq ==
    ASSUME NEW s, s \in Seq(ToSet(s)), NEW i, NEW e
    PROVE  [s EXCEPT ![i] = e] \in Seq(ToSet([s EXCEPT ![i] = e]))
<1> DEFINE u == [s EXCEPT ![i] = e]
<1>1. Len(s) \in Nat /\ DOMAIN s = 1..Len(s)
  BY LenProperties
<1>2. u = [j \in 1..Len(s) |-> u[j]]
  BY <1>1
<1> HIDE DEF u
<1>3. u \in Seq(ToSet(u))
  BY <1>1, <1>2, OwnType
<1> QED
  BY <1>3 DEF u

LEMMA SwappedIsSeq ==
    ASSUME NEW s, s \in Seq(ToSet(s)), NEW i
    PROVE  Swapped(s, i) \in Seq(ToSet(Swapped(s, i)))
<1> DEFINE u == Swapped(s, i)
<1>1. Len(s) \in Nat /\ DOMAIN s = 1..Len(s)
  BY LenProperties
<1>2. u = [j \in 1..Len(s) |-> u[j]]
  BY <1>1 DEF Swapped
<1> HIDE DEF u
<1>3. u \in Seq(ToSet(u))
  BY <1>1, <1>2, OwnType
<1> QED
  BY <1>3 DEF u

LEMMA EditKeepsChains ==
    ASSUME NEW t, Chains(t), NEW w \in Edited(t)
    PROVE  Chains(w)
<1>1. DOMAIN t = TableFields /\ t.nat \in Seq(ToSet(t.nat)) /\ t.fwd \in Seq(ToSet(t.fwd))
  BY DEF Chains
<1>2. ASSUME NEW c, c \in Seq(ToSet(c)), w = [t EXCEPT !.nat = c] PROVE Chains(w)
  <2>1. DOMAIN w = TableFields /\ w.nat = c /\ w.fwd = t.fwd
    BY <1>1, <1>2 DEF TableFields
  <2> QED
    BY <1>1, <1>2, <2>1 DEF Chains
<1>3. ASSUME NEW c, c \in Seq(ToSet(c)), w = [t EXCEPT !.fwd = c] PROVE Chains(w)
  <2>1. DOMAIN w = TableFields /\ w.fwd = c /\ w.nat = t.nat
    BY <1>1, <1>3 DEF TableFields
  <2> QED
    BY <1>1, <1>3, <2>1 DEF Chains
<1>4. CASE w \in {[t EXCEPT !.nat = RemoveAt(@, i)] : i \in DOMAIN t.nat}
  <2>1. PICK i \in DOMAIN t.nat : w = [t EXCEPT !.nat = RemoveAt(t.nat, i)]
    BY <1>4
  <2> QED
    BY <1>1, <1>2, <2>1, RemovedIsSeq
<1>5. CASE w \in {[t EXCEPT !.fwd = RemoveAt(@, i)] : i \in DOMAIN t.fwd}
  <2>1. PICK i \in DOMAIN t.fwd : w = [t EXCEPT !.fwd = RemoveAt(t.fwd, i)]
    BY <1>5
  <2> QED
    BY <1>1, <1>3, <2>1, RemovedIsSeq
<1>6. CASE w \in {[t EXCEPT !.nat = Swapped(@, i)] : i \in 1..Len(t.nat) - 1}
  <2>1. PICK i \in 1..Len(t.nat) - 1 : w = [t EXCEPT !.nat = Swapped(t.nat, i)]
    BY <1>6
  <2> QED
    BY <1>1, <1>2, <2>1, SwappedIsSeq
<1>7. CASE w \in {[t EXCEPT !.fwd = Swapped(@, i)] : i \in 1..Len(t.fwd) - 1}
  <2>1. PICK i \in 1..Len(t.fwd) - 1 : w = [t EXCEPT !.fwd = Swapped(t.fwd, i)]
    BY <1>7
  <2> QED
    BY <1>1, <1>3, <2>1, SwappedIsSeq
<1>8. CASE w \in {[t EXCEPT !.fwd[i].tag = NoTag] : i \in DOMAIN t.fwd}
  <2>1. PICK i \in DOMAIN t.fwd : w = [t EXCEPT !.fwd[i].tag = NoTag]
    BY <1>8
  <2> DEFINE c == [t.fwd EXCEPT ![i] = [t.fwd[i] EXCEPT !.tag = NoTag]]
  <2>2. w = [t EXCEPT !.fwd = c]
    BY <2>1
  <2>3. c \in Seq(ToSet(c))
    BY <1>1, ReplacedIsSeq
  <2> HIDE DEF c
  <2> QED
    BY <1>3, <2>2, <2>3
<1>9. CASE w \in {[t EXCEPT !.fwd[i].rule.mark = @ + 1] :
                      i \in {j \in DOMAIN t.fwd : t.fwd[j].rule.kind = "drop"}}
  <2>1. PICK i \in DOMAIN t.fwd : w = [t EXCEPT !.fwd[i].rule.mark = @ + 1]
    BY <1>9
  <2> DEFINE e == [t.fwd[i] EXCEPT !.rule = [t.fwd[i].rule EXCEPT !.mark = @ + 1]]
             c == [t.fwd EXCEPT ![i] = e]
  <2>2. w = [t EXCEPT !.fwd = c]
    BY <2>1
  <2>3. c \in Seq(ToSet(c))
    <3> HIDE DEF e
    <3> QED
      BY <1>1, ReplacedIsSeq
  <2> HIDE DEF c
  <2> QED
    BY <1>3, <2>2, <2>3
<1>10. CASE w \in {[t EXCEPT !.nat[i].rule.port = @ + 1] : i \in DOMAIN t.nat}
  <2>1. PICK i \in DOMAIN t.nat : w = [t EXCEPT !.nat[i].rule.port = @ + 1]
    BY <1>10
  <2> DEFINE e == [t.nat[i] EXCEPT !.rule = [t.nat[i].rule EXCEPT !.port = @ + 1]]
             c == [t.nat EXCEPT ![i] = e]
  <2>2. w = [t EXCEPT !.nat = c]
    BY <2>1
  <2>3. c \in Seq(ToSet(c))
    <3> HIDE DEF e
    <3> QED
      BY <1>1, ReplacedIsSeq
  <2> HIDE DEF c
  <2> QED
    BY <1>2, <2>2, <2>3
<1>11. CASE w \in {[t EXCEPT !.sets = @ \ {s}] : s \in t.sets}
  <2>1. PICK s \in t.sets : w = [t EXCEPT !.sets = t.sets \ {s}]
    BY <1>11
  <2>2. DOMAIN w = TableFields /\ w.fwd = t.fwd /\ w.nat = t.nat
    BY <1>1, <2>1 DEF TableFields
  <2> QED
    BY <1>1, <2>2 DEF Chains
<1>12. CASE w \in {[t EXCEPT !.hooks = FALSE]}
  <2>2. DOMAIN w = TableFields /\ w.fwd = t.fwd /\ w.nat = t.nat
    BY <1>1, <1>12 DEF TableFields
  <2> QED
    BY <1>1, <2>2 DEF Chains
<1> QED
  BY <1>4, <1>5, <1>6, <1>7, <1>8, <1>9, <1>10, <1>11, <1>12 DEF Edited

LEMMA InstalledChains ==
    ASSUME NEW p, PlanTyped(p)
    PROVE  Chains(Installed(p))
<1>1. CASE p.quarantine
  <2>1. /\ DOMAIN Installed(p) = TableFields
        /\ Installed(p).nat = <<>> /\ Installed(p).fwd = QuarantineChain
    BY <1>1 DEF Installed, TableFields
  <2>2. <<>> \in Seq(ToSet(<<>>))
    OBVIOUS
  <2> QED
    BY <2>1, <2>2, QuarantineInstalled DEF Chains
<1>2. CASE ~p.quarantine
  <2>1. /\ DOMAIN Installed(p) = TableFields
        /\ Installed(p).nat = NatChain(p) /\ Installed(p).fwd = ForwardChain(p)
    BY <1>2 DEF Installed, TableFields
  <2>2. NatChain(p) \in Seq(ToSet(NatChain(p)))
    BY NatInstalled
  <2>3. ForwardChain(p) \in Seq(ToSet(ForwardChain(p)))
    BY ForwardInstalled
  <2> QED
    BY <2>1, <2>2, <2>3 DEF Chains
<1> QED
  BY <1>1, <1>2

LEMMA TableInvariance == Spec => []TableInv
<1>1. Init => TableInv
  <2>1. SUFFICES ASSUME Init PROVE TableInv
    OBVIOUS
  <2>2. plan = EmptyPlan /\ present = TRUE /\ table = Installed(plan) /\ edits = 0
    BY <2>1 DEF Init
  <2>3. plan \in Plans \cup {QuarantinePlan, EmptyPlan}
    BY <2>2
  <2>4. Chains(table)
    BY <2>2, <2>3, PlansTyped, InstalledChains
  <2>5. edits \in 0..MaxEdits
    BY <2>2, TableAssumption
  <2> QED
    BY <2>2, <2>3, <2>4, <2>5 DEF TableInv, TypeOK, Chains
<1>2. TableInv /\ [Next]_vars => TableInv'
  <2>1. SUFFICES ASSUME TableInv, [Next]_vars PROVE TableInv'
    OBVIOUS
  <2>2. /\ plan \in Plans \cup {QuarantinePlan, EmptyPlan}
        /\ present \in BOOLEAN /\ edits \in 0..MaxEdits /\ Chains(table)
    BY <2>1 DEF TableInv, TypeOK
  <2>3. ASSUME plan' \in Plans \cup {QuarantinePlan, EmptyPlan},
               present' \in BOOLEAN, edits' \in 0..MaxEdits, Chains(table')
        PROVE  TableInv'
    BY <2>3 DEF TableInv, TypeOK, Chains
  <2>4. ASSUME NEW p \in Plans \cup {QuarantinePlan, EmptyPlan}, Replace(p) PROVE TableInv'
    <3>1. plan' = p /\ present' = TRUE /\ table' = Installed(p) /\ edits' = edits
      BY <2>4 DEF Replace
    <3>2. Chains(table')
      BY <3>1, PlansTyped, InstalledChains
    <3> QED
      BY <2>2, <2>3, <3>1, <3>2
  <2>5. CASE Edit
    <3>1. /\ plan' = plan /\ present' = present /\ edits' = edits + 1 /\ edits < MaxEdits
          /\ table' \in Edited(table)
      BY <2>5 DEF Edit
    <3>2. Chains(table')
      BY <2>2, <3>1, EditKeepsChains
    <3>3. edits' \in 0..MaxEdits
      BY <2>2, <3>1, TableAssumption
    <3> QED
      BY <2>2, <2>3, <3>1, <3>2, <3>3
  <2>6. CASE Wipe
    <3>1. plan' = plan /\ present' = FALSE /\ edits' = edits + 1 /\ edits < MaxEdits /\ table' = table
      BY <2>6 DEF Wipe
    <3>3. edits' \in 0..MaxEdits
      BY <2>2, <3>1, TableAssumption
    <3> QED
      BY <2>2, <2>3, <3>1, <3>3
  <2>7. CASE PollUnchanged
    BY <2>2, <2>4, <2>7 DEF PollUnchanged
  <2>8. ASSUME plan' = plan, present' = present, edits' = edits, table' = table PROVE TableInv'
    BY <2>2, <2>3, <2>8
  <2>9. CASE \E i \in DOMAIN plan.rules : NewFlow(plan.rules[i])
    BY <2>8, <2>9 DEF NewFlow
  <2>10. CASE \E f \in flows : FlowEnds(f)
    BY <2>8, <2>10 DEF FlowEnds
  <2>11. CASE UNCHANGED vars
    BY <2>8, <2>11 DEF vars
  <2>12. CASE \E p \in Plans \cup {QuarantinePlan} : Replace(p)
    BY <2>4, <2>12
  <2> QED
    BY <2>1, <2>5, <2>6, <2>7, <2>9, <2>10, <2>11, <2>12 DEF Next
<1> QED
  BY <1>1, <1>2, PTL DEF Spec

(***************************************************************************)
(* The table ApplyManaged or ApplyQuarantine builds passes VerifyManaged   *)
(* or VerifyQuarantine, for any number of mappings and retirements and     *)
(* whichever guards and allowlists they have: the tags given while the     *)
(* rules are added agree with the tags the comparison counts.              *)
(***************************************************************************)
THEOREM BuiltTableVerifies == Spec => []OwnTableVerifies
<1>1. TableInv => OwnTableVerifies
  <2>1. SUFFICES ASSUME TableInv, present, table = Installed(plan) PROVE Verified
    BY DEF OwnTableVerifies
  <2>2. PlanTyped(plan)
    BY <2>1, PlansTyped DEF TableInv, TypeOK
  <2> QED
    BY <2>1, <2>2, InstalledVerifies DEF Verified
<1> QED
  BY <1>1, TableInvariance, PTL


-----------------------------------------------------------------------------
(***************************************************************************)
(* A chain that compares equal holds the rendered rules.                   *)
(***************************************************************************)
LEMMA EqualChain ==
    ASSUME NEW got, NEW want, NEW tags, got \in Seq(ToSet(got)), Len(want) \in Nat,
           DOMAIN want = 1..Len(want), ChainEqual(got, want, tags)
    PROVE  DOMAIN got = 1..Len(want) /\ \A i \in 1..Len(want) : got[i].rule = want[i]
<1>1. DOMAIN got = 1..Len(got)
  BY LenProperties
<1>2. Len(got) = Len(want) /\ \A i \in DOMAIN want : SameRule(got[i].rule, want[i])
  BY DEF ChainEqual
<1> QED
  BY <1>1, <1>2 DEF SameRule

(***************************************************************************)
(* The walk of a flow through a chain that holds the rules of a plan.      *)
(***************************************************************************)
Holds(chain, p) ==
    /\ DOMAIN chain = 1..(2 * Len(p.rules) + 2 * Len(p.rets))
    /\ \A q \in DOMAIN chain : chain[q].rule = ForwardRules(p)[q]

Retired(p, f) ==
    \E i \in DOMAIN p.rets :
        p.rets[i].proto = f.proto /\ p.rets[i].port = f.port /\ p.rets[i].mark = f.mark

Counts(p, f) ==
    \E i \in DOMAIN p.rules :
        /\ p.rules[i].id = f.id /\ p.rules[i].mark = f.mark
        /\ p.rules[i].proto = f.proto /\ p.rules[i].port = f.port

LEMMA WalkExact ==
    ASSUME NEW p, PlanTyped(p), NEW chain, Holds(chain, p), NEW f, NEW d \in 1..2
    PROVE  LET w == Forward(chain, f, Directions[d])
           IN  /\ w.verdict = "dropped" <=> Retired(p, f)
               /\ w.verdict = "forwarded" /\ Counts(p, f) => w.counted = {f.id}
<1> DEFINE n == Len(p.rules)
           m == Len(p.rets)
           c == ForwardRules(p)
           dir == Directions[d]
           w == Forward(chain, f, dir)
           hits == {i \in DOMAIN chain : ForwardMatches(chain[i].rule, f, dir)}
           drops == {i \in hits : chain[i].rule.kind # "count"}
           counts == {i \in hits : \A j \in drops : i < j}
<1>1. n \in Nat /\ m \in Nat /\ DOMAIN p.rules = 1..n /\ DOMAIN p.rets = 1..m
  BY ForwardParts
<1>2. /\ DOMAIN chain = 1..(2 * n + 2 * m)
      /\ \A q \in DOMAIN chain : chain[q].rule = c[q]
  BY DEF Holds
<1>3. /\ \A i \in 1..n : \A j \in 1..2 : c[2 * (i - 1) + j] = CountRule(p.rules[i], Directions[j])
      /\ \A i \in 1..m : \A j \in 1..2 : c[2 * n + (2 * (i - 1) + j)] = DropRule(p.rets[i], Directions[j])
      /\ \A q \in 1..(2 * n + 2 * m) :
            \/ \E i \in 1..n : \E j \in 1..2 : q = 2 * (i - 1) + j
            \/ \E i \in 1..m : \E j \in 1..2 : q = 2 * n + (2 * (i - 1) + j)
  BY ForwardShaped, Zenon DEF ForwardShape
<1>4. /\ w.counted = {chain[i].rule.id : i \in counts}
      /\ w.verdict = IF drops = {} THEN "forwarded" ELSE "dropped"
  BY DEF Forward
<1> HIDE DEF n, m, c, dir
<1>5. ASSUME NEW i \in 1..n, NEW j \in 1..2
      PROVE  2 * (i - 1) + j \in DOMAIN chain /\ chain[2 * (i - 1) + j].rule = CountRule(p.rules[i], Directions[j])
  <2>1. 2 * (i - 1) + j \in 1..(2 * n + 2 * m)
    BY <1>1
  <2> QED
    BY <2>1, <1>2, <1>3
<1>6. ASSUME NEW i \in 1..m, NEW j \in 1..2
      PROVE  /\ 2 * n + (2 * (i - 1) + j) \in DOMAIN chain
             /\ chain[2 * n + (2 * (i - 1) + j)].rule = DropRule(p.rets[i], Directions[j])
  <2>1. 2 * n + (2 * (i - 1) + j) \in 1..(2 * n + 2 * m)
    BY <1>1
  <2> QED
    BY <2>1, <1>2, <1>3
<1>7. ASSUME NEW q \in DOMAIN chain
      PROVE  \/ \E i \in 1..n : \E j \in 1..2 : chain[q].rule = CountRule(p.rules[i], Directions[j])
             \/ \E i \in 1..m : \E j \in 1..2 : chain[q].rule = DropRule(p.rets[i], Directions[j])
  <2>1. q \in 1..(2 * n + 2 * m)
    BY <1>2
  <2>2. CASE \E i \in 1..n : \E j \in 1..2 : q = 2 * (i - 1) + j
    <3>1. PICK i \in 1..n, j \in 1..2 : q = 2 * (i - 1) + j
      BY <2>2
    <3> QED
      BY <3>1, <1>5
  <2>3. CASE \E i \in 1..m : \E j \in 1..2 : q = 2 * n + (2 * (i - 1) + j)
    <3>1. PICK i \in 1..m, j \in 1..2 : q = 2 * n + (2 * (i - 1) + j)
      BY <2>3
    <3> QED
      BY <3>1, <1>6
  <2> QED
    BY <2>1, <2>2, <2>3, <1>3
<1>8. ASSUME NEW i \in 1..m, p.rets[i].proto = f.proto, p.rets[i].port = f.port, p.rets[i].mark = f.mark
      PROVE  drops # {}
  <2> DEFINE q == 2 * n + (2 * (i - 1) + d)
  <2>1. q \in DOMAIN chain /\ chain[q].rule = DropRule(p.rets[i], dir)
    BY <1>6 DEF dir
  <2> HIDE DEF q
  <2>2. ForwardMatches(DropRule(p.rets[i], dir), f, dir) /\ DropRule(p.rets[i], dir).kind # "count"
    BY <1>8 DEF ForwardMatches, DropRule
  <2>3. q \in drops
    BY <2>1, <2>2
  <2> QED
    BY <2>3
<1>9. ASSUME NEW q \in drops PROVE Retired(p, f)
  <2>1. q \in DOMAIN chain /\ ForwardMatches(chain[q].rule, f, dir) /\ chain[q].rule.kind # "count"
    OBVIOUS
  <2> HIDE DEF drops, hits, counts
  <2>2. \A r : \A x : CountRule(r, x).kind = "count"
    BY DEF CountRule
  <2>3. PICK i \in 1..m, j \in 1..2 : chain[q].rule = DropRule(p.rets[i], Directions[j])
    BY <2>1, <2>2, <1>7
  <2>4. p.rets[i].proto = f.proto /\ p.rets[i].port = f.port /\ p.rets[i].mark = f.mark
    BY <2>1, <2>3 DEF ForwardMatches, DropRule
  <2> QED
    BY <2>4, <1>1 DEF Retired
<1>10. w.verdict = "dropped" <=> Retired(p, f)
  <2>1. Retired(p, f) => drops # {}
    <3> HIDE DEF drops
    <3> QED
      BY <1>1, <1>8 DEF Retired
  <2>2. drops # {} => Retired(p, f)
    <3> HIDE DEF drops
    <3> QED
      BY <1>9
  <2> HIDE DEF drops, hits, counts, w
  <2> QED
    BY <2>1, <2>2, <1>4
<1>11. ASSUME w.verdict = "forwarded", Counts(p, f) PROVE w.counted = {f.id}
  <2>1. drops = {}
    <3> HIDE DEF drops, hits, counts, w
    <3> QED
      BY <1>4, <1>11
  <2>2. PICK i \in 1..n : /\ p.rules[i].id = f.id
                          /\ p.rules[i].proto = f.proto /\ p.rules[i].port = f.port
    BY <1>1, <1>11 DEF Counts
  <2>3. 2 * (i - 1) + d \in counts /\ chain[2 * (i - 1) + d].rule.id = f.id
    <3> DEFINE q == 2 * (i - 1) + d
    <3>1. q \in DOMAIN chain /\ chain[q].rule = CountRule(p.rules[i], dir)
      BY <1>5 DEF dir
    <3> HIDE DEF q
    <3>2. ForwardMatches(CountRule(p.rules[i], dir), f, dir) /\ CountRule(p.rules[i], dir).id = f.id
      BY <2>2 DEF ForwardMatches, CountRule
    <3>3. q \in hits
      BY <3>1, <3>2
    <3>4. q \in counts
      BY <3>3, <2>1
    <3> QED
      BY <3>1, <3>2, <3>4 DEF q
  <2>4. ASSUME NEW q \in counts PROVE chain[q].rule.id = f.id
    <3>1. q \in DOMAIN chain /\ ForwardMatches(chain[q].rule, f, dir) /\ chain[q].rule.kind = "count"
      BY <2>1
    <3> HIDE DEF drops, hits, counts
    <3>2. \A r : \A x : DropRule(r, x).kind # "count"
      BY DEF DropRule
    <3>3. PICK k \in 1..n, j \in 1..2 : chain[q].rule = CountRule(p.rules[k], Directions[j])
      BY <3>1, <3>2, <1>7
    <3>4. p.rules[k].proto = f.proto /\ p.rules[k].port = f.port /\ chain[q].rule.id = p.rules[k].id
      BY <3>1, <3>3 DEF ForwardMatches, CountRule
    <3>5. k = i
      BY <3>4, <2>2, <1>1 DEF PlanTyped
    <3> QED
      BY <3>4, <3>5, <2>2
  <2> HIDE DEF counts, drops, hits, w
  <2> QED
    BY <2>3, <2>4, <1>4
<1> QED
  BY <1>10, <1>11 DEF dir

(***************************************************************************)
(* A table that passes the readback does what the agent applied, whoever   *)
(* edited it before: it drops exactly the retired flows, or all of them in *)
(* quarantine, counts a flow of an active mapping for that mapping alone,  *)
(* and leads every port to the mapping that owns it, for any number of     *)
(* mappings and retirements.                                               *)
(***************************************************************************)
THEOREM ReadbackExact == Spec => []VerifiedIsExact
<1>1. TableInv => VerifiedIsExact
  <2>1. SUFFICES ASSUME TableInv, Verified PROVE VerifiedIsExact
    BY DEF VerifiedIsExact
  <2>2. PlanTyped(plan) /\ Chains(table)
    BY <2>1, PlansTyped DEF TableInv, TypeOK
  <2>3. CASE plan.quarantine
    <3>1. QuarantineReadback(table)
      BY <2>1, <2>3 DEF Verified
    <3>2. /\ table.nat = <<>> /\ DOMAIN table.fwd = 1..2
          /\ \A d \in 1..2 : table.fwd[d].rule = QuarantineRule(Directions[d])
      <4>1. table.nat = <<>> /\ Len(table.fwd) = 2
        BY <3>1 DEF QuarantineReadback
      <4>2. \A d \in 1..2 : table.fwd[d].rule = QuarantineRule(Directions[d])
        BY <3>1 DEF QuarantineReadback, SameRule
      <4>3. DOMAIN table.fwd = 1..Len(table.fwd)
        <5>1. table.fwd \in Seq(ToSet(table.fwd))
          BY <2>2 DEF Chains
        <5> QED
          BY <5>1, LenProperties
      <4> QED
        BY <4>1, <4>2, <4>3
    <3>3. plan.rules = <<>> /\ DOMAIN plan.rules = {} /\ DOMAIN table.nat = {}
      <4>1. plan = QuarantinePlan
        BY <2>2, <2>3 DEF PlanTyped
      <4>2. plan.rules = <<>>
        BY <4>1 DEF QuarantinePlan
      <4>3. DOMAIN <<>> = {}
        OBVIOUS
      <4> QED
        BY <4>2, <4>3, <3>2
    <3>4. ASSUME NEW f \in flows, NEW d \in 1..2
          PROVE  Forward(table.fwd, f, Directions[d]).verdict = "dropped"
      <4> DEFINE dir == Directions[d]
                 hits == {i \in DOMAIN table.fwd : ForwardMatches(table.fwd[i].rule, f, dir)}
                 drops == {i \in hits : table.fwd[i].rule.kind # "count"}
      <4>1. ForwardMatches(QuarantineRule(dir), f, dir) /\ QuarantineRule(dir).kind # "count"
        BY DEF ForwardMatches, QuarantineRule
      <4>2. d \in DOMAIN table.fwd /\ table.fwd[d].rule = QuarantineRule(dir)
        BY <3>2
      <4> HIDE DEF dir
      <4>3. d \in drops
        BY <4>1, <4>2
      <4>4. Forward(table.fwd, f, dir).verdict = IF drops = {} THEN "forwarded" ELSE "dropped"
        BY DEF Forward
      <4> HIDE DEF hits, drops
      <4> QED
        BY <4>3, <4>4 DEF dir
    <3>5. \A f \in flows : Fenced(f)
      BY <2>3 DEF Fenced
    <3> QED
      BY <3>3, <3>4, <3>5 DEF VerifiedIsExact
  <2>4. CASE ~plan.quarantine
    <3>1. ManagedReadback(table, plan)
      BY <2>1, <2>4 DEF Verified
    <3> DEFINE chain == RenderRules(plan.rules, Guards)
               tags == ExpectedNatTags(plan.rules, Guards)
               rules == plan.rules
               n == Len(rules)
    <3>2. /\ ChainEqual(table.nat, chain, tags)
          /\ ChainEqual(table.fwd, ForwardRules(plan), ForwardTags(plan))
      BY <3>1 DEF ManagedReadback
    <3>3. n \in Nat /\ DOMAIN rules = 1..n /\ Len(plan.rets) \in Nat
      BY <2>2, ForwardParts
    <3>4. Holds(table.fwd, plan)
      <4> DEFINE c == ForwardRules(plan)
                 k == 2 * Len(plan.rules) + 2 * Len(plan.rets)
      <4>1. k \in Nat
        <5>1. \A x, y \in Nat : 2 * x + 2 * y \in Nat
          OBVIOUS
        <5>2. Len(plan.rules) \in Nat /\ Len(plan.rets) \in Nat
          BY <3>3
        <5> QED
          BY <5>1, <5>2, Zenon
      <4>2. Len(c) = k /\ DOMAIN c = 1..k
        BY <2>2, ForwardShaped DEF ForwardShape
      <4>3. table.fwd \in Seq(ToSet(table.fwd))
        BY <2>2 DEF Chains
      <4> HIDE DEF c, k
      <4>4. DOMAIN table.fwd = 1..Len(c) /\ \A i \in 1..Len(c) : table.fwd[i].rule = c[i]
        BY <4>1, <4>2, <4>3, <3>2, EqualChain DEF c
      <4> QED
        BY <4>2, <4>4 DEF Holds, c, k
    <3>5. ASSUME NEW f \in flows, NEW d \in 1..2
          PROVE  LET w == Forward(table.fwd, f, Directions[d])
                 IN  /\ w.verdict = "dropped" <=> Fenced(f)
                     /\ w.verdict = "forwarded" /\ Active(f) => w.counted = {f.id}
      <4>1. LET w == Forward(table.fwd, f, Directions[d])
            IN  /\ w.verdict = "dropped" <=> Retired(plan, f)
                /\ w.verdict = "forwarded" /\ Counts(plan, f) => w.counted = {f.id}
        BY <2>2, <3>4, WalkExact
      <4>2. Fenced(f) <=> Retired(plan, f)
        BY <2>4 DEF Fenced, Retired
      <4>3. Active(f) <=> Counts(plan, f)
        BY DEF Active, Counts
      <4> QED
        BY <4>1, <4>2, <4>3, Zenon
    <3>6. PICK end : Rendered(chain, tags, rules, end)
      <4>1. rules \in Seq(ToSet(rules)) /\ \A r \in ToSet(rules) : \A k, l \in r.policy : k = l
        BY <2>2 DEF PlanTyped
      <4> HIDE DEF rules
      <4>2. \E end : Rendered(RenderRules(rules, Guards), ExpectedNatTags(rules, Guards), rules, end)
        BY <4>1, NatChainRendered
      <4> QED
        BY <4>2 DEF rules
    <3> HIDE DEF chain, tags, n
    <3>7. /\ Len(chain) \in Nat /\ DOMAIN chain = 1..Len(chain)
          /\ \A i \in 1..n : end[i] \in 1..Len(chain) /\ chain[end[i]] = DnatRule(rules[i])
          /\ \A q \in 1..Len(chain) : (\E i \in 1..n : q = end[i]) \/ chain[q].kind # "dnat"
      <4>1. Len(chain) \in Nat /\ DOMAIN chain = 1..Len(chain)
        BY <3>6 DEF Rendered
      <4>2. \A i \in 1..n : end[i] \in 1..Len(chain) /\ chain[end[i]] = DnatRule(rules[i])
        BY <3>6 DEF Rendered, n
      <4>3. \A q \in 1..Len(chain) : (\E i \in 1..n : q = end[i]) \/ chain[q].kind # "dnat"
        BY <3>6, Zenon DEF Rendered, n
      <4> QED
        BY <4>1, <4>2, <4>3
    <3>8. DOMAIN table.nat = 1..Len(chain) /\ \A q \in 1..Len(chain) : table.nat[q].rule = chain[q]
      <4>1. table.nat \in Seq(ToSet(table.nat))
        BY <2>2 DEF Chains
      <4> QED
        BY <4>1, <3>2, <3>7, EqualChain
    <3>9. ASSUME NEW q \in DOMAIN table.nat, table.nat[q].rule.kind = "dnat"
          PROVE  \E i \in 1..n : q = end[i] /\ table.nat[q].rule = DnatRule(rules[i])
      <4>1. q \in 1..Len(chain) /\ table.nat[q].rule = chain[q]
        BY <3>8
      <4>2. PICK i \in 1..n : q = end[i]
        BY <4>1, <3>7, <3>9
      <4> QED
        BY <4>1, <4>2, <3>7
    <3>10. ASSUME NEW i \in 1..n
           PROVE  \E k \in DOMAIN table.nat :
                     DnatRules(rules[i].proto, rules[i].port) = {k} /\ table.nat[k].rule = DnatRule(rules[i])
      <4> DEFINE k == end[i]
                 D == DnatRules(rules[i].proto, rules[i].port)
      <4>1. k \in DOMAIN table.nat /\ table.nat[k].rule = DnatRule(rules[i])
        BY <3>7, <3>8
      <4>2. k \in D
        <5> HIDE DEF k
        <5> QED
          BY <4>1 DEF DnatRules, DnatRule, NatRule
      <4>3. ASSUME NEW q \in D PROVE q = k
        <5>1. /\ q \in DOMAIN table.nat /\ table.nat[q].rule.kind = "dnat"
              /\ table.nat[q].rule.proto = rules[i].proto /\ table.nat[q].rule.port = rules[i].port
          BY DEF DnatRules
        <5>2. PICK j \in 1..n : q = end[j] /\ table.nat[q].rule = DnatRule(rules[j])
          BY <5>1, <3>9
        <5>3. rules[j].proto = rules[i].proto /\ rules[j].port = rules[i].port
          BY <5>1, <5>2 DEF DnatRule, NatRule
        <5>4. j = i
          <6>1. i \in DOMAIN rules /\ j \in DOMAIN rules
            BY <3>3
          <6>2. \A x, y \in DOMAIN rules :
                    rules[x].proto = rules[y].proto /\ rules[x].port = rules[y].port => x = y
            BY <2>2 DEF PlanTyped
          <6> HIDE DEF rules
          <6> QED
            BY <5>3, <6>1, <6>2
        <5> QED
          BY <5>2, <5>4
      <4> HIDE DEF D, k
      <4>4. D = {k}
        BY <4>2, <4>3
      <4> QED
        BY <4>1, <4>4 DEF D
    <3>11. /\ \A i \in DOMAIN plan.rules :
                 LET r == plan.rules[i]
                 IN  \E k \in DOMAIN table.nat :
                        DnatRules(r.proto, r.port) = {k} /\ table.nat[k].rule = DnatRule(r)
           /\ \A k \in DOMAIN table.nat :
                 table.nat[k].rule.kind = "dnat" =>
                     \E i \in DOMAIN plan.rules : table.nat[k].rule = DnatRule(plan.rules[i])
      BY <3>3, <3>9, <3>10, Zenon
    <3> QED
      BY <3>5, <3>11, Zenon DEF VerifiedIsExact
  <2> QED
    BY <2>3, <2>4
<1> QED
  BY <1>1, TableInvariance, PTL
=============================================================================
