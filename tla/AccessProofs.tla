---------------------------- MODULE AccessProofs ----------------------------
(***************************************************************************)
(* What the client access proves: the configs an Xray instance is rendered *)
(* (XrayRouting), in two halves.  Rendering: the rules are a flattened     *)
(* list, and the first of them that matches a client is found by induction *)
(* over its length.  Resolving: an invariant says what each resolver has   *)
(* left in the spec.  The theorems put the two together.                   *)
(***************************************************************************)
EXTENDS MCAccess, Integers, WellFoundedInduction, TLAPS

-----------------------------------------------------------------------------
\* A set of numbers that is not empty has a least one.
LEMMA LeastNumber ==
  ASSUME NEW T, T \subseteq Nat, T # {}
  PROVE  \E m \in T : \A n \in T : m <= n
<1>1. PICK R : R = OpToRel(<, Nat)
  OBVIOUS
<1>2. IsWellFoundedOn(R, Nat)
  BY <1>1, NatLessThanWellFounded, Zenon
<1>3. \A x, y \in Nat : x < y => <<x, y>> \in R
  BY <1>1 DEF OpToRel
<1>4. PICK x \in T : \A y \in T : ~ (<<y, x>> \in R)
  BY <1>2, WFMin
<1>5. \A y \in T : x <= y
  <2> SUFFICES ASSUME NEW y \in T PROVE x <= y  OBVIOUS
  <2>1. x \in Nat /\ y \in Nat /\ ~ (y < x)
    BY <1>3, <1>4
  <2> QED  BY <2>1
<1> QED  BY <1>5

\* Induction, for sets: one with 0 and the successors of its numbers has all.
LEMMA NumbersByInduction ==
  ASSUME NEW S, 0 \in S, \A n \in Nat : n \in S => n + 1 \in S
  PROVE  \A n \in Nat : n \in S
<1> SUFFICES ASSUME NEW k \in Nat, k \notin S PROVE FALSE  OBVIOUS
<1>1. PICK m \in Nat \ S : \A n \in Nat \ S : m <= n
  <2>1. PICK T : T = Nat \ S
    OBVIOUS
  <2>2. T \subseteq Nat /\ T # {}
    BY <2>1
  <2> QED  BY <2>1, <2>2, LeastNumber
<1>2. m # 0 /\ m - 1 \in Nat
  BY <1>1
<1>3. m - 1 \in S
  BY <1>1, <1>2
<1>4. (m - 1) + 1 \in S
  BY <1>2, <1>3
<1> QED  BY <1>1, <1>4

-----------------------------------------------------------------------------
\* Where a sequence has its first element of M.
Without(s, M) == \A k \in DOMAIN s : s[k] \notin M
First(s, M, r) == r \in M /\ \E m \in DOMAIN s : s[m] = r /\ \A k \in 1..(m - 1) : s[k] \notin M

\* What comes after the first one plays no part.
LEMMA FirstOfFront ==
  ASSUME NEW X, NEW M, NEW r, NEW s \in Seq(X), NEW t \in Seq(X), First(s, M, r)
  PROVE  First(s \o t, M, r)
<1>1. PICK m \in DOMAIN s : s[m] = r /\ \A k \in 1..(m - 1) : s[k] \notin M
  BY DEF First
<1>2. DOMAIN s = 1..Len(s) /\ Len(s) \in Nat /\ DOMAIN (s \o t) = 1..(Len(s) + Len(t)) /\ Len(t) \in Nat
  OBVIOUS
<1>3. \A k \in 1..Len(s) : (s \o t)[k] = s[k]
  OBVIOUS
<1>4. m \in DOMAIN (s \o t) /\ \A k \in 1..(m - 1) : k \in 1..Len(s)
  BY <1>2
<1>5. (s \o t)[m] = r /\ \A k \in 1..(m - 1) : (s \o t)[k] \notin M
  BY <1>1, <1>2, <1>3, <1>4
<1> QED  BY <1>4, <1>5 DEF First

\* What comes before it, and is not of M, only moves it.
LEMMA FirstOfBack ==
  ASSUME NEW X, NEW M, NEW r, NEW s \in Seq(X), NEW t \in Seq(X), Without(s, M), First(t, M, r)
  PROVE  First(s \o t, M, r)
<1>1. PICK m \in DOMAIN t : t[m] = r /\ \A k \in 1..(m - 1) : t[k] \notin M
  BY DEF First
<1>2. PICK a, b \in Nat : a = Len(s) /\ b = Len(t)
  OBVIOUS
<1>3. DOMAIN s = 1..a /\ DOMAIN t = 1..b /\ DOMAIN (s \o t) = 1..(a + b)
  BY <1>2
<1>4. /\ \A k \in 1..a : (s \o t)[k] = s[k]
      /\ \A k \in (a + 1)..(a + b) : (s \o t)[k] = t[k - a]
  BY <1>2
<1>5. m \in 1..b /\ a + m \in 1..(a + b) /\ a + m \in (a + 1)..(a + b) /\ (a + m) - a = m
  BY <1>1, <1>3
<1>6. (s \o t)[a + m] = r
  BY <1>1, <1>4, <1>5
<1>7. \A k \in 1..((a + m) - 1) : (s \o t)[k] \notin M
  <2> SUFFICES ASSUME NEW k \in 1..((a + m) - 1) PROVE (s \o t)[k] \notin M  OBVIOUS
  <2>1. CASE k <= a
    <3>1. k \in 1..a
      BY <2>1
    <3> QED  BY <1>3, <1>4, <3>1 DEF Without
  <2>2. CASE k > a
    <3>1. k \in (a + 1)..(a + b) /\ k - a \in 1..(m - 1)
      BY <1>5, <2>2
    <3>2. PICK j : j = k - a
      OBVIOUS
    <3>3. (s \o t)[k] = t[j] /\ j \in 1..(m - 1)
      BY <1>4, <3>1, <3>2, Zenon
    <3>4. t[j] \notin M
      BY <1>1, <3>3, Zenon
    <3> QED  BY <3>3, <3>4, Zenon
  <2>3. k <= a \/ k > a
    BY <1>5
  <2> QED  BY <2>1, <2>2, <2>3, Zenon
<1>8. PICK p : /\ p = a + m /\ p \in 1..(a + b) /\ (s \o t)[p] = r
             /\ \A k \in 1..(p - 1) : (s \o t)[k] \notin M
  BY <1>5, <1>6, <1>7, Zenon
<1>9. p \in DOMAIN (s \o t) /\ (s \o t)[p] = r /\ \A k \in 1..(p - 1) : (s \o t)[k] \notin M
  BY <1>3, <1>8, Zenon
<1>10. r \in M
  BY Zenon DEF First
<1> QED  BY <1>9, <1>10, Zenon DEF First

\* Two sequences without one make one without.
LEMMA WithoutBoth ==
  ASSUME NEW X, NEW M, NEW s \in Seq(X), NEW t \in Seq(X), Without(s, M), Without(t, M)
  PROVE  Without(s \o t, M)
<1>1. PICK a, b \in Nat : a = Len(s) /\ b = Len(t)
  OBVIOUS
<1>2. DOMAIN s = 1..a /\ DOMAIN t = 1..b /\ DOMAIN (s \o t) = 1..(a + b)
  BY <1>1
<1>3. /\ \A k \in 1..a : (s \o t)[k] = s[k]
      /\ \A k \in (a + 1)..(a + b) : (s \o t)[k] = t[k - a]
  BY <1>1
<1> SUFFICES ASSUME NEW k \in 1..(a + b) PROVE (s \o t)[k] \notin M
  BY <1>2 DEF Without
<1>4. CASE k <= a
  <2>1. k \in 1..a
    BY <1>4
  <2> QED  BY <1>2, <1>3, <2>1 DEF Without
<1>5. CASE k > a
  <2>1. k \in (a + 1)..(a + b) /\ k - a \in 1..b
    BY <1>5
  <2>2. PICK j : j = k - a
    OBVIOUS
  <2>3. (s \o t)[k] = t[j] /\ j \in DOMAIN t
    BY <1>2, <1>3, <2>1, <2>2, Zenon
  <2>4. t[j] \notin M
    BY <2>3, Zenon DEF Without
  <2> QED  BY <2>3, <2>4, Zenon
<1>6. k <= a \/ k > a
  OBVIOUS
<1> QED  BY <1>4, <1>5, <1>6, Zenon

-----------------------------------------------------------------------------
\* What FlattenSeq computes on the way.
Flattens(f, ss, n) == f = [i \in 1..n |-> IF i = 1 THEN ss[i] ELSE f[i - 1] \o ss[i]]

\* There is such a function for every length.
LEMMA FlattenExists ==
  ASSUME NEW ss  PROVE \A n \in Nat : \E f : Flattens(f, ss, n)
<1>1. PICK S : S = {n \in Nat : \E f : Flattens(f, ss, n)}
  OBVIOUS
<1>2. 0 \in S
  <2>1. PICK f : f = [i \in 1..0 |-> 0]
    OBVIOUS
  <2>2. f = [i \in 1..0 |-> IF i = 1 THEN ss[i] ELSE f[i - 1] \o ss[i]]
    BY <2>1
  <2>3. Flattens(f, ss, 0)
    BY <2>2 DEF Flattens
  <2> QED  BY <1>1, <2>3
<1>3. ASSUME NEW n \in Nat, n \in S PROVE n + 1 \in S
  <2>1. PICK f : Flattens(f, ss, n)
    BY <1>1, <1>3
  <2>2. PICK g : g = [i \in 1..(n + 1) |-> IF i = 1 THEN ss[i] ELSE f[i - 1] \o ss[i]]
    OBVIOUS
  <2>3. DOMAIN g = 1..(n + 1) /\ DOMAIN f = 1..n
    BY <2>1, <2>2 DEF Flattens
  <2>4. \A i \in 1..n : f[i] = IF i = 1 THEN ss[i] ELSE f[i - 1] \o ss[i]
    BY <2>1, Zenon DEF Flattens
  <2>5. \A i \in 1..(n + 1) : g[i] = IF i = 1 THEN ss[i] ELSE f[i - 1] \o ss[i]
    BY <2>2, Zenon
  <2>6. \A i \in 1..n : g[i] = f[i]
    <3>1. \A i \in 1..n : i \in 1..(n + 1)
      OBVIOUS
    <3> QED  BY <2>4, <2>5, <3>1, Zenon
  <2>7. \A i \in 1..(n + 1) : i # 1 => i - 1 \in 1..n
    OBVIOUS
  <2>8. \A i \in 1..(n + 1) : (IF i = 1 THEN ss[i] ELSE f[i - 1] \o ss[i]) = (IF i = 1 THEN ss[i] ELSE g[i - 1] \o ss[i])
    BY <2>6, <2>7, Zenon
  <2>9. g = [i \in 1..(n + 1) |-> IF i = 1 THEN ss[i] ELSE g[i - 1] \o ss[i]]
    BY <2>2, <2>8, Zenon
  <2>10. Flattens(g, ss, n + 1)
    BY <2>9 DEF Flattens
  <2> QED  BY <1>1, <2>10
<1>4. \A n \in Nat : n \in S
  BY <1>2, <1>3, NumbersByInduction
<1> QED  BY <1>1, <1>4

\* The first element of M in a flattened sequence is the one that any of its
\* parts with such an element has first.
LEMMA FirstOfFlattened ==
  ASSUME NEW X, NEW M, NEW r, NEW ss \in Seq(Seq(X)),
         \A i \in DOMAIN ss : Without(ss[i], M) \/ First(ss[i], M, r),
         \E i \in DOMAIN ss : First(ss[i], M, r)
  PROVE  Xray!FlattenSeq(ss) \in Seq(X) /\ First(Xray!FlattenSeq(ss), M, r)
<1>1. PICK N \in Nat : N = Len(ss) /\ DOMAIN ss = 1..N
  OBVIOUS
<1>2. N # 0 /\ N \in 1..N
  BY <1>1
<1>3. PICK f : f = CHOOSE g : g = [i \in 1..Len(ss) |-> IF i = 1 THEN ss[i] ELSE g[i - 1] \o ss[i]]
  OBVIOUS
<1>4. Xray!FlattenSeq(ss) = f[N]
  <2>1. Len(ss) # 0
    BY <1>1, <1>2
  <2> QED  BY <1>1, <1>3, <2>1, Zenon DEF Xray!FlattenSeq
<1>5. Flattens(f, ss, N)
  <2>1. \E g : g = [i \in 1..Len(ss) |-> IF i = 1 THEN ss[i] ELSE g[i - 1] \o ss[i]]
    BY <1>1, FlattenExists, Zenon DEF Flattens
  <2> QED  BY <1>1, <1>3, <2>1, Zenon DEF Flattens
<1>6. \A i \in 1..N : f[i] = IF i = 1 THEN ss[i] ELSE f[i - 1] \o ss[i]
  BY <1>5, Zenon DEF Flattens
<1>7. \A i \in 1..N : ss[i] \in Seq(X) /\ (Without(ss[i], M) \/ First(ss[i], M, r))
  BY <1>1
<1> DEFINE Good(n) == /\ f[n] \in Seq(X)
                      /\ \/ First(f[n], M, r)
                         \/ Without(f[n], M) /\ \A i \in 1..n : ~First(ss[i], M, r)
<1>8. PICK S : S = {n \in Nat : n \in 1..N => Good(n)}
  OBVIOUS
<1>9. 0 \in S
  BY <1>8
<1>10. ASSUME NEW n \in Nat, n \in S PROVE n + 1 \in S
  <2> SUFFICES ASSUME n + 1 \in 1..N PROVE Good(n + 1)
    BY <1>8
  <2>1. CASE n = 0
    <3>1. f[1] = ss[1] /\ 1 \in 1..N /\ \A i \in 1..1 : i = 1
      BY <1>6, <2>1
    <3>2. Good(1)
      BY <1>7, <3>1
    <3> QED  BY <2>1, <3>2
  <2>2. CASE n # 0
    <3>1. n \in 1..N /\ n + 1 # 1 /\ (n + 1) - 1 = n
      BY <1>1, <2>2
    <3>2. Good(n)
      BY <1>8, <1>10, <3>1
    <3>3. f[n + 1] = f[n] \o ss[n + 1]
      BY <1>6, <3>1
    <3>4. PICK a \in Seq(X), b \in Seq(X) : a = f[n] /\ b = ss[n + 1]
      BY <1>7, <3>2
    <3>5. a \o b \in Seq(X)
      OBVIOUS
    <3>6. CASE First(a, M, r)
      BY <3>3, <3>4, <3>5, <3>6, FirstOfFront
    <3>7. CASE Without(a, M) /\ \A i \in 1..n : ~First(ss[i], M, r)
      <4>1. CASE First(b, M, r)
        BY <3>3, <3>4, <3>5, <3>7, <4>1, FirstOfBack
      <4>2. CASE ~First(b, M, r)
        <5>1. Without(b, M)
          BY <1>7, <3>4, <4>2
        <5>2. Without(a \o b, M)
          BY <3>7, <5>1, WithoutBoth
        <5>3. \A i \in 1..(n + 1) : i \in 1..n \/ i = n + 1
          OBVIOUS
        <5>4. \A i \in 1..(n + 1) : ~First(ss[i], M, r)
          BY <3>4, <3>7, <4>2, <5>3
        <5> QED  BY <3>3, <3>4, <3>5, <5>2, <5>4
      <4> QED  BY <4>1, <4>2
    <3> QED  BY <3>2, <3>4, <3>6, <3>7
  <2> QED  BY <2>1, <2>2
<1>11. \A n \in Nat : n \in S
  BY <1>9, <1>10, NumbersByInduction
<1>12. Good(N)
  BY <1>2, <1>8, <1>11
<1>13. First(f[N], M, r)
  BY <1>1, <1>12
<1> QED  BY <1>4, <1>12, <1>13

-----------------------------------------------------------------------------
(***************************************************************************)
(* Rendering: the rules of an Xray instance and what they match.           *)
(***************************************************************************)
TagSet == Xray!Groups \cup {"block", "direct", "api", "egress-default"}
RuleSet == [inbound : {"api", "vless-in"}, users : SUBSET RoutedClient, dest : {"ads", "target", "any"}, tag : TagSet]
Hit(c, d) == {r \in RuleSet : Xray!Matches(r, "vless-in", c, d)}

\* A rule is one.
LEMMA RuleIsOne ==
  ASSUME NEW i \in {"api", "vless-in"}, NEW u \in SUBSET RoutedClient, NEW d \in {"ads", "target", "any"}, NEW t \in TagSet
  PROVE  /\ Xray!Rule(i, u, d, t) \in RuleSet
         /\ Xray!Rule(i, u, d, t).inbound = i /\ Xray!Rule(i, u, d, t).users = u
         /\ Xray!Rule(i, u, d, t).dest = d /\ Xray!Rule(i, u, d, t).tag = t
BY DEF Xray!Rule, RuleSet

\* The sequence of one rule.
LEMMA OneRule ==
  ASSUME NEW M, NEW r \in RuleSet
  PROVE  /\ <<r>> \in Seq(RuleSet)
         /\ r \in M => First(<<r>>, M, r)
         /\ r \notin M => Without(<<r>>, M)
<1>1. <<r>> \in Seq(RuleSet) /\ DOMAIN <<r>> = {1} /\ <<r>>[1] = r
  OBVIOUS
<1>2. \A k \in 1..(1 - 1) : FALSE
  OBVIOUS
<1> QED  BY <1>1, <1>2 DEF First, Without

\* The sequence of none.
LEMMA NoRule ==
  ASSUME NEW M
  PROVE  <<>> \in Seq(RuleSet) /\ Without(<<>>, M)
<1>1. <<>> \in Seq(RuleSet) /\ DOMAIN <<>> = {}
  OBVIOUS
<1> QED  BY <1>1 DEF Without

\* Xray goes by the first rule that matches.
LEMMA RoutedByFirst ==
  ASSUME NEW s, NEW i, NEW c, NEW d, NEW M, NEW r,
         \A q \in RuleSet : q \in M <=> Xray!Matches(q, i, c, d),
         Xray!routingRules(s) \in Seq(RuleSet), First(Xray!routingRules(s), M, r)
  PROVE  Xray!Routed(s, i, c, d) = Xray!outbound(s, r.tag)
<1>1. PICK rules \in Seq(RuleSet) : rules = Xray!routingRules(s)
  OBVIOUS
<1>2. PICK m \in DOMAIN rules : rules[m] = r /\ \A k \in 1..(m - 1) : rules[k] \notin M
  BY <1>1 DEF First
<1>3. r \in M
  BY DEF First
<1>4. PICK hits : hits = {n \in DOMAIN rules : Xray!Matches(rules[n], i, c, d)}
  OBVIOUS
<1>5. \A n \in DOMAIN rules : rules[n] \in RuleSet /\ n \in Nat /\ n >= 1
  OBVIOUS
<1>6. hits = {n \in DOMAIN rules : rules[n] \in M}
  BY <1>4, <1>5, Zenon
<1>7. m \in hits /\ hits \subseteq Nat
  BY <1>2, <1>3, <1>5, <1>6
<1>8. \A k \in hits : m <= k
  <2> SUFFICES ASSUME NEW k \in hits, ~ (m <= k) PROVE FALSE  OBVIOUS
  <2>1. k \in 1..(m - 1)
    BY <1>5, <1>6, <1>7
  <2> QED  BY <1>2, <1>6, <2>1
<1>9. PICK x : x = CHOOSE n \in hits : \A k \in hits : n <= k
  OBVIOUS
<1>10. x \in hits /\ \A k \in hits : x <= k
  BY <1>7, <1>8, <1>9, Zenon
<1>11. x = m
  BY <1>7, <1>8, <1>10
<1>12. Xray!Routed(s, i, c, d) = Xray!outbound(s, rules[x].tag)
  BY <1>1, <1>4, <1>7, <1>9, Zenon DEF Xray!Routed
<1> QED  BY <1>2, <1>11, <1>12, Zenon

-----------------------------------------------------------------------------
\* The tag of the rule that decides for a client of g.
Decides(s, g, d) ==
  IF s.group[g].ads /\ d = "ads" THEN "block"
  ELSE IF s.group[g].mode = "instance_only" /\ d = "target" THEN "direct"
  ELSE Xray!xrayEffectiveVLESSGroupOutboundTag(s, g)

\* A group's tag is its own, the instance's, or one that is built in.
LEMMA EffectiveTag ==
  ASSUME NEW s, NEW g \in Xray!Groups
  PROVE  Xray!xrayEffectiveVLESSGroupOutboundTag(s, g) \in Xray!Groups \cup {"block", "direct", "egress-default"}
BY Zenon DEF Xray!xrayEffectiveVLESSGroupOutboundTag, Xray!hydratedTag, Xray!groupTag, Xray!Default

\* The rules of a group are for its users alone, and the first that matches
\* one of them is that of the advertisements, the target or the rest.
LEMMA GroupRules ==
  ASSUME NEW s, NEW g \in Xray!Groups, NEW c, NEW d \in {"ads", "target", "other"}
  PROVE  /\ Xray!groupRules(s, g) \in Seq(RuleSet)
         /\ c \notin Xray!usersOf(s, g) => Without(Xray!groupRules(s, g), Hit(c, d))
         /\ c \in Xray!usersOf(s, g) =>
              \E r : r.tag = Decides(s, g, d) /\ First(Xray!groupRules(s, g), Hit(c, d), r)
<1>1. PICK u : u = Xray!usersOf(s, g)
  OBVIOUS
<1>2. u \in SUBSET RoutedClient
  BY <1>1 DEF Xray!usersOf
<1>3. PICK t : t = Xray!xrayEffectiveVLESSGroupOutboundTag(s, g)
  OBVIOUS
<1>4. t \in TagSet /\ "block" \in TagSet /\ "direct" \in TagSet
  BY <1>3, EffectiveTag DEF TagSet
<1>5. PICK M : M = Hit(c, d)
  OBVIOUS
<1>6. PICK r1, r2, r3 : /\ r1 = Xray!Rule("vless-in", u, "ads", "block")
                        /\ r2 = Xray!Rule("vless-in", u, "target", "direct")
                        /\ r3 = Xray!Rule("vless-in", u, "any", t)
  OBVIOUS
<1>7. /\ r1 \in RuleSet /\ r1.tag = "block" /\ r1.dest = "ads" /\ r1.users = u /\ r1.inbound = "vless-in"
      /\ r2 \in RuleSet /\ r2.tag = "direct" /\ r2.dest = "target" /\ r2.users = u /\ r2.inbound = "vless-in"
      /\ r3 \in RuleSet /\ r3.tag = t /\ r3.dest = "any" /\ r3.users = u /\ r3.inbound = "vless-in"
  BY <1>2, <1>4, <1>6, RuleIsOne
<1>8. /\ r1 \in M <=> c \in u /\ d = "ads"
      /\ r2 \in M <=> c \in u /\ d = "target"
      /\ r3 \in M <=> c \in u
  BY <1>5, <1>7 DEF Hit, Xray!Matches
<1>9. CASE u = {}
  <2>1. Xray!groupRules(s, g) = <<>>
    BY <1>1, <1>9 DEF Xray!groupRules
  <2> QED  BY <1>1, <1>9, <2>1, NoRule
<1>10. CASE u # {}
  <2>1. PICK A, B, C : /\ A = IF s.group[g].ads THEN <<r1>> ELSE <<>>
                       /\ B = IF s.group[g].mode = "instance_only" THEN <<r2>> ELSE <<>>
                       /\ C = <<r3>>
    OBVIOUS
  <2>2. Xray!groupRules(s, g) = A \o B \o C
    BY <1>1, <1>3, <1>6, <1>10, <2>1, Zenon DEF Xray!groupRules
  <2>3. A \in Seq(RuleSet) /\ B \in Seq(RuleSet) /\ C \in Seq(RuleSet)
    BY <1>7, <2>1, OneRule, NoRule, Zenon
  <2>4. A \o B \in Seq(RuleSet) /\ (A \o B) \o C \in Seq(RuleSet)
    BY <2>3
  <2>5. ASSUME c \notin u PROVE Without((A \o B) \o C, M)
    <3>1. Without(A, M) /\ Without(B, M) /\ Without(C, M)
      BY <1>7, <1>8, <2>1, <2>5, OneRule, NoRule, Zenon
    <3>2. Without(A \o B, M)
      BY <2>3, <3>1, WithoutBoth
    <3> QED  BY <2>3, <2>4, <3>1, <3>2, WithoutBoth
  <2>6. ASSUME c \in u PROVE \E r : r.tag = Decides(s, g, d) /\ First((A \o B) \o C, M, r)
    <3>1. CASE s.group[g].ads /\ d = "ads"
      <4>1. First(A, M, r1)
        BY <1>7, <1>8, <2>1, <2>6, <3>1, OneRule, Zenon
      <4>2. First(A \o B, M, r1)
        BY <2>3, <4>1, FirstOfFront
      <4>3. First((A \o B) \o C, M, r1)
        BY <2>3, <2>4, <4>2, FirstOfFront
      <4>4. r1.tag = Decides(s, g, d)
        BY <1>7, <3>1, Zenon DEF Decides
      <4> QED  BY <4>3, <4>4
    <3>2. CASE ~(s.group[g].ads /\ d = "ads")
      <4>1. Without(A, M)
        BY <1>7, <1>8, <2>1, <3>2, OneRule, NoRule, Zenon
      <4>2. CASE s.group[g].mode = "instance_only" /\ d = "target"
        <5>1. First(B, M, r2)
          BY <1>7, <1>8, <2>1, <2>6, <4>2, OneRule, Zenon
        <5>2. First(A \o B, M, r2)
          BY <2>3, <4>1, <5>1, FirstOfBack
        <5>3. First((A \o B) \o C, M, r2)
          BY <2>3, <2>4, <5>2, FirstOfFront
        <5>4. r2.tag = Decides(s, g, d)
          BY <1>7, <3>2, <4>2, Zenon DEF Decides
        <5> QED  BY <5>3, <5>4
      <4>3. CASE ~(s.group[g].mode = "instance_only" /\ d = "target")
        <5>1. Without(B, M)
          BY <1>7, <1>8, <2>1, <4>3, OneRule, NoRule, Zenon
        <5>2. Without(A \o B, M)
          BY <2>3, <4>1, <5>1, WithoutBoth
        <5>3. First(C, M, r3)
          BY <1>7, <1>8, <2>1, <2>6, OneRule, Zenon
        <5>4. First((A \o B) \o C, M, r3)
          BY <2>3, <2>4, <5>2, <5>3, FirstOfBack
        <5>5. r3.tag = Decides(s, g, d)
          BY <1>3, <1>7, <3>2, <4>3, Zenon DEF Decides
        <5> QED  BY <5>4, <5>5
      <4> QED  BY <4>2, <4>3
    <3> QED  BY <3>1, <3>2
  <2> QED  BY <1>1, <1>5, <2>2, <2>4, <2>5, <2>6, Zenon
<1> QED  BY <1>9, <1>10

\* The group a client of the spec s is in.
GroupIn(s, c) == IF s.client[c] \in Xray!Groups THEN s.client[c] ELSE Head(Key)

\* There is one.
LEMMA GroupInGroups ==
  ASSUME NEW s, NEW c  PROVE GroupIn(s, c) \in Xray!Groups
<1>1. Key \in Seq(STRING) /\ Key # <<>>
  BY KeyAssumption
<1>2. 1 \in DOMAIN Key /\ Head(Key) = Key[1]
  BY <1>1
<1>3. Head(Key) \in Xray!Groups
  BY <1>2 DEF Xray!Groups, Xray!Range
<1> QED  BY <1>3, Zenon DEF GroupIn

\* Among the rules of all groups the first that matches a client is of its group.
LEMMA RulesOfGroups ==
  ASSUME NEW s, NEW c \in RoutedClient, NEW d \in {"ads", "target", "other"}
  PROVE  /\ Xray!xrayVLESSGroupRoutingRules(s) \in Seq(RuleSet)
         /\ \E r : r.tag = Decides(s, GroupIn(s, c), d) /\ First(Xray!xrayVLESSGroupRoutingRules(s), Hit(c, d), r)
<1>1. PICK g \in Xray!Groups : g = GroupIn(s, c)
  BY GroupInGroups
<1>2. \A h \in Xray!Groups : c \in Xray!usersOf(s, h) <=> h = g
  BY <1>1, Zenon DEF Xray!usersOf, GroupIn
<1>3. PICK r : r.tag = Decides(s, g, d) /\ First(Xray!groupRules(s, g), Hit(c, d), r)
  BY <1>2, GroupRules
<1>4. PICK M : M = Hit(c, d)
  OBVIOUS
<1>5. PICK ss : ss = [n \in DOMAIN Key |-> Xray!groupRules(s, Key[n])]
  OBVIOUS
<1>6. \A n \in DOMAIN Key : Key[n] \in Xray!Groups
  BY DEF Xray!Groups, Xray!Range
<1>7. \A n \in DOMAIN Key : ss[n] = Xray!groupRules(s, Key[n]) /\ ss[n] \in Seq(RuleSet)
  BY <1>5, <1>6, GroupRules, Zenon
<1>8. DOMAIN Key = 1..Len(Key) /\ Len(Key) \in Nat
  BY KeyAssumption
<1>9. ss \in Seq(Seq(RuleSet)) /\ DOMAIN ss = DOMAIN Key
  <2>1. ss \in [1..Len(Key) -> Seq(RuleSet)]
    BY <1>5, <1>7, <1>8
  <2> QED  BY <1>8, <2>1
<1>10. \A n \in DOMAIN ss : Without(ss[n], M) \/ First(ss[n], M, r)
  <2> SUFFICES ASSUME NEW n \in DOMAIN ss PROVE Without(ss[n], M) \/ First(ss[n], M, r)  OBVIOUS
  <2>1. CASE Key[n] = g
    BY <1>3, <1>4, <1>7, <1>9, <2>1, Zenon
  <2>2. CASE Key[n] # g
    <3>1. c \notin Xray!usersOf(s, Key[n]) /\ Key[n] \in Xray!Groups
      <4>1. Key[n] \in Xray!Groups
        BY <1>6, <1>9
      <4> QED  BY <1>2, <2>2, <4>1
    <3>2. Without(Xray!groupRules(s, Key[n]), Hit(c, d))
      BY <3>1, GroupRules
    <3> QED  BY <1>4, <1>7, <1>9, <3>2, Zenon
  <2> QED  BY <2>1, <2>2
<1>11. \E n \in DOMAIN ss : First(ss[n], M, r)
  <2>1. PICK n \in DOMAIN Key : Key[n] = g
    BY DEF Xray!Groups, Xray!Range
  <2> QED  BY <1>3, <1>4, <1>7, <1>9, <2>1, Zenon
<1>12. Xray!FlattenSeq(ss) \in Seq(RuleSet) /\ First(Xray!FlattenSeq(ss), M, r)
  BY <1>9, <1>10, <1>11, FirstOfFlattened
<1>13. Xray!xrayVLESSGroupRoutingRules(s) = Xray!FlattenSeq(ss)
  BY <1>5, Zenon DEF Xray!xrayVLESSGroupRoutingRules
<1> QED  BY <1>1, <1>3, <1>4, <1>12, <1>13, Zenon

\* A client's traffic leaves where the tag of the deciding rule of its group
\* goes; the statistics inbound goes to the API.
LEMMA RoutedByGroup ==
  ASSUME NEW s, NEW c \in RoutedClient, NEW d \in {"ads", "target", "other"}
  PROVE  /\ Xray!Routed(s, "vless-in", c, d) = Xray!outbound(s, Decides(s, GroupIn(s, c), d))
         /\ s.stats => Xray!Routed(s, "api", c, d) = "api"
<1>1. PICK P, Q, R : /\ P = IF s.stats THEN <<Xray!Rule("api", {}, "any", "api")>> ELSE <<>>
                     /\ Q = Xray!xrayVLESSGroupRoutingRules(s)
                     /\ R = IF s.via = "none" THEN <<>>
                            ELSE <<Xray!Rule("vless-in", RoutedClient, "any", "egress-default")>>
  OBVIOUS
<1>2. PICK a, b : /\ a = Xray!Rule("api", {}, "any", "api")
                  /\ b = Xray!Rule("vless-in", RoutedClient, "any", "egress-default")
  OBVIOUS
<1>3. a \in RuleSet /\ b \in RuleSet /\ a.inbound = "api" /\ a.dest = "any" /\ a.tag = "api"
  <2>1. {} \in SUBSET RoutedClient /\ RoutedClient \in SUBSET RoutedClient /\ "api" \in TagSet /\ "egress-default" \in TagSet
    BY DEF TagSet
  <2> QED  BY <1>2, <2>1, RuleIsOne
<1>4. P \in Seq(RuleSet) /\ R \in Seq(RuleSet)
  BY <1>1, <1>2, <1>3, OneRule, NoRule, Zenon
<1>5. Q \in Seq(RuleSet)
  BY <1>1, RulesOfGroups
<1>6. Xray!routingRules(s) = P \o Q \o R
  BY <1>1, Zenon DEF Xray!routingRules, Xray!None, Xray!Default
<1>7. P \o Q \in Seq(RuleSet) /\ (P \o Q) \o R \in Seq(RuleSet)
  BY <1>4, <1>5
<1>8. Xray!Routed(s, "vless-in", c, d) = Xray!outbound(s, Decides(s, GroupIn(s, c), d))
  <2>1. PICK r : r.tag = Decides(s, GroupIn(s, c), d) /\ First(Q, Hit(c, d), r)
    BY <1>1, RulesOfGroups
  <2>2. PICK M : M = Hit(c, d)
    OBVIOUS
  <2>3. a \notin M
    BY <1>3, <2>2 DEF Hit, Xray!Matches
  <2>4. Without(P, M)
    BY <1>1, <1>2, <1>3, <2>3, OneRule, NoRule, Zenon
  <2>5. First(P \o Q, M, r)
    BY <1>4, <1>5, <2>1, <2>2, <2>4, FirstOfBack
  <2>6. First((P \o Q) \o R, M, r)
    BY <1>4, <1>7, <2>5, FirstOfFront
  <2>7. \A q \in RuleSet : q \in M <=> Xray!Matches(q, "vless-in", c, d)
    BY <2>2, Zenon DEF Hit
  <2>8. Xray!Routed(s, "vless-in", c, d) = Xray!outbound(s, r.tag)
    BY <1>6, <1>7, <2>6, <2>7, RoutedByFirst
  <2> QED  BY <2>1, <2>8, Zenon
<1>9. ASSUME s.stats PROVE Xray!Routed(s, "api", c, d) = "api"
  <2>1. PICK M : M = {r \in RuleSet : Xray!Matches(r, "api", c, d)}
    OBVIOUS
  <2>2. a \in M
    BY <1>3, <2>1 DEF Xray!Matches
  <2>3. First(P, M, a)
    BY <1>1, <1>2, <1>3, <1>9, <2>2, OneRule, Zenon
  <2>4. First(P \o Q, M, a)
    BY <1>4, <1>5, <2>3, FirstOfFront
  <2>5. First((P \o Q) \o R, M, a)
    BY <1>4, <1>7, <2>4, FirstOfFront
  <2>6. \A q \in RuleSet : q \in M <=> Xray!Matches(q, "api", c, d)
    BY <2>1, Zenon
  <2>7. Xray!Routed(s, "api", c, d) = Xray!outbound(s, a.tag)
    BY <1>6, <1>7, <2>5, <2>6, RoutedByFirst
  <2> QED  BY <1>3, <2>7 DEF Xray!outbound, Xray!Default
<1> QED  BY <1>8, <1>9

-----------------------------------------------------------------------------
(***************************************************************************)
(* What a spec is like: s in general, then after a resolver has run on the *)
(* role ro with the links l.                                               *)
(***************************************************************************)
AnyAddress == UNION {Address[n] : n \in EgressNode}
GroupModes == {"default", "local", "block", "instance_only", "node"}

GroupRecs ==
  [mode : GroupModes, node : EgressNode \cup {"none"}, ads : BOOLEAN, tag : {"block", "direct", "egress"},
   via : AnyAddress \cup {"none"}, by : {"none", "worker", "control-plane"}]

GroupOk(g) ==
  /\ g \in GroupRecs
  /\ g.mode = "node" => g.node \in EgressNode
  /\ g.by = "none" => g.via = "none"
  /\ g.mode # "block" => g.tag # "block"

SpecRecs ==
  [group : [Xray!Groups -> GroupRecs], mode : {"unset", "local", "node"}, node : EgressNode \cup {"none"},
   egress : EgressNode \cup {"none", "local"}, via : AnyAddress \cup {"none"},
   client : [RoutedClient -> Xray!Groups], stats : BOOLEAN]

DefaultOk(s, ro) ==
  /\ s.mode = "node" => s.node \in EgressNode
  /\ s.egress \notin EgressNode => s.via = "none"
  /\ ro = "egress" => s.via = "none"

SpecOk(s, ro) == s \in SpecRecs /\ DefaultOk(s, ro) /\ \A g \in Xray!Groups : GroupOk(s.group[g])

\* A group that w, the worker or the control plane, has resolved.
GroupFresh(g, w, ro, l) ==
  /\ g.mode \in {"default", "instance_only"} => g.via = "none" \/ (w /\ g.by = "control-plane")
  /\ g.mode = "node" /\ ro = "egress" => g.via = "none"
  /\ g.mode = "node" /\ ro = "ingress" => g.via = l[g.node] /\ g.via # "none"

DefaultFresh(s, ro, l) ==
  /\ s.mode = "local" => s.via = "none"
  /\ s.mode = "node" /\ ro = "ingress" => s.via = l[s.node] /\ s.via # "none"
  /\ s.mode = "unset" /\ ro = "ingress" /\ s.egress \in EgressNode => s.via = l[s.egress] /\ s.via # "none"

SpecFresh(s, w, ro, l) ==
  /\ DefaultFresh(s, ro, l)
  /\ \A g \in Xray!Groups : GroupFresh(s.group[g], w, ro, l)

LinkOk == role \in {"ingress", "egress"} /\ \A n \in EgressNode : link[n] \in Address[n] \cup {"none"}

\* What ResolveXrayVLESSEgress answers.
LEMMA EgressResolved ==
  ASSUME LinkOk, NEW n \in EgressNode \cup {"none"}, NEW r, r = Xray!ResolveXrayVLESSEgress(n), r.via # "none"
  PROVE  /\ role = "egress" => r.via = "local"
         /\ role = "ingress" =>
              /\ r.node \in EgressNode /\ r.via = link[r.node] /\ r.via \in AnyAddress /\ r.via # "local"
              /\ n # "none" => r.node = n
<1>1. CASE role = "egress"
  BY <1>1 DEF Xray!ResolveXrayVLESSEgress
<1>2. CASE role = "ingress"
  <2>1. ASSUME NEW m \in EgressNode, link[m] # "none" PROVE link[m] \in AnyAddress /\ link[m] # "local"
    BY <2>1, AddressAssumption DEF LinkOk, AnyAddress
  <2>2. CASE n # "none"
    <3>1. r = [node |-> n, via |-> link[n]]
      BY <1>2, <2>2 DEF Xray!ResolveXrayVLESSEgress, Xray!None
    <3>2. r.node = n /\ r.via = link[n] /\ n \in EgressNode
      BY <2>2, <3>1
    <3> QED  BY <1>2, <2>1, <3>2
  <2>3. CASE n = "none"
    <3>1. CASE \E m \in EgressNode : Xray!listRoutePolicyBackhauls = {m}
      <4>1. PICK m \in EgressNode : Xray!listRoutePolicyBackhauls = {m}
        BY <3>1
      <4>2. (CHOOSE x \in Xray!listRoutePolicyBackhauls : TRUE) = m
        BY <4>1
      <4>3. r = [node |-> m, via |-> link[m]]
        BY <1>2, <2>3, <3>1, <4>2, Zenon DEF Xray!ResolveXrayVLESSEgress, Xray!None
      <4>4. r.node = m /\ r.via = link[m]
        BY <4>3
      <4> QED  BY <1>2, <2>1, <2>3, <4>4
    <3>2. CASE ~ \E m \in EgressNode : Xray!listRoutePolicyBackhauls = {m}
      <4>1. r = [node |-> "none", via |-> "none"]
        BY <1>2, <2>3, <3>2, Zenon DEF Xray!ResolveXrayVLESSEgress, Xray!None
      <4> QED  BY <4>1
    <3> QED  BY <3>1, <3>2
  <2> QED  BY <2>2, <2>3
<1> QED  BY <1>1, <1>2 DEF LinkOk

\* Clearing takes back via and by or leaves a group whose via stays.
LEMMA Cleared ==
  ASSUME NEW g, GroupOk(g), NEW w \in BOOLEAN, NEW h, h = Xray!clearResolved(g, w)
  PROVE  /\ GroupOk(h) /\ h.mode = g.mode /\ h.node = g.node /\ h.ads = g.ads
         /\ h.via = "none" \/ (w /\ h.by = "control-plane")
<1>1. CASE g.by = "none" \/ (w /\ g.by # "worker")
  <2>1. h = g
    BY <1>1, Zenon DEF Xray!clearResolved, Xray!None
  <2> QED  BY <1>1, <2>1 DEF GroupOk, GroupRecs
<1>2. CASE ~(g.by = "none" \/ (w /\ g.by # "worker"))
  <2>1. h = [g EXCEPT !.via = "none", !.by = "none"]
    BY <1>2, Zenon DEF Xray!clearResolved, Xray!None
  <2> QED  BY <2>1 DEF GroupOk, GroupRecs
<1> QED  BY <1>1, <1>2

\* A resolver leaves a group as its mode, the role and the links say.
LEMMA GroupResolved ==
  ASSUME LinkOk, NEW g, GroupOk(g), NEW w \in BOOLEAN, ~Xray!groupFails(g),
         NEW h, h = Xray!resolveXrayVLESSGroupEgress(g, w)
  PROVE  GroupOk(h) /\ h.mode = g.mode /\ h.node = g.node /\ GroupFresh(h, w, role, link)
<1>1. g.mode \in GroupModes
  BY DEF GroupOk, GroupRecs
<1>2. CASE g.mode \in {"default", "instance_only"}
  <2>1. h = Xray!clearResolved(g, w)
    BY <1>2 DEF Xray!resolveXrayVLESSGroupEgress
  <2>2. GroupOk(h) /\ h.mode = g.mode /\ h.node = g.node /\ (h.via = "none" \/ (w /\ h.by = "control-plane"))
    BY <2>1, Cleared
  <2> QED  BY <1>2, <2>2 DEF GroupFresh
<1>3. CASE g.mode = "local"
  <2>1. PICK k : k = [g EXCEPT !.tag = "direct"]
    OBVIOUS
  <2>2. GroupOk(k) /\ k.mode = g.mode /\ k.node = g.node
    BY <1>3, <2>1 DEF GroupOk, GroupRecs
  <2>3. h = Xray!clearResolved(k, w)
    BY <1>3, <2>1 DEF Xray!resolveXrayVLESSGroupEgress
  <2>4. GroupOk(h) /\ h.mode = k.mode /\ h.node = k.node
    BY <2>2, <2>3, Cleared
  <2> QED  BY <1>3, <2>2, <2>4 DEF GroupFresh
<1>4. CASE g.mode = "block"
  <2>1. PICK k : k = [g EXCEPT !.tag = "block"]
    OBVIOUS
  <2>2. GroupOk(k) /\ k.mode = g.mode /\ k.node = g.node
    BY <1>4, <2>1 DEF GroupOk, GroupRecs
  <2>3. h = Xray!clearResolved(k, w)
    BY <1>4, <2>1 DEF Xray!resolveXrayVLESSGroupEgress
  <2>4. GroupOk(h) /\ h.mode = k.mode /\ h.node = k.node
    BY <2>2, <2>3, Cleared
  <2> QED  BY <1>4, <2>2, <2>4 DEF GroupFresh
<1>5. CASE g.mode = "node"
  <2>1. PICK r : r = Xray!ResolveXrayVLESSEgress(g.node)
    OBVIOUS
  <2>2. g.node \in EgressNode /\ g.node # "none"
    BY <1>5, NodeAssumption DEF GroupOk
  <2>3. r.via # "none"
    BY <1>5, <2>1 DEF Xray!groupFails, Xray!Failed, Xray!None
  <2>4. PICK by : by = IF w THEN "worker" ELSE "control-plane"
    OBVIOUS
  <2>5. by \in {"worker", "control-plane"}
    BY <2>4
  <2>6. h = IF r.via = "local" THEN [g EXCEPT !.tag = "direct", !.via = "none", !.by = by]
            ELSE [g EXCEPT !.tag = "egress", !.via = r.via, !.by = by]
    BY <1>5, <2>1, <2>4 DEF Xray!resolveXrayVLESSGroupEgress, Xray!None
  <2>7. /\ role = "egress" => r.via = "local"
        /\ role = "ingress" => r.via = link[g.node] /\ r.via \in AnyAddress /\ r.via # "local"
    <3>1. PICK n : n = g.node
      OBVIOUS
    <3>2. n \in EgressNode \cup {"none"} /\ r = Xray!ResolveXrayVLESSEgress(n) /\ n # "none"
      BY <2>1, <2>2, <3>1
    <3> QED  BY <2>3, <3>1, <3>2, EgressResolved
  <2>8. CASE role = "egress"
    <3>1. h = [g EXCEPT !.tag = "direct", !.via = "none", !.by = by]
      BY <2>6, <2>7, <2>8
    <3>2. GroupOk(h) /\ h.mode = "node" /\ h.node = g.node /\ h.via = "none"
      BY <1>5, <2>2, <2>5, <3>1 DEF GroupOk, GroupRecs
    <3> QED  BY <1>5, <2>8, <3>2 DEF GroupFresh
  <2>9. CASE role = "ingress"
    <3>1. h = [g EXCEPT !.tag = "egress", !.via = r.via, !.by = by]
      BY <2>6, <2>7, <2>9
    <3>2. GroupOk(h) /\ h.mode = "node" /\ h.node = g.node /\ h.via = r.via
      BY <1>5, <2>2, <2>5, <2>7, <2>9, <3>1 DEF GroupOk, GroupRecs
    <3> QED  BY <1>5, <2>3, <2>7, <2>9, <3>2 DEF GroupFresh
  <2> QED  BY <2>8, <2>9 DEF LinkOk
<1> QED  BY <1>1, <1>2, <1>3, <1>4, <1>5 DEF GroupModes

\* ... and the instance's own egress.
LEMMA DefaultResolved ==
  ASSUME LinkOk, NEW s \in SpecRecs, DefaultOk(s, role), NEW w \in BOOLEAN, ~Xray!defaultFails(s, w),
         NEW d, d = Xray!resolveXrayDefaultEgress(s, w)
  PROVE  /\ d \in SpecRecs /\ DefaultOk(d, role) /\ DefaultFresh(d, role, link)
         /\ d.group = s.group /\ d.client = s.client
<1>1. PICK q : q = Xray!defaultRequest(s)
  OBVIOUS
<1>2. s.mode \in {"unset", "local", "node"} /\ s.egress \in EgressNode \cup {"none", "local"}
  BY DEF SpecRecs
<1>3. /\ s.mode = "local" => q = "local"
      /\ s.mode = "node" => q = s.node /\ q \in EgressNode
      /\ s.mode = "unset" => q = s.egress
      /\ q \in EgressNode \cup {"none", "local"}
  BY <1>1, <1>2 DEF Xray!defaultRequest, DefaultOk
<1>4. PICK r : r = IF q = "local" THEN [node |-> "none", via |-> "local"] ELSE Xray!ResolveXrayVLESSEgress(q)
  OBVIOUS
<1>5. CASE q = "none" /\ ~w
  <2>1. d = s
    BY <1>1, <1>5, Zenon DEF Xray!resolveXrayDefaultEgress, Xray!None
  <2>2. s.mode = "unset" /\ s.egress = "none"
    BY <1>2, <1>3, <1>5, NodeAssumption
  <2> QED  BY <2>1, <2>2, NodeAssumption DEF DefaultFresh
<1>6. CASE ~(q = "none" /\ ~w)
  <2>1. PICK e, v : /\ e = (IF r.via = "local" THEN "local" ELSE r.node)
                    /\ v = (IF r.via = "local" THEN "none" ELSE r.via)
    OBVIOUS
  <2>2. d = [s EXCEPT !.egress = e, !.via = v]
    BY <1>1, <1>4, <1>6, <2>1, Zenon DEF Xray!resolveXrayDefaultEgress, Xray!None
  <2>3. \/ e = "local" /\ v = "none" /\ (q = "local" \/ role = "egress")
        \/ /\ e \in EgressNode /\ v = link[e] /\ v \in AnyAddress /\ role = "ingress" /\ v # "none"
           /\ q # "local" /\ (q # "none" => e = q)
    <3>1. CASE q = "local"
      <4>1. r.via = "local"
        BY <1>4, <3>1
      <4> QED  BY <2>1, <3>1, <4>1
    <3>2. CASE q # "local"
      <4>1. r = Xray!ResolveXrayVLESSEgress(q) /\ q \in EgressNode \cup {"none"}
        BY <1>3, <1>4, <3>2
      <4>2. r.via # "none"
        BY <1>1, <1>6, <3>2, <4>1, Zenon DEF Xray!defaultFails, Xray!Failed, Xray!None
      <4>3. /\ role = "egress" => r.via = "local"
            /\ role = "ingress" =>
                 /\ r.node \in EgressNode /\ r.via = link[r.node] /\ r.via \in AnyAddress /\ r.via # "local"
                 /\ q # "none" => r.node = q
        BY <4>1, <4>2, EgressResolved
      <4>4. CASE role = "egress"
        BY <2>1, <4>3, <4>4
      <4>5. CASE role = "ingress"
        BY <2>1, <3>2, <4>2, <4>3, <4>5
      <4> QED  BY <4>4, <4>5 DEF LinkOk
    <3> QED  BY <3>1, <3>2
  <2>4. /\ d \in SpecRecs /\ d.egress = e /\ d.via = v /\ d.group = s.group /\ d.client = s.client
        /\ d.mode = s.mode /\ d.node = s.node
    BY <2>2, <2>3 DEF SpecRecs
  <2>5. CASE e = "local" /\ v = "none" /\ (q = "local" \/ role = "egress")
    <3>1. DefaultOk(d, role)
      BY <2>4, <2>5 DEF DefaultOk
    <3>2. d.mode = "node" /\ role = "ingress" => FALSE
      BY <1>3, <2>4, <2>5, NodeAssumption
    <3>3. d.egress \notin EgressNode
      BY <2>4, <2>5, NodeAssumption
    <3> QED  BY <2>4, <2>5, <3>1, <3>2, <3>3 DEF DefaultFresh
  <2>6. CASE /\ e \in EgressNode /\ v = link[e] /\ v \in AnyAddress /\ role = "ingress" /\ v # "none"
             /\ q # "local" /\ (q # "none" => e = q)
    <3>1. DefaultOk(d, role)
      BY <2>4, <2>6 DEF DefaultOk
    <3>2. d.mode # "local"
      BY <1>3, <2>4, <2>6
    <3>3. d.mode = "node" => d.via = link[d.node] /\ d.via # "none"
      BY <1>3, <2>4, <2>6, NodeAssumption
    <3> QED  BY <2>4, <2>6, <3>1, <3>2, <3>3 DEF DefaultFresh
  <2> QED  BY <2>3, <2>4, <2>5, <2>6
<1> QED  BY <1>5, <1>6

\* A spec a resolver has been through.
LEMMA SpecResolved ==
  ASSUME LinkOk, NEW s, SpecOk(s, role), NEW w \in BOOLEAN, Xray!Resolves(s, w),
         NEW t, t = Xray!resolvedSpec(s, w)
  PROVE  SpecOk(t, role) /\ SpecFresh(t, w, role, link)
<1>1. PICK d : d = Xray!resolveXrayDefaultEgress(s, w)
  OBVIOUS
<1>2. ~Xray!defaultFails(s, w) /\ \A g \in Xray!Groups : ~Xray!groupFails(s.group[g])
  BY DEF Xray!Resolves
<1>3. s \in SpecRecs /\ DefaultOk(s, role) /\ \A g \in Xray!Groups : GroupOk(s.group[g])
  BY DEF SpecOk
<1>4. /\ d \in SpecRecs /\ DefaultOk(d, role) /\ DefaultFresh(d, role, link)
      /\ d.group = s.group /\ d.client = s.client
  BY <1>1, <1>2, <1>3, DefaultResolved
<1>5. PICK f : f = [g \in Xray!Groups |-> Xray!resolveXrayVLESSGroupEgress(s.group[g], w)]
  OBVIOUS
<1>6. \A g \in Xray!Groups : GroupOk(f[g]) /\ GroupFresh(f[g], w, role, link)
  <2> SUFFICES ASSUME NEW g \in Xray!Groups PROVE GroupOk(f[g]) /\ GroupFresh(f[g], w, role, link)  OBVIOUS
  <2>1. PICK k, h : k = s.group[g] /\ h = f[g]
    OBVIOUS
  <2>2. GroupOk(k) /\ ~Xray!groupFails(k) /\ h = Xray!resolveXrayVLESSGroupEgress(k, w)
    BY <1>2, <1>3, <1>5, <2>1, Zenon
  <2>3. GroupOk(h) /\ GroupFresh(h, w, role, link)
    BY <2>2, GroupResolved
  <2> QED  BY <2>1, <2>3, Zenon
<1>7. f \in [Xray!Groups -> GroupRecs]
  BY <1>5, <1>6 DEF GroupOk
<1>8. t = [d EXCEPT !.group = f]
  BY <1>1, <1>5, Zenon DEF Xray!resolvedSpec
<1>9. /\ t \in SpecRecs /\ t.group = f /\ t.mode = d.mode /\ t.node = d.node /\ t.egress = d.egress /\ t.via = d.via
  BY <1>4, <1>7, <1>8 DEF SpecRecs
<1>10. DefaultOk(t, role) /\ DefaultFresh(t, role, link)
  BY <1>4, <1>9 DEF DefaultOk, DefaultFresh
<1> QED  BY <1>6, <1>9, <1>10 DEF SpecOk, SpecFresh

-----------------------------------------------------------------------------
(***************************************************************************)
(* The inductive invariant of the part "xray".                             *)
(***************************************************************************)
PolicyRecs == [mode : GroupModes, node : EgressNode \cup {"none"}, ads : BOOLEAN]

XrayType ==
  /\ role \in {"ingress", "egress"}
  /\ template \in [Catalogued -> PolicyRecs]
  /\ \A g \in Catalogued : template[g].mode = "node" => template[g].node \in EgressNode
  /\ link \in [EgressNode -> AnyAddress \cup {"none"}]
  /\ \A n \in EgressNode : link[n] \in Address[n] \cup {"none"}
  /\ fresh \in {"none", "worker", "control-plane"}

\* A group some resolver has seen with the mode it has keeps an address.
RemoteHasAddress ==
  \A g \in resolved : role = "ingress" /\ spec.group[g].mode = "node" => spec.group[g].via # "none"

XrayInv ==
  /\ XrayType
  /\ SpecOk(spec, role)
  /\ fresh # "none" => SpecFresh(spec, fresh = "worker", role, link)
  /\ resolved \subseteq Xray!Groups
  /\ RemoteHasAddress

\* A policy's mode is one of the five, and "node" comes with a node.
LEMMA ModeOk ==
  ASSUME NEW mode \in Xray!Modes
  PROVE  /\ mode[1] \in GroupModes /\ mode[2] \in EgressNode \cup {"none"}
         /\ mode[1] = "node" => mode[2] \in EgressNode
BY DEF Xray!Modes, GroupModes, Xray!None

\* What the catalogue writes into a spec is a group.
LEMMA PolicyGroupOk ==
  ASSUME NEW p \in PolicyRecs, p.mode = "node" => p.node \in EgressNode
  PROVE  GroupOk(Xray!PolicyGroup(p)) /\ Xray!PolicyGroup(p).mode = p.mode
<1>1. PICK g : g = Xray!PolicyGroup(p)
  OBVIOUS
<1>2. PICK t : t = IF p.mode = "block" THEN "block" ELSE "direct"
  OBVIOUS
<1>3. g = [mode |-> p.mode, node |-> p.node, ads |-> p.ads, tag |-> t, via |-> "none", by |-> "none"]
  BY <1>1, <1>2 DEF Xray!PolicyGroup, Xray!None
<1>4. /\ g.mode = p.mode /\ g.node = p.node /\ g.tag = t /\ g.via = "none" /\ g.by = "none"
      /\ t \in {"block", "direct"} /\ (p.mode # "block" => t = "direct")
  BY <1>2, <1>3
<1>5. g \in GroupRecs
  BY <1>3, <1>4 DEF PolicyRecs, GroupRecs
<1> QED  BY <1>1, <1>4, <1>5 DEF GroupOk

\* A policy is one.
LEMMA PolicyOk ==
  ASSUME NEW mode \in Xray!Modes, NEW ads \in BOOLEAN
  PROVE  /\ Xray!Policy(mode, ads) \in PolicyRecs
         /\ Xray!Policy(mode, ads).mode = mode[1]
         /\ Xray!Policy(mode, ads).mode = "node" => Xray!Policy(mode, ads).node \in EgressNode
<1>1. /\ mode[1] \in GroupModes /\ mode[2] \in EgressNode \cup {"none"}
      /\ mode[1] = "node" => mode[2] \in EgressNode
  BY ModeOk
<1> QED  BY <1>1 DEF Xray!Policy, PolicyRecs

\* It holds when the behaviour starts.
LEMMA XrayInvInit == Xray!Init => XrayInv
<1> SUFFICES ASSUME Xray!Init PROVE XrayInv  OBVIOUS
<1>1. PICK dm : dm = <<"default", "none">>
  OBVIOUS
<1>2. dm \in Xray!Modes /\ dm[1] = "default"
  BY <1>1 DEF Xray!Modes, Xray!None
<1>3. PICK d : d = Xray!PolicyGroup(Xray!Policy(dm, FALSE))
  OBVIOUS
<1>4. GroupOk(d) /\ d \in GroupRecs
  BY <1>2, <1>3, PolicyOk, PolicyGroupOk DEF GroupOk
<1>5. PICK f : f = [g \in Xray!Groups |-> d]
  OBVIOUS
<1>6. f \in [Xray!Groups -> GroupRecs] /\ \A g \in Xray!Groups : f[g] = d
  BY <1>4, <1>5
<1>7. Head(Key) \in Xray!Groups
  BY KeyAssumption DEF Xray!Groups, Xray!Range
<1>8. PICK cl : cl = [c \in RoutedClient |-> Head(Key)]
  OBVIOUS
<1>9. cl \in [RoutedClient -> Xray!Groups]
  BY <1>7, <1>8
<1>10. spec = [group |-> f, mode |-> "unset", node |-> "none", egress |-> "none", via |-> "none",
               client |-> cl, stats |-> FALSE]
  BY <1>1, <1>3, <1>5, <1>8, Zenon DEF Xray!Init, Xray!None
<1>11. /\ spec \in SpecRecs /\ spec.group = f /\ spec.mode = "unset" /\ spec.egress = "none" /\ spec.via = "none"
  BY <1>6, <1>9, <1>10 DEF SpecRecs
<1>12. SpecOk(spec, role)
  BY <1>4, <1>6, <1>11 DEF SpecOk, DefaultOk
<1>13. role \in {"ingress", "egress"} /\ fresh = "none" /\ resolved = {}
  BY DEF Xray!Init, Xray!None
<1>14. /\ template \in [Catalogued -> PolicyRecs]
       /\ \A g \in Catalogued : template[g].mode = "node" => template[g].node \in EgressNode
  <2>1. PICK mode \in Xray!Modes : template = [g \in Catalogued |-> Xray!Policy(mode, FALSE)]
    BY DEF Xray!Init
  <2>2. PICK p \in PolicyRecs : p = Xray!Policy(mode, FALSE) /\ (p.mode = "node" => p.node \in EgressNode)
    BY PolicyOk
  <2> QED  BY <2>1, <2>2
<1>15. link \in [EgressNode -> AnyAddress \cup {"none"}] /\ \A n \in EgressNode : link[n] \in Address[n] \cup {"none"}
  BY DEF Xray!Init, AnyAddress, Xray!None
<1> QED  BY <1>12, <1>13, <1>14, <1>15 DEF XrayInv, XrayType, RemoteHasAddress

\* A resolver that has not failed leaves the spec right.
LEMMA XrayBecomes ==
  ASSUME XrayInv, NEW w \in BOOLEAN, NEW u, SpecOk(u, role), SpecFresh(u, w, role, link),
         Xray!Becomes(u, IF w THEN "worker" ELSE "control-plane")
  PROVE  XrayInv'
<1>1. PICK by : by = IF w THEN "worker" ELSE "control-plane"
  OBVIOUS
<1>2. by \in {"worker", "control-plane"} /\ ((by = "worker") <=> w)
  BY <1>1
<1>3. spec' = u /\ fresh' = by /\ resolved' = Xray!Groups /\ role' = role /\ template' = template /\ link' = link
  BY <1>1 DEF Xray!Becomes
<1>4. XrayType'
  BY <1>2, <1>3 DEF XrayInv, XrayType
<1>5. SpecOk(spec, role)'
  <2>1. SpecOk(spec', role')
    BY <1>3
  <2> QED  BY <2>1
<1>6. SpecFresh(u, by = "worker", role, link)
  BY <1>2 DEF SpecFresh, GroupFresh
<1>7. SpecFresh(spec', fresh' = "worker", role', link')
  BY <1>3, <1>6
<1>8. RemoteHasAddress'
  BY <1>3 DEF RemoteHasAddress, SpecFresh, GroupFresh
<1> QED  BY <1>3, <1>4, <1>5, <1>7, <1>8 DEF XrayInv

\* Editing the catalogue.
LEMMA XrayEditCatalogue ==
  ASSUME XrayInv, Xray!EditCatalogue  PROVE XrayInv'
<1>1. /\ UNCHANGED <<role, spec, link, resolved>> /\ fresh' = "none"
  BY DEF Xray!EditCatalogue, Xray!Edit, Xray!None
<1>2. PICK g \in Catalogued, mode \in Xray!Modes, ads \in BOOLEAN : template' = [template EXCEPT ![g] = Xray!Policy(mode, ads)]
  BY DEF Xray!EditCatalogue
<1>3. PICK p \in PolicyRecs : p = Xray!Policy(mode, ads) /\ (p.mode = "node" => p.node \in EgressNode)
  BY PolicyOk
<1>4. XrayType'
  BY <1>1, <1>2, <1>3 DEF XrayInv, XrayType
<1>5. SpecOk(spec', role') /\ RemoteHasAddress'
  BY <1>1 DEF XrayInv, RemoteHasAddress
<1> QED  BY <1>1, <1>4, <1>5 DEF XrayInv

\* Editing a group: its via and by come along, and it is not resolved.
LEMMA XrayEditGroup ==
  ASSUME XrayInv, Xray!EditGroup  PROVE XrayInv'
<1>1. /\ UNCHANGED <<role, template, link>> /\ fresh' = "none"
  BY DEF Xray!EditGroup, Xray!Edit, Xray!None
<1>2. PICK g \in Xray!Groups \ Catalogued, mode \in Xray!Modes :
        /\ spec' = [spec EXCEPT !.group[g] =
             [@ EXCEPT !.mode = mode[1], !.node = mode[2], !.tag = IF mode[1] = "block" THEN "block" ELSE "direct"]]
        /\ resolved' = resolved \ {g}
  BY DEF Xray!EditGroup
<1>3. PICK m, n, t : m = mode[1] /\ n = mode[2] /\ t = IF m = "block" THEN "block" ELSE "direct"
  OBVIOUS
<1>4. m \in GroupModes /\ n \in EgressNode \cup {"none"} /\ (m = "node" => n \in EgressNode)
  BY <1>3, ModeOk
<1>5. t \in {"block", "direct"} /\ (m # "block" => t # "block")
  BY <1>3
<1>6. PICK s : s = spec
  OBVIOUS
<1>7. s \in SpecRecs /\ DefaultOk(s, role) /\ \A h \in Xray!Groups : GroupOk(s.group[h])
  BY <1>6 DEF XrayInv, SpecOk
<1>8. PICK f : f = s.group
  OBVIOUS
<1>9. f \in [Xray!Groups -> GroupRecs]
  BY <1>7, <1>8 DEF SpecRecs
<1>10. PICK r : r = [f[g] EXCEPT !.mode = m, !.node = n, !.tag = t]
  OBVIOUS
<1>11. GroupOk(r)
  BY <1>4, <1>5, <1>7, <1>8, <1>10 DEF GroupOk, GroupRecs
<1>12. PICK k : k = [f EXCEPT ![g] = r]
  OBVIOUS
<1>13. k \in [Xray!Groups -> GroupRecs] /\ \A h \in Xray!Groups : k[h] = IF h = g THEN r ELSE f[h]
  BY <1>9, <1>11, <1>12 DEF GroupOk
<1>14. spec' = [s EXCEPT !.group = k]
  <2>1. r = [s.group[g] EXCEPT !.mode = mode[1], !.node = mode[2], !.tag = IF mode[1] = "block" THEN "block" ELSE "direct"]
    BY <1>3, <1>8, <1>10, Zenon
  <2>2. spec' = [s EXCEPT !.group[g] = r]
    BY <1>2, <1>6, <2>1
  <2> QED  BY <1>8, <1>12, <2>2
<1>15. PICK x : x = [s EXCEPT !.group = k]
  OBVIOUS
<1>16. /\ x \in SpecRecs /\ x.group = k /\ x.mode = s.mode /\ x.node = s.node /\ x.egress = s.egress /\ x.via = s.via
  BY <1>7, <1>13, <1>15 DEF SpecRecs
<1>17. SpecOk(x, role)
  BY <1>7, <1>8, <1>11, <1>13, <1>16 DEF SpecOk, DefaultOk
<1>18. SpecOk(spec', role')
  BY <1>1, <1>14, <1>15, <1>17
<1>19. XrayType'
  BY <1>1 DEF XrayInv, XrayType
<1>20. resolved' \subseteq Xray!Groups /\ \A h \in resolved' : h \in resolved /\ h # g
  BY <1>2 DEF XrayInv
<1>21. \A h \in resolved' : spec'.group[h] = spec.group[h]
  BY <1>6, <1>8, <1>13, <1>14, <1>15, <1>16, <1>20
<1>22. RemoteHasAddress'
  BY <1>1, <1>20, <1>21 DEF RemoteHasAddress, XrayInv
<1> QED  BY <1>1, <1>18, <1>19, <1>20, <1>22 DEF XrayInv

\* Editing the instance's egress or statistics.
LEMMA XrayEditInstance ==
  ASSUME XrayInv, Xray!EditInstance  PROVE XrayInv'
<1>1. /\ UNCHANGED <<role, template, link, resolved>> /\ fresh' = "none"
  BY DEF Xray!EditInstance, Xray!Edit, Xray!None
<1>2. PICK mode \in {"local"} \X {"none"} \cup {"node"} \X EgressNode, stats \in BOOLEAN :
        spec' = [spec EXCEPT !.mode = mode[1], !.node = mode[2], !.stats = stats]
  BY DEF Xray!EditInstance, Xray!None
<1>3. PICK m, n : m = mode[1] /\ n = mode[2]
  OBVIOUS
<1>4. m \in {"local", "node"} /\ n \in EgressNode \cup {"none"} /\ (m = "node" => n \in EgressNode)
  BY <1>3
<1>5. PICK s : s = spec
  OBVIOUS
<1>6. s \in SpecRecs /\ DefaultOk(s, role) /\ \A h \in Xray!Groups : GroupOk(s.group[h])
  BY <1>5 DEF XrayInv, SpecOk
<1>7. PICK x : x = [s EXCEPT !.mode = m, !.node = n, !.stats = stats]
  OBVIOUS
<1>8. /\ x \in SpecRecs /\ x.group = s.group /\ x.mode = m /\ x.node = n /\ x.egress = s.egress /\ x.via = s.via
  BY <1>4, <1>6, <1>7 DEF SpecRecs
<1>9. SpecOk(x, role)
  BY <1>4, <1>6, <1>8 DEF SpecOk, DefaultOk
<1>10. spec' = x
  BY <1>2, <1>3, <1>5, <1>7
<1>11. XrayType' /\ SpecOk(spec', role')
  BY <1>1, <1>9, <1>10 DEF XrayInv, XrayType
<1>12. spec'.group = spec.group
  BY <1>5, <1>8, <1>10
<1>13. RemoteHasAddress' /\ resolved' \subseteq Xray!Groups
  BY <1>1, <1>12 DEF RemoteHasAddress, XrayInv
<1> QED  BY <1>1, <1>11, <1>13 DEF XrayInv

\* A backhaul changes.
LEMMA XrayLinkChanges ==
  ASSUME XrayInv, Xray!LinkChanges  PROVE XrayInv'
<1>1. /\ UNCHANGED <<role, template, spec, resolved>> /\ fresh' = "none"
  BY DEF Xray!LinkChanges, Xray!Edit, Xray!None
<1>2. PICK n \in EgressNode : \E a \in (Address[n] \cup {"none"}) \ {link[n]} : link' = [link EXCEPT ![n] = a]
  BY DEF Xray!LinkChanges, Xray!None
<1>3. PICK a \in Address[n] \cup {"none"} : link' = [link EXCEPT ![n] = a]
  BY <1>2
<1>4. a \in AnyAddress \cup {"none"}
  BY DEF AnyAddress
<1>5. XrayType'
  BY <1>1, <1>3, <1>4 DEF XrayInv, XrayType
<1>6. SpecOk(spec', role') /\ RemoteHasAddress'
  BY <1>1 DEF XrayInv, RemoteHasAddress
<1> QED  BY <1>1, <1>5, <1>6 DEF XrayInv

\* Every step keeps the invariant.
LEMMA XrayInvNext ==
  ASSUME XrayInv, Xray!Next  PROVE XrayInv'
<1>0. LinkOk /\ SpecOk(spec, role)
  BY DEF XrayInv, XrayType, LinkOk
<1>1. CASE Xray!EditCatalogue
  BY <1>1, XrayEditCatalogue
<1>2. CASE Xray!EditGroup
  BY <1>2, XrayEditGroup
<1>3. CASE Xray!EditInstance
  BY <1>3, XrayEditInstance
<1>4. CASE Xray!LinkChanges
  BY <1>4, XrayLinkChanges
<1>5. CASE Xray!syncXrayVLESSAccessPolicySpec
  <2>1. PICK s : s = Xray!withCatalogue
    OBVIOUS
  <2>2. PICK o : o = spec
    OBVIOUS
  <2>3. o \in SpecRecs /\ DefaultOk(o, role) /\ \A h \in Xray!Groups : GroupOk(o.group[h])
    BY <1>0, <2>2 DEF SpecOk
  <2>4. PICK f : f = [g \in Xray!Groups |-> IF g \in Catalogued THEN Xray!PolicyGroup(template[g]) ELSE o.group[g]]
    OBVIOUS
  <2>5. \A g \in Xray!Groups : GroupOk(f[g])
    <3> SUFFICES ASSUME NEW g \in Xray!Groups PROVE GroupOk(f[g])  OBVIOUS
    <3>1. CASE g \in Catalogued
      <4>1. PICK p : p = template[g]
        OBVIOUS
      <4>2. p \in PolicyRecs /\ (p.mode = "node" => p.node \in EgressNode)
        BY <3>1, <4>1 DEF XrayInv, XrayType
      <4>3. f[g] = Xray!PolicyGroup(p)
        BY <2>4, <3>1, <4>1
      <4> QED  BY <4>2, <4>3, PolicyGroupOk
    <3>2. CASE g \notin Catalogued
      BY <2>3, <2>4, <3>2
    <3> QED  BY <3>1, <3>2
  <2>6. f \in [Xray!Groups -> GroupRecs]
    BY <2>4, <2>5 DEF GroupOk
  <2>7. s = [o EXCEPT !.group = f]
    BY <2>1, <2>2, <2>4, Zenon DEF Xray!withCatalogue
  <2>8. /\ s \in SpecRecs /\ s.group = f /\ s.mode = o.mode /\ s.node = o.node /\ s.egress = o.egress /\ s.via = o.via
    BY <2>3, <2>6, <2>7 DEF SpecRecs
  <2>9. SpecOk(s, role)
    BY <2>3, <2>5, <2>8 DEF SpecOk, DefaultOk
  <2>10. PICK t : t = Xray!resolvedSpec(s, FALSE)
    OBVIOUS
  <2>11. Xray!Resolves(s, FALSE) /\ Xray!Becomes(t, IF FALSE THEN "worker" ELSE "control-plane")
    BY <1>5, <2>1, <2>10 DEF Xray!syncXrayVLESSAccessPolicySpec
  <2>12. SpecOk(t, role) /\ SpecFresh(t, FALSE, role, link)
    BY <1>0, <2>9, <2>10, <2>11, SpecResolved
  <2> QED  BY <2>11, <2>12, XrayBecomes
<1>6. CASE Xray!refreshXrayRemoteEgressForBackhaul
  <2>1. PICK s, t : s = spec /\ t = Xray!resolvedSpec(s, FALSE)
    OBVIOUS
  <2>2. SpecOk(s, role) /\ Xray!Resolves(s, FALSE) /\ Xray!Becomes(t, IF FALSE THEN "worker" ELSE "control-plane")
    BY <1>0, <1>6, <2>1 DEF Xray!refreshXrayRemoteEgressForBackhaul
  <2>3. SpecOk(t, role) /\ SpecFresh(t, FALSE, role, link)
    BY <1>0, <2>1, <2>2, SpecResolved
  <2> QED  BY <2>2, <2>3, XrayBecomes
<1>7. CASE Xray!ensureXrayInstanceDriverState
  <2>1. PICK s, t : s = spec /\ t = Xray!resolvedSpec(s, TRUE)
    OBVIOUS
  <2>2. SpecOk(s, role) /\ Xray!Resolves(s, TRUE)
    BY <1>0, <1>7, <2>1 DEF Xray!ensureXrayInstanceDriverState
  <2>3. PICK of \in [RoutedClient -> Xray!Groups] : Xray!Becomes([t EXCEPT !.client = of], "worker")
    BY <1>7, <2>1 DEF Xray!ensureXrayInstanceDriverState
  <2>4. SpecOk(t, role) /\ SpecFresh(t, TRUE, role, link)
    BY <1>0, <2>1, <2>2, SpecResolved
  <2>5. PICK u : u = [t EXCEPT !.client = of]
    OBVIOUS
  <2>6. /\ u \in SpecRecs /\ u.group = t.group /\ u.mode = t.mode /\ u.node = t.node /\ u.egress = t.egress /\ u.via = t.via
    BY <2>4, <2>5 DEF SpecRecs, SpecOk
  <2>7. SpecOk(u, role) /\ SpecFresh(u, TRUE, role, link)
    BY <2>4, <2>6 DEF SpecOk, DefaultOk, SpecFresh, DefaultFresh
  <2>8. Xray!Becomes(u, IF TRUE THEN "worker" ELSE "control-plane")
    BY <2>3, <2>5
  <2> QED  BY <2>7, <2>8, XrayBecomes
<1> QED  BY <1>1, <1>2, <1>3, <1>4, <1>5, <1>6, <1>7 DEF Xray!Next

-----------------------------------------------------------------------------
\* The key of a group is no outbound that is built in.
LEMMA OwnTag ==
  ASSUME NEW g \in Xray!Groups
  PROVE  g \notin {"direct", "block", "api", "egress-default"}
BY KeyAssumption DEF Xray!Groups, Xray!Range

\* Where the traffic of a group leaves.
LEMMA Leaves ==
  ASSUME NEW s, NEW g \in Xray!Groups, NEW p, p = s.group[g], GroupOk(p), NEW d,
         NEW o, o = Xray!outbound(s, Decides(s, g, d))
  PROVE  /\ p.ads /\ d = "ads" => o = "block"
         /\ ~(p.ads /\ d = "ads") =>
              /\ p.mode = "local" => o = "direct"
              /\ p.mode = "block" => o = "block"
              /\ p.mode = "instance_only" /\ d = "target" => o = "direct"
              /\ p.mode = "instance_only" /\ d # "target" /\ p.via = "none" => o = "block"
              /\ p.mode = "node" /\ p.via # "none" => o = p.via
              /\ p.mode \in {"node", "default"} /\ p.via = "none" =>
                   o = IF s.via = "none" THEN "direct" ELSE s.via
<1>1. PICK t : t = Xray!xrayEffectiveVLESSGroupOutboundTag(s, g)
  OBVIOUS
<1>2. /\ Xray!outbound(s, "block") = "block" /\ Xray!outbound(s, "direct") = "direct"
      /\ Xray!outbound(s, "egress-default") = s.via
  BY DEF Xray!outbound, Xray!Default
<1>3. Xray!outbound(s, g) = p.via
  BY OwnTag DEF Xray!outbound, Xray!Default
<1>4. PICK h : h = Xray!hydratedTag(s, g)
  OBVIOUS
<1>5. t = IF p.mode = "local" THEN "direct" ELSE IF p.mode = "block" THEN "block"
          ELSE IF h = "direct" /\ s.via # "none" THEN "egress-default" ELSE h
  BY <1>1, <1>4 DEF Xray!xrayEffectiveVLESSGroupOutboundTag, Xray!None, Xray!Default
<1>6. h = IF p.mode = "instance_only" /\ p.via = "none" THEN "block"
          ELSE IF p.via # "none" THEN g ELSE IF p.tag = "block" THEN "block" ELSE "direct"
  BY <1>4 DEF Xray!hydratedTag, Xray!groupTag, Xray!None
<1>7. o = IF p.ads /\ d = "ads" THEN "block"
          ELSE IF p.mode = "instance_only" /\ d = "target" THEN "direct" ELSE Xray!outbound(s, t)
  BY <1>1, <1>2, Zenon DEF Decides
<1>8. p.mode # "block" => p.tag # "block"
  BY DEF GroupOk
<1>9. g # "direct"
  BY OwnTag
<1>10. CASE p.ads /\ d = "ads"
  BY <1>7, <1>10, Zenon
<1>11. CASE ~(p.ads /\ d = "ads")
  <2>1. o = IF p.mode = "instance_only" /\ d = "target" THEN "direct" ELSE Xray!outbound(s, t)
    BY <1>7, <1>11, Zenon
  <2> QED  BY <1>2, <1>3, <1>5, <1>6, <1>8, <1>9, <1>11, <2>1
<1> QED  BY <1>10, <1>11

\* A resolved spec routes as intended.
LEMMA XrayRouted ==
  ASSUME XrayInv  PROVE Xray!RoutedAsIntended
<1> SUFFICES ASSUME fresh # "none", NEW c \in RoutedClient, NEW d \in {"ads", "target", "other"}
             PROVE  /\ ~Xray!LeftBehind(Xray!GroupOf(c)) => Xray!Routed(spec, "vless-in", c, d) = Xray!Intended(c, d)
                    /\ spec.stats => Xray!Routed(spec, "api", c, d) = "api"
  BY DEF Xray!RoutedAsIntended, Xray!None
<1>1. PICK s : s = spec
  OBVIOUS
<1>2. PICK g \in Xray!Groups : g = GroupIn(s, c) /\ g = Xray!GroupOf(c)
  BY <1>1, GroupInGroups DEF GroupIn, Xray!GroupOf
<1>3. PICK p, o : p = s.group[g] /\ o = Xray!outbound(s, Decides(s, g, d))
  OBVIOUS
<1>4. GroupOk(p) /\ GroupFresh(p, fresh = "worker", role, link) /\ DefaultFresh(s, role, link) /\ DefaultOk(s, role)
  BY <1>1, <1>3 DEF XrayInv, SpecOk, SpecFresh
<1>5. s \in SpecRecs /\ role \in {"ingress", "egress"}
  BY <1>1 DEF XrayInv, XrayType, SpecOk
<1>6. Xray!Routed(spec, "vless-in", c, d) = o /\ (spec.stats => Xray!Routed(spec, "api", c, d) = "api")
  BY <1>1, <1>2, <1>3, RoutedByGroup
<1>7. ASSUME ~Xray!LeftBehind(g) PROVE o = Xray!Intended(c, d)
  <2>1. PICK x : x = Xray!Intended(c, d)
    OBVIOUS
  <2>2. p.mode # "node" => ~(fresh = "worker" /\ p.by = "control-plane")
    BY <1>1, <1>3, <1>7 DEF Xray!LeftBehind
  <2>3. p.mode \in {"default", "instance_only"} => p.via = "none"
    BY <1>4, <2>2 DEF GroupFresh
  <2>4. /\ p.ads /\ d = "ads" => o = "block"
        /\ ~(p.ads /\ d = "ads") =>
             /\ p.mode = "local" => o = "direct"
             /\ p.mode = "block" => o = "block"
             /\ p.mode = "instance_only" /\ d = "target" => o = "direct"
             /\ p.mode = "instance_only" /\ d # "target" /\ p.via = "none" => o = "block"
             /\ p.mode = "node" /\ p.via # "none" => o = p.via
             /\ p.mode \in {"node", "default"} /\ p.via = "none" =>
                  o = IF s.via = "none" THEN "direct" ELSE s.via
    BY <1>3, <1>4, Leaves
  <2>5. p.mode \in GroupModes
    BY <1>4 DEF GroupOk, GroupRecs
  <2>6. CASE p.ads /\ d = "ads"
    <3>1. x = "block"
      BY <1>1, <1>2, <1>3, <2>1, <2>6, Zenon DEF Xray!Intended
    <3> QED  BY <2>1, <2>4, <2>6, <3>1
  <2>7. CASE ~(p.ads /\ d = "ads")
    <3>1. x = CASE p.mode = "local" -> "direct"
                [] p.mode = "block" -> "block"
                [] p.mode = "instance_only" -> IF d = "target" THEN "direct" ELSE "block"
                [] p.mode = "node" -> Xray!Reaches(p.node)
                [] p.mode = "default" ->
                     IF s.mode = "node" THEN Xray!Reaches(s.node)
                     ELSE IF s.mode = "unset" /\ s.egress \in EgressNode THEN Xray!Reaches(s.egress)
                     ELSE "direct"
      BY <1>1, <1>2, <1>3, <2>1, <2>7, Zenon DEF Xray!Intended
    <3>2. \A n \in EgressNode : Xray!Reaches(n) = IF role = "egress" THEN "direct" ELSE link[n]
      BY DEF Xray!Reaches
    <3>3. CASE p.mode \in {"local", "block", "instance_only"}
      BY <2>1, <2>3, <2>4, <2>7, <3>1, <3>3
    <3>4. CASE p.mode = "node"
      <4>1. p.node \in EgressNode /\ x = Xray!Reaches(p.node)
        BY <1>4, <3>1, <3>4 DEF GroupOk
      <4>2. CASE role = "egress"
        BY <1>4, <2>1, <2>4, <2>7, <3>2, <3>4, <4>1, <4>2 DEF GroupFresh, DefaultOk
      <4>3. CASE role = "ingress"
        BY <1>4, <2>1, <2>4, <2>7, <3>2, <3>4, <4>1, <4>3 DEF GroupFresh
      <4> QED  BY <1>5, <4>2, <4>3
    <3>5. CASE p.mode = "default"
      <4>1. x = IF s.mode = "node" THEN Xray!Reaches(s.node)
                ELSE IF s.mode = "unset" /\ s.egress \in EgressNode THEN Xray!Reaches(s.egress)
                ELSE "direct"
        BY <3>1, <3>5
      <4>2. o = IF s.via = "none" THEN "direct" ELSE s.via
        BY <2>3, <2>4, <2>7, <3>5
      <4>3. s.mode \in {"unset", "local", "node"} /\ (s.mode = "node" => s.node \in EgressNode)
        BY <1>4, <1>5 DEF SpecRecs, DefaultOk
      <4>4. CASE role = "egress"
        BY <1>4, <2>1, <3>2, <4>1, <4>2, <4>3, <4>4 DEF DefaultOk
      <4>5. CASE role = "ingress"
        BY <1>4, <2>1, <3>2, <4>1, <4>2, <4>3, <4>5 DEF DefaultOk, DefaultFresh
      <4> QED  BY <1>5, <4>4, <4>5
    <3> QED  BY <2>5, <3>3, <3>4, <3>5 DEF GroupModes
  <2> QED  BY <2>6, <2>7
<1> QED  BY <1>2, <1>6, <1>7

\* A remote group that was resolved does not leave by the ingress node.
LEMMA XrayRemote ==
  ASSUME XrayInv  PROVE Xray!RemoteNeverDirect
<1> SUFFICES ASSUME NEW c \in RoutedClient, NEW d \in {"ads", "target", "other"},
                    role = "ingress", Xray!GroupOf(c) \in resolved, spec.group[Xray!GroupOf(c)].mode = "node"
             PROVE  Xray!Routed(spec, "vless-in", c, d) # "direct"
  BY DEF Xray!RemoteNeverDirect
<1>1. PICK s : s = spec
  OBVIOUS
<1>2. PICK g \in Xray!Groups : g = GroupIn(s, c) /\ g = Xray!GroupOf(c)
  BY <1>1, GroupInGroups DEF GroupIn, Xray!GroupOf
<1>3. PICK p, o : p = s.group[g] /\ o = Xray!outbound(s, Decides(s, g, d))
  OBVIOUS
<1>4. GroupOk(p) /\ p.mode = "node" /\ p.via # "none"
  BY <1>1, <1>2, <1>3 DEF XrayInv, SpecOk, RemoteHasAddress
<1>5. Xray!Routed(spec, "vless-in", c, d) = o
  BY <1>1, <1>2, <1>3, RoutedByGroup
<1>6. p.via # "direct"
  BY <1>4, AddressAssumption DEF GroupOk, GroupRecs, AnyAddress
<1>7. (p.ads /\ d = "ads" => o = "block") /\ (~(p.ads /\ d = "ads") => o = p.via)
  BY <1>3, <1>4, Leaves
<1> QED  BY <1>5, <1>6, <1>7

-----------------------------------------------------------------------------
\* The first state of the part "xray" is one of XrayRouting.
LEMMA XrayBegins == Init /\ part = "xray" => Xray!Init
BY DEF Init

\* A step of the part "xray" is a step of XrayRouting or leaves it alone, and no
\* step leads from one part to another.
LEMMA XrayGoesOn ==
  [Next]_vars => part' = part /\ (part = "xray" => [Xray!Next]_Xray!vars)
BY DEF Next, vars, routeVars, Xray!vars

\* Its variables standing still keep the invariant.
LEMMA XrayStutters ==
  ASSUME XrayInv, UNCHANGED Xray!vars  PROVE XrayInv'
<1>1. UNCHANGED <<role, template, spec, link, fresh, resolved>>
  BY DEF Xray!vars
<1>2. XrayType' /\ SpecOk(spec', role') /\ RemoteHasAddress' /\ resolved' \subseteq Xray!Groups
  BY <1>1 DEF XrayInv, XrayType, RemoteHasAddress
<1>3. fresh' # "none" => SpecFresh(spec', fresh' = "worker", role', link')
  BY <1>1 DEF XrayInv
<1> QED  BY <1>2, <1>3 DEF XrayInv

\* The invariant holds throughout, of the component and of the run's part.
LEMMA XrayAlways ==
  (Xray!Spec => []XrayInv) /\ (Spec => [](part = "xray" => XrayInv))
<1> DEFINE Here == part = "xray" => XrayInv
<1>1. XrayInv /\ [Xray!Next]_Xray!vars => XrayInv'
  BY XrayInvNext, XrayStutters
<1>2. Xray!Spec => []XrayInv
  BY <1>1, XrayInvInit, PTL DEF Xray!Spec
<1>3. Init => Here
  BY XrayBegins, XrayInvInit
<1>4. Here /\ [Next]_vars => Here'
  BY <1>1, XrayGoesOn
<1>5. Spec => []Here
  BY <1>3, <1>4, PTL DEF Spec
<1> QED  BY <1>2, <1>5

(***************************************************************************)
(* For every list of groups, set of nodes, addresses and clients: the      *)
(* config rendered from a spec that one of the resolvers (syncXrayVLESS-   *)
(* AccessPolicySpec, refreshXrayRemoteEgressForBackhaul, ensureXray-       *)
(* InstanceDriverState) has brought up to date routes each client's        *)
(* traffic as its group's policy and the backhauls say.                    *)
(***************************************************************************)
THEOREM ConfigRoutesAsIntended ==
  (Xray!Spec => []Xray!RoutedAsIntended) /\ (Spec => []RoutedAsIntended)
<1>1. XrayInv => Xray!RoutedAsIntended
  BY XrayRouted
<1>2. (part = "xray" => XrayInv) => RoutedAsIntended
  BY <1>1 DEF RoutedAsIntended
<1> QED  BY <1>1, <1>2, XrayAlways, PTL

(***************************************************************************)
(* A group that is to leave by another node is never rendered to leave by  *)
(* the ingress node itself once a resolver has seen its mode, whatever     *)
(* happens to the backhauls after that (ResolveXrayVLESSEgress).           *)
(***************************************************************************)
THEOREM RemoteStaysRemote ==
  (Xray!Spec => []Xray!RemoteNeverDirect) /\ (Spec => []RemoteNeverDirect)
<1>1. XrayInv => Xray!RemoteNeverDirect
  BY XrayRemote
<1>2. (part = "xray" => XrayInv) => RemoteNeverDirect
  BY <1>1 DEF RemoteNeverDirect
<1> QED  BY <1>1, <1>2, XrayAlways, PTL
=============================================================================
