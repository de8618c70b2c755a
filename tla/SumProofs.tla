----------------------------- MODULE SumProofs ------------------------------
(***************************************************************************)
(* Sums over finite sets: SumFunctionOnSet adds its terms one by one, in   *)
(* whatever order.  It is defined by recursion, picking an element at a    *)
(* time; the facts below say that the recursion is well defined and that   *)
(* the choices do not matter.                                              *)
(***************************************************************************)
EXTENDS FiniteSetTheorems, TLAPS

-----------------------------------------------------------------------------
(* Induction, as the absence of a least counterexample: the set stands for *)
(* the property.                                                           *)
LEMMA LeastElement ==
  ASSUME NEW T \in SUBSET Nat, T # {}
  PROVE  \E m \in T : \A n \in T : m <= n
<1> DEFINE R == OpToRel(<, Nat)
<1>1. IsWellFoundedOn(R, Nat) BY NatLessThanWellFounded
<1>2. PICK x \in T : \A y \in T : ~ (<<y, x>> \in R) BY <1>1, WFMin
<1>3. \A y \in T : ~(y < x) BY <1>2 DEF OpToRel
<1>4. QED BY <1>3

LEMMA UpToAll ==
  ASSUME NEW T \in SUBSET Nat, 0 \in T, \A n \in T : n + 1 \in T
  PROVE  T = Nat
<1>1. SUFFICES ASSUME Nat \ T # {} PROVE FALSE OBVIOUS
<1>2. PICK m \in Nat \ T : \A n \in Nat \ T : m <= n BY <1>1, LeastElement
<1>3. m - 1 \in T BY <1>2
<1>4. QED BY <1>2, <1>3

-----------------------------------------------------------------------------
Pick(s) == CHOOSE x \in s : TRUE

(* One more term, for the sets whose smaller subsets have a sum already.   *)
Step(f, h, s) == IF s = {} THEN 0 ELSE f[Pick(s)] + h[s \ {Pick(s)}]

Solves(h, f, S) == h = [s \in SUBSET S |-> Step(f, h, s)]

Recursion(f, S) == CHOOSE h : Solves(h, f, S)

LEMMA SumIsRecursion ==
  ASSUME NEW f, NEW S
  PROVE  SumFunctionOnSet(f, S) = Recursion(f, S)[S]
BY DEF SumFunctionOnSet, FoldFunctionOnSet, MapThenFoldSet, Recursion, Solves,
       Step, Pick

LEMMA Smaller ==
  ASSUME NEW s, IsFiniteSet(s), NEW n \in Nat, Cardinality(s) <= n + 1, s # {}
  PROVE  /\ Pick(s) \in s /\ IsFiniteSet(s \ {Pick(s)})
         /\ Cardinality(s \ {Pick(s)}) <= n
         /\ Cardinality(s \ {Pick(s)}) \in Nat
<1>1. Pick(s) \in s BY DEF Pick
<1>2. IsFiniteSet(s \ {Pick(s)})
      /\ Cardinality(s \ {Pick(s)}) = Cardinality(s) - 1
  BY <1>1, FS_RemoveElement
<1>3. Cardinality(s) \in Nat /\ Cardinality(s \ {Pick(s)}) \in Nat
  BY <1>2, FS_CardinalityType
<1>4. QED BY <1>1, <1>2, <1>3

(* Two solutions agree where both are defined, and so do the sums of two   *)
(* functions that agree.                                                   *)
LEMMA SolutionsAgree ==
  ASSUME NEW f, NEW g, NEW S, NEW T, NEW h, NEW k,
         Solves(h, f, S), Solves(k, g, T),
         NEW s \in SUBSET (S \cap T), IsFiniteSet(s), \A x \in s : f[x] = g[x]
  PROVE  h[s] = k[s]
<1> DEFINE Good == {n \in Nat : \A t \in SUBSET s :
                      IsFiniteSet(t) /\ Cardinality(t) <= n => h[t] = k[t]}
<1>1. ASSUME NEW t \in SUBSET s
      PROVE  h[t] = Step(f, h, t) /\ k[t] = Step(g, k, t)
  BY DEF Solves
<1>2. 0 \in Good
  <2>1. ASSUME NEW t \in SUBSET s, IsFiniteSet(t), Cardinality(t) <= 0
        PROVE  h[t] = k[t]
    <3>1. t = {} BY <2>1, FS_EmptySet, FS_CardinalityType
    <3>2. QED BY <1>1, <3>1 DEF Step
  <2>2. QED BY <2>1
<1>3. ASSUME NEW n \in Good PROVE n + 1 \in Good
  <2>1. ASSUME NEW t \in SUBSET s, IsFiniteSet(t), Cardinality(t) <= n + 1
        PROVE  h[t] = k[t]
    <3>1. CASE t = {} BY <1>1, <3>1 DEF Step
    <3>2. CASE t # {}
      <4>1. Pick(t) \in t /\ h[t \ {Pick(t)}] = k[t \ {Pick(t)}]
        BY <2>1, <3>2, Smaller
      <4>2. f[Pick(t)] = g[Pick(t)] BY <4>1
      <4>3. QED BY <1>1, <3>2, <4>1, <4>2 DEF Step
    <3>3. QED BY <3>1, <3>2
  <2>2. QED BY <2>1
<1> HIDE DEF Good
<1>4. Good = Nat
  <2>1. Good \in SUBSET Nat BY DEF Good
  <2>2. QED BY <1>2, <1>3, <2>1, UpToAll
<1>5. Cardinality(s) \in Good BY <1>4, FS_CardinalityType
<1>6. QED BY <1>5 DEF Good

LEMMA SolutionExists ==
  ASSUME NEW f, NEW S, IsFiniteSet(S)
  PROVE  Solves(Recursion(f, S), f, S)
<1> DEFINE Good == {n \in Nat : \A T \in SUBSET S : Cardinality(T) <= n =>
                      \E h : Solves(h, f, T)}
<1>1. \A T \in SUBSET S : IsFiniteSet(T) /\ Cardinality(T) \in Nat
  BY FS_Subset, FS_CardinalityType
<1>2. 0 \in Good
  <2>1. ASSUME NEW T \in SUBSET S, Cardinality(T) <= 0
        PROVE  \E h : Solves(h, f, T)
    <3>1. T = {} BY <1>1, <2>1, FS_EmptySet
    <3> DEFINE h == [s \in SUBSET {} |-> 0]
    <3>2. \A s \in SUBSET {} : Step(f, h, s) = 0 BY DEF Step
    <3>3. Solves(h, f, {}) BY <3>2 DEF Solves
    <3>4. QED BY <3>1, <3>3
  <2>2. QED BY <2>1
<1>3. ASSUME NEW n \in Good PROVE n + 1 \in Good
  <2>1. ASSUME NEW T \in SUBSET S, Cardinality(T) <= n + 1
        PROVE  \E h : Solves(h, f, T)
    <3> DEFINE part(t) == Recursion(f, t)
               h == [s \in SUBSET T |->
                      IF s = {} THEN 0
                      ELSE f[Pick(s)] + part(s \ {Pick(s)})[s \ {Pick(s)}]]
    <3>1. ASSUME NEW s \in SUBSET T, s # {}
          PROVE  /\ Solves(part(s \ {Pick(s)}), f, s \ {Pick(s)})
                 /\ IsFiniteSet(s \ {Pick(s)}) /\ s \ {Pick(s)} \in SUBSET T
      <4>1. Cardinality(s) <= n + 1 /\ IsFiniteSet(s)
        <5>1. Cardinality(s) <= Cardinality(T) BY <1>1, FS_Subset
        <5>2. Cardinality(s) \in Nat /\ Cardinality(T) \in Nat BY <1>1
        <5>3. QED BY <1>1, <2>1, <5>1, <5>2
      <4>2. IsFiniteSet(s \ {Pick(s)}) /\ Cardinality(s \ {Pick(s)}) <= n
        BY <3>1, <4>1, Smaller
      <4>3. \E k : Solves(k, f, s \ {Pick(s)}) BY <4>2
      <4>4. QED BY <4>2, <4>3 DEF Recursion
    <3>2. ASSUME NEW s \in SUBSET T PROVE h[s] = Step(f, h, s)
      <4>1. CASE s = {} BY <4>1 DEF Step
      <4>2. CASE s # {}
        <5> DEFINE r == s \ {Pick(s)}
        <5>1. /\ Solves(part(r), f, r) /\ IsFiniteSet(r) /\ r \in SUBSET T
          BY <3>1, <4>2
        <5>2. h[s] = f[Pick(s)] + part(r)[r] BY <4>2
        <5>3. CASE r = {}
          <6>1. part(r)[r] = 0 BY <5>1, <5>3 DEF Solves, Step
          <6>2. h[r] = 0 BY <5>3
          <6>3. QED BY <4>2, <5>2, <6>1, <6>2 DEF Step
        <5>4. CASE r # {}
          <6> DEFINE q == r \ {Pick(r)}
          <6>1. part(r)[r] = f[Pick(r)] + part(r)[q]
            BY <5>1, <5>4 DEF Solves, Step
          <6>2. Solves(part(q), f, q) /\ IsFiniteSet(q) BY <3>1, <5>1, <5>4
          <6>3. part(r)[q] = part(q)[q]
            <7>1. q \in SUBSET (r \cap q) /\ \A x \in q : f[x] = f[x] OBVIOUS
            <7>2. QED BY <5>1, <6>2, <7>1, SolutionsAgree
          <6>4. h[r] = f[Pick(r)] + part(q)[q] BY <5>1, <5>4
          <6>5. QED BY <4>2, <5>2, <6>1, <6>3, <6>4 DEF Step
        <5>5. QED BY <5>3, <5>4
      <4>3. QED BY <4>1, <4>2
    <3>3. Solves(h, f, T) BY <3>2 DEF Solves
    <3>4. QED BY <3>3
  <2>2. QED BY <2>1
<1> HIDE DEF Good
<1>4. Good = Nat
  <2>1. Good \in SUBSET Nat BY DEF Good
  <2>2. QED BY <1>2, <1>3, <2>1, UpToAll
<1>5. Cardinality(S) \in Good BY <1>1, <1>4
<1>6. \E h : Solves(h, f, S) BY <1>1, <1>5 DEF Good
<1>7. QED BY <1>6 DEF Recursion

-----------------------------------------------------------------------------
(* What a sum is, with no recursion left in it.                            *)
LEMMA SumOfNothing ==
  ASSUME NEW f
  PROVE  SumFunctionOnSet(f, {}) = 0
<1>1. Solves(Recursion(f, {}), f, {}) BY FS_EmptySet, SolutionExists
<1>2. QED BY <1>1, SumIsRecursion DEF Solves, Step

LEMMA SumSame ==
  ASSUME NEW f, NEW g, NEW S, IsFiniteSet(S), \A x \in S : f[x] = g[x]
  PROVE  SumFunctionOnSet(f, S) = SumFunctionOnSet(g, S)
<1>1. Solves(Recursion(f, S), f, S) /\ Solves(Recursion(g, S), g, S)
  BY SolutionExists
<1>2. S \in SUBSET (S \cap S) OBVIOUS
<1>3. QED BY <1>1, <1>2, SolutionsAgree, SumIsRecursion

(* The definition, and then any element in place of the one it picks.      *)
LEMMA SumPicks ==
  ASSUME NEW f, NEW S, IsFiniteSet(S), S # {}
  PROVE  /\ Pick(S) \in S
         /\ SumFunctionOnSet(f, S) =
              f[Pick(S)] + SumFunctionOnSet(f, S \ {Pick(S)})
<1> DEFINE r == S \ {Pick(S)}
<1>1. Pick(S) \in S BY DEF Pick
<1>2. IsFiniteSet(r) BY FS_RemoveElement
<1>3. Solves(Recursion(f, S), f, S) /\ Solves(Recursion(f, r), f, r)
  BY <1>2, SolutionExists
<1>4. Recursion(f, S)[S] = f[Pick(S)] + Recursion(f, S)[r]
  BY <1>3 DEF Solves, Step
<1>5. Recursion(f, S)[r] = Recursion(f, r)[r]
  <2>1. r \in SUBSET (S \cap r) /\ \A x \in r : f[x] = f[x] OBVIOUS
  <2>2. QED BY <1>2, <1>3, <2>1, SolutionsAgree
<1>6. QED BY <1>1, <1>4, <1>5, SumIsRecursion

LEMMA SumTakesOut ==
  ASSUME NEW S, IsFiniteSet(S), NEW f, \A x \in S : f[x] \in Int
  PROVE  /\ SumFunctionOnSet(f, S) \in Int
         /\ \A x \in S : SumFunctionOnSet(f, S) =
                           f[x] + SumFunctionOnSet(f, S \ {x})
<1> DEFINE Sum(T) == SumFunctionOnSet(f, T)
           Good == {n \in Nat : \A T \in SUBSET S : Cardinality(T) <= n =>
                      /\ Sum(T) \in Int
                      /\ \A x \in T : Sum(T) = f[x] + Sum(T \ {x})}
<1>1. \A T \in SUBSET S : IsFiniteSet(T) /\ Cardinality(T) \in Nat
  BY FS_Subset, FS_CardinalityType
<1>2. \A T \in SUBSET S : \A x \in T :
        /\ Cardinality(T \ {x}) = Cardinality(T) - 1 /\ T \ {x} \in SUBSET S
  BY <1>1, FS_RemoveElement
<1>3. Sum({}) = 0 BY SumOfNothing
<1>4. ASSUME NEW T \in SUBSET S, T # {}
      PROVE  Pick(T) \in T /\ Sum(T) = f[Pick(T)] + Sum(T \ {Pick(T)})
  BY <1>1, <1>4, SumPicks
<1> HIDE DEF Sum
<1>5. 0 \in Good
  <2>1. ASSUME NEW T \in SUBSET S, Cardinality(T) <= 0
        PROVE  /\ Sum(T) \in Int
               /\ \A x \in T : Sum(T) = f[x] + Sum(T \ {x})
    <3>1. T = {} BY <1>1, <2>1, FS_EmptySet
    <3>2. QED BY <1>3, <3>1
  <2>2. QED BY <2>1
<1>6. ASSUME NEW n \in Good PROVE n + 1 \in Good
  <2>1. ASSUME NEW T \in SUBSET S, Cardinality(T) <= n + 1, T # {}
        PROVE  /\ Sum(T) \in Int
               /\ \A x \in T : Sum(T) = f[x] + Sum(T \ {x})
    <3> DEFINE c == Pick(T)
    <3>1. ASSUME NEW x \in T
          PROVE  /\ T \ {x} \in SUBSET S /\ Cardinality(T \ {x}) <= n
                 /\ Sum(T \ {x}) \in Int
                 /\ \A y \in T \ {x} :
                      Sum(T \ {x}) = f[y] + Sum((T \ {x}) \ {y})
      <4>1. T \ {x} \in SUBSET S /\ Cardinality(T \ {x}) <= n
        BY <1>1, <1>2, <2>1
      <4>2. QED BY <4>1
    <3>2. c \in T /\ Sum(T) = f[c] + Sum(T \ {c}) BY <1>4, <2>1
    <3>3. Sum(T) \in Int BY <3>1, <3>2
    <3>4. ASSUME NEW x \in T, x # c PROVE Sum(T) = f[x] + Sum(T \ {x})
      <4> DEFINE rest == (T \ {c}) \ {x}
      <4>1. Sum(T \ {c}) = f[x] + Sum(rest) BY <3>1, <3>2, <3>4
      <4>2. (T \ {x}) \ {c} = rest OBVIOUS
      <4>3. Sum(T \ {x}) = f[c] + Sum(rest) BY <3>1, <3>2, <3>4, <4>2
      <4>4. f[x] \in Int /\ f[c] \in Int BY <3>2
      <4>5. Sum(rest) \in Int
        <5>1. rest \in SUBSET S /\ Cardinality(rest) <= n
          <6>1. Cardinality(T \ {c}) <= n /\ T \ {c} \in SUBSET S /\ x \in T \ {c}
            BY <3>1, <3>2, <3>4
          <6>2. Cardinality(rest) = Cardinality(T \ {c}) - 1
                /\ rest \in SUBSET S
            BY <1>2, <6>1
          <6>3. QED BY <1>1, <6>1, <6>2
        <5>2. QED BY <5>1
      <4>6. QED BY <3>2, <4>1, <4>3, <4>4, <4>5
    <3>5. QED BY <3>2, <3>3, <3>4
  <2>2. ASSUME NEW T \in SUBSET S, Cardinality(T) <= n + 1
        PROVE  /\ Sum(T) \in Int
               /\ \A x \in T : Sum(T) = f[x] + Sum(T \ {x})
    BY <1>3, <2>1, <2>2
  <2>3. QED BY <2>2
<1> HIDE DEF Good
<1>7. Good = Nat
  <2>1. Good \in SUBSET Nat BY DEF Good
  <2>2. QED BY <1>5, <1>6, <2>1, UpToAll
<1>8. Cardinality(S) \in Good BY <1>1, <1>7
<1>9. Sum(S) \in Int /\ \A x \in S : Sum(S) = f[x] + Sum(S \ {x})
  <2>1. S \in SUBSET S /\ Cardinality(S) \in Nat BY <1>1
  <2>2. Cardinality(S) <= Cardinality(S) BY <2>1
  <2>3. QED BY <1>8, <2>1, <2>2 DEF Good
<1>10. QED BY <1>9 DEF Sum

(* A new element adds its term.                                            *)
LEMMA SumAdds ==
  ASSUME NEW S, IsFiniteSet(S), NEW f, \A x \in S : f[x] \in Int,
         NEW y, y \notin S, f[y] \in Int
  PROVE  SumFunctionOnSet(f, S \cup {y}) = SumFunctionOnSet(f, S) + f[y]
<1>1. IsFiniteSet(S \cup {y}) BY FS_AddElement
<1>2. (S \cup {y}) \ {y} = S OBVIOUS
<1>3. \A x \in S \cup {y} : f[x] \in Int OBVIOUS
<1>4. SumFunctionOnSet(f, S \cup {y}) = f[y] + SumFunctionOnSet(f, S)
  BY <1>1, <1>2, <1>3, SumTakesOut
<1>5. QED BY <1>4, SumTakesOut

(* The same for functions that are summed whole.                           *)
LEMMA SumExtends ==
  ASSUME NEW f, NEW g, IsFiniteSet(DOMAIN f), NEW y, y \notin DOMAIN f,
         DOMAIN g = DOMAIN f \cup {y}, \A x \in DOMAIN f : g[x] = f[x],
         \A x \in DOMAIN f : f[x] \in Int, g[y] \in Int
  PROVE  SumFunction(f) \in Int /\ SumFunction(g) = SumFunction(f) + g[y]
<1>1. SumFunctionOnSet(g, DOMAIN f) = SumFunctionOnSet(f, DOMAIN f)
  BY SumSame
<1>2. SumFunctionOnSet(g, DOMAIN f \cup {y})
        = SumFunctionOnSet(g, DOMAIN f) + g[y]
  BY SumAdds
<1>3. SumFunctionOnSet(f, DOMAIN f) \in Int BY SumTakesOut
<1>4. QED BY <1>1, <1>2, <1>3 DEF SumFunction

(* A sum of zeros.                                                         *)
LEMMA SumOfZeros ==
  ASSUME NEW f, NEW S, IsFiniteSet(S), \A x \in S : f[x] = 0
  PROVE  SumFunctionOnSet(f, S) = 0
<1> DEFINE Sum(T) == SumFunctionOnSet(f, T)
           Good == {n \in Nat : \A T \in SUBSET S :
                      Cardinality(T) <= n => Sum(T) = 0}
<1>1. \A T \in SUBSET S : IsFiniteSet(T) /\ Cardinality(T) \in Nat
  BY FS_Subset, FS_CardinalityType
<1>2. Sum({}) = 0 BY SumOfNothing
<1>3. ASSUME NEW T \in SUBSET S, T # {}
      PROVE  /\ Sum(T) = 0 + Sum(T \ {Pick(T)})
             /\ T \ {Pick(T)} \in SUBSET S
  <2>1. Pick(T) \in T /\ Sum(T) = f[Pick(T)] + Sum(T \ {Pick(T)})
    BY <1>1, <1>3, SumPicks
  <2>2. f[Pick(T)] = 0 BY <2>1
  <2>3. QED BY <2>1, <2>2
<1> HIDE DEF Sum
<1>4. 0 \in Good
  <2>1. ASSUME NEW T \in SUBSET S, Cardinality(T) <= 0
        PROVE  Sum(T) = 0
    <3>1. T = {} BY <1>1, <2>1, FS_EmptySet
    <3>2. QED BY <1>2, <3>1
  <2>2. QED BY <2>1
<1>5. ASSUME NEW n \in Good PROVE n + 1 \in Good
  <2>1. ASSUME NEW T \in SUBSET S, Cardinality(T) <= n + 1, T # {}
        PROVE  Sum(T) = 0
    <3>1. Cardinality(T \ {Pick(T)}) <= n BY <1>1, <2>1, Smaller
    <3>2. T \ {Pick(T)} \in SUBSET S /\ Sum(T) = 0 + Sum(T \ {Pick(T)})
      BY <1>3, <2>1
    <3>3. Sum(T \ {Pick(T)}) = 0 BY <3>1, <3>2
    <3>4. QED BY <3>2, <3>3
  <2>2. ASSUME NEW T \in SUBSET S, Cardinality(T) <= n + 1
        PROVE  Sum(T) = 0
    BY <1>2, <2>1, <2>2
  <2>3. QED BY <2>2
<1> HIDE DEF Good
<1>6. Good = Nat
  <2>1. Good \in SUBSET Nat BY DEF Good
  <2>2. QED BY <1>4, <1>5, <2>1, UpToAll
<1>7. Sum(S) = 0
  <2>1. S \in SUBSET S /\ Cardinality(S) \in Nat BY <1>1
  <2>2. Cardinality(S) <= Cardinality(S) BY <2>1
  <2>3. QED BY <1>6, <2>1, <2>2 DEF Good
<1>8. QED BY <1>7 DEF Sum

(* Sums over 1 .. n: the next term, and a block of zeros in between.       *)
LEMMA SumNext ==
  ASSUME NEW n \in Nat, NEW f, \A i \in 1 .. (n + 1) : f[i] \in Int
  PROVE  /\ SumFunctionOnSet(f, 1 .. n) \in Int
         /\ SumFunctionOnSet(f, 1 .. (n + 1))
              = SumFunctionOnSet(f, 1 .. n) + f[n + 1]
<1>1. /\ 1 .. (n + 1) = (1 .. n) \cup {n + 1}
      /\ n + 1 \notin 1 .. n /\ n + 1 \in 1 .. (n + 1)
  OBVIOUS
<1>2. IsFiniteSet(1 .. n)
  BY FS_Interval
<1>3. \A i \in 1 .. n : f[i] \in Int
  BY <1>1
<1>4. f[n + 1] \in Int
  BY <1>1
<1> QED
  BY <1>1, <1>2, <1>3, <1>4, SumTakesOut, SumAdds

Skips(f, g, n, m, p) ==
  /\ \A i \in 1 .. (n + p) : f[i] \in Int
  /\ \A i \in 1 .. n : g[i] = f[i]
  /\ \A i \in 1 .. m : g[n + i] = 0
  /\ \A i \in 1 .. p : g[n + m + i] = f[n + i]

SumsSkip(f, g, n, m, p) ==
  \A k \in 0 .. p : SumFunctionOnSet(g, 1 .. (n + m + k))
                      = SumFunctionOnSet(f, 1 .. (n + k))

LEMMA SumSkips ==
  ASSUME NEW n \in Nat, NEW m \in Nat, NEW p \in Nat, NEW f, NEW g,
         Skips(f, g, n, m, p)
  PROVE  SumsSkip(f, g, n, m, p)
<1> DEFINE F(k) == SumFunctionOnSet(f, 1 .. k)
           G(k) == SumFunctionOnSet(g, 1 .. k)
           Zeros == {k \in Nat : k <= m => G(n + k) = F(n)}
           Good == {k \in Nat : k <= p => G(n + m + k) = F(n + k)}
<1>0. /\ \A i \in 1 .. (n + p) : f[i] \in Int
      /\ \A i \in 1 .. n : g[i] = f[i]
      /\ \A i \in 1 .. m : g[n + i] = 0
      /\ \A i \in 1 .. p : g[n + m + i] = f[n + i]
  BY DEF Skips
<1>1. ASSUME NEW i \in 1 .. (n + m + p) PROVE g[i] \in Int
  <2>1. CASE i <= n
    BY <1>0, <2>1
  <2>2. CASE n < i /\ i <= n + m
    <3>1. i - n \in 1 .. m /\ n + (i - n) = i
      BY <2>2
    <3>2. g[n + (i - n)] = 0
      BY <1>0, <3>1
    <3> QED
      BY <3>1, <3>2
  <2>3. CASE n + m < i
    <3>1. /\ i - (n + m) \in 1 .. p /\ n + m + (i - (n + m)) = i
          /\ n + (i - (n + m)) \in 1 .. (n + p)
      BY <2>3
    <3>2. g[n + m + (i - (n + m))] = f[n + (i - (n + m))]
      BY <1>0, <3>1
    <3> QED
      BY <1>0, <3>1, <3>2
  <2> QED
    BY <2>1, <2>2, <2>3
<1>2. ASSUME NEW k \in Nat, k + 1 <= n + m + p
      PROVE  G(k) \in Int /\ G(k + 1) = G(k) + g[k + 1]
  <2>1. \A i \in 1 .. (k + 1) : i \in 1 .. (n + m + p)
    BY <1>2
  <2> QED
    BY <1>1, <2>1, SumNext
<1>3. ASSUME NEW k \in Nat, k + 1 <= n + p
      PROVE  F(k) \in Int /\ F(k + 1) = F(k) + f[k + 1]
  <2>1. \A i \in 1 .. (k + 1) : i \in 1 .. (n + p)
    BY <1>3
  <2> QED
    BY <1>0, <2>1, SumNext
<1>4. G(n) = F(n)
  <2>1. IsFiniteSet(1 .. n) /\ \A i \in 1 .. n : g[i] = f[i]
    BY <1>0, FS_Interval
  <2> QED
    BY <2>1, SumSame
<1> HIDE DEF F, G
<1>5. Zeros = Nat
  <2>1. Zeros \in SUBSET Nat /\ 0 \in Zeros
    <3>1. n + 0 = n
      OBVIOUS
    <3> QED
      BY <1>4, <3>1
  <2>2. ASSUME NEW k \in Zeros, k + 1 <= m
        PROVE  G(n + (k + 1)) = F(n)
    <3>1. /\ k \in Nat /\ k <= m /\ n + k \in Nat /\ (n + k) + 1 <= n + m + p
          /\ n + (k + 1) = (n + k) + 1 /\ k + 1 \in 1 .. m
      BY <2>2
    <3>2. G(n + k) \in Int /\ G((n + k) + 1) = G(n + k) + g[(n + k) + 1]
      BY <1>2, <3>1
    <3>3. g[n + (k + 1)] = 0
      BY <1>0, <3>1
    <3>4. G(n + k) = F(n)
      BY <3>1
    <3> QED
      BY <3>1, <3>2, <3>3, <3>4
  <2>3. \A k \in Zeros : k + 1 \in Zeros
    BY <2>2
  <2> QED
    BY <2>1, <2>3, UpToAll
<1>6. G(n + m) = F(n)
  <2>1. m \in Zeros /\ m <= m
    BY <1>5
  <2> QED
    BY <2>1
<1>7. Good = Nat
  <2>1. Good \in SUBSET Nat /\ 0 \in Good
    <3>1. n + m + 0 = n + m /\ n + 0 = n
      OBVIOUS
    <3> QED
      BY <1>6, <3>1
  <2>2. ASSUME NEW k \in Good, k + 1 <= p
        PROVE  G(n + m + (k + 1)) = F(n + (k + 1))
    <3>1. /\ k \in Nat /\ k <= p /\ n + m + k \in Nat /\ n + k \in Nat
          /\ (n + m + k) + 1 <= n + m + p /\ (n + k) + 1 <= n + p
          /\ n + m + (k + 1) = (n + m + k) + 1 /\ n + (k + 1) = (n + k) + 1
          /\ k + 1 \in 1 .. p
      BY <2>2
    <3>2. G((n + m + k) + 1) = G(n + m + k) + g[(n + m + k) + 1]
      BY <1>2, <3>1
    <3>3. F((n + k) + 1) = F(n + k) + f[(n + k) + 1]
      BY <1>3, <3>1
    <3>4. g[n + m + (k + 1)] = f[n + (k + 1)]
      BY <1>0, <3>1
    <3>5. G(n + m + k) = F(n + k)
      BY <3>1
    <3> QED
      BY <3>1, <3>2, <3>3, <3>4, <3>5
  <2>3. \A k \in Good : k + 1 \in Good
    BY <2>2
  <2> QED
    BY <2>1, <2>3, UpToAll
<1> HIDE DEF Good
<1>8. ASSUME NEW k \in 0 .. p PROVE G(n + m + k) = F(n + k)
  <2>1. k \in Good /\ k <= p
    BY <1>7
  <2> QED
    BY <2>1 DEF Good
<1> QED
  BY <1>8 DEF F, G, SumsSkip
=============================================================================
