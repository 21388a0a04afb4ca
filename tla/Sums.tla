-------------------------------- MODULE Sums --------------------------------
(***************************************************************************)
(* Facts about sums over finite sets, which the money properties of the    *)
(* registry, the vault and the paymaster rest on: what _consumedCoverage   *)
(* adds up, what the users' shares come to, what one window let through.   *)
(*                                                                         *)
(* SumFunctionOnSet takes the elements of the set one after the other in   *)
(* an order that CHOOSE fixes.  The lemmas show that the order is          *)
(* irrelevant.  Each is an induction over the subsets of a finite set,     *)
(* in the form: a nonempty set of counterexamples has a smallest member.   *)
(***************************************************************************)
EXTENDS Naturals, FiniteSets, Functions, FiniteSetTheorems,
        WellFoundedInduction, TLAPS

\* The element that the fold takes out of a set first.
Some(S) == CHOOSE x \in S : TRUE

\* g adds up f over every subset of S, one element after the other.
Adds(g, f, S) ==
  g = [s \in SUBSET S |-> IF s = {} THEN 0 ELSE f[Some(s)] + g[s \ {Some(s)}]]

\* The sum is the last value of such a function, if there is one.
LEMMA SumIsRecursive ==
  ASSUME NEW f, NEW S, NEW g, Adds(g, f, S)
  PROVE  \E h : Adds(h, f, S) /\ SumFunctionOnSet(f, S) = h[S]
<1> DEFINE P(h) == Adds(h, f, S)
<1>1. P(CHOOSE h : P(h))
  BY Zenon
<1>2. SumFunctionOnSet(f, S) = (CHOOSE h : P(h))[S]
  BY DEF SumFunctionOnSet, FoldFunctionOnSet, MapThenFoldSet, Adds, Some
<1> QED BY <1>1, <1>2

\* Every nonempty set of finite subsets has a smallest member.
LEMMA SmallestSet ==
  ASSUME NEW S, IsFiniteSet(S), NEW T \in SUBSET (SUBSET S), T # {}
  PROVE  \E x \in T : \A y \in T : ~(y \subseteq x /\ y # x)
<1>1. IsWellFoundedOn(StrictSubsetOrdering(S), SUBSET S)
  BY FS_StrictSubsetOrderingWellFounded, FS_FiniteSubsetsOfFinite
<1>2. PICK x \in T : \A y \in T : ~(<<y, x>> \in StrictSubsetOrdering(S))
  BY <1>1, WFMin
<1> QED BY <1>2 DEF StrictSubsetOrdering

\* What one pass over a set adds up for a subset does not depend on the set.
LEMMA AddsAgree ==
  ASSUME NEW f, NEW S, IsFiniteSet(S), NEW T \in SUBSET S, NEW g, NEW h,
         Adds(g, f, S), Adds(h, f, T), NEW u \in SUBSET T
  PROVE  g[u] = h[u]
<1> DEFINE Bad == {s \in SUBSET T : g[s] # h[s]}
<1> SUFFICES ASSUME Bad # {} PROVE FALSE
  OBVIOUS
<1>1. IsFiniteSet(T)
  BY FS_Subset
<1>2. PICK s \in Bad : \A y \in Bad : ~(y \subseteq s /\ y # s)
  <2>1. Bad \in SUBSET (SUBSET T)
    OBVIOUS
  <2> HIDE DEF Bad
  <2> QED BY <1>1, <2>1, SmallestSet
<1>3. s # {} => Some(s) \in s
  BY DEF Some
<1>4. s # {} => g[s \ {Some(s)}] = h[s \ {Some(s)}]
  BY <1>2, <1>3
<1>5. /\ g[s] = IF s = {} THEN 0 ELSE f[Some(s)] + g[s \ {Some(s)}]
      /\ h[s] = IF s = {} THEN 0 ELSE f[Some(s)] + h[s \ {Some(s)}]
  BY DEF Adds
<1> QED BY <1>2, <1>4, <1>5

\* There is one for every finite set.
LEMMA AddsExists ==
  ASSUME NEW f, NEW S, IsFiniteSet(S)
  PROVE  \E g : Adds(g, f, S)
<1> DEFINE Bad == {s \in SUBSET S : ~ \E g : Adds(g, f, s)}
<1> SUFFICES ASSUME Bad # {} PROVE FALSE
  OBVIOUS
<1>1. PICK U \in Bad : \A y \in Bad : ~(y \subseteq U /\ y # U)
  <2>1. Bad \in SUBSET (SUBSET S)
    OBVIOUS
  <2> HIDE DEF Bad
  <2> QED BY <2>1, SmallestSet
<1> DEFINE Rest(s) == s \ {Some(s)}
           g == [s \in SUBSET U |->
                   IF s = {} THEN 0
                   ELSE f[Some(s)] + SumFunctionOnSet(f, Rest(s))]
<1>2. ASSUME NEW s \in SUBSET U, s # U
      PROVE  \E h : Adds(h, f, s) /\ SumFunctionOnSet(f, s) = h[s]
  <2>1. PICK h : Adds(h, f, s)
    BY <1>1, <1>2
  <2> QED BY <2>1, SumIsRecursive
<1>3. ASSUME NEW s \in SUBSET U, s # U
      PROVE  SumFunctionOnSet(f, s) = g[s]
  <2>1. PICK h : Adds(h, f, s) /\ SumFunctionOnSet(f, s) = h[s]
    BY <1>2, <1>3
  <2>2. h[s] = IF s = {} THEN 0 ELSE f[Some(s)] + h[Rest(s)]
    BY <2>1 DEF Adds
  <2>3. CASE s = {}
    BY <2>1, <2>2, <2>3
  <2>4. CASE s # {}
    <3>1. Some(s) \in s
      BY <2>4 DEF Some
    <3>2. Rest(s) \in SUBSET U /\ Rest(s) # U /\ Rest(s) \in SUBSET s
      BY <1>3, <3>1
    <3>3. PICK k : /\ Adds(k, f, Rest(s))
                   /\ SumFunctionOnSet(f, Rest(s)) = k[Rest(s)]
      BY <1>2, <3>2
    <3>4. IsFiniteSet(s)
      BY FS_Subset
    <3>5. h[Rest(s)] = k[Rest(s)]
      <4> HIDE DEF Rest
      <4>1. Rest(s) \in SUBSET Rest(s)
        OBVIOUS
      <4> QED BY <2>1, <3>2, <3>3, <3>4, <4>1, AddsAgree
    <3> QED BY <2>1, <2>2, <2>4, <3>3, <3>5
  <2> QED BY <2>3, <2>4
<1>4. ASSUME NEW s \in SUBSET U, s # {}
      PROVE  g[Rest(s)] = SumFunctionOnSet(f, Rest(s))
  <2>1. Some(s) \in s
    BY <1>4 DEF Some
  <2>2. Rest(s) \in SUBSET U /\ Rest(s) # U
    BY <2>1
  <2> HIDE DEF Rest, g
  <2> QED BY <1>3, <2>2
<1>5. Adds(g, f, U)
  <2>1. g = [s \in SUBSET U |-> IF s = {} THEN 0 ELSE f[Some(s)] + g[Rest(s)]]
    <3>1. \A s \in SUBSET U : g[s] = IF s = {} THEN 0 ELSE f[Some(s)] + g[Rest(s)]
      BY <1>4
    <3>2. g = [s \in SUBSET U |-> g[s]]
      OBVIOUS
    <3> HIDE DEF g
    <3> QED BY <3>1, <3>2
  <2> HIDE DEF g
  <2> QED BY <2>1 DEF Adds
<1> QED BY <1>1, <1>5

\* The recursion equation of the sum.
LEMMA SumStep ==
  ASSUME NEW f, NEW S, IsFiniteSet(S)
  PROVE  SumFunctionOnSet(f, S)
           = IF S = {} THEN 0
             ELSE f[Some(S)] + SumFunctionOnSet(f, S \ {Some(S)})
<1>1. PICK g : Adds(g, f, S) /\ SumFunctionOnSet(f, S) = g[S]
  BY AddsExists, SumIsRecursive
<1>2. g[S] = IF S = {} THEN 0 ELSE f[Some(S)] + g[S \ {Some(S)}]
  BY <1>1 DEF Adds
<1> DEFINE R == S \ {Some(S)}
<1>3. R \in SUBSET S /\ IsFiniteSet(R)
  BY FS_Subset
<1>4. PICK h : Adds(h, f, R) /\ SumFunctionOnSet(f, R) = h[R]
  BY <1>3, AddsExists, SumIsRecursive
<1>5. g[R] = h[R]
  <2> HIDE DEF R
  <2>1. R \in SUBSET R
    OBVIOUS
  <2> QED BY <1>1, <1>3, <1>4, <2>1, AddsAgree
<1> QED BY <1>1, <1>2, <1>4, <1>5

\* Nothing adds up to zero.
LEMMA SumEmpty == \A f : SumFunctionOnSet(f, {}) = 0
  BY SumStep, FS_EmptySet

\* A sum of natural numbers is one, and any summand may be split off.
LEMMA SumAdd ==
  ASSUME NEW f, NEW S, IsFiniteSet(S), \A x \in S : f[x] \in Nat
  PROVE  /\ SumFunctionOnSet(f, S) \in Nat
         /\ \A x \in S :
              SumFunctionOnSet(f, S) = f[x] + SumFunctionOnSet(f, S \ {x})
<1> DEFINE Good(T) == /\ SumFunctionOnSet(f, T) \in Nat
                      /\ \A x \in T : SumFunctionOnSet(f, T)
                                     = f[x] + SumFunctionOnSet(f, T \ {x})
           Bad == {T \in SUBSET S : ~Good(T)}
<1> SUFFICES ASSUME Bad # {} PROVE FALSE
  OBVIOUS
<1>1. PICK T \in Bad : \A y \in Bad : ~(y \subseteq T /\ y # T)
  <2>1. Bad \in SUBSET (SUBSET S)
    OBVIOUS
  <2> HIDE DEF Bad
  <2> QED BY <2>1, SmallestSet
<1>2. IsFiniteSet(T) /\ \A x \in T : f[x] \in Nat
  BY FS_Subset
<1>3. T # {}
  <2>1. Good({})
    BY SumEmpty
  <2> HIDE DEF Good
  <2> QED BY <2>1
<1> DEFINE c == Some(T)
<1>4. c \in T
  BY <1>3 DEF Some
<1> HIDE DEF c
<1>5. SumFunctionOnSet(f, T) = f[c] + SumFunctionOnSet(f, T \ {c})
  BY <1>2, <1>3, SumStep DEF c
<1>6. \A x \in T : Good(T \ {x})
  BY <1>1
<1>7. SumFunctionOnSet(f, T) \in Nat
  BY <1>2, <1>4, <1>5, <1>6
<1>8. ASSUME NEW x \in T
      PROVE  SumFunctionOnSet(f, T) = f[x] + SumFunctionOnSet(f, T \ {x})
  <2>1. CASE x = c
    BY <1>5, <2>1
  <2>2. CASE x # c
    <3>1. x \in T \ {c} /\ c \in T \ {x} /\ (T \ {c}) \ {x} = (T \ {x}) \ {c}
      BY <1>4, <2>2
    <3>2. SumFunctionOnSet(f, T \ {c}) = f[x] + SumFunctionOnSet(f, (T \ {c}) \ {x})
      BY <1>4, <1>6, <3>1
    <3>3. SumFunctionOnSet(f, T \ {x}) = f[c] + SumFunctionOnSet(f, (T \ {x}) \ {c})
      BY <1>6, <3>1
    <3>4. SumFunctionOnSet(f, (T \ {c}) \ {x}) \in Nat
      <4>1. /\ (T \ {c}) \ {x} \in SUBSET S
            /\ (T \ {c}) \ {x} \subseteq T /\ (T \ {c}) \ {x} # T
        BY <1>4
      <4> HIDE DEF Good
      <4>2. Good((T \ {c}) \ {x})
        BY <1>1, <4>1
      <4> QED BY <4>2 DEF Good
    <3>5. SumFunctionOnSet(f, (T \ {c}) \ {x}) = SumFunctionOnSet(f, (T \ {x}) \ {c})
      BY <3>1
    <3>6. f[x] \in Nat /\ f[c] \in Nat
      BY <1>2, <1>4
    <3> HIDE DEF Good, Bad
    <3> QED BY <1>5, <3>2, <3>3, <3>4, <3>5, <3>6
  <2> QED BY <2>1, <2>2
<1> QED BY <1>1, <1>7, <1>8

\* Sums grow with the summands and with the set; summands of zero do not count.
LEMMA SumMonotone ==
  ASSUME NEW f, NEW g, NEW S, IsFiniteSet(S), NEW T, IsFiniteSet(T),
         \A x \in S : g[x] \in Nat,
         \A x \in T : f[x] \in Nat /\ (f[x] # 0 => x \in S /\ f[x] <= g[x])
  PROVE  SumFunctionOnSet(f, T) <= SumFunctionOnSet(g, S)
<1> DEFINE Below(R) ==
             SumFunctionOnSet(f, R \cap T) <= SumFunctionOnSet(g, R \cap S)
           Bad == {R \in SUBSET (S \cup T) : ~Below(R)}
<1>0. (S \cup T) \cap T = T /\ (S \cup T) \cap S = S
  OBVIOUS
<1> SUFFICES ASSUME Bad # {} PROVE FALSE
  <2>1. S \cup T \in SUBSET (S \cup T)
    OBVIOUS
  <2>2. Below(S \cup T) => SumFunctionOnSet(f, T) <= SumFunctionOnSet(g, S)
    BY <1>0
  <2> HIDE DEF Below
  <2> QED BY <2>1, <2>2
<1>1. PICK R \in Bad : \A y \in Bad : ~(y \subseteq R /\ y # R)
  <2>1. Bad \in SUBSET (SUBSET (S \cup T))
    OBVIOUS
  <2>2. IsFiniteSet(S \cup T)
    BY FS_Union
  <2> HIDE DEF Bad
  <2> QED BY <2>1, <2>2, SmallestSet
<1>2. ASSUME NEW Q
      PROVE  /\ IsFiniteSet(Q \cap S) /\ IsFiniteSet(Q \cap T)
             /\ SumFunctionOnSet(g, Q \cap S) \in Nat
             /\ SumFunctionOnSet(f, Q \cap T) \in Nat
             /\ \A x \in Q \cap S : SumFunctionOnSet(g, Q \cap S)
                                  = g[x] + SumFunctionOnSet(g, (Q \cap S) \ {x})
             /\ \A x \in Q \cap T : SumFunctionOnSet(f, Q \cap T)
                                  = f[x] + SumFunctionOnSet(f, (Q \cap T) \ {x})
  <2>1. IsFiniteSet(Q \cap S) /\ IsFiniteSet(Q \cap T)
    <3>1. Q \cap S \in SUBSET S /\ Q \cap T \in SUBSET T
      OBVIOUS
    <3> QED BY <3>1, FS_Subset
  <2>2. /\ \A x \in Q \cap S : g[x] \in Nat
        /\ \A x \in Q \cap T : f[x] \in Nat
    OBVIOUS
  <2> QED BY <2>1, <2>2, SumAdd, ZenonT(60)
<1>3. CASE R = {}
  <2>1. R \cap T = {} /\ R \cap S = {}
    BY <1>3
  <2> QED BY <1>1, <1>3, <2>1, SumEmpty
<1>4. ASSUME NEW x \in R PROVE FALSE
  <2> DEFINE Q == R \ {x}
             sf == SumFunctionOnSet(f, Q \cap T)
             sg == SumFunctionOnSet(g, Q \cap S)
  <2>1. sf <= sg
    <3>1. Q \in SUBSET (S \cup T) /\ Q \subseteq R /\ Q # R
      OBVIOUS
    <3>2. Below(Q)
      <4> HIDE DEF Below, Q
      <4> QED BY <1>1, <3>1
    <3> QED BY <3>2
  <2>2. sf \in Nat /\ sg \in Nat
    BY <1>2
  <2>3. /\ (R \cap T) \ {x} = Q \cap T
        /\ (R \cap S) \ {x} = Q \cap S
        /\ x \notin T => R \cap T = Q \cap T
        /\ x \notin S => R \cap S = Q \cap S
    OBVIOUS
  <2>4. SumFunctionOnSet(f, R \cap T) = IF x \in T THEN f[x] + sf ELSE sf
    <3>1. CASE x \in T
      <4>1. SumFunctionOnSet(f, R \cap T)
              = f[x] + SumFunctionOnSet(f, (R \cap T) \ {x})
        BY <1>2, <3>1
      <4> QED BY <2>3, <3>1, <4>1
    <3>2. CASE x \notin T
      <4>1. R \cap T = Q \cap T
        BY <2>3, <3>2
      <4>2. SumFunctionOnSet(f, R \cap T) = sf
        BY ONLY <4>1
      <4> QED BY <3>2, <4>2
    <3> QED BY <3>1, <3>2
  <2>5. SumFunctionOnSet(g, R \cap S) = IF x \in S THEN g[x] + sg ELSE sg
    <3>1. CASE x \in S
      <4>1. SumFunctionOnSet(g, R \cap S)
              = g[x] + SumFunctionOnSet(g, (R \cap S) \ {x})
        BY <1>2, <3>1
      <4> QED BY <2>3, <3>1, <4>1
    <3>2. CASE x \notin S
      <4>1. R \cap S = Q \cap S
        BY <2>3, <3>2
      <4>2. SumFunctionOnSet(g, R \cap S) = sg
        BY ONLY <4>1
      <4> QED BY <3>2, <4>2
    <3> QED BY <3>1, <3>2
  <2>6. /\ x \in T => f[x] \in Nat /\ (f[x] # 0 => x \in S /\ f[x] <= g[x])
        /\ x \in S => g[x] \in Nat
    OBVIOUS
  <2>7. Below(R)
    <3> HIDE DEF sf, sg, Bad
    <3> QED BY <2>1, <2>2, <2>4, <2>5, <2>6
  <2> QED BY <1>1, <2>7
<1> QED BY <1>3, <1>4

\* A sum depends only on the values that are summed.
LEMMA SumSame ==
  ASSUME NEW f, NEW g, NEW S, IsFiniteSet(S),
         \A x \in S : f[x] \in Nat /\ g[x] = f[x]
  PROVE  SumFunctionOnSet(g, S) = SumFunctionOnSet(f, S)
<1>1. /\ SumFunctionOnSet(f, S) <= SumFunctionOnSet(g, S)
      /\ SumFunctionOnSet(g, S) <= SumFunctionOnSet(f, S)
  <2>1. \A x \in S : /\ f[x] \in Nat /\ g[x] \in Nat
                     /\ f[x] <= g[x] /\ g[x] <= f[x]
    OBVIOUS
  <2> QED BY <2>1, SumMonotone
<1>2. SumFunctionOnSet(f, S) \in Nat /\ SumFunctionOnSet(g, S) \in Nat
  BY SumAdd
<1> QED BY <1>1, <1>2

\* Changing one summand changes the sum by the difference.
LEMMA SumUpdate ==
  ASSUME NEW f, NEW g, NEW S, IsFiniteSet(S), NEW x \in S,
         \A y \in S : f[y] \in Nat /\ g[y] \in Nat,
         \A y \in S \ {x} : g[y] = f[y]
  PROVE  SumFunctionOnSet(g, S) + f[x] = SumFunctionOnSet(f, S) + g[x]
<1> DEFINE R == S \ {x}
<1>1. R \in SUBSET S /\ IsFiniteSet(R)
  BY FS_Subset
<1>2. /\ SumFunctionOnSet(f, S) = f[x] + SumFunctionOnSet(f, R)
      /\ SumFunctionOnSet(g, S) = g[x] + SumFunctionOnSet(g, R)
  BY SumAdd
<1>3. \A y \in R : f[y] \in Nat /\ g[y] = f[y]
  OBVIOUS
<1>4. SumFunctionOnSet(f, R) \in Nat /\ SumFunctionOnSet(g, R) = SumFunctionOnSet(f, R)
  <2> HIDE DEF R
  <2> QED BY <1>1, <1>3, SumAdd, SumSame
<1>5. f[x] \in Nat /\ g[x] \in Nat
  OBVIOUS
<1> QED BY <1>2, <1>4, <1>5
=============================================================================
