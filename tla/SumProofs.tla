----------------------------- MODULE SumProofs -----------------------------
(***************************************************************************)
(* Sums of functions over finite sets, for every size of the set: the      *)
(* balances of an account are such sums.                                   *)
(*                                                                         *)
(* Each fact is proved by induction over the subsets of the set.  The      *)
(* induction principles are stated for the SET of the cases that hold      *)
(* instead of a predicate, so that a proof can use them with a set of its  *)
(* own.                                                                    *)
(***************************************************************************)
EXTENDS Integers, FiniteSets, Functions, WellFoundedInduction, FiniteSetTheorems, TLAPS

-----------------------------------------------------------------------------
(***************************************************************************)
(* Induction.                                                              *)
(***************************************************************************)
\* A nonempty set of naturals has a least element.
LEMMA LeastNat ==
  ASSUME NEW T, T \subseteq Nat, T # {}
  PROVE  \E n \in T : \A m \in T : n <= m
<1> DEFINE R == OpToRel(<, Nat)
<1>1. IsWellFoundedOn(R, Nat)
  BY NatLessThanWellFounded
<1>2. \A x, y \in Nat : x < y => <<x, y>> \in R
  BY DEF OpToRel
<1> HIDE DEF R
<1>3. \E x \in T : \A y \in T : ~(<<y, x>> \in R)
  BY <1>1, WFMin
<1>4. PICK n \in T : \A y \in T : ~(<<y, n>> \in R)
  BY <1>3
<1>5. \A m \in T : ~(m < n)
  BY <1>2, <1>4
<1>6. ASSUME NEW m \in T PROVE n <= m
  <2>1. m \in Nat /\ n \in Nat /\ ~(m < n)
    BY <1>5
  <2> QED
    BY <2>1
<1> QED
  BY <1>6

\* A set of naturals with 0 and the successor of each of its elements is Nat.
LEMMA InductionOnNat ==
  ASSUME NEW P, P \subseteq Nat, 0 \in P, \A n \in P : n + 1 \in P
  PROVE  P = Nat
<1> SUFFICES ASSUME Nat \ P # {} PROVE FALSE
  OBVIOUS
<1>1. PICK n \in Nat \ P : \A m \in Nat \ P : n <= m
  BY LeastNat
<1>2. n - 1 \in Nat /\ ~(n <= n - 1)
  <2>1. n \in Nat /\ n # 0
    OBVIOUS
  <2> QED
    BY <2>1
<1>3. n - 1 \in P
  BY <1>1, <1>2
<1>4. (n - 1) + 1 \in P
  BY <1>3
<1> QED
  BY <1>1, <1>4

\* A set of subsets of S with every subset whose strict subsets it has contains S.
LEMMA InductionOnStrictSubsets ==
  ASSUME NEW S, IsFiniteSet(S), NEW P,
         \A T \in SUBSET S : (\A U \in SUBSET T : U # T => U \in P) => T \in P
  PROVE  S \in P
<1> DEFINE Q == {n \in Nat : \A T \in SUBSET S : Cardinality(T) <= n => T \in P}
<1>1. \A T \in SUBSET S : /\ IsFiniteSet(T) /\ Cardinality(T) \in Nat
                          /\ \A U \in SUBSET T : /\ Cardinality(U) \in Nat
                                                 /\ U # T => Cardinality(U) < Cardinality(T)
  <2> SUFFICES ASSUME NEW T \in SUBSET S, NEW U \in SUBSET T
               PROVE  /\ IsFiniteSet(T) /\ Cardinality(T) \in Nat /\ Cardinality(U) \in Nat
                      /\ U # T => Cardinality(U) < Cardinality(T)
    OBVIOUS
  <2>1. IsFiniteSet(T) /\ Cardinality(T) \in Nat
    BY FS_Subset, FS_CardinalityType
  <2>2. /\ IsFiniteSet(U) /\ Cardinality(U) <= Cardinality(T)
        /\ Cardinality(T) = Cardinality(U) => T = U
    BY <2>1, FS_Subset
  <2>3. Cardinality(U) \in Nat
    BY <2>2, FS_CardinalityType
  <2> QED
    BY <2>1, <2>2, <2>3
<1>2. 0 \in Q
  <2> SUFFICES ASSUME NEW T \in SUBSET S, Cardinality(T) <= 0 PROVE T \in P
    OBVIOUS
  <2>1. \A U \in SUBSET T : U = T
    <3> SUFFICES ASSUME NEW U \in SUBSET T, U # T PROVE FALSE
      OBVIOUS
    <3>1. Cardinality(U) \in Nat /\ Cardinality(T) \in Nat /\ Cardinality(U) < Cardinality(T)
      BY <1>1
    <3> QED
      BY <3>1
  <2> QED
    BY <2>1
<1>3. ASSUME NEW n \in Q PROVE n + 1 \in Q
  <2> SUFFICES ASSUME NEW T \in SUBSET S, Cardinality(T) <= n + 1 PROVE T \in P
    OBVIOUS
  <2>1. ASSUME NEW U \in SUBSET T, U # T PROVE U \in P
    <3>1. Cardinality(U) \in Nat /\ Cardinality(T) \in Nat /\ Cardinality(U) < Cardinality(T)
      BY <1>1, <2>1
    <3>2. Cardinality(U) <= n
      BY <3>1
    <3> QED
      BY <3>2
  <2> QED
    BY <2>1
<1>4. Q = Nat
  <2> HIDE DEF Q
  <2>1. Q \subseteq Nat
    BY DEF Q
  <2> QED
    BY <1>2, <1>3, <2>1, InductionOnNat
<1>5. Cardinality(S) \in Q
  BY <1>1, <1>4
<1>6. Cardinality(S) <= Cardinality(S)
  BY <1>1
<1> QED
  BY <1>5, <1>6

\* A set with the empty set, and with each of its elements that element with one
\* more member of S, contains S.
LEMMA InductionOnSubsets ==
  ASSUME NEW S, IsFiniteSet(S), NEW P, {} \in P,
         \A T \in SUBSET S : \A x \in S \ T : T \in P => T \cup {x} \in P
  PROVE  S \in P
<1>1. ASSUME NEW T \in SUBSET S, \A U \in SUBSET T : U # T => U \in P PROVE T \in P
  <2>1. CASE T = {}
    BY <2>1
  <2>2. CASE T # {}
    <3>1. PICK x \in T : TRUE
      BY <2>2
    <3>2. T \ {x} \in P
      BY <1>1
    <3>3. (T \ {x}) \cup {x} \in P
      BY <3>2
    <3>4. (T \ {x}) \cup {x} = T
      OBVIOUS
    <3> QED
      BY <3>3, <3>4
  <2> QED
    BY <2>1, <2>2
<1> QED
  BY <1>1, InductionOnStrictSubsets

-----------------------------------------------------------------------------
(***************************************************************************)
(* The sum as its definition computes it: from a function on the subsets.  *)
(***************************************************************************)
Chosen(s) == CHOOSE x \in s : TRUE
IsPartial(f, S, g) ==
  g = [s \in SUBSET S |-> IF s = {} THEN 0 ELSE f[Chosen(s)] + g[s \ {Chosen(s)}]]

LEMMA SumIsPartial ==
  ASSUME NEW f, NEW S
  PROVE  SumFunctionOnSet(f, S) = (CHOOSE g : IsPartial(f, S, g))[S]
BY DEF SumFunctionOnSet, FoldFunctionOnSet, MapThenFoldSet, IsPartial, Chosen

LEMMA PartialsAgree ==
  ASSUME NEW f, NEW S, NEW T, NEW g, NEW h, IsPartial(f, S, g), IsPartial(f, T, h),
         NEW U, IsFiniteSet(U), U \subseteq S, U \subseteq T
  PROVE  g[U] = h[U]
<1> DEFINE P == {V \in SUBSET U : g[V] = h[V]}
<1>1. ASSUME NEW V \in SUBSET U, \A W \in SUBSET V : W # V => W \in P PROVE V \in P
  <2>0. V \in SUBSET S /\ V \in SUBSET T
    OBVIOUS
  <2>1. CASE V = {}
    BY <2>0, <2>1 DEF IsPartial
  <2>2. CASE V # {}
    <3>1. Chosen(V) \in V
      BY <2>2 DEF Chosen
    <3>2. g[V] = f[Chosen(V)] + g[V \ {Chosen(V)}]
      BY <2>0, <2>2 DEF IsPartial
    <3>3. h[V] = f[Chosen(V)] + h[V \ {Chosen(V)}]
      BY <2>0, <2>2 DEF IsPartial
    <3>4. V \ {Chosen(V)} \in P
      BY <1>1, <3>1
    <3> QED
      BY <3>2, <3>3, <3>4
  <2> QED
    BY <2>1, <2>2
<1>2. U \in P
  <2> HIDE DEF P
  <2> QED
    BY <1>1, InductionOnStrictSubsets
<1> QED
  BY <1>2

\* With a function on the subsets of S, the sum over one of them is its value there.
LEMMA PartialIsSum ==
  ASSUME NEW f, NEW S, IsFiniteSet(S), NEW g, IsPartial(f, S, g)
  PROVE  g[S] = SumFunctionOnSet(f, S)
<1>1. IsPartial(f, S, CHOOSE h : IsPartial(f, S, h))
  OBVIOUS
<1> QED
  BY <1>1, PartialsAgree, SumIsPartial

LEMMA PartialOnSubset ==
  ASSUME NEW f, NEW S, NEW g, IsPartial(f, S, g), NEW T \in SUBSET S
  PROVE  IsPartial(f, T, [s \in SUBSET T |-> g[s]])
<1> DEFINE h == [s \in SUBSET T |-> g[s]]
<1>1. ASSUME NEW s \in SUBSET T
      PROVE  h[s] = IF s = {} THEN 0 ELSE f[Chosen(s)] + h[s \ {Chosen(s)}]
  <2>1. s \in SUBSET S /\ s \ {Chosen(s)} \in SUBSET T
    OBVIOUS
  <2>2. g[s] = IF s = {} THEN 0 ELSE f[Chosen(s)] + g[s \ {Chosen(s)}]
    BY <2>1 DEF IsPartial
  <2> QED
    BY <2>1, <2>2
<1> QED
  BY <1>1 DEF IsPartial

LEMMA PartialExists ==
  ASSUME NEW f, NEW S, IsFiniteSet(S)
  PROVE  \E g : IsPartial(f, S, g)
<1> DEFINE P == {T \in SUBSET S : \E g : IsPartial(f, T, g)}
<1>1. ASSUME NEW T \in SUBSET S, \A U \in SUBSET T : U # T => U \in P PROVE T \in P
  <2> DEFINE sum(s) == SumFunctionOnSet(f, s)
             g == [s \in SUBSET T |-> IF s = {} THEN 0
                                      ELSE f[Chosen(s)] + sum(s \ {Chosen(s)})]
  <2>1. ASSUME NEW s \in SUBSET T, s # T PROVE g[s] = sum(s)
    <3>1. PICK h : IsPartial(f, s, h)
      BY <1>1, <2>1
    <3>2. IsFiniteSet(s)
      BY FS_Subset
    <3>3. h[s] = sum(s)
      BY <3>1, <3>2, PartialIsSum
    <3>4. h[s] = IF s = {} THEN 0 ELSE f[Chosen(s)] + h[s \ {Chosen(s)}]
      BY <3>1 DEF IsPartial
    <3>5. h[s \ {Chosen(s)}] = sum(s \ {Chosen(s)})
      <4> DEFINE r == s \ {Chosen(s)}
      <4>1. IsPartial(f, r, [t \in SUBSET r |-> h[t]])
        BY <3>1, PartialOnSubset
      <4>2. IsFiniteSet(r)
        BY <3>2, FS_Subset
      <4>3. [t \in SUBSET r |-> h[t]][r] = sum(r)
        <5> HIDE DEF r
        <5> QED
          BY <4>1, <4>2, PartialIsSum
      <4> QED
        BY <4>3
    <3> QED
      BY <3>3, <3>4, <3>5
  <2>2. ASSUME NEW s \in SUBSET T, s # {} PROVE g[s \ {Chosen(s)}] = sum(s \ {Chosen(s)})
    <3>1. Chosen(s) \in s
      BY <2>2 DEF Chosen
    <3>2. s \ {Chosen(s)} \in SUBSET T /\ s \ {Chosen(s)} # T
      BY <3>1
    <3> HIDE DEF g, sum
    <3> QED
      BY <3>2, <2>1
  <2>3. g = [s \in SUBSET T |-> IF s = {} THEN 0 ELSE f[Chosen(s)] + g[s \ {Chosen(s)}]]
    <3>1. ASSUME NEW s \in SUBSET T
          PROVE  (IF s = {} THEN 0 ELSE f[Chosen(s)] + sum(s \ {Chosen(s)}))
                 = (IF s = {} THEN 0 ELSE f[Chosen(s)] + g[s \ {Chosen(s)}])
      <4> HIDE DEF g, sum
      <4> QED
        BY <2>2
    <3> DEFINE k(s) == IF s = {} THEN 0 ELSE f[Chosen(s)] + g[s \ {Chosen(s)}]
    <3>2. \A s \in SUBSET T : g[s] = k(s)
      BY <3>1
    <3>3. g = [s \in SUBSET T |-> g[s]]
      OBVIOUS
    <3> HIDE DEF g
    <3> QED
      BY <3>2, <3>3
  <2>4. IsPartial(f, T, g)
    <3> HIDE DEF g
    <3> QED
      BY <2>3 DEF IsPartial
  <2> QED
    BY <2>4
<1>2. S \in P
  <2> HIDE DEF P
  <2> QED
    BY <1>1, InductionOnStrictSubsets
<1> QED
  BY <1>2

-----------------------------------------------------------------------------
(***************************************************************************)
(* Facts about sums.                                                       *)
(***************************************************************************)
\* The sum over nothing is 0, and a member can be counted apart.
LEMMA SumEmpty ==
  ASSUME NEW f
  PROVE  SumFunctionOnSet(f, {}) = 0
<1>1. IsFiniteSet({})
  BY FS_EmptySet
<1>2. PICK g : IsPartial(f, {}, g)
  BY <1>1, PartialExists
<1>3. g[{}] = SumFunctionOnSet(f, {})
  BY <1>1, <1>2, PartialIsSum
<1>4. g[{}] = 0
  BY <1>2 DEF IsPartial
<1> QED
  BY <1>3, <1>4

LEMMA SumChosen ==
  ASSUME NEW f, NEW S, IsFiniteSet(S), S # {}
  PROVE  SumFunctionOnSet(f, S) = f[Chosen(S)] + SumFunctionOnSet(f, S \ {Chosen(S)})
<1> DEFINE r == S \ {Chosen(S)}
<1>1. PICK g : IsPartial(f, S, g)
  BY PartialExists
<1>2. g[S] = SumFunctionOnSet(f, S)
  BY <1>1, PartialIsSum
<1>3. g[S] = f[Chosen(S)] + g[r]
  BY <1>1 DEF IsPartial
<1>4. g[r] = SumFunctionOnSet(f, r)
  <2>1. r \in SUBSET S
    OBVIOUS
  <2> HIDE DEF r
  <2>2. IsFiniteSet(r)
    BY <2>1, FS_Subset
  <2>3. IsPartial(f, r, [t \in SUBSET r |-> g[t]])
    BY <1>1, <2>1, PartialOnSubset
  <2>4. [t \in SUBSET r |-> g[t]][r] = SumFunctionOnSet(f, r)
    BY <2>2, <2>3, PartialIsSum
  <2> QED
    BY <2>4
<1> QED
  BY <1>2, <1>3, <1>4

LEMMA SumType ==
  ASSUME NEW f, NEW S, IsFiniteSet(S), \A x \in S : f[x] \in Int
  PROVE  SumFunctionOnSet(f, S) \in Int
<1> DEFINE P == {T \in SUBSET S : SumFunctionOnSet(f, T) \in Int}
<1>1. ASSUME NEW T \in SUBSET S, \A U \in SUBSET T : U # T => U \in P PROVE T \in P
  <2>1. CASE T = {}
    BY <2>1, SumEmpty
  <2>2. CASE T # {}
    <3>1. Chosen(T) \in T /\ IsFiniteSet(T)
      BY <2>2, FS_Subset DEF Chosen
    <3>2. SumFunctionOnSet(f, T) = f[Chosen(T)] + SumFunctionOnSet(f, T \ {Chosen(T)})
      BY <2>2, <3>1, SumChosen
    <3>3. SumFunctionOnSet(f, T \ {Chosen(T)}) \in Int
      BY <1>1, <3>1
    <3>4. f[Chosen(T)] \in Int
      BY <3>1
    <3> QED
      BY <3>2, <3>3, <3>4
  <2> QED
    BY <2>1, <2>2
<1>2. S \in P
  <2> HIDE DEF P
  <2> QED
    BY <1>1, InductionOnStrictSubsets
<1> QED
  BY <1>2

LEMMA SumMember ==
  ASSUME NEW f, NEW S, IsFiniteSet(S), \A x \in S : f[x] \in Int, NEW x \in S
  PROVE  SumFunctionOnSet(f, S) = f[x] + SumFunctionOnSet(f, S \ {x})
<1> DEFINE sum(s) == SumFunctionOnSet(f, s)
           P == {T \in SUBSET S : \A y \in T : sum(T) = f[y] + sum(T \ {y})}
<1>0. \A T \in SUBSET S : IsFiniteSet(T) /\ sum(T) \in Int
  <2> SUFFICES ASSUME NEW T \in SUBSET S PROVE IsFiniteSet(T) /\ sum(T) \in Int
    OBVIOUS
  <2>1. IsFiniteSet(T)
    BY FS_Subset
  <2>2. sum(T) \in Int
    BY <2>1, SumType
  <2> QED
    BY <2>1, <2>2
<1>1. ASSUME NEW T \in SUBSET S, \A U \in SUBSET T : U # T => U \in P PROVE T \in P
  <2> SUFFICES ASSUME NEW y \in T PROVE sum(T) = f[y] + sum(T \ {y})
    OBVIOUS
  <2> DEFINE c == Chosen(T)
  <2>1. c \in T
    BY DEF Chosen
  <2>2. sum(T) = f[c] + sum(T \ {c})
    BY <1>0, SumChosen
  <2> HIDE DEF c, sum
  <2>3. CASE c # y
    <3>1. T \ {c} \in P /\ T \ {y} \in P
      BY <1>1, <2>1
    <3>2. sum(T \ {c}) = f[y] + sum((T \ {c}) \ {y})
      BY <2>3, <3>1
    <3>3. sum(T \ {y}) = f[c] + sum((T \ {y}) \ {c})
      BY <2>1, <2>3, <3>1
    <3>4. sum((T \ {c}) \ {y}) = sum((T \ {y}) \ {c})
      <4>1. (T \ {c}) \ {y} = (T \ {y}) \ {c}
        OBVIOUS
      <4> QED
        BY <4>1
    <3> HIDE DEF P
    <3>5. f[c] \in Int /\ f[y] \in Int /\ sum((T \ {y}) \ {c}) \in Int
      BY <1>0, <2>1
    <3> QED
      BY <2>2, <3>2, <3>3, <3>4, <3>5
  <2> QED
    BY <2>2, <2>3
<1>2. S \in P
  <2> HIDE DEF P
  <2> QED
    BY <1>1, InductionOnStrictSubsets
<1> QED
  BY <1>2

LEMMA SumAdd ==
  ASSUME NEW f, NEW S, IsFiniteSet(S), \A x \in S : f[x] \in Int,
         NEW T \in SUBSET S, NEW x \in S \ T
  PROVE  /\ SumFunctionOnSet(f, T \cup {x}) = SumFunctionOnSet(f, T) + f[x]
         /\ SumFunctionOnSet(f, T) \in Int
<1>1. IsFiniteSet(T \cup {x}) /\ IsFiniteSet(T)
  <2>1. T \cup {x} \in SUBSET S
    OBVIOUS
  <2> QED
    BY <2>1, FS_Subset
<1>2. SumFunctionOnSet(f, T \cup {x}) = f[x] + SumFunctionOnSet(f, (T \cup {x}) \ {x})
  BY <1>1, SumMember
<1>3. (T \cup {x}) \ {x} = T
  OBVIOUS
<1>4. SumFunctionOnSet(f, T) \in Int /\ f[x] \in Int
  BY <1>1, SumType
<1> DEFINE U == T \cup {x}
<1>5. SumFunctionOnSet(f, U) = f[x] + SumFunctionOnSet(f, T)
  BY <1>2, <1>3
<1> HIDE DEF U
<1>6. SumFunctionOnSet(f, U) = SumFunctionOnSet(f, T) + f[x]
  BY <1>4, <1>5
<1> QED
  BY <1>4, <1>6 DEF U

\* Functions that agree on S have the same sum over it.
LEMMA SumEqual ==
  ASSUME NEW f, NEW g, NEW S, IsFiniteSet(S),
         \A x \in S : f[x] \in Int /\ f[x] = g[x]
  PROVE  SumFunctionOnSet(f, S) = SumFunctionOnSet(g, S)
<1> DEFINE P == {T \in SUBSET S : SumFunctionOnSet(f, T) = SumFunctionOnSet(g, T)}
<1>1. {} \in P
  BY SumEmpty
<1>2. ASSUME NEW T \in SUBSET S, NEW x \in S \ T, T \in P PROVE T \cup {x} \in P
  <2>1. SumFunctionOnSet(f, T \cup {x}) = SumFunctionOnSet(f, T) + f[x]
    BY SumAdd
  <2>2. SumFunctionOnSet(g, T \cup {x}) = SumFunctionOnSet(g, T) + g[x]
    BY SumAdd
  <2> QED
    BY <1>2, <2>1, <2>2
<1>3. S \in P
  <2> HIDE DEF P
  <2> QED
    BY <1>1, <1>2, InductionOnSubsets
<1> QED
  BY <1>3

\* A function that is 0 outside T has the same sum over a larger set.
LEMMA SumZeroOutside ==
  ASSUME NEW f, NEW S, IsFiniteSet(S), \A x \in S : f[x] \in Int,
         NEW T \in SUBSET S, \A x \in S \ T : f[x] = 0
  PROVE  SumFunctionOnSet(f, S) = SumFunctionOnSet(f, T)
<1> DEFINE P == {U \in SUBSET S : SumFunctionOnSet(f, U) = SumFunctionOnSet(f, U \cap T)}
<1>1. {} \in P
  <2>1. {} \cap T = {}
    OBVIOUS
  <2> QED
    BY <2>1
<1>2. ASSUME NEW U \in SUBSET S, NEW x \in S \ U, U \in P PROVE U \cup {x} \in P
  <2>1. /\ SumFunctionOnSet(f, U \cup {x}) = SumFunctionOnSet(f, U) + f[x]
        /\ SumFunctionOnSet(f, U) \in Int
    BY SumAdd
  <2>2. CASE x \in T
    <3>1. U \cap T \in SUBSET S /\ x \in S \ (U \cap T)
      OBVIOUS
    <3>2. SumFunctionOnSet(f, (U \cap T) \cup {x}) = SumFunctionOnSet(f, U \cap T) + f[x]
      BY <3>1, SumAdd
    <3>3. (U \cup {x}) \cap T = (U \cap T) \cup {x}
      BY <2>2
    <3> QED
      BY <1>2, <2>1, <3>2, <3>3
  <2>3. CASE x \notin T
    <3>1. (U \cup {x}) \cap T = U \cap T
      BY <2>3
    <3>2. SumFunctionOnSet(f, U) + f[x] = SumFunctionOnSet(f, U)
      <4>1. f[x] = 0
        BY <2>3
      <4> QED
        BY <2>1, <4>1
    <3> QED
      BY <1>2, <2>1, <3>1, <3>2
  <2> QED
    BY <2>2, <2>3
<1>3. S \in P
  <2> HIDE DEF P
  <2> QED
    BY <1>1, <1>2, InductionOnSubsets
<1>4. S \cap T = T
  OBVIOUS
<1> QED
  BY <1>3, <1>4

\* What is changed at one member changes in the sum.
LEMMA SumUpdate ==
  ASSUME NEW f, NEW g, NEW S, IsFiniteSet(S), NEW x \in S,
         \A y \in S : f[y] \in Int /\ g[y] \in Int,
         \A y \in S \ {x} : f[y] = g[y]
  PROVE  SumFunctionOnSet(g, S) = SumFunctionOnSet(f, S) - f[x] + g[x]
<1>1. IsFiniteSet(S \ {x})
  BY FS_Subset
<1>2. SumFunctionOnSet(f, S) = f[x] + SumFunctionOnSet(f, S \ {x})
  BY SumMember
<1>3. SumFunctionOnSet(g, S) = g[x] + SumFunctionOnSet(g, S \ {x})
  BY SumMember
<1>4. SumFunctionOnSet(f, S \ {x}) = SumFunctionOnSet(g, S \ {x})
  BY <1>1, SumEqual
<1>5. SumFunctionOnSet(f, S \ {x}) \in Int /\ f[x] \in Int /\ g[x] \in Int
  BY <1>1, SumType
<1> QED
  BY <1>2, <1>3, <1>4, <1>5

\* Sums add up, and keep an order that holds member by member.
LEMMA SumPlus ==
  ASSUME NEW f, NEW g, NEW h, NEW S, IsFiniteSet(S),
         \A x \in S : f[x] \in Int /\ g[x] \in Int /\ h[x] = f[x] + g[x]
  PROVE  SumFunctionOnSet(h, S) = SumFunctionOnSet(f, S) + SumFunctionOnSet(g, S)
<1> DEFINE P == {T \in SUBSET S : SumFunctionOnSet(h, T) = SumFunctionOnSet(f, T)
                                                          + SumFunctionOnSet(g, T)}
<1>1. {} \in P
  BY SumEmpty
<1>2. ASSUME NEW T \in SUBSET S, NEW x \in S \ T, T \in P PROVE T \cup {x} \in P
  <2>1. /\ SumFunctionOnSet(f, T \cup {x}) = SumFunctionOnSet(f, T) + f[x]
        /\ SumFunctionOnSet(f, T) \in Int
    BY SumAdd
  <2>2. /\ SumFunctionOnSet(g, T \cup {x}) = SumFunctionOnSet(g, T) + g[x]
        /\ SumFunctionOnSet(g, T) \in Int
    BY SumAdd
  <2>3. SumFunctionOnSet(h, T \cup {x}) = SumFunctionOnSet(h, T) + h[x]
    <3>1. \A y \in S : h[y] \in Int
      OBVIOUS
    <3> QED
      BY <3>1, SumAdd
  <2> QED
    BY <1>2, <2>1, <2>2, <2>3
<1>3. S \in P
  <2> HIDE DEF P
  <2> QED
    BY <1>1, <1>2, InductionOnSubsets
<1> QED
  BY <1>3

LEMMA SumOrder ==
  ASSUME NEW f, NEW g, NEW S, IsFiniteSet(S),
         \A x \in S : f[x] \in Int /\ g[x] \in Int /\ f[x] <= g[x]
  PROVE  SumFunctionOnSet(f, S) <= SumFunctionOnSet(g, S)
<1> DEFINE P == {T \in SUBSET S : SumFunctionOnSet(f, T) <= SumFunctionOnSet(g, T)}
<1>1. {} \in P
  BY SumEmpty
<1>2. ASSUME NEW T \in SUBSET S, NEW x \in S \ T, T \in P PROVE T \cup {x} \in P
  <2>1. /\ SumFunctionOnSet(f, T \cup {x}) = SumFunctionOnSet(f, T) + f[x]
        /\ SumFunctionOnSet(f, T) \in Int
    BY SumAdd
  <2>2. /\ SumFunctionOnSet(g, T \cup {x}) = SumFunctionOnSet(g, T) + g[x]
        /\ SumFunctionOnSet(g, T) \in Int
    BY SumAdd
  <2>3. f[x] \in Int /\ g[x] \in Int /\ f[x] <= g[x]
    OBVIOUS
  <2> QED
    BY <1>2, <2>1, <2>2, <2>3
<1>3. S \in P
  <2> HIDE DEF P
  <2> QED
    BY <1>1, <1>2, InductionOnSubsets
<1> QED
  BY <1>3

LEMMA SumZero ==
  ASSUME NEW f, NEW S, IsFiniteSet(S), \A x \in S : f[x] = 0
  PROVE  SumFunctionOnSet(f, S) = 0
<1>1. SumFunctionOnSet(f, S) = SumFunctionOnSet(f, {})
  BY SumZeroOutside
<1> QED
  BY <1>1, SumEmpty

\* A sum of naturals is one, and at least each of them.
LEMMA SumNat ==
  ASSUME NEW f, NEW S, IsFiniteSet(S), \A x \in S : f[x] \in Nat
  PROVE  /\ SumFunctionOnSet(f, S) \in Nat
         /\ \A x \in S : f[x] <= SumFunctionOnSet(f, S)
<1> DEFINE z == [x \in S |-> 0]
<1>1. ASSUME NEW T \in SUBSET S PROVE SumFunctionOnSet(f, T) \in Nat
  <2>1. IsFiniteSet(T)
    BY FS_Subset
  <2>2. SumFunctionOnSet(z, T) = 0
    <3>1. \A x \in T : z[x] = 0
      OBVIOUS
    <3> HIDE DEF z
    <3> QED
      BY <2>1, <3>1, SumZero
  <2>3. SumFunctionOnSet(z, T) <= SumFunctionOnSet(f, T)
    <3>1. \A x \in T : z[x] \in Int /\ f[x] \in Int /\ z[x] <= f[x]
      OBVIOUS
    <3> HIDE DEF z
    <3> QED
      BY <2>1, <3>1, SumOrder
  <2>4. SumFunctionOnSet(f, T) \in Int
    BY <2>1, SumType
  <2> QED
    BY <2>2, <2>3, <2>4
<1>2. ASSUME NEW x \in S PROVE f[x] <= SumFunctionOnSet(f, S)
  <2>1. SumFunctionOnSet(f, S) = f[x] + SumFunctionOnSet(f, S \ {x})
    BY SumMember
  <2>2. SumFunctionOnSet(f, S \ {x}) \in Nat /\ f[x] \in Nat
    BY <1>1
  <2> QED
    BY <2>1, <2>2
<1> QED
  BY <1>1, <1>2
=============================================================================
