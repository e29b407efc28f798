----------------------------- MODULE SumLemmas ------------------------------
(***************************************************************************)
(* Finite induction and sums: what SumFunctionOnSet(f, S), the sum of      *)
(* f[x] over the x in S, is when S changes by an element or f at a point.  *)
(*                                                                         *)
(* The induction is over a set W of sets instead of a predicate: that the  *)
(* subsets of a finite set are well founded under inclusion is a theorem   *)
(* without operator parameters, which the provers can use.                 *)
(***************************************************************************)
EXTENDS FiniteSetTheorems, TLAPS

-----------------------------------------------------------------------------
(* Induction *)

\* What holds of a set when it holds of its strict subsets holds of every subset of a
\* finite set.
LEMMA SubsetInduction ==
  ASSUME NEW D, IsFiniteSet(D), NEW W,
         \A T \in SUBSET D : (\A U \in SUBSET T : U # T => U \in W) => T \in W
  PROVE  SUBSET D \subseteq W
<1>. DEFINE B == {T \in SUBSET D : T \notin W}
            R == StrictSubsetOrdering(D)
<1>1. IsWellFoundedOn(R, SUBSET D)
  BY FS_StrictSubsetOrderingWellFounded, FS_FiniteSubsetsOfFinite
<1>2. ASSUME B # {} PROVE FALSE
  <2>1. B \subseteq SUBSET D
    OBVIOUS
  <2>2. \A T, U \in SUBSET D : U \subseteq T /\ U # T => <<U, T>> \in R
    BY DEF StrictSubsetOrdering
  <2>. HIDE DEF B, R
  <2>3. PICK T \in B : \A U \in B : ~ (<<U, T>> \in R)
    BY <1>1, <1>2, <2>1, WFMin
  <2>4. ASSUME NEW U \in SUBSET T, U # T PROVE U \in W
    <3>1. U \in SUBSET D /\ T \in SUBSET D
      BY <2>1
    <3>2. U \notin B
      BY <2>2, <2>3, <2>4, <3>1
    <3>. QED
      BY <3>1, <3>2 DEF B
  <2>. QED
    BY <2>1, <2>4 DEF B
<1>. QED
  BY <1>2

\* A non-empty set of naturals has a least element.
LEMMA LeastNatural ==
  ASSUME NEW S \in SUBSET Nat, S # {}
  PROVE  \E m \in S : \A k \in S : m <= k
<1>. DEFINE R == {ss \in Nat \X Nat : ss[1] < ss[2]}
<1>1. IsWellFoundedOn(OpToRel(<, Nat), Nat)
  BY NatLessThanWellFounded
<1>2. IsWellFoundedOn(R, Nat)
  BY <1>1 DEF OpToRel
<1>3. \A k, m \in S : <<k, m>> \notin R => m <= k
  OBVIOUS
<1>. HIDE DEF R
<1>4. PICK m \in S : \A k \in S : ~ (<<k, m>> \in R)
  BY <1>2, WFMin
<1>. QED
  BY <1>3, <1>4

-----------------------------------------------------------------------------
(* The recursion behind SumFunctionOnSet *)

Chosen(s) == CHOOSE x \in s : TRUE

\* h sums f over each subset of D, one chosen element after the other.
Iterates(h, f, D) ==
    h = [s \in SUBSET D |-> IF s = {} THEN 0 ELSE f[Chosen(s)] + h[s \ {Chosen(s)}]]

Iter(f, D) == CHOOSE h : Iterates(h, f, D)

LEMMA SumIsIter ==
  ASSUME NEW f, NEW D
  PROVE  SumFunctionOnSet(f, D) = Iter(f, D)[D]
BY DEF SumFunctionOnSet, FoldFunctionOnSet, MapThenFoldSet, Iter, Iterates, Chosen

LEMMA ChosenIsIn == ASSUME NEW s, s # {} PROVE Chosen(s) \in s
BY DEF Chosen

LEMMA IteratesAt ==
  ASSUME NEW f, NEW D, NEW h, Iterates(h, f, D), NEW s \in SUBSET D
  PROVE  h[s] = IF s = {} THEN 0 ELSE f[Chosen(s)] + h[s \ {Chosen(s)}]
BY DEF Iterates

\* Two such functions agree wherever both are defined.
LEMMA IteratesUnique ==
  ASSUME NEW f, NEW D, NEW E \in SUBSET D, IsFiniteSet(E), NEW h, NEW g,
         Iterates(h, f, D), Iterates(g, f, E)
  PROVE  \A s \in SUBSET E : h[s] = g[s]
<1>. DEFINE W == {s \in SUBSET E : h[s] = g[s]}
<1>1. ASSUME NEW T \in SUBSET E, \A U \in SUBSET T : U # T => U \in W
      PROVE  T \in W
  <2>1. CASE T = {}
    BY <2>1, IteratesAt
  <2>2. CASE T # {}
    <3>1. Chosen(T) \in T
      BY <2>2, ChosenIsIn
    <3>2. T \ {Chosen(T)} \in W
      BY <1>1, <3>1
    <3>3. h[T] = f[Chosen(T)] + h[T \ {Chosen(T)}]
      <4>1. T \in SUBSET D
        OBVIOUS
      <4>. QED
        BY <2>2, <4>1, IteratesAt
    <3>4. g[T] = f[Chosen(T)] + g[T \ {Chosen(T)}]
      BY <2>2, IteratesAt
    <3>. QED
      BY <3>2, <3>3, <3>4
  <2>. QED
    BY <2>1, <2>2
<1>. HIDE DEF W
<1>2. SUBSET E \subseteq W
  BY <1>1, SubsetInduction
<1>. QED
  BY <1>2 DEF W

LEMMA IterExists ==
  ASSUME NEW f, NEW D, IsFiniteSet(D)
  PROVE  Iterates(Iter(f, D), f, D)
<1>. DEFINE W == {T \in SUBSET D : \E h : Iterates(h, f, T)}
<1>1. ASSUME NEW T \in SUBSET D, \A U \in SUBSET T : U # T => U \in W
      PROVE  T \in W
  <2>. DEFINE H(u) == Iter(f, u)
              h == [s \in SUBSET T |->
                      IF s = {} THEN 0 ELSE f[Chosen(s)] + H(s \ {Chosen(s)})[s \ {Chosen(s)}]]
  <2>1. \A U \in SUBSET T : U # T => Iterates(H(U), f, U)
    BY <1>1 DEF Iter
  <2>. HIDE DEF H
  <2>2. ASSUME NEW s \in SUBSET T, s # {}
        PROVE  h[s \ {Chosen(s)}] = H(s \ {Chosen(s)})[s \ {Chosen(s)}]
    <3>. DEFINE u == s \ {Chosen(s)}
                v == u \ {Chosen(u)}
    <3>1. Chosen(s) \in s
      BY <2>2, ChosenIsIn
    <3>2. u \in SUBSET T /\ u # T /\ v \in SUBSET u /\ v \in SUBSET T
      BY <3>1
    <3>3. Iterates(H(u), f, u)
      BY <2>1, <3>2
    <3>4. H(u)[u] = IF u = {} THEN 0 ELSE f[Chosen(u)] + H(u)[v]
      <4>. HIDE DEF u, H
      <4>1. u \in SUBSET u
        OBVIOUS
      <4>. QED
        BY <3>3, <4>1, IteratesAt
    <3>5. h[u] = IF u = {} THEN 0 ELSE f[Chosen(u)] + H(v)[v]
      BY <3>2
    <3>6. ASSUME u # {} PROVE H(u)[v] = H(v)[v]
      <4>1. v # T
        BY <3>2
      <4>2. Iterates(H(v), f, v)
        BY <2>1, <3>2, <4>1
      <4>3. IsFiniteSet(v)
        BY <3>2, FS_Subset
      <4>. HIDE DEF u, v
      <4>. QED
        BY <3>2, <3>3, <4>2, <4>3, IteratesUnique
    <3>. HIDE DEF u, v, h
    <3>. QED
      BY <3>4, <3>5, <3>6 DEF u
  <2>3. Iterates(h, f, T)
    BY <2>2 DEF Iterates
  <2>. QED
    BY <2>3
<1>. HIDE DEF W
<1>2. SUBSET D \subseteq W
  BY <1>1, SubsetInduction
<1>3. \E h : Iterates(h, f, D)
  BY <1>2 DEF W
<1>. QED
  BY <1>3 DEF Iter

-----------------------------------------------------------------------------
(* Sums *)

\* f has an integer for every member of S.
IntegerOn(f, S) == \A x \in S : f[x] \in Int

LEMMA SumEmpty == ASSUME NEW f PROVE SumFunctionOnSet(f, {}) = 0
<1>1. Iterates(Iter(f, {}), f, {})
  BY FS_EmptySet, IterExists
<1>2. {} \in SUBSET {}
  OBVIOUS
<1>. QED
  BY <1>1, <1>2, IteratesAt, SumIsIter

LEMMA SumOfChosen ==
  ASSUME NEW f, NEW S, IsFiniteSet(S), S # {}
  PROVE  SumFunctionOnSet(f, S) = f[Chosen(S)] + SumFunctionOnSet(f, S \ {Chosen(S)})
<1>. DEFINE T == S \ {Chosen(S)}
<1>1. T \in SUBSET S /\ S \in SUBSET S /\ T \in SUBSET T
  OBVIOUS
<1>2. IsFiniteSet(T)
  BY <1>1, FS_Subset
<1>3. Iterates(Iter(f, S), f, S) /\ Iterates(Iter(f, T), f, T)
  BY <1>2, IterExists
<1>4. Iter(f, S)[S] = f[Chosen(S)] + Iter(f, S)[T]
  BY <1>1, <1>3, IteratesAt
<1>5. Iter(f, S)[T] = Iter(f, T)[T]
  <2>. HIDE DEF T
  <2>. QED
    BY <1>1, <1>2, <1>3, IteratesUnique
<1>. QED
  BY <1>4, <1>5, SumIsIter

\* A sum of integers is an integer.
LEMMA SumInt ==
  ASSUME NEW f, NEW S, IsFiniteSet(S), IntegerOn(f, S)
  PROVE  SumFunctionOnSet(f, S) \in Int
<1>. DEFINE W == {T \in SUBSET S : SumFunctionOnSet(f, T) \in Int}
<1>1. ASSUME NEW T \in SUBSET S, \A U \in SUBSET T : U # T => U \in W
      PROVE  T \in W
  <2>1. CASE T = {}
    BY <2>1, SumEmpty
  <2>2. CASE T # {}
    <3>1. Chosen(T) \in T /\ IsFiniteSet(T)
      BY <2>2, ChosenIsIn, FS_Subset
    <3>2. T \ {Chosen(T)} \in W
      BY <1>1, <3>1
    <3>3. f[Chosen(T)] \in Int
      BY <3>1 DEF IntegerOn
    <3>4. SumFunctionOnSet(f, T) = f[Chosen(T)] + SumFunctionOnSet(f, T \ {Chosen(T)})
      BY <2>2, <3>1, SumOfChosen
    <3>. QED
      BY <3>2, <3>3, <3>4
  <2>. QED
    BY <2>1, <2>2
<1>. HIDE DEF W
<1>2. SUBSET S \subseteq W
  BY <1>1, SubsetInduction
<1>. QED
  BY <1>2 DEF W

\* Whichever element is taken out of a sum first.
LEMMA SumRemove ==
  ASSUME NEW f, NEW S, IsFiniteSet(S), IntegerOn(f, S), NEW x \in S
  PROVE  SumFunctionOnSet(f, S) = f[x] + SumFunctionOnSet(f, S \ {x})
<1>. DEFINE Sum(T) == SumFunctionOnSet(f, T)
            W == {T \in SUBSET S : \A y \in T : Sum(T) = f[y] + Sum(T \ {y})}
<1>1. ASSUME NEW T \in SUBSET S, \A U \in SUBSET T : U # T => U \in W, NEW y \in T
      PROVE  Sum(T) = f[y] + Sum(T \ {y})
  <2>. DEFINE c == Chosen(T)
  <2>1. c \in T /\ IsFiniteSet(T)
    BY ChosenIsIn, FS_Subset
  <2>2. Sum(T) = f[c] + Sum(T \ {c})
    BY <2>1, SumOfChosen
  <2>3. CASE c # y
    <3>1. T \ {c} \in W /\ T \ {y} \in W
      BY <1>1, <2>1
    <3>. HIDE DEF Sum
    <3>2. Sum(T \ {c}) = f[y] + Sum((T \ {c}) \ {y})
      BY <2>3, <3>1
    <3>3. Sum(T \ {y}) = f[c] + Sum((T \ {y}) \ {c})
      BY <2>1, <2>3, <3>1
    <3>4. (T \ {y}) \ {c} = (T \ {c}) \ {y}
      OBVIOUS
    <3>5. f[c] \in Int /\ f[y] \in Int
      BY <2>1 DEF IntegerOn
    <3>6. Sum((T \ {c}) \ {y}) \in Int
      <4>1. IsFiniteSet((T \ {c}) \ {y})
        BY <2>1, FS_Subset
      <4>2. IntegerOn(f, (T \ {c}) \ {y})
        BY DEF IntegerOn
      <4>. QED
        BY <4>1, <4>2, SumInt DEF Sum
    <3>7. Sum(T) = f[c] + (f[y] + Sum((T \ {c}) \ {y}))
      BY <2>2, <3>2
    <3>8. Sum(T \ {y}) = f[c] + Sum((T \ {c}) \ {y})
      BY <3>3, <3>4
    <3>. HIDE DEF c
    <3>. QED
      BY <3>5, <3>6, <3>7, <3>8
  <2>. QED
    BY <2>2, <2>3
<1>2. ASSUME NEW T \in SUBSET S, \A U \in SUBSET T : U # T => U \in W
      PROVE  T \in W
  BY <1>1, <1>2
<1>. HIDE DEF W
<1>3. SUBSET S \subseteq W
  BY <1>2, SubsetInduction
<1>. QED
  BY <1>3 DEF W

LEMMA SumAdd ==
  ASSUME NEW f, NEW S, IsFiniteSet(S), NEW x, x \notin S, IntegerOn(f, S \cup {x})
  PROVE  SumFunctionOnSet(f, S \cup {x}) = f[x] + SumFunctionOnSet(f, S)
<1>1. IsFiniteSet(S \cup {x}) /\ (S \cup {x}) \ {x} = S
  BY FS_AddElement
<1>2. x \in S \cup {x}
  OBVIOUS
<1>. QED
  BY <1>1, <1>2, SumRemove

\* Equal summands, equal sums.
LEMMA SumSame ==
  ASSUME NEW f, NEW g, NEW S, IsFiniteSet(S), \A x \in S : f[x] = g[x]
  PROVE  SumFunctionOnSet(f, S) = SumFunctionOnSet(g, S)
<1>. DEFINE W == {T \in SUBSET S : SumFunctionOnSet(f, T) = SumFunctionOnSet(g, T)}
<1>1. ASSUME NEW T \in SUBSET S, \A U \in SUBSET T : U # T => U \in W
      PROVE  T \in W
  <2>1. CASE T = {}
    BY <2>1, SumEmpty
  <2>2. CASE T # {}
    <3>1. Chosen(T) \in T /\ IsFiniteSet(T)
      BY <2>2, ChosenIsIn, FS_Subset
    <3>2. T \ {Chosen(T)} \in W
      BY <1>1, <3>1
    <3>3. f[Chosen(T)] = g[Chosen(T)]
      BY <3>1
    <3>4. /\ SumFunctionOnSet(f, T) = f[Chosen(T)] + SumFunctionOnSet(f, T \ {Chosen(T)})
          /\ SumFunctionOnSet(g, T) = g[Chosen(T)] + SumFunctionOnSet(g, T \ {Chosen(T)})
      BY <2>2, <3>1, SumOfChosen
    <3>. QED
      BY <3>2, <3>3, <3>4
  <2>. QED
    BY <2>1, <2>2
<1>. HIDE DEF W
<1>2. SUBSET S \subseteq W
  BY <1>1, SubsetInduction
<1>. QED
  BY <1>2 DEF W

\* A sum in which one summand changes.
LEMMA SumChange ==
  ASSUME NEW f, NEW g, NEW S, IsFiniteSet(S), IntegerOn(f, S), NEW x \in S, g[x] \in Int,
         \A y \in S \ {x} : g[y] = f[y]
  PROVE  SumFunctionOnSet(g, S) = SumFunctionOnSet(f, S) - f[x] + g[x]
<1>. DEFINE T == S \ {x}
<1>1. IsFiniteSet(T) /\ IntegerOn(f, T) /\ IntegerOn(g, S)
  BY FS_Subset DEF IntegerOn
<1>2. /\ SumFunctionOnSet(f, S) = f[x] + SumFunctionOnSet(f, T)
      /\ SumFunctionOnSet(g, S) = g[x] + SumFunctionOnSet(g, T)
  BY <1>1, SumRemove
<1>3. SumFunctionOnSet(f, T) = SumFunctionOnSet(g, T)
  <2>1. \A y \in T : f[y] = g[y]
    OBVIOUS
  <2>. HIDE DEF T
  <2>. QED
    BY <1>1, <2>1, SumSame
<1>4. SumFunctionOnSet(f, T) \in Int /\ f[x] \in Int
  BY <1>1, SumInt DEF IntegerOn
<1>. QED
  BY <1>2, <1>3, <1>4

\* Larger summands, a larger sum.
LEMMA SumAtMost ==
  ASSUME NEW f, NEW g, NEW S, IsFiniteSet(S), IntegerOn(f, S), IntegerOn(g, S),
         \A x \in S : f[x] <= g[x]
  PROVE  SumFunctionOnSet(f, S) <= SumFunctionOnSet(g, S)
<1>. DEFINE W == {T \in SUBSET S : SumFunctionOnSet(f, T) <= SumFunctionOnSet(g, T)}
<1>1. ASSUME NEW T \in SUBSET S, \A U \in SUBSET T : U # T => U \in W
      PROVE  T \in W
  <2>1. CASE T = {}
    BY <2>1, SumEmpty
  <2>2. CASE T # {}
    <3>. DEFINE c == Chosen(T)
                U == T \ {c}
    <3>1. c \in T /\ IsFiniteSet(T) /\ IsFiniteSet(U)
      BY <2>2, ChosenIsIn, FS_Subset
    <3>2. U \in W
      BY <1>1, <3>1
    <3>3. f[c] <= g[c] /\ f[c] \in Int /\ g[c] \in Int
      BY <3>1 DEF IntegerOn
    <3>4. /\ SumFunctionOnSet(f, T) = f[c] + SumFunctionOnSet(f, U)
          /\ SumFunctionOnSet(g, T) = g[c] + SumFunctionOnSet(g, U)
      BY <2>2, <3>1, SumOfChosen
    <3>5. IntegerOn(f, U) /\ IntegerOn(g, U)
      BY DEF IntegerOn
    <3>6. SumFunctionOnSet(f, U) \in Int /\ SumFunctionOnSet(g, U) \in Int
      BY <3>1, <3>5, SumInt
    <3>. HIDE DEF c, U
    <3>. QED
      BY <3>2, <3>3, <3>4, <3>6
  <2>. QED
    BY <2>1, <2>2
<1>. HIDE DEF W
<1>2. SUBSET S \subseteq W
  BY <1>1, SubsetInduction
<1>. QED
  BY <1>2 DEF W

\* Elements that add nothing can be left out.
LEMMA SumWithout ==
  ASSUME NEW f, NEW S, IsFiniteSet(S), IntegerOn(f, S), NEW T \in SUBSET S,
         \A x \in S \ T : f[x] = 0
  PROVE  SumFunctionOnSet(f, S) = SumFunctionOnSet(f, T)
<1>. DEFINE W == {U \in SUBSET S : SumFunctionOnSet(f, U) = SumFunctionOnSet(f, U \cap T)}
<1>1. ASSUME NEW U \in SUBSET S, \A V \in SUBSET U : V # U => V \in W
      PROVE  U \in W
  <2>1. CASE U \subseteq T
    <3>1. U \cap T = U
      BY <2>1
    <3>. QED
      BY <3>1
  <2>2. ASSUME NEW x \in U \ T
        PROVE  U \in W
    <3>1. IsFiniteSet(U) /\ IntegerOn(f, U)
      BY FS_Subset DEF IntegerOn
    <3>2. SumFunctionOnSet(f, U) = f[x] + SumFunctionOnSet(f, U \ {x})
      BY <3>1, SumRemove
    <3>3. U \ {x} \in W
      BY <1>1
    <3>4. (U \ {x}) \cap T = U \cap T /\ f[x] = 0
      OBVIOUS
    <3>5. SumFunctionOnSet(f, U \ {x}) \in Int
      <4>1. IsFiniteSet(U \ {x}) /\ IntegerOn(f, U \ {x})
        BY <3>1, FS_Subset DEF IntegerOn
      <4>. QED
        BY <4>1, SumInt
    <3>6. SumFunctionOnSet(f, U \ {x}) = SumFunctionOnSet(f, U \cap T)
      BY <3>3, <3>4
    <3>. QED
      BY <3>2, <3>4, <3>5, <3>6
  <2>. QED
    BY <2>1, <2>2
<1>. HIDE DEF W
<1>2. SUBSET S \subseteq W
  BY <1>1, SubsetInduction
<1>3. S \in W /\ S \cap T = T
  BY <1>2
<1>. QED
  BY <1>3 DEF W

LEMMA SumOfZeros ==
  ASSUME NEW f, NEW S, IsFiniteSet(S), \A x \in S : f[x] = 0
  PROVE  SumFunctionOnSet(f, S) = 0
<1>1. {} \in SUBSET S /\ IntegerOn(f, S)
  BY DEF IntegerOn
<1>. QED
  BY <1>1, SumWithout, SumEmpty

LEMMA SumOfOne ==
  ASSUME NEW f, NEW x, f[x] \in Int
  PROVE  SumFunctionOnSet(f, {x}) = f[x]
<1>1. IsFiniteSet({}) /\ {} \cup {x} = {x} /\ IntegerOn(f, {x})
  BY FS_EmptySet DEF IntegerOn
<1>2. SumFunctionOnSet(f, {} \cup {x}) = f[x] + SumFunctionOnSet(f, {})
  BY <1>1, SumAdd
<1>. QED
  BY <1>1, <1>2, SumEmpty

LEMMA SumNegated ==
  ASSUME NEW f, NEW g, NEW S, IsFiniteSet(S),
         \A x \in S : f[x] \in Int /\ g[x] \in Int /\ f[x] = -g[x]
  PROVE  SumFunctionOnSet(f, S) = -SumFunctionOnSet(g, S)
<1>. DEFINE W == {T \in SUBSET S : SumFunctionOnSet(f, T) = -SumFunctionOnSet(g, T)}
<1>1. ASSUME NEW T \in SUBSET S, \A U \in SUBSET T : U # T => U \in W
      PROVE  T \in W
  <2>1. CASE T = {}
    BY <2>1, SumEmpty
  <2>2. CASE T # {}
    <3>. DEFINE c == Chosen(T)
                U == T \ {c}
    <3>1. c \in T /\ IsFiniteSet(T) /\ IsFiniteSet(U)
      BY <2>2, ChosenIsIn, FS_Subset
    <3>2. SumFunctionOnSet(f, U) = -SumFunctionOnSet(g, U)
      BY <1>1, <3>1
    <3>3. f[c] = -g[c] /\ f[c] \in Int /\ g[c] \in Int
      BY <3>1
    <3>4. /\ SumFunctionOnSet(f, T) = f[c] + SumFunctionOnSet(f, U)
          /\ SumFunctionOnSet(g, T) = g[c] + SumFunctionOnSet(g, U)
      BY <2>2, <3>1, SumOfChosen
    <3>5. IntegerOn(g, U)
      BY DEF IntegerOn
    <3>6. SumFunctionOnSet(g, U) \in Int
      BY <3>1, <3>5, SumInt
    <3>. HIDE DEF c, U
    <3>. QED
      BY <3>2, <3>3, <3>4, <3>6
  <2>. QED
    BY <2>1, <2>2
<1>. HIDE DEF W
<1>2. SUBSET S \subseteq W
  BY <1>1, SubsetInduction
<1>. QED
  BY <1>2 DEF W

\* A sum of sums.
LEMMA SumOfSums ==
  ASSUME NEW f, NEW g, NEW h, NEW S, IsFiniteSet(S), IntegerOn(f, S), IntegerOn(g, S),
         \A x \in S : h[x] = f[x] + g[x]
  PROVE  SumFunctionOnSet(h, S) = SumFunctionOnSet(f, S) + SumFunctionOnSet(g, S)
<1>. DEFINE W == {T \in SUBSET S : SumFunctionOnSet(h, T)
                                     = SumFunctionOnSet(f, T) + SumFunctionOnSet(g, T)}
<1>1. ASSUME NEW T \in SUBSET S, \A U \in SUBSET T : U # T => U \in W
      PROVE  T \in W
  <2>1. CASE T = {}
    BY <2>1, SumEmpty
  <2>2. CASE T # {}
    <3>. DEFINE c == Chosen(T)
                U == T \ {c}
    <3>1. c \in T /\ IsFiniteSet(T) /\ IsFiniteSet(U)
      BY <2>2, ChosenIsIn, FS_Subset
    <3>2. SumFunctionOnSet(h, U) = SumFunctionOnSet(f, U) + SumFunctionOnSet(g, U)
      BY <1>1, <3>1
    <3>3. f[c] \in Int /\ g[c] \in Int /\ h[c] = f[c] + g[c]
      BY <3>1 DEF IntegerOn
    <3>4. /\ SumFunctionOnSet(f, T) = f[c] + SumFunctionOnSet(f, U)
          /\ SumFunctionOnSet(g, T) = g[c] + SumFunctionOnSet(g, U)
          /\ SumFunctionOnSet(h, T) = h[c] + SumFunctionOnSet(h, U)
      BY <2>2, <3>1, SumOfChosen
    <3>5. IntegerOn(f, U) /\ IntegerOn(g, U)
      BY DEF IntegerOn
    <3>6. SumFunctionOnSet(f, U) \in Int /\ SumFunctionOnSet(g, U) \in Int
      BY <3>1, <3>5, SumInt
    <3>. HIDE DEF c, U
    <3>7. SumFunctionOnSet(h, T) = SumFunctionOnSet(f, T) + SumFunctionOnSet(g, T)
      BY <3>2, <3>3, <3>4, <3>6
    <3>. QED
      BY <3>7
  <2>. QED
    BY <2>1, <2>2
<1>. HIDE DEF W
<1>2. SUBSET S \subseteq W
  BY <1>1, SubsetInduction
<1>. QED
  BY <1>2 DEF W

\* The same summands under other names: each x of S is g[x] in T, and the rest of T
\* adds nothing.
LEMMA SumRenamed ==
  ASSUME NEW f, NEW S, IsFiniteSet(S), IntegerOn(f, S),
         NEW h, NEW T, IsFiniteSet(T), IntegerOn(h, T), NEW g,
         \A x \in S : g[x] \in T /\ h[g[x]] = f[x],
         \A x, y \in S : g[x] = g[y] => x = y,
         \A z \in T : (\A x \in S : g[x] # z) => h[z] = 0
  PROVE  SumFunctionOnSet(f, S) = SumFunctionOnSet(h, T)
<1>. DEFINE Named(U) == {g[x] : x \in U}
            W == {U \in SUBSET S : SumFunctionOnSet(f, U) = SumFunctionOnSet(h, Named(U))}
<1>1. ASSUME NEW U \in SUBSET S, \A V \in SUBSET U : V # U => V \in W
      PROVE  U \in W
  <2>1. CASE U = {}
    <3>1. Named(U) = {}
      BY <2>1
    <3>. QED
      BY <2>1, <3>1, SumEmpty
  <2>2. CASE U # {}
    <3>. DEFINE c == Chosen(U)
                V == U \ {c}
    <3>1. c \in U /\ c \in S /\ IsFiniteSet(U) /\ IsFiniteSet(V)
      BY <2>2, ChosenIsIn, FS_Subset
    <3>2. SumFunctionOnSet(f, V) = SumFunctionOnSet(h, Named(V))
      BY <1>1, <3>1
    <3>3. SumFunctionOnSet(f, U) = f[c] + SumFunctionOnSet(f, V)
      BY <2>2, <3>1, SumOfChosen
    <3>4. Named(V) \in SUBSET T /\ g[c] \in T /\ g[c] \notin Named(V)
      BY <3>1
    <3>5. Named(U) = Named(V) \cup {g[c]}
      BY <3>1
    <3>6. IsFiniteSet(Named(V)) /\ IntegerOn(h, Named(V) \cup {g[c]})
      BY <3>4, FS_Subset DEF IntegerOn
    <3>. DEFINE N == Named(V)
                d == g[c]
    <3>. HIDE DEF N
    <3>7. SumFunctionOnSet(h, N \cup {d}) = h[d] + SumFunctionOnSet(h, N)
      BY <3>4, <3>6, SumAdd DEF N
    <3>8. h[d] = f[c]
      BY <3>1
    <3>. QED
      BY <3>2, <3>3, <3>5, <3>7, <3>8 DEF N
  <2>. QED
    BY <2>1, <2>2
<1>2. SUBSET S \subseteq W
  <2>. HIDE DEF W
  <2>. QED
    BY <1>1, SubsetInduction
<1>3. SumFunctionOnSet(f, S) = SumFunctionOnSet(h, Named(S))
  BY <1>2
<1>4. /\ Named(S) \in SUBSET T
      /\ \A z \in T \ Named(S) : h[z] = 0
  OBVIOUS
<1>. HIDE DEF Named
<1>5. SumFunctionOnSet(h, T) = SumFunctionOnSet(h, Named(S))
  BY <1>4, SumWithout
<1>. QED
  BY <1>3, <1>5

=============================================================================
