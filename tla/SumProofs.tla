------------------------------ MODULE SumProofs ------------------------------
(***************************************************************************)
(* Facts about SumFunctionOnSet, the sum that the modules take from the    *)
(* community module Functions.  It is a recursive function on the subsets  *)
(* of a set: the first lemmas show that the recursion has a solution, from *)
(* which the rest follows.  Induction is over sets of subsets, so that no  *)
(* fact has an operator as a parameter.                                    *)
(* The same is done for a recursion that counts from 0 to a bound.         *)
(***************************************************************************)
EXTENDS Integers, FiniteSets, Functions, FiniteSetTheorems, TLAPS

\* The element that SumFunctionOnSet takes first.
Chosen(s) == CHOOSE x \in s : TRUE

\* g is a solution of the recursion below S.
IsSum(f, S, g) ==
  g = [T \in SUBSET S |-> IF T = {} THEN 0 ELSE f[Chosen(T)] + g[T \ {Chosen(T)}]]

\* Induction over the subsets of a finite set: a collection of them that has a
\* subset whenever it has all smaller ones has them all.
LEMMA SubsetInduction ==
  ASSUME NEW S, IsFiniteSet(S), NEW H,
         \A T \in SUBSET S : (\A U \in SUBSET T : U # T => U \in H) => T \in H
  PROVE  S \in H
<1> DEFINE R == StrictSubsetOrdering(S)
<1> DEFINE Bad == {T \in SUBSET S : T \notin H}
<1> SUFFICES ASSUME S \notin H PROVE FALSE
  OBVIOUS
<1>1. FiniteSubsetsOf(S) = SUBSET S
  BY FS_FiniteSubsetsOfFinite
<1>2. IsWellFoundedOn(R, SUBSET S)
  <2>1. IsWellFoundedOn(R, FiniteSubsetsOf(S))
    BY FS_StrictSubsetOrderingWellFounded
  <2> QED BY <1>1, <2>1
<1>3. Bad \subseteq SUBSET S /\ Bad # {}
  OBVIOUS
<1>4. \E T \in Bad : \A U \in Bad : ~ (<<U, T>> \in R)
  <2> HIDE DEF Bad, R
  <2> QED BY <1>2, <1>3, WFMin
<1>5. PICK T \in Bad : \A U \in Bad : <<U, T>> \notin R
  BY <1>4
<1>6. ASSUME NEW U \in SUBSET T, U # T PROVE U \in H
  <2>1. U \in SUBSET S /\ T \in SUBSET S
    BY <1>5
  <2>2. <<U, T>> \in (SUBSET S) \X (SUBSET S)
    BY <2>1
  <2>3. <<U, T>> \in R
    BY <1>6, <2>2 DEF StrictSubsetOrdering
  <2> QED BY <1>5, <2>1, <2>3
<1>7. T \in H
  BY <1>5, <1>6
<1> QED BY <1>5, <1>7

\* A nonempty set loses its chosen element.
LEMMA ChosenElement ==
  ASSUME NEW T, T # {}
  PROVE  Chosen(T) \in T /\ T \ {Chosen(T)} \in SUBSET T /\ T \ {Chosen(T)} # T
BY DEF Chosen

\* What a solution of the recursion is at a subset.
LEMMA SumAt ==
  ASSUME NEW f, NEW S, NEW g, IsSum(f, S, g), NEW T \in SUBSET S
  PROVE  g[T] = IF T = {} THEN 0 ELSE f[Chosen(T)] + g[T \ {Chosen(T)}]
BY DEF IsSum

\* Two solutions agree where both are defined.
LEMMA SumUnique ==
  ASSUME NEW f, NEW S, NEW U, NEW g, NEW h, IsSum(f, S, g), IsSum(f, U, h),
         NEW T, T \subseteq S, T \subseteq U, IsFiniteSet(T)
  PROVE  g[T] = h[T]
<1> DEFINE H == {V \in SUBSET T : g[V] = h[V]}
<1>1. ASSUME NEW V \in SUBSET T, \A W \in SUBSET V : W # V => W \in H
      PROVE  V \in H
  <2>1. V \in SUBSET S /\ V \in SUBSET U
    OBVIOUS
  <2>2. CASE V = {}
    BY <2>1, <2>2, SumAt
  <2>3. CASE V # {}
    <3>1. V \ {Chosen(V)} \in H
      BY <1>1, <2>3, ChosenElement
    <3>2. g[V \ {Chosen(V)}] = h[V \ {Chosen(V)}]
      BY <3>1
    <3>3. g[V] = f[Chosen(V)] + g[V \ {Chosen(V)}]
      BY <2>1, <2>3, SumAt
    <3>4. h[V] = f[Chosen(V)] + h[V \ {Chosen(V)}]
      BY <2>1, <2>3, SumAt
    <3> QED BY <3>2, <3>3, <3>4
  <2> QED BY <2>2, <2>3
<1>2. T \in H
  <2> HIDE DEF H
  <2> QED BY <1>1, SubsetInduction
<1> QED BY <1>2

\* The recursion has a solution.
LEMMA SumExists ==
  ASSUME NEW f, NEW S, IsFiniteSet(S)
  PROVE  \E g : IsSum(f, S, g)
<1> DEFINE H == {T \in SUBSET S : \E g : IsSum(f, T, g)}
<1>1. ASSUME NEW T \in SUBSET S, \A U \in SUBSET T : U # T => U \in H
      PROVE  T \in H
  <2> DEFINE Below(U) == CHOOSE h : IsSum(f, U, h)
  <2> DEFINE G == [U \in SUBSET T |->
                     IF U = {} THEN 0
                     ELSE f[Chosen(U)] + Below(U \ {Chosen(U)})[U \ {Chosen(U)}]]
  <2>1. ASSUME NEW U \in SUBSET T, U # T PROVE IsSum(f, U, Below(U))
    <3>1. \E g : IsSum(f, U, g)
      BY <1>1, <2>1
    <3> QED BY <3>1
  <2>2. ASSUME NEW V \in SUBSET T, V # T PROVE Below(V)[V] = G[V]
    <3> DEFINE W == V \ {Chosen(V)}
    <3>1. IsSum(f, V, Below(V))
      BY <2>1, <2>2
    <3>2. Below(V)[V] = IF V = {} THEN 0 ELSE f[Chosen(V)] + Below(V)[W]
      <4> HIDE DEF Below
      <4> QED BY <3>1, SumAt
    <3>3. G[V] = IF V = {} THEN 0 ELSE f[Chosen(V)] + Below(W)[W]
      <4> HIDE DEF Below
      <4> QED OBVIOUS
    <3>4. ASSUME V # {} PROVE Below(V)[W] = Below(W)[W]
      <4>1. W \in SUBSET T /\ W # T
        BY <2>2, <3>4, ChosenElement
      <4>2. IsSum(f, W, Below(W))
        BY <2>1, <4>1
      <4>3. IsFiniteSet(W)
        BY <4>1, FS_Subset
      <4>4. W \subseteq V
        OBVIOUS
      <4> HIDE DEF Below, W
      <4> QED BY <3>1, <4>2, <4>3, <4>4, SumUnique
    <3> HIDE DEF G, Below
    <3> QED BY <3>2, <3>3, <3>4
  <2>3. ASSUME NEW U \in SUBSET T, U # {}
        PROVE  Below(U \ {Chosen(U)})[U \ {Chosen(U)}] = G[U \ {Chosen(U)}]
    <3>1. U \ {Chosen(U)} \in SUBSET T /\ U \ {Chosen(U)} # T
      BY <2>3, ChosenElement
    <3> HIDE DEF G, Below
    <3> QED BY <2>2, <3>1
  <2>4. G = [U \in SUBSET T |-> IF U = {} THEN 0 ELSE f[Chosen(U)] + G[U \ {Chosen(U)}]]
    <3>1. \A U \in SUBSET T : (IF U = {} THEN 0
                     ELSE f[Chosen(U)] + Below(U \ {Chosen(U)})[U \ {Chosen(U)}])
                    = (IF U = {} THEN 0 ELSE f[Chosen(U)] + G[U \ {Chosen(U)}])
      <4> HIDE DEF G, Below
      <4> QED BY <2>3
    <3> DEFINE K == [U \in SUBSET T |-> IF U = {} THEN 0 ELSE f[Chosen(U)] + G[U \ {Chosen(U)}]]
    <3>2. G = K
      <4> HIDE DEF Below
      <4> QED BY <3>1
    <3> QED BY <3>2
  <2>5. IsSum(f, T, G)
    BY <2>4 DEF IsSum
  <2> HIDE DEF G
  <2> QED BY <2>5
<1>2. S \in H
  <2> HIDE DEF H
  <2> QED BY <1>1, SubsetInduction
<1> QED BY <1>2

\* The sum is what a solution is at the whole set.
LEMMA SumIsSolution ==
  ASSUME NEW f, NEW S, IsFiniteSet(S)
  PROVE  \E g : IsSum(f, S, g) /\ SumFunctionOnSet(f, S) = g[S]
<1>1. SumFunctionOnSet(f, S) = (CHOOSE g : IsSum(f, S, g))[S]
  BY DEF SumFunctionOnSet, FoldFunctionOnSet, MapThenFoldSet, IsSum, Chosen
<1>2. IsSum(f, S, CHOOSE g : IsSum(f, S, g))
  BY SumExists
<1> QED BY <1>1, <1>2

\* The recursion, for the sum itself.
LEMMA SumChosen ==
  ASSUME NEW f, NEW S, IsFiniteSet(S)
  PROVE  SumFunctionOnSet(f, S) =
           IF S = {} THEN 0 ELSE f[Chosen(S)] + SumFunctionOnSet(f, S \ {Chosen(S)})
<1>1. PICK g : IsSum(f, S, g) /\ SumFunctionOnSet(f, S) = g[S]
  BY SumIsSolution
<1>2. g[S] = IF S = {} THEN 0 ELSE f[Chosen(S)] + g[S \ {Chosen(S)}]
  BY <1>1, SumAt
<1>3. ASSUME S # {} PROVE g[S \ {Chosen(S)}] = SumFunctionOnSet(f, S \ {Chosen(S)})
  <2> DEFINE T == S \ {Chosen(S)}
  <2>1. IsFiniteSet(T) /\ T \subseteq S
    BY FS_Subset
  <2>2. PICK h : IsSum(f, T, h) /\ SumFunctionOnSet(f, T) = h[T]
    BY <2>1, SumIsSolution
  <2>3. g[T] = h[T]
    <3> HIDE DEF T
    <3> QED BY <1>1, <2>1, <2>2, SumUnique
  <2> QED BY <2>2, <2>3
<1> QED BY <1>1, <1>2, <1>3

\* Nothing adds up to zero.
LEMMA SumEmpty ==
  ASSUME NEW f
  PROVE  SumFunctionOnSet(f, {}) = 0
BY SumChosen, FS_EmptySet

\* Sums of whole numbers are whole numbers.
LEMMA SumInt ==
  ASSUME NEW f, NEW S, IsFiniteSet(S), \A x \in S : f[x] \in Int
  PROVE  SumFunctionOnSet(f, S) \in Int
<1> DEFINE H == {T \in SUBSET S : SumFunctionOnSet(f, T) \in Int}
<1>1. ASSUME NEW T \in SUBSET S, \A U \in SUBSET T : U # T => U \in H
      PROVE  T \in H
  <2>1. IsFiniteSet(T)
    BY FS_Subset
  <2>2. T # {} => f[Chosen(T)] \in Int /\ SumFunctionOnSet(f, T \ {Chosen(T)}) \in Int
    BY <1>1, ChosenElement
  <2> QED BY <2>1, <2>2, SumChosen
<1>2. S \in H
  <2> HIDE DEF H
  <2> QED BY <1>1, SubsetInduction
<1> QED BY <1>2

\* The order of the summands does not matter: any of them may come first.
LEMMA SumRemove ==
  ASSUME NEW f, NEW S, IsFiniteSet(S), \A x \in S : f[x] \in Int, NEW x \in S
  PROVE  SumFunctionOnSet(f, S) = f[x] + SumFunctionOnSet(f, S \ {x})
<1> DEFINE H == {T \in SUBSET S : \A y \in T :
                   SumFunctionOnSet(f, T) = f[y] + SumFunctionOnSet(f, T \ {y})}
<1>1. ASSUME NEW T \in SUBSET S, \A U \in SUBSET T : U # T => U \in H
      PROVE  T \in H
  <2> SUFFICES ASSUME NEW y \in T
               PROVE  SumFunctionOnSet(f, T) = f[y] + SumFunctionOnSet(f, T \ {y})
    OBVIOUS
  <2> DEFINE c == Chosen(T)
  <2>1. c \in T /\ c # y => y \in T \ {c} /\ c \in T \ {y}
    OBVIOUS
  <2>2. c \in T /\ T \ {c} # T /\ T \ {y} # T
    BY ChosenElement
  <2>3. IsFiniteSet(T)
    BY FS_Subset
  <2>4. SumFunctionOnSet(f, T) = f[c] + SumFunctionOnSet(f, T \ {c})
    BY <2>3, SumChosen
  <2>5. CASE c = y
    BY <2>4, <2>5
  <2>6. CASE c # y
    <3>1. SumFunctionOnSet(f, T \ {c}) = f[y] + SumFunctionOnSet(f, (T \ {c}) \ {y})
      <4>1. T \ {c} \in H
        BY <1>1, <2>2
      <4> QED BY <4>1, <2>1, <2>2, <2>6
    <3>2. SumFunctionOnSet(f, T \ {y}) = f[c] + SumFunctionOnSet(f, (T \ {y}) \ {c})
      <4>1. T \ {y} \in H
        BY <1>1, <2>2
      <4> QED BY <4>1, <2>1, <2>2, <2>6
    <3>3. SumFunctionOnSet(f, (T \ {c}) \ {y}) = SumFunctionOnSet(f, (T \ {y}) \ {c})
      <4>1. (T \ {c}) \ {y} = (T \ {y}) \ {c}
        OBVIOUS
      <4> QED BY <4>1
    <3>4. f[c] \in Int /\ f[y] \in Int
      BY <2>2
    <3>5. SumFunctionOnSet(f, (T \ {y}) \ {c}) \in Int
      <4>1. IsFiniteSet((T \ {y}) \ {c})
        BY <2>3, FS_Subset
      <4>2. \A z \in (T \ {y}) \ {c} : f[z] \in Int
        OBVIOUS
      <4> QED BY <4>1, <4>2, SumInt
    <3>6. \A t, t1, t2, t3 \in Int : t = f[c] + t1 /\ t1 = f[y] + t3 /\ t2 = f[c] + t3
                                      => t = f[y] + t2
      BY <3>4
    <3>7. /\ SumFunctionOnSet(f, T \ {c}) \in Int /\ SumFunctionOnSet(f, T \ {y}) \in Int
          /\ SumFunctionOnSet(f, T) \in Int
      BY <2>4, <3>1, <3>2, <3>3, <3>4, <3>5
    <3> HIDE DEF c
    <3> QED BY <2>4, <3>1, <3>2, <3>3, <3>5, <3>6, <3>7
  <2> QED BY <2>5, <2>6
<1>2. S \in H
  <2> HIDE DEF H
  <2> QED BY <1>1, SubsetInduction
<1> QED BY <1>2

\* One summand more.
LEMMA SumAdd ==
  ASSUME NEW f, NEW S, IsFiniteSet(S), NEW x, x \notin S,
         \A y \in S \cup {x} : f[y] \in Int
  PROVE  SumFunctionOnSet(f, S \cup {x}) = f[x] + SumFunctionOnSet(f, S)
<1>1. IsFiniteSet(S \cup {x})
  BY FS_AddElement
<1>2. x \in S \cup {x} /\ (S \cup {x}) \ {x} = S
  OBVIOUS
<1>3. SumFunctionOnSet(f, S \cup {x}) = f[x] + SumFunctionOnSet(f, (S \cup {x}) \ {x})
  BY <1>1, <1>2, SumRemove
<1> QED BY <1>2, <1>3

\* The sum depends on nothing but the summands.
LEMMA SumSame ==
  ASSUME NEW f, NEW g, NEW S, IsFiniteSet(S), \A x \in S : f[x] = g[x]
  PROVE  SumFunctionOnSet(f, S) = SumFunctionOnSet(g, S)
<1> DEFINE H == {T \in SUBSET S : SumFunctionOnSet(f, T) = SumFunctionOnSet(g, T)}
<1>1. ASSUME NEW T \in SUBSET S, \A U \in SUBSET T : U # T => U \in H
      PROVE  T \in H
  <2>1. IsFiniteSet(T)
    BY FS_Subset
  <2>2. T # {} => /\ f[Chosen(T)] = g[Chosen(T)]
                  /\ SumFunctionOnSet(f, T \ {Chosen(T)}) = SumFunctionOnSet(g, T \ {Chosen(T)})
    BY <1>1, ChosenElement
  <2>3. SumFunctionOnSet(f, T) =
          IF T = {} THEN 0 ELSE f[Chosen(T)] + SumFunctionOnSet(f, T \ {Chosen(T)})
    BY <2>1, SumChosen
  <2>4. SumFunctionOnSet(g, T) =
          IF T = {} THEN 0 ELSE g[Chosen(T)] + SumFunctionOnSet(g, T \ {Chosen(T)})
    BY <2>1, SumChosen
  <2> QED BY <2>2, <2>3, <2>4
<1>2. S \in H
  <2> HIDE DEF H
  <2> QED BY <1>1, SubsetInduction
<1> QED BY <1>2

\* More summands, none of them negative, and none of the old ones smaller,
\* give no less.
LEMMA SumGrows ==
  ASSUME NEW f, NEW g, NEW S, NEW T, IsFiniteSet(T), S \subseteq T,
         \A x \in S : f[x] \in Int /\ f[x] <= g[x],
         \A x \in T : g[x] \in Nat
  PROVE  SumFunctionOnSet(f, S) <= SumFunctionOnSet(g, T)
<1> DEFINE H == {U \in SUBSET T : SumFunctionOnSet(f, U \cap S) <= SumFunctionOnSet(g, U)}
<1>1. ASSUME NEW U \in SUBSET T, \A V \in SUBSET U : V # U => V \in H
      PROVE  U \in H
  <2>1. IsFiniteSet(U) /\ IsFiniteSet(U \cap S)
    BY FS_Subset
  <2>2. CASE U = {}
    BY <2>2, SumEmpty
  <2>3. CASE U # {}
    <3> DEFINE c == Chosen(U)
    <3>1. c \in U /\ U \ {c} \in SUBSET U /\ U \ {c} # U
      BY <2>3, ChosenElement
    <3>2. SumFunctionOnSet(f, (U \ {c}) \cap S) <= SumFunctionOnSet(g, U \ {c})
      BY <1>1, <3>1
    <3>3. SumFunctionOnSet(g, U) = g[c] + SumFunctionOnSet(g, U \ {c})
      <4>1. \A x \in U : g[x] \in Int
        OBVIOUS
      <4> QED BY <2>1, <2>3, SumChosen
    <3>4. SumFunctionOnSet(g, U \ {c}) \in Int
      <4>1. IsFiniteSet(U \ {c})
        BY <2>1, <3>1, FS_Subset
      <4>2. \A x \in U \ {c} : g[x] \in Int
        OBVIOUS
      <4> QED BY <4>1, <4>2, SumInt
    <3>5. SumFunctionOnSet(f, (U \ {c}) \cap S) \in Int
      <4>1. IsFiniteSet((U \ {c}) \cap S)
        BY <2>1, FS_Subset
      <4>2. \A x \in (U \ {c}) \cap S : f[x] \in Int
        OBVIOUS
      <4> QED BY <4>1, <4>2, SumInt
    <3>6. g[c] \in Nat
      BY <3>1
    <3>7. CASE c \in S
      <4>1. SumFunctionOnSet(f, (U \cap S) \ {c}) = SumFunctionOnSet(f, (U \ {c}) \cap S)
        <5>1. (U \cap S) \ {c} = (U \ {c}) \cap S
          OBVIOUS
        <5> QED BY <5>1
      <4>2. c \in U \cap S /\ \A x \in U \cap S : f[x] \in Int
        BY <3>1, <3>7
      <4>3. SumFunctionOnSet(f, U \cap S) = f[c] + SumFunctionOnSet(f, (U \cap S) \ {c})
        <5> HIDE DEF c
        <5> QED BY <2>1, <4>2, SumRemove
      <4>4. f[c] \in Int /\ f[c] <= g[c]
        BY <3>7
      <4>5. \A s, t \in Int : s <= t => f[c] + s <= g[c] + t
        BY <3>6, <4>4
      <4>6. SumFunctionOnSet(f, U \cap S) <= SumFunctionOnSet(g, U)
        <5> HIDE DEF c
        <5> QED BY <3>2, <3>3, <3>4, <3>5, <4>1, <4>3, <4>5
      <4> QED BY <4>6
    <3>8. CASE c \notin S
      <4>1. SumFunctionOnSet(f, U \cap S) = SumFunctionOnSet(f, (U \ {c}) \cap S)
        <5>1. U \cap S = (U \ {c}) \cap S
          BY <3>8
        <5> QED BY <5>1
      <4>2. \A s, t \in Int : s <= t => s <= g[c] + t
        BY <3>6
      <4>3. SumFunctionOnSet(f, U \cap S) <= SumFunctionOnSet(g, U)
        <5> HIDE DEF c
        <5> QED BY <3>2, <3>3, <3>4, <3>5, <4>1, <4>2
      <4> QED BY <4>3
    <3> QED BY <3>7, <3>8
  <2> QED BY <2>2, <2>3
<1>2. T \in H
  <2> HIDE DEF H
  <2> QED BY <1>1, SubsetInduction
<1>3. T \cap S = S
  OBVIOUS
<1> QED BY <1>2, <1>3

\* A sum of naturals is a natural.
LEMMA SumNat ==
  ASSUME NEW f, NEW S, IsFiniteSet(S), \A x \in S : f[x] \in Nat
  PROVE  SumFunctionOnSet(f, S) \in Nat
<1>1. SumFunctionOnSet(f, {}) <= SumFunctionOnSet(f, S)
  BY SumGrows
<1>2. SumFunctionOnSet(f, S) \in Int
  BY SumInt
<1> QED BY <1>1, <1>2, SumEmpty

\* What is zero need not be summed.
LEMMA SumSkipsZeros ==
  ASSUME NEW f, NEW S, NEW T, IsFiniteSet(T), S \subseteq T,
         \A x \in T : f[x] \in Int, \A x \in T \ S : f[x] = 0
  PROVE  SumFunctionOnSet(f, S) = SumFunctionOnSet(f, T)
<1> DEFINE H == {U \in SUBSET T : SumFunctionOnSet(f, U \cap S) = SumFunctionOnSet(f, U)}
<1>1. ASSUME NEW U \in SUBSET T, \A V \in SUBSET U : V # U => V \in H
      PROVE  U \in H
  <2>1. IsFiniteSet(U) /\ IsFiniteSet(U \cap S)
    BY FS_Subset
  <2>2. CASE U \subseteq S
    <3>1. U \cap S = U
      BY <2>2
    <3> QED BY <3>1
  <2>3. CASE ~(U \subseteq S)
    <3>1. PICK c \in U : c \notin S
      BY <2>3
    <3>2. U \ {c} \in SUBSET U /\ U \ {c} # U
      BY <3>1
    <3>3. SumFunctionOnSet(f, U) = f[c] + SumFunctionOnSet(f, U \ {c})
      <4>1. \A x \in U : f[x] \in Int
        OBVIOUS
      <4> QED BY <2>1, <4>1, SumRemove
    <3>4. SumFunctionOnSet(f, U \ {c}) \in Int
      <4>1. IsFiniteSet(U \ {c})
        BY <2>1, <3>2, FS_Subset
      <4>2. \A x \in U \ {c} : f[x] \in Int
        OBVIOUS
      <4> QED BY <4>1, <4>2, SumInt
    <3>5. f[c] = 0
      BY <3>1
    <3>6. SumFunctionOnSet(f, (U \ {c}) \cap S) = SumFunctionOnSet(f, U \ {c})
      BY <1>1, <3>2
    <3>7. SumFunctionOnSet(f, U \cap S) = SumFunctionOnSet(f, (U \ {c}) \cap S)
      <4>1. U \cap S = (U \ {c}) \cap S
        BY <3>1
      <4> QED BY <4>1
    <3>8. SumFunctionOnSet(f, U) = SumFunctionOnSet(f, U \ {c})
      BY <3>3, <3>4, <3>5
    <3> QED BY <3>6, <3>7, <3>8
  <2> QED BY <2>2, <2>3
<1>2. T \in H
  <2> HIDE DEF H
  <2> QED BY <1>1, SubsetInduction
<1>3. T \cap S = S
  OBVIOUS
<1> QED BY <1>2, <1>3

\* One summand changes.
LEMMA SumChanges ==
  ASSUME NEW f, NEW g, NEW S, IsFiniteSet(S), NEW x \in S,
         \A y \in S : f[y] \in Int /\ g[y] \in Int,
         \A y \in S \ {x} : f[y] = g[y]
  PROVE  SumFunctionOnSet(g, S) = SumFunctionOnSet(f, S) - f[x] + g[x]
<1>1. IsFiniteSet(S \ {x})
  BY FS_Subset
<1>2. SumFunctionOnSet(f, S \ {x}) = SumFunctionOnSet(g, S \ {x})
  BY <1>1, SumSame
<1>3. SumFunctionOnSet(f, S) = f[x] + SumFunctionOnSet(f, S \ {x})
  BY SumRemove
<1>4. SumFunctionOnSet(g, S) = g[x] + SumFunctionOnSet(g, S \ {x})
  BY SumRemove
<1>5. SumFunctionOnSet(f, S \ {x}) \in Int
  BY <1>1, SumInt
<1> QED BY <1>2, <1>3, <1>4, <1>5

-----------------------------------------------------------------------------
(* Counting up *)

\* What holds at zero and is handed on by every number holds of every number.
LEMMA CountingUp ==
  ASSUME NEW H, 0 \in H, \A n \in Nat : n \in H => n + 1 \in H
  PROVE  \A n \in Nat : n \in H
<1> SUFFICES ASSUME NEW n \in Nat PROVE n \in H
  OBVIOUS
<1> DEFINE G == {T \in SUBSET (1..n) : \A k \in 0..n : T = 1..k => k \in H}
<1>1. ASSUME NEW T \in SUBSET (1..n), \A U \in SUBSET T : U # T => U \in G
      PROVE  T \in G
  <2> SUFFICES ASSUME NEW k \in 0..n, T = 1..k PROVE k \in H
    OBVIOUS
  <2>1. CASE k = 0
    BY <2>1
  <2>2. CASE k # 0
    <3>1. k - 1 \in Nat /\ k - 1 \in 0..n /\ (k - 1) + 1 = k
      BY <2>2
    <3>2. 1..(k - 1) \in SUBSET T /\ 1..(k - 1) # T
      <4>1. k \in T /\ k \notin 1..(k - 1)
        BY <2>2
      <4> QED BY <4>1
    <3>3. 1..(k - 1) \in G
      BY <1>1, <3>2
    <3>4. k - 1 \in H
      BY <3>1, <3>3
    <3> QED BY <3>1, <3>4
  <2> QED BY <2>1, <2>2
<1>2. IsFiniteSet(1..n)
  BY FS_Interval
<1>3. 1..n \in G
  <2> DEFINE S == 1..n
  <2>1. IsFiniteSet(S) /\ \A T \in SUBSET S : (\A U \in SUBSET T : U # T => U \in G) => T \in G
    BY <1>1, <1>2, Zenon
  <2> HIDE DEF G, S
  <2>2. S \in G
    BY <2>1, SubsetInduction
  <2> QED BY <2>2 DEF S
<1>4. \A k \in 0..n : 1..n = 1..k => k \in H
  BY <1>3
<1> QED BY <1>4

\* g runs through the values of a recursion up to n, from s, by F.
IsRecursion(g, n, S, s, F) ==
  g \in [0..n -> S] /\ g[0] = s /\ \A k \in 1..n : g[k] = F[k][g[k - 1]]

\* A recursion up to a number has a solution.
LEMMA RecursionExists ==
  ASSUME NEW n \in Nat, NEW S, NEW s \in S, NEW F \in [1..n -> [S -> S]]
  PROVE  \E g : IsRecursion(g, n, S, s, F)
<1> DEFINE H == {m \in Nat : m <= n => \E g : IsRecursion(g, m, S, s, F)}
<1>1. 0 \in H
  <2>1. IsRecursion([k \in 0..0 |-> s], 0, S, s, F)
    BY DEF IsRecursion
  <2> QED BY <2>1
<1>2. ASSUME NEW m \in Nat, m \in H PROVE m + 1 \in H
  <2> SUFFICES ASSUME m + 1 <= n PROVE \E g : IsRecursion(g, m + 1, S, s, F)
    OBVIOUS
  <2>1. m <= n /\ m + 1 \in 1..n
    OBVIOUS
  <2>2. PICK g : IsRecursion(g, m, S, s, F)
    BY <1>2, <2>1
  <2> DEFINE h == [k \in 0..(m + 1) |-> IF k = m + 1 THEN F[m + 1][g[m]] ELSE g[k]]
  <2>3. g[m] \in S /\ F[m + 1][g[m]] \in S
    BY <2>1, <2>2 DEF IsRecursion
  <2>4. \A k \in 0..m : h[k] = g[k] /\ g[k] \in S
    BY <2>2 DEF IsRecursion
  <2>5. h[m + 1] = F[m + 1][g[m]] /\ m \in 0..m /\ 0 \in 0..m
    OBVIOUS
  <2>6. h \in [0..(m + 1) -> S]
    <3>1. \A k \in 0..(m + 1) : k \in 0..m \/ k = m + 1
      OBVIOUS
    <3>2. \A k \in 0..(m + 1) : h[k] \in S
      <4> HIDE DEF h
      <4> QED BY <2>3, <2>4, <2>5, <3>1
    <3> QED BY <3>2
  <2>7. ASSUME NEW k \in 1..(m + 1) PROVE h[k] = F[k][h[k - 1]]
    <3> HIDE DEF h
    <3>1. CASE k = m + 1
      <4>1. k - 1 = m
        BY <3>1
      <4> QED BY <2>4, <2>5, <3>1, <4>1
    <3>2. CASE k # m + 1
      <4>1. k \in 1..m /\ k \in 0..m /\ k - 1 \in 0..m
        BY <3>2
      <4> QED BY <2>2, <2>4, <4>1 DEF IsRecursion
    <3> QED BY <3>1, <3>2
  <2> HIDE DEF h
  <2>8. h[0] = s
    BY <2>2, <2>4, <2>5 DEF IsRecursion
  <2>9. IsRecursion(h, m + 1, S, s, F)
    BY <2>6, <2>7, <2>8 DEF IsRecursion
  <2> QED BY <2>9
<1>3. n \in H
  <2> HIDE DEF H
  <2> QED BY <1>1, <1>2, CountingUp
<1> QED BY <1>3
=============================================================================
