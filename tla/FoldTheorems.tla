----------------------------- MODULE FoldTheorems -----------------------------
(***************************************************************************)
(* What the folds of the community modules compute.  Their definitions are *)
(* recursive functions on the subsets of a finite set, so that each fact   *)
(* about them, and that there is such a function at all, rests on a least  *)
(* counterexample.  Operators cannot be parameters here: a fold is stated  *)
(* with the function "step" it applies and the element "pick" it takes.    *)
(***************************************************************************)
EXTENDS ByteRanges, Functions, FiniteSetTheorems, SequenceTheorems, WellFoundedInduction, TLAPS

LEMMA LeastIs ==
  ASSUME NEW S \in SUBSET Nat, S # {}
  PROVE  \E n \in S : \A m \in S : n <= m
<1> DEFINE R == OpToRel(<, Nat)
<1>1. IsWellFoundedOn(R, Nat)
  BY NatLessThanWellFounded, Zenon
<1>2. \A x, y \in Nat : y < x => <<y, x>> \in R
  BY Zenon DEF OpToRel
<1> HIDE DEF R
<1>3. PICK n \in S : \A m \in S : ~(<<m, n>> \in R)
  BY <1>1, WFMin
<1>4. ASSUME NEW m \in S PROVE n <= m
  <2>1. n \in Nat /\ m \in Nat
    OBVIOUS
  <2>2. ~(m < n)
    BY <1>2, <1>3, <2>1
  <2> QED
    BY <2>1, <2>2
<1> QED
  BY <1>4

\* Among subsets of a finite set there is a smallest.
LEMMA LeastSet ==
  ASSUME NEW S, IsFiniteSet(S), NEW B \in SUBSET SUBSET S, B # {}
  PROVE  \E t \in B : \A u \in SUBSET t : u # t => u \notin B
<1> DEFINE Sizes == {Cardinality(t) : t \in B}
<1>1. \A t \in B : IsFiniteSet(t) /\ Cardinality(t) \in Nat
  BY FS_Subset, FS_CardinalityType
<1>2. Sizes \in SUBSET Nat /\ Sizes # {}
  BY <1>1
<1>3. PICK n \in Sizes : \A m \in Sizes : n <= m
  <2> HIDE DEF Sizes
  <2> QED
    BY <1>2, LeastIs
<1>4. PICK t \in B : Cardinality(t) = n
  OBVIOUS
<1>5. ASSUME NEW u \in SUBSET t, u # t PROVE u \notin B
  <2>1. IsFiniteSet(t) /\ Cardinality(t) \in Nat /\ IsFiniteSet(u) /\ Cardinality(u) \in Nat
    BY <1>1, FS_Subset, FS_CardinalityType
  <2>2. Cardinality(u) < Cardinality(t)
    BY <1>5, <2>1, FS_Subset
  <2>3. ASSUME u \in B PROVE Cardinality(t) <= Cardinality(u)
    BY <1>3, <1>4, <2>3
  <2> QED
    BY <2>1, <2>2, <2>3
<1> QED
  BY <1>5

-----------------------------------------------------------------------------
\* "f" folds the subsets of S, each from the one without its picked element.
IsFold(f, S, base, pick, step) ==
  /\ f[{}] = base
  /\ \A s \in SUBSET S : s # {} => f[s] = step[<<pick[s], f[s \ {pick[s]}]>>]

LEMMA FoldsAgree ==
  ASSUME NEW S, IsFiniteSet(S), NEW pick, \A s \in SUBSET S : s # {} => pick[s] \in s,
         NEW base, NEW step, NEW f, NEW g, NEW t \in SUBSET S, NEW u \in SUBSET S,
         IsFold(f, t, base, pick, step), IsFold(g, u, base, pick, step)
  PROVE  \A s \in SUBSET S : s \subseteq t /\ s \subseteq u => f[s] = g[s]
<1> DEFINE B == {s \in SUBSET S : s \subseteq t /\ s \subseteq u /\ f[s] # g[s]}
<1> SUFFICES ASSUME B # {} PROVE FALSE
  OBVIOUS
<1>1. PICK s \in B : \A w \in SUBSET s : w # s => w \notin B
  <2>1. B \in SUBSET SUBSET S
    OBVIOUS
  <2> HIDE DEF B
  <2> QED
    BY <2>1, LeastSet
<1>2. s # {}
  BY DEF IsFold
<1> DEFINE w == s \ {pick[s]}
<1>3. pick[s] \in s /\ w \in SUBSET s /\ w # s
  BY <1>2
<1>4. f[w] = g[w]
  BY <1>1, <1>3
<1>5. f[s] = step[<<pick[s], f[w]>>] /\ g[s] = step[<<pick[s], g[w]>>]
  BY <1>2 DEF IsFold
<1> QED
  BY <1>4, <1>5

LEMMA FoldExists ==
  ASSUME NEW S, IsFiniteSet(S), NEW pick, \A s \in SUBSET S : s # {} => pick[s] \in s,
         NEW V, NEW base \in V, NEW step \in [S \X V -> V]
  PROVE  \E f \in [SUBSET S -> V] : IsFold(f, S, base, pick, step)
<1> DEFINE Folds(t) == {f \in [SUBSET t -> V] : IsFold(f, t, base, pick, step)}
           B == {t \in SUBSET S : Folds(t) = {}}
<1> SUFFICES ASSUME B # {} PROVE FALSE
  OBVIOUS
<1>1. PICK t \in B : \A u \in SUBSET t : u # t => u \notin B
  <2>1. B \in SUBSET SUBSET S
    OBVIOUS
  <2> HIDE DEF B
  <2> QED
    BY <2>1, LeastSet
<1> DEFINE G(u) == CHOOSE f \in Folds(u) : TRUE
<1>2. ASSUME NEW u \in SUBSET t, u # t PROVE G(u) \in [SUBSET u -> V] /\ IsFold(G(u), u, base, pick, step)
  <2>1. u \in SUBSET S /\ Folds(u) # {}
    BY <1>1, <1>2
  <2>2. G(u) \in Folds(u)
    BY <2>1
  <2> QED
    BY <2>2
<1> HIDE DEF G
<1>3. ASSUME NEW u \in SUBSET t, u # t, NEW w \in SUBSET u PROVE G(u)[w] = G(w)[w]
  <2>1. w \in SUBSET t /\ w # t /\ u \in SUBSET S /\ w \in SUBSET S
    BY <1>3
  <2>2. IsFold(G(u), u, base, pick, step) /\ IsFold(G(w), w, base, pick, step)
    BY <1>2, <1>3, <2>1
  <2> QED
    BY <2>1, <2>2, FoldsAgree
<1> DEFINE next == step[<<pick[t], G(t \ {pick[t]})[t \ {pick[t]}]>>]
           F == [s \in SUBSET t |-> IF s = {} THEN base ELSE IF s = t THEN next ELSE G(s)[s]]
<1>4. ASSUME NEW s \in SUBSET t, s # {}
      PROVE  F[s] \in V /\ F[s] = step[<<pick[s], F[s \ {pick[s]}]>>]
  <2> DEFINE w == s \ {pick[s]}
  <2>1. s \in SUBSET S /\ pick[s] \in s /\ pick[s] \in S /\ w \in SUBSET s /\ w \in SUBSET t /\ w # s /\ w # t
    BY <1>4
  <2>2. G(w) \in [SUBSET w -> V] /\ IsFold(G(w), w, base, pick, step)
    BY <1>2, <2>1
  <2>3. G(w)[w] \in V
    BY <2>2
  <2>4. F[w] = G(w)[w]
    <3>1. w = {} => G(w)[w] = base
      BY <2>2 DEF IsFold
    <3> QED
      BY <2>1, <3>1
  <2>5. F[s] = step[<<pick[s], G(w)[w]>>]
    <3>1. CASE s = t
      BY <1>4, <3>1
    <3>2. CASE s # t
      <4>1. F[s] = G(s)[s]
        BY <1>4, <3>2
      <4>2. IsFold(G(s), s, base, pick, step)
        BY <1>2, <3>2
      <4>3. G(s)[s] = step[<<pick[s], G(s)[w]>>]
        BY <1>4, <4>2 DEF IsFold
      <4>4. G(s)[w] = G(w)[w]
        BY <1>3, <2>1, <3>2
      <4> QED
        BY <4>1, <4>3, <4>4
    <3> QED
      BY <3>1, <3>2
  <2>6. step[<<pick[s], G(w)[w]>>] \in V
    BY <2>1, <2>3
  <2> HIDE DEF F
  <2> QED
    BY <2>4, <2>5, <2>6
<1>5. F[{}] = base
  OBVIOUS
<1>6. F \in [SUBSET t -> V]
  <2>1. \A s \in SUBSET t : F[s] \in V
    <3> HIDE DEF F
    <3> QED
      BY <1>4, <1>5
  <2>2. F = [s \in SUBSET t |-> F[s]]
    OBVIOUS
  <2> HIDE DEF F
  <2> QED
    BY <2>1, <2>2
<1>7. IsFold(F, t, base, pick, step)
  <2> HIDE DEF F
  <2> QED
    BY <1>4, <1>5 DEF IsFold
<1> QED
  <2> HIDE DEF F
  <2> QED
    BY <1>6, <1>7

\* "g" folds wherever its values are in V.
FoldsWithin(g, S, V, base, pick, step) ==
  /\ g[{}] = base
  /\ \A s \in SUBSET S : s # {} /\ g[s \ {pick[s]}] \in V => g[s] = step[<<pick[s], g[s \ {pick[s]}]>>]

\* Then all of its values are.
LEMMA FoldTyped ==
  ASSUME NEW S, IsFiniteSet(S), NEW pick, \A s \in SUBSET S : s # {} => pick[s] \in s,
         NEW V, NEW base \in V, NEW step \in [S \X V -> V],
         NEW g, FoldsWithin(g, S, V, base, pick, step)
  PROVE  (\A s \in SUBSET S : g[s] \in V) /\ IsFold(g, S, base, pick, step)
<1> DEFINE B == {s \in SUBSET S : g[s] \notin V}
<1>1. B = {}
  <2> SUFFICES ASSUME B # {} PROVE FALSE
    OBVIOUS
  <2>1. PICK s \in B : \A w \in SUBSET s : w # s => w \notin B
    <3>1. B \in SUBSET SUBSET S
      OBVIOUS
    <3> HIDE DEF B
    <3> QED
      BY <3>1, LeastSet
  <2>2. s # {} /\ pick[s] \in s /\ pick[s] \in S
    BY DEF FoldsWithin
  <2>3. g[s \ {pick[s]}] \in V
    BY <2>1, <2>2
  <2> QED
    BY <2>2, <2>3 DEF FoldsWithin
<1>2. \A s \in SUBSET S : g[s] \in V
  BY <1>1
<1>3. \A s \in SUBSET S : s # {} => pick[s] \in s /\ s \ {pick[s]} \in SUBSET S
  OBVIOUS
<1> QED
  BY <1>2, <1>3 DEF IsFold, FoldsWithin

-----------------------------------------------------------------------------
\* Sums: the order of the elements does not matter.
LEMMA SumIs ==
  ASSUME NEW fun, NEW S, IsFiniteSet(S), \A x \in S : fun[x] \in Nat
  PROVE  /\ SumFunctionOnSet(fun, S) \in Nat
         /\ SumFunctionOnSet(fun, {}) = 0
         /\ \A x \in S : SumFunctionOnSet(fun, S) = fun[x] + SumFunctionOnSet(fun, S \ {x})
<1> DEFINE Sums(f, t) ==
             f = [s \in SUBSET t |-> IF s = {} THEN 0
                                     ELSE fun[CHOOSE x \in s : TRUE] + f[s \ {CHOOSE x \in s : TRUE}]]
           iter(t) == CHOOSE f : Sums(f, t)
           pick == [s \in SUBSET S |-> CHOOSE x \in s : TRUE]
           step == [z \in S \X Nat |-> fun[z[1]] + z[2]]
           h(t) == iter(t)[t]
<1>1. \A t : SumFunctionOnSet(fun, t) = h(t)
  BY DEF SumFunctionOnSet, FoldFunctionOnSet, MapThenFoldSet
<1>2. \A s \in SUBSET S : s # {} => pick[s] \in s
  OBVIOUS
<1>3. step \in [S \X Nat -> Nat] /\ \A x \in S, n \in Nat : step[<<x, n>>] = fun[x] + n
  OBVIOUS
<1>4. ASSUME NEW t \in SUBSET S PROVE (\A s \in SUBSET t : iter(t)[s] \in Nat) /\ IsFold(iter(t), t, 0, pick, step)
  <2>1. IsFiniteSet(t) /\ \A s \in SUBSET t : s # {} => pick[s] \in s /\ pick[s] \in S
    BY <1>2, FS_Subset
  <2> DEFINE stept == [z \in t \X Nat |-> fun[z[1]] + z[2]]
  <2>2. stept \in [t \X Nat -> Nat] /\ \A x \in t, n \in Nat : stept[<<x, n>>] = fun[x] + n
    OBVIOUS
  <2>3. \A s \in SUBSET t : s # {} => pick[s] = CHOOSE x \in s : TRUE
    OBVIOUS
  <2> HIDE DEF pick, step, stept
  <2>4. PICK f \in [SUBSET t -> Nat] : IsFold(f, t, 0, pick, stept)
    <3>1. 0 \in Nat
      OBVIOUS
    <3> QED
      BY <2>1, <2>2, <3>1, FoldExists
  <2>5. Sums(f, t)
    <3>1. ASSUME NEW s \in SUBSET t
          PROVE  f[s] = IF s = {} THEN 0 ELSE fun[CHOOSE x \in s : TRUE] + f[s \ {CHOOSE x \in s : TRUE}]
      <4>1. s \ {pick[s]} \in SUBSET t /\ f[s \ {pick[s]}] \in Nat
        OBVIOUS
      <4>2. s # {} => pick[s] \in t /\ f[s] = stept[<<pick[s], f[s \ {pick[s]}]>>]
        BY <2>1, <2>4 DEF IsFold
      <4>3. s # {} => f[s] = fun[pick[s]] + f[s \ {pick[s]}]
        BY <2>2, <4>1, <4>2
      <4> QED
        BY <2>3, <2>4, <4>3 DEF IsFold
    <3>2. f = [s \in SUBSET t |-> f[s]]
      OBVIOUS
    <3> QED
      BY <3>1, <3>2
  <2>6. Sums(iter(t), t)
    <3> HIDE DEF Sums
    <3> QED
      BY <2>5
  <2> DEFINE g == iter(t)
  <2>7. \A s \in SUBSET t : g[s] = IF s = {} THEN 0 ELSE fun[CHOOSE x \in s : TRUE] + g[s \ {CHOOSE x \in s : TRUE}]
    <3> HIDE DEF iter
    <3> QED
      BY <2>6
  <2> HIDE DEF g, iter, Sums
  <2>8. g[{}] = 0
    BY <2>7
  <2>9. ASSUME NEW s \in SUBSET t, s # {}, g[s \ {pick[s]}] \in Nat
        PROVE  g[s] = stept[<<pick[s], g[s \ {pick[s]}]>>]
    <3>1. g[s] = fun[pick[s]] + g[s \ {pick[s]}]
      BY <2>3, <2>7, <2>9
    <3>2. pick[s] \in t
      BY <2>1, <2>9
    <3> QED
      BY <2>2, <2>9, <3>1, <3>2
  <2>10. (\A s \in SUBSET t : g[s] \in Nat) /\ IsFold(g, t, 0, pick, stept)
    <3>1. 0 \in Nat
      OBVIOUS
    <3>2. IsFiniteSet(t) /\ \A s \in SUBSET t : s # {} => pick[s] \in s
      BY <2>1
    <3>3. FoldsWithin(g, t, Nat, 0, pick, stept)
      BY <2>8, <2>9 DEF FoldsWithin
    <3>4. stept \in [t \X Nat -> Nat]
      BY <2>2
    <3> QED
      BY <3>1, <3>2, <3>3, <3>4, FoldTyped
  <2>11. IsFold(g, t, 0, pick, step)
    <3>1. ASSUME NEW s \in SUBSET t, s # {} PROVE g[s] = step[<<pick[s], g[s \ {pick[s]}]>>]
      <4>1. pick[s] \in t /\ pick[s] \in S /\ s \ {pick[s]} \in SUBSET t
        BY <2>1, <3>1
      <4>2. g[s \ {pick[s]}] \in Nat
        BY <2>10, <4>1
      <4>3. g[s] = stept[<<pick[s], g[s \ {pick[s]}]>>]
        BY <2>10, <3>1 DEF IsFold
      <4> QED
        BY <1>3, <2>2, <4>1, <4>2, <4>3
    <3> QED
      BY <2>8, <3>1 DEF IsFold
  <2> QED
    BY <2>10, <2>11 DEF g
<1> HIDE DEF iter, pick, step
<1>5. ASSUME NEW t \in SUBSET S, NEW s \in SUBSET t PROVE iter(t)[s] = h(s)
  <2>1. s \in SUBSET S
    OBVIOUS
  <2> QED
    BY <1>2, <1>4, <2>1, FoldsAgree
<1>6. \A t \in SUBSET S : h(t) \in Nat
  BY <1>4
<1>7. h({}) = 0
  BY <1>4 DEF IsFold
<1>8. ASSUME NEW t \in SUBSET S, t # {}
      PROVE  pick[t] \in t /\ h(t) = fun[pick[t]] + h(t \ {pick[t]})
  <2>1. pick[t] \in t /\ pick[t] \in S /\ t \ {pick[t]} \in SUBSET t
    BY <1>2, <1>8
  <2>2. iter(t)[t] = step[<<pick[t], iter(t)[t \ {pick[t]}]>>]
    BY <1>4, <1>8 DEF IsFold
  <2>3. iter(t)[t \ {pick[t]}] = h(t \ {pick[t]}) /\ h(t \ {pick[t]}) \in Nat
    BY <1>5, <1>6, <2>1
  <2> QED
    BY <1>3, <2>1, <2>2, <2>3
<1> HIDE DEF h
<1> DEFINE B == {t \in SUBSET S : \E x \in t : h(t) # fun[x] + h(t \ {x})}
<1>9. B = {}
  <2> SUFFICES ASSUME B # {} PROVE FALSE
    OBVIOUS
  <2>1. PICK t \in B : \A u \in SUBSET t : u # t => u \notin B
    <3>1. B \in SUBSET SUBSET S
      OBVIOUS
    <3> HIDE DEF B
    <3> QED
      BY <3>1, LeastSet
  <2>2. PICK x \in t : h(t) # fun[x] + h(t \ {x})
    OBVIOUS
  <2> DEFINE c == pick[t]
             rest == (t \ {c}) \ {x}
  <2>3. c \in t /\ h(t) = fun[c] + h(t \ {c}) /\ c # x
    BY <1>8, <2>2
  <2>4. /\ t \ {c} \in SUBSET t /\ t \ {c} # t /\ x \in t \ {c} /\ t \ {c} \in SUBSET S
        /\ t \ {x} \in SUBSET t /\ t \ {x} # t /\ c \in t \ {x} /\ t \ {x} \in SUBSET S
        /\ (t \ {x}) \ {c} = rest /\ rest \in SUBSET S
    BY <2>3
  <2>5. h(t \ {c}) = fun[x] + h(rest)
    BY <2>1, <2>4
  <2>6. h(t \ {x}) = fun[c] + h(rest)
    BY ZenonT(60), <2>1, <2>4
  <2>7. h(rest) \in Nat /\ fun[x] \in Nat /\ fun[c] \in Nat
    BY <1>6, <2>3, <2>4
  <2> HIDE DEF c, rest
  <2> QED
    BY <2>2, <2>3, <2>5, <2>6, <2>7
<1> QED
  BY ZenonT(30), <1>1, <1>6, <1>7, <1>9

\* Only the values that are summed matter.
LEMMA SumsAgree ==
  ASSUME NEW f, NEW g, NEW S, IsFiniteSet(S), \A x \in S : f[x] \in Nat /\ g[x] = f[x]
  PROVE  SumFunctionOnSet(g, S) = SumFunctionOnSet(f, S)
<1> DEFINE B == {t \in SUBSET S : SumFunctionOnSet(g, t) # SumFunctionOnSet(f, t)}
<1> SUFFICES ASSUME B # {} PROVE FALSE
  OBVIOUS
<1>1. PICK t \in B : \A u \in SUBSET t : u # t => u \notin B
  <2>1. B \in SUBSET SUBSET S
    OBVIOUS
  <2> HIDE DEF B
  <2> QED
    BY <2>1, LeastSet
<1>2. IsFiniteSet(t) /\ \A x \in t : f[x] \in Nat /\ g[x] \in Nat /\ g[x] = f[x]
  BY FS_Subset
<1>3. t # {}
  <2>1. SumFunctionOnSet(f, {}) = 0 /\ SumFunctionOnSet(g, {}) = 0
    BY <1>2, SumIs
  <2> QED
    BY <2>1
<1>4. PICK x \in t : TRUE
  BY <1>3
<1>5. /\ SumFunctionOnSet(f, t) = f[x] + SumFunctionOnSet(f, t \ {x})
      /\ SumFunctionOnSet(g, t) = g[x] + SumFunctionOnSet(g, t \ {x})
  BY <1>2, SumIs
<1>6. SumFunctionOnSet(f, t \ {x}) = SumFunctionOnSet(g, t \ {x})
  BY <1>1
<1> QED
  BY <1>2, <1>5, <1>6

\* A sum over the positions of a sequence, when one more is added.
LEMMA SumOfOneMore ==
  ASSUME NEW f, NEW g, NEW n \in Nat, DOMAIN f = 1 .. n, DOMAIN g = 1 .. n + 1,
         \A i \in 1 .. n : f[i] \in Nat /\ g[i] = f[i], g[n + 1] \in Nat
  PROVE  /\ SumFunctionOnSet(f, 1 .. n) \in Nat
         /\ SumFunctionOnSet(g, 1 .. n + 1) = SumFunctionOnSet(f, 1 .. n) + g[n + 1]
<1>1. IsFiniteSet(1 .. n) /\ IsFiniteSet(1 .. n + 1)
  BY FS_Interval
<1>2. (1 .. n + 1) \ {n + 1} = 1 .. n /\ n + 1 \in 1 .. n + 1
  OBVIOUS
<1>3. \A i \in 1 .. n + 1 : g[i] \in Nat
  OBVIOUS
<1>4. SumFunctionOnSet(g, 1 .. n + 1) = g[n + 1] + SumFunctionOnSet(g, 1 .. n)
  BY SMTT(30), <1>1, <1>2, <1>3, SumIs
<1>5. SumFunctionOnSet(g, 1 .. n) = SumFunctionOnSet(f, 1 .. n) /\ SumFunctionOnSet(f, 1 .. n) \in Nat
  BY <1>1, SumsAgree, SumIs
<1> QED
  BY <1>4, <1>5

\* The sizes of disjoint finite sets sum up to the size of their union.
LEMMA SumOfSizes ==
  ASSUME NEW D, IsFiniteSet(D), NEW F, NEW r,
         \A d \in D : IsFiniteSet(F[d]) /\ r[d] = Cardinality(F[d]),
         \A d, e \in D : d # e => F[d] \cap F[e] = {},
         NEW T, \A x : x \in T <=> \E d \in D : x \in F[d]
  PROVE  IsFiniteSet(T) /\ SumFunctionOnSet(r, D) = Cardinality(T)
<1> DEFINE All(t) == UNION {F[d] : d \in t}
           Right(t) == /\ IsFiniteSet(All(t))
                       /\ SumFunctionOnSet(r, t) = Cardinality(All(t))
           B == {t \in SUBSET D : ~Right(t)}
<1> SUFFICES ASSUME B # {} PROVE FALSE
  <2>1. T = All(D)
    OBVIOUS
  <2> QED
    BY <2>1
<1>1. PICK t \in B : \A u \in SUBSET t : u # t => u \notin B
  <2>1. B \in SUBSET SUBSET D
    OBVIOUS
  <2> HIDE DEF B
  <2> QED
    BY <2>1, LeastSet
<1>2. IsFiniteSet(t) /\ \A d \in t : r[d] \in Nat
  BY FS_Subset, FS_CardinalityType
<1>3. CASE t = {}
  <2>1. All(t) = {}
    BY <1>3
  <2>2. SumFunctionOnSet(r, t) = 0
    BY <1>2, <1>3, SumIs
  <2> QED
    BY <2>1, <2>2, FS_EmptySet
<1>4. CASE t # {}
  <2>1. PICK d \in t : TRUE
    BY <1>4
  <2>2. Right(t \ {d})
    BY <1>1
  <2>3. All(t) = All(t \ {d}) \cup F[d]
    OBVIOUS
  <2>4. All(t \ {d}) \cap F[d] = {}
    OBVIOUS
  <2>5. IsFiniteSet(F[d]) /\ r[d] = Cardinality(F[d])
    OBVIOUS
  <2>6. SumFunctionOnSet(r, t) = r[d] + SumFunctionOnSet(r, t \ {d})
    BY <1>2, SumIs
  <2> HIDE DEF All
  <2>7. IsFiniteSet(All(t)) /\ Cardinality(All(t)) = Cardinality(All(t \ {d})) + Cardinality(F[d])
    <3>1. Cardinality({}) = 0 /\ Cardinality(All(t \ {d})) \in Nat /\ Cardinality(F[d]) \in Nat
      BY <2>2, <2>5, FS_EmptySet, FS_CardinalityType
    <3>2. /\ IsFiniteSet(All(t \ {d}) \cup F[d])
          /\ Cardinality(All(t \ {d}) \cup F[d])
               = Cardinality(All(t \ {d})) + Cardinality(F[d])
                   - Cardinality(All(t \ {d}) \cap F[d])
      <4>1. IsFiniteSet(All(t \ {d})) /\ IsFiniteSet(F[d])
        BY <2>2, <2>5
      <4> QED
        BY <4>1, FS_Union
    <3>3. Cardinality(All(t \ {d}) \cap F[d]) = 0
      BY <2>4, <3>1
    <3>4. All(t) = All(t \ {d}) \cup F[d]
      BY <2>3
    <3> QED
      BY <3>1, <3>2, <3>3, <3>4
  <2>8. Cardinality(All(t \ {d})) \in Nat /\ Cardinality(F[d]) \in Nat
    BY <2>2, <2>5, FS_CardinalityType
  <2> QED
    BY <2>2, <2>5, <2>6, <2>7, <2>8
<1> QED
  BY <1>3, <1>4

\* Sets that a function pairs off have the same size.
LEMMA PairedOff ==
  ASSUME NEW S, NEW T, IsFiniteSet(T), NEW f \in [S -> T],
         \A x, y \in S : f[x] = f[y] => x = y,
         \A z \in T : \E x \in S : f[x] = z
  PROVE  IsFiniteSet(S) /\ Cardinality(S) = Cardinality(T)
<1>1. f \in Injection(S, T)
  BY DEF Injection, IsInjective
<1>2. f \in Surjection(S, T)
  BY DEF Surjection
<1> QED
  BY <1>1, <1>2, FS_Injection

-----------------------------------------------------------------------------
\* The greatest position of a nonempty set of positions.
LEMMA MaxIs ==
  ASSUME NEW n \in Nat, NEW S \in SUBSET (1 .. n), S # {}
  PROVE  Max(S) \in S /\ \A i \in S : i <= Max(S)
<1> DEFINE Below == {n - i : i \in S}
<1>1. Below \in SUBSET Nat /\ Below # {}
  <2>1. ASSUME NEW i \in S PROVE n - i \in Nat
    <3>1. i \in 1 .. n
      OBVIOUS
    <3> QED
      BY <3>1
  <2> QED
    BY <2>1
<1>2. PICK b \in Below : \A m \in Below : b <= m
  <2> HIDE DEF Below
  <2> QED
    BY <1>1, LeastIs
<1>3. PICK k \in S : b = n - k
  OBVIOUS
<1>4. \A i \in S : i <= k
  <2> SUFFICES ASSUME NEW i \in S PROVE i <= k
    OBVIOUS
  <2>1. n - k <= n - i
    BY <1>2, <1>3
  <2> QED
    BY <2>1
<1>5. \E x \in S : \A y \in S : x >= y
  BY <1>4
<1>6. Max(S) \in S /\ \A y \in S : Max(S) >= y
  BY <1>5 DEF Max
<1> QED
  BY <1>6

LEMMA MinIs ==
  ASSUME NEW S \in SUBSET Nat, S # {}
  PROVE  Min(S) \in S /\ \A i \in S : Min(S) <= i
<1>1. \E x \in S : \A y \in S : x <= y
  BY LeastIs
<1> QED
  BY <1>1 DEF Min

-----------------------------------------------------------------------------
(***************************************************************************)
(* Folds over sequences, as the states they run through.                   *)
(***************************************************************************)
LEMMA Upwards ==
  ASSUME NEW n \in Nat, NEW B, 0 \in B, \A k \in 1 .. n : k - 1 \in B => k \in B
  PROVE  \A k \in 0 .. n : k \in B
<1> DEFINE Missing == {k \in 0 .. n : k \notin B}
<1> SUFFICES ASSUME Missing # {} PROVE FALSE
  OBVIOUS
<1>1. PICK k \in Missing : \A m \in Missing : k <= m
  <2>1. Missing \in SUBSET Nat
    OBVIOUS
  <2> HIDE DEF Missing
  <2> QED
    BY <2>1, LeastIs
<1>2. k \in 1 .. n /\ k - 1 \in 0 .. n /\ ~(k <= k - 1)
  OBVIOUS
<1>3. k - 1 \in B
  BY <1>1, <1>2
<1> QED
  BY <1>2, <1>3

LEMMA MaxOfFirst ==
  ASSUME NEW n \in Nat, NEW k \in 1 .. n
  PROVE  Max(1 .. k) = k /\ (1 .. k) \ {k} = 1 .. k - 1
<1>1. 1 .. k \in SUBSET (1 .. n) /\ 1 .. k # {}
  OBVIOUS
<1>2. Max(1 .. k) \in 1 .. k /\ \A i \in 1 .. k : i <= Max(1 .. k)
  BY <1>1, MaxIs
<1> QED
  BY <1>2

\* A fold that takes the greatest position first goes through the sequence from its start.
RunsBy(f, S, V, base, step) ==
  /\ f[{}] = base
  /\ \A s \in SUBSET S : s # {} /\ f[s \ {Max(s)}] \in V => f[s] = step[<<Max(s), f[s \ {Max(s)}]>>]

LEMMA RunExists ==
  ASSUME NEW n \in Nat, NEW S, S = 1 .. n, NEW V, NEW base \in V, NEW step \in [S \X V -> V]
  PROVE  \E f \in [SUBSET S -> V] : RunsBy(f, S, V, base, step)
<1> DEFINE pick == [s \in SUBSET S |-> Max(s)]
<1>1. IsFiniteSet(S)
  <2>1. 1 \in Int /\ n \in Int
    OBVIOUS
  <2> QED
    BY <2>1, FS_Interval
<1>2. \A s \in SUBSET S : s # {} => pick[s] \in s /\ pick[s] = Max(s)
  BY MaxIs
<1> HIDE DEF pick
<1>3. PICK f \in [SUBSET S -> V] : IsFold(f, S, base, pick, step)
  BY <1>1, <1>2, FoldExists
<1>4. RunsBy(f, S, V, base, step)
  BY <1>2, <1>3 DEF IsFold, RunsBy
<1> QED
  BY <1>4

Runs(h, n, S, V, base, step) ==
  \E t \in [0 .. n -> V] :
    t[0] = base /\ (\A k \in 1 .. n : t[k] = step[<<k, t[k - 1]>>]) /\ t[n] = h[S]

LEMMA RunIs ==
  ASSUME NEW n \in Nat, NEW S, S = 1 .. n, NEW V, NEW base \in V, NEW step \in [S \X V -> V],
         NEW f, RunsBy(f, S, V, base, step)
  PROVE  Runs(f, n, S, V, base, step)
<1> DEFINE t == [k \in 0 .. n |-> f[1 .. k]]
           B == {k \in 0 .. n : t[k] \in V /\ (k # 0 => t[k] = step[<<k, t[k - 1]>>])}
<1>1. t[0] = base /\ 0 \in B
  <2>1. 1 .. 0 = {} /\ 0 \in 0 .. n
    OBVIOUS
  <2> QED
    BY <2>1 DEF RunsBy
<1>2. ASSUME NEW k \in 1 .. n, k - 1 \in B PROVE k \in B
  <2>1. k \in 0 .. n /\ k - 1 \in 0 .. n /\ 1 .. k \in SUBSET S /\ 1 .. k # {} /\ k \in S /\ k # 0
    <3>1. k \in Nat /\ 1 <= k /\ k <= n
      OBVIOUS
    <3>2. 1 .. k \in SUBSET (1 .. n) /\ 1 \in 1 .. k
      BY <3>1
    <3> QED
      BY <3>1, <3>2
  <2>2. Max(1 .. k) = k /\ (1 .. k) \ {Max(1 .. k)} = 1 .. k - 1
    BY MaxOfFirst
  <2>3. f[1 .. k - 1] \in V
    BY <1>2, <2>1
  <2>4. f[1 .. k] = step[<<k, f[1 .. k - 1]>>]
    BY <2>1, <2>2, <2>3 DEF RunsBy
  <2>5. f[1 .. k] \in V
    BY <2>1, <2>3, <2>4
  <2> QED
    BY <2>1, <2>4, <2>5
<1>3. \A k \in 0 .. n : k \in B
  <2> HIDE DEF B
  <2> QED
    BY <1>1, <1>2, Upwards
<1>4. t \in [0 .. n -> V] /\ \A k \in 1 .. n : t[k] = step[<<k, t[k - 1]>>]
  <2>1. t = [k \in 0 .. n |-> t[k]]
    OBVIOUS
  <2>2. \A k \in 1 .. n : k \in 0 .. n /\ k # 0
    OBVIOUS
  <2>3. \A k \in 0 .. n : t[k] \in V /\ (k # 0 => t[k] = step[<<k, t[k - 1]>>])
    BY <1>3
  <2> HIDE DEF t, B
  <2> QED
    BY <2>1, <2>2, <2>3
<1>5. t[n] = f[S]
  OBVIOUS
<1> HIDE DEF t
<1> QED
  BY <1>1, <1>4, <1>5 DEF Runs

-----------------------------------------------------------------------------
(***************************************************************************)
(* Byte ranges in their order.                                             *)
(***************************************************************************)
LEMMA AscendingIs ==
  ASSUME NEW S \in SUBSET (Int \X Int), IsFiniteSet(S)
  PROVE  /\ Ascending(S) \in Seq(S) /\ Cardinality(S) \in Nat
         /\ Len(Ascending(S)) = Cardinality(S)
         /\ \A r \in S : \E i \in 1 .. Cardinality(S) : Ascending(S)[i] = r
         /\ \A i, j \in 1 .. Cardinality(S) : i < j => Ascending(S)[i][1] <= Ascending(S)[j][1]
<1> DEFINE n == Cardinality(S)
           Below(r) == {q \in S : Precedes(q, r)}
           rank == [r \in S |-> Cardinality(Below(r))]
<1>1. n \in Nat
  BY FS_CardinalityType
<1>2. \A r \in S : r = <<r[1], r[2]>> /\ r[1] \in Int /\ r[2] \in Int
  OBVIOUS
<1>3. ASSUME NEW r \in S
      PROVE  IsFiniteSet(Below(r)) /\ Cardinality(Below(r)) \in Nat /\ Cardinality(Below(r)) < n /\ r \notin Below(r)
  <2>1. r \notin Below(r)
    BY <1>2 DEF Precedes
  <2>2. Below(r) \in SUBSET S /\ Below(r) # S
    BY <2>1
  <2>3. IsFiniteSet(Below(r)) /\ Cardinality(Below(r)) <= n /\ (n = Cardinality(Below(r)) => S = Below(r))
    <3> HIDE DEF Below
    <3> QED
      BY <2>2, FS_Subset
  <2>4. Cardinality(Below(r)) \in Nat
    <3> HIDE DEF Below
    <3> QED
      BY <2>3, FS_CardinalityType
  <2> HIDE DEF Below
  <2> QED
    BY <1>1, <2>1, <2>2, <2>3, <2>4
<1>4. \A q, r \in S : q # r => Precedes(q, r) \/ Precedes(r, q)
  BY <1>2 DEF Precedes
<1>5. ASSUME NEW q \in S, NEW r \in S, Precedes(q, r) PROVE Cardinality(Below(q)) < Cardinality(Below(r))
  <2>1. Below(q) \subseteq Below(r)
    <3> SUFFICES ASSUME NEW x \in S, Precedes(x, q) PROVE Precedes(x, r)
      OBVIOUS
    <3> QED
      BY <1>2, <1>5 DEF Precedes
  <2>2. q \in Below(r) /\ q \notin Below(q)
    BY <1>3, <1>5
  <2> HIDE DEF Below
  <2>3. Below(q) \in SUBSET Below(r) /\ Below(q) # Below(r)
    BY <2>1, <2>2
  <2>4. Cardinality(Below(q)) <= Cardinality(Below(r)) /\ Cardinality(Below(q)) # Cardinality(Below(r))
    BY <1>3, <2>3, FS_Subset
  <2> QED
    BY <1>3, <2>4
<1>6. rank \in [S -> 0 .. n - 1]
  <2> SUFFICES ASSUME NEW r \in S PROVE Cardinality(Below(r)) \in 0 .. n - 1
    OBVIOUS
  <2> HIDE DEF Below
  <2> QED
    BY <1>1, <1>3
<1>7. \A q, r \in S : rank[q] = rank[r] => q = r
  <2> SUFFICES ASSUME NEW q \in S, NEW r \in S, q # r, Cardinality(Below(q)) = Cardinality(Below(r)) PROVE FALSE
    OBVIOUS
  <2> HIDE DEF Below
  <2> QED
    BY <1>3, <1>4, <1>5
<1>8. \A k \in 0 .. n - 1 : \E r \in S : rank[r] = k
  <2>1. IsFiniteSet(0 .. n - 1) /\ Cardinality(0 .. n - 1) = n
    <3>1. 0 \in Int /\ n - 1 \in Int
      BY <1>1
    <3>2. IsFiniteSet(0 .. n - 1) /\ Cardinality(0 .. n - 1) = IF 0 > n - 1 THEN 0 ELSE (n - 1) - 0 + 1
      BY <3>1, FS_Interval
    <3> QED
      BY <1>1, <3>2
  <2>2. rank \in Injection(S, 0 .. n - 1)
    BY <1>6, <1>7 DEF Injection, IsInjective
  <2>3. rank \in Surjection(S, 0 .. n - 1)
    <3> HIDE DEF rank
    <3> QED
      BY <2>1, <2>2, FS_Injection
  <2> HIDE DEF rank
  <2> QED
    BY <2>3 DEF Surjection
<1> DEFINE seq == Ascending(S)
<1>9. ASSUME NEW i \in 1 .. n PROVE seq[i] \in S /\ rank[seq[i]] = i - 1
  <2>1. i - 1 \in 0 .. n - 1
    BY <1>1
  <2>2. PICK r \in S : rank[r] = i - 1
    BY <1>8, <2>1
  <2>3. seq[i] = CHOOSE x \in S : Cardinality(Below(x)) = i - 1
    BY DEF Ascending
  <2>4. \E x \in S : Cardinality(Below(x)) = i - 1
    BY <2>2
  <2>5. seq[i] \in S /\ Cardinality(Below(seq[i])) = i - 1
    <3> HIDE DEF Below, seq
    <3> QED
      BY <2>3, <2>4
  <2> QED
    BY <2>5
<1>10. seq = [i \in 1 .. n |-> seq[i]]
  <2> DEFINE at(i) == CHOOSE x \in S : Cardinality(Below(x)) = i - 1
  <2>1. seq = [i \in 1 .. n |-> at(i)]
    BY DEF Ascending
  <2> HIDE DEF seq, at
  <2> QED
    BY <2>1
<1>11. seq \in [1 .. n -> S]
  <2> HIDE DEF seq
  <2> QED
    BY <1>9, <1>10
<1>12. seq \in Seq(S) /\ Len(seq) = n
  <2> HIDE DEF seq, n
  <2> QED
    BY <1>1, <1>11
<1>13. \A r \in S : \E i \in 1 .. n : seq[i] = r
  <2> SUFFICES ASSUME NEW r \in S PROVE \E i \in 1 .. n : seq[i] = r
    OBVIOUS
  <2> HIDE DEF seq, rank, Below, n
  <2>1. rank[r] \in 0 .. n - 1 /\ rank[r] + 1 \in 1 .. n /\ (rank[r] + 1) - 1 = rank[r]
    BY <1>1, <1>6
  <2>2. seq[rank[r] + 1] = r
    BY <1>7, <1>9, <2>1
  <2> QED
    BY <2>1, <2>2
<1>14. \A i, j \in 1 .. n : i < j => seq[i][1] <= seq[j][1]
  <2> SUFFICES ASSUME NEW i \in 1 .. n, NEW j \in 1 .. n, i < j PROVE seq[i][1] <= seq[j][1]
    OBVIOUS
  <2>1. seq[i] \in S /\ seq[j] \in S /\ rank[seq[i]] = i - 1 /\ rank[seq[j]] = j - 1
    BY <1>9
  <2>2. ~Precedes(seq[j], seq[i])
    <3> HIDE DEF seq, Below, n
    <3> QED
      BY <1>3, <1>5, <2>1
  <2>3. seq[i] # seq[j]
    <3> HIDE DEF seq, Below, rank
    <3> QED
      BY <2>1
  <2> HIDE DEF seq, Below
  <2> QED
    BY <1>2, <1>4, <2>1, <2>2, <2>3 DEF Precedes
<1> QED
  BY <1>1, <1>12, <1>13, <1>14

\* Ranges in order, none touching the next.
Tidy(m) ==
  /\ m \in Seq(Int \X Int)
  /\ \A i \in DOMAIN m : m[i][1] < m[i][2]
  /\ \A i, j \in DOMAIN m : i < j => m[i][2] < m[j][1]

Covers(m, b) == \E i \in DOMAIN m : InRange(b, m[i])
StartsBy(m, x) == \A i \in DOMAIN m : m[i][1] <= x
LiesIn(m, low, high) == \A i \in DOMAIN m : low <= m[i][1] /\ m[i][2] <= high

\* A range that starts no earlier joins them.
LEMMA RangeJoins ==
  ASSUME NEW m, Tidy(m), NEW r \in Int \X Int, r[1] < r[2], StartsBy(m, r[1])
  PROVE  /\ Tidy(JoinRange(m, r)) /\ StartsBy(JoinRange(m, r), r[1])
         /\ \A b \in Int : Covers(JoinRange(m, r), b) <=> Covers(m, b) \/ InRange(b, r)
         /\ \A low, high \in Int : LiesIn(m, low, high) /\ low <= r[1] /\ r[2] <= high
                                     => LiesIn(JoinRange(m, r), low, high)
<1> DEFINE n == Len(m)
           w == JoinRange(m, r)
           R == Int \X Int
<1>1. n \in Nat /\ m \in Seq(R) /\ DOMAIN m = 1 .. n
  BY DEF Tidy
<1>2. \A i \in 1 .. n : m[i] \in R /\ m[i][1] \in Int /\ m[i][2] \in Int /\ m[i][1] < m[i][2] /\ m[i][1] <= r[1]
  BY <1>1 DEF Tidy, StartsBy
<1>3. \A i, j \in 1 .. n : i < j => m[i][2] < m[j][1]
  BY <1>1 DEF Tidy
<1>4. r[1] \in Int /\ r[2] \in Int
  OBVIOUS
<1>5. CASE m # <<>> /\ r[1] <= Last(m)[2]
  <2> DEFINE l == <<Last(m)[1], IF r[2] > Last(m)[2] THEN r[2] ELSE Last(m)[2]>>
  <2>1. n # 0 /\ n \in 1 .. n /\ n - 1 \in Nat /\ Last(m) = m[n]
    BY <1>1, <1>5 DEF Last
  <2>2. l \in R /\ l[1] = m[n][1] /\ l[2] \in Int /\ l[2] >= m[n][2] /\ l[2] >= r[2] /\ (l[2] = r[2] \/ l[2] = m[n][2])
    BY <1>2, <1>4, <2>1
  <2>3. w = Append(Front(m), l)
    BY <1>5 DEF JoinRange
  <2>4. Front(m) \in Seq(R) /\ Len(Front(m)) = n - 1 /\ \A i \in 1 .. n - 1 : Front(m)[i] = m[i]
    <3> HIDE DEF R
    <3>1. Front(m) = SubSeq(m, 1, n - 1)
      BY DEF Front
    <3> QED
      BY <1>1, <2>1, <3>1, SubSeqProperties
  <2>5. m[n] = <<m[n][1], m[n][2]>> /\ r[1] <= m[n][2]
    BY <1>2, <1>5, <2>1
  <2> HIDE DEF l, R
  <2>6. w \in Seq(R) /\ Len(w) = n /\ DOMAIN w = 1 .. n /\ w[n] = l /\ \A i \in 1 .. n : i # n => w[i] = m[i]
    BY <2>1, <2>2, <2>3, <2>4
  <2> HIDE DEF w, n
  <2>7. \A i \in 1 .. n : w[i][1] = m[i][1] /\ w[i][2] \in Int /\ w[i][1] < w[i][2]
    BY <1>1, <1>2, <2>1, <2>2, <2>6
  <2>8. ASSUME NEW i \in 1 .. n, NEW j \in 1 .. n, i < j PROVE w[i][2] < w[j][1]
    <3>1. i # n
      BY <1>1, <2>8
    <3> QED
      BY <1>3, <2>6, <2>7, <2>8, <3>1
  <2>9. Tidy(w)
    BY <2>6, <2>7, <2>8 DEF Tidy, R
  <2>10. StartsBy(w, r[1])
    BY <1>2, <2>6, <2>7 DEF StartsBy
  <2>11. ASSUME NEW b \in Int PROVE Covers(w, b) <=> Covers(m, b) \/ InRange(b, r)
    <3>1. InRange(b, l) <=> InRange(b, m[n]) \/ InRange(b, r)
      BY <1>2, <1>4, <2>1, <2>2, <2>5 DEF InRange
    <3>2. ASSUME Covers(w, b) PROVE Covers(m, b) \/ InRange(b, r)
      <4>1. PICK i \in 1 .. n : InRange(b, w[i])
        BY <2>6, <3>2 DEF Covers
      <4> QED
        BY <1>1, <2>1, <2>6, <3>1, <4>1 DEF Covers
    <3>3. ASSUME Covers(m, b) PROVE Covers(w, b)
      <4>1. PICK i \in 1 .. n : InRange(b, m[i])
        BY <1>1, <3>3 DEF Covers
      <4> QED
        BY <2>1, <2>6, <3>1, <4>1 DEF Covers
    <3>4. ASSUME InRange(b, r) PROVE Covers(w, b)
      BY <2>1, <2>6, <3>1, <3>4 DEF Covers
    <3> QED
      BY <3>2, <3>3, <3>4
  <2>12. ASSUME NEW low \in Int, NEW high \in Int, LiesIn(m, low, high), low <= r[1], r[2] <= high
         PROVE  LiesIn(w, low, high)
    <3>1. \A i \in 1 .. n : low <= m[i][1] /\ m[i][2] <= high
      BY <1>1, <2>12 DEF LiesIn
    <3>2. ASSUME NEW i \in 1 .. n PROVE low <= w[i][1] /\ w[i][2] <= high
      BY <1>2, <1>4, <2>1, <2>2, <2>6, <2>7, <2>12, <3>1
    <3> QED
      BY <2>6, <3>2 DEF LiesIn
  <2> QED
    BY <2>9, <2>10, <2>11, <2>12 DEF w
<1>6. CASE ~(m # <<>> /\ r[1] <= Last(m)[2])
  <2>1. w = Append(m, r)
    BY <1>6 DEF JoinRange
  <2>2. r \in R
    OBVIOUS
  <2>3. \A i \in 1 .. n : m[i][2] < r[1]
    <3> SUFFICES ASSUME NEW i \in 1 .. n PROVE m[i][2] < r[1]
      OBVIOUS
    <3>1. n \in 1 .. n /\ Last(m) = m[n] /\ m # <<>>
      BY <1>1 DEF Last
    <3>2. m[n][2] < r[1]
      BY <1>2, <1>4, <1>6, <3>1
    <3>3. i = n \/ m[i][2] < m[n][1]
      <4> HIDE DEF n, R
      <4>1. i = n \/ i < n
        BY <1>1
      <4> QED
        BY <1>3, <3>1, <4>1
    <3> QED
      BY <1>2, <1>4, <3>1, <3>2, <3>3
  <2> HIDE DEF R
  <2>4. /\ w \in Seq(R) /\ DOMAIN w = 1 .. n + 1 /\ w[n + 1] = r /\ n + 1 \in 1 .. n + 1
        /\ \A i \in 1 .. n : w[i] = m[i] /\ i \in 1 .. n + 1
    BY <1>1, <2>1, <2>2
  <2> HIDE DEF w, n
  <2>5. \A i \in 1 .. n + 1 : i = n + 1 \/ i \in 1 .. n
    BY <1>1
  <2>6. ASSUME NEW i \in 1 .. n + 1, NEW j \in 1 .. n + 1, i < j PROVE w[i][2] < w[j][1]
    <3>1. i \in 1 .. n
      BY <1>1, <2>6
    <3> QED
      BY <1>3, <2>3, <2>4, <2>5, <2>6, <3>1
  <2>7. Tidy(w)
    <3>1. \A i \in 1 .. n + 1 : w[i][1] < w[i][2]
      BY <1>2, <2>4, <2>5
    <3> QED
      BY <2>4, <2>6, <3>1 DEF Tidy, R
  <2>8. StartsBy(w, r[1])
    BY <1>2, <1>4, <2>4, <2>5 DEF StartsBy
  <2>9. ASSUME NEW b \in Int PROVE Covers(w, b) <=> Covers(m, b) \/ InRange(b, r)
    <3>1. Covers(w, b) <=> \E i \in 1 .. n + 1 : InRange(b, w[i])
      BY <2>4 DEF Covers
    <3>2. Covers(m, b) <=> \E i \in 1 .. n : InRange(b, m[i])
      BY <1>1 DEF Covers
    <3> QED
      BY <2>4, <2>5, <3>1, <3>2
  <2>10. ASSUME NEW low \in Int, NEW high \in Int, LiesIn(m, low, high), low <= r[1], r[2] <= high
         PROVE  LiesIn(w, low, high)
    BY <1>1, <2>4, <2>5, <2>10 DEF LiesIn
  <2> QED
    BY <2>7, <2>8, <2>9, <2>10 DEF w
<1> QED
  BY <1>5, <1>6

LEMMA NoRanges ==
  /\ Tidy(<<>>) /\ \A x : StartsBy(<<>>, x) /\ ~Covers(<<>>, x)
  /\ \A low, high : LiesIn(<<>>, low, high)
<1>1. <<>> \in Seq(Int \X Int) /\ DOMAIN <<>> = {}
  OBVIOUS
<1> QED
  BY <1>1 DEF Tidy, StartsBy, Covers, LiesIn

LEMMA JoinTyped ==
  ASSUME NEW m \in Seq(Int \X Int), NEW r \in Int \X Int
  PROVE  JoinRange(m, r) \in Seq(Int \X Int)
<1> DEFINE R == Int \X Int
           n == Len(m)
<1>1. n \in Nat /\ m \in Seq(R) /\ DOMAIN m = 1 .. n /\ r \in R
  OBVIOUS
<1>2. CASE m # <<>> /\ r[1] <= Last(m)[2]
  <2>1. n \in 1 .. n /\ n - 1 \in Nat /\ Last(m) = m[n]
    BY <1>1, <1>2 DEF Last
  <2>2. m[n] \in R
    <3> HIDE DEF n, R
    <3> QED
      BY <1>1, <2>1
  <2>3. <<Last(m)[1], IF r[2] > Last(m)[2] THEN r[2] ELSE Last(m)[2]>> \in R
    BY <2>1, <2>2
  <2>4. Front(m) \in Seq(R)
    <3>1. Front(m) = SubSeq(m, 1, n - 1)
      BY DEF Front
    <3> HIDE DEF R
    <3> QED
      BY <1>1, <2>1, <3>1, SubSeqProperties
  <2>5. JoinRange(m, r) = Append(Front(m), <<Last(m)[1], IF r[2] > Last(m)[2] THEN r[2] ELSE Last(m)[2]>>)
    BY <1>2 DEF JoinRange
  <2> HIDE DEF R
  <2>6. \A s \in Seq(R), x \in R : Append(s, x) \in Seq(R)
    OBVIOUS
  <2>7. Append(Front(m), <<Last(m)[1], IF r[2] > Last(m)[2] THEN r[2] ELSE Last(m)[2]>>) \in Seq(R)
    BY <2>3, <2>4, <2>6, Zenon
  <2> QED
    BY <2>5, <2>7, Zenon DEF R
<1>3. CASE ~(m # <<>> /\ r[1] <= Last(m)[2])
  <2>1. Append(m, r) \in Seq(R)
    <3> HIDE DEF R
    <3> QED
      BY <1>1
  <2> QED
    BY <1>3, <2>1 DEF JoinRange
<1> HIDE DEF R
<1> QED
  BY <1>2, <1>3 DEF R

\* The states of a merge: "t" takes the ranges of S in their order, each as far as "cut" says.
Merging(S, t, cut) ==
  LET seq == Ascending(S)
  IN /\ t[0] = <<>>
     /\ \A k \in 1 .. Cardinality(S) :
          t[k] = IF seq[k][1] >= cut[seq[k]] THEN t[k - 1]
                 ELSE JoinRange(t[k - 1], <<seq[k][1], cut[seq[k]]>>)

LEMMA MergedIs ==
  ASSUME NEW S \in SUBSET (Int \X Int), IsFiniteSet(S), NEW cut \in [S -> Int], NEW t, Merging(S, t, cut)
  PROVE  /\ Tidy(t[Cardinality(S)])
         /\ \A b \in Int : Covers(t[Cardinality(S)], b) <=> \E r \in S : InRange(b, <<r[1], cut[r]>>)
         /\ \A low, high \in Int : (\A r \in S : r[1] < cut[r] => low <= r[1] /\ cut[r] <= high)
                                     => LiesIn(t[Cardinality(S)], low, high)
<1> DEFINE n == Cardinality(S)
           a == Ascending(S)
           Holds(k) ==
             /\ Tidy(t[k]) /\ (k # 0 => StartsBy(t[k], a[k][1]))
             /\ \A b \in Int : Covers(t[k], b) <=> \E i \in 1 .. k : InRange(b, <<a[i][1], cut[a[i]]>>)
             /\ \A low, high \in Int : (\A r \in S : r[1] < cut[r] => low <= r[1] /\ cut[r] <= high)
                                         => LiesIn(t[k], low, high)
           B == {k \in 0 .. n : Holds(k)}
<1>1. /\ n \in Nat /\ \A i \in 1 .. n : a[i] \in S
      /\ \A r \in S : \E i \in 1 .. n : a[i] = r
      /\ \A i, j \in 1 .. n : i < j => a[i][1] <= a[j][1]
  <2>1. a \in Seq(S) /\ Len(a) = n /\ n \in Nat
    BY AscendingIs
  <2>2. \A i \in 1 .. n : a[i] \in S
    <3> HIDE DEF a, n
    <3> QED
      BY <2>1
  <2> QED
    BY <2>1, <2>2, AscendingIs
<1>2. t[0] = <<>> /\ \A k \in 1 .. n : t[k] = IF a[k][1] >= cut[a[k]] THEN t[k - 1]
                                               ELSE JoinRange(t[k - 1], <<a[k][1], cut[a[k]]>>)
  BY DEF Merging
<1>3. \A i \in 1 .. n : a[i][1] \in Int /\ cut[a[i]] \in Int
  BY <1>1
<1> HIDE DEF n, a
<1>4. 0 \in B
  <2>1. 0 \in 0 .. n /\ 1 .. 0 = {}
    BY <1>1
  <2>2. Tidy(t[0]) /\ \A b \in Int : ~Covers(t[0], b)
    BY <1>2, NoRanges
  <2>3. \A low, high : LiesIn(t[0], low, high)
    BY <1>2, NoRanges
  <2>4. \A b \in Int : ~ \E i \in 1 .. 0 : InRange(b, <<a[i][1], cut[a[i]]>>)
    BY <2>1
  <2>5. Holds(0)
    BY <2>2, <2>3, <2>4
  <2> QED
    BY <2>1, <2>5
<1>5. ASSUME NEW k \in 1 .. n, k - 1 \in B PROVE k \in B
  <2> DEFINE r == <<a[k][1], cut[a[k]]>>
  <2>1. k \in 0 .. n /\ k - 1 \in 0 .. n /\ k # 0 /\ Holds(k - 1)
    BY <1>1, <1>5
  <2>2. r \in Int \X Int /\ r[1] = a[k][1] /\ r[2] = cut[a[k]]
    BY <1>3
  <2>3. StartsBy(t[k - 1], r[1])
    <3>1. CASE k - 1 = 0
      BY <1>2, <3>1, NoRanges
    <3>2. CASE k - 1 # 0
      <4>1. k - 1 \in 1 .. n /\ k - 1 < k
        BY <1>1, <3>2
      <4>2. a[k - 1][1] <= a[k][1] /\ a[k - 1][1] \in Int
        BY <1>1, <1>3, <4>1
      <4>3. StartsBy(t[k - 1], a[k - 1][1]) /\ Tidy(t[k - 1])
        BY <2>1, <3>2
      <4>4. \A i \in DOMAIN t[k - 1] : t[k - 1][i][1] \in Int
        BY <4>3 DEF Tidy
      <4> QED
        BY <2>2, <4>2, <4>3, <4>4 DEF StartsBy
    <3> QED
      BY <3>1, <3>2
  <2>4. \A b : (\E i \in 1 .. k : InRange(b, <<a[i][1], cut[a[i]]>>))
                 <=> (\E i \in 1 .. k - 1 : InRange(b, <<a[i][1], cut[a[i]]>>)) \/ InRange(b, r)
    <3>1. \A i : i \in 1 .. k <=> i \in 1 .. k - 1 \/ i = k
      OBVIOUS
    <3> QED
      BY <3>1
  <2>5. CASE a[k][1] >= cut[a[k]]
    <3>1. t[k] = t[k - 1]
      BY <1>2, <2>5
    <3>2. \A b \in Int : ~InRange(b, r)
      BY <2>2, <2>5 DEF InRange
    <3> HIDE DEF r
    <3>3. Holds(k)
      BY <2>1, <2>2, <2>3, <2>4, <3>1, <3>2
    <3> QED
      BY <2>1, <3>3
  <2>6. CASE ~(a[k][1] >= cut[a[k]])
    <3>1. t[k] = JoinRange(t[k - 1], r) /\ r[1] < r[2] /\ Tidy(t[k - 1])
      BY <1>2, <1>3, <2>1, <2>6
    <3> HIDE DEF r
    <3>2. /\ Tidy(t[k]) /\ StartsBy(t[k], r[1])
          /\ \A b \in Int : Covers(t[k], b) <=> Covers(t[k - 1], b) \/ InRange(b, r)
      BY <2>2, <2>3, <3>1, RangeJoins
    <3>3. \A low, high \in Int : LiesIn(t[k - 1], low, high) /\ low <= r[1] /\ r[2] <= high
                                   => LiesIn(t[k], low, high)
      BY <2>2, <2>3, <3>1, RangeJoins
    <3>4. ASSUME NEW low \in Int, NEW high \in Int,
                 \A q \in S : q[1] < cut[q] => low <= q[1] /\ cut[q] <= high
          PROVE  LiesIn(t[k], low, high)
      <4>1. LiesIn(t[k - 1], low, high)
        BY <2>1, <3>4
      <4>2. low <= r[1] /\ r[2] <= high
        BY <1>1, <2>2, <3>1, <3>4
      <4> QED
        BY <3>3, <4>1, <4>2
    <3>5. \A b \in Int : Covers(t[k], b) <=> \E i \in 1 .. k : InRange(b, <<a[i][1], cut[a[i]]>>)
      BY <2>1, <2>4, <3>2
    <3>6. Holds(k)
      BY <2>2, <3>2, <3>4, <3>5
    <3> QED
      BY <2>1, <3>6
  <2> QED
    BY <2>5, <2>6
<1>6. Holds(n)
  <2>1. \A k \in 0 .. n : k \in B
    <3> HIDE DEF B
    <3> QED
      BY <1>1, <1>4, <1>5, Upwards
  <2>2. n \in 0 .. n
    BY <1>1
  <2> QED
    BY <2>1, <2>2
<1>7. \A b \in Int : Covers(t[n], b) <=> \E r \in S : InRange(b, <<r[1], cut[r]>>)
  <2> SUFFICES ASSUME NEW b \in Int
               PROVE  (\E i \in 1 .. n : InRange(b, <<a[i][1], cut[a[i]]>>)) <=> \E r \in S : InRange(b, <<r[1], cut[r]>>)
    BY <1>6
  <2> QED
    BY <1>1
<1> QED
  BY <1>6, <1>7 DEF n

\* The union of nonempty ranges.
LEMMA UnionIs ==
  ASSUME NEW S \in SUBSET (Int \X Int), IsFiniteSet(S), \A r \in S : r[1] < r[2]
  PROVE  LET u == FoldLeft(JoinRange, <<>>, Ascending(S))
         IN /\ Tidy(u)
            /\ \A b \in Int : Covers(u, b) <=> \E r \in S : InRange(b, r)
            /\ \A low, high \in Int : (\A r \in S : low <= r[1] /\ r[2] <= high) => LiesIn(u, low, high)
<1> DEFINE seq == Ascending(S)
           D == DOMAIN seq
           n == Cardinality(S)
           V == Seq(Int \X Int)
           step == [z \in D \X V |-> JoinRange(z[2], seq[z[1]])]
           Folding(f) == f = [s \in SUBSET D |-> IF s = {} THEN <<>>
                                                 ELSE JoinRange(f[s \ {Max(s)}], seq[Max(s)])]
           g == CHOOSE f : Folding(f)
<1>1. FoldLeft(JoinRange, <<>>, seq) = g[D]
  BY DEF FoldLeft, MapThenFoldSet
<1>2. n \in Nat /\ D = 1 .. n /\ \A k \in D : seq[k] \in S /\ seq[k] \in Int \X Int
  <2>1. seq \in Seq(S) /\ Len(seq) = n /\ n \in Nat
    BY AscendingIs
  <2> HIDE DEF seq, n
  <2> QED
    BY <2>1
<1>3. <<>> \in V
  OBVIOUS
<1>4. \A k \in D, m \in V : step[<<k, m>>] = JoinRange(m, seq[k]) /\ JoinRange(m, seq[k]) \in V
  BY <1>2, JoinTyped
<1>5. step \in [D \X V -> V]
  <2>1. step = [z \in D \X V |-> step[z]]
    OBVIOUS
  <2>2. \A z \in D \X V : z = <<z[1], z[2]>> /\ z[1] \in D /\ z[2] \in V
    OBVIOUS
  <2> HIDE DEF step, D, V
  <2> QED
    BY <1>4, <2>1, <2>2
<1> HIDE DEF step
<1>6. PICK f \in [SUBSET D -> V] : RunsBy(f, D, V, <<>>, step)
  <2> HIDE DEF D, V
  <2> QED
    BY <1>2, <1>3, <1>5, RunExists
<1>7. Folding(f)
  <2>1. ASSUME NEW s \in SUBSET D
        PROVE  f[s] = IF s = {} THEN <<>> ELSE JoinRange(f[s \ {Max(s)}], seq[Max(s)])
    <3>1. s # {} => Max(s) \in D /\ s \ {Max(s)} \in SUBSET D
      <4> HIDE DEF D
      <4> QED
        BY <1>2, MaxIs
    <3>2. s # {} => f[s \ {Max(s)}] \in V
      BY <3>1
    <3> HIDE DEF D, V, seq
    <3> QED
      BY <1>4, <1>6, <2>1, <3>1, <3>2 DEF RunsBy
  <2>2. f = [s \in SUBSET D |-> f[s]]
    OBVIOUS
  <2> QED
    BY <2>1, <2>2
<1>8. Folding(g)
  <2> HIDE DEF Folding
  <2> QED
    BY <1>7
<1>9. RunsBy(g, D, V, <<>>, step)
  <2>1. \A s \in SUBSET D : g[s] = IF s = {} THEN <<>> ELSE JoinRange(g[s \ {Max(s)}], seq[Max(s)])
    <3> HIDE DEF g
    <3> QED
      BY <1>8
  <2>2. \A s \in SUBSET D : s # {} => Max(s) \in D
    <3> HIDE DEF D
    <3> QED
      BY <1>2, MaxIs
  <2> HIDE DEF g, D, V, seq, Folding
  <2> QED
    BY <1>4, <2>1, <2>2 DEF RunsBy
<1>10. PICK t \in [0 .. n -> V] :
         t[0] = <<>> /\ (\A k \in 1 .. n : t[k] = step[<<k, t[k - 1]>>]) /\ t[n] = g[D]
  <2>1. n \in Nat /\ D = 1 .. n
    BY <1>2
  <2> HIDE DEF g, D, V, n, seq, Folding
  <2>2. Runs(g, n, D, V, <<>>, step)
    <3> HIDE DEF step
    <3> QED
      BY <1>3, <1>5, <1>9, <2>1, RunIs
  <2> QED
    BY <2>2 DEF Runs
<1> DEFINE cut == [r \in S |-> r[2]]
<1>11. Merging(S, t, cut)
  <2>1. ASSUME NEW k \in 1 .. n
        PROVE  t[k] = IF seq[k][1] >= cut[seq[k]] THEN t[k - 1] ELSE JoinRange(t[k - 1], <<seq[k][1], cut[seq[k]]>>)
    <3>1. k \in D /\ k - 1 \in 0 .. n /\ t[k - 1] \in V
      <4> HIDE DEF D, V, n
      <4> QED
        BY <1>2
    <3>2. t[k] = JoinRange(t[k - 1], seq[k])
      <4> HIDE DEF seq, D, V, n
      <4> QED
        BY <1>4, <1>10, <3>1
    <3>3. seq[k] \in S /\ seq[k] = <<seq[k][1], seq[k][2]>> /\ seq[k][1] < seq[k][2]
          /\ seq[k][1] \in Int /\ seq[k][2] \in Int
      <4> HIDE DEF seq, D
      <4> QED
        BY <1>2, <3>1
    <3>4. cut[seq[k]] = seq[k][2]
      BY <3>3
    <3> HIDE DEF cut, seq, D, V, n
    <3>5. ~(seq[k][1] >= cut[seq[k]]) /\ <<seq[k][1], cut[seq[k]]>> = seq[k]
      BY <3>3, <3>4
    <3> QED
      BY <3>2, <3>5
  <2> QED
    BY <1>10, <2>1 DEF Merging
<1>12. cut \in [S -> Int] /\ \A r \in S : cut[r] = r[2] /\ <<r[1], cut[r]>> = r
  OBVIOUS
<1> HIDE DEF cut
<1>13. /\ Tidy(t[n])
       /\ \A b \in Int : Covers(t[n], b) <=> \E r \in S : InRange(b, <<r[1], cut[r]>>)
       /\ \A low, high \in Int : (\A r \in S : r[1] < cut[r] => low <= r[1] /\ cut[r] <= high)
                                   => LiesIn(t[n], low, high)
  BY <1>11, <1>12, MergedIs
<1> HIDE DEF g, D, V, n
<1>14. \A b \in Int : Covers(t[n], b) <=> \E r \in S : InRange(b, r)
  BY <1>12, <1>13
<1>15. \A low, high \in Int : (\A r \in S : low <= r[1] /\ r[2] <= high) => LiesIn(t[n], low, high)
  BY <1>12, <1>13
<1> HIDE DEF seq
<1> QED
  BY <1>1, <1>10, <1>13, <1>14, <1>15 DEF seq


\* Between tidy ranges lies exactly what none of them covers.
LEMMA GapsAre ==
  ASSUME NEW m, Tidy(m), NEW total \in Nat, LiesIn(m, 0, total), NEW b \in 0 .. total - 1,
         NEW from, NEW to,
         from = [i \in 0 .. Len(m) |-> IF i = 0 THEN 0 ELSE m[i][2]],
         to = [i \in 0 .. Len(m) |-> IF i = Len(m) THEN total ELSE m[i + 1][1]]
  PROVE  (\E i \in 0 .. Len(m) : InRange(b, <<from[i], to[i]>>)) <=> ~Covers(m, b)
<1> DEFINE n == Len(m)
<1>1. n \in Nat /\ DOMAIN m = 1 .. n
  BY DEF Tidy
<1>2. /\ \A i \in 1 .. n : m[i][1] \in Int /\ m[i][2] \in Int /\ m[i][1] < m[i][2]
      /\ \A i, j \in 1 .. n : i < j => m[i][2] < m[j][1]
  <2>1. \A i \in 1 .. n : m[i] \in Int \X Int
    <3>1. m \in Seq(Int \X Int)
      BY DEF Tidy
    <3> QED
      BY <3>1
  <2> QED
    BY <1>1, <2>1 DEF Tidy
<1>3. /\ \A i \in 0 .. n : from[i] = (IF i = 0 THEN 0 ELSE m[i][2]) /\ to[i] = (IF i = n THEN total ELSE m[i + 1][1])
      /\ \A i \in 0 .. n : from[i] \in Int /\ to[i] \in Int
  <2>1. \A i \in 0 .. n : from[i] = (IF i = 0 THEN 0 ELSE m[i][2]) /\ to[i] = (IF i = n THEN total ELSE m[i + 1][1])
    OBVIOUS
  <2> HIDE DEF n
  <2>2. \A i \in 0 .. n : (i # 0 => i \in 1 .. n) /\ (i # n => i + 1 \in 1 .. n)
    BY <1>1
  <2>3. ASSUME NEW i \in 0 .. n PROVE from[i] \in Int
    <3>1. CASE i = 0
      <4>1. from[i] = 0
        BY <2>1, <3>1
      <4> QED
        BY <4>1
    <3>2. CASE i # 0
      <4>1. from[i] = m[i][2]
        BY <2>1, <3>2
      <4> QED
        BY <1>2, <2>2, <3>2, <4>1
    <3> QED
      BY <3>1, <3>2
  <2>4. ASSUME NEW i \in 0 .. n PROVE to[i] \in Int
    <3>1. CASE i = n
      <4>1. to[i] = total
        BY <2>1, <3>1
      <4> QED
        BY <4>1
    <3>2. CASE i # n
      <4>1. to[i] = m[i + 1][1]
        BY <2>1, <3>2
      <4> QED
        BY <1>2, <2>2, <3>2, <4>1
    <3> QED
      BY <3>1, <3>2
  <2> QED
    BY <2>1, <2>3, <2>4
<1>8. /\ \A i \in 1 .. n : from[i] = m[i][2] /\ i - 1 \in 0 .. n /\ i \in 0 .. n /\ to[i - 1] = m[i][1]
      /\ 0 \in 0 .. n /\ from[0] = 0 /\ n \in 0 .. n /\ to[n] = total
  <2> HIDE DEF n
  <2>1. 0 \in 0 .. n /\ n \in 0 .. n
    BY <1>1
  <2>2. from[0] = 0 /\ to[n] = total
    BY <1>3, <2>1
  <2>3. ASSUME NEW i \in 1 .. n PROVE from[i] = m[i][2] /\ i - 1 \in 0 .. n /\ i \in 0 .. n /\ to[i - 1] = m[i][1]
    <3>1. i # 0 /\ i \in 0 .. n /\ i - 1 \in 0 .. n /\ i - 1 # n /\ i - 1 + 1 = i
      BY <1>1
    <3> QED
      BY <1>3, <3>1
  <2> QED
    BY <2>1, <2>2, <2>3
<1>4. b \in Int /\ 0 <= b /\ b < total
  OBVIOUS
<1>5. Covers(m, b) <=> \E i \in 1 .. n : InRange(b, m[i])
  BY <1>1 DEF Covers
<1> HIDE DEF n
<1>6. ASSUME NEW i \in 0 .. n, InRange(b, <<from[i], to[i]>>), NEW j \in 1 .. n, InRange(b, m[j]) PROVE FALSE
  <2>1. from[i] <= b /\ b < to[i] /\ m[j][1] <= b /\ b < m[j][2]
    BY <1>6 DEF InRange
  <2>4. m[j][1] \in Int /\ m[j][2] \in Int /\ from[i] \in Int /\ to[i] \in Int /\ i \in Int /\ j \in Int
    BY <1>1, <1>2, <1>3
  <2>2. CASE j <= i
    <3>1. i \in 1 .. n /\ (j = i \/ j < i)
      BY <1>1, <2>2
    <3>2. m[i][1] \in Int /\ m[i][2] \in Int /\ m[i][1] < m[i][2] /\ from[i] = m[i][2]
      BY <1>2, <1>8, <3>1
    <3>3. j < i => m[j][2] < m[i][1]
      BY <1>2, <3>1
    <3> QED
      BY SMTT(30), <1>4, <2>1, <2>4, <3>1, <3>2, <3>3
  <2>3. CASE i < j
    <3> DEFINE k == i + 1
    <3>1. k \in 1 .. n /\ k - 1 = i /\ (j = k \/ k < j)
      BY <1>1, <2>3
    <3> HIDE DEF k
    <3>2. m[k][1] \in Int /\ m[k][2] \in Int /\ m[k][1] < m[k][2] /\ to[i] = m[k][1]
      BY <1>2, <1>8, <3>1
    <3>3. k < j => m[k][2] < m[j][1]
      BY <1>2, <3>1
    <3> QED
      BY SMTT(30), <1>4, <2>1, <2>4, <3>1, <3>2, <3>3
  <2> QED
    BY <2>2, <2>3, <2>4
<1>7. ASSUME \A j \in 1 .. n : ~InRange(b, m[j]), \A i \in 0 .. n : ~InRange(b, <<from[i], to[i]>>) PROVE FALSE
  <2> DEFINE B == {k \in 0 .. n : from[k] <= b}
  <2>1. 0 \in B
    BY <1>4, <1>8
  <2>2. ASSUME NEW k \in 1 .. n, k - 1 \in B PROVE k \in B
    <3>1. from[k - 1] <= b /\ from[k] = m[k][2] /\ to[k - 1] = m[k][1] /\ k \in 0 .. n /\ k - 1 \in 0 .. n
      BY <1>8, <2>2
    <3>2. ~(b < to[k - 1]) /\ ~(m[k][1] <= b /\ b < m[k][2])
      BY <1>7, <3>1 DEF InRange
    <3>3. m[k][1] \in Int /\ m[k][2] \in Int
      BY <1>2
    <3>4. from[k] <= b
      BY <1>4, <3>1, <3>2, <3>3
    <3> QED
      BY <3>1, <3>4
  <2>3. \A k \in 0 .. n : k \in B
    <3> HIDE DEF B
    <3> QED
      BY <1>1, <2>1, <2>2, Upwards
  <2>4. n \in 0 .. n /\ from[n] <= b /\ to[n] = total
    BY <1>8, <2>3
  <2> QED
    BY <1>4, <1>7, <2>4 DEF InRange
<1> QED
  BY <1>5, <1>6, <1>7 DEF n
=============================================================================
