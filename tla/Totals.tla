------------------------------- MODULE Totals -------------------------------
(***************************************************************************)
(* What the accounts of a table hold together, the order in which a loop   *)
(* takes them, and what is proved of both: a loop of the code is a fold    *)
(* over a list or a set, and what it computes follows by induction over    *)
(* finite sets.                                                            *)
(***************************************************************************)
EXTENDS Integers, FiniteSetsExt, SequencesExt, FiniteSetTheorems, SequenceTheorems, TLAPS

Total(f) == MapThenSumSet(LAMBDA x : f[x], DOMAIN f)

\* The numbers of S, from the least on.
InOrder(S) ==
  [i \in 1..Cardinality(S) |-> CHOOSE x \in S : Cardinality({y \in S : y < x}) = i - 1]

-----------------------------------------------------------------------------
(* Folds and sums *)

\* What holds of a set when it holds of its proper subsets holds of every
\* finite set: the well-foundedness of the library, with a set for a predicate.
LEMMA SubsetInduction ==
  ASSUME NEW S, IsFiniteSet(S), NEW G,
         \A T \in SUBSET S : (\A U \in SUBSET T : U # T => U \in G) => T \in G
  PROVE  \A T \in SUBSET S : T \in G
<1> DEFINE Bad == {T \in SUBSET S : T \notin G}
<1>1. Bad \subseteq FiniteSubsetsOf(S)
  BY FS_FiniteSubsetsOfFinite
<1>2. SUFFICES ASSUME Bad # {} PROVE FALSE
  OBVIOUS
<1>3. PICK T \in Bad : \A U \in Bad : <<U, T>> \notin StrictSubsetOrdering(S)
  <2>1. IsWellFoundedOn(StrictSubsetOrdering(S), FiniteSubsetsOf(S))
    BY FS_StrictSubsetOrderingWellFounded
  <2> HIDE DEF Bad
  <2>2. QED
    BY <1>1, <1>2, <2>1, WFMin
<1>4. ASSUME NEW U \in SUBSET T, U # T PROVE U \in G
  <2>1. <<U, T>> \in StrictSubsetOrdering(S)
    BY <1>4 DEF StrictSubsetOrdering
  <2>2. QED
    BY <1>3, <2>1
<1>5. QED
  BY <1>4

\* g is the fold of the subsets of T: that of a set is one step from that of
\* the set without the element that is picked first.
Folds(g, T, pick, base, step) ==
  g = [s \in SUBSET T |-> IF s = {} THEN base ELSE step[<<pick[s], g[s \ {pick[s]}]>>]]

\* Two folds by the same steps agree where both are defined.
LEMMA FoldsAgree ==
  ASSUME NEW S, IsFiniteSet(S), NEW pick, \A s \in SUBSET S : s # {} => pick[s] \in s,
         NEW base, NEW step, NEW T \in SUBSET S, NEW U \in SUBSET S, NEW g, NEW h,
         Folds(g, T, pick, base, step), Folds(h, U, pick, base, step)
  PROVE  \A s \in SUBSET (T \cap U) : g[s] = h[s]
<1>1. PICK I : I = T \cap U
  OBVIOUS
<1> DEFINE G == {s \in SUBSET I : g[s] = h[s]}
<1>2. ASSUME NEW s \in SUBSET I, \A u \in SUBSET s : u # s => u \in G
      PROVE  s \in G
  <2>1. g[s] = (IF s = {} THEN base ELSE step[<<pick[s], g[s \ {pick[s]}]>>])
    BY <1>1 DEF Folds
  <2>2. h[s] = (IF s = {} THEN base ELSE step[<<pick[s], h[s \ {pick[s]}]>>])
    BY <1>1 DEF Folds
  <2>3. s # {} => s \ {pick[s]} \in G
    BY <1>1, <1>2
  <2>4. QED
    BY <2>1, <2>2, <2>3
<1>3. \A s \in SUBSET I : s \in G
  <2>1. IsFiniteSet(I)
    BY <1>1, FS_Subset
  <2> HIDE DEF G
  <2>2. QED
    BY <1>2, <2>1, SubsetInduction
<1>4. QED
  BY <1>1, <1>3

\* A fold exists for every finite set.
LEMMA FoldExists ==
  ASSUME NEW S, IsFiniteSet(S), NEW pick, \A s \in SUBSET S : s # {} => pick[s] \in s,
         NEW V, NEW base \in V, NEW step \in [S \X V -> V]
  PROVE  \E g \in [SUBSET S -> V] : Folds(g, S, pick, base, step)
<1> DEFINE Good(T, g) == g \in [SUBSET T -> V] /\ Folds(g, T, pick, base, step)
           G == {T \in SUBSET S : \E g : Good(T, g)}
<1>1. ASSUME NEW T \in SUBSET S, \A U \in SUBSET T : U # T => U \in G
      PROVE  T \in G
  <2> DEFINE Below == {U \in SUBSET T : U # T}
  <2>1. PICK fold : \A U \in Below : Good(U, fold[U])
    <3> DEFINE fold == [U \in Below |-> CHOOSE g : Good(U, g)]
    <3>1. \A U \in Below : \E g : Good(U, g)
      BY <1>1
    <3> HIDE DEF Good
    <3>2. \A U \in Below : Good(U, fold[U])
      BY <3>1
    <3>3. QED
      BY <3>2
  <2>2. PICK g : g = [s \in SUBSET T |-> IF s = {} THEN base
                       ELSE step[<<pick[s], fold[s \ {pick[s]}][s \ {pick[s]}]>>]]
    OBVIOUS
  <2>3. ASSUME NEW s \in SUBSET T, s # {}
        PROVE  /\ pick[s] \in S
               /\ s \ {pick[s]} \in Below /\ s \ {pick[s]} # s
               /\ fold[s \ {pick[s]}][s \ {pick[s]}] \in V
    <3>1. pick[s] \in s
      BY <2>3
    <3>2. s \ {pick[s]} \in Below
      BY <3>1
    <3>3. fold[s \ {pick[s]}] \in [SUBSET (s \ {pick[s]}) -> V]
      BY <2>1, <3>2
    <3>4. QED
      BY <3>1, <3>2, <3>3
  <2>4. g \in [SUBSET T -> V]
    BY <2>2, <2>3
  <2>5. ASSUME NEW u \in Below PROVE g[u] = fold[u][u]
    <3>1. Folds(fold[u], u, pick, base, step)
      BY <2>1
    <3>2. CASE u = {}
      BY <2>2, <3>1, <3>2 DEF Folds
    <3>3. CASE u # {}
      <4>1. PICK r : r = u \ {pick[u]}
        OBVIOUS
      <4>2. r \in Below /\ r \in SUBSET (u \cap r)
        BY <2>3, <3>3, <4>1
      <4>3. Folds(fold[r], r, pick, base, step)
        BY <2>1, <4>2
      <4>4. fold[u][r] = fold[r][r]
        <5>1. u \in SUBSET S /\ r \in SUBSET S
          BY <4>2
        <5>2. \A s \in SUBSET (u \cap r) : fold[u][s] = fold[r][s]
          BY <3>1, <4>3, <5>1, FoldsAgree
        <5>3. QED
          BY <4>2, <5>2
      <4>5. fold[u][u] = step[<<pick[u], fold[u][r]>>]
        BY <3>1, <3>3, <4>1 DEF Folds
      <4>6. QED
        BY <2>2, <3>3, <4>1, <4>4, <4>5
    <3>4. QED
      BY <3>2, <3>3
  <2>6. Folds(g, T, pick, base, step)
    BY <2>2, <2>3, <2>5 DEF Folds
  <2>7. QED
    BY <2>4, <2>6
<1>2. \A T \in SUBSET S : T \in G
  <2> HIDE DEF G
  <2> QED
    BY <1>1, SubsetInduction
<1>3. QED
  BY <1>2
-----------------------------------------------------------------------------
Only(f, s) == [x \in s |-> f[x]]
Picked(S) == [s \in SUBSET S |-> CHOOSE x \in s : TRUE]
Plus(f, S) == [p \in S \X Int |-> f[p[1]] + p[2]]

\* How a total is made up.
LEMMA TotalUnfolds ==
  ASSUME NEW S, IsFiniteSet(S), NEW f \in [S -> Int]
  PROVE  \E g \in [SUBSET S -> Int] :
           /\ Folds(g, S, Picked(S), 0, Plus(f, S))
           /\ \A s \in SUBSET S : Total(Only(f, s)) = g[s]
           /\ Total(Only(f, S)) \in Int
<1>1. \A s \in SUBSET S : s # {} => Picked(S)[s] \in s
  BY DEF Picked
<1>2. Plus(f, S) \in [S \X Int -> Int]
  BY DEF Plus
<1>3. PICK pick : pick = Picked(S)
  OBVIOUS
<1>4. PICK plus : plus = Plus(f, S)
  OBVIOUS
<1>5. PICK g \in [SUBSET S -> Int] : Folds(g, S, pick, 0, plus)
  <2>1. \A s \in SUBSET S : s # {} => pick[s] \in s
    BY <1>1, <1>3
  <2>2. plus \in [S \X Int -> Int]
    BY <1>2, <1>4
  <2>3. PICK V : V = Int
    OBVIOUS
  <2>4. PICK zero \in V : zero = 0
    BY <2>3
  <2>5. plus \in [S \X V -> V]
    BY <2>2, <2>3
  <2>6. \E g \in [SUBSET S -> V] : Folds(g, S, pick, zero, plus)
    BY <2>1, <2>5, FoldExists
  <2>7. QED
    BY <2>3, <2>4, <2>6
<1>6. ASSUME NEW s \in SUBSET S PROVE Total(Only(f, s)) = g[s]
  <2>1. PICK w : w = Only(f, s)
    OBVIOUS
  <2>2. DOMAIN w = s /\ \A x \in s : w[x] = f[x]
    BY <2>1 DEF Only
  <2> DEFINE Iter(h) == h = [t \in SUBSET DOMAIN w |-> IF t = {} THEN 0
                               ELSE w[CHOOSE x \in t : TRUE] + h[t \ {CHOOSE x \in t : TRUE}]]
  <2>3. PICK h : h = [t \in SUBSET DOMAIN w |-> g[t]]
    OBVIOUS
  <2>4. Iter(h)
    <3>1. ASSUME NEW t \in SUBSET s, t # {}
          PROVE g[t] = w[CHOOSE x \in t : TRUE] + g[t \ {CHOOSE x \in t : TRUE}]
      <4>1. pick[t] = (CHOOSE x \in t : TRUE) /\ pick[t] \in t
        BY <1>1, <1>3, <3>1 DEF Picked
      <4>2. plus[<<pick[t], g[t \ {pick[t]}]>>] = w[pick[t]] + g[t \ {pick[t]}]
        BY <1>4, <2>2, <4>1 DEF Plus
      <4>3. QED
        BY <1>5, <3>1, <4>1, <4>2 DEF Folds
    <3>2. g[{}] = 0
      BY <1>5 DEF Folds
    <3>3. ASSUME NEW t \in SUBSET DOMAIN w
          PROVE  g[t] = IF t = {} THEN 0
                        ELSE w[CHOOSE x \in t : TRUE] + h[t \ {CHOOSE x \in t : TRUE}]
      BY <2>2, <2>3, <3>1, <3>2
    <3>4. QED
      BY <2>3, <3>3
  <2>5. PICK it : it = CHOOSE i : Iter(i)
    OBVIOUS
  <2>6. Iter(it)
    <3> HIDE DEF Iter
    <3> QED
      BY <2>4, <2>5
  <2>7. Total(w) = it[s]
    BY <2>2, <2>5 DEF Total, MapThenSumSet, MapThenFoldSet
  <2> DEFINE G == {t \in SUBSET s : it[t] = g[t]}
  <2>8. ASSUME NEW t \in SUBSET s, \A u \in SUBSET t : u # t => u \in G
        PROVE  t \in G
    <3>1. PICK r : r = CHOOSE x \in t : TRUE
      OBVIOUS
    <3>2. it[t] = IF t = {} THEN 0 ELSE w[r] + it[t \ {r}]
      BY <2>2, <2>6, <3>1
    <3>3. h[t] = IF t = {} THEN 0 ELSE w[r] + h[t \ {r}]
      BY <2>2, <2>4, <3>1
    <3>4. t # {} => t \ {r} \in G
      BY <2>8, <3>1
    <3>5. QED
      BY <2>2, <2>3, <3>2, <3>3, <3>4
  <2>9. s \in G
    <3>1. IsFiniteSet(s)
      BY FS_Subset
    <3> HIDE DEF G
    <3> QED
      BY <2>8, <3>1, SubsetInduction
  <2>10. QED
    BY <2>1, <2>7, <2>9
<1>7. QED
  BY <1>3, <1>4, <1>5, <1>6

\* A total of whole amounts is one.
LEMMA TotalInt ==
  ASSUME NEW S, IsFiniteSet(S), NEW f \in [S -> Int]
  PROVE  Total(f) \in Int
<1>1. Only(f, S) = f
  BY DEF Only
<1>2. QED
  BY <1>1, TotalUnfolds

\* Nobody has nothing.
LEMMA TotalEmpty ==
  ASSUME NEW f \in [{} -> Int]
  PROVE  Total(f) = 0
<1>1. Only(f, {}) = f
  BY DEF Only
<1>2. IsFiniteSet({})
  BY FS_EmptySet
<1>3. PICK g \in [SUBSET {} -> Int] :
        /\ Folds(g, {}, Picked({}), 0, Plus(f, {}))
        /\ \A s \in SUBSET {} : Total(Only(f, s)) = g[s]
        /\ Total(Only(f, {})) \in Int
  BY <1>2, TotalUnfolds
<1>4. Total(Only(f, {})) = g[{}] /\ g[{}] = 0
  BY <1>3 DEF Folds
<1>5. QED
  BY <1>1, <1>4

\* Any account may be counted last.
LEMMA TotalWithout ==
  ASSUME NEW S, IsFiniteSet(S), NEW f \in [S -> Int], NEW x \in S
  PROVE  Total(f) = f[x] + Total(Only(f, S \ {x}))
<1>1. PICK g \in [SUBSET S -> Int] :
           /\ Folds(g, S, Picked(S), 0, Plus(f, S))
           /\ \A s \in SUBSET S : Total(Only(f, s)) = g[s]
           /\ Total(Only(f, S)) \in Int
  BY TotalUnfolds
<1>2. PICK pick : pick = Picked(S)
  OBVIOUS
<1>3. ASSUME NEW s \in SUBSET S, s # {}
      PROVE  pick[s] \in s /\ g[s] = f[pick[s]] + g[s \ {pick[s]}]
  <2>1. pick[s] \in s
    BY <1>2, <1>3 DEF Picked
  <2>2. g[s] = Plus(f, S)[<<pick[s], g[s \ {pick[s]}]>>]
    BY <1>1, <1>2, <1>3 DEF Folds
  <2>3. QED
    BY <2>1, <2>2 DEF Plus
<1> DEFINE G == {s \in SUBSET S : \A y \in s : g[s] = f[y] + g[s \ {y}]}
<1>4. ASSUME NEW s \in SUBSET S, \A u \in SUBSET s : u # s => u \in G
      PROVE  s \in G
  <2> SUFFICES ASSUME NEW y \in s PROVE g[s] = f[y] + g[s \ {y}]
    OBVIOUS
  <2>1. PICK r : r = pick[s]
    OBVIOUS
  <2>2. r \in s /\ g[s] = f[r] + g[s \ {r}]
    BY <1>3, <2>1
  <2>3. CASE r = y
    BY <2>2, <2>3
  <2>4. CASE r # y
    <3>1. g[s \ {r}] = f[y] + g[(s \ {r}) \ {y}]
      BY <1>4, <2>2, <2>4
    <3>2. g[s \ {y}] = f[r] + g[(s \ {y}) \ {r}]
      BY <1>4, <2>2, <2>4
    <3>3. (s \ {r}) \ {y} = (s \ {y}) \ {r}
      OBVIOUS
    <3>4. PICK u : u = (s \ {y}) \ {r}
      OBVIOUS
    <3>5. g[u] \in Int /\ f[y] \in Int /\ f[r] \in Int
      BY <2>2, <3>4
    <3>6. g[s] = f[r] + (f[y] + g[u])
      BY <2>2, <3>1, <3>4, <3>3
    <3>7. g[s \ {y}] = f[r] + g[u]
      BY <3>2, <3>4
    <3>8. QED
      BY <3>5, <3>6, <3>7
  <2>5. QED
    BY <2>3, <2>4
<1>5. S \in G
  <2> HIDE DEF G
  <2> QED
    BY <1>4, SubsetInduction
<1>6. Only(f, S) = f
  BY DEF Only
<1>7. QED
  BY <1>1, <1>5, <1>6

\* One account changes.
LEMMA TotalUpdated ==
  ASSUME NEW S, IsFiniteSet(S), NEW f \in [S -> Int], NEW g \in [S -> Int], NEW x \in S,
         \A y \in S \ {x} : g[y] = f[y]
  PROVE  Total(g) = Total(f) + g[x] - f[x]
<1>1. Only(f, S \ {x}) = Only(g, S \ {x})
  BY DEF Only
<1>2. Total(f) = f[x] + Total(Only(f, S \ {x})) /\ Total(g) = g[x] + Total(Only(g, S \ {x}))
  BY TotalWithout
<1>3. Total(Only(f, S \ {x})) \in Int
  <2>1. Only(f, S \ {x}) \in [S \ {x} -> Int]
    BY DEF Only
  <2>2. IsFiniteSet(S \ {x})
    BY FS_Subset
  <2>3. QED
    BY <2>1, <2>2, TotalInt
<1>4. QED
  BY <1>1, <1>2, <1>3

\* A total may be taken in two parts.
LEMMA TotalSplit ==
  ASSUME NEW S, IsFiniteSet(S), NEW f \in [S -> Int], NEW B \in SUBSET S
  PROVE  Total(f) = Total(Only(f, B)) + Total(Only(f, S \ B))
<1> DEFINE G == {T \in SUBSET B : Total(f) = Total(Only(f, T)) + Total(Only(f, S \ T))}
<1>1. ASSUME NEW T \in SUBSET S
      PROVE  IsFiniteSet(T) /\ Only(f, T) \in [T -> Int] /\ Total(Only(f, T)) \in Int
  <2>1. IsFiniteSet(T) /\ Only(f, T) \in [T -> Int]
    BY FS_Subset DEF Only
  <2> QED
    BY <2>1, TotalInt
<1>2. ASSUME NEW T \in SUBSET B, \A U \in SUBSET T : U # T => U \in G
      PROVE  T \in G
  <2>1. CASE T = {}
    <3>1. Only(f, S \ T) = f
      BY <2>1 DEF Only
    <3>2. Total(Only(f, T)) = 0
      BY <1>1, <2>1, TotalEmpty
    <3> QED
      BY <1>1, <3>1, <3>2
  <2>2. CASE T # {}
    <3>1. PICK x \in T : TRUE
      BY <2>2
    <3>2. PICK U \in SUBSET T : U = T \ {x} /\ U \in G
      <4>1. T \ {x} \in SUBSET T /\ T \ {x} # T
        BY <3>1
      <4> HIDE DEF G
      <4> QED
        BY <1>2, <4>1
    <3>3. Total(Only(f, T)) = f[x] + Total(Only(f, U))
      <4>1. Only(Only(f, T), U) = Only(f, U) /\ Only(f, T)[x] = f[x]
        BY <3>1, <3>2 DEF Only
      <4> QED
        BY <1>1, <3>1, <3>2, <4>1, TotalWithout
    <3>4. Total(Only(f, S \ U)) = f[x] + Total(Only(f, S \ T))
      <4>1. x \in S \ U /\ (S \ U) \ {x} = S \ T /\ S \ U \in SUBSET S
        BY <3>1, <3>2
      <4>2. Only(Only(f, S \ U), S \ T) = Only(f, S \ T) /\ Only(f, S \ U)[x] = f[x]
        BY <3>1, <3>2, <4>1 DEF Only
      <4>3. Total(Only(f, S \ U)) = Only(f, S \ U)[x] + Total(Only(Only(f, S \ U), (S \ U) \ {x}))
        BY <1>1, <4>1, TotalWithout
      <4> QED
        BY <4>1, <4>2, <4>3
    <3>5. Total(f) = Total(Only(f, U)) + Total(Only(f, S \ U))
      BY <3>2
    <3>6. f[x] \in Int /\ Total(Only(f, U)) \in Int /\ Total(Only(f, S \ T)) \in Int
      BY <1>1, <3>1, <3>2
    <3> QED
      BY <3>3, <3>4, <3>5, <3>6
  <2> QED
    BY <2>1, <2>2
<1>3. B \in G
  <2>1. IsFiniteSet(B)
    BY <1>1
  <2> HIDE DEF G
  <2> QED
    BY <1>2, <2>1, SubsetInduction
<1> QED
  BY <1>3

\* What is paid in to every account.
LEMMA TotalPlus ==
  ASSUME NEW S, IsFiniteSet(S), NEW f \in [S -> Int], NEW g \in [S -> Int], NEW h \in [S -> Int],
         \A x \in S : h[x] = f[x] + g[x]
  PROVE  Total(h) = Total(f) + Total(g)
<1> DEFINE Agree(s) == Total(Only(h, s)) = Total(Only(f, s)) + Total(Only(g, s))
           G == {s \in SUBSET S : Agree(s)}
<1>1. ASSUME NEW k \in [S -> Int], NEW s \in SUBSET S
      PROVE  /\ Total(Only(k, s)) \in Int
             /\ s = {} => Total(Only(k, s)) = 0
             /\ \A x \in s : Total(Only(k, s)) = k[x] + Total(Only(k, s \ {x}))
  <2>1. Only(k, s) \in [s -> Int] /\ IsFiniteSet(s)
    BY FS_Subset DEF Only
  <2>2. \A x \in s : Only(Only(k, s), s \ {x}) = Only(k, s \ {x}) /\ Only(k, s)[x] = k[x]
    BY DEF Only
  <2>3. Total(Only(k, s)) \in Int
    BY <2>1, TotalInt
  <2>4. s = {} => Total(Only(k, s)) = 0
    BY <2>1, TotalEmpty
  <2>5. ASSUME NEW x \in s PROVE Total(Only(k, s)) = k[x] + Total(Only(k, s \ {x}))
    BY <2>1, <2>2, TotalWithout
  <2>6. QED
    BY <2>3, <2>4, <2>5
<1>2. ASSUME NEW s \in SUBSET S, \A u \in SUBSET s : u # s => u \in G
      PROVE  Agree(s)
  <2>1. CASE s = {}
    BY <1>1, <2>1
  <2>2. CASE s # {}
    <3>1. PICK x \in s : TRUE
      BY <2>2
    <3>2. PICK u \in SUBSET S : u = s \ {x}
      OBVIOUS
    <3>3. Agree(u)
      BY <1>2, <3>1, <3>2
    <3>4. /\ Total(Only(h, s)) = h[x] + Total(Only(h, u))
          /\ Total(Only(f, s)) = f[x] + Total(Only(f, u))
          /\ Total(Only(g, s)) = g[x] + Total(Only(g, u))
      BY <1>1, <3>1, <3>2
    <3>5. Total(Only(h, u)) \in Int /\ Total(Only(f, u)) \in Int /\ Total(Only(g, u)) \in Int
      BY <1>1
    <3>6. h[x] = f[x] + g[x] /\ f[x] \in Int /\ g[x] \in Int
      BY <3>1
    <3>7. QED
      BY <3>3, <3>4, <3>5, <3>6
  <2>3. QED
    BY <2>1, <2>2
<1>3. S \in G
  <2>1. \A s \in SUBSET S : (\A u \in SUBSET s : u # s => u \in G) => s \in G
    BY <1>2
  <2> HIDE DEF G
  <2> QED
    BY <2>1, SubsetInduction
<1>4. Only(f, S) = f /\ Only(g, S) = g /\ Only(h, S) = h
  BY DEF Only
<1>5. QED
  BY <1>3, <1>4

\* Equal accounts.
LEMMA TotalConstant ==
  ASSUME NEW S, IsFiniteSet(S), NEW c \in Nat, NEW f, f = [x \in S |-> c]
  PROVE  Total(f) = Cardinality(S) * c
<1> DEFINE G == {s \in SUBSET S : Total(Only(f, s)) = Cardinality(s) * c}
<1>1. ASSUME NEW s \in SUBSET S, \A u \in SUBSET s : u # s => u \in G
      PROVE  s \in G
  <2>1. IsFiniteSet(s) /\ Only(f, s) \in [s -> Int]
    BY FS_Subset DEF Only
  <2>2. CASE s = {}
    <3>1. Total(Only(f, s)) = 0
      BY <2>1, <2>2, TotalEmpty
    <3>2. QED
      BY <2>2, <3>1, FS_EmptySet
  <2>3. CASE s # {}
    <3>1. PICK x \in s : TRUE
      BY <2>3
    <3>2. PICK u \in SUBSET S : u = s \ {x}
      OBVIOUS
    <3>3. Total(Only(f, u)) = Cardinality(u) * c
      BY <1>1, <3>1, <3>2
    <3>4. Only(Only(f, s), u) = Only(f, u) /\ Only(f, s)[x] = c
      BY <3>1, <3>2 DEF Only
    <3>5. Total(Only(f, s)) = c + Total(Only(f, u))
      BY <2>1, <3>1, <3>2, <3>4, TotalWithout
    <3>6. Cardinality(s) = Cardinality(u) + 1 /\ Cardinality(u) \in Nat
      <4>1. IsFiniteSet(u) /\ s = u \cup {x} /\ x \notin u
        BY <2>1, <3>1, <3>2, FS_Subset
      <4>2. QED
        BY <4>1, FS_AddElement, FS_CardinalityType
    <3>7. Cardinality(s) * c = Cardinality(u) * c + c
      BY <3>6
    <3>8. Cardinality(u) * c \in Int
      BY <3>6
    <3>9. QED
      BY <3>3, <3>5, <3>7, <3>8
  <2>4. QED
    BY <2>2, <2>3
<1>2. S \in G
  <2>1. \A s \in SUBSET S : (\A u \in SUBSET s : u # s => u \in G) => s \in G
    BY <1>1
  <2> HIDE DEF G
  <2> QED
    BY <2>1, SubsetInduction
<1>3. Only(f, S) = f
  BY DEF Only
<1>4. QED
  BY <1>2, <1>3

\* What nobody owes is no debt.
LEMMA TotalNat ==
  ASSUME NEW S, IsFiniteSet(S), NEW f \in [S -> Nat]
  PROVE  Total(f) \in Nat
<1> DEFINE G == {s \in SUBSET S : Total(Only(f, s)) \in Nat}
<1>1. ASSUME NEW s \in SUBSET S, \A u \in SUBSET s : u # s => u \in G
      PROVE  s \in G
  <2>1. Only(f, s) \in [s -> Int] /\ IsFiniteSet(s)
    BY FS_Subset DEF Only
  <2>2. CASE s = {}
    <3>1. Total(Only(f, s)) = 0
      BY <2>1, <2>2, TotalEmpty
    <3> QED
      BY <3>1
  <2>3. CASE s # {}
    <3>1. PICK x : x \in s
      BY <2>3
    <3>2. PICK w : w = Only(f, s)
      OBVIOUS
    <3>3. Only(w, s \ {x}) = Only(f, s \ {x}) /\ w[x] = f[x] /\ f[x] \in Nat
      BY <3>1, <3>2 DEF Only
    <3>4. Total(w) = w[x] + Total(Only(w, s \ {x}))
      <4>1. w \in [s -> Int] /\ IsFiniteSet(s)
        BY <2>1, <3>2
      <4> QED
        BY <3>1, <4>1, TotalWithout
    <3>5. Total(Only(f, s \ {x})) \in Nat
      BY <1>1, <3>1
    <3> QED
      BY <3>2, <3>3, <3>4, <3>5
  <2> QED
    BY <2>2, <2>3
<1>2. S \in G
  <2> HIDE DEF G
  <2> QED
    BY <1>1, SubsetInduction
<1>3. Only(f, S) = f
  BY DEF Only
<1> QED
  BY <1>2, <1>3

\* m gives every account of S one name in T.
Renames(m, T, S) ==
  /\ m \in [T -> S]
  /\ \A x \in S : \E y \in T : m[y] = x
  /\ \A x, y \in T : m[x] = m[y] => x = y

Renamed(f, m, T) == [y \in T |-> f[m[y]]]

\* A total does not depend on the names of the accounts.
LEMMA TotalRenamed ==
  ASSUME NEW S, NEW T, IsFiniteSet(S), IsFiniteSet(T), NEW f \in [S -> Int],
         NEW m, Renames(m, T, S)
  PROVE  Total(Renamed(f, m, T)) = Total(f)
<1>0. /\ m \in [T -> S]
      /\ \A x \in S : \E y \in T : m[y] = x
      /\ \A x, y \in T : m[x] = m[y] => x = y
  BY DEF Renames
<1>5. PICK g : g = Renamed(f, m, T)
  OBVIOUS
<1>6. g \in [T -> Int] /\ \A y \in T : g[y] = f[m[y]]
  BY <1>0, <1>5 DEF Renamed
<1> DEFINE Im(u) == {x \in S : \E y \in u : m[y] = x}
           G == {u \in SUBSET T : Total(Only(g, u)) = Total(Only(f, Im(u)))}
<1>1. ASSUME NEW s \in SUBSET T, \A u \in SUBSET s : u # s => u \in G
      PROVE  s \in G
  <2>1. /\ Only(g, s) \in [s -> Int] /\ IsFiniteSet(s)
        /\ Only(f, Im(s)) \in [Im(s) -> Int] /\ IsFiniteSet(Im(s))
    <3>1. Im(s) \in SUBSET S
      OBVIOUS
    <3> HIDE DEF Im
    <3> QED
      BY <1>6, <3>1, FS_Subset DEF Only
  <2>2. CASE s = {}
    <3>1. Im(s) = {}
      BY <2>2
    <3>2. Total(Only(g, s)) = 0 /\ Total(Only(f, Im(s))) = 0
      <4> HIDE DEF Im
      <4> QED
        BY <2>1, <2>2, <3>1, TotalEmpty
    <3> QED
      BY <3>2
  <2>3. CASE s # {}
    <3>1. PICK x : x \in s
      BY <2>3
    <3>2. /\ m[x] \in Im(s) /\ Im(s \ {x}) = Im(s) \ {m[x]}
          /\ g[x] = f[m[x]]
      BY <1>0, <1>6, <3>1
    <3>3. s \ {x} \in G
      BY <1>1, <3>1
    <3>4. PICK w : w = Only(g, s)
      OBVIOUS
    <3>5. PICK v : v = Only(f, Im(s))
      OBVIOUS
    <3>6. Only(w, s \ {x}) = Only(g, s \ {x}) /\ w[x] = g[x]
      BY <3>1, <3>4 DEF Only
    <3>7. Only(v, Im(s) \ {m[x]}) = Only(f, Im(s) \ {m[x]}) /\ v[m[x]] = f[m[x]]
      <4> HIDE DEF Im
      <4> QED
        BY <3>2, <3>5 DEF Only
    <3>8. Total(w) = w[x] + Total(Only(w, s \ {x}))
      <4>1. w \in [s -> Int] /\ IsFiniteSet(s)
        BY <2>1, <3>4
      <4> QED
        BY <3>1, <4>1, TotalWithout
    <3>9. Total(v) = v[m[x]] + Total(Only(v, Im(s) \ {m[x]}))
      <4> HIDE DEF Im
      <4>1. v \in [Im(s) -> Int] /\ IsFiniteSet(Im(s))
        BY <2>1, <3>5
      <4> QED
        BY <3>2, <4>1, TotalWithout
    <3> HIDE DEF Im
    <3> QED
      BY <3>2, <3>3, <3>4, <3>5, <3>6, <3>7, <3>8, <3>9
  <2> QED
    BY <2>2, <2>3
<1>2. T \in G
  <2> HIDE DEF G
  <2> QED
    BY <1>1, SubsetInduction
<1>3. Only(g, T) = g /\ Im(T) = S
  BY <1>0, <1>6 DEF Only
<1>4. Only(f, S) = f
  BY DEF Only
<1> HIDE DEF Im
<1> QED
  BY <1>5, <1>2, <1>3, <1>4

\* A total is that of its groups' totals.
Group(f, s, owner, u) == Only(f, {k \in s : owner[k] = u})

LEMMA TotalGrouped ==
  ASSUME NEW S, IsFiniteSet(S), NEW f \in [S -> Int], NEW P, IsFiniteSet(P),
         NEW owner \in [S -> P],
         NEW parts, parts = [u \in P |-> Total(Group(f, S, owner, u))]
  PROVE  Total(parts) = Total(f)
<1> DEFINE Parts(s) == [u \in P |-> Total(Group(f, s, owner, u))]
           G == {s \in SUBSET S : Total(Parts(s)) = Total(Only(f, s))}
<1>1. ASSUME NEW s \in SUBSET S, NEW u \in P
      PROVE  /\ {k \in s : owner[k] = u} \in SUBSET S
             /\ IsFiniteSet({k \in s : owner[k] = u})
             /\ Group(f, s, owner, u) \in [{k \in s : owner[k] = u} -> Int]
             /\ Total(Group(f, s, owner, u)) \in Int
  <2>1. PICK own : own = {k \in s : owner[k] = u}
    OBVIOUS
  <2>2. own \in SUBSET S
    BY <2>1
  <2>3. IsFiniteSet(own)
    BY <2>2, FS_Subset
  <2>4. Only(f, own) \in [own -> Int]
    BY <2>2 DEF Only
  <2>5. Total(Only(f, own)) \in Int
    BY <2>3, <2>4, TotalInt
  <2> QED
    BY <2>1, <2>2, <2>3, <2>4, <2>5 DEF Group
<1>2. ASSUME NEW s \in SUBSET S, \A u \in SUBSET s : u # s => u \in G
      PROVE  s \in G
  <2>1. Only(f, s) \in [s -> Int] /\ IsFiniteSet(s)
    BY FS_Subset DEF Only
  <2>2. CASE s = {}
    <3>1. Total(Only(f, s)) = 0
      BY <2>1, <2>2, TotalEmpty
    <3>2. ASSUME NEW u \in P PROVE Parts(s)[u] = 0
      <4>1. {k \in s : owner[k] = u} = {}
        BY <2>2
      <4>2. Group(f, s, owner, u) \in [{} -> Int]
        BY <4>1, <1>1
      <4> QED
        BY <4>2, TotalEmpty
    <3>3. PICK none : none = Parts(s)
      OBVIOUS
    <3>4. none = [u \in P |-> 0]
      BY <3>2, <3>3
    <3>5. Total(none) = Cardinality(P) * 0 /\ Cardinality(P) \in Nat
      BY <3>4, TotalConstant, FS_CardinalityType
    <3>6. Total(none) = 0
      BY <3>5
    <3> QED
      BY <3>1, <3>3, <3>6
  <2>3. CASE s # {}
    <3>1. PICK x : x \in s
      BY <2>3
    <3>2. PICK r : r = s \ {x}
      OBVIOUS
    <3>3. r \in SUBSET S /\ r \in SUBSET s /\ r # s
      BY <3>1, <3>2
    <3>4. Total(Parts(r)) = Total(Only(f, r))
      BY <1>2, <3>3
    <3>5. PICK p : p = owner[x]
      OBVIOUS
    <3>6. p \in P /\ f[x] \in Int
      BY <3>1, <3>5
    <3>7. Total(Only(f, s)) = f[x] + Total(Only(f, r))
      <4>1. PICK w : w = Only(f, s)
        OBVIOUS
      <4>2. Only(w, s \ {x}) = Only(f, s \ {x}) /\ w[x] = f[x]
        BY <3>1, <4>1 DEF Only
      <4>3. w \in [s -> Int] /\ IsFiniteSet(s)
        BY <2>1, <4>1
      <4>4. Total(w) = w[x] + Total(Only(w, s \ {x}))
        BY <3>1, <4>3, TotalWithout
      <4> QED
        BY <3>2, <4>1, <4>2, <4>4
    <3>8. Total(Group(f, s, owner, p)) = f[x] + Total(Group(f, r, owner, p))
      <4>1. PICK own : own = {k \in s : owner[k] = p}
        OBVIOUS
      <4>2. /\ own \in SUBSET S /\ x \in own
            /\ {k \in r : owner[k] = p} = own \ {x}
        BY <3>1, <3>2, <3>5, <4>1
      <4>3. PICK w : w = Only(f, own)
        OBVIOUS
      <4>4. Only(w, own \ {x}) = Only(f, own \ {x}) /\ w[x] = f[x]
        BY <4>2, <4>3 DEF Only
      <4>5. w \in [own -> Int] /\ IsFiniteSet(own)
        BY <4>2, <4>3, FS_Subset DEF Only
      <4>6. Total(w) = w[x] + Total(Only(w, own \ {x}))
        BY <4>2, <4>5, TotalWithout
      <4> QED
        BY <4>1, <4>2, <4>3, <4>4, <4>6 DEF Group
    <3>9. ASSUME NEW u \in P \ {p} PROVE Group(f, s, owner, u) = Group(f, r, owner, u)
      <4>1. {k \in s : owner[k] = u} = {k \in r : owner[k] = u}
        BY <3>2, <3>5
      <4> QED
        BY <4>1 DEF Group
    <3>10. PICK a : a = Parts(s)
      OBVIOUS
    <3>11. PICK b : b = Parts(r)
      OBVIOUS
    <3>12. a \in [P -> Int] /\ b \in [P -> Int]
      BY <1>1, <3>3, <3>10, <3>11
    <3>13. \A u \in P \ {p} : a[u] = b[u]
      BY <3>9, <3>10, <3>11
    <3>14. a[p] = f[x] + b[p] /\ b[p] \in Int
      BY <3>6, <3>8, <3>10, <3>11, <3>12
    <3>15. Total(a) = Total(b) + a[p] - b[p]
      BY <3>6, <3>12, <3>13, TotalUpdated
    <3>16. Total(b) \in Int
      BY <3>12, TotalInt
    <3>17. Total(a) = Total(b) + f[x]
      BY <3>6, <3>14, <3>15, <3>16
    <3>18. Total(b) = Total(Only(f, r))
      BY <3>4, <3>11
    <3>19. Total(a) = Total(Only(f, s))
      BY <3>6, <3>7, <3>16, <3>17, <3>18
    <3> QED
      BY <3>10, <3>19
  <2> QED
    BY <2>2, <2>3
<1>3. S \in G
  <2> HIDE DEF G
  <2> QED
    BY <1>2, SubsetInduction
<1>4. Only(f, S) = f
  BY DEF Only
<1> QED
  BY <1>3, <1>4

\* One more entry.
LEMMA TotalAppended ==
  ASSUME NEW n \in Nat, NEW f \in [1..n -> Int], NEW g \in [1..(n + 1) -> Int],
         \A k \in 1..n : g[k] = f[k]
  PROVE  Total(g) = Total(f) + g[n + 1]
<1>1. n + 1 \in 1..(n + 1) /\ (1..(n + 1)) \ {n + 1} = 1..n
  OBVIOUS
<1>5. IsFiniteSet(1..(n + 1)) /\ IsFiniteSet(1..n)
  <2>1. 1 \in Int /\ n \in Int /\ n + 1 \in Int
    OBVIOUS
  <2> QED
    BY <2>1, FS_Interval
<1>2. Only(g, 1..n) = f
  BY DEF Only
<1>3. Total(g) = g[n + 1] + Total(Only(g, (1..(n + 1)) \ {n + 1}))
  BY <1>1, <1>5, TotalWithout
<1>4. Total(f) \in Int /\ g[n + 1] \in Int
  BY <1>1, <1>5, TotalInt
<1>6. Total(g) = g[n + 1] + Total(f)
  BY <1>1, <1>2, <1>3
<1> QED
  BY <1>4, <1>6

\* One entry less, and those behind it move up.
LEMMA TotalRemoved ==
  ASSUME NEW n \in Nat, NEW i \in 1..n, NEW f \in [1..n -> Int], NEW g \in [1..(n - 1) -> Int],
         \A k \in 1..(n - 1) : g[k] = f[IF k < i THEN k ELSE k + 1]
  PROVE  Total(f) = Total(g) + f[i]
<1>1. PICK S : S = (1..n) \ {i}
  OBVIOUS
<1>2. PICK T : T = 1..(n - 1)
  OBVIOUS
<1>3. PICK h : h = Only(f, S)
  OBVIOUS
<1>4. PICK m : m = [k \in T |-> IF k < i THEN k ELSE k + 1]
  OBVIOUS
<1>5. IsFiniteSet(1..n) /\ IsFiniteSet(S) /\ IsFiniteSet(T)
  <2>1. 1 \in Int /\ n \in Int /\ n - 1 \in Int
    OBVIOUS
  <2>2. IsFiniteSet(1..n) /\ IsFiniteSet(1..(n - 1))
    BY <2>1, FS_Interval
  <2>3. S \in SUBSET (1..n)
    BY <1>1
  <2> QED
    BY <1>2, <2>2, <2>3, FS_Subset
<1>6. Total(f) = f[i] + Total(h)
  BY <1>1, <1>3, <1>5, TotalWithout
<1>7. h \in [S -> Int] /\ g \in [T -> Int]
  BY <1>1, <1>2, <1>3 DEF Only
<1>8. m \in [T -> S]
  BY <1>1, <1>2, <1>4
<1>9. ASSUME NEW x \in S PROVE \E y \in T : m[y] = x
  <2>1. CASE x < i
    <3>1. x \in T
      BY <1>1, <1>2, <2>1
    <3> QED
      BY <1>4, <2>1, <3>1
  <2>2. CASE ~(x < i)
    <3>1. x - 1 \in T /\ ~(x - 1 < i) /\ (x - 1) + 1 = x
      BY <1>1, <1>2, <2>2
    <3> QED
      BY <1>4, <3>1
  <2> QED
    BY <2>1, <2>2
<1>10. \A x, y \in T : m[x] = m[y] => x = y
  BY <1>2, <1>4
<1>11. \A y \in T : g[y] = h[m[y]]
  <2> SUFFICES ASSUME NEW y \in T PROVE g[y] = h[m[y]]
    OBVIOUS
  <2>1. g[y] = f[m[y]]
    BY <1>2, <1>4
  <2>2. h[m[y]] = f[m[y]]
    BY <1>3, <1>8 DEF Only
  <2> QED
    BY <2>1, <2>2
<1>12. Total(g) = Total(h)
  <2>1. Renames(m, T, S)
    BY <1>8, <1>9, <1>10 DEF Renames
  <2>2. IsFiniteSet(S) /\ IsFiniteSet(T)
    BY <1>5
  <2>3. Renamed(h, m, T) = g
    BY <1>7, <1>11 DEF Renamed
  <2> QED
    BY <1>7, <2>1, <2>2, <2>3, TotalRenamed
<1>13. Total(h) \in Int /\ f[i] \in Int
  BY <1>5, <1>7, TotalInt
<1> QED
  BY <1>6, <1>12, <1>13

-----------------------------------------------------------------------------
\* A set of numbers up to n has a greatest.
LEMMA MaxExists ==
  ASSUME NEW n \in Nat, NEW s \in SUBSET (1..n), s # {}
  PROVE  Max(s) \in s /\ \A i \in s : i <= Max(s)
<1> DEFINE Bounded(T) == \E m \in T : \A i \in T : i <= m
           G == {T \in SUBSET (1..n) : T # {} => Bounded(T)}
<1>1. IsFiniteSet(1..n)
  BY FS_Interval
<1>2. ASSUME NEW T \in SUBSET (1..n), \A U \in SUBSET T : U # T => U \in G
      PROVE  T \in G
  <2> SUFFICES ASSUME T # {} PROVE Bounded(T)
    OBVIOUS
  <2>1. PICK i \in T : TRUE
    OBVIOUS
  <2>2. T \ {i} \in G
    BY <1>2, <2>1
  <2>3. CASE T = {i}
    BY <2>3
  <2>4. CASE T # {i}
    <3>1. PICK m \in T \ {i} : \A j \in T \ {i} : j <= m
      BY <2>1, <2>2, <2>4
    <3>2. CASE m <= i
      BY <3>1, <3>2
    <3>3. CASE i <= m
      BY <3>1, <3>3
    <3>4. QED
      BY <3>2, <3>3
  <2>5. QED
    BY <2>3, <2>4
<1>3. \A T \in SUBSET (1..n) : T \in G
  <2> HIDE DEF G
  <2> QED
    BY <1>1, <1>2, SubsetInduction
<1>4. Bounded(s)
  BY <1>3
<1>5. QED
  BY <1>4 DEF Max

\* The greatest of 1..i is i, and 1..(i - 1) is left without it.
LEMMA MaxOfSegment ==
  ASSUME NEW n \in Nat, NEW i \in 1..n
  PROVE  /\ 1..i \in SUBSET (1..n) /\ 1..i # {}
         /\ Max(1..i) = i /\ (1..i) \ {i} = 1..(i - 1)
<1>1. PICK s \in SUBSET (1..n) : s = 1..i
  OBVIOUS
<1>2. s # {}
  BY <1>1
<1>3. Max(s) \in s /\ \A j \in s : j <= Max(s)
  BY <1>2, MaxExists
<1>4. Max(s) = i
  BY <1>1, <1>3
<1>5. QED
  BY <1>1, <1>4

\* g is the fold of the subsets of 1..n, from their least element on.
Steps(g, n, base, step) ==
  \A s \in SUBSET (1..n) : g[s] = IF s = {} THEN base ELSE step[<<Max(s), g[s \ {Max(s)}]>>]

\* The fold of a sequence exists.
LEMMA Iterates ==
  ASSUME NEW n \in Nat, NEW V, NEW base \in V, NEW step \in [(1..n) \X V -> V]
  PROVE  \E g \in [SUBSET (1..n) -> V] : Steps(g, n, base, step)
<1>1. PICK pick : pick = [s \in SUBSET (1..n) |-> Max(s)]
  OBVIOUS
<1>2. \A s \in SUBSET (1..n) : s # {} => pick[s] \in s
  BY <1>1, MaxExists
<1>3. IsFiniteSet(1..n)
  BY FS_Interval
<1>4. PICK S : S = 1..n
  OBVIOUS
<1>5. \E g \in [SUBSET S -> V] : Folds(g, S, pick, base, step)
  BY <1>2, <1>3, <1>4, FoldExists
<1>6. PICK g \in [SUBSET S -> V] : Folds(g, S, pick, base, step)
  BY <1>5
<1>7. Steps(g, n, base, step)
  BY <1>1, <1>4, <1>6 DEF Folds, Steps
<1>8. QED
  BY <1>4, <1>6, <1>7

\* What holds of the base and is kept by every step holds of the fold.
LEMMA Segments ==
  ASSUME NEW n \in Nat, NEW it, NEW next, NEW base, NEW J, base \in J[0],
         \A s \in SUBSET (1..n) : it[s] = IF s = {} THEN base ELSE next[s],
         \A i \in 1..n : it[1..(i - 1)] \in J[i - 1] => next[1..i] \in J[i]
  PROVE  it[1..n] \in J[n]
<1> DEFINE G == {s \in SUBSET (1..n) : \A i \in 0..n : s = 1..i => it[s] \in J[i]}
<1>1. ASSUME NEW s \in SUBSET (1..n), \A u \in SUBSET s : u # s => u \in G
      PROVE  s \in G
  <2> SUFFICES ASSUME NEW i \in 0..n, s = 1..i PROVE it[s] \in J[i]
    OBVIOUS
  <2>1. CASE i = 0
    BY <2>1
  <2>2. CASE i # 0
    <3>1. i \in 1..n
      BY <2>2
    <3>2. PICK u \in SUBSET (1..n) : u = 1..(i - 1)
      BY <3>1
    <3>3. u \in SUBSET s /\ u # s /\ s # {} /\ i - 1 \in 0..n
      BY <3>1, <3>2
    <3>4. it[u] \in J[i - 1]
      BY <1>1, <3>2, <3>3
    <3>5. next[1..i] \in J[i]
      BY <3>1, <3>2, <3>4
    <3>6. QED
      BY <3>3, <3>5
  <2>3. QED
    BY <2>1, <2>2
<1>2. 1..n \in G
  <2>1. IsFiniteSet(1..n)
    BY FS_Interval
  <2>2. \A s \in SUBSET (1..n) : (\A u \in SUBSET s : u # s => u \in G) => s \in G
    BY <1>1
  <2> HIDE DEF G
  <2>3. PICK S : S = 1..n
    OBVIOUS
  <2>4. IsFiniteSet(S)
    BY <2>1, <2>3
  <2>5. \A s \in SUBSET S : (\A u \in SUBSET s : u # s => u \in G) => s \in G
    BY <2>2, <2>3
  <2>6. \A s \in SUBSET S : s \in G
    BY <2>4, <2>5, SubsetInduction
  <2>7. QED
    BY <2>3, <2>6
<1>3. QED
  BY <1>2

\* it is base for the empty set, next for the others, which pick takes apart.
Gathered(it, S, pick, base, next) ==
  \A s \in SUBSET S : /\ s # {} => pick[s] \in s
                      /\ it[s] = IF s = {} THEN base ELSE next[s]

\* What holds of the base and is kept by every element holds of the fold.
LEMMA Gathers ==
  ASSUME NEW S, IsFiniteSet(S), NEW it, NEW pick, NEW base, NEW next,
         Gathered(it, S, pick, base, next), NEW J, base \in J[{}],
         \A s \in SUBSET S : s # {} /\ it[s \ {pick[s]}] \in J[s \ {pick[s]}] => next[s] \in J[s]
  PROVE  it[S] \in J[S]
<1> DEFINE G == {s \in SUBSET S : it[s] \in J[s]}
<1>1. ASSUME NEW s \in SUBSET S, \A u \in SUBSET s : u # s => u \in G
      PROVE  s \in G
  <2>1. CASE s = {}
    BY <2>1 DEF Gathered
  <2>2. CASE s # {}
    <3>1. PICK u : u = s \ {pick[s]}
      OBVIOUS
    <3>2. u \in SUBSET s /\ u # s
      BY <2>2, <3>1 DEF Gathered
    <3>3. it[u] \in J[u]
      BY <1>1, <3>2
    <3> QED
      BY <2>2, <3>1, <3>3 DEF Gathered
  <2> QED
    BY <2>1, <2>2
<1>2. \A s \in SUBSET S : s \in G
  <2> HIDE DEF G
  <2> QED
    BY <1>1, SubsetInduction
<1> QED
  BY <1>2

\* A loop whose steps are legal in the order of the list, with what holds of
\* every part of it that is done: W[s] after the steps numbered in s.
LEMMA IteratesIn ==
  ASSUME NEW n \in Nat, NEW W, NEW base, base \in W[{}], NEW step,
         \A s \in SUBSET (1..n) : s # {} =>
           \A x \in W[s \ {Max(s)}] : step[<<Max(s), x>>] \in W[s]
  PROVE  \E g : /\ g = [s \in SUBSET (1..n) |-> g[s]]
                /\ \A s \in SUBSET (1..n) : g[s] \in W[s]
                /\ Steps(g, n, base, step)
<1> DEFINE V == UNION {W[s] : s \in SUBSET (1..n)}
<1>1. PICK U : U = V
  OBVIOUS
<1>2. base \in U
  BY <1>1
<1>3. PICK st \in [(1..n) \X U -> U] :
        \A p \in (1..n) \X U : st[p] = IF step[p] \in U THEN step[p] ELSE base
  <2>1. [p \in (1..n) \X U |-> IF step[p] \in U THEN step[p] ELSE base] \in [(1..n) \X U -> U]
    BY <1>2
  <2> QED
    BY <2>1
<1>4. PICK g \in [SUBSET (1..n) -> U] : Steps(g, n, base, st)
  BY <1>2, Iterates
<1> DEFINE G == {s \in SUBSET (1..n) : g[s] \in W[s]}
<1>5. ASSUME NEW s \in SUBSET (1..n), s # {}, s \ {Max(s)} \in G
      PROVE  g[s] = step[<<Max(s), g[s \ {Max(s)}]>>] /\ g[s] \in W[s]
  <2>1. Max(s) \in s
    BY <1>5, MaxExists
  <2>2. PICK x : x = g[s \ {Max(s)}] /\ x \in W[s \ {Max(s)}] /\ x \in U
    BY <1>1, <1>5
  <2>3. step[<<Max(s), x>>] \in W[s]
    BY <1>5, <2>2
  <2>4. step[<<Max(s), x>>] \in U
    BY <1>1, <2>3
  <2>5. <<Max(s), x>> \in (1..n) \X U
    BY <2>1, <2>2
  <2>6. st[<<Max(s), x>>] = step[<<Max(s), x>>]
    BY <1>3, <2>4, <2>5
  <2>7. g[s] = st[<<Max(s), x>>]
    BY <1>4, <1>5, <2>2 DEF Steps
  <2> QED
    BY <2>2, <2>3, <2>6, <2>7
<1>6. ASSUME NEW s \in SUBSET (1..n), \A u \in SUBSET s : u # s => u \in G
      PROVE  s \in G
  <2>1. CASE s = {}
    BY <1>4, <2>1 DEF Steps
  <2>2. CASE s # {}
    <3>1. Max(s) \in s
      BY <2>2, MaxExists
    <3>2. s \ {Max(s)} \in G
      BY <1>6, <3>1
    <3> QED
      BY <1>5, <2>2, <3>2
  <2> QED
    BY <2>1, <2>2
<1>7. \A s \in SUBSET (1..n) : s \in G
  <2>1. IsFiniteSet(1..n)
    BY FS_Interval
  <2> HIDE DEF G
  <2> QED
    BY <1>6, <2>1, SubsetInduction
<1>8. Steps(g, n, base, step)
  <2>1. ASSUME NEW s \in SUBSET (1..n)
        PROVE  g[s] = IF s = {} THEN base ELSE step[<<Max(s), g[s \ {Max(s)}]>>]
    <3>1. CASE s = {}
      BY <1>4, <3>1 DEF Steps
    <3>2. CASE s # {}
      <4>1. s \ {Max(s)} \in SUBSET (1..n)
        OBVIOUS
      <4>2. s \ {Max(s)} \in G
        BY <1>7, <4>1
      <4> HIDE DEF G
      <4> QED
        BY <1>5, <3>2, <4>2
    <3> QED
      BY <3>1, <3>2
  <2> QED
    BY <2>1 DEF Steps
<1>9. g = [s \in SUBSET (1..n) |-> g[s]]
  OBVIOUS
<1> QED
  BY <1>7, <1>8, <1>9

\* What W says holds at the end of a loop, if it does after each step.
LEMMA LoopIn ==
  ASSUME NEW n \in Nat, NEW W, NEW base, base \in W[{}], NEW it, NEW next,
         \A s \in SUBSET (1..n) : it[s] = IF s = {} THEN base ELSE next[s],
         \A s \in SUBSET (1..n) : s # {} /\ it[s \ {Max(s)}] \in W[s \ {Max(s)}] => next[s] \in W[s]
  PROVE  it[1..n] \in W[1..n]
<1>1. PICK S : S = 1..n
  OBVIOUS
<1>2. IsFiniteSet(S)
  BY <1>1, FS_Interval
<1>3. PICK pick : pick = [s \in SUBSET S |-> Max(s)]
  OBVIOUS
<1>4. Gathered(it, S, pick, base, next)
  BY <1>1, <1>3, MaxExists DEF Gathered
<1>5. \A s \in SUBSET S : s # {} /\ it[s \ {pick[s]}] \in W[s \ {pick[s]}] => next[s] \in W[s]
  BY <1>1, <1>3
<1> QED
  BY <1>1, <1>2, <1>4, <1>5, Gathers

-----------------------------------------------------------------------------
\* What is left of a list when one of its entries leaves.
LEMMA Removed ==
  ASSUME NEW V, NEW q \in Seq(V), NEW i \in 1..Len(q)
  PROVE  /\ RemoveAt(q, i) \in Seq(V)
         /\ Len(q) \in Nat \ {0} /\ Len(RemoveAt(q, i)) = Len(q) - 1
         /\ \A k \in 1..(Len(q) - 1) : RemoveAt(q, i)[k] = q[IF k < i THEN k ELSE k + 1]
<1>1. Len(q) \in Nat \ {0} /\ i \in Nat \ {0} /\ i <= Len(q)
  BY LenProperties
<1>2. PICK a : a = SubSeq(q, 1, i - 1)
  OBVIOUS
<1>3. PICK b : b = SubSeq(q, i + 1, Len(q))
  OBVIOUS
<1>4. /\ a \in Seq(V) /\ Len(a) = i - 1
      /\ \A k \in 1..(i - 1) : a[k] = q[k]
  <2>1. 1 \in 1..(Len(q) + 1) /\ i - 1 \in (1 - 1)..Len(q)
    BY <1>1
  <2>2. \A k \in 1..(i - 1) : k \in 1..Len(q) /\ q[k] \in V
    BY <1>1, ElementOfSeq
  <2> QED
    BY <1>1, <1>2, <2>1, <2>2, SubSeqProperties
<1>5. /\ b \in Seq(V) /\ Len(b) = Len(q) - i
      /\ \A k \in 1..(Len(q) - i) : b[k] = q[k + i]
  <2>1. \A k \in (i + 1)..Len(q) : k \in 1..Len(q) /\ q[k] \in V
    BY <1>1, ElementOfSeq
  <2> QED
    BY <1>1, <1>3, <2>1, SubSeqProperties
<1>6. RemoveAt(q, i) = a \o b
  BY <1>2, <1>3 DEF RemoveAt
<1>7. /\ a \o b \in Seq(V) /\ Len(a \o b) = Len(a) + Len(b)
      /\ \A k \in 1..(Len(a) + Len(b)) : (a \o b)[k] = IF k <= Len(a) THEN a[k] ELSE b[k - Len(a)]
  BY <1>4, <1>5, ConcatProperties
<1>8. ASSUME NEW k \in 1..(Len(q) - 1)
      PROVE  (a \o b)[k] = q[IF k < i THEN k ELSE k + 1]
  <2>1. CASE k < i
    BY <1>1, <1>4, <1>5, <1>7, <2>1
  <2>2. CASE ~(k < i)
    <3>1. k - (i - 1) \in 1..(Len(q) - i) /\ (k - (i - 1)) + i = k + 1 /\ ~(k <= i - 1)
      BY <1>1, <2>2
    <3>2. b[k - (i - 1)] = q[k + 1]
      BY <1>5, <3>1
    <3>3. (a \o b)[k] = b[k - (i - 1)]
      BY <1>1, <1>4, <1>5, <1>7, <3>1
    <3> QED
      BY <2>2, <3>2, <3>3
  <2> QED
    BY <2>1, <2>2
<1> QED
  BY <1>1, <1>4, <1>5, <1>6, <1>7, <1>8

-----------------------------------------------------------------------------
(* The order of a loop *)

Rank(S, x) == Cardinality({y \in S : y < x})

\* The ranks of S are 0, 1, 2 and so on, one for each element.
Ranked(S) ==
  /\ \A x \in S : Rank(S, x) \in 0..(Cardinality(S) - 1)
  /\ \A x, y \in S : Rank(S, x) = Rank(S, y) => x = y
  /\ \A i \in 0..(Cardinality(S) - 1) : \E x \in S : Rank(S, x) = i

\* Numbers can be told apart by how many are smaller.
LEMMA NumbersAreRanked ==
  ASSUME NEW n \in Nat, NEW S \in SUBSET (1..n)
  PROVE  Ranked(S)
<1> DEFINE G == {T \in SUBSET (1..n) : Ranked(T)}
<1>1. IsFiniteSet(1..n)
  BY FS_Interval
<1>2. ASSUME NEW T \in SUBSET (1..n), \A U \in SUBSET T : U # T => U \in G
      PROVE  T \in G
  <2>1. IsFiniteSet(T) /\ Cardinality(T) \in Nat
    BY <1>1, FS_Subset, FS_CardinalityType
  <2>2. CASE T = {}
    <3>1. Cardinality(T) = 0
      BY <2>2, FS_EmptySet
    <3> QED
      BY <2>2, <3>1 DEF Ranked
  <2>3. CASE T # {}
    <3>1. PICK m \in T : \A x \in T : x <= m
      BY <2>3, MaxExists
    <3>2. PICK U \in SUBSET (1..n) : U = T \ {m}
      OBVIOUS
    <3>3. Ranked(U)
      BY <1>2, <3>1, <3>2
    <3>4. PICK k \in Nat : Cardinality(U) = k /\ Cardinality(T) = k + 1
      <4>1. Cardinality(T \ {m}) = Cardinality(T) - 1
        BY <2>1, <3>1, FS_RemoveElement
      <4>2. IsFiniteSet(U) /\ Cardinality(U) \in Nat
        BY <1>1, FS_Subset, FS_CardinalityType
      <4> QED
        BY <2>1, <3>2, <4>1, <4>2
    <3>5. Rank(T, m) = k
      <4>1. \A y \in T : y < m <=> y # m
        <5>1. \A y \in T : y \in Int
          OBVIOUS
        <5> QED
          BY <3>1, <5>1
      <4>2. {y \in T : y < m} = U
        BY <3>2, <4>1
      <4> QED
        BY <3>4, <4>2 DEF Rank
    <3>6. ASSUME NEW x \in U PROVE Rank(T, x) = Rank(U, x)
      <4>1. {y \in T : y < x} = {y \in U : y < x}
        BY <3>1, <3>2
      <4> QED
        BY <4>1 DEF Rank
    <3>7. \A x \in U : Rank(T, x) \in 0..(k - 1)
      BY <3>3, <3>4, <3>6 DEF Ranked
    <3>8. \A x, y \in T : Rank(T, x) = Rank(T, y) => x = y
      <4>1. \A x, y \in U : Rank(T, x) = Rank(T, y) => x = y
        BY <3>3, <3>6 DEF Ranked
      <4>2. \A x \in U : Rank(T, x) # Rank(T, m)
        BY <3>5, <3>7
      <4> QED
        BY <3>2, <4>1, <4>2
    <3>9. \A i \in 0..k : \E x \in T : Rank(T, x) = i
      <4> SUFFICES ASSUME NEW i \in 0..k PROVE \E x \in T : Rank(T, x) = i
        OBVIOUS
      <4>1. CASE i = k
        BY <3>5, <4>1
      <4>2. CASE i # k
        <5>1. i \in 0..(k - 1)
          BY <4>2
        <5>2. PICK x \in U : Rank(U, x) = i
          BY <3>3, <3>4, <5>1 DEF Ranked
        <5> QED
          BY <3>2, <3>6, <5>2
      <4> QED
        BY <4>1, <4>2
    <3>10. \A x \in T : Rank(T, x) \in 0..k
      BY <3>2, <3>5, <3>7
    <3>11. Cardinality(T) - 1 = k
      BY <3>4
    <3> QED
      BY <3>8, <3>9, <3>10, <3>11 DEF Ranked
  <2> QED
    BY <2>2, <2>3
<1>3. \A T \in SUBSET (1..n) : T \in G
  <2> HIDE DEF G
  <2> QED
    BY <1>1, <1>2, SubsetInduction
<1> QED
  BY <1>3

\* InOrder names each element of S once.
LEMMA InOrderIs ==
  ASSUME NEW n \in Nat, NEW S \in SUBSET (1..n)
  PROVE  /\ Cardinality(S) \in Nat
         /\ InOrder(S) \in [1..Cardinality(S) -> S]
         /\ \A i, j \in 1..Cardinality(S) : InOrder(S)[i] = InOrder(S)[j] => i = j
         /\ \A x \in S : \E i \in 1..Cardinality(S) : InOrder(S)[i] = x
<1>1. IsFiniteSet(1..n)
  BY FS_Interval
<1>2. PICK k \in Nat : k = Cardinality(S)
  BY <1>1, FS_Subset, FS_CardinalityType
<1>3. Ranked(S)
  BY NumbersAreRanked
<1>4. PICK seq : seq = InOrder(S)
  OBVIOUS
<1>5. seq = [i \in 1..k |-> CHOOSE x \in S : Rank(S, x) = i - 1]
  BY <1>2, <1>4 DEF InOrder, Rank
<1>6. ASSUME NEW i \in 1..k PROVE seq[i] \in S /\ Rank(S, seq[i]) = i - 1
  <2>1. i - 1 \in 0..(k - 1)
    OBVIOUS
  <2>2. \E x \in S : Rank(S, x) = i - 1
    BY <1>2, <1>3, <2>1 DEF Ranked
  <2> QED
    BY <1>5, <2>2
<1>7. ASSUME NEW x \in S PROVE \E i \in 1..k : seq[i] = x
  <2>1. PICK r \in 0..(k - 1) : r = Rank(S, x)
    BY <1>2, <1>3 DEF Ranked
  <2>2. r + 1 \in 1..k /\ (r + 1) - 1 = r
    OBVIOUS
  <2>3. seq[r + 1] \in S /\ Rank(S, seq[r + 1]) = r
    BY <1>6, <2>2
  <2>4. seq[r + 1] = x
    BY <1>3, <2>1, <2>3 DEF Ranked
  <2> QED
    BY <2>2, <2>4
<1>8. \A i, j \in 1..k : seq[i] = seq[j] => i = j
  <2> SUFFICES ASSUME NEW i \in 1..k, NEW j \in 1..k, seq[i] = seq[j] PROVE i = j
    OBVIOUS
  <2>1. i - 1 = j - 1
    BY <1>6
  <2> QED
    BY <2>1
<1>9. seq \in [1..k -> S]
  BY <1>5, <1>6
<1> QED
  BY <1>2, <1>4, <1>7, <1>8, <1>9
=============================================================================
