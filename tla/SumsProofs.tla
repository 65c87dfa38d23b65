------------------------------ MODULE SumsProofs ------------------------------
(***************************************************************************)
(* Sums over a finite set, for the ledgers: what SumFunctionOnSet and      *)
(* SumFunction of the community module Functions add up to when values are *)
(* added, changed, scaled or rearranged.  The library states such facts    *)
(* about folds with operator parameters, which no prover here can          *)
(* instantiate, so they are derived from the definition: the sum is the    *)
(* value at S of a function on the subsets of S that the fold's recursion  *)
(* determines (AddsUnique) and that exists (AddsExists), both by induction *)
(* over the strict subsets of a finite set, which WFMin provides.          *)
(***************************************************************************)
EXTENDS Integers, Functions, FiniteSetTheorems, WellFoundedInduction, TLAPS

\* Induction with the property given as a set of subsets: S has it if a subset
\* has it whose strict subsets all do.
LEMMA StrongSetInduction ==
    ASSUME NEW S, IsFiniteSet(S), NEW G,
           \A T \in SUBSET S : (\A U \in SUBSET T : U # T => U \in G) => T \in G
    PROVE  S \in G
<1>. SUFFICES ASSUME S \notin G PROVE FALSE
  OBVIOUS
<1>. DEFINE Bad == {T \in SUBSET S : T \notin G}
<1>1. Bad \subseteq FiniteSubsetsOf(S) /\ Bad # {}
  BY FS_Subset DEF FiniteSubsetsOf
<1>2. IsWellFoundedOn(StrictSubsetOrdering(S), FiniteSubsetsOf(S))
  BY FS_StrictSubsetOrderingWellFounded
<1>3. PICK T \in Bad : \A U \in Bad : <<U, T>> \notin StrictSubsetOrdering(S)
  <2>. HIDE DEF Bad
  <2>. QED BY <1>1, <1>2, WFMin
<1>4. \A U \in SUBSET T : U # T => <<U, T>> \in StrictSubsetOrdering(S)
  BY <1>3 DEF StrictSubsetOrdering
<1>5. ASSUME NEW U \in SUBSET T, U # T
      PROVE  U \in G
  BY <1>3, <1>4, <1>5
<1>. QED
  BY <1>3, <1>5

\* The same one element at a time, from the empty set up.
LEMMA SetInduction ==
    ASSUME NEW S, IsFiniteSet(S), NEW G, {} \in G,
           \A T \in SUBSET S : \A x \in S \ T : T \in G => T \cup {x} \in G
    PROVE  S \in G
<1>1. ASSUME NEW T \in SUBSET S, \A U \in SUBSET T : U # T => U \in G
      PROVE  T \in G
  <2>1. CASE T = {}
    BY <2>1
  <2>2. ASSUME NEW x \in T
        PROVE  T \in G
    <3>1. T \ {x} \in SUBSET T /\ T \ {x} # T /\ T = (T \ {x}) \cup {x}
      OBVIOUS
    <3>2. T \ {x} \in G /\ T \ {x} \in SUBSET S /\ x \in S \ (T \ {x})
      BY <1>1, <3>1
    <3>. QED
      BY <3>1, <3>2
  <2>. QED
    BY <2>1, <2>2
<1>. QED
  BY <1>1, StrongSetInduction

\* The recursion of the fold: an element chosen from s, and the rest.
pick(s) == CHOOSE x \in s : TRUE
Rest(s) == s \ {pick(s)}
Adds(g, f, S) ==
    g = [s \in SUBSET S |-> IF s = {} THEN 0 ELSE f[pick(s)] + g[Rest(s)]]

\* What a fold over s leaves for its next step is a strict subset of s.
LEMMA RestSmaller ==
    ASSUME NEW s, s # {}
    PROVE  pick(s) \in s /\ Rest(s) \subseteq s /\ Rest(s) # s
BY DEF pick, Rest

\* The community definition, unfolded.
LEMMA SumIsAddition ==
    ASSUME NEW f, NEW S
    PROVE  SumFunctionOnSet(f, S) = (CHOOSE g : Adds(g, f, S))[S]
BY DEF SumFunctionOnSet, FoldFunctionOnSet, MapThenFoldSet, Adds, pick, Rest

\* Two functions that satisfy the recursion, perhaps on different sets, agree.
LEMMA AddsUnique ==
    ASSUME NEW f, NEW S, IsFiniteSet(S), NEW A, NEW B, S \subseteq A, S \subseteq B,
           NEW g, NEW h, Adds(g, f, A), Adds(h, f, B)
    PROVE  g[S] = h[S]
<1>. DEFINE G == {T \in SUBSET S : g[T] = h[T]}
<1>1. ASSUME NEW T \in SUBSET S, \A U \in SUBSET T : U # T => U \in G
      PROVE  T \in G
  <2>1. T \in SUBSET A /\ T \in SUBSET B
    OBVIOUS
  <2>2. g[T] = (IF T = {} THEN 0 ELSE f[pick(T)] + g[Rest(T)])
    BY <2>1 DEF Adds
  <2>3. h[T] = (IF T = {} THEN 0 ELSE f[pick(T)] + h[Rest(T)])
    BY <2>1 DEF Adds
  <2>4. T # {} => g[Rest(T)] = h[Rest(T)]
    BY <1>1, RestSmaller
  <2>. QED
    BY <2>2, <2>3, <2>4
<1>2. S \in G
  <2>. HIDE DEF G
  <2>. QED BY <1>1, StrongSetInduction
<1>. QED
  BY <1>2

\* Some function satisfies it.
LEMMA AddsExists ==
    ASSUME NEW f, NEW S, IsFiniteSet(S)
    PROVE  \E g : Adds(g, f, S)
<1>. DEFINE G == {T \in SUBSET S : \E g : Adds(g, f, T)}
            Value(u) == (CHOOSE g : Adds(g, f, u))[u]
<1>1. ASSUME NEW T \in SUBSET S, \A U \in SUBSET T : U # T => U \in G
      PROVE  T \in G
  <2>. DEFINE h == [s \in SUBSET T |-> IF s = {} THEN 0 ELSE f[pick(s)] + Value(Rest(s))]
  <2>1. \A U \in SUBSET T : U # T => \E g : Adds(g, f, U)
    BY <1>1
  <2>2. ASSUME NEW U \in SUBSET T, U # T
        PROVE  Adds(CHOOSE g : Adds(g, f, U), f, U)
    BY <2>1, <2>2
  <2>3. ASSUME NEW U \in SUBSET T, U # T
        PROVE  Value(U) = IF U = {} THEN 0 ELSE f[pick(U)] + Value(Rest(U))
    <3>. DEFINE g == CHOOSE e : Adds(e, f, U)
    <3>1. Adds(g, f, U) /\ U \in SUBSET U
      BY <2>2, <2>3
    <3>2. g[U] = (IF U = {} THEN 0 ELSE f[pick(U)] + g[Rest(U)])
      <4>. HIDE DEF g
      <4>. QED BY <3>1 DEF Adds
    <3>3. ASSUME U # {} PROVE g[Rest(U)] = Value(Rest(U))
      <4>1. Rest(U) \in SUBSET T /\ Rest(U) # T /\ Rest(U) \subseteq U
        BY <3>3, <2>3, RestSmaller
      <4>2. Adds(CHOOSE e : Adds(e, f, Rest(U)), f, Rest(U)) /\ IsFiniteSet(Rest(U))
        BY <2>2, <4>1, FS_Subset
      <4>. HIDE DEF g
      <4>. QED
        BY <3>1, <4>1, <4>2, AddsUnique
    <3>. QED
      BY <3>2, <3>3
  <2>4. ASSUME NEW s \in SUBSET T, s # {}
        PROVE  h[Rest(s)] = Value(Rest(s))
    <3>1. Rest(s) \in SUBSET T /\ Rest(s) # T
      BY <2>4, RestSmaller
    <3>. HIDE DEF Value
    <3>. QED
      BY <3>1, <2>3
  <2>5. h = [s \in SUBSET T |-> IF s = {} THEN 0 ELSE f[pick(s)] + h[Rest(s)]]
    <3>. HIDE DEF Value
    <3>. QED
      BY <2>4
  <2>6. Adds(h, f, T)
    <3>. HIDE DEF h
    <3>. QED BY <2>5 DEF Adds
  <2>. QED
    BY <2>6
<1>2. S \in G
  <2>. HIDE DEF G
  <2>. QED BY <1>1, StrongSetInduction
<1>. QED
  BY <1>2

\* Nothing adds up to 0.
LEMMA SumEmpty ==
    ASSUME NEW f
    PROVE  SumFunctionOnSet(f, {}) = 0
<1>1. PICK g : Adds(g, f, {})
  BY AddsExists, FS_EmptySet
<1>2. Adds(CHOOSE e : Adds(e, f, {}), f, {})
  BY <1>1
<1>. QED
  BY <1>2, SumIsAddition DEF Adds

\* One step of the fold, for the element it happens to take.
LEMMA SumPick ==
    ASSUME NEW f, NEW S, IsFiniteSet(S), S # {}
    PROVE  SumFunctionOnSet(f, S) = f[pick(S)] + SumFunctionOnSet(f, Rest(S))
<1>. DEFINE g == CHOOSE e : Adds(e, f, S)
            h == CHOOSE e : Adds(e, f, Rest(S))
<1>1. Rest(S) \subseteq S /\ IsFiniteSet(Rest(S))
  BY RestSmaller, FS_Subset
<1>2. Adds(g, f, S) /\ Adds(h, f, Rest(S))
  BY <1>1, AddsExists
<1>3. SumFunctionOnSet(f, S) = g[S] /\ SumFunctionOnSet(f, Rest(S)) = h[Rest(S)]
  BY SumIsAddition
<1>. HIDE DEF g, h
<1>4. g[Rest(S)] = h[Rest(S)]
  BY <1>1, <1>2, AddsUnique
<1>5. S \in SUBSET S
  OBVIOUS
<1>6. g[S] = f[pick(S)] + g[Rest(S)]
  BY <1>2, <1>5 DEF Adds
<1>. QED
  BY <1>3, <1>4, <1>6

\* The order does not matter: any element may be taken first.
LEMMA SumAny ==
    ASSUME NEW f, NEW S, IsFiniteSet(S), \A y \in S : f[y] \in Int
    PROVE  /\ SumFunctionOnSet(f, S) \in Int
           /\ \A x \in S : SumFunctionOnSet(f, S) = f[x] + SumFunctionOnSet(f, S \ {x})
<1>. DEFINE Sum(T) == SumFunctionOnSet(f, T)
            G == {T \in SUBSET S : /\ Sum(T) \in Int
                                   /\ \A x \in T : Sum(T) = f[x] + Sum(T \ {x})}
<1>1. ASSUME NEW T \in SUBSET S, \A U \in SUBSET T : U # T => U \in G
      PROVE  T \in G
  <2>1. CASE T = {}
    BY <2>1, SumEmpty
  <2>2. CASE T # {}
    <3>. DEFINE p == pick(T)
    <3>1. /\ p \in T /\ T \ {p} \subseteq T /\ T \ {p} # T /\ IsFiniteSet(T)
          /\ Rest(T) = T \ {p}
      BY <2>2, RestSmaller, FS_Subset DEF Rest
    <3>2. Sum(T) = f[p] + Sum(T \ {p})
      BY <2>2, <3>1, SumPick
    <3>. HIDE DEF Sum, p
    <3>3. T \ {p} \in G /\ Sum(T \ {p}) \in Int
      BY <1>1, <3>1
    <3>4. ASSUME NEW x \in T, x # p
          PROVE  Sum(T) = f[x] + Sum(T \ {x})
      <4>1. T \ {x} \in G /\ T \ {x, p} \in G
        BY <1>1, <3>1, <3>4
      <4>2. (T \ {p}) \ {x} = T \ {x, p} /\ (T \ {x}) \ {p} = T \ {x, p}
        OBVIOUS
      <4>3. Sum(T \ {p}) = f[x] + Sum(T \ {x, p})
        BY <3>3, <3>4, <4>2
      <4>4. Sum(T \ {x}) = f[p] + Sum(T \ {x, p})
        BY <3>1, <3>4, <4>1, <4>2
      <4>5. f[x] \in Int /\ f[p] \in Int /\ Sum(T \ {x, p}) \in Int
        BY <3>1, <4>1
      <4>. QED
        BY <3>2, <4>3, <4>4, <4>5
    <3>5. Sum(T) \in Int
      BY <3>1, <3>2, <3>3
    <3>. QED
      BY <3>2, <3>4, <3>5
  <2>. QED
    BY <2>1, <2>2
<1>2. S \in G
  <2>. HIDE DEF G
  <2>. QED BY <1>1, StrongSetInduction
<1>. QED
  BY <1>2

\* A sum of integers is an integer.
LEMMA SumInt ==
    ASSUME NEW S, IsFiniteSet(S), NEW f \in [S -> Int]
    PROVE  SumFunctionOnSet(f, S) \in Int
BY SumAny

\* A new element adds its value.
LEMMA SumAdd ==
    ASSUME NEW f, NEW S, IsFiniteSet(S), NEW x, x \notin S, f[x] \in Int,
           \A y \in S : f[y] \in Int
    PROVE  SumFunctionOnSet(f, S \cup {x}) = SumFunctionOnSet(f, S) + f[x]
<1>1. IsFiniteSet(S \cup {x}) /\ (S \cup {x}) \ {x} = S
  BY FS_AddElement
<1>2. SumFunctionOnSet(f, S) \in Int
  BY SumAny
<1>3. SumFunctionOnSet(f, S \cup {x}) = f[x] + SumFunctionOnSet(f, (S \cup {x}) \ {x})
  <2>1. x \in S \cup {x} /\ \A y \in S \cup {x} : f[y] \in Int
    OBVIOUS
  <2>. QED
    BY <1>1, <2>1, SumAny
<1>4. SumFunctionOnSet(f, (S \cup {x}) \ {x}) = SumFunctionOnSet(f, S)
  BY <1>1, Zenon
<1>. QED
  BY <1>2, <1>3, <1>4

\* Equal values have equal sums.
LEMMA SumSame ==
    ASSUME NEW S, IsFiniteSet(S), NEW f, NEW g,
           \A y \in S : f[y] \in Int /\ f[y] = g[y]
    PROVE  SumFunctionOnSet(f, S) = SumFunctionOnSet(g, S)
<1>. DEFINE G == {T \in SUBSET S : SumFunctionOnSet(f, T) = SumFunctionOnSet(g, T)}
<1>1. {} \in G
  BY SumEmpty
<1>2. ASSUME NEW T \in SUBSET S, NEW x \in S \ T, T \in G
      PROVE  T \cup {x} \in G
  <2>1. IsFiniteSet(T) /\ x \notin T /\ T \cup {x} \in SUBSET S
    BY FS_Subset
  <2>2. SumFunctionOnSet(f, T \cup {x}) = SumFunctionOnSet(f, T) + f[x]
    BY <2>1, SumAdd
  <2>3. SumFunctionOnSet(g, T \cup {x}) = SumFunctionOnSet(g, T) + g[x]
    BY <2>1, SumAdd
  <2>. QED
    BY <1>2, <2>1, <2>2, <2>3
<1>3. S \in G
  <2>. HIDE DEF G
  <2>. QED BY <1>1, <1>2, SetInduction
<1>. QED
  BY <1>3

\* The sum of sums, value by value.
LEMMA SumPlus ==
    ASSUME NEW S, IsFiniteSet(S), NEW f, NEW g, NEW h,
           \A y \in S : f[y] \in Int /\ g[y] \in Int /\ h[y] = f[y] + g[y]
    PROVE  SumFunctionOnSet(h, S) = SumFunctionOnSet(f, S) + SumFunctionOnSet(g, S)
<1>. DEFINE Sum(e, T) == SumFunctionOnSet(e, T)
            G == {T \in SUBSET S : Sum(h, T) = Sum(f, T) + Sum(g, T)}
<1>1. {} \in G
  BY SumEmpty
<1>2. ASSUME NEW T \in SUBSET S, NEW x \in S \ T, T \in G
      PROVE  T \cup {x} \in G
  <2>1. IsFiniteSet(T) /\ x \notin T /\ T \cup {x} \in SUBSET S
    BY FS_Subset
  <2>2. /\ f[x] \in Int /\ g[x] \in Int /\ h[x] \in Int /\ h[x] = f[x] + g[x]
        /\ \A y \in T : f[y] \in Int /\ g[y] \in Int /\ h[y] \in Int
    OBVIOUS
  <2>3. Sum(f, T \cup {x}) = Sum(f, T) + f[x]
    BY <2>1, <2>2, SumAdd
  <2>4. Sum(g, T \cup {x}) = Sum(g, T) + g[x]
    BY <2>1, <2>2, SumAdd
  <2>5. Sum(h, T \cup {x}) = Sum(h, T) + h[x]
    BY <2>1, <2>2, SumAdd
  <2>6. Sum(f, T) \in Int /\ Sum(g, T) \in Int /\ Sum(h, T) \in Int
    BY <2>1, <2>2, SumAny
  <2>. HIDE DEF Sum
  <2>. QED
    BY <1>2, <2>1, <2>2, <2>3, <2>4, <2>5, <2>6
<1>3. S \in G
  <2>. HIDE DEF G
  <2>. QED BY <1>1, <1>2, SetInduction
<1>. QED
  BY <1>3

\* Zeros add up to 0.
LEMMA SumZero ==
    ASSUME NEW S, IsFiniteSet(S), NEW f, \A y \in S : f[y] = 0
    PROVE  SumFunctionOnSet(f, S) = 0
<1>. DEFINE G == {T \in SUBSET S : SumFunctionOnSet(f, T) = 0}
<1>1. {} \in G
  BY SumEmpty
<1>2. ASSUME NEW T \in SUBSET S, NEW x \in S \ T, T \in G
      PROVE  T \cup {x} \in G
  <2>1. IsFiniteSet(T) /\ x \notin T /\ T \cup {x} \in SUBSET S
    BY FS_Subset
  <2>2. SumFunctionOnSet(f, T \cup {x}) = SumFunctionOnSet(f, T) + f[x]
    BY <2>1, SumAdd
  <2>. QED
    BY <1>2, <2>1, <2>2
<1>3. S \in G
  <2>. HIDE DEF G
  <2>. QED BY <1>1, <1>2, SetInduction
<1>. QED
  BY <1>3

\* Smaller values have a smaller sum.
LEMMA SumAtMost ==
    ASSUME NEW S, IsFiniteSet(S), NEW f, NEW g,
           \A y \in S : f[y] \in Int /\ g[y] \in Int /\ f[y] <= g[y]
    PROVE  SumFunctionOnSet(f, S) <= SumFunctionOnSet(g, S)
<1>. DEFINE Sum(e, T) == SumFunctionOnSet(e, T)
            G == {T \in SUBSET S : Sum(f, T) <= Sum(g, T)}
<1>1. {} \in G
  BY SumEmpty
<1>2. ASSUME NEW T \in SUBSET S, NEW x \in S \ T, T \in G
      PROVE  T \cup {x} \in G
  <2>1. IsFiniteSet(T) /\ x \notin T /\ T \cup {x} \in SUBSET S
    BY FS_Subset
  <2>2. /\ f[x] \in Int /\ g[x] \in Int /\ f[x] <= g[x]
        /\ \A y \in T : f[y] \in Int /\ g[y] \in Int
    OBVIOUS
  <2>3. Sum(f, T \cup {x}) = Sum(f, T) + f[x]
    BY <2>1, <2>2, SumAdd
  <2>4. Sum(g, T \cup {x}) = Sum(g, T) + g[x]
    BY <2>1, <2>2, SumAdd
  <2>5. Sum(f, T) \in Int /\ Sum(g, T) \in Int
    BY <2>1, <2>2, SumAny
  <2>. HIDE DEF Sum
  <2>. QED
    BY <1>2, <2>1, <2>2, <2>3, <2>4, <2>5
<1>3. S \in G
  <2>. HIDE DEF G
  <2>. QED BY <1>1, <1>2, SetInduction
<1>. QED
  BY <1>3

\* When one value changes, the sum changes by as much.
LEMMA SumChange ==
    ASSUME NEW S, IsFiniteSet(S), NEW f, NEW g, NEW x \in S,
           \A y \in S : f[y] \in Int /\ g[y] \in Int /\ (y # x => g[y] = f[y])
    PROVE  SumFunctionOnSet(g, S) = SumFunctionOnSet(f, S) + g[x] - f[x]
<1>1. IsFiniteSet(S \ {x})
  BY FS_RemoveElement
<1>2. SumFunctionOnSet(f, S) = f[x] + SumFunctionOnSet(f, S \ {x})
  BY SumAny
<1>3. SumFunctionOnSet(g, S) = g[x] + SumFunctionOnSet(g, S \ {x})
  BY SumAny
<1>4. SumFunctionOnSet(f, S \ {x}) = SumFunctionOnSet(g, S \ {x})
  BY <1>1, SumSame
<1>5. SumFunctionOnSet(f, S \ {x}) \in Int
  BY <1>1, SumAny
<1>. QED
  BY <1>2, <1>3, <1>4, <1>5

\* Distributivity, which the SMT solver does not use by itself.
LEMMA Distributes ==
    ASSUME NEW c \in Int, NEW a \in Int, NEW b \in Int
    PROVE  /\ c * a \in Int /\ c * b \in Int
           /\ c * (a + b) = c * a + c * b /\ c * (a - b) = c * a - c * b
OBVIOUS

\* A common factor can be taken out of a sum.
LEMMA SumTimes ==
    ASSUME NEW S, IsFiniteSet(S), NEW f, NEW g, NEW c \in Int,
           \A y \in S : f[y] \in Int /\ g[y] = c * f[y]
    PROVE  SumFunctionOnSet(g, S) = c * SumFunctionOnSet(f, S)
<1>. DEFINE Sum(e, T) == SumFunctionOnSet(e, T)
            G == {T \in SUBSET S : Sum(g, T) = c * Sum(f, T)}
<1>1. {} \in G
  BY SumEmpty
<1>2. ASSUME NEW T \in SUBSET S, NEW x \in S \ T, T \in G
      PROVE  T \cup {x} \in G
  <2>1. IsFiniteSet(T) /\ x \notin T /\ T \cup {x} \in SUBSET S
    BY FS_Subset
  <2>2. /\ f[x] \in Int /\ g[x] = c * f[x] /\ g[x] \in Int
        /\ \A y \in T : f[y] \in Int /\ g[y] \in Int
    BY Distributes
  <2>3. Sum(f, T \cup {x}) = Sum(f, T) + f[x]
    BY <2>1, <2>2, SumAdd
  <2>4. Sum(g, T \cup {x}) = Sum(g, T) + g[x]
    BY <2>1, <2>2, SumAdd
  <2>5. Sum(f, T) \in Int
    BY <2>1, <2>2, SumAny
  <2>. HIDE DEF Sum
  <2>6. c * (Sum(f, T) + f[x]) = c * Sum(f, T) + c * f[x]
    BY <2>2, <2>5, Distributes
  <2>. QED
    BY <1>2, <2>1, <2>2, <2>3, <2>4, <2>6
<1>3. S \in G
  <2>. HIDE DEF G
  <2>. QED BY <1>1, <1>2, SetInduction
<1>. QED
  BY <1>3

\* The sum of the rows of a table is the sum of its columns.
LEMMA SumSwap ==
    ASSUME NEW A, IsFiniteSet(A), NEW B, IsFiniteSet(B), NEW F,
           \A a \in A, b \in B : F[<<a, b>>] \in Int
    PROVE  SumFunctionOnSet([a \in A |-> SumFunctionOnSet([b \in B |-> F[<<a, b>>]], B)], A)
           = SumFunctionOnSet([b \in B |-> SumFunctionOnSet([a \in A |-> F[<<a, b>>]], A)], B)
<1>. DEFINE Row(a) == [b \in B |-> F[<<a, b>>]]
            Column(b) == [a \in A |-> F[<<a, b>>]]
            Rows == [a \in A |-> SumFunctionOnSet(Row(a), B)]
            Columns(T) == [b \in B |-> SumFunctionOnSet(Column(b), T)]
            G == {T \in SUBSET A :
                    SumFunctionOnSet(Rows, T) = SumFunctionOnSet(Columns(T), B)}
<1>1. {} \in G
  <2>1. \A b \in B : Columns({})[b] = 0
    BY SumEmpty
  <2>. HIDE DEF Columns
  <2>2. SumFunctionOnSet(Columns({}), B) = 0
    BY <2>1, SumZero
  <2>. QED
    BY <2>2, SumEmpty
<1>2. ASSUME NEW a \in A PROVE Rows[a] \in Int
  <2>1. \A b \in B : Row(a)[b] \in Int
    OBVIOUS
  <2>. HIDE DEF Row
  <2>. QED
    BY <2>1, SumAny
<1>3. ASSUME NEW T \in SUBSET A, NEW b \in B PROVE Columns(T)[b] \in Int
  <2>1. IsFiniteSet(T) /\ \A a \in T : Column(b)[a] \in Int
    BY FS_Subset
  <2>. HIDE DEF Column
  <2>. QED
    BY <2>1, SumAny
<1>4. ASSUME NEW T \in SUBSET A, NEW a \in A \ T, T \in G
      PROVE  T \cup {a} \in G
  <2>1. IsFiniteSet(T) /\ a \notin T /\ T \cup {a} \in SUBSET A
    BY FS_Subset
  <2>2. SumFunctionOnSet(Rows, T \cup {a}) = SumFunctionOnSet(Rows, T) + Rows[a]
    <3>. HIDE DEF Rows
    <3>. QED
      BY <1>2, <2>1, SumAdd
  <2>3. ASSUME NEW b \in B
        PROVE  Columns(T \cup {a})[b] = Columns(T)[b] + Row(a)[b]
    <3>1. Column(b)[a] = F[<<a, b>>] /\ F[<<a, b>>] \in Int /\ \A y \in T : Column(b)[y] \in Int
      OBVIOUS
    <3>2. SumFunctionOnSet(Column(b), T \cup {a}) = SumFunctionOnSet(Column(b), T) + F[<<a, b>>]
      <4>. HIDE DEF Column
      <4>. QED BY <2>1, <3>1, SumAdd
    <3>. QED
      BY <3>2
  <2>4. \A b \in B : Row(a)[b] \in Int
    OBVIOUS
  <2>5. Rows[a] = SumFunctionOnSet(Row(a), B)
    OBVIOUS
  <2>. HIDE DEF Columns, Row, Rows
  <2>6. SumFunctionOnSet(Columns(T \cup {a}), B)
          = SumFunctionOnSet(Columns(T), B) + SumFunctionOnSet(Row(a), B)
    BY <1>3, <2>3, <2>4, SumPlus
  <2>. QED
    BY <1>4, <2>1, <2>2, <2>5, <2>6
<1>5. A \in G
  <2>. HIDE DEF G
  <2>. QED BY <1>1, <1>4, SetInduction
<1>. QED
  BY <1>5

\* Elements whose value is 0 can be left out.
LEMMA SumPart ==
    ASSUME NEW S, IsFiniteSet(S), NEW T \in SUBSET S, NEW f, \A y \in S : f[y] \in Int,
           \A y \in S \ T : f[y] = 0
    PROVE  SumFunctionOnSet(f, S) = SumFunctionOnSet(f, T)
<1>. DEFINE Sum(U) == SumFunctionOnSet(f, U)
            G == {U \in SUBSET (S \ T) : Sum(T \cup U) = Sum(T)}
<1>1. {} \in G
  <2>1. T \cup {} = T
    OBVIOUS
  <2>. QED
    BY <2>1, Zenon
<1>2. ASSUME NEW U \in SUBSET (S \ T), NEW x \in (S \ T) \ U, U \in G
      PROVE  U \cup {x} \in G
  <2>1. IsFiniteSet(T \cup U) /\ x \notin T \cup U /\ T \cup U \in SUBSET S
    <3>1. T \cup U \in SUBSET S
      OBVIOUS
    <3>. QED
      BY <3>1, FS_Subset
  <2>2. Sum((T \cup U) \cup {x}) = Sum(T \cup U) + f[x]
    BY <2>1, SumAdd
  <2>3. (T \cup U) \cup {x} = T \cup (U \cup {x})
    OBVIOUS
  <2>4. Sum(T \cup U) \in Int /\ f[x] = 0
    BY <2>1, SumAny
  <2>5. Sum(T \cup (U \cup {x})) = Sum((T \cup U) \cup {x})
    BY <2>3, Zenon
  <2>6. U \cup {x} \in SUBSET (S \ T)
    OBVIOUS
  <2>. HIDE DEF Sum
  <2>. QED
    BY <1>2, <2>2, <2>4, <2>5, <2>6
<1>3. S \ T \in G
  <2>. HIDE DEF G
  <2>. QED BY <1>1, <1>2, SetInduction, FS_Difference
<1>4. T \cup (S \ T) = S
  OBVIOUS
<1>. QED
  BY <1>3, <1>4, Zenon

\* A row of a table adds up like the function of its cells.
LEMMA SumRow ==
    ASSUME NEW H, NEW h \in H, NEW T, IsFiniteSet(T), NEW R, R = {h} \X T, NEW f, NEW g,
           \A o \in T : g[o] \in Int /\ f[<<h, o>>] = g[o]
    PROVE  SumFunctionOnSet(f, R) = SumFunctionOnSet(g, T)
<1>. DEFINE G == {U \in SUBSET T : SumFunctionOnSet(f, {h} \X U) = SumFunctionOnSet(g, U)}
<1>1. {} \in G
  <2>1. {h} \X {} = {}
    OBVIOUS
  <2>2. SumFunctionOnSet(f, {h} \X {}) = SumFunctionOnSet(f, {})
    BY <2>1, Zenon
  <2>. QED
    BY <2>2, SumEmpty
<1>2. ASSUME NEW U \in SUBSET T, NEW x \in T \ U, U \in G
      PROVE  U \cup {x} \in G
  <2>1. IsFiniteSet(U) /\ IsFiniteSet({h} \X U)
    BY FS_Subset, FS_Singleton, FS_Product
  <2>2. {h} \X (U \cup {x}) = ({h} \X U) \cup {<<h, x>>} /\ <<h, x>> \notin {h} \X U
    OBVIOUS
  <2>3. \A p \in {h} \X U : f[p] \in Int
    OBVIOUS
  <2>4. SumFunctionOnSet(f, ({h} \X U) \cup {<<h, x>>})
          = SumFunctionOnSet(f, {h} \X U) + f[<<h, x>>]
    BY <2>1, <2>2, <2>3, SumAdd
  <2>5. SumFunctionOnSet(f, {h} \X (U \cup {x}))
          = SumFunctionOnSet(f, ({h} \X U) \cup {<<h, x>>})
    BY <2>2, Zenon
  <2>6. SumFunctionOnSet(g, U \cup {x}) = SumFunctionOnSet(g, U) + g[x]
    BY <2>1, SumAdd
  <2>. QED
    BY <1>2, <2>4, <2>5, <2>6
<1>3. T \in G
  <2>. HIDE DEF G
  <2>. QED BY <1>1, <1>2, SetInduction
<1>. QED
  BY <1>3, Zenon

------------------------------------------------------------------------------
\* The same of whole functions.

\* SumFunction adds over the whole domain.
LEMMA TotalIs ==
    ASSUME NEW S, NEW f \in [S -> Int]
    PROVE  SumFunction(f) = SumFunctionOnSet(f, S)
<1>1. DOMAIN f = S
  OBVIOUS
<1>. QED
  BY <1>1, Zenon DEF SumFunction

\* SumInt of a whole function.
LEMMA TotalInt ==
    ASSUME NEW S, IsFiniteSet(S), NEW f \in [S -> Int]
    PROVE  SumFunction(f) \in Int
BY TotalIs, SumInt

\* SumZero of a whole function.
LEMMA TotalZero ==
    ASSUME NEW S, IsFiniteSet(S), NEW f \in [S -> Int], \A y \in S : f[y] = 0
    PROVE  SumFunction(f) = 0
BY TotalIs, SumZero

\* SumSame of a whole function.
LEMMA TotalSame ==
    ASSUME NEW S, IsFiniteSet(S), NEW f \in [S -> Int], NEW g \in [S -> Int],
           \A y \in S : f[y] = g[y]
    PROVE  SumFunction(f) = SumFunction(g)
BY TotalIs, SumSame

\* SumChange of a whole function.
LEMMA TotalChange ==
    ASSUME NEW S, IsFiniteSet(S), NEW f \in [S -> Int], NEW g \in [S -> Int], NEW x \in S,
           \A y \in S : y # x => g[y] = f[y]
    PROVE  SumFunction(g) = SumFunction(f) + g[x] - f[x]
BY TotalIs, SumChange

\* h has the values of f and of g together.
AddsUp(S, f, g, h) ==
    /\ IsFiniteSet(S)
    /\ f \in [S -> Int] /\ g \in [S -> Int] /\ h \in [S -> Int]
    /\ \A y \in S : h[y] = f[y] + g[y]

\* SumPlus of whole functions.
LEMMA TotalPlus ==
    ASSUME NEW S, NEW f, NEW g, NEW h, AddsUp(S, f, g, h)
    PROVE  SumFunction(h) = SumFunction(f) + SumFunction(g)
BY TotalIs, SumPlus DEF AddsUp

\* SumAtMost of a whole function.
LEMMA TotalAtMost ==
    ASSUME NEW S, IsFiniteSet(S), NEW f \in [S -> Int], NEW g \in [S -> Int],
           \A y \in S : f[y] <= g[y]
    PROVE  SumFunction(f) <= SumFunction(g)
BY TotalIs, SumAtMost

\* No part exceeds the whole.
LEMMA TotalCovers ==
    ASSUME NEW S, IsFiniteSet(S), NEW f \in [S -> Nat], NEW x \in S
    PROVE  f[x] <= SumFunction(f)
<1>. DEFINE g == [y \in S |-> IF y = x THEN f[x] ELSE 0]
            z == [y \in S |-> 0]
<1>1. f \in [S -> Int] /\ g \in [S -> Int] /\ z \in [S -> Int]
  OBVIOUS
<1>2. SumFunction(z) = 0
  BY <1>1, TotalZero
<1>3. SumFunction(g) = SumFunction(z) + g[x] - z[x]
  <2>1. \A y \in S : y # x => g[y] = z[y]
    OBVIOUS
  <2>. HIDE DEF g, z
  <2>. QED BY <1>1, <2>1, TotalChange
<1>4. SumFunction(g) <= SumFunction(f)
  <2>1. \A y \in S : g[y] <= f[y]
    OBVIOUS
  <2>. HIDE DEF g, z
  <2>. QED BY <1>1, <2>1, TotalAtMost
<1>. QED
  BY <1>2, <1>3, <1>4

\* f and g have the same values but at x, as before and after an EXCEPT.
DifferAt(S, f, g, x) ==
    /\ IsFiniteSet(S) /\ x \in S
    /\ f \in [S -> Int] /\ g \in [S -> Int]
    /\ \A y \in S : y # x => g[y] = f[y]

\* Then their sums differ by the change at x.
LEMMA TotalMoves ==
    ASSUME NEW S, NEW f, NEW g, NEW x, DifferAt(S, f, g, x)
    PROVE  /\ SumFunction(f) \in Int /\ SumFunction(g) \in Int
           /\ SumFunction(g) = SumFunction(f) + g[x] - f[x]
BY TotalChange, TotalInt DEF DifferAt

\* f and g have the same values but at x and at y.
DifferAtTwo(S, f, g, x, y) ==
    /\ IsFiniteSet(S) /\ x \in S /\ y \in S /\ x # y
    /\ f \in [S -> Int] /\ g \in [S -> Int]
    /\ \A z \in S : z # x /\ z # y => g[z] = f[z]

LEMMA TotalMovesTwice ==
    ASSUME NEW S, NEW f, NEW g, NEW x, NEW y, DifferAtTwo(S, f, g, x, y)
    PROVE  /\ SumFunction(f) \in Int /\ SumFunction(g) \in Int
           /\ SumFunction(g) = SumFunction(f) + (g[x] - f[x]) + (g[y] - f[y])
<1>. DEFINE e == [f EXCEPT ![x] = g[x]]
<1>1. DifferAt(S, f, e, x) /\ e[x] = g[x] /\ e[y] = f[y]
  BY DEF DifferAt, DifferAtTwo
<1>2. DifferAt(S, e, g, y)
  BY DEF DifferAt, DifferAtTwo
<1>3. f[x] \in Int /\ g[x] \in Int /\ f[y] \in Int /\ g[y] \in Int
  BY DEF DifferAtTwo
<1>. HIDE DEF e
<1>. QED
  BY <1>1, <1>2, <1>3, TotalMoves

\* A single value that is not 0 is the whole sum.
LEMMA TotalSingle ==
    ASSUME NEW S, IsFiniteSet(S), NEW f \in [S -> Int], NEW x \in S,
           \A y \in S : y # x => f[y] = 0
    PROVE  SumFunction(f) = f[x]
<1>. DEFINE z == [y \in S |-> 0]
<1>1. DifferAt(S, z, f, x) /\ z[x] = 0 /\ f[x] \in Int
  BY DEF DifferAt
<1>2. SumFunction(z) = 0
  <2>1. z \in [S -> Int] /\ \A y \in S : z[y] = 0
    OBVIOUS
  <2>. HIDE DEF z
  <2>. QED
    BY <2>1, TotalZero
<1>. HIDE DEF z
<1>. QED
  BY <1>1, <1>2, TotalMoves

\* Natural numbers add up to one.
LEMMA TotalNat ==
    ASSUME NEW S, IsFiniteSet(S), NEW f \in [S -> Nat]
    PROVE  SumFunction(f) \in Nat
<1>1. CASE S = {}
  <2>1. f \in [S -> Int] /\ \A y \in S : f[y] = 0
    BY <1>1
  <2>. QED
    BY <2>1, TotalZero
<1>2. CASE S # {}
  <2>1. PICK x \in S : TRUE
    BY <1>2
  <2>2. f[x] \in Nat /\ f[x] <= SumFunction(f) /\ f \in [S -> Int]
    BY TotalCovers
  <2>3. SumFunction(f) \in Int
    BY <2>2, TotalInt
  <2>. QED
    BY <2>2, <2>3
<1>. QED
  BY <1>1, <1>2
==============================================================================
