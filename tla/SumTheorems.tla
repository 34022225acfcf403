---------------------------- MODULE SumTheorems ----------------------------
(***************************************************************************)
(* What the sums of the models, SumFunctionOnSet of the community modules, *)
(* return.  The induction theorems of the library take an operator, which  *)
(* the provers cannot instantiate, so FiniteInduction below is stated over *)
(* a set of good subsets and proved from the well-foundedness of strict    *)
(* inclusion; everything else is proved by it.                             *)
(***************************************************************************)
EXTENDS Integers, FiniteSetTheorems, TLAPS

\* Among any subsets of a finite set one has no other of them inside it.
LEMMA SmallestSubset ==
    ASSUME NEW S, IsFiniteSet(S), NEW Bad \in SUBSET (SUBSET S), Bad # {}
    PROVE  \E T \in Bad : \A U \in Bad : U \subseteq T => U = T
<1>1. IsWellFoundedOn(StrictSubsetOrdering(S), SUBSET S)
  BY FS_StrictSubsetOrderingWellFounded, FS_FiniteSubsetsOfFinite
<1>2. PICK T \in Bad : \A U \in Bad : <<U, T>> \notin StrictSubsetOrdering(S)
  BY <1>1, WFMin
<1>3. \A U \in Bad : U \subseteq T => U = T
  BY <1>2 DEF StrictSubsetOrdering
<1>4. QED
  BY <1>3

\* A family of subsets that holds the empty set and grows by one element holds
\* the whole of a finite set.
LEMMA FiniteInduction ==
    ASSUME NEW S, IsFiniteSet(S), NEW Good, {} \in Good,
           \A T \in SUBSET S : \A x \in S \ T : T \in Good => T \cup {x} \in Good
    PROVE  S \in Good
<1>1. SUFFICES ASSUME S \notin Good PROVE FALSE
  OBVIOUS
<1> DEFINE Bad == {T \in SUBSET S : T \notin Good}
<1>2. PICK T \in Bad : \A U \in Bad : U \subseteq T => U = T
  <2>1. Bad \in SUBSET (SUBSET S) /\ S \in Bad
    BY <1>1
  <2> HIDE DEF Bad
  <2>2. QED
    BY <2>1, SmallestSubset
<1>3. PICK x \in T : TRUE
  BY <1>2
<1>4. T \ {x} \in Good /\ x \in S \ (T \ {x}) /\ (T \ {x}) \cup {x} = T
  BY <1>2, <1>3
<1>5. T \in Good
  BY <1>4, <1>2
<1>6. QED
  BY <1>5, <1>2

\* A finite set of integers has a least and a greatest element.
LEMMA LeastIn ==
    ASSUME NEW S, IsFiniteSet(S), S # {}, \A x \in S : x \in Int
    PROVE  \E x \in S : \A y \in S : x <= y
<1> DEFINE Below(x) == {y \in S : y <= x}
           Bad == {Below(x) : x \in S}
<1>1. Bad \in SUBSET (SUBSET S) /\ Bad # {}
  <2>1. \A x \in S : Below(x) \subseteq S
    OBVIOUS
  <2> HIDE DEF Below
  <2>2. QED
    BY <2>1
<1>2. PICK T \in Bad : \A U \in Bad : U \subseteq T => U = T
  <2>1. \A B \in SUBSET (SUBSET S) : B # {} => \E T \in B : \A U \in B : U \subseteq T => U = T
    BY SmallestSubset
  <2> HIDE DEF Bad
  <2>2. QED
    BY <1>1, <2>1
<1>3. PICK x \in S : T = Below(x)
  BY <1>2
<1>4. ASSUME NEW y \in S PROVE x <= y
  <2>1. CASE ~(x <= y)
    <3>1. Below(y) \subseteq Below(x) /\ x \notin Below(y) /\ x \in Below(x)
      BY <2>1
    <3>2. Below(y) = Below(x)
      BY <1>2, <1>3, <3>1
    <3>3. QED
      BY <3>1, <3>2
  <2>2. QED
    BY <2>1
<1>5. QED
  BY <1>4

LEMMA GreatestIn ==
    ASSUME NEW S, IsFiniteSet(S), S # {}, \A x \in S : x \in Int
    PROVE  \E x \in S : \A y \in S : y <= x
<1> DEFINE Above(x) == {y \in S : x <= y}
           Bad == {Above(x) : x \in S}
<1>1. Bad \in SUBSET (SUBSET S) /\ Bad # {}
  <2>1. \A x \in S : Above(x) \subseteq S
    OBVIOUS
  <2> HIDE DEF Above
  <2>2. QED
    BY <2>1
<1>2. PICK T \in Bad : \A U \in Bad : U \subseteq T => U = T
  <2>1. \A B \in SUBSET (SUBSET S) : B # {} => \E T \in B : \A U \in B : U \subseteq T => U = T
    BY SmallestSubset
  <2> HIDE DEF Bad
  <2>2. QED
    BY <1>1, <2>1
<1>3. PICK x \in S : T = Above(x)
  BY <1>2
<1>4. ASSUME NEW y \in S PROVE y <= x
  <2>1. CASE ~(y <= x)
    <3>1. Above(y) \subseteq Above(x) /\ x \notin Above(y) /\ x \in Above(x)
      BY <2>1
    <3>2. Above(y) = Above(x)
      BY <1>2, <1>3, <3>1
    <3>3. QED
      BY <3>1, <3>2
  <2>2. QED
    BY <2>1
<1>5. QED
  BY <1>4

-----------------------------------------------------------------------------
\* The element a fold takes first, and the function a sum is read from.
First(s) == CHOOSE x \in s : TRUE
SumsOf(g, f, S) ==
    g = [s \in SUBSET S |-> IF s = {} THEN 0 ELSE f[First(s)] + g[s \ {First(s)}]]

LEMMA SumIs ==
    ASSUME NEW S, NEW f
    PROVE  SumFunctionOnSet(f, S) = (CHOOSE g : SumsOf(g, f, S))[S]
BY DEF SumFunctionOnSet, FoldFunctionOnSet, MapThenFoldSet, SumsOf, First

LEMMA FirstIn == ASSUME NEW s, s # {} PROVE First(s) \in s
BY DEF First

LEMMA SumsUnique ==
    ASSUME NEW S, IsFiniteSet(S), NEW T, S \subseteq T, NEW f, NEW g, NEW h,
           SumsOf(g, f, S), SumsOf(h, f, T)
    PROVE  g[S] = h[S]
<1> DEFINE Bad == {U \in SUBSET S : g[U] # h[U]}
<1>1. SUFFICES ASSUME Bad # {} PROVE FALSE
  OBVIOUS
<1>2. PICK U \in Bad : \A V \in Bad : V \subseteq U => V = U
  <2>1. Bad \in SUBSET (SUBSET S)
    OBVIOUS
  <2> HIDE DEF Bad
  <2>2. QED
    BY <1>1, <2>1, SmallestSubset
<1>3. U \in SUBSET S /\ U \in SUBSET T /\ g[U] # h[U]
  BY <1>2
<1>4. /\ g[U] = IF U = {} THEN 0 ELSE f[First(U)] + g[U \ {First(U)}]
      /\ h[U] = IF U = {} THEN 0 ELSE f[First(U)] + h[U \ {First(U)}]
  BY <1>3 DEF SumsOf
<1>5. U # {}
  BY <1>3, <1>4
<1>6. U \ {First(U)} \notin Bad
  BY <1>2, <1>5, FirstIn
<1>7. g[U \ {First(U)}] = h[U \ {First(U)}]
  BY <1>6, <1>3
<1>8. QED
  BY <1>3, <1>4, <1>5, <1>7

LEMMA SumsExist ==
    ASSUME NEW S, IsFiniteSet(S), NEW f
    PROVE  \E g : SumsOf(g, f, S)
<1> DEFINE Bad == {T \in SUBSET S : ~ \E g : SumsOf(g, f, T)}
<1>1. SUFFICES ASSUME Bad # {} PROVE FALSE
  OBVIOUS
<1>2. PICK T \in Bad : \A U \in Bad : U \subseteq T => U = T
  <2>1. Bad \in SUBSET (SUBSET S)
    OBVIOUS
  <2> HIDE DEF Bad
  <2>2. QED
    BY <1>1, <2>1, SmallestSubset
<1> DEFINE sum(s) == (CHOOSE g : SumsOf(g, f, s))[s]
           Step(s) == IF s = {} THEN 0 ELSE f[First(s)] + sum(s \ {First(s)})
           h == [s \in SUBSET T |-> Step(s)]
<1>3. \A s \in SUBSET T : s # T => SumsOf(CHOOSE g : SumsOf(g, f, s), f, s)
  <2>1. SUFFICES ASSUME NEW s \in SUBSET T, s # T PROVE \E g : SumsOf(g, f, s)
    OBVIOUS
  <2>2. QED
    BY <1>2, <2>1
<1>4. ASSUME NEW s \in SUBSET T, s # T PROVE sum(s) = Step(s)
  <2>1. CASE s = {}
    <3> DEFINE gs == CHOOSE g : SumsOf(g, f, s)
    <3>1. SumsOf(gs, f, s) /\ s \in SUBSET s
      BY <1>3, <1>4
    <3> HIDE DEF gs
    <3>2. gs[s] = 0
      BY <3>1, <2>1 DEF SumsOf
    <3>3. QED
      BY <3>2, <2>1 DEF gs
  <2>2. CASE s # {}
    <3> DEFINE r == s \ {First(s)}
               gs == CHOOSE g : SumsOf(g, f, s)
               gr == CHOOSE g : SumsOf(g, f, r)
    <3>1. r \in SUBSET T /\ r # T /\ r \subseteq s /\ First(s) \in s
      BY <2>2, <1>4, FirstIn
    <3>2. SumsOf(gs, f, s) /\ SumsOf(gr, f, r)
      BY <3>1, <1>3, <1>4
    <3>3. IsFiniteSet(r)
      BY <3>1, <1>2, FS_Subset
    <3> HIDE DEF gs, gr, r
    <3>4. gr[r] = gs[r]
      BY <3>1, <3>2, <3>3, SumsUnique
    <3>5. gs[s] = f[First(s)] + gs[r]
      BY <3>2, <2>2 DEF SumsOf, r
    <3>6. QED
      BY <3>4, <3>5, <2>2 DEF gs, gr, r
  <2>3. QED
    BY <2>1, <2>2
<1>5. \A s \in SUBSET T : s # {} => sum(s \ {First(s)}) = h[s \ {First(s)}]
  <2>1. SUFFICES ASSUME NEW s \in SUBSET T, s # {} PROVE sum(s \ {First(s)}) = h[s \ {First(s)}]
    OBVIOUS
  <2>2. s \ {First(s)} \in SUBSET T /\ s \ {First(s)} # T
    BY <2>1, FirstIn
  <2> HIDE DEF sum, Step
  <2>3. sum(s \ {First(s)}) = Step(s \ {First(s)})
    BY <1>4, <2>2
  <2>4. QED
    BY <2>2, <2>3
<1>6. SumsOf(h, f, T)
  <2> HIDE DEF sum
  <2>1. \A s \in SUBSET T :
           Step(s) = IF s = {} THEN 0 ELSE f[First(s)] + h[s \ {First(s)}]
    BY <1>5
  <2> DEFINE k == [s \in SUBSET T |-> IF s = {} THEN 0 ELSE f[First(s)] + h[s \ {First(s)}]]
  <2>2. h = k
    <3> HIDE DEF Step
    <3>1. QED
      BY <2>1
  <2> HIDE DEF h
  <2>3. QED
    BY <2>2 DEF SumsOf
<1>7. QED
  BY <1>2, <1>6

-----------------------------------------------------------------------------
\* The sum over no index is zero.
LEMMA SumEmpty == ASSUME NEW f PROVE SumFunctionOnSet(f, {}) = 0
<1> DEFINE gs == CHOOSE g : SumsOf(g, f, {})
<1>1. SumsOf(gs, f, {}) /\ {} \in SUBSET {}
  BY SumsExist, FS_EmptySet
<1> HIDE DEF gs
<1>2. gs[{}] = 0
  BY <1>1 DEF SumsOf
<1>3. QED
  BY <1>2, SumIs DEF gs

\* Any other sum is the first value and the sum of the rest.
LEMMA SumFirst ==
    ASSUME NEW S, IsFiniteSet(S), S # {}, NEW f
    PROVE  SumFunctionOnSet(f, S) = f[First(S)] + SumFunctionOnSet(f, S \ {First(S)})
<1> DEFINE r  == S \ {First(S)}
           gs == CHOOSE g : SumsOf(g, f, S)
           gr == CHOOSE g : SumsOf(g, f, r)
<1>1. r \subseteq S /\ IsFiniteSet(r)
  BY FS_Subset
<1>2. SumsOf(gs, f, S)
  BY SumsExist
<1>3. SumsOf(gr, f, r)
  BY <1>1, SumsExist
<1> HIDE DEF gs, gr
<1>4. gr[r] = gs[r]
  BY <1>1, <1>2, <1>3, SumsUnique
<1>5. gs[S] = f[First(S)] + gs[r]
  BY <1>2 DEF SumsOf
<1>6. SumFunctionOnSet(f, S) = gs[S] /\ SumFunctionOnSet(f, r) = gr[r]
  BY SumIs DEF gs, gr
<1>7. QED
  BY <1>4, <1>5, <1>6

\* A sum of integers is an integer.
LEMMA SumInt ==
    ASSUME NEW S, IsFiniteSet(S), NEW f, \A x \in S : f[x] \in Int
    PROVE  SumFunctionOnSet(f, S) \in Int
<1> DEFINE Bad == {T \in SUBSET S : SumFunctionOnSet(f, T) \notin Int}
<1>1. SUFFICES ASSUME Bad # {} PROVE FALSE
  OBVIOUS
<1>2. PICK T \in Bad : \A U \in Bad : U \subseteq T => U = T
  <2>1. Bad \in SUBSET (SUBSET S)
    OBVIOUS
  <2> HIDE DEF Bad
  <2>2. QED
    BY <1>1, <2>1, SmallestSubset
<1>3. T \in SUBSET S /\ IsFiniteSet(T) /\ SumFunctionOnSet(f, T) \notin Int
  BY <1>2, FS_Subset
<1>4. T # {}
  BY <1>3, SumEmpty
<1>5. First(T) \in T /\ T \ {First(T)} \notin Bad
  BY <1>2, <1>4, FirstIn
<1>6. SumFunctionOnSet(f, T \ {First(T)}) \in Int /\ f[First(T)] \in Int
  BY <1>3, <1>5
<1>7. SumFunctionOnSet(f, T) = f[First(T)] + SumFunctionOnSet(f, T \ {First(T)})
  BY <1>3, <1>4, SumFirst
<1>8. QED
  BY <1>3, <1>6, <1>7

\* Any value may be taken out of a sum first.
LEMMA SumTake ==
    ASSUME NEW S, IsFiniteSet(S), NEW f, \A y \in S : f[y] \in Int, NEW x \in S
    PROVE  SumFunctionOnSet(f, S) = f[x] + SumFunctionOnSet(f, S \ {x})
<1> DEFINE Apart(T, y) == SumFunctionOnSet(f, T) = f[y] + SumFunctionOnSet(f, T \ {y})
           Bad == {T \in SUBSET S : \E y \in T : ~ Apart(T, y)}
<1>1. SUFFICES ASSUME Bad # {} PROVE FALSE
  <2>1. S \notin Bad
    BY <1>1
  <2>2. QED
    BY <2>1
<1>2. PICK T \in Bad : \A U \in Bad : U \subseteq T => U = T
  <2>1. Bad \in SUBSET (SUBSET S)
    OBVIOUS
  <2> HIDE DEF Bad
  <2>2. QED
    BY <1>1, <2>1, SmallestSubset
<1>3. T \in SUBSET S /\ IsFiniteSet(T)
  BY <1>2, FS_Subset
<1>4. PICK y \in T : ~ Apart(T, y)
  BY <1>2
<1> DEFINE c == First(T)
<1>5. c \in T /\ Apart(T, c)
  BY <1>3, <1>4, FirstIn, SumFirst
<1>6. c # y
  BY <1>4, <1>5
<1> HIDE DEF c
<1>7. T \ {c} \notin Bad /\ T \ {y} \notin Bad
  BY <1>2, <1>4, <1>5
<1>8. Apart(T \ {c}, y) /\ Apart(T \ {y}, c)
  <2>1. T \ {c} \in SUBSET S /\ T \ {y} \in SUBSET S /\ y \in T \ {c} /\ c \in T \ {y}
    BY <1>3, <1>4, <1>5, <1>6
  <2> HIDE DEF Apart
  <2>2. QED
    BY <2>1, <1>7
<1>9. (T \ {c}) \ {y} = (T \ {y}) \ {c}
  OBVIOUS
<1>10. /\ f[c] \in Int /\ f[y] \in Int
       /\ SumFunctionOnSet(f, (T \ {y}) \ {c}) \in Int
  <2>1. IsFiniteSet((T \ {y}) \ {c})
    BY <1>3, FS_Subset
  <2>2. QED
    BY <2>1, <1>3, <1>4, <1>5, SumInt
<1> DEFINE rest == SumFunctionOnSet(f, (T \ {y}) \ {c})
<1>11. /\ SumFunctionOnSet(f, T) = f[c] + SumFunctionOnSet(f, T \ {c})
       /\ SumFunctionOnSet(f, T \ {c}) = f[y] + rest
       /\ SumFunctionOnSet(f, T \ {y}) = f[c] + rest
  BY <1>5, <1>8, <1>9
<1> HIDE DEF rest
<1>12. rest \in Int
  BY <1>10 DEF rest
<1>13. SumFunctionOnSet(f, T) = f[y] + SumFunctionOnSet(f, T \ {y})
  BY <1>10, <1>11, <1>12
<1>14. QED
  BY <1>4, <1>13

\* Functions that agree have the same sum.
LEMMA SumSame ==
    ASSUME NEW S, IsFiniteSet(S), NEW f, NEW g, \A x \in S : f[x] = g[x]
    PROVE  SumFunctionOnSet(f, S) = SumFunctionOnSet(g, S)
<1> DEFINE Bad == {T \in SUBSET S : SumFunctionOnSet(f, T) # SumFunctionOnSet(g, T)}
<1>1. SUFFICES ASSUME Bad # {} PROVE FALSE
  OBVIOUS
<1>2. PICK T \in Bad : \A U \in Bad : U \subseteq T => U = T
  <2>1. Bad \in SUBSET (SUBSET S)
    OBVIOUS
  <2> HIDE DEF Bad
  <2>2. QED
    BY <1>1, <2>1, SmallestSubset
<1>3. T \in SUBSET S /\ IsFiniteSet(T)
      /\ SumFunctionOnSet(f, T) # SumFunctionOnSet(g, T)
  BY <1>2, FS_Subset
<1>4. T # {}
  BY <1>3, SumEmpty
<1>5. First(T) \in T /\ T \ {First(T)} \notin Bad
  BY <1>2, <1>4, FirstIn
<1>6. /\ SumFunctionOnSet(f, T \ {First(T)}) = SumFunctionOnSet(g, T \ {First(T)})
      /\ f[First(T)] = g[First(T)]
  BY <1>3, <1>5
<1>7. QED
  BY <1>3, <1>4, <1>6, SumFirst

\* A sum of sums, or of differences, index by index.
LEMMA SumPlus ==
    ASSUME NEW S, IsFiniteSet(S), NEW f, NEW g, NEW h,
           \A x \in S : f[x] \in Int /\ g[x] \in Int /\ h[x] = f[x] + g[x]
    PROVE  SumFunctionOnSet(h, S) = SumFunctionOnSet(f, S) + SumFunctionOnSet(g, S)
<1> DEFINE Adds(T) == SumFunctionOnSet(h, T)
                        = SumFunctionOnSet(f, T) + SumFunctionOnSet(g, T)
           Good == {T \in SUBSET S : Adds(T)}
<1>1. {} \in Good
  BY SumEmpty
<1>2. ASSUME NEW T \in SUBSET S, NEW x \in S \ T, T \in Good PROVE T \cup {x} \in Good
  <2> DEFINE U == T \cup {x}
  <2>1. U \in SUBSET S /\ IsFiniteSet(U) /\ IsFiniteSet(T) /\ x \in U /\ U \ {x} = T
    BY <1>2, FS_Subset
  <2>2. \A y \in U : f[y] \in Int /\ g[y] \in Int /\ h[y] \in Int
    BY <2>1
  <2> HIDE DEF U
  <2>3. /\ SumFunctionOnSet(f, U) = f[x] + SumFunctionOnSet(f, T)
        /\ SumFunctionOnSet(g, U) = g[x] + SumFunctionOnSet(g, T)
        /\ SumFunctionOnSet(h, U) = h[x] + SumFunctionOnSet(h, T)
    BY <2>1, <2>2, SumTake
  <2>4. SumFunctionOnSet(f, T) \in Int /\ SumFunctionOnSet(g, T) \in Int
    BY <2>1, <1>2, SumInt
  <2>5. Adds(T)
    BY <1>2
  <2>6. h[x] = f[x] + g[x] /\ f[x] \in Int /\ g[x] \in Int
    BY <1>2
  <2>7. Adds(U)
    BY <2>3, <2>4, <2>5, <2>6
  <2>8. QED
    BY <2>1, <2>7 DEF U
<1> HIDE DEF Good
<1>3. S \in Good
  BY <1>1, <1>2, FiniteInduction
<1>4. QED
  BY <1>3 DEF Good

\* Zero everywhere sums to zero.
LEMMA SumZero ==
    ASSUME NEW S, IsFiniteSet(S), NEW f, \A x \in S : f[x] = 0
    PROVE  SumFunctionOnSet(f, S) = 0
<1>0. \A n \in Int : n = n + n => n = 0
  OBVIOUS
<1>1. SumFunctionOnSet(f, S) = SumFunctionOnSet(f, S) + SumFunctionOnSet(f, S)
  <2>1. \A x \in S : f[x] \in Int /\ f[x] \in Int /\ f[x] = f[x] + f[x]
    OBVIOUS
  <2>2. QED
    BY <2>1, SumPlus
<1>2. SumFunctionOnSet(f, S) \in Int
  BY SumInt
<1>3. QED
  BY <1>0, <1>1, <1>2

\* One value changed changes the sum by as much.
LEMMA SumChanged ==
    ASSUME NEW S, IsFiniteSet(S), NEW f, NEW g, NEW x \in S,
           \A y \in S : f[y] \in Int /\ g[y] \in Int,
           \A y \in S \ {x} : g[y] = f[y]
    PROVE  SumFunctionOnSet(g, S) = SumFunctionOnSet(f, S) - f[x] + g[x]
<1>1. IsFiniteSet(S \ {x})
  BY FS_Subset
<1>2. SumFunctionOnSet(f, S \ {x}) = SumFunctionOnSet(g, S \ {x})
  BY <1>1, SumSame
<1>3. /\ SumFunctionOnSet(f, S) = f[x] + SumFunctionOnSet(f, S \ {x})
      /\ SumFunctionOnSet(g, S) = g[x] + SumFunctionOnSet(g, S \ {x})
  BY SumTake
<1>4. SumFunctionOnSet(f, S \ {x}) \in Int /\ f[x] \in Int /\ g[x] \in Int
  BY <1>1, SumInt
<1>5. QED
  BY <1>2, <1>3, <1>4

\* No value of a sum of naturals exceeds it, and it is a natural number.
LEMMA SumNat ==
    ASSUME NEW S, IsFiniteSet(S), NEW f, \A x \in S : f[x] \in Nat
    PROVE  SumFunctionOnSet(f, S) \in Nat /\ \A x \in S : f[x] <= SumFunctionOnSet(f, S)
<1> DEFINE Good == {T \in SUBSET S : SumFunctionOnSet(f, T) \in Nat}
<1>1. {} \in Good
  BY SumEmpty
<1>2. ASSUME NEW T \in SUBSET S, NEW x \in S \ T, T \in Good PROVE T \cup {x} \in Good
  <2> DEFINE U == T \cup {x}
  <2>1. U \in SUBSET S /\ IsFiniteSet(U) /\ x \in U /\ U \ {x} = T /\ \A y \in U : f[y] \in Int
    BY <1>2, FS_Subset
  <2> HIDE DEF U
  <2>2. SumFunctionOnSet(f, U) = f[x] + SumFunctionOnSet(f, T)
    BY <2>1, SumTake
  <2>3. f[x] \in Nat /\ SumFunctionOnSet(f, T) \in Nat
    BY <1>2
  <2>4. QED
    BY <2>1, <2>2, <2>3 DEF U
<1>3. \A T \in SUBSET S : T \in Good
  <2>1. SUFFICES ASSUME NEW T \in SUBSET S PROVE T \in Good
    OBVIOUS
  <2>2. IsFiniteSet(T) /\ SUBSET T \subseteq SUBSET S
    BY FS_Subset
  <2> HIDE DEF Good
  <2>3. \A V \in SUBSET T : \A x \in T \ V : V \in Good => V \cup {x} \in Good
    BY <1>2, <2>2
  <2>4. QED
    BY <1>1, <2>2, <2>3, FiniteInduction
<1>4. ASSUME NEW x \in S PROVE f[x] <= SumFunctionOnSet(f, S)
  <2>1. SumFunctionOnSet(f, S \ {x}) \in Nat
    BY <1>3
  <2>2. SumFunctionOnSet(f, S) = f[x] + SumFunctionOnSet(f, S \ {x})
    BY SumTake
  <2>3. QED
    BY <2>1, <2>2
<1>5. QED
  BY <1>3, <1>4

\* Values that are no smaller have a sum that is no smaller.
LEMMA SumAtMost ==
    ASSUME NEW S, IsFiniteSet(S), NEW f, NEW g,
           \A x \in S : f[x] \in Int /\ g[x] \in Int /\ f[x] <= g[x]
    PROVE  SumFunctionOnSet(f, S) <= SumFunctionOnSet(g, S)
<1> DEFINE d == [x \in S |-> g[x] - f[x]]
<1>1. \A x \in S : d[x] \in Nat /\ d[x] \in Int /\ g[x] = f[x] + d[x]
  OBVIOUS
<1> HIDE DEF d
<1>2. SumFunctionOnSet(d, S) \in Nat
  BY <1>1, SumNat
<1>3. SumFunctionOnSet(g, S) = SumFunctionOnSet(f, S) + SumFunctionOnSet(d, S)
  BY <1>1, SumPlus
<1>4. SumFunctionOnSet(f, S) \in Int
  BY SumInt
<1>5. QED
  BY <1>2, <1>3, <1>4

\* Indices whose value is zero may be left out.
LEMMA SumWithin ==
    ASSUME NEW S, IsFiniteSet(S), NEW T \in SUBSET S, NEW f,
           \A x \in S : f[x] \in Int, \A x \in S \ T : f[x] = 0
    PROVE  SumFunctionOnSet(f, S) = SumFunctionOnSet(f, T)
<1> DEFINE Good == {V \in SUBSET (S \ T) : SumFunctionOnSet(f, V \cup T) = SumFunctionOnSet(f, T)}
<1>1. {} \in Good
  <2>1. {} \cup T = T
    OBVIOUS
  <2>2. QED
    BY <2>1
<1>2. ASSUME NEW V \in SUBSET (S \ T), NEW x \in (S \ T) \ V, V \in Good PROVE V \cup {x} \in Good
  <2> DEFINE U == (V \cup {x}) \cup T
  <2>1. U \in SUBSET S /\ IsFiniteSet(U) /\ x \in U /\ U \ {x} = V \cup T /\ \A y \in U : f[y] \in Int
    BY <1>2, FS_Subset
  <2>2. IsFiniteSet(T)
    BY FS_Subset
  <2>3. SumFunctionOnSet(f, T) \in Int
    BY <2>2, SumInt
  <2> HIDE DEF U
  <2>4. SumFunctionOnSet(f, U) = f[x] + SumFunctionOnSet(f, V \cup T)
    BY <2>1, SumTake
  <2>5. f[x] = 0 /\ SumFunctionOnSet(f, V \cup T) = SumFunctionOnSet(f, T)
    BY <1>2
  <2>6. SumFunctionOnSet(f, U) = SumFunctionOnSet(f, T)
    BY <2>3, <2>4, <2>5
  <2>7. QED
    BY <2>6 DEF U
<1>3. IsFiniteSet(S \ T) /\ (S \ T) \cup T = S
  BY FS_Subset
<1> HIDE DEF Good
<1>4. S \ T \in Good
  BY <1>1, <1>2, <1>3, FiniteInduction
<1>5. QED
  BY <1>3, <1>4 DEF Good

\* The sum of one value over the indices of a set and of nothing elsewhere.
LEMMA SumConstant ==
    ASSUME NEW S, IsFiniteSet(S), NEW T \in SUBSET S, NEW c \in Int, NEW f,
           \A x \in S : f[x] = IF x \in T THEN c ELSE 0
    PROVE  SumFunctionOnSet(f, S) = c * Cardinality(T)
<1> DEFINE Product(U) == SumFunctionOnSet(f, U) = c * Cardinality(U)
           Good == {U \in SUBSET T : Product(U)}
<1>0. IsFiniteSet(T) /\ \A x \in T : f[x] = c
  BY FS_Subset
<1>1. {} \in Good
  <2>1. c * 0 = 0
    OBVIOUS
  <2>2. QED
    BY <2>1, SumEmpty, FS_EmptySet
<1>2. ASSUME NEW U \in SUBSET T, NEW x \in T \ U, U \in Good PROVE U \cup {x} \in Good
  <2> DEFINE V == U \cup {x}
  <2>1. V \in SUBSET T /\ IsFiniteSet(V) /\ IsFiniteSet(U) /\ x \in V /\ V \ {x} = U
    BY <1>0, <1>2, FS_Subset
  <2>2. (\A y \in V : f[y] \in Int) /\ f[x] = c
    BY <1>0, <2>1
  <2>3. Cardinality(V) = Cardinality(U) + 1 /\ Cardinality(U) \in Nat
    BY <1>2, <2>1, FS_AddElement, FS_CardinalityType
  <2> HIDE DEF V
  <2>4. SumFunctionOnSet(f, V) = f[x] + SumFunctionOnSet(f, U)
    BY <2>1, <2>2, SumTake
  <2>5. SumFunctionOnSet(f, U) = c * Cardinality(U)
    BY <1>2
  <2> DEFINE n == Cardinality(U)
  <2>6. c + c * n = c * (n + 1)
    <3>1. n \in Int /\ c \in Int
      BY <2>3
    <3> HIDE DEF n
    <3>2. QED
      BY <3>1
  <2>7. Product(V)
    BY <2>2, <2>3, <2>4, <2>5, <2>6
  <2>8. QED
    BY <2>1, <2>7 DEF V
<1>3. T \in Good
  <2> HIDE DEF Good
  <2>1. QED
    BY <1>0, <1>1, <1>2, FiniteInduction
<1>4. SumFunctionOnSet(f, S) = SumFunctionOnSet(f, T)
  <2>1. (\A x \in S : f[x] \in Int) /\ \A x \in S \ T : f[x] = 0
    OBVIOUS
  <2>2. QED
    BY <2>1, SumWithin
<1>5. QED
  BY <1>3, <1>4

LEMMA ImageFinite ==
    ASSUME NEW S, IsFiniteSet(S), NEW f
    PROVE  IsFiniteSet({f[x] : x \in S})
<1> DEFINE T == {f[x] : x \in S}
           onto == [x \in S |-> f[x]]
<1>1. onto \in Surjection(S, T)
  BY DEF Surjection
<1> HIDE DEF onto
<1>2. QED
  BY <1>1, FS_Surjection

\* The sum of what an injective function takes to other elements.
LEMMA SumMapped ==
    ASSUME NEW S, IsFiniteSet(S), NEW f, NEW g, NEW h,
           \A x \in S : g[x] \in Int /\ f[h[x]] = g[x],
           \A x, y \in S : h[x] = h[y] => x = y
    PROVE  SumFunctionOnSet(f, {h[x] : x \in S}) = SumFunctionOnSet(g, S)
<1> DEFINE Image(T) == {h[x] : x \in T}
           Good == {T \in SUBSET S : /\ IsFiniteSet(Image(T))
                                     /\ SumFunctionOnSet(f, Image(T)) = SumFunctionOnSet(g, T)}
<1>1. {} \in Good
  <2>1. Image({}) = {}
    OBVIOUS
  <2>2. QED
    BY <2>1, SumEmpty, FS_EmptySet
<1>2. ASSUME NEW T \in SUBSET S, NEW x \in S \ T, T \in Good PROVE T \cup {x} \in Good
  <2> DEFINE U == T \cup {x}
  <2>1. U \in SUBSET S /\ IsFiniteSet(U) /\ x \in U /\ U \ {x} = T /\ \A y \in U : g[y] \in Int
    BY <1>2, FS_Subset
  <2>2. Image(U) = Image(T) \cup {h[x]} /\ h[x] \notin Image(T)
    BY <1>2
  <2>3. Image(U) \ {h[x]} = Image(T) /\ h[x] \in Image(U)
    BY <2>2
  <2>4. IsFiniteSet(Image(U))
    <3>1. IsFiniteSet(Image(T))
      BY <1>2
    <3> HIDE DEF Image, U
    <3>2. IsFiniteSet(Image(T) \cup {h[x]})
      BY <3>1, FS_AddElement
    <3>3. QED
      BY <2>2, <3>2
  <2>5. \A y \in Image(U) : f[y] \in Int
    BY <2>1
  <2>6. SumFunctionOnSet(f, Image(T)) = SumFunctionOnSet(g, T)
    BY <1>2
  <2>7. f[h[x]] = g[x]
    BY <1>2
  <2> HIDE DEF U, Image
  <2>8. SumFunctionOnSet(f, Image(U)) = f[h[x]] + SumFunctionOnSet(f, Image(T))
    BY <2>3, <2>4, <2>5, SumTake
  <2>9. SumFunctionOnSet(g, U) = g[x] + SumFunctionOnSet(g, T)
    BY <2>1, SumTake
  <2>10. SumFunctionOnSet(f, Image(U)) = SumFunctionOnSet(g, U)
    BY <2>6, <2>7, <2>8, <2>9
  <2>11. QED
    BY <2>1, <2>4, <2>10 DEF U
<1>3. S \in Good
  <2> HIDE DEF Good
  <2>1. QED
    BY <1>1, <1>2, FiniteInduction
<1>4. QED
  BY <1>3

-----------------------------------------------------------------------------
(* The same for SumFunction, the sum over a function's whole domain.       *)

LEMMA FunctionSum == ASSUME NEW S, NEW f \in [S -> Int] PROVE SumFunction(f) = SumFunctionOnSet(f, S)
BY DEF SumFunction

LEMMA FunctionInt ==
    ASSUME NEW S, IsFiniteSet(S), NEW f \in [S -> Int]
    PROVE  SumFunction(f) \in Int
BY FunctionSum, SumInt

LEMMA FunctionNat ==
    ASSUME NEW S, IsFiniteSet(S), NEW f \in [S -> Nat]
    PROVE  SumFunction(f) \in Nat /\ \A x \in S : f[x] <= SumFunction(f)
<1>1. f \in [S -> Int] /\ \A x \in S : f[x] \in Nat
  OBVIOUS
<1>2. SumFunction(f) = SumFunctionOnSet(f, S)
  BY <1>1, FunctionSum
<1>3. QED
  BY <1>1, <1>2, SumNat

LEMMA FunctionZero ==
    ASSUME NEW S, IsFiniteSet(S), NEW f \in [S -> Int], \A x \in S : f[x] = 0
    PROVE  SumFunction(f) = 0
BY FunctionSum, SumZero

LEMMA FunctionChanged ==
    ASSUME NEW S, IsFiniteSet(S), NEW f \in [S -> Int], NEW g \in [S -> Int],
           NEW x \in S, \A y \in S : y # x => g[y] = f[y]
    PROVE  /\ SumFunction(g) = SumFunction(f) - f[x] + g[x]
           /\ SumFunction(f) \in Int
<1>1. /\ \A y \in S : f[y] \in Int /\ g[y] \in Int
      /\ \A y \in S \ {x} : g[y] = f[y]
  OBVIOUS
<1>2. SumFunctionOnSet(g, S) = SumFunctionOnSet(f, S) - f[x] + g[x]
  BY <1>1, SumChanged
<1>3. QED
  BY <1>2, FunctionSum, FunctionInt

LEMMA FunctionAtMost ==
    ASSUME NEW S, IsFiniteSet(S), NEW f \in [S -> Int], NEW g \in [S -> Int],
           \A x \in S : f[x] <= g[x]
    PROVE  SumFunction(f) <= SumFunction(g)
<1>1. \A x \in S : f[x] \in Int /\ g[x] \in Int /\ f[x] <= g[x]
  OBVIOUS
<1>2. QED
  BY <1>1, FunctionSum, SumAtMost

=============================================================================
