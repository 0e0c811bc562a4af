----------------------------- MODULE SetInduction -----------------------------
(* Induction over numbers and finite sets, stated with sets of the things to  *)
(* be shown instead of predicates, so that it can be instantiated; recursion   *)
(* over finite sets, by functions; and the sums the models take over them.     *)
EXTENDS Integers, FiniteSets, FiniteSetsExt, FiniteSetTheorems, WellFoundedInduction, TLAPS

LEMMA LeastElement ==
    ASSUME NEW T, T \subseteq Nat, T # {}
    PROVE  \E m \in T : \A n \in T : m <= n
  <1> DEFINE R == OpToRel(<, Nat)
  <1>1. IsWellFoundedOn(R, Nat)
    BY NatLessThanWellFounded, Zenon
  <1>2. \A x, y \in Nat : <<x, y>> \in R <=> x < y
    BY DEF OpToRel
  <1> HIDE DEF R
  <1>3. PICK x \in T : \A y \in T : ~ (<<y, x>> \in R)
    BY <1>1, WFMin
  <1>4. ASSUME NEW n \in T PROVE x <= n
    <2>1. ~ (n < x)
      BY <1>2, <1>3
    <2> QED
      BY <2>1
  <1> QED
    BY <1>4

LEMMA NatSetInduction ==
    ASSUME NEW T, T \subseteq Nat, 0 \in T, \A n \in T : n + 1 \in T
    PROVE  T = Nat
  <1> SUFFICES ASSUME Nat \ T # {} PROVE FALSE
    OBVIOUS
  <1>1. PICK m \in Nat \ T : \A n \in Nat \ T : m <= n
    BY LeastElement
  <1>2. m - 1 \in T
    BY <1>1
  <1> QED
    BY <1>1, <1>2

\* A family that holds the empty set, and with a set also the set with one more
\* element of S, holds S.
LEMMA FiniteSetInduction ==
    ASSUME NEW S, IsFiniteSet(S), NEW F, F \subseteq SUBSET S, {} \in F,
           \A T \in F, x \in S : T \cup {x} \in F
    PROVE  S \in F
  <1> DEFINE N == {n \in Nat : \A T \in SUBSET S : Cardinality(T) = n => T \in F}
  <1>1. 0 \in N
    BY FS_EmptySet, FS_Subset
  <1>2. ASSUME NEW n \in N PROVE n + 1 \in N
    <2>1. n \in Nat /\ \A U \in SUBSET S : Cardinality(U) = n => U \in F
      OBVIOUS
    <2>2. ASSUME NEW T \in SUBSET S, Cardinality(T) = n + 1 PROVE T \in F
      <3> HIDE DEF N
      <3>1. IsFiniteSet(T) /\ T # {}
        BY <2>1, <2>2, FS_Subset, FS_EmptySet
      <3>2. PICK x \in T : TRUE
        BY <3>1
      <3>3. Cardinality(T \ {x}) = Cardinality(T) - 1
        BY <3>1, FS_RemoveElement
      <3>4. T \ {x} \in F
        BY <2>1, <2>2, <3>3
      <3>5. T = (T \ {x}) \cup {x}
        OBVIOUS
      <3> QED
        BY <3>4, <3>5
    <2> QED
      BY <2>1, <2>2
  <1> HIDE DEF N
  <1>3. N = Nat
    BY <1>1, <1>2, NatSetInduction DEF N
  <1>4. Cardinality(S) \in Nat
    BY FS_CardinalityType
  <1> QED
    BY <1>3, <1>4 DEF N

\* The same over the size of the sets: what holds of a set when it holds of all
\* that lack one of its elements holds of all subsets of S.
LEMMA SubsetInduction ==
    ASSUME NEW S, IsFiniteSet(S), NEW F, {} \in F,
           \A T \in SUBSET S : T # {} /\ (\A x \in T : T \ {x} \in F) => T \in F
    PROVE  SUBSET S \subseteq F
  <1> DEFINE N == {n \in Nat : \A T \in SUBSET S : Cardinality(T) = n => T \in F}
  <1>1. 0 \in N
    BY FS_EmptySet, FS_Subset
  <1>2. ASSUME NEW n \in N PROVE n + 1 \in N
    <2>1. n \in Nat /\ \A U \in SUBSET S : Cardinality(U) = n => U \in F
      OBVIOUS
    <2>2. ASSUME NEW T \in SUBSET S, Cardinality(T) = n + 1 PROVE T \in F
      <3> HIDE DEF N
      <3>1. IsFiniteSet(T) /\ T # {}
        BY <2>1, <2>2, FS_Subset, FS_EmptySet
      <3>2. ASSUME NEW x \in T PROVE T \ {x} \in F
        <4>1. Cardinality(T \ {x}) = Cardinality(T) - 1
          BY <3>1, FS_RemoveElement
        <4> QED
          BY <2>1, <2>2, <4>1
      <3> QED
        BY <3>1, <3>2
    <2> QED
      BY <2>1, <2>2
  <1> HIDE DEF N
  <1>3. N = Nat
    BY <1>1, <1>2, NatSetInduction DEF N
  <1>4. ASSUME NEW T \in SUBSET S PROVE T \in F
    <2>1. Cardinality(T) \in Nat
      BY FS_Subset, FS_CardinalityType
    <2> QED
      BY <1>3, <2>1 DEF N
  <1> QED
    BY <1>4

-----------------------------------------------------------------------------
(* Recursion.                                                                *)

\* g takes the elements c chooses out of a set one by one, starting from b.
FoldOf(S, V, b, c, h, g) ==
    /\ g \in [SUBSET S -> V] /\ g[{}] = b
    /\ \A T \in (SUBSET S) \ {{}} : g[T] = h[c[T]][g[T \ {c[T]}]]

LEMMA FoldExists ==
    ASSUME NEW S, IsFiniteSet(S), NEW V, NEW b \in V,
           NEW c \in [(SUBSET S) \ {{}} -> S], \A T \in (SUBSET S) \ {{}} : c[T] \in T,
           NEW h \in [S -> [V -> V]]
    PROVE  \E g : FoldOf(S, V, b, c, h, g)
  <1> DEFINE Small(n) == {T \in SUBSET S : Cardinality(T) <= n}
             Upto(n, g) ==
                /\ g \in [Small(n) -> V] /\ g[{}] = b
                /\ \A T \in Small(n) \ {{}} : g[T] = h[c[T]][g[T \ {c[T]}]]
             N == {n \in Nat : \E g : Upto(n, g)}
  <1>1. ASSUME NEW T \in SUBSET S
        PROVE  /\ IsFiniteSet(T) /\ Cardinality(T) \in Nat /\ Cardinality(T) <= Cardinality(S)
               /\ Cardinality(T) = 0 <=> T = {}
    BY FS_Subset, FS_CardinalityType, FS_EmptySet
  <1>2. ASSUME NEW T \in (SUBSET S) \ {{}}
        PROVE  /\ c[T] \in T /\ c[T] \in S /\ T \ {c[T]} \in SUBSET S
               /\ Cardinality(T \ {c[T]}) = Cardinality(T) - 1
    <2>1. c[T] \in T
      OBVIOUS
    <2>2. Cardinality(T \ {c[T]}) = Cardinality(T) - 1
      BY <1>1, <2>1, FS_RemoveElement
    <2> QED
      BY <2>1, <2>2
  <1>3. {} \in SUBSET S /\ Cardinality({}) = 0
    BY FS_EmptySet
  <1>4. 0 \in N
    <2>1. \A T \in Small(0) : T = {}
      BY <1>1
    <2>2. Upto(0, [T \in Small(0) |-> b])
      BY <1>3, <2>1
    <2> QED
      BY <2>2
  <1>5. ASSUME NEW n \in N PROVE n + 1 \in N
    <2>1. n \in Nat
      OBVIOUS
    <2>2. PICK f : Upto(n, f)
      OBVIOUS
    <2> DEFINE g == [T \in Small(n + 1) |->
                       IF T = {} THEN b ELSE h[c[T]][f[T \ {c[T]}]]]
    <2>3. ASSUME NEW T \in Small(n + 1) \ {{}}
          PROVE  /\ T \ {c[T]} \in Small(n) /\ c[T] \in S /\ f[T \ {c[T]}] \in V
                 /\ h[c[T]][f[T \ {c[T]}]] \in V
      <3> HIDE DEF g
      <3>1. T \in SUBSET S /\ T # {} /\ Cardinality(T) <= n + 1
        OBVIOUS
      <3>2. T \ {c[T]} \in SUBSET S /\ Cardinality(T \ {c[T]}) <= n /\ c[T] \in S
        <4>1. Cardinality(T \ {c[T]}) = Cardinality(T) - 1 /\ c[T] \in S
          BY <1>2, <3>1, Zenon
        <4>2. Cardinality(T) \in Nat
          BY <1>1, <3>1, Zenon
        <4> HIDE DEF Small, N
        <4> QED
          BY <2>1, <3>1, <4>1, <4>2
      <3>3. T \ {c[T]} \in Small(n)
        BY <3>2
      <3> HIDE DEF Small
      <3>4. f[T \ {c[T]}] \in V
        BY <2>2, <3>3
      <3>5. h[c[T]] \in [V -> V]
        BY <3>2
      <3> QED
        BY <3>2, <3>3, <3>4, <3>5
    <2>4. ASSUME NEW T \in Small(n) PROVE T \in Small(n + 1) /\ g[T] = f[T]
      <3>1. T \in Small(n + 1)
        BY <1>1, <2>1
      <3>2. g[T] = IF T = {} THEN b ELSE h[c[T]][f[T \ {c[T]}]]
        BY <3>1
      <3> HIDE DEF g
      <3> QED
        BY <2>2, <3>1, <3>2
    <2> HIDE DEF Small
    <2>5. g \in [Small(n + 1) -> V]
      BY <2>3
    <2>6. {} \in Small(n + 1)
      BY <1>3, <2>1 DEF Small
    <2>7. ASSUME NEW T \in Small(n + 1) \ {{}} PROVE g[T] = h[c[T]][g[T \ {c[T]}]]
      <3>1. g[T \ {c[T]}] = f[T \ {c[T]}]
        BY <2>3, <2>4
      <3>2. g[T] = h[c[T]][f[T \ {c[T]}]]
        OBVIOUS
      <3> QED
        BY <3>1, <3>2, Zenon
    <2>8. g[{}] = b
      BY <2>6
    <2> HIDE DEF g
    <2>9. Upto(n + 1, g)
      BY <2>5, <2>7, <2>8
    <2> HIDE DEF Upto
    <2> QED
      BY <2>1, <2>9
  <1> HIDE DEF N
  <1>6. N = Nat
    <2>1. N \subseteq Nat
      BY DEF N
    <2> HIDE DEF Upto, Small
    <2> QED
      BY <1>4, <1>5, <2>1, NatSetInduction
  <1>7. Small(Cardinality(S)) = SUBSET S
    BY <1>1
  <1>8. Cardinality(S) \in N
    BY <1>6, FS_CardinalityType
  <1>9. PICK g : Upto(Cardinality(S), g)
    BY <1>8 DEF N
  <1> HIDE DEF Small
  <1> QED
    BY <1>7, <1>9 DEF FoldOf

\* A function that takes what h gives whenever that is defined is the fold.
LEMMA FoldUnique ==
    ASSUME NEW S, IsFiniteSet(S), NEW V, NEW b, NEW c, NEW h, NEW g,
           \A T \in (SUBSET S) \ {{}} : c[T] \in T, FoldOf(S, V, b, c, h, g),
           NEW f, f[{}] = b,
           \A T \in (SUBSET S) \ {{}} :
              f[T \ {c[T]}] \in V => f[T] = h[c[T]][f[T \ {c[T]}]]
    PROVE  \A T \in SUBSET S : f[T] = g[T]
  <1> DEFINE F == {T \in SUBSET S : f[T] = g[T]}
  <1>1. {} \in F
    BY DEF FoldOf
  <1>2. ASSUME NEW T \in SUBSET S, T # {}, \A x \in T : T \ {x} \in F PROVE T \in F
    <2>1. T \ {c[T]} \in F
      BY <1>2
    <2>2. f[T \ {c[T]}] = g[T \ {c[T]}] /\ g[T \ {c[T]}] \in V
      BY <2>1 DEF FoldOf
    <2>3. f[T] = h[c[T]][f[T \ {c[T]}]] /\ g[T] = h[c[T]][g[T \ {c[T]}]]
      BY <1>2, <2>2 DEF FoldOf
    <2> QED
      BY <2>2, <2>3
  <1> HIDE DEF F
  <1>3. SUBSET S \subseteq F
    BY <1>1, <1>2, SubsetInduction
  <1> QED
    BY <1>3 DEF F

-----------------------------------------------------------------------------
(* Sums.                                                                     *)

Total(w, S) == MapThenSumSet(LAMBDA x : w[x], S)

Pick(T) == CHOOSE x \in T : TRUE

\* The sums of w over all subsets of S.
Sums(w, S, g) ==
    /\ g \in [SUBSET S -> Int] /\ g[{}] = 0
    /\ \A T \in (SUBSET S) \ {{}} : g[T] = w[Pick(T)] + g[T \ {Pick(T)}]

LEMMA PickIn == ASSUME NEW T, T # {} PROVE Pick(T) \in T
  BY DEF Pick

LEMMA SumsExist == ASSUME NEW S, IsFiniteSet(S), NEW w, \A x \in S : w[x] \in Int PROVE \E g : Sums(w, S, g)
  <1> DEFINE c == [T \in (SUBSET S) \ {{}} |-> Pick(T)]
             h == [x \in S |-> [n \in Int |-> w[x] + n]]
  <1>1. \A T \in (SUBSET S) \ {{}} : c[T] = Pick(T) /\ c[T] \in T /\ c[T] \in S
    BY PickIn
  <1>2. c \in [(SUBSET S) \ {{}} -> S] /\ h \in [S -> [Int -> Int]]
    <2>1. c \in [(SUBSET S) \ {{}} -> S]
      BY PickIn
    <2>2. ASSUME NEW x \in S PROVE [n \in Int |-> w[x] + n] \in [Int -> Int]
      OBVIOUS
    <2>3. h \in [S -> [Int -> Int]]
      BY <2>2
    <2> QED
      BY <2>1, <2>3
  <1>3. \A x \in S, n \in Int : h[x][n] = w[x] + n
    OBVIOUS
  <1> HIDE DEF c, h
  <1> 0 \in Int
    OBVIOUS
  <1>4. PICK g : FoldOf(S, Int, 0, c, h, g)
    BY <1>1, <1>2, FoldExists, Zenon
  <1>5. ASSUME NEW T \in (SUBSET S) \ {{}} PROVE g[T] = w[Pick(T)] + g[T \ {Pick(T)}]
    <2>1. g[T] = h[c[T]][g[T \ {c[T]}]] /\ g[T \ {c[T]}] \in Int
      BY <1>4 DEF FoldOf
    <2> QED
      BY <1>1, <1>3, <2>1
  <1> QED
    BY <1>4, <1>5 DEF FoldOf, Sums

\* Sums depend on the values of the elements only.
LEMMA SumsAgree ==
    ASSUME NEW S, IsFiniteSet(S), NEW w, NEW v, NEW g, NEW f, NEW R, S \subseteq R,
           Sums(w, S, g), Sums(v, R, f), \A x \in S : w[x] = v[x]
    PROVE  \A T \in SUBSET S : g[T] = f[T]
  <1> DEFINE F == {T \in SUBSET S : g[T] = f[T]}
  <1>1. {} \in F
    BY DEF Sums
  <1>2. ASSUME NEW T \in SUBSET S, T # {}, \A x \in T : T \ {x} \in F PROVE T \in F
    <2>1. Pick(T) \in T /\ w[Pick(T)] = v[Pick(T)]
      BY <1>2, PickIn
    <2>2. g[T \ {Pick(T)}] = f[T \ {Pick(T)}]
      BY <1>2, <2>1
    <2> QED
      BY <1>2, <2>1, <2>2 DEF Sums
  <1> HIDE DEF F
  <1>3. SUBSET S \subseteq F
    BY <1>1, <1>2, SubsetInduction
  <1> QED
    BY <1>3 DEF F

\* The recursive function behind Total is the function of the sums.
LEMMA SumIs ==
    ASSUME NEW S, IsFiniteSet(S), NEW w, \A x \in S : w[x] \in Int, NEW g, Sums(w, S, g)
    PROVE  Total(w, S) = g[S]
  <1> DEFINE Eq(f) == f = [T \in SUBSET S |->
                             IF T = {} THEN 0 ELSE w[Pick(T)] + f[T \ {Pick(T)}]]
  <1>1. Total(w, S) = (CHOOSE f : Eq(f))[S]
    BY Zenon DEF Total, MapThenSumSet, MapThenFoldSet, Pick
  <1>2. Eq(g)
    <2>1. g = [T \in SUBSET S |-> g[T]]
      BY DEF Sums
    <2>2. \A T \in SUBSET S : g[T] = IF T = {} THEN 0 ELSE w[Pick(T)] + g[T \ {Pick(T)}]
      BY DEF Sums
    <2> QED
      BY <2>1, <2>2
  <1> DEFINE f == CHOOSE f : Eq(f)
  <1>3. Eq(f)
    BY <1>2
  <1>4. /\ f[{}] = 0
        /\ \A T \in (SUBSET S) \ {{}} : f[T] = w[Pick(T)] + f[T \ {Pick(T)}]
    BY <1>3
  <1> HIDE DEF f, Eq
  <1> DEFINE F == {T \in SUBSET S : f[T] = g[T]}
  <1>5. {} \in F
    BY <1>4 DEF Sums
  <1>6. ASSUME NEW T \in SUBSET S, T # {}, \A x \in T : T \ {x} \in F PROVE T \in F
    <2>1. f[T \ {Pick(T)}] = g[T \ {Pick(T)}]
      BY <1>6, PickIn
    <2> QED
      BY <1>4, <1>6, <2>1 DEF Sums
  <1> HIDE DEF F
  <1>7. SUBSET S \subseteq F
    BY <1>5, <1>6, SubsetInduction
  <1> QED
    BY <1>1, <1>7 DEF F, f

\* The order in which elements are taken does not matter.
LEMMA SumsRemove ==
    ASSUME NEW S, IsFiniteSet(S), NEW w, \A x \in S : w[x] \in Int, NEW g, Sums(w, S, g)
    PROVE  \A T \in SUBSET S : \A x \in T : g[T] = w[x] + g[T \ {x}]
  <1> DEFINE F == {T \in SUBSET S : \A x \in T : g[T] = w[x] + g[T \ {x}]}
  <1>1. {} \in F
    OBVIOUS
  <1>2. ASSUME NEW T \in SUBSET S, T # {}, \A x \in T : T \ {x} \in F PROVE T \in F
    <2> DEFINE y == Pick(T)
    <2>1. y \in T /\ g[T] = w[y] + g[T \ {y}]
      BY <1>2, PickIn DEF Sums
    <2> HIDE DEF y
    <2>2. ASSUME NEW x \in T PROVE g[T] = w[x] + g[T \ {x}]
      <3>1. CASE x = y
        BY <2>1, <3>1
      <3>2. CASE x # y
        <4>1. (T \ {y}) \ {x} = (T \ {x}) \ {y} /\ (T \ {y}) \ {x} \in SUBSET S
          OBVIOUS
        <4>2. g[T \ {y}] = w[x] + g[(T \ {y}) \ {x}]
          BY <1>2, <2>1, <3>2
        <4>3. g[T \ {x}] = w[y] + g[(T \ {x}) \ {y}]
          BY <1>2, <2>1, <3>2
        <4>4. w[x] \in Int /\ w[y] \in Int /\ g[(T \ {y}) \ {x}] \in Int
          BY <2>1, <4>1 DEF Sums
        <4> DEFINE n == g[(T \ {y}) \ {x}]
        <4>5. /\ g[T] = w[y] + g[T \ {y}] /\ g[T \ {y}] = w[x] + n
              /\ g[T \ {x}] = w[y] + n
          BY <2>1, <4>1, <4>2, <4>3, Zenon
        <4> HIDE DEF n
        <4> QED
          BY <4>4, <4>5 DEF n
      <3> QED
        BY <3>1, <3>2
    <2> QED
      BY <2>2
  <1> HIDE DEF F
  <1>3. SUBSET S \subseteq F
    BY <1>1, <1>2, SubsetInduction
  <1> QED
    BY <1>3 DEF F

LEMMA SumType ==
    ASSUME NEW S, IsFiniteSet(S), NEW w, \A x \in S : w[x] \in Int
    PROVE  Total(w, S) \in Int /\ (S = {} => Total(w, S) = 0)
  <1>1. PICK g : Sums(w, S, g)
    BY SumsExist
  <1>2. Total(w, S) = g[S]
    BY <1>1, SumIs
  <1> QED
    BY <1>1, <1>2 DEF Sums

LEMMA SumRemove ==
    ASSUME NEW S, IsFiniteSet(S), NEW w, \A x \in S : w[x] \in Int, NEW x \in S
    PROVE  Total(w, S) = w[x] + Total(w, S \ {x})
  <1>1. PICK g : Sums(w, S, g)
    BY SumsExist
  <1>2. IsFiniteSet(S \ {x}) /\ \A y \in S \ {x} : w[y] \in Int
    BY FS_RemoveElement
  <1>3. PICK f : Sums(w, S \ {x}, f)
    BY <1>2, SumsExist
  <1>4. f[S \ {x}] = g[S \ {x}]
    <2>1. \A T \in SUBSET (S \ {x}) : f[T] = g[T]
      BY <1>1, <1>2, <1>3, SumsAgree
    <2> QED
      BY <2>1
  <1>5. g[S] = w[x] + g[S \ {x}]
    BY <1>1, SumsRemove
  <1>6. Total(w, S) = g[S] /\ Total(w, S \ {x}) = f[S \ {x}]
    BY <1>1, <1>2, <1>3, SumIs
  <1> QED
    BY <1>4, <1>5, <1>6

LEMMA SumAgree ==
    ASSUME NEW S, IsFiniteSet(S), NEW w, \A x \in S : w[x] \in Int,
           NEW v, \A x \in S : w[x] = v[x]
    PROVE  Total(w, S) = Total(v, S)
  <1>1. \A x \in S : v[x] \in Int
    OBVIOUS
  <1>2. PICK g : Sums(w, S, g)
    BY SumsExist
  <1>3. PICK f : Sums(v, S, f)
    BY <1>1, SumsExist
  <1>4. g[S] = f[S]
    <2>1. \A T \in SUBSET S : g[T] = f[T]
      BY <1>2, <1>3, SumsAgree
    <2> QED
      BY <2>1
  <1> QED
    BY <1>1, <1>2, <1>3, <1>4, SumIs

\* One summand changes.
LEMMA SumChange ==
    ASSUME NEW S, IsFiniteSet(S), NEW w, \A x \in S : w[x] \in Int, NEW x \in S,
           NEW v, v[x] \in Int, \A y \in S \ {x} : v[y] = w[y]
    PROVE  Total(v, S) = Total(w, S) + v[x] - w[x]
  <1>1. IsFiniteSet(S \ {x}) /\ \A y \in S \ {x} : w[y] \in Int
    BY FS_RemoveElement
  <1>2. Total(w, S \ {x}) = Total(v, S \ {x}) /\ Total(w, S \ {x}) \in Int
    BY <1>1, SumAgree, SumType
  <1>3. \A y \in S : v[y] \in Int
    OBVIOUS
  <1>4. Total(w, S) = w[x] + Total(w, S \ {x}) /\ Total(v, S) = v[x] + Total(v, S \ {x})
    BY <1>3, SumRemove
  <1> QED
    BY <1>2, <1>4

\* Two do.
LEMMA SumChangeTwo ==
    ASSUME NEW S, IsFiniteSet(S), NEW w, \A z \in S : w[z] \in Int,
           NEW x \in S, NEW y \in S, x # y,
           NEW v, v[x] \in Int, v[y] \in Int, \A z \in S \ {x, y} : v[z] = w[z]
    PROVE  Total(v, S) = Total(w, S) + v[x] - w[x] + v[y] - w[y]
  <1> DEFINE u == [z \in S |-> IF z = x THEN v[x] ELSE w[z]]
  <1>1. u[x] = v[x] /\ u[y] = w[y] /\ \A z \in S \ {x} : u[z] = w[z]
    OBVIOUS
  <1> HIDE DEF u
  <1>2. \A z \in S : u[z] \in Int
    BY <1>1
  <1>3. \A z \in S \ {y} : v[z] = u[z]
    BY <1>1
  <1>4. Total(u, S) = Total(w, S) + u[x] - w[x]
    BY <1>1, SumChange
  <1>5. Total(v, S) = Total(u, S) + v[y] - u[y]
    BY <1>2, <1>3, SumChange
  <1>6. Total(w, S) \in Int
    BY SumType
  <1> QED
    BY <1>1, <1>4, <1>5, <1>6

LEMMA SumOnes ==
    ASSUME NEW S, IsFiniteSet(S), NEW w, \A x \in S : w[x] = 1
    PROVE  Total(w, S) = Cardinality(S)
  <1> DEFINE F == {T \in SUBSET S : Total(w, T) = Cardinality(T)}
  <1>1. {} \in F
    BY SumType, FS_EmptySet
  <1>2. ASSUME NEW T \in SUBSET S, T # {}, \A x \in T : T \ {x} \in F PROVE T \in F
    <2>1. IsFiniteSet(T) /\ \A x \in T : w[x] \in Int
      BY FS_Subset
    <2>2. PICK x \in T : TRUE
      BY <1>2
    <2>3. Total(w, T) = 1 + Total(w, T \ {x})
      BY <2>1, SumRemove
    <2>4. Total(w, T \ {x}) = Cardinality(T \ {x}) /\ Cardinality(T \ {x}) = Cardinality(T) - 1
      BY <1>2, <2>1, FS_RemoveElement
    <2>5. Cardinality(T) \in Nat
      BY <2>1, FS_CardinalityType
    <2> QED
      BY <2>3, <2>4, <2>5
  <1> HIDE DEF F
  <1>3. SUBSET S \subseteq F
    BY <1>1, <1>2, SubsetInduction
  <1> QED
    BY <1>3 DEF F

\* A set is split in two.
LEMMA SumSplit ==
    ASSUME NEW S, IsFiniteSet(S), NEW w, \A x \in S : w[x] \in Int, NEW R \in SUBSET S
    PROVE  Total(w, S) = Total(w, R) + Total(w, S \ R)
  <1> DEFINE F == {T \in SUBSET S : Total(w, T) = Total(w, T \cap R) + Total(w, T \ R)}
  <1>1. {} \in F
    <2>1. Total(w, {}) = 0
      BY SumType, FS_EmptySet
    <2>2. {} \cap R = {} /\ {} \ R = {}
      OBVIOUS
    <2>3. Total(w, {}) = Total(w, {} \cap R) + Total(w, {} \ R)
      BY <2>1, <2>2
    <2> QED
      BY <2>3
  <1>2. ASSUME NEW T \in SUBSET S, T # {}, \A x \in T : T \ {x} \in F PROVE T \in F
    <2>1. /\ IsFiniteSet(T) /\ IsFiniteSet(T \cap R) /\ IsFiniteSet(T \ R)
          /\ \A x \in T : w[x] \in Int
      BY FS_Subset
    <2>2. PICK x \in T : TRUE
      BY <1>2
    <2>3. Total(w, T) = w[x] + Total(w, T \ {x})
      BY <2>1, SumRemove
    <2>4. Total(w, T \ {x}) = Total(w, (T \ {x}) \cap R) + Total(w, (T \ {x}) \ R)
      BY <1>2
    <2>5. Total(w, T \cap R) \in Int /\ Total(w, T \ R) \in Int
      BY <2>1, SumType
    <2>6. Total(w, T) = Total(w, T \cap R) + Total(w, T \ R)
      <3> DEFINE whole == Total(w, T)
                 less  == Total(w, T \ {x})
                 in    == Total(w, T \cap R)
                 out   == Total(w, T \ R)
                 in1   == Total(w, (T \ {x}) \cap R)
                 out1  == Total(w, (T \ {x}) \ R)
                 at    == w[x]
      <3>1. whole = at + less /\ less = in1 + out1 /\ at \in Int /\ in \in Int /\ out \in Int
        BY <2>1, <2>3, <2>4, <2>5, Zenon
      <3>2. CASE x \in R
        <4>1. (T \ {x}) \ R = T \ R /\ (T \ {x}) \cap R = (T \cap R) \ {x} /\ x \in T \cap R
          BY <3>2
        <4>2. Total(w, T \cap R) = w[x] + Total(w, (T \cap R) \ {x})
          BY <2>1, <4>1, SumRemove
        <4>3. IsFiniteSet((T \cap R) \ {x}) /\ \A y \in (T \cap R) \ {x} : w[y] \in Int
          BY <2>1, FS_RemoveElement
        <4>4. Total(w, (T \cap R) \ {x}) \in Int
          BY <4>3, SumType
        <4>5. out1 = out /\ in = at + in1 /\ in1 \in Int
          BY <4>1, <4>2, <4>4, Zenon
        <4> HIDE DEF whole, less, in, out, in1, out1, at
        <4>6. whole = in + out
          BY <3>1, <4>5
        <4> QED
          BY <4>6 DEF whole, in, out
      <3>3. CASE x \notin R
        <4>1. (T \ {x}) \ R = (T \ R) \ {x} /\ (T \ {x}) \cap R = T \cap R /\ x \in T \ R
          BY <3>3
        <4>2. Total(w, T \ R) = w[x] + Total(w, (T \ R) \ {x})
          BY <2>1, <4>1, SumRemove
        <4>3. IsFiniteSet((T \ R) \ {x}) /\ \A y \in (T \ R) \ {x} : w[y] \in Int
          BY <2>1, FS_RemoveElement
        <4>4. Total(w, (T \ R) \ {x}) \in Int
          BY <4>3, SumType
        <4>5. in1 = in /\ out = at + out1 /\ out1 \in Int
          BY <4>1, <4>2, <4>4, Zenon
        <4> HIDE DEF whole, less, in, out, in1, out1, at
        <4>6. whole = in + out
          BY <3>1, <4>5
        <4> QED
          BY <4>6 DEF whole, in, out
      <3> QED
        BY <3>2, <3>3
    <2> QED
      BY <2>6
  <1> HIDE DEF F
  <1>3. SUBSET S \subseteq F
    BY <1>1, <1>2, SubsetInduction
  <1>4. S \cap R = R
    OBVIOUS
  <1> QED
    BY <1>3, <1>4 DEF F

LEMMA SumZeros ==
    ASSUME NEW S, IsFiniteSet(S), NEW w, \A x \in S : w[x] = 0
    PROVE  Total(w, S) = 0
  <1> DEFINE F == {T \in SUBSET S : Total(w, T) = 0}
  <1>1. {} \in F
    BY SumType, FS_EmptySet
  <1>2. ASSUME NEW T \in SUBSET S, T # {}, \A x \in T : T \ {x} \in F PROVE T \in F
    <2>1. IsFiniteSet(T) /\ \A x \in T : w[x] \in Int
      BY FS_Subset
    <2>2. PICK x \in T : TRUE
      BY <1>2
    <2>3. Total(w, T) = 0 + Total(w, T \ {x}) /\ Total(w, T \ {x}) = 0
      BY <1>2, <2>1, SumRemove
    <2> QED
      BY <2>3
  <1> HIDE DEF F
  <1>3. SUBSET S \subseteq F
    BY <1>1, <1>2, SubsetInduction
  <1> QED
    BY <1>3 DEF F

\* The summands are the same under other names.
LEMMA SumBijection ==
    ASSUME NEW S, IsFiniteSet(S), NEW f, \A x, y \in S : f[x] = f[y] => x = y,
           NEW w, NEW v, \A x \in S : v[x] = w[f[x]] /\ v[x] \in Int,
           NEW R, R = {f[x] : x \in S}
    PROVE  Total(v, S) = Total(w, R)
  <1> DEFINE Im(T) == {f[x] : x \in T}
             F == {T \in SUBSET S : IsFiniteSet(Im(T)) /\ Total(v, T) = Total(w, Im(T))}
  <1>1. {} \in F
    <2>1. Im({}) = {}
      OBVIOUS
    <2> QED
      BY <2>1, SumType, FS_EmptySet
  <1>2. ASSUME NEW T \in SUBSET S, T # {}, \A x \in T : T \ {x} \in F PROVE T \in F
    <2>1. IsFiniteSet(T) /\ \A x \in T : v[x] \in Int
      BY FS_Subset
    <2>2. PICK x \in T : TRUE
      BY <1>2
    <2>3. IsFiniteSet(Im(T \ {x})) /\ Total(v, T \ {x}) = Total(w, Im(T \ {x}))
      BY <1>2
    <2>4. Im(T) = Im(T \ {x}) \cup {f[x]} /\ Im(T \ {x}) = Im(T) \ {f[x]}
      OBVIOUS
    <2>5. f[x] \in Im(T) /\ \A y \in Im(T) : w[y] \in Int
      BY <2>1
    <2>6. v[x] = w[f[x]]
      OBVIOUS
    <2> HIDE DEF Im
    <2>7. IsFiniteSet(Im(T))
      <3>1. IsFiniteSet(Im(T \ {x}) \cup {f[x]})
        BY <2>3, FS_AddElement
      <3> QED
        BY <2>4, <3>1, Zenon
    <2>8. Total(v, T) = v[x] + Total(v, T \ {x})
      BY <2>1, SumRemove
    <2>9. Total(w, Im(T)) = w[f[x]] + Total(w, Im(T) \ {f[x]})
      BY <2>5, <2>7, SumRemove
    <2> QED
      BY <2>3, <2>4, <2>6, <2>7, <2>8, <2>9
  <1> HIDE DEF F
  <1>3. SUBSET S \subseteq F
    BY <1>1, <1>2, SubsetInduction
  <1> QED
    BY <1>3 DEF F

\* A sum over pairs is one of sums.
Line(w, s, T) == [t \in T |-> w[<<s, t>>]]

LEMMA SumPairs ==
    ASSUME NEW S, IsFiniteSet(S), NEW T, IsFiniteSet(T),
           NEW w, \A x \in S \X T : w[x] \in Int,
           NEW u, \A s \in S : u[s] = Total(Line(w, s, T), T)
    PROVE  Total(w, S \X T) = Total(u, S)
  <1> DEFINE Row(s) == {<<s, t>> : t \in T}
             F == {R \in SUBSET S : IsFiniteSet(R \X T) /\ Total(w, R \X T) = Total(u, R)}
  <1>1. ASSUME NEW s \in S PROVE IsFiniteSet(Row(s)) /\ Total(w, Row(s)) = u[s] /\ u[s] \in Int
    <2> DEFINE f == [t \in T |-> <<s, t>>]
               v == [t \in T |-> w[<<s, t>>]]
    <2>1. \A t \in T : f[t] = <<s, t>> /\ v[t] = w[<<s, t>>] /\ v[t] \in Int
      OBVIOUS
    <2>2. \A x, y \in T : f[x] = f[y] => x = y
      BY <2>1
    <2>3. Row(s) = {f[t] : t \in T}
      BY <2>1
    <2>4. f \in Surjection(T, Row(s))
      BY <2>1 DEF Surjection
    <2>5. IsFiniteSet(Row(s))
      BY <2>4, FS_Surjection
    <2>6. u[s] = Total(v, T)
      BY DEF Line
    <2> HIDE DEF f, v
    <2>7. Total(v, T) = Total(w, Row(s))
      <3>1. \A t \in T : v[t] = w[f[t]] /\ v[t] \in Int
        BY <2>1
      <3> HIDE DEF Row
      <3> QED
        BY <2>2, <2>3, <3>1, SumBijection, SMT
    <2>8. Total(v, T) \in Int
      BY <2>1, SumType
    <2> QED
      BY <2>3, <2>5, <2>6, <2>7, <2>8
  <1>2. {} \in F
    <2>1. {} \X T = {}
      OBVIOUS
    <2> QED
      BY <2>1, SumType, FS_EmptySet
  <1>3. ASSUME NEW R \in SUBSET S, R # {}, \A x \in R : R \ {x} \in F PROVE R \in F
    <2>1. IsFiniteSet(R)
      BY FS_Subset
    <2>2. PICK x \in R : TRUE
      BY <1>3
    <2> DEFINE Q == (R \ {x}) \X T
    <2>3. IsFiniteSet(Q) /\ Total(w, Q) = Total(u, R \ {x})
      BY <1>3
    <2>4. R \X T = Row(x) \cup Q /\ (R \X T) \ Row(x) = Q /\ Row(x) \in SUBSET (R \X T)
      OBVIOUS
    <2>5. \A y \in R \X T : w[y] \in Int
      OBVIOUS
    <2> HIDE DEF Q
    <2>6. IsFiniteSet(R \X T)
      <3>1. IsFiniteSet(Row(x)) /\ IsFiniteSet(Q)
        BY <1>1, <2>3, Zenon
      <3>2. IsFiniteSet(Row(x) \cup Q)
        BY <3>1, FS_Union, Zenon
      <3> QED
        BY <2>4, <3>2, Zenon
    <2>7. Total(w, R \X T) = Total(w, Row(x)) + Total(w, Q)
      <3> DEFINE P == R \X T
                 A == Row(x)
      <3>1. IsFiniteSet(P) /\ A \in SUBSET P /\ P \ A = Q /\ \A y \in P : w[y] \in Int
        BY <2>4, <2>5, <2>6, Zenon
      <3> HIDE DEF P, A
      <3>2. Total(w, P) = Total(w, A) + Total(w, P \ A)
        BY <3>1, SumSplit, Zenon
      <3>3. Total(w, P) = Total(w, A) + Total(w, Q)
        BY <3>1, <3>2, Zenon
      <3> QED
        BY <3>3 DEF P, A
    <2>8. Total(u, R) = u[x] + Total(u, R \ {x})
      BY <1>1, <2>1, SumRemove
    <2> QED
      BY <1>1, <2>3, <2>6, <2>7, <2>8
  <1> HIDE DEF F
  <1>4. SUBSET S \subseteq F
    BY <1>2, <1>3, SubsetInduction
  <1> QED
    BY <1>4 DEF F

-----------------------------------------------------------------------------
(* Folds over sequences, from the left.                                      *)

LEMMA MaxOf ==
    ASSUME NEW n \in Nat, NEW T \in (SUBSET (1 .. n)) \ {{}}
    PROVE  Max(T) \in T /\ \A x \in T : x <= Max(T)
  <1> DEFINE U == {n - x : x \in T}
  <1>1. U \subseteq Nat /\ U # {}
    OBVIOUS
  <1>2. PICK u \in U : \A y \in U : u <= y
    BY <1>1, LeastElement
  <1>3. PICK x \in T : u = n - x
    BY <1>2
  <1>4. ASSUME NEW y \in T PROVE x >= y
    <2>1. n - x <= n - y
      BY <1>2, <1>3
    <2>2. x \in Int /\ y \in Int
      OBVIOUS
    <2> QED
      BY <2>1, <2>2
  <1>5. Max(T) \in T /\ \A y \in T : Max(T) >= y
    BY <1>4 DEF Max
  <1> DEFINE m == Max(T)
  <1>6. m \in Int /\ \A y \in T : y \in Int /\ m >= y
    <2>1. T \subseteq Int
      OBVIOUS
    <2> QED
      BY <1>5, <2>1
  <1> HIDE DEF m
  <1>7. \A y \in T : y <= m
    BY <1>6
  <1> QED
    BY <1>5, <1>7 DEF m

LEMMA MaxOfUpto ==
    ASSUME NEW k \in Nat \ {0}
    PROVE  /\ 1 .. k # {} /\ Max(1 .. k) = k /\ (1 .. k) \ {k} = 1 .. (k - 1)
           /\ \A n \in Nat : k <= n => 1 .. k \in (SUBSET (1 .. n)) \ {{}}
  <1>1. 1 .. k \in (SUBSET (1 .. k)) \ {{}} /\ k \in 1 .. k
    OBVIOUS
  <1>2. Max(1 .. k) \in 1 .. k /\ k <= Max(1 .. k)
    BY <1>1, MaxOf
  <1> QED
    BY <1>1, <1>2

\* g takes the steps h from b in the order of their numbers; F are the results, r the last.
LeftFoldOf(n, V, b, h, g) ==
    /\ g \in [SUBSET (1 .. n) -> V] /\ g[{}] = b
    /\ \A T \in (SUBSET (1 .. n)) \ {{}} :
          /\ Max(T) \in 1 .. n /\ g[T \ {Max(T)}] \in V
          /\ g[T] = h[Max(T)][g[T \ {Max(T)}]]

Follows(n, V, b, h, f) ==
    /\ f[{}] = b
    /\ \A T \in (SUBSET (1 .. n)) \ {{}} :
          f[T \ {Max(T)}] \in V => f[T] = h[Max(T)][f[T \ {Max(T)}]]

Runs(n, V, b, h, F, r) ==
    /\ F \in [0 .. n -> V] /\ F[0] = b /\ F[n] = r
    /\ \A k \in 1 .. n : F[k - 1] \in V /\ F[k] = h[k][F[k - 1]]

LEMMA LeftFold ==
    ASSUME NEW n \in Nat, NEW V, NEW b \in V, NEW h \in [1 .. n -> [V -> V]]
    PROVE  \E g : LeftFoldOf(n, V, b, h, g)
  <1> DEFINE S == 1 .. n
             c == [T \in (SUBSET S) \ {{}} |-> Max(T)]
  <1>1. IsFiniteSet(S)
    BY FS_Interval
  <1>2. \A T \in (SUBSET S) \ {{}} : c[T] = Max(T) /\ c[T] \in T /\ c[T] \in S
    BY MaxOf
  <1>3. c \in [(SUBSET S) \ {{}} -> S]
    BY MaxOf
  <1> HIDE DEF c, S
  <1>4. h \in [S -> [V -> V]]
    BY DEF S
  <1>5. PICK g : FoldOf(S, V, b, c, h, g)
    BY <1>1, <1>2, <1>3, <1>4, FoldExists
  <1>6. ASSUME NEW T \in (SUBSET S) \ {{}}
        PROVE  Max(T) \in S /\ g[T \ {Max(T)}] \in V /\ g[T] = h[Max(T)][g[T \ {Max(T)}]]
    BY <1>2, <1>5 DEF FoldOf
  <1> QED
    BY <1>5, <1>6 DEF FoldOf, LeftFoldOf, S

\* Whatever takes the steps takes them from number to number.
LEMMA FoldRun ==
    ASSUME NEW n \in Nat, NEW V, NEW b \in V, NEW h \in [1 .. n -> [V -> V]],
           NEW f, Follows(n, V, b, h, f)
    PROVE  \E F : Runs(n, V, b, h, F, f[1 .. n])
  <1> USE DEF Follows
  <1> DEFINE F == [k \in 0 .. n |-> f[1 .. k]]
             K == {k \in Nat : k <= n => f[1 .. k] \in V}
  <1>1. ASSUME NEW k \in 1 .. n, f[1 .. (k - 1)] \in V
        PROVE  f[1 .. k] = h[k][f[1 .. (k - 1)]] /\ f[1 .. k] \in V
    <2> DEFINE T == 1 .. k
    <2>1. T \in (SUBSET (1 .. n)) \ {{}} /\ Max(T) = k /\ T \ {k} = 1 .. (k - 1)
      <3>1. k \in Nat \ {0} /\ k <= n
        OBVIOUS
      <3> QED
        BY <3>1, MaxOfUpto, Zenon
    <2>2. h[k] \in [V -> V]
      OBVIOUS
    <2> HIDE DEF T
    <2>3. f[T] = h[k][f[1 .. (k - 1)]]
      BY <1>1, <2>1, Zenon
    <2> QED
      BY <1>1, <2>2, <2>3 DEF T
  <1>2. 0 \in K
    <2>1. 1 .. 0 = {}
      OBVIOUS
    <2> QED
      BY <2>1
  <1>3. ASSUME NEW k \in K PROVE k + 1 \in K
    <2>1. CASE k + 1 <= n
      <3>1. k + 1 \in 1 .. n /\ (k + 1) - 1 = k /\ f[1 .. k] \in V
        BY <2>1
      <3>2. f[1 .. (k + 1)] \in V
        BY <1>1, <3>1, Zenon
      <3> QED
        BY <3>2
    <2> QED
      BY <2>1
  <1>4. K = Nat
    <2> HIDE DEF K
    <2>1. K \subseteq Nat
      BY DEF K
    <2> QED
      BY <1>2, <1>3, <2>1, NatSetInduction
  <1>5. \A k \in 0 .. n : f[1 .. k] \in V
    BY <1>4
  <1>6. F[0] = b /\ F \in [0 .. n -> V] /\ F[n] = f[1 .. n]
    <2>1. 1 .. 0 = {} /\ 0 \in 0 .. n /\ n \in 0 .. n
      OBVIOUS
    <2> QED
      BY <1>5, <2>1
  <1>7. ASSUME NEW k \in 1 .. n PROVE F[k - 1] \in V /\ F[k] = h[k][F[k - 1]]
    <2>1. k - 1 \in 0 .. n /\ k \in 0 .. n
      OBVIOUS
    <2>2. F[k - 1] = f[1 .. (k - 1)] /\ F[k] = f[1 .. k] /\ f[1 .. (k - 1)] \in V
      BY <1>5, <2>1
    <2> HIDE DEF F
    <2> QED
      BY <1>1, <2>2
  <1> HIDE DEF F, Follows
  <1> QED
    BY <1>6, <1>7, Zenon DEF Runs

\* Finitely many numbers in decreasing order.
LEMMA Decreasing ==
    ASSUME NEW n \in Nat, NEW S \in SUBSET (1 .. n)
    PROVE  \E o \in Bijection(1 .. Cardinality(S), S) :
              \A i, j \in 1 .. Cardinality(S) : i < j => o[i] > o[j]
  <1> DEFINE Ordered(T) == \E o \in Bijection(1 .. Cardinality(T), T) :
                              \A i, j \in 1 .. Cardinality(T) : i < j => o[i] > o[j]
             F == {T \in SUBSET S : Ordered(T)}
  <1>1. IsFiniteSet(S)
    <2>1. IsFiniteSet(1 .. n)
      BY FS_Interval
    <2> QED
      BY <2>1, FS_Subset
  <1>2. {} \in F
    <2>1. Cardinality({}) = 0 /\ 1 .. 0 = {}
      BY FS_EmptySet
    <2>2. [i \in {} |-> i] \in Bijection({}, {})
      <3> DEFINE e == [i \in {} |-> i]
      <3>1. e \in [{} -> {}]
        OBVIOUS
      <3> HIDE DEF e
      <3> QED
        BY <3>1, Zenon DEF Bijection, Injection, Surjection, IsInjective
    <2> QED
      BY <2>1, <2>2
  <1>3. ASSUME NEW T \in SUBSET S, T # {}, \A x \in T : T \ {x} \in F PROVE T \in F
    <2>1. PICK x \in T : \A y \in T : x <= y
      <3>1. T \subseteq Nat
        OBVIOUS
      <3> QED
        BY <1>3, <3>1, LeastElement
    <2> DEFINE m == Cardinality(T)
    <2>2. m \in Nat \ {0} /\ Cardinality(T \ {x}) = m - 1
      <3>1. IsFiniteSet(T)
        BY <1>1, FS_Subset
      <3> QED
        BY <1>3, <3>1, FS_CardinalityType, FS_EmptySet, FS_RemoveElement
    <2> HIDE DEF m
    <2>3. PICK o \in Bijection(1 .. (m - 1), T \ {x}) :
             \A i, j \in 1 .. (m - 1) : i < j => o[i] > o[j]
      BY <1>3, <2>2
    <2> DEFINE q == [i \in 1 .. m |-> IF i = m THEN x ELSE o[i]]
    <2>4. /\ \A i \in 1 .. (m - 1) : o[i] \in T \ {x}
          /\ \A y \in T \ {x} : \E i \in 1 .. (m - 1) : o[i] = y
          /\ \A i, j \in 1 .. (m - 1) : o[i] = o[j] => i = j
      BY <2>3, Zenon DEF Bijection, Injection, Surjection, IsInjective
    <2>5. q[m] = x /\ \A i \in 1 .. (m - 1) : i \in 1 .. m /\ q[i] = o[i]
      BY <2>2
    <2>6. \A i \in 1 .. m : i = m \/ i \in 1 .. (m - 1)
      BY <2>2
    <2>7. q \in Bijection(1 .. m, T)
      <3>1. q \in [1 .. m -> T]
        BY <2>4, <2>6
      <3> HIDE DEF q
      <3>2. \A i, j \in 1 .. m : q[i] = q[j] => i = j
        BY <2>4, <2>5, <2>6
      <3>3. \A y \in T : \E i \in 1 .. m : q[i] = y
        BY <2>2, <2>4, <2>5
      <3> QED
        BY <3>1, <3>2, <3>3 DEF Bijection, Injection, Surjection, IsInjective
    <2>8. ASSUME NEW i \in 1 .. m, NEW j \in 1 .. m, i < j PROVE q[i] > q[j]
      <3>1. i \in 1 .. (m - 1)
        BY <2>2, <2>8
      <3>2. q[i] = o[i] /\ o[i] \in T \ {x}
        BY <2>4, <2>5, <3>1
      <3>3. CASE j = m
        <4>1. x <= o[i] /\ x # o[i] /\ x \in Int /\ o[i] \in Int
          <5>1. T \subseteq Int /\ o[i] \in T /\ x \in T
            BY <3>2
          <5> QED
            BY <2>1, <3>2, <5>1, Zenon
        <4> HIDE DEF q
        <4> QED
          BY <2>5, <3>2, <3>3, <4>1
      <3>4. CASE j \in 1 .. (m - 1)
        BY <2>3, <2>5, <2>8, <3>1, <3>4
      <3> QED
        BY <2>6, <3>3, <3>4
    <2> HIDE DEF q
    <2> QED
      BY <2>7, <2>8 DEF m
  <1> HIDE DEF F
  <1>4. SUBSET S \subseteq F
    BY <1>1, <1>2, <1>3, SubsetInduction
  <1> QED
    BY <1>4 DEF F

-----------------------------------------------------------------------------
(* More sums.                                                                *)

\* All summands are the same.
LEMMA SumSame ==
    ASSUME NEW S, IsFiniteSet(S), NEW w, NEW c \in Int, \A x \in S : w[x] = c
    PROVE  Total(w, S) = c * Cardinality(S)
  <1> DEFINE F == {T \in SUBSET S : Total(w, T) = c * Cardinality(T)}
  <1>1. {} \in F
    <2>1. Total(w, {}) = 0 /\ Cardinality({}) = 0
      BY SumType, FS_EmptySet
    <2>2. c * 0 = 0
      OBVIOUS
    <2> QED
      BY <2>1, <2>2
  <1>2. ASSUME NEW T \in SUBSET S, T # {}, \A x \in T : T \ {x} \in F PROVE T \in F
    <2>1. IsFiniteSet(T) /\ \A x \in T : w[x] \in Int
      BY FS_Subset
    <2>2. PICK x \in T : TRUE
      BY <1>2
    <2>3. Total(w, T) = c + Total(w, T \ {x})
      BY <2>1, SumRemove
    <2>4. Total(w, T \ {x}) = c * Cardinality(T \ {x}) /\ Cardinality(T \ {x}) = Cardinality(T) - 1
      BY <1>2, <2>1, FS_RemoveElement
    <2>5. Cardinality(T) \in Nat
      BY <2>1, FS_CardinalityType
    <2>6. \A n \in Nat : c + c * (n - 1) = c * n
      OBVIOUS
    <2> QED
      BY <2>3, <2>4, <2>5, <2>6
  <1> HIDE DEF F
  <1>3. SUBSET S \subseteq F
    BY <1>1, <1>2, SubsetInduction
  <1> QED
    BY <1>3 DEF F

\* Sums are added term by term.
LEMMA SumPlus ==
    ASSUME NEW S, IsFiniteSet(S), NEW u, NEW v, NEW w,
           \A x \in S : u[x] \in Int /\ v[x] \in Int /\ w[x] = u[x] + v[x]
    PROVE  Total(w, S) = Total(u, S) + Total(v, S)
  <1> DEFINE F == {T \in SUBSET S : Total(w, T) = Total(u, T) + Total(v, T)}
  <1>1. {} \in F
    <2>1. Total(w, {}) = 0 /\ Total(u, {}) = 0 /\ Total(v, {}) = 0
      BY SumType, FS_EmptySet
    <2> QED
      BY <2>1
  <1>2. ASSUME NEW T \in SUBSET S, T # {}, \A x \in T : T \ {x} \in F PROVE T \in F
    <2>1. IsFiniteSet(T) /\ \A x \in T : w[x] \in Int /\ u[x] \in Int /\ v[x] \in Int
      BY FS_Subset
    <2>2. PICK x \in T : TRUE
      BY <1>2
    <2>3. /\ Total(w, T) = w[x] + Total(w, T \ {x})
          /\ Total(u, T) = u[x] + Total(u, T \ {x})
          /\ Total(v, T) = v[x] + Total(v, T \ {x})
      BY <2>1, SumRemove
    <2>4. Total(w, T \ {x}) = Total(u, T \ {x}) + Total(v, T \ {x}) /\ w[x] = u[x] + v[x]
      BY <1>2
    <2>5. Total(u, T \ {x}) \in Int /\ Total(v, T \ {x}) \in Int
      <3>1. IsFiniteSet(T \ {x}) /\ \A y \in T \ {x} : u[y] \in Int /\ v[y] \in Int
        BY <2>1, FS_RemoveElement
      <3> QED
        BY <3>1, SumType
    <2>6. u[x] \in Int /\ v[x] \in Int
      BY <2>1
    <2> QED
      BY <2>3, <2>4, <2>5, <2>6
  <1> HIDE DEF F
  <1>3. SUBSET S \subseteq F
    BY <1>1, <1>2, SubsetInduction
  <1> QED
    BY <1>3 DEF F

\* The r first of a set of numbers.
Upto(T, x)  == {y \in T : y <= x}
First(T, r) == {x \in T : Cardinality(Upto(T, x)) <= r}

LEMMA FirstOnes ==
    ASSUME NEW n \in Nat, NEW S \in SUBSET (1 .. n), NEW r \in 0 .. Cardinality(S)
    PROVE  Cardinality(First(S, r)) = r
  <1> DEFINE F == {T \in SUBSET S : \A q \in 0 .. Cardinality(T) : Cardinality(First(T, q)) = q}
  <1>1. IsFiniteSet(S)
    <2>1. IsFiniteSet(1 .. n)
      BY FS_Interval
    <2> QED
      BY <2>1, FS_Subset
  <1>2. {} \in F
    <2>1. \A q : First({}, q) = {}
      BY DEF First
    <2> QED
      BY <2>1, FS_EmptySet
  <1>3. ASSUME NEW T \in SUBSET S, T # {}, \A x \in T : T \ {x} \in F PROVE T \in F
    <2> DEFINE x == Max(T)
               U == T \ {x}
               m == Cardinality(T)
    <2>1. x \in T /\ (\A y \in T : y <= x) /\ T \subseteq Int
      <3>1. T \in (SUBSET (1 .. n)) \ {{}} /\ T \subseteq Int
        <4>1. T # {} /\ S \subseteq 1 .. n /\ 1 .. n \subseteq Int
          BY <1>3
        <4> HIDE DEF F, m, x
        <4> QED
          BY <4>1
      <3> QED
        BY <3>1, MaxOf
    <2>2. m \in Nat \ {0} /\ Cardinality(U) = m - 1 /\ IsFiniteSet(T)
      <3>1. IsFiniteSet(T)
        BY <1>1, FS_Subset
      <3> QED
        BY <1>3, <2>1, <3>1, FS_CardinalityType, FS_EmptySet, FS_RemoveElement
    <2>3. \A q \in 0 .. m - 1 : Cardinality(First(U, q)) = q
      BY <1>3, <2>1, <2>2
    <2> HIDE DEF x, m
    <2>4. \A y \in U : Upto(T, y) = Upto(U, y)
      BY <2>1 DEF Upto
    <2>5. Upto(T, x) = T
      BY <2>1 DEF Upto
    <2>6. \A y \in T : Cardinality(Upto(T, y)) <= m
      <3>1. ASSUME NEW y \in T PROVE Cardinality(Upto(T, y)) <= m
        <4>1. Upto(T, y) \in SUBSET T
          BY DEF Upto
        <4> QED
          BY <2>2, <4>1, FS_Subset DEF m
      <3> QED
        BY <3>1
    <2>7. ASSUME NEW q \in 0 .. m PROVE Cardinality(First(T, q)) = q
      <3>1. CASE q = m
        <4>1. First(T, q) = T
          BY <2>6, <3>1 DEF First
        <4> QED
          BY <3>1, <4>1 DEF m
      <3>2. CASE q # m
        <4>1. q \in 0 .. m - 1 /\ ~ (m <= q)
          BY <2>2, <3>2
        <4>2. Cardinality(Upto(T, x)) = m
          BY <2>5 DEF m
        <4>3. x \notin First(T, q)
          BY <4>1, <4>2 DEF First
        <4>4. First(T, q) = First(U, q)
          BY <2>4, <4>3 DEF First
        <4> QED
          BY <2>3, <4>1, <4>4
      <3> QED
        BY <3>1, <3>2
    <2> QED
      BY <2>7 DEF m
  <1> HIDE DEF F
  <1>4. SUBSET S \subseteq F
    BY <1>1, <1>2, <1>3, SubsetInduction
  <1>5. S \in F
    BY <1>4
  <1> QED
    BY <1>5 DEF F

\* A sum of money shared out among numbers, the first of them getting what is left over.
LEMMA SharedOut ==
    ASSUME NEW n \in Nat, NEW S \in SUBSET (1 .. n), S # {}, NEW m \in Nat, NEW w,
           LET c == Cardinality(S)
           IN  \A x \in S : w[x] = m \div c + IF Cardinality(Upto(S, x)) <= m % c THEN 1 ELSE 0
    PROVE  Total(w, S) = m /\ \A x \in S : w[x] \in Nat
  <1> DEFINE c == Cardinality(S)
             d == m \div c
             r == m % c
             P == First(S, r)
  <1>1. IsFiniteSet(S)
    <2>1. IsFiniteSet(1 .. n)
      BY FS_Interval
    <2> QED
      BY <2>1, FS_Subset
  <1>2. c \in Nat \ {0}
    BY <1>1, FS_CardinalityType, FS_EmptySet
  <1>3. \A x \in S : w[x] = d + IF Cardinality(Upto(S, x)) <= r THEN 1 ELSE 0
    OBVIOUS
  <1> HIDE DEF c
  <1>4. d \in Nat /\ r \in 0 .. c - 1 /\ m = c * d + r
    BY <1>2
  <1> HIDE DEF d, r
  <1>5. Cardinality(P) = r
    <2>1. r \in 0 .. Cardinality(S)
      BY <1>2, <1>4 DEF c
    <2> QED
      BY <2>1, FirstOnes
  <1>6. P \in SUBSET S /\ IsFiniteSet(P) /\ IsFiniteSet(S \ P)
    <2>1. P \in SUBSET S /\ S \ P \in SUBSET S
      BY DEF First
    <2> QED
      BY <1>1, <2>1, FS_Subset
  <1>7. Cardinality(S \ P) = c - r
    <2>1. Cardinality(S \ P) = Cardinality(S) - Cardinality(S \cap P)
      BY <1>1, FS_Difference
    <2>2. S \cap P = P
      BY <1>6
    <2> QED
      BY <1>5, <2>1, <2>2 DEF c
  <1>8. /\ \A x \in P : w[x] = d + 1
        /\ \A x \in S \ P : w[x] = d
        /\ \A x \in S : w[x] \in Nat
    BY <1>3, <1>4 DEF First
  <1> HIDE DEF P
  <1>9. Total(w, P) = (d + 1) * r
    <2>1. d + 1 \in Int /\ IsFiniteSet(P) /\ \A x \in P : w[x] = d + 1
      BY <1>4, <1>6, <1>8
    <2>2. Total(w, P) = (d + 1) * Cardinality(P)
      BY <2>1, SumSame
    <2> QED
      BY <1>5, <2>2
  <1>10. Total(w, S \ P) = d * (c - r)
    <2> DEFINE Q == S \ P
    <2>1. d \in Int /\ IsFiniteSet(Q) /\ \A x \in Q : w[x] = d
      BY <1>4, <1>6, <1>8
    <2> HIDE DEF Q
    <2>2. Total(w, Q) = d * Cardinality(Q)
      BY <2>1, SumSame
    <2> QED
      BY <1>7, <2>2 DEF Q
  <1>11. Total(w, S) = Total(w, P) + Total(w, S \ P)
    <2>1. \A x \in S : w[x] \in Int
      BY <1>8
    <2> QED
      BY <1>1, <1>6, <2>1, SumSplit
  <1>12. (d + 1) * r + d * (c - r) = m
    BY <1>2, <1>4
  <1> QED
    BY <1>8, <1>9, <1>10, <1>11, <1>12

=============================================================================
