--------------------------- MODULE Accounting_proofs ---------------------------
(***************************************************************************)
(* Lemmas about the operators of Accounting, for the components that own a   *)
(* portfolio, and the lemmas on sums and folds they rest on.                 *)
(*                                                                         *)
(* A fold is a recursion over the subsets of a finite set.  No prover here    *)
(* can instantiate an induction theorem for a formula; induction is therefore *)
(* over a set, which is a value: the numbers, or the subsets, for which the   *)
(* formula holds.                                                           *)
(***************************************************************************)
EXTENDS Accounting, MarketData, FiniteSetTheorems, SequenceTheorems, WellFoundedInduction, TLAPS

(* Every set of numbers has a least member. *)
LEMMA LeastElement ==
  ASSUME NEW T, T \subseteq Nat, T # {}
  PROVE  \E x \in T : \A y \in T : ~(y < x)
<1> DEFINE R == {ss \in Nat \X Nat : ss[1] < ss[2]}
<1>1. IsWellFoundedOn(R, Nat)
  BY NatLessThanWellFounded DEF OpToRel
<1>2. PICK x \in T : \A y \in T : ~(<<y, x>> \in R)
  <2> HIDE DEF R
  <2>1. QED
    BY <1>1, WFMin
<1>3. QED
  BY <1>2

(* Induction on the numbers of a set. *)
LEMMA SetInduction ==
  ASSUME NEW T, 0 \in T, \A n \in Nat : n \in T => n + 1 \in T
  PROVE  Nat \subseteq T
<1>1. SUFFICES ASSUME Nat \ T # {}
               PROVE  FALSE
  OBVIOUS
<1>2. PICK x \in Nat \ T : \A y \in Nat \ T : ~(y < x)
  BY <1>1, LeastElement
<1>3. x - 1 \in Nat /\ x - 1 < x
  BY <1>2
<1>4. x - 1 \in T
  BY <1>2, <1>3
<1>5. QED
  BY <1>2, <1>3, <1>4

(* g folds F over every subset of S, in the order of c. *)
Folds(g, S, V, base, c, F) ==
  /\ g \in [SUBSET S -> V]
  /\ g[{}] = base
  /\ \A T \in SUBSET S : T # {} => g[T] = F[<<c[T], g[T \ {c[T]}]>>]

(* A fold exists: by induction on the size of the subsets. *)
LEMMA FoldExists ==
  ASSUME NEW S, IsFiniteSet(S), NEW V, NEW base \in V,
         NEW F \in [S \X V -> V],
         NEW c \in [(SUBSET S) \ {{}} -> S], \A T \in (SUBSET S) \ {{}} : c[T] \in T
  PROVE  \E g : Folds(g, S, V, base, c, F)
<1> DEFINE Small(n) == {T \in SUBSET S : Cardinality(T) <= n}
           Solves(g, n) == /\ g \in [Small(n) -> V]
                           /\ g[{}] = base
                           /\ \A T \in Small(n) : T # {} => g[T] = F[<<c[T], g[T \ {c[T]}]>>]
           Solved == {n \in Nat : \E g : Solves(g, n)}
<1>1. \A T \in SUBSET S : IsFiniteSet(T) /\ Cardinality(T) \in Nat
  BY FS_Subset, FS_CardinalityType
<1>2. Cardinality({}) = 0 /\ \A T \in SUBSET S : Cardinality(T) = 0 <=> T = {}
  BY <1>1, FS_EmptySet
<1>3. \A T \in SUBSET S : T # {} =>
         /\ c[T] \in T /\ T \ {c[T]} \in SUBSET S
         /\ Cardinality(T \ {c[T]}) = Cardinality(T) - 1
  BY <1>1, FS_RemoveElement
<1>4. 0 \in Solved
  <2>1. Small(0) = {{}}
    BY <1>1, <1>2
  <2>2. Solves([T \in Small(0) |-> base], 0)
    BY <2>1
  <2>3. QED
    BY <2>2
<1>5. ASSUME NEW n \in Nat, n \in Solved
      PROVE  n + 1 \in Solved
  <2>1. PICK g : Solves(g, n)
    BY <1>5
  <2> DEFINE h == [T \in Small(n + 1) |-> IF T \in Small(n) THEN g[T]
                                          ELSE F[<<c[T], g[T \ {c[T]}]>>]]
  <2>2. \A T \in Small(n + 1) : T # {} => T \ {c[T]} \in Small(n) /\ c[T] \in S
    BY <1>1, <1>3
  <2>3. {} \in Small(n) /\ {} \in Small(n + 1) /\ \A T \in Small(n) : T \in Small(n + 1)
    BY <1>1, <1>2
  <2>4. \A T \in Small(n + 1) : h[T] \in V
    <3>1. TAKE T \in Small(n + 1)
    <3>2. CASE T \in Small(n)
      BY <2>1, <3>2
    <3>3. CASE T \notin Small(n)
      <4>1. g[T \ {c[T]}] \in V /\ c[T] \in S
        BY <2>1, <2>2, <2>3, <3>3
      <4>2. QED
        BY <3>3, <4>1
    <3>4. QED
      BY <3>2, <3>3
  <2>5. ASSUME NEW T \in Small(n + 1), T # {}
        PROVE  h[T] = F[<<c[T], h[T \ {c[T]}]>>]
    <3>1. T \ {c[T]} \in Small(n) /\ T \ {c[T]} \in Small(n + 1)
      BY <2>2, <2>3, <2>5
    <3>2. h[T \ {c[T]}] = g[T \ {c[T]}]
      BY <3>1
    <3>3. h[T] = F[<<c[T], g[T \ {c[T]}]>>]
      BY <2>1, <2>5
    <3>4. QED
      BY <3>2, <3>3
  <2>6. h \in [Small(n + 1) -> V] /\ h[{}] = base
    BY <2>1, <2>3, <2>4
  <2>7. Solves(h, n + 1)
    <3> HIDE DEF h
    <3>1. QED
      BY <2>5, <2>6
  <2>8. QED
    <3> HIDE DEF Solves, h
    <3>1. QED
      BY <2>7
<1>6. Cardinality(S) \in Solved
  <2> HIDE DEF Solved
  <2>1. QED
    BY <1>1, <1>4, <1>5, SetInduction
<1>7. Small(Cardinality(S)) = SUBSET S
  <2>1. \A T \in SUBSET S : Cardinality(T) <= Cardinality(S)
    BY FS_Subset
  <2>2. QED
    BY <2>1
<1>8. QED
  BY <1>6, <1>7 DEF Folds


(* Induction on the members of a collection of subsets of a finite set. *)
LEMMA SubsetInduction ==
  ASSUME NEW S, IsFiniteSet(S), NEW C, {} \in C,
         \A T \in SUBSET S : \A x \in S \ T : T \in C => T \cup {x} \in C
  PROVE  S \in C
<1> DEFINE Sized == {n \in Nat : \A T \in SUBSET S : Cardinality(T) = n => T \in C}
<1>1. \A T \in SUBSET S : IsFiniteSet(T) /\ Cardinality(T) \in Nat
  BY FS_Subset, FS_CardinalityType
<1>2. 0 \in Sized
  BY <1>1, FS_EmptySet
<1>3. ASSUME NEW n \in Nat, n \in Sized
      PROVE  n + 1 \in Sized
  <2>1. SUFFICES ASSUME NEW T \in SUBSET S, Cardinality(T) = n + 1
                 PROVE  T \in C
    OBVIOUS
  <2>2. IsFiniteSet(T) /\ T # {}
    BY <1>1, <2>1, FS_EmptySet
  <2>3. PICK x \in S : x \in T
    BY <2>2
  <2>4. IsFiniteSet(T) /\ x \in T /\ Cardinality(T \ {x}) = Cardinality(T) - 1
    BY <2>2, <2>3, FS_RemoveElement
  <2>5. T \ {x} \in SUBSET S /\ Cardinality(T \ {x}) = n
    BY <2>1, <2>4
  <2>6. T \ {x} \in C
    BY <1>3, <2>5
  <2>7. (T \ {x}) \cup {x} \in C /\ (T \ {x}) \cup {x} = T
    BY <2>3, <2>5, <2>6
  <2>8. QED
    BY <2>7
<1>4. Cardinality(S) \in Sized
  <2> HIDE DEF Sized
  <2>1. QED
    BY <1>1, <1>2, <1>3, SetInduction
<1>5. QED
  BY <1>4


-----------------------------------------------------------------------------
(* g adds f up over every subset of S, in any order. *)
Sums(g, f, S) ==
  /\ g \in [SUBSET S -> Int]
  /\ g[{}] = 0
  /\ \A T \in SUBSET S : \A x \in T : g[T] = f[x] + g[T \ {x}]

(* The order in which a sum is taken does not matter. *)
LEMMA AnyOrder ==
  ASSUME NEW S, IsFiniteSet(S), NEW f, \A x \in S : f[x] \in Int,
         NEW g \in [SUBSET S -> Int], g[{}] = 0,
         \A T \in SUBSET S : T # {} => \E x \in T : g[T] = f[x] + g[T \ {x}]
  PROVE  Sums(g, f, S)
<1> DEFINE Free(T) == \A x \in T : g[T] = f[x] + g[T \ {x}]
           Sized == {n \in Nat : \A T \in SUBSET S : Cardinality(T) = n => Free(T)}
<1>1. \A T \in SUBSET S : IsFiniteSet(T) /\ Cardinality(T) \in Nat
  BY FS_Subset, FS_CardinalityType
<1>2. \A T \in SUBSET S : \A x \in T :
         T \ {x} \in SUBSET S /\ Cardinality(T \ {x}) = Cardinality(T) - 1
  BY <1>1, FS_RemoveElement
<1>3. 0 \in Sized
  <2>1. \A T \in SUBSET S : Cardinality(T) = 0 => T = {}
    BY <1>1, FS_EmptySet
  <2>2. QED
    BY <2>1
<1>4. ASSUME NEW n \in Nat, n \in Sized
      PROVE  n + 1 \in Sized
  <2>1. SUFFICES ASSUME NEW T \in SUBSET S, Cardinality(T) = n + 1, NEW x \in T
                 PROVE  g[T] = f[x] + g[T \ {x}]
    OBVIOUS
  <2>2. PICK c \in T : g[T] = f[c] + g[T \ {c}]
    BY <2>1
  <2>3. CASE x = c
    BY <2>2, <2>3
  <2>4. CASE x # c
    <3> DEFINE U == (T \ {c}) \ {x}
    <3>1. /\ T \ {c} \in SUBSET S /\ Cardinality(T \ {c}) = n /\ x \in T \ {c}
          /\ T \ {x} \in SUBSET S /\ Cardinality(T \ {x}) = n /\ c \in T \ {x}
      BY <1>2, <2>1, <2>4
    <3>2. g[T \ {c}] = f[x] + g[U]
      BY <1>4, <3>1
    <3>3. g[T \ {x}] = f[c] + g[(T \ {x}) \ {c}]
      BY <1>4, <3>1
    <3>4. (T \ {x}) \ {c} = U /\ U \in SUBSET S
      OBVIOUS
    <3> HIDE DEF U
    <3>5. f[x] \in Int /\ f[c] \in Int /\ g[U] \in Int
      BY <3>4
    <3>6. g[T \ {x}] = f[c] + g[U]
      BY <3>3, <3>4
    <3>7. QED
      BY <2>2, <3>2, <3>5, <3>6
  <2>5. QED
    BY <2>3, <2>4
<1>5. Nat \subseteq Sized
  <2> HIDE DEF Sized
  <2>1. QED
    BY <1>3, <1>4, SetInduction
<1>6. \A T \in SUBSET S : Free(T)
  BY <1>1, <1>5
<1>7. QED
  BY <1>6 DEF Sums

(* SumFunctionOnSet is such a sum. *)
LEMMA SumsSolve ==
  ASSUME NEW S, IsFiniteSet(S), NEW f, \A x \in S : f[x] \in Int
  PROVE  \E g : /\ Sums(g, f, S)
                /\ SumFunctionOnSet(f, S) = g[S]
<1> DEFINE c == [T \in (SUBSET S) \ {{}} |-> CHOOSE x \in T : TRUE]
           F == [p \in S \X Int |-> f[p[1]] + p[2]]
           Equation(g) == g = [T \in SUBSET S |->
                                IF T = {} THEN 0
                                ELSE LET x == CHOOSE x \in T : TRUE IN f[x] + g[T \ {x}]]
           g == CHOOSE g : Equation(g)
<1>1. SumFunctionOnSet(f, S) = g[S]
  BY DEF SumFunctionOnSet, FoldFunctionOnSet, MapThenFoldSet
<1>2. \A T \in (SUBSET S) \ {{}} : (CHOOSE x \in T : TRUE) \in T
  OBVIOUS
<1>3. c \in [(SUBSET S) \ {{}} -> S] /\ \A T \in (SUBSET S) \ {{}} : c[T] \in T
  BY <1>2
<1>4. F \in [S \X Int -> Int]
  OBVIOUS
<1>5. \E h : Folds(h, S, Int, 0, c, F)
  <2>1. /\ c \in [(SUBSET S) \ {{}} -> S]
        /\ \A T \in (SUBSET S) \ {{}} : c[T] \in T
        /\ F \in [S \X Int -> Int]
        /\ 0 \in Int
    BY <1>3, <1>4
  <2> HIDE DEF c, F, g, Equation
  <2>2. QED
    BY <2>1, FoldExists
<1>6. PICK h : Folds(h, S, Int, 0, c, F)
  BY <1>5
<1>7. Equation(h)
  <2>1. h \in [SUBSET S -> Int]
    BY <1>6 DEF Folds
  <2>2. ASSUME NEW T \in SUBSET S
        PROVE  h[T] = IF T = {} THEN 0
                      ELSE LET x == CHOOSE x \in T : TRUE IN f[x] + h[T \ {x}]
    <3>1. CASE T = {}
      BY <1>6, <3>1 DEF Folds
    <3>2. CASE T # {}
      <4> DEFINE x == CHOOSE x \in T : TRUE
      <4>1. x = c[T] /\ x \in S
        BY <1>2, <3>2
      <4>2. h[T] = F[<<x, h[T \ {x}]>>]
        BY <1>6, <3>2, <4>1 DEF Folds
      <4>3. h[T \ {x}] \in Int
        BY <2>1
      <4>4. F[<<x, h[T \ {x}]>>] = f[x] + h[T \ {x}]
        <5> HIDE DEF x, c
        <5>1. <<x, h[T \ {x}]>> \in S \X Int
          BY <4>1, <4>3
        <5>2. QED
          BY <5>1
      <4> HIDE DEF x
      <4>5. QED
        BY <3>2, <4>2, <4>4 DEF x
    <3>3. QED
      BY <3>1, <3>2
  <2>3. QED
    BY <2>1, <2>2
<1>8. Equation(g)
  BY <1>7
<1>9. /\ g[{}] = 0
      /\ \A T \in SUBSET S : T # {} => \E x \in T : g[T] = f[x] + g[T \ {x}]
  <2> HIDE DEF g
  <2>1. \A T \in SUBSET S : T # {} =>
          g[T] = f[CHOOSE x \in T : TRUE] + g[T \ {CHOOSE x \in T : TRUE}]
    BY <1>8
  <2>2. g[{}] = 0
    BY <1>8
  <2>3. QED
    BY <1>2, <2>1, <2>2
<1>10. g \in [SUBSET S -> Int]
  <2> DEFINE Sized == {n \in Nat : \A T \in SUBSET S : Cardinality(T) = n => g[T] \in Int}
  <2>1. g = [T \in SUBSET S |-> g[T]]
    <3> HIDE DEF g
    <3>1. QED
      BY <1>8
  <2> HIDE DEF g, Equation
  <2>2. \A T \in SUBSET S : IsFiniteSet(T) /\ Cardinality(T) \in Nat
    BY FS_Subset, FS_CardinalityType
  <2>3. 0 \in Sized
    <3>1. \A T \in SUBSET S : Cardinality(T) = 0 => T = {}
      BY <2>2, FS_EmptySet
    <3>2. g[{}] \in Int
      BY <1>9
    <3>3. QED
      BY <3>1, <3>2
  <2>4. ASSUME NEW n \in Nat, n \in Sized
        PROVE  n + 1 \in Sized
    <3>1. SUFFICES ASSUME NEW T \in SUBSET S, Cardinality(T) = n + 1
                   PROVE  g[T] \in Int
      OBVIOUS
    <3>2. T # {} /\ IsFiniteSet(T)
      BY <2>2, <3>1, FS_EmptySet
    <3>3. PICK x \in T : g[T] = f[x] + g[T \ {x}]
      BY <1>9, <3>2
    <3>4. Cardinality(T \ {x}) = n /\ T \ {x} \in SUBSET S
      <4>1. Cardinality(T \ {x}) = Cardinality(T) - 1
        BY <3>2, FS_RemoveElement
      <4>2. QED
        BY <3>1, <4>1
    <3>5. g[T \ {x}] \in Int /\ f[x] \in Int
      BY <2>4, <3>4
    <3>6. QED
      BY <3>3, <3>5
  <2>5. Nat \subseteq Sized
    <3> HIDE DEF Sized
    <3>1. QED
      BY <2>3, <2>4, SetInduction
  <2>6. \A T \in SUBSET S : g[T] \in Int
    BY <2>2, <2>5
  <2>7. QED
    BY <2>1, <2>6
<1> HIDE DEF g, Equation
<1>11. Sums(g, f, S)
  BY <1>9, <1>10, AnyOrder
<1>12. QED
  BY <1>1, <1>11

(* Sums of the same numbers agree. *)
LEMMA SumsAgree ==
  ASSUME NEW R, NEW S, NEW d, NEW f, NEW g, NEW h, Sums(g, d, R), Sums(h, f, S),
         NEW T \in SUBSET R, T \in SUBSET S, IsFiniteSet(T), \A x \in T : d[x] = f[x]
  PROVE  g[T] = h[T]
<1> DEFINE C == {U \in SUBSET T : g[U] = h[U]}
<1>1. {} \in C
  BY DEF Sums
<1>2. ASSUME NEW U \in SUBSET T, NEW x \in T \ U, U \in C
      PROVE  U \cup {x} \in C
  <2> DEFINE W == U \cup {x}
  <2>1. x \in W /\ W \ {x} = U /\ W \in SUBSET R /\ W \in SUBSET S
    OBVIOUS
  <2> HIDE DEF W
  <2>2. g[W] = d[x] + g[U] /\ h[W] = f[x] + h[U]
    BY <2>1 DEF Sums
  <2>3. QED
    BY <1>2, <2>2 DEF W
<1>3. T \in C
  <2> HIDE DEF C
  <2>1. QED
    BY <1>1, <1>2, SubsetInduction
<1>4. QED
  BY <1>3

(* SumFunctionOnSet, element by element. *)
LEMMA SumOnSetType ==
  ASSUME NEW S, IsFiniteSet(S), NEW f, \A x \in S : f[x] \in Int
  PROVE  SumFunctionOnSet(f, S) \in Int
<1>1. PICK g : Sums(g, f, S) /\ SumFunctionOnSet(f, S) = g[S]
  BY SumsSolve
<1>2. S \in SUBSET S
  OBVIOUS
<1>3. QED
  BY <1>1, <1>2 DEF Sums

LEMMA SumOnEmptySet ==
  ASSUME NEW f
  PROVE  SumFunctionOnSet(f, {}) = 0
<1>1. PICK g : Sums(g, f, {}) /\ SumFunctionOnSet(f, {}) = g[{}]
  BY SumsSolve, FS_EmptySet
<1>2. QED
  BY <1>1 DEF Sums

LEMMA SumOnEqual ==
  ASSUME NEW S, IsFiniteSet(S), NEW f, \A x \in S : f[x] \in Int,
         NEW d, \A x \in S : d[x] = f[x]
  PROVE  SumFunctionOnSet(d, S) = SumFunctionOnSet(f, S)
<1>1. PICK g : Sums(g, d, S) /\ SumFunctionOnSet(d, S) = g[S]
  BY SumsSolve
<1>2. PICK h : Sums(h, f, S) /\ SumFunctionOnSet(f, S) = h[S]
  BY SumsSolve
<1>3. S \in SUBSET S
  OBVIOUS
<1>4. g[S] = h[S]
  BY <1>1, <1>2, <1>3, SumsAgree
<1>5. QED
  BY <1>1, <1>2, <1>4

LEMMA SumOnSetRemove ==
  ASSUME NEW S, IsFiniteSet(S), NEW f, \A x \in S : f[x] \in Int, NEW x \in S
  PROVE  SumFunctionOnSet(f, S) = f[x] + SumFunctionOnSet(f, S \ {x})
<1> DEFINE R == S \ {x}
<1>1. R \in SUBSET S /\ R \in SUBSET R /\ S \in SUBSET S
  OBVIOUS
<1>2. IsFiniteSet(R)
  BY FS_RemoveElement
<1>3. PICK g : Sums(g, f, S) /\ SumFunctionOnSet(f, S) = g[S]
  BY SumsSolve
<1>4. PICK h : Sums(h, f, R) /\ SumFunctionOnSet(f, R) = h[R]
  <2>1. \A y \in R : f[y] \in Int
    OBVIOUS
  <2> HIDE DEF R
  <2>2. QED
    BY <1>2, <2>1, SumsSolve
<1>5. g[S] = f[x] + g[R]
  BY <1>1, <1>3 DEF Sums
<1>6. g[R] = h[R]
  <2> HIDE DEF R
  <2>1. QED
    BY <1>1, <1>2, <1>3, <1>4, SumsAgree
<1>7. QED
  BY <1>3, <1>4, <1>5, <1>6

(* Two functions that differ at one place. *)
LEMMA SumOnSetChange ==
  ASSUME NEW S, IsFiniteSet(S), NEW f, \A x \in S : f[x] \in Int,
         NEW d, \A x \in S : d[x] \in Int,
         NEW x \in S, \A y \in S \ {x} : d[y] = f[y]
  PROVE  SumFunctionOnSet(d, S) = SumFunctionOnSet(f, S) - f[x] + d[x]
<1> DEFINE R == S \ {x}
<1>1. IsFiniteSet(R) /\ \A y \in R : f[y] \in Int /\ d[y] \in Int /\ d[y] = f[y]
  BY FS_RemoveElement
<1>2. SumFunctionOnSet(f, S) = f[x] + SumFunctionOnSet(f, R)
  BY SumOnSetRemove
<1>3. SumFunctionOnSet(d, S) = d[x] + SumFunctionOnSet(d, R)
  BY SumOnSetRemove
<1> HIDE DEF R
<1>4. SumFunctionOnSet(d, R) = SumFunctionOnSet(f, R) /\ SumFunctionOnSet(f, R) \in Int
  BY <1>1, SumOnEqual, SumOnSetType
<1>5. QED
  BY <1>2, <1>3, <1>4

(* The sum of two sums. *)
LEMMA SumOnSetPlus ==
  ASSUME NEW S, IsFiniteSet(S), NEW f, \A x \in S : f[x] \in Int,
         NEW d, \A x \in S : d[x] \in Int, NEW e, \A x \in S : e[x] = d[x] + f[x]
  PROVE  SumFunctionOnSet(e, S) = SumFunctionOnSet(d, S) + SumFunctionOnSet(f, S)
<1>1. \A x \in S : e[x] \in Int
  OBVIOUS
<1>2. PICK g : Sums(g, d, S) /\ SumFunctionOnSet(d, S) = g[S]
  BY SumsSolve
<1>3. PICK h : Sums(h, f, S) /\ SumFunctionOnSet(f, S) = h[S]
  BY SumsSolve
<1>4. PICK k : Sums(k, e, S) /\ SumFunctionOnSet(e, S) = k[S]
  BY <1>1, SumsSolve
<1> DEFINE C == {T \in SUBSET S : k[T] = g[T] + h[T]}
<1>5. {} \in C
  BY <1>2, <1>3, <1>4 DEF Sums
<1>6. ASSUME NEW U \in SUBSET S, NEW x \in S \ U, U \in C
      PROVE  U \cup {x} \in C
  <2> DEFINE W == U \cup {x}
  <2>1. x \in W /\ W \ {x} = U /\ W \in SUBSET S
    OBVIOUS
  <2> HIDE DEF W
  <2>2. g[W] = d[x] + g[U] /\ h[W] = f[x] + h[U] /\ k[W] = e[x] + k[U]
    BY <1>2, <1>3, <1>4, <2>1 DEF Sums
  <2>3. g[U] \in Int /\ h[U] \in Int /\ d[x] \in Int /\ f[x] \in Int /\ e[x] = d[x] + f[x]
    BY <1>2, <1>3 DEF Sums
  <2>4. k[U] = g[U] + h[U]
    BY <1>6
  <2>5. k[W] = g[W] + h[W]
    BY <2>2, <2>3, <2>4
  <2>6. QED
    BY <2>1, <2>5 DEF W
<1>7. S \in C
  <2> HIDE DEF C
  <2>1. QED
    BY <1>5, <1>6, SubsetInduction
<1>8. QED
  BY <1>2, <1>3, <1>4, <1>7

(* A sum over a sequence and one more element. *)
LEMMA SumOnMore ==
  ASSUME NEW n \in Nat, NEW f, \A i \in 1..n : f[i] \in Int,
         NEW d, \A i \in 1..n : d[i] = f[i], d[n + 1] \in Int
  PROVE  SumFunctionOnSet(d, 1..(n + 1)) = SumFunctionOnSet(f, 1..n) + d[n + 1]
<1> DEFINE S == 1..(n + 1)
<1>1. IsFiniteSet(S) /\ IsFiniteSet(1..n)
  BY FS_Interval
<1>2. \A i \in S : d[i] \in Int
  OBVIOUS
<1>3. n + 1 \in S /\ S \ {n + 1} = 1..n
  OBVIOUS
<1> HIDE DEF S
<1>4. SumFunctionOnSet(d, S) = d[n + 1] + SumFunctionOnSet(d, S \ {n + 1})
  BY <1>1, <1>2, <1>3, SumOnSetRemove
<1>5. SumFunctionOnSet(d, 1..n) = SumFunctionOnSet(f, 1..n)
  BY <1>1, SumOnEqual
<1>6. SumFunctionOnSet(f, 1..n) \in Int
  BY <1>1, SumOnSetType
<1>7. SumFunctionOnSet(d, S \ {n + 1}) = SumFunctionOnSet(d, 1..n)
  BY <1>3
<1>8. SumFunctionOnSet(d, S) = SumFunctionOnSet(f, 1..n) + d[n + 1]
  BY <1>4, <1>5, <1>6, <1>7
<1>9. QED
  BY <1>8 DEF S
(* The same of SumFunction, which sums over the whole domain. *)
LEMMA SumType ==
  ASSUME NEW S, IsFiniteSet(S), NEW f \in [S -> Int]
  PROVE  SumFunction(f) \in Int
<1>1. DOMAIN f = S /\ \A x \in S : f[x] \in Int
  OBVIOUS
<1>2. QED
  BY <1>1, SumOnSetType DEF SumFunction

LEMMA SumEmpty ==
  ASSUME NEW f, DOMAIN f = {}
  PROVE  SumFunction(f) = 0
BY SumOnEmptySet DEF SumFunction

LEMMA SumChange ==
  ASSUME NEW S, IsFiniteSet(S), NEW f \in [S -> Int], NEW d \in [S -> Int],
         NEW x \in S, \A y \in S \ {x} : d[y] = f[y]
  PROVE  SumFunction(d) = SumFunction(f) - f[x] + d[x]
<1>1. /\ DOMAIN f = S /\ \A y \in S : f[y] \in Int
      /\ DOMAIN d = S /\ \A y \in S : d[y] \in Int
  OBVIOUS
<1>2. SumFunctionOnSet(d, S) = SumFunctionOnSet(f, S) - f[x] + d[x]
  BY <1>1, SumOnSetChange
<1>3. QED
  BY <1>1, <1>2 DEF SumFunction

LEMMA SumPlus ==
  ASSUME NEW S, IsFiniteSet(S), NEW f \in [S -> Int], NEW d \in [S -> Int],
         NEW e \in [S -> Int], \A x \in S : e[x] = d[x] + f[x]
  PROVE  SumFunction(e) = SumFunction(d) + SumFunction(f)
<1>1. /\ DOMAIN f = S /\ \A x \in S : f[x] \in Int
      /\ DOMAIN d = S /\ \A x \in S : d[x] \in Int
      /\ DOMAIN e = S
  OBVIOUS
<1>2. SumFunctionOnSet(e, S) = SumFunctionOnSet(d, S) + SumFunctionOnSet(f, S)
  BY <1>1, SumOnSetPlus
<1>3. QED
  BY <1>1, <1>2 DEF SumFunction

LEMMA SumMore ==
  ASSUME NEW n \in Nat, NEW f \in [1..n -> Int], NEW d \in [1..(n + 1) -> Int],
         \A i \in 1..n : d[i] = f[i]
  PROVE  SumFunction(d) = SumFunction(f) + d[n + 1]
<1>1. /\ DOMAIN f = 1..n /\ \A i \in 1..n : f[i] \in Int
      /\ DOMAIN d = 1..(n + 1) /\ d[n + 1] \in Int
  OBVIOUS
<1>2. SumFunctionOnSet(d, 1..(n + 1)) = SumFunctionOnSet(f, 1..n) + d[n + 1]
  BY <1>1, SumOnMore
<1>3. QED
  BY <1>1, <1>2 DEF SumFunction
LEMMA SumZero ==
  ASSUME NEW S, IsFiniteSet(S), NEW f \in [S -> Int], \A x \in S : f[x] = 0
  PROVE  SumFunction(f) = 0
<1>1. SumFunction(f) = SumFunction(f) + SumFunction(f) /\ SumFunction(f) \in Int
  <2>1. \A x \in S : f[x] = f[x] + f[x]
    OBVIOUS
  <2>2. QED
    BY <2>1, SumPlus, SumType
<1>2. \A x \in Int : x = x + x => x = 0
  OBVIOUS
<1>3. QED
  BY <1>1, <1>2

-----------------------------------------------------------------------------
(* A FoldLeft is a run: what there is after each element of the sequence. *)
Runs(h, n, V, base, F) ==
  /\ h \in [0..n -> V]
  /\ h[0] = base
  /\ \A i \in 1..n : h[i] = F[<<i, h[i - 1]>>]

LEMMA GreatestElement ==
  ASSUME NEW n \in Nat, NEW T \in (SUBSET (1..n)) \ {{}}
  PROVE  Max(T) \in T /\ \A y \in T : Max(T) >= y
<1> DEFINE M == {m \in Nat : \E x \in T : m = n - x}
<1>1. \A x \in T : x \in Nat /\ n - x \in Nat
  OBVIOUS
<1>2. M \subseteq Nat /\ M # {}
  BY <1>1
<1>3. PICK m \in M : \A y \in M : ~(y < m)
  <2> HIDE DEF M
  <2>1. QED
    BY <1>2, LeastElement
<1>4. PICK x \in T : m = n - x
  BY <1>3
<1>5. \A y \in T : x >= y
  <2>1. SUFFICES ASSUME NEW y \in T
                 PROVE  x >= y
    OBVIOUS
  <2>2. n - y \in M
    BY <1>1
  <2>3. ~(n - y < n - x)
    BY <1>3, <1>4, <2>2
  <2>4. QED
    BY <1>1, <2>3
<1>6. QED
  BY <1>5 DEF Max

LEMMA GreatestOfRange ==
  ASSUME NEW n \in Nat, NEW i \in 1..n
  PROVE  1..i \in (SUBSET (1..n)) \ {{}} /\ Max(1..i) = i /\ (1..i) \ {i} = 1..(i - 1)
<1>1. i \in Nat /\ 1..i \in (SUBSET (1..n)) \ {{}}
  OBVIOUS
<1>2. Max(1..i) \in 1..i /\ Max(1..i) >= i
  <2>1. Max(1..i) \in 1..i /\ \A y \in 1..i : Max(1..i) >= y
    BY <1>1, GreatestElement
  <2>2. i \in 1..i
    BY <1>1
  <2>3. QED
    BY <2>1, <2>2
<1>3. QED
  BY <1>1, <1>2

(* The fold of a sequence with n elements, as a recursive function on sets of
   indices, exists ... *)
FoldsLeft(g, n, V, base, F) ==
  /\ g[{}] = base
  /\ \A T \in SUBSET (1..n) :
       T # {} /\ g[T \ {Max(T)}] \in V => g[T] = F[<<Max(T), g[T \ {Max(T)}]>>]

LEMMA LeftFoldExists ==
  ASSUME NEW n \in Nat, NEW V, NEW base \in V, NEW F \in [(1..n) \X V -> V]
  PROVE  \E g : g \in [SUBSET (1..n) -> V] /\ FoldsLeft(g, n, V, base, F)
<1> DEFINE S == 1..n
           c == [T \in (SUBSET S) \ {{}} |-> Max(T)]
<1>1. IsFiniteSet(S)
  BY FS_Interval
<1>2. \A T \in (SUBSET S) \ {{}} : Max(T) \in T
  BY GreatestElement
<1>3. c \in [(SUBSET S) \ {{}} -> S] /\ \A T \in (SUBSET S) \ {{}} : c[T] = Max(T) /\ c[T] \in T
  BY <1>2
<1> HIDE DEF c, S
<1>4. F \in [S \X V -> V]
  BY DEF S
<1>5. PICK g : Folds(g, S, V, base, c, F)
  BY <1>1, <1>3, <1>4, FoldExists
<1>6. g \in [SUBSET S -> V] /\ g[{}] = base
      /\ \A T \in SUBSET S : T # {} => g[T] = F[<<Max(T), g[T \ {Max(T)}]>>]
  BY <1>3, <1>5 DEF Folds
<1>7. QED
  BY <1>6 DEF S, FoldsLeft

(* ... and runs through the sequence from left to right. *)
RunsTo(h, n, V, base, F, g) == Runs(h, n, V, base, F) /\ h[n] = g[1..n]

LEMMA LeftRun ==
  ASSUME NEW n \in Nat, NEW V, NEW base \in V, NEW F \in [(1..n) \X V -> V],
         NEW g, FoldsLeft(g, n, V, base, F)
  PROVE  \E h : RunsTo(h, n, V, base, F, g)
<1> DEFINE h == [i \in 0..n |-> g[1..i]]
           Typed == {i \in Nat : i <= n => g[1..i] \in V}
<1>1. \A i \in 1..n : g[1..(i - 1)] \in V => g[1..i] = F[<<i, g[1..(i - 1)]>>]
  <2>1. SUFFICES ASSUME NEW i \in 1..n, g[1..(i - 1)] \in V
                 PROVE  g[1..i] = F[<<i, g[1..(i - 1)]>>]
    OBVIOUS
  <2>2. 1..i \in (SUBSET (1..n)) \ {{}} /\ Max(1..i) = i /\ (1..i) \ {i} = 1..(i - 1)
    BY GreatestOfRange
  <2>3. QED
    BY <2>1, <2>2 DEF FoldsLeft
<1>2. 1..0 = {}
  OBVIOUS
<1>3. 0 \in Typed
  BY <1>2 DEF FoldsLeft
<1>4. ASSUME NEW i \in Nat, i \in Typed
      PROVE  i + 1 \in Typed
  <2>1. SUFFICES ASSUME i + 1 <= n
                 PROVE  g[1..(i + 1)] \in V
    OBVIOUS
  <2>2. i + 1 \in 1..n /\ (i + 1) - 1 = i /\ g[1..i] \in V
    BY <1>4, <2>1
  <2>3. g[1..(i + 1)] = F[<<i + 1, g[1..i]>>]
    BY <1>1, <2>2
  <2>4. QED
    BY <2>2, <2>3
<1>5. Nat \subseteq Typed
  <2> HIDE DEF Typed
  <2>1. QED
    BY <1>3, <1>4, SetInduction
<1>6. \A i \in 0..n : g[1..i] \in V
  BY <1>5
<1>7. h \in [0..n -> V] /\ h[0] = base /\ h[n] = g[1..n]
  BY <1>2, <1>6 DEF FoldsLeft
<1>8. \A i \in 1..n : h[i] = F[<<i, h[i - 1]>>]
  <2>1. SUFFICES ASSUME NEW i \in 1..n
                 PROVE  h[i] = F[<<i, h[i - 1]>>]
    OBVIOUS
  <2>2. i - 1 \in 0..n /\ i \in 0..n
    OBVIOUS
  <2>3. h[i] = g[1..i] /\ h[i - 1] = g[1..(i - 1)]
    BY <2>2
  <2>4. QED
    BY <1>1, <1>6, <2>2, <2>3
<1>9. Runs(h, n, V, base, F)
  BY <1>7, <1>8 DEF Runs
<1>10. QED
  BY <1>7, <1>9 DEF RunsTo

(* What holds at first and is kept by each element holds at the end. *)
LEMMA RunInduction ==
  ASSUME NEW n \in Nat, NEW T, 0 \in T, \A i \in 1..n : i - 1 \in T => i \in T
  PROVE  0..n \subseteq T
<1> DEFINE R == {i \in Nat : i <= n => i \in T}
<1>1. 0 \in R
  OBVIOUS
<1>2. ASSUME NEW i \in Nat, i \in R
      PROVE  i + 1 \in R
  <2>1. SUFFICES ASSUME i + 1 <= n
                 PROVE  i + 1 \in T
    OBVIOUS
  <2>2. i + 1 \in 1..n /\ (i + 1) - 1 = i /\ i \in T
    BY <1>2, <2>1
  <2>3. QED
    BY <2>2
<1>3. Nat \subseteq R
  <2> HIDE DEF R
  <2>1. QED
    BY <1>1, <1>2, SetInduction
<1>4. QED
  BY <1>3
-----------------------------------------------------------------------------
(* What is below the key of i. *)
Below(key, D, i) == {j \in D : Precedes(key[j], key[i])}

(* The one with n below its own. *)
WithBelow(key, D, n) == CHOOSE i \in D : Cardinality(Below(key, D, i)) = n

(* at numbers D in the order of the keys. *)
Ranks(at, key, D) ==
  /\ at \in [1..Cardinality(D) -> D]
  /\ \A k \in 1..Cardinality(D) : at[k] = WithBelow(key, D, k - 1)
  /\ \A k, l \in 1..Cardinality(D) : k < l => Precedes(key[at[k]], key[at[l]])
  /\ \A i \in D : \E k \in 1..Cardinality(D) : at[k] = i

(* Sorting by counting: a finite set whose members have different keys can be
   numbered in the order of the keys, each by how many are below its own. *)
LEMMA Ranked ==
  ASSUME NEW D, IsFiniteSet(D), NEW key \in [D -> Int \X Int],
         \A i, j \in D : key[i] = key[j] => i = j
  PROVE  /\ Cardinality(D) \in Nat
         /\ \E at : Ranks(at, key, D)
<1> DEFINE n == Cardinality(D)
           place == [i \in D |-> Cardinality(Below(key, D, i))]
           image == {place[i] : i \in D}
<1>1. n \in Nat
  BY FS_CardinalityType
<1>2. \A i \in D : key[i][1] \in Int /\ key[i][2] \in Int /\ key[i] = <<key[i][1], key[i][2]>>
  OBVIOUS
<1>3. \A i, j \in D : i # j => Precedes(key[i], key[j]) \/ Precedes(key[j], key[i])
  BY <1>2 DEF Precedes
<1>4. \A i, j, k \in D : Precedes(key[i], key[j]) /\ Precedes(key[j], key[k]) => Precedes(key[i], key[k])
  BY <1>2 DEF Precedes
<1>5. \A i \in D : ~Precedes(key[i], key[i])
  BY <1>2 DEF Precedes
<1>6. \A i \in D : /\ Below(key, D, i) \in SUBSET (D \ {i})
                   /\ IsFiniteSet(Below(key, D, i))
                   /\ place[i] \in Nat /\ place[i] <= n - 1
  <2>1. TAKE i \in D
  <2>2. Below(key, D, i) \in SUBSET (D \ {i})
    BY <1>5 DEF Below
  <2>3. IsFiniteSet(D \ {i}) /\ Cardinality(D \ {i}) = n - 1
    BY FS_RemoveElement
  <2>4. IsFiniteSet(Below(key, D, i)) /\ Cardinality(Below(key, D, i)) <= n - 1
    BY <2>2, <2>3, FS_Subset
  <2>5. Cardinality(Below(key, D, i)) \in Nat
    BY <2>4, FS_CardinalityType
  <2>6. QED
    BY <2>2, <2>4, <2>5
<1>7. \A i, j \in D : Precedes(key[i], key[j]) => place[i] < place[j]
  <2>1. SUFFICES ASSUME NEW i \in D, NEW j \in D, Precedes(key[i], key[j])
                 PROVE  place[i] < place[j]
    OBVIOUS
  <2>2. Below(key, D, i) \in SUBSET Below(key, D, j)
    BY <1>4, <2>1 DEF Below
  <2>3. i \in Below(key, D, j) /\ i \notin Below(key, D, i)
    BY <1>5, <2>1 DEF Below
  <2>4. /\ Cardinality(Below(key, D, i)) <= Cardinality(Below(key, D, j))
        /\ Cardinality(Below(key, D, i)) # Cardinality(Below(key, D, j))
    BY <1>6, <2>2, <2>3, FS_Subset
  <2>5. QED
    BY <1>6, <2>4
<1>8. \A i, j \in D : place[i] = place[j] => i = j
  <2>1. SUFFICES ASSUME NEW i \in D, NEW j \in D, i # j
                 PROVE  place[i] # place[j]
    OBVIOUS
  <2>2. place[i] < place[j] \/ place[j] < place[i]
    BY <1>3, <1>7, <2>1
  <2>3. QED
    <3>1. place[i] \in Nat /\ place[j] \in Nat
      BY <1>6
    <3> HIDE DEF place
    <3>2. QED
      BY <2>2, <3>1
<1>9. image = 0..(n - 1)
  <2>1. image \in SUBSET (0..(n - 1))
    <3>1. \A i \in D : place[i] \in 0..(n - 1)
      <4>1. TAKE i \in D
      <4>2. place[i] \in Nat /\ place[i] <= n - 1
        BY <1>6
      <4> HIDE DEF place
      <4>3. QED
        BY <1>1, <4>2
    <3>2. QED
      BY <3>1
  <2>2. IsFiniteSet(image) /\ Cardinality(image) = n
    <3>1. place \in Bijection(D, image)
      <4>1. place \in [D -> image] /\ \A i, j \in D : place[i] = place[j] => i = j
        BY <1>8
      <4>2. \A m \in image : \E i \in D : place[i] = m
        OBVIOUS
      <4> HIDE DEF place, image
      <4>3. QED
        BY <4>1, <4>2 DEF Bijection, Injection, Surjection, IsInjective
    <3>2. ExistsBijection(D, image)
      BY <3>1 DEF ExistsBijection
    <3>3. QED
      BY <3>2, FS_Bijection
  <2>3. IsFiniteSet(0..(n - 1)) /\ Cardinality(0..(n - 1)) = n
    <3>1. 0 \in Int /\ n - 1 \in Int
      BY <1>1
    <3>2. /\ IsFiniteSet(0..(n - 1))
          /\ Cardinality(0..(n - 1)) = IF 0 > n - 1 THEN 0 ELSE (n - 1) - 0 + 1
      BY <3>1, FS_Interval
    <3>3. QED
      BY <1>1, <3>2
  <2> HIDE DEF image
  <2>4. QED
    BY <2>1, <2>2, <2>3, FS_Subset
<1> DEFINE at == [k \in 1..n |-> CHOOSE i \in D : place[i] = k - 1]
<1>10. \A k \in 1..n : at[k] \in D /\ place[at[k]] = k - 1
  <2>1. TAKE k \in 1..n
  <2>2. k - 1 \in image
    <3>1. k - 1 \in 0..(n - 1)
      BY <1>1
    <3> HIDE DEF image
    <3>2. QED
      BY <1>9, <3>1
  <2>3. PICK i \in D : place[i] = k - 1
    BY <2>2
  <2> HIDE DEF place
  <2>4. QED
    BY <2>3
<1>11. \A k, l \in 1..n : k < l => Precedes(key[at[k]], key[at[l]])
  <2>1. SUFFICES ASSUME NEW k \in 1..n, NEW l \in 1..n, k < l
                 PROVE  Precedes(key[at[k]], key[at[l]])
    OBVIOUS
  <2>2. at[k] \in D /\ at[l] \in D /\ place[at[k]] = k - 1 /\ place[at[l]] = l - 1
    BY <1>10
  <2>3. k \in Int /\ l \in Int
    BY <1>1
  <2> HIDE DEF place, at
  <2>4. at[k] # at[l]
    BY <2>1, <2>2, <2>3
  <2>5. Precedes(key[at[l]], key[at[k]]) => place[at[l]] < place[at[k]]
    BY <1>7, <2>2
  <2>6. ~(l - 1 < k - 1)
    BY <2>1, <2>3
  <2>7. QED
    BY <1>3, <2>2, <2>4, <2>5, <2>6
<1>12. \A i \in D : \E k \in 1..n : at[k] = i
  <2>1. TAKE i \in D
  <2>2. place[i] \in Nat /\ place[i] <= n - 1
    BY <1>6
  <2>3. place[i] + 1 \in 1..n /\ (place[i] + 1) - 1 = place[i]
    <3> HIDE DEF place
    <3>1. QED
      BY <1>1, <2>2
  <2>4. place[at[place[i] + 1]] = place[i] /\ at[place[i] + 1] \in D
    <3>1. /\ place[at[place[i] + 1]] = (place[i] + 1) - 1
          /\ at[place[i] + 1] \in D
      BY <1>10, <2>3
    <3> HIDE DEF place, at
    <3>2. QED
      BY <2>3, <3>1
  <2>5. at[place[i] + 1] = i
    <3> HIDE DEF place, at
    <3>1. QED
      BY <1>8, <2>4
  <2> HIDE DEF place, at
  <2>6. QED
    BY <2>3, <2>5
<1>13. \A k \in 1..n : at[k] = WithBelow(key, D, k - 1)
  <2>1. ASSUME NEW k \in 1..n
        PROVE  (CHOOSE i \in D : place[i] = k - 1)
                 = CHOOSE i \in D : Cardinality(Below(key, D, i)) = k - 1
    <3>1. \A i \in D : (place[i] = k - 1) <=> (Cardinality(Below(key, D, i)) = k - 1)
      OBVIOUS
    <3> HIDE DEF place
    <3>2. QED
      BY <3>1
  <2>2. QED
    BY <2>1 DEF WithBelow
<1>14. at \in [1..n -> D]
  BY <1>10
<1>15. QED
  <2> HIDE DEF at, n, place, image
  <2>1. QED
    BY <1>1, <1>11, <1>12, <1>13, <1>14 DEF n, Ranks

(* What sorting makes of any finite function: its values, numbered in the order
   of their keys. *)
LEMMA SortedByFacts ==
  ASSUME NEW rows, IsFiniteSet(DOMAIN rows), NEW key \in [DOMAIN rows -> Int \X Int],
         \A i, j \in DOMAIN rows : key[i] = key[j] => i = j
  PROVE  \E n \in Nat : \E at \in [1..n -> DOMAIN rows] :
           /\ n = Cardinality(DOMAIN rows)
           /\ SortedBy(rows, key) = [k \in 1..n |-> rows[at[k]]]
           /\ \A k, l \in 1..n : k < l => Precedes(key[at[k]], key[at[l]])
           /\ \A i \in DOMAIN rows : \E k \in 1..n : at[k] = i
<1> DEFINE D == DOMAIN rows
           n == Cardinality(D)
           place == [i \in D |-> Cardinality({j \in D : Precedes(key[j], key[i])})]
<1>1. n \in Nat
  BY FS_CardinalityType
<1>2. PICK at : Ranks(at, key, D)
  <2>1. /\ IsFiniteSet(D) /\ key \in [D -> Int \X Int]
        /\ \A i, j \in D : key[i] = key[j] => i = j
    OBVIOUS
  <2> HIDE DEF D, place
  <2>2. QED
    BY <2>1, Ranked
<1>3. \A i \in D : place[i] = Cardinality(Below(key, D, i))
  <2>1. \A i \in D : {j \in D : Precedes(key[j], key[i])} = Below(key, D, i)
    BY DEF Below
  <2>2. QED
    BY <2>1
<1>4. \A k \in 1..n : (CHOOSE i \in D : place[i] = k - 1) = at[k]
  <2>1. TAKE k \in 1..n
  <2>2. \A i \in D : (place[i] = k - 1) <=> (Cardinality(Below(key, D, i)) = k - 1)
    BY <1>3
  <2>3. at[k] = CHOOSE i \in D : Cardinality(Below(key, D, i)) = k - 1
    BY <1>2 DEF WithBelow, Ranks
  <2> HIDE DEF place
  <2>4. QED
    BY <2>2, <2>3
<1>5. SortedBy(rows, key) = [k \in 1..n |-> rows[CHOOSE i \in D : place[i] = k - 1]]
  <2> DEFINE f == [k \in 1..n |-> rows[CHOOSE i \in D : place[i] = k - 1]]
  <2>1. SortedBy(rows, key) = SubSeq(f, 1, n)
    BY DEF SortedBy
  <2>2. DOMAIN f = 1..n
    OBVIOUS
  <2> HIDE DEF f, n
  <2>3. SubSeq(f, 1, n) = [k \in 1..n |-> f[k]]
    BY <1>1
  <2>4. f = [k \in 1..n |-> f[k]]
    BY <2>2 DEF f
  <2>5. QED
    BY <2>1, <2>3, <2>4 DEF f
<1>6. SortedBy(rows, key) = [k \in 1..n |-> rows[at[k]]]
  <2> HIDE DEF place, n, D
  <2>1. QED
    BY ZenonT(40), <1>4, <1>5
<1>7. QED
  <2>1. /\ at \in [1..n -> D]
        /\ \A k, l \in 1..n : k < l => Precedes(key[at[k]], key[at[l]])
        /\ \A i \in D : \E k \in 1..n : at[k] = i
    BY <1>2 DEF Ranks
  <2> HIDE DEF place
  <2>2. QED
    BY <1>1, <1>6, <2>1
-----------------------------------------------------------------------------
Position  == [quantity: Nat, average_cost: Int, market_price: Int]

(* A portfolio that booked some of the fills. *)
IsPortfolio(p, fills) ==
  /\ p = [cash |-> p.cash, realized_pnl |-> p.realized_pnl, positions |-> p.positions,
          trade_ledger |-> p.trade_ledger, cash_ledger |-> p.cash_ledger,
          processed_fill_ids |-> p.processed_fill_ids, last_snapshot |-> p.last_snapshot]
  /\ p.cash \in Int
  /\ p.realized_pnl \in Int
  /\ p.positions \in [Symbols -> Position]
  /\ p.trade_ledger \in
       Seq([fill: fills, realized_pnl_delta: Int, position_quantity_after: Nat])
  /\ p.cash_ledger \in Seq(CashEntry)

(* What the lemmas below ask of a fill. *)
IsFill(fill) ==
  /\ fill.id \in Nat /\ fill.symbol \in Symbols /\ fill.side \in Side
  /\ fill.quantity \in Nat \ {0} /\ fill.price \in Nat /\ fill.commission \in Nat

SameBooks(p, q) ==
  /\ q.cash = p.cash
  /\ q.realized_pnl = p.realized_pnl
  /\ q.trade_ledger = p.trade_ledger
  /\ q.cash_ledger = p.cash_ledger
  /\ q.processed_fill_ids = p.processed_fill_ids

(* The snapshot is made of the positions and the totals alone. *)
LEMMA SnapshotFacts ==
  ASSUME NEW p, NEW q, q.cash = p.cash, q.realized_pnl = p.realized_pnl,
         q.positions = p.positions
  PROVE  BuildSnapshot(q) = BuildSnapshot(p)
BY DEF BuildSnapshot, Equity, UnrealizedPnl

(* A mark moves the market price of a position, and no books. *)
LEMMA MarkFacts ==
  ASSUME NEW p, NEW fills, IsPortfolio(p, fills), NEW symbol \in Symbols, NEW price \in Int
  PROVE  LET q == MarkToMarket(p, symbol, price)
         IN  /\ IsPortfolio(q, fills)
             /\ SameBooks(p, q)
             /\ \A s \in Symbols :
                  /\ q.positions[s].quantity = p.positions[s].quantity
                  /\ q.positions[s].average_cost = p.positions[s].average_cost
             /\ p.positions[symbol].quantity = 0 \/ p.positions[symbol].market_price = price
                  => q.positions = p.positions
             /\ q.last_snapshot = BuildSnapshot(q)
<1> DEFINE marked == IF p.positions[symbol].quantity = 0 THEN p
                     ELSE [p EXCEPT !.positions[symbol].market_price = price]
           q == MarkToMarket(p, symbol, price)
<1>1. /\ IsPortfolio(marked, fills)
      /\ SameBooks(p, marked)
      /\ \A s \in Symbols :
           /\ marked.positions[s].quantity = p.positions[s].quantity
           /\ marked.positions[s].average_cost = p.positions[s].average_cost
      /\ p.positions[symbol].quantity = 0 \/ p.positions[symbol].market_price = price
           => marked.positions = p.positions
  <2>1. CASE p.positions[symbol].quantity = 0
    BY <2>1 DEF SameBooks
  <2>2. CASE p.positions[symbol].quantity # 0
    <3> DEFINE positions == [p.positions EXCEPT ![symbol].market_price = price]
    <3>1. /\ positions \in [Symbols -> Position]
          /\ \A s \in Symbols : /\ positions[s].quantity = p.positions[s].quantity
                                /\ positions[s].average_cost = p.positions[s].average_cost
      BY DEF IsPortfolio, Position
    <3>2. p.positions[symbol].market_price = price => positions = p.positions
      <4>1. SUFFICES ASSUME p.positions[symbol].market_price = price
                     PROVE  positions = p.positions
        OBVIOUS
      <4>2. p.positions \in [Symbols -> Position]
        BY DEF IsPortfolio
      <4>3. [p.positions[symbol] EXCEPT !.market_price = price] = p.positions[symbol]
        BY <4>1, <4>2 DEF Position
      <4>4. \A s \in Symbols : positions[s] = p.positions[s]
        BY <4>2, <4>3
      <4>5. QED
        BY <3>1, <4>2, <4>4
    <3>3. marked = [cash |-> p.cash, realized_pnl |-> p.realized_pnl, positions |-> positions,
                    trade_ledger |-> p.trade_ledger, cash_ledger |-> p.cash_ledger,
                    processed_fill_ids |-> p.processed_fill_ids,
                    last_snapshot |-> p.last_snapshot]
      BY <2>2 DEF IsPortfolio
    <3> HIDE DEF marked, positions
    <3>4. /\ IsPortfolio(marked, fills) /\ SameBooks(p, marked)
          /\ marked.positions = positions
      BY <3>1, <3>3 DEF IsPortfolio, SameBooks
    <3>5. QED
      BY <2>2, <3>1, <3>2, <3>4
  <2>3. QED
    BY <2>1, <2>2
<1>2. q = [marked EXCEPT !.last_snapshot = BuildSnapshot(marked)]
  BY DEF MarkToMarket, WithSnapshot
<1> HIDE DEF marked, q
<1>3. /\ IsPortfolio(q, fills) /\ SameBooks(marked, q) /\ q.positions = marked.positions
      /\ q.last_snapshot = BuildSnapshot(marked)
  BY <1>1, <1>2 DEF IsPortfolio, SameBooks
<1>4. BuildSnapshot(q) = BuildSnapshot(marked)
  BY <1>3, SnapshotFacts DEF SameBooks
<1>5. QED
  BY <1>1, <1>3, <1>4 DEF SameBooks, q

(* What a fill that may be applied makes of a position is a position. *)
LEMMA BoughtType ==
  ASSUME NEW position \in Position, NEW fill, IsFill(fill)
  PROVE  Bought(position, fill) \in Position
<1> DEFINE quantity == position.quantity + fill.quantity
<1> DEFINE cost == position.quantity * position.average_cost + fill.quantity * fill.price
<1>1. /\ fill.quantity \in Nat \ {0} /\ fill.price \in Nat
      /\ position.quantity \in Nat /\ position.average_cost \in Int
  BY DEF IsFill, Position
<1>2. quantity \in Nat \ {0}
  BY <1>1
<1>3. position.quantity * position.average_cost \in Int /\ fill.quantity * fill.price \in Int
  BY <1>1
<1>4. cost \in Int
  BY <1>3
<1>5. Bought(position, fill) = [quantity |-> quantity, average_cost |-> cost \div quantity,
                                market_price |-> fill.price]
  BY DEF Bought
<1> HIDE DEF quantity, cost
<1>6. cost \div quantity \in Int
  BY <1>2, <1>4
<1>7. QED
  BY <1>1, <1>2, <1>5, <1>6 DEF Position

LEMMA SoldType ==
  ASSUME NEW position \in Position, NEW fill, IsFill(fill), fill.quantity <= position.quantity
  PROVE  Sold(position, fill) \in Position
<1>1. fill.quantity \in Nat /\ fill.price \in Int
  BY DEF IsFill
<1>2. CASE position.quantity = fill.quantity
  BY <1>2 DEF Sold, NoPosition, Position
<1>3. CASE position.quantity # fill.quantity
  <2>1. Sold(position, fill) = [quantity     |-> position.quantity - fill.quantity,
                                average_cost |-> position.average_cost,
                                market_price |-> fill.price]
    BY <1>3 DEF Sold, Position
  <2>2. position.quantity - fill.quantity \in Nat
    BY <1>1 DEF Position
  <2>3. QED
    BY <1>1, <2>1, <2>2 DEF Position
<1>4. QED
  BY <1>2, <1>3

LEMMA RealizedType ==
  ASSUME NEW position \in Position, NEW fill, IsFill(fill)
  PROVE  RealizedDelta(position, fill) \in Int
<1>1. /\ fill.quantity \in Int /\ fill.price \in Int /\ fill.commission \in Int
      /\ position.average_cost \in Int
  BY DEF IsFill, Position
<1>2. fill.price - position.average_cost \in Int
  BY <1>1
<1>3. (fill.price - position.average_cost) * fill.quantity \in Int
  BY <1>1, <1>2
<1>4. QED
  BY <1>1, <1>3 DEF RealizedDelta

LEMMA AmountType ==
  ASSUME NEW fill, IsFill(fill)
  PROVE  TradeAmount(fill) \in Int /\ fill.commission \in Int
<1>1. fill.quantity * fill.price \in Int /\ fill.commission \in Int
  BY DEF IsFill
<1>2. QED
  BY <1>1 DEF TradeAmount, Notional

(* _record_cash_entries writes one entry, or two when there is a commission. *)
LEMMA CashEntriesFacts ==
  ASSUME NEW fill, IsFill(fill), NEW cash \in Int
  PROVE  LET first  == [amount |-> TradeAmount(fill), cash_after |-> cash + fill.commission]
             second == [amount |-> -fill.commission, cash_after |-> cash]
         IN  /\ first \in CashEntry /\ second \in CashEntry
             /\ CashEntries(fill, cash) \in Seq(CashEntry)
             /\ IF fill.commission = 0 THEN CashEntries(fill, cash) = <<first>>
                ELSE CashEntries(fill, cash) = <<first, second>>
<1> DEFINE first == [amount |-> TradeAmount(fill), cash_after |-> cash + fill.commission]
           second == [amount |-> -fill.commission, cash_after |-> cash]
<1>1. first \in CashEntry /\ second \in CashEntry
  BY AmountType DEF CashEntry
<1>2. CashEntries(fill, cash) =
        <<first>> \o IF fill.commission = 0 THEN <<>> ELSE <<second>>
  BY DEF CashEntries
<1> HIDE DEF first, second
<1>3. /\ <<first>> \in Seq(CashEntry) /\ <<second>> \in Seq(CashEntry)
      /\ <<first, second>> \in Seq(CashEntry)
  BY <1>1
<1>4. <<first>> \o <<>> = <<first>> /\ <<first>> \o <<second>> = <<first, second>>
  <2>1. <<first>> \o <<>> = <<first>>
    BY <1>3, ConcatEmptySeq
  <2>2. <<first>> \o <<second>> = <<first, second>>
    <3> DEFINE s == <<first>>
               r == <<second>>
               t == <<first, second>>
               c == s \o r
    <3>1. /\ s \in Seq(CashEntry) /\ Len(s) = 1 /\ s[1] = first
          /\ r \in Seq(CashEntry) /\ Len(r) = 1 /\ r[1] = second
          /\ t \in Seq(CashEntry) /\ Len(t) = 2 /\ t[1] = first /\ t[2] = second
      BY <1>3
    <3> HIDE DEF s, r, t
    <3>2. /\ c \in Seq(CashEntry) /\ Len(c) = Len(s) + Len(r)
          /\ \A i \in 1..(Len(s) + Len(r)) :
               c[i] = IF i <= Len(s) THEN s[i] ELSE r[i - Len(s)]
      BY <3>1, ConcatProperties
    <3> HIDE DEF c
    <3>3. Len(c) = Len(t) /\ \A i \in 1..Len(c) : c[i] = t[i]
      <4>1. Len(c) = 2 /\ c[1] = s[1] /\ c[2] = r[1]
        BY <3>1, <3>2
      <4>2. \A i \in 1..2 : i = 1 \/ i = 2
        OBVIOUS
      <4>3. QED
        BY <3>1, <4>1, <4>2
    <3>4. c = t
      BY <3>1, <3>2, <3>3, SeqEqual
    <3>5. QED
      BY <3>4 DEF c, s, r, t
  <2>3. QED
    BY <2>1, <2>2
<1>5. CASE fill.commission = 0
  <2>1. CashEntries(fill, cash) = <<first>>
    BY <1>2, <1>4, <1>5
  <2>2. QED
    BY <1>1, <1>3, <1>5, <2>1 DEF first, second
<1>6. CASE fill.commission # 0
  <2>1. CashEntries(fill, cash) = <<first, second>>
    BY <1>2, <1>4, <1>6
  <2>2. QED
    BY <1>1, <1>3, <1>6, <2>1 DEF first, second
<1>7. QED
  BY <1>5, <1>6

(* What a fill makes of the position it trades. *)
After(p, fill) ==
  IF fill.side = "BUY" THEN Bought(p.positions[fill.symbol], fill)
                       ELSE Sold(p.positions[fill.symbol], fill)

CashWith(p, fill) == p.cash + TradeAmount(fill) - fill.commission

RealizedWith(p, fill) == p.realized_pnl + RealizedDelta(p.positions[fill.symbol], fill)

(* The two outcomes of apply_fill: the books stay as they were, or a fill with a
   new id is booked in both ledgers, and the snapshot made anew. *)
LeavesBooks(p, q) ==
  /\ q.cash = p.cash
  /\ q.realized_pnl = p.realized_pnl
  /\ q.positions = p.positions
  /\ q.trade_ledger = p.trade_ledger
  /\ q.cash_ledger = p.cash_ledger
  /\ q.last_snapshot = p.last_snapshot

BooksFill(p, fill, q) ==
  /\ fill.id \notin p.processed_fill_ids /\ ~Oversells(p, fill)
  /\ q.cash = CashWith(p, fill)
  /\ q.realized_pnl = RealizedWith(p, fill)
  /\ q.positions = [p.positions EXCEPT ![fill.symbol] = After(p, fill)]
  /\ After(p, fill) \in Position
  /\ \E entry \in [fill: {fill}, realized_pnl_delta: Int, position_quantity_after: Nat] :
       q.trade_ledger = Append(p.trade_ledger, entry)
  /\ q.cash_ledger = p.cash_ledger \o CashEntries(fill, CashWith(p, fill))
  /\ q.last_snapshot = BuildSnapshot(q)

LEMMA ApplyFillFacts ==
  ASSUME NEW p, NEW fills, IsPortfolio(p, fills), NEW fill \in fills, IsFill(fill)
  PROVE  LET q == ApplyFill(p, fill)
         IN  /\ IsPortfolio(q, fills)
             /\ q.processed_fill_ids = p.processed_fill_ids \cup {fill.id}
             /\ IF fill.id \in p.processed_fill_ids \/ Oversells(p, fill)
                THEN LeavesBooks(p, q) ELSE BooksFill(p, fill, q)
<1> DEFINE before == p.positions[fill.symbol]
           after == IF fill.side = "BUY" THEN Bought(before, fill) ELSE Sold(before, fill)
           cash == p.cash + TradeAmount(fill) - fill.commission
           realized == RealizedDelta(before, fill)
           applied == [p EXCEPT
                         !.processed_fill_ids = @ \cup {fill.id},
                         !.positions[fill.symbol] = after,
                         !.cash = cash,
                         !.realized_pnl = @ + realized,
                         !.trade_ledger = Append(@, TradeEntry(fill, realized, after)),
                         !.cash_ledger = @ \o CashEntries(fill, cash)]
<1>1. fill.symbol \in Symbols /\ fill.side \in Side /\ fill.quantity \in Nat
      /\ fill.price \in Nat /\ before \in Position
  BY DEF IsPortfolio, IsFill
<1>2. CASE fill.id \in p.processed_fill_ids
  BY <1>2 DEF ApplyFill, LeavesBooks
<1>3. CASE fill.id \notin p.processed_fill_ids /\ Oversells(p, fill)
  <2>1. ApplyFill(p, fill) = [p EXCEPT !.processed_fill_ids = @ \cup {fill.id}]
    BY <1>3 DEF ApplyFill
  <2> DEFINE q == ApplyFill(p, fill)
             ids == p.processed_fill_ids \cup {fill.id}
  <2>2. q = [cash |-> p.cash, realized_pnl |-> p.realized_pnl, positions |-> p.positions,
             trade_ledger |-> p.trade_ledger, cash_ledger |-> p.cash_ledger,
             processed_fill_ids |-> ids, last_snapshot |-> p.last_snapshot]
    BY <2>1 DEF IsPortfolio
  <2> HIDE DEF q, ids
  <2>3. IsPortfolio(q, fills) /\ LeavesBooks(p, q) /\ q.processed_fill_ids = ids
    BY <2>2 DEF IsPortfolio, LeavesBooks
  <2>4. QED
    BY <1>3, <2>3 DEF q, ids
<1>4. CASE fill.id \notin p.processed_fill_ids /\ ~Oversells(p, fill)
  <2>1. ApplyFill(p, fill) = MarkToMarket(applied, fill.symbol, fill.price)
    BY <1>4 DEF ApplyFill
  <2>2. after \in Position
    <3>1. CASE fill.side = "BUY"
      BY <1>1, <3>1, BoughtType
    <3>2. CASE fill.side = "SELL"
      <4>1. fill.quantity <= before.quantity
        BY <1>1, <1>4, <3>2 DEF Oversells, Position
      <4>2. QED
        BY <1>1, <3>2, <4>1, SoldType
    <3>3. QED
      BY <1>1, <3>1, <3>2 DEF Side
  <2>3. realized \in Int /\ cash \in Int /\ TradeAmount(fill) \in Int
    BY <1>1, RealizedType, AmountType DEF IsPortfolio
  <2>4. CashEntries(fill, cash) \in Seq(CashEntry)
    BY <2>3, CashEntriesFacts
  <2>5. TradeEntry(fill, realized, after) \in
          [fill: {fill}, realized_pnl_delta: Int, position_quantity_after: Nat]
    BY <2>2, <2>3 DEF TradeEntry, Position
  <2>6. applied = [cash |-> cash, realized_pnl |-> p.realized_pnl + realized,
                   positions |-> [p.positions EXCEPT ![fill.symbol] = after],
                   trade_ledger |-> Append(p.trade_ledger, TradeEntry(fill, realized, after)),
                   cash_ledger |-> p.cash_ledger \o CashEntries(fill, cash),
                   processed_fill_ids |-> p.processed_fill_ids \cup {fill.id},
                   last_snapshot |-> p.last_snapshot]
    <3> HIDE DEF after, cash, realized
    <3>1. p = [cash |-> p.cash, realized_pnl |-> p.realized_pnl, positions |-> p.positions,
               trade_ledger |-> p.trade_ledger, cash_ledger |-> p.cash_ledger,
               processed_fill_ids |-> p.processed_fill_ids, last_snapshot |-> p.last_snapshot]
      BY DEF IsPortfolio
    <3> DEFINE ids == p.processed_fill_ids \cup {fill.id}
               trades == Append(p.trade_ledger, TradeEntry(fill, realized, after))
               entries == p.cash_ledger \o CashEntries(fill, cash)
               profit == p.realized_pnl + realized
    <3>2. applied = [p EXCEPT !.processed_fill_ids = ids, !.positions[fill.symbol] = after,
                              !.cash = cash, !.realized_pnl = profit,
                              !.trade_ledger = trades, !.cash_ledger = entries]
      OBVIOUS
    <3> HIDE DEF ids, trades, entries, profit, applied
    <3>3. applied = [cash |-> cash, realized_pnl |-> profit,
                     positions |-> [p.positions EXCEPT ![fill.symbol] = after],
                     trade_ledger |-> trades, cash_ledger |-> entries,
                     processed_fill_ids |-> ids, last_snapshot |-> p.last_snapshot]
      BY <3>1, <3>2
    <3>4. QED
      BY <3>3 DEF ids, trades, entries, profit
  <2> HIDE DEF after, cash, realized, applied
  <2>7. IsPortfolio(applied, fills)
    <3>1. p.realized_pnl + realized \in Int
      BY <2>3 DEF IsPortfolio
    <3>2. [p.positions EXCEPT ![fill.symbol] = after] \in [Symbols -> Position]
      BY <2>2 DEF IsPortfolio
    <3>3. Append(p.trade_ledger, TradeEntry(fill, realized, after)) \in
            Seq([fill: fills, realized_pnl_delta: Int, position_quantity_after: Nat])
      <4>1. TradeEntry(fill, realized, after) \in
              [fill: fills, realized_pnl_delta: Int, position_quantity_after: Nat]
        BY <2>5
      <4> HIDE DEF TradeEntry
      <4>2. QED
        BY <4>1 DEF IsPortfolio
    <3>4. p.cash_ledger \o CashEntries(fill, cash) \in Seq(CashEntry)
      BY <2>4 DEF IsPortfolio
    <3>5. QED
      BY <2>3, <2>6, <3>1, <3>2, <3>3, <3>4 DEF IsPortfolio
  <2> DEFINE q == MarkToMarket(applied, fill.symbol, fill.price)
             entry == TradeEntry(fill, realized, after)
  <2>8. /\ applied.cash = cash
        /\ applied.realized_pnl = p.realized_pnl + realized
        /\ applied.positions = [p.positions EXCEPT ![fill.symbol] = after]
        /\ applied.trade_ledger = Append(p.trade_ledger, entry)
        /\ applied.cash_ledger = p.cash_ledger \o CashEntries(fill, cash)
        /\ applied.processed_fill_ids = p.processed_fill_ids \cup {fill.id}
    BY <2>6
  <2>9. after.quantity = 0 \/ after.market_price = fill.price
    BY <1>1 DEF after, Bought, Sold, NoPosition, Position
  <2>10. applied.positions[fill.symbol] = after
    BY <1>1, <2>8 DEF IsPortfolio
  <2>11. /\ IsPortfolio(q, fills)
         /\ SameBooks(applied, q)
         /\ q.positions = applied.positions
         /\ q.last_snapshot = BuildSnapshot(q)
    <3>1. fill.price \in Int
      BY <1>1
    <3>2. applied.positions[fill.symbol].quantity = 0
            \/ applied.positions[fill.symbol].market_price = fill.price
      BY <2>9, <2>10
    <3>3. QED
      BY <1>1, <2>7, <3>1, <3>2, MarkFacts
  <2>12. after = After(p, fill) /\ cash = CashWith(p, fill)
         /\ p.realized_pnl + realized = RealizedWith(p, fill)
    BY DEF after, cash, realized, After, CashWith, RealizedWith
  <2> HIDE DEF q, entry
  <2>13. /\ q.cash = CashWith(p, fill)
         /\ q.realized_pnl = RealizedWith(p, fill)
         /\ q.positions = [p.positions EXCEPT ![fill.symbol] = After(p, fill)]
         /\ q.trade_ledger = Append(p.trade_ledger, entry)
         /\ q.cash_ledger = p.cash_ledger \o CashEntries(fill, CashWith(p, fill))
         /\ q.processed_fill_ids = p.processed_fill_ids \cup {fill.id}
    BY <2>8, <2>11, <2>12 DEF SameBooks
  <2>14. BooksFill(p, fill, q)
    BY <1>4, <2>2, <2>5, <2>11, <2>12, <2>13 DEF BooksFill, entry
  <2>15. q = ApplyFill(p, fill)
    BY <2>1 DEF q
  <2>16. QED
    BY <1>4, <2>11, <2>13, <2>14, <2>15
<1>5. QED
  BY <1>2, <1>3, <1>4
-----------------------------------------------------------------------------
(* What the positions are worth, what they cost, and what they have gained. *)
Values(p) == [s \in Symbols |-> p.positions[s].quantity * p.positions[s].market_price]
Costs(p)  == [s \in Symbols |-> p.positions[s].quantity * p.positions[s].average_cost]
Gains(p)  == [s \in Symbols |->
  p.positions[s].quantity * (p.positions[s].market_price - p.positions[s].average_cost)]

LEMMA PositionSums ==
  ASSUME NEW p, p.positions \in [Symbols -> Position]
  PROVE  /\ Values(p) \in [Symbols -> Int] /\ Costs(p) \in [Symbols -> Int]
         /\ Gains(p) \in [Symbols -> Int]
         /\ SumFunction(Values(p)) \in Int /\ SumFunction(Costs(p)) \in Int
         /\ SumFunction(Gains(p)) \in Int
         /\ SumFunction(Values(p)) = SumFunction(Gains(p)) + SumFunction(Costs(p))
<1>1. ASSUME NEW s \in Symbols
      PROVE  /\ Values(p)[s] \in Int /\ Costs(p)[s] \in Int /\ Gains(p)[s] \in Int
             /\ Values(p)[s] = Gains(p)[s] + Costs(p)[s]
  <2> DEFINE q == p.positions[s].quantity
             m == p.positions[s].market_price
             a == p.positions[s].average_cost
  <2>1. q \in Int /\ m \in Int /\ a \in Int
    BY DEF Position
  <2>2. Values(p)[s] = q * m /\ Costs(p)[s] = q * a /\ Gains(p)[s] = q * (m - a)
    BY DEF Values, Costs, Gains
  <2> HIDE DEF q, m, a
  <2>3. q * m \in Int /\ q * a \in Int /\ q * (m - a) \in Int /\ q * m = q * (m - a) + q * a
    BY <2>1
  <2>4. QED
    BY <2>2, <2>3
<1>2. Values(p) \in [Symbols -> Int] /\ Costs(p) \in [Symbols -> Int] /\ Gains(p) \in [Symbols -> Int]
  <2>1. /\ Values(p) = [s \in Symbols |-> Values(p)[s]]
        /\ Costs(p) = [s \in Symbols |-> Costs(p)[s]]
        /\ Gains(p) = [s \in Symbols |-> Gains(p)[s]]
    BY DEF Values, Costs, Gains
  <2>2. QED
    BY <1>1, <2>1
<1>3. SumFunction(Values(p)) = SumFunction(Gains(p)) + SumFunction(Costs(p))
  BY <1>1, <1>2, SumPlus, SymbolsAssumption
<1>4. QED
  BY <1>2, <1>3, SumType, SymbolsAssumption

LEMMA SnapshotType ==
  ASSUME NEW p, NEW fills, IsPortfolio(p, fills)
  PROVE  /\ BuildSnapshot(p) \in AccountSnapshot
         /\ BuildSnapshot(p).equity = p.cash + SumFunction(Values(p))
         /\ BuildSnapshot(p).unrealized_pnl = SumFunction(Gains(p))
         /\ BuildSnapshot(p).realized_pnl = p.realized_pnl
<1>1. p.positions \in [Symbols -> Position] /\ p.cash \in Int /\ p.realized_pnl \in Int
  BY DEF IsPortfolio
<1>2. SumFunction(Values(p)) \in Int /\ SumFunction(Gains(p)) \in Int
  BY <1>1, PositionSums
<1>3. Equity(p) = p.cash + SumFunction(Values(p)) /\ UnrealizedPnl(p) = SumFunction(Gains(p))
  BY DEF Equity, UnrealizedPnl, Values, Gains
<1>4. [s \in Symbols |-> p.positions[s].quantity] \in [Symbols -> Nat]
  BY <1>1 DEF Position
<1>5. QED
  BY <1>1, <1>2, <1>3, <1>4 DEF BuildSnapshot, AccountSnapshot
=============================================================================
