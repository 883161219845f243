---------------------------- MODULE SharedFacts ----------------------------
(***************************************************************************)
(* What the proofs of several modules cite.  Induction and recursion are   *)
(* stated of sets: a predicate is the set of what satisfies it, a          *)
(* recursive definition the function it steps with.  The proofs about      *)
(* folds (the stream's memory, the bytes in a pool, a pass over a kernel)  *)
(* rest on them.  Then sums over finite sets, powers of two, and that a    *)
(* size bucket holds the request it serves.                                *)
(***************************************************************************)
EXTENDS SizeBucket, Integers, FiniteSets, Functions, FiniteSetTheorems, WellFoundedInduction, TLAPS

(* The natural numbers satisfy what zero has and a successor inherits.     *)
THEOREM NatSetInduction ==
  ASSUME NEW P, 0 \in P, \A n \in Nat : n \in P => n + 1 \in P
  PROVE  Nat \subseteq P
<1> DEFINE Bad == Nat \ P
           Below == {0 .. n : n \in Bad}
<1>1. IsWellFoundedOn(StrictSubsetOrdering(Nat), FiniteSubsetsOf(Nat))
  BY FS_StrictSubsetOrderingWellFounded
<1>2. SUFFICES ASSUME Bad # {} PROVE FALSE
  OBVIOUS
<1>3. PICK T \in Below : \A U \in Below : <<U, T>> \notin StrictSubsetOrdering(Nat)
  <2>1. \A n \in Nat : 0 .. n \subseteq Nat /\ IsFiniteSet(0 .. n)
    BY FS_Interval
  <2>2. Below \subseteq FiniteSubsetsOf(Nat) /\ Below # {}
    BY <1>2, <2>1 DEF FiniteSubsetsOf
  <2> HIDE DEF Below
  <2> QED
    BY <1>1, <2>2, WFMin, Zenon
<1>4. PICK n \in Bad : T = 0 .. n
  OBVIOUS
<1>5. n # 0 /\ n - 1 \in Nat
  OBVIOUS
<1>6. 0 .. (n - 1) \subseteq 0 .. n /\ n \in 0 .. n /\ n \notin 0 .. (n - 1) /\ 0 .. n \subseteq Nat
  BY <1>5
<1>7. <<0 .. (n - 1), T>> \in StrictSubsetOrdering(Nat)
  BY <1>4, <1>6 DEF StrictSubsetOrdering
<1>8. n - 1 \in P
  BY <1>3, <1>5, <1>7
<1>9. (n - 1) + 1 \in P
  BY <1>5, <1>8
<1> QED
  BY <1>5, <1>9

(* A finite set satisfies what the empty set has and an added element      *)
(* keeps.                                                                  *)
THEOREM FiniteSetInduction ==
  ASSUME NEW S, IsFiniteSet(S), NEW P, {} \in P,
         \A T \in SUBSET S : \A x \in S \ T : T \in P => T \cup {x} \in P
  PROVE  S \in P
<1>1. IsWellFoundedOn(StrictSubsetOrdering(S), FiniteSubsetsOf(S))
  BY FS_StrictSubsetOrderingWellFounded
<1>2. SUFFICES ASSUME S \notin P PROVE FALSE
  OBVIOUS
<1> DEFINE Bad == {T \in SUBSET S : T \notin P}
<1>3. FiniteSubsetsOf(S) = SUBSET S
  BY FS_FiniteSubsetsOfFinite
<1>4. PICK T \in Bad : \A U \in Bad : <<U, T>> \notin StrictSubsetOrdering(S)
  <2>1. Bad \subseteq FiniteSubsetsOf(S) /\ Bad # {}
    BY <1>2, <1>3
  <2> HIDE DEF Bad
  <2> QED
    BY <1>1, <2>1, WFMin, Zenon
<1>5. PICK x \in T : TRUE
  BY <1>4
<1>6. T \ {x} \in SUBSET S /\ T \in SUBSET S /\ x \in S \ (T \ {x})
  BY <1>4, <1>5
<1>7. T \ {x} \in P
  BY <1>4, <1>5, <1>6 DEF StrictSubsetOrdering
<1>8. (T \ {x}) \cup {x} \in P
  BY <1>6, <1>7
<1>9. (T \ {x}) \cup {x} = T
  BY <1>5
<1> QED
  BY <1>4, <1>8, <1>9

---------------------------------------------------------------------------
(* Recursion over the natural numbers: F[n] takes the value at n to the    *)
(* value at n + 1.                                                         *)

Unfolds(g, n, b, F) ==
  /\ g[0] = b
  /\ \A k \in 0 .. (n - 1) : g[k + 1] = F[k][g[k]]

(* Every prefix of the recursion has a solution ...                        *)
LEMMA PrefixesUnfold ==
  ASSUME NEW S, NEW b \in S, NEW F \in [Nat -> [S -> S]]
  PROVE  \A n \in Nat : \E g \in [0 .. n -> S] : Unfolds(g, n, b, F)
<1> DEFINE P == {n \in Nat : \E g \in [0 .. n -> S] : Unfolds(g, n, b, F)}
<1>1. 0 \in P
  <2>1. [k \in 0 .. 0 |-> b] \in [0 .. 0 -> S]
    OBVIOUS
  <2>2. Unfolds([k \in 0 .. 0 |-> b], 0, b, F)
    BY DEF Unfolds
  <2> QED
    BY <2>1, <2>2
<1>2. ASSUME NEW n \in Nat, n \in P PROVE n + 1 \in P
  <2>1. PICK g \in [0 .. n -> S] : Unfolds(g, n, b, F)
    BY <1>2
  <2> DEFINE h == [k \in 0 .. (n + 1) |-> IF k \in 0 .. n THEN g[k] ELSE F[n][g[n]]]
  <2>2. h \in [0 .. (n + 1) -> S]
    <3>1. F[n][g[n]] \in S
      BY <2>1
    <3> QED
      BY <2>1, <3>1
  <2>3. Unfolds(h, n + 1, b, F)
    <3>1. h[0] = b
      BY <2>1 DEF Unfolds
    <3>2. ASSUME NEW k \in 0 .. n PROVE h[k + 1] = F[k][h[k]]
      <4>1. h[k] = g[k] /\ (k < n => h[k + 1] = g[k + 1]) /\ (k = n => h[k + 1] = F[n][g[n]])
        OBVIOUS
      <4>2. k < n => g[k + 1] = F[k][g[k]]
        BY <2>1 DEF Unfolds
      <4> HIDE DEF h
      <4>3. CASE k < n
        <5>1. h[k + 1] = F[k][g[k]]
          BY <4>1, <4>2, <4>3
        <5> QED
          BY <4>1, <5>1
      <4>4. CASE k = n
        <5>1. F[n][g[n]] = F[k][h[k]]
          BY <4>1, <4>4
        <5> QED
          BY <4>1, <4>4, <5>1
      <4> QED
        BY <4>3, <4>4
    <3>3. (n + 1) - 1 = n
      OBVIOUS
    <3> HIDE DEF h
    <3> QED
      BY <3>1, <3>2, <3>3 DEF Unfolds
  <2> QED
    BY <2>2, <2>3
<1>3. Nat \subseteq P
  <2> HIDE DEF P
  <2> QED
    BY <1>1, <1>2, NatSetInduction
<1> QED
  BY <1>3

(* ... and two of them agree as far as both go.                            *)
LEMMA PrefixesAgree ==
  ASSUME NEW b, NEW F, NEW g, NEW h, NEW m \in Nat, NEW n \in Nat,
         Unfolds(g, m, b, F), Unfolds(h, n, b, F)
  PROVE  \A k \in Nat : k <= m /\ k <= n => g[k] = h[k]
<1> DEFINE P == {k \in Nat : k <= m /\ k <= n => g[k] = h[k]}
<1>1. 0 \in P
  BY DEF Unfolds
<1>2. ASSUME NEW k \in Nat, k \in P PROVE k + 1 \in P
  <2>1. CASE k + 1 <= m /\ k + 1 <= n
    <3>1. k \in 0 .. (m - 1) /\ k \in 0 .. (n - 1) /\ g[k] = h[k]
      BY <1>2, <2>1
    <3>2. g[k + 1] = F[k][g[k]]
      BY <3>1 DEF Unfolds
    <3>3. h[k + 1] = F[k][h[k]]
      BY <3>1 DEF Unfolds
    <3>4. g[k + 1] = h[k + 1]
      BY <3>1, <3>2, <3>3, Zenon
    <3> QED
      BY <3>4
  <2> QED
    BY <2>1
<1>3. Nat \subseteq P
  <2> HIDE DEF P
  <2> QED
    BY <1>1, <1>2, NatSetInduction
<1> QED
  BY <1>3

Recurses(g, b, F) == g[0] = b /\ \A n \in Nat : g[n + 1] = F[n][g[n]]

(* So a recursive definition over the natural numbers defines a function.  *)
THEOREM NatSetRecursion ==
  ASSUME NEW S, NEW b \in S, NEW F \in [Nat -> [S -> S]]
  PROVE  \E g \in [Nat -> S] : Recurses(g, b, F)
<1> DEFINE G(n) == CHOOSE g \in [0 .. n -> S] : Unfolds(g, n, b, F)
           g == [n \in Nat |-> G(n)[n]]
<1>1. \A n \in Nat : G(n) \in [0 .. n -> S] /\ Unfolds(G(n), n, b, F)
  BY PrefixesUnfold
<1> HIDE DEF G
<1>2. g \in [Nat -> S]
  BY <1>1
<1>3. g[0] = b
  BY <1>1 DEF Unfolds
<1>4. ASSUME NEW n \in Nat PROVE g[n + 1] = F[n][g[n]]
  <2>1. g[n + 1] = G(n + 1)[n + 1] /\ g[n] = G(n)[n]
    OBVIOUS
  <2>2. G(n + 1)[n + 1] = F[n][G(n + 1)[n]]
    BY <1>1 DEF Unfolds
  <2>3. G(n + 1)[n] = G(n)[n]
    BY <1>1, PrefixesAgree
  <2> QED
    BY <2>1, <2>2, <2>3
<1>5. Recurses(g, b, F)
  BY <1>3, <1>4 DEF Recurses
<1> QED
  BY <1>2, <1>5

---------------------------------------------------------------------------
(* Sums over finite sets: SumFunctionOnSet of the community modules folds  *)
(* a function over a set, choosing the elements in some order.             *)

Chosen(s) == CHOOSE x \in s : TRUE

(* The sums of f over every subset of S, as the fold computes them.        *)
Sums(h, f, S) ==
  h = [s \in SUBSET S |-> IF s = {} THEN 0 ELSE f[Chosen(s)] + h[s \ {Chosen(s)}]]

(* They exist: the sums over subsets of at most n elements are computed    *)
(* from those of at most n - 1.                                            *)
LEMMA SumsExist ==
  ASSUME NEW S, IsFiniteSet(S), NEW f, \A x \in S : f[x] \in Nat
  PROVE  \E h \in [SUBSET S -> Nat] : Sums(h, f, S)
<1> DEFINE V == [SUBSET S -> Nat]
           B == [s \in SUBSET S |-> 0]
           Next_(g) == [s \in SUBSET S |-> IF s = {} THEN 0
                                            ELSE f[Chosen(s)] + g[s \ {Chosen(s)}]]
           F == [n \in Nat |-> [g \in V |-> Next_(g)]]
<1>1. ASSUME NEW s \in SUBSET S, s # {}
      PROVE  Chosen(s) \in s /\ s \ {Chosen(s)} \in SUBSET S
  BY <1>1 DEF Chosen
<1>2. B \in V /\ F \in [Nat -> [V -> V]]
  <2>1. ASSUME NEW g \in V PROVE Next_(g) \in V
    BY <1>1
  <2> QED
    BY <2>1
<1>3. PICK H \in [Nat -> V] : Recurses(H, B, F)
  <2> HIDE DEF V, B, F
  <2> QED
    BY <1>2, NatSetRecursion
<1>4. ASSUME NEW n \in Nat PROVE H[n + 1] = Next_(H[n])
  <2>1. F[n][H[n]] = Next_(H[n])
    BY <1>3
  <2> QED
    BY <1>3, <2>1 DEF Recurses
<1> DEFINE h == [s \in SUBSET S |-> H[Cardinality(s)][s]]
<1>5. \A s \in SUBSET S : IsFiniteSet(s) /\ Cardinality(s) \in Nat
  BY FS_Subset, FS_CardinalityType
<1>6. h \in V
  BY <1>3, <1>5
<1>7. ASSUME NEW s \in SUBSET S
      PROVE  h[s] = IF s = {} THEN 0 ELSE f[Chosen(s)] + h[s \ {Chosen(s)}]
  <2>1. CASE s = {}
    <3>1. Cardinality(s) = 0
      BY <2>1, FS_EmptySet
    <3> QED
      BY <1>3, <2>1, <3>1 DEF Recurses
  <2>2. CASE s # {}
    <3> DEFINE r == s \ {Chosen(s)}
    <3>1. r \in SUBSET S /\ Chosen(s) \in s
      BY <1>1, <2>2
    <3>2. Cardinality(r) = Cardinality(s) - 1 /\ Cardinality(r) \in Nat /\ Cardinality(s) \in Nat
      BY <1>5, <3>1, FS_RemoveElement
    <3>3. Cardinality(s) = Cardinality(r) + 1
      BY <3>2
    <3>4. H[Cardinality(s)][s] = Next_(H[Cardinality(r)])[s]
      BY <1>4, <3>2, <3>3
    <3>5. Next_(H[Cardinality(r)])[s] = f[Chosen(s)] + H[Cardinality(r)][r]
      BY <2>2
    <3> QED
      BY <2>2, <3>1, <3>4, <3>5
  <2> QED
    BY <2>1, <2>2
<1>8. Sums(h, f, S)
  <2>1. h = [s \in SUBSET S |-> IF s = {} THEN 0 ELSE f[Chosen(s)] + h[s \ {Chosen(s)}]]
    <3>1. h \in [SUBSET S -> Nat]
      BY <1>6
    <3> HIDE DEF h
    <3> DEFINE k == [s \in SUBSET S |-> IF s = {} THEN 0 ELSE f[Chosen(s)] + h[s \ {Chosen(s)}]]
    <3>2. \A s \in SUBSET S : h[s] = k[s]
      BY <1>7
    <3>3. h = [s \in SUBSET S |-> h[s]] /\ k = [s \in SUBSET S |-> k[s]]
      BY <3>1
    <3> HIDE DEF k
    <3>4. [s \in SUBSET S |-> h[s]] = [s \in SUBSET S |-> k[s]]
      BY <3>2, Zenon
    <3>5. h = k
      BY <3>3, <3>4, Zenon
    <3> QED
      BY <3>5 DEF k
  <2> QED
    BY <2>1 DEF Sums
<1> QED
  BY <1>6, <1>8

(* Any two of them agree on the subsets that both cover.                   *)
LEMMA SumsAgree ==
  ASSUME NEW S, IsFiniteSet(S), NEW T \in SUBSET S, NEW f, NEW g, NEW h, NEW k,
         \A x \in T : f[x] = g[x], Sums(h, f, S), Sums(k, g, T)
  PROVE  \A s \in SUBSET T : h[s] = k[s]
<1> DEFINE P == {n \in Nat : \A s \in SUBSET T : Cardinality(s) = n => h[s] = k[s]}
<1>1. \A s \in SUBSET T : IsFiniteSet(s) /\ Cardinality(s) \in Nat /\ s \in SUBSET S
  BY FS_Subset, FS_CardinalityType
<1>2. ASSUME NEW s \in SUBSET T
      PROVE  /\ h[s] = IF s = {} THEN 0 ELSE f[Chosen(s)] + h[s \ {Chosen(s)}]
             /\ k[s] = IF s = {} THEN 0 ELSE g[Chosen(s)] + k[s \ {Chosen(s)}]
  BY <1>1 DEF Sums
<1>3. 0 \in P
  <2>1. \A s \in SUBSET T : Cardinality(s) = 0 => s = {}
    BY <1>1, FS_EmptySet
  <2> QED
    BY <1>2, <2>1
<1>4. ASSUME NEW n \in Nat, n \in P PROVE n + 1 \in P
  <2>1. SUFFICES ASSUME NEW s \in SUBSET T, Cardinality(s) = n + 1 PROVE h[s] = k[s]
    OBVIOUS
  <2>2. s # {}
    BY <2>1, FS_EmptySet
  <2>3. Chosen(s) \in s
    BY <2>2 DEF Chosen
  <2>4. s \ {Chosen(s)} \in SUBSET T /\ Cardinality(s \ {Chosen(s)}) = n
    <3>1. Cardinality(s \ {Chosen(s)}) = Cardinality(s) - 1
      BY <1>1, <2>3, FS_RemoveElement
    <3> QED
      BY <2>1, <3>1
  <2>5. h[s \ {Chosen(s)}] = k[s \ {Chosen(s)}]
    BY <1>4, <2>4
  <2>6. f[Chosen(s)] = g[Chosen(s)]
    BY <2>1, <2>3
  <2> QED
    BY <1>2, <2>2, <2>5, <2>6
<1>5. Nat \subseteq P
  <2> HIDE DEF P
  <2> QED
    BY <1>3, <1>4, NatSetInduction
<1> QED
  BY <1>1, <1>5

(* What SumFunctionOnSet returns is the last of them.                      *)
LEMMA SumIsLast ==
  ASSUME NEW S, IsFiniteSet(S), NEW f, \A x \in S : f[x] \in Nat
  PROVE  \E h \in [SUBSET S -> Nat] : Sums(h, f, S) /\ SumFunctionOnSet(f, S) = h[S]
<1> DEFINE C == CHOOSE h : Sums(h, f, S)
<1>1. PICK g \in [SUBSET S -> Nat] : Sums(g, f, S)
  BY SumsExist
<1>2. Sums(C, f, S)
  BY <1>1
<1>3. SumFunctionOnSet(f, S) = C[S]
  BY DEF SumFunctionOnSet, FoldFunctionOnSet, MapThenFoldSet, Sums, Chosen
<1> HIDE DEF C
<1>4. \A s \in SUBSET S : C[s] = g[s]
  BY <1>1, <1>2, SumsAgree
<1> QED
  BY <1>1, <1>3, <1>4

LEMMA SumOfSubset ==
  ASSUME NEW S, IsFiniteSet(S), NEW f, \A x \in S : f[x] \in Nat,
         NEW h, Sums(h, f, S), NEW T \in SUBSET S
  PROVE  SumFunctionOnSet(f, T) = h[T]
<1>1. IsFiniteSet(T)
  BY FS_Subset
<1>2. PICK k \in [SUBSET T -> Nat] : Sums(k, f, T) /\ SumFunctionOnSet(f, T) = k[T]
  BY <1>1, SumIsLast
<1>3. \A s \in SUBSET T : h[s] = k[s]
  <2>1. \A x \in T : f[x] = f[x]
    OBVIOUS
  <2>2. Sums(h, f, S) /\ Sums(k, f, T) /\ T \in SUBSET S /\ IsFiniteSet(S)
    BY <1>2
  <2>3. \A g : (\A x \in T : f[x] = g[x]) /\ Sums(k, g, T) => \A s \in SUBSET T : h[s] = k[s]
    BY <2>2, SumsAgree
  <2> QED
    BY <2>1, <2>2, <2>3
<1> QED
  BY <1>2, <1>3

(* The sum over the empty set is zero, every sum of naturals a natural.    *)
THEOREM SumOverEmpty ==
  ASSUME NEW f PROVE SumFunctionOnSet(f, {}) = 0
<1>1. IsFiniteSet({})
  BY FS_EmptySet
<1>2. PICK h \in [SUBSET {} -> Nat] : Sums(h, f, {}) /\ SumFunctionOnSet(f, {}) = h[{}]
  BY <1>1, SumIsLast
<1> QED
  BY <1>2 DEF Sums

THEOREM SumIsNat ==
  ASSUME NEW S, IsFiniteSet(S), NEW f, \A x \in S : f[x] \in Nat
  PROVE  SumFunctionOnSet(f, S) \in Nat
<1>1. PICK h \in [SUBSET S -> Nat] : SumFunctionOnSet(f, S) = h[S]
  BY SumIsLast
<1> QED
  BY <1>1

(* Which element is chosen first does not matter: any of them may be taken *)
(* out of the sum.                                                         *)
THEOREM SumRemove ==
  ASSUME NEW S, IsFiniteSet(S), NEW f, \A x \in S : f[x] \in Nat, NEW x \in S
  PROVE  SumFunctionOnSet(f, S) = f[x] + SumFunctionOnSet(f, S \ {x})
<1>1. PICK h \in [SUBSET S -> Nat] : Sums(h, f, S)
  BY SumIsLast
<1> DEFINE P == {n \in Nat : \A T \in SUBSET S : \A y \in T :
                   Cardinality(T) = n => h[T] = f[y] + h[T \ {y}]}
<1>2. \A T \in SUBSET S : IsFiniteSet(T) /\ Cardinality(T) \in Nat
  BY FS_Subset, FS_CardinalityType
<1>3. 0 \in P
  BY <1>2, FS_EmptySet
<1>4. ASSUME NEW n \in Nat, n \in P PROVE n + 1 \in P
  <2>1. SUFFICES ASSUME NEW T \in SUBSET S, NEW y \in T, Cardinality(T) = n + 1
                 PROVE  h[T] = f[y] + h[T \ {y}]
    OBVIOUS
  <2> DEFINE z == Chosen(T)
  <2>2. z \in T
    BY <2>1 DEF Chosen
  <2>3. h[T] = f[z] + h[T \ {z}]
    BY <1>1, <2>1 DEF Sums
  <2> HIDE DEF z
  <2>4. CASE z = y
    BY <2>3, <2>4
  <2>5. CASE z # y
    <3>1. Cardinality(T \ {z}) = n /\ Cardinality(T \ {y}) = n
      <4>1. Cardinality(T \ {z}) = Cardinality(T) - 1 /\ Cardinality(T \ {y}) = Cardinality(T) - 1
        BY <1>2, <2>1, <2>2, FS_RemoveElement
      <4> QED
        BY <2>1, <4>1
    <3>2. h[T \ {z}] = f[y] + h[(T \ {z}) \ {y}]
      <4>1. T \ {z} \in SUBSET S /\ y \in T \ {z}
        BY <2>1, <2>5
      <4> QED
        BY <1>4, <3>1, <4>1
    <3>3. h[T \ {y}] = f[z] + h[(T \ {y}) \ {z}]
      <4>1. T \ {y} \in SUBSET S /\ z \in T \ {y}
        BY <2>1, <2>2, <2>5
      <4> QED
        BY <1>4, <3>1, <4>1
    <3>4. (T \ {z}) \ {y} = (T \ {y}) \ {z} /\ (T \ {z}) \ {y} \in SUBSET S
      BY <2>1
    <3>5. f[y] \in Nat /\ f[z] \in Nat /\ h[(T \ {z}) \ {y}] \in Nat
      BY <1>1, <2>1, <2>2, <3>4
    <3>6. h[(T \ {y}) \ {z}] = h[(T \ {z}) \ {y}]
      BY <3>4
    <3> DEFINE rest == h[(T \ {z}) \ {y}]
    <3>7. h[T] = f[z] + (f[y] + rest) /\ h[T \ {y}] = f[z] + rest /\ rest \in Nat
      BY <2>3, <3>2, <3>3, <3>5, <3>6
    <3> HIDE DEF rest
    <3> QED
      BY <3>5, <3>7
  <2> QED
    BY <2>4, <2>5
<1>5. Nat \subseteq P
  <2> HIDE DEF P
  <2> QED
    BY <1>3, <1>4, NatSetInduction
<1>6. h[S] = f[x] + h[S \ {x}]
  BY <1>2, <1>5
<1>7. SumFunctionOnSet(f, S) = h[S] /\ SumFunctionOnSet(f, S \ {x}) = h[S \ {x}]
  BY <1>1, SumOfSubset
<1> QED
  BY <1>6, <1>7

(* A sum depends on the values in the set alone.                           *)
THEOREM SumAgrees ==
  ASSUME NEW S, IsFiniteSet(S), NEW f, NEW g, \A x \in S : f[x] \in Nat,
         \A x \in S : g[x] = f[x]
  PROVE  SumFunctionOnSet(g, S) = SumFunctionOnSet(f, S)
<1>1. PICK h \in [SUBSET S -> Nat] : Sums(h, f, S) /\ SumFunctionOnSet(f, S) = h[S]
  BY SumIsLast
<1>2. PICK k \in [SUBSET S -> Nat] : Sums(k, g, S) /\ SumFunctionOnSet(g, S) = k[S]
  BY SumIsLast
<1>3. \A s \in SUBSET S : h[s] = k[s]
  BY <1>1, <1>2, SumsAgree
<1> QED
  BY <1>1, <1>2, <1>3

THEOREM SumIsZero ==
  ASSUME NEW S, IsFiniteSet(S), NEW f, \A x \in S : f[x] = 0
  PROVE  SumFunctionOnSet(f, S) = 0
<1> DEFINE P == {T \in SUBSET S : SumFunctionOnSet(f, T) = 0}
<1>1. {} \in P
  BY SumOverEmpty
<1>2. ASSUME NEW T \in SUBSET S, NEW x \in S \ T, T \in P PROVE T \cup {x} \in P
  <2> DEFINE U == T \cup {x}
  <2>1. U \in SUBSET S /\ x \in U /\ U \ {x} = T /\ f[x] = 0 /\ \A y \in U : f[y] \in Nat
    OBVIOUS
  <2>2. IsFiniteSet(U)
    BY <2>1, FS_Subset
  <2>3. SumFunctionOnSet(f, T) = 0
    BY <1>2
  <2> HIDE DEF U
  <2>4. SumFunctionOnSet(f, U) = f[x] + SumFunctionOnSet(f, U \ {x})
    BY <2>1, <2>2, SumRemove
  <2>5. SumFunctionOnSet(f, U) = 0
    <3>1. SumFunctionOnSet(f, U \ {x}) = 0
      BY <2>1, <2>3, Zenon
    <3> QED
      BY <2>1, <2>4, <3>1
  <2> QED
    BY <2>1, <2>5 DEF U
<1> HIDE DEF P
<1>3. S \in P
  BY <1>1, <1>2, FiniteSetInduction
<1> QED
  BY <1>3 DEF P

(* Changing one value moves the sum by the change.                         *)
THEOREM SumChanges ==
  ASSUME NEW S, IsFiniteSet(S), NEW f, NEW g, NEW x \in S,
         \A y \in S : f[y] \in Nat /\ g[y] \in Nat,
         \A y \in S \ {x} : g[y] = f[y]
  PROVE  SumFunctionOnSet(g, S) = SumFunctionOnSet(f, S) + g[x] - f[x]
<1>1. SumFunctionOnSet(f, S) = f[x] + SumFunctionOnSet(f, S \ {x})
  BY SumRemove
<1>2. SumFunctionOnSet(g, S) = g[x] + SumFunctionOnSet(g, S \ {x})
  BY SumRemove
<1>3. IsFiniteSet(S \ {x})
  BY FS_Subset
<1>4. SumFunctionOnSet(g, S \ {x}) = SumFunctionOnSet(f, S \ {x})
  BY <1>3, SumAgrees
<1>5. SumFunctionOnSet(f, S \ {x}) \in Nat
  BY <1>3, SumIsNat
<1> QED
  BY <1>1, <1>2, <1>4, <1>5

-----------------------------------------------------------------------------
(* Power is the function its definition describes.                         *)
LEMMA PowerDoubles ==
  /\ Power[0] = 1
  /\ \A k \in Nat : Power[k] \in Nat \ {0} /\ Power[k + 1] = 2 * Power[k]
  <1> DEFINE Def(f) == [k \in Nat |-> IF k = 0 THEN 1 ELSE 2 * f[k - 1]]
             F == [k \in Nat |-> [x \in Nat |-> 2 * x]]
  <1>1. F \in [Nat -> [Nat -> Nat]]
    OBVIOUS
  <1>2. PICK g \in [Nat -> Nat] : Recurses(g, 1, F)
    <2> HIDE DEF F
    <2> QED BY <1>1, NatSetRecursion
  <1>3. ASSUME NEW k \in Nat PROVE g[k] = Def(g)[k]
    <2>1. CASE k = 0
      BY <1>2, <2>1 DEF Recurses
    <2>2. CASE k # 0
      <3>1. k - 1 \in Nat /\ (k - 1) + 1 = k
        BY <2>2
      <3>2. g[(k - 1) + 1] = F[k - 1][g[k - 1]]
        BY <1>2, <3>1 DEF Recurses
      <3>3. F[k - 1][g[k - 1]] = 2 * g[k - 1]
        BY <1>2, <3>1
      <3> QED BY <2>2, <3>1, <3>2, <3>3
    <2> QED BY <2>1, <2>2
  <1>4. g = Def(g)
    <2>1. g = [k \in Nat |-> g[k]] /\ Def(g) = [k \in Nat |-> Def(g)[k]]
      BY <1>2
    <2> HIDE DEF Def
    <2> QED BY <1>3, <2>1, Zenon
  <1>5. Power = CHOOSE f : f = Def(f)
    BY DEF Power
  <1>6. Power = Def(Power)
    <2> HIDE DEF Def
    <2> QED BY <1>4, <1>5
  <1>7. ASSUME NEW k \in Nat PROVE Power[k] = IF k = 0 THEN 1 ELSE 2 * Power[k - 1]
    <2>1. Power[k] = Def(Power)[k]
      BY <1>6
    <2> QED BY <2>1
  <1>8. ASSUME NEW k \in Nat PROVE Power[k + 1] = 2 * Power[k]
    <2>1. k + 1 \in Nat /\ k + 1 # 0 /\ (k + 1) - 1 = k
      OBVIOUS
    <2> QED BY <1>7, <2>1
  <1> DEFINE P == {k \in Nat : Power[k] \in Nat \ {0}}
  <1>9. 0 \in P
    BY <1>7
  <1>10. ASSUME NEW k \in Nat, k \in P PROVE k + 1 \in P
    <2>1. k + 1 \in Nat /\ 2 * Power[k] \in Nat \ {0}
      BY <1>10
    <2> QED BY <1>8, <2>1
  <1>11. Nat \subseteq P
    <2> HIDE DEF P
    <2> QED BY <1>9, <1>10, NatSetInduction
  <1> QED BY <1>7, <1>8, <1>11

LEMMA PowersNat == PowersOfTwo \subseteq Nat \ {0} /\ MaxLength \in PowersOfTwo
  BY PowerDoubles, WordAssumption DEF PowersOfTwo, MaxLength

(* next_power_of_two is well defined up to the largest power: the CHOOSE   *)
(* has a least candidate to choose.                                        *)
LEMMA NextPowerExists ==
  ASSUME NEW n \in Nat, n <= MaxLength
  PROVE  /\ next_power_of_two(n) \in PowersOfTwo
         /\ next_power_of_two(n) >= n
         /\ \A q \in PowersOfTwo : q >= n => next_power_of_two(n) <= q
  <1> DEFINE Above == {p \in PowersOfTwo : p >= n}
  <1>1. MaxLength \in Above
    BY PowersNat
  <1>2. Above \subseteq Nat /\ Above # {}
    BY <1>1, PowersNat
  <1>3. PICK m \in Above : \A q \in Above : ~(<<q, m>> \in OpToRel(<, Nat))
    <2> HIDE DEF Above
    <2> QED BY <1>2, NatLessThanWellFounded, WFMin
  <1>4. \A q \in Above : m <= q
    <2> SUFFICES ASSUME NEW q \in Above PROVE m <= q
      OBVIOUS
    <2>1. ~(<<q, m>> \in OpToRel(<, Nat))
      BY <1>3
    <2>2. q \in Nat /\ m \in Nat
      BY <1>2, <1>3
    <2>3. ~(q < m)
      BY <2>1, <2>2 DEF OpToRel
    <2> QED BY <2>2, <2>3
  <1>5. \E p \in PowersOfTwo : p >= n /\ \A q \in PowersOfTwo : q >= n => p <= q
    BY <1>3, <1>4
  <1> QED BY <1>5 DEF next_power_of_two

(* Rounding up to a multiple of a positive step never loses bytes and adds *)
(* less than a step.                                                       *)
LEMMA RoundUp ==
  ASSUME NEW n \in Nat, NEW s \in Nat, s > 0
  PROVE  /\ div_ceil(n, s) * s \in Nat
         /\ div_ceil(n, s) * s >= n
         /\ div_ceil(n, s) * s < n + s
  <1>1. (n + s - 1) \in Nat
    OBVIOUS
  <1>2. ((n + s - 1) \div s) \in Nat
    BY <1>1
  <1>3. /\ ((n + s - 1) \div s) * s <= n + s - 1
        /\ ((n + s - 1) \div s) * s > n + s - 1 - s
    BY <1>1, <1>2
  <1> QED BY <1>2, <1>3 DEF div_ceil

LEMMA LargeStepPositive ==
  ASSUME NEW n \in Nat, n <= MaxLength
  PROVE  large_step(n) \in Nat /\ large_step(n) >= MIN_BLOCK
  <1>1. next_power_of_two(n) \in Nat
    BY NextPowerExists, PowersNat
  <1>2. next_power_of_two(n) \div 8 \in Nat
    BY <1>1
  <1> QED BY <1>2 DEF large_step, Larger, MIN_BLOCK

(* A bucket holds the request it serves, and its slack is under one step:  *)
(* alloc_raw never returns a buffer shorter than the length asked for, for *)
(* any length a usize can hold.                                            *)
THEOREM BucketHoldsEveryRequest ==
  ASSUME NEW n \in Nat, n <= MaxLength
  PROVE  /\ size_bucket(n) \in Nat
         /\ size_bucket(n) >= n
         /\ size_bucket(n) < n + Larger(MIN_BLOCK, large_step(n))
  <1>1. large_step(n) \in Nat /\ large_step(n) >= MIN_BLOCK
    BY LargeStepPositive
  <1>2. MIN_BLOCK \in Nat /\ MIN_BLOCK > 0
    BY DEF MIN_BLOCK
  <1>3. CASE n <= SMALL_LIMIT
    <2>1. size_bucket(n) = div_ceil(n, MIN_BLOCK) * MIN_BLOCK
      BY <1>3 DEF size_bucket
    <2>2. /\ size_bucket(n) \in Nat
          /\ size_bucket(n) >= n
          /\ size_bucket(n) < n + MIN_BLOCK
      <3>1. MIN_BLOCK \in Nat /\ MIN_BLOCK > 0
        BY <1>1, <1>2
      <3> QED BY <2>1, <3>1, RoundUp
    <2> QED BY <1>1, <1>2, <2>2 DEF Larger
  <1>4. CASE ~(n <= SMALL_LIMIT)
    <2>1. size_bucket(n) = div_ceil(n, large_step(n)) * large_step(n)
      BY <1>4 DEF size_bucket
    <2>2. /\ size_bucket(n) \in Nat
          /\ size_bucket(n) >= n
          /\ size_bucket(n) < n + large_step(n)
      <3>1. large_step(n) \in Nat /\ large_step(n) > 0
        BY <1>1, <1>2
      <3> QED BY <2>1, <3>1, RoundUp
    <2> QED BY <1>1, <1>2, <2>2 DEF Larger
  <1> QED BY <1>3, <1>4
=============================================================================
