------------------------- MODULE MetalChainProofs -------------------------
(***************************************************************************)
(* Buffers on Metal are never shared between two passes that did not ask   *)
(* for it, and a chain of passes gives what the passes give one by one,    *)
(* for every set of kernels, requests, handles and lengths.                *)
(***************************************************************************)
EXTENDS MetalChain, SharedFacts

(* PassSequence's kernels are MetalKernels'.                               *)
LEMMA SameKernels ==
  /\ Sequences!Nothing = Nothing
  /\ \A v, n : Sequences!Words(v, n) = Words(v, n)
  /\ \A w, n : Sequences!Read(w, n) = Read(w, n)
  /\ \A k : /\ Sequences!Outputs(k) = Outputs(k)
            /\ Sequences!OutputNames(k) = OutputNames(k)
            /\ Sequences!InputNames(k) = InputNames(k)
  /\ \A param, n : /\ Sequences!Underprovided(param, n) = Underprovided(param, n)
                   /\ Sequences!MissingMetadata(param, n) = MissingMetadata(param, n)
                   /\ Sequences!ShapeOf(param, n) = ShapeOf(param, n)
                   /\ Sequences!Extent(param, n) = Extent(param, n)
  /\ \A kernel, j, args : Sequences!Computed(kernel, j, args) = Computed(kernel, j, args)
  /\ \A S : Sequences!Max(S) = Max(S)
  BY DEF Sequences!Nothing, Sequences!Words, Sequences!Read, Sequences!Outputs, Sequences!OutputNames,
     Sequences!InputNames, Sequences!Underprovided, Sequences!MissingMetadata, Sequences!ShapeOf,
     Sequences!Extent, Sequences!Computed, Sequences!Dynamic, Nothing, Words, Read, Outputs, OutputNames,
     InputNames, Underprovided, MissingMetadata, ShapeOf, Extent, Computed, Dynamic, Sequences!Max, Max

(* Slots are counted by the recursion that defines them.                   *)
LEMMA SlotsCount ==
  ASSUME NEW params, params \in Seq(Range(params))
  PROVE  /\ SlotsBefore(params, 1) = 0
         /\ \A j \in 1..Len(params) :
              SlotsBefore(params, j + 1) = SlotsBefore(params, j) + binding_slots(params[j])
  <1> DEFINE N == Len(params)
             Def(f) == [n \in 0..N |-> IF n = 0 THEN 0 ELSE f[n - 1] + binding_slots(params[n])]
             F == CHOOSE f : f = Def(f)
             Solves(g, k) == /\ DOMAIN g = 0..k /\ g = [n \in 0..k |-> g[n]]
                             /\ g[0] = 0
                             /\ \A n \in 1..k : g[n] = g[n - 1] + binding_slots(params[n])
             P == {k \in Nat : \E g : Solves(g, k)}
  <1>1. N \in Nat
    OBVIOUS
  <1>2. 0 \in P
    <2> DEFINE g == [n \in 0..0 |-> 0]
    <2>1. Solves(g, 0)
      OBVIOUS
    <2> QED BY <2>1
  <1>3. ASSUME NEW k \in Nat, k \in P PROVE k + 1 \in P
    <2>1. PICK g : Solves(g, k)
      BY <1>3
    <2> DEFINE h == [n \in 0..(k + 1) |-> IF n = k + 1 THEN g[k] + binding_slots(params[k + 1]) ELSE g[n]]
    <2>2. Solves(h, k + 1)
      <3>1. h[0] = 0
        BY <2>1
      <3>2. ASSUME NEW n \in 1..(k + 1) PROVE h[n] = h[n - 1] + binding_slots(params[n])
        <4>1. CASE n = k + 1
          BY <4>1
        <4>2. CASE n # k + 1
          <5>1. n \in 1..k /\ n - 1 \in 0..k
            BY <4>2
          <5>2. h[n] = g[n] /\ h[n - 1] = g[n - 1]
            BY <4>2, <5>1
          <5> QED BY <2>1, <5>1, <5>2
        <4> QED BY <4>1, <4>2
      <3>3. DOMAIN h = 0..(k + 1) /\ h = [n \in 0..(k + 1) |-> h[n]]
        OBVIOUS
      <3> HIDE DEF h
      <3> QED BY <3>1, <3>2, <3>3
    <2> HIDE DEF h, Solves
    <2>3. \E f : Solves(f, k + 1)
      BY <2>2
    <2> QED BY <2>3
  <1>4. PICK g : Solves(g, N)
    <2>1. Nat \subseteq P
      <3> HIDE DEF P
      <3> QED BY <1>2, <1>3, NatSetInduction
    <2> QED BY <1>1, <2>1
  <1>5. g = Def(g)
    <2>1. \A n \in 0..N : g[n] = Def(g)[n]
      BY <1>1, <1>4
    <2>2. Def(g) = [n \in 0..N |-> Def(g)[n]]
      OBVIOUS
    <2> HIDE DEF Def
    <2> QED BY <1>4, <2>1, <2>2
  <1>6. F = Def(F)
    <2> HIDE DEF Def
    <2> QED BY <1>5
  <1>7. \A j : SlotsBefore(params, j) = F[j - 1]
    BY DEF SlotsBefore
  <1> HIDE DEF F
  <1>8. \A n \in 0..N : F[n] = IF n = 0 THEN 0 ELSE F[n - 1] + binding_slots(params[n])
    BY <1>6
  <1>9. \A j \in 1..N : (j + 1) - 1 = j /\ j - 1 \in 0..N /\ j \in 0..N /\ j # 0
    BY <1>1
  <1>10. SlotsBefore(params, 1) = 0
    BY <1>1, <1>7, <1>8
  <1>11. ASSUME NEW j \in 1..N
         PROVE  SlotsBefore(params, j + 1) = SlotsBefore(params, j) + binding_slots(params[j])
    <2>1. SlotsBefore(params, j + 1) = F[(j + 1) - 1] /\ SlotsBefore(params, j) = F[j - 1]
      BY <1>7
    <2>2. F[j] = F[j - 1] + binding_slots(params[j])
      BY <1>8, <1>9
    <2> QED BY <1>9, <2>1, <2>2
  <1> QED BY <1>10, <1>11

(* Data of later parameters is bound behind that of earlier ones.          *)
LEMMA SlotsAscend ==
  ASSUME NEW params, WellFormed(params)
  PROVE  /\ Len(params) \in Nat /\ DOMAIN params = 1..Len(params)
         /\ \A j \in 1..(Len(params) + 1) : SlotsBefore(params, j) \in Nat
         /\ \A j, k \in 1..Len(params) : DataIndex(params, j) = DataIndex(params, k) => j = k
  <1> DEFINE N == Len(params)
             B(j) == SlotsBefore(params, j)
  <1>1. N \in Nat /\ DOMAIN params = 1..N /\ params \in Seq(Range(params))
    BY DEF WellFormed
  <1>2. \A j \in 1..N : B(j + 1) = B(j) + (IF params[j].strided THEN 3 ELSE 1)
    BY <1>1, SlotsCount DEF binding_slots
  <1>3. B(1) = 0
    BY <1>1, SlotsCount
  <1>4. \A j \in 1..(N + 1) : B(j) \in Nat
    <2> DEFINE P == {m \in Nat : m + 1 \in 1..(N + 1) => B(m + 1) \in Nat}
    <2> HIDE DEF B
    <2>1. 0 \in P
      BY <1>3
    <2>2. ASSUME NEW m \in Nat, m \in P PROVE m + 1 \in P
      <3> SUFFICES ASSUME (m + 1) + 1 \in 1..(N + 1) PROVE B((m + 1) + 1) \in Nat
        OBVIOUS
      <3>1. m + 1 \in 1..N /\ m + 1 \in 1..(N + 1)
        BY <1>1
      <3> QED BY <1>2, <2>2, <3>1
    <2>3. Nat \subseteq P
      <3> HIDE DEF P
      <3> QED BY <2>1, <2>2, NatSetInduction
    <2> SUFFICES ASSUME NEW j \in 1..(N + 1) PROVE B(j) \in Nat
      OBVIOUS
    <2>4. j - 1 \in Nat /\ (j - 1) + 1 = j
      OBVIOUS
    <2>5. j - 1 \in P
      BY <2>3, <2>4
    <2> QED BY <2>4, <2>5
  <1>5. \A j \in 1..N : \A k \in 1..N : j < k => B(j) < B(k)
    <2> SUFFICES ASSUME NEW j \in 1..N PROVE \A k \in 1..N : j < k => B(j) < B(k)
      OBVIOUS
    <2> DEFINE P == {m \in Nat : m \in 1..N /\ j < m => B(j) < B(m)}
    <2> HIDE DEF B
    <2>1. 0 \in P
      OBVIOUS
    <2>2. ASSUME NEW m \in Nat, m \in P PROVE m + 1 \in P
      <3> SUFFICES ASSUME m + 1 \in 1..N, j < m + 1 PROVE B(j) < B(m + 1)
        OBVIOUS
      <3>1. m \in 1..N /\ m \in 1..(N + 1) /\ m + 1 \in 1..(N + 1) /\ j \in 1..(N + 1)
        BY <1>1
      <3>2. B(m) < B(m + 1) /\ B(m) \in Nat /\ B(m + 1) \in Nat /\ B(j) \in Nat
        BY <1>2, <1>4, <3>1, SMTT(30)
      <3>3. CASE j = m
        BY <3>2, <3>3
      <3>4. CASE j # m
        <4>1. B(j) < B(m)
          BY <2>2, <3>1, <3>4
        <4> QED BY <3>2, <4>1
      <3> QED BY <3>3, <3>4
    <2>3. Nat \subseteq P
      <3> HIDE DEF P
      <3> QED BY <2>1, <2>2, NatSetInduction
    <2>4. ASSUME NEW k \in 1..N, j < k PROVE B(j) < B(k)
      <3>1. k \in P
        BY <2>3
      <3> QED BY <2>4, <3>1
    <2> QED BY <2>4
  <1>6. ASSUME NEW j \in 1..N, NEW k \in 1..N, DataIndex(params, j) = DataIndex(params, k)
        PROVE  j = k
    <2>1. j \in 1..(N + 1) /\ k \in 1..(N + 1)
      BY <1>1
    <2>2. B(j) \in Nat /\ B(k) \in Nat /\ B(j) = B(k)
      <3>1. B(j) + 1 = B(k) + 1
        BY <1>6 DEF DataIndex
      <3> HIDE DEF B
      <3> QED BY <1>4, <2>1, <3>1
    <2>3. ~(j < k) /\ ~(k < j)
      <3> HIDE DEF B
      <3> QED BY <1>5, <2>2
    <2> QED BY <2>3
  <1> QED BY <1>1, <1>4, <1>6

---------------------------------------------------------------------------
(* Preparing a pass: what allocate_pass_buffers has at hand, and a buffer  *)
(* taken from the pool.                                                    *)

Shaped(acc) ==
  acc = [pool |-> acc.pool, words |-> acc.words, alias |-> acc.alias, bufs |-> acc.bufs,
         refused |-> acc.refused]

(* The buffers somebody refers to are on record, each in its list.         *)
Listed(acc) ==
  /\ acc.pool \in [Lists -> Nat]
  /\ acc.bufs \in Seq(Buffers)
  /\ InUse(acc) \subseteq DOMAIN acc.words \cup {NoBuffer}
  /\ \A b \in DOMAIN acc.words : b \in Buffers /\ b[2] <= acc.pool[b[1]]

LEMMA MinIn ==
  ASSUME NEW S \in SUBSET Nat, S # {}
  PROVE  Min(S) \in S /\ \A q \in S : Min(S) <= q
  <1>1. PICK m \in S : \A q \in S : ~(<<q, m>> \in OpToRel(<, Nat))
    BY NatLessThanWellFounded, WFMin
  <1>2. \A q \in S : m <= q
    <2> SUFFICES ASSUME NEW q \in S PROVE m <= q
      OBVIOUS
    <2>1. ~(<<q, m>> \in OpToRel(<, Nat))
      BY <1>1
    <2>2. ~(q < m)
      BY <2>1 DEF OpToRel
    <2> QED BY <2>2
  <1> QED BY <1>1, <1>2 DEF Min

(* acc has grown by one buffer, which nobody referred to.                  *)
Gains(acc, new, b, private, content) ==
  /\ b \in Buffers /\ b \notin InUse(acc)
  /\ Shaped(new)
  /\ new.bufs = Append(acc.bufs, b)
  /\ new.alias = acc.alias /\ new.refused = acc.refused
  /\ new.pool \in [Lists -> Nat]
  /\ \A l \in Lists : acc.pool[l] <= new.pool[l]
  /\ b[2] <= new.pool[b[1]] /\ IsPrivate(b) = private
  /\ new.words = Put(acc.words, b, content)
  /\ DOMAIN new.words = DOMAIN acc.words \cup {b}

(* acquire hands out a buffer nobody refers to, and records it.            *)
LEMMA AcquireFresh ==
  ASSUME NEW acc, Shaped(acc), Listed(acc), NEW n \in Nat, n <= MaxLength,
         NEW private \in BOOLEAN, NEW content
  PROVE  \E b : Gains(acc, Acquire(acc, n, private, content), b, private, content)
  <1> DEFINE list == <<Bucket(n), private>>
             idle == {k \in 1..acc.pool[list] : <<list, k>> \notin InUse(acc)}
             k == IF idle = {} THEN acc.pool[list] + 1 ELSE Min(idle)
             b == <<list, k>>
             new == Acquire(acc, n, private, content)
  <1>1. list \in Lists /\ acc.pool[list] \in Nat
    BY NextPowerExists DEF Bucket, Lists, Listed
  <1>01. list[2] = private
    OBVIOUS
  <1> HIDE DEF list
  <1>2. k \in Nat \ {0} /\ b \notin InUse(acc) /\ (idle # {} => k <= acc.pool[list])
        /\ (idle = {} => acc.pool[list] <= k)
    <2>1. CASE idle = {}
      <3>1. k = acc.pool[list] + 1 /\ k \in Nat \ {0}
        BY <1>1, <2>1
      <3>4. b \in Buffers
        BY <1>1, <3>1 DEF Buffers
      <3>2. SUFFICES ASSUME b \in InUse(acc) PROVE FALSE
        <4> HIDE DEF k, b, idle
        <4> QED BY <1>1, <2>1, <3>1
      <3>3. b \in DOMAIN acc.words
        <4> HIDE DEF b
        <4> QED BY <3>4, <3>2, CallAssumption DEF Listed
      <3>5. b[2] <= acc.pool[b[1]]
        BY <3>3 DEF Listed
      <3>6. k <= acc.pool[list]
        BY <3>5
      <3> HIDE DEF k, list
      <3> QED BY <1>1, <3>1, <3>6
    <2>2. CASE idle # {}
      <3>1. idle \subseteq Nat
        OBVIOUS
      <3>2. Min(idle) \in idle
        <4> HIDE DEF idle
        <4> QED BY <2>2, <3>1, MinIn
      <3> QED BY <1>1, <2>2, <3>2
    <2> QED BY <2>1, <2>2
  <1>3. b \in Buffers
    BY <1>1, <1>2 DEF Buffers
  <1>4. new = [acc EXCEPT !.pool[list] = IF idle = {} THEN k ELSE @,
                          !.words = Put(@, b, content),
                          !.bufs = Append(@, b)]
    BY DEF Acquire, list
  <1> HIDE DEF idle, k
  <1>5. /\ new = [pool |-> new.pool, words |-> new.words, alias |-> new.alias, bufs |-> new.bufs,
                  refused |-> new.refused]
        /\ new.pool = [acc.pool EXCEPT ![list] = IF idle = {} THEN k ELSE @]
        /\ new.words = Put(acc.words, b, content)
        /\ new.bufs = Append(acc.bufs, b)
        /\ new.alias = acc.alias /\ new.refused = acc.refused
    <2> DEFINE A == acc.pool  W == acc.words  L == acc.alias  U == acc.bufs  R == acc.refused
    <2>1. acc = [pool |-> A, words |-> W, alias |-> L, bufs |-> U, refused |-> R]
      BY DEF Shaped
    <2> HIDE DEF A, W, L, U, R
    <2>2. new = [pool |-> [A EXCEPT ![list] = IF idle = {} THEN k ELSE @],
                 words |-> Put(W, b, content), alias |-> L, bufs |-> Append(U, b), refused |-> R]
      BY <1>4, <2>1
    <2> HIDE DEF new
    <2> QED BY <2>2 DEF A, W, L, U, R
  <1> HIDE DEF new
  <1>6. /\ new.pool \in [Lists -> Nat]
        /\ \A l \in Lists : acc.pool[l] <= new.pool[l]
        /\ k <= new.pool[list]
    <2>1. acc.pool \in [Lists -> Nat] /\ (IF idle = {} THEN k ELSE acc.pool[list]) \in Nat
      BY <1>1, <1>2 DEF Listed
    <2>2. acc.pool[list] <= (IF idle = {} THEN k ELSE acc.pool[list])
      BY <1>1, <1>2
    <2> QED BY <1>1, <1>2, <1>5, <2>1, <2>2
  <1>7. DOMAIN new.words = DOMAIN acc.words \cup {b}
    BY <1>5 DEF Put
  <1>8. IsPrivate(b) = private
    BY <1>01 DEF IsPrivate
  <1> QED BY <1>2, <1>3, <1>5, <1>6, <1>7, <1>8 DEF Shaped, Gains, new

---------------------------------------------------------------------------
(* Which buffers a pass may be bound to.                                   *)

(* Outputs in bufs that are the buffer b are outputs of that name.         *)
OutputsNamed(params, bufs, b, name) ==
  \A j \in DOMAIN params :
    /\ params[j].is_output
    /\ DataIndex(params, j) \in DOMAIN bufs
    /\ bufs[DataIndex(params, j)] = b
    => params[j].name = name

(* An output's buffer is no client's, no earlier pass's and bound once; a  *)
(* buffer an earlier pass writes is bound only to an input of that name;   *)
(* an alias is of outputs of its name.                                     *)
OutputsFresh(params, bufs) ==
  \A j \in DOMAIN params :
    params[j].is_output /\ DataIndex(params, j) \in DOMAIN bufs =>
      /\ bufs[DataIndex(params, j)] \notin Range(handle)
      /\ \A k \in DOMAIN bound : bufs[DataIndex(params, j)] \notin Range(bound[k].bufs)
      /\ \A s \in DOMAIN bufs : bufs[s] = bufs[DataIndex(params, j)] => s = DataIndex(params, j)

InputAt(params, name, s) ==
  \E p \in DOMAIN params : /\ ~params[p].is_output
                           /\ params[p].name = name
                           /\ DataIndex(params, p) = s

InputsNamed(params, bufs) ==
  \A s \in DOMAIN bufs : \A i \in DOMAIN bound :
    \A name : ~InputAt(params, name, s) =>
      \A j \in DOMAIN specs[i].kernel.params :
        /\ specs[i].kernel.params[j].is_output
        /\ specs[i].kernel.params[j].name = name
        => ~ /\ DataIndex(specs[i].kernel.params, j) \in DOMAIN bound[i].bufs
             /\ bound[i].bufs[DataIndex(specs[i].kernel.params, j)] = bufs[s]

AliasesNamed(al) ==
  \A name \in DOMAIN al :
    /\ al[name] \in Buffers
    /\ \A i \in DOMAIN bound :
         OutputsNamed(specs[i].kernel.params, bound[i].bufs, al[name], name)

Apart(params, bufs, al) ==
  /\ OutputsFresh(params, bufs)
  /\ InputsNamed(params, bufs)
  /\ AliasesNamed(al)
  /\ \A name \in DOMAIN al : OutputsNamed(params, bufs, al[name], name)

(* Nobody else has a buffer just acquired.                                 *)
LEMMA FreshKeeps ==
  ASSUME NEW params, NEW bufs \in Seq(Buffers), NEW al, Apart(params, bufs, al), NEW b \in Buffers,
         b \notin Range(handle), \A k \in DOMAIN bound : b \notin Range(bound[k].bufs),
         b \notin Range(bufs), b \notin Range(al)
  PROVE  Apart(params, Append(bufs, b), al)
  <1> DEFINE new == Append(bufs, b)
             last == Len(bufs) + 1
  <1>1. /\ DOMAIN new = DOMAIN bufs \cup {last} /\ new[last] = b
        /\ \A s \in DOMAIN bufs : new[s] = bufs[s] /\ bufs[s] # b /\ s # last
    BY DEF Range
  <1> HIDE DEF new, last
  <1>2. OutputsFresh(params, new)
    <2> SUFFICES ASSUME NEW j \in DOMAIN params, params[j].is_output,
                        DataIndex(params, j) \in DOMAIN new
                 PROVE  /\ new[DataIndex(params, j)] \notin Range(handle)
                        /\ \A k \in DOMAIN bound : new[DataIndex(params, j)] \notin Range(bound[k].bufs)
                        /\ \A s \in DOMAIN new :
                             new[s] = new[DataIndex(params, j)] => s = DataIndex(params, j)
      BY DEF OutputsFresh
    <2> DEFINE d == DataIndex(params, j)
    <2>1. CASE d = last
      BY <1>1, <2>1
    <2>2. CASE d \in DOMAIN bufs
      <3>1. /\ bufs[d] \notin Range(handle)
            /\ \A k \in DOMAIN bound : bufs[d] \notin Range(bound[k].bufs)
            /\ \A s \in DOMAIN bufs : bufs[s] = bufs[d] => s = d
        BY <2>2 DEF Apart, OutputsFresh
      <3> HIDE DEF d
      <3>2. new[d] = bufs[d] /\ bufs[d] # b
        BY <1>1, <2>2
      <3>3. \A s \in DOMAIN new : new[s] = new[d] => s = d
        BY <1>1, <3>1, <3>2
      <3> QED BY <3>1, <3>2, <3>3 DEF d
    <2> QED BY <1>1, <2>1, <2>2
  <1>3. InputsNamed(params, new)
    <2> SUFFICES ASSUME NEW s \in DOMAIN new, NEW i \in DOMAIN bound, NEW name,
                        ~InputAt(params, name, s),
                        NEW j \in DOMAIN specs[i].kernel.params,
                        specs[i].kernel.params[j].is_output,
                        specs[i].kernel.params[j].name = name,
                        DataIndex(specs[i].kernel.params, j) \in DOMAIN bound[i].bufs,
                        bound[i].bufs[DataIndex(specs[i].kernel.params, j)] = new[s]
                 PROVE  FALSE
      BY DEF InputsNamed
    <2>1. CASE s = last
      BY <1>1, <2>1 DEF Range
    <2>2. CASE s \in DOMAIN bufs
      BY <1>1, <2>2 DEF Apart, InputsNamed
    <2> QED BY <1>1, <2>1, <2>2
  <1>4. ASSUME NEW name \in DOMAIN al PROVE OutputsNamed(params, new, al[name], name)
    <2>1. al[name] # b /\ OutputsNamed(params, bufs, al[name], name)
      BY DEF Range, Apart
    <2> QED BY <1>1, <2>1 DEF OutputsNamed
  <1> QED BY <1>2, <1>3, <1>4 DEF Apart, new

(* An output a later pass reads is published under its name.               *)
LEMMA AliasKeeps ==
  ASSUME NEW params, WellFormed(params), NEW bufs \in Seq(Buffers), NEW al,
         Apart(params, bufs, al), NEW j \in DOMAIN params, params[j].is_output,
         DataIndex(params, j) \in DOMAIN bufs
  PROVE  Apart(params, bufs, Put(al, params[j].name, bufs[DataIndex(params, j)]))
  <1> DEFINE d == DataIndex(params, j)
             name == params[j].name
             new == Put(al, name, bufs[d])
  <1>1. /\ DOMAIN new = DOMAIN al \cup {name} /\ new[name] = bufs[d]
        /\ \A n \in DOMAIN al : n # name => new[n] = al[n]
    BY DEF Put
  <1>2. /\ \A k \in DOMAIN bound : bufs[d] \notin Range(bound[k].bufs)
        /\ \A s \in DOMAIN bufs : bufs[s] = bufs[d] => s = d
        /\ bufs[d] \in Buffers
    BY DEF Apart, OutputsFresh
  <1>3. \A i \in DOMAIN bound : OutputsNamed(specs[i].kernel.params, bound[i].bufs, bufs[d], name)
    BY <1>2 DEF OutputsNamed, Range
  <1>4. OutputsNamed(params, bufs, bufs[d], name)
    <2> SUFFICES ASSUME NEW k \in DOMAIN params, DataIndex(params, k) \in DOMAIN bufs,
                        bufs[DataIndex(params, k)] = bufs[d]
                 PROVE  params[k].name = name
      BY DEF OutputsNamed
    <2>1. DataIndex(params, k) = DataIndex(params, j)
      BY <1>2
    <2>2. k = j
      BY <2>1, SlotsAscend
    <2> QED BY <2>2
  <1> HIDE DEF new, d, name
  <1>5. AliasesNamed(new) /\ \A n \in DOMAIN new : OutputsNamed(params, bufs, new[n], n)
    <2> SUFFICES ASSUME NEW n \in DOMAIN new
                 PROVE  /\ new[n] \in Buffers
                        /\ \A i \in DOMAIN bound :
                             OutputsNamed(specs[i].kernel.params, bound[i].bufs, new[n], n)
                        /\ OutputsNamed(params, bufs, new[n], n)
      BY DEF AliasesNamed
    <2>1. CASE n = name
      BY <1>1, <1>2, <1>3, <1>4, <2>1
    <2>2. CASE n # name
      BY <1>1, <2>2 DEF Apart, AliasesNamed
    <2> QED BY <2>1, <2>2
  <1> QED BY <1>5 DEF Apart, new, d, name

(* An input is bound to a client's buffer, or to the alias of its name.    *)
LEMMA InputKeeps ==
  ASSUME NEW params, WellFormed(params), NEW bufs \in Seq(Buffers), NEW al,
         Apart(params, bufs, al), NEW p \in DOMAIN params, ~params[p].is_output,
         DataIndex(params, p) = Len(bufs) + 1, NEW b \in Buffers,
         \/ b \in Range(handle) /\ WritesApart
         \/ params[p].name \in DOMAIN al /\ b = al[params[p].name]
  PROVE  Apart(params, Append(bufs, b), al)
  <1> DEFINE new == Append(bufs, b)
             last == Len(bufs) + 1
  <1>1. /\ DOMAIN new = DOMAIN bufs \cup {last} /\ new[last] = b
        /\ \A s \in DOMAIN bufs : new[s] = bufs[s] /\ s # last
    OBVIOUS
  <1>2. ASSUME NEW j \in DOMAIN params, params[j].is_output, DataIndex(params, j) \in DOMAIN new
        PROVE  DataIndex(params, j) \in DOMAIN bufs
    <2>1. DataIndex(params, j) # last
      BY <1>2, SlotsAscend
    <2> QED BY <1>1, <1>2, <2>1
  <1>3. ASSUME NEW j \in DOMAIN params, params[j].is_output, DataIndex(params, j) \in DOMAIN bufs
        PROVE  bufs[DataIndex(params, j)] # b
    <2>1. CASE b \in Range(handle)
      BY <1>3, <2>1 DEF Apart, OutputsFresh
    <2>2. CASE params[p].name \in DOMAIN al /\ b = al[params[p].name]
      <3> SUFFICES ASSUME bufs[DataIndex(params, j)] = b PROVE FALSE
        OBVIOUS
      <3>1. params[j].name = params[p].name
        BY <1>3, <2>2 DEF Apart, OutputsNamed
      <3>2. j = p
        BY <3>1 DEF WellFormed
      <3> QED BY <1>3, <3>2
    <2> QED BY <2>1, <2>2
  <1> HIDE DEF new, last
  <1>4. OutputsFresh(params, new)
    <2> SUFFICES ASSUME NEW j \in DOMAIN params, params[j].is_output,
                        DataIndex(params, j) \in DOMAIN new
                 PROVE  /\ new[DataIndex(params, j)] \notin Range(handle)
                        /\ \A k \in DOMAIN bound : new[DataIndex(params, j)] \notin Range(bound[k].bufs)
                        /\ \A s \in DOMAIN new :
                             new[s] = new[DataIndex(params, j)] => s = DataIndex(params, j)
      BY DEF OutputsFresh
    <2> DEFINE d == DataIndex(params, j)
    <2>1. d \in DOMAIN bufs
      BY <1>2
    <2>2. /\ bufs[d] \notin Range(handle) /\ bufs[d] # b
          /\ \A k \in DOMAIN bound : bufs[d] \notin Range(bound[k].bufs)
          /\ \A s \in DOMAIN bufs : bufs[s] = bufs[d] => s = d
      BY <1>3, <2>1 DEF Apart, OutputsFresh
    <2> HIDE DEF d
    <2>3. new[d] = bufs[d]
      BY <1>1, <2>1
    <2>4. \A s \in DOMAIN new : new[s] = new[d] => s = d
      BY <1>1, <2>2, <2>3
    <2> QED BY <2>2, <2>3, <2>4 DEF d
  <1>5. InputsNamed(params, new)
    <2> SUFFICES ASSUME NEW s \in DOMAIN new, NEW i \in DOMAIN bound, NEW name,
                        ~InputAt(params, name, s),
                        NEW j \in DOMAIN specs[i].kernel.params,
                        specs[i].kernel.params[j].is_output,
                        specs[i].kernel.params[j].name = name,
                        DataIndex(specs[i].kernel.params, j) \in DOMAIN bound[i].bufs,
                        bound[i].bufs[DataIndex(specs[i].kernel.params, j)] = new[s]
                 PROVE  FALSE
      BY DEF InputsNamed
    <2>1. CASE s = last
      <3>1. CASE b \in Range(handle) /\ WritesApart
        BY <1>1, <2>1, <3>1 DEF WritesApart, Outputs
      <3>2. CASE params[p].name \in DOMAIN al /\ b = al[params[p].name]
        <4>1. name = params[p].name
          BY <1>1, <2>1, <3>2 DEF Apart, AliasesNamed, OutputsNamed
        <4> QED BY <2>1, <4>1 DEF InputAt, last
      <3> QED BY <3>1, <3>2
    <2>2. CASE s \in DOMAIN bufs
      BY <1>1, <2>2 DEF Apart, InputsNamed
    <2> QED BY <1>1, <2>1, <2>2
  <1>6. ASSUME NEW name \in DOMAIN al PROVE OutputsNamed(params, new, al[name], name)
    <2>1. OutputsNamed(params, bufs, al[name], name)
      BY DEF Apart
    <2> QED BY <1>1, <1>2, <2>1 DEF OutputsNamed
  <1> QED BY <1>4, <1>5, <1>6 DEF Apart, new

---------------------------------------------------------------------------
(* One pass's buffers, parameter by parameter.                             *)

Holds(params, acc) ==
  /\ Shaped(acc) /\ Listed(acc)
  /\ acc.refused \in BOOLEAN
  /\ DOMAIN words \subseteq DOMAIN acc.words
  /\ Apart(params, acc.bufs, acc.alias)

(* acc has grown: what was bound still is, and the buffers of clients and  *)
(* of passes hold what they held.                                          *)
Referred(acc) ==
  DOMAIN acc.words
    \cap (Range(handle) \cup Range(acc.bufs) \cup UNION {Range(bound[k].bufs) : k \in DOMAIN bound})

Extends(acc, new) ==
  /\ \A s \in DOMAIN acc.bufs : s \in DOMAIN new.bufs /\ new.bufs[s] = acc.bufs[s]
  /\ DOMAIN acc.words \subseteq DOMAIN new.words
  /\ \A b \in Referred(acc) : new.words[b] = acc.words[b]

LEMMA ExtendsOn ==
  ASSUME NEW a, NEW b, NEW c, Extends(a, b), Extends(b, c)
  PROVE  Extends(a, c)
  <1>1. Referred(a) \subseteq Referred(b)
    BY DEF Extends, Referred, Range
  <1> QED BY <1>1 DEF Extends

LEMMA SameExtends ==
  ASSUME NEW a, NEW b, a.bufs = b.bufs, a.words = b.words
  PROVE  Extends(a, b)
  BY DEF Extends

(* One more buffer is bound, which holds this.                             *)
Grown(params, acc, new, content, private) ==
  /\ Holds(params, new)
  /\ Len(new.bufs) = Len(acc.bufs) + 1 /\ Last(new.bufs) \in Buffers
  /\ new.bufs = Append(acc.bufs, Last(new.bufs))
  /\ new.alias = acc.alias /\ new.refused = acc.refused
  /\ Extends(acc, new) /\ new.words[Last(new.bufs)] = content
  /\ IsPrivate(Last(new.bufs)) = private

LEMMA AcquireKeeps ==
  ASSUME NEW params, NEW acc, Holds(params, acc), NEW n \in Nat, n <= MaxLength,
         NEW private \in BOOLEAN, NEW content
  PROVE  Grown(params, acc, Acquire(acc, n, private, content), content, private)
  <1> DEFINE new == Acquire(acc, n, private, content)
  <1>1. Shaped(acc) /\ Listed(acc) /\ Apart(params, acc.bufs, acc.alias)
    BY DEF Holds
  <1>02. PICK b : Gains(acc, new, b, private, content)
    BY <1>1, AcquireFresh
  <1> HIDE DEF new
  <1>2. /\ b \in Buffers /\ b \notin InUse(acc)
        /\ Shaped(new)
        /\ new.bufs = Append(acc.bufs, b)
        /\ new.alias = acc.alias /\ new.refused = acc.refused
        /\ new.pool \in [Lists -> Nat]
        /\ \A l \in Lists : acc.pool[l] <= new.pool[l]
        /\ b[2] <= new.pool[b[1]]
        /\ DOMAIN new.words = DOMAIN acc.words \cup {b}
        /\ new.words = Put(acc.words, b, content) /\ IsPrivate(b) = private
    BY <1>02 DEF Gains
  <1>3. acc.bufs \in Seq(Buffers) /\ acc.pool \in [Lists -> Nat]
    BY <1>1 DEF Listed
  <1>4. /\ new.bufs \in Seq(Buffers) /\ Len(new.bufs) = Len(acc.bufs) + 1
        /\ new.bufs[Len(new.bufs)] = b
        /\ Range(new.bufs) = Range(acc.bufs) \cup {b}
    <2> DEFINE U == acc.bufs
    <2>1. new.bufs = Append(U, b) /\ U \in Seq(Buffers) /\ b \in Buffers
      BY <1>2, <1>3
    <2> HIDE DEF U
    <2>2. /\ Append(U, b) \in Seq(Buffers) /\ Len(Append(U, b)) = Len(U) + 1
          /\ Append(U, b)[Len(U) + 1] = b
          /\ Range(Append(U, b)) = Range(U) \cup {b}
      BY <2>1 DEF Range
    <2> QED BY <2>1, <2>2 DEF U
  <1>5. Last(new.bufs) = b
    BY <1>4 DEF Last
  <1>6. /\ b \notin Range(handle) /\ b \notin Range(acc.bufs) /\ b \notin Range(acc.alias)
        /\ \A k \in DOMAIN bound : b \notin Range(bound[k].bufs)
    BY <1>2 DEF InUse
  <1>7. Apart(params, new.bufs, new.alias)
    BY <1>1, <1>2, <1>3, <1>6, FreshKeeps
  <1>8. Listed(new)
    <2>1. InUse(new) = InUse(acc) \cup {b}
      BY <1>2, <1>4 DEF InUse
    <2>2. InUse(new) \subseteq DOMAIN new.words \cup {NoBuffer}
      BY <1>1, <1>2, <2>1 DEF Listed
    <2>3. ASSUME NEW c \in DOMAIN new.words PROVE c \in Buffers /\ c[2] <= new.pool[c[1]]
      <3>1. CASE c = b
        BY <1>2, <3>1
      <3>2. CASE c \in DOMAIN acc.words
        <4>1. c \in Buffers /\ c[2] <= acc.pool[c[1]]
          BY <1>1, <3>2 DEF Listed
        <4>2. c[1] \in Lists /\ c[2] \in Nat
          BY <4>1 DEF Buffers
        <4>3. acc.pool[c[1]] <= new.pool[c[1]] /\ acc.pool[c[1]] \in Nat /\ new.pool[c[1]] \in Nat
          BY <1>2, <1>3, <4>2
        <4> QED BY <4>1, <4>2, <4>3
      <3> QED BY <1>2, <2>3, <3>1, <3>2
    <2> QED BY <1>2, <1>4, <2>2, <2>3 DEF Listed
  <1>9. DOMAIN words \subseteq DOMAIN new.words /\ new.refused \in BOOLEAN
    BY <1>2 DEF Holds
  <1>10. new.words[b] = content /\ \A c \in DOMAIN acc.words : c # b => new.words[c] = acc.words[c]
    BY <1>2 DEF Put
  <1>11. Extends(acc, new)
    <2>1. \A c \in Referred(acc) : c \in DOMAIN acc.words /\ c # b
      BY <1>6 DEF Referred
    <2>2. \A s \in DOMAIN acc.bufs : s \in DOMAIN new.bufs /\ new.bufs[s] = acc.bufs[s]
      BY <1>2, <1>3
    <2> QED BY <1>2, <1>10, <2>1, <2>2 DEF Extends
  <1> QED BY <1>2, <1>4, <1>5, <1>7, <1>8, <1>9, <1>10, <1>11 DEF Holds, Grown, new

LEMMA SharedKeeps ==
  ASSUME NEW params, NEW acc, Holds(params, acc), NEW n \in Nat, n <= MaxLength, NEW content
  PROVE  Grown(params, acc, acquire_shared(acc, content, n),
               IF content.len = 0 THEN Nothing ELSE content, FALSE)
  <1> DEFINE c == IF content.len = 0 THEN Nothing ELSE content
  <1>1. acquire_shared(acc, content, n) = Acquire(acc, n, FALSE, c)
    BY DEF acquire_shared
  <1> HIDE DEF c
  <1>2. \A private \in BOOLEAN : Grown(params, acc, Acquire(acc, n, private, c), c, private)
    BY AcquireKeeps
  <1>3. Grown(params, acc, Acquire(acc, n, FALSE, c), c, FALSE)
    BY <1>2, Zenon
  <1> QED BY <1>1, <1>3, Zenon DEF c

(* Shape and strides in the two slots behind these.                        *)
Described(acc, n, param, shape) ==
  /\ {n + 1, n + 2} \subseteq DOMAIN acc.bufs
  /\ acc.words[acc.bufs[n + 1]] = ShapeOf(param, shape)
  /\ acc.words[acc.bufs[n + 2]] = StridesOf(param)

(* Shape and strides behind the data of a strided parameter.               *)
LEMMA StridedKeeps ==
  ASSUME NEW params, NEW acc, Holds(params, acc), ~acc.refused, NEW param, NEW shape,
         param.strided \in BOOLEAN
  PROVE  LET new == push_strided(acc, param, shape)
         IN  /\ Holds(params, new)
             /\ ~new.refused => Len(new.bufs) + 1 = Len(acc.bufs) + binding_slots(param)
             /\ Extends(acc, new) /\ new.alias = acc.alias
             /\ new.refused <=> MissingMetadata(param, shape)
             /\ ~new.refused /\ param.strided => Described(new, Len(acc.bufs), param, shape)
  <1>1. CASE ~param.strided
    <2>1. Extends(acc, acc)
      BY SameExtends
    <2> QED BY <1>1, <2>1 DEF push_strided, Holds, Listed, binding_slots, MissingMetadata
  <1>2. CASE param.strided /\ MissingMetadata(param, shape)
    <2> DEFINE new == [acc EXCEPT !.refused = TRUE]
    <2>1. push_strided(acc, param, shape) = new
      BY <1>2 DEF push_strided
    <2>2. /\ Shaped(new) /\ new.refused = TRUE /\ new.bufs = acc.bufs /\ new.alias = acc.alias
          /\ new.words = acc.words /\ new.pool = acc.pool
      <3> DEFINE A == acc.pool  W == acc.words  L == acc.alias  U == acc.bufs  R == acc.refused
      <3>1. acc = [pool |-> A, words |-> W, alias |-> L, bufs |-> U, refused |-> R]
        BY DEF Holds, Shaped
      <3> HIDE DEF A, W, L, U, R
      <3>2. \A r : [acc EXCEPT !.refused = r]
                    = [pool |-> A, words |-> W, alias |-> L, bufs |-> U, refused |-> r]
        BY <3>1
      <3>3. new = [pool |-> A, words |-> W, alias |-> L, bufs |-> U, refused |-> TRUE]
        BY <3>2, Zenon
      <3> HIDE DEF new
      <3> QED BY <3>3, Zenon DEF A, W, L, U, R, Shaped
    <2> HIDE DEF new
    <2>3. InUse(new) = InUse(acc)
      BY <2>2 DEF InUse
    <2>4. Holds(params, new)
      BY <2>2, <2>3 DEF Holds, Listed
    <2>5. Extends(acc, new)
      BY <2>2, SameExtends
    <2> QED BY <1>2, <2>1, <2>2, <2>4, <2>5
  <1>3. CASE param.strided /\ ~MissingMetadata(param, shape)
    <2> DEFINE one == acquire_shared(acc, ShapeOf(param, shape), 1)
               two == acquire_shared(one, StridesOf(param), 1)
    <2>1. 1 \in Nat /\ 1 <= MaxLength
      BY PowersNat
    <2>2. Grown(params, acc, one, ShapeOf(param, shape), FALSE)
      <3>1. ShapeOf(param, shape).len # 0
        BY DEF ShapeOf, Words
      <3> HIDE DEF one
      <3>2. Grown(params, acc, one, IF ShapeOf(param, shape).len = 0 THEN Nothing ELSE ShapeOf(param, shape), FALSE)
        BY <2>1, SharedKeeps DEF one
      <3> QED BY <3>1, <3>2
    <2> HIDE DEF one
    <2>3. Grown(params, one, two, StridesOf(param), FALSE)
      <3>1. StridesOf(param).len # 0
        BY DEF StridesOf, Words
      <3>2. Holds(params, one)
        BY <2>2 DEF Grown
      <3> HIDE DEF two
      <3>3. Grown(params, one, two, IF StridesOf(param).len = 0 THEN Nothing ELSE StridesOf(param), FALSE)
        BY <2>1, <3>2, SharedKeeps DEF two
      <3> QED BY <3>1, <3>3
    <2>4. push_strided(acc, param, shape) = two
      BY <1>3 DEF push_strided, one
    <2> HIDE DEF two
    <2>5. Len(acc.bufs) \in Nat /\ acc.bufs \in Seq(Buffers)
      BY DEF Holds, Listed
    <2>6. /\ Holds(params, one) /\ Holds(params, two)
          /\ one.bufs = Append(acc.bufs, Last(one.bufs)) /\ two.bufs = Append(one.bufs, Last(two.bufs))
          /\ Last(one.bufs) \in Buffers /\ Last(two.bufs) \in Buffers
          /\ Len(one.bufs) = Len(acc.bufs) + 1 /\ Len(two.bufs) = Len(one.bufs) + 1
          /\ two.alias = acc.alias /\ two.refused = acc.refused
          /\ Extends(acc, one) /\ Extends(one, two)
          /\ one.words[Last(one.bufs)] = ShapeOf(param, shape)
          /\ two.words[Last(two.bufs)] = StridesOf(param)
      BY <2>2, <2>3 DEF Grown
    <2>7. Extends(acc, two)
      BY <2>6, ExtendsOn
    <2>8. Described(two, Len(acc.bufs), param, shape)
      <3> DEFINE n == Len(acc.bufs)
      <3>1. /\ n + 1 \in DOMAIN one.bufs /\ one.bufs[n + 1] = Last(one.bufs)
            /\ n + 2 \in DOMAIN two.bufs /\ two.bufs[n + 2] = Last(two.bufs)
            /\ one.bufs \in Seq(Buffers)
        <4>1. one.bufs \in Seq(Buffers) /\ two.bufs \in Seq(Buffers)
          BY <2>6 DEF Holds, Listed
        <4> QED BY <2>5, <2>6, <4>1 DEF Last
      <3>2. one.bufs[n + 1] \in Referred(one)
        <4>1. one.bufs[n + 1] \in InUse(one) /\ one.bufs[n + 1] \in Range(one.bufs)
          BY <3>1 DEF InUse, Range
        <4>2. one.bufs[n + 1] # NoBuffer
          BY <2>6, <3>1, CallAssumption
        <4> QED BY <2>6, <4>1, <4>2 DEF Holds, Listed, Referred
      <3>3. n + 1 \in DOMAIN two.bufs /\ two.bufs[n + 1] = one.bufs[n + 1]
            /\ two.words[one.bufs[n + 1]] = one.words[one.bufs[n + 1]]
        BY <2>6, <3>1, <3>2 DEF Extends
      <3> QED BY <2>6, <3>1, <3>3 DEF Described
    <2> QED BY <1>3, <2>4, <2>5, <2>6, <2>7, <2>8 DEF binding_slots
  <1> QED BY <1>1, <1>2, <1>3

(* What is asked of a pass being prepared.                                 *)
Preparing(i, params) ==
  /\ params = specs[i].kernel.params
  /\ WellFormed(params)
  /\ Range(specs[i].resident) \subseteq Handles
  /\ \A j \in DOMAIN params : specs[i].host[params[j].name] \in 0..MaxLength
  /\ \A h \in Handles : handle[h] = NoBuffer \/ handle[h] \in Buffers
  /\ DOMAIN handle = Handles
  /\ WritesApart

(* The buffer bound to a parameter's data, and what is in a new one.       *)
Published(i, param) == param.is_output /\ param.name \in LaterInputs(i)
DataBound(i, acc, param, new) ==
  LET pre == Resolved(i, acc, param)
      b == Last(new.bufs)
  IN  /\ Extends(acc, new) /\ new.bufs = Append(acc.bufs, b) /\ b \in Buffers
      /\ pre # NoBuffer => b = pre /\ new.alias = acc.alias
      /\ pre = NoBuffer /\ Published(i, param) =>
           new.words[b] = Nothing /\ new.alias = Put(acc.alias, param.name, b)
      /\ pre = NoBuffer /\ ~Published(i, param) =>
           /\ new.words[b] = Sequences!HostWords(specs[i], i, param.name)
           /\ ~IsPrivate(b) /\ new.alias = acc.alias

LEMMA HostContents ==
  ASSUME NEW pass, NEW i, NEW name, NEW w, w = Sequences!HostWords(pass, i, name)
  PROVE  (IF w.len = 0 THEN Nothing ELSE w) = w
  BY SameKernels DEF Sequences!HostWords, Words

(* The data of one parameter takes one slot, its own.                      *)
LEMMA DataKeeps ==
  ASSUME NEW i, NEW params, Preparing(i, params), NEW acc, Holds(params, acc),
         NEW p \in DOMAIN params, DataIndex(params, p) = Len(acc.bufs) + 1
  PROVE  LET new == BindData(i, acc, params[p], Resolved(i, acc, params[p]))
         IN  /\ Holds(params, new)
             /\ Len(new.bufs) = Len(acc.bufs) + 1 /\ new.refused = acc.refused
             /\ DataBound(i, acc, params[p], new)
  <1> DEFINE param == params[p]
             pre == Resolved(i, acc, param)
             n == planned_data_len(param, specs[i].host[param.name])
             private == acquire_private(acc, n)
             shared == acquire_shared(acc, Sequences!HostWords(specs[i], i, param.name), n)
             new == BindData(i, acc, param, pre)
  <1>0. WellFormed(params) /\ acc.bufs \in Seq(Buffers) /\ Len(acc.bufs) \in Nat
    <2>1. WellFormed(params)
      BY DEF Preparing
    <2>2. acc.bufs \in Seq(Buffers)
      BY DEF Holds, Listed
    <2> QED BY <2>1, <2>2
  <1>1. n \in Nat /\ n <= MaxLength
    <2>1. specs[i].host[param.name] \in 0..MaxLength /\ param.len \in 0..MaxLength
      BY DEF Preparing, WellFormed
    <2>2. MaxLength \in Nat
      BY PowersNat
    <2> QED BY <2>1, <2>2 DEF planned_data_len
  <1>2. CASE pre # NoBuffer
    <2> DEFINE res == [acc EXCEPT !.bufs = Append(@, pre)]
    <2>1. new = res
      BY <1>2 DEF BindData
    <2>2. /\ ~param.is_output
          /\ \/ \E h \in Handles : pre = handle[h]
             \/ param.name \in DOMAIN acc.alias /\ pre = acc.alias[param.name]
      <3>1. ~param.is_output
        BY <1>2 DEF Resolved
      <3>2. CASE param.name \in DOMAIN specs[i].resident
        <4>1. pre = handle[specs[i].resident[param.name]]
          BY <3>1, <3>2 DEF Resolved
        <4>2. specs[i].resident[param.name] \in Handles
          BY <3>2 DEF Preparing, Range
        <4> QED BY <3>1, <4>1, <4>2
      <3>3. CASE param.name \notin DOMAIN specs[i].resident
        BY <1>2, <3>1, <3>3 DEF Resolved
      <3> QED BY <3>2, <3>3
    <2>3. pre \in Buffers /\ pre \in InUse(acc)
      <3>1. CASE \E h \in Handles : pre = handle[h]
        BY <1>2, <3>1 DEF Preparing, InUse, Range
      <3>2. CASE param.name \in DOMAIN acc.alias /\ pre = acc.alias[param.name]
        BY <3>2 DEF Holds, Apart, AliasesNamed, InUse, Range
      <3> QED BY <2>2, <3>1, <3>2
    <2>4. \/ pre \in Range(handle) /\ WritesApart
          \/ param.name \in DOMAIN acc.alias /\ pre = acc.alias[param.name]
      BY <2>2 DEF Preparing, Range
    <2>5. Apart(params, Append(acc.bufs, pre), acc.alias)
      <3> HIDE DEF pre
      <3> QED BY <1>0, <2>2, <2>3, <2>4, InputKeeps DEF Holds
    <2> HIDE DEF pre
    <2>6. /\ Shaped(res) /\ res.bufs = Append(acc.bufs, pre) /\ res.alias = acc.alias
          /\ res.words = acc.words /\ res.pool = acc.pool /\ res.refused = acc.refused
      BY DEF Holds, Shaped
    <2> HIDE DEF res
    <2>7. res.bufs \in Seq(Buffers) /\ Range(res.bufs) = Range(acc.bufs) \cup {pre}
          /\ Len(res.bufs) = Len(acc.bufs) + 1
      BY <1>0, <2>3, <2>6, SMTT(30) DEF Range
    <2>8. InUse(res) \subseteq InUse(acc)
      BY <2>3, <2>6, <2>7 DEF InUse
    <2>9. Holds(params, res)
      BY <2>5, <2>6, <2>7, <2>8 DEF Holds, Listed
    <2>10. Extends(acc, res)
      <3>1. \A s \in DOMAIN acc.bufs : s \in DOMAIN res.bufs /\ res.bufs[s] = acc.bufs[s]
        BY <1>0, <2>3, <2>6
      <3> QED BY <2>6, <3>1 DEF Extends
    <2>11. Last(res.bufs) = pre
      <3>1. res.bufs[Len(res.bufs)] = pre
        BY <1>0, <2>3, <2>6, <2>7
      <3> QED BY <3>1 DEF Last
    <2> DEFINE Bind(r) == DataBound(i, acc, param, r)
    <2>12. Bind(res)
      BY <1>2, <2>3, <2>6, <2>10, <2>11 DEF DataBound, pre
    <2> HIDE DEF new, Bind
    <2>13. Bind(new)
      BY <2>1, <2>12
    <2> QED BY <2>1, <2>6, <2>7, <2>9, <2>13 DEF pre, new, Bind
  <1>3. CASE pre = NoBuffer /\ param.is_output /\ param.name \in LaterInputs(i)
    <2>1. Grown(params, acc, private, Nothing, TRUE)
      <3>1. \A b \in BOOLEAN : Grown(params, acc, Acquire(acc, n, b, Nothing), Nothing, b)
        BY <1>1, AcquireKeeps
      <3>2. Grown(params, acc, Acquire(acc, n, TRUE, Nothing), Nothing, TRUE)
        BY <3>1, Zenon
      <3>3. private = Acquire(acc, n, TRUE, Nothing)
        BY DEF acquire_private
      <3> QED BY <3>2, <3>3, Zenon
    <2> DEFINE res == [private EXCEPT !.alias = Put(@, param.name, Last(private.bufs))]
    <2>2. new = res
      BY <1>3 DEF BindData
    <2> HIDE DEF private
    <2>01. /\ Holds(params, private)
           /\ Len(private.bufs) = Len(acc.bufs) + 1 /\ Last(private.bufs) \in Buffers
           /\ private.bufs = Append(acc.bufs, Last(private.bufs))
           /\ private.alias = acc.alias /\ private.refused = acc.refused
           /\ Extends(acc, private) /\ private.words[Last(private.bufs)] = Nothing
      BY <2>1 DEF Grown
    <2>3. /\ Shaped(res) /\ res.bufs = private.bufs
          /\ res.alias = Put(private.alias, param.name, Last(private.bufs))
          /\ res.words = private.words /\ res.pool = private.pool
          /\ res.refused = private.refused
      BY <2>01 DEF Holds, Shaped
    <2> HIDE DEF res
    <2>4. /\ private.bufs \in Seq(Buffers)
          /\ DataIndex(params, p) \in DOMAIN private.bufs
          /\ Last(private.bufs) = private.bufs[DataIndex(params, p)]
          /\ Last(private.bufs) \in Range(private.bufs)
      <3>1. private.bufs \in Seq(Buffers)
        BY <2>01 DEF Holds, Listed
      <3>2. DOMAIN private.bufs = 1..(Len(acc.bufs) + 1)
        BY <2>01, <3>1
      <3> QED BY <1>0, <2>01, <3>1, <3>2 DEF Last, Range
    <2>5. Apart(params, res.bufs, res.alias)
      BY <1>0, <1>3, <2>01, <2>3, <2>4, AliasKeeps DEF Holds
    <2>6. InUse(res) \subseteq InUse(private)
      BY <2>3, <2>4 DEF InUse, Range, Put
    <2>7. Holds(params, res)
      BY <2>01, <2>3, <2>5, <2>6 DEF Holds, Listed
    <2>8. Extends(acc, res)
      BY <2>01, <2>3 DEF Extends
    <2> DEFINE Bind(r) == DataBound(i, acc, param, r)
    <2>9. Bind(res)
      BY <1>3, <2>01, <2>3, <2>8 DEF DataBound, Published
    <2> HIDE DEF new, Bind
    <2>10. Bind(new)
      BY <2>2, <2>9
    <2> QED BY <2>01, <2>2, <2>3, <2>7, <2>10 DEF new, Bind
  <1>4. CASE pre = NoBuffer /\ ~(param.is_output /\ param.name \in LaterInputs(i))
    <2>1. new = shared
      BY <1>4 DEF BindData
    <2> DEFINE w == Sequences!HostWords(specs[i], i, param.name)
               Bind(r) == DataBound(i, acc, param, r)
    <2>2. Grown(params, acc, shared, w, FALSE)
      <3>1. Grown(params, acc, shared, IF w.len = 0 THEN Nothing ELSE w, FALSE)
        BY <1>1, SharedKeeps
      <3>2. (IF w.len = 0 THEN Nothing ELSE w) = w
        BY HostContents
      <3> HIDE DEF shared, w
      <3> QED BY <3>1, <3>2
    <2> HIDE DEF new, shared
    <2>3. Bind(shared)
      BY <1>4, <2>2 DEF DataBound, Grown, Published
    <2> HIDE DEF Bind
    <2>4. Bind(new)
      BY <2>1, <2>3
    <2> QED BY <2>1, <2>2, <2>4 DEF new, Grown, Bind
  <1> QED BY <1>2, <1>3, <1>4

(* The buffers after n parameters fill the slots these take.               *)
Ready(params, n, acc) ==
  /\ Holds(params, acc)
  /\ ~acc.refused => Len(acc.bufs) = SlotsBefore(params, n + 1)

LEMMA ParamKeeps ==
  ASSUME NEW i, NEW params, Preparing(i, params), NEW n \in DOMAIN params,
         NEW acc, Ready(params, n - 1, acc)
  PROVE  Ready(params, n, BindParam(i, acc, params[n]))
  <1> DEFINE data == BindData(i, acc, params[n], Resolved(i, acc, params[n]))
             new == push_strided(data, params[n], specs[i].shape)
  <1>1. WellFormed(params) /\ Holds(params, acc) /\ n \in 1..Len(params) /\ Len(params) \in Nat
    BY SlotsAscend DEF Preparing, Ready
  <1>2. CASE acc.refused
    BY <1>1, <1>2 DEF BindParam, Ready
  <1>3. CASE ~acc.refused
    <2>1. BindParam(i, acc, params[n]) = new
      BY <1>3 DEF BindParam
    <2>2. Len(acc.bufs) = SlotsBefore(params, n) /\ Len(acc.bufs) \in Nat
      <3>1. (n - 1) + 1 = n
        BY <1>1
      <3> QED BY <1>1, <1>3, <3>1 DEF Ready, Holds, Listed
    <2>3. DataIndex(params, n) = Len(acc.bufs) + 1
      BY <2>2 DEF DataIndex
    <2>4. Holds(params, data) /\ Len(data.bufs) = Len(acc.bufs) + 1 /\ ~data.refused
      BY <1>1, <1>3, <2>3, DataKeeps
    <2> HIDE DEF data
    <2>5. params[n].strided \in BOOLEAN
      BY <1>1 DEF WellFormed
    <2>6. /\ Holds(params, new)
          /\ ~new.refused => Len(new.bufs) + 1 = Len(data.bufs) + binding_slots(params[n])
      BY <2>4, <2>5, StridedKeeps
    <2>7. SlotsBefore(params, n + 1) = SlotsBefore(params, n) + binding_slots(params[n])
      BY <1>1, SlotsCount DEF WellFormed
    <2> HIDE DEF new
    <2>8. ~new.refused => Len(new.bufs) = SlotsBefore(params, n + 1)
      <3>1. binding_slots(params[n]) \in Nat
        BY DEF binding_slots
      <3>2. Len(new.bufs) \in Nat
        BY <2>6 DEF Holds, Listed
      <3> QED BY <2>2, <2>4, <2>6, <2>7, <3>1, <3>2
    <2> QED BY <2>1, <2>6, <2>8 DEF Ready
  <1> QED BY <1>1, <1>2, <1>3 DEF Holds

NoneYet == [pool |-> pool, words |-> words, alias |-> alias, bufs |-> <<>>, refused |-> FALSE]

(* The loop over the parameters, turn by turn.                             *)
LEMMA AllocateUnfolds ==
  ASSUME NEW i, NEW params, params = specs[i].kernel.params, WellFormed(params)
  PROVE  /\ allocate_pass_buffers(i, 0) = NoneYet
         /\ \A n \in 1..Len(params) :
              allocate_pass_buffers(i, n) = BindParam(i, allocate_pass_buffers(i, n - 1), params[n])
  <1> DEFINE N == Len(params)
             none == NoneYet
             Turn(acc, k) == BindParam(i, acc, params[k])
             Def(f) == [k \in 0..N |-> IF k = 0 THEN none ELSE Turn(f[k - 1], k)]
             F == CHOOSE f : f = Def(f)
             Solves(g, k) == /\ DOMAIN g = 0..k /\ g = [n \in 0..k |-> g[n]]
                             /\ g[0] = none
                             /\ \A n \in 1..k : g[n] = Turn(g[n - 1], n)
             P == {k \in Nat : \E g : Solves(g, k)}
  <1>0. N \in Nat /\ DOMAIN params = 1..N /\ params = specs[i].kernel.params
    BY SlotsAscend
  <1>1. \A n : allocate_pass_buffers(i, n) = F[n]
    BY <1>0 DEF allocate_pass_buffers, NoneYet
  <1> HIDE DEF none
  <1> HIDE DEF Turn
  <1>4. 0 \in P
    <2> DEFINE g == [n \in 0..0 |-> none]
    <2>1. Solves(g, 0)
      OBVIOUS
    <2> HIDE DEF g, Solves
    <2> QED BY <2>1
  <1>5. ASSUME NEW k \in Nat, k \in P PROVE k + 1 \in P
    <2>1. PICK g : Solves(g, k)
      BY <1>5
    <2> DEFINE h == [n \in 0..(k + 1) |-> IF n = k + 1 THEN Turn(g[k], k + 1) ELSE g[n]]
    <2>2. Solves(h, k + 1)
      <3>1. h[0] = none
        BY <2>1
      <3>2. ASSUME NEW n \in 1..(k + 1) PROVE h[n] = Turn(h[n - 1], n)
        <4>1. CASE n = k + 1
          <5>1. h[n] = Turn(g[k], k + 1) /\ h[n - 1] = g[k]
            BY <4>1
          <5> QED BY <4>1, <5>1, Zenon
        <4>2. CASE n # k + 1
          <5>1. n \in 1..k /\ n - 1 \in 0..k
            BY <4>2
          <5>2. h[n] = g[n] /\ h[n - 1] = g[n - 1]
            BY <4>2, <5>1
          <5>3. g[n] = Turn(g[n - 1], n)
            BY <2>1, <5>1
          <5> QED BY <5>2, <5>3, Zenon
        <4> QED BY <4>1, <4>2
      <3>3. DOMAIN h = 0..(k + 1) /\ h = [n \in 0..(k + 1) |-> h[n]]
        OBVIOUS
      <3> HIDE DEF h
      <3> QED BY <3>1, <3>2, <3>3, Zenon
    <2> HIDE DEF h, Solves
    <2>3. \E f : Solves(f, k + 1)
      BY <2>2
    <2> QED BY <2>3
  <1>6. PICK g : Solves(g, N)
    <2>1. Nat \subseteq P
      <3> HIDE DEF P
      <3> QED BY <1>4, <1>5, NatSetInduction
    <2> QED BY <1>0, <2>1
  <1>7. g = Def(g)
    <2>1. ASSUME NEW n \in 0..N PROVE g[n] = Def(g)[n]
      <3>1. CASE n = 0
        <4>1. g[n] = none /\ Def(g)[n] = none
          BY <1>6, <3>1
        <4> QED BY <4>1
      <3>2. CASE n # 0
        <4>1. n \in 1..N
          BY <1>0, <3>2
        <4>2. Def(g)[n] = Turn(g[n - 1], n)
          BY <3>2
        <4>3. g[n] = Turn(g[n - 1], n)
          BY <1>6, <4>1
        <4> HIDE DEF Def
        <4> QED BY <4>2, <4>3
      <3> QED BY <3>1, <3>2
    <2>2. Def(g) = [n \in 0..N |-> Def(g)[n]]
      OBVIOUS
    <2> HIDE DEF Def
    <2> QED BY <1>6, <2>1, <2>2
  <1>8. F = Def(F)
    <2> HIDE DEF Def
    <2> QED BY <1>7
  <1> HIDE DEF F
  <1>9. \A n \in 0..N : F[n] = IF n = 0 THEN none ELSE Turn(F[n - 1], n)
    BY <1>8
  <1>10. ASSUME NEW n \in 1..N PROVE F[n] = Turn(F[n - 1], n)
    <2>1. n \in 0..N /\ n # 0
      BY <1>0
    <2> QED BY <1>9, <2>1
  <1>11. F[0] = none
    BY <1>0, <1>9
  <1> QED BY <1>0, <1>1, <1>10, <1>11 DEF none, Turn

(* It prepares the pass parameter by parameter.                            *)
LEMMA AllocateKeeps ==
  ASSUME NEW i, NEW params, Preparing(i, params), Ready(params, 0, NoneYet)
  PROVE  \A n \in 0..Len(params) : Ready(params, n, allocate_pass_buffers(i, n))
  <1> DEFINE N == Len(params)
             F(n) == allocate_pass_buffers(i, n)
             R == {n \in Nat : n \in 0..N => Ready(params, n, F(n))}
  <1>1. N \in Nat /\ DOMAIN params = 1..N
    BY SlotsAscend DEF Preparing
  <1>2. F(0) = NoneYet /\ \A n \in 1..N : F(n) = BindParam(i, F(n - 1), params[n])
    BY AllocateUnfolds DEF Preparing
  <1> HIDE DEF F
  <1>3. \A n \in 1..N : \A acc : Ready(params, n - 1, acc) => Ready(params, n, BindParam(i, acc, params[n]))
    BY <1>1, ParamKeeps
  <1>4. 0 \in R
    BY <1>2
  <1>5. ASSUME NEW n \in Nat, n \in R PROVE n + 1 \in R
    <2> SUFFICES ASSUME n + 1 \in 0..N PROVE Ready(params, n + 1, F(n + 1))
      OBVIOUS
    <2>1. n \in 0..N /\ n + 1 \in 1..N /\ (n + 1) - 1 = n
      BY <1>1
    <2>2. Ready(params, (n + 1) - 1, F(n))
      BY <1>5, <2>1
    <2>3. Ready(params, n + 1, BindParam(i, F(n), params[n + 1]))
      BY <1>3, <2>1, <2>2
    <2>4. F(n + 1) = BindParam(i, F(n), params[n + 1])
      BY <1>2, <2>1
    <2> QED BY <2>3, <2>4
  <1>6. Nat \subseteq R
    <2> HIDE DEF R
    <2> QED BY <1>4, <1>5, NatSetInduction
  <1> QED BY <1>6 DEF F

---------------------------------------------------------------------------
(* The invariant.                                                          *)

(* What clients, passes and aliases refer to is on record, in its list.    *)
Recorded ==
  /\ pool \in [Lists -> Nat]
  /\ \A b \in DOMAIN words : b \in Buffers /\ b[2] <= pool[b[1]]
  /\ handle \in [Handles -> Buffers \cup {NoBuffer}]
  /\ \A h \in Handles : handle[h] = NoBuffer \/ handle[h] \in DOMAIN words
  /\ Range(alias) \subseteq DOMAIN words
  /\ \A i \in DOMAIN bound : Range(bound[i].bufs) \subseteq DOMAIN words

(* How far a call is, and what it has bound by then.                       *)
Progress ==
  /\ phase \in {"idle", "returned", "planning", "encoding", "running"}
  /\ phase \in {"idle", "returned"} => specs = <<>> /\ bound = <<>> /\ alias = <<>>
  /\ phase \in {"planning", "encoding", "running"} => specs \in Requests
  /\ phase = "planning" => bound = <<>> /\ alias = <<>>
  /\ phase = "encoding" => Len(bound) < Len(specs)
  /\ phase = "running" => Len(bound) = Len(specs)
  /\ bound \in Seq(Range(bound))
  /\ barriers \cup done \subseteq DOMAIN bound

ChainInv == Recorded /\ Progress /\ WritesApart /\ AliasesNamed(alias)

LEMMA InitChain == Init => ChainInv
  <1> SUFFICES ASSUME Init PROVE ChainInv
    OBVIOUS
  <1>1. /\ words = <<>> /\ bound = <<>> /\ alias = <<>> /\ barriers = {} /\ done = {}
        /\ phase = "idle" /\ specs = <<>>
        /\ pool = [l \in Lists |-> 0] /\ handle = [h \in Handles |-> NoBuffer]
    BY DEF Init, Sequences!NoRequest
  <1>2. DOMAIN <<>> = {} /\ Range(<<>>) = {}
    BY DEF Range
  <1>3. Recorded
    BY <1>1, <1>2 DEF Recorded
  <1>4. Progress
    BY <1>1, <1>2 DEF Progress
  <1>5. WritesApart /\ AliasesNamed(alias)
    BY <1>1, <1>2 DEF WritesApart, AliasesNamed
  <1> QED BY <1>3, <1>4, <1>5 DEF ChainInv

LEMMA ChainTypes == ChainInv => TypeOK
  <1> SUFFICES ASSUME ChainInv PROVE TypeOK
    OBVIOUS
  <1>1. \A b \in DOMAIN words : b[1] \in Lists /\ b[2] \in 1..pool[b[1]]
    <2> SUFFICES ASSUME NEW b \in DOMAIN words PROVE b[1] \in Lists /\ b[2] \in 1..pool[b[1]]
      OBVIOUS
    <2>1. b \in Buffers /\ b[2] <= pool[b[1]] /\ pool \in [Lists -> Nat]
      BY DEF ChainInv, Recorded
    <2>2. b[1] \in Lists /\ b[2] \in Nat \ {0}
      BY <2>1 DEF Buffers
    <2> QED BY <2>1, <2>2
  <1>2. CASE phase \in {"idle", "returned"}
    BY <1>1, <1>2 DEF ChainInv, Recorded, Progress, TypeOK, Sequences!NoRequest
  <1>3. CASE phase = "planning"
    BY <1>1, <1>3 DEF ChainInv, Recorded, Progress, TypeOK
  <1>4. CASE phase = "encoding"
    BY <1>1, <1>4 DEF ChainInv, Recorded, Progress, TypeOK
  <1>5. CASE phase = "running"
    BY <1>1, <1>5 DEF ChainInv, Recorded, Progress, TypeOK
  <1> QED BY <1>2, <1>3, <1>4, <1>5 DEF ChainInv, Progress

(* Nothing is bound: there is nothing to tell apart.                       *)
LEMMA NothingBound ==
  ASSUME bound' = <<>>, alias' = <<>>
  PROVE  WritesApart' /\ AliasesNamed(alias)' /\ bound' \in Seq(Range(bound'))
         /\ DOMAIN bound' = {} /\ Range(alias') = {}
  <1>1. DOMAIN <<>> = {} /\ Range(<<>>) = {} /\ <<>> \in Seq({})
    BY DEF Range
  <1> QED BY <1>1 DEF WritesApart, AliasesNamed

(* The call is over, with the lists as long as they were or longer.        *)
LEMMA ReturnKeeps ==
  ASSUME ChainInv, NEW o, Return(o), pool' \in [Lists -> Nat],
         \A b \in DOMAIN words : b[2] <= pool'[b[1]]
  PROVE  ChainInv'
  <1>1. /\ handle' = handle /\ specs' = <<>> /\ phase' = "returned"
        /\ bound' = <<>> /\ alias' = <<>> /\ barriers' = {} /\ done' = {}
        /\ DOMAIN words' = DOMAIN words \cap Range(handle')
    BY DEF Return, Kept, Sequences!NoRequest
  <1>2. /\ WritesApart' /\ AliasesNamed(alias)' /\ bound' \in Seq(Range(bound'))
        /\ DOMAIN bound' = {} /\ Range(alias') = {}
    BY <1>1, NothingBound
  <1>3. \A h \in Handles : handle'[h] = NoBuffer \/ handle'[h] \in DOMAIN words'
    BY <1>1 DEF ChainInv, Recorded, Range
  <1>4. Recorded'
    BY <1>1, <1>2, <1>3 DEF ChainInv, Recorded
  <1>5. Progress'
    BY <1>1, <1>2 DEF Progress
  <1> QED BY <1>2, <1>4, <1>5 DEF ChainInv

LEMMA UploadKeeps ==
  ASSUME ChainInv, NEW h \in Handles, NEW n \in Uploads, Upload(h, n)
  PROVE  ChainInv'
  <1> DEFINE none == [pool |-> pool, words |-> words, alias |-> <<>>, bufs |-> <<>>,
                      refused |-> FALSE]
             content == Words(<<"resident", h, n>>, n)
             acc == acquire_shared(none, content, n)
  <1>1. /\ phase = "idle" /\ bound = <<>> /\ alias = <<>>
        /\ handle' = [handle EXCEPT ![h] = Last(acc.bufs)]
        /\ pool' = acc.pool /\ words' = acc.words
        /\ UNCHANGED <<specs, single, phase, bound, alias, barriers, done, outcome>>
    BY DEF Upload, ChainInv, Progress
  <1>2. Shaped(none) /\ Listed(none)
    <2>1. InUse(none) = Range(handle)
      BY <1>1 DEF InUse, Range
    <2>2. InUse(none) \subseteq DOMAIN none.words \cup {NoBuffer}
      BY <2>1 DEF ChainInv, Recorded, Range
    <2>3. /\ none.pool \in [Lists -> Nat]
          /\ \A b \in DOMAIN none.words : b \in Buffers /\ b[2] <= none.pool[b[1]]
      BY DEF ChainInv, Recorded
    <2>4. none.bufs \in Seq(Buffers) /\ Shaped(none)
      BY DEF Shaped
    <2> QED BY <2>2, <2>3, <2>4 DEF Listed
  <1>3. n \in Nat /\ n <= MaxLength
    BY CallAssumption, PowersNat
  <1>4. PICK b : Gains(none, acc, b, FALSE, content)
    <2>1. content.len # 0
      BY CallAssumption, PowersNat DEF Words
    <2>2. acc = Acquire(none, n, FALSE, content)
      BY <2>1 DEF acquire_shared
    <2> HIDE DEF acc, none, content
    <2>3. \A private \in BOOLEAN : \E b : Gains(none, Acquire(none, n, private, content), b, private, content)
      BY <1>2, <1>3, AcquireFresh
    <2>4. \E b : Gains(none, Acquire(none, n, FALSE, content), b, FALSE, content)
      BY <2>3, Zenon
    <2> QED BY <2>2, <2>4
  <1> HIDE DEF acc
  <1>5. /\ b \in Buffers
        /\ acc.bufs = Append(<<>>, b)
        /\ acc.pool \in [Lists -> Nat]
        /\ \A l \in Lists : pool[l] <= acc.pool[l]
        /\ b[2] <= acc.pool[b[1]]
        /\ DOMAIN acc.words = DOMAIN words \cup {b}
    BY <1>4 DEF Gains
  <1>6. Last(acc.bufs) = b
    BY <1>5 DEF Last
  <1>7. Recorded'
    <2>1. /\ handle' \in [Handles -> Buffers \cup {NoBuffer}]
          /\ \A g \in Handles : handle'[g] = NoBuffer \/ handle'[g] \in DOMAIN words'
      BY <1>1, <1>5, <1>6 DEF ChainInv, Recorded
    <2>2. ASSUME NEW c \in DOMAIN words' PROVE c \in Buffers /\ c[2] <= pool'[c[1]]
      <3>1. CASE c = b
        BY <1>1, <1>5, <3>1
      <3>2. CASE c \in DOMAIN words
        <4>1. c \in Buffers /\ c[2] <= pool[c[1]] /\ pool \in [Lists -> Nat]
          BY <3>2 DEF ChainInv, Recorded
        <4>2. c[1] \in Lists /\ c[2] \in Nat
          BY <4>1 DEF Buffers
        <4>3. pool[c[1]] <= pool'[c[1]] /\ pool[c[1]] \in Nat /\ pool'[c[1]] \in Nat
          BY <1>1, <1>5, <4>1, <4>2
        <4> QED BY <4>1, <4>2, <4>3
      <3> QED BY <1>1, <1>5, <2>2, <3>1, <3>2
    <2>3. DOMAIN bound' = {} /\ Range(alias') = {}
      BY <1>1, NothingBound
    <2> QED BY <1>1, <1>5, <2>1, <2>2, <2>3 DEF Recorded
  <1>8. Progress'
    BY <1>1 DEF ChainInv, Progress
  <1>9. WritesApart' /\ AliasesNamed(alias)'
    BY <1>1, NothingBound
  <1> QED BY <1>7, <1>8, <1>9 DEF ChainInv

LEMMA DropKeeps ==
  ASSUME ChainInv, NEW h \in Handles, DropResident(h)
  PROVE  ChainInv'
  <1>1. /\ phase = "idle" /\ bound = <<>> /\ alias = <<>>
        /\ handle' = [handle EXCEPT ![h] = NoBuffer]
        /\ DOMAIN words' = DOMAIN words \cap Range(handle')
        /\ UNCHANGED <<pool, specs, single, phase, bound, alias, barriers, done, outcome>>
    BY DEF DropResident, Kept, ChainInv, Progress
  <1>2. WritesApart' /\ AliasesNamed(alias)' /\ DOMAIN bound' = {} /\ Range(alias') = {}
    BY <1>1, NothingBound
  <1>3. /\ handle' \in [Handles -> Buffers \cup {NoBuffer}]
        /\ \A g \in Handles : handle'[g] = NoBuffer \/ handle'[g] \in DOMAIN words'
    BY <1>1 DEF ChainInv, Recorded, Range
  <1>4. Recorded'
    BY <1>1, <1>2, <1>3 DEF ChainInv, Recorded
  <1>5. Progress'
    BY <1>1 DEF ChainInv, Progress
  <1> QED BY <1>2, <1>4, <1>5 DEF ChainInv

LEMMA CallKeeps ==
  ASSUME ChainInv, NEW r \in Requests, NEW alone \in BOOLEAN, Call(r, alone)
  PROVE  ChainInv'
  <1>1. /\ bound = <<>> /\ alias = <<>> /\ specs' = r /\ phase' = "planning"
        /\ UNCHANGED <<pool, words, handle, bound, alias, barriers, done, outcome>>
    BY DEF Call, ChainInv, Progress
  <1>2. WritesApart' /\ AliasesNamed(alias)'
    BY <1>1, NothingBound
  <1>3. Recorded'
    BY <1>1 DEF ChainInv, Recorded
  <1>4. Progress'
    BY <1>1 DEF ChainInv, Progress
  <1> QED BY <1>2, <1>3, <1>4 DEF ChainInv

LEMMA AcceptKeeps == ChainInv /\ Accept => ChainInv'
  <1> SUFFICES ASSUME ChainInv, Accept PROVE ChainInv'
    OBVIOUS
  <1>1. /\ bound = <<>> /\ alias = <<>> /\ specs = <<>> /\ phase' = "idle"
        /\ UNCHANGED <<pool, words, handle, specs, single, bound, alias, barriers, done>>
    BY DEF Accept, ChainInv, Progress
  <1>2. WritesApart' /\ AliasesNamed(alias)'
    BY <1>1, NothingBound
  <1>3. Recorded'
    BY <1>1 DEF ChainInv, Recorded
  <1>4. Progress'
    BY <1>1 DEF ChainInv, Progress
  <1> QED BY <1>2, <1>3, <1>4 DEF ChainInv

LEMMA PlanKeeps == ChainInv /\ Plan => ChainInv'
  <1> SUFFICES ASSUME ChainInv, Plan PROVE ChainInv'
    OBVIOUS
  <1>1. CASE Return(Failed("Refused")) /\ UNCHANGED pool
    <2>1. pool' \in [Lists -> Nat] /\ \A b \in DOMAIN words : b[2] <= pool'[b[1]]
      BY <1>1 DEF ChainInv, Recorded
    <2> QED BY <1>1, <2>1, ReturnKeeps
  <1>2. CASE /\ phase' = "encoding"
             /\ UNCHANGED <<pool, words, handle, specs, single, bound, alias, barriers, done, outcome>>
    <2>1. /\ phase = "planning" /\ bound = <<>> /\ alias = <<>> /\ specs \in Requests
      BY DEF Plan, ChainInv, Progress
    <2>2. Len(bound) < Len(specs)
      <3>1. specs # <<>> /\ specs \in Seq(Range(specs))
        BY <2>1, CallAssumption DEF CallsWellFormed
      <3>2. Len(specs) \in Nat /\ Len(specs) # 0
        BY <3>1
      <3> QED BY <2>1, <3>2
    <2>3. WritesApart' /\ AliasesNamed(alias)'
      BY <1>2, <2>1, NothingBound
    <2>4. Recorded'
      BY <1>2 DEF ChainInv, Recorded
    <2>5. Progress'
      BY <1>2, <2>1, <2>2 DEF ChainInv, Progress
    <2> QED BY <2>3, <2>4, <2>5 DEF ChainInv
  <1> QED BY <1>1, <1>2 DEF Plan

(* The same bindings are as far apart.                                     *)
LEMMA SameBindings ==
  ASSUME specs' = specs, handle' = handle, bound' = bound, alias' = alias
  PROVE  /\ WritesApart' <=> WritesApart
         /\ AliasesNamed(alias)' <=> AliasesNamed(alias)
  <1>1. WritesApart' <=> WritesApart
    BY DEF WritesApart
  <1>2. AliasesNamed(alias)' <=> AliasesNamed(alias)
    BY DEF AliasesNamed, OutputsNamed
  <1> QED BY <1>1, <1>2

LEMMA ExecuteKeeps ==
  ASSUME ChainInv, NEW i \in DOMAIN bound, Execute(i)
  PROVE  ChainInv'
  <1>1. /\ DOMAIN words' = DOMAIN words
        /\ done' = done \cup {i}
        /\ UNCHANGED <<pool, handle, specs, single, phase, bound, alias, barriers, outcome>>
    BY DEF Execute, WriteOutputs
  <1>2. Recorded'
    BY <1>1 DEF ChainInv, Recorded
  <1>3. Progress'
    BY <1>1 DEF ChainInv, Progress
  <1>4. WritesApart' /\ AliasesNamed(alias)'
    BY <1>1, SameBindings DEF ChainInv
  <1> QED BY <1>2, <1>3, <1>4 DEF ChainInv

---------------------------------------------------------------------------
(* The passes, one by one.                                                 *)

LEMMA AppendAny ==
  ASSUME NEW s, s \in Seq(Range(s)), NEW e
  PROVE  /\ Append(s, e) \in Seq(Range(Append(s, e)))
         /\ Len(Append(s, e)) = Len(s) + 1 /\ Len(s) \in Nat
         /\ DOMAIN Append(s, e) = 1..(Len(s) + 1) /\ DOMAIN s = 1..Len(s)
         /\ Append(s, e)[Len(s) + 1] = e
         /\ \A k \in DOMAIN s : Append(s, e)[k] = s[k]
  <1> DEFINE S == Range(s) \cup {e}
  <1>1. s \in Seq(S) /\ e \in S
    <2>1. \A k \in 1..Len(s) : s[k] \in S
      BY DEF Range
    <2> QED BY <2>1
  <1> HIDE DEF S
  <1>2. /\ Append(s, e) \in Seq(S)
        /\ Len(Append(s, e)) = Len(s) + 1 /\ Len(s) \in Nat
        /\ DOMAIN Append(s, e) = 1..(Len(s) + 1) /\ DOMAIN s = 1..Len(s)
        /\ Append(s, e)[Len(s) + 1] = e
        /\ \A k \in DOMAIN s : Append(s, e)[k] = s[k]
    BY <1>1
  <1>3. Append(s, e) \in Seq(Range(Append(s, e)))
    <2> DEFINE a == Append(s, e)
    <2>1. a \in Seq(S) /\ DOMAIN a = 1..Len(a) /\ Len(a) \in Nat
      BY <1>2
    <2> HIDE DEF a
    <2>2. \A k \in 1..Len(a) : a[k] \in Range(a)
      BY <2>1 DEF Range
    <2>3. a = [k \in 1..Len(a) |-> a[k]]
      BY <2>1
    <2>4. a \in [1..Len(a) -> Range(a)]
      BY <2>2, <2>3
    <2>5. a \in Seq(Range(a))
      BY <2>1, <2>4
    <2> QED BY <2>5 DEF a
  <1> QED BY <1>2, <1>3

(* The next pass is ready to be prepared.                                  *)
LEMMA NextPass ==
  ASSUME ChainInv, phase = "encoding", NEW i, i = Len(bound) + 1
  PROVE  /\ i \in DOMAIN specs /\ Len(specs) \in Nat /\ i \in Nat /\ DOMAIN specs = 1..Len(specs)
         /\ Preparing(i, specs[i].kernel.params)
         /\ Ready(specs[i].kernel.params, 0, NoneYet)
  <1> DEFINE params == specs[i].kernel.params
             none == NoneYet
  <1>1. specs \in Requests /\ Len(bound) < Len(specs) /\ bound \in Seq(Range(bound))
    BY DEF ChainInv, Progress
  <1>2. specs \in Seq(Range(specs))
    BY <1>1, CallAssumption DEF CallsWellFormed
  <1>3. i \in DOMAIN specs /\ Len(specs) \in Nat
    <2>1. Len(bound) \in Nat /\ Len(specs) \in Nat /\ DOMAIN specs = 1..Len(specs)
      BY <1>1, <1>2
    <2> QED BY <1>1, <2>1
  <1>4. Preparing(i, params)
    <2>1. /\ WellFormed(params)
          /\ Range(specs[i].resident) \subseteq Handles
          /\ \A j \in DOMAIN params : specs[i].host[params[j].name] \in 0..MaxLength
      BY <1>1, <1>3, CallAssumption DEF CallsWellFormed
    <2>2. /\ \A h \in Handles : handle[h] = NoBuffer \/ handle[h] \in Buffers
          /\ DOMAIN handle = Handles /\ WritesApart
      BY DEF ChainInv, Recorded
    <2> QED BY <2>1, <2>2 DEF Preparing
  <1>5. WellFormed(params)
    BY <1>4 DEF Preparing
  <1>6. Ready(params, 0, none)
    <2>1. DOMAIN <<>> = {} /\ Range(<<>>) = {} /\ <<>> \in Seq(Buffers) /\ Len(<<>>) = 0
      BY DEF Range
    <2>2. Shaped(none) /\ none.bufs = <<>> /\ none.alias = alias /\ none.words = words
          /\ none.pool = pool /\ none.refused = FALSE
      BY DEF Shaped, NoneYet
    <2> HIDE DEF none
    <2>3. InUse(none) = Range(handle) \cup Range(alias) \cup UNION {Range(bound[k].bufs) : k \in DOMAIN bound}
      BY <2>1, <2>2 DEF InUse
    <2>4. Range(handle) \subseteq DOMAIN words \cup {NoBuffer} /\ Range(alias) \subseteq DOMAIN words
      BY DEF ChainInv, Recorded, Range
    <2>5. Listed(none)
      BY <2>1, <2>2, <2>3, <2>4 DEF Listed, ChainInv, Recorded
    <2>6. Apart(params, <<>>, alias)
      BY <2>1 DEF Apart, OutputsFresh, InputsNamed, OutputsNamed, ChainInv
    <2>7. SlotsBefore(params, 0 + 1) = 0
      BY <1>5, SlotsCount DEF WellFormed
    <2> QED BY <2>1, <2>2, <2>5, <2>6, <2>7 DEF Ready, Holds
  <1> QED BY <1>1, <1>2, <1>3, <1>4, <1>6

(* Whatever has been acquired when a pass is encoded or given up.          *)
LEMMA PreparedHolds ==
  ASSUME ChainInv, phase = "encoding", NEW i, i = Len(bound) + 1
  PROVE  /\ i \in DOMAIN specs /\ Len(specs) \in Nat
         /\ \A acc \in Prepared(i) : Holds(specs[i].kernel.params, acc)
  <1> DEFINE params == specs[i].kernel.params
  <1>3. i \in DOMAIN specs /\ Len(specs) \in Nat
    BY NextPass
  <1>4. Preparing(i, params) /\ Ready(params, 0, NoneYet)
    BY NextPass
  <1>5. WellFormed(params)
    BY <1>4 DEF Preparing
  <1>7. \A n \in 0..Len(params) : Holds(params, allocate_pass_buffers(i, n))
    <2> HIDE DEF params
    <2>1. \A n \in 0..Len(params) : Ready(params, n, allocate_pass_buffers(i, n))
      BY <1>4, AllocateKeeps
    <2> QED BY <2>1 DEF Ready
  <1>8. Holds(params, AllBuffers(i))
    <2> DEFINE acc == allocate_pass_buffers(i, Len(params))
    <2>1. Holds(params, acc)
      BY <1>5, <1>7, SlotsAscend
    <2>2. AllBuffers(i) = WithScalar(i, acc)
      BY DEF AllBuffers
    <2> HIDE DEF acc
    <2>3. 1 \in Nat /\ 1 <= MaxLength
      BY PowersNat
    <2>4. Holds(params, acquire_shared(acc, Scalar(i), 1))
      BY <2>1, <2>3, SharedKeeps DEF Grown
    <2>5. WithScalar(i, acc) \in {acc, acquire_shared(acc, Scalar(i), 1)}
      BY DEF WithScalar
    <2> HIDE DEF params
    <2> QED BY <2>1, <2>2, <2>4, <2>5
  <1>9. ASSUME NEW acc \in Prepared(i) PROVE Holds(params, acc)
    BY <1>7, <1>8 DEF Prepared
  <1> QED BY <1>3, <1>9

LEMMA GivenUp ==
  ASSUME ChainInv, NEW params, NEW acc, Holds(params, acc)
  PROVE  /\ acc.pool \in [Lists -> Nat]
         /\ \A b \in DOMAIN words : b[2] <= acc.pool[b[1]]
  BY DEF Holds, Listed

LEMMA EncodeKeeps ==
  ASSUME ChainInv, phase = "encoding", NEW i, i = Len(bound) + 1,
         NEW acc \in Prepared(i), Encode(i, acc)
  PROVE  ChainInv'
  <1> DEFINE params == specs[i].kernel.params
             e == [bufs |-> acc.bufs, inline |-> Inline(i, acc)]
  <1>1. Holds(params, acc) /\ i \in DOMAIN specs /\ Len(specs) \in Nat
    BY PreparedHolds
  <1>2. /\ pool' = acc.pool /\ words' = acc.words /\ alias' = acc.alias
        /\ bound' = Append(bound, e) /\ e.bufs = acc.bufs
        /\ barriers' \subseteq barriers \cup {i}
        /\ phase' = IF i = Len(specs) THEN "running" ELSE "encoding"
        /\ UNCHANGED <<handle, specs, single, done, outcome>>
    BY DEF Encode
  <1> HIDE DEF e
  <1>3. /\ bound \in Seq(Range(bound)) /\ specs \in Requests /\ Len(bound) < Len(specs)
        /\ barriers \cup done \subseteq DOMAIN bound
    BY DEF ChainInv, Progress
  <1>4. /\ bound' \in Seq(Range(bound')) /\ Len(bound') = i /\ Len(bound) \in Nat
        /\ DOMAIN bound' = 1..i /\ DOMAIN bound = 1..(i - 1)
        /\ bound'[i].bufs = acc.bufs
        /\ \A k \in DOMAIN bound : bound'[k] = bound[k]
    <2>1. /\ bound' \in Seq(Range(bound')) /\ Len(bound') = Len(bound) + 1 /\ Len(bound) \in Nat
          /\ DOMAIN bound' = 1..(Len(bound) + 1) /\ DOMAIN bound = 1..Len(bound)
          /\ bound'[Len(bound) + 1] = e
          /\ \A k \in DOMAIN bound : bound'[k] = bound[k]
      BY <1>2, <1>3, AppendAny
    <2> QED BY <1>2, <2>1
  <1>5. DOMAIN bound' = DOMAIN bound \cup {i} /\ \A k \in DOMAIN bound : k < i /\ k # i
    BY <1>4
  <1>6. Progress'
    <2>1. phase' = "running" => Len(bound') = Len(specs)
      BY <1>2, <1>4
    <2>2. phase' = "encoding" => Len(bound') < Len(specs)
      BY <1>1, <1>2, <1>3, <1>4
    <2>3. barriers' \cup done' \subseteq DOMAIN bound'
      BY <1>2, <1>3, <1>5
    <2>4. phase' \in {"running", "encoding"} /\ specs' \in Requests
      BY <1>2, <1>3
    <2> QED BY <1>2, <1>4, <2>1, <2>2, <2>3, <2>4 DEF Progress
  <1>7. Recorded'
    <2>1. DOMAIN words \subseteq DOMAIN words'
      BY <1>1, <1>2 DEF Holds
    <2>2. /\ pool' \in [Lists -> Nat]
          /\ \A b \in DOMAIN words' : b \in Buffers /\ b[2] <= pool'[b[1]]
      BY <1>1, <1>2 DEF Holds, Listed
    <2>3. /\ handle' \in [Handles -> Buffers \cup {NoBuffer}]
          /\ \A h \in Handles : handle'[h] = NoBuffer \/ handle'[h] \in DOMAIN words'
      BY <1>2, <2>1 DEF ChainInv, Recorded
    <2>4. InUse(acc) \subseteq DOMAIN words' \cup {NoBuffer} /\ NoBuffer \notin Buffers
      BY <1>1, <1>2, CallAssumption DEF Holds, Listed
    <2>5. Range(alias') \subseteq DOMAIN words'
      <3>1. Range(acc.alias) \subseteq Buffers
        BY <1>1 DEF Holds, Apart, AliasesNamed, Range
      <3>2. Range(acc.alias) \subseteq InUse(acc)
        BY DEF InUse
      <3> QED BY <1>2, <2>4, <3>1, <3>2
    <2>6. Range(acc.bufs) \subseteq DOMAIN words'
      <3>1. Range(acc.bufs) \subseteq Buffers
        BY <1>1 DEF Holds, Listed, Range
      <3>2. Range(acc.bufs) \subseteq InUse(acc)
        BY DEF InUse
      <3> QED BY <2>4, <3>1, <3>2
    <2>7. ASSUME NEW k \in DOMAIN bound' PROVE Range(bound'[k].bufs) \subseteq DOMAIN words'
      <3>1. CASE k = i
        BY <1>4, <2>6, <3>1
      <3>2. CASE k \in DOMAIN bound
        BY <1>4, <2>1, <3>2 DEF ChainInv, Recorded
      <3> QED BY <1>5, <3>1, <3>2
    <2> QED BY <2>2, <2>3, <2>5, <2>7 DEF Recorded
  <1>8. AliasesNamed(alias)'
    <2> SUFFICES ASSUME NEW name \in DOMAIN acc.alias
                 PROVE  /\ acc.alias[name] \in Buffers
                        /\ \A k \in DOMAIN bound' :
                             OutputsNamed(specs[k].kernel.params, bound'[k].bufs, acc.alias[name], name)
      BY <1>2 DEF AliasesNamed, OutputsNamed
    <2>1. /\ acc.alias[name] \in Buffers
          /\ \A k \in DOMAIN bound :
               OutputsNamed(specs[k].kernel.params, bound[k].bufs, acc.alias[name], name)
          /\ OutputsNamed(params, acc.bufs, acc.alias[name], name)
      BY <1>1 DEF Holds, Apart, AliasesNamed
    <2> QED BY <1>4, <1>5, <2>1
  <1>9. WritesApart'
    <2> DEFINE Slot(k, j) == DataIndex(specs[k].kernel.params, j)
               Reads(k, s, name) == \E p \in DOMAIN specs[k].kernel.params :
                  /\ ~specs[k].kernel.params[p].is_output
                  /\ specs[k].kernel.params[p].name = name
                  /\ Slot(k, p) = s
               Good(f, m, j) == LET b == f[m].bufs[Slot(m, j)] IN
                  Slot(m, j) \in DOMAIN f[m].bufs =>
                    /\ b \notin Range(handle)
                    /\ \A k \in DOMAIN f : \A s \in DOMAIN f[k].bufs :
                         f[k].bufs[s] = b =>
                           \/ <<k, s>> = <<m, Slot(m, j)>>
                           \/ k > m /\ Reads(k, s, specs[m].kernel.params[j].name)
    <2>1. \A m \in DOMAIN bound : \A j \in Outputs(specs[m].kernel) : Good(bound, m, j)
      BY DEF ChainInv, WritesApart
    <2>2. OutputsFresh(params, acc.bufs) /\ InputsNamed(params, acc.bufs)
      BY <1>1 DEF Holds, Apart
    <2>3. ASSUME NEW m \in DOMAIN bound', NEW j \in Outputs(specs[m].kernel)
          PROVE  Good(bound', m, j)
      <3> DEFINE d == Slot(m, j)
                 name == specs[m].kernel.params[j].name
      <3>0. j \in DOMAIN specs[m].kernel.params /\ specs[m].kernel.params[j].is_output
        BY DEF Outputs
      <3>1. SUFFICES ASSUME d \in DOMAIN bound'[m].bufs
            PROVE  /\ bound'[m].bufs[d] \notin Range(handle)
                   /\ \A k \in DOMAIN bound' : \A s \in DOMAIN bound'[k].bufs :
                        bound'[k].bufs[s] = bound'[m].bufs[d] =>
                          \/ <<k, s>> = <<m, d>>
                          \/ k > m /\ Reads(k, s, name)
        OBVIOUS
      <3>2. CASE m = i
        <4>1. /\ acc.bufs[d] \notin Range(handle)
              /\ \A k \in DOMAIN bound : acc.bufs[d] \notin Range(bound[k].bufs)
              /\ \A s \in DOMAIN acc.bufs : acc.bufs[s] = acc.bufs[d] => s = d
          BY <1>4, <2>2, <3>0, <3>1, <3>2 DEF OutputsFresh
        <4> HIDE DEF d, Reads
        <4>2. ASSUME NEW k \in DOMAIN bound, NEW s \in DOMAIN bound'[k].bufs
              PROVE  bound'[k].bufs[s] # acc.bufs[d]
          BY <1>4, <4>1 DEF Range
        <4> QED BY <1>4, <1>5, <3>2, <4>1, <4>2
      <3>3. CASE m \in DOMAIN bound
        <4>1. Good(bound, m, j) /\ bound'[m] = bound[m] /\ d \in DOMAIN bound[m].bufs
          BY <1>4, <2>1, <3>1, <3>3
        <4>2. bound'[m].bufs[d] \notin Range(handle)
          BY <4>1
        <4>3. ASSUME NEW k \in DOMAIN bound, NEW s \in DOMAIN bound'[k].bufs,
                     bound'[k].bufs[s] = bound'[m].bufs[d]
              PROVE  \/ <<k, s>> = <<m, d>>
                     \/ k > m /\ Reads(k, s, name)
          <5>1. bound'[k] = bound[k]
            BY <1>4
          <5> HIDE DEF Reads
          <5> QED BY <4>1, <4>3, <5>1
        <4>4. ASSUME NEW s \in DOMAIN bound'[i].bufs, bound'[i].bufs[s] = bound'[m].bufs[d]
              PROVE  i > m /\ Reads(i, s, name)
          <5>1. s \in DOMAIN acc.bufs /\ acc.bufs[s] = bound[m].bufs[d]
            BY <1>4, <4>1, <4>4
          <5>2. InputAt(params, name, s)
            BY <2>2, <3>0, <3>3, <4>1, <5>1 DEF InputsNamed
          <5>3. Reads(i, s, name)
            BY <5>2 DEF InputAt
          <5> QED BY <1>5, <3>3, <5>3
        <4> HIDE DEF Reads, d, name
        <4> QED BY <1>5, <4>2, <4>3, <4>4
      <3> QED BY <1>5, <3>2, <3>3
    <2> DEFINE ApartIn(S, H, f) ==
                 \A m \in DOMAIN f : \A j \in Outputs(S[m].kernel) :
                    LET slot == DataIndex(S[m].kernel.params, j)
                        b == f[m].bufs[slot]
                        Named(k, s) == \E p \in DOMAIN S[k].kernel.params :
                          /\ ~S[k].kernel.params[p].is_output
                          /\ S[k].kernel.params[p].name = S[m].kernel.params[j].name
                          /\ DataIndex(S[k].kernel.params, p) = s
                    IN  slot \in DOMAIN f[m].bufs =>
                        /\ b \notin Range(H)
                        /\ \A k \in DOMAIN f : \A s \in DOMAIN f[k].bufs :
                             f[k].bufs[s] = b => <<k, s>> = <<m, slot>> \/ (k > m /\ Named(k, s))
    <2>4. ApartIn(specs, handle, bound')
      BY <2>3, Zenon
    <2>5. ApartIn(specs', handle', bound')
      <3>1. specs' = specs /\ handle' = handle
        BY <1>2
      <3> HIDE DEF ApartIn
      <3> QED BY <2>4, <3>1
    <2> QED BY <2>5, Zenon DEF WritesApart
  <1> QED BY <1>6, <1>7, <1>8, <1>9 DEF ChainInv

LEMMA EncodePassKeeps == ChainInv /\ EncodePass => ChainInv'
  <1> SUFFICES ASSUME ChainInv, EncodePass PROVE ChainInv'
    OBVIOUS
  <1> DEFINE i == Len(bound) + 1
             acc == AllBuffers(i)
  <1>1. phase = "encoding" /\ EncodeOrRefuse(i, acc) /\ acc \in Prepared(i)
    BY DEF EncodePass, Prepared
  <1> HIDE DEF i, acc
  <1>2. i = Len(bound) + 1
    BY DEF i
  <1>3. CASE Return(Failed("Refused")) /\ pool' = acc.pool
    <2>1. Holds(specs[i].kernel.params, acc)
      BY <1>1, <1>2, PreparedHolds
    <2> QED BY <1>3, <2>1, GivenUp, ReturnKeeps
  <1>4. CASE Encode(i, acc)
    BY <1>1, <1>2, <1>4, EncodeKeeps
  <1> QED BY <1>1, <1>3, <1>4 DEF EncodeOrRefuse

LEMMA DeviceErrorKeeps == ChainInv /\ DeviceError => ChainInv'
  <1> SUFFICES ASSUME ChainInv, DeviceError PROVE ChainInv'
    OBVIOUS
  <1>1. pool' \in [Lists -> Nat] /\ \A b \in DOMAIN words : b[2] <= pool'[b[1]]
    <2>1. CASE phase = "planning" /\ UNCHANGED pool
      BY <2>1 DEF ChainInv, Recorded
    <2>2. CASE phase = "encoding" /\ \E acc \in Prepared(Len(bound) + 1) : pool' = acc.pool
      <3>1. PICK acc \in Prepared(Len(bound) + 1) : pool' = acc.pool
        BY <2>2
      <3>2. Holds(specs[Len(bound) + 1].kernel.params, acc)
        BY <2>2, PreparedHolds
      <3> QED BY <3>1, <3>2, GivenUp
    <2> QED BY <2>1, <2>2 DEF DeviceError
  <1> QED BY <1>1, ReturnKeeps DEF DeviceError

LEMMA ReadKeeps == ChainInv /\ ReadResults => ChainInv'
  <1> SUFFICES ASSUME ChainInv, ReadResults PROVE ChainInv'
    OBVIOUS
  <1>1. pool' \in [Lists -> Nat] /\ \A b \in DOMAIN words : b[2] <= pool'[b[1]]
    BY DEF ReadResults, ChainInv, Recorded
  <1> QED BY <1>1, ReturnKeeps DEF ReadResults

LEMMA StepChain == ChainInv /\ [Next]_vars => ChainInv'
  <1> SUFFICES ASSUME ChainInv, [Next]_vars PROVE ChainInv'
    OBVIOUS
  <1>1. CASE \E h \in Handles : DropResident(h) \/ \E n \in Uploads : Upload(h, n)
    BY <1>1, UploadKeeps, DropKeeps
  <1>2. CASE \E r \in Requests, alone \in BOOLEAN : Call(r, alone)
    BY <1>2, CallKeeps
  <1>3. CASE Plan \/ EncodePass \/ DeviceError \/ ReadResults \/ Accept
    BY <1>3, PlanKeeps, EncodePassKeeps, DeviceErrorKeeps, ReadKeeps, AcceptKeeps
  <1>4. CASE \E i \in DOMAIN bound : Execute(i)
    BY <1>4, ExecuteKeeps
  <1>5. CASE UNCHANGED vars
    <2>1. UNCHANGED <<pool, words, handle, specs, phase, bound, alias, barriers, done>>
      BY <1>5 DEF vars
    <2>2. Recorded' /\ Progress'
      BY <2>1 DEF ChainInv, Recorded, Progress
    <2>3. WritesApart' /\ AliasesNamed(alias)'
      BY <2>1, SameBindings DEF ChainInv
    <2> QED BY <2>2, <2>3 DEF ChainInv
  <1> QED BY <1>1, <1>2, <1>3, <1>4, <1>5 DEF Next

LEMMA ChainAlways == Spec => []ChainInv
  <1> QED BY InitChain, StepChain, PTL DEF Spec

(* Every buffer a client, a pass or an alias refers to is one the pool     *)
(* knows, of the list it is named for, and a call's bindings agree with    *)
(* how far it is.                                                          *)
THEOREM ChainTypeCorrect == Spec => []TypeOK
  <1> QED BY ChainAlways, ChainTypes, PTL

(* A pass writes into nobody's buffer but its own: into no resident one,   *)
(* and into none a pass is bound to that did not ask for its output by     *)
(* name.                                                                   *)
THEOREM PassesWriteApart == Spec => []WritesApart
  <1>1. ChainInv => WritesApart
    BY DEF ChainInv
  <1> QED BY <1>1, ChainAlways, PTL

---------------------------------------------------------------------------
(* What the passes promise when run one by one.                            *)

(* A set of indices has a largest.                                         *)
LEMMA MaxIn ==
  ASSUME NEW n \in Nat, NEW S \in SUBSET (1..n), S # {}
  PROVE  Max(S) \in S /\ \A q \in S : q <= Max(S)
  <1> DEFINE T == {m \in 0..n : n - m \in S}
  <1>1. T \in SUBSET Nat /\ T # {}
    <2>1. PICK q \in S : TRUE
      OBVIOUS
    <2>2. n - q \in T
      <3>1. q \in 1..n /\ n - q \in 0..n /\ n - (n - q) = q
        OBVIOUS
      <3> QED BY <3>1
    <2>3. T \in SUBSET Nat
      OBVIOUS
    <2> HIDE DEF T
    <2> QED BY <2>2, <2>3
  <1>2. PICK m \in T : \A q \in T : m <= q
    <2> HIDE DEF T
    <2> QED BY <1>1, MinIn
  <1>3. n - m \in S /\ \A q \in S : q <= n - m
    <2> SUFFICES ASSUME NEW q \in S PROVE q <= n - m
      OBVIOUS
    <2>1. q \in 1..n /\ n - q \in 0..n /\ n - (n - q) = q
      OBVIOUS
    <2>2. m <= n - q
      BY <1>2, <2>1
    <2> QED BY <1>2, <2>1, <2>2
  <1> QED BY <1>3 DEF Max

(* What a pass reads depends on the passes before it alone.                *)
LEMMA ArgumentsAgree ==
  ASSUME NEW r, NEW i \in Nat, NEW c1, NEW c2, NEW res, \A k \in 1..(i - 1) : c1[k] = c2[k]
  PROVE  Sequences!Arguments(r, i, c1, res) = Sequences!Arguments(r, i, c2, res)
  <1>1. ASSUME NEW param
        PROVE  Sequences!Source(r, i, c1, res, param) = Sequences!Source(r, i, c2, res, param)
    <2> DEFINE S == Sequences!Producers(r, i, param.name)
    <2>1. S # {} => c1[Sequences!Max(S)] = c2[Sequences!Max(S)]
      <3> SUFFICES ASSUME S # {} PROVE c1[Sequences!Max(S)] = c2[Sequences!Max(S)]
        OBVIOUS
      <3>1. S \in SUBSET (1..(i - 1))
        BY DEF Sequences!Producers
      <3>2. i - 1 \in Nat
        BY <3>1
      <3> HIDE DEF S
      <3>3. Max(S) \in S
        BY <3>1, <3>2, MaxIn
      <3> QED BY <3>1, <3>3, SameKernels
    <2> QED BY <2>1, Zenon DEF Sequences!Source
  <1> DEFINE A(c) == [j \in DOMAIN r[i].kernel.params |->
                        IF r[i].kernel.params[j].reads
                        THEN Sequences!Read(Sequences!Source(r, i, c, res, r[i].kernel.params[j]),
                               Sequences!Extent(r[i].kernel.params[j],
                                  Sequences!ShapeOf(r[i].kernel.params[j], r[i].shape).value))
                        ELSE "ignored"]
             X == IF r[i].kernel.constexpr
                  THEN <<IF r[i].scalar THEN <<"scalar", i>> ELSE Unspecified>> ELSE <<>>
  <1>2. A(c1) = A(c2)
    BY <1>1
  <1>3. \A c : Sequences!Arguments(r, i, c, res) = A(c) \o X
    BY DEF Sequences!Arguments
  <1> HIDE DEF A, X
  <1> QED BY <1>2, <1>3

(* The passes one by one.                                                  *)
LEMMA SequenceUnfolds ==
  ASSUME NEW r, r \in Seq(Range(r)), NEW res, NEW C, C = Sequences!Sequence(r, res)
  PROVE  \A i \in 1..Len(r) :
           C[i] = Sequences!PassOutputs(r, i, Sequences!Arguments(r, i, C, res))
  <1> DEFINE N == Len(r)
             Pass(c, n) == Sequences!PassOutputs(r, n, Sequences!Arguments(r, n, c, res))
             Turn(c, n) == Append(c, Pass(c, n))
             Def(f) == [n \in 0..N |-> IF n = 0 THEN <<>> ELSE Turn(f[n - 1], n)]
             F == CHOOSE f : f = Def(f)
             Solves(g, k) == /\ DOMAIN g = 0..k /\ g = [n \in 0..k |-> g[n]]
                             /\ g[0] = <<>>
                             /\ \A n \in 1..k : g[n] = Turn(g[n - 1], n)
             P == {k \in Nat : \E g : Solves(g, k)}
  <1>0. N \in Nat
    OBVIOUS
  <1>1. C = F[N]
    BY DEF Sequences!Sequence
  <1> HIDE DEF Turn
  <1>4. 0 \in P
    <2> DEFINE g == [n \in 0..0 |-> <<>>]
    <2>1. Solves(g, 0)
      OBVIOUS
    <2> HIDE DEF g, Solves
    <2> QED BY <2>1
  <1>5. ASSUME NEW k \in Nat, k \in P PROVE k + 1 \in P
    <2>1. PICK g : Solves(g, k)
      BY <1>5
    <2> DEFINE h == [n \in 0..(k + 1) |-> IF n = k + 1 THEN Turn(g[k], k + 1) ELSE g[n]]
    <2>2. Solves(h, k + 1)
      <3>1. h[0] = <<>>
        BY <2>1
      <3>2. ASSUME NEW n \in 1..(k + 1) PROVE h[n] = Turn(h[n - 1], n)
        <4>1. CASE n = k + 1
          <5>1. h[n] = Turn(g[k], k + 1) /\ h[n - 1] = g[k]
            BY <4>1
          <5> QED BY <4>1, <5>1, Zenon
        <4>2. CASE n # k + 1
          <5>1. n \in 1..k /\ n - 1 \in 0..k
            BY <4>2
          <5>2. h[n] = g[n] /\ h[n - 1] = g[n - 1]
            BY <4>2, <5>1
          <5>3. g[n] = Turn(g[n - 1], n)
            BY <2>1, <5>1
          <5> QED BY <5>2, <5>3, Zenon
        <4> QED BY <4>1, <4>2
      <3>3. DOMAIN h = 0..(k + 1) /\ h = [n \in 0..(k + 1) |-> h[n]]
        OBVIOUS
      <3> HIDE DEF h
      <3> QED BY <3>1, <3>2, <3>3, Zenon
    <2> HIDE DEF h, Solves
    <2>3. \E f : Solves(f, k + 1)
      BY <2>2
    <2> QED BY <2>3
  <1>6. PICK g : Solves(g, N)
    <2>1. Nat \subseteq P
      <3> HIDE DEF P
      <3> QED BY <1>4, <1>5, NatSetInduction
    <2> QED BY <1>0, <2>1
  <1>7. g = Def(g)
    <2>1. ASSUME NEW n \in 0..N PROVE g[n] = Def(g)[n]
      <3>1. CASE n = 0
        <4>1. g[n] = <<>> /\ Def(g)[n] = <<>>
          BY <1>6, <3>1
        <4> QED BY <4>1
      <3>2. CASE n # 0
        <4>1. n \in 1..N
          BY <1>0, <3>2
        <4>2. Def(g)[n] = Turn(g[n - 1], n)
          BY <3>2
        <4>3. g[n] = Turn(g[n - 1], n)
          BY <1>6, <4>1
        <4> HIDE DEF Def
        <4> QED BY <4>2, <4>3
      <3> QED BY <3>1, <3>2
    <2>2. Def(g) = [n \in 0..N |-> Def(g)[n]]
      OBVIOUS
    <2> HIDE DEF Def
    <2> QED BY <1>6, <2>1, <2>2
  <1>8. F = Def(F)
    <2> HIDE DEF Def
    <2> QED BY <1>7
  <1> HIDE DEF F
  <1>9. \A n \in 0..N : F[n] = IF n = 0 THEN <<>> ELSE Turn(F[n - 1], n)
    BY <1>8
  <1>10. F[0] = <<>> /\ \A n \in 1..N : F[n] = Turn(F[n - 1], n)
    <2>1. ASSUME NEW n \in 1..N PROVE F[n] = Turn(F[n - 1], n)
      <3>1. n \in 0..N /\ n # 0
        BY <1>0
      <3> QED BY <1>9, <3>1
    <2>2. F[0] = <<>>
      BY <1>0, <1>9
    <2> QED BY <2>1, <2>2
  <1> DEFINE Grows(n) == /\ F[n] \in Seq(Range(F[n])) /\ Len(F[n]) = n
                         /\ \A m \in 0..n : \A k \in 1..m : F[n][k] = F[m][k]
             Q == {n \in Nat : n \in 0..N => Grows(n)}
  <1> HIDE DEF Pass
  <1>11. 0 \in Q
    <2>1. <<>> \in Seq(Range(<<>>)) /\ Len(<<>>) = 0
      OBVIOUS
    <2>2. \A m \in 0..0 : 1..m = {}
      OBVIOUS
    <2> QED BY <1>10, <2>1, <2>2
  <1>12. ASSUME NEW n \in Nat, n \in Q PROVE n + 1 \in Q
    <2> SUFFICES ASSUME n + 1 \in 0..N PROVE Grows(n + 1)
      OBVIOUS
    <2>1. n \in 0..N /\ n + 1 \in 1..N /\ (n + 1) - 1 = n
      BY <1>0
    <2>2. Grows(n)
      BY <1>12, <2>1
    <2>3. F[n + 1] = Append(F[n], Pass(F[n], n + 1))
      BY <1>10, <2>1 DEF Turn
    <2>4. /\ F[n + 1] \in Seq(Range(F[n + 1])) /\ Len(F[n + 1]) = n + 1
          /\ \A k \in 1..n : F[n + 1][k] = F[n][k]
      BY <2>2, <2>3, AppendAny
    <2>5. ASSUME NEW m \in 0..(n + 1), NEW k \in 1..m PROVE F[n + 1][k] = F[m][k]
      <3>1. CASE m = n + 1
        BY <3>1
      <3>2. CASE m # n + 1
        <4>1. m \in 0..n /\ k \in 1..n
          BY <3>2
        <4> QED BY <2>2, <2>4, <4>1
      <3> QED BY <3>1, <3>2
    <2> QED BY <2>4, <2>5
  <1>13. \A n \in 0..N : Grows(n)
    <2>1. Nat \subseteq Q
      <3> HIDE DEF Q
      <3> QED BY <1>11, <1>12, NatSetInduction
    <2> QED BY <2>1
  <1>14. ASSUME NEW i \in 1..N PROVE C[i] = Pass(C, i)
    <2>1. i \in 0..N /\ i - 1 \in 0..N /\ N \in 0..N /\ i \in Nat /\ i \in 1..i
      BY <1>0
    <2>2. C[i] = F[i][i] /\ \A k \in 1..(i - 1) : F[i - 1][k] = C[k]
      BY <1>1, <1>13, <2>1
    <2>3. /\ F[i] = Append(F[i - 1], Pass(F[i - 1], i))
          /\ F[i - 1] \in Seq(Range(F[i - 1])) /\ Len(F[i - 1]) + 1 = i
      <3>1. F[i] = Append(F[i - 1], Pass(F[i - 1], i))
        BY <1>10 DEF Turn
      <3>2. Grows(i - 1)
        BY <1>13, <2>1
      <3> QED BY <2>1, <3>1, <3>2
    <2>4. F[i][i] = Pass(F[i - 1], i)
      BY <2>3, AppendAny
    <2>5. Sequences!Arguments(r, i, F[i - 1], res) = Sequences!Arguments(r, i, C, res)
      BY <2>1, <2>2, ArgumentsAgree
    <2>6. Pass(F[i - 1], i) = Pass(C, i)
      BY <2>5 DEF Pass
    <2> QED BY <2>2, <2>4, <2>6
  <1> QED BY <1>14 DEF Pass

(* A value keeps what was promised of it; words hold a value that does.    *)
Keeping(promised, value) == promised \in {value, Unspecified}
Fits(promised, held) == promised.len = held.len /\ Keeping(promised.value, held.value)

(* Reading as far as was promised.                                         *)
LEMMA ReadKeeping ==
  ASSUME NEW promised, NEW held, Fits(promised, held), NEW n
  PROVE  Keeping(Read(promised, n), Read(held, n))
  BY DEF Fits, Keeping, Read

(* A pass given what was promised computes what was promised.              *)
LEMMA ComputedKeeping ==
  ASSUME NEW m, NEW p, NEW h, p = [k \in 1..m |-> p[k]], h = [k \in 1..m |-> h[k]],
         DOMAIN p = 1..m, DOMAIN h = 1..m, \A k \in 1..m : Keeping(p[k], h[k]), NEW kernel, NEW j
  PROVE  Keeping(Computed(kernel, j, p), Computed(kernel, j, h))
  <1>1. CASE \E k \in 1..m : p[k] = Unspecified
    BY <1>1 DEF Computed, Keeping
  <1>2. CASE \A k \in 1..m : p[k] # Unspecified
    <2>1. \A k \in 1..m : p[k] = h[k]
      BY <1>2 DEF Keeping
    <2>2. p = h
      BY <2>1
    <2> QED BY <2>2 DEF Keeping
  <1> QED BY <1>1, <1>2

(* Arguments with a scalar behind them, or none.                           *)
LEMMA Concatenated ==
  ASSUME NEW n \in Nat, NEW f, DOMAIN f = 1..n, f = [k \in 1..n |-> f[k]], NEW x
  PROVE  /\ DOMAIN (f \o <<x>>) = 1..(n + 1) /\ f \o <<x>> = [k \in 1..(n + 1) |-> (f \o <<x>>)[k]]
         /\ (f \o <<x>>)[n + 1] = x /\ \A k \in 1..n : (f \o <<x>>)[k] = f[k]
         /\ f \o <<>> = f
  <1> DEFINE S == {f[k] : k \in 1..n} \cup {x}
  <1>1. f \in Seq(S) /\ Len(f) = n /\ <<x>> \in Seq(S) /\ Len(<<x>>) = 1
    <2>1. f \in [1..n -> S]
      OBVIOUS
    <2> HIDE DEF S
    <2>2. f \in Seq(S)
      BY <2>1
    <2>3. x \in S
      BY DEF S
    <2> QED BY <2>1, <2>2, <2>3
  <1> HIDE DEF S
  <1>2. f \o <<x>> \in Seq(S) /\ Len(f \o <<x>>) = n + 1
    BY <1>1
  <1>3. /\ DOMAIN (f \o <<x>>) = 1..(n + 1) /\ f \o <<x>> = [k \in 1..(n + 1) |-> (f \o <<x>>)[k]]
    BY <1>2
  <1>4. (f \o <<x>>)[n + 1] = x /\ \A k \in 1..n : (f \o <<x>>)[k] = f[k]
    BY <1>1
  <1>5. f \o <<>> = f
    BY <1>1
  <1> QED BY <1>3, <1>4, <1>5

(* What a pass leaves under the name of an output.                         *)
LEMMA PassComputes ==
  ASSUME NEW r, NEW i, WellFormed(r[i].kernel.params), NEW args, NEW out,
         out = Sequences!PassOutputs(r, i, args)
  PROVE  /\ DOMAIN out = OutputNames(r[i].kernel)
         /\ \A j \in Outputs(r[i].kernel) :
              out[r[i].kernel.params[j].name] =
                Words(Computed(r[i].kernel, j, args), r[i].kernel.params[j].len)
  <1> DEFINE kernel == r[i].kernel
             params == kernel.params
             Named(n) == CHOOSE j \in Outputs(kernel) : params[j].name = n
             Out(j) == Words(Computed(kernel, j, args), params[j].len)
  <1>1. out = [n \in OutputNames(kernel) |-> Out(Named(n))]
    <2> DEFINE There(n) == CHOOSE j \in Sequences!Outputs(kernel) : params[j].name = n
    <2>1. out = [n \in Sequences!OutputNames(kernel) |->
                   Sequences!Words(Sequences!Computed(kernel, There(n), args), params[There(n)].len)]
      BY DEF Sequences!PassOutputs
    <2>2. /\ Sequences!Outputs(kernel) = Outputs(kernel)
          /\ Sequences!OutputNames(kernel) = OutputNames(kernel)
      BY SameKernels
    <2>3. \A n : There(n) = Named(n)
      BY <2>2
    <2>4. \A v, n : Sequences!Words(v, n) = Words(v, n)
      BY SameKernels
    <2>5. \A j : Sequences!Computed(kernel, j, args) = Computed(kernel, j, args)
      BY SameKernels
    <2> HIDE DEF There, Named
    <2> QED BY <2>1, <2>2, <2>3, <2>4, <2>5
  <1>2. ASSUME NEW j \in Outputs(kernel) PROVE Named(params[j].name) = j
    BY DEF WellFormed, Outputs
  <1>3. \A j \in Outputs(kernel) : params[j].name \in OutputNames(kernel)
    BY DEF OutputNames
  <1> HIDE DEF Out, Named, params
  <1>4. \A j \in Outputs(kernel) : out[params[j].name] = Out(j)
    BY <1>1, <1>2, <1>3
  <1> QED BY <1>1, <1>4 DEF Out, params

---------------------------------------------------------------------------
(* What is bound to a pass, and what is in it.                             *)

(* Pass k writes the name at its parameter l, and none does after it up to *)
(* pass i.                                                                 *)
Latest(i, name, k, l) ==
  /\ k \in 1..(i - 1) /\ l \in Outputs(specs[k].kernel)
  /\ specs[k].kernel.params[l].name = name
  /\ \A m \in (k + 1)..(i - 1) : name \notin OutputNames(specs[m].kernel)

Unproduced(i, name) == \A k \in 1..(i - 1) : name \notin OutputNames(specs[k].kernel)

OutputBuffer(k, l) == bound[k].bufs[DataIndex(specs[k].kernel.params, l)]

(* The buffer of a parameter of pass i is the one its name stands for.     *)
Placed(i, param, b) ==
  /\ param.is_output /\ param.name \notin LaterInputs(i) => ~IsPrivate(b)
  /\ ~param.is_output /\ param.name \in DOMAIN specs[i].resident =>
       b = handle[specs[i].resident[param.name]]
  /\ ~param.is_output /\ param.name \notin DOMAIN specs[i].resident =>
       \A k, l : Latest(i, param.name, k, l) => b = OutputBuffer(k, l)

(* What the caller provides is in it.                                      *)
Provided(i, param, b, w) ==
  ~param.is_output /\ param.name \notin DOMAIN specs[i].resident /\ Unproduced(i, param.name) =>
    w[b] = Sequences!HostWords(specs[i], i, param.name)

(* What an output holds before the pass.                                   *)
Blank(i, param, b, w) ==
  param.is_output =>
    w[b] = IF param.name \in LaterInputs(i) THEN Nothing
           ELSE Sequences!HostWords(specs[i], i, param.name)

(* A parameter has all that is bound for it.                               *)
Served(i, params, j, acc) ==
  LET d == DataIndex(params, j)
  IN  /\ d \in DOMAIN acc.bufs
      /\ ~MissingMetadata(params[j], specs[i].shape)
      /\ Placed(i, params[j], acc.bufs[d])
      /\ Provided(i, params[j], acc.bufs[d], acc.words)
      /\ params[j].strided => Described(acc, d, params[j], specs[i].shape)

(* A name in the alias pool stands for the latest output of that name.     *)
Following(i, params, n, acc) ==
  /\ \A name \in DOMAIN acc.alias :
       Unproduced(i, name) => \E q \in 1..n : params[q].is_output /\ params[q].name = name
  /\ \A name, k, l :
       /\ Latest(i, name, k, l) /\ name \in LaterInputs(i - 1)
       /\ \A q \in 1..n : params[q].is_output => params[q].name # name
       => name \in DOMAIN acc.alias /\ acc.alias[name] = OutputBuffer(k, l)
  /\ \A q \in 1..n :
       Published(i, params[q]) =>
         /\ DataIndex(params, q) \in DOMAIN acc.bufs /\ params[q].name \in DOMAIN acc.alias
         /\ acc.alias[params[q].name] = acc.bufs[DataIndex(params, q)]

Filled(i, params, n, acc) ==
  /\ acc.refused => \E j \in DOMAIN params : MissingMetadata(params[j], specs[i].shape)
  /\ ~acc.refused =>
       /\ Following(i, params, n, acc)
       /\ \A j \in 1..n : /\ Served(i, params, j, acc)
                          /\ Blank(i, params[j], acc.bufs[DataIndex(params, j)], acc.words)

(* What a pass is bound to is referred to.                                 *)
LEMMA BufsReferred ==
  ASSUME NEW params, NEW acc, Holds(params, acc)
  PROVE  \A s \in DOMAIN acc.bufs : acc.bufs[s] \in Referred(acc)
  <1> SUFFICES ASSUME NEW s \in DOMAIN acc.bufs PROVE acc.bufs[s] \in Referred(acc)
    OBVIOUS
  <1>1. acc.bufs[s] \in Buffers /\ acc.bufs[s] \in Range(acc.bufs) /\ acc.bufs[s] \in InUse(acc)
    BY DEF Holds, Listed, InUse, Range
  <1>2. acc.bufs[s] # NoBuffer
    BY <1>1, CallAssumption
  <1> QED BY <1>1, <1>2 DEF Holds, Listed, Referred

(* What has been bound stays served while more is.                         *)
LEMMA ServedOn ==
  ASSUME NEW i, NEW params, NEW acc, Holds(params, acc), NEW new, Extends(acc, new),
         NEW j, Served(i, params, j, acc)
  PROVE  /\ Served(i, params, j, new)
         /\ LET d == DataIndex(params, j)
            IN  Blank(i, params[j], acc.bufs[d], acc.words) => Blank(i, params[j], new.bufs[d], new.words)
  <1> DEFINE d == DataIndex(params, j)
  <1>1. d \in DOMAIN acc.bufs /\ (params[j].strided => {d + 1, d + 2} \subseteq DOMAIN acc.bufs)
    BY DEF Served, Described
  <1>2. \A s \in DOMAIN acc.bufs : /\ s \in DOMAIN new.bufs /\ new.bufs[s] = acc.bufs[s]
                                   /\ new.words[acc.bufs[s]] = acc.words[acc.bufs[s]]
    BY BufsReferred DEF Extends
  <1> HIDE DEF d
  <1>3. Provided(i, params[j], acc.bufs[d], acc.words) => Provided(i, params[j], new.bufs[d], new.words)
    BY <1>1, <1>2 DEF Provided
  <1>4. Blank(i, params[j], acc.bufs[d], acc.words) => Blank(i, params[j], new.bufs[d], new.words)
    BY <1>1, <1>2 DEF Blank
  <1>5. params[j].strided /\ Described(acc, d, params[j], specs[i].shape)
          => Described(new, d, params[j], specs[i].shape)
    BY <1>1, <1>2 DEF Described
  <1> QED BY <1>1, <1>2, <1>3, <1>4, <1>5 DEF Served, d

(* And the alias pool stays as up to date as it was.                       *)
LEMMA FollowingOn ==
  ASSUME NEW i, NEW params, NEW n, NEW acc, Following(i, params, n, acc),
         NEW new, Extends(acc, new), new.alias = acc.alias
  PROVE  Following(i, params, n, new)
  <1> DEFINE al == acc.alias
  <1>1. /\ \A name \in DOMAIN al :
             Unproduced(i, name) => \E q \in 1..n : params[q].is_output /\ params[q].name = name
        /\ \A name, k, l :
             /\ Latest(i, name, k, l) /\ name \in LaterInputs(i - 1)
             /\ \A q \in 1..n : params[q].is_output => params[q].name # name
             => name \in DOMAIN al /\ al[name] = OutputBuffer(k, l)
        /\ \A q \in 1..n :
             Published(i, params[q]) =>
               /\ DataIndex(params, q) \in DOMAIN acc.bufs /\ params[q].name \in DOMAIN al
               /\ al[params[q].name] = acc.bufs[DataIndex(params, q)]
    BY Zenon DEF Following
  <1>2. \A s \in DOMAIN acc.bufs : s \in DOMAIN new.bufs /\ new.bufs[s] = acc.bufs[s]
    BY DEF Extends
  <1>3. new.alias = al
    OBVIOUS
  <1> HIDE DEF al
  <1>4. \A q \in 1..n :
          Published(i, params[q]) =>
            /\ DataIndex(params, q) \in DOMAIN new.bufs /\ params[q].name \in DOMAIN al
            /\ al[params[q].name] = new.bufs[DataIndex(params, q)]
    BY <1>1, <1>2
  <1> QED BY <1>1, <1>3, <1>4 DEF Following

(* A parameter's data is bound to the buffer its name stands for.          *)
LEMMA DataServes ==
  ASSUME NEW i, NEW params, Preparing(i, params), NEW acc, Holds(params, acc),
         NEW p \in DOMAIN params, Following(i, params, p - 1, acc),
         \A n \in DOMAIN specs[i].resident : handle[specs[i].resident[n]] # NoBuffer,
         ~params[p].is_output => params[p].name \in LaterInputs(i - 1),
         NEW new, DataBound(i, acc, params[p], new), DataIndex(params, p) \in DOMAIN new.bufs,
         Last(new.bufs) = new.bufs[DataIndex(params, p)]
  PROVE  LET b == new.bufs[DataIndex(params, p)]
         IN  /\ Placed(i, params[p], b) /\ Provided(i, params[p], b, new.words)
             /\ Blank(i, params[p], b, new.words)
             /\ Following(i, params, p, new)
  <1> DEFINE param == params[p]
             name == param.name
             pre == Resolved(i, acc, param)
             b == Last(new.bufs)
  <1>0. /\ WellFormed(params) /\ p \in Nat /\ 1..p = 1..(p - 1) \cup {p} /\ p \in DOMAIN params
        /\ \A q \in 1..p : q \in DOMAIN params /\ (q # p => params[q].name # name)
    <2>1. WellFormed(params) /\ DOMAIN params = 1..Len(params) /\ Len(params) \in Nat
      BY SlotsAscend DEF Preparing
    <2>2. \A q \in DOMAIN params : q # p => params[q].name # name
      BY <2>1 DEF WellFormed
    <2> QED BY <2>1, <2>2
  <1>1. /\ pre # NoBuffer => b = pre /\ new.alias = acc.alias
        /\ pre = NoBuffer /\ Published(i, param) =>
             new.words[b] = Nothing /\ new.alias = Put(acc.alias, name, b)
        /\ pre = NoBuffer /\ ~Published(i, param) =>
             /\ new.words[b] = Sequences!HostWords(specs[i], i, name)
             /\ ~IsPrivate(b) /\ new.alias = acc.alias
        /\ Extends(acc, new)
    BY DEF DataBound
  <1>2. CASE param.is_output
    <2>1. pre = NoBuffer
      BY <1>2 DEF Resolved
    <2>2. Placed(i, param, b) /\ Provided(i, param, b, new.words) /\ Blank(i, param, b, new.words)
      BY <1>1, <1>2, <2>1 DEF Placed, Provided, Blank, Published
    <2>3. /\ DOMAIN acc.alias \subseteq DOMAIN new.alias /\ DOMAIN new.alias \subseteq DOMAIN acc.alias \cup {name}
          /\ \A n \in DOMAIN acc.alias : n # name => new.alias[n] = acc.alias[n]
          /\ Published(i, param) => name \in DOMAIN new.alias /\ new.alias[name] = b
      BY <1>1, <2>1 DEF Put
    <2>4. \A n \in DOMAIN new.alias :
            Unproduced(i, n) => \E q \in 1..p : params[q].is_output /\ params[q].name = n
      BY <1>0, <1>2, <2>3 DEF Following
    <2>5. ASSUME NEW n, NEW k, NEW l, Latest(i, n, k, l), n \in LaterInputs(i - 1),
                 \A q \in 1..p : params[q].is_output => params[q].name # n
          PROVE  n \in DOMAIN new.alias /\ new.alias[n] = OutputBuffer(k, l)
      <3>1. n # name /\ \A q \in 1..(p - 1) : params[q].is_output => params[q].name # n
        BY <1>0, <1>2, <2>5
      <3>2. n \in DOMAIN acc.alias /\ acc.alias[n] = OutputBuffer(k, l)
        BY <2>5, <3>1 DEF Following
      <3> QED BY <2>3, <3>1, <3>2
    <2>6. ASSUME NEW q \in 1..p, Published(i, params[q])
          PROVE  /\ DataIndex(params, q) \in DOMAIN new.bufs /\ params[q].name \in DOMAIN new.alias
                 /\ new.alias[params[q].name] = new.bufs[DataIndex(params, q)]
      <3>1. CASE q = p
        BY <2>3, <2>6, <3>1
      <3>2. CASE q # p
        <4>1. /\ DataIndex(params, q) \in DOMAIN acc.bufs /\ params[q].name \in DOMAIN acc.alias
              /\ acc.alias[params[q].name] = acc.bufs[DataIndex(params, q)]
          BY <1>0, <2>6, <3>2 DEF Following
        <4>2. params[q].name # name
          BY <1>0, <3>2
        <4> QED BY <1>1, <2>3, <4>1, <4>2 DEF Extends
      <3> QED BY <3>1, <3>2
    <2>7. Following(i, params, p, new)
      <3> HIDE DEF param, name, b, pre
      <3> QED BY <2>4, <2>5, <2>6 DEF Following
    <2> QED BY <2>2, <2>7
  <1>3. CASE ~param.is_output
    <2>1. name \in LaterInputs(i - 1) /\ ~Published(i, param) /\ new.alias = acc.alias
      BY <1>1, <1>3 DEF Published
    <2>2. \A q \in 1..p : params[q].is_output => params[q].name # name
      BY <1>0, <1>3
    <2>3. name \in DOMAIN acc.alias => acc.alias[name] # NoBuffer /\ ~Unproduced(i, name)
      <3>1. name \in DOMAIN acc.alias => acc.alias[name] \in Buffers
        BY DEF Holds, Apart, AliasesNamed
      <3>2. name \in DOMAIN acc.alias => ~Unproduced(i, name)
        BY <1>0, <2>2 DEF Following
      <3> QED BY <3>1, <3>2, CallAssumption
    <2>4. ASSUME NEW k, NEW l, Latest(i, name, k, l)
          PROVE  name \in DOMAIN acc.alias /\ acc.alias[name] = OutputBuffer(k, l)
      BY <1>0, <2>1, <2>2, <2>4 DEF Following
    <2>5. Placed(i, param, b) /\ Provided(i, param, b, new.words)
      <3>1. CASE name \in DOMAIN specs[i].resident
        <4>1. pre = handle[specs[i].resident[name]] /\ pre # NoBuffer
          BY <1>3, <3>1 DEF Resolved
        <4> QED BY <1>1, <1>3, <3>1, <4>1 DEF Placed, Provided
      <3>2. CASE name \notin DOMAIN specs[i].resident /\ name \in DOMAIN acc.alias
        <4>1. pre = acc.alias[name] /\ b = pre
          BY <1>1, <1>3, <2>3, <3>2 DEF Resolved
        <4> QED BY <1>3, <2>3, <2>4, <3>2, <4>1 DEF Placed, Provided
      <3>3. CASE name \notin DOMAIN specs[i].resident /\ name \notin DOMAIN acc.alias
        <4>1. pre = NoBuffer
          BY <1>3, <3>3 DEF Resolved
        <4>2. new.words[b] = Sequences!HostWords(specs[i], i, name)
          BY <1>1, <2>1, <4>1
        <4> QED BY <1>3, <2>4, <3>3, <4>2 DEF Placed, Provided
      <3> QED BY <3>1, <3>2, <3>3
    <2>6. Following(i, params, p, new)
      <3>1. \A q \in 1..p : q # p \/ ~params[q].is_output
        BY <1>3
      <3>2. \A n \in DOMAIN new.alias :
              Unproduced(i, n) => \E q \in 1..p : params[q].is_output /\ params[q].name = n
        BY <1>0, <2>1 DEF Following
      <3>3. ASSUME NEW n, NEW k, NEW l, Latest(i, n, k, l), n \in LaterInputs(i - 1),
                   \A q \in 1..p : params[q].is_output => params[q].name # n
            PROVE  n \in DOMAIN new.alias /\ new.alias[n] = OutputBuffer(k, l)
        BY <1>0, <2>1, <3>3 DEF Following
      <3>4. ASSUME NEW q \in 1..p, Published(i, params[q])
            PROVE  /\ DataIndex(params, q) \in DOMAIN new.bufs /\ params[q].name \in DOMAIN new.alias
                   /\ new.alias[params[q].name] = new.bufs[DataIndex(params, q)]
        <4>1. q \in 1..(p - 1)
          BY <1>0, <2>1, <3>4
        <4>2. /\ DataIndex(params, q) \in DOMAIN acc.bufs /\ params[q].name \in DOMAIN acc.alias
              /\ acc.alias[params[q].name] = acc.bufs[DataIndex(params, q)]
          BY <3>4, <4>1 DEF Following
        <4> QED BY <1>1, <2>1, <4>2 DEF Extends
      <3> HIDE DEF param, name, b, pre
      <3> QED BY <3>2, <3>3, <3>4 DEF Following
    <2>7. Blank(i, param, b, new.words)
      BY <1>3 DEF Blank
    <2> QED BY <2>5, <2>6, <2>7
  <1>4. param.is_output \in BOOLEAN
    BY <1>0 DEF WellFormed
  <1> QED BY <1>2, <1>3, <1>4

(* What a pass names is there: residents, and inputs among those that      *)
(* outputs are published for.                                              *)
Available(i, params) ==
  /\ \A n \in DOMAIN specs[i].resident : handle[specs[i].resident[n]] # NoBuffer
  /\ \A p \in DOMAIN params : ~params[p].is_output => params[p].name \in LaterInputs(i - 1)

(* One turn of the loop serves one parameter.                              *)
LEMMA ParamFills ==
  ASSUME NEW i, NEW params, Preparing(i, params), Available(i, params), NEW n \in DOMAIN params,
         NEW acc, Ready(params, n - 1, acc), Filled(i, params, n - 1, acc)
  PROVE  LET new == BindParam(i, acc, params[n])
         IN  Filled(i, params, n, new) /\ Extends(acc, new)
  <1> DEFINE data == BindData(i, acc, params[n], Resolved(i, acc, params[n]))
             new == push_strided(data, params[n], specs[i].shape)
             d == DataIndex(params, n)
  <1>1. WellFormed(params) /\ Holds(params, acc) /\ n \in 1..Len(params) /\ Len(params) \in Nat
        /\ DOMAIN params = 1..Len(params)
    BY SlotsAscend DEF Preparing, Ready
  <1>2. CASE acc.refused
    <2>1. BindParam(i, acc, params[n]) = acc
      BY <1>2 DEF BindParam
    <2>2. Extends(acc, acc)
      BY SameExtends
    <2> QED BY <1>1, <1>2, <2>1, <2>2 DEF Filled, Holds
  <1>3. CASE ~acc.refused
    <2>1. BindParam(i, acc, params[n]) = new
      BY <1>3 DEF BindParam
    <2>2. d = Len(acc.bufs) + 1 /\ Len(acc.bufs) \in Nat
      <3>1. (n - 1) + 1 = n
        BY <1>1
      <3>2. Len(acc.bufs) = SlotsBefore(params, n) /\ Len(acc.bufs) \in Nat
        BY <1>1, <1>3, <3>1 DEF Ready, Holds, Listed
      <3> QED BY <3>2 DEF DataIndex
    <2>3. /\ Holds(params, data) /\ Len(data.bufs) = Len(acc.bufs) + 1 /\ ~data.refused
          /\ DataBound(i, acc, params[n], data)
      BY <1>1, <1>3, <2>2, DataKeeps
    <2> HIDE DEF data
    <2>4. d \in DOMAIN data.bufs /\ Last(data.bufs) = data.bufs[d]
      <3>1. data.bufs \in Seq(Buffers)
        BY <2>3 DEF Holds, Listed
      <3> HIDE DEF d
      <3> QED BY <2>2, <2>3, <3>1 DEF Last
    <2>5. /\ Following(i, params, n - 1, acc)
          /\ \A j \in 1..(n - 1) :
               /\ Served(i, params, j, acc)
               /\ Blank(i, params[j], acc.bufs[DataIndex(params, j)], acc.words)
      BY <1>3 DEF Filled
    <2>6. /\ Placed(i, params[n], data.bufs[d]) /\ Provided(i, params[n], data.bufs[d], data.words)
          /\ Blank(i, params[n], data.bufs[d], data.words)
          /\ Following(i, params, n, data)
      <3>1. ~params[n].is_output => params[n].name \in LaterInputs(i - 1)
        BY DEF Available
      <3>2. \A m \in DOMAIN specs[i].resident : handle[specs[i].resident[m]] # NoBuffer
        BY DEF Available
      <3> QED BY <1>1, <2>3, <2>4, <2>5, <3>1, <3>2, DataServes
    <2>7. params[n].strided \in BOOLEAN
      BY <1>1 DEF WellFormed
    <2>8. /\ Holds(params, new)
          /\ Extends(data, new) /\ new.alias = data.alias
          /\ new.refused <=> MissingMetadata(params[n], specs[i].shape)
          /\ ~new.refused /\ params[n].strided
               => Described(new, Len(data.bufs), params[n], specs[i].shape)
      BY <2>3, <2>7, StridedKeeps
    <2> HIDE DEF new
    <2>9. Extends(acc, data) /\ Extends(acc, new)
      <3>1. Extends(acc, data)
        BY <2>3 DEF DataBound
      <3> QED BY <2>8, <3>1, ExtendsOn
    <2>10. ASSUME ~new.refused
           PROVE  /\ Following(i, params, n, new)
                  /\ \A j \in 1..n :
                       /\ Served(i, params, j, new)
                       /\ Blank(i, params[j], new.bufs[DataIndex(params, j)], new.words)
      <3>1. Following(i, params, n, new)
        BY <2>6, <2>8, FollowingOn
      <3>2. ASSUME NEW j \in 1..n, j # n
            PROVE  /\ Served(i, params, j, new)
                   /\ Blank(i, params[j], new.bufs[DataIndex(params, j)], new.words)
        <4>1. j \in 1..(n - 1)
          BY <1>1, <3>2
        <4>2. /\ Served(i, params, j, acc)
              /\ Blank(i, params[j], acc.bufs[DataIndex(params, j)], acc.words)
          BY <2>5, <4>1
        <4> QED BY <1>1, <2>9, <4>2, ServedOn
      <3>3. Served(i, params, n, new) /\ Blank(i, params[n], new.bufs[d], new.words)
        <4>1. d \in DOMAIN new.bufs /\ new.bufs[d] = data.bufs[d] /\ new.words[data.bufs[d]] = data.words[data.bufs[d]]
          <5>1. data.bufs[d] \in Referred(data)
            BY <2>3, <2>4, BufsReferred
          <5> HIDE DEF d
          <5> QED BY <2>4, <2>8, <5>1 DEF Extends
        <4>2. Len(data.bufs) = d
          BY <2>2, <2>3
        <4>3. params[n].strided => Described(new, d, params[n], specs[i].shape)
          BY <2>8, <2>10, <4>2
        <4>4. Provided(i, params[n], new.bufs[d], new.words) /\ Blank(i, params[n], new.bufs[d], new.words)
          BY <2>6, <4>1 DEF Provided, Blank
        <4> QED BY <2>6, <2>8, <2>10, <4>1, <4>3, <4>4 DEF Served
      <3> QED BY <3>1, <3>2, <3>3
    <2>11. Filled(i, params, n, new)
      <3>1. new.refused => \E j \in DOMAIN params : MissingMetadata(params[j], specs[i].shape)
        BY <2>8
      <3> QED BY <2>10, <3>1 DEF Filled
    <2> QED BY <2>1, <2>9, <2>11
  <1> QED BY <1>1, <1>2, <1>3 DEF Holds

(* The loop serves every parameter.                                        *)
LEMMA AllocateFills ==
  ASSUME NEW i, NEW params, Preparing(i, params), Available(i, params),
         Ready(params, 0, NoneYet), Filled(i, params, 0, NoneYet)
  PROVE  \A n \in 0..Len(params) :
           LET acc == allocate_pass_buffers(i, n)
           IN  Filled(i, params, n, acc) /\ Extends(NoneYet, acc)
  <1> DEFINE N == Len(params)
             F(n) == allocate_pass_buffers(i, n)
             R == {n \in Nat : n \in 0..N => Filled(i, params, n, F(n)) /\ Extends(NoneYet, F(n))}
  <1>1. N \in Nat /\ DOMAIN params = 1..N
    BY SlotsAscend DEF Preparing
  <1>2. F(0) = NoneYet /\ \A n \in 1..N : F(n) = BindParam(i, F(n - 1), params[n])
    BY AllocateUnfolds DEF Preparing
  <1>3. \A n \in 0..N : Ready(params, n, F(n))
    BY AllocateKeeps
  <1> HIDE DEF F
  <1>4. \A n \in 1..N : \A acc : Ready(params, n - 1, acc) /\ Filled(i, params, n - 1, acc) =>
          Filled(i, params, n, BindParam(i, acc, params[n])) /\ Extends(acc, BindParam(i, acc, params[n]))
    BY <1>1, ParamFills
  <1>5. 0 \in R
    <2>1. Extends(NoneYet, NoneYet)
      BY SameExtends
    <2> QED BY <1>2, <2>1
  <1>6. ASSUME NEW n \in Nat, n \in R PROVE n + 1 \in R
    <2> SUFFICES ASSUME n + 1 \in 0..N
                 PROVE  Filled(i, params, n + 1, F(n + 1)) /\ Extends(NoneYet, F(n + 1))
      OBVIOUS
    <2>1. n \in 0..N /\ n + 1 \in 1..N /\ (n + 1) - 1 = n
      BY <1>1
    <2>2. Ready(params, (n + 1) - 1, F(n)) /\ Filled(i, params, (n + 1) - 1, F(n)) /\ Extends(NoneYet, F(n))
      BY <1>3, <1>6, <2>1
    <2>3. F(n + 1) = BindParam(i, F(n), params[n + 1])
      BY <1>2, <2>1
    <2>4. Filled(i, params, n + 1, F(n + 1)) /\ Extends(F(n), F(n + 1))
      BY <1>4, <2>1, <2>2, <2>3
    <2>5. Extends(NoneYet, F(n + 1))
      BY <2>2, <2>4, ExtendsOn
    <2> QED BY <2>4, <2>5
  <1>7. Nat \subseteq R
    <2> HIDE DEF R
    <2> QED BY <1>5, <1>6, NatSetInduction
  <1> QED BY <1>7 DEF F

(* The slots of a parameter end before those of the next begin.            *)
LEMMA SlotsSpread ==
  ASSUME NEW params, WellFormed(params)
  PROVE  \A j \in 1..Len(params) : \A k \in 1..(Len(params) + 1) :
           j < k => SlotsBefore(params, j) + binding_slots(params[j]) <= SlotsBefore(params, k)
  <1> DEFINE N == Len(params)
             B(j) == SlotsBefore(params, j)
             S(j) == binding_slots(params[j])
  <1>1. /\ N \in Nat /\ \A j \in 1..(N + 1) : B(j) \in Nat
        /\ \A j \in 1..N : B(j + 1) = B(j) + S(j) /\ S(j) \in Nat
    BY SlotsAscend, SlotsCount DEF WellFormed, binding_slots
  <1> HIDE DEF B, S
  <1> SUFFICES ASSUME NEW j \in 1..N PROVE \A k \in 1..(N + 1) : j < k => B(j) + S(j) <= B(k)
    BY DEF B, S
  <1> DEFINE P == {m \in Nat : m \in 1..(N + 1) /\ j < m => B(j) + S(j) <= B(m)}
  <1>2. 0 \in P
    OBVIOUS
  <1>3. ASSUME NEW m \in Nat, m \in P PROVE m + 1 \in P
    <2> SUFFICES ASSUME m + 1 \in 1..(N + 1), j < m + 1 PROVE B(j) + S(j) <= B(m + 1)
      OBVIOUS
    <2>1. m \in 1..N /\ m \in 1..(N + 1) /\ j \in 1..(N + 1)
      BY <1>1
    <2>2. B(m + 1) = B(m) + S(m) /\ S(m) \in Nat /\ B(m) \in Nat /\ S(j) \in Nat /\ B(j) \in Nat
      BY <1>1, <2>1
    <2>3. CASE j = m
      BY <2>2, <2>3
    <2>4. CASE j # m
      <3>1. B(j) + S(j) <= B(m)
        BY <1>3, <2>1, <2>4
      <3> QED BY <2>2, <3>1
    <2> QED BY <2>3, <2>4
  <1>4. Nat \subseteq P
    <2> HIDE DEF P
    <2> QED BY <1>2, <1>3, NatSetInduction
  <1> QED BY <1>1, <1>4

(* Metadata and scalars are where no parameter's data is.                  *)
LEMMA SlotsApart ==
  ASSUME NEW params, WellFormed(params)
  PROVE  /\ \A j, k \in DOMAIN params :
              params[j].strided =>
                DataIndex(params, k) # DataIndex(params, j) + 1 /\ DataIndex(params, k) # DataIndex(params, j) + 2
         /\ \A k \in DOMAIN params : DataIndex(params, k) # TensorSlots(params) + 1
  <1> DEFINE N == Len(params)
             B(j) == SlotsBefore(params, j)
             S(j) == binding_slots(params[j])
  <1>1. /\ N \in Nat /\ DOMAIN params = 1..N /\ \A j \in 1..(N + 1) : B(j) \in Nat
        /\ \A j \in 1..N : S(j) \in {1, 3} /\ (params[j].strided => S(j) = 3)
    BY SlotsAscend DEF binding_slots
  <1>2. \A j \in 1..N : \A k \in 1..(N + 1) : j < k => B(j) + S(j) <= B(k)
    BY SlotsSpread
  <1>3. \A j : DataIndex(params, j) = B(j) + 1
    BY DEF DataIndex
  <1>4. TensorSlots(params) = B(N + 1)
    BY DEF TensorSlots
  <1> HIDE DEF B, S
  <1>5. ASSUME NEW j \in 1..N, NEW k \in 1..N, params[j].strided
        PROVE  B(k) + 1 # (B(j) + 1) + 1 /\ B(k) + 1 # (B(j) + 1) + 2
    <2>1. /\ B(j) \in Nat /\ B(k) \in Nat /\ S(j) = 3 /\ S(k) \in {1, 3}
          /\ j \in 1..(N + 1) /\ k \in 1..(N + 1)
      BY <1>1, <1>5
    <2>2. /\ j < k => B(j) + 3 <= B(k)
          /\ k < j => B(k) + S(k) <= B(j)
      BY <1>2, <2>1
    <2>3. j < k \/ k < j \/ j = k
      OBVIOUS
    <2> QED BY <2>1, <2>2, <2>3
  <1>6. ASSUME NEW k \in 1..N PROVE B(k) + 1 # B(N + 1) + 1
    <2>1. /\ B(k) \in Nat /\ B(N + 1) \in Nat /\ S(k) \in {1, 3} /\ k < N + 1
          /\ N + 1 \in 1..(N + 1) /\ k \in 1..(N + 1)
      BY <1>1
    <2>2. B(k) + S(k) <= B(N + 1)
      BY <1>2, <2>1
    <2> QED BY <2>1, <2>2
  <1> QED BY <1>1, <1>3, <1>4, <1>5, <1>6

---------------------------------------------------------------------------
(* The call in progress.                                                   *)

Resident == [h \in Handles |-> IF handle[h] = NoBuffer THEN Nothing ELSE words[handle[h]]]
Promised == Sequences!Sequence(specs, Resident)

Here(k) == [bufs |-> bound[k].bufs, words |-> words]

ScalarBound(k) ==
  LET here == bound[k]
      slot == TensorSlots(specs[k].kernel.params) + 1
  IN  specs[k].kernel.constexpr =>
        IF single THEN slot \in DOMAIN here.bufs /\ words[here.bufs[slot]] = Scalar(k)
        ELSE /\ slot \notin DOMAIN here.bufs /\ here.inline.at = slot
             /\ here.inline.words = IF specs[k].scalar THEN Scalar(k) ELSE Words(<<"zero">>, 1)

(* All that a pass takes is bound to it; its outputs are blank before it   *)
(* has run, and hold what was promised of it afterwards.                   *)
PassBound(k) ==
  LET params == specs[k].kernel.params
  IN  /\ specs[k].legal_grid
      /\ \A j \in DOMAIN params :
           /\ Served(k, params, j, Here(k))
           /\ k \notin done => Blank(k, params[j], OutputBuffer(k, j), words)
      /\ ScalarBound(k)

PassDone(k) ==
  \A j \in Outputs(specs[k].kernel) :
    Fits(Promised[k][specs[k].kernel.params[j].name], words[OutputBuffer(k, j)])

Aliased ==
  LET i == Len(bound) + 1
  IN  /\ \A name \in DOMAIN alias : ~Unproduced(i, name)
      /\ \A name, k, l :
           Latest(i, name, k, l) /\ name \in LaterInputs(i - 1) =>
             name \in DOMAIN alias /\ alias[name] = OutputBuffer(k, l)

(* What a call may count on.                                               *)
Callable ==
  /\ phase = "returned" <=> outcome # Sequences!NoOutcome
  /\ \A h \in Handles : handle[h] # NoBuffer => words[handle[h]].len # 0
  /\ \A i \in DOMAIN specs : \A n \in DOMAIN specs[i].resident : handle[specs[i].resident[n]] # NoBuffer
  /\ phase \in {"encoding", "running"} => \A i \in DOMAIN specs : Plannable(specs[i])

(* The passes run in their order: there is a barrier behind every one.     *)
InOrder ==
  /\ phase # "running" => done = {}
  /\ barriers = {k \in DOMAIN bound : k < Len(specs)}
  /\ \A i \in done : \A k \in 1..(i - 1) : k \in done

CallInv ==
  /\ Callable /\ InOrder
  /\ phase = "encoding" => Aliased
  /\ \A k \in DOMAIN bound : PassBound(k)
  /\ \A k \in done : PassDone(k)

(* Nothing is bound: there is nothing to hold.                             *)
LEMMA NoneBound ==
  ASSUME bound' = <<>>, done' = {}, barriers' = {}, Callable', phase' = "encoding" => Aliased'
  PROVE  CallInv'
  <1>1. DOMAIN <<>> = {}
    OBVIOUS
  <1> QED BY <1>1 DEF CallInv, InOrder

(* Nobody has called.                                                      *)
LEMMA InitCall == Init => CallInv
  <1> SUFFICES ASSUME Init PROVE CallInv
    OBVIOUS
  <1>1. /\ bound = <<>> /\ barriers = {} /\ done = {} /\ phase = "idle" /\ specs = <<>>
        /\ outcome = Sequences!NoOutcome /\ handle = [h \in Handles |-> NoBuffer]
    BY DEF Init, Sequences!NoRequest
  <1>2. DOMAIN <<>> = {}
    OBVIOUS
  <1>3. Callable
    BY <1>1, <1>2 DEF Callable
  <1> QED BY <1>1, <1>2, <1>3 DEF CallInv, InOrder

(* What a client holds stays as it is when a call ends.                    *)
LEMMA ReturnCall ==
  ASSUME ChainInv, CallInv, NEW o, Return(o), o # Sequences!NoOutcome
  PROVE  CallInv' /\ Resident' = Resident
  <1>1. /\ handle' = handle /\ specs' = <<>> /\ phase' = "returned" /\ outcome' = o
        /\ bound' = <<>> /\ barriers' = {} /\ done' = {}
        /\ words' = [b \in DOMAIN words \cap Range(handle') |-> words[b]]
    BY DEF Return, Kept, Sequences!NoRequest
  <1>2. \A h \in Handles : handle[h] # NoBuffer => words'[handle[h]] = words[handle[h]]
    BY <1>1 DEF ChainInv, Recorded, Range
  <1>3. DOMAIN <<>> = {}
    OBVIOUS
  <1>4. Callable'
    BY <1>1, <1>2, <1>3 DEF CallInv, Callable
  <1>5. Resident' = Resident
    BY <1>1, <1>2 DEF Resident
  <1> QED BY <1>1, <1>4, <1>5, NoneBound

(* An upload is what its handle's client will find, and all that changes.  *)
LEMMA UploadCall ==
  ASSUME ChainInv, CallInv, NEW h \in Handles, NEW n \in Uploads, Upload(h, n)
  PROVE  CallInv' /\ Resident' = [Resident EXCEPT ![h] = Words(<<"resident", h, n>>, n)]
  <1> DEFINE none == [pool |-> pool, words |-> words, alias |-> <<>>, bufs |-> <<>>,
                      refused |-> FALSE]
             content == Words(<<"resident", h, n>>, n)
             acc == acquire_shared(none, content, n)
  <1>1. /\ phase = "idle" /\ bound = <<>> /\ alias = <<>> /\ specs = <<>> /\ handle[h] = NoBuffer
        /\ handle' = [handle EXCEPT ![h] = Last(acc.bufs)]
        /\ words' = acc.words
        /\ UNCHANGED <<specs, single, phase, bound, alias, barriers, done, outcome>>
        /\ handle \in [Handles -> Buffers \cup {NoBuffer}]
        /\ \A g \in Handles : handle[g] = NoBuffer \/ handle[g] \in DOMAIN words
    BY DEF Upload, ChainInv, Progress, Recorded
  <1>2. content.len = n /\ n # 0 /\ n \in Nat /\ n <= MaxLength
    BY CallAssumption, PowersNat DEF Words
  <1>3. Grown(<<>>, none, acc, content, FALSE)
    <2>1. Shaped(none) /\ Listed(none)
      <3>1. InUse(none) = Range(handle)
        BY <1>1 DEF InUse, Range
      <3>2. InUse(none) \subseteq DOMAIN none.words \cup {NoBuffer}
        BY <3>1 DEF ChainInv, Recorded, Range
      <3>3. /\ none.pool \in [Lists -> Nat]
            /\ \A b \in DOMAIN none.words : b \in Buffers /\ b[2] <= none.pool[b[1]]
        BY DEF ChainInv, Recorded
      <3>4. none.bufs \in Seq(Buffers) /\ Shaped(none)
        BY DEF Shaped
      <3> QED BY <3>2, <3>3, <3>4 DEF Listed
    <2>2. Apart(<<>>, none.bufs, none.alias)
      <3>1. DOMAIN <<>> = {}
        OBVIOUS
      <3> QED BY <3>1 DEF Apart, OutputsFresh, InputsNamed, AliasesNamed, OutputsNamed
    <2>3. Holds(<<>>, none)
      BY <2>1, <2>2 DEF Holds
    <2> HIDE DEF none, content
    <2>4. Grown(<<>>, none, acc, IF content.len = 0 THEN Nothing ELSE content, FALSE)
      BY <1>2, <2>3, SharedKeeps
    <2> QED BY <1>2, <2>4
  <1> HIDE DEF acc
  <1>4. /\ Last(acc.bufs) \in Buffers /\ acc.words[Last(acc.bufs)] = content
        /\ Extends(none, acc) /\ Last(acc.bufs) # NoBuffer
    BY <1>3, CallAssumption DEF Grown
  <1>5. \A g \in Handles : handle[g] # NoBuffer => words'[handle[g]] = words[handle[g]]
    <2> SUFFICES ASSUME NEW g \in Handles, handle[g] # NoBuffer PROVE handle[g] \in Referred(none)
      BY <1>1, <1>4 DEF Extends
    <2> QED BY <1>1 DEF Referred, Range
  <1>6. \A g \in Handles : handle'[g] = IF g = h THEN Last(acc.bufs) ELSE handle[g]
    BY <1>1
  <1> HIDE DEF content
  <1>7. DOMAIN <<>> = {}
    OBVIOUS
  <1>8. Callable'
    <2>1. \A g \in Handles : handle'[g] # NoBuffer => words'[handle'[g]].len # 0
      BY <1>1, <1>2, <1>4, <1>5, <1>6 DEF CallInv, Callable
    <2> QED BY <1>1, <1>7, <2>1 DEF CallInv, Callable
  <1>9. Resident' = [Resident EXCEPT ![h] = content]
    BY <1>1, <1>4, <1>5, <1>6 DEF Resident
  <1>10. done = {} /\ barriers = {}
    BY <1>1, <1>7 DEF CallInv, InOrder
  <1> QED BY <1>1, <1>8, <1>9, <1>10, NoneBound DEF content

(* A handle is dropped, and nothing else of any client.                    *)
LEMMA DropCall ==
  ASSUME ChainInv, CallInv, NEW h \in Handles, DropResident(h)
  PROVE  CallInv' /\ Resident' = [Resident EXCEPT ![h] = Nothing]
  <1>1. /\ phase = "idle" /\ bound = <<>> /\ specs = <<>>
        /\ handle' = [handle EXCEPT ![h] = NoBuffer]
        /\ words' = [b \in DOMAIN words \cap Range(handle') |-> words[b]]
        /\ UNCHANGED <<specs, single, phase, bound, alias, barriers, done, outcome>>
        /\ handle \in [Handles -> Buffers \cup {NoBuffer}]
        /\ \A g \in Handles : handle[g] = NoBuffer \/ handle[g] \in DOMAIN words
    BY DEF DropResident, Kept, ChainInv, Progress, Recorded
  <1>2. \A g \in Handles : handle'[g] = IF g = h THEN NoBuffer ELSE handle[g]
    BY <1>1
  <1>3. \A g \in Handles : handle'[g] # NoBuffer => words'[handle'[g]] = words[handle[g]]
    BY <1>1, <1>2 DEF Range
  <1>4. DOMAIN <<>> = {}
    OBVIOUS
  <1>5. Callable'
    <2>1. \A g \in Handles : handle'[g] # NoBuffer => words'[handle'[g]].len # 0
      BY <1>2, <1>3 DEF CallInv, Callable
    <2> QED BY <1>1, <1>4, <2>1 DEF CallInv, Callable
  <1>6. Resident' = [Resident EXCEPT ![h] = Nothing]
    BY <1>2, <1>3 DEF Resident
  <1>7. done = {} /\ barriers = {}
    BY <1>1, <1>4 DEF CallInv, InOrder
  <1> QED BY <1>1, <1>5, <1>6, <1>7, NoneBound

(* A call is made.                                                         *)
LEMMA CallCall ==
  ASSUME ChainInv, CallInv, NEW r \in Requests, NEW alone \in BOOLEAN, Call(r, alone)
  PROVE  CallInv' /\ Resident' = Resident
  <1>1. /\ phase = "idle" /\ bound = <<>> /\ specs' = r /\ phase' = "planning"
        /\ UNCHANGED <<pool, words, handle, bound, alias, barriers, done, outcome>>
        /\ \A i \in DOMAIN r : \A n \in DOMAIN r[i].resident : handle[r[i].resident[n]] # NoBuffer
    BY DEF Call, ChainInv, Progress
  <1>2. done = {} /\ barriers = {}
    BY <1>1 DEF CallInv, InOrder
  <1>3. Callable'
    BY <1>1 DEF CallInv, Callable
  <1> QED BY <1>1, <1>2, <1>3, NoneBound DEF Resident

(* The caller has seen the outcome.                                        *)
LEMMA AcceptCall ==
  ASSUME ChainInv, CallInv, Accept
  PROVE  CallInv' /\ Resident' = Resident
  <1>1. /\ phase = "returned" /\ bound = <<>> /\ specs = <<>> /\ phase' = "idle"
        /\ outcome' = Sequences!NoOutcome
        /\ UNCHANGED <<pool, words, handle, specs, single, bound, alias, barriers, done>>
    BY DEF Accept, ChainInv, Progress
  <1>2. done = {} /\ barriers = {}
    BY <1>1 DEF CallInv, InOrder
  <1>3. Callable'
    BY <1>1 DEF CallInv, Callable
  <1> QED BY <1>1, <1>2, <1>3, NoneBound DEF Resident

(* Every pass can be planned.                                              *)
LEMMA PlanCall ==
  ASSUME ChainInv, CallInv, phase = "planning", phase' = "encoding",
         \A i \in DOMAIN specs : Plannable(specs[i]),
         UNCHANGED <<pool, words, handle, specs, single, bound, alias, barriers, done, outcome>>
  PROVE  CallInv' /\ Resident' = Resident
  <1>1. bound = <<>> /\ alias = <<>>
    BY DEF ChainInv, Progress
  <1>2. done = {} /\ barriers = {}
    BY <1>1 DEF CallInv, InOrder
  <1>3. Callable'
    BY DEF CallInv, Callable, Plannable
  <1>4. Aliased'
    <2>1. Len(bound') + 1 = 1 /\ DOMAIN alias' = {} /\ 1..(1 - 1) = {}
      BY <1>1
    <2> QED BY <2>1 DEF Aliased, Latest
  <1> QED BY <1>1, <1>2, <1>3, <1>4, NoneBound DEF Resident

(* What a name stands for is settled by the call.                          *)
LEMMA SameCall ==
  ASSUME specs' = specs, handle' = handle
  PROVE  /\ \A i : LaterInputs(i)' = LaterInputs(i)
         /\ \A i, name : Unproduced(i, name)' <=> Unproduced(i, name)
         /\ \A i, name, k, l : Latest(i, name, k, l)' <=> Latest(i, name, k, l)
         /\ \A i, param, b, w : /\ Provided(i, param, b, w)' <=> Provided(i, param, b, w)
                                /\ Blank(i, param, b, w)' <=> Blank(i, param, b, w)
  <1>1. \A i : LaterInputs(i)' = LaterInputs(i)
    BY DEF LaterInputs
  <1>2. \A i, name : Unproduced(i, name)' <=> Unproduced(i, name)
    BY DEF Unproduced
  <1>3. \A i, name, k, l : Latest(i, name, k, l)' <=> Latest(i, name, k, l)
    BY DEF Latest
  <1>4. \A i, param, b, w : Provided(i, param, b, w)' <=> Provided(i, param, b, w)
    BY <1>2 DEF Provided
  <1>5. \A i, param, b, w : Blank(i, param, b, w)' <=> Blank(i, param, b, w)
    BY <1>1 DEF Blank
  <1> QED BY <1>1, <1>2, <1>3, <1>4, <1>5

(* A pass stays served while others are bound or run.                      *)
LEMMA ServedThen ==
  ASSUME specs' = specs, handle' = handle, NEW k \in Nat, NEW acc, bound'[k].bufs = acc.bufs,
         \A m \in 1..(k - 1) : bound'[m].bufs = bound[m].bufs,
         NEW j, Served(k, specs[k].kernel.params, j, acc),
         LET param == specs[k].kernel.params[j]
             Same(s) == words'[acc.bufs[s]] = acc.words[acc.bufs[s]]
             d == DataIndex(specs[k].kernel.params, j)
         IN  /\ param.strided => Same(d + 1) /\ Same(d + 2)
             /\ ~param.is_output /\ param.name \notin DOMAIN specs[k].resident /\ Unproduced(k, param.name)
                  => Same(d)
  PROVE  Served(k, specs[k].kernel.params, j, Here(k))'
  <1> DEFINE params == specs[k].kernel.params
             param == params[j]
             d == DataIndex(params, j)
             b == acc.bufs
             old == acc.words
  <1>2. /\ d \in DOMAIN b
        /\ ~MissingMetadata(param, specs[k].shape)
        /\ Placed(k, param, b[d])
        /\ Provided(k, param, b[d], old)
        /\ param.strided => /\ {d + 1, d + 2} \subseteq DOMAIN b
                            /\ old[b[d + 1]] = ShapeOf(param, specs[k].shape)
                            /\ old[b[d + 2]] = StridesOf(param)
    BY DEF Served, Described
  <1>3. /\ param.strided => words'[b[d + 1]] = old[b[d + 1]] /\ words'[b[d + 2]] = old[b[d + 2]]
        /\ ~param.is_output /\ param.name \notin DOMAIN specs[k].resident /\ Unproduced(k, param.name)
             => words'[b[d]] = old[b[d]]
    OBVIOUS
  <1>1. bound'[k].bufs = b
    OBVIOUS
  <1> HIDE DEF d, b, old
  <1>4. Provided(k, param, b[d], words')
    BY <1>2, <1>3 DEF Provided
  <1>7. d' = d /\ param' = param /\ specs'[k].shape = specs[k].shape /\ b' = b
    BY DEF d, b
  <1>5. Placed(k, param, b[d])'
    <2>1. \A name, m, l : Latest(k, name, m, l) => OutputBuffer(m, l)' = OutputBuffer(m, l)
      <3> SUFFICES ASSUME NEW name, NEW m, NEW l, Latest(k, name, m, l)
                   PROVE  OutputBuffer(m, l)' = OutputBuffer(m, l)
        OBVIOUS
      <3>1. m \in 1..(k - 1)
        BY DEF Latest
      <3> QED BY <3>1 DEF OutputBuffer
    <2>2. /\ LaterInputs(k)' = LaterInputs(k)
          /\ \A name, m, l : Latest(k, name, m, l)' <=> Latest(k, name, m, l)
      BY SameCall
    <2> HIDE DEF param, params
    <2>3. Placed(k, param, b[d])
      BY <1>2
    <2> QED BY <1>7, <2>1, <2>2, <2>3, SMTT(20) DEF Placed
  <1>6. Provided(k, param, b[d], words)'
    <2>1. Unproduced(k, param.name)' <=> Unproduced(k, param.name)
      BY SameCall
    <2> HIDE DEF param, params
    <2> QED BY <1>4, <1>7, <2>1 DEF Provided
  <1>8. /\ Here(k)'.bufs = b /\ Here(k)'.words = words'
    BY <1>1 DEF Here
  <1>9. param.strided => Described(Here(k), d, param, specs[k].shape)'
    <2>1. /\ ShapeOf(param, specs[k].shape)' = ShapeOf(param, specs[k].shape)
          /\ StridesOf(param)' = StridesOf(param)
      OBVIOUS
    <2> QED BY <1>2, <1>3, <1>7, <1>8, <2>1 DEF Described
  <1> QED
    BY <1>2, <1>5, <1>6, <1>7, <1>8, <1>9 DEF Served, d

(* LaterInputs, in MetalKernels' terms.                                    *)
LEMMA LaterAre ==
  ASSUME NEW i, NEW name
  PROVE  name \in LaterInputs(i) <=> \E k \in (i + 1)..Len(specs) : name \in InputNames(specs[k].kernel)
  <1>1. \A k : Sequences!InputNames(specs[k].kernel) = InputNames(specs[k].kernel)
    BY SameKernels
  <1> QED BY <1>1 DEF LaterInputs, Sequences!LaterInputs

(* The scalar's slot is behind those of the tensors.                       *)
Scalared(i, params, acc) ==
  LET slot == TensorSlots(params) + 1
  IN  specs[i].kernel.constexpr =>
        IF single THEN slot \in DOMAIN acc.bufs /\ acc.words[acc.bufs[slot]] = Scalar(i)
        ELSE Len(acc.bufs) + 1 = slot

(* The next pass is refused for want of metadata, or has all it takes.     *)
LEMMA NextServed ==
  ASSUME ChainInv, CallInv, phase = "encoding", NEW i, i = Len(bound) + 1,
         NEW params, params = specs[i].kernel.params, NEW acc, acc = AllBuffers(i)
  PROVE  /\ Extends(NoneYet, acc) /\ Holds(params, acc)
         /\ acc.refused => \E j \in DOMAIN params : MissingMetadata(params[j], specs[i].shape)
         /\ ~acc.refused => /\ Following(i, params, Len(params), acc) /\ Scalared(i, params, acc)
                            /\ \A j \in DOMAIN params :
                                 /\ Served(i, params, j, acc)
                                 /\ Blank(i, params[j], acc.bufs[DataIndex(params, j)], acc.words)
  <1> DEFINE N == Len(params)
             base == allocate_pass_buffers(i, N)
  <1>1. /\ i \in DOMAIN specs /\ Len(specs) \in Nat /\ i \in Nat /\ DOMAIN specs = 1..Len(specs)
        /\ Preparing(i, params) /\ Ready(params, 0, NoneYet)
    BY NextPass
  <1>2. WellFormed(params) /\ N \in Nat /\ DOMAIN params = 1..N
    BY <1>1, SlotsAscend DEF Preparing
  <1>3. Available(i, params)
    <2>1. \A n \in DOMAIN specs[i].resident : handle[specs[i].resident[n]] # NoBuffer
      BY <1>1 DEF CallInv, Callable
    <2>2. ASSUME NEW p \in DOMAIN params, ~params[p].is_output
          PROVE  params[p].name \in LaterInputs(i - 1)
      <3>1. params[p].name \in InputNames(specs[i].kernel)
        BY <2>2 DEF InputNames, Outputs
      <3>2. i \in ((i - 1) + 1)..Len(specs)
        BY <1>1
      <3> QED BY <3>1, <3>2, LaterAre
    <2> QED BY <2>1, <2>2 DEF Available
  <1>4. Filled(i, params, 0, NoneYet)
    <2>1. /\ \A name \in DOMAIN alias : ~Unproduced(i, name)
          /\ \A name, k, l :
               Latest(i, name, k, l) /\ name \in LaterInputs(i - 1) =>
                 name \in DOMAIN alias /\ alias[name] = OutputBuffer(k, l)
      BY DEF CallInv, Aliased
    <2>2. NoneYet.alias = alias /\ NoneYet.refused = FALSE
      BY DEF NoneYet
    <2>3. Following(i, params, 0, NoneYet)
      BY <2>1, <2>2 DEF Following
    <2> QED BY <2>2, <2>3 DEF Filled
  <1>5. Filled(i, params, N, base) /\ Extends(NoneYet, base)
    <2>1. N \in 0..N
      BY <1>2
    <2> QED BY <1>1, <1>3, <1>4, <2>1, AllocateFills
  <1>6. Ready(params, N, base)
    <2>1. N \in 0..N
      BY <1>2
    <2> QED BY <1>1, <2>1, AllocateKeeps
  <1>7. acc = WithScalar(i, base)
    BY DEF AllBuffers
  <1> HIDE DEF base
  <1>8. CASE single /\ specs[i].kernel.constexpr /\ ~base.refused
    <2>1. acc = acquire_shared(base, Scalar(i), 1)
      BY <1>7, <1>8 DEF WithScalar
    <2>2. Holds(params, base) /\ Len(base.bufs) = TensorSlots(params) /\ base.bufs \in Seq(Buffers)
      BY <1>6, <1>8 DEF Ready, TensorSlots, Holds, Listed
    <2>3. Grown(params, base, acc, Scalar(i), FALSE)
      <3>1. (IF Scalar(i).len = 0 THEN Nothing ELSE Scalar(i)) = Scalar(i)
        BY DEF Scalar, Nothing, Words
      <3>2. 1 \in Nat /\ 1 <= MaxLength
        BY PowersNat
      <3>3. Grown(params, base, acc, IF Scalar(i).len = 0 THEN Nothing ELSE Scalar(i), FALSE)
        BY <2>1, <2>2, <3>2, SharedKeeps
      <3> QED BY <3>1, <3>3
    <2>4. /\ Holds(params, acc) /\ Extends(base, acc) /\ acc.alias = base.alias /\ ~acc.refused
          /\ acc.words[Last(acc.bufs)] = Scalar(i) /\ acc.bufs = Append(base.bufs, Last(acc.bufs))
          /\ Last(acc.bufs) \in Buffers /\ Len(acc.bufs) = Len(base.bufs) + 1
      BY <1>8, <2>3 DEF Grown
    <2>5. Extends(NoneYet, acc)
      BY <1>5, <2>4, ExtendsOn
    <2>6. Scalared(i, params, acc)
      <3>1. TensorSlots(params) + 1 \in DOMAIN acc.bufs /\ acc.bufs[TensorSlots(params) + 1] = Last(acc.bufs)
        <4>1. acc.bufs \in Seq(Buffers) /\ Len(base.bufs) \in Nat
          BY <2>2, <2>4 DEF Holds, Listed
        <4> QED BY <2>2, <2>4, <4>1 DEF Last
      <3> QED BY <1>8, <2>4, <3>1 DEF Scalared
    <2>7. Following(i, params, N, acc)
      <3>1. Following(i, params, N, base)
        BY <1>5, <1>8 DEF Filled
      <3>2. acc.alias = base.alias /\ Extends(base, acc)
        BY <2>4
      <3> QED BY <3>1, <3>2, FollowingOn
    <2>8. ASSUME NEW j \in DOMAIN params
          PROVE  /\ Served(i, params, j, acc)
                 /\ Blank(i, params[j], acc.bufs[DataIndex(params, j)], acc.words)
      <3>1. /\ Served(i, params, j, base)
            /\ Blank(i, params[j], base.bufs[DataIndex(params, j)], base.words)
        BY <1>2, <1>5, <1>8 DEF Filled
      <3> QED BY <2>2, <2>4, <3>1, ServedOn
    <2> QED BY <2>4, <2>5, <2>6, <2>7, <2>8
  <1>9. CASE ~(single /\ specs[i].kernel.constexpr /\ ~base.refused)
    <2>1. acc = base
      BY <1>7, <1>9 DEF WithScalar
    <2>2. Holds(params, acc) /\ (~acc.refused => Len(acc.bufs) = TensorSlots(params))
      BY <1>6, <2>1 DEF Ready, TensorSlots
    <2>3. ~acc.refused => Scalared(i, params, acc)
      BY <1>9, <2>1, <2>2 DEF Scalared
    <2> QED BY <1>2, <1>5, <2>1, <2>2, <2>3 DEF Filled
  <1> QED BY <1>8, <1>9

(* What is in nobody's buffers is all that preparing a pass writes.        *)
LEMMA ExtendsState ==
  ASSUME ChainInv, NEW acc, Extends(NoneYet, acc)
  PROVE  /\ \A h \in Handles : handle[h] # NoBuffer => acc.words[handle[h]] = words[handle[h]]
         /\ \A k \in DOMAIN bound : \A s \in DOMAIN bound[k].bufs :
              acc.words[bound[k].bufs[s]] = words[bound[k].bufs[s]]
  <1>1. \A b \in DOMAIN words : b \in Range(handle) => acc.words[b] = words[b]
    BY DEF Extends, Referred, NoneYet
  <1>2. \A b \in DOMAIN words : \A k \in DOMAIN bound : b \in Range(bound[k].bufs) => acc.words[b] = words[b]
    BY DEF Extends, Referred, NoneYet
  <1>3. /\ \A h \in Handles : handle[h] = NoBuffer \/ handle[h] \in DOMAIN words
        /\ DOMAIN handle = Handles
        /\ \A k \in DOMAIN bound : Range(bound[k].bufs) \subseteq DOMAIN words
    BY DEF ChainInv, Recorded
  <1>4. ASSUME NEW k \in DOMAIN bound, NEW s \in DOMAIN bound[k].bufs
        PROVE  acc.words[bound[k].bufs[s]] = words[bound[k].bufs[s]]
    <2>1. bound[k].bufs[s] \in Range(bound[k].bufs)
      BY DEF Range
    <2> QED BY <1>2, <1>3, <2>1
  <1>5. ASSUME NEW h \in Handles, handle[h] # NoBuffer PROVE acc.words[handle[h]] = words[handle[h]]
    <2>1. handle[h] \in Range(handle)
      BY <1>3 DEF Range
    <2> QED BY <1>1, <1>3, <1>5, <2>1
  <1> QED BY <1>4, <1>5

(* Encoding a pass serves it, and leaves what is bound before it.          *)
LEMMA EncodeCall ==
  ASSUME ChainInv, CallInv, phase = "encoding", NEW i, i = Len(bound) + 1,
         NEW acc, acc = AllBuffers(i), Encode(i, acc), ~acc.refused, specs[i].legal_grid
  PROVE  CallInv' /\ Resident' = Resident
  <1> DEFINE params == specs[i].kernel.params
             e == [bufs |-> acc.bufs, inline |-> Inline(i, acc)]
  <1>1. /\ Extends(NoneYet, acc) /\ Following(i, params, Len(params), acc) /\ Scalared(i, params, acc)
        /\ \A j \in DOMAIN params :
             /\ Served(i, params, j, acc)
             /\ Blank(i, params[j], acc.bufs[DataIndex(params, j)], acc.words)
        /\ Holds(params, acc)
    BY NextServed
  <1>2. /\ words' = acc.words /\ alias' = acc.alias
        /\ bound' = Append(bound, e) /\ e.bufs = acc.bufs /\ e.inline = Inline(i, acc)
        /\ barriers' = IF NeedsBarrier(i) THEN barriers \cup {i} ELSE barriers
        /\ phase' = IF i = Len(specs) THEN "running" ELSE "encoding"
        /\ UNCHANGED <<handle, specs, single, done, outcome>>
    BY DEF Encode
  <1>3. /\ i \in DOMAIN specs /\ Len(specs) \in Nat /\ i \in Nat /\ i # 0 /\ DOMAIN specs = 1..Len(specs)
        /\ WellFormed(params) /\ DOMAIN params = 1..Len(params)
    BY NextPass, SlotsAscend DEF Preparing
  <1> HIDE DEF e
  <1>4. /\ Len(bound') = i /\ Len(bound) \in Nat
        /\ DOMAIN bound' = 1..i /\ DOMAIN bound = 1..(i - 1)
        /\ bound'[i] = e
        /\ \A k \in DOMAIN bound : bound'[k] = bound[k]
    <2>1. bound \in Seq(Range(bound))
      BY DEF ChainInv, Progress
    <2>2. /\ Len(bound') = Len(bound) + 1 /\ Len(bound) \in Nat
          /\ DOMAIN bound' = 1..(Len(bound) + 1) /\ DOMAIN bound = 1..Len(bound)
          /\ bound'[Len(bound) + 1] = e
          /\ \A k \in DOMAIN bound : bound'[k] = bound[k]
      BY <1>2, <2>1, AppendAny
    <2> QED BY <2>2
  <1>5. /\ \A h \in Handles : handle[h] # NoBuffer => words'[handle[h]] = words[handle[h]]
        /\ \A k \in DOMAIN bound : \A s \in DOMAIN bound[k].bufs :
             words'[bound[k].bufs[s]] = words[bound[k].bufs[s]]
    BY <1>1, <1>2, ExtendsState
  <1>6. Resident' = Resident
    BY <1>2, <1>5 DEF Resident
  <1>7. Callable'
    <2>1. \A h \in Handles : handle'[h] # NoBuffer => words'[handle'[h]].len # 0
      BY <1>2, <1>5 DEF CallInv, Callable
    <2>2. \A k \in DOMAIN specs : Plannable(specs[k])'
      BY <1>2 DEF CallInv, Callable, Plannable
    <2> QED BY <1>2, <2>1, <2>2 DEF CallInv, Callable
  <1>8. InOrder' /\ done' = {}
    <2>1. done' = {} /\ done = {}
      BY <1>2 DEF CallInv, InOrder
    <2>2. barriers' = {k \in DOMAIN bound' : k < Len(specs')}
      <3>1. barriers = {k \in DOMAIN bound : k < Len(specs)}
        BY DEF CallInv, InOrder
      <3>2. DOMAIN bound' = DOMAIN bound \cup {i} /\ i \notin DOMAIN bound
        BY <1>3, <1>4
      <3> QED BY <1>2, <3>1, <3>2 DEF NeedsBarrier
    <2> QED BY <2>1, <2>2 DEF InOrder
  <1>9. ASSUME NEW k \in DOMAIN bound' PROVE PassBound(k)'
    <2> DEFINE pk == specs[k].kernel.params
    <2>0. k \in Nat /\ k \in DOMAIN specs
      BY <1>3, <1>4
    <2>1. CASE k = i
      <3>1. ASSUME NEW j \in DOMAIN params
            PROVE  /\ Served(i, specs[i].kernel.params, j, Here(i))'
                   /\ Blank(i, params[j], OutputBuffer(i, j), words)'
        <4>1. bound'[i].bufs = acc.bufs /\ \A m \in 1..(i - 1) : bound'[m].bufs = bound[m].bufs
          BY <1>2, <1>4
        <4>2. Served(i, specs[i].kernel.params, j, Here(i))'
          BY <1>1, <1>2, <1>3, <4>1, ServedThen
        <4>3. OutputBuffer(i, j)' = acc.bufs[DataIndex(params, j)]
          BY <1>2, <4>1 DEF OutputBuffer
        <4>4. Blank(i, params[j], acc.bufs[DataIndex(params, j)], acc.words)
          BY <1>1
        <4>5. LaterInputs(i)' = LaterInputs(i)
          BY <1>2, SameCall
        <4>6. Blank(i, params[j], OutputBuffer(i, j), words)'
          BY <1>2, <4>3, <4>4, <4>5 DEF Blank
        <4> QED BY <4>2, <4>6
      <3>2. ScalarBound(i)'
        <4> DEFINE slot == TensorSlots(params) + 1
        <4>1. specs[i].kernel.constexpr =>
                IF single THEN slot \in DOMAIN acc.bufs /\ acc.words[acc.bufs[slot]] = Scalar(i)
                ELSE Len(acc.bufs) + 1 = slot
          BY <1>1 DEF Scalared
        <4>2. ~single /\ specs[i].kernel.constexpr =>
                /\ e.inline.at = Len(acc.bufs) + 1
                /\ e.inline.words = IF specs[i].scalar THEN Scalar(i) ELSE Words(<<"zero">>, 1)
          BY <1>2 DEF Inline
        <4>3. Len(acc.bufs) + 1 \notin DOMAIN acc.bufs
          <5>1. acc.bufs \in Seq(Buffers)
            BY <1>1 DEF Holds, Listed
          <5> QED BY <5>1
        <4>4. Scalar(i)' = Scalar(i) /\ slot' = slot /\ single' = single /\ specs' = specs
          BY <1>2 DEF Scalar
        <4>5. bound'[i].bufs = acc.bufs /\ bound'[i].inline = e.inline /\ words' = acc.words
          BY <1>2, <1>4
        <4> HIDE DEF slot
        <4>6. specs[i].kernel.constexpr =>
                IF single THEN slot \in DOMAIN acc.bufs /\ acc.words[acc.bufs[slot]] = Scalar(i)
                ELSE /\ slot \notin DOMAIN acc.bufs /\ e.inline.at = slot
                     /\ e.inline.words = IF specs[i].scalar THEN Scalar(i) ELSE Words(<<"zero">>, 1)
          BY <4>1, <4>2, <4>3
        <4> QED BY <4>4, <4>5, <4>6 DEF ScalarBound, slot
      <3>3. PassBound(i)'
        BY <1>2, <3>1, <3>2 DEF PassBound
      <3> QED BY <2>1, <3>3
    <2>2. CASE k \in DOMAIN bound
      <3>1. /\ PassBound(k) /\ bound'[k] = bound[k] /\ k \notin done /\ k \notin done'
            /\ \A m \in 1..(k - 1) : bound'[m].bufs = bound[m].bufs
        <4>1. \A m \in 1..(k - 1) : m \in DOMAIN bound
          BY <1>4, <2>2
        <4> QED BY <1>2, <1>4, <1>8, <2>2, <4>1 DEF CallInv
      <3>2. ASSUME NEW j \in DOMAIN pk
            PROVE  /\ Served(k, specs[k].kernel.params, j, Here(k))'
                   /\ Blank(k, pk[j], OutputBuffer(k, j), words)'
        <4> DEFINE d == DataIndex(pk, j)
        <4>1. /\ Served(k, specs[k].kernel.params, j, Here(k))
              /\ Blank(k, pk[j], OutputBuffer(k, j), words)
          BY <3>1, <3>2 DEF PassBound
        <4>2. /\ d \in DOMAIN bound[k].bufs
              /\ pk[j].strided => {d + 1, d + 2} \subseteq DOMAIN bound[k].bufs
          BY <4>1 DEF Served, Here, Described
        <4>3. Here(k).bufs = bound[k].bufs /\ Here(k).words = words
          BY DEF Here
        <4>4. Served(k, specs[k].kernel.params, j, Here(k))'
          <5>1. /\ pk[j].strided => /\ words'[Here(k).bufs[d + 1]] = Here(k).words[Here(k).bufs[d + 1]]
                                    /\ words'[Here(k).bufs[d + 2]] = Here(k).words[Here(k).bufs[d + 2]]
                /\ words'[Here(k).bufs[d]] = Here(k).words[Here(k).bufs[d]]
            BY <1>5, <2>2, <4>2, <4>3
          <5>2. bound'[k].bufs = Here(k).bufs
            BY <3>1, <4>3
          <5> QED BY <1>2, <2>0, <3>1, <4>1, <5>1, <5>2, ServedThen
        <4>5. OutputBuffer(k, j)' = OutputBuffer(k, j) /\ words'[OutputBuffer(k, j)] = words[OutputBuffer(k, j)]
          BY <1>2, <1>5, <2>2, <3>1, <4>2 DEF OutputBuffer
        <4>6. LaterInputs(k)' = LaterInputs(k)
          BY <1>2, SameCall
        <4>7. Blank(k, pk[j], OutputBuffer(k, j), words)'
          BY <1>2, <4>1, <4>5, <4>6 DEF Blank
        <4> QED BY <4>4, <4>7
      <3>3. ScalarBound(k)'
        <4>1. Scalar(k)' = Scalar(k)
          BY <1>2 DEF Scalar
        <4>2. ScalarBound(k)
          BY <3>1 DEF PassBound
        <4> QED BY <1>2, <1>5, <2>2, <3>1, <4>1, <4>2 DEF ScalarBound
      <3> QED BY <1>2, <3>1, <3>2, <3>3 DEF PassBound
    <2> QED BY <1>4, <2>1, <2>2
  <1>10. Aliased'
    <2>0. Len(bound') + 1 = i + 1 /\ (i + 1) - 1 = i
      BY <1>3, <1>4
    <2>1. ASSUME NEW name \in DOMAIN acc.alias PROVE ~Unproduced(i + 1, name)
      <3>1. CASE Unproduced(i, name)
        <4>1. \E q \in 1..Len(params) : params[q].is_output /\ params[q].name = name
          BY <1>1, <3>1 DEF Following
        <4>2. name \in OutputNames(specs[i].kernel)
          BY <1>3, <4>1 DEF OutputNames, Outputs
        <4>3. i \in 1..((i + 1) - 1)
          BY <1>3
        <4> QED BY <4>2, <4>3 DEF Unproduced
      <3>2. CASE ~Unproduced(i, name)
        <4>1. \A k \in 1..(i - 1) : k \in 1..((i + 1) - 1)
          BY <1>3
        <4> QED BY <3>2, <4>1 DEF Unproduced
      <3> QED BY <3>1, <3>2
    <2>2. ASSUME NEW name, NEW k, NEW l, Latest(i + 1, name, k, l), name \in LaterInputs(i)
          PROVE  name \in DOMAIN acc.alias /\ acc.alias[name] = bound'[k].bufs[DataIndex(specs[k].kernel.params, l)]
      <3>1. k \in 1..i /\ l \in Outputs(specs[k].kernel) /\ specs[k].kernel.params[l].name = name
            /\ \A m \in (k + 1)..i : name \notin OutputNames(specs[m].kernel)
        BY <2>0, <2>2 DEF Latest
      <3>2. CASE k = i
        <4>1. l \in 1..Len(params) /\ Published(i, params[l])
          BY <1>3, <2>2, <3>1, <3>2 DEF Published, Outputs
        <4>2. /\ params[l].name \in DOMAIN acc.alias
              /\ acc.alias[params[l].name] = acc.bufs[DataIndex(params, l)]
          BY <1>1, <4>1 DEF Following
        <4> QED BY <1>2, <1>4, <3>1, <3>2, <4>2
      <3>3. CASE k # i
        <4>1. k \in 1..(i - 1) /\ i \in (k + 1)..i /\ (\A m \in (k + 1)..(i - 1) : m \in (k + 1)..i)
          BY <1>3, <3>1, <3>3
        <4>2. Latest(i, name, k, l)
          BY <3>1, <4>1 DEF Latest
        <4>3. \A q \in 1..Len(params) : params[q].is_output => params[q].name # name
          <5>1. name \notin OutputNames(specs[i].kernel)
            BY <3>1, <4>1
          <5> QED BY <1>3, <5>1 DEF OutputNames, Outputs
        <4>4. name \in LaterInputs(i - 1)
          <5>1. PICK m \in (i + 1)..Len(specs) : name \in InputNames(specs[m].kernel)
            BY <2>2, LaterAre
          <5>2. m \in ((i - 1) + 1)..Len(specs)
            BY <1>3
          <5> QED BY <5>1, <5>2, LaterAre
        <4>5. name \in DOMAIN acc.alias /\ acc.alias[name] = OutputBuffer(k, l)
          <5>1. \A n, m, q :
                  /\ Latest(i, n, m, q) /\ n \in LaterInputs(i - 1)
                  /\ \A r \in 1..Len(params) : params[r].is_output => params[r].name # n
                  => n \in DOMAIN acc.alias /\ acc.alias[n] = OutputBuffer(m, q)
            BY <1>1 DEF Following
          <5> HIDE DEF params
          <5> QED BY <4>2, <4>3, <4>4, <5>1
        <4> QED BY <1>4, <4>1, <4>5 DEF OutputBuffer
      <3> QED BY <3>2, <3>3
    <2> QED BY <1>2, <2>0, <2>1, <2>2, SMTT(30)
        DEF Aliased, Latest, Unproduced, LaterInputs, OutputBuffer
  <1> QED BY <1>6, <1>7, <1>8, <1>9, <1>10 DEF CallInv

---------------------------------------------------------------------------
(* The GPU runs a pass.                                                    *)

(* A pass that is bound is one of a call that is well formed.              *)
LEMMA PassesFormed ==
  ASSUME ChainInv, NEW k \in DOMAIN bound
  PROVE  /\ specs \in Requests /\ specs \in Seq(Range(specs)) /\ DOMAIN specs = 1..Len(specs)
         /\ Len(specs) \in Nat /\ Len(bound) \in Nat /\ Len(bound) <= Len(specs)
         /\ DOMAIN bound = 1..Len(bound)
         /\ k \in DOMAIN specs /\ k \in Nat \ {0}
         /\ WellFormed(specs[k].kernel.params)
         /\ specs[k].shape \in 0..MaxLength
         /\ phase \in {"encoding", "running"}
  <1>1. bound # <<>> /\ bound \in Seq(Range(bound))
    BY DEF ChainInv, Progress
  <1>2. phase \in {"encoding", "running"} /\ specs \in Requests /\ Len(bound) <= Len(specs)
    <2>1. phase \in {"encoding", "running"} /\ specs \in Requests
      BY <1>1 DEF ChainInv, Progress
    <2>2. specs \in Seq(Range(specs))
      BY <2>1, CallAssumption DEF CallsWellFormed
    <2>3. Len(bound) \in Nat /\ Len(specs) \in Nat
      BY <1>1, <2>2
    <2> QED BY <2>1, <2>3 DEF ChainInv, Progress
  <1>3. specs \in Seq(Range(specs))
    BY <1>2, CallAssumption DEF CallsWellFormed
  <1>4. /\ DOMAIN specs = 1..Len(specs) /\ Len(specs) \in Nat
        /\ DOMAIN bound = 1..Len(bound) /\ Len(bound) \in Nat
    BY <1>1, <1>3
  <1>5. k \in DOMAIN specs /\ k \in Nat \ {0}
    BY <1>2, <1>4
  <1>6. WellFormed(specs[k].kernel.params) /\ specs[k].shape \in 0..MaxLength
    BY <1>2, <1>5, CallAssumption DEF CallsWellFormed
  <1> QED BY <1>2, <1>3, <1>4, <1>5, <1>6

(* An output's buffer is bound elsewhere only to later inputs of its name. *)
LEMMA OutputApart ==
  ASSUME ChainInv, CallInv, NEW i \in DOMAIN bound, NEW j \in Outputs(specs[i].kernel)
  PROVE  /\ DataIndex(specs[i].kernel.params, j) \in DOMAIN bound[i].bufs
         /\ OutputBuffer(i, j) \in DOMAIN words /\ OutputBuffer(i, j) \notin Range(handle)
         /\ \A k \in DOMAIN bound : \A s \in DOMAIN bound[k].bufs :
              bound[k].bufs[s] = OutputBuffer(i, j) =>
                \/ k = i /\ s = DataIndex(specs[i].kernel.params, j)
                \/ k > i /\ InputAt(specs[k].kernel.params, specs[i].kernel.params[j].name, s)
  <1>1. DataIndex(specs[i].kernel.params, j) \in DOMAIN bound[i].bufs
    BY DEF CallInv, PassBound, Served, Here, Outputs
  <1>2. OutputBuffer(i, j) \in DOMAIN words
    BY <1>1 DEF OutputBuffer, ChainInv, Recorded, Range
  <1>3. WritesApart
    BY DEF ChainInv
  <1> QED BY <1>1, <1>2, <1>3, SMTT(20) DEF WritesApart, OutputBuffer, InputAt

(* No two outputs share a buffer.                                          *)
LEMMA OutputsDiffer ==
  ASSUME ChainInv, CallInv, NEW i \in DOMAIN bound, NEW j \in Outputs(specs[i].kernel),
         NEW k \in DOMAIN bound, NEW l \in Outputs(specs[k].kernel), OutputBuffer(k, l) = OutputBuffer(i, j)
  PROVE  k = i /\ l = j
  <1> DEFINE params == specs[k].kernel.params
             s == DataIndex(params, l)
  <1>1. s \in DOMAIN bound[k].bufs /\ bound[k].bufs[s] = OutputBuffer(i, j)
    <2>1. s \in DOMAIN bound[k].bufs
      BY OutputApart
    <2> QED BY <2>1 DEF OutputBuffer
  <1>2. WellFormed(params) /\ DOMAIN params = 1..Len(params)
    BY PassesFormed, SlotsAscend
  <1>3. l \in DOMAIN params /\ params[l].is_output
    BY DEF Outputs
  <1>4. ~InputAt(params, specs[i].kernel.params[j].name, s)
    BY <1>2, <1>3, SlotsAscend DEF InputAt
  <1>5. k = i /\ s = DataIndex(specs[i].kernel.params, j)
    BY <1>1, <1>4, OutputApart
  <1>6. j \in DOMAIN params
    BY <1>5 DEF Outputs
  <1> QED BY <1>2, <1>3, <1>5, <1>6, SlotsAscend

(* Nobody writes what is bound to a slot for this pass alone.              *)
LEMMA Undisturbed ==
  ASSUME ChainInv, CallInv, NEW i \in DOMAIN bound, NEW j \in Outputs(specs[i].kernel),
         NEW k \in DOMAIN bound, NEW s \in DOMAIN bound[k].bufs,
         \A q \in DOMAIN specs[k].kernel.params :
           DataIndex(specs[k].kernel.params, q) = s =>
             ~specs[k].kernel.params[q].is_output /\ Unproduced(k, specs[k].kernel.params[q].name)
  PROVE  bound[k].bufs[s] # OutputBuffer(i, j)
  <1> SUFFICES ASSUME bound[k].bufs[s] = OutputBuffer(i, j) PROVE FALSE
    OBVIOUS
  <1>0. j \in DOMAIN specs[i].kernel.params /\ specs[i].kernel.params[j].is_output
    BY DEF Outputs
  <1>1. CASE k = i /\ s = DataIndex(specs[i].kernel.params, j)
    BY <1>0, <1>1
  <1>2. CASE k > i /\ InputAt(specs[k].kernel.params, specs[i].kernel.params[j].name, s)
    <2>1. Unproduced(k, specs[i].kernel.params[j].name)
      BY <1>2 DEF InputAt
    <2>2. i \in 1..(k - 1)
      BY <1>2, PassesFormed
    <2>3. specs[i].kernel.params[j].name \in OutputNames(specs[i].kernel)
      BY DEF OutputNames
    <2> QED BY <2>1, <2>2, <2>3 DEF Unproduced
  <1> QED BY <1>1, <1>2, OutputApart

(* A pass writes its outputs, and nothing else.                            *)
LEMMA WritesOutputs ==
  ASSUME ChainInv, CallInv, NEW i \in DOMAIN bound, NEW args, WriteOutputs(i, specs[i].kernel, args)
  PROVE  /\ \A j \in Outputs(specs[i].kernel) :
              words'[OutputBuffer(i, j)] =
                Words(Computed(specs[i].kernel, j, args), specs[i].kernel.params[j].len)
         /\ \A b \in DOMAIN words :
              (\A j \in Outputs(specs[i].kernel) : b # OutputBuffer(i, j)) => words'[b] = words[b]
  <1> DEFINE kernel == specs[i].kernel
             At(b) == {j \in Outputs(kernel) : /\ DataIndex(kernel.params, j) \in DOMAIN bound[i].bufs
                                               /\ bound[i].bufs[DataIndex(kernel.params, j)] = b}
             New(j) == Words(Computed(kernel, j, args), kernel.params[j].len)
  <1>1. words' = [b \in DOMAIN words |-> IF At(b) = {} THEN words[b] ELSE New(Max(At(b)))]
    BY DEF WriteOutputs
  <1>2. \A j \in Outputs(kernel) : j \in At(OutputBuffer(i, j))
    BY OutputApart DEF OutputBuffer
  <1>3. \A j \in Outputs(kernel) : \A l \in At(OutputBuffer(i, j)) : l = j
    BY OutputsDiffer DEF OutputBuffer
  <1>4. \A b : \A l \in At(b) : l \in Outputs(kernel) /\ b = OutputBuffer(i, l)
    BY DEF OutputBuffer
  <1>5. \A j \in Outputs(kernel) : j \in Nat
    <2>1. DOMAIN kernel.params = 1..Len(kernel.params)
      BY PassesFormed, SlotsAscend
    <2> QED BY <2>1 DEF Outputs
  <1> HIDE DEF At, New
  <1>6. ASSUME NEW j \in Outputs(kernel) PROVE words'[OutputBuffer(i, j)] = New(j)
    <2>1. At(OutputBuffer(i, j)) = {j}
      BY <1>2, <1>3
    <2>2. Max({j}) = j
      BY <1>5 DEF Max
    <2>3. OutputBuffer(i, j) \in DOMAIN words
      BY OutputApart
    <2> QED BY <1>1, <2>1, <2>2, <2>3
  <1>7. ASSUME NEW b \in DOMAIN words, \A j \in Outputs(kernel) : b # OutputBuffer(i, j)
        PROVE  words'[b] = words[b]
    <2>1. At(b) = {}
      BY <1>4, <1>7
    <2> QED BY <1>1, <2>1
  <1> QED BY <1>6, <1>7 DEF New

(* What a pass finds in its buffers is what it was promised.               *)
LEMMA SourceFits ==
  ASSUME ChainInv, CallInv, NEW i \in DOMAIN bound, i \notin done, \A k \in 1..(i - 1) : k \in done,
         NEW j \in DOMAIN specs[i].kernel.params
  PROVE  Fits(Sequences!Source(specs, i, Promised, Resident, specs[i].kernel.params[j]),
              words[OutputBuffer(i, j)])
  <1> DEFINE param == specs[i].kernel.params[j]
             name == param.name
             b == OutputBuffer(i, j)
             S == Sequences!Producers(specs, i, name)
             source == Sequences!Source(specs, i, Promised, Resident, param)
  <1>1. /\ Placed(i, param, b) /\ Provided(i, param, b, words) /\ Blank(i, param, b, words)
    BY DEF CallInv, PassBound, Served, OutputBuffer, Here
  <1>2. param.is_output \in BOOLEAN /\ i \in Nat /\ specs \in Requests /\ i \in DOMAIN specs
    BY PassesFormed DEF WellFormed
  <1>3. S = {k \in 1..(i - 1) : name \in OutputNames(specs[k].kernel)}
    <2>1. \A k : Sequences!OutputNames(specs[k].kernel) = OutputNames(specs[k].kernel)
      BY SameKernels
    <2> QED BY <2>1 DEF Sequences!Producers
  <1>4. \A w : Fits(w, w)
    BY DEF Fits, Keeping
  <1> SUFFICES Fits(source, words[b])
    OBVIOUS
  <1> HIDE DEF b
  <1>5. CASE ~param.is_output /\ name \in DOMAIN specs[i].resident
    <2> DEFINE h == specs[i].resident[name]
    <2>1. source = Resident[h]
      BY <1>5 DEF Sequences!Source
    <2>2. h \in Handles
      <3>1. Range(specs[i].resident) \subseteq Handles
        BY <1>2, CallAssumption DEF CallsWellFormed
      <3> QED BY <1>5, <3>1 DEF Range
    <2>3. handle[h] # NoBuffer
      BY <1>2, <1>5 DEF CallInv, Callable
    <2>4. b = handle[h]
      BY <1>1, <1>5 DEF Placed
    <2> HIDE DEF h, source
    <2>5. Resident[h] = words[b]
      BY <2>2, <2>3, <2>4 DEF Resident
    <2> QED BY <1>4, <2>1, <2>5
  <1>6. CASE ~param.is_output /\ name \notin DOMAIN specs[i].resident /\ S # {}
    <2> DEFINE k == Max(S)
    <2>1. k \in S /\ \A q \in S : q <= k
      <3>1. S \in SUBSET (1..(i - 1)) /\ i - 1 \in Nat
        BY <1>2, <1>3, <1>6
      <3> HIDE DEF S
      <3> QED BY <1>6, <3>1, MaxIn
    <2>2. source = Promised[k][name]
      <3>1. Sequences!Max(S) = k
        BY SameKernels
      <3>2. source = Promised[Sequences!Max(S)][name]
        BY <1>6 DEF Sequences!Source
      <3> QED BY <3>1, <3>2
    <2> HIDE DEF k, source, S
    <2>3. k \in 1..(i - 1) /\ name \in OutputNames(specs[k].kernel)
      BY <1>3, <2>1
    <2>4. PICK l \in Outputs(specs[k].kernel) : specs[k].kernel.params[l].name = name
      BY <2>3 DEF OutputNames
    <2>5. Latest(i, name, k, l)
      <3>1. ASSUME NEW m \in (k + 1)..(i - 1) PROVE name \notin OutputNames(specs[m].kernel)
        <4>1. m \in 1..(i - 1) /\ ~(m <= k)
          BY <1>2, <2>3
        <4> QED BY <1>3, <2>1, <4>1
      <3> QED BY <2>3, <2>4, <3>1 DEF Latest
    <2>6. b = OutputBuffer(k, l)
      BY <1>1, <1>6, <2>5 DEF Placed
    <2>7. PassDone(k)
      BY <2>3 DEF CallInv
    <2> QED BY <2>2, <2>4, <2>6, <2>7 DEF PassDone
  <1>7. CASE ~param.is_output /\ name \notin DOMAIN specs[i].resident /\ S = {}
    <2>1. source = Sequences!HostWords(specs[i], i, name)
      BY <1>7 DEF Sequences!Source
    <2>2. Unproduced(i, name)
      BY <1>3, <1>7 DEF Unproduced
    <2> HIDE DEF source, name
    <2> QED BY <1>1, <1>4, <1>7, <2>1, <2>2 DEF Provided, name
  <1>8. CASE param.is_output
    <2>1. source = IF name \in LaterInputs(i) THEN Nothing ELSE Sequences!HostWords(specs[i], i, name)
      BY <1>8, SameKernels DEF Sequences!Source, LaterInputs
    <2> HIDE DEF source
    <2> QED BY <1>1, <1>4, <1>8, <2>1 DEF Blank
  <1> QED BY <1>2, <1>5, <1>6, <1>7, <1>8

(* A parameter is read as it is when passes run one by one.                *)
LEMMA ArgumentKeeps ==
  ASSUME ChainInv, CallInv, NEW i \in DOMAIN bound, i \notin done, \A k \in 1..(i - 1) : k \in done,
         NEW j \in DOMAIN specs[i].kernel.params,
         NEW param, param = specs[i].kernel.params[j]
  PROVE  Keeping(IF param.reads
                 THEN Sequences!Read(Sequences!Source(specs, i, Promised, Resident, param),
                        Sequences!Extent(param, Sequences!ShapeOf(param, specs[i].shape).value))
                 ELSE "ignored",
                 BoundArgument(i, param, DataIndex(specs[i].kernel.params, j)))
  <1> DEFINE d == DataIndex(specs[i].kernel.params, j)
             source == Sequences!Source(specs, i, Promised, Resident, param)
             shape == ShapeOf(param, specs[i].shape).value
             held == words[OutputBuffer(i, j)]
  <1>1. Fits(source, held)
    BY SourceFits
  <1>2. /\ d \in DOMAIN bound[i].bufs /\ held = words[bound[i].bufs[d]]
        /\ ~MissingMetadata(param, specs[i].shape)
        /\ param.strided => Described(Here(i), d, param, specs[i].shape)
    BY DEF CallInv, PassBound, Served, OutputBuffer, Here
  <1>3. \A s \in DOMAIN bound[i].bufs : Binding(i, s) = words[bound[i].bufs[s]]
    BY DEF Binding
  <1>4. param.strided \in BOOLEAN /\ param.len \in 0..MaxLength /\ specs[i].shape \in 0..MaxLength
    BY PassesFormed DEF WellFormed
  <1> HIDE DEF source, held, d
  <1>5. param.strided => /\ Binding(i, d + 1) = ShapeOf(param, specs[i].shape)
                         /\ Binding(i, d + 2) = StridesOf(param)
    BY <1>2, <1>3 DEF Described, Here
  <1>6. param.strided => \E n \in 1..MaxLength : shape = <<"shape", n>>
    <2> SUFFICES ASSUME param.strided PROVE \E n \in 1..MaxLength : shape = <<"shape", n>>
      OBVIOUS
    <2> DEFINE n == IF specs[i].shape > 0 THEN specs[i].shape ELSE param.len
    <2>1. shape = <<"shape", n>>
      BY DEF ShapeOf, Words
    <2>2. MaxLength \in Nat
      BY PowersNat
    <2>3. n \in 1..MaxLength
      BY <1>2, <1>4, <2>2 DEF MissingMetadata, Dynamic
    <2> HIDE DEF n, shape
    <2> QED BY <2>1, <2>3
  <1>7. /\ Sequences!Extent(param, Sequences!ShapeOf(param, specs[i].shape).value) = Extent(param, shape)
        /\ \A n : Sequences!Read(source, n) = Read(source, n)
    BY SameKernels
  <1>8. Binding(i, d) = held
    BY <1>2, <1>3
  <1>9. CASE ~param.reads
    <2>1. BoundArgument(i, param, d) = "ignored"
      BY <1>9 DEF BoundArgument
    <2> QED BY <1>9, <2>1 DEF Keeping, d
  <1>10. CASE param.reads
    <2>1. BoundArgument(i, param, d) = Read(held, Extent(param, shape))
      <3>1. CASE param.strided
        <4>1. Binding(i, d + 1).value = shape /\ ~(Binding(i, d + 2) # StridesOf(param))
          BY <1>5, <3>1
        <4>2. ~(\A n \in 1..MaxLength : Binding(i, d + 1).value # <<"shape", n>>)
          BY <1>6, <3>1, <4>1
        <4> HIDE DEF shape
        <4> QED BY <1>8, <1>10, <3>1, <4>1, <4>2 DEF BoundArgument
      <3>2. CASE ~param.strided
        <4>1. \A v : Extent(param, v) = param.len
          BY <3>2 DEF Extent
        <4>2. BoundArgument(i, param, d) = Read(Binding(i, d), Extent(param, Binding(i, d + 1).value))
          BY <1>10, <3>2 DEF BoundArgument
        <4> QED BY <1>8, <4>1, <4>2
      <3> QED BY <1>4, <3>1, <3>2
    <2>2. Keeping(Read(source, Extent(param, shape)), Read(held, Extent(param, shape)))
      BY <1>1, ReadKeeping
    <2> HIDE DEF shape
    <2> QED BY <1>7, <1>10, <2>1, <2>2 DEF d, source
  <1> QED BY <1>9, <1>10

(* The scalar is the caller's, where it is expected.                       *)
LEMMA ScalarKeeps ==
  ASSUME ChainInv, CallInv, NEW i \in DOMAIN bound, specs[i].kernel.constexpr
  PROVE  Keeping(IF specs[i].scalar THEN <<"scalar", i>> ELSE Unspecified,
                 Read(Binding(i, TensorSlots(specs[i].kernel.params) + 1), 1))
  <1> DEFINE slot == TensorSlots(specs[i].kernel.params) + 1
             held == Binding(i, slot)
  <1>1. ScalarBound(i)
    BY DEF CallInv, PassBound
  <1>2. held = Scalar(i) \/ (~specs[i].scalar /\ held = Words(<<"zero">>, 1))
    <2> HIDE DEF slot
    <2> QED BY <1>1 DEF ScalarBound, Binding, slot
  <1>3. specs[i].scalar => held = Words(<<"scalar", i>>, 1)
    BY <1>2 DEF Scalar
  <1>4. specs[i].scalar => Read(held, 1) = <<"scalar", i>>
    BY <1>3 DEF Read, Words
  <1> QED BY <1>4 DEF Keeping

(* A pass computes from its bindings what it computes in the sequence.     *)
LEMMA PassKeeps ==
  ASSUME ChainInv, CallInv, NEW i \in DOMAIN bound, i \notin done, \A k \in 1..(i - 1) : k \in done,
         NEW j \in Outputs(specs[i].kernel)
  PROVE  Fits(Promised[i][specs[i].kernel.params[j].name],
              Words(Computed(specs[i].kernel, j, BoundArguments(i, specs[i].kernel)),
                    specs[i].kernel.params[j].len))
  <1> DEFINE kernel == specs[i].kernel
             params == kernel.params
             N == Len(params)
             Arg(param) == IF param.reads
                           THEN Sequences!Read(Sequences!Source(specs, i, Promised, Resident, param),
                                  Sequences!Extent(param, Sequences!ShapeOf(param, specs[i].shape).value))
                           ELSE "ignored"
             Found(k) == BoundArgument(i, params[k], DataIndex(params, k))
             x == IF specs[i].scalar THEN <<"scalar", i>> ELSE Unspecified
             y == Read(Binding(i, TensorSlots(params) + 1), 1)
             F == [k \in DOMAIN params |-> Arg(params[k])]
             G == [k \in DOMAIN params |-> Found(k)]
             p == Sequences!Arguments(specs, i, Promised, Resident)
             h == BoundArguments(i, kernel)
  <1>1. /\ specs \in Seq(Range(specs)) /\ i \in 1..Len(specs) /\ WellFormed(params)
    BY PassesFormed
  <1>2. N \in Nat /\ DOMAIN params = 1..N
    BY <1>1, SlotsAscend
  <1>3. \A k \in DOMAIN params : Keeping(Arg(params[k]), Found(k))
    BY ArgumentKeeps
  <1>4. /\ p = F \o (IF kernel.constexpr THEN <<x>> ELSE <<>>)
        /\ h = G \o (IF kernel.constexpr THEN <<y>> ELSE <<>>)
    BY DEF Sequences!Arguments, BoundArguments
  <1>5. kernel.constexpr => Keeping(x, y)
    BY ScalarKeeps
  <1> HIDE DEF Arg, Found, x, y, p, h, kernel
  <1>6. /\ DOMAIN F = 1..N /\ F = [k \in 1..N |-> F[k]]
        /\ DOMAIN G = 1..N /\ G = [k \in 1..N |-> G[k]]
        /\ \A k \in 1..N : Keeping(F[k], G[k])
    BY <1>2, <1>3
  <1> HIDE DEF F, G
  <1>7. Keeping(Computed(kernel, j, p), Computed(kernel, j, h))
    <2>1. CASE kernel.constexpr
      <3>1. p = F \o <<x>> /\ h = G \o <<y>>
        BY <1>4, <2>1
      <3>2. /\ DOMAIN p = 1..(N + 1) /\ p = [k \in 1..(N + 1) |-> p[k]]
            /\ p[N + 1] = x /\ \A k \in 1..N : p[k] = F[k]
        <4> DEFINE c == F \o <<x>>
        <4> HIDE DEF N
        <4>1. /\ DOMAIN c = 1..(N + 1) /\ c = [k \in 1..(N + 1) |-> c[k]]
              /\ c[N + 1] = x /\ \A k \in 1..N : c[k] = F[k]
          BY <1>2, <1>6, Concatenated
        <4>2. p = c
          BY <3>1
        <4> HIDE DEF c
        <4> QED BY <4>1, <4>2
      <3>3. /\ DOMAIN h = 1..(N + 1) /\ h = [k \in 1..(N + 1) |-> h[k]]
            /\ h[N + 1] = y /\ \A k \in 1..N : h[k] = G[k]
        <4> DEFINE c == G \o <<y>>
        <4> HIDE DEF N
        <4>1. /\ DOMAIN c = 1..(N + 1) /\ c = [k \in 1..(N + 1) |-> c[k]]
              /\ c[N + 1] = y /\ \A k \in 1..N : c[k] = G[k]
          BY <1>2, <1>6, Concatenated
        <4>2. h = c
          BY <3>1
        <4> HIDE DEF c
        <4> QED BY <4>1, <4>2
      <3>4. \A k \in 1..(N + 1) : Keeping(p[k], h[k])
        <4>1. \A k \in 1..(N + 1) : k \in 1..N \/ k = N + 1
          BY <1>2
        <4> QED BY <1>5, <1>6, <2>1, <3>2, <3>3, <4>1
      <3> DEFINE M == N + 1
      <3>5. /\ p = [k \in 1..M |-> p[k]] /\ h = [k \in 1..M |-> h[k]]
            /\ DOMAIN p = 1..M /\ DOMAIN h = 1..M /\ \A k \in 1..M : Keeping(p[k], h[k])
        BY <3>2, <3>3, <3>4
      <3> HIDE DEF M
      <3> QED BY <3>5, ComputedKeeping
    <2>2. CASE ~kernel.constexpr
      <3>1. p = F \o <<>> /\ h = G \o <<>>
        BY <1>4, <2>2
      <3>2. F \o <<>> = F
        BY <1>2, <1>6, Concatenated
      <3>3. G \o <<>> = G
        BY <1>2, <1>6, Concatenated
      <3>4. p = F /\ h = G
        BY <3>1, <3>2, <3>3
      <3> QED BY <1>6, <3>4, ComputedKeeping
    <2> QED BY <2>1, <2>2
  <1>8. Promised[i][params[j].name] = Words(Computed(kernel, j, p), params[j].len)
    <2>1. Promised[i] = Sequences!PassOutputs(specs, i, p)
      BY <1>1, SequenceUnfolds DEF Promised, p
    <2> QED BY <1>1, <2>1, PassComputes DEF kernel
  <1> QED BY <1>7, <1>8 DEF Fits, Words, kernel, h

(* What was promised of earlier passes and of residents stays.             *)
LEMMA PromisesStay ==
  ASSUME specs' = specs, Resident' = Resident
  PROVE  Promised' = Promised
  BY Zenon DEF Promised

(* A pass that runs does what was promised, and leaves the others be.      *)
LEMMA ExecuteCall ==
  ASSUME ChainInv, CallInv, NEW i \in DOMAIN bound, Execute(i)
  PROVE  CallInv' /\ Resident' = Resident
  <1> DEFINE kernel == specs[i].kernel
             args == BoundArguments(i, kernel)
  <1>1. /\ phase = "running" /\ i \notin done
        /\ \A k \in 1..(i - 1) : Ordered(k, i) => k \in done
        /\ WriteOutputs(i, specs[i].kernel, args)
        /\ done' = done \cup {i}
        /\ specs' = specs /\ handle' = handle /\ bound' = bound /\ barriers' = barriers
        /\ phase' = phase /\ outcome' = outcome /\ single' = single
    BY DEF Execute
  <1>2. /\ i \in DOMAIN specs /\ i \in Nat \ {0} /\ DOMAIN specs = 1..Len(specs) /\ Len(specs) \in Nat
        /\ DOMAIN bound = 1..Len(bound) /\ Len(bound) \in Nat /\ Len(bound) <= Len(specs)
    BY PassesFormed
  <1> HIDE DEF args
  <1>3. \A k \in 1..(i - 1) : k \in done
    <2> SUFFICES ASSUME NEW k \in 1..(i - 1) PROVE Ordered(k, i)
      BY <1>1
    <2>1. k \in DOMAIN bound /\ k < Len(specs) /\ k < i /\ k <= k
      BY <1>2
    <2>2. k \in barriers
      BY <2>1 DEF CallInv, InOrder
    <2> QED BY <2>1, <2>2 DEF Ordered
  <1>4. /\ \A j \in Outputs(kernel) :
              words'[OutputBuffer(i, j)] = Words(Computed(kernel, j, args), kernel.params[j].len)
        /\ \A b \in DOMAIN words :
              (\A j \in Outputs(kernel) : b # OutputBuffer(i, j)) => words'[b] = words[b]
    BY <1>1, WritesOutputs
  <1>5. \A h \in Handles : handle[h] # NoBuffer => words'[handle[h]] = words[handle[h]]
    <2> SUFFICES ASSUME NEW h \in Handles, handle[h] # NoBuffer PROVE words'[handle[h]] = words[handle[h]]
      OBVIOUS
    <2>1. handle[h] \in DOMAIN words /\ handle[h] \in Range(handle)
      BY DEF ChainInv, Recorded, Range
    <2>2. \A j \in Outputs(kernel) : handle[h] # OutputBuffer(i, j)
      BY <2>1, OutputApart
    <2> QED BY <1>4, <2>1, <2>2
  <1>6. Resident' = Resident
    BY <1>1, <1>5 DEF Resident
  <1>7. Promised' = Promised
    BY <1>1, <1>6, PromisesStay
  <1>8. Callable'
    <2>1. \A h \in Handles : handle'[h] # NoBuffer => words'[handle'[h]].len # 0
      BY <1>1, <1>5 DEF CallInv, Callable
    <2>2. \A k \in DOMAIN specs : Plannable(specs[k])'
      BY <1>1 DEF CallInv, Callable, Plannable
    <2> QED BY <1>1, <2>1, <2>2 DEF CallInv, Callable
  <1>9. InOrder'
    <2>1. \A n \in done' : \A k \in 1..(n - 1) : k \in done'
      BY <1>1, <1>3 DEF CallInv, InOrder
    <2> QED BY <1>1, <2>1 DEF CallInv, InOrder
  <1>10. ASSUME NEW k \in DOMAIN bound, NEW s \in DOMAIN bound[k].bufs,
                \A q \in DOMAIN specs[k].kernel.params :
                  DataIndex(specs[k].kernel.params, q) = s =>
                    ~specs[k].kernel.params[q].is_output /\ Unproduced(k, specs[k].kernel.params[q].name)
         PROVE  words'[bound[k].bufs[s]] = words[bound[k].bufs[s]]
    <2>1. bound[k].bufs[s] \in DOMAIN words
      BY DEF ChainInv, Recorded, Range
    <2>2. \A j \in Outputs(kernel) : bound[k].bufs[s] # OutputBuffer(i, j)
      BY <1>10, Undisturbed
    <2> QED BY <1>4, <2>1, <2>2
  <1>11. ASSUME NEW k \in DOMAIN bound, NEW l \in Outputs(specs[k].kernel), k # i
         PROVE  words'[OutputBuffer(k, l)] = words[OutputBuffer(k, l)]
    <2>1. OutputBuffer(k, l) \in DOMAIN words
      BY OutputApart
    <2>2. \A j \in Outputs(kernel) : OutputBuffer(k, l) # OutputBuffer(i, j)
      BY <1>11, OutputsDiffer
    <2> QED BY <1>4, <2>1, <2>2
  <1>12. ASSUME NEW k \in DOMAIN bound PROVE PassBound(k)'
    <2> DEFINE params == specs[k].kernel.params
    <2>1. /\ k \in Nat /\ WellFormed(params) /\ DOMAIN params = 1..Len(params)
      BY PassesFormed, SlotsAscend
    <2>2. PassBound(k)
      BY DEF CallInv
    <2>3. ASSUME NEW j \in DOMAIN params
          PROVE  /\ Served(k, specs[k].kernel.params, j, Here(k))'
                 /\ k \notin done' => Blank(k, params[j], OutputBuffer(k, j), words)'
      <3> DEFINE d == DataIndex(params, j)
                 param == params[j]
      <3>1. Served(k, specs[k].kernel.params, j, Here(k))
        BY <2>2 DEF PassBound
      <3>2. /\ d \in DOMAIN bound[k].bufs
            /\ param.strided => {d + 1, d + 2} \subseteq DOMAIN bound[k].bufs
        BY <3>1 DEF Served, Here, Described
      <3>3. param.strided => /\ words'[bound[k].bufs[d + 1]] = words[bound[k].bufs[d + 1]]
                             /\ words'[bound[k].bufs[d + 2]] = words[bound[k].bufs[d + 2]]
        <4> SUFFICES ASSUME param.strided
                     PROVE  /\ words'[bound[k].bufs[d + 1]] = words[bound[k].bufs[d + 1]]
                            /\ words'[bound[k].bufs[d + 2]] = words[bound[k].bufs[d + 2]]
          OBVIOUS
        <4>1. \A q \in DOMAIN params : DataIndex(params, q) # d + 1 /\ DataIndex(params, q) # d + 2
          BY <2>1, SlotsApart
        <4>2. d + 1 \in DOMAIN bound[k].bufs /\ d + 2 \in DOMAIN bound[k].bufs
          BY <3>2
        <4> HIDE DEF d
        <4> QED BY <1>10, <4>1, <4>2
      <3>4. ~param.is_output /\ Unproduced(k, param.name) =>
              words'[bound[k].bufs[d]] = words[bound[k].bufs[d]]
        <4>1. \A q \in DOMAIN params : DataIndex(params, q) = d => q = j
          BY <2>1, SlotsAscend
        <4> QED BY <1>10, <3>2, <4>1
      <3>5. Served(k, specs[k].kernel.params, j, Here(k))'
        <4>1. Here(k).bufs = bound[k].bufs /\ Here(k).words = words
          BY DEF Here
        <4>2. bound'[k].bufs = Here(k).bufs /\ \A m \in 1..(k - 1) : bound'[m].bufs = bound[m].bufs
          BY <1>1, <4>1
        <4> QED BY <1>1, <2>1, <3>1, <3>3, <3>4, <4>1, <4>2, ServedThen
      <3>6. ASSUME k \notin done' PROVE Blank(k, params[j], OutputBuffer(k, j), words)'
        <4>1. k # i /\ k \notin done
          BY <1>1, <3>6
        <4>2. Blank(k, params[j], OutputBuffer(k, j), words)
          BY <2>2, <4>1 DEF PassBound
        <4>3. params[j].is_output => words'[OutputBuffer(k, j)] = words[OutputBuffer(k, j)]
          BY <1>11, <4>1 DEF Outputs
        <4>4. OutputBuffer(k, j)' = OutputBuffer(k, j)
          BY <1>1 DEF OutputBuffer
        <4>5. LaterInputs(k)' = LaterInputs(k)
          BY <1>1, SameCall
        <4> QED BY <1>1, <4>2, <4>3, <4>4, <4>5 DEF Blank
      <3> QED BY <3>5, <3>6
    <2>4. ScalarBound(k)'
      <3> DEFINE slot == TensorSlots(params) + 1
      <3>1. ScalarBound(k)
        BY <2>2 DEF PassBound
      <3>2. \A q \in DOMAIN params : DataIndex(params, q) # slot
        BY <2>1, SlotsApart
      <3> HIDE DEF slot
      <3>3. slot \in DOMAIN bound[k].bufs => words'[bound[k].bufs[slot]] = words[bound[k].bufs[slot]]
        BY <1>10, <3>2
      <3>4. Scalar(k)' = Scalar(k)
        BY <1>1 DEF Scalar
      <3> QED BY <1>1, <3>1, <3>3, <3>4 DEF ScalarBound, slot
    <2> QED BY <1>1, <2>2, <2>3, <2>4 DEF PassBound
  <1>13. ASSUME NEW k \in done' PROVE PassDone(k)'
    <2>1. k \in DOMAIN bound
      BY <1>1, <1>13 DEF ChainInv, Progress
    <2> SUFFICES ASSUME NEW l \in Outputs(specs[k].kernel)
                 PROVE  Fits(Promised[k][specs[k].kernel.params[l].name], words'[OutputBuffer(k, l)])
      <3>1. \A l : OutputBuffer(k, l)' = OutputBuffer(k, l)
        BY <1>1 DEF OutputBuffer
      <3> QED BY <1>1, <1>7, <3>1 DEF PassDone
    <2>2. CASE k = i
      <3>1. Fits(Promised[i][kernel.params[l].name], Words(Computed(kernel, l, args), kernel.params[l].len))
        BY <1>1, <1>3, <2>2, PassKeeps DEF args
      <3> QED BY <1>4, <2>2, <3>1
    <2>3. CASE k # i
      <3>1. PassDone(k)
        BY <1>1, <1>13, <2>3 DEF CallInv
      <3> QED BY <1>11, <2>1, <2>3, <3>1 DEF PassDone
    <2> QED BY <2>2, <2>3
  <1> QED BY <1>1, <1>6, <1>8, <1>9, <1>12, <1>13 DEF CallInv

---------------------------------------------------------------------------
(* The call returns.                                                       *)

(* What a single dispatch refuses, in MetalChain's terms.                  *)
LEMMA LegalPass ==
  ASSUME NEW pass
  PROVE  Sequences!Legal(pass) <=>
           /\ pass.legal_grid /\ Plannable(pass)
           /\ \A j \in DOMAIN pass.kernel.params : ~MissingMetadata(pass.kernel.params[j], pass.shape)
  <1>1. \A param, n : /\ Sequences!Underprovided(param, n) = Underprovided(param, n)
                      /\ Sequences!MissingMetadata(param, n) = MissingMetadata(param, n)
    BY SameKernels
  <1> QED BY <1>1 DEF Sequences!Legal, Plannable

(* A call that is refused has a pass a single dispatch would refuse.       *)
LEMMA RefusalFulfils ==
  ASSUME NEW i \in DOMAIN specs, ~Sequences!Legal(specs[i])
  PROVE  Sequences!Fulfils(specs, Resident, Failed("Refused"))
  BY Zenon DEF Sequences!Fulfils, Failed

(* A return with an outcome that was promised.                             *)
LEMMA ReturnFulfils ==
  ASSUME specs \in Requests, specs' = Sequences!NoRequest, Resident' = Resident,
         Sequences!Fulfils(specs, Resident, outcome')
  PROVE  Sequences!Return
  <1>1. specs # Sequences!NoRequest
    BY CallAssumption DEF CallsWellFormed, Sequences!NoRequest
  <1> QED BY <1>1 DEF Sequences!Return, Resident

(* What the host reads of a pass is what was promised of it.               *)
LEMMA ResultKeeps ==
  ASSUME ChainInv, CallInv, phase = "running", done = DOMAIN bound, NEW i \in DOMAIN specs
  PROVE  LET promised == Sequences!Returned(specs, Promised)[i]
             results == PassResults(i, specs[i].kernel.params)
         IN  /\ DOMAIN results = DOMAIN promised
             /\ \A n \in DOMAIN promised : Keeping(promised[n], results[n])
  <1> DEFINE params == specs[i].kernel.params
             kernel == specs[i].kernel
             returned == {j \in Outputs(specs[i].kernel) : params[j].name \notin LaterInputs(i)}
             Index(n) == CHOOSE j \in returned : params[j].name = n
             Bytes(j) == OutputBytes(i, DataIndex(params, j), params[j].len)
             promised == Sequences!Returned(specs, Promised)[i]
             results == PassResults(i, params)
             p == Sequences!Arguments(specs, i, Promised, Resident)
  <1>1. i \in DOMAIN bound
    <2>1. bound \in Seq(Range(bound)) /\ Len(bound) = Len(specs) /\ specs \in Requests
      BY DEF ChainInv, Progress
    <2>2. specs \in Seq(Range(specs))
      BY <2>1, CallAssumption DEF CallsWellFormed
    <2> QED BY <2>1, <2>2
  <1>2. /\ specs \in Seq(Range(specs)) /\ i \in 1..Len(specs) /\ WellFormed(params)
    BY <1>1, PassesFormed
  <1>3. /\ DOMAIN Promised[i] = OutputNames(kernel)
        /\ \A j \in Outputs(kernel) :
             Promised[i][params[j].name] = Words(Computed(kernel, j, p), params[j].len)
    <2>1. Promised[i] = Sequences!PassOutputs(specs, i, p)
      BY <1>2, SequenceUnfolds DEF Promised
    <2> HIDE DEF p
    <2> QED BY <1>2, <2>1, PassComputes
  <1>4. promised = [n \in DOMAIN Promised[i] \ LaterInputs(i) |-> Promised[i][n].value]
    BY DEF Sequences!Returned, LaterInputs
  <1>5. results = [n \in {params[j].name : j \in returned} |-> Bytes(Index(n))]
    BY DEF PassResults
  <1>6. \A j \in returned : Index(params[j].name) = j
    BY <1>2 DEF WellFormed, Outputs
  <1>7. ASSUME NEW j \in returned PROVE Keeping(Promised[i][params[j].name].value, Bytes(j))
    <2> DEFINE b == OutputBuffer(i, j)
    <2>1. j \in Outputs(kernel) /\ j \in DOMAIN params /\ params[j].is_output /\ params[j].name \notin LaterInputs(i)
      BY DEF Outputs
    <2>2. DataIndex(params, j) \in DOMAIN bound[i].bufs /\ ~IsPrivate(b)
      BY <1>1, <2>1 DEF CallInv, PassBound, Served, Placed, Here, OutputBuffer
    <2>3. Bytes(j) = Read(words[b], params[j].len)
      BY <2>2 DEF OutputBytes, OutputBuffer
    <2>4. Fits(Promised[i][params[j].name], words[b])
      BY <1>1, <2>1 DEF CallInv, PassDone
    <2>5. Promised[i][params[j].name].len = params[j].len
      <3>1. Promised[i][params[j].name] = Words(Computed(kernel, j, p), params[j].len)
        BY <1>3, <2>1
      <3> HIDE DEF p, params, kernel
      <3> QED BY <3>1 DEF Words
    <2> HIDE DEF b
    <2>6. Read(Promised[i][params[j].name], params[j].len) = Promised[i][params[j].name].value
      <3>1. params[j].len \in Nat
        BY <1>2, <2>1 DEF WellFormed
      <3> QED BY <2>5, <3>1 DEF Read
    <2>7. Keeping(Read(Promised[i][params[j].name], params[j].len), Read(words[b], params[j].len))
      BY <2>4, ReadKeeping
    <2> QED BY <2>3, <2>6, <2>7
  <1>8. OutputNames(kernel) \ LaterInputs(i) = {params[j].name : j \in returned}
    BY DEF OutputNames
  <1> HIDE DEF Index, Bytes, promised, results, p
  <1>9. DOMAIN results = DOMAIN promised
    BY <1>3, <1>4, <1>5, <1>8
  <1>10. ASSUME NEW n \in DOMAIN promised PROVE Keeping(promised[n], results[n])
    <2>1. PICK j \in returned : n = params[j].name
      BY <1>3, <1>4, <1>8
    <2>2. promised[n] = Promised[i][n].value
      BY <1>4
    <2>3. results[n] = Bytes(j)
      BY <1>5, <1>6, <2>1
    <2> QED BY <1>7, <2>1, <2>2, <2>3
  <1> QED BY <1>9, <1>10 DEF promised, results

(* The call returns what was promised.                                     *)
LEMMA ResultsFulfil ==
  ASSUME ChainInv, CallInv, phase = "running", done = DOMAIN bound
  PROVE  Sequences!Fulfils(specs, Resident,
           Sequences!Results([i \in DOMAIN specs |-> PassResults(i, specs[i].kernel.params)]))
  <1> DEFINE results == [i \in DOMAIN specs |-> PassResults(i, specs[i].kernel.params)]
             promised == Sequences!Returned(specs, Promised)
  <1>1. ASSUME NEW i \in DOMAIN specs PROVE Sequences!Legal(specs[i])
    <2>1. Plannable(specs[i])
      BY DEF CallInv, Callable
    <2>2. i \in DOMAIN bound
      <3>1. bound \in Seq(Range(bound)) /\ Len(bound) = Len(specs) /\ specs \in Requests
        BY DEF ChainInv, Progress
      <3>2. specs \in Seq(Range(specs))
        BY <3>1, CallAssumption DEF CallsWellFormed
      <3> QED BY <3>1, <3>2
    <2>3. /\ specs[i].legal_grid
          /\ \A j \in DOMAIN specs[i].kernel.params : ~MissingMetadata(specs[i].kernel.params[j], specs[i].shape)
      BY <2>2 DEF CallInv, PassBound, Served
    <2> QED BY <2>1, <2>3, LegalPass
  <1>2. DOMAIN promised = DOMAIN specs
    BY DEF Sequences!Returned
  <1>3. ASSUME NEW i \in DOMAIN promised
        PROVE  /\ DOMAIN results[i] = DOMAIN promised[i]
               /\ \A n \in DOMAIN promised[i] : promised[i][n] \in {results[i][n], Unspecified}
    BY <1>2, ResultKeeps DEF Keeping
  <1> HIDE DEF promised, results
  <1>4. Sequences!Keeps(promised, results)
    BY <1>3 DEF Sequences!Keeps
  <1>5. Sequences!Results(results).kind = "Ok" /\ Sequences!Results(results).results = results
    BY DEF Sequences!Results
  <1> QED BY <1>1, <1>4, <1>5 DEF Sequences!Fulfils, promised, results, Promised

(* A call that has returned shows it.                                      *)
LEMMA OutcomesDiffer ==
  /\ \A why : why # "None" => Failed(why) # Sequences!NoOutcome
  /\ \A r : Sequences!Results(r) # Sequences!NoOutcome
  BY DEF Failed, Sequences!Failed, Sequences!Results, Sequences!NoOutcome

---------------------------------------------------------------------------
(* A chain implements its passes.                                          *)

(* The initial states agree.                                               *)
LEMMA InitSequence == Init => Sequences!SequenceInit
  BY SameKernels DEF Init, Sequences!SequenceInit

(* Nothing happens.                                                        *)
LEMMA StutterCall ==
  ASSUME CallInv, UNCHANGED vars
  PROVE  CallInv'
  <1>1. /\ words' = words /\ handle' = handle /\ specs' = specs /\ single' = single /\ phase' = phase
        /\ bound' = bound /\ alias' = alias /\ barriers' = barriers /\ done' = done /\ outcome' = outcome
    BY DEF vars
  <1>2. Callable' <=> Callable
    BY <1>1 DEF Callable, Plannable
  <1>3. InOrder' <=> InOrder
    BY <1>1 DEF InOrder
  <1>4. Aliased' <=> Aliased
    BY <1>1 DEF Aliased, Unproduced, Latest, LaterInputs, OutputBuffer
  <1>5. \A k : PassBound(k)' <=> PassBound(k)
    BY <1>1 DEF PassBound, Served, Placed, Provided, Blank, Described, Here, ScalarBound, Scalar,
       OutputBuffer, Latest, Unproduced, LaterInputs
  <1>6. \A k : PassDone(k)' <=> PassDone(k)
    <2>1. Promised' = Promised
      BY <1>1 DEF Promised, Resident
    <2> QED BY <1>1, <2>1 DEF PassDone, OutputBuffer
  <1> QED BY <1>1, <1>2, <1>3, <1>4, <1>5, <1>6 DEF CallInv

(* Every step keeps the invariant and is one of the sequence, or none.     *)
LEMMA StepSequence ==
  ASSUME ChainInv, CallInv, [Next]_vars
  PROVE  CallInv' /\ [Sequences!SequenceNext]_(Sequences!sequenceVars)
  <1> DEFINE Step == [Sequences!SequenceNext]_(Sequences!sequenceVars)
  <1>0. ASSUME Resident' = Resident, specs' = specs, outcome' = outcome PROVE Step
    BY <1>0 DEF Sequences!sequenceVars, Resident
  <1>00. ASSUME Sequences!Return PROVE Step
    BY <1>00 DEF Sequences!SequenceNext
  <1>1. ASSUME NEW h \in Handles, DropResident(h) PROVE CallInv' /\ Step
    <2>1. CallInv' /\ Resident' = [Resident EXCEPT ![h] = Nothing]
      BY <1>1, DropCall
    <2>2. specs = <<>> /\ specs' = specs /\ outcome' = outcome
      BY <1>1 DEF DropResident, ChainInv, Progress
    <2>3. Sequences!Drop(h)
      BY <2>1, <2>2, SameKernels DEF Sequences!Drop, Sequences!NoRequest, Resident
    <2> QED BY <2>1, <2>3 DEF Sequences!SequenceNext
  <1>2. ASSUME NEW h \in Handles, NEW n \in Uploads, Upload(h, n) PROVE CallInv' /\ Step
    <2>1. CallInv' /\ Resident' = [Resident EXCEPT ![h] = Words(<<"resident", h, n>>, n)]
      BY <1>2, UploadCall
    <2>2. specs = <<>> /\ specs' = specs /\ outcome' = outcome /\ handle[h] = NoBuffer
      BY <1>2 DEF Upload, ChainInv, Progress
    <2>3. Resident[h] = Nothing
      BY <2>2 DEF Resident
    <2>4. Sequences!Upload(h, n)
      BY <2>1, <2>2, <2>3, SameKernels DEF Sequences!Upload, Sequences!NoRequest, Resident
    <2> QED BY <2>1, <2>4 DEF Sequences!SequenceNext
  <1>3. ASSUME NEW r \in Requests, NEW alone \in BOOLEAN, Call(r, alone) PROVE CallInv' /\ Step
    <2>1. CallInv' /\ Resident' = Resident
      BY <1>3, CallCall
    <2>2. /\ specs = <<>> /\ specs' = r /\ outcome' = outcome /\ outcome = Sequences!NoOutcome
          /\ \A i \in DOMAIN r : \A n \in DOMAIN r[i].resident : handle[r[i].resident[n]] # NoBuffer
      BY <1>3 DEF Call, ChainInv, Progress, CallInv, Callable
    <2>3. Sequences!Holds(Resident, r)
      <3> SUFFICES ASSUME NEW i \in DOMAIN r, NEW n \in DOMAIN r[i].resident
                   PROVE  Resident[r[i].resident[n]] # Nothing
        BY SameKernels DEF Sequences!Holds
      <3> DEFINE h == r[i].resident[n]
      <3>1. h \in Handles
        BY CallAssumption DEF CallsWellFormed, Range
      <3>2. handle[h] # NoBuffer /\ words[handle[h]].len # 0
        BY <2>2, <3>1 DEF CallInv, Callable
      <3>3. Resident[h] = words[handle[h]]
        BY <3>1, <3>2 DEF Resident
      <3> QED BY <3>2, <3>3 DEF Nothing, Words
    <2>4. Sequences!Call
      BY <2>1, <2>2, <2>3 DEF Sequences!Call, Sequences!NoRequest, Resident
    <2> QED BY <2>1, <2>4 DEF Sequences!SequenceNext
  <1>4. ASSUME Plan PROVE CallInv' /\ Step
    <2>1. CASE \A i \in DOMAIN specs : Plannable(specs[i])
      <3>1. /\ phase = "planning" /\ phase' = "encoding"
            /\ UNCHANGED <<pool, words, handle, specs, single, bound, alias, barriers, done, outcome>>
        BY <1>4, <2>1 DEF Plan
      <3>2. CallInv' /\ Resident' = Resident
        BY <2>1, <3>1, PlanCall
      <3> QED BY <1>0, <3>1, <3>2
    <2>2. ASSUME NEW i \in DOMAIN specs, ~Plannable(specs[i]) PROVE CallInv' /\ Step
      <3>1. phase = "planning" /\ Return(Failed("Refused"))
        BY <1>4, <2>2 DEF Plan
      <3>2. CallInv' /\ Resident' = Resident
        BY <3>1, OutcomesDiffer, ReturnCall
      <3>3. ~Sequences!Legal(specs[i])
        BY <2>2, LegalPass
      <3>4. Sequences!Fulfils(specs, Resident, Failed("Refused"))
        BY <3>3, RefusalFulfils
      <3>5. specs \in Requests /\ specs' = Sequences!NoRequest /\ outcome' = Failed("Refused")
        BY <3>1 DEF Return, ChainInv, Progress
      <3>6. Sequences!Return
        BY <3>2, <3>4, <3>5, ReturnFulfils
      <3> QED BY <1>00, <3>2, <3>6
    <2> QED BY <2>1, <2>2
  <1>5. ASSUME EncodePass PROVE CallInv' /\ Step
    <2> DEFINE i == Len(bound) + 1
               acc == AllBuffers(i)
               params == specs[i].kernel.params
    <2>1. phase = "encoding" /\ EncodeOrRefuse(i, acc)
      BY <1>5 DEF EncodePass
    <2>2. i \in DOMAIN specs /\ (acc.refused => \E j \in DOMAIN params : MissingMetadata(params[j], specs[i].shape))
      <3>1. i \in DOMAIN specs
        BY <2>1, NextPass
      <3>2. acc.refused => \E j \in DOMAIN params : MissingMetadata(params[j], specs[i].shape)
        BY <2>1, NextServed
      <3> QED BY <3>1, <3>2
    <2> HIDE DEF acc
    <2>3. CASE acc.refused \/ ~specs[i].legal_grid
      <3>1. Return(Failed("Refused"))
        BY <2>1, <2>3 DEF EncodeOrRefuse
      <3>2. CallInv' /\ Resident' = Resident
        BY <3>1, OutcomesDiffer, ReturnCall
      <3>3. ~Sequences!Legal(specs[i])
        BY <2>2, <2>3, LegalPass
      <3>4. Sequences!Fulfils(specs, Resident, Failed("Refused"))
        BY <2>2, <3>3, RefusalFulfils
      <3>5. specs \in Requests /\ specs' = Sequences!NoRequest /\ outcome' = Failed("Refused")
        BY <2>1, <3>1 DEF Return, ChainInv, Progress
      <3>6. Sequences!Return
        BY <3>2, <3>4, <3>5, ReturnFulfils
      <3> QED BY <1>00, <3>2, <3>6
    <2>4. CASE ~(acc.refused \/ ~specs[i].legal_grid)
      <3>1. Encode(i, acc) /\ ~acc.refused /\ specs[i].legal_grid
        BY <2>1, <2>4 DEF EncodeOrRefuse
      <3>2. CallInv' /\ Resident' = Resident
        BY <2>1, <3>1, EncodeCall DEF acc
      <3>3. specs' = specs /\ outcome' = outcome
        BY <3>1 DEF Encode
      <3> QED BY <1>0, <3>2, <3>3
    <2> QED BY <2>3, <2>4
  <1>6. ASSUME DeviceError PROVE CallInv' /\ Step
    <2>1. phase \in {"planning", "encoding"} /\ Return(Failed("DeviceError"))
      BY <1>6 DEF DeviceError
    <2>2. CallInv' /\ Resident' = Resident
      BY <2>1, OutcomesDiffer, ReturnCall
    <2>3. Sequences!Fulfils(specs, Resident, Failed("DeviceError"))
      BY DEF Sequences!Fulfils, Failed
    <2>4. specs \in Requests /\ specs' = Sequences!NoRequest /\ outcome' = Failed("DeviceError")
      BY <2>1 DEF Return, ChainInv, Progress
    <2>5. Sequences!Return
      BY <2>2, <2>3, <2>4, ReturnFulfils
    <2> QED BY <1>00, <2>2, <2>5
  <1>7. ASSUME ReadResults PROVE CallInv' /\ Step
    <2> DEFINE o == Sequences!Results([i \in DOMAIN specs |-> PassResults(i, specs[i].kernel.params)])
    <2>1. phase = "running" /\ done = DOMAIN bound /\ Return(o)
      BY <1>7 DEF ReadResults
    <2>2. Sequences!Fulfils(specs, Resident, o) /\ o # Sequences!NoOutcome
      BY <2>1, ResultsFulfil, OutcomesDiffer
    <2> HIDE DEF o
    <2>3. CallInv' /\ Resident' = Resident
      BY <2>1, <2>2, ReturnCall
    <2>4. specs \in Requests /\ specs' = Sequences!NoRequest /\ outcome' = o
      BY <2>1 DEF Return, ChainInv, Progress
    <2>5. Sequences!Return
      BY <2>2, <2>3, <2>4, ReturnFulfils
    <2> QED BY <1>00, <2>3, <2>5
  <1>8. ASSUME Accept PROVE CallInv' /\ Step
    <2>1. CallInv' /\ Resident' = Resident
      BY <1>8, AcceptCall
    <2>2. specs' = specs /\ outcome # Sequences!NoOutcome /\ outcome' = Sequences!NoOutcome
      BY <1>8 DEF Accept, CallInv, Callable
    <2>3. Sequences!Accept
      BY <2>1, <2>2 DEF Sequences!Accept, Resident
    <2> QED BY <2>1, <2>3 DEF Sequences!SequenceNext
  <1>9. ASSUME NEW i \in DOMAIN bound, Execute(i) PROVE CallInv' /\ Step
    <2>1. CallInv' /\ Resident' = Resident
      BY <1>9, ExecuteCall
    <2>2. specs' = specs /\ outcome' = outcome
      BY <1>9 DEF Execute
    <2> QED BY <1>0, <2>1, <2>2
  <1>10. ASSUME UNCHANGED vars PROVE CallInv' /\ Step
    <2>1. /\ words' = words /\ handle' = handle /\ specs' = specs /\ single' = single /\ phase' = phase
          /\ bound' = bound /\ alias' = alias /\ barriers' = barriers /\ done' = done /\ outcome' = outcome
      BY <1>10 DEF vars
    <2>2. Resident' = Resident
      BY <2>1 DEF Resident
    <2>3. CallInv'
      BY <1>10, StutterCall
    <2> QED BY <1>0, <2>1, <2>2, <2>3
  <1> SUFFICES CallInv' /\ Step
    OBVIOUS
  <1> HIDE DEF Step
  <1>11. CASE Next
    <2>1. CASE \E h \in Handles : DropResident(h) \/ \E n \in Uploads : Upload(h, n)
      BY <1>1, <1>2, <2>1
    <2>2. CASE \E r \in Requests, alone \in BOOLEAN : Call(r, alone)
      BY <1>3, <2>2
    <2>3. CASE \E i \in DOMAIN bound : Execute(i)
      BY <1>9, <2>3
    <2> QED BY <1>4, <1>5, <1>6, <1>7, <1>8, <1>11, <2>1, <2>2, <2>3 DEF Next
  <1> QED BY <1>10, <1>11

(* Recycled, aliased and resident buffers, binding slots, barriers and     *)
(* read-backs give what the passes give one by one, for every set of       *)
(* kernels, requests, handles and uploads.                                 *)
THEOREM ChainImplementsPasses == Spec => ImplementsPasses
  <1>1. Init => CallInv /\ Sequences!SequenceInit
    BY InitCall, InitSequence
  <1>2. ChainInv /\ CallInv /\ [Next]_vars => CallInv' /\ [Sequences!SequenceNext]_(Sequences!sequenceVars)
    BY StepSequence
  <1> QED BY <1>1, <1>2, ChainAlways, PTL DEF Spec, ImplementsPasses, Sequences!SequenceSpec

=============================================================================
