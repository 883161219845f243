-------------------------- MODULE CudaPoolProofs --------------------------
(***************************************************************************)
(* The caching allocator is safe for every number of threads, addresses    *)
(* and lengths: types, ownership, sizes, no lost memory, that it           *)
(* implements the abstract heap, that its counter is exact and, where      *)
(* nothing captures, bounds what is parked, and that a lone capturing      *)
(* thread keeps the memory it records.                                     *)
(***************************************************************************)
EXTENDS CudaPool, SharedFacts

(* A free-list key is at least as long as any request it serves. *)
LEMMA KeyHolds ==
  ASSUME NEW n \in Lens
  PROVE  /\ n \in Nat \ {0}
         /\ Key(n) \in Nat
         /\ Key(n) >= n
         /\ Key(n) \in Keys
         /\ size_bucket(n) >= n /\ size_bucket(n) \in Nat
         /\ pool_enabled => Key(n) = size_bucket(n)
  <1>1. n \in Nat /\ n >= 1 /\ n <= MaxLength
    BY PoolAssumption
  <1>2. size_bucket(n) \in Nat /\ size_bucket(n) >= n
    BY <1>1, BucketHoldsEveryRequest
  <1> QED BY <1>1, <1>2 DEF Key, Keys

LEMMA KeysPositive == Keys \subseteq Nat \ {0}
  BY KeyHolds DEF Keys

(* What a thread carries is an address with the length it was asked for. *)
CarriedTyped ==
  \A t \in Threads :
    /\ InHand(t) => hand[t] \in Ptrs /\ need[t] \in Lens
    /\ pc[t] = "cuMemAlloc" => need[t] \in Lens

(* What a capture made free_raw retain is still mapped. *)
LeakedMapped == \A p \in leaked : size[p] > 0

IInv ==
  /\ TypeOK
  /\ CarriedTyped
  /\ SingleOwner
  /\ BucketSized
  /\ NoLostMemory
  /\ LeakedMapped

---------------------------------------------------------------------------

LEMMA PopStack ==
  ASSUME NEW S, NEW s \in Seq(S), s # <<>>
  PROVE  /\ SubSeq(s, 1, Len(s) - 1) \in Seq(S)
         /\ DOMAIN SubSeq(s, 1, Len(s) - 1) = 1..(Len(s) - 1)
         /\ \A i \in 1..(Len(s) - 1) : SubSeq(s, 1, Len(s) - 1)[i] = s[i]
         /\ Len(s) \in DOMAIN s
         /\ DOMAIN s = 1..Len(s)
         /\ s[Len(s)] \in S
  OBVIOUS

LEMMA PushStack ==
  ASSUME NEW S, NEW s \in Seq(S), NEW e \in S
  PROVE  /\ Append(s, e) \in Seq(S)
         /\ DOMAIN Append(s, e) = DOMAIN s \cup {Len(s) + 1}
         /\ \A i \in DOMAIN s : Append(s, e)[i] = s[i]
         /\ Append(s, e)[Len(s) + 1] = e
         /\ Len(s) + 1 \notin DOMAIN s
  OBVIOUS

---------------------------------------------------------------------------

LEMMA InitInv == Init => IInv
  <1> SUFFICES ASSUME Init PROVE IInv
    OBVIOUS
  <1>1. TypeOK
    <2>1. /\ pool \in [Keys -> Seq(Ptrs)]
          /\ size \in [Ptrs -> Nat] /\ lease \in [Ptrs -> Lens \cup {0}]
      BY DEF Init
    <2>2. /\ pc \in [Threads -> PCs]
          /\ hand \in [Threads -> Ptrs \cup {NoPtr}]
          /\ need \in [Threads -> Lens \cup {0}]
      BY DEF Init, PCs
    <2>3. /\ pooledBytes \in Int
          /\ poolLock \in Threads \cup {NoThread}
          /\ bytesLock \in Threads \cup {NoThread}
          /\ recorded \subseteq Ptrs /\ orphaned \subseteq Ptrs
          /\ graph \subseteq Ptrs /\ leaked \subseteq Ptrs
      BY DEF Init
    <2>4. pool_enabled \in BOOLEAN /\ capturing \in BOOLEAN /\ streamCapturing \in BOOLEAN /\ alive \in BOOLEAN
      BY DEF Init
    <2> QED BY <2>1, <2>2, <2>3, <2>4 DEF TypeOK
  <1>2. /\ \A k \in Keys : DOMAIN pool[k] = {}
        /\ \A t \in Threads : ~InHand(t) /\ pc[t] = "idle"
        /\ \A p \in Ptrs : ~Leased(p) /\ size[p] = 0
        /\ leaked = {}
    BY DEF Init, InHand, Leased
  <1>3. \A p \in Ptrs : ~Parked(p) /\ ~Held(p)
    BY <1>2 DEF Parked, Held
  <1>4. SingleOwner
    BY <1>2, <1>3 DEF SingleOwner, ParkedOnce, CarriedOnce, OnePlace
  <1>5. BucketSized
    BY <1>2 DEF BucketSized, ParkedSized, CarriedSized, LeasedSized
  <1>6. CarriedTyped /\ NoLostMemory /\ LeakedMapped
    BY <1>2 DEF CarriedTyped, NoLostMemory, LeakedMapped
  <1> QED BY <1>1, <1>4, <1>5, <1>6 DEF IInv

---------------------------------------------------------------------------
(* How each operation on the free-lists moves one buffer. *)

(* Popping the last buffer of a list takes that buffer, and no other, out  *)
(* of the pool, and keeps the pool's part of the invariant.                *)
LEMMA PopPool ==
  ASSUME IInv, NEW k \in Keys, pool[k] # <<>>, size' = size,
         pool' = [pool EXCEPT ![k] = SubSeq(pool[k], 1, Len(pool[k]) - 1)]
  PROVE  LET p == pool[k][Len(pool[k])]
         IN /\ p \in Ptrs /\ Parked(p) /\ size[p] = k
            /\ ~Held(p) /\ ~Leased(p) /\ p \notin leaked
            /\ \A q \in Ptrs : Parked(q)' <=> Parked(q) /\ q # p
            /\ pool' \in [Keys -> Seq(Ptrs)]
            /\ ParkedOnce' /\ ParkedSized'
  <1> DEFINE p == pool[k][Len(pool[k])]
  <1>1. pool \in [Keys -> Seq(Ptrs)] /\ pool[k] \in Seq(Ptrs)
    BY DEF IInv, TypeOK
  <1>2. ParkedOnce /\ OnePlace /\ ParkedSized
    BY DEF IInv, SingleOwner, BucketSized
  <1>3. /\ p \in Ptrs
        /\ Len(pool[k]) \in DOMAIN pool[k]
        /\ DOMAIN pool'[k] = DOMAIN pool[k] \ {Len(pool[k])}
        /\ \A i \in DOMAIN pool'[k] : pool'[k][i] = pool[k][i]
        /\ pool' \in [Keys -> Seq(Ptrs)]
    BY <1>1, PopStack
  <1>4. \A j \in Keys \ {k} : pool'[j] = pool[j]
    BY <1>1
  <1>5. \A j \in Keys : \A x \in DOMAIN pool'[j] :
           x \in DOMAIN pool[j] /\ pool'[j][x] = pool[j][x]
    BY <1>3, <1>4
  <1>6. \A j \in Keys : \A x \in DOMAIN pool[j] :
           x \in DOMAIN pool'[j] \/ (j = k /\ x = Len(pool[k]))
    BY <1>3, <1>4
  <1>7. Parked(p) /\ size[p] = k
    BY <1>2, <1>3 DEF Parked, ParkedSized
  <1>8. ~Held(p) /\ ~Leased(p) /\ p \notin leaked
    BY <1>2, <1>3, <1>7 DEF OnePlace
  <1>9. ASSUME NEW q \in Ptrs PROVE Parked(q)' <=> Parked(q) /\ q # p
    <2>1. ASSUME Parked(q)' PROVE Parked(q) /\ q # p
      <3>1. PICK j \in Keys : \E x \in DOMAIN pool'[j] : pool'[j][x] = q
        BY <2>1 DEF Parked, Keys, Key
      <3>2. PICK x \in DOMAIN pool'[j] : pool'[j][x] = q
        BY <3>1
      <3>3. x \in DOMAIN pool[j] /\ pool[j][x] = q
        BY <3>2, <1>5
      <3>4. ~(j = k /\ x = Len(pool[k]))
        BY <3>2, <1>3
      <3> QED BY <3>3, <3>4, <1>2, <1>3 DEF Parked, ParkedOnce
    <2>2. ASSUME Parked(q), q # p PROVE Parked(q)'
      <3>1. PICK j \in Keys : \E x \in DOMAIN pool[j] : pool[j][x] = q
        BY <2>2 DEF Parked
      <3>2. PICK x \in DOMAIN pool[j] : pool[j][x] = q
        BY <3>1
      <3>3. x \in DOMAIN pool'[j]
        BY <3>2, <2>2, <1>6
      <3>4. pool'[j][x] = q
        BY <3>2, <3>3, <1>5
      <3> QED BY <3>3, <3>4 DEF Parked
    <2> QED BY <2>1, <2>2
  <1>10. ParkedOnce'
    BY <1>2, <1>5 DEF ParkedOnce, Keys, Key
  <1>11. ParkedSized'
    BY <1>2, <1>5 DEF ParkedSized, Keys, Key
  <1> QED BY <1>3, <1>7, <1>8, <1>9, <1>10, <1>11

(* Pushing a buffer that is carried, with the size of that list.           *)
LEMMA PushPoolList ==
  ASSUME IInv, NEW k \in Keys, NEW p \in Ptrs, ~Parked(p), size[p] = k,
         size' = size, pool' = [pool EXCEPT ![k] = Append(@, p)]
  PROVE  /\ \A q \in Ptrs : Parked(q)' <=> Parked(q) \/ q = p
         /\ pool' \in [Keys -> Seq(Ptrs)]
         /\ ParkedOnce' /\ ParkedSized'
  <1>1. pool \in [Keys -> Seq(Ptrs)] /\ pool[k] \in Seq(Ptrs)
    BY DEF IInv, TypeOK
  <1>2. ParkedOnce /\ ParkedSized
    BY DEF IInv, SingleOwner, BucketSized
  <1> DEFINE n == Len(pool[k]) + 1
  <1>3. /\ pool' \in [Keys -> Seq(Ptrs)]
        /\ DOMAIN pool'[k] = DOMAIN pool[k] \cup {n}
        /\ n \notin DOMAIN pool[k]
        /\ pool'[k][n] = p
        /\ \A x \in DOMAIN pool[k] : pool'[k][x] = pool[k][x]
    BY <1>1, PushStack
  <1>4. \A j \in Keys \ {k} : pool'[j] = pool[j]
    BY <1>1
  <1> HIDE DEF n
  <1>5. \A j \in Keys : \A x \in DOMAIN pool'[j] :
           \/ x \in DOMAIN pool[j] /\ pool'[j][x] = pool[j][x]
           \/ j = k /\ x = n /\ pool'[j][x] = p
    BY <1>3, <1>4
  <1>6. \A j \in Keys : \A x \in DOMAIN pool[j] :
           x \in DOMAIN pool'[j] /\ pool'[j][x] = pool[j][x]
    BY <1>3, <1>4
  <1>7. \A j \in Keys : \A x \in DOMAIN pool[j] : pool[j][x] # p
    BY DEF Parked
  <1>8. ASSUME NEW q \in Ptrs PROVE Parked(q)' <=> Parked(q) \/ q = p
    <2>1. ASSUME Parked(q)' PROVE Parked(q) \/ q = p
      <3>1. PICK j \in Keys : \E x \in DOMAIN pool'[j] : pool'[j][x] = q
        BY <2>1 DEF Parked
      <3> QED BY <3>1, <1>5 DEF Parked
    <2>2. ASSUME Parked(q) PROVE Parked(q)'
      <3>1. PICK j \in Keys : \E x \in DOMAIN pool[j] : pool[j][x] = q
        BY <2>2 DEF Parked
      <3>2. \E x \in DOMAIN pool'[j] : pool'[j][x] = q
        BY <3>1, <1>6
      <3> QED BY <3>2 DEF Parked
    <2>3. Parked(p)'
      BY <1>3 DEF Parked
    <2> QED BY <2>1, <2>2, <2>3
  <1>9. ParkedOnce'
    <2> SUFFICES ASSUME NEW i \in Keys, NEW j \in Keys,
                        NEW x \in DOMAIN pool'[i], NEW y \in DOMAIN pool'[j],
                        pool'[i][x] = pool'[j][y]
                 PROVE  i = j /\ x = y
      BY DEF ParkedOnce
    <2> QED BY <1>2, <1>5, <1>7 DEF ParkedOnce
  <1>10. ParkedSized'
    BY <1>2, <1>5 DEF ParkedSized
  <1> QED BY <1>3, <1>8, <1>9, <1>10

(* Nothing moves in the pool and what it parks keeps its size. *)
LEMMA PoolStays ==
  ASSUME IInv, pool' = pool, \A p \in Ptrs : Parked(p) => size'[p] = size[p]
  PROVE  /\ \A q \in Ptrs : Parked(q)' <=> Parked(q)
         /\ ParkedOnce' /\ ParkedSized'
  <1>1. pool \in [Keys -> Seq(Ptrs)] /\ ParkedOnce /\ ParkedSized
    BY DEF IInv, TypeOK, SingleOwner, BucketSized
  <1>2. \A q \in Ptrs : Parked(q)' <=> Parked(q)
    BY DEF Parked
  <1>3. ParkedOnce'
    BY <1>1 DEF ParkedOnce
  <1>4. \A k \in Keys : \A x \in DOMAIN pool[k] :
           pool[k][x] \in Ptrs /\ Parked(pool[k][x])
    BY <1>1 DEF Parked
  <1>5. ParkedSized'
    BY <1>1, <1>4 DEF ParkedSized
  <1> QED BY <1>2, <1>3, <1>5

(* What the other threads carry is untouched by a step of t. *)
OthersCarry(t) ==
  \A u \in Threads \ {t} :
    /\ InHand(u)' <=> InHand(u)
    /\ hand'[u] = hand[u] /\ need'[u] = need[u]

(* t, empty-handed, takes p, for a request or lease of length n. *)
LEMMA Take ==
  ASSUME IInv, UNCHANGED pool_enabled, NEW t \in Threads, NEW p \in Ptrs, NEW n \in Lens,
         ~InHand(t), InHand(t)', hand'[t] = p, need'[t] = n, OthersCarry(t),
         ~Held(p), size[p] = Key(n), size' = size
  PROVE  /\ \A q \in Ptrs : Held(q)' <=> Held(q) \/ q = p
         /\ CarriedOnce' /\ CarriedSized'
  <1>1. CarriedOnce /\ CarriedSized
    BY DEF IInv, SingleOwner, BucketSized
  <1>2. \A u \in Threads \ {t} :
           /\ InHand(u)' <=> InHand(u)
           /\ hand'[u] = hand[u] /\ need'[u] = need[u]
    BY DEF OthersCarry
  <1>3. \A u \in Threads : InHand(u) => hand[u] # p
    BY DEF Held
  <1>4. \A q \in Ptrs : Held(q)' <=> Held(q) \/ q = p
    BY <1>2 DEF Held
  <1>5. CarriedOnce'
    BY <1>1, <1>2, <1>3 DEF CarriedOnce
  <1>6. CarriedSized'
    <2> SUFFICES ASSUME NEW u \in Threads, InHand(u)'
                 PROVE  size'[hand'[u]] = Key(need'[u])
      BY DEF CarriedSized, Key
    <2> QED BY <1>1, <1>2 DEF CarriedSized
  <1> QED BY <1>4, <1>5, <1>6

(* t puts down what it carries; only that address may change size. *)
LEMMA PutDown ==
  ASSUME IInv, UNCHANGED pool_enabled, NEW t \in Threads, InHand(t), ~InHand(t)', OthersCarry(t),
         \A q \in Ptrs : q # hand[t] => size'[q] = size[q]
  PROVE  /\ \A q \in Ptrs : Held(q)' <=> Held(q) /\ q # hand[t]
         /\ CarriedOnce' /\ CarriedSized'
  <1>1. CarriedOnce /\ CarriedSized /\ CarriedTyped
    BY DEF IInv, SingleOwner, BucketSized
  <1>2. \A u \in Threads \ {t} :
           /\ InHand(u)' <=> InHand(u)
           /\ hand'[u] = hand[u] /\ need'[u] = need[u]
    BY DEF OthersCarry
  <1>3. \A u \in Threads \ {t} : InHand(u) => hand[u] # hand[t]
    BY <1>1 DEF CarriedOnce
  <1>4. \A q \in Ptrs : Held(q)' <=> Held(q) /\ q # hand[t]
    BY <1>2, <1>3 DEF Held
  <1>5. CarriedOnce'
    BY <1>1, <1>2 DEF CarriedOnce
  <1>6. CarriedSized'
    <2> SUFFICES ASSUME NEW u \in Threads, InHand(u)'
                 PROVE  size'[hand'[u]] = Key(need'[u])
      BY DEF CarriedSized, Key
    <2>1. u # t /\ InHand(u) /\ hand[u] \in Ptrs
      BY <1>1, <1>2 DEF CarriedTyped
    <2> QED BY <2>1, <1>1, <1>2, <1>3 DEF CarriedSized
  <1> QED BY <1>4, <1>5, <1>6

(* No hand takes, gives or exchanges anything. *)
LEMMA HandsStay ==
  ASSUME IInv, UNCHANGED pool_enabled,
         \A u \in Threads : InHand(u)' <=> InHand(u),
         \A u \in Threads : InHand(u) => hand'[u] = hand[u] /\ need'[u] = need[u],
         \A q \in Ptrs : Held(q) => size'[q] = size[q]
  PROVE  /\ \A q \in Ptrs : Held(q)' <=> Held(q)
         /\ CarriedOnce' /\ CarriedSized'
  <1>1. CarriedOnce /\ CarriedSized /\ CarriedTyped
    BY DEF IInv, SingleOwner, BucketSized
  <1>2. \A q \in Ptrs : Held(q)' <=> Held(q)
    BY DEF Held
  <1>3. CarriedOnce'
    BY <1>1 DEF CarriedOnce
  <1>4. CarriedSized'
    <2> SUFFICES ASSUME NEW u \in Threads, InHand(u)'
                 PROVE  size'[hand'[u]] = Key(need'[u])
      BY DEF CarriedSized, Key
    <2>1. InHand(u) /\ hand[u] \in Ptrs /\ Held(hand[u])
      BY <1>1 DEF CarriedTyped, Held
    <2> QED BY <2>1, <1>1 DEF CarriedSized
  <1> QED BY <1>2, <1>3, <1>4

(* A step that moves no buffer, and only changes where threads are. *)
LEMMA Bookkeeping ==
  ASSUME IInv, UNCHANGED pool_enabled, TypeOK', CarriedTyped', UNCHANGED <<pool, size, lease, leaked>>,
         \A u \in Threads : InHand(u)' <=> InHand(u),
         \A u \in Threads : InHand(u) => hand'[u] = hand[u] /\ need'[u] = need[u]
  PROVE  IInv'
  <1>1. OnePlace /\ LeasedSized /\ NoLostMemory /\ LeakedMapped
    BY DEF IInv, SingleOwner, BucketSized
  <1>2. (\A q \in Ptrs : Parked(q)' <=> Parked(q)) /\ ParkedOnce' /\ ParkedSized'
    BY PoolStays
  <1>3. (\A q \in Ptrs : Held(q)' <=> Held(q)) /\ CarriedOnce' /\ CarriedSized'
    BY HandsStay
  <1>4. OnePlace'
    BY <1>1, <1>2, <1>3 DEF OnePlace, Leased
  <1>5. LeasedSized'
    BY <1>1 DEF LeasedSized, Leased, Key
  <1>6. NoLostMemory' /\ LeakedMapped'
    BY <1>1, <1>2, <1>3 DEF NoLostMemory, LeakedMapped, Leased
  <1> QED BY <1>2, <1>3, <1>4, <1>5, <1>6 DEF IInv, SingleOwner, BucketSized

---------------------------------------------------------------------------
(* One lemma per action. *)

(* t moves on, with what it carries, or empty-handed before and after.     *)
LEMMA PcMove ==
  ASSUME IInv, UNCHANGED pool_enabled, TypeOK', NEW t \in Threads, NEW l \in PCs \ {"cuMemAlloc"},
         Goto(t, l), InHand(t)' <=> InHand(t),
         UNCHANGED <<pool, size, lease, leaked, hand, need>>
  PROVE  IInv'
  <1>1. CarriedTyped /\ pc \in [Threads -> PCs]
    BY DEF IInv, TypeOK
  <1>2. \A u \in Threads : InHand(u)' <=> InHand(u)
    BY <1>1 DEF Goto, InHand
  <1>3. CarriedTyped'
    BY <1>1, <1>2 DEF CarriedTyped, Goto
  <1> QED BY <1>2, <1>3, Bookkeeping

LEMMA CaptureInv ==
  ASSUME IInv, UNCHANGED pool_enabled, NEW t \in Threads,
         \/ BeginCapture(t) \/ CuStreamBeginCapture(t)
         \/ CuStreamBeginCaptureFails(t) \/ EndCapture(t) \/ ClearCapturing(t)
  PROVE  IInv'
  <1>1. TypeOK
    BY DEF IInv
  <1>2. pc \in [Threads -> PCs]
    BY <1>1 DEF TypeOK
  <1>3. PICK l \in {"begin", "idle", "ending"} : Goto(t, l)
    BY DEF BeginCapture, CuStreamBeginCapture, CuStreamBeginCaptureFails,
           EndCapture, ClearCapturing
  <1>4. UNCHANGED heapState /\ UNCHANGED <<hand, need>>
    BY DEF BeginCapture, CuStreamBeginCapture, CuStreamBeginCaptureFails,
           EndCapture, ClearCapturing, captureVars
  <1>5. /\ capturing' \in BOOLEAN /\ streamCapturing' \in BOOLEAN
        /\ recorded' \subseteq Ptrs /\ orphaned' \subseteq Ptrs /\ graph' \subseteq Ptrs
    BY <1>1 DEF BeginCapture, CuStreamBeginCapture, CuStreamBeginCaptureFails,
           EndCapture, ClearCapturing, captureVars, TypeOK
  <1>6. pc' \in [Threads -> PCs]
    BY <1>2, <1>3 DEF Goto, PCs
  <1>7. TypeOK'
    <2>1. /\ pool' = pool /\ pooledBytes' = pooledBytes /\ poolLock' = poolLock
          /\ bytesLock' = bytesLock /\ size' = size /\ lease' = lease
          /\ leaked' = leaked /\ alive' = alive /\ hand' = hand /\ need' = need
      BY <1>4 DEF heapState
    <2> QED BY <1>1, <1>5, <1>6, <2>1 DEF TypeOK, Keys, Key
  <1>8. ~InHand(t) /\ ~InHand(t)'
    BY <1>2, <1>3 DEF Goto, InHand, BeginCapture, CuStreamBeginCapture, Idle,
           CuStreamBeginCaptureFails, EndCapture, ClearCapturing
  <1>9. l \in PCs \ {"cuMemAlloc"}
    BY <1>3 DEF PCs
  <1>10. UNCHANGED <<pool, size, lease, leaked, hand, need>>
    BY <1>4 DEF heapState
  <1> QED BY <1>3, <1>7, <1>8, <1>9, <1>10, PcMove

LEMMA RecordLaunchInv ==
  ASSUME IInv, UNCHANGED pool_enabled, NEW t \in Threads, NEW p \in Ptrs, RecordLaunch(t, p)
  PROVE  IInv'
  <1>1. TypeOK /\ CarriedTyped
    BY DEF IInv
  <1>2. UNCHANGED heapState /\ UNCHANGED threadVars
        /\ UNCHANGED <<capturing, streamCapturing, orphaned, graph>>
        /\ recorded' = recorded \cup {p}
    BY DEF RecordLaunch
  <1>3. TypeOK'
    BY <1>1, <1>2 DEF heapState, threadVars, TypeOK, Keys, Key
  <1>4. CarriedTyped'
    BY <1>1, <1>2 DEF threadVars, CarriedTyped, InHand
  <1> QED BY <1>2, <1>3, <1>4, Bookkeeping DEF heapState, threadVars, InHand

LEMMA DropParkedInv ==
  ASSUME IInv, UNCHANGED pool_enabled, NEW t \in Threads, DropParked(t)
  PROVE  IInv'
  <1>1. TypeOK /\ pc \in [Threads -> PCs]
    BY DEF IInv, TypeOK
  <1>2. PICK l \in {"cuMemFree", "push"} : Goto(t, l)
    BY DEF DropParked
  <1>3. pc' \in [Threads -> PCs]
    BY <1>1, <1>2 DEF Goto, PCs
  <1>4. TypeOK'
    BY <1>1, <1>3 DEF DropParked, captureVars, TypeOK, Keys, Key
  <1>5. InHand(t) /\ InHand(t)'
    BY <1>1, <1>2 DEF InHand, DropParked, Goto
  <1>6. l \in PCs \ {"cuMemAlloc"}
    BY <1>2 DEF PCs
  <1> QED BY <1>2, <1>4, <1>5, <1>6, PcMove DEF DropParked

(* t returns, or asks the driver, empty-handed. *)
LEMMA EmptyHandedInv ==
  ASSUME IInv, UNCHANGED pool_enabled, NEW t \in Threads,
         (\E n \in Lens : AllocRawMiss(t, n)) \/ CuMemAllocFails(t)
  PROVE  IInv'
  <1>1. TypeOK /\ CarriedTyped /\ pc \in [Threads -> PCs]
    BY DEF IInv, TypeOK
  <1>2. PICK n \in Lens \cup {0}, l \in {"idle", "cuMemAlloc"} :
           /\ Goto(t, l) /\ Carry(t, NoPtr, n)
           /\ l = "cuMemAlloc" => n \in Lens
    BY DEF AllocRawMiss, CuMemAllocFails, Return
  <1>3. UNCHANGED <<pool, pooledBytes, poolLock, bytesLock, captureVars, size,
                    lease, leaked>>
    BY DEF AllocRawMiss, CuMemAllocFails
  <1>4. hand \in [Threads -> Ptrs \cup {NoPtr}] /\ need \in [Threads -> Lens \cup {0}]
    BY <1>1 DEF TypeOK
  <1>5. /\ pc' \in [Threads -> PCs]
        /\ hand' \in [Threads -> Ptrs \cup {NoPtr}]
        /\ need' \in [Threads -> Lens \cup {0}]
    BY <1>1, <1>2, <1>4 DEF Goto, Carry, PCs
  <1>6. TypeOK'
    BY <1>1, <1>3, <1>5 DEF captureVars, TypeOK, Keys, Key
  <1>7. ~InHand(t) /\ ~InHand(t)'
    BY <1>1, <1>2 DEF InHand, AllocRawMiss, CuMemAllocFails, Idle, Goto
  <1>8. \A u \in Threads \ {t} :
           /\ pc'[u] = pc[u] /\ hand'[u] = hand[u] /\ need'[u] = need[u]
           /\ InHand(u)' <=> InHand(u)
    BY <1>1, <1>2, <1>4 DEF Goto, Carry, InHand
  <1>9. pc'[t] = l /\ need'[t] = n
    BY <1>1, <1>2, <1>4 DEF Goto, Carry
  <1>10. CarriedTyped'
    BY <1>1, <1>2, <1>7, <1>8, <1>9 DEF CarriedTyped
  <1> QED BY <1>3, <1>6, <1>7, <1>8, <1>10, Bookkeeping

(* Where t's step leaves the other threads. *)
LEMMA OthersStay ==
  ASSUME IInv, UNCHANGED pool_enabled, NEW t \in Threads, NEW l \in PCs, NEW p \in Ptrs \cup {NoPtr},
         NEW n \in Lens \cup {0}, Goto(t, l), Carry(t, p, n)
  PROVE  /\ OthersCarry(t)
         /\ pc'[t] = l /\ hand'[t] = p /\ need'[t] = n
         /\ \A u \in Threads \ {t} : pc'[u] = pc[u]
         /\ pc' \in [Threads -> PCs]
         /\ hand' \in [Threads -> Ptrs \cup {NoPtr}]
         /\ need' \in [Threads -> Lens \cup {0}]
         /\ (InHand(t)' => p \in Ptrs /\ n \in Lens) /\ (l = "cuMemAlloc" => n \in Lens)
               => CarriedTyped'
  <1>1. /\ pc \in [Threads -> PCs]
        /\ hand \in [Threads -> Ptrs \cup {NoPtr}]
        /\ need \in [Threads -> Lens \cup {0}]
        /\ CarriedTyped
    BY DEF IInv, TypeOK
  <1>2. /\ pc'[t] = l /\ hand'[t] = p /\ need'[t] = n
        /\ pc' \in [Threads -> PCs]
        /\ hand' \in [Threads -> Ptrs \cup {NoPtr}]
        /\ need' \in [Threads -> Lens \cup {0}]
    BY <1>1 DEF Goto, Carry
  <1>3. \A u \in Threads \ {t} :
           /\ pc'[u] = pc[u] /\ hand'[u] = hand[u] /\ need'[u] = need[u]
           /\ InHand(u)' <=> InHand(u)
    BY <1>1 DEF Goto, Carry, InHand
  <1>4. ASSUME InHand(t)' => p \in Ptrs /\ n \in Lens,
               l = "cuMemAlloc" => n \in Lens
        PROVE  CarriedTyped'
    BY <1>1, <1>2, <1>3, <1>4 DEF CarriedTyped
  <1> QED BY <1>2, <1>3, <1>4 DEF OthersCarry

(* A client's lease on p ends and t takes p in hand. *)
LEMMA LeaseToHand ==
  ASSUME IInv, UNCHANGED pool_enabled, TypeOK', NEW t \in Threads, NEW p \in Ptrs, NEW l \in PCs,
         GiveUp(t, p), Goto(t, l), Carry(t, p, lease[p]), InHand(t)',
         UNCHANGED <<pool, size, leaked>>
  PROVE  IInv'
  <1>1. /\ OnePlace /\ LeasedSized /\ NoLostMemory /\ LeakedMapped
        /\ lease \in [Ptrs -> Lens \cup {0}] /\ pc \in [Threads -> PCs]
    BY DEF IInv, SingleOwner, BucketSized, TypeOK
  <1>2. Leased(p) /\ lease[p] \in Lens /\ lease' = [lease EXCEPT ![p] = 0]
    BY <1>1 DEF GiveUp, Leased
  <1>3. ~Parked(p) /\ ~Held(p) /\ p \notin leaked /\ size[p] = Key(lease[p])
    BY <1>1, <1>2 DEF OnePlace, LeasedSized
  <1>4. ~InHand(t)
    BY DEF GiveUp, Idle, InHand
  <1>5. /\ OthersCarry(t) /\ hand'[t] = p /\ need'[t] = lease[p]
        /\ CarriedTyped'
    BY <1>2, OthersStay
  <1>6. (\A q \in Ptrs : Parked(q)' <=> Parked(q)) /\ ParkedOnce' /\ ParkedSized'
    BY PoolStays
  <1>7. (\A q \in Ptrs : Held(q)' <=> Held(q) \/ q = p) /\ CarriedOnce' /\ CarriedSized'
    BY <1>2, <1>3, <1>4, <1>5, Take
  <1>8. \A q \in Ptrs : Leased(q)' <=> Leased(q) /\ q # p
    BY <1>1, <1>2 DEF Leased
  <1>9. OnePlace'
    BY <1>1, <1>3, <1>6, <1>7, <1>8 DEF OnePlace
  <1>10. LeasedSized'
    BY <1>1, <1>2, <1>8 DEF LeasedSized, Leased, Key
  <1>11. NoLostMemory' /\ LeakedMapped'
    BY <1>1, <1>6, <1>7, <1>8 DEF NoLostMemory, LeakedMapped
  <1> QED BY <1>5, <1>6, <1>7, <1>9, <1>10, <1>11 DEF IInv, SingleOwner, BucketSized

(* The type invariant across the three frees. *)
LEMMA GiveUpTypes ==
  ASSUME IInv, UNCHANGED pool_enabled, NEW t \in Threads, NEW p \in Ptrs, GiveUp(t, p)
  PROVE  lease' \in [Ptrs -> Lens \cup {0}] /\ orphaned' \subseteq Ptrs
         /\ lease[p] \in Lens
  BY DEF IInv, TypeOK, GiveUp

LEMMA FreeRawInv ==
  ASSUME IInv, UNCHANGED pool_enabled, NEW t \in Threads, NEW p \in Ptrs, FreeRaw(t, p)
  PROVE  IInv'
  <1>1. TypeOK /\ lease \in [Ptrs -> Lens \cup {0}]
    BY DEF IInv, TypeOK
  <1>2. /\ GiveUp(t, p)
        /\ UNCHANGED <<pool, pooledBytes, poolLock, bytesLock, unorphaned, size>>
    BY DEF FreeRaw
  <1>3. lease' \in [Ptrs -> Lens \cup {0}] /\ orphaned' \subseteq Ptrs /\ lease[p] \in Lens
    BY <1>2, GiveUpTypes
  <1>4. CASE capturing
    <2>1. leaked' = leaked \cup {p} /\ UNCHANGED threadVars
      BY <1>4 DEF FreeRaw
    <2>2. TypeOK'
      BY <1>1, <1>2, <1>3, <2>1 DEF unorphaned, threadVars, TypeOK, Keys, Key
    <2>3. /\ OnePlace /\ LeasedSized /\ NoLostMemory /\ LeakedMapped /\ CarriedTyped
      BY DEF IInv, SingleOwner, BucketSized
    <2>4. Leased(p) /\ lease' = [lease EXCEPT ![p] = 0]
      BY <1>2 DEF GiveUp, Leased
    <2>5. ~Parked(p) /\ ~Held(p) /\ size[p] = Key(lease[p])
      BY <2>3, <2>4 DEF OnePlace, LeasedSized
    <2>6. size[p] > 0
      BY <2>5, <1>3, KeyHolds
    <2>7. (\A q \in Ptrs : Parked(q)' <=> Parked(q)) /\ ParkedOnce' /\ ParkedSized'
      BY <1>2, PoolStays
    <2>8. \A u \in Threads : /\ InHand(u)' <=> InHand(u)
                             /\ hand'[u] = hand[u] /\ need'[u] = need[u]
      BY <2>1 DEF threadVars, InHand
    <2>9. (\A q \in Ptrs : Held(q)' <=> Held(q)) /\ CarriedOnce' /\ CarriedSized'
      BY <1>2, <2>8, HandsStay
    <2>10. \A q \in Ptrs : Leased(q)' <=> Leased(q) /\ q # p
      BY <1>1, <2>4 DEF Leased
    <2>11. OnePlace'
      BY <2>1, <2>3, <2>5, <2>7, <2>9, <2>10 DEF OnePlace
    <2>12. LeasedSized'
      BY <1>1, <1>2, <2>3, <2>4, <2>10 DEF LeasedSized, Leased, Key
    <2>13. NoLostMemory' /\ LeakedMapped'
      BY <1>2, <2>1, <2>3, <2>6, <2>7, <2>9, <2>10 DEF NoLostMemory, LeakedMapped
    <2>14. CarriedTyped'
      BY <2>1, <2>3 DEF threadVars, CarriedTyped, InHand
    <2> QED BY <2>2, <2>7, <2>9, <2>11, <2>12, <2>13, <2>14
            DEF IInv, SingleOwner, BucketSized
  <1>5. CASE ~capturing
    <2>1. Goto(t, "cuMemFree") /\ Carry(t, p, lease[p]) /\ UNCHANGED leaked
      BY <1>5 DEF FreeRaw
    <2>2. "cuMemFree" \in PCs
      BY DEF PCs
    <2>3. /\ pc'[t] = "cuMemFree"
          /\ pc' \in [Threads -> PCs]
          /\ hand' \in [Threads -> Ptrs \cup {NoPtr}]
          /\ need' \in [Threads -> Lens \cup {0}]
      BY <1>3, <2>1, <2>2, OthersStay
    <2>4. TypeOK'
      BY <1>1, <1>2, <1>3, <2>1, <2>3 DEF unorphaned, TypeOK, Keys, Key
    <2>5. InHand(t)'
      BY <2>3 DEF InHand
    <2> QED BY <1>2, <2>1, <2>2, <2>4, <2>5, LeaseToHand
  <1> QED BY <1>4, <1>5

LEMMA FreeRawPooledInv ==
  ASSUME IInv, UNCHANGED pool_enabled, NEW t \in Threads, NEW p \in Ptrs,
         ChargePooledBytes(t, p) \/ FreeUnpooled(t, p)
  PROVE  IInv'
  <1>1. TypeOK /\ lease \in [Ptrs -> Lens \cup {0}]
    BY DEF IInv, TypeOK
  <1>2. /\ GiveUp(t, p)
        /\ UNCHANGED <<pool, poolLock, unorphaned, size, leaked>>
    BY DEF ChargePooledBytes, FreeUnpooled
  <1>3. PICK l \in {"over", "charged", "push", "cuMemFree"} :
           Goto(t, l) /\ Carry(t, p, lease[p])
    BY DEF ChargePooledBytes, FreeUnpooled
  <1>4. lease' \in [Ptrs -> Lens \cup {0}] /\ orphaned' \subseteq Ptrs /\ lease[p] \in Lens
    BY <1>2, GiveUpTypes
  <1>5. l \in PCs
    BY <1>3 DEF PCs
  <1>6. /\ pc'[t] = l
        /\ pc' \in [Threads -> PCs]
        /\ hand' \in [Threads -> Ptrs \cup {NoPtr}]
        /\ need' \in [Threads -> Lens \cup {0}]
    BY <1>3, <1>4, <1>5, OthersStay
  <1>7. pooledBytes' \in Int /\ bytesLock' \in Threads \cup {NoThread}
    <2>1. CASE ChargePooledBytes(t, p)
      <3>1. size_bucket(lease[p]) \in Nat
        BY <1>4, <2>1, KeyHolds DEF ChargePooledBytes
      <3> QED BY <1>1, <2>1, <3>1 DEF ChargePooledBytes, TypeOK
    <2>2. CASE FreeUnpooled(t, p)
      BY <1>1, <2>2 DEF FreeUnpooled, TypeOK
    <2> QED BY <2>1, <2>2
  <1>8. TypeOK'
    BY <1>1, <1>2, <1>4, <1>6, <1>7 DEF unorphaned, TypeOK, Keys, Key
  <1>9. InHand(t)'
    BY <1>3, <1>6 DEF InHand
  <1> QED BY <1>2, <1>3, <1>5, <1>8, <1>9, LeaseToHand

(* A mapped address is the only kind that is parked, carried, leased or    *)
(* retained.                                                               *)
LEMMA PlacesAreMapped ==
  ASSUME IInv, NEW p \in Ptrs, size[p] = 0
  PROVE  ~Parked(p) /\ ~Held(p) /\ ~Leased(p) /\ p \notin leaked
  <1>1. /\ ParkedSized /\ CarriedSized /\ LeasedSized /\ CarriedTyped /\ LeakedMapped
        /\ lease \in [Ptrs -> Lens \cup {0}]
    BY DEF IInv, BucketSized, TypeOK
  <1>2. \A n \in Lens : Key(n) # 0
    BY KeyHolds
  <1>3. 0 \notin Keys
    BY KeysPositive
  <1>4. ~Parked(p)
    BY <1>1, <1>3 DEF Parked, ParkedSized
  <1>5. ~Held(p)
    BY <1>1, <1>2 DEF Held, CarriedSized, CarriedTyped
  <1>6. ~Leased(p)
    BY <1>1, <1>2 DEF Leased, LeasedSized
  <1>7. p \notin leaked
    BY <1>1 DEF LeakedMapped
  <1> QED BY <1>4, <1>5, <1>6, <1>7

LEMMA CuMemAllocInv ==
  ASSUME IInv, UNCHANGED pool_enabled, NEW t \in Threads, NEW p \in Ptrs, CuMemAlloc(t, p)
  PROVE  IInv'
  <1>1. /\ TypeOK /\ OnePlace /\ LeasedSized /\ NoLostMemory /\ LeakedMapped
        /\ lease \in [Ptrs -> Lens \cup {0}] /\ size \in [Ptrs -> Nat]
        /\ need[t] \in Lens
    BY DEF IInv, SingleOwner, BucketSized, TypeOK, CarriedTyped, CuMemAlloc
  <1>2. ~Parked(p) /\ ~Held(p) /\ ~Leased(p) /\ p \notin leaked
    BY PlacesAreMapped DEF CuMemAlloc
  <1>3. Key(need[t]) \in Nat /\ Key(need[t]) > 0
    BY <1>1, KeyHolds
  <1>4. /\ size' = [size EXCEPT ![p] = Key(need[t])]
        /\ lease' = [lease EXCEPT ![p] = need[t]]
        /\ UNCHANGED <<pool, pooledBytes, poolLock, bytesLock, captureVars, leaked>>
    BY DEF CuMemAlloc
  <1>5. \A q \in Ptrs : q # p => size'[q] = size[q] /\ lease'[q] = lease[q]
    BY <1>1, <1>4
  <1>6. size'[p] = Key(need[t]) /\ lease'[p] = need[t]
    BY <1>1, <1>4
  <1>7. Goto(t, "idle") /\ Carry(t, NoPtr, 0) /\ ~InHand(t)
    BY DEF CuMemAlloc, Return, InHand
  <1>8. "idle" \in PCs
    BY DEF PCs
  <1>9. /\ OthersCarry(t) /\ pc'[t] = "idle"
        /\ pc' \in [Threads -> PCs]
        /\ hand' \in [Threads -> Ptrs \cup {NoPtr}]
        /\ need' \in [Threads -> Lens \cup {0}]
        /\ (InHand(t)' => NoPtr \in Ptrs /\ 0 \in Lens) => CarriedTyped'
    BY <1>7, <1>8, OthersStay
  <1>10. ~InHand(t)'
    BY <1>9 DEF InHand
  <1>11. TypeOK'
    <2>1. size' \in [Ptrs -> Nat] /\ lease' \in [Ptrs -> Lens \cup {0}]
      BY <1>1, <1>3, <1>4
    <2> QED BY <1>1, <1>4, <1>9, <2>1 DEF captureVars, TypeOK, Keys, Key
  <1>12. (\A q \in Ptrs : Parked(q)' <=> Parked(q)) /\ ParkedOnce' /\ ParkedSized'
    BY <1>2, <1>4, <1>5, PoolStays
  <1>13. (\A q \in Ptrs : Held(q)' <=> Held(q)) /\ CarriedOnce' /\ CarriedSized'
    <2>1. \A u \in Threads : InHand(u)' <=> InHand(u)
      BY <1>7, <1>9, <1>10 DEF OthersCarry
    <2>2. \A u \in Threads : InHand(u) => hand'[u] = hand[u] /\ need'[u] = need[u]
      BY <1>7, <1>9 DEF OthersCarry
    <2> QED BY <1>2, <1>5, <2>1, <2>2, HandsStay
  <1>14. \A q \in Ptrs : Leased(q)' <=> Leased(q) \/ q = p
    <2>1. need[t] > 0
      BY <1>1, KeyHolds
    <2> QED BY <1>5, <1>6, <2>1 DEF Leased
  <1>15. OnePlace'
    BY <1>1, <1>2, <1>4, <1>12, <1>13, <1>14 DEF OnePlace
  <1>16. LeasedSized'
    BY <1>1, <1>5, <1>6, <1>14 DEF LeasedSized, Key
  <1>17. NoLostMemory'
    BY <1>1, <1>4, <1>5, <1>12, <1>13, <1>14 DEF NoLostMemory
  <1>18. LeakedMapped'
    BY <1>1, <1>2, <1>4, <1>5 DEF LeakedMapped, TypeOK
  <1> QED BY <1>9, <1>10, <1>11, <1>12, <1>13, <1>15, <1>16, <1>17, <1>18
          DEF IInv, SingleOwner, BucketSized

(* What t carries becomes a client's lease. *)
LEMMA DebitPooledBytesInv ==
  ASSUME IInv, UNCHANGED pool_enabled, NEW t \in Threads, DebitPooledBytes(t)
  PROVE  IInv'
  <1> DEFINE p == hand[t]
  <1>1. /\ TypeOK /\ OnePlace /\ CarriedSized /\ LeasedSized /\ NoLostMemory
        /\ LeakedMapped /\ lease \in [Ptrs -> Lens \cup {0}] /\ pooledBytes \in Int
    BY DEF IInv, SingleOwner, BucketSized, TypeOK
  <1>2. InHand(t)
    BY DEF DebitPooledBytes, InHand
  <1>3. p \in Ptrs /\ need[t] \in Lens /\ size[p] = Key(need[t])
    BY <1>1, <1>2 DEF IInv, CarriedTyped, CarriedSized
  <1>4. Held(p)
    BY <1>2 DEF Held
  <1>5. ~Parked(p) /\ ~Leased(p) /\ p \notin leaked
    BY <1>1, <1>3, <1>4 DEF OnePlace
  <1>6. /\ lease' = [lease EXCEPT ![p] = need[t]]
        /\ pooledBytes' = pooledBytes - Key(need[t])
        /\ poolLock' = NoThread
        /\ UNCHANGED <<pool, bytesLock, captureVars, size, leaked>>
        /\ Goto(t, "idle") /\ Carry(t, NoPtr, 0)
    BY DEF DebitPooledBytes, Return
  <1>7. "idle" \in PCs
    BY DEF PCs
  <1>8. /\ OthersCarry(t) /\ pc'[t] = "idle"
        /\ pc' \in [Threads -> PCs]
        /\ hand' \in [Threads -> Ptrs \cup {NoPtr}]
        /\ need' \in [Threads -> Lens \cup {0}]
        /\ (InHand(t)' => NoPtr \in Ptrs /\ 0 \in Lens) => CarriedTyped'
    BY <1>6, <1>7, OthersStay
  <1>9. ~InHand(t)'
    BY <1>8 DEF InHand
  <1>10. lease'[p] = need[t] /\ need[t] > 0
         /\ \A q \in Ptrs : q # p => lease'[q] = lease[q]
    BY <1>1, <1>3, <1>6, KeyHolds
  <1>11. TypeOK'
    <2>1. pooledBytes' \in Int
      BY <1>1, <1>3, <1>6, KeyHolds
    <2>2. lease' \in [Ptrs -> Lens \cup {0}]
      BY <1>1, <1>3, <1>6
    <2> QED BY <1>1, <1>6, <1>8, <2>1, <2>2 DEF captureVars, TypeOK, Keys, Key
  <1>12. (\A q \in Ptrs : Parked(q)' <=> Parked(q)) /\ ParkedOnce' /\ ParkedSized'
    BY <1>6, PoolStays
  <1>13. (\A q \in Ptrs : Held(q)' <=> Held(q) /\ q # p) /\ CarriedOnce' /\ CarriedSized'
    BY <1>2, <1>6, <1>8, <1>9, PutDown
  <1>14. \A q \in Ptrs : Leased(q)' <=> Leased(q) \/ q = p
    BY <1>10 DEF Leased
  <1>15. OnePlace'
    BY <1>1, <1>5, <1>6, <1>12, <1>13, <1>14 DEF OnePlace
  <1>16. LeasedSized'
    BY <1>1, <1>3, <1>6, <1>10, <1>14 DEF LeasedSized, Key
  <1>17. NoLostMemory' /\ LeakedMapped'
    BY <1>1, <1>6, <1>12, <1>13, <1>14 DEF NoLostMemory, LeakedMapped
  <1> QED BY <1>8, <1>9, <1>11, <1>12, <1>13, <1>15, <1>16, <1>17
          DEF IInv, SingleOwner, BucketSized

(* A parked buffer goes to t's hands (pool on) or straight to the client. *)
LEMMA AllocRawHitInv ==
  ASSUME IInv, UNCHANGED pool_enabled, NEW t \in Threads, NEW n \in Lens, AllocRawHit(t, n)
  PROVE  IInv'
  <1> DEFINE list == pool[Key(n)]
             p    == list[Len(list)]
  <1>1. /\ TypeOK /\ OnePlace /\ LeasedSized /\ NoLostMemory /\ LeakedMapped
        /\ lease \in [Ptrs -> Lens \cup {0}]
    BY DEF IInv, SingleOwner, BucketSized, TypeOK
  <1>2. Key(n) \in Keys /\ n > 0
    BY KeyHolds
  <1>3. /\ pool' = [pool EXCEPT ![Key(n)] = SubSeq(list, 1, Len(list) - 1)]
        /\ list # <<>>
        /\ UNCHANGED <<pooledBytes, bytesLock, captureVars, size, leaked>>
    BY DEF AllocRawHit
  <1>4. /\ p \in Ptrs /\ Parked(p) /\ size[p] = Key(n)
        /\ ~Held(p) /\ ~Leased(p) /\ p \notin leaked
        /\ \A q \in Ptrs : Parked(q)' <=> Parked(q) /\ q # p
        /\ pool' \in [Keys -> Seq(Ptrs)]
        /\ ParkedOnce' /\ ParkedSized'
    BY <1>2, <1>3, PopPool
  <1> HIDE DEF p
  <1>5. ~InHand(t)
    BY DEF AllocRawHit, Idle, InHand
  <1>6. CASE pool_enabled
    <2>1. Goto(t, "debit") /\ Carry(t, p, n) /\ poolLock' = t /\ lease' = lease
      BY <1>6 DEF AllocRawHit, p
    <2>2. "debit" \in PCs
      BY DEF PCs
    <2>3. /\ OthersCarry(t) /\ pc'[t] = "debit" /\ hand'[t] = p /\ need'[t] = n
          /\ pc' \in [Threads -> PCs]
          /\ hand' \in [Threads -> Ptrs \cup {NoPtr}]
          /\ need' \in [Threads -> Lens \cup {0}]
          /\ CarriedTyped'
      BY <1>4, <2>1, <2>2, OthersStay
    <2>4. TypeOK'
      BY <1>1, <1>3, <1>4, <2>1, <2>3 DEF captureVars, TypeOK, Keys, Key
    <2>5. InHand(t)'
      BY <2>3 DEF InHand
    <2>6. (\A q \in Ptrs : Held(q)' <=> Held(q) \/ q = p) /\ CarriedOnce' /\ CarriedSized'
      BY <1>3, <1>4, <1>5, <2>3, <2>5, Take
    <2>7. \A q \in Ptrs : Leased(q)' <=> Leased(q)
      BY <2>1 DEF Leased
    <2>8. OnePlace'
      BY <1>1, <1>3, <1>4, <2>6, <2>7 DEF OnePlace
    <2>9. LeasedSized'
      BY <1>1, <1>3, <2>1 DEF LeasedSized, Leased, Key
    <2>10. NoLostMemory' /\ LeakedMapped'
      BY <1>1, <1>3, <1>4, <2>6, <2>7 DEF NoLostMemory, LeakedMapped
    <2> QED BY <1>4, <2>3, <2>4, <2>6, <2>8, <2>9, <2>10
            DEF IInv, SingleOwner, BucketSized
  <1>7. CASE ~pool_enabled
    <2>1. lease' = [lease EXCEPT ![p] = n] /\ UNCHANGED <<threadVars, poolLock>>
      BY <1>7 DEF AllocRawHit, p
    <2>2. lease' \in [Ptrs -> Lens \cup {0}]
      BY <1>1, <2>1
    <2>3. TypeOK'
      BY <1>1, <1>3, <1>4, <2>1, <2>2 DEF threadVars, captureVars, TypeOK, Keys, Key
    <2>4. CarriedTyped'
      BY <2>1 DEF IInv, threadVars, CarriedTyped, InHand
    <2>5. (\A q \in Ptrs : Held(q)' <=> Held(q)) /\ CarriedOnce' /\ CarriedSized'
      BY <1>3, <2>1, HandsStay DEF threadVars, InHand
    <2>6. lease'[p] = n /\ \A q \in Ptrs : q # p => lease'[q] = lease[q]
      BY <1>1, <1>4, <2>1
    <2>7. \A q \in Ptrs : Leased(q)' <=> Leased(q) \/ q = p
      BY <1>2, <2>6 DEF Leased
    <2>8. OnePlace'
      BY <1>1, <1>3, <1>4, <2>5, <2>7 DEF OnePlace
    <2>9. LeasedSized'
      BY <1>1, <1>3, <1>4, <2>6, <2>7 DEF LeasedSized, Key
    <2>10. NoLostMemory' /\ LeakedMapped'
      BY <1>1, <1>3, <1>4, <2>5, <2>7 DEF NoLostMemory, LeakedMapped
    <2> QED BY <1>4, <2>3, <2>4, <2>5, <2>8, <2>9, <2>10
            DEF IInv, SingleOwner, BucketSized
  <1> QED BY <1>6, <1>7

(* What t carries is parked in the free-list of its length. *)
LEMMA PushPoolInv ==
  ASSUME IInv, UNCHANGED pool_enabled, NEW t \in Threads, PushPool(t)
  PROVE  IInv'
  <1> DEFINE p == hand[t]
             k == Key(need[t])
  <1>1. /\ TypeOK /\ OnePlace /\ CarriedSized /\ LeasedSized /\ NoLostMemory
        /\ LeakedMapped /\ bytesLock \in Threads \cup {NoThread}
    BY DEF IInv, SingleOwner, BucketSized, TypeOK
  <1>2. InHand(t)
    BY DEF PushPool, InHand
  <1>3. p \in Ptrs /\ need[t] \in Lens /\ size[p] = k
    BY <1>1, <1>2 DEF IInv, CarriedTyped, CarriedSized
  <1>4. Held(p)
    BY <1>2 DEF Held
  <1>5. ~Parked(p) /\ ~Leased(p) /\ p \notin leaked
    BY <1>1, <1>3, <1>4 DEF OnePlace
  <1>6. /\ pool' = [pool EXCEPT ![k] = Append(@, p)]
        /\ DropGuards(t)
        /\ Goto(t, "idle") /\ Carry(t, NoPtr, 0)
        /\ UNCHANGED <<pooledBytes, poolLock, captureVars, size, lease, leaked>>
    BY DEF PushPool, Return
  <1>7. k \in Keys /\ "idle" \in PCs
    BY <1>3, KeyHolds DEF PCs
  <1>8. /\ OthersCarry(t) /\ pc'[t] = "idle"
        /\ pc' \in [Threads -> PCs]
        /\ hand' \in [Threads -> Ptrs \cup {NoPtr}]
        /\ need' \in [Threads -> Lens \cup {0}]
        /\ (InHand(t)' => NoPtr \in Ptrs /\ 0 \in Lens) => CarriedTyped'
    BY <1>6, <1>7, OthersStay
  <1>9. ~InHand(t)'
    BY <1>8 DEF InHand
  <1>10. /\ \A q \in Ptrs : Parked(q)' <=> Parked(q) \/ q = p
         /\ pool' \in [Keys -> Seq(Ptrs)]
         /\ ParkedOnce' /\ ParkedSized'
    BY <1>3, <1>5, <1>6, <1>7, PushPoolList
  <1>11. TypeOK'
    <2>1. bytesLock' \in Threads \cup {NoThread}
      BY <1>1, <1>6 DEF DropGuards
    <2> QED BY <1>1, <1>6, <1>8, <1>10, <2>1 DEF captureVars, TypeOK, Keys, Key
  <1>12. (\A q \in Ptrs : Held(q)' <=> Held(q) /\ q # p) /\ CarriedOnce' /\ CarriedSized'
    BY <1>2, <1>6, <1>8, <1>9, PutDown
  <1>13. OnePlace'
    BY <1>1, <1>5, <1>6, <1>10, <1>12 DEF OnePlace, Leased
  <1>14. LeasedSized'
    BY <1>1, <1>6 DEF LeasedSized, Leased, Key
  <1>15. NoLostMemory' /\ LeakedMapped'
    BY <1>1, <1>6, <1>10, <1>12 DEF NoLostMemory, LeakedMapped, Leased
  <1> QED BY <1>8, <1>9, <1>10, <1>11, <1>12, <1>13, <1>14, <1>15
          DEF IInv, SingleOwner, BucketSized

(* What t carries goes back to the driver. *)
LEMMA CuMemFreeInv ==
  ASSUME IInv, UNCHANGED pool_enabled, NEW t \in Threads, CuMemFree(t)
  PROVE  IInv'
  <1> DEFINE p == hand[t]
  <1>1. /\ TypeOK /\ OnePlace /\ LeasedSized /\ NoLostMemory /\ LeakedMapped
        /\ bytesLock \in Threads \cup {NoThread} /\ size \in [Ptrs -> Nat]
        /\ leaked \subseteq Ptrs
    BY DEF IInv, SingleOwner, BucketSized, TypeOK
  <1>2. InHand(t)
    BY DEF CuMemFree, InHand
  <1>3. p \in Ptrs
    BY <1>2 DEF IInv, CarriedTyped
  <1>4. Held(p)
    BY <1>2 DEF Held
  <1>5. ~Parked(p) /\ ~Leased(p) /\ p \notin leaked
    BY <1>1, <1>3, <1>4 DEF OnePlace
  <1>6. /\ size' = [size EXCEPT ![p] = 0]
        /\ DropGuards(t)
        /\ Goto(t, "idle") /\ Carry(t, NoPtr, 0)
        /\ UNCHANGED <<pool, pooledBytes, poolLock, captureVars, lease, leaked>>
    BY DEF CuMemFree, Return
  <1>7. size'[p] = 0 /\ \A q \in Ptrs : q # p => size'[q] = size[q]
    BY <1>1, <1>3, <1>6
  <1>8. "idle" \in PCs
    BY DEF PCs
  <1>9. /\ OthersCarry(t) /\ pc'[t] = "idle"
        /\ pc' \in [Threads -> PCs]
        /\ hand' \in [Threads -> Ptrs \cup {NoPtr}]
        /\ need' \in [Threads -> Lens \cup {0}]
        /\ (InHand(t)' => NoPtr \in Ptrs /\ 0 \in Lens) => CarriedTyped'
    BY <1>6, <1>8, OthersStay
  <1>10. ~InHand(t)'
    BY <1>9 DEF InHand
  <1>11. TypeOK'
    <2>1. bytesLock' \in Threads \cup {NoThread} /\ size' \in [Ptrs -> Nat]
      BY <1>1, <1>6 DEF DropGuards
    <2> QED BY <1>1, <1>6, <1>9, <2>1 DEF captureVars, TypeOK, Keys, Key
  <1>12. (\A q \in Ptrs : Parked(q)' <=> Parked(q)) /\ ParkedOnce' /\ ParkedSized'
    BY <1>5, <1>6, <1>7, PoolStays
  <1>13. (\A q \in Ptrs : Held(q)' <=> Held(q) /\ q # p) /\ CarriedOnce' /\ CarriedSized'
    BY <1>2, <1>7, <1>9, <1>10, PutDown
  <1>14. OnePlace'
    BY <1>1, <1>6, <1>12, <1>13 DEF OnePlace, Leased
  <1>15. LeasedSized'
    BY <1>1, <1>5, <1>6, <1>7 DEF LeasedSized, Leased, Key
  <1>16. NoLostMemory'
    BY <1>1, <1>6, <1>7, <1>12, <1>13 DEF NoLostMemory, Leased
  <1>17. LeakedMapped'
    BY <1>1, <1>5, <1>6, <1>7 DEF LeakedMapped
  <1> QED BY <1>9, <1>10, <1>11, <1>12, <1>13, <1>14, <1>15, <1>16, <1>17
          DEF IInv, SingleOwner, BucketSized

(* What was parked goes back to the driver; nothing was in hand. *)
LEMMA DropDeviceInv ==
  ASSUME IInv, UNCHANGED pool_enabled, DropDevice
  PROVE  IInv'
  <1>1. /\ TypeOK /\ OnePlace /\ LeasedSized /\ NoLostMemory /\ LeakedMapped
        /\ CarriedTyped /\ size \in [Ptrs -> Nat] /\ leaked \subseteq Ptrs
    BY DEF IInv, SingleOwner, BucketSized, TypeOK
  <1>2. /\ pool' = [k \in Keys |-> <<>>]
        /\ size' = [p \in Ptrs |-> IF Parked(p) THEN 0 ELSE size[p]]
        /\ pooledBytes' = 0 /\ streamCapturing' = FALSE /\ alive' = FALSE
        /\ recorded' = {} /\ orphaned' = {}
        /\ UNCHANGED <<poolLock, bytesLock, capturing, graph, lease, leaked, threadVars>>
    BY DEF DropDevice, Parked
  <1>3. \A q \in Ptrs : size'[q] = IF Parked(q) THEN 0 ELSE size[q]
    BY <1>2
  <1>4. pool' \in [Keys -> Seq(Ptrs)] /\ \A k \in Keys : DOMAIN pool'[k] = {}
    BY <1>2
  <1>5. \A t \in Threads : ~InHand(t) /\ ~InHand(t)'
    BY <1>2 DEF DropDevice, Idle, InHand, threadVars
  <1>6. \A q \in Ptrs : ~Parked(q)' /\ ~Held(q) /\ ~Held(q)'
    BY <1>4, <1>5 DEF Parked, Held, Keys, Key
  <1>7. TypeOK'
    <2>1. size' \in [Ptrs -> Nat]
      BY <1>1, <1>2
    <2>2. /\ UNCHANGED <<poolLock, bytesLock, capturing, graph, lease, leaked, pc, hand, need>>
          /\ recorded' \subseteq Ptrs /\ orphaned' \subseteq Ptrs
      BY <1>2 DEF threadVars
    <2>3. streamCapturing' \in BOOLEAN /\ alive' \in BOOLEAN
      BY <1>2
    <2>4. pooledBytes' \in Int
      BY <1>2
    <2> QED BY <1>1, <1>4, <2>1, <2>2, <2>3, <2>4 DEF TypeOK, Keys, Key
  <1>8. ParkedOnce' /\ ParkedSized'
    BY <1>4 DEF ParkedOnce, ParkedSized, Keys, Key
  <1>9. CarriedOnce' /\ CarriedSized'
    BY <1>5 DEF CarriedOnce, CarriedSized
  <1>10. CarriedTyped'
    BY <1>1, <1>2, <1>5 DEF CarriedTyped, threadVars
  <1>11. OnePlace'
    BY <1>1, <1>2, <1>6 DEF OnePlace, Leased
  <1>12. LeasedSized'
    BY <1>1, <1>2, <1>3 DEF LeasedSized, OnePlace, Leased, Key
  <1>13. NoLostMemory'
    BY <1>1, <1>2, <1>3, <1>6 DEF NoLostMemory, Leased
  <1>14. LeakedMapped'
    <2>1. \A q \in leaked : q \in Ptrs /\ ~Parked(q) /\ size[q] > 0
      BY <1>1 DEF LeakedMapped, OnePlace
    <2>2. leaked' = leaked
      BY <1>2
    <2> QED BY <1>3, <2>1, <2>2 DEF LeakedMapped
  <1> QED BY <1>7, <1>8, <1>9, <1>10, <1>11, <1>12, <1>13, <1>14
          DEF IInv, SingleOwner, BucketSized

LEMMA StutterInv ==
  ASSUME IInv, UNCHANGED vars
  PROVE  IInv'
  <1>1. TypeOK /\ CarriedTyped
    BY DEF IInv
  <1>2. /\ UNCHANGED <<pool, pooledBytes, poolLock, bytesLock, size, lease, leaked>>
        /\ UNCHANGED captureVars /\ UNCHANGED threadVars
    BY DEF vars
  <1>3. TypeOK'
    BY <1>1, <1>2 DEF captureVars, threadVars, TypeOK, Keys, Key
  <1>4. CarriedTyped'
    BY <1>1, <1>2 DEF threadVars, CarriedTyped, InHand
  <1> QED BY <1>2, <1>3, <1>4, Bookkeeping DEF captureVars, threadVars, InHand

(* Whether the pool is on is decided when the device is made. *)
LEMMA ModeStays == [Next]_vars => UNCHANGED pool_enabled
  <1> USE DEF captureVars, unorphaned, heapState
  <1>1. ASSUME NEW t \in Threads, Step(t) PROVE UNCHANGED pool_enabled
    BY <1>1 DEF Step, DebitPooledBytes, CuMemAlloc, CuMemAllocFails, DropParked, PushPool,
                CuMemFree, CuStreamBeginCapture, CuStreamBeginCaptureFails, ClearCapturing
  <1>2. ASSUME NEW t \in Threads, Call(t) PROVE UNCHANGED pool_enabled
    BY <1>2 DEF Call, AllocRawHit, AllocRawMiss, FreeRaw, ChargePooledBytes, FreeUnpooled,
                BeginCapture, EndCapture, RecordLaunch
  <1>3. DropDevice => UNCHANGED pool_enabled
    BY DEF DropDevice
  <1> QED BY <1>1, <1>2, <1>3 DEF Next, vars

(* The invariant is inductive: no step of any thread breaks it. *)
LEMMA StepInv == IInv /\ [Next]_vars => IInv'
  <1> SUFFICES ASSUME IInv, [Next]_vars PROVE IInv'
    OBVIOUS
  <1>0. UNCHANGED pool_enabled
    BY ModeStays
  <1>1. ASSUME NEW t \in Threads, Step(t) PROVE IInv'
    <2>1. CASE DebitPooledBytes(t)
      BY <1>0, <2>1, DebitPooledBytesInv
    <2>2. CASE \E p \in Ptrs : CuMemAlloc(t, p)
      BY <1>0, <2>2, CuMemAllocInv
    <2>3. CASE CuMemAllocFails(t)
      BY <1>0, <2>3, EmptyHandedInv
    <2>4. CASE DropParked(t)
      BY <1>0, <2>4, DropParkedInv
    <2>5. CASE PushPool(t)
      BY <1>0, <2>5, PushPoolInv
    <2>6. CASE CuMemFree(t)
      BY <1>0, <2>6, CuMemFreeInv
    <2>7. CASE CuStreamBeginCapture(t) \/ CuStreamBeginCaptureFails(t) \/ ClearCapturing(t)
      BY <1>0, <2>7, CaptureInv
    <2> QED BY <1>1, <2>1, <2>2, <2>3, <2>4, <2>5, <2>6, <2>7 DEF Step
  <1>2. ASSUME NEW t \in Threads, Call(t) PROVE IInv'
    <2>1. CASE \E n \in Lens : AllocRawHit(t, n)
      BY <1>0, <2>1, AllocRawHitInv
    <2>2. CASE \E n \in Lens : AllocRawMiss(t, n)
      BY <1>0, <2>2, EmptyHandedInv
    <2>3. CASE \E p \in Ptrs : FreeRaw(t, p)
      BY <1>0, <2>3, FreeRawInv
    <2>4. CASE \E p \in Ptrs : ChargePooledBytes(t, p) \/ FreeUnpooled(t, p)
      BY <1>0, <2>4, FreeRawPooledInv
    <2>5. CASE BeginCapture(t) \/ EndCapture(t)
      BY <1>0, <2>5, CaptureInv
    <2>6. CASE \E p \in Ptrs : RecordLaunch(t, p)
      BY <1>0, <2>6, RecordLaunchInv
    <2> QED BY <1>2, <2>1, <2>2, <2>3, <2>4, <2>5, <2>6 DEF Call
  <1>3. CASE DropDevice
    BY <1>0, <1>3, DropDeviceInv
  <1>4. CASE UNCHANGED vars
    BY <1>4, StutterInv
  <1> QED BY <1>1, <1>2, <1>3, <1>4 DEF Next

LEMMA Invariant == Spec => []IInv
  BY InitInv, StepInv, PTL DEF Spec

---------------------------------------------------------------------------

(* Every variable keeps its type, for every number of threads, addresses   *)
(* and lengths; in particular no free-list is ever asked for that the map  *)
(* does not have.                                                          *)
THEOREM TypeCorrect == Spec => []TypeOK
  <1>1. IInv => TypeOK
    BY DEF IInv
  <1> QED BY <1>1, Invariant, PTL

(* alloc_raw never hands the same buffer to two callers, and no buffer is  *)
(* parked while a client still uses it, in any interleaving of any number  *)
(* of threads with each other and with captures.                           *)
THEOREM Ownership == Spec => []SingleOwner
  <1>1. IInv => SingleOwner
    BY DEF IInv
  <1> QED BY <1>1, Invariant, PTL

(* A buffer is always as long as its free-list, and its lease, say: what   *)
(* alloc_raw returns is mapped and at least as long as the request.        *)
THEOREM Sizing == Spec => []BucketSized
  <1>1. IInv => BucketSized
    BY DEF IInv
  <1> QED BY <1>1, Invariant, PTL

(* No path of alloc_raw, free_raw and free_raw_pooled loses a buffer.      *)
THEOREM NothingLost == Spec => []NoLostMemory
  <1>1. IInv => NoLostMemory
    BY DEF IInv
  <1> QED BY <1>1, Invariant, PTL

---------------------------------------------------------------------------
(* Refinement: each step grants one lease, releases one, only trades       *)
(* unleased memory with the driver, or is invisible to the clients.        *)

LEMMA InitHeap == Init => Heap!HeapInit
  BY DEF Init, Heap!HeapInit

LEMMA GrantStep ==
  ASSUME IInv, NEW p \in Ptrs, NEW n \in Lens, ~Leased(p),
         lease' = [lease EXCEPT ![p] = n], size' = [size EXCEPT ![p] = Key(n)]
  PROVE  Heap!Grant(p)
  <1>1. lease \in [Ptrs -> Lens \cup {0}] /\ size \in [Ptrs -> Nat]
    BY DEF IInv, TypeOK
  <1>2. n \in Nat \ {0} /\ Key(n) \in Nat /\ Key(n) >= n
    BY KeyHolds
  <1>3. lease[p] = 0
    <2>1. lease[p] \in Lens \cup {0}
      BY <1>1
    <2>2. \A m \in Lens : m > 0
      BY KeyHolds
    <2> QED BY <2>1, <2>2 DEF Leased
  <1>4. /\ lease'[p] = n /\ size'[p] = Key(n)
        /\ \A q \in Ptrs \ {p} : lease'[q] = lease[q] /\ size'[q] = size[q]
    BY <1>1
  <1>5. lease'[p] \in 1..size'[p]
    BY <1>2, <1>4
  <1>6. Heap!LeasedMemoryUntouched
    BY <1>3, <1>4 DEF Heap!LeasedMemoryUntouched
  <1> QED BY <1>3, <1>4, <1>5, <1>6 DEF Heap!Grant

(* A buffer already mapped with the size of its list is granted. *)
LEMMA GrantMapped ==
  ASSUME IInv, NEW p \in Ptrs, NEW n \in Lens, ~Leased(p), size[p] = Key(n),
         lease' = [lease EXCEPT ![p] = n], size' = size
  PROVE  Heap!Grant(p)
  <1>1. size \in [Ptrs -> Nat]
    BY DEF IInv, TypeOK
  <1>2. size' = [size EXCEPT ![p] = Key(n)]
    BY <1>1
  <1> QED BY <1>2, GrantStep

LEMMA ReleaseStep ==
  ASSUME IInv, NEW t \in Threads, NEW p \in Ptrs, GiveUp(t, p), size' = size
  PROVE  Heap!Release(p)
  <1>1. lease[p] # 0
    BY DEF GiveUp
  <1> QED BY <1>1 DEF GiveUp, Heap!Release

(* The driver gets back an address that nobody leases. *)
LEMMA ManageStep ==
  ASSUME IInv, lease' = lease, \A p \in Ptrs : Leased(p) => size'[p] = size[p]
  PROVE  Heap!Manage
  <1>1. lease \in [Ptrs -> Lens \cup {0}] /\ \A m \in Lens : m > 0
    BY KeyHolds DEF IInv, TypeOK
  <1>2. \A p \in Ptrs : lease[p] # 0 => Leased(p)
    BY <1>1 DEF Leased
  <1> QED BY <1>2 DEF Heap!Manage, Heap!LeasedMemoryUntouched

LEMMA StepHeap == IInv /\ [Next]_vars => [Heap!HeapNext]_<<lease, size>>
  <1> SUFFICES ASSUME IInv, [Next]_vars
               PROVE  Heap!HeapNext \/ UNCHANGED <<lease, size>>
    OBVIOUS
  <1> USE DEF Heap!HeapNext
  <1>1. ASSUME NEW t \in Threads, DebitPooledBytes(t) PROVE Heap!HeapNext
    <2>1. CarriedTyped /\ CarriedSized /\ OnePlace /\ InHand(t)
      BY <1>1 DEF IInv, SingleOwner, BucketSized, DebitPooledBytes, InHand
    <2>2. hand[t] \in Ptrs /\ need[t] \in Lens /\ size[hand[t]] = Key(need[t])
      BY <2>1 DEF CarriedTyped, CarriedSized
    <2>3. ~Leased(hand[t])
      BY <2>1, <2>2 DEF OnePlace, Held
    <2> QED BY <1>1, <2>2, <2>3, GrantMapped DEF DebitPooledBytes
  <1>2. ASSUME NEW t \in Threads, NEW p \in Ptrs, CuMemAlloc(t, p) PROVE Heap!HeapNext
    <2>1. need[t] \in Lens /\ ~Leased(p)
      BY <1>2, PlacesAreMapped DEF CuMemAlloc, IInv, CarriedTyped
    <2> QED BY <1>2, <2>1, GrantStep DEF CuMemAlloc
  <1>3. ASSUME NEW t \in Threads, NEW n \in Lens, AllocRawHit(t, n)
        PROVE  Heap!HeapNext \/ UNCHANGED <<lease, size>>
    <2> DEFINE list == pool[Key(n)]
               p    == list[Len(list)]
    <2>1. /\ Key(n) \in Keys /\ list # <<>> /\ size' = size
          /\ pool' = [pool EXCEPT ![Key(n)] = SubSeq(list, 1, Len(list) - 1)]
      BY <1>3, KeyHolds DEF AllocRawHit
    <2>2. p \in Ptrs /\ size[p] = Key(n) /\ ~Leased(p)
      BY <2>1, PopPool
    <2>3. CASE pool_enabled
      BY <1>3, <2>3 DEF AllocRawHit
    <2>4. CASE ~pool_enabled
      BY <1>3, <2>1, <2>2, <2>4, GrantMapped DEF AllocRawHit
    <2> QED BY <2>3, <2>4
  <1>4. ASSUME NEW t \in Threads, NEW p \in Ptrs,
               FreeRaw(t, p) \/ ChargePooledBytes(t, p) \/ FreeUnpooled(t, p)
        PROVE  Heap!HeapNext
    BY <1>4, ReleaseStep DEF FreeRaw, ChargePooledBytes, FreeUnpooled
  <1>5. ASSUME NEW t \in Threads, CuMemFree(t) PROVE Heap!HeapNext
    <2>1. /\ CarriedTyped /\ OnePlace /\ InHand(t) /\ size \in [Ptrs -> Nat]
          /\ lease' = lease /\ size' = [size EXCEPT ![hand[t]] = 0]
      BY <1>5 DEF IInv, SingleOwner, CuMemFree, InHand, TypeOK
    <2>2. hand[t] \in Ptrs
      BY <2>1 DEF CarriedTyped
    <2>3. ~Leased(hand[t])
      BY <2>1, <2>2 DEF OnePlace, Held
    <2>4. \A p \in Ptrs : Leased(p) => size'[p] = size[p]
      BY <2>1, <2>3
    <2> QED BY <2>1, <2>4, ManageStep
  <1>6. CASE DropDevice
    <2>1. OnePlace /\ lease' = lease
          /\ size' = [p \in Ptrs |-> IF Parked(p) THEN 0 ELSE size[p]]
      BY <1>6 DEF IInv, SingleOwner, DropDevice, Parked
    <2>2. \A p \in Ptrs : Leased(p) => size'[p] = size[p]
      BY <2>1 DEF OnePlace
    <2> QED BY <2>1, <2>2, ManageStep
  <1>7. ASSUME NEW t \in Threads, NEW p \in Ptrs, RecordLaunch(t, p)
        PROVE  UNCHANGED <<lease, size>>
    BY <1>7 DEF RecordLaunch, heapState
  <1>8. ASSUME NEW t \in Threads,
               \/ CuMemAllocFails(t) \/ DropParked(t) \/ PushPool(t)
               \/ CuStreamBeginCapture(t) \/ CuStreamBeginCaptureFails(t)
               \/ ClearCapturing(t) \/ BeginCapture(t) \/ EndCapture(t)
               \/ \E n \in Lens : AllocRawMiss(t, n)
        PROVE  UNCHANGED <<lease, size>>
    BY <1>8 DEF CuMemAllocFails, DropParked, PushPool, CuStreamBeginCapture,
         CuStreamBeginCaptureFails, ClearCapturing, BeginCapture, EndCapture,
         AllocRawMiss, heapState
  <1>9. CASE UNCHANGED vars
    BY <1>9 DEF vars
  <1> QED BY <1>1, <1>2, <1>3, <1>4, <1>5, <1>6, <1>7, <1>8, <1>9
          DEF Next, Step, Call

(* The caching allocator implements the abstract heap: clients see grants  *)
(* of unleased memory long enough for the request, releases, and nothing   *)
(* else, whatever is pooled, over the cap, or being captured.              *)
THEOREM PoolImplementsHeap == Spec => ImplementsHeap
  <1>1. Init => Heap!HeapInit
    BY InitHeap
  <1>2. IInv /\ [Next]_vars => [Heap!HeapNext]_<<lease, size>>
    BY StepHeap
  <1> QED BY <1>1, <1>2, Invariant, PTL
          DEF Spec, ImplementsHeap, Heap!HeapSpec, Heap!heapVars

---------------------------------------------------------------------------
(* The counter: pooled_bytes moves with the free-lists and with the buffers*)
(* on their way to or from them.  Only finitely many threads are ever on   *)
(* the way, however many there are.                                        *)

CounterGuarded ==
  \A t \in Threads : pc[t] \in {"debit", "over", "charged"} => pool_enabled

CounterInv ==
  /\ IsFiniteSet(InTransit)
  /\ CounterGuarded
  /\ PooledBytesExact

LEMMA KeysFinite == IsFiniteSet(Keys)
<1>1. IsFiniteSet(Lens)
  <2> DEFINE top == MaxLength
  <2>1. top \in Nat /\ Lens \subseteq 1 .. top
    BY PoolAssumption, PowersNat
  <2> HIDE DEF top
  <2>2. IsFiniteSet(1 .. top)
    BY <2>1, FS_Interval
  <2> QED
    BY <2>1, <2>2, FS_Subset
<1>2. IsFiniteSet({size_bucket(n) : n \in Lens})
  <2> DEFINE B == {size_bucket(n) : n \in Lens}
             f == [n \in Lens |-> size_bucket(n)]
  <2>1. f \in Surjection(Lens, B)
    BY DEF Surjection
  <2> HIDE DEF f, B
  <2>2. IsFiniteSet(B)
    BY <1>1, <2>1, FS_Surjection
  <2> QED
    BY <2>2 DEF B
<1> QED
  BY <1>1, <1>2, FS_Union DEF Keys

ListBytes == [k \in Keys |-> k * Len(pool[k])]
Weights   == [t \in Threads |-> Key(need[t])]

LEMMA ListBytesNat ==
  ASSUME TypeOK
  PROVE  /\ \A k \in Keys : ListBytes[k] = k * Len(pool[k]) /\ ListBytes[k] \in Nat
         /\ ParkedBytes = SumFunctionOnSet(ListBytes, Keys)
         /\ ParkedBytes \in Nat
<1>1. \A k \in Keys : k \in Nat /\ Len(pool[k]) \in Nat
  BY KeysPositive DEF TypeOK
<1>2. \A m, n \in Nat : m * n \in Nat
  OBVIOUS
<1>3. \A k \in Keys : ListBytes[k] = k * Len(pool[k]) /\ ListBytes[k] \in Nat
  BY <1>1, <1>2 DEF ListBytes
<1>4. ParkedBytes = SumFunctionOnSet(ListBytes, Keys)
  BY DEF ParkedBytes, SumFunction, ListBytes
<1>5. ParkedBytes \in Nat
  BY <1>3, <1>4, KeysFinite, SumIsNat
<1> QED
  BY <1>3, <1>4, <1>5

(* One free-list changes length.                                           *)
LEMMA OneListChanges ==
  ASSUME TypeOK, NEW k \in Keys, NEW s \in Seq(Ptrs), pool' = [pool EXCEPT ![k] = s]
  PROVE  ParkedBytes' = ParkedBytes + k * Len(s) - k * Len(pool[k])
<1>1. /\ \A j \in Keys : ListBytes[j] = j * Len(pool[j]) /\ ListBytes[j] \in Nat
      /\ ParkedBytes = SumFunctionOnSet(ListBytes, Keys)
  BY ListBytesNat
<1>2. pool' \in [Keys -> Seq(Ptrs)] /\ pool'[k] = s /\ \A j \in Keys \ {k} : pool'[j] = pool[j]
  BY DEF TypeOK
<1> DEFINE g == [j \in Keys |-> j * Len(pool'[j])]
<1>3. ParkedBytes' = SumFunctionOnSet(g, Keys)
  BY DEF ParkedBytes, SumFunction
<1>4. \A j \in Keys : j \in Nat /\ Len(pool'[j]) \in Nat
  BY <1>2, KeysPositive
<1>5. \A m, n \in Nat : m * n \in Nat
  OBVIOUS
<1>6. (\A j \in Keys : g[j] \in Nat) /\ g[k] = k * Len(s) /\ \A j \in Keys \ {k} : g[j] = ListBytes[j]
  BY <1>1, <1>2, <1>4, <1>5
<1>7. ListBytes[k] = k * Len(pool[k])
  BY <1>1
<1> HIDE DEF g
<1>8. SumFunctionOnSet(g, Keys) = SumFunctionOnSet(ListBytes, Keys) + g[k] - ListBytes[k]
  <2>1. \A j \in Keys : ListBytes[j] \in Nat /\ g[j] \in Nat
    BY <1>1, <1>6
  <2>2. \A j \in Keys \ {k} : g[j] = ListBytes[j]
    BY <1>6
  <2> QED
    BY <2>1, <2>2, KeysFinite, SumChanges, SMTT(30)
<1> QED
  BY <1>1, <1>3, <1>6, <1>7, <1>8

LEMMA TransitWeights ==
  ASSUME TypeOK, CarriedTyped
  PROVE  /\ \A t \in InTransit : t \in Threads /\ InHand(t) /\ need[t] \in Lens
                                 /\ Weights[t] = Key(need[t]) /\ Weights[t] \in Nat
         /\ BytesInTransit = SumFunctionOnSet(Weights, InTransit)
<1>1. \A t \in InTransit : t \in Threads /\ InHand(t)
  BY DEF InTransit, InHand
<1>2. \A t \in InTransit : need[t] \in Lens
  BY <1>1 DEF CarriedTyped
<1> QED
  BY <1>1, <1>2, KeyHolds DEF Weights, BytesInTransit

(* The same threads are on the way, with the same buffers.                 *)
LEMMA TransitStays ==
  ASSUME TypeOK, CarriedTyped, IsFiniteSet(InTransit), pool_enabled' = pool_enabled,
         InTransit' = InTransit, \A t \in InTransit : need'[t] = need[t]
  PROVE  BytesInTransit' = BytesInTransit
<1>1. /\ \A t \in InTransit : t \in Threads /\ Weights[t] = Key(need[t]) /\ Weights[t] \in Nat
      /\ BytesInTransit = SumFunctionOnSet(Weights, InTransit)
  BY TransitWeights
<1> DEFINE g == Weights'
<1>2. BytesInTransit' = SumFunctionOnSet(g, InTransit)
  BY DEF BytesInTransit, Weights
<1>3. \A t \in InTransit : g[t] = Weights[t]
  BY <1>1 DEF Weights, Key
<1> HIDE DEF g
<1>4. SumFunctionOnSet(g, InTransit) = SumFunctionOnSet(Weights, InTransit)
  BY <1>1, <1>3, SumAgrees
<1> QED
  BY <1>1, <1>2, <1>4

(* t sets out with a buffer.                                               *)
LEMMA TransitEnters ==
  ASSUME TypeOK, CarriedTyped, IsFiniteSet(InTransit), pool_enabled' = pool_enabled,
         NEW t \in Threads, t \notin InTransit, InTransit' = InTransit \cup {t},
         NEW n \in Lens, need'[t] = n, \A u \in Threads \ {t} : need'[u] = need[u]
  PROVE  /\ IsFiniteSet(InTransit')
         /\ BytesInTransit' = BytesInTransit + Key(n)
<1>1. /\ \A u \in InTransit : u \in Threads /\ Weights[u] = Key(need[u]) /\ Weights[u] \in Nat
      /\ BytesInTransit = SumFunctionOnSet(Weights, InTransit)
  BY TransitWeights
<1> DEFINE g == Weights'
           S == InTransit \cup {t}
<1>2. BytesInTransit' = SumFunctionOnSet(g, S)
  BY DEF BytesInTransit, Weights
<1>3. g[t] = Key(n) /\ g[t] \in Nat
  BY KeyHolds DEF Weights, Key
<1>4. \A u \in InTransit : g[u] = Weights[u] /\ g[u] \in Nat
  BY <1>1 DEF Weights, Key
<1> HIDE DEF g
<1>5. IsFiniteSet(S) /\ t \in S /\ S \ {t} = InTransit
  BY FS_AddElement
<1>6. \A u \in S : g[u] \in Nat
  BY <1>3, <1>4
<1> HIDE DEF S
<1>7. SumFunctionOnSet(g, S) = g[t] + SumFunctionOnSet(g, InTransit)
  BY <1>5, <1>6, SumRemove
<1>8. SumFunctionOnSet(g, InTransit) = SumFunctionOnSet(Weights, InTransit)
  BY <1>1, <1>4, SumAgrees
<1>9. SumFunctionOnSet(Weights, InTransit) \in Nat
  BY <1>1, SumIsNat
<1>10. IsFiniteSet(InTransit')
  BY <1>5 DEF S
<1> QED
  BY <1>1, <1>2, <1>3, <1>7, <1>8, <1>9, <1>10

(* t arrives.                                                              *)
LEMMA TransitLeaves ==
  ASSUME TypeOK, CarriedTyped, IsFiniteSet(InTransit), pool_enabled' = pool_enabled,
         NEW t \in InTransit, InTransit' = InTransit \ {t},
         \A u \in Threads \ {t} : need'[u] = need[u]
  PROVE  /\ IsFiniteSet(InTransit')
         /\ BytesInTransit' = BytesInTransit - Key(need[t])
<1>1. /\ \A u \in InTransit : u \in Threads /\ Weights[u] = Key(need[u]) /\ Weights[u] \in Nat
      /\ BytesInTransit = SumFunctionOnSet(Weights, InTransit)
  BY TransitWeights
<1> DEFINE g == Weights'
           S == InTransit \ {t}
<1>2. BytesInTransit' = SumFunctionOnSet(g, S)
  BY DEF BytesInTransit, Weights
<1>3. \A u \in S : g[u] = Weights[u] /\ Weights[u] \in Nat
  BY <1>1 DEF Weights, Key
<1> HIDE DEF g
<1>4. IsFiniteSet(S)
  BY FS_RemoveElement
<1>5. SumFunctionOnSet(Weights, InTransit) = Weights[t] + SumFunctionOnSet(Weights, S)
  BY <1>1, SumRemove
<1>6. IsFiniteSet(InTransit')
  BY <1>4
<1> HIDE DEF S
<1>7. SumFunctionOnSet(g, S) = SumFunctionOnSet(Weights, S)
  BY <1>3, <1>4, SumAgrees
<1>8. SumFunctionOnSet(Weights, S) \in Nat
  BY <1>3, <1>4, SumIsNat
<1> QED
  BY <1>1, <1>2, <1>5, <1>6, <1>7, <1>8

LEMMA InitCounter == Init => CounterInv
<1> SUFFICES ASSUME Init PROVE CounterInv
  OBVIOUS
<1>1. InTransit = {}
  BY DEF Init, InTransit
<1>2. TypeOK
  BY InitInv DEF IInv
<1>3. ParkedBytes = 0
  <2>1. /\ \A k \in Keys : ListBytes[k] = k * Len(pool[k]) /\ ListBytes[k] \in Nat
        /\ ParkedBytes = SumFunctionOnSet(ListBytes, Keys)
    BY <1>2, ListBytesNat
  <2>2. \A k \in Keys : k \in Nat /\ Len(pool[k]) = 0
    BY KeysPositive DEF Init
  <2>3. \A k \in Keys : ListBytes[k] = 0
    BY <2>1, <2>2
  <2> QED
    BY <2>1, <2>3, KeysFinite, SumIsZero
<1>4. BytesInTransit = 0
  BY <1>1, SumOverEmpty DEF BytesInTransit
<1>5. pooledBytes = 0 /\ pool_enabled \in BOOLEAN /\ \A t \in Threads : pc[t] = "idle"
  BY DEF Init
<1> QED
  BY <1>1, <1>3, <1>4, <1>5, FS_EmptySet DEF CounterInv, CounterGuarded, PooledBytesExact

(* Nothing that is counted moves.                                          *)
LEMMA CounterStays ==
  ASSUME IInv, CounterInv, UNCHANGED <<pool_enabled, pooledBytes>>, CounterGuarded',
         pool_enabled => pool' = pool,
         pool_enabled => InTransit' = InTransit /\ \A t \in InTransit : need'[t] = need[t],
         ~pool_enabled => InTransit' = {}
  PROVE  CounterInv'
<1>1. TypeOK /\ CarriedTyped /\ IsFiniteSet(InTransit) /\ PooledBytesExact
  BY DEF IInv, CounterInv
<1>2. pool_enabled => ParkedBytes' = ParkedBytes
  BY DEF ParkedBytes
<1>3. IsFiniteSet(InTransit')
  BY <1>1, FS_EmptySet
<1>4. pool_enabled => BytesInTransit' = BytesInTransit
  BY <1>1, TransitStays
<1>5. PooledBytesExact'
  BY <1>1, <1>2, <1>4 DEF PooledBytesExact
<1> QED
  BY <1>3, <1>5 DEF CounterInv

(* With the pool off nothing is ever counted.                              *)
LEMMA UncountedOff ==
  ASSUME CounterGuarded, ~pool_enabled
  PROVE  InTransit = {}
BY DEF CounterGuarded, InTransit

(* One thread moves.                                                       *)
LEMMA OneMoves ==
  ASSUME TypeOK, NEW t \in Threads, NEW l \in PCs, Goto(t, l), UNCHANGED pool_enabled
  PROVE  /\ pc'[t] = l /\ \A u \in Threads \ {t} : pc'[u] = pc[u]
         /\ l \in {"debit", "charged"} \/ (pool_enabled /\ l = "push") =>
              InTransit' = InTransit \cup {t}
         /\ ~(l \in {"debit", "charged"} \/ (pool_enabled /\ l = "push")) =>
              InTransit' = InTransit \ {t}
<1>1. pc'[t] = l /\ \A u \in Threads \ {t} : pc'[u] = pc[u]
  BY DEF Goto, TypeOK
<1> QED
  BY <1>1 DEF InTransit

LEMMA NeedCarried ==
  ASSUME TypeOK, NEW t \in Threads, NEW p, NEW n, Carry(t, p, n)
  PROVE  need'[t] = n /\ \A u \in Threads \ {t} : need'[u] = need[u]
BY DEF Carry, TypeOK

(* One thread moves, with what it carries if that is counted.              *)
LEMMA UncountedMove ==
  ASSUME IInv, CounterInv, UNCHANGED <<pool_enabled, pooledBytes>>, pool_enabled => pool' = pool,
         NEW t \in Threads, NEW l \in PCs, Goto(t, l),
         \A u \in Threads \ {t} : need'[u] = need[u],
         t \in InTransit /\ pool_enabled => need'[t] = need[t],
         pool_enabled => (t \in InTransit <=> l \in {"debit", "charged", "push"}),
         l \in {"debit", "over", "charged"} => pool_enabled
  PROVE  CounterInv'
<1>1. TypeOK /\ CounterGuarded
  BY DEF IInv, CounterInv
<1>2. /\ pc'[t] = l /\ \A u \in Threads \ {t} : pc'[u] = pc[u]
      /\ l \in {"debit", "charged"} \/ (pool_enabled /\ l = "push") =>
           InTransit' = InTransit \cup {t}
      /\ ~(l \in {"debit", "charged"} \/ (pool_enabled /\ l = "push")) =>
           InTransit' = InTransit \ {t}
  BY <1>1, OneMoves
<1>3. CounterGuarded'
  BY <1>1, <1>2 DEF CounterGuarded
<1>4. ~pool_enabled => InTransit' = {}
  BY <1>1, <1>2, UncountedOff
<1>5. pool_enabled => InTransit' = InTransit
  BY <1>2
<1>6. \A u \in InTransit : u \in Threads
  BY DEF InTransit
<1> QED
  BY <1>3, <1>4, <1>5, <1>6, CounterStays

(* What a thread not on its way to or from a list does.                    *)
LEMMA NotOnTheWay ==
  ASSUME NEW t \in Threads,
         pc[t] \in {"idle", "cuMemAlloc", "over", "cuMemFree", "begin", "ending"}
  PROVE  t \notin InTransit
BY DEF InTransit

LEMMA CounterStep ==
  ASSUME IInv, CounterInv, Next, UNCHANGED pool_enabled
  PROVE  CounterInv'
<1>1. /\ TypeOK /\ CarriedTyped /\ IsFiniteSet(InTransit) /\ CounterGuarded /\ PooledBytesExact
      /\ pooledBytes \in Int
  BY DEF IInv, CounterInv, TypeOK
<1>2. \A t \in Threads : t \in InTransit => need[t] \in Lens /\ Key(need[t]) \in Keys
                          /\ Key(need[t]) \in Nat
  BY <1>1, TransitWeights, KeyHolds
<1>3. ParkedBytes \in Nat /\ BytesInTransit \in Nat
  BY <1>1, ListBytesNat, TransitWeights, SumIsNat
<1>4. ASSUME NEW t \in Threads, NEW n \in Lens, AllocRawHit(t, n) PROVE CounterInv'
  <2> DEFINE k == Key(n)
             s == SubSeq(pool[k], 1, Len(pool[k]) - 1)
  <2>1. /\ pc[t] = "idle" /\ pool[k] # <<>> /\ pool' = [pool EXCEPT ![k] = s]
        /\ pooledBytes' = pooledBytes
    BY <1>4 DEF AllocRawHit, Idle
  <2>2. t \notin InTransit
    BY <2>1, NotOnTheWay
  <2>3. CASE ~pool_enabled
    <3>1. UNCHANGED threadVars
      BY <1>4, <2>3 DEF AllocRawHit
    <3>2. CounterGuarded' /\ InTransit' = {}
      BY <1>1, <2>3, <3>1, UncountedOff DEF threadVars, CounterGuarded, InTransit
    <3> QED
      BY <2>1, <2>3, <3>2, CounterStays
  <2>4. CASE pool_enabled
    <3>1. Goto(t, "debit") /\ Carry(t, pool[k][Len(pool[k])], n) /\ "debit" \in PCs
      BY <1>4, <2>4 DEF AllocRawHit, PCs
    <3>2. InTransit' = InTransit \cup {t}
          /\ pc'[t] = "debit" /\ \A u \in Threads \ {t} : pc'[u] = pc[u]
      BY <1>1, <3>1, OneMoves
    <3>3. need'[t] = n /\ \A u \in Threads \ {t} : need'[u] = need[u]
      BY <1>1, <3>1, NeedCarried
    <3>4. IsFiniteSet(InTransit') /\ BytesInTransit' = BytesInTransit + k
      BY <1>1, <2>2, <3>2, <3>3, TransitEnters
    <3>5. k \in Keys /\ k \in Nat
      BY KeyHolds
    <3>6. pool[k] \in Seq(Ptrs)
      BY <1>1, <3>5 DEF TypeOK
    <3>7. s \in Seq(Ptrs) /\ Len(s) = Len(pool[k]) - 1 /\ Len(pool[k]) \in Nat
      BY <2>1, <3>6
    <3> HIDE DEF s
    <3>8. ParkedBytes' = ParkedBytes + k * Len(s) - k * Len(pool[k])
      BY <1>1, <2>1, <3>5, <3>7, OneListChanges
    <3>9. \A m, x \in Nat : m * (x - 1) = m * x - m /\ m * x \in Nat
      OBVIOUS
    <3>10. ParkedBytes' = ParkedBytes - k
      BY <1>3, <3>5, <3>7, <3>8, <3>9
    <3>11. CounterGuarded'
      BY <1>1, <2>4, <3>2 DEF CounterGuarded
    <3>12. PooledBytesExact'
      BY <1>1, <1>3, <2>1, <2>4, <3>4, <3>5, <3>10 DEF PooledBytesExact
    <3> QED
      BY <3>4, <3>11, <3>12 DEF CounterInv
  <2> QED
    BY <2>3, <2>4
<1>5. ASSUME NEW t \in Threads, DebitPooledBytes(t) PROVE CounterInv'
  <2>1. /\ pc[t] = "debit" /\ pool' = pool /\ pooledBytes' = pooledBytes - Key(need[t])
        /\ Goto(t, "idle") /\ Carry(t, NoPtr, 0) /\ "idle" \in PCs
    BY <1>5 DEF DebitPooledBytes, Return, PCs
  <2>2. t \in InTransit /\ pool_enabled
    BY <1>1, <2>1 DEF InTransit, CounterGuarded
  <2>3. InTransit' = InTransit \ {t}
        /\ pc'[t] = "idle" /\ \A u \in Threads \ {t} : pc'[u] = pc[u]
    BY <1>1, <2>1, OneMoves
  <2>4. \A u \in Threads \ {t} : need'[u] = need[u]
    BY <1>1, <2>1, NeedCarried
  <2>5. IsFiniteSet(InTransit') /\ BytesInTransit' = BytesInTransit - Key(need[t])
    BY <1>1, <2>2, <2>3, <2>4, TransitLeaves
  <2>6. ParkedBytes' = ParkedBytes
    BY <2>1 DEF ParkedBytes
  <2>7. CounterGuarded'
    BY <1>1, <2>3 DEF CounterGuarded
  <2>8. PooledBytesExact'
    BY <1>1, <1>2, <1>3, <2>1, <2>2, <2>5, <2>6 DEF PooledBytesExact
  <2> QED
    BY <2>5, <2>7, <2>8 DEF CounterInv
<1>6. ASSUME NEW t \in Threads, NEW p \in Ptrs, ChargePooledBytes(t, p) PROVE CounterInv'
  <2> DEFINE n == lease[p]
             over == pooledBytes + size_bucket(n) > PoolCap /\ ~capturing
  <2>1. /\ pool_enabled /\ pc[t] = "idle" /\ lease[p] > 0 /\ Carry(t, p, n) /\ pool' = pool
        /\ Goto(t, IF over THEN "over" ELSE "charged")
        /\ pooledBytes' = IF over THEN pooledBytes ELSE pooledBytes + size_bucket(n)
    BY <1>6 DEF ChargePooledBytes, GiveUp, Idle
  <2>2. n \in Lens
    BY <1>1, <2>1 DEF TypeOK
  <2>3. t \notin InTransit
    BY <2>1, NotOnTheWay
  <2>4. need'[t] = n /\ \A u \in Threads \ {t} : need'[u] = need[u]
    BY <1>1, <2>1, NeedCarried
  <2> HIDE DEF n, over
  <2>5. CASE over
    <3>1. Goto(t, "over") /\ "over" \in PCs /\ pooledBytes' = pooledBytes
      BY <2>1, <2>5 DEF PCs
    <3> QED
      BY <2>1, <2>3, <2>4, <3>1, UncountedMove
  <2>6. CASE ~over
    <3>1. Goto(t, "charged") /\ "charged" \in PCs /\ pooledBytes' = pooledBytes + size_bucket(n)
      BY <2>1, <2>6 DEF PCs
    <3>2. InTransit' = InTransit \cup {t}
          /\ pc'[t] = "charged" /\ \A u \in Threads \ {t} : pc'[u] = pc[u]
      BY <1>1, <3>1, OneMoves
    <3>3. IsFiniteSet(InTransit') /\ BytesInTransit' = BytesInTransit + Key(n)
      BY <1>1, <2>2, <2>3, <2>4, <3>2, TransitEnters
    <3>4. Key(n) = size_bucket(n) /\ Key(n) \in Nat
      BY <2>1, <2>2, KeyHolds
    <3>5. ParkedBytes' = ParkedBytes
      BY <2>1 DEF ParkedBytes
    <3>6. CounterGuarded'
      BY <1>1, <2>1, <3>2 DEF CounterGuarded
    <3>7. PooledBytesExact'
      BY <1>1, <1>3, <2>1, <3>1, <3>3, <3>4, <3>5 DEF PooledBytesExact
    <3> QED
      BY <3>3, <3>6, <3>7 DEF CounterInv
  <2> QED
    BY <2>5, <2>6
<1>7. ASSUME NEW t \in Threads, PushPool(t) PROVE CounterInv'
  <2> DEFINE n == need[t]
             k == Key(n)
             s == Append(pool[k], hand[t])
  <2>1. /\ pc[t] = "push" /\ pool' = [pool EXCEPT ![k] = s] /\ pooledBytes' = pooledBytes
        /\ Goto(t, "idle") /\ Carry(t, NoPtr, 0) /\ "idle" \in PCs
    BY <1>7 DEF PushPool, Return, PCs
  <2>2. \A u \in Threads \ {t} : need'[u] = need[u]
    BY <1>1, <2>1, NeedCarried
  <2>3. CASE ~pool_enabled
    <3>1. t \notin InTransit
      BY <2>1, <2>3 DEF InTransit
    <3> QED
      BY <2>1, <2>2, <2>3, <3>1, UncountedMove
  <2>4. CASE pool_enabled
    <3>1. t \in InTransit /\ hand[t] \in Ptrs
      BY <1>1, <2>1, <2>4 DEF InTransit, CarriedTyped, InHand
    <3>2. InTransit' = InTransit \ {t}
          /\ pc'[t] = "idle" /\ \A u \in Threads \ {t} : pc'[u] = pc[u]
      BY <1>1, <2>1, OneMoves
    <3>3. IsFiniteSet(InTransit') /\ BytesInTransit' = BytesInTransit - k
      BY <1>1, <2>2, <3>1, <3>2, TransitLeaves
    <3>4. k \in Keys /\ k \in Nat
      BY <1>2, <3>1
    <3>5. pool[k] \in Seq(Ptrs)
      BY <1>1, <3>4 DEF TypeOK
    <3>6. s \in Seq(Ptrs) /\ Len(s) = Len(pool[k]) + 1 /\ Len(pool[k]) \in Nat
      BY <3>1, <3>5
    <3> HIDE DEF s
    <3>7. ParkedBytes' = ParkedBytes + k * Len(s) - k * Len(pool[k])
      BY <1>1, <2>1, <3>4, <3>6, OneListChanges
    <3>8. \A m, x \in Nat : m * (x + 1) = m * x + m /\ m * x \in Nat
      OBVIOUS
    <3>9. ParkedBytes' = ParkedBytes + k
      BY <1>3, <3>4, <3>6, <3>7, <3>8
    <3>10. CounterGuarded'
      BY <1>1, <3>2 DEF CounterGuarded
    <3>11. PooledBytesExact'
      BY <1>1, <1>3, <2>1, <2>4, <3>3, <3>4, <3>9 DEF PooledBytesExact
    <3> QED
      BY <3>3, <3>10, <3>11 DEF CounterInv
  <2> QED
    BY <2>3, <2>4
<1>8. CASE DropDevice
  <2>1. /\ \A t \in Threads : pc[t] = "idle"
        /\ pool' = [k \in Keys |-> <<>>] /\ pooledBytes' = 0 /\ pc' = pc
    BY <1>8 DEF DropDevice, Idle, threadVars
  <2>2. InTransit' = {} /\ CounterGuarded'
    BY <2>1 DEF InTransit, CounterGuarded
  <2>3. ParkedBytes' = 0
    <3> DEFINE g == [k \in Keys |-> k * Len(pool'[k])]
    <3>1. ParkedBytes' = SumFunctionOnSet(g, Keys)
      BY DEF ParkedBytes, SumFunction
    <3>2. \A k \in Keys : k \in Nat /\ Len(pool'[k]) = 0
      BY <2>1, KeysPositive
    <3>3. \A k \in Keys : g[k] = 0
      BY <3>2
    <3> HIDE DEF g
    <3> QED
      BY <3>1, <3>3, KeysFinite, SumIsZero
  <2>4. BytesInTransit' = 0
    <3> DEFINE g == Weights'
    <3>1. BytesInTransit' = SumFunctionOnSet(g, {})
      BY <2>2 DEF BytesInTransit, Weights
    <3> HIDE DEF g
    <3> QED
      BY <3>1, SumOverEmpty
  <2>5. PooledBytesExact'
    BY <2>1, <2>3, <2>4 DEF PooledBytesExact
  <2> QED
    BY <2>2, <2>5, FS_EmptySet DEF CounterInv
<1>9. ASSUME NEW t \in Threads, DropParked(t) PROVE CounterInv'
  <2> DEFINE l == IF pc[t] = "over" THEN "cuMemFree" ELSE "push"
  <2>1. /\ pc[t] \in {"over", "charged"} /\ Goto(t, l) /\ l \in PCs
        /\ pool' = pool /\ pooledBytes' = pooledBytes /\ need' = need
    BY <1>9 DEF DropParked, PCs
  <2>2. t \in InTransit <=> pc[t] = "charged"
    BY <2>1 DEF InTransit
  <2> QED
    BY <2>1, <2>2, UncountedMove
<1>10. ASSUME NEW t \in Threads,
              \/ \E n \in Lens : AllocRawMiss(t, n)
              \/ (\E p \in Ptrs : CuMemAlloc(t, p)) \/ CuMemAllocFails(t) \/ CuMemFree(t)
              \/ (\E p \in Ptrs : FreeRaw(t, p) /\ ~capturing)
              \/ (\E p \in Ptrs : FreeUnpooled(t, p))
              \/ BeginCapture(t) \/ CuStreamBeginCapture(t) \/ CuStreamBeginCaptureFails(t)
              \/ EndCapture(t) \/ ClearCapturing(t)
       PROVE  CounterInv'
  <2>1. /\ pool' = pool /\ pooledBytes' = pooledBytes
        /\ pc[t] \in {"idle", "cuMemAlloc", "cuMemFree", "begin", "ending"}
    BY <1>10 DEF AllocRawMiss, CuMemAlloc, CuMemAllocFails, CuMemFree, FreeRaw, FreeUnpooled, GiveUp,
         BeginCapture, CuStreamBeginCapture, CuStreamBeginCaptureFails, EndCapture, ClearCapturing,
         heapState, Idle
  <2>2. \E l \in {"cuMemAlloc", "idle", "cuMemFree", "push", "begin", "ending"} :
          Goto(t, l) /\ (l = "push" => ~pool_enabled)
    BY <1>10 DEF AllocRawMiss, CuMemAlloc, CuMemAllocFails, CuMemFree, FreeRaw, FreeUnpooled,
         BeginCapture, CuStreamBeginCapture, CuStreamBeginCaptureFails, EndCapture, ClearCapturing,
         Return
  <2>3. \A u \in Threads \ {t} : need'[u] = need[u]
    <3>1. UNCHANGED need \/ \E p, n : Carry(t, p, n)
      BY <1>10 DEF AllocRawMiss, CuMemAlloc, CuMemAllocFails, CuMemFree, FreeRaw, FreeUnpooled,
           BeginCapture, CuStreamBeginCapture, CuStreamBeginCaptureFails, EndCapture,
           ClearCapturing, Return
    <3> QED
      BY <1>1, <3>1, NeedCarried
  <2>4. t \notin InTransit
    BY <2>1, NotOnTheWay
  <2>5. PICK l \in {"cuMemAlloc", "idle", "cuMemFree", "push", "begin", "ending"} :
          Goto(t, l) /\ (l = "push" => ~pool_enabled)
    BY <2>2
  <2>6. l \in PCs
    BY DEF PCs
  <2> QED
    BY <2>1, <2>3, <2>4, <2>5, <2>6, UncountedMove
<1>11. ASSUME NEW t \in Threads, NEW p \in Ptrs, RecordLaunch(t, p) \/ (FreeRaw(t, p) /\ capturing)
       PROVE  CounterInv'
  <2>1. /\ pool' = pool /\ pooledBytes' = pooledBytes /\ pc' = pc /\ need' = need
    BY <1>11 DEF RecordLaunch, FreeRaw, heapState, threadVars
  <2>2. InTransit' = InTransit /\ CounterGuarded'
    BY <1>1, <2>1 DEF InTransit, CounterGuarded
  <2> QED
    BY <1>1, <2>1, <2>2, CounterStays, UncountedOff
<1> QED
  BY <1>4, <1>5, <1>6, <1>7, <1>8, <1>9, <1>10, <1>11 DEF Next, Step, Call

LEMMA CounterInvariant == Spec => []CounterInv
<1>1. IInv /\ CounterInv /\ [Next]_vars => CounterInv'
  <2> SUFFICES ASSUME IInv, CounterInv, [Next]_vars PROVE CounterInv'
    OBVIOUS
  <2>1. UNCHANGED pool_enabled
    BY ModeStays
  <2>2. CASE Next
    BY <2>1, <2>2, CounterStep
  <2>3. CASE UNCHANGED vars
    <3>1. UNCHANGED <<pool, pooledBytes, pc, need>>
      BY <2>3 DEF vars, threadVars
    <3>2. InTransit' = InTransit /\ CounterGuarded'
      BY <2>1, <3>1 DEF InTransit, CounterGuarded, CounterInv
    <3> QED
      BY <2>1, <3>1, <3>2, CounterStays, UncountedOff DEF CounterInv
  <2> QED
    BY <2>2, <2>3
<1> QED
  BY InitCounter, Invariant, <1>1, PTL DEF Spec

(* pooled_bytes is the sum over the free-lists plus the buffers on their   *)
(* way, although it has a mutex of its own, for any number of threads,     *)
(* lengths and addresses, captures included.                               *)
THEOREM CounterExact == Spec => []PooledBytesExact
<1>1. CounterInv => PooledBytesExact
  BY DEF CounterInv
<1> QED
  BY <1>1, CounterInvariant, PTL

---------------------------------------------------------------------------
(* The cap, where nothing captures                                         *)

NeverCaptures ==
  /\ ~capturing
  /\ \A t \in Threads : pc[t] # "begin"
CapInv ==
  /\ NeverCaptures
  /\ pooledBytes <= PoolCap
  /\ ~pool_enabled =>
       (\A k \in Keys : pool[k] = <<>>) /\ \A t \in Threads : pc[t] # "push"

LEMMA CapStep ==
  ASSUME Capturers = {}, IInv, CounterInv, CapInv, [Next]_vars, UNCHANGED pool_enabled
  PROVE  CapInv'
<1>1. /\ TypeOK /\ pooledBytes \in Int /\ PoolCap \in Nat /\ CounterGuarded /\ CarriedTyped
  BY PoolAssumption DEF IInv, TypeOK, CounterInv
<1>2. CASE UNCHANGED vars
  BY <1>2 DEF vars, captureVars, threadVars, CapInv, NeverCaptures
<1>3. CASE DropDevice
  <2>1. pooledBytes' = 0 /\ pool' = [k \in Keys |-> <<>>] /\ pc' = pc /\ capturing' = capturing
    BY <1>3 DEF DropDevice, threadVars
  <2> QED
    BY <1>1, <2>1 DEF CapInv, NeverCaptures
<1>4. ASSUME NEW t \in Threads, Step(t) \/ Call(t), capturing' = capturing,
             NEW l \in PCs \ {"begin"}, Goto(t, l), l = "push" => pool_enabled,
             pool_enabled \/ pool' = pool, pooledBytes' <= PoolCap
      PROVE  CapInv'
  <2>1. pc'[t] = l /\ \A u \in Threads \ {t} : pc'[u] = pc[u]
    BY <1>1, <1>4, OneMoves
  <2> QED
    BY <1>4, <2>1 DEF CapInv, NeverCaptures
<1>5. ASSUME NEW t \in Threads, NEW n \in Lens, AllocRawHit(t, n) PROVE CapInv'
  <2>1. pool_enabled
    BY <1>5, KeyHolds DEF AllocRawHit, CapInv
  <2>2. Goto(t, "debit") /\ "debit" \in PCs \ {"begin"}
    BY <1>5, <2>1 DEF AllocRawHit, PCs
  <2>3. capturing' = capturing /\ pooledBytes' = pooledBytes
    BY <1>5 DEF AllocRawHit, captureVars
  <2> QED
    BY <1>4, <1>5, <2>1, <2>2, <2>3 DEF Call, CapInv
<1>6. ASSUME NEW t \in Threads, DebitPooledBytes(t) PROVE CapInv'
  <2>1. need[t] \in Lens /\ pooledBytes' = pooledBytes - Key(need[t]) /\ pool' = pool
        /\ capturing' = capturing /\ Goto(t, "idle") /\ "idle" \in PCs \ {"begin"}
    BY <1>1, <1>6 DEF DebitPooledBytes, CarriedTyped, InHand, captureVars, Return, PCs
  <2>2. Key(need[t]) \in Nat
    BY <2>1, KeyHolds
  <2>3. pooledBytes' <= PoolCap
    BY <1>1, <2>1, <2>2 DEF CapInv
  <2> QED
    BY <1>4, <1>6, <2>1, <2>3 DEF Step
<1>7. ASSUME NEW t \in Threads, NEW p \in Ptrs, ChargePooledBytes(t, p) PROVE CapInv'
  <2> DEFINE over == pooledBytes + size_bucket(lease[p]) > PoolCap /\ ~capturing
  <2>1. /\ pool_enabled /\ lease[p] > 0 /\ pool' = pool /\ capturing' = capturing
        /\ Goto(t, IF over THEN "over" ELSE "charged")
        /\ pooledBytes' = IF over THEN pooledBytes ELSE pooledBytes + size_bucket(lease[p])
    BY <1>7 DEF ChargePooledBytes, GiveUp, unorphaned
  <2>2. lease[p] \in Lens
    BY <1>1, <2>1 DEF TypeOK
  <2>3. size_bucket(lease[p]) \in Nat
    BY <2>2, KeyHolds
  <2>4. pooledBytes' <= PoolCap
    BY <1>1, <2>1, <2>3 DEF CapInv, NeverCaptures
  <2>5. PICK l \in {"over", "charged"} : Goto(t, l)
    BY <2>1
  <2>6. l \in PCs \ {"begin"}
    BY DEF PCs
  <2> QED
    BY <1>4, <1>7, <2>1, <2>4, <2>5, <2>6 DEF Call
<1>8. ASSUME NEW t \in Threads, PushPool(t) PROVE CapInv'
  <2>1. pool_enabled
    BY <1>8 DEF PushPool, CapInv
  <2>2. /\ capturing' = capturing /\ pooledBytes' = pooledBytes
        /\ Goto(t, "idle") /\ "idle" \in PCs \ {"begin"}
    BY <1>8 DEF PushPool, captureVars, Return, PCs
  <2> QED
    BY <1>4, <1>8, <2>1, <2>2 DEF Step, CapInv
<1>9. ASSUME NEW t \in Threads, DropParked(t) PROVE CapInv'
  <2> DEFINE l == IF pc[t] = "over" THEN "cuMemFree" ELSE "push"
  <2>1. /\ pc[t] \in {"over", "charged"} /\ Goto(t, l) /\ l \in PCs \ {"begin"}
        /\ pool' = pool /\ pooledBytes' = pooledBytes /\ capturing' = capturing
    BY <1>9 DEF DropParked, PCs, captureVars
  <2>2. pool_enabled
    BY <1>1, <2>1 DEF CounterGuarded
  <2> HIDE DEF l
  <2> QED
    BY <1>4, <1>9, <2>1, <2>2 DEF Step, CapInv
<1>10. ASSUME NEW t \in Threads,
              \/ \E n \in Lens : AllocRawMiss(t, n)
              \/ (\E p \in Ptrs : CuMemAlloc(t, p)) \/ CuMemAllocFails(t) \/ CuMemFree(t)
              \/ (\E p \in Ptrs : FreeRaw(t, p))
              \/ (\E p \in Ptrs : FreeUnpooled(t, p))
       PROVE  CapInv'
  <2>1. pool' = pool /\ pooledBytes' = pooledBytes /\ capturing' = capturing /\ ~capturing
    BY <1>10 DEF AllocRawMiss, CuMemAlloc, CuMemAllocFails, CuMemFree, FreeRaw, FreeUnpooled,
         captureVars, unorphaned, CapInv, NeverCaptures
  <2>2. PICK l \in {"cuMemAlloc", "idle", "cuMemFree"} : Goto(t, l)
    BY <1>10, <2>1 DEF AllocRawMiss, CuMemAlloc, CuMemAllocFails, CuMemFree, FreeRaw,
         FreeUnpooled, Return
  <2>3. l \in PCs \ {"begin"}
    BY DEF PCs
  <2> QED
    BY <1>4, <1>10, <2>1, <2>2, <2>3 DEF Step, Call, CapInv
<1>11. ASSUME NEW t \in Threads, ClearCapturing(t) PROVE CapInv'
  <2>1. pool' = pool /\ pooledBytes' = pooledBytes /\ capturing' = FALSE
        /\ Goto(t, "idle") /\ "idle" \in PCs \ {"begin"} /\ capturing \in BOOLEAN
    BY <1>1, <1>11 DEF ClearCapturing, heapState, PCs, TypeOK
  <2> QED
    BY <1>4, <1>11, <2>1 DEF Step, CapInv, NeverCaptures
<1>12. ASSUME NEW t \in Threads, NEW p \in Ptrs, RecordLaunch(t, p) PROVE CapInv'
  BY <1>12 DEF RecordLaunch, heapState, threadVars, CapInv, NeverCaptures
<1>13. ASSUME NEW t \in Threads,
              BeginCapture(t) \/ EndCapture(t) \/ CuStreamBeginCapture(t) \/ CuStreamBeginCaptureFails(t)
       PROVE  FALSE
  BY <1>13 DEF BeginCapture, EndCapture, CuStreamBeginCapture, CuStreamBeginCaptureFails, CapInv,
       NeverCaptures
<1> QED
  BY <1>2, <1>3, <1>5, <1>6, <1>7, <1>8, <1>9, <1>10, <1>11, <1>12, <1>13 DEF Next, Step, Call

(* Where nothing captures, the memory parked stays under the cap in every  *)
(* interleaving, although the decision to park is taken under pooled_bytes'*)
(* mutex and the parking under the pool's.                                 *)
THEOREM CapHolds == Capturers = {} => (Spec => []ParkedWithinCap)
<1> SUFFICES ASSUME Capturers = {} PROVE Spec => []ParkedWithinCap
  OBVIOUS
<1>1. Init => CapInv
  BY PoolAssumption DEF Init, CapInv, NeverCaptures
<1>2. IInv /\ CounterInv /\ CapInv /\ [Next]_vars => CapInv'
  BY CapStep, ModeStays
<1>3. IInv /\ CounterInv /\ CapInv => ParkedWithinCap
  <2> SUFFICES ASSUME IInv, CounterInv, CapInv PROVE ParkedBytes <= PoolCap
    BY DEF ParkedWithinCap
  <2>1. /\ TypeOK /\ CarriedTyped /\ PoolCap \in Nat /\ PooledBytesExact /\ IsFiniteSet(InTransit)
        /\ pooledBytes <= PoolCap
    BY PoolAssumption DEF IInv, CounterInv, CapInv
  <2>2. ParkedBytes \in Nat /\ BytesInTransit \in Nat
    BY <2>1, ListBytesNat, TransitWeights, SumIsNat
  <2>3. CASE pool_enabled
    BY <2>1, <2>2, <2>3 DEF PooledBytesExact
  <2>4. CASE ~pool_enabled
    <3>1. \A k \in Keys : k \in Nat /\ Len(pool[k]) = 0
      BY <2>4, KeysPositive DEF CapInv
    <3>2. /\ \A k \in Keys : ListBytes[k] = k * Len(pool[k])
          /\ ParkedBytes = SumFunctionOnSet(ListBytes, Keys)
      BY <2>1, ListBytesNat
    <3>3. \A k \in Keys : ListBytes[k] = 0
      BY <3>1, <3>2
    <3>4. ParkedBytes = 0
      BY <3>2, <3>3, KeysFinite, SumIsZero
    <3> QED
      BY <2>1, <3>4
  <2> QED
    BY <2>3, <2>4
<1> QED
  BY <1>1, <1>2, <1>3, Invariant, CounterInvariant, PTL DEF Spec

---------------------------------------------------------------------------
(* With a single thread recording graphs, the frees never give the driver  *)
(* memory that the capture in progress has recorded, although they read    *)
(* the flag and free without a lock in between.                            *)

OneCapturer == \A s, u \in Capturers : s = u

(* The buffer a thread carries is on its way back to the driver. *)
Condemned(t) == pc[t] \in {"over", "cuMemFree"}

(* What the flag says of the driver's state, seen from the two points in   *)
(* begin_capture and end_capture where they differ.                        *)
FlagFollows ==
  /\ streamCapturing => capturing
  /\ \A t \in Threads :
       /\ pc[t] = "begin" => t \in Capturers /\ capturing
       /\ pc[t] = "ending" => t \in Capturers /\ ~streamCapturing

(* What the capture in progress has recorded is mapped, and no free that   *)
(* began before it was recorded is about to unmap it.                      *)
RecordedStays ==
  streamCapturing =>
    \A p \in recorded : size[p] > 0 /\ \A t \in Threads : Condemned(t) => hand[t] # p

CaptureInvariant == FlagFollows /\ RecordedStays

---------------------------------------------------------------------------

LEMMA InitCapture == Init => CaptureInvariant
  BY DEF Init, CaptureInvariant, FlagFollows, RecordedStays

(* A step that leaves the capture alone, and neither condemns a buffer     *)
(* that is recorded nor changes its size.                                  *)
LEMMA CaptureStays ==
  ASSUME CaptureInvariant,
         UNCHANGED <<capturing, streamCapturing, recorded>>,
         \A u \in Threads : pc'[u] \in {"begin", "ending"} => pc'[u] = pc[u],
         streamCapturing => \A p \in recorded : size'[p] = size[p],
         streamCapturing => \A u \in Threads :
            Condemned(u)' => \/ Condemned(u) /\ hand'[u] = hand[u]
                             \/ hand'[u] \notin recorded
  PROVE  CaptureInvariant'
  <1>1. FlagFollows'
    BY DEF CaptureInvariant, FlagFollows
  <1>2. RecordedStays'
    BY DEF CaptureInvariant, RecordedStays
  <1> QED BY <1>1, <1>2 DEF CaptureInvariant

(* One thread moves to a place where it condemns nothing. *)
LEMMA MoveStays ==
  ASSUME IInv, CaptureInvariant, NEW t \in Threads,
         NEW l \in PCs \ {"begin", "ending", "over", "cuMemFree"}, Goto(t, l),
         \A u \in Threads \ {t} : hand'[u] = hand[u],
         UNCHANGED <<capturing, streamCapturing, recorded>>,
         streamCapturing => \A p \in recorded : size'[p] = size[p]
  PROVE  CaptureInvariant'
  <1>1. pc'[t] = l /\ \A u \in Threads \ {t} : pc'[u] = pc[u]
    BY DEF Goto, IInv, TypeOK
  <1>2. \A u \in Threads : pc'[u] \in {"begin", "ending"} => pc'[u] = pc[u]
    BY <1>1
  <1>3. \A u \in Threads : Condemned(u)' => Condemned(u) /\ hand'[u] = hand[u]
    BY <1>1 DEF Condemned
  <1> QED BY <1>2, <1>3, CaptureStays

(* A free that starts while the stream records does not condemn: the flag  *)
(* is set by then.                                                         *)
LEMMA FreeStays ==
  ASSUME IInv, CaptureInvariant, NEW t \in Threads, NEW p \in Ptrs,
         FreeRaw(t, p) \/ ChargePooledBytes(t, p) \/ FreeUnpooled(t, p)
  PROVE  CaptureInvariant'
  <1>1. UNCHANGED <<capturing, streamCapturing, recorded, size>>
    BY DEF FreeRaw, ChargePooledBytes, FreeUnpooled, unorphaned
  <1>2. /\ \A u \in Threads \ {t} : pc'[u] = pc[u] /\ hand'[u] = hand[u]
        /\ pc'[t] \notin {"begin", "ending"}
        /\ capturing => ~Condemned(t)'
    <2>1. pc \in [Threads -> PCs] /\ hand \in [Threads -> Ptrs \cup {NoPtr}] /\ pc[t] = "idle"
      BY DEF IInv, TypeOK, FreeRaw, ChargePooledBytes, FreeUnpooled, GiveUp, Idle
    <2>2. CASE FreeRaw(t, p)
      BY <2>1, <2>2 DEF FreeRaw, Goto, Carry, threadVars, Condemned
    <2>3. CASE ChargePooledBytes(t, p)
      BY <2>1, <2>3 DEF ChargePooledBytes, Goto, Carry, Condemned
    <2>4. CASE FreeUnpooled(t, p)
      BY <2>1, <2>4 DEF FreeUnpooled, Goto, Carry, Condemned
    <2> QED BY <2>2, <2>3, <2>4
  <1>3. streamCapturing => capturing
    BY DEF CaptureInvariant, FlagFollows
  <1>4. \A u \in Threads : pc'[u] \in {"begin", "ending"} => pc'[u] = pc[u]
    BY <1>2
  <1>5. streamCapturing => \A u \in Threads : Condemned(u)' => Condemned(u) /\ hand'[u] = hand[u]
    BY <1>2, <1>3 DEF Condemned
  <1> QED BY <1>1, <1>4, <1>5, CaptureStays

(* What a client holds while it is recorded is mapped and in no free. *)
LEMMA RecordStays ==
  ASSUME IInv, CaptureInvariant, NEW t \in Threads, NEW p \in Ptrs, RecordLaunch(t, p)
  PROVE  CaptureInvariant'
  <1>1. /\ lease[p] \in Lens /\ size[p] = Key(lease[p]) /\ ~Held(p)
    BY DEF RecordLaunch, IInv, TypeOK, BucketSized, LeasedSized, Leased, SingleOwner, OnePlace
  <1>2. size[p] > 0
    BY <1>1, KeyHolds
  <1>3. \A u \in Threads : Condemned(u) => hand[u] # p
    BY <1>1 DEF Held, InHand, Condemned
  <1>4. /\ UNCHANGED <<capturing, streamCapturing, size, pc, hand>>
        /\ recorded' = recorded \cup {p}
    BY DEF RecordLaunch, heapState, threadVars
  <1>5. FlagFollows'
    BY <1>4 DEF CaptureInvariant, FlagFollows
  <1>6. RecordedStays'
    BY <1>2, <1>3, <1>4 DEF CaptureInvariant, RecordedStays, Condemned
  <1> QED BY <1>5, <1>6 DEF CaptureInvariant

(* Begin and end of a capture, by the only thread that captures. *)
LEMMA CapturerStays ==
  ASSUME OneCapturer, IInv, CaptureInvariant, NEW t \in Threads,
         \/ BeginCapture(t) \/ CuStreamBeginCapture(t) \/ CuStreamBeginCaptureFails(t)
         \/ EndCapture(t) \/ ClearCapturing(t)
  PROVE  CaptureInvariant'
  <1>1. pc \in [Threads -> PCs]
    BY DEF IInv, TypeOK
  <1>2. CASE BeginCapture(t)
    <2>1. /\ pc'[t] = "begin" /\ \A u \in Threads \ {t} : pc'[u] = pc[u]
          /\ capturing' = TRUE /\ t \in Capturers /\ pc[t] = "idle"
          /\ UNCHANGED <<streamCapturing, recorded, size, hand>>
      BY <1>1, <1>2 DEF BeginCapture, Goto, heapState, Idle
    <2>2. FlagFollows'
      BY <2>1 DEF CaptureInvariant, FlagFollows
    <2>3. RecordedStays'
      BY <2>1 DEF CaptureInvariant, RecordedStays, Condemned
    <2> QED BY <2>2, <2>3 DEF CaptureInvariant
  <1>3. CASE CuStreamBeginCapture(t)
    <2>1. /\ pc[t] = "begin" /\ pc'[t] = "idle" /\ \A u \in Threads \ {t} : pc'[u] = pc[u]
          /\ streamCapturing' = TRUE /\ recorded' = {} /\ UNCHANGED capturing
      BY <1>1, <1>3 DEF CuStreamBeginCapture, Goto
    <2>2. t \in Capturers /\ capturing /\ \A u \in Threads \ {t} : pc[u] # "ending"
      BY <2>1 DEF CaptureInvariant, FlagFollows, OneCapturer
    <2>3. FlagFollows'
      BY <2>1, <2>2 DEF CaptureInvariant, FlagFollows
    <2>4. RecordedStays'
      BY <2>1 DEF RecordedStays
    <2> QED BY <2>3, <2>4 DEF CaptureInvariant
  <1>4. CASE CuStreamBeginCaptureFails(t)
    <2>1. /\ Goto(t, "idle") /\ UNCHANGED <<hand, capturing, streamCapturing, recorded, size>>
      BY <1>4 DEF CuStreamBeginCaptureFails, heapState, captureVars
    <2>2. "idle" \in PCs \ {"begin", "ending", "over", "cuMemFree"}
      BY DEF PCs
    <2> QED BY <2>1, <2>2, MoveStays
  <1>5. CASE EndCapture(t)
    <2>1. /\ pc'[t] = "ending" /\ \A u \in Threads \ {t} : pc'[u] = pc[u]
          /\ streamCapturing' = FALSE /\ t \in Capturers /\ UNCHANGED capturing
      BY <1>1, <1>5 DEF EndCapture, Goto
    <2>2. FlagFollows'
      BY <2>1 DEF CaptureInvariant, FlagFollows
    <2>3. RecordedStays'
      BY <2>1 DEF RecordedStays
    <2> QED BY <2>2, <2>3 DEF CaptureInvariant
  <1>6. CASE ClearCapturing(t)
    <2>1. /\ pc[t] = "ending" /\ pc'[t] = "idle" /\ \A u \in Threads \ {t} : pc'[u] = pc[u]
          /\ UNCHANGED streamCapturing
      BY <1>1, <1>6 DEF ClearCapturing, Goto
    <2>2. t \in Capturers /\ ~streamCapturing /\ \A u \in Threads \ {t} : pc[u] # "begin"
      BY <2>1 DEF CaptureInvariant, FlagFollows, OneCapturer
    <2>3. FlagFollows'
      BY <2>1, <2>2 DEF CaptureInvariant, FlagFollows
    <2>4. RecordedStays'
      BY <2>1, <2>2 DEF RecordedStays
    <2> QED BY <2>3, <2>4 DEF CaptureInvariant
  <1> QED BY <1>2, <1>3, <1>4, <1>5, <1>6

(* The driver maps only what is not mapped, and unmaps what no capture has *)
(* recorded.                                                               *)
LEMMA DriverStays ==
  ASSUME IInv, CaptureInvariant, NEW t \in Threads,
         CuMemFree(t) \/ \E p \in Ptrs : CuMemAlloc(t, p)
  PROVE  CaptureInvariant'
  <1>1. /\ Goto(t, "idle") /\ \A u \in Threads \ {t} : hand'[u] = hand[u]
        /\ UNCHANGED <<capturing, streamCapturing, recorded>>
    BY DEF CuMemFree, CuMemAlloc, Return, Carry, IInv, TypeOK, captureVars
  <1>2. "idle" \in PCs \ {"begin", "ending", "over", "cuMemFree"}
    BY DEF PCs
  <1>3. size \in [Ptrs -> Nat] /\ recorded \subseteq Ptrs
    BY DEF IInv, TypeOK
  <1>4. streamCapturing => \A p \in recorded : size'[p] = size[p]
    <2>1. CASE CuMemFree(t)
      <3>1. streamCapturing => hand[t] \notin recorded
        BY <2>1 DEF CuMemFree, CaptureInvariant, RecordedStays, Condemned
      <3> QED BY <2>1, <3>1, <1>3 DEF CuMemFree
    <2>2. ASSUME NEW q \in Ptrs, CuMemAlloc(t, q)
          PROVE  streamCapturing => \A p \in recorded : size'[p] = size[p]
      <3>1. streamCapturing => q \notin recorded
        BY <2>2, <1>3 DEF CuMemAlloc, CaptureInvariant, RecordedStays
      <3> QED BY <2>2, <3>1, <1>3 DEF CuMemAlloc
    <2> QED BY <2>1, <2>2
  <1> QED BY <1>1, <1>2, <1>4, MoveStays

(* The rest of alloc_raw and free_raw_pooled. *)
LEMMA PoolStepStays ==
  ASSUME IInv, CaptureInvariant, NEW t \in Threads,
         \/ DebitPooledBytes(t) \/ CuMemAllocFails(t) \/ DropParked(t) \/ PushPool(t)
         \/ \E n \in Lens : AllocRawHit(t, n) \/ AllocRawMiss(t, n)
  PROVE  CaptureInvariant'
  <1>1. pc \in [Threads -> PCs] /\ hand \in [Threads -> Ptrs \cup {NoPtr}]
    BY DEF IInv, TypeOK
  <1>2. /\ "idle" \in PCs \ {"begin", "ending", "over", "cuMemFree"}
        /\ "debit" \in PCs \ {"begin", "ending", "over", "cuMemFree"}
        /\ "cuMemAlloc" \in PCs \ {"begin", "ending", "over", "cuMemFree"}
    BY DEF PCs
  <1>3. UNCHANGED <<capturing, streamCapturing, recorded, size>>
    BY DEF DebitPooledBytes, CuMemAllocFails, DropParked, PushPool, AllocRawHit, AllocRawMiss,
           captureVars
  <1>4. CASE DebitPooledBytes(t) \/ CuMemAllocFails(t) \/ PushPool(t)
    <2>1. Goto(t, "idle") /\ \A u \in Threads \ {t} : hand'[u] = hand[u]
      BY <1>1, <1>4 DEF DebitPooledBytes, CuMemAllocFails, PushPool, Return, Carry
    <2> QED BY <1>2, <1>3, <2>1, MoveStays
  <1>5. CASE DropParked(t)
    <2>1. /\ hand' = hand /\ pc'[t] \in {"cuMemFree", "push"}
          /\ pc'[t] = "cuMemFree" => Condemned(t)
          /\ \A u \in Threads \ {t} : pc'[u] = pc[u]
      BY <1>1, <1>5 DEF DropParked, Goto, Condemned
    <2>2. \A u \in Threads : pc'[u] \in {"begin", "ending"} => pc'[u] = pc[u]
      BY <2>1
    <2>3. \A u \in Threads : Condemned(u)' => Condemned(u) /\ hand'[u] = hand[u]
      BY <2>1 DEF Condemned
    <2> QED BY <1>3, <2>2, <2>3, CaptureStays
  <1>6. ASSUME NEW n \in Lens, AllocRawHit(t, n) PROVE CaptureInvariant'
    <2>1. CASE pool_enabled
      <3>1. Goto(t, "debit") /\ \A u \in Threads \ {t} : hand'[u] = hand[u]
        BY <1>1, <1>6, <2>1 DEF AllocRawHit, Carry
      <3> QED BY <1>2, <1>3, <3>1, MoveStays
    <2>2. CASE ~pool_enabled
      <3>1. UNCHANGED <<pc, hand>>
        BY <1>6, <2>2 DEF AllocRawHit, threadVars
      <3>2. \A u \in Threads : Condemned(u)' => Condemned(u) /\ hand'[u] = hand[u]
        BY <3>1 DEF Condemned
      <3> QED BY <1>3, <3>1, <3>2, CaptureStays
    <2> QED BY <2>1, <2>2
  <1>7. ASSUME NEW n \in Lens, AllocRawMiss(t, n) PROVE CaptureInvariant'
    <2>1. Goto(t, "cuMemAlloc") /\ \A u \in Threads \ {t} : hand'[u] = hand[u]
      BY <1>1, <1>7 DEF AllocRawMiss, Carry
    <2> QED BY <1>2, <1>3, <2>1, MoveStays
  <1> QED BY <1>4, <1>5, <1>6, <1>7

LEMMA StepCapture ==
  ASSUME OneCapturer, IInv, CaptureInvariant, [Next]_vars
  PROVE  CaptureInvariant'
  <1>1. ASSUME NEW t \in Threads, Step(t) PROVE CaptureInvariant'
    BY <1>1, DriverStays, PoolStepStays, CapturerStays DEF Step
  <1>2. ASSUME NEW t \in Threads, Call(t) PROVE CaptureInvariant'
    BY <1>2, PoolStepStays, FreeStays, CapturerStays, RecordStays DEF Call
  <1>3. CASE DropDevice
    <2>1. /\ streamCapturing' = FALSE /\ UNCHANGED <<pc, capturing>>
          /\ \A t \in Threads : pc[t] = "idle"
      BY <1>3 DEF DropDevice, Idle, threadVars
    <2> QED BY <2>1 DEF CaptureInvariant, FlagFollows, RecordedStays
  <1>4. CASE UNCHANGED vars
    <2>1. UNCHANGED <<capturing, streamCapturing, recorded, size, pc, hand>>
      BY <1>4 DEF vars, captureVars, threadVars
    <2>2. \A u \in Threads : Condemned(u)' => Condemned(u) /\ hand'[u] = hand[u]
      BY <2>1 DEF Condemned
    <2> QED BY <2>1, <2>2, CaptureStays
  <1> QED BY <1>1, <1>2, <1>3, <1>4 DEF Next

(* What a step that keeps the stream recording does to a recorded address. *)
LEMMA StepPins ==
  ASSUME IInv, CaptureInvariant, [Next]_vars, streamCapturing, streamCapturing',
         NEW p \in recorded
  PROVE  size'[p] = size[p]
  <1>1. /\ size \in [Ptrs -> Nat] /\ p \in Ptrs /\ size[p] > 0
        /\ \A t \in Threads : Condemned(t) => hand[t] # p
    BY DEF IInv, TypeOK, CaptureInvariant, RecordedStays
  <1>2. ASSUME NEW t \in Threads, CuMemFree(t) PROVE size'[p] = size[p]
    BY <1>1, <1>2 DEF CuMemFree, Condemned
  <1>3. ASSUME NEW t \in Threads, NEW q \in Ptrs, CuMemAlloc(t, q) PROVE size'[p] = size[p]
    BY <1>1, <1>3 DEF CuMemAlloc
  <1>4. ASSUME NEW t \in Threads,
               \/ DebitPooledBytes(t) \/ CuMemAllocFails(t) \/ DropParked(t) \/ PushPool(t)
               \/ CuStreamBeginCapture(t) \/ CuStreamBeginCaptureFails(t) \/ ClearCapturing(t)
        PROVE  size' = size
    BY <1>4 DEF DebitPooledBytes, CuMemAllocFails, DropParked, PushPool, CuStreamBeginCapture,
                CuStreamBeginCaptureFails, ClearCapturing, heapState
  <1>5. ASSUME NEW t \in Threads, Call(t) PROVE size' = size
    BY <1>5 DEF Call, AllocRawHit, AllocRawMiss, FreeRaw, ChargePooledBytes, FreeUnpooled,
                BeginCapture, EndCapture, RecordLaunch, heapState
  <1>6. CASE DropDevice
    BY <1>6 DEF DropDevice
  <1>7. CASE UNCHANGED vars
    BY <1>7 DEF vars
  <1> QED BY <1>2, <1>3, <1>4, <1>5, <1>6, <1>7 DEF Next, Step

(* As long as one thread does all the capturing, an address the capture in *)
(* progress has recorded stays mapped, for every number of other threads   *)
(* allocating and freeing meanwhile, with the pool on or off.              *)
THEOREM CapturePinned ==
  ASSUME OneCapturer
  PROVE  Spec => CapturePinsMemory
  <1>1. IInv /\ CaptureInvariant /\ [Next]_vars => CaptureInvariant'
    BY StepCapture
  <1>2. /\ IInv /\ CaptureInvariant /\ [Next]_vars
        => [streamCapturing /\ streamCapturing' => \A p \in recorded : size'[p] = size[p]]_vars
    BY StepPins
  <1> QED BY <1>1, <1>2, InitCapture, Invariant, PTL DEF Spec, CapturePinsMemory
===========================================================================
