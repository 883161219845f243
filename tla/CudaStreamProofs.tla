-------------------------- MODULE CudaStreamProofs --------------------------
(***************************************************************************)
(* The staging buffers of CudaStream, for every number of threads, pinned  *)
(* buffers and lengths: each pinned buffer is in one place and fits what   *)
(* is copied into it.  What staged copies carry takes one thread: with     *)
(* several a pinned buffer can be reclaimed while the device has still to  *)
(* read it; with one it cannot, since nobody else enqueues a copy between  *)
(* the end of a wait and the end of reclaim_pinned.                        *)
(***************************************************************************)
EXTENDS CudaStream, SharedFacts

Carrying == {"memcpy", "enqueue", "inflight"}
PCs == {"idle", "cuMemAllocHost", "memcpy", "enqueue", "inflight", "upload", "dtoh",
        "synchronize", "copyBack", "reclaim", "drain", "draining", "batch"}

(* The part of the state that says where pinned buffers are. *)
places == <<pinned, pinnedFree, pinnedInflight, leakedPinned>>

StagingTyped ==
  /\ pinned \in [Stagings -> Lens \cup {0}]
  /\ pinnedFree \in [Lens -> Seq(Stagings)]
  /\ pinnedInflight \in Seq(Stagings \X Lens)
  /\ leakedPinned \subseteq Stagings
  /\ pc \in [Threads -> PCs]
  /\ need \in [Threads -> Lens \cup {0}]
  /\ hand \in [Threads -> Stagings \cup {NoStaging}]

(* What a thread has in hand between two steps of htod, and what it has    *)
(* locked and seen between two steps of reclaim_pinned.                    *)
CallOK(t) ==
  /\ pc[t] \in Carrying <=> hand[t] # NoStaging
  /\ pc[t] \in Carrying \cup {"cuMemAllocHost"} => need[t] \in Lens
  /\ pc[t] \in {"drain", "draining"} => inflightLock = t /\ pinnedInflight # <<>>

PlaceInv ==
  /\ StagingTyped
  /\ \A t \in Threads : CallOK(t)
  /\ OnePlaceEach
  /\ StagingFits

---------------------------------------------------------------------------

LEMMA PopStack ==
  ASSUME NEW S, NEW s \in Seq(S), s # <<>>
  PROVE  /\ SubSeq(s, 1, Len(s) - 1) \in Seq(S)
         /\ DOMAIN SubSeq(s, 1, Len(s) - 1) = DOMAIN s \ {Len(s)}
         /\ \A i \in DOMAIN s \ {Len(s)} : SubSeq(s, 1, Len(s) - 1)[i] = s[i]
         /\ Len(s) \in DOMAIN s
         /\ s[Len(s)] \in S
  OBVIOUS

LEMMA PushStack ==
  ASSUME NEW S, NEW s \in Seq(S), NEW e \in S
  PROVE  /\ Append(s, e) \in Seq(S)
         /\ DOMAIN Append(s, e) = DOMAIN s \cup {Len(s) + 1}
         /\ \A i \in DOMAIN s : Append(s, e)[i] = s[i]
         /\ Append(s, e)[Len(s) + 1] = e
         /\ Len(s) + 1 \notin DOMAIN s
  OBVIOUS

LEMMA TailQueue ==
  ASSUME NEW S, NEW s \in Seq(S), s # <<>>
  PROVE  /\ Tail(s) \in Seq(S)
         /\ \A i \in DOMAIN Tail(s) :
              i \in Nat /\ i + 1 \in DOMAIN s /\ i + 1 # 1 /\ Tail(s)[i] = s[i + 1]
         /\ \A j \in DOMAIN s : j # 1 => j \in Nat /\ j - 1 \in DOMAIN Tail(s) /\ Tail(s)[j - 1] = s[j]
         /\ 1 \in DOMAIN s /\ Head(s) = s[1] /\ s[1] \in S
         /\ Tail(s) # <<>> <=> Len(s) # 1
  <1>1. /\ Len(s) \in Nat /\ Len(s) >= 1 /\ DOMAIN s = 1..Len(s)
        /\ Tail(s) \in Seq(S) /\ Len(Tail(s)) = Len(s) - 1 /\ Head(s) = s[1]
        /\ \A i \in 1..(Len(s) - 1) : Tail(s)[i] = s[i + 1]
        /\ \A i \in 1..Len(s) : s[i] \in S
    OBVIOUS
  <1>2. DOMAIN Tail(s) = 1..(Len(s) - 1)
    BY <1>1
  <1>3. \A i \in DOMAIN Tail(s) :
           i \in Nat /\ i + 1 \in DOMAIN s /\ i + 1 # 1 /\ Tail(s)[i] = s[i + 1]
    BY <1>1, <1>2
  <1>4. \A j \in DOMAIN s :
           j # 1 => j \in Nat /\ j - 1 \in DOMAIN Tail(s) /\ Tail(s)[j - 1] = s[j]
    BY <1>1, <1>2
  <1>5. Tail(s) # <<>> <=> Len(s) # 1
    BY <1>1
  <1> QED BY <1>1, <1>3, <1>4, <1>5

---------------------------------------------------------------------------

LEMMA InitPlace == Init => PlaceInv
  <1> SUFFICES ASSUME Init PROVE PlaceInv
    OBVIOUS
  <1>1. StagingTyped
    BY DEF Init, StagingTyped, PCs
  <1>2. /\ \A n \in Lens : DOMAIN pinnedFree[n] = {}
        /\ DOMAIN pinnedInflight = {} /\ leakedPinned = {}
        /\ \A t \in Threads : hand[t] = NoStaging /\ pc[t] = "idle"
        /\ \A s \in Stagings : pinned[s] = 0
    BY DEF Init
  <1>3. \A t \in Threads : CallOK(t)
    BY <1>2 DEF CallOK, Carrying
  <1>4. \A s \in Stagings : ~Free(s) /\ ~Inflight(s) /\ ~InHand(s)
    BY <1>2, StreamAssumption DEF Free, Inflight, InHand
  <1>5. OnePlaceEach
    BY <1>2, <1>4 DEF OnePlaceEach, FreeOnce, InflightOnce, InHandOnce, OnePlace, Somewhere
  <1>6. StagingFits
    BY <1>2 DEF StagingFits
  <1> QED BY <1>1, <1>3, <1>5, <1>6 DEF PlaceInv

(* A step that moves no buffer. *)
LEMMA PlacesStay ==
  ASSUME PlaceInv, UNCHANGED places,
         pc' \in [Threads -> PCs], need' \in [Threads -> Lens \cup {0}],
         hand' \in [Threads -> Stagings \cup {NoStaging}],
         \A t \in Threads : hand'[t] = hand[t],
         \A t \in Threads : hand[t] # NoStaging => need'[t] = need[t],
         \A t \in Threads : CallOK(t)'
  PROVE  PlaceInv'
  <1>1. StagingTyped'
    BY DEF PlaceInv, StagingTyped, places
  <1>2. OnePlaceEach'
    BY DEF PlaceInv, OnePlaceEach, FreeOnce, InflightOnce, InHandOnce, OnePlace, Somewhere,
           Free, Inflight, InHand, places
  <1>3. StagingFits'
    BY DEF PlaceInv, StagingFits, places
  <1> QED BY <1>1, <1>2, <1>3 DEF PlaceInv

---------------------------------------------------------------------------
(* How each operation on a list, or on what a thread has in hand, moves    *)
(* one buffer.                                                             *)

LEMMA PopFree ==
  ASSUME PlaceInv, NEW n \in Lens, pinnedFree[n] # <<>>, pinned' = pinned,
         pinnedFree' = [pinnedFree EXCEPT ![n] = SubSeq(@, 1, Len(@) - 1)]
  PROVE  LET s == pinnedFree[n][Len(pinnedFree[n])]
         IN /\ s \in Stagings /\ Free(s) /\ pinned[s] = n
            /\ \A q \in Stagings : Free(q)' <=> Free(q) /\ q # s
            /\ pinnedFree' \in [Lens -> Seq(Stagings)] /\ FreeOnce'
            /\ \A m \in Lens : \A i \in DOMAIN pinnedFree'[m] : pinned'[pinnedFree'[m][i]] = m
  <1> DEFINE s == pinnedFree[n][Len(pinnedFree[n])]
  <1>1. /\ pinnedFree \in [Lens -> Seq(Stagings)] /\ pinnedFree[n] \in Seq(Stagings)
        /\ FreeOnce
        /\ \A m \in Lens : \A i \in DOMAIN pinnedFree[m] : pinned[pinnedFree[m][i]] = m
    BY DEF PlaceInv, StagingTyped, OnePlaceEach, StagingFits
  <1>2. /\ s \in Stagings /\ Len(pinnedFree[n]) \in DOMAIN pinnedFree[n]
        /\ DOMAIN pinnedFree'[n] = DOMAIN pinnedFree[n] \ {Len(pinnedFree[n])}
        /\ \A i \in DOMAIN pinnedFree'[n] : pinnedFree'[n][i] = pinnedFree[n][i]
        /\ pinnedFree' \in [Lens -> Seq(Stagings)]
    BY <1>1, PopStack
  <1>3. \A m \in Lens \ {n} : pinnedFree'[m] = pinnedFree[m]
    BY <1>1
  <1>4. \A m \in Lens : \A i \in DOMAIN pinnedFree'[m] :
           /\ i \in DOMAIN pinnedFree[m] /\ pinnedFree'[m][i] = pinnedFree[m][i]
           /\ ~(m = n /\ i = Len(pinnedFree[n]))
    BY <1>2, <1>3
  <1>5. \A m \in Lens : \A i \in DOMAIN pinnedFree[m] :
           i \in DOMAIN pinnedFree'[m] \/ (m = n /\ i = Len(pinnedFree[n]))
    BY <1>2, <1>3
  <1>6. Free(s) /\ pinned[s] = n
    BY <1>1, <1>2 DEF Free
  <1>7. ASSUME NEW q \in Stagings PROVE Free(q)' <=> Free(q) /\ q # s
    <2>1. Free(q)' => Free(q)
      BY <1>4 DEF Free
    <2>2. Free(q)' => q # s
      BY <1>1, <1>2, <1>4 DEF Free, FreeOnce
    <2>3. Free(q) /\ q # s => Free(q)'
      BY <1>4, <1>5 DEF Free
    <2> QED BY <2>1, <2>2, <2>3
  <1>8. FreeOnce'
    BY <1>1, <1>4 DEF FreeOnce
  <1>9. \A m \in Lens : \A i \in DOMAIN pinnedFree'[m] : pinned'[pinnedFree'[m][i]] = m
    BY <1>1, <1>4
  <1> QED BY <1>2, <1>6, <1>7, <1>8, <1>9

LEMMA PushFree ==
  ASSUME PlaceInv, NEW n \in Lens, NEW s \in Stagings, pinned' = pinned,
         ~Free(s), pinned[s] = n,
         pinnedFree' = [pinnedFree EXCEPT ![n] = Append(@, s)]
  PROVE  /\ \A q \in Stagings : Free(q)' <=> Free(q) \/ q = s
         /\ pinnedFree' \in [Lens -> Seq(Stagings)] /\ FreeOnce'
         /\ \A m \in Lens : \A i \in DOMAIN pinnedFree'[m] : pinned'[pinnedFree'[m][i]] = m
  <1>1. /\ pinnedFree \in [Lens -> Seq(Stagings)] /\ pinnedFree[n] \in Seq(Stagings)
        /\ FreeOnce
        /\ \A m \in Lens : \A i \in DOMAIN pinnedFree[m] : pinned[pinnedFree[m][i]] = m
    BY DEF PlaceInv, StagingTyped, OnePlaceEach, StagingFits
  <1> DEFINE top == Len(pinnedFree[n]) + 1
  <1>2. /\ DOMAIN pinnedFree'[n] = DOMAIN pinnedFree[n] \cup {top}
        /\ \A i \in DOMAIN pinnedFree[n] : pinnedFree'[n][i] = pinnedFree[n][i]
        /\ pinnedFree'[n][top] = s /\ top \notin DOMAIN pinnedFree[n]
        /\ pinnedFree' \in [Lens -> Seq(Stagings)]
    BY <1>1, PushStack
  <1>3. \A m \in Lens \ {n} : pinnedFree'[m] = pinnedFree[m]
    BY <1>1
  <1>4. \A m \in Lens : \A i \in DOMAIN pinnedFree[m] :
           i \in DOMAIN pinnedFree'[m] /\ pinnedFree'[m][i] = pinnedFree[m][i]
    BY <1>2, <1>3
  <1>5. \A m \in Lens : \A i \in DOMAIN pinnedFree'[m] :
           i \in DOMAIN pinnedFree[m] \/ (m = n /\ i = top)
    BY <1>2, <1>3
  <1> HIDE DEF top
  <1>6. \A q \in Stagings : Free(q)' <=> Free(q) \/ q = s
    BY <1>2, <1>4, <1>5 DEF Free
  <1>7. \A m \in Lens : \A i \in DOMAIN pinnedFree[m] : pinnedFree[m][i] # s
    BY DEF Free
  <1>8. FreeOnce'
    BY <1>1, <1>2, <1>4, <1>5, <1>7 DEF FreeOnce
  <1>9. \A m \in Lens : \A i \in DOMAIN pinnedFree'[m] : pinned'[pinnedFree'[m][i]] = m
    BY <1>1, <1>2, <1>4, <1>5
  <1> QED BY <1>2, <1>6, <1>8, <1>9

LEMMA PushInflightList ==
  ASSUME PlaceInv, NEW n \in Lens, NEW s \in Stagings, pinned' = pinned,
         ~Inflight(s), pinned[s] = n,
         pinnedInflight' = Append(pinnedInflight, <<s, n>>)
  PROVE  /\ \A q \in Stagings : Inflight(q)' <=> Inflight(q) \/ q = s
         /\ pinnedInflight' \in Seq(Stagings \X Lens) /\ pinnedInflight' # <<>> /\ InflightOnce'
         /\ \A i \in DOMAIN pinnedInflight' : pinned'[pinnedInflight'[i][1]] = pinnedInflight'[i][2]
  <1>1. /\ pinnedInflight \in Seq(Stagings \X Lens) /\ InflightOnce
        /\ \A i \in DOMAIN pinnedInflight : pinned[pinnedInflight[i][1]] = pinnedInflight[i][2]
    BY DEF PlaceInv, StagingTyped, OnePlaceEach, StagingFits
  <1> DEFINE end == Len(pinnedInflight) + 1
  <1>2. <<s, n>> \in Stagings \X Lens
    OBVIOUS
  <1>3. /\ DOMAIN pinnedInflight' = DOMAIN pinnedInflight \cup {end}
        /\ \A i \in DOMAIN pinnedInflight : pinnedInflight'[i] = pinnedInflight[i]
        /\ pinnedInflight'[end] = <<s, n>> /\ end \notin DOMAIN pinnedInflight
        /\ pinnedInflight' \in Seq(Stagings \X Lens)
    BY <1>1, <1>2, PushStack
  <1> HIDE DEF end
  <1>4. \A q \in Stagings : Inflight(q)' <=> Inflight(q) \/ q = s
    BY <1>3 DEF Inflight
  <1>5. InflightOnce'
    BY <1>1, <1>3 DEF InflightOnce, Inflight
  <1>6. \A i \in DOMAIN pinnedInflight' : pinned'[pinnedInflight'[i][1]] = pinnedInflight'[i][2]
    BY <1>1, <1>3
  <1> QED BY <1>3, <1>4, <1>5, <1>6

LEMMA TakeOldest ==
  ASSUME PlaceInv, pinnedInflight # <<>>, pinned' = pinned,
         pinnedInflight' = Tail(pinnedInflight)
  PROVE  LET s == Head(pinnedInflight)[1]
             n == Head(pinnedInflight)[2]
         IN /\ s \in Stagings /\ n \in Lens /\ Inflight(s) /\ pinned[s] = n
            /\ \A q \in Stagings : Inflight(q)' <=> Inflight(q) /\ q # s
            /\ pinnedInflight' \in Seq(Stagings \X Lens) /\ InflightOnce'
            /\ pinnedInflight' # <<>> <=> Len(pinnedInflight) # 1
            /\ \A i \in DOMAIN pinnedInflight' :
                 pinned'[pinnedInflight'[i][1]] = pinnedInflight'[i][2]
  <1>1. /\ pinnedInflight \in Seq(Stagings \X Lens) /\ InflightOnce
        /\ \A i \in DOMAIN pinnedInflight : pinned[pinnedInflight[i][1]] = pinnedInflight[i][2]
    BY DEF PlaceInv, StagingTyped, OnePlaceEach, StagingFits
  <1>2. /\ pinnedInflight' \in Seq(Stagings \X Lens)
        /\ 1 \in DOMAIN pinnedInflight /\ Head(pinnedInflight) = pinnedInflight[1]
        /\ pinnedInflight[1] \in Stagings \X Lens
        /\ pinnedInflight' # <<>> <=> Len(pinnedInflight) # 1
    BY <1>1, TailQueue
  <1>3. \A i \in DOMAIN pinnedInflight' :
           /\ i \in Nat /\ i + 1 \in DOMAIN pinnedInflight /\ i + 1 # 1
           /\ pinnedInflight'[i] = pinnedInflight[i + 1]
    BY <1>1, TailQueue
  <1>4. \A j \in DOMAIN pinnedInflight :
           j # 1 => /\ j \in Nat /\ j - 1 \in DOMAIN pinnedInflight'
                    /\ pinnedInflight'[j - 1] = pinnedInflight[j]
    BY <1>1, TailQueue
  <1> DEFINE s == pinnedInflight[1][1]
  <1>5. s \in Stagings /\ pinnedInflight[1][2] \in Lens /\ Inflight(s)
        /\ pinned[s] = pinnedInflight[1][2]
    BY <1>1, <1>2 DEF Inflight
  <1>6. ASSUME NEW q \in Stagings PROVE Inflight(q)' <=> Inflight(q) /\ q # s
    <2>1. Inflight(q)' => Inflight(q) /\ q # s
      BY <1>1, <1>2, <1>3 DEF Inflight, InflightOnce
    <2>2. ASSUME Inflight(q), q # s PROVE Inflight(q)'
      <3>1. PICK j \in DOMAIN pinnedInflight : pinnedInflight[j][1] = q
        BY <2>2 DEF Inflight
      <3> QED BY <2>2, <3>1, <1>4 DEF Inflight
    <2> QED BY <2>1, <2>2
  <1>7. InflightOnce'
    <2>1. ASSUME NEW i \in DOMAIN pinnedInflight', NEW j \in DOMAIN pinnedInflight',
                 pinnedInflight'[i][1] = pinnedInflight'[j][1]
          PROVE  i = j
      <3>1. i + 1 = j + 1
        BY <2>1, <1>1, <1>3 DEF InflightOnce
      <3> QED BY <3>1, <1>3
    <2> QED BY <2>1 DEF InflightOnce
  <1>8. \A i \in DOMAIN pinnedInflight' :
           pinned'[pinnedInflight'[i][1]] = pinnedInflight'[i][2]
    BY <1>1, <1>3
  <1> QED BY <1>2, <1>5, <1>6, <1>7, <1>8

LEMMA TakeInHand ==
  ASSUME PlaceInv, NEW t \in Threads, NEW s \in Stagings,
         hand[t] = NoStaging, ~InHand(s), hand' = [hand EXCEPT ![t] = s]
  PROVE  /\ \A q \in Stagings : InHand(q)' <=> InHand(q) \/ q = s
         /\ hand' \in [Threads -> Stagings \cup {NoStaging}] /\ InHandOnce'
  <1>1. hand \in [Threads -> Stagings \cup {NoStaging}] /\ InHandOnce
    BY DEF PlaceInv, StagingTyped, OnePlaceEach
  <1>2. hand'[t] = s /\ \A u \in Threads \ {t} : hand'[u] = hand[u] /\ hand[u] # s
    BY <1>1 DEF InHand
  <1>3. \A q \in Stagings : InHand(q)' <=> InHand(q) \/ q = s
    BY <1>1, <1>2, StreamAssumption DEF InHand
  <1>4. InHandOnce'
    BY <1>1, <1>2 DEF InHandOnce
  <1> QED BY <1>1, <1>3, <1>4

LEMMA PutDown ==
  ASSUME PlaceInv, NEW t \in Threads,
         hand[t] # NoStaging, hand' = [hand EXCEPT ![t] = NoStaging]
  PROVE  /\ hand[t] \in Stagings /\ InHand(hand[t])
         /\ \A q \in Stagings : InHand(q)' <=> InHand(q) /\ q # hand[t]
         /\ hand' \in [Threads -> Stagings \cup {NoStaging}] /\ InHandOnce'
  <1>1. hand \in [Threads -> Stagings \cup {NoStaging}] /\ InHandOnce
    BY DEF PlaceInv, StagingTyped, OnePlaceEach
  <1>2. hand'[t] = NoStaging /\ \A u \in Threads \ {t} : hand'[u] = hand[u] /\ hand[u] # hand[t]
    BY <1>1 DEF InHandOnce
  <1>3. hand[t] \in Stagings /\ InHand(hand[t])
    BY <1>1 DEF InHand
  <1>4. \A q \in Stagings : InHand(q)' <=> InHand(q) /\ q # hand[t]
    BY <1>1, <1>2, StreamAssumption DEF InHand
  <1>5. InHandOnce'
    BY <1>1, <1>2 DEF InHandOnce
  <1> QED BY <1>1, <1>3, <1>4, <1>5

---------------------------------------------------------------------------
(* Steps that move no buffer. *)

LEMMA OthersOK ==
  ASSUME PlaceInv, NEW t \in Threads,
         \A u \in Threads \ {t} : pc'[u] = pc[u] /\ need'[u] = need[u] /\ hand'[u] = hand[u],
         \/ inflightLock' = inflightLock /\ (pinnedInflight # <<>> => pinnedInflight' # <<>>)
         \/ inflightLock \in {NoThread, t}
  PROVE  \A u \in Threads \ {t} : CallOK(u)'
  BY StreamAssumption DEF PlaceInv, CallOK

LEMMA EnterSets ==
  ASSUME PlaceInv, NEW t \in Threads, NEW l \in PCs, NEW b, NEW v,
         NEW n \in Lens \cup {0}, NEW s \in Stagings \cup {NoStaging}, Enter(t, l, b, v, n, s)
  PROVE  /\ pc'[t] = l /\ need'[t] = n /\ hand'[t] = s
         /\ \A u \in Threads \ {t} : pc'[u] = pc[u] /\ need'[u] = need[u] /\ hand'[u] = hand[u]
         /\ pc' \in [Threads -> PCs] /\ need' \in [Threads -> Lens \cup {0}]
         /\ hand' \in [Threads -> Stagings \cup {NoStaging}]
         /\ hand' = [hand EXCEPT ![t] = s]
  BY DEF Enter, Goto, PlaceInv, StagingTyped

(* A thread with nothing in hand enters or leaves a call. *)
LEMMA EnterStays ==
  ASSUME PlaceInv, NEW t \in Threads, UNCHANGED <<places, inflightLock>>,
         NEW l \in PCs \ (Carrying \cup {"drain", "draining"}),
         NEW b, NEW v, NEW n \in Lens \cup {0},
         l = "cuMemAllocHost" => n \in Lens,
         Enter(t, l, b, v, n, NoStaging), pc[t] \notin Carrying
  PROVE  PlaceInv'
  <1>1. hand[t] = NoStaging
    BY DEF PlaceInv, CallOK
  <1>2. /\ pc'[t] = l /\ need'[t] = n /\ hand'[t] = NoStaging
        /\ \A u \in Threads \ {t} : pc'[u] = pc[u] /\ need'[u] = need[u] /\ hand'[u] = hand[u]
        /\ pc' \in [Threads -> PCs] /\ need' \in [Threads -> Lens \cup {0}]
        /\ hand' \in [Threads -> Stagings \cup {NoStaging}]
    BY EnterSets
  <1>3. \A u \in Threads \ {t} : CallOK(u)'
    BY <1>2, OthersOK DEF places
  <1>4. CallOK(t)'
    BY <1>2 DEF CallOK
  <1> QED BY <1>1, <1>2, <1>3, <1>4, PlacesStay

LEMMA ReturnStays ==
  ASSUME PlaceInv, NEW t \in Threads, UNCHANGED <<places, inflightLock>>,
         Return(t), pc[t] \notin Carrying
  PROVE  PlaceInv'
  <1>1. "idle" \in PCs \ (Carrying \cup {"drain", "draining"})
    BY DEF PCs, Carrying
  <1> QED BY <1>1, EnterStays DEF Return

(* A thread goes on with what it has in hand. *)
LEMMA GotoStays ==
  ASSUME PlaceInv, NEW t \in Threads, UNCHANGED <<places, inflightLock, need, hand>>,
         NEW l \in PCs, Goto(t, l),
         l \in Carrying <=> pc[t] \in Carrying,
         l # "cuMemAllocHost",
         l \in {"drain", "draining"} => pc[t] \in {"drain", "draining"}
  PROVE  PlaceInv'
  <1>1. /\ pc'[t] = l /\ \A u \in Threads \ {t} : pc'[u] = pc[u]
        /\ pc' \in [Threads -> PCs]
    BY DEF Goto, PlaceInv, StagingTyped
  <1>2. \A u \in Threads \ {t} : CallOK(u)'
    BY <1>1, OthersOK DEF places
  <1>3. CallOK(t)'
    BY <1>1 DEF PlaceInv, CallOK, places
  <1>4. need' \in [Threads -> Lens \cup {0}] /\ hand' \in [Threads -> Stagings \cup {NoStaging}]
    BY DEF PlaceInv, StagingTyped
  <1> QED BY <1>1, <1>2, <1>3, <1>4, PlacesStay

(* Nothing changes but the device's side. *)
LEMMA DeviceStays ==
  ASSUME PlaceInv, UNCHANGED <<places, inflightLock, pc, need, hand>>
  PROVE  PlaceInv'
  <1>1. \A t \in Threads : CallOK(t)'
    BY DEF PlaceInv, CallOK, places
  <1> QED BY <1>1, PlacesStay DEF PlaceInv, StagingTyped

LEMMA Quiet ==
  ASSUME PlaceInv, NEW t \in Threads,
         \/ \E b \in Bufs, v \in Values, n \in Lens : HtodLarge(t, b, v, n) \/ HtodPin(t, b, v, n)
         \/ \E b \in Bufs, v \in Values : Upload(t, b, v)
         \/ \E a, b \in Bufs : LaunchAsync(t, a, b) \/ Launch(t, a, b)
         \/ \E b \in Bufs : Dtoh(t, b)
         \/ Synchronize(t) \/ CuStreamBeginCapture(t) \/ CuStreamEndCapture(t) \/ GraphLaunch(t)
         \/ CuMemAllocHostFails(t) \/ CopyToPinned(t) \/ EnqueueCopy(t)
         \/ Synchronized(t) \/ SynchronizeFails(t) \/ CopyBack(t) \/ CopyBackFails(t)
         \/ LockFree(t) \/ GraphLaunchFails(t)
  PROVE  PlaceInv'
  <1> USE DEF places, stagingVars
  <1>1. ASSUME NEW b \in Bufs, NEW v \in Values, NEW n \in Lens, HtodPin(t, b, v, n)
        PROVE  PlaceInv'
    <2>1. "cuMemAllocHost" \in PCs \ (Carrying \cup {"drain", "draining"})
      BY DEF PCs, Carrying
    <2> QED BY <1>1, <2>1, EnterStays DEF HtodPin, Idle, Carrying
  <1>2. ASSUME NEW b \in Bufs, NEW v \in Values, Upload(t, b, v) PROVE PlaceInv'
    <2>1. "upload" \in PCs \ (Carrying \cup {"drain", "draining"})
      BY DEF PCs, Carrying
    <2> QED BY <1>2, <2>1, EnterStays DEF Upload, Idle, Carrying
  <1>3. ASSUME NEW b \in Bufs, Dtoh(t, b) PROVE PlaceInv'
    <2>1. "dtoh" \in PCs \ (Carrying \cup {"drain", "draining"})
      BY DEF PCs, Carrying
    <2> QED BY <1>3, <2>1, EnterStays DEF Dtoh, Idle, Carrying
  <1>4. ASSUME NEW b \in Bufs, NEW v \in Values, NEW n \in Lens, HtodLarge(t, b, v, n)
        PROVE  PlaceInv'
    BY <1>4, DeviceStays DEF HtodLarge, threadVars
  <1>5. CASE Synchronize(t) \/ GraphLaunch(t) \/ \E a, b \in Bufs : Launch(t, a, b)
    <2>1. /\ UNCHANGED <<places, inflightLock, need, hand>> /\ pc[t] \in {"idle", "batch"}
          /\ Goto(t, "synchronize") \/ Goto(t, "batch")
      BY <1>5 DEF Synchronize, GraphLaunch, Launch, Idle
    <2> QED BY <2>1, GotoStays DEF PCs, Carrying
  <1>6. CASE CopyToPinned(t) \/ EnqueueCopy(t) \/ LockFree(t) \/ CopyBack(t)
    <2>1. /\ UNCHANGED <<places, inflightLock, need, hand>>
          /\ \/ pc[t] = "memcpy" /\ Goto(t, "enqueue")
             \/ pc[t] = "enqueue" /\ Goto(t, "inflight")
             \/ pc[t] = "drain" /\ Goto(t, "draining")
             \/ pc[t] = "copyBack" /\ Goto(t, "reclaim")
      BY <1>6 DEF CopyToPinned, EnqueueCopy, LockFree, CopyBack
    <2> QED BY <2>1, GotoStays DEF PCs, Carrying
  <1>7. CASE Synchronized(t)
    <2>1. /\ UNCHANGED <<places, inflightLock>> /\ pc[t] \in {"upload", "dtoh", "synchronize"}
          /\ \/ Return(t)
             \/ UNCHANGED <<need, hand>> /\ (Goto(t, "copyBack") \/ Goto(t, "reclaim"))
      BY <1>7 DEF Synchronized
    <2>2. CASE Return(t)
      BY <2>1, <2>2, ReturnStays DEF Carrying
    <2>3. CASE UNCHANGED <<need, hand>> /\ (Goto(t, "copyBack") \/ Goto(t, "reclaim"))
      BY <2>1, <2>3, GotoStays DEF PCs, Carrying
    <2> QED BY <2>1, <2>2, <2>3
  <1>8. CASE CuMemAllocHostFails(t) \/ SynchronizeFails(t) \/ CopyBackFails(t) \/ GraphLaunchFails(t)
    <2>1. /\ UNCHANGED <<places, inflightLock>> /\ Return(t)
          /\ pc[t] \in {"cuMemAllocHost", "upload", "dtoh", "synchronize", "copyBack", "batch"}
      BY <1>8 DEF CuMemAllocHostFails, SynchronizeFails, CopyBackFails, GraphLaunchFails
    <2> QED BY <2>1, ReturnStays DEF Carrying
  <1>9. ASSUME NEW a \in Bufs, NEW b \in Bufs, LaunchAsync(t, a, b) PROVE PlaceInv'
    BY <1>9, DeviceStays DEF LaunchAsync, threadVars
  <1>10. CASE CuStreamBeginCapture(t) \/ CuStreamEndCapture(t)
    BY <1>10, DeviceStays DEF CuStreamBeginCapture, CuStreamEndCapture, threadVars
  <1> QED BY <1>1, <1>2, <1>3, <1>4, <1>5, <1>6, <1>7, <1>8, <1>9, <1>10

(* reclaim_pinned takes the first lock, or finds nothing in flight. *)
LEMMA LockInflightStays ==
  ASSUME PlaceInv, NEW t \in Threads, LockInflight(t)
  PROVE  PlaceInv'
  <1>1. UNCHANGED places /\ pc[t] = "reclaim" /\ inflightLock = NoThread
    BY DEF LockInflight, places
  <1>2. CASE Return(t) /\ UNCHANGED inflightLock
    BY <1>1, <1>2, ReturnStays DEF Carrying
  <1>3. CASE inflightLock' = t /\ Goto(t, "drain") /\ pinnedInflight # <<>> /\ UNCHANGED <<need, hand>>
    <2>1. /\ pc'[t] = "drain" /\ \A u \in Threads \ {t} : pc'[u] = pc[u]
          /\ pc' \in [Threads -> PCs]
      BY <1>3 DEF Goto, PlaceInv, StagingTyped, PCs
    <2>2. \A u \in Threads \ {t} : CallOK(u)'
      BY <1>1, <1>3, <2>1, OthersOK
    <2>3. CallOK(t)'
      BY <1>1, <1>3, <2>1 DEF PlaceInv, CallOK, places, Carrying
    <2> QED BY <1>1, <1>3, <2>1, <2>2, <2>3, PlacesStay DEF PlaceInv, StagingTyped
  <1> QED BY <1>2, <1>3 DEF LockInflight

---------------------------------------------------------------------------
(* Steps that move one buffer from place to place. *)

LEMMA HtodReuseStays ==
  ASSUME PlaceInv, NEW t \in Threads, NEW b, NEW v, NEW n \in Lens, HtodReuse(t, b, v, n)
  PROVE  PlaceInv'
  <1> DEFINE s == pinnedFree[n][Len(pinnedFree[n])]
  <1>1. /\ pc[t] = "idle" /\ Enter(t, "memcpy", b, v, n, s) /\ pinnedFree[n] # <<>>
        /\ pinnedFree' = [pinnedFree EXCEPT ![n] = SubSeq(@, 1, Len(@) - 1)]
        /\ UNCHANGED <<pinned, pinnedInflight, inflightLock, leakedPinned>>
    BY DEF HtodReuse, Idle
  <1>2. /\ s \in Stagings /\ Free(s) /\ pinned[s] = n
        /\ \A q \in Stagings : Free(q)' <=> Free(q) /\ q # s
        /\ pinnedFree' \in [Lens -> Seq(Stagings)] /\ FreeOnce'
        /\ \A m \in Lens : \A i \in DOMAIN pinnedFree'[m] : pinned'[pinnedFree'[m][i]] = m
    BY <1>1, PopFree
  <1>3. /\ pc'[t] = "memcpy" /\ need'[t] = n /\ hand'[t] = s
        /\ \A u \in Threads \ {t} : pc'[u] = pc[u] /\ need'[u] = need[u] /\ hand'[u] = hand[u]
        /\ pc' \in [Threads -> PCs] /\ need' \in [Threads -> Lens \cup {0}]
        /\ hand' = [hand EXCEPT ![t] = s]
    <2> HIDE DEF s
    <2>1. "memcpy" \in PCs /\ n \in Lens \cup {0} /\ s \in Stagings \cup {NoStaging}
      BY <1>2 DEF PCs
    <2>2. Enter(t, "memcpy", b, v, n, s)
      BY <1>1
    <2> QED BY <2>1, <2>2, EnterSets
  <1>4. /\ hand[t] = NoStaging
        /\ ~InHand(s) /\ ~Inflight(s) /\ s \notin leakedPinned
    BY <1>1, <1>2 DEF PlaceInv, CallOK, Carrying, OnePlaceEach, OnePlace
  <1>5. /\ \A q \in Stagings : InHand(q)' <=> InHand(q) \/ q = s
        /\ hand' \in [Threads -> Stagings \cup {NoStaging}] /\ InHandOnce'
    BY <1>2, <1>3, <1>4, TakeInHand
  <1> HIDE DEF s
  <1>6. \A u \in Threads : CallOK(u)'
    <2>1. \A u \in Threads \ {t} : CallOK(u)'
      BY <1>1, <1>3, OthersOK
    <2>2. CallOK(t)'
      BY <1>2, <1>3, StreamAssumption DEF CallOK, Carrying
    <2> QED BY <2>1, <2>2
  <1>7. StagingTyped'
    BY <1>1, <1>2, <1>3, <1>5 DEF PlaceInv, StagingTyped
  <1>8. /\ InflightOnce' /\ \A q \in Stagings : Inflight(q)' <=> Inflight(q)
    BY <1>1 DEF PlaceInv, OnePlaceEach, InflightOnce, Inflight
  <1>9. OnePlaceEach'
    BY <1>1, <1>2, <1>4, <1>5, <1>8 DEF PlaceInv, OnePlaceEach, OnePlace, Somewhere
  <1>10. StagingFits'
    <2>1. \A u \in Threads : hand'[u] # NoStaging => pinned'[hand'[u]] = need'[u]
      BY <1>1, <1>2, <1>3 DEF PlaceInv, StagingFits
    <2>2. \A i \in DOMAIN pinnedInflight' : pinned'[pinnedInflight'[i][1]] = pinnedInflight'[i][2]
      BY <1>1 DEF PlaceInv, StagingFits
    <2> QED BY <1>2, <2>1, <2>2 DEF StagingFits
  <1> QED BY <1>6, <1>7, <1>9, <1>10 DEF PlaceInv

LEMMA CuMemAllocHostStays ==
  ASSUME PlaceInv, NEW t \in Threads, NEW s \in Stagings, CuMemAllocHost(t, s)
  PROVE  PlaceInv'
  <1>1. /\ pc[t] = "cuMemAllocHost" /\ pinned[s] = 0
        /\ pinned' = [pinned EXCEPT ![s] = need[t]]
        /\ hand' = [hand EXCEPT ![t] = s] /\ Goto(t, "memcpy")
        /\ UNCHANGED <<pinnedFree, pinnedInflight, inflightLock, leakedPinned, need>>
    BY DEF CuMemAllocHost
  <1>2. /\ pc'[t] = "memcpy" /\ \A u \in Threads \ {t} : pc'[u] = pc[u] /\ hand'[u] = hand[u]
        /\ pc' \in [Threads -> PCs] /\ need[t] \in Lens /\ hand[t] = NoStaging /\ hand'[t] = s
    BY <1>1 DEF Goto, PlaceInv, StagingTyped, CallOK, Carrying, PCs
  <1>3. /\ need[t] > 0 /\ pinned'[s] = need[t] /\ \A q \in Stagings \ {s} : pinned'[q] = pinned[q]
        /\ pinned' \in [Stagings -> Lens \cup {0}]
    <2>1. \A n \in Lens : n \in Nat /\ n > 0
      BY StreamAssumption
    <2> QED BY <1>1, <1>2, <2>1 DEF PlaceInv, StagingTyped
  <1>4. ~Free(s) /\ ~Inflight(s) /\ ~InHand(s) /\ s \notin leakedPinned
    BY <1>1 DEF PlaceInv, OnePlaceEach, Somewhere
  <1>5. /\ \A q \in Stagings : InHand(q)' <=> InHand(q) \/ q = s
        /\ hand' \in [Threads -> Stagings \cup {NoStaging}] /\ InHandOnce'
    BY <1>1, <1>2, <1>4, TakeInHand
  <1>6. \A u \in Threads : CallOK(u)'
    <2>1. \A u \in Threads \ {t} : CallOK(u)'
      BY <1>1, <1>2, OthersOK
    <2>2. CallOK(t)'
      BY <1>1, <1>2, StreamAssumption DEF CallOK, Carrying
    <2> QED BY <2>1, <2>2
  <1>7. StagingTyped'
    BY <1>1, <1>2, <1>3, <1>5 DEF PlaceInv, StagingTyped
  <1>8. /\ FreeOnce' /\ InflightOnce'
        /\ \A q \in Stagings : (Inflight(q)' <=> Inflight(q)) /\ (Free(q)' <=> Free(q))
    BY <1>1 DEF PlaceInv, OnePlaceEach, InflightOnce, Inflight, FreeOnce, Free
  <1>9. OnePlaceEach'
    BY <1>1, <1>3, <1>4, <1>5, <1>8 DEF PlaceInv, OnePlaceEach, OnePlace, Somewhere
  <1>10. StagingFits'
    <2>1. \A n \in Lens : \A i \in DOMAIN pinnedFree[n] :
             pinnedFree[n][i] \in Stagings /\ pinnedFree[n][i] # s
      BY <1>4 DEF Free, PlaceInv, StagingTyped
    <2>2. \A i \in DOMAIN pinnedInflight :
             pinnedInflight[i][1] \in Stagings /\ pinnedInflight[i][1] # s
      BY <1>4 DEF Inflight, PlaceInv, StagingTyped
    <2>3. \A u \in Threads \ {t} : hand[u] # NoStaging => hand[u] \in Stagings /\ hand[u] # s
      BY <1>4 DEF InHand, PlaceInv, StagingTyped
    <2>4. \A n \in Lens : \A i \in DOMAIN pinnedFree'[n] : pinned'[pinnedFree'[n][i]] = n
      BY <1>1, <1>3, <2>1 DEF PlaceInv, StagingFits
    <2>5. \A i \in DOMAIN pinnedInflight' : pinned'[pinnedInflight'[i][1]] = pinnedInflight'[i][2]
      BY <1>1, <1>3, <2>2 DEF PlaceInv, StagingFits
    <2>6. \A u \in Threads : hand'[u] # NoStaging => pinned'[hand'[u]] = need'[u]
      BY <1>1, <1>2, <1>3, <2>3 DEF PlaceInv, StagingFits
    <2> QED BY <2>4, <2>5, <2>6 DEF StagingFits
  <1> QED BY <1>6, <1>7, <1>9, <1>10 DEF PlaceInv

(* A thread lets go of the buffer in its hand. *)
LEMMA Lets ==
  ASSUME PlaceInv, NEW t \in Threads, pc[t] \in Carrying, Return(t)
  PROVE  /\ hand[t] \in Stagings /\ InHand(hand[t])
         /\ need[t] \in Lens /\ pinned[hand[t]] = need[t]
         /\ ~Free(hand[t]) /\ ~Inflight(hand[t]) /\ hand[t] \notin leakedPinned
         /\ \A q \in Stagings : InHand(q)' <=> InHand(q) /\ q # hand[t]
         /\ InHandOnce'
         /\ pc'[t] = "idle" /\ hand'[t] = NoStaging
         /\ \A u \in Threads \ {t} : pc'[u] = pc[u] /\ need'[u] = need[u] /\ hand'[u] = hand[u]
         /\ pc' \in [Threads -> PCs] /\ need' \in [Threads -> Lens \cup {0}]
         /\ hand' \in [Threads -> Stagings \cup {NoStaging}]
  <1>1. hand[t] # NoStaging /\ need[t] \in Lens
    BY DEF PlaceInv, CallOK
  <1>2. "idle" \in PCs
    BY DEF PCs
  <1>3. /\ pc'[t] = "idle" /\ hand'[t] = NoStaging
        /\ \A u \in Threads \ {t} : pc'[u] = pc[u] /\ need'[u] = need[u] /\ hand'[u] = hand[u]
        /\ pc' \in [Threads -> PCs] /\ need' \in [Threads -> Lens \cup {0}]
        /\ hand' \in [Threads -> Stagings \cup {NoStaging}]
        /\ hand' = [hand EXCEPT ![t] = NoStaging]
    BY <1>2, EnterSets, ZenonT(60) DEF Return
  <1>4. /\ hand[t] \in Stagings /\ InHand(hand[t])
        /\ \A q \in Stagings : InHand(q)' <=> InHand(q) /\ q # hand[t]
        /\ InHandOnce'
    BY <1>1, <1>3, PutDown
  <1>5. pinned[hand[t]] = need[t]
    BY <1>1 DEF PlaceInv, StagingFits
  <1>6. ~Free(hand[t]) /\ ~Inflight(hand[t]) /\ hand[t] \notin leakedPinned
    BY <1>4 DEF PlaceInv, OnePlaceEach, OnePlace
  <1> QED BY <1>1, <1>3, <1>4, <1>5, <1>6

LEMMA EnqueueCopyFailsStays ==
  ASSUME PlaceInv, NEW t \in Threads, EnqueueCopyFails(t)
  PROVE  PlaceInv'
  <1>1. /\ pc[t] \in Carrying /\ Return(t)
        /\ leakedPinned' = leakedPinned \cup {hand[t]}
        /\ UNCHANGED <<pinned, pinnedFree, pinnedInflight, inflightLock>>
    BY DEF EnqueueCopyFails, Carrying
  <1>2. /\ hand[t] \in Stagings /\ InHand(hand[t])
        /\ ~Free(hand[t]) /\ ~Inflight(hand[t])
        /\ \A q \in Stagings : InHand(q)' <=> InHand(q) /\ q # hand[t]
        /\ InHandOnce'
        /\ pc'[t] = "idle" /\ hand'[t] = NoStaging
        /\ \A u \in Threads \ {t} : pc'[u] = pc[u] /\ need'[u] = need[u] /\ hand'[u] = hand[u]
        /\ pc' \in [Threads -> PCs] /\ need' \in [Threads -> Lens \cup {0}]
        /\ hand' \in [Threads -> Stagings \cup {NoStaging}]
    BY <1>1, Lets
  <1>3. \A u \in Threads : CallOK(u)'
    <2>1. \A u \in Threads \ {t} : CallOK(u)'
      BY <1>1, <1>2, OthersOK
    <2>2. CallOK(t)'
      BY <1>2 DEF CallOK, Carrying
    <2> QED BY <2>1, <2>2
  <1>4. StagingTyped'
    BY <1>1, <1>2 DEF PlaceInv, StagingTyped
  <1>5. /\ FreeOnce' /\ InflightOnce'
        /\ \A q \in Stagings : (Inflight(q)' <=> Inflight(q)) /\ (Free(q)' <=> Free(q))
    BY <1>1 DEF PlaceInv, OnePlaceEach, InflightOnce, Inflight, FreeOnce, Free
  <1>6. OnePlaceEach'
    BY <1>1, <1>2, <1>5 DEF PlaceInv, OnePlaceEach, OnePlace, Somewhere
  <1>7. StagingFits'
    BY <1>1, <1>2 DEF PlaceInv, StagingFits
  <1> QED BY <1>3, <1>4, <1>6, <1>7 DEF PlaceInv

LEMMA PushInflightStays ==
  ASSUME PlaceInv, NEW t \in Threads, PushInflight(t)
  PROVE  PlaceInv'
  <1>1. /\ pc[t] \in Carrying /\ Return(t)
        /\ pinnedInflight' = Append(pinnedInflight, <<hand[t], need[t]>>)
        /\ UNCHANGED <<pinned, pinnedFree, leakedPinned, inflightLock>>
    BY DEF PushInflight, Carrying
  <1>2. /\ hand[t] \in Stagings /\ InHand(hand[t])
        /\ need[t] \in Lens /\ pinned[hand[t]] = need[t]
        /\ ~Free(hand[t]) /\ ~Inflight(hand[t]) /\ hand[t] \notin leakedPinned
        /\ \A q \in Stagings : InHand(q)' <=> InHand(q) /\ q # hand[t]
        /\ InHandOnce'
        /\ pc'[t] = "idle" /\ hand'[t] = NoStaging
        /\ \A u \in Threads \ {t} : pc'[u] = pc[u] /\ need'[u] = need[u] /\ hand'[u] = hand[u]
        /\ pc' \in [Threads -> PCs] /\ need' \in [Threads -> Lens \cup {0}]
        /\ hand' \in [Threads -> Stagings \cup {NoStaging}]
    BY <1>1, Lets
  <1>3. /\ \A q \in Stagings : Inflight(q)' <=> Inflight(q) \/ q = hand[t]
        /\ pinnedInflight' \in Seq(Stagings \X Lens) /\ pinnedInflight' # <<>> /\ InflightOnce'
        /\ \A i \in DOMAIN pinnedInflight' : pinned'[pinnedInflight'[i][1]] = pinnedInflight'[i][2]
    BY <1>1, <1>2, PushInflightList
  <1>4. \A u \in Threads : CallOK(u)'
    <2>1. \A u \in Threads \ {t} : CallOK(u)'
      BY <1>1, <1>2, <1>3, OthersOK
    <2>2. CallOK(t)'
      BY <1>2 DEF CallOK, Carrying
    <2> QED BY <2>1, <2>2
  <1>5. StagingTyped'
    BY <1>1, <1>2, <1>3 DEF PlaceInv, StagingTyped
  <1>6. FreeOnce' /\ \A q \in Stagings : Free(q)' <=> Free(q)
    BY <1>1 DEF PlaceInv, OnePlaceEach, FreeOnce, Free
  <1>7. OnePlaceEach'
    BY <1>1, <1>2, <1>3, <1>6 DEF PlaceInv, OnePlaceEach, OnePlace, Somewhere
  <1>8. StagingFits'
    <2>1. \A n \in Lens : \A i \in DOMAIN pinnedFree'[n] : pinned'[pinnedFree'[n][i]] = n
      BY <1>1 DEF PlaceInv, StagingFits
    <2>2. \A u \in Threads : hand'[u] # NoStaging => pinned'[hand'[u]] = need'[u]
      BY <1>1, <1>2 DEF PlaceInv, StagingFits
    <2> QED BY <1>3, <2>1, <2>2 DEF StagingFits
  <1> QED BY <1>4, <1>5, <1>7, <1>8 DEF PlaceInv

LEMMA DrainInflightStays ==
  ASSUME PlaceInv, NEW t \in Threads, DrainInflight(t)
  PROVE  PlaceInv'
  <1> DEFINE s == Head(pinnedInflight)[1]
             n == Head(pinnedInflight)[2]
  <1>1. /\ pc[t] = "draining" /\ pinnedInflight' = Tail(pinnedInflight)
        /\ pinnedFree' = [pinnedFree EXCEPT ![n] = Append(@, s)]
        /\ UNCHANGED <<pinned, leakedPinned>>
    BY DEF DrainInflight
  <1>2. inflightLock = t /\ pinnedInflight # <<>> /\ hand[t] = NoStaging
    BY <1>1 DEF PlaceInv, CallOK, Carrying
  <1>3. /\ s \in Stagings /\ n \in Lens /\ Inflight(s) /\ pinned[s] = n
        /\ \A q \in Stagings : Inflight(q)' <=> Inflight(q) /\ q # s
        /\ pinnedInflight' \in Seq(Stagings \X Lens) /\ InflightOnce'
        /\ pinnedInflight' # <<>> <=> Len(pinnedInflight) # 1
        /\ \A i \in DOMAIN pinnedInflight' : pinned'[pinnedInflight'[i][1]] = pinnedInflight'[i][2]
    BY <1>1, <1>2, TakeOldest
  <1>4. ~Free(s) /\ ~InHand(s) /\ s \notin leakedPinned
    BY <1>3 DEF PlaceInv, OnePlaceEach, OnePlace
  <1>5. /\ \A q \in Stagings : Free(q)' <=> Free(q) \/ q = s
        /\ pinnedFree' \in [Lens -> Seq(Stagings)] /\ FreeOnce'
        /\ \A m \in Lens : \A i \in DOMAIN pinnedFree'[m] : pinned'[pinnedFree'[m][i]] = m
    BY <1>1, <1>3, <1>4, PushFree
  <1> HIDE DEF s, n
  <1>6. /\ pc' \in [Threads -> PCs] /\ need' \in [Threads -> Lens \cup {0}]
        /\ hand' \in [Threads -> Stagings \cup {NoStaging}]
        /\ \A u \in Threads \ {t} : pc'[u] = pc[u] /\ need'[u] = need[u] /\ hand'[u] = hand[u]
        /\ hand'[t] = NoStaging
        /\ \/ pc'[t] = "idle"
           \/ pc'[t] = "draining" /\ inflightLock' = t /\ Len(pinnedInflight) # 1
    <2>1. CASE Len(pinnedInflight) = 1
      <3>1. "idle" \in PCs
        BY DEF PCs
      <3>2. Return(t)
        BY <2>1 DEF DrainInflight, LeaveDrain
      <3>3. 0 \in Lens \cup {0} /\ NoStaging \in Stagings \cup {NoStaging}
        OBVIOUS
      <3>4. /\ pc'[t] = "idle" /\ hand'[t] = NoStaging
            /\ \A u \in Threads \ {t} : pc'[u] = pc[u] /\ need'[u] = need[u] /\ hand'[u] = hand[u]
            /\ pc' \in [Threads -> PCs] /\ need' \in [Threads -> Lens \cup {0}]
            /\ hand' \in [Threads -> Stagings \cup {NoStaging}]
        BY <3>1, <3>2, <3>3, EnterSets DEF Return
      <3> QED BY <3>4
    <2>2. CASE Len(pinnedInflight) # 1
      BY <1>1, <1>2, <2>2 DEF DrainInflight, threadVars, PlaceInv, StagingTyped
    <2> QED BY <2>1, <2>2
  <1>7. \A u \in Threads : CallOK(u)'
    <2>1. \A u \in Threads \ {t} : CallOK(u)'
      BY <1>2, <1>6, OthersOK
    <2>2. CallOK(t)'
      BY <1>3, <1>6 DEF CallOK, Carrying
    <2> QED BY <2>1, <2>2
  <1>8. StagingTyped'
    BY <1>1, <1>3, <1>5, <1>6 DEF PlaceInv, StagingTyped
  <1>9. InHandOnce' /\ \A q \in Stagings : InHand(q)' <=> InHand(q)
    <2>1. \A u \in Threads : hand'[u] = hand[u]
      BY <1>2, <1>6
    <2> QED BY <2>1 DEF PlaceInv, OnePlaceEach, InHandOnce, InHand
  <1>10. OnePlaceEach'
    BY <1>1, <1>3, <1>4, <1>5, <1>9 DEF PlaceInv, OnePlaceEach, OnePlace, Somewhere
  <1>11. StagingFits'
    <2>1. \A u \in Threads : hand'[u] # NoStaging => pinned'[hand'[u]] = need'[u]
      BY <1>1, <1>6 DEF PlaceInv, StagingFits
    <2> QED BY <1>3, <1>5, <2>1 DEF StagingFits
  <1> QED BY <1>7, <1>8, <1>10, <1>11 DEF PlaceInv

(* Drop unpins both lists, and nothing is in anybody's hand. *)
LEMMA DropDeviceStays ==
  ASSUME PlaceInv, DropDevice
  PROVE  PlaceInv'
  <1>1. /\ \A t \in Threads : pc[t] = "idle" /\ hand[t] = NoStaging
        /\ pinned' = [s \in Stagings |-> IF s \in leakedPinned THEN pinned[s] ELSE 0]
        /\ pinnedFree' = [n \in Lens |-> <<>>] /\ pinnedInflight' = <<>>
        /\ UNCHANGED <<leakedPinned, inflightLock, pc, need, hand>>
    BY DEF DropDevice, Idle, threadVars, PlaceInv, CallOK, Carrying
  <1>2. StagingTyped'
    BY <1>1 DEF PlaceInv, StagingTyped
  <1>3. \A t \in Threads : CallOK(t)'
    BY <1>1 DEF CallOK, Carrying
  <1>4. (\A n \in Lens : DOMAIN pinnedFree'[n] = {}) /\ DOMAIN pinnedInflight' = {}
    BY <1>1
  <1>5. \A s \in Stagings : ~Free(s)' /\ ~Inflight(s)' /\ ~InHand(s)'
    BY <1>1, <1>4, StreamAssumption DEF Free, Inflight, InHand
  <1>6. \A s \in Stagings : (pinned'[s] > 0) <=> s \in leakedPinned'
    <2>1. \A s \in leakedPinned : s \in Stagings /\ pinned[s] > 0
      BY DEF PlaceInv, StagingTyped, OnePlaceEach, Somewhere
    <2> QED BY <1>1, <2>1
  <1>7. OnePlaceEach'
    BY <1>1, <1>4, <1>5, <1>6
       DEF OnePlaceEach, FreeOnce, InflightOnce, InHandOnce, OnePlace, Somewhere
  <1>8. StagingFits'
    BY <1>1, <1>4 DEF StagingFits
  <1> QED BY <1>2, <1>3, <1>7, <1>8 DEF PlaceInv

---------------------------------------------------------------------------

LEMMA StepPlace == PlaceInv /\ [Next]_vars => PlaceInv'
  <1> SUFFICES ASSUME PlaceInv, [Next]_vars PROVE PlaceInv'
    OBVIOUS
  <1>1. ASSUME NEW t \in Threads, Step(t) PROVE PlaceInv'
    BY <1>1, Quiet, CuMemAllocHostStays, EnqueueCopyFailsStays, PushInflightStays,
       LockInflightStays, DrainInflightStays DEF Step
  <1>2. ASSUME NEW t \in Threads, Call(t) PROVE PlaceInv'
    BY <1>2, Quiet, HtodReuseStays DEF Call
  <1>3. ASSUME NEW t \in Threads, SynchronizeFails(t) PROVE PlaceInv'
    BY <1>3, Quiet
  <1>4. CASE Execute
    BY <1>4, DeviceStays DEF Execute, stagingVars, threadVars, places
  <1>5. CASE UNCHANGED vars
    BY <1>5, DeviceStays DEF vars, stagingVars, threadVars, places
  <1> QED BY <1>1, <1>2, <1>3, <1>4, <1>5, DropDeviceStays DEF Next

LEMMA Places == Spec => []PlaceInv
  BY InitPlace, StepPlace, PTL DEF Spec

(* Whatever threads share the device and however their critical sections   *)
(* interleave, every pinned buffer is in exactly one place: free, in       *)
(* flight, in the hand of one htod, or let go of by a failed enqueue.      *)
THEOREM StagingOwnership == Spec => []OnePlaceEach
  <1>1. PlaceInv => OnePlaceEach
    BY DEF PlaceInv
  <1> QED BY <1>1, Places, PTL

(* The staging memcpy of htod stays inside the pinned buffer, whatever     *)
(* lengths the threads copy.                                               *)
THEOREM StagingSized == Spec => []StagingFits
  <1>1. PlaceInv => StagingFits
    BY DEF PlaceInv
  <1> QED BY <1>1, Places, PTL

---------------------------------------------------------------------------
(* Types *)

TypeInv == TypeOK /\ PlaceInv

LEMMA AnyTyped == AnyBuf \in Bufs /\ AnyVal \in Values
  BY StreamAssumption DEF AnyBuf, AnyVal

(* What is enqueued is work, and only a copy from a pinned buffer is       *)
(* staged.                                                                 *)
LEMMA WorkKinds ==
  ASSUME NEW a \in Bufs, NEW b \in Bufs, NEW v \in Values, NEW s \in Stagings
  PROVE  /\ Write(b, v) \in Work /\ ~Staged(Write(b, v))
         /\ Kernel(a, b) \in Work /\ ~Staged(Kernel(a, b))
         /\ Copy(b, s, v) \in Work /\ Staged(Copy(b, s, v))
         /\ Copy(b, s, v).staging = s /\ Copy(b, s, v).issued = v
  BY DEF Work, Writes, Kernels, Write, Kernel, Copy, Staged

LEMMA StagedWork ==
  ASSUME NEW w \in Work, Staged(w)
  PROVE  w \in [to : Bufs, staging : Stagings, issued : Values]
  BY DEF Work, Writes, Kernels, Staged

(* Work that is not staged is the same to the driver and to its clients.   *)
Plain == Writes \cup Kernels
Memories == [Bufs -> Values]

LEMMA UnstagedWork ==
  ASSUME NEW w \in Work, ~Staged(w)
  PROVE  w \in Plain
  <1>1. w \notin [to : Bufs, staging : Stagings, issued : Values]
    BY DEF Staged
  <1> QED BY <1>1 DEF Work, Plain

LEMMA ApplyTyped ==
  ASSUME NEW m \in Memories, NEW w \in Plain
  PROVE  Apply(m, w) \in Memories
  <1>1. CASE w \in Writes
    BY <1>1 DEF Memories, Writes, Apply
  <1>2. CASE w \in Kernels
    BY <1>2 DEF Memories, Kernels, Apply
  <1> QED BY <1>1, <1>2 DEF Plain

LEMMA ResolvePlain ==
  ASSUME NEW w \in Work, host \in [Stagings -> Values]
  PROVE  Resolve(w) \in Plain
  <1>1. CASE Staged(w)
    <2>1. w.to \in Bufs /\ host[w.staging] \in Values
      BY <1>1, StagedWork
    <2> QED BY <1>1, <2>1 DEF Resolve, Write, Plain, Writes
  <1> QED BY <1>1, UnstagedWork DEF Resolve

LEMMA EffectTyped ==
  ASSUME NEW w \in Work, memory \in [Bufs -> Values], host \in [Stagings -> Values]
  PROVE  Effect(memory, w) \in [Bufs -> Values]
  BY ResolvePlain, ApplyTyped DEF Effect, Memories

(* TypeOK in the parts a step disturbs. *)
StreamTyped ==
  /\ stream \in Seq(Work) /\ recording \in Seq(Work) /\ graph \in Seq(Work)
  /\ streamCapturing \in BOOLEAN
MemoryTyped ==
  /\ memory \in [Bufs -> Values] /\ host \in [Stagings -> Values]
  /\ wait \in [Threads -> Nat] /\ result \in [Threads -> Values] /\ alive \in BOOLEAN
ArgumentsTyped == buf \in [Threads -> Bufs] /\ val \in [Threads -> Values]
LocksTyped == freeLock \in Threads \cup {NoThread} /\ inflightLock \in Threads \cup {NoThread}

LEMMA TypeParts ==
  TypeOK <=> StreamTyped /\ MemoryTyped /\ ArgumentsTyped /\ LocksTyped /\ StagingTyped
  BY DEF TypeOK, StreamTyped, MemoryTyped, ArgumentsTyped, LocksTyped, StagingTyped, PCs

LEMMA TypePartsNext ==
  (StreamTyped /\ MemoryTyped /\ ArgumentsTyped /\ LocksTyped /\ StagingTyped)' => TypeOK'
  BY DEF TypeOK, StreamTyped, MemoryTyped, ArgumentsTyped, LocksTyped, StagingTyped, PCs

LEMMA InitType == Init => TypeOK
  <1> SUFFICES ASSUME Init PROVE TypeOK
    OBVIOUS
  <1>1. StreamTyped
    <2>1. stream = <<>> /\ recording = <<>> /\ graph = <<>> /\ streamCapturing = FALSE
      BY DEF Init
    <2>2. <<>> \in Seq(Work)
      OBVIOUS
    <2> QED BY <2>1, <2>2 DEF StreamTyped
  <1>2. MemoryTyped /\ ArgumentsTyped /\ LocksTyped
    BY AnyTyped DEF Init, MemoryTyped, ArgumentsTyped, LocksTyped
  <1>3. StagingTyped
    BY InitPlace DEF PlaceInv
  <1> QED BY <1>1, <1>2, <1>3, TypeParts

LEMMA EnqueueTyped ==
  ASSUME StreamTyped, NEW w \in Work, Enqueue(w)
  PROVE  StreamTyped'
  <1>1. CASE streamCapturing
    BY <1>1 DEF StreamTyped, Enqueue
  <1>2. CASE ~streamCapturing
    BY <1>2 DEF StreamTyped, Enqueue, driverVars
  <1> QED BY <1>1, <1>2

LEMMA StreamStays == ASSUME StreamTyped, UNCHANGED <<stream, driverVars>> PROVE StreamTyped'
  BY DEF StreamTyped, driverVars

LEMMA StepStream ==
  ASSUME TypeOK, PlaceInv, [Next]_vars
  PROVE  StreamTyped'
  <1>1. StreamTyped /\ ArgumentsTyped
    BY TypeParts
  <1>2. ASSUME NEW t \in Threads, EnqueueCopy(t) PROVE StreamTyped'
    <2>1. hand[t] \in Stagings
      BY <1>2 DEF EnqueueCopy, PlaceInv, CallOK, Carrying, StagingTyped
    <2>2. Copy(buf[t], hand[t], val[t]) \in Work
      BY <1>1, <2>1, WorkKinds DEF ArgumentsTyped
    <2> QED BY <1>1, <1>2, <2>2, EnqueueTyped DEF EnqueueCopy
  <1>3. ASSUME NEW t \in Threads, Step(t) \/ SynchronizeFails(t), ~EnqueueCopy(t)
        PROVE  StreamTyped'
    <2>1. UNCHANGED <<stream, driverVars>>
      BY <1>3 DEF Step, CuMemAllocHost, CuMemAllocHostFails, CopyToPinned, EnqueueCopyFails,
                  PushInflight, Synchronized, CopyBack, CopyBackFails, LockInflight, LockFree,
                  DrainInflight, GraphLaunchFails, SynchronizeFails, deviceVars
    <2> QED BY <1>1, <2>1, StreamStays
  <1>4. ASSUME NEW t \in Threads, NEW b \in Bufs, NEW v \in Values, NEW n \in Lens,
               HtodLarge(t, b, v, n)
        PROVE  StreamTyped'
    BY <1>1, <1>4, EnqueueTyped DEF HtodLarge, Work, Writes, Write
  <1>5. ASSUME NEW t \in Threads, NEW b \in Bufs, NEW v \in Values, Upload(t, b, v)
        PROVE  StreamTyped'
    BY <1>1, <1>5, EnqueueTyped DEF Upload, Work, Writes, Write
  <1>6. ASSUME NEW t \in Threads, NEW a \in Bufs, NEW b \in Bufs,
               LaunchAsync(t, a, b) \/ Launch(t, a, b)
        PROVE  StreamTyped'
    BY <1>1, <1>6, EnqueueTyped DEF LaunchAsync, Launch, Work, Kernels, Kernel
  <1>7. ASSUME NEW t \in Threads,
               \/ \E b \in Bufs, v \in Values, n \in Lens :
                    HtodReuse(t, b, v, n) \/ HtodPin(t, b, v, n)
               \/ Synchronize(t) \/ \E b \in Bufs : Dtoh(t, b)
        PROVE  StreamTyped'
    BY <1>1, <1>7, StreamStays DEF HtodReuse, HtodPin, Synchronize, Dtoh, deviceVars
  <1>8. ASSUME NEW t \in Threads,
               CuStreamBeginCapture(t) \/ CuStreamEndCapture(t) \/ GraphLaunch(t)
        PROVE  StreamTyped'
    <2>1. <<>> \in Seq(Work) /\ stream \o graph \in Seq(Work)
      BY <1>1 DEF StreamTyped
    <2>2. /\ stream' \in {stream, stream \o graph} /\ recording' \in {recording, <<>>}
          /\ graph' \in {graph, recording} /\ streamCapturing' \in {streamCapturing, TRUE, FALSE}
      BY <1>8 DEF CuStreamBeginCapture, CuStreamEndCapture, GraphLaunch, deviceVars, driverVars
    <2> QED BY <1>1, <2>1, <2>2 DEF StreamTyped
  <1>9. ASSUME NEW t \in Threads, Call(t) PROVE StreamTyped'
    BY <1>4, <1>5, <1>6, <1>7, <1>8, <1>9 DEF Call
  <1>10. CASE Execute
    BY <1>1, <1>10 DEF Execute, StreamTyped, driverVars
  <1>11. CASE DropDevice \/ UNCHANGED vars
    BY <1>1, <1>11, StreamStays DEF DropDevice, vars, deviceVars
  <1> QED BY <1>2, <1>3, <1>9, <1>10, <1>11 DEF Next

LEMMA StepMemory ==
  ASSUME TypeOK, PlaceInv, [Next]_vars
  PROVE  MemoryTyped'
  <1>1. StreamTyped /\ MemoryTyped /\ ArgumentsTyped
    BY TypeParts
  <1>2. Len(stream) \in Nat /\ Len(graph) \in Nat
    BY <1>1 DEF StreamTyped
  <1>3. ASSUME NEW t \in Threads, CopyToPinned(t) PROVE MemoryTyped'
    BY <1>1, <1>3 DEF CopyToPinned, MemoryTyped, ArgumentsTyped, deviceVars
  <1>4. ASSUME NEW t \in Threads, CopyBack(t) PROVE MemoryTyped'
    BY <1>1, <1>4 DEF CopyBack, MemoryTyped, ArgumentsTyped, deviceVars, stagingVars
  <1>5. ASSUME NEW t \in Threads, SynchronizeFails(t) PROVE MemoryTyped'
    BY <1>1, <1>5 DEF SynchronizeFails, MemoryTyped, stagingVars
  <1>6. ASSUME NEW t \in Threads, Step(t), ~CopyToPinned(t), ~CopyBack(t) PROVE MemoryTyped'
    <2>1. UNCHANGED <<memory, host, wait, result, alive>>
      BY <1>6 DEF Step, CuMemAllocHost, CuMemAllocHostFails, EnqueueCopy, EnqueueCopyFails,
                  PushInflight, Synchronized, CopyBackFails, LockInflight, LockFree,
                  DrainInflight, GraphLaunchFails, deviceVars, stagingVars
    <2> QED BY <1>1, <2>1 DEF MemoryTyped
  <1>7. ASSUME NEW t \in Threads,
               \/ \E b \in Bufs, v \in Values : Upload(t, b, v)
               \/ \E a, b \in Bufs : Launch(t, a, b)
               \/ Synchronize(t) \/ (\E b \in Bufs : Dtoh(t, b)) \/ GraphLaunch(t)
        PROVE  MemoryTyped'
    <2>1. /\ UNCHANGED <<memory, host, result, alive>>
          /\ wait' = wait \/ \E k \in {0, 1, Len(graph)} : wait' = [wait EXCEPT ![t] = Len(stream) + k]
      BY <1>7 DEF Upload, Launch, Synchronize, Dtoh, GraphLaunch, WaitFor, stagingVars
    <2> QED BY <1>1, <1>2, <2>1 DEF MemoryTyped
  <1>8. ASSUME NEW t \in Threads,
               \/ \E b \in Bufs, v \in Values, n \in Lens :
                    HtodLarge(t, b, v, n) \/ HtodReuse(t, b, v, n) \/ HtodPin(t, b, v, n)
               \/ \E a, b \in Bufs : LaunchAsync(t, a, b)
               \/ CuStreamBeginCapture(t) \/ CuStreamEndCapture(t)
        PROVE  MemoryTyped'
    <2>1. UNCHANGED <<memory, host, wait, result, alive>>
      BY <1>8 DEF HtodLarge, HtodReuse, HtodPin, LaunchAsync, CuStreamBeginCapture,
                  CuStreamEndCapture, deviceVars, stagingVars
    <2> QED BY <1>1, <2>1 DEF MemoryTyped
  <1>9. ASSUME NEW t \in Threads, Call(t) PROVE MemoryTyped'
    BY <1>7, <1>8, <1>9 DEF Call
  <1>10. CASE Execute
    <2>1. Head(stream) \in Work
      BY <1>1, <1>10 DEF Execute, StreamTyped
    <2>2. memory' \in [Bufs -> Values]
      BY <1>1, <1>10, <2>1, EffectTyped DEF Execute, MemoryTyped
    <2>3. wait' \in [Threads -> Nat]
      BY <1>1, <1>10 DEF Execute, MemoryTyped
    <2> QED BY <1>1, <1>10, <2>2, <2>3 DEF Execute, MemoryTyped, stagingVars
  <1>11. CASE DropDevice
    BY <1>1, <1>11 DEF DropDevice, MemoryTyped, deviceVars
  <1>12. CASE UNCHANGED vars
    BY <1>1, <1>12 DEF MemoryTyped, vars, deviceVars, stagingVars
  <1> QED BY <1>3, <1>4, <1>5, <1>6, <1>9, <1>10, <1>11, <1>12 DEF Next

LEMMA StepArguments ==
  ASSUME TypeOK, [Next]_vars
  PROVE  ArgumentsTyped'
  <1>1. ArgumentsTyped
    BY TypeParts
  <1>2. ASSUME NEW t \in Threads, NEW b \in Bufs, NEW v \in Values, NEW l, NEW n, NEW s,
               Enter(t, l, b, v, n, s)
        PROVE  ArgumentsTyped'
    BY <1>1, <1>2 DEF Enter, ArgumentsTyped
  <1>3. ASSUME NEW t \in Threads, Return(t) PROVE ArgumentsTyped'
    BY <1>2, <1>3, AnyTyped DEF Return
  <1>4. ASSUME UNCHANGED <<buf, val>> PROVE ArgumentsTyped'
    BY <1>1, <1>4 DEF ArgumentsTyped
  <1>5. ASSUME NEW t \in Threads, Step(t) \/ SynchronizeFails(t) PROVE ArgumentsTyped'
    <2>1. Return(t) \/ UNCHANGED <<buf, val>>
      BY <1>5 DEF Step, CuMemAllocHost, CuMemAllocHostFails, CopyToPinned, EnqueueCopy,
                  EnqueueCopyFails, PushInflight, Synchronized, CopyBack, CopyBackFails,
                  LockInflight, LockFree, DrainInflight, LeaveDrain, GraphLaunchFails,
                  SynchronizeFails, threadVars
    <2> QED BY <2>1, <1>3, <1>4
  <1>6. ASSUME NEW t \in Threads, NEW b \in Bufs, NEW v \in Values, NEW n \in Lens,
               HtodReuse(t, b, v, n) \/ HtodPin(t, b, v, n)
        PROVE  ArgumentsTyped'
    BY <1>6, <1>2 DEF HtodReuse, HtodPin
  <1>7. ASSUME NEW t \in Threads, NEW b \in Bufs, (\E v \in Values : Upload(t, b, v)) \/ Dtoh(t, b)
        PROVE  ArgumentsTyped'
    BY <1>7, <1>2, AnyTyped DEF Upload, Dtoh
  <1>8. ASSUME NEW t \in Threads,
               \/ \E b \in Bufs, v \in Values, n \in Lens : HtodLarge(t, b, v, n)
               \/ \E a, b \in Bufs : LaunchAsync(t, a, b) \/ Launch(t, a, b)
               \/ Synchronize(t) \/ CuStreamBeginCapture(t) \/ CuStreamEndCapture(t)
               \/ GraphLaunch(t)
        PROVE  ArgumentsTyped'
    BY <1>8, <1>4 DEF HtodLarge, LaunchAsync, Launch, Synchronize, CuStreamBeginCapture,
                      CuStreamEndCapture, GraphLaunch, threadVars
  <1>9. ASSUME NEW t \in Threads, Call(t) PROVE ArgumentsTyped'
    <2>1. CASE \E b \in Bufs, v \in Values, n \in Lens :
                 HtodReuse(t, b, v, n) \/ HtodPin(t, b, v, n)
      BY <2>1, <1>6
    <2>2. CASE (\E b \in Bufs, v \in Values : Upload(t, b, v)) \/ \E b \in Bufs : Dtoh(t, b)
      BY <2>2, <1>7
    <2> QED BY <2>1, <2>2, <1>8, <1>9 DEF Call
  <1>10. CASE Execute \/ DropDevice \/ UNCHANGED vars
    BY <1>4, <1>10 DEF Execute, DropDevice, vars, threadVars
  <1> QED BY <1>5, <1>9, <1>10 DEF Next

LEMMA StepLocks ==
  ASSUME TypeOK, [Next]_vars
  PROVE  LocksTyped'
  <1>1. LocksTyped
    BY TypeParts
  <1>2. ASSUME NEW t \in Threads, Step(t) \/ SynchronizeFails(t) PROVE LocksTyped'
    <2>1. /\ freeLock' \in {freeLock, NoThread, t}
          /\ inflightLock' \in {inflightLock, NoThread, t}
      BY <1>2 DEF Step, CuMemAllocHost, CuMemAllocHostFails, CopyToPinned, EnqueueCopy,
                  EnqueueCopyFails, PushInflight, Synchronized, CopyBack, CopyBackFails,
                  LockInflight, LockFree, DrainInflight, LeaveDrain, GraphLaunchFails,
                  SynchronizeFails, stagingVars
    <2> QED BY <1>1, <2>1 DEF LocksTyped
  <1>3. ASSUME NEW t \in Threads, Call(t) PROVE LocksTyped'
    <2>1. freeLock' \in {freeLock, t} /\ inflightLock' = inflightLock
      BY <1>3 DEF Call, HtodLarge, HtodReuse, HtodPin, Upload, LaunchAsync, Launch, Synchronize,
                  Dtoh, CuStreamBeginCapture, CuStreamEndCapture, GraphLaunch, stagingVars
    <2> QED BY <1>1, <2>1 DEF LocksTyped
  <1>4. CASE Execute \/ DropDevice \/ UNCHANGED vars
    BY <1>1, <1>4 DEF Execute, DropDevice, vars, stagingVars, LocksTyped
  <1> QED BY <1>2, <1>3, <1>4 DEF Next

LEMMA StepType == TypeOK /\ PlaceInv /\ [Next]_vars => TypeOK'
  <1> SUFFICES ASSUME TypeOK, PlaceInv, [Next]_vars PROVE TypeOK'
    OBVIOUS
  <1>1. StagingTyped'
    BY StepPlace DEF PlaceInv
  <1> QED BY <1>1, StepStream, StepMemory, StepArguments, StepLocks, TypePartsNext

(* Every variable of the stream keeps its type, for every instance. *)
THEOREM TypeCorrect == Spec => []TypeOK
  BY InitType, StepType, Places, PTL DEF Spec

---------------------------------------------------------------------------
OneThread == \A t, u \in Threads : t = u

(* The buffer waits for a sync point, or is about to be put where it does. *)
Pending(s) == Inflight(s) \/ \E t \in Threads : pc[t] = "inflight" /\ hand[t] = s

(* Copies in the stream read buffers that are pending, and nothing staged  *)
(* is ever recorded.                                                       *)
Copies ==
  /\ \A i \in DOMAIN recording : ~Staged(recording[i])
  /\ \A i \in DOMAIN graph : ~Staged(graph[i])
  /\ \A i \in DOMAIN stream, s \in Stagings :
       Staged(stream[i]) /\ stream[i].staging = s => host[s] = stream[i].issued /\ Pending(s)

(* Where the thread is says what is left in the stream: from the end of a  *)
(* wait to the end of reclaim_pinned, nothing.                             *)
Sequenced(t) ==
  /\ pc[t] \in Carrying \cup {"cuMemAllocHost"} => ~streamCapturing
  /\ pc[t] = "enqueue" => host[hand[t]] = val[t]
  /\ pc[t] \in {"upload", "dtoh", "synchronize"} => Len(stream) <= wait[t]
  /\ pc[t] \in {"copyBack", "reclaim", "drain", "draining"} => stream = <<>>

CopyInv == Copies /\ \A t \in Threads : Sequenced(t)

---------------------------------------------------------------------------

LEMMA InitCopy == Init => CopyInv
  BY DEF Init, CopyInv, Copies, Sequenced, Carrying

LEMMA StreamStagings ==
  ASSUME TypeOK, NEW i \in DOMAIN stream, Staged(stream[i])
  PROVE  stream[i].staging \in Stagings
  <1>1. stream[i] \in Work
    BY DEF TypeOK
  <1> QED BY <1>1, StagedWork

(* What is pending stays so, with its contents; what is enqueued, if       *)
(* anything, is not staged.                                                *)
KeepsPending == \A s \in Stagings : Pending(s) => Pending(s)' /\ host'[s] = host[s]

LEMMA SameWork ==
  ASSUME TypeOK, Copies, KeepsPending, UNCHANGED <<stream, recording, graph>>
  PROVE  Copies'
  BY DEF Copies, KeepsPending

LEMMA NewWork ==
  ASSUME TypeOK, Copies, KeepsPending, NEW w \in Work, ~Staged(w), Enqueue(w)
  PROVE  Copies'
  <1>1. stream \in Seq(Work) /\ recording \in Seq(Work)
    BY DEF TypeOK
  <1>2. CASE streamCapturing
    <2>1. /\ UNCHANGED <<stream, graph>>
          /\ DOMAIN recording' = DOMAIN recording \cup {Len(recording) + 1}
          /\ \A i \in DOMAIN recording : recording'[i] = recording[i]
          /\ recording'[Len(recording) + 1] = w
      BY <1>1, <1>2, PushStack DEF Enqueue
    <2>2. \A i \in DOMAIN recording' : ~Staged(recording'[i])
      BY <2>1 DEF Copies, Staged
    <2> QED BY <2>1, <2>2 DEF Copies, KeepsPending
  <1>3. CASE ~streamCapturing
    <2>1. /\ UNCHANGED <<recording, graph>>
          /\ DOMAIN stream' = DOMAIN stream \cup {Len(stream) + 1}
          /\ \A i \in DOMAIN stream : stream'[i] = stream[i]
          /\ stream'[Len(stream) + 1] = w
      BY <1>1, <1>3, PushStack DEF Enqueue, driverVars
    <2>2. \A i \in DOMAIN stream' :
             Staged(stream'[i]) => i \in DOMAIN stream /\ Staged(stream[i]) /\ stream'[i] = stream[i]
      BY <2>1 DEF Staged
    <2> QED BY <2>1, <2>2 DEF Copies, KeepsPending
  <1> QED BY <1>2, <1>3

(* Only PushInflight lets the thread leave "inflight". *)
LEMMA PendingStays ==
  ASSUME OneThread, NEW t \in Threads, UNCHANGED <<pinnedInflight, host>>,
         pc[t] # "inflight" \/ UNCHANGED <<pc, hand>>
  PROVE  KeepsPending
  BY DEF OneThread, KeepsPending, Pending, Inflight

LEMMA AloneSequenced ==
  ASSUME OneThread, NEW t \in Threads, Sequenced(t)'
  PROVE  \A u \in Threads : Sequenced(u)'
  BY DEF OneThread

LEMMA IdleSequenced ==
  ASSUME NEW t \in Threads, pc'[t] \in {"idle", "batch"}
  PROVE  Sequenced(t)'
  BY DEF Sequenced, Carrying

LEMMA ReturnsIdle ==
  ASSUME PlaceInv, NEW t \in Threads, Return(t)
  PROVE  pc'[t] = "idle"
  BY DEF Return, Enter, Goto, PlaceInv, StagingTyped

AloneInv == TypeOK /\ PlaceInv /\ CopyInv

LEMMA SetsPC ==
  ASSUME PlaceInv, NEW t \in Threads, NEW l, Goto(t, l)
  PROVE  pc'[t] = l
  BY DEF Goto, PlaceInv, StagingTyped

LEMMA EnterSetsPC ==
  ASSUME PlaceInv, NEW t \in Threads, NEW l, NEW b, NEW v, NEW n, NEW s, Enter(t, l, b, v, n, s)
  PROVE  pc'[t] = l
  BY SetsPC DEF Enter

---------------------------------------------------------------------------
(* The actions, one by one. *)

(* Steps that leave the stream and the pinned contents alone. *)
LEMMA QuietCopies ==
  ASSUME OneThread, AloneInv, NEW t \in Threads,
         \/ \E b \in Bufs, v \in Values, n \in Lens : HtodReuse(t, b, v, n) \/ HtodPin(t, b, v, n)
         \/ (\E b \in Bufs : Dtoh(t, b)) \/ Synchronize(t)
         \/ (\E s \in Stagings : CuMemAllocHost(t, s)) \/ CuMemAllocHostFails(t)
         \/ EnqueueCopyFails(t) \/ Synchronized(t) \/ SynchronizeFails(t)
         \/ CopyBack(t) \/ CopyBackFails(t) \/ LockInflight(t) \/ LockFree(t) \/ GraphLaunchFails(t)
  PROVE  CopyInv'
  <1>1. /\ UNCHANGED <<stream, recording, graph, streamCapturing, pinnedInflight, host>>
        /\ pc[t] # "inflight"
    BY DEF HtodReuse, HtodPin, Dtoh, Synchronize, CuMemAllocHost, CuMemAllocHostFails,
           EnqueueCopyFails, Synchronized, SynchronizeFails, CopyBack, CopyBackFails, LockInflight,
           LockFree, GraphLaunchFails, deviceVars, driverVars, stagingVars, Idle
  <1>2. Copies'
    BY <1>1, PendingStays, SameWork DEF AloneInv, CopyInv
  <1>3. /\ PlaceInv /\ Sequenced(t) /\ Len(stream) \in Nat
        /\ wait \in [Threads -> Nat] /\ stream \in Seq(Work)
    BY DEF AloneInv, CopyInv, TypeOK
  <1> SUFFICES Sequenced(t)'
    BY <1>2, AloneSequenced DEF CopyInv
  <1>4. CASE \/ \E b \in Bufs, v \in Values, n \in Lens : HtodReuse(t, b, v, n) \/ HtodPin(t, b, v, n)
             \/ \E s \in Stagings : CuMemAllocHost(t, s)
    <2>1. pc'[t] \in {"memcpy", "cuMemAllocHost"} /\ ~streamCapturing
      BY <1>3, <1>4, SetsPC, EnterSetsPC
         DEF HtodReuse, HtodPin, CuMemAllocHost, MayStage, Sequenced
    <2> QED BY <1>1, <2>1 DEF Sequenced
  <1>5. CASE (\E b \in Bufs : Dtoh(t, b)) \/ Synchronize(t)
    <2>1. pc'[t] \in {"dtoh", "synchronize"}
      BY <1>3, <1>5, SetsPC, EnterSetsPC DEF Dtoh, Synchronize
    <2>2. wait'[t] = Len(stream) + 0
      BY <1>3, <1>5 DEF Dtoh, Synchronize, WaitFor
    <2> QED BY <1>1, <1>3, <2>1, <2>2 DEF Sequenced, Carrying
  <1>6. CASE \/ CuMemAllocHostFails(t) \/ EnqueueCopyFails(t) \/ SynchronizeFails(t)
             \/ CopyBackFails(t) \/ GraphLaunchFails(t)
    BY <1>3, <1>6, ReturnsIdle, IdleSequenced
       DEF CuMemAllocHostFails, EnqueueCopyFails, SynchronizeFails, CopyBackFails, GraphLaunchFails
  <1>7. CASE Synchronized(t)
    <2>1. Len(stream) <= 0 /\ (pc'[t] \in {"idle", "copyBack", "reclaim"})
      BY <1>3, <1>7, ReturnsIdle, SetsPC DEF Synchronized, Sequenced
    <2>2. stream = <<>>
      BY <1>3, <2>1
    <2> QED BY <1>1, <2>1, <2>2 DEF Sequenced, Carrying
  <1>8. CASE CopyBack(t) \/ LockInflight(t) \/ LockFree(t)
    <2>1. stream = <<>> /\ pc'[t] \in {"idle", "reclaim", "drain", "draining"}
      BY <1>3, <1>8, ReturnsIdle, SetsPC DEF CopyBack, LockInflight, LockFree, Sequenced
    <2> QED BY <1>1, <2>1 DEF Sequenced, Carrying
  <1> QED BY <1>4, <1>5, <1>6, <1>7, <1>8

(* Steps that enqueue work that is not staged. *)
LEMMA DeviceWorkCopies ==
  ASSUME OneThread, AloneInv, NEW t \in Threads, NEW w \in Work, ~Staged(w), Enqueue(w),
         UNCHANGED <<pinnedInflight, host>>, pc[t] = "idle",
         \/ pc'[t] = "idle"
         \/ /\ pc'[t] \in {"upload", "synchronize"} /\ ~streamCapturing
            /\ WaitFor(t, 1)
  PROVE  CopyInv'
  <1>1. Copies'
    BY PendingStays, NewWork DEF AloneInv, CopyInv
  <1>2. Sequenced(t)'
    <2>1. CASE pc'[t] = "idle"
      BY <2>1, IdleSequenced
    <2>2. CASE pc'[t] \in {"upload", "synchronize"} /\ ~streamCapturing /\ WaitFor(t, 1)
      <3>1. stream' = Append(stream, w) /\ stream \in Seq(Work) /\ wait \in [Threads -> Nat]
        BY <2>2 DEF Enqueue, AloneInv, TypeOK
      <3>2. Len(stream') = Len(stream) + 1 /\ wait'[t] = Len(stream) + 1 /\ Len(stream) \in Nat
        BY <2>2, <3>1 DEF WaitFor
      <3> QED BY <2>2, <3>2 DEF Sequenced, Carrying
    <2> QED BY <2>1, <2>2
  <1> QED BY <1>1, <1>2, AloneSequenced DEF CopyInv

LEMMA DeviceCopies ==
  ASSUME OneThread, AloneInv, NEW t \in Threads,
         \/ \E b \in Bufs, v \in Values, n \in Lens : HtodLarge(t, b, v, n)
         \/ \E b \in Bufs, v \in Values : Upload(t, b, v)
         \/ \E a, b \in Bufs : LaunchAsync(t, a, b) \/ Launch(t, a, b)
  PROVE  CopyInv'
  <1>1. PlaceInv
    BY DEF AloneInv
  <1>2. ASSUME NEW b \in Bufs, NEW v \in Values, NEW n \in Lens, HtodLarge(t, b, v, n)
        PROVE  CopyInv'
    <2>1. Write(b, v) \in Work /\ ~Staged(Write(b, v))
      BY DEF Work, Writes, Write, Staged
    <2> QED BY <1>2, <2>1, DeviceWorkCopies DEF HtodLarge, Idle, stagingVars, threadVars
  <1>3. ASSUME NEW b \in Bufs, NEW v \in Values, Upload(t, b, v) PROVE CopyInv'
    <2>1. Write(b, v) \in Work /\ ~Staged(Write(b, v))
      BY DEF Work, Writes, Write, Staged
    <2>2. pc'[t] = "upload"
      BY <1>1, <1>3, EnterSetsPC DEF Upload
    <2> QED BY <1>3, <2>1, <2>2, DeviceWorkCopies DEF Upload, Idle, MayWait, stagingVars
  <1>4. ASSUME NEW a \in Bufs, NEW b \in Bufs, LaunchAsync(t, a, b) \/ Launch(t, a, b)
        PROVE  CopyInv'
    <2>1. Kernel(a, b) \in Work /\ ~Staged(Kernel(a, b))
      BY DEF Work, Kernels, Kernel, Staged
    <2>2. CASE LaunchAsync(t, a, b)
      BY <2>1, <2>2, DeviceWorkCopies DEF LaunchAsync, Idle, stagingVars, threadVars
    <2>3. CASE Launch(t, a, b)
      <3>1. pc'[t] = "synchronize"
        BY <1>1, <2>3, SetsPC DEF Launch
      <3> QED BY <2>1, <2>3, <3>1, DeviceWorkCopies DEF Launch, Idle, MayWait, stagingVars
    <2> QED BY <1>4, <2>2, <2>3
  <1> QED BY <1>2, <1>3, <1>4

(* The bytes go into a buffer that no copy in the stream reads. *)
LEMMA CopyToPinnedCopies ==
  ASSUME OneThread, AloneInv, NEW t \in Threads, CopyToPinned(t)
  PROVE  CopyInv'
  <1>1. /\ pc[t] = "memcpy" /\ host' = [host EXCEPT ![hand[t]] = val[t]]
        /\ UNCHANGED <<stream, recording, graph, streamCapturing, pinnedInflight, hand, val>>
        /\ Goto(t, "enqueue")
    BY DEF CopyToPinned, deviceVars, driverVars
  <1>2. /\ PlaceInv /\ Sequenced(t) /\ host \in [Stagings -> Values]
    BY DEF AloneInv, CopyInv, TypeOK
  <1>3. hand[t] \in Stagings /\ ~Inflight(hand[t])
    <2>1. hand[t] \in Stagings
      BY <1>1, <1>2 DEF PlaceInv, CallOK, StagingTyped, Carrying
    <2>2. InHand(hand[t])
      BY DEF InHand
    <2> QED BY <1>2, <2>1, <2>2 DEF PlaceInv, OnePlaceEach, OnePlace
  <1>4. pc'[t] = "enqueue"
    BY <1>1, <1>2, SetsPC
  <1>5. KeepsPending
    <2>1. ASSUME NEW s \in Stagings, Pending(s) PROVE Inflight(s)
      BY <1>1, <2>1 DEF Pending, OneThread
    <2>2. ASSUME NEW s \in Stagings, Pending(s) PROVE Pending(s)' /\ host'[s] = host[s]
      BY <1>1, <1>2, <1>3, <2>1, <2>2 DEF Pending, Inflight
    <2> QED BY <2>2 DEF KeepsPending
  <1>6. Copies'
    BY <1>1, <1>5, SameWork DEF AloneInv, CopyInv
  <1>7. Sequenced(t)'
    BY <1>1, <1>2, <1>3, <1>4 DEF Sequenced, Carrying
  <1> QED BY <1>6, <1>7, AloneSequenced DEF CopyInv

(* The copy that joins the stream reads the buffer the thread has filled. *)
LEMMA EnqueueCopyCopies ==
  ASSUME OneThread, AloneInv, NEW t \in Threads, EnqueueCopy(t)
  PROVE  CopyInv'
  <1> DEFINE w == Copy(buf[t], hand[t], val[t])
  <1>1. /\ pc[t] = "enqueue" /\ Enqueue(w) /\ Goto(t, "inflight")
        /\ UNCHANGED <<pinnedInflight, host, hand>>
    BY DEF EnqueueCopy, stagingVars
  <1>2. /\ PlaceInv /\ Sequenced(t) /\ stream \in Seq(Work)
        /\ buf[t] \in Bufs /\ val[t] \in Values
    BY DEF AloneInv, CopyInv, TypeOK
  <1>3. hand[t] \in Stagings
    BY <1>1, <1>2 DEF PlaceInv, CallOK, StagingTyped, Carrying
  <1>4. pc'[t] = "inflight"
    BY <1>1, <1>2, SetsPC
  <1>5. w \in Work /\ w.staging = hand[t] /\ w.issued = val[t]
    BY <1>2, <1>3, WorkKinds
  <1> HIDE DEF w
  <1>6. /\ ~streamCapturing /\ host[hand[t]] = val[t]
    BY <1>1, <1>2 DEF Sequenced, Carrying
  <1>7. /\ UNCHANGED <<recording, graph, streamCapturing>>
        /\ stream' = Append(stream, w)
    BY <1>1, <1>6 DEF Enqueue, driverVars
  <1>8. /\ DOMAIN stream' = DOMAIN stream \cup {Len(stream) + 1}
        /\ \A i \in DOMAIN stream : stream'[i] = stream[i]
        /\ stream'[Len(stream) + 1] = w
    BY <1>2, <1>5, <1>7, PushStack
  <1>9. KeepsPending
    BY <1>1, PendingStays
  <1>10. ASSUME NEW s \in Stagings, s = hand[t] PROVE Pending(s)'
    BY <1>1, <1>4, <1>10 DEF Pending
  <1>11. Copies'
    <2>1. ASSUME NEW i \in DOMAIN stream', NEW s \in Stagings,
                 Staged(stream'[i]), stream'[i].staging = s
          PROVE  host'[s] = stream'[i].issued /\ Pending(s)'
      <3>1. CASE i \in DOMAIN stream
        BY <1>8, <1>9, <2>1, <3>1 DEF AloneInv, CopyInv, Copies, KeepsPending
      <3>2. CASE i = Len(stream) + 1
        <4>1. s = hand[t] /\ stream'[i] = w
          BY <1>5, <1>8, <2>1, <3>2
        <4> QED BY <1>1, <1>5, <1>6, <1>10, <4>1
      <3> QED BY <1>8, <3>1, <3>2
    <2>2. (\A i \in DOMAIN recording' : ~Staged(recording'[i])) /\ \A i \in DOMAIN graph' : ~Staged(graph'[i])
      BY <1>7 DEF AloneInv, CopyInv, Copies
    <2> QED BY <2>1, <2>2 DEF Copies, Staged
  <1>12. Sequenced(t)'
    BY <1>4, <1>6, <1>7 DEF Sequenced, Carrying
  <1> QED BY <1>11, <1>12, AloneSequenced DEF CopyInv

LEMMA PushInflightCopies ==
  ASSUME OneThread, AloneInv, NEW t \in Threads, PushInflight(t)
  PROVE  CopyInv'
  <1>1. /\ pinnedInflight' = Append(pinnedInflight, <<hand[t], need[t]>>) /\ Return(t)
        /\ UNCHANGED <<stream, recording, graph, host>>
    BY DEF PushInflight, deviceVars, driverVars
  <1>2. pinnedInflight \in Seq(Stagings \X Lens) /\ PlaceInv
    BY DEF AloneInv, PlaceInv, StagingTyped
  <1>3. \A i \in DOMAIN pinnedInflight :
           i \in DOMAIN pinnedInflight' /\ pinnedInflight'[i] = pinnedInflight[i]
    BY <1>1, <1>2
  <1>4. /\ Len(pinnedInflight) + 1 \in DOMAIN pinnedInflight'
        /\ pinnedInflight'[Len(pinnedInflight) + 1] = <<hand[t], need[t]>>
    BY <1>1, <1>2
  <1>5. ASSUME NEW s \in Stagings, Pending(s) PROVE Inflight(s)'
    <2>1. CASE Inflight(s)
      BY <1>3, <2>1 DEF Inflight
    <2>2. CASE ~Inflight(s)
      <3>1. s = hand[t]
        BY <1>5, <2>2 DEF Pending, OneThread
      <3> QED BY <1>1, <1>4, <3>1 DEF Inflight
    <2> QED BY <2>1, <2>2
  <1>6. KeepsPending
    BY <1>1, <1>5 DEF KeepsPending, Pending
  <1>7. Copies'
    BY <1>1, <1>6, SameWork DEF AloneInv, CopyInv
  <1>8. Sequenced(t)'
    BY <1>1, <1>2, ReturnsIdle, IdleSequenced
  <1> QED BY <1>7, <1>8, AloneSequenced DEF CopyInv

(* reclaim_pinned frees what is in flight when the stream is empty. *)
LEMMA DrainCopies ==
  ASSUME OneThread, AloneInv, NEW t \in Threads, DrainInflight(t)
  PROVE  CopyInv'
  <1>1. /\ pc[t] = "draining" /\ UNCHANGED <<stream, recording, graph, host>>
        /\ Return(t) \/ UNCHANGED pc
    BY DEF DrainInflight, LeaveDrain, deviceVars, driverVars, threadVars
  <1>2. PlaceInv /\ stream = <<>>
    BY <1>1 DEF AloneInv, CopyInv, Sequenced
  <1>3. Copies'
    BY <1>1, <1>2 DEF AloneInv, CopyInv, Copies
  <1>4. pc'[t] \in {"idle", "draining"}
    BY <1>1, <1>2, ReturnsIdle
  <1>5. Sequenced(t)'
    BY <1>1, <1>2, <1>4 DEF Sequenced, Carrying
  <1> QED BY <1>3, <1>5, AloneSequenced DEF CopyInv

LEMMA CaptureCopies ==
  ASSUME OneThread, AloneInv, NEW t \in Threads, CuStreamBeginCapture(t) \/ CuStreamEndCapture(t)
  PROVE  CopyInv'
  <1>1. /\ pc[t] = "idle" /\ UNCHANGED <<stream, host, pinnedInflight, pc, hand>>
        /\ recording' = <<>> /\ graph' \in {graph, recording}
    BY DEF CuStreamBeginCapture, CuStreamEndCapture, Idle, deviceVars, stagingVars, threadVars
  <1>2. KeepsPending
    BY <1>1, PendingStays
  <1>3. Copies'
    BY <1>1, <1>2 DEF AloneInv, CopyInv, Copies, KeepsPending
  <1>4. Sequenced(t)'
    BY <1>1, IdleSequenced
  <1> QED BY <1>3, <1>4, AloneSequenced DEF CopyInv

LEMMA GraphLaunchCopies ==
  ASSUME OneThread, AloneInv, NEW t \in Threads, GraphLaunch(t)
  PROVE  CopyInv'
  <1>1. /\ stream' = stream \o graph /\ UNCHANGED <<recording, graph, streamCapturing, host, pinnedInflight>>
        /\ pc[t] \in {"idle", "batch"} /\ ~streamCapturing
        /\ Goto(t, "batch") \/ (Goto(t, "synchronize") /\ WaitFor(t, Len(graph)))
    BY DEF GraphLaunch, Idle, MayWait, driverVars, stagingVars
  <1>2. /\ PlaceInv /\ stream \in Seq(Work) /\ graph \in Seq(Work)
        /\ wait \in [Threads -> Nat]
    BY DEF AloneInv, TypeOK
  <1>3. KeepsPending
    BY <1>1, PendingStays
  <1>4. ASSUME NEW i \in DOMAIN stream', Staged(stream'[i])
        PROVE  i \in DOMAIN stream /\ stream'[i] = stream[i]
    <2>1. \/ i \in DOMAIN stream /\ stream'[i] = stream[i]
          \/ \E j \in DOMAIN graph : stream'[i] = graph[j]
      <3>1. i \in 1..(Len(stream) + Len(graph)) /\ Len(stream) \in Nat /\ Len(graph) \in Nat
        BY <1>1, <1>2
      <3>2. CASE i <= Len(stream)
        BY <1>1, <1>2, <3>1, <3>2
      <3>3. CASE i > Len(stream)
        <4>1. i - Len(stream) \in DOMAIN graph /\ stream'[i] = graph[i - Len(stream)]
          BY <1>1, <1>2, <3>1, <3>3
        <4> QED BY <4>1
      <3> QED BY <3>1, <3>2, <3>3
    <2>2. \A j \in DOMAIN graph : ~Staged(graph[j])
      BY DEF AloneInv, CopyInv, Copies
    <2> QED BY <1>4, <2>1, <2>2 DEF Staged
  <1>5. Copies'
    <2>1. ASSUME NEW i \in DOMAIN stream', NEW s \in Stagings,
                 Staged(stream'[i]), stream'[i].staging = s
          PROVE  host'[s] = stream'[i].issued /\ Pending(s)'
      <3>1. i \in DOMAIN stream /\ stream'[i] = stream[i] /\ Staged(stream[i])
        BY <1>4, <2>1 DEF Staged
      <3> QED BY <1>3, <2>1, <3>1 DEF AloneInv, CopyInv, Copies, KeepsPending
    <2> QED BY <1>1, <2>1 DEF AloneInv, CopyInv, Copies, Staged
  <1>6. Sequenced(t)'
    <2>1. CASE Goto(t, "batch")
      BY <1>2, <2>1, SetsPC, IdleSequenced
    <2>2. CASE Goto(t, "synchronize") /\ WaitFor(t, Len(graph))
      <3>1. pc'[t] = "synchronize"
        BY <1>2, <2>2, SetsPC
      <3>2. wait'[t] = Len(stream) + Len(graph) /\ Len(stream') = Len(stream) + Len(graph)
        BY <1>1, <1>2, <2>2 DEF WaitFor
      <3>3. Len(stream') \in Nat
        BY <1>2, <3>2
      <3> QED BY <3>1, <3>2, <3>3 DEF Sequenced, Carrying
    <2> QED BY <1>1, <2>1, <2>2
  <1> QED BY <1>5, <1>6, AloneSequenced DEF CopyInv

(* The device runs the oldest work; what is left is what was there. *)
LEMMA ExecuteCopies ==
  ASSUME AloneInv, Execute
  PROVE  CopyInv'
  <1>1. /\ stream # <<>> /\ stream' = Tail(stream)
        /\ wait' = [t \in Threads |-> IF wait[t] > 0 THEN wait[t] - 1 ELSE 0]
        /\ UNCHANGED <<streamCapturing, recording, graph, host, pinnedInflight, pc, hand, val>>
    BY DEF Execute, driverVars, stagingVars, threadVars
  <1>2. stream \in Seq(Work) /\ wait \in [Threads -> Nat]
    BY DEF AloneInv, TypeOK
  <1>3. \A i \in DOMAIN stream' : i + 1 \in DOMAIN stream /\ stream'[i] = stream[i + 1]
    BY <1>1, <1>2, TailQueue
  <1>4. Copies'
    <2>1. ASSUME NEW i \in DOMAIN stream', NEW s \in Stagings,
                 Staged(stream'[i]), stream'[i].staging = s
          PROVE  host'[s] = stream'[i].issued /\ Pending(s)'
      <3>1. i + 1 \in DOMAIN stream /\ stream'[i] = stream[i + 1] /\ Staged(stream[i + 1])
        BY <1>3, <2>1 DEF Staged
      <3>2. host[s] = stream[i + 1].issued /\ Pending(s)
        BY <2>1, <3>1 DEF AloneInv, CopyInv, Copies
      <3> QED BY <1>1, <3>1, <3>2 DEF Pending, Inflight
    <2> QED BY <1>1, <2>1 DEF AloneInv, CopyInv, Copies, Staged
  <1>5. Len(stream') = Len(stream) - 1 /\ Len(stream) \in Nat
    BY <1>1, <1>2
  <1>6. ASSUME NEW t \in Threads PROVE Sequenced(t)'
    <2>1. Sequenced(t) /\ pc[t] \notin {"copyBack", "reclaim", "drain", "draining"}
      BY <1>1 DEF AloneInv, CopyInv, Sequenced
    <2>2. Len(stream) <= wait[t] => Len(stream') <= wait'[t]
      <3>1. wait[t] \in Nat /\ wait'[t] = IF wait[t] > 0 THEN wait[t] - 1 ELSE 0
        BY <1>1, <1>2
      <3>2. Len(stream) >= 1
        BY <1>1, <1>2
      <3> QED BY <1>5, <3>1, <3>2
    <2> QED BY <1>1, <2>1, <2>2 DEF Sequenced
  <1> QED BY <1>4, <1>6 DEF CopyInv

LEMMA DropCopies ==
  ASSUME AloneInv, DropDevice \/ UNCHANGED vars
  PROVE  CopyInv'
  <1>1. CASE DropDevice
    <2>1. /\ stream' = <<>> /\ UNCHANGED <<recording, graph>>
          /\ \A t \in Threads : pc'[t] = "idle"
      BY <1>1 DEF DropDevice, Idle, deviceVars, driverVars, threadVars
    <2>2. Copies'
      BY <2>1 DEF AloneInv, CopyInv, Copies
    <2> QED BY <2>1, <2>2, IdleSequenced DEF CopyInv
  <1>2. CASE UNCHANGED vars
    BY <1>2 DEF vars, deviceVars, driverVars, stagingVars, threadVars, AloneInv, CopyInv, Copies,
                Sequenced, Pending, Inflight, Staged
  <1> QED BY <1>1, <1>2

---------------------------------------------------------------------------

LEMMA StepCopies == OneThread /\ AloneInv /\ [Next]_vars => CopyInv'
  <1> SUFFICES ASSUME OneThread, AloneInv, [Next]_vars PROVE CopyInv'
    OBVIOUS
  <1>1. ASSUME NEW t \in Threads, Step(t) \/ SynchronizeFails(t) PROVE CopyInv'
    <2>1. \/ \E s \in Stagings : CuMemAllocHost(t, s)
          \/ CuMemAllocHostFails(t) \/ EnqueueCopyFails(t) \/ Synchronized(t)
          \/ SynchronizeFails(t) \/ CopyBack(t) \/ CopyBackFails(t) \/ LockInflight(t)
          \/ LockFree(t) \/ GraphLaunchFails(t)
          \/ CopyToPinned(t) \/ EnqueueCopy(t) \/ PushInflight(t) \/ DrainInflight(t)
      BY <1>1 DEF Step
    <2> QED BY <2>1, QuietCopies, CopyToPinnedCopies, EnqueueCopyCopies, PushInflightCopies,
               DrainCopies
  <1>2. ASSUME NEW t \in Threads, Call(t) PROVE CopyInv'
    <2>1. CASE \/ \E b \in Bufs, v \in Values, n \in Lens :
                    HtodReuse(t, b, v, n) \/ HtodPin(t, b, v, n)
               \/ (\E b \in Bufs : Dtoh(t, b)) \/ Synchronize(t)
      BY <2>1, QuietCopies
    <2>2. CASE \/ \E b \in Bufs, v \in Values, n \in Lens : HtodLarge(t, b, v, n)
               \/ \E b \in Bufs, v \in Values : Upload(t, b, v)
               \/ \E a, b \in Bufs : LaunchAsync(t, a, b) \/ Launch(t, a, b)
      BY <2>2, DeviceCopies
    <2>3. CASE CuStreamBeginCapture(t) \/ CuStreamEndCapture(t) \/ GraphLaunch(t)
      BY <2>3, CaptureCopies, GraphLaunchCopies
    <2> QED BY <1>2, <2>1, <2>2, <2>3 DEF Call
  <1> QED BY <1>1, <1>2, ExecuteCopies, DropCopies DEF Next

(* A device used by one thread never runs a copy whose staging buffer has  *)
(* been reused: however far the stream lags behind, the pinned buffer of   *)
(* each copy in it holds the bytes the caller gave to htod.                *)
THEOREM CopiesKeepTheirBytes ==
  ASSUME OneThread
  PROVE  Spec => []CopiesCarryTheirBytes
  <1>1. Init => AloneInv
    BY InitType, InitPlace, InitCopy DEF AloneInv
  <1>2. AloneInv /\ [Next]_vars => AloneInv'
    BY StepType, StepPlace, StepCopies DEF AloneInv
  <1>3. AloneInv => CopiesCarryTheirBytes
    BY StreamStagings DEF AloneInv, CopyInv, Copies, CopiesCarryTheirBytes
  <1> QED BY <1>1, <1>2, <1>3, PTL DEF Spec
---------------------------------------------------------------------------
(* The abstract memory: a recursion over work, and the trajectory it is    *)
(* the end of.                                                             *)

Trajectory(f, mem, works) ==
  f[0] = mem /\ \A k \in 1..Len(works) : f[k] = Apply(f[k - 1], works[k])

LEMMA RunsTo ==
  ASSUME NEW mem \in Memories, NEW works \in Seq(Plain)
  PROVE  \E f : Trajectory(f, mem, works) /\ RunAll(mem, works) = f[Len(works)]
  <1> DEFINE n == Len(works)
             Def(at) == [k \in 0..n |-> IF k = 0 THEN mem ELSE Apply(at[k - 1], works[k])]
             C == CHOOSE at : at = Def(at)
             F == [i \in Nat |-> [m \in Memories |->
                     IF i < n THEN Apply(m, works[i + 1]) ELSE m]]
  <1>1. n \in Nat /\ \A k \in 1..n : works[k] \in Plain
    OBVIOUS
  <1>2. RunAll(mem, works) = C[n]
    BY DEF RunAll
  <1> HIDE DEF C
  <1>3. \E at : at = Def(at)
    <2>1. F \in [Nat -> [Memories -> Memories]]
      <3>1. \A i \in Nat : i < n => i + 1 \in 1..n
        BY <1>1
      <3>2. \A i \in Nat, m \in Memories : i < n => Apply(m, works[i + 1]) \in Memories
        BY <1>1, <3>1, ApplyTyped
      <3> QED BY <3>2
    <2>2. PICK g \in [Nat -> Memories] : Recurses(g, mem, F)
      <3> HIDE DEF F
      <3> QED BY <2>1, NatSetRecursion
    <2> DEFINE at == [k \in 0..n |-> g[k]]
    <2>3. \A k \in 0..n : k # 0 => k - 1 \in Nat /\ k - 1 \in 0..n /\ k - 1 < n /\ (k - 1) + 1 = k
      BY <1>1
    <2>4. ASSUME NEW k \in 0..n, k # 0 PROVE at[k] = Apply(at[k - 1], works[k])
      <3>1. g[(k - 1) + 1] = F[k - 1][g[k - 1]]
        BY <2>2, <2>3, <2>4 DEF Recurses
      <3>2. F[k - 1][g[k - 1]] = Apply(g[k - 1], works[(k - 1) + 1])
        BY <2>2, <2>3, <2>4
      <3> QED BY <2>3, <2>4, <3>1, <3>2
    <2>5. at[0] = mem
      BY <1>1, <2>2 DEF Recurses
    <2>6. \A k \in 0..n : at[k] = Def(at)[k]
      BY <2>4, <2>5
    <2>7. at = [k \in 0..n |-> at[k]] /\ Def(at) = [k \in 0..n |-> Def(at)[k]]
      OBVIOUS
    <2> HIDE DEF at, Def
    <2>8. at = Def(at)
      BY <2>6, <2>7, Zenon
    <2> QED BY <2>8
  <1>4. C = Def(C)
    BY <1>3 DEF C
  <1>5. Trajectory(C, mem, works)
    <2>1. \A k \in 0..n : C[k] = Def(C)[k]
      BY <1>4
    <2> QED BY <1>1, <2>1 DEF Trajectory
  <1> QED BY <1>2, <1>5

(* Two trajectories of the same work end alike.                            *)
LEMMA TrajectoriesAgree ==
  ASSUME NEW mem, NEW works \in Seq(Plain), NEW f, NEW g,
         Trajectory(f, mem, works), Trajectory(g, mem, works)
  PROVE  f[Len(works)] = g[Len(works)]
  <1> DEFINE n == Len(works)
             P == {k \in Nat : k <= n => f[k] = g[k]}
  <1>1. n \in Nat
    OBVIOUS
  <1>2. 0 \in P
    BY DEF Trajectory
  <1>3. ASSUME NEW k \in Nat, k \in P PROVE k + 1 \in P
    <2>1. CASE k + 1 <= n
      <3>1. f[k] = g[k] /\ k + 1 \in 1..n /\ (k + 1) - 1 = k
        BY <1>1, <1>3, <2>1
      <3>2. f[k + 1] = Apply(f[k], works[k + 1]) /\ g[k + 1] = Apply(g[k], works[k + 1])
        BY <3>1 DEF Trajectory
      <3> QED BY <3>1, <3>2
    <2> QED BY <2>1
  <1>4. Nat \subseteq P
    <2> HIDE DEF P
    <2> QED BY <1>2, <1>3, NatSetInduction
  <1> QED BY <1>1, <1>4

LEMMA RunAllIs ==
  ASSUME NEW mem \in Memories, NEW works \in Seq(Plain), NEW f, Trajectory(f, mem, works)
  PROVE  RunAll(mem, works) = f[Len(works)]
  BY RunsTo, TrajectoriesAgree

LEMMA RunAllTyped ==
  ASSUME NEW mem \in Memories, NEW works \in Seq(Plain)
  PROVE  RunAll(mem, works) \in Memories
  <1>1. PICK f : Trajectory(f, mem, works) /\ RunAll(mem, works) = f[Len(works)]
    BY RunsTo
  <1> DEFINE n == Len(works)
             P == {k \in Nat : k <= n => f[k] \in Memories}
  <1>2. n \in Nat /\ \A k \in 1..n : works[k] \in Plain
    OBVIOUS
  <1>3. 0 \in P
    BY <1>1 DEF Trajectory
  <1>4. ASSUME NEW k \in Nat, k \in P PROVE k + 1 \in P
    <2>1. CASE k + 1 <= n
      <3>1. f[k] \in Memories /\ k + 1 \in 1..n /\ (k + 1) - 1 = k
        BY <1>2, <1>4, <2>1
      <3>2. f[k + 1] = Apply(f[k], works[k + 1])
        BY <1>1, <3>1 DEF Trajectory
      <3> QED BY <1>2, <3>1, <3>2, ApplyTyped
    <2> QED BY <2>1
  <1>5. Nat \subseteq P
    <2> HIDE DEF P
    <2> QED BY <1>3, <1>4, NatSetInduction
  <1> QED BY <1>1, <1>2, <1>5

LEMMA RunNothing ==
  ASSUME NEW mem \in Memories
  PROVE  RunAll(mem, <<>>) = mem
  <1>1. <<>> \in Seq(Plain) /\ Len(<<>>) = 0
    OBVIOUS
  <1>2. PICK f : Trajectory(f, mem, <<>>) /\ RunAll(mem, <<>>) = f[Len(<<>>)]
    BY <1>1, RunsTo
  <1> QED BY <1>1, <1>2 DEF Trajectory

LEMMA RunOne ==
  ASSUME NEW mem \in Memories, NEW w \in Plain
  PROVE  RunAll(mem, <<w>>) = Apply(mem, w)
  <1>1. <<w>> \in Seq(Plain) /\ Len(<<w>>) = 1 /\ <<w>>[1] = w
    OBVIOUS
  <1>2. PICK f : Trajectory(f, mem, <<w>>) /\ RunAll(mem, <<w>>) = f[1]
    BY <1>1, RunsTo
  <1> QED BY <1>1, <1>2 DEF Trajectory

(* Work behind other work starts from what that leaves.                    *)
LEMMA RunBoth ==
  ASSUME NEW mem \in Memories, NEW first \in Seq(Plain), NEW second \in Seq(Plain)
  PROVE  RunAll(mem, first \o second) = RunAll(RunAll(mem, first), second)
  <1> DEFINE m == Len(first)
             n == Len(second)
             both == first \o second
  <1>1. PICK f : Trajectory(f, mem, first) /\ RunAll(mem, first) = f[m]
    BY RunsTo
  <1>2. RunAll(mem, first) \in Memories
    BY RunAllTyped
  <1>3. PICK g : Trajectory(g, f[m], second) /\ RunAll(f[m], second) = g[n]
    BY <1>1, <1>2, RunsTo
  <1>4. /\ both \in Seq(Plain) /\ m \in Nat /\ n \in Nat /\ Len(both) = m + n
        /\ \A k \in 1..m : both[k] = first[k]
        /\ \A k \in 1..(m + n) : k > m => both[k] = second[k - m]
    OBVIOUS
  <1> HIDE DEF both
  <1> DEFINE h == [k \in 0..(m + n) |-> IF k <= m THEN f[k] ELSE g[k - m]]
  <1>5. g[0] = f[m]
    BY <1>3 DEF Trajectory
  <1>6. Trajectory(h, mem, both)
    <2>1. h[0] = mem
      BY <1>1, <1>4 DEF Trajectory
    <2>2. ASSUME NEW k \in 1..(m + n) PROVE h[k] = Apply(h[k - 1], both[k])
      <3>1. CASE k <= m
        <4>1. k \in 1..m /\ k - 1 \in 0..(m + n) /\ k - 1 <= m /\ k \in 0..(m + n)
          BY <1>4, <3>1
        <4>2. f[k] = Apply(f[k - 1], first[k])
          BY <1>1, <4>1 DEF Trajectory
        <4> QED BY <1>4, <4>1, <4>2
      <3>2. CASE k > m
        <4>1. /\ k - m \in 1..n /\ (k - m) - 1 = (k - 1) - m
              /\ k - 1 \in 0..(m + n) /\ k \in 0..(m + n) /\ ~(k <= m)
          BY <1>4, <3>2
        <4>2. g[k - m] = Apply(g[(k - 1) - m], second[k - m])
          BY <1>3, <4>1 DEF Trajectory
        <4>3. h[k - 1] = g[(k - 1) - m]
          <5>1. CASE k - 1 <= m
            <6>1. k - 1 = m /\ (k - 1) - m = 0
              BY <1>4, <3>2, <5>1
            <6> QED BY <1>5, <4>1, <6>1
          <5>2. CASE ~(k - 1 <= m)
            BY <4>1, <5>2
          <5> QED BY <5>1, <5>2
        <4>4. h[k] = g[k - m]
          BY <4>1
        <4>5. both[k] = second[k - m]
          BY <1>4, <3>2
        <4> HIDE DEF h
        <4> QED BY <4>2, <4>3, <4>4, <4>5
      <3> QED BY <1>4, <3>1, <3>2
    <2> QED BY <1>4, <2>1, <2>2 DEF Trajectory
  <1>7. h[m + n] = g[n]
    <2>1. m + n \in 0..(m + n) /\ (m + n) - m = n /\ (m + n <= m => n = 0 /\ m + n = m)
      BY <1>4
    <2> QED BY <1>5, <2>1
  <1> HIDE DEF h
  <1>8. RunAll(mem, both) = h[m + n]
    BY <1>4, <1>6, RunAllIs
  <1> QED BY <1>1, <1>3, <1>7, <1>8 DEF both

LEMMA RunLonger ==
  ASSUME NEW mem \in Memories, NEW works \in Seq(Plain), NEW w \in Plain
  PROVE  RunAll(mem, Append(works, w)) = Apply(RunAll(mem, works), w)
  <1>1. Append(works, w) = works \o <<w>> /\ <<w>> \in Seq(Plain)
    OBVIOUS
  <1>2. RunAll(mem, works \o <<w>>) = RunAll(RunAll(mem, works), <<w>>)
    BY <1>1, RunBoth
  <1>3. RunAll(RunAll(mem, works), <<w>>) = Apply(RunAll(mem, works), w)
    BY RunOne, RunAllTyped
  <1> QED BY <1>1, <1>2, <1>3

LEMMA RunTail ==
  ASSUME NEW mem \in Memories, NEW works \in Seq(Plain), works # <<>>
  PROVE  RunAll(mem, works) = RunAll(Apply(mem, Head(works)), Tail(works))
  <1>1. /\ works = <<Head(works)>> \o Tail(works)
        /\ Head(works) \in Plain /\ Tail(works) \in Seq(Plain)
        /\ <<Head(works)>> \in Seq(Plain)
    OBVIOUS
  <1>2. RunAll(mem, <<Head(works)>> \o Tail(works)) = RunAll(RunAll(mem, <<Head(works)>>), Tail(works))
    BY <1>1, RunBoth
  <1>3. RunAll(mem, <<Head(works)>>) = Apply(mem, Head(works))
    BY <1>1, RunOne
  <1> QED BY <1>1, <1>2, <1>3

---------------------------------------------------------------------------
(* Refinement.  While copies keep their bytes, resolving the stream gives  *)
(* what the callers issued, and the view is the memory after that.         *)

Issued(w) == IF Staged(w) THEN Write(w.to, w.issued) ELSE w
IssuedAll(works) == [i \in DOMAIN works |-> Issued(works[i])]
View == RunAll(memory, IssuedAll(stream))

LEMMA IssuedPlain ==
  ASSUME NEW w \in Work
  PROVE  Issued(w) \in Plain
  <1>1. CASE Staged(w)
    <2>1. w.to \in Bufs /\ w.issued \in Values
      BY <1>1, StagedWork
    <2> QED BY <1>1, <2>1 DEF Issued, Write, Plain, Writes
  <1> QED BY <1>1, UnstagedWork DEF Issued

LEMMA IssuedAllPlain ==
  ASSUME NEW works \in Seq(Work)
  PROVE  /\ IssuedAll(works) \in Seq(Plain)
         /\ Len(IssuedAll(works)) = Len(works)
         /\ \A i \in 1..Len(works) : IssuedAll(works)[i] = Issued(works[i])
  <1>1. DOMAIN works = 1..Len(works) /\ Len(works) \in Nat /\ \A i \in 1..Len(works) : works[i] \in Work
    OBVIOUS
  <1>2. IssuedAll(works) = [i \in 1..Len(works) |-> Issued(works[i])]
    BY <1>1 DEF IssuedAll
  <1>3. \A i \in 1..Len(works) : Issued(works[i]) \in Plain
    BY <1>1, IssuedPlain
  <1> QED BY <1>1, <1>2, <1>3

LEMMA IssuedNothing == IssuedAll(<<>>) = <<>>
  <1>1. <<>> \in Seq(Work) /\ Len(<<>>) = 0
    OBVIOUS
  <1>2. IssuedAll(<<>>) \in Seq(Plain) /\ Len(IssuedAll(<<>>)) = 0
    BY <1>1, IssuedAllPlain
  <1> HIDE DEF IssuedAll
  <1> QED BY <1>2

LEMMA IssuedAppend ==
  ASSUME NEW works \in Seq(Work), NEW w \in Work
  PROVE  IssuedAll(Append(works, w)) = Append(IssuedAll(works), Issued(w))
  <1>1. Append(works, w) \in Seq(Work)
    OBVIOUS
  <1> DEFINE longer == Append(works, w)
  <1>2. /\ Len(longer) = Len(works) + 1 /\ Len(works) \in Nat
        /\ \A i \in 1..Len(works) : longer[i] = works[i]
        /\ longer[Len(works) + 1] = w
    OBVIOUS
  <1>3. /\ IssuedAll(works) \in Seq(Plain) /\ Len(IssuedAll(works)) = Len(works)
        /\ \A i \in 1..Len(works) : IssuedAll(works)[i] = Issued(works[i])
    BY IssuedAllPlain
  <1> HIDE DEF longer
  <1>4. /\ IssuedAll(longer) \in Seq(Plain) /\ Len(IssuedAll(longer)) = Len(works) + 1
        /\ \A i \in 1..(Len(works) + 1) : IssuedAll(longer)[i] = Issued(longer[i])
    BY <1>1, <1>2, IssuedAllPlain DEF longer
  <1>5. Issued(w) \in Plain
    BY IssuedPlain
  <1> DEFINE I == IssuedAll(works)
             J == IssuedAll(longer)
             v == Issued(w)
             n == Len(works)
  <1>6. /\ I \in Seq(Plain) /\ J \in Seq(Plain) /\ v \in Plain /\ n \in Nat
        /\ Len(I) = n /\ Len(J) = n + 1
        /\ (\A i \in 1..n : J[i] = I[i]) /\ J[n + 1] = v
    <2>1. (\A i \in 1..n : i \in 1..(n + 1)) /\ n + 1 \in 1..(n + 1)
      BY <1>2
    <2> QED BY <1>2, <1>3, <1>4, <1>5, <2>1
  <1> HIDE DEF I, J, v, n
  <1>7. J = Append(I, v)
    BY <1>6
  <1> QED BY <1>7 DEF I, J, v, longer

LEMMA IssuedTail ==
  ASSUME NEW works \in Seq(Work), works # <<>>
  PROVE  /\ IssuedAll(works) # <<>>
         /\ Head(IssuedAll(works)) = Issued(Head(works))
         /\ IssuedAll(Tail(works)) = Tail(IssuedAll(works))
  <1> DEFINE rest == Tail(works)
             n == Len(works)
  <1>1. /\ rest \in Seq(Work) /\ Len(rest) = n - 1 /\ n \in Nat /\ n >= 1
        /\ \A i \in 1..(n - 1) : rest[i] = works[i + 1]
        /\ Head(works) = works[1]
    OBVIOUS
  <1> HIDE DEF rest, n
  <1> DEFINE I == IssuedAll(works)
             J == IssuedAll(rest)
  <1>2. I \in Seq(Plain) /\ Len(I) = n /\ \A i \in 1..n : I[i] = Issued(works[i])
    BY IssuedAllPlain DEF n
  <1>3. J \in Seq(Plain) /\ Len(J) = n - 1 /\ \A i \in 1..(n - 1) : J[i] = Issued(rest[i])
    BY <1>1, IssuedAllPlain
  <1>4. \A i \in 1..(n - 1) : J[i] = I[i + 1]
    BY <1>1, <1>2, <1>3
  <1>5. I[1] = Issued(Head(works))
    BY <1>1, <1>2
  <1> HIDE DEF I, J
  <1>6. I # <<>> /\ Head(I) = I[1] /\ J = Tail(I)
    BY <1>1, <1>2, <1>3, <1>4
  <1> QED BY <1>5, <1>6 DEF I, J, rest

LEMMA Joined ==
  ASSUME NEW S, NEW a \in Seq(S), NEW b \in Seq(S)
  PROVE  /\ a \o b \in Seq(S) /\ Len(a \o b) = Len(a) + Len(b)
         /\ \A i \in 1..Len(a) : (a \o b)[i] = a[i]
         /\ \A i \in 1..(Len(a) + Len(b)) : i > Len(a) => (a \o b)[i] = b[i - Len(a)]
  OBVIOUS

LEMMA IssuedBoth ==
  ASSUME NEW first \in Seq(Work), NEW second \in Seq(Work)
  PROVE  IssuedAll(first \o second) = IssuedAll(first) \o IssuedAll(second)
  <1> DEFINE both == first \o second
             m == Len(first)
             n == Len(second)
  <1>1. /\ both \in Seq(Work) /\ Len(both) = m + n /\ m \in Nat /\ n \in Nat
        /\ \A i \in 1..m : both[i] = first[i]
        /\ \A i \in 1..(m + n) : i > m => both[i] = second[i - m]
    OBVIOUS
  <1> HIDE DEF both, m, n
  <1> DEFINE I == IssuedAll(first)
             J == IssuedAll(second)
             K == IssuedAll(both)
  <1>2. I \in Seq(Plain) /\ Len(I) = m /\ \A i \in 1..m : I[i] = Issued(first[i])
    BY IssuedAllPlain DEF m
  <1>3. J \in Seq(Plain) /\ Len(J) = n /\ \A i \in 1..n : J[i] = Issued(second[i])
    BY IssuedAllPlain DEF n
  <1>4. K \in Seq(Plain) /\ Len(K) = m + n /\ \A i \in 1..(m + n) : K[i] = Issued(both[i])
    BY <1>1, IssuedAllPlain
  <1>5. \A i \in 1..m : i \in 1..(m + n) /\ K[i] = I[i]
    BY <1>1, <1>2, <1>4
  <1>6. ASSUME NEW i \in 1..(m + n), i > m PROVE K[i] = J[i - m]
    <2>1. i - m \in 1..n
      BY <1>1, <1>6
    <2> QED BY <1>1, <1>3, <1>4, <1>6, <2>1
  <1> HIDE DEF I, J, K
  <1> DEFINE L == I \o J
  <1>7. /\ L \in Seq(Plain) /\ Len(L) = Len(I) + Len(J)
        /\ \A i \in 1..Len(I) : L[i] = I[i]
        /\ \A i \in 1..(Len(I) + Len(J)) : i > Len(I) => L[i] = J[i - Len(I)]
    BY <1>2, <1>3, Joined
  <1> HIDE DEF L
  <1>8. \A i \in 1..(m + n) : K[i] = L[i]
    <2>1. ASSUME NEW i \in 1..(m + n) PROVE K[i] = L[i]
      <3>1. CASE i <= m
        BY <1>1, <1>2, <1>3, <1>5, <1>7, <3>1
      <3>2. CASE i > m
        BY <1>1, <1>2, <1>3, <1>6, <1>7, <3>2
      <3> QED BY <1>1, <3>1, <3>2
    <2> QED BY <2>1
  <1>9. K = L
    BY <1>1, <1>2, <1>3, <1>4, <1>7, <1>8
  <1> QED BY <1>9 DEF I, J, K, L, both

LEMMA IssuedUnstaged ==
  ASSUME NEW works \in Seq(Work), \A i \in DOMAIN works : ~Staged(works[i])
  PROVE  works \in Seq(Plain) /\ IssuedAll(works) = works
  <1>1. works = [i \in DOMAIN works |-> works[i]]
    OBVIOUS
  <1>2. \A i \in DOMAIN works : Issued(works[i]) = works[i]
    BY DEF Issued
  <1>3. IssuedAll(works) = works
    BY <1>1, <1>2 DEF IssuedAll
  <1> QED BY <1>3, IssuedAllPlain

(* What the driver makes of queued and recorded work, in a state and in    *)
(* the next one.                                                           *)
LEMMA Resolved ==
  ASSUME AloneInv
  PROVE  /\ ResolveAll(stream) = IssuedAll(stream)
         /\ ResolveAll(recording) = recording /\ recording \in Seq(Plain)
         /\ ResolveAll(graph) = graph /\ graph \in Seq(Plain)
  <1>1. stream \in Seq(Work) /\ recording \in Seq(Work) /\ graph \in Seq(Work)
    BY DEF AloneInv, TypeOK
  <1>2. ASSUME NEW i \in DOMAIN stream PROVE Resolve(stream[i]) = Issued(stream[i])
    <2>1. CASE Staged(stream[i])
      <3>1. stream[i].staging \in Stagings
        BY <2>1, StreamStagings DEF AloneInv
      <3> QED BY <2>1, <3>1 DEF AloneInv, CopyInv, Copies, Resolve, Issued
    <2> QED BY <2>1 DEF Resolve, Issued
  <1>3. ResolveAll(stream) = IssuedAll(stream)
    BY <1>2 DEF ResolveAll, IssuedAll
  <1>4. \A works \in Seq(Work) :
           (\A i \in DOMAIN works : ~Staged(works[i]))
             => ResolveAll(works) = IssuedAll(works)
    BY DEF ResolveAll, IssuedAll, Resolve, Issued
  <1>5. /\ \A i \in DOMAIN recording : ~Staged(recording[i])
        /\ \A i \in DOMAIN graph : ~Staged(graph[i])
    BY DEF AloneInv, CopyInv, Copies
  <1>6. /\ IssuedAll(recording) = recording /\ recording \in Seq(Plain)
        /\ IssuedAll(graph) = graph /\ graph \in Seq(Plain)
    BY <1>1, <1>5, IssuedUnstaged
  <1> QED BY <1>1, <1>3, <1>4, <1>5, <1>6

LEMMA ResolvedNext ==
  AloneInv' => (/\ ResolveAll(stream) = IssuedAll(stream)
                /\ ResolveAll(recording) = recording
                /\ ResolveAll(graph) = graph)'
  BY Resolved, PTL

(* What a client can see a step do. *)
Issues(w) ==
  /\ IF streamCapturing
     THEN recording' = Append(recording, w) /\ View' = View
     ELSE View' = Apply(View, w) /\ recording' = recording
  /\ UNCHANGED <<result, streamCapturing, graph>>
Reads(t, b) ==
  /\ result' = [result EXCEPT ![t] = View[b]]
  /\ View' = View
  /\ UNCHANGED <<streamCapturing, recording, graph>>
Begins ==
  /\ ~streamCapturing /\ streamCapturing' = TRUE /\ recording' = <<>>
  /\ View' = View /\ UNCHANGED <<result, graph>>
Ends ==
  /\ streamCapturing /\ streamCapturing' = FALSE /\ recording' = <<>>
  /\ graph' \in {graph, recording}
  /\ View' = View /\ UNCHANGED result
Replays ==
  /\ ~streamCapturing
  /\ View' = RunAll(View, graph)
  /\ UNCHANGED <<result, streamCapturing, recording, graph>>
Hidden ==
  /\ View' = View
  /\ UNCHANGED <<result, streamCapturing, recording, graph>>

Visible ==
  \/ \E w \in Plain : Issues(w)
  \/ \E t \in Threads, b \in Bufs : Reads(t, b)
  \/ Begins \/ Ends \/ Replays \/ Hidden

LEMMA ViewTyped ==
  ASSUME AloneInv
  PROVE  /\ memory \in Memories /\ View \in Memories
         /\ stream \in Seq(Work) /\ IssuedAll(stream) \in Seq(Plain)
  <1>1. memory \in Memories /\ stream \in Seq(Work)
    BY DEF AloneInv, TypeOK, Memories
  <1> QED BY <1>1, IssuedAllPlain, RunAllTyped DEF View

LEMMA SameView ==
  ASSUME UNCHANGED <<memory, stream>>
  PROVE  View' = View
  BY DEF View

LEMMA EnqueueIssues ==
  ASSUME AloneInv, NEW w \in Work, ~Staged(w) \/ ~streamCapturing, Enqueue(w),
         UNCHANGED <<memory, result>>
  PROVE  Issued(w) \in Plain /\ Issues(Issued(w))
  <1>1. Issued(w) \in Plain
    BY IssuedPlain
  <1>2. CASE streamCapturing
    <2>1. Issued(w) = w
      BY <1>2 DEF Issued
    <2> QED BY <1>1, <1>2, <2>1, SameView DEF Enqueue, Issues
  <1>3. CASE ~streamCapturing
    <2>1. stream' = Append(stream, w) /\ UNCHANGED <<streamCapturing, recording, graph>>
      BY <1>3 DEF Enqueue, driverVars
    <2>2. IssuedAll(Append(stream, w)) = Append(IssuedAll(stream), Issued(w))
      BY ViewTyped, IssuedAppend
    <2>3. RunAll(memory, Append(IssuedAll(stream), Issued(w))) = Apply(View, Issued(w))
      BY <1>1, ViewTyped, RunLonger DEF View
    <2>4. View' = Apply(View, Issued(w))
      BY <2>1, <2>2, <2>3 DEF View
    <2> QED BY <1>1, <1>3, <2>1, <2>4 DEF Issues
  <1> QED BY <1>2, <1>3

(* The steps of a call that issue nothing. *)
LEMMA HiddenSteps ==
  ASSUME NEW t \in Threads,
         \/ \E b \in Bufs, v \in Values, n \in Lens : HtodReuse(t, b, v, n) \/ HtodPin(t, b, v, n)
         \/ (\E b \in Bufs : Dtoh(t, b)) \/ Synchronize(t)
         \/ (\E s \in Stagings : CuMemAllocHost(t, s)) \/ CuMemAllocHostFails(t)
         \/ CopyToPinned(t) \/ EnqueueCopyFails(t) \/ PushInflight(t)
         \/ Synchronized(t) \/ SynchronizeFails(t) \/ CopyBackFails(t)
         \/ LockInflight(t) \/ LockFree(t) \/ DrainInflight(t) \/ GraphLaunchFails(t)
  PROVE  Hidden
  <1>1. UNCHANGED <<memory, stream, result, streamCapturing, recording, graph>>
    BY DEF HtodReuse, HtodPin, Dtoh, Synchronize, CuMemAllocHost, CuMemAllocHostFails, CopyToPinned,
           EnqueueCopyFails, PushInflight, Synchronized, SynchronizeFails, CopyBackFails,
           LockInflight, LockFree, DrainInflight, GraphLaunchFails, deviceVars, driverVars
  <1> QED BY <1>1, SameView DEF Hidden

(* The calls that issue, and the step of htod that enqueues its copy. *)
LEMMA IssuingSteps ==
  ASSUME AloneInv, NEW t \in Threads,
         \/ \E b \in Bufs, v \in Values, n \in Lens : HtodLarge(t, b, v, n)
         \/ \E b \in Bufs, v \in Values : Upload(t, b, v)
         \/ \E a, b \in Bufs : LaunchAsync(t, a, b) \/ Launch(t, a, b)
         \/ EnqueueCopy(t)
  PROVE  \E w \in Plain : Issues(w)
  <1>1. PICK w \in Work : /\ ~Staged(w) \/ ~streamCapturing
                          /\ Enqueue(w) /\ UNCHANGED <<memory, result>>
    <2>1. CASE \/ \E b \in Bufs, v \in Values, n \in Lens : HtodLarge(t, b, v, n)
               \/ \E b \in Bufs, v \in Values : Upload(t, b, v)
      <3>1. PICK b \in Bufs, v \in Values : Enqueue(Write(b, v)) /\ UNCHANGED <<memory, result>>
        BY <2>1 DEF HtodLarge, Upload
      <3>2. Write(b, v) \in Work /\ ~Staged(Write(b, v))
        BY DEF Work, Writes, Write, Staged
      <3> QED BY <3>1, <3>2
    <2>2. CASE \E a, b \in Bufs : LaunchAsync(t, a, b) \/ Launch(t, a, b)
      <3>1. PICK a \in Bufs, b \in Bufs : Enqueue(Kernel(a, b)) /\ UNCHANGED <<memory, result>>
        BY <2>2 DEF LaunchAsync, Launch
      <3>2. Kernel(a, b) \in Work /\ ~Staged(Kernel(a, b))
        BY DEF Work, Kernels, Kernel, Staged
      <3> QED BY <3>1, <3>2
    <2>3. CASE EnqueueCopy(t)
      <3>1. hand[t] \in Stagings /\ ~streamCapturing
        BY <2>3 DEF EnqueueCopy, AloneInv, PlaceInv, CopyInv, Sequenced, CallOK, Carrying, StagingTyped
      <3>2. buf[t] \in Bufs /\ val[t] \in Values
        BY DEF AloneInv, TypeOK
      <3>3. Copy(buf[t], hand[t], val[t]) \in Work
        BY <3>1, <3>2, WorkKinds
      <3>4. Enqueue(Copy(buf[t], hand[t], val[t])) /\ UNCHANGED <<memory, result>>
        BY <2>3 DEF EnqueueCopy
      <3> QED BY <3>1, <3>3, <3>4
    <2> QED BY <2>1, <2>2, <2>3
  <1>2. Issued(w) \in Plain /\ Issues(Issued(w))
    BY <1>1, EnqueueIssues
  <1> QED BY <1>2

(* A read-back has drained the stream: it returns the view. *)
LEMMA CopyBackReads ==
  ASSUME AloneInv, NEW t \in Threads, CopyBack(t)
  PROVE  Reads(t, buf[t]) /\ buf[t] \in Bufs
  <1>1. stream = <<>>
    BY DEF CopyBack, AloneInv, CopyInv, Sequenced
  <1>2. View = memory
    BY <1>1, IssuedNothing, ViewTyped, RunNothing DEF View
  <1>3. /\ UNCHANGED <<memory, stream, streamCapturing, recording, graph>>
        /\ result' = [result EXCEPT ![t] = memory[buf[t]]]
    BY DEF CopyBack, deviceVars, driverVars
  <1>4. buf[t] \in Bufs
    BY DEF AloneInv, TypeOK
  <1> QED BY <1>2, <1>3, <1>4, SameView DEF Reads

LEMMA GraphLaunchReplays ==
  ASSUME AloneInv, NEW t \in Threads, GraphLaunch(t)
  PROVE  Replays
  <1>1. /\ stream' = stream \o graph /\ ~streamCapturing
        /\ UNCHANGED <<memory, result, streamCapturing, recording, graph>>
    BY DEF GraphLaunch, MayWait, driverVars
  <1>2. graph \in Seq(Work) /\ graph \in Seq(Plain) /\ IssuedAll(graph) = graph
    <2>1. graph \in Seq(Work) /\ \A i \in DOMAIN graph : ~Staged(graph[i])
      BY DEF AloneInv, TypeOK, CopyInv, Copies
    <2> QED BY <2>1, IssuedUnstaged
  <1>3. IssuedAll(stream \o graph) = IssuedAll(stream) \o graph
    BY <1>2, ViewTyped, IssuedBoth
  <1>4. RunAll(memory, IssuedAll(stream) \o graph) = RunAll(View, graph)
    BY <1>2, ViewTyped, RunBoth DEF View
  <1>5. View' = RunAll(View, graph)
    BY <1>1, <1>3, <1>4 DEF View
  <1> QED BY <1>1, <1>5 DEF Replays

(* The device runs what is due anyway: nobody can tell. *)
LEMMA ExecuteHidden ==
  ASSUME AloneInv, Execute
  PROVE  Hidden
  <1>1. /\ stream # <<>> /\ memory' = Effect(memory, Head(stream)) /\ stream' = Tail(stream)
        /\ UNCHANGED <<result, streamCapturing, recording, graph>>
    BY DEF Execute, driverVars
  <1>2. 1 \in DOMAIN stream /\ Head(stream) = stream[1] /\ stream \in Seq(Work)
    BY <1>1, ViewTyped, TailQueue
  <1>3. Resolve(Head(stream)) = Issued(Head(stream))
    <2>1. CASE Staged(stream[1])
      <3>1. stream[1].staging \in Stagings
        BY <1>2, <2>1, StreamStagings DEF AloneInv
      <3> QED BY <1>2, <2>1, <3>1 DEF AloneInv, CopyInv, Copies, Resolve, Issued
    <2> QED BY <1>2, <2>1 DEF Resolve, Issued
  <1>4. /\ IssuedAll(stream) # <<>> /\ Head(IssuedAll(stream)) = Issued(Head(stream))
        /\ IssuedAll(Tail(stream)) = Tail(IssuedAll(stream))
    BY <1>1, <1>2, IssuedTail
  <1>5. View = RunAll(Apply(memory, Head(IssuedAll(stream))), Tail(IssuedAll(stream)))
    BY <1>4, ViewTyped, RunTail DEF View
  <1>6. memory' = Apply(memory, Head(IssuedAll(stream)))
    BY <1>1, <1>3, <1>4 DEF Effect
  <1>7. View' = View
    BY <1>1, <1>4, <1>5, <1>6 DEF View
  <1> QED BY <1>1, <1>7 DEF Hidden

LEMMA StepVisible ==
  ASSUME AloneInv, [Next]_vars
  PROVE  Visible
  <1>1. ASSUME NEW t \in Threads, Step(t) \/ SynchronizeFails(t) PROVE Visible
    <2>1. CASE EnqueueCopy(t)
      BY <2>1, IssuingSteps DEF Visible
    <2>2. CASE CopyBack(t)
      BY <2>2, CopyBackReads DEF Visible
    <2>3. ASSUME ~EnqueueCopy(t), ~CopyBack(t) PROVE Hidden
      BY <1>1, <2>3, HiddenSteps DEF Step
    <2> QED BY <2>1, <2>2, <2>3 DEF Visible
  <1>2. ASSUME NEW t \in Threads, Call(t) PROVE Visible
    <2>1. CASE \/ \E b \in Bufs, v \in Values, n \in Lens :
                    HtodReuse(t, b, v, n) \/ HtodPin(t, b, v, n)
               \/ (\E b \in Bufs : Dtoh(t, b)) \/ Synchronize(t)
      BY <2>1, HiddenSteps DEF Visible
    <2>2. CASE \/ \E b \in Bufs, v \in Values, n \in Lens : HtodLarge(t, b, v, n)
               \/ \E b \in Bufs, v \in Values : Upload(t, b, v)
               \/ \E a, b \in Bufs : LaunchAsync(t, a, b) \/ Launch(t, a, b)
      BY <2>2, IssuingSteps DEF Visible
    <2>3. CASE CuStreamBeginCapture(t) \/ CuStreamEndCapture(t)
      BY <2>3, SameView
         DEF CuStreamBeginCapture, CuStreamEndCapture, deviceVars, Begins, Ends, Visible
    <2>4. CASE GraphLaunch(t)
      BY <2>4, GraphLaunchReplays DEF Visible
    <2> QED BY <1>2, <2>1, <2>2, <2>3, <2>4 DEF Call
  <1>3. CASE Execute
    BY <1>3, ExecuteHidden DEF Visible
  <1>4. CASE DropDevice \/ UNCHANGED vars
    <2>1. UNCHANGED <<memory, stream, result, streamCapturing, recording, graph>>
      BY <1>4 DEF DropDevice, vars, deviceVars, driverVars
    <2> QED BY <2>1, SameView DEF Hidden, Visible
  <1> QED BY <1>1, <1>2, <1>3, <1>4 DEF Next

LEMMA InitMemory == Init /\ AloneInv => Memory!MemoryInit
  <1> SUFFICES ASSUME Init, AloneInv PROVE Memory!MemoryInit
    OBVIOUS
  <1>1. stream = <<>> /\ streamCapturing = FALSE /\ recording = <<>> /\ graph = <<>>
    BY DEF Init
  <1>2. RunAll(memory, ResolveAll(stream)) = memory
    BY <1>1, Resolved, IssuedNothing, ViewTyped, RunNothing
  <1>3. memory \in [Bufs -> Values] /\ result \in [Threads -> Values]
    BY DEF AloneInv, TypeOK
  <1> QED BY <1>1, <1>2, <1>3, Resolved DEF Memory!MemoryInit

LEMMA StepRefines ==
  ASSUME AloneInv, AloneInv', [Next]_vars
  PROVE  [Memory!MemoryNext]_(Memory!memoryVars)
  <1>1. /\ RunAll(memory, ResolveAll(stream)) = View
        /\ ResolveAll(recording) = recording /\ ResolveAll(graph) = graph
    BY Resolved DEF View
  <1>2. /\ RunAll(memory', ResolveAll(stream)') = View'
        /\ ResolveAll(recording)' = recording' /\ ResolveAll(graph)' = graph'
    BY ResolvedNext DEF View
  <1>3. \A mem, w : Memory!Apply(mem, w) = Apply(mem, w)
    BY DEF Apply, Memory!Apply
  <1>4. \A mem, works : Memory!RunAll(mem, works) = RunAll(mem, works)
    BY <1>3 DEF RunAll, Memory!RunAll, Apply, Memory!Apply
  <1>5. CASE \E w \in Plain : Issues(w)
    BY <1>1, <1>2, <1>3, <1>5
       DEF Issues, Plain, Writes, Kernels, Memory!MemoryNext, Memory!Issue, Memory!Writes,
           Memory!Kernels
  <1>6. CASE \E t \in Threads, b \in Bufs : Reads(t, b)
    BY <1>1, <1>2, <1>6 DEF Reads, Memory!MemoryNext, Memory!Read
  <1>7. CASE Begins
    BY <1>1, <1>2, <1>7 DEF Begins, Memory!MemoryNext, Memory!StartCapture
  <1>8. CASE Ends
    BY <1>1, <1>2, <1>8 DEF Ends, Memory!MemoryNext, Memory!StopCapture
  <1>9. CASE Replays
    BY <1>1, <1>2, <1>4, <1>9 DEF Replays, Memory!MemoryNext, Memory!Replay
  <1>10. CASE Hidden
    BY <1>1, <1>2, <1>10 DEF Hidden, Memory!memoryVars
  <1> QED BY StepVisible, <1>5, <1>6, <1>7, <1>8, <1>9, <1>10 DEF Visible

(* A device used by one thread is the abstract memory: however far the     *)
(* stream lags behind, whichever pinned buffers its copies wait in and     *)
(* whatever is recorded and replayed, a read-back returns what running     *)
(* every call at once would have.                                          *)
THEOREM StreamImplementsMemory ==
  ASSUME OneThread
  PROVE  Spec => ImplementsMemory
  <1>1. Init => AloneInv
    BY InitType, InitPlace, InitCopy DEF AloneInv
  <1>2. AloneInv /\ [Next]_vars => AloneInv'
    BY StepType, StepPlace, StepCopies DEF AloneInv
  <1>3. Init => Memory!MemoryInit
    BY <1>1, InitMemory
  <1>4. AloneInv /\ AloneInv' /\ [Next]_vars => [Memory!MemoryNext]_(Memory!memoryVars)
    BY StepRefines
  <1> QED BY <1>1, <1>2, <1>3, <1>4, PTL DEF Spec, ImplementsMemory, Memory!MemorySpec

===========================================================================
