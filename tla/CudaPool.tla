----------------------------- MODULE CudaPool -----------------------------
(***************************************************************************)
(* The caching device allocator of CudaDevice                              *)
(* (metaltile-runtime/src/device/cuda/mod.rs): alloc_raw, free_raw,        *)
(* free_raw_pooled, the flag that graph capture shares with them, and      *)
(* Drop.  Any thread may call any operation; every mutex acquisition and   *)
(* every driver call is a step of its own, so that the threads interleave  *)
(* as the code lets them.  The driver (cuMemAlloc, cuMemFree, stream       *)
(* capture) is external and answers as its callers must expect, errors     *)
(* included.                                                               *)
(***************************************************************************)
EXTENDS SizeBucket, Integers, Sequences, FiniteSets, Functions

CONSTANTS
  Threads,      \* host threads sharing the device
  Capturers,    \* the threads that record CUDA graphs
  Ptrs,         \* device addresses the driver can hand out (bounds memory)
  Lens,         \* lengths the clients request
  PoolCap,      \* pool_cap_bytes()
  NoThread,     \* "unlocked"
  NoPtr         \* the null device pointer

ASSUME PoolAssumption ==
  /\ Capturers \subseteq Threads
  /\ Lens \subseteq 1..MaxLength
  /\ PoolCap \in Nat
  /\ NoThread \notin Threads
  /\ NoPtr \notin Ptrs

VARIABLES
  pool_enabled,    \* pool_enabled: METALTILE_POOL_ALLOC_OFF was not set
  pool,            \* pool: free-list (a stack) per key
  pooledBytes,     \* pooled_bytes
  poolLock,        \* the thread holding pool's mutex across a step
  bytesLock,       \* the thread holding pooled_bytes' mutex (the guard `parked`)
  capturing,       \* the atomic flag `capturing`
  size,            \* driver: bytes allocated at an address, 0 if none
  streamCapturing, \* driver: the stream is recording
  recorded,        \* driver: addresses the capture in progress has recorded
  orphaned,        \* recorded addresses whose client gave them up since
  graph,           \* the orphaned addresses of the last instantiated graph
  lease,           \* clients: requested length of each address they hold
  leaked,          \* addresses free_raw retained for a capture
  pc, hand, need,  \* per thread: next step, address in transit, its length
  alive            \* the CudaDevice has not been dropped

captureVars == <<capturing, streamCapturing, recorded, orphaned, graph, alive,
                 pool_enabled>>
unorphaned  == <<capturing, streamCapturing, recorded, graph, alive, pool_enabled>>
threadVars  == <<pc, hand, need>>
vars == <<pool, pooledBytes, poolLock, bytesLock, captureVars, size, lease,
          leaked, threadVars>>

---------------------------------------------------------------------------

(* The free-list a length belongs to: its bucket, or, with the pool off,   *)
(* the exact length. Keys are all that may be asked for.                   *)
Key(n) == IF pool_enabled THEN size_bucket(n) ELSE n
Keys == Lens \cup {size_bucket(n) : n \in Lens}

(* A call is entered only on a live device, by a thread not inside one. *)
Idle(t) == alive /\ pc[t] = "idle"
Goto(t, l) == pc' = [pc EXCEPT ![t] = l]
Carry(t, p, n) ==
  /\ hand' = [hand EXCEPT ![t] = p]
  /\ need' = [need EXCEPT ![t] = n]

Return(t) == Goto(t, "idle") /\ Carry(t, NoPtr, 0)

(* A guard still in scope when the function returns is dropped there. *)
DropGuards(t) == bytesLock' = IF bytesLock = t THEN NoThread ELSE bytesLock

Init ==
  /\ pool_enabled \in BOOLEAN
  /\ pool = [k \in Keys |-> <<>>]
  /\ pooledBytes = 0
  /\ poolLock = NoThread
  /\ bytesLock = NoThread
  /\ capturing = FALSE
  /\ size = [p \in Ptrs |-> 0]
  /\ streamCapturing = FALSE
  /\ recorded = {}
  /\ orphaned = {}
  /\ graph = {}
  /\ lease = [p \in Ptrs |-> 0]
  /\ leaked = {}
  /\ pc = [t \in Threads |-> "idle"]
  /\ hand = [t \in Threads |-> NoPtr]
  /\ need = [t \in Threads |-> 0]
  /\ alive = TRUE

---------------------------------------------------------------------------
(* alloc_raw *)

(* Seeded fault: the buffer is read off the list but not popped. *)
AllocRawHit_Peeks(t, n) ==
  LET list == pool[Key(n)]
      p    == list[Len(list)]
  IN /\ Idle(t)
     /\ poolLock = NoThread
     /\ list # <<>>
     /\ UNCHANGED pool
     /\ IF pool_enabled
        THEN /\ Goto(t, "debit")
             /\ Carry(t, p, n)
             /\ poolLock' = t
             /\ UNCHANGED lease
        ELSE /\ lease' = [lease EXCEPT ![p] = n]
             /\ UNCHANGED <<threadVars, poolLock>>
     /\ UNCHANGED <<pooledBytes, bytesLock, captureVars, size, leaked>>

(* The lookup under the pool's mutex finds a buffer.  With the pool on the *)
(* mutex stays held for the debit; with it off the buffer is one that was  *)
(* parked during a capture, and is returned at once.                       *)
AllocRawHit(t, n) ==
  LET list == pool[Key(n)]
      p    == list[Len(list)]
  IN /\ Idle(t)
     /\ poolLock = NoThread
     /\ list # <<>>
     /\ pool' = [pool EXCEPT ![Key(n)] = SubSeq(list, 1, Len(list) - 1)]
     /\ IF pool_enabled
        THEN /\ Goto(t, "debit")
             /\ Carry(t, p, n)
             /\ poolLock' = t
             /\ UNCHANGED lease
        ELSE /\ lease' = [lease EXCEPT ![p] = n]
             /\ UNCHANGED <<threadVars, poolLock>>
     /\ UNCHANGED <<pooledBytes, bytesLock, captureVars, size, leaked>>

(* Seeded fault: the requested length is debited, not its bucket. *)
DebitPooledBytes_Unrounded(t) ==
  /\ pc[t] = "debit"
  /\ bytesLock = NoThread
  /\ pooledBytes' = pooledBytes - need[t]
  /\ poolLock' = NoThread
  /\ lease' = [lease EXCEPT ![hand[t]] = need[t]]
  /\ Return(t)
  /\ UNCHANGED <<pool, bytesLock, captureVars, size, leaked>>

(* Seeded fault: the caller is told the bucket as its length. *)
DebitPooledBytes_LeasesBucket(t) ==
  /\ pc[t] = "debit"
  /\ bytesLock = NoThread
  /\ pooledBytes' = pooledBytes - Key(need[t])
  /\ poolLock' = NoThread
  /\ lease' = [lease EXCEPT ![hand[t]] = Key(need[t])]
  /\ Return(t)
  /\ UNCHANGED <<pool, bytesLock, captureVars, size, leaked>>

(* pooled_bytes -= bucket, then both guards go and the caller owns p. *)
DebitPooledBytes(t) ==
  /\ pc[t] = "debit"
  /\ bytesLock = NoThread
  /\ pooledBytes' = pooledBytes - Key(need[t])
  /\ poolLock' = NoThread
  /\ lease' = [lease EXCEPT ![hand[t]] = need[t]]
  /\ Return(t)
  /\ UNCHANGED <<pool, bytesLock, captureVars, size, leaked>>

(* The lookup finds nothing: the mutex is released before the driver call. *)
AllocRawMiss(t, n) ==
  /\ Idle(t)
  /\ poolLock = NoThread
  /\ pool[Key(n)] = <<>>
  /\ Goto(t, "cuMemAlloc")
  /\ Carry(t, NoPtr, n)
  /\ UNCHANGED <<pool, pooledBytes, poolLock, bytesLock, captureVars, size,
                 lease, leaked>>

(* Seeded fault: only the requested length is allocated for the bucket. *)
CuMemAlloc_Unrounded(t, p) ==
  /\ pc[t] = "cuMemAlloc"
  /\ size[p] = 0
  /\ size' = [size EXCEPT ![p] = need[t]]
  /\ lease' = [lease EXCEPT ![p] = need[t]]
  /\ Return(t)
  /\ UNCHANGED <<pool, pooledBytes, poolLock, bytesLock, captureVars, leaked>>

(* The driver maps the whole bucket at an address that is not in use. *)
CuMemAlloc(t, p) ==
  /\ pc[t] = "cuMemAlloc"
  /\ size[p] = 0
  /\ size' = [size EXCEPT ![p] = Key(need[t])]
  /\ lease' = [lease EXCEPT ![p] = need[t]]
  /\ Return(t)
  /\ UNCHANGED <<pool, pooledBytes, poolLock, bytesLock, captureVars, leaked>>

CuMemAllocFails(t) ==
  /\ pc[t] = "cuMemAlloc"
  /\ Return(t)
  /\ UNCHANGED <<pool, pooledBytes, poolLock, bytesLock, captureVars, size,
                 lease, leaked>>

---------------------------------------------------------------------------
(* free_raw and free_raw_pooled: the client gives p up, with the length it *)
(* asked for.                                                              *)

GiveUp(t, p) ==
  /\ Idle(t)
  /\ lease[p] > 0
  /\ lease' = [lease EXCEPT ![p] = 0]
  /\ orphaned' = IF streamCapturing /\ p \in recorded THEN orphaned \cup {p}
                                                   ELSE orphaned

FreeRaw(t, p) ==
  /\ GiveUp(t, p)
  /\ IF capturing
     THEN /\ leaked' = leaked \cup {p}
          /\ UNCHANGED threadVars
     ELSE /\ Goto(t, "cuMemFree")
          /\ Carry(t, p, lease[p])
          /\ UNCHANGED leaked
  /\ UNCHANGED <<pool, pooledBytes, poolLock, bytesLock, unorphaned, size>>

(* Seeded fault: the cap wins over a capture in progress. *)
ChargePooledBytes_IgnoresCapture(t, p) ==
  LET bucket == size_bucket(lease[p])
      over   == pooledBytes + bucket > PoolCap
  IN /\ pool_enabled
     /\ GiveUp(t, p)
     /\ bytesLock = NoThread
     /\ bytesLock' = t
     /\ Carry(t, p, lease[p])
     /\ Goto(t, IF over THEN "over" ELSE "charged")
     /\ pooledBytes' = IF over THEN pooledBytes ELSE pooledBytes + bucket
     /\ UNCHANGED <<pool, poolLock, unorphaned, size, leaked>>

(* Seeded fault: the cap is tested without the incoming buffer. *)
ChargePooledBytes_LateCap(t, p) ==
  LET bucket == size_bucket(lease[p])
      over   == pooledBytes > PoolCap /\ ~capturing
  IN /\ pool_enabled
     /\ GiveUp(t, p)
     /\ bytesLock = NoThread
     /\ bytesLock' = t
     /\ Carry(t, p, lease[p])
     /\ Goto(t, IF over THEN "over" ELSE "charged")
     /\ pooledBytes' = IF over THEN pooledBytes ELSE pooledBytes + bucket
     /\ UNCHANGED <<pool, poolLock, unorphaned, size, leaked>>

(* With pooled_bytes locked: park below the cap, or at any size during a   *)
(* capture; else release to the driver.                                    *)
ChargePooledBytes(t, p) ==
  LET bucket == size_bucket(lease[p])
      over   == pooledBytes + bucket > PoolCap /\ ~capturing
  IN /\ pool_enabled
     /\ GiveUp(t, p)
     /\ bytesLock = NoThread
     /\ bytesLock' = t
     /\ Carry(t, p, lease[p])
     /\ Goto(t, IF over THEN "over" ELSE "charged")
     /\ pooledBytes' = IF over THEN pooledBytes ELSE pooledBytes + bucket
     /\ UNCHANGED <<pool, poolLock, unorphaned, size, leaked>>

(* Seeded fault: the guard lives to the end of the function. *)
DropParked_Scoped(t) ==
  /\ pc[t] \in {"over", "charged"}
  /\ UNCHANGED bytesLock
  /\ Goto(t, IF pc[t] = "over" THEN "cuMemFree" ELSE "push")
  /\ UNCHANGED <<pool, pooledBytes, poolLock, captureVars, size, lease, leaked,
                 hand, need>>

(* Seeded fault: over the cap the buffer is neither parked nor released. *)
DropParked_Forgets(t) ==
  /\ pc[t] \in {"over", "charged"}
  /\ bytesLock' = NoThread
  /\ IF pc[t] = "over" THEN Return(t) ELSE Goto(t, "push") /\ UNCHANGED <<hand, need>>
  /\ UNCHANGED <<pool, pooledBytes, poolLock, captureVars, size, lease, leaked>>

(* drop(parked), on either branch. *)
DropParked(t) ==
  /\ pc[t] \in {"over", "charged"}
  /\ bytesLock' = NoThread
  /\ Goto(t, IF pc[t] = "over" THEN "cuMemFree" ELSE "push")
  /\ UNCHANGED <<pool, pooledBytes, poolLock, captureVars, size, lease, leaked,
                 hand, need>>

(* With the pool off only a capture parks. *)
FreeUnpooled(t, p) ==
  /\ ~pool_enabled
  /\ GiveUp(t, p)
  /\ Carry(t, p, lease[p])
  /\ Goto(t, IF capturing THEN "push" ELSE "cuMemFree")
  /\ UNCHANGED <<pool, pooledBytes, poolLock, bytesLock, unorphaned, size,
                 leaked>>

PushPool(t) ==
  /\ pc[t] = "push"
  /\ poolLock = NoThread
  /\ pool' = [pool EXCEPT ![Key(need[t])] = Append(@, hand[t])]
  /\ DropGuards(t)
  /\ Return(t)
  /\ UNCHANGED <<pooledBytes, poolLock, captureVars, size, lease, leaked>>

CuMemFree(t) ==
  /\ pc[t] = "cuMemFree"
  /\ size' = [size EXCEPT ![hand[t]] = 0]
  /\ DropGuards(t)
  /\ Return(t)
  /\ UNCHANGED <<pool, pooledBytes, poolLock, captureVars, lease, leaked>>

---------------------------------------------------------------------------
(* Graph capture, as far as it touches the allocator *)

heapState == <<pool, pooledBytes, poolLock, bytesLock, size, lease, leaked, alive,
               pool_enabled>>

(* begin_capture stores the flag before it asks the driver. *)
BeginCapture(t) ==
  /\ t \in Capturers
  /\ Idle(t)
  /\ capturing' = TRUE
  /\ Goto(t, "begin")
  /\ UNCHANGED <<heapState, streamCapturing, recorded, orphaned, graph, hand, need>>

CuStreamBeginCapture(t) ==
  /\ pc[t] = "begin"
  /\ ~streamCapturing
  /\ streamCapturing' = TRUE
  /\ recorded' = {}
  /\ orphaned' = {}
  /\ Goto(t, "idle")
  /\ UNCHANGED <<heapState, capturing, graph, hand, need>>

(* The driver refuses (it must when a capture is on): Err to the caller. *)
CuStreamBeginCaptureFails(t) ==
  /\ pc[t] = "begin"
  /\ Goto(t, "idle")
  /\ UNCHANGED <<heapState, captureVars, hand, need>>

(* A launch or copy on a buffer the client holds, while the stream records.*)
RecordLaunch(t, p) ==
  /\ Idle(t)
  /\ streamCapturing
  /\ lease[p] > 0
  /\ recorded' = recorded \cup {p}
  /\ UNCHANGED <<heapState, capturing, streamCapturing, orphaned, graph,
                 threadVars>>

(* end_capture: the driver ends the recording (successfully or not), and   *)
(* the flag is cleared afterwards in either case.                          *)
EndCapture(t) ==
  /\ t \in Capturers
  /\ Idle(t)
  /\ streamCapturing
  /\ streamCapturing' = FALSE
  /\ graph' \in {graph, orphaned}
  /\ recorded' = {}
  /\ orphaned' = {}
  /\ Goto(t, "ending")
  /\ UNCHANGED <<heapState, capturing, hand, need>>

ClearCapturing(t) ==
  /\ pc[t] = "ending"
  /\ capturing' = FALSE
  /\ Goto(t, "idle")
  /\ UNCHANGED <<heapState, streamCapturing, recorded, orphaned, graph, hand, need>>

---------------------------------------------------------------------------

(* Drop: nobody else can be inside a call (Drop has the only reference);   *)
(* the pool goes back to the driver and the stream is destroyed.           *)
DropDevice ==
  /\ alive
  /\ \A t \in Threads : Idle(t)
  /\ alive' = FALSE
  /\ size' = [p \in Ptrs |->
                IF \E k \in Keys : \E i \in DOMAIN pool[k] : pool[k][i] = p
                THEN 0 ELSE size[p]]
  /\ pool' = [k \in Keys |-> <<>>]
  /\ pooledBytes' = 0
  /\ streamCapturing' = FALSE
  /\ recorded' = {}
  /\ orphaned' = {}
  /\ UNCHANGED <<poolLock, bytesLock, capturing, graph, lease, leaked,
                 threadVars, pool_enabled>>

(* The steps of a call that has been entered. *)
Step(t) ==
  \/ DebitPooledBytes(t)
  \/ \E p \in Ptrs : CuMemAlloc(t, p)
  \/ CuMemAllocFails(t)
  \/ DropParked(t)
  \/ PushPool(t)
  \/ CuMemFree(t)
  \/ CuStreamBeginCapture(t)
  \/ CuStreamBeginCaptureFails(t)
  \/ ClearCapturing(t)

(* The calls a client may make. *)
Call(t) ==
  \/ \E n \in Lens : AllocRawHit(t, n) \/ AllocRawMiss(t, n)
  \/ \E p \in Ptrs : FreeRaw(t, p) \/ ChargePooledBytes(t, p) \/ FreeUnpooled(t, p)
  \/ BeginCapture(t)
  \/ EndCapture(t)
  \/ \E p \in Ptrs : RecordLaunch(t, p)

Next ==
  \/ \E t \in Threads : Step(t) \/ Call(t)
  \/ DropDevice

Spec == Init /\ [][Next]_vars

(* A thread inside a call is scheduled until it returns or must wait. *)
FairSpec == Spec /\ \A t \in Threads : WF_vars(Step(t))

---------------------------------------------------------------------------
(* Properties *)

PCs == {"idle", "debit", "cuMemAlloc", "over", "charged", "push", "cuMemFree",
        "begin", "ending"}

TypeOK ==
  /\ pool_enabled \in BOOLEAN
  /\ pool \in [Keys -> Seq(Ptrs)]
  /\ pooledBytes \in Int
  /\ poolLock \in Threads \cup {NoThread}
  /\ bytesLock \in Threads \cup {NoThread}
  /\ capturing \in BOOLEAN
  /\ size \in [Ptrs -> Nat]
  /\ streamCapturing \in BOOLEAN
  /\ recorded \subseteq Ptrs
  /\ orphaned \subseteq Ptrs
  /\ graph \subseteq Ptrs
  /\ lease \in [Ptrs -> Lens \cup {0}]
  /\ leaked \subseteq Ptrs
  /\ pc \in [Threads -> PCs]
  /\ hand \in [Threads -> Ptrs \cup {NoPtr}]
  /\ need \in [Threads -> Lens \cup {0}]
  /\ alive \in BOOLEAN

(* The thread carries an address that is neither parked nor leased. *)
InHand(t) == pc[t] \in {"debit", "over", "charged", "push", "cuMemFree"}

Parked(p) == \E k \in Keys : \E i \in DOMAIN pool[k] : pool[k][i] = p
Held(p)   == \E t \in Threads : InHand(t) /\ hand[t] = p
Leased(p) == lease[p] > 0

ParkedOnce ==
  \A j, k \in Keys : \A x \in DOMAIN pool[j], y \in DOMAIN pool[k] :
    pool[j][x] = pool[k][y] => j = k /\ x = y
CarriedOnce ==
  \A t, u \in Threads : InHand(t) /\ InHand(u) /\ hand[t] = hand[u] => t = u
OnePlace ==
  \A p \in Ptrs :
    /\ ~(Parked(p) /\ Held(p))
    /\ ~(Leased(p) /\ (Parked(p) \/ Held(p)))
    /\ p \in leaked => ~Parked(p) /\ ~Held(p) /\ ~Leased(p)

(* Every address the driver has mapped for the allocator is in one place:  *)
(* one slot of one free-list, one thread's hands, one client's lease, or   *)
(* the leak a capture forces; two threads never obtain the same buffer.    *)
SingleOwner == ParkedOnce /\ CarriedOnce /\ OnePlace

ParkedSized  == \A k \in Keys : \A x \in DOMAIN pool[k] : size[pool[k][x]] = k
CarriedSized == \A t \in Threads : InHand(t) => size[hand[t]] = Key(need[t])
LeasedSized  == \A p \in Ptrs : Leased(p) => size[p] = Key(lease[p])

(* "a buffer always returns to the bucket it came from": what is parked,   *)
(* carried or leased is mapped, with exactly the bytes of its free-list, so*)
(* no client writes past, or to unmapped, device memory.                   *)
BucketSized == ParkedSized /\ CarriedSized /\ LeasedSized

(* No mapped memory becomes unreachable, except what free_raw retains for  *)
(* a capture: the error paths and races of the allocator lose nothing.     *)
NoLostMemory ==
  \A p \in Ptrs : size[p] > 0 => Parked(p) \/ Held(p) \/ Leased(p) \/ p \in leaked

ParkedBytes == SumFunction([k \in Keys |-> k * Len(pool[k])])

(* A buffer counted in pooled_bytes while no free-list holds it: between   *)
(* the charge and the push of a free, the pop and the debit of an alloc.   *)
InTransit == {t \in Threads :
                pc[t] \in {"debit", "charged"} \/ (pool_enabled /\ pc[t] = "push")}
BytesInTransit == SumFunctionOnSet([t \in Threads |-> Key(need[t])], InTransit)

(* pooled_bytes is what it says, "sum of bucket_size x count", up to the   *)
(* buffers in transit, in every interleaving; so it never underflows and   *)
(* is exact whenever no call is in progress.                               *)
PooledBytesExact ==
  pooledBytes = IF pool_enabled THEN ParkedBytes + BytesInTransit ELSE 0

(* Without captures the memory really parked stays under the cap, although *)
(* the counter and the free-lists are guarded by different mutexes.        *)
ParkedWithinCap == ParkedBytes <= PoolCap

(* "NEVER cuMemFree while a CUDA graph is capturing: the graph records     *)
(* buffer pointers": an address the capture in progress has recorded stays *)
(* mapped, although is_capturing() is read before the cuMemFree it guards. *)
CapturePinsMemory ==
  [][streamCapturing /\ streamCapturing' =>
       \A p \in recorded : size'[p] = size[p]]_vars

(* Why the frees retain memory during a capture: "releasing one to the     *)
(* driver makes replay read freed memory".  A buffer that its client gave  *)
(* up during the capture is the allocator's to keep: it stays mapped as    *)
(* long as the instantiated graph can be replayed.                         *)
ReplayFindsMemoryMapped == alive => \A p \in graph : size[p] > 0

(* No interleaving blocks the pool's mutex for good: alloc_raw takes       *)
(* pooled_bytes inside pool, so a free must have let go of pooled_bytes    *)
(* before it asks for pool.                                                *)
CriticalSectionsEnd ==
  /\ poolLock # NoThread ~> poolLock = NoThread
  /\ bytesLock # NoThread ~> bytesLock = NoThread

(* The allocator implements the abstract heap: an address is granted only  *)
(* while unleased, with memory at least as long as the request, and leased *)
(* memory is never traded with the driver.                                 *)
Heap == INSTANCE DeviceHeap
ImplementsHeap == Heap!HeapSpec

===========================================================================
