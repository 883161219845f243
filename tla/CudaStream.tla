---------------------------- MODULE CudaStream ----------------------------
(***************************************************************************)
(* The stream of CudaDevice (metaltile-runtime/src/device/cuda/mod.rs) and *)
(* the pinned host buffers that asynchronous host-to-device copies are     *)
(* staged in: htod, upload, launch, launch_async, dtoh/download,           *)
(* synchronize, reclaim_pinned, capture and replay of a graph, Drop.       *)
(*                                                                         *)
(* All device work rides one FIFO stream.  A copy reads its staging buffer *)
(* when the device executes it, not when it is enqueued; everything here   *)
(* turns on nobody reusing that buffer in between.  The driver and the     *)
(* device (Execute) are external.                                          *)
(***************************************************************************)
EXTENDS DeviceWork, Integers, FiniteSets

LOCAL INSTANCE SequencesExt

CONSTANTS
  Threads,       \* host threads sharing the device
  Recorders,     \* the threads that capture graphs
  Lens,          \* lengths of the copies
  Stagings,      \* pinned host buffers the driver can hand out (a bound)
  MaxQueue,      \* work waiting in the stream (a bound)
  MaxRecord,     \* work recorded into one graph (a bound)
  NoThread, NoStaging

ASSUME StreamAssumption ==
  /\ Recorders \subseteq Threads
  /\ Bufs # {} /\ Values # {}
  /\ Lens \subseteq Nat \ {0}
  /\ MaxQueue \in Nat /\ MaxRecord \in Nat
  /\ NoThread \notin Threads
  /\ NoStaging \notin Stagings

VARIABLES
  memory,          \* device: contents of each buffer
  stream,          \* device: work enqueued and not executed
  host,            \* contents of each pinned buffer
  pinned,          \* driver: length of each pinned buffer, 0 if not allocated
  streamCapturing, \* driver: enqueued work is recorded instead
  recording,       \* driver: the work recorded so far
  graph,           \* driver: the work of the last instantiated graph
  pinnedFree,      \* pinned_free: free-list per length
  pinnedInflight,  \* pinned_inflight
  freeLock,        \* holder of pinned_free's mutex across a step
  inflightLock,    \* holder of pinned_inflight's mutex across a step
  leakedPinned,    \* pinned buffers an error path let go of
  pc, buf, val, need, hand, \* per thread: next step, arguments, staging buffer
  wait,            \* per thread: work its cuStreamSynchronize still waits for
  result,          \* per thread: what its last read-back returned
  alive            \* the CudaDevice has not been dropped

deviceVars  == <<memory, stream, wait>>
driverVars  == <<streamCapturing, recording, graph>>
stagingVars == <<host, pinned, pinnedFree, pinnedInflight, freeLock,
                 inflightLock, leakedPinned>>
threadVars  == <<pc, buf, val, need, hand>>
vars == <<deviceVars, driverVars, stagingVars, threadVars, result, alive>>

PINNED_LIMIT == 262144  \* larger copies are not staged

AnyBuf == CHOOSE b \in Bufs : TRUE
AnyVal == CHOOSE v \in Values : TRUE

Idle(t) == alive /\ pc[t] = "idle"
Goto(t, l) == pc' = [pc EXCEPT ![t] = l]

(* Enter a call with its arguments, and leave it. *)
Enter(t, l, b, v, n, s) ==
  /\ Goto(t, l)
  /\ buf'  = [buf EXCEPT ![t] = b]
  /\ val'  = [val EXCEPT ![t] = v]
  /\ need' = [need EXCEPT ![t] = n]
  /\ hand' = [hand EXCEPT ![t] = s]

Return(t) == Enter(t, "idle", AnyBuf, AnyVal, 0, NoStaging)

Init ==
  /\ memory = [b \in Bufs |-> AnyVal]
  /\ stream = <<>>
  /\ host = [s \in Stagings |-> AnyVal]
  /\ pinned = [s \in Stagings |-> 0]
  /\ streamCapturing = FALSE
  /\ recording = <<>>
  /\ graph = <<>>
  /\ pinnedFree = [n \in Lens |-> <<>>]
  /\ pinnedInflight = <<>>
  /\ freeLock = NoThread
  /\ inflightLock = NoThread
  /\ leakedPinned = {}
  /\ pc = [t \in Threads |-> "idle"]
  /\ buf = [t \in Threads |-> AnyBuf]
  /\ val = [t \in Threads |-> AnyVal]
  /\ need = [t \in Threads |-> 0]
  /\ hand = [t \in Threads |-> NoStaging]
  /\ wait = [t \in Threads |-> 0]
  /\ result = [t \in Threads |-> AnyVal]
  /\ alive = TRUE

---------------------------------------------------------------------------
(* The stream (external).  Work is a direct write of bytes the driver has  *)
(* already taken from pageable memory, a copy from a pinned buffer (with,  *)
(* as history, the value the caller gave), or a kernel.                    *)

Write(b, v)      == [to |-> b, value |-> v]
Copy(b, s, v)    == [to |-> b, staging |-> s, issued |-> v]
Kernel(a, b)     == [to |-> b, from |-> a]

Staged(w) == "staging" \in DOMAIN w

(* The value a staged copy carries is the pinned buffer's at that moment.  *)
Resolve(w) == IF Staged(w) THEN Write(w.to, host[w.staging]) ELSE w
Effect(mem, w) == Apply(mem, Resolve(w))

Enqueue(w) ==
  IF streamCapturing
  THEN /\ Len(recording) < MaxRecord
       /\ recording' = Append(recording, w)
       /\ UNCHANGED <<stream, streamCapturing, graph>>
  ELSE /\ Len(stream) < MaxQueue
       /\ stream' = Append(stream, w)
       /\ UNCHANGED driverVars

(* The device executes the oldest work; every waiter is one nearer.        *)
Execute ==
  /\ stream # <<>>
  /\ memory' = Effect(memory, Head(stream))
  /\ stream' = Tail(stream)
  /\ wait' = [t \in Threads |-> IF wait[t] > 0 THEN wait[t] - 1 ELSE 0]
  /\ UNCHANGED <<driverVars, stagingVars, threadVars, result, alive>>

(* cuStreamSynchronize waits for the work enqueued so far (k more included *)
(* in this step); calling it inside a capture is excluded by contract.     *)
WaitFor(t, k) == wait' = [wait EXCEPT ![t] = Len(stream) + k]
MayWait == ~streamCapturing

---------------------------------------------------------------------------
(* htod *)

(* Beyond the limit the copy is from pageable memory: stream-ordered, and  *)
(* done with the caller's bytes on return.                                 *)
HtodLarge(t, b, v, n) ==
  /\ Idle(t) /\ MayWait
  /\ n > PINNED_LIMIT
  /\ Enqueue(Write(b, v))
  /\ UNCHANGED <<memory, wait, stagingVars, threadVars, result, alive>>

(* Up to it they are staged.  begin_capture asks its caller for an         *)
(* all-device sequence: no host copy is recorded.                          *)
MayStage(n) == n <= PINNED_LIMIT /\ ~streamCapturing

(* Seeded fault: the free-list is consulted without regard to length. *)
HtodReuse_AnyLength(t, b, v, n) ==
  /\ Idle(t) /\ MayStage(n)
  /\ freeLock = NoThread
  /\ \E m \in Lens :
       /\ pinnedFree[m] # <<>>
       /\ Enter(t, "memcpy", b, v, n, Last(pinnedFree[m]))
       /\ pinnedFree' = [pinnedFree EXCEPT ![m] = Front(@)]
  /\ UNCHANGED <<deviceVars, driverVars, host, pinned, pinnedInflight, freeLock,
                 inflightLock, leakedPinned, result, alive>>

(* A pinned buffer of this length is free: take it, unlock. *)
HtodReuse(t, b, v, n) ==
  /\ Idle(t) /\ MayStage(n)
  /\ freeLock = NoThread
  /\ pinnedFree[n] # <<>>
  /\ Enter(t, "memcpy", b, v, n, pinnedFree[n][Len(pinnedFree[n])])
  /\ pinnedFree' = [pinnedFree EXCEPT ![n] = SubSeq(@, 1, Len(@) - 1)]
  /\ UNCHANGED <<deviceVars, driverVars, host, pinned, pinnedInflight, freeLock,
                 inflightLock, leakedPinned, result, alive>>

(* None is: the guard is a temporary of the match, so the mutex stays held *)
(* while the driver pins a new one.                                        *)
HtodPin(t, b, v, n) ==
  /\ Idle(t) /\ MayStage(n)
  /\ freeLock = NoThread
  /\ pinnedFree[n] = <<>>
  /\ freeLock' = t
  /\ Enter(t, "cuMemAllocHost", b, v, n, NoStaging)
  /\ UNCHANGED <<deviceVars, driverVars, host, pinned, pinnedFree, pinnedInflight,
                 inflightLock, leakedPinned, result, alive>>

CuMemAllocHost(t, s) ==
  /\ pc[t] = "cuMemAllocHost"
  /\ pinned[s] = 0
  /\ pinned' = [pinned EXCEPT ![s] = need[t]]
  /\ freeLock' = NoThread
  /\ hand' = [hand EXCEPT ![t] = s]
  /\ Goto(t, "memcpy")
  /\ UNCHANGED <<deviceVars, driverVars, host, pinnedFree, pinnedInflight,
                 inflightLock, leakedPinned, buf, val, need, result, alive>>

(* Seeded fault: the driver's error is not returned. *)
CuMemAllocHostFails_Ignored(t) ==
  /\ pc[t] = "cuMemAllocHost"
  /\ freeLock' = NoThread
  /\ Goto(t, "memcpy")
  /\ UNCHANGED <<deviceVars, driverVars, host, pinned, pinnedFree, pinnedInflight,
                 inflightLock, leakedPinned, buf, val, need, hand, result, alive>>

CuMemAllocHostFails(t) ==
  /\ pc[t] = "cuMemAllocHost"
  /\ freeLock' = NoThread
  /\ Return(t)
  /\ UNCHANGED <<deviceVars, driverVars, host, pinned, pinnedFree, pinnedInflight,
                 inflightLock, leakedPinned, result, alive>>

(* The bytes go into the pinned buffer. *)
CopyToPinned(t) ==
  /\ pc[t] = "memcpy"
  /\ host' = [host EXCEPT ![hand[t]] = val[t]]
  /\ Goto(t, "enqueue")
  /\ UNCHANGED <<deviceVars, driverVars, pinned, pinnedFree, pinnedInflight,
                 freeLock, inflightLock, leakedPinned, buf, val, need, hand,
                 result, alive>>

EnqueueCopy(t) ==
  /\ pc[t] = "enqueue"
  /\ Enqueue(Copy(buf[t], hand[t], val[t]))
  /\ Goto(t, "inflight")
  /\ UNCHANGED <<memory, wait, stagingVars, buf, val, need, hand, result, alive>>

(* An error here leaves the pinned buffer in neither list. *)
EnqueueCopyFails(t) ==
  /\ pc[t] = "enqueue"
  /\ leakedPinned' = leakedPinned \cup {hand[t]}
  /\ Return(t)
  /\ UNCHANGED <<deviceVars, driverVars, host, pinned, pinnedFree, pinnedInflight,
                 freeLock, inflightLock, result, alive>>

(* Seeded fault: the buffer is free again as soon as the copy is enqueued. *)
PushInflight_FreesAtOnce(t) ==
  /\ pc[t] = "inflight"
  /\ freeLock = NoThread
  /\ pinnedFree' = [pinnedFree EXCEPT ![need[t]] = Append(@, hand[t])]
  /\ Return(t)
  /\ UNCHANGED <<deviceVars, driverVars, host, pinned, pinnedInflight, freeLock,
                 inflightLock, leakedPinned, result, alive>>

PushInflight(t) ==
  /\ pc[t] = "inflight"
  /\ inflightLock = NoThread
  /\ pinnedInflight' = Append(pinnedInflight, <<hand[t], need[t]>>)
  /\ Return(t)
  /\ UNCHANGED <<deviceVars, driverVars, host, pinned, pinnedFree, freeLock,
                 inflightLock, leakedPinned, result, alive>>

---------------------------------------------------------------------------
(* upload, launches, read-back, synchronize *)

(* upload: a pageable copy into a fresh buffer, then a wait; nothing is    *)
(* reclaimed.                                                              *)
Upload(t, b, v) ==
  /\ Idle(t) /\ MayWait
  /\ Enqueue(Write(b, v))
  /\ WaitFor(t, 1)
  /\ Enter(t, "upload", b, AnyVal, 0, NoStaging)
  /\ UNCHANGED <<memory, stagingVars, result, alive>>

(* Seeded fault: the launch is on the null stream, outside the capture. *)
LaunchAsync_NullStream(t, a, b) ==
  /\ Idle(t)
  /\ Len(stream) < MaxQueue
  /\ stream' = Append(stream, Kernel(a, b))
  /\ UNCHANGED <<memory, wait, driverVars, stagingVars, threadVars, result, alive>>

LaunchAsync(t, a, b) ==
  /\ Idle(t)
  /\ Enqueue(Kernel(a, b))
  /\ UNCHANGED <<memory, wait, stagingVars, threadVars, result, alive>>

(* launch: launch_async, then synchronize. *)
Launch(t, a, b) ==
  /\ Idle(t) /\ MayWait
  /\ Enqueue(Kernel(a, b))
  /\ WaitFor(t, 1)
  /\ Goto(t, "synchronize")
  /\ UNCHANGED <<memory, stagingVars, buf, val, need, hand, result, alive>>

Synchronize(t) ==
  /\ Idle(t) /\ MayWait
  /\ WaitFor(t, 0)
  /\ Goto(t, "synchronize")
  /\ UNCHANGED <<memory, stream, driverVars, stagingVars, buf, val, need, hand,
                 result, alive>>

(* Seeded fault: the read-back does not drain the stream first. *)
Dtoh_NoDrain(t, b) ==
  /\ Idle(t) /\ MayWait
  /\ WaitFor(t, -Len(stream))
  /\ Enter(t, "dtoh", b, AnyVal, 0, NoStaging)
  /\ UNCHANGED <<memory, stream, driverVars, stagingVars, result, alive>>

(* dtoh and download drain the stream first. *)
Dtoh(t, b) ==
  /\ Idle(t) /\ MayWait
  /\ WaitFor(t, 0)
  /\ Enter(t, "dtoh", b, AnyVal, 0, NoStaging)
  /\ UNCHANGED <<memory, stream, driverVars, stagingVars, result, alive>>

(* Seeded fault: the wait is for an idle stream, not for the work enqueued *)
(* before it.                                                              *)
Synchronized_WhenIdle(t) ==
  /\ pc[t] \in {"upload", "dtoh", "synchronize"}
  /\ stream = <<>>
  /\ IF pc[t] = "upload"
     THEN Return(t)
     ELSE /\ Goto(t, IF pc[t] = "dtoh" THEN "copyBack" ELSE "reclaim")
          /\ UNCHANGED <<buf, val, need, hand>>
  /\ UNCHANGED <<deviceVars, driverVars, stagingVars, result, alive>>

(* cuStreamSynchronize is back: upload returns, a read-back copies, a      *)
(* synchronize reclaims.                                                   *)
Synchronized(t) ==
  /\ pc[t] \in {"upload", "dtoh", "synchronize"}
  /\ wait[t] = 0
  /\ IF pc[t] = "upload"
     THEN Return(t)
     ELSE /\ Goto(t, IF pc[t] = "dtoh" THEN "copyBack" ELSE "reclaim")
          /\ UNCHANGED <<buf, val, need, hand>>
  /\ UNCHANGED <<deviceVars, driverVars, stagingVars, result, alive>>

SynchronizeFails(t) ==
  /\ pc[t] \in {"upload", "dtoh", "synchronize"}
  /\ wait' = [wait EXCEPT ![t] = 0]
  /\ Return(t)
  /\ UNCHANGED <<memory, stream, driverVars, stagingVars, result, alive>>

CopyBack(t) ==
  /\ pc[t] = "copyBack"
  /\ result' = [result EXCEPT ![t] = memory[buf[t]]]
  /\ Goto(t, "reclaim")
  /\ UNCHANGED <<deviceVars, driverVars, stagingVars, buf, val, need, hand, alive>>

CopyBackFails(t) ==
  /\ pc[t] = "copyBack"
  /\ Return(t)
  /\ UNCHANGED <<deviceVars, driverVars, stagingVars, result, alive>>

---------------------------------------------------------------------------
(* reclaim_pinned *)

LockInflight(t) ==
  /\ pc[t] = "reclaim"
  /\ inflightLock = NoThread
  /\ IF pinnedInflight = <<>>
     THEN Return(t) /\ UNCHANGED inflightLock
     ELSE /\ inflightLock' = t
          /\ Goto(t, "drain")
          /\ UNCHANGED <<buf, val, need, hand>>
  /\ UNCHANGED <<deviceVars, driverVars, host, pinned, pinnedFree, pinnedInflight,
                 freeLock, leakedPinned, result, alive>>

(* pinned_free is locked with pinned_inflight held. *)
LockFree(t) ==
  /\ pc[t] = "drain"
  /\ freeLock = NoThread
  /\ freeLock' = t
  /\ Goto(t, "draining")
  /\ UNCHANGED <<deviceVars, driverVars, host, pinned, pinnedFree, pinnedInflight,
                 inflightLock, leakedPinned, buf, val, need, hand, result, alive>>

(* Both guards go when the loop is through. *)
LeaveDrain(t) ==
  /\ freeLock' = NoThread
  /\ inflightLock' = NoThread
  /\ Return(t)

(* Seeded fault: only the oldest entry goes to the free-list. *)
DrainInflight_OnlyOldest(t) ==
  /\ pc[t] = "draining"
  /\ LET e == Head(pinnedInflight)
     IN pinnedFree' = [pinnedFree EXCEPT ![e[2]] = Append(@, e[1])]
  /\ pinnedInflight' = <<>>
  /\ LeaveDrain(t)
  /\ UNCHANGED <<deviceVars, driverVars, host, pinned, leakedPinned, result, alive>>

(* One turn of the loop: the oldest entry goes to the free-list of its     *)
(* length; after the last one the locks are released.                      *)
DrainInflight(t) ==
  /\ pc[t] = "draining"
  /\ LET e == Head(pinnedInflight)
     IN pinnedFree' = [pinnedFree EXCEPT ![e[2]] = Append(@, e[1])]
  /\ pinnedInflight' = Tail(pinnedInflight)
  /\ IF Len(pinnedInflight) = 1
     THEN LeaveDrain(t)
     ELSE UNCHANGED <<freeLock, inflightLock, threadVars>>
  /\ UNCHANGED <<deviceVars, driverVars, host, pinned, leakedPinned, result, alive>>

---------------------------------------------------------------------------
(* Capture and replay *)

CuStreamBeginCapture(t) ==
  /\ t \in Recorders
  /\ Idle(t)
  /\ ~streamCapturing
  /\ streamCapturing' = TRUE
  /\ recording' = <<>>
  /\ UNCHANGED <<graph, deviceVars, stagingVars, threadVars, result, alive>>

CuStreamEndCapture(t) ==
  /\ t \in Recorders
  /\ Idle(t)
  /\ streamCapturing
  /\ streamCapturing' = FALSE
  /\ graph' \in {graph, recording}
  /\ recording' = <<>>
  /\ UNCHANGED <<deviceVars, stagingVars, threadVars, result, alive>>

(* graph_launch, and the launches of graph_launch_batch, which waits only  *)
(* after the last; an error on the way returns at once.                    *)
GraphLaunch(t) ==
  /\ Idle(t) \/ pc[t] = "batch"
  /\ MayWait
  /\ graph # <<>>
  /\ Len(stream) + Len(graph) <= MaxQueue
  /\ stream' = stream \o graph
  /\ \/ Goto(t, "batch") /\ UNCHANGED wait
     \/ Goto(t, "synchronize") /\ WaitFor(t, Len(graph))
  /\ UNCHANGED <<memory, driverVars, stagingVars, buf, val, need, hand, result,
                 alive>>

GraphLaunchFails(t) ==
  /\ pc[t] = "batch"
  /\ Return(t)
  /\ UNCHANGED <<deviceVars, driverVars, stagingVars, result, alive>>

---------------------------------------------------------------------------

(* Drop waits for the stream, then unpins both lists. *)
DropDevice ==
  /\ \A t \in Threads : Idle(t)
  /\ stream = <<>>
  /\ alive' = FALSE
  /\ pinned' = [s \in Stagings |-> IF s \in leakedPinned THEN pinned[s] ELSE 0]
  /\ pinnedFree' = [n \in Lens |-> <<>>]
  /\ pinnedInflight' = <<>>
  /\ UNCHANGED <<deviceVars, driverVars, host, freeLock, inflightLock,
                 leakedPinned, threadVars, result>>

Step(t) ==
  \/ \E s \in Stagings : CuMemAllocHost(t, s)
  \/ CuMemAllocHostFails(t)
  \/ CopyToPinned(t)
  \/ EnqueueCopy(t)
  \/ EnqueueCopyFails(t)
  \/ PushInflight(t)
  \/ Synchronized(t)
  \/ CopyBack(t)
  \/ CopyBackFails(t)
  \/ LockInflight(t)
  \/ LockFree(t)
  \/ DrainInflight(t)
  \/ GraphLaunchFails(t)

Call(t) ==
  \/ \E b \in Bufs, v \in Values, n \in Lens :
       HtodLarge(t, b, v, n) \/ HtodReuse(t, b, v, n) \/ HtodPin(t, b, v, n)
  \/ \E b \in Bufs, v \in Values : Upload(t, b, v)
  \/ \E a, b \in Bufs : LaunchAsync(t, a, b) \/ Launch(t, a, b)
  \/ Synchronize(t)
  \/ \E b \in Bufs : Dtoh(t, b)
  \/ CuStreamBeginCapture(t)
  \/ CuStreamEndCapture(t)
  \/ GraphLaunch(t)

Next ==
  \/ \E t \in Threads : Step(t) \/ Call(t) \/ SynchronizeFails(t)
  \/ Execute
  \/ DropDevice

Spec == Init /\ [][Next]_vars

(* The device works off its stream, and a thread inside a call runs on     *)
(* until it must wait; that a wait fails is possible, never guaranteed.    *)
FairSpec == Spec /\ WF_vars(Execute) /\ \A t \in Threads : WF_vars(Step(t))

---------------------------------------------------------------------------
(* Properties *)

Work == Writes \cup Kernels \cup [to : Bufs, staging : Stagings, issued : Values]

TypeOK ==
  /\ memory \in [Bufs -> Values]
  /\ stream \in Seq(Work) /\ recording \in Seq(Work) /\ graph \in Seq(Work)
  /\ host \in [Stagings -> Values]
  /\ pinned \in [Stagings -> Lens \cup {0}]
  /\ streamCapturing \in BOOLEAN
  /\ pinnedFree \in [Lens -> Seq(Stagings)]
  /\ pinnedInflight \in Seq(Stagings \X Lens)
  /\ freeLock \in Threads \cup {NoThread}
  /\ inflightLock \in Threads \cup {NoThread}
  /\ leakedPinned \subseteq Stagings
  /\ pc \in [Threads -> {"idle", "cuMemAllocHost", "memcpy", "enqueue", "inflight",
                         "upload", "dtoh", "synchronize", "copyBack", "reclaim",
                         "drain", "draining", "batch"}]
  /\ buf \in [Threads -> Bufs]
  /\ val \in [Threads -> Values]
  /\ need \in [Threads -> Lens \cup {0}]
  /\ hand \in [Threads -> Stagings \cup {NoStaging}]
  /\ wait \in [Threads -> Nat]
  /\ result \in [Threads -> Values]
  /\ alive \in BOOLEAN

(* The places a pinned buffer can be. *)
Free(s)     == \E n \in Lens : \E i \in DOMAIN pinnedFree[n] : pinnedFree[n][i] = s
Inflight(s) == \E i \in DOMAIN pinnedInflight : pinnedInflight[i][1] = s
InHand(s)   == \E t \in Threads : hand[t] = s

FreeOnce ==
  \A m, n \in Lens : \A i \in DOMAIN pinnedFree[m], j \in DOMAIN pinnedFree[n] :
    pinnedFree[m][i] = pinnedFree[n][j] => m = n /\ i = j
InflightOnce ==
  \A i, j \in DOMAIN pinnedInflight : pinnedInflight[i][1] = pinnedInflight[j][1] => i = j
InHandOnce ==
  \A t, u \in Threads : hand[t] # NoStaging /\ hand[t] = hand[u] => t = u
OnePlace ==
  \A s \in Stagings :
    /\ ~(Free(s) /\ Inflight(s))
    /\ ~(InHand(s) /\ (Free(s) \/ Inflight(s)))
    /\ s \in leakedPinned => ~Free(s) /\ ~Inflight(s) /\ ~InHand(s)
Somewhere(s) == Free(s) \/ Inflight(s) \/ InHand(s) \/ s \in leakedPinned

(* Every pinned buffer is in exactly one place: no two uploads ever share  *)
(* a staging buffer, none is handed out that is not pinned, and none is    *)
(* lost except where an enqueue fails.                                     *)
OnePlaceEach ==
  /\ FreeOnce /\ InflightOnce /\ InHandOnce /\ OnePlace
  /\ \A s \in Stagings : pinned[s] > 0 <=> Somewhere(s)

(* The staging memcpy never runs past the pinned buffer: each one is filed *)
(* and carried under the length it was pinned with.                        *)
StagingFits ==
  /\ \A n \in Lens : \A i \in DOMAIN pinnedFree[n] : pinned[pinnedFree[n][i]] = n
  /\ \A i \in DOMAIN pinnedInflight : pinned[pinnedInflight[i][1]] = pinnedInflight[i][2]
  /\ \A t \in Threads : hand[t] # NoStaging => pinned[hand[t]] = need[t]

(* reclaim_pinned returns buffers "after a sync point (their copies have   *)
(* completed)": until the device has run a copy, the pinned buffer it      *)
(* reads holds the bytes its caller gave to htod.                          *)
CopiesCarryTheirBytes ==
  \A i \in DOMAIN stream :
    Staged(stream[i]) => host[stream[i].staging] = stream[i].issued

(* A thread that waits for the stream gets an answer, whatever the others  *)
(* enqueue meanwhile, and pinned_free's mutex, which htod holds across a   *)
(* driver call, is not held for good.  (A thread that waits for a mutex    *)
(* may starve: std's Mutex is not fair.)                                   *)
WaitsAndLocksEnd ==
  /\ \A t \in Threads :
       pc[t] \in {"upload", "dtoh", "synchronize"}
         ~> pc[t] \notin {"upload", "dtoh", "synchronize"}
  /\ freeLock # NoThread ~> freeLock = NoThread

(* The stream implements the abstract memory: what is still enqueued, run  *)
(* to the end, gives the view of a client for whom every call takes effect *)
(* at once, and a read-back returns that view.                             *)
ResolveAll(s) == [i \in DOMAIN s |-> Resolve(s[i])]
Memory == INSTANCE StreamMemory WITH
  view      <- RunAll(memory, ResolveAll(stream)),
  capturing <- streamCapturing,
  capture   <- ResolveAll(recording),
  graph     <- ResolveAll(graph)
ImplementsMemory == Memory!MemorySpec

===========================================================================
