----------------------------- MODULE VulkanExec -----------------------------
(* The calls of VulkanDevice (metaltile-runtime/src/device/vulkan/mod.rs) as  *)
(* scripts of driver calls, run by several threads that share one device:     *)
(* its exec_lock, its descriptor pool, its command pool and its queue.  A     *)
(* handle is counted by its kind; what a call still holds when it returns and *)
(* does not give to its caller is lost until the device is destroyed.         *)
EXTENDS Integers, Sequences, FiniteSets

CONSTANTS Thread,       \* the threads that share the device
          NoOne,        \* exec_lock is free
          MaxSets,      \* descriptor sets in the pool (1024 in the code)
          MaxDescs,     \* storage-buffer descriptors in the pool (16 per set)
          Widths,       \* how many buffers a pipeline may bind
          MaxItems,     \* bound: dispatches in one batch
          MaxFailures   \* bound: driver and argument errors in a behaviour

ASSUME NoOneIsNoThread == NoOne \notin Thread
ASSUME PoolHasRoom == MaxSets \in Nat \ {0} /\ MaxDescs \in Nat
ASSUME WidthsCount == Widths \subseteq Nat \ {0}
ASSUME BoundsCount == MaxItems \in Nat /\ MaxFailures \in Nat

VARIABLES lock,      \* who holds exec_lock
          call,      \* per thread: the operation, the position in its script (0: no
                     \* call), buffers per dispatch, dispatches, descriptor sets
                     \* still to allocate, whether no step has failed
          held,      \* per thread and kind: handles made by the running call
          resident,  \* whether the callers have a resident buffer
          pool,      \* sets and descriptors allocated from the descriptor pool
          busy,      \* threads whose submitted work may still run on the queue
          failures,  \* errors so far
          refused,   \* whether the pool has ever turned an allocation down
          waitFailed \* whether a vkQueueWaitIdle has ever failed

driver == <<held, resident, pool, busy>>
errors == <<failures, refused, waitFailed>>
vars == <<lock, call, driver, errors>>

PipeKinds == {"module", "set_layout", "layout", "pipe"}
BufKinds  == {"dst", "stg", "buf"}
Kinds == PipeKinds \union BufKinds \union {"cb", "query"}
Nothing == [k \in Kinds |-> 0]
EmptyPool == [sets |-> 0, descs |-> 0]

-----------------------------------------------------------------------------
\* The driver calls of each operation, in the order of the code.

\* "submit" stands for recording and submitting: both fail alike.
RunKernel == <<"lock", "module", "set_layout", "layout", "pipe", "upload", "push", "set",
               "cb", "submit", "wait", "free_cb", "read", "destroy", "reset", "free_bufs",
               "unlock">>
AllocDeviceLocal == <<"lock", "dst", "stg", "cb", "submit", "wait", "free_cb", "free_stg",
                      "unlock">>
\* Two resident buffers, each staged under the lock, and one timed dispatch.
\* Mutant: the lock taken first, the buffers staged under it.
BenchKernel_LockFirst ==
  <<"lock", "lock", "dst", "stg", "cb", "submit", "wait", "free_cb", "free_stg", "unlock",
    "keep", "query", "destroy", "unlock", "free_bufs">>
BenchKernel == <<"lock", "dst", "stg", "cb", "submit", "wait", "free_cb", "free_stg",
                 "unlock", "keep",
                 "lock", "dst", "stg", "cb", "submit", "wait", "free_cb", "free_stg",
                 "unlock", "keep",
                 "lock", "module", "set_layout", "layout", "pipe", "push", "set", "query",
                 "cb", "submit", "wait", "free_cb", "ticks", "destroy", "reset", "unlock",
                 "free_bufs">>
AllocRaw      == <<"buf">>
CompileKernel == <<"module", "set_layout", "layout", "pipe">>
\* Mutants: no reset; the lock taken after the command buffer.
RunBound_NoReset == <<"lock", "set", "cb", "submit", "wait", "free_cb", "unlock">>
RunBound_LateLock == <<"cb", "lock", "set", "submit", "wait", "free_cb", "reset", "unlock">>
RunBound == <<"lock", "set", "cb", "submit", "wait", "free_cb", "reset", "unlock">>
\* Mutant: the batch is torn down without a wait.
RunBatch_NoWait == <<"lock", "cb", "set", "submit", "free_cb", "reset", "unlock">>
RunBatch == <<"lock", "cb", "set", "submit", "wait", "free_cb", "reset", "unlock">>

\* The early returns on empty data and on a batch without items.
AllocEmpty == <<"lock", "dst", "unlock">>
EmptyBatch == <<"lock", "unlock">>

Script == [run |-> RunKernel, bench |-> BenchKernel, stage |-> AllocDeviceLocal,
           raw |-> AllocRaw, compile |-> CompileKernel, bound |-> RunBound,
           batch |-> RunBatch, stage_empty |-> AllocEmpty, batch_empty |-> EmptyBatch]
Ops == DOMAIN Script

NoCall == [op |-> "raw", pc |-> 0, width |-> 1, items |-> 1, left |-> 1, ok |-> TRUE]
Op(t) == call[t].op
\* The step thread t is at; "return" once its script is through.
At(t) == IF call[t].pc = 0 THEN "idle"
         ELSE IF call[t].pc > Len(Script[Op(t)]) THEN "return"
         ELSE Script[Op(t)][call[t].pc]

Makes == [s \in PipeKinds \union BufKinds \union {"cb", "query", "upload"} |->
            IF s = "upload" THEN "buf" ELSE s]
Frees == [free_cb |-> {"cb"}, free_stg |-> {"stg"}, destroy |-> PipeKinds \union {"query"},
          free_bufs |-> {"buf"}]
\* The steps that return an error when the driver or the arguments are at fault.
Fallible == DOMAIN Makes \union {"push", "set", "submit", "wait", "read", "ticks"}
\* The handles a finished call hands to its caller.
GivenBy(o) == CASE o \in {"stage", "stage_empty"} -> {"dst"} [] o = "raw" -> {"buf"} [] o = "compile" -> PipeKinds
              [] OTHER -> {}

\* In bench_kernel's closure an error falls through to the clean-up.
InBenchLoop(t) ==
  /\ Op(t) = "bench"
  /\ At(t) \in {"cb", "submit", "wait", "ticks"}
  /\ \E i \in 1..call[t].pc : Script.bench[i] = "query"
BenchCleanup == CHOOSE i \in 1..Len(Script.bench) : Script.bench[i] = "destroy"

\* Mutant: a failing pipeline layout forgets the set layout.
Unwound_Forgets == [module |-> {}, set_layout |-> {"module"}, layout |-> {"module"},
                    pipe |-> {"module", "set_layout", "layout"}]
\* What compile destroys when the creation of an object fails.
Unwound == [module |-> {}, set_layout |-> {"module"}, layout |-> {"module", "set_layout"},
            pipe |-> {"module", "set_layout", "layout"}]
\* What the error path of a step releases besides: run_kernel drops its
\* buffers, bench_kernel frees its own except after push constants and the
\* query pool.
Released(o, step) ==
  (IF step \in PipeKinds THEN Unwound[step] ELSE {})
  \union (IF o = "run" \/ (o = "bench" /\ step \notin {"push", "query"})
          THEN {"buf"} ELSE {})
\* The handles an error of the current step would lose until the device is
\* destroyed; "half" is a VkBuffer whose memory could not be had or bound.
WouldLose(t) ==
  ({k \in Kinds : held[t][k] > 0} \ Released(Op(t), At(t)))
  \union (IF At(t) \in BufKinds \union {"upload"} THEN {"half"} ELSE {})

\* Mutant: only the sets of the pool are counted.
Room_SetsOnly(w) == pool.sets < MaxSets
Room(w) == pool.sets < MaxSets /\ pool.descs + w <= MaxDescs
Without(f, S) == [k \in Kinds |-> IF k \in S THEN 0 ELSE f[k]]

Advance(t) == call' = [call EXCEPT ![t].pc = @ + 1]

-----------------------------------------------------------------------------
Init ==
  /\ lock = NoOne /\ call = [t \in Thread |-> NoCall]
  /\ held = [t \in Thread |-> Nothing] /\ resident = FALSE
  /\ pool = EmptyPool /\ busy = {}
  /\ failures = 0 /\ refused = FALSE /\ waitFailed = FALSE

\* A thread makes a call.  Resident dispatches need a resident buffer.
Call(t, o, w, n) ==
  /\ call[t].pc = 0
  /\ o \in {"bound", "batch"} => resident
  /\ o = "batch" \/ n = 1
  /\ o = "batch" \/ w = IF o = "bench" THEN 2 ELSE 1
  /\ call' = [call EXCEPT ![t] = [op |-> o, pc |-> 1, width |-> w, items |-> n,
                                 left |-> n, ok |-> TRUE]]
  /\ UNCHANGED <<lock, driver, errors>>

Lock(t) == /\ At(t) = "lock" /\ lock = NoOne
           /\ lock' = t /\ Advance(t) /\ UNCHANGED <<driver, errors>>

Unlock(t) == /\ At(t) = "unlock"
             /\ lock' = NoOne /\ Advance(t) /\ UNCHANGED <<driver, errors>>

\* vkCreate*, vkAllocate*: one more handle of the step's kind.
Make(t) ==
  /\ At(t) \in DOMAIN Makes
  /\ held' = [held EXCEPT ![t][Makes[At(t)]] = @ + 1]
  /\ Advance(t) /\ UNCHANGED <<lock, resident, pool, busy, errors>>

\* vkDestroy*, vkFree*, and the drops of Rust locals.
Free(t) ==
  /\ At(t) \in DOMAIN Frees
  /\ held' = [held EXCEPT ![t] = Without(@, Frees[At(t)])]
  /\ Advance(t) /\ UNCHANGED <<lock, resident, pool, busy, errors>>

\* bench_kernel keeps the device-local buffer the staging call returned.
Keep(t) ==
  /\ At(t) = "keep"
  /\ held' = [held EXCEPT ![t]["buf"] = @ + held[t]["dst"], ![t]["dst"] = 0]
  /\ Advance(t) /\ UNCHANGED <<lock, resident, pool, busy, errors>>

\* write_descriptor_set; a batch allocates one set for each of its items.
AllocSet(t) ==
  /\ At(t) = "set" /\ Room(call[t].width)
  /\ pool' = [sets |-> pool.sets + 1, descs |-> pool.descs + call[t].width]
  /\ call' = [call EXCEPT ![t] =
                [@ EXCEPT !.left = call[t].left - 1,
                          !.pc = IF call[t].left > 1 THEN call[t].pc ELSE call[t].pc + 1]]
  /\ UNCHANGED <<lock, held, resident, busy, errors>>

Submit(t) ==
  /\ At(t) = "submit"
  /\ busy' = busy \union {t}
  /\ Advance(t) /\ UNCHANGED <<lock, held, resident, pool, errors>>

\* vkQueueWaitIdle waits for everything on the queue.
Wait(t) ==
  /\ At(t) = "wait"
  /\ busy' = {}
  /\ Advance(t) /\ UNCHANGED <<lock, held, resident, pool, errors>>

\* vkResetDescriptorPool frees every set of the pool, whoever allocated it.
ResetPool(t) ==
  /\ At(t) = "reset"
  /\ pool' = EmptyPool
  /\ Advance(t) /\ UNCHANGED <<lock, held, resident, busy, errors>>

\* Steps that keep no handle: argument checks and read-backs.
Plain(t) ==
  /\ At(t) \in {"push", "read", "ticks"}
  /\ Advance(t) /\ UNCHANGED <<lock, driver, errors>>

\* Mutant: an explicit unlock in place of the guard.
Leave_KeepsLock(t) ==
  /\ call' = [call EXCEPT ![t] = NoCall]
  /\ held' = [held EXCEPT ![t] = Nothing]
  /\ UNCHANGED <<lock, pool, busy>>
\* The call is over: the guard and the locals go.
Leave(t) ==
  /\ call' = [call EXCEPT ![t] = NoCall]
  /\ lock' = IF lock = t THEN NoOne ELSE lock
  /\ held' = [held EXCEPT ![t] = Nothing]
  /\ UNCHANGED <<pool, busy>>

Return(t) ==
  /\ At(t) = "return" /\ Leave(t)
  /\ resident' = (resident \/ Op(t) \in {"stage", "stage_empty", "raw"})
  /\ UNCHANGED errors

\* An error of step At(t): `?` leaves the call; in bench_kernel's closure the
\* clean-up follows.
Fault(t) ==
  IF InBenchLoop(t)
  THEN /\ call' = [call EXCEPT ![t] = [@ EXCEPT !.pc = BenchCleanup, !.ok = FALSE]]
       /\ UNCHANGED <<lock, driver>>
  ELSE Leave(t) /\ UNCHANGED resident

Fail(t) ==
  /\ At(t) \in Fallible /\ failures < MaxFailures
  /\ failures' = failures + 1
  /\ waitFailed' = (waitFailed \/ At(t) = "wait")
  /\ Fault(t) /\ UNCHANGED refused

\* VK_ERROR_OUT_OF_POOL_MEMORY: no driver is at fault.
Refuse(t) ==
  /\ At(t) = "set" /\ ~Room(call[t].width)
  /\ refused' = TRUE
  /\ Fault(t) /\ UNCHANGED <<failures, waitFailed>>

\* free_raw of the callers' last buffer, none of them dispatching on it.
FreeRaw(t) ==
  /\ call[t].pc = 0 /\ resident
  /\ \A u \in Thread : Op(u) \notin {"bound", "batch"}
  /\ resident' = FALSE
  /\ UNCHANGED <<lock, call, held, pool, busy, errors>>

Step(t) == \/ Unlock(t) \/ Make(t) \/ Free(t) \/ Keep(t) \/ AllocSet(t) \/ Submit(t)
           \/ Wait(t) \/ ResetPool(t) \/ Plain(t) \/ Return(t) \/ Refuse(t)
Next == \E t \in Thread :
          \/ \E o \in Ops, w \in Widths \union {1, 2}, n \in 1..MaxItems : Call(t, o, w, n)
          \/ Lock(t) \/ Step(t) \/ Fail(t)  \/ FreeRaw(t)

Spec == Init /\ [][Next]_vars

-----------------------------------------------------------------------------
TypeOK ==
  /\ lock \in Thread \union {NoOne}
  /\ call \in [Thread -> [op : Ops, pc : Nat, width : Nat, items : Nat, left : Nat,
                          ok : BOOLEAN]]
  /\ held \in [Thread -> [Kinds -> Nat]]
  /\ resident \in BOOLEAN
  /\ pool \in [sets : 0..MaxSets, descs : 0..MaxDescs]
  /\ busy \subseteq Thread
  /\ failures \in 0..MaxFailures /\ refused \in BOOLEAN /\ waitFailed \in BOOLEAN

\* The queue, the command pool and the descriptor pool are externally
\* synchronized objects (mod.rs:183-186): no two threads are ever at calls on
\* them, although bench_kernel lets the lock go between its uploads.
Synchronized == {"set", "cb", "submit", "wait", "free_cb", "reset"}
PoolsSerialized ==
  \A t, u \in Thread : t # u /\ At(t) \in Synchronized => At(u) \notin Synchronized

\* Position i of operation o's script lies between a lock and its unlock.
InLock(o, i) ==
  \E j \in 1..i-1 : /\ Script[o][j] = "lock"
                    /\ \A k \in j+1..i-1 : Script[o][k] # "unlock"
\* The lock is held by the call that is inside its locked section and by no
\* other: no path, failing or not, leaves it locked behind it.
LockFollowsTheCall ==
  \A t \in Thread : lock = t <=> call[t].pc # 0 /\ InLock(Op(t), call[t].pc)

\* parking_lot's mutex is not reentrant: bench_kernel uploads before it takes
\* the lock (mod.rs:1039-1041), so no call waits for a lock it holds itself.
LockNotReentered == \A t \in Thread : At(t) = "lock" => lock # t

\* As long as nothing has gone wrong the pool is empty between the calls, and
\* the only allocation it turns down is one of a batch larger than the pool.
PoolDrained ==
  /\ lock = NoOne /\ failures = 0 /\ ~refused => pool = EmptyPool
  /\ \A t \in Thread :
       At(t) = "set" /\ ~Room(call[t].width) /\ failures = 0 /\ ~refused =>
         \/ call[t].items > MaxSets
         \/ call[t].items * call[t].width > MaxDescs

\* What calls leave behind.  One that returns Ok: only what it gives its
\* caller.  One that fails: compile unwinds all it made; run_kernel loses its
\* pipeline objects and command buffer (the KNOWN LIMIT at mod.rs:881) but no
\* buffer; a resident dispatch loses at most a command buffer; no error of a
\* bench's dispatches loses anything but the command buffer; a buffer that
\* cannot be had loses the VkBuffer made for it.
MayLose == [run |-> PipeKinds \union {"cb", "half"}, bound |-> {"cb"}, batch |-> {"cb"},
            stage |-> {"dst", "stg", "cb", "half"}, stage_empty |-> {"half"}, raw |-> {"half"}]
ErrorsLoseAtMost ==
  \A t \in Thread :
    /\ At(t) = "return" => \A k \in Kinds : held[t][k] > 0 =>
                             k \in GivenBy(Op(t)) \/ (k = "cb" /\ ~call[t].ok)
    /\ At(t) \in PipeKinds => WouldLose(t) = {}
    /\ At(t) \in Fallible /\ Op(t) \in DOMAIN MayLose => WouldLose(t) \subseteq MayLose[Op(t)]

\* While the wait for the queue does not fail, nothing a running submission
\* uses is destroyed, and the pool is not reset under it.
TeardownWaits ==
  [][~waitFailed' =>
       /\ \A t \in busy, k \in Kinds : held'[t][k] >= held[t][k]
       /\ pool'.sets < pool.sets => busy = {}]_vars
=============================================================================
