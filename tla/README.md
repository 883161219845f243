# TLA+ models of metaltile

metaltile compiles GPU kernels written in a Rust DSL to Metal, CUDA, HIP and
Vulkan, and runs them. This directory holds TLA+ specifications, the TLC
configurations that check them, and TLAPS proofs about them, of two sides of it:

* where threads, an asynchronous device and recycled memory meet. The CUDA
  device (`crates/metaltile-runtime/src/device/cuda/mod.rs`, "mod.rs" below) is
  `Send + Sync`, caches device and pinned memory behind four mutexes, enqueues
  work it does not wait for, and records CUDA graphs that are replayed later.
  The Vulkan device (`device/vulkan/mod.rs`) shares one queue, command pool and
  descriptor pool behind one lock, with some forty fallible driver calls.
  The Metal dispatcher (`dispatch/`, `device/buffer_pool.rs`) recycles buffers by
  reference count and lets the passes of a chain hand them to each other.
* where programs are rewritten: the optimisation passes of `metaltile-codegen`,
  each checked against the meaning of the kernel it is given, on kernels lowered
  as the `#[kernel]` macro lowers them.

`PROJECT.json` maps each definition to the lines it models, and lists runs,
seeded faults, hazards, findings and theorems.

## Contents

1. The system
2. The modules
3. The runs and what they show
4. Bounds and fairness
5. What is proved
6. Disagreements between code and documentation
7. Not modelled, and why
8. Plan

## 1. The system

| Component | State | Operations | Talks to | Hard behaviour | What makes it correct |
|---|---|---|---|---|---|
| **CUDA caching allocator** (mod.rs 212-251, 1463-1611, 2154-2212) | free-lists per bucket, byte counter, capture flag | `alloc_raw`, `free_raw`, `free_raw_pooled`, `alloc`/drop, `begin_capture`, `end_capture`, `Drop` | driver; every other CUDA operation | two mutexes, check-then-act on an atomic, driver errors | one owner per buffer, right size, nothing lost, cap kept, captured memory stays mapped |
| **CUDA stream and pinned staging** (1478-1520, 1617-1687, 1705-1871, 2146-2151) | device stream, pinned free-lists, in-flight list, graphs | `htod`, `upload`, `launch`, `launch_async`, `synchronize`, `dtoh`, `download`, capture and replay | driver, device | copies read host memory after the call returned; lists drained by any thread | a copy carries its caller's bytes; read-backs see all earlier work |
| **CUDA dispatch** (1061-1295, 1884-2144) | buffers of a call | `run_kernel`, `bench_kernel`, `gemm_cublas_*` | allocator, stream, code generator, NVRTC, cuBLAS | buffers recycled while work on them is enqueued; `?` at every driver call | each enqueued work finds its own inputs; buffers return on every path |
| **Vulkan device** (`device/vulkan`) | `exec_lock`, descriptor pool, command buffers | `run_kernel`, `bench_kernel`, `alloc_device_local`, `run_pipeline_bound`, `run_pipeline_batch`, raw buffers, compilation | driver, GLSL compiler | one lock taken several times in a call, a finite descriptor pool, error returns between creation and reset | shared objects used by one thread at a time, the pool empty between calls, failures lose a bounded set of handles, nothing destroyed under running work |
| **HIP device** (`device/hip`) | none between calls | `run_kernel`, `bench_kernel` | driver | none: every step waits | - |
| **Metal device, buffer pool** (`device/buffer_pool.rs`, `buffer.rs`) | per-thread lists of `Rc` buffers | `acquire`, resident buffers | Metal | recycling by reference count, stale contents | a buffer in use is never handed out |
| **Metal dispatch** (`dispatch/`) | buffer plans, alias pool of a chain | `SingleDispatch`, `ChainDispatch`, validation | pool, caches | outputs of one pass are inputs of a later one | a chain computes what its passes would, one by one |
| **Pipeline and MSL caches** (`cache/`) | key to compiled pipeline | lookup, compile, insert | code generator, Metal | concurrent misses, key collisions | a hit is the kernel that was asked for |
| **Context** (`context.rs`) | caches and device | `dispatch*`, resident uploads | all Metal parts | - | geometry is legal |
| **Code generation passes** (`metaltile-codegen/src/passes`) | an IR kernel | 15 passes in a fixed order, most ending in a dead-value sweep | emitters | values shared between blocks, stores and barriers between accesses, ids made up by two passes | each pass preserves meaning |
| **Code emitters** (`msl`, `cuda`, `hip`, `spirv`) | - | IR to text | GPU compilers | - | - |
| **Core IR, DSL, macros** | - | types; lowering of a `#[kernel]` body to blocks of operations | passes, emitters | scoping of names, mutable locals | the kernel computes what its body says |
| **Runner and protocol** (`protocol.rs`, `runner/`, `project_runner.rs`) | a child process and a pipe | run tests or benches, stream JSON lines | CLI | child dies, skips items, writes garbage | the CLI ends and reports what ran |
| **CLI** (`metaltile-cli`) | baselines on disk | `bench`, `snap`, `diff`, `update`, ... | runner, git | - | - |
| **Kernel library** (`metaltile-std`) | - | about 160 000 lines of kernels | - | numeric | - |

How they interact: the CLI builds and spawns a runner, which owns one device
and calls `run_kernel`/`bench_kernel` for each registered kernel. These generate
code, compile it, allocate through the allocator, upload through the stream,
launch, read back and drop their buffers. An inference engine outside this
repository uses the lower layer directly and from several threads: `alloc_raw`,
`htod`, `launch_async`, `gemm_cublas_*`, capture and replay. Both share one
allocator and one stream per device, so what one thread does with a buffer
after it went back to the allocator concerns the next one.

## 2. The modules

```
   Powers ---> MetalChain (below)
       |
   SizeBucket        DeviceHeap            DeviceWork ---> StreamMemory
       |                 ^  refines            |              ^  refines
       +---> CudaPool ---+                 CudaStream --------+  (one thread)
                 :                        :
                 :..... CudaDispatch .....:
                 (uses the abstract heap and an ordered stream)

   PassSequence ---> MetalKernels <--- MetalChain
        ^  refines                          |
        +-----------------------------------+

   VulkanExec          KernelIR <-- DslLowering <--------- MCPassPipeline
   (stands alone)       ^    ^                                  |
                   Passes    KernelMeaning <-- PassMeaning <----+
                        ^                        |
                        +----- PassPipeline <----+
```

| Module | Models | State and actions, against the code |
|---|---|---|
| `Powers` | `usize::next_power_of_two` | By its definition, over the powers of two a word holds. Both the CUDA size classes and the Metal pool round with it. |
| `SizeBucket` | `size_bucket` | The function. |
| `SizeBucketWalk` | callers of `size_bucket` | `len`, the length asked for; `Request` asks for any length, `ExactFit` for the size of the bucket just given. |
| `DeviceHeap` | what clients of the allocator rely on | `lease`, `size`; `Grant`, `Release`, `Manage`. An address is granted only unleased, with room for the request, and leased memory is never remapped. |
| `CudaPool` | the allocator | `pool`, `pooledBytes`, `capturing` are the fields of those names; `poolLock`, `bytesLock` their mutexes where held across a step; `size`, `streamCapturing`, `recorded`, `graph` belong to the driver; `lease` is the clients'. |
| `DeviceWork` | copies and kernels (external) | What one piece of work does to device memory (`Apply`), and a sequence of it (`RunAll`). |
| `StreamMemory` | what clients of the stream rely on | Memory that changes, in issue order, as if each call took effect at once; captured work takes effect when replayed. |
| `CudaStream` | stream, staging, capture | `stream` holds enqueued work; a staged copy names a pinned buffer and reads it in `Execute`. `pinnedFree` and `pinnedInflight` are the fields; `host` and `pinned` are pinned memory. |
| `CudaDispatch` | kernels and pointer-array GEMMs | `memory` (payload and the slack behind it), `stream`, `held` (the allocator's leases), and per thread the call, its `bufs` (`dev_bufs`, or the pointer array) and what it waits for. |
| `VulkanExec` | the Vulkan device | One `Script` of driver calls per operation, in the order of the code; `call` is a thread's place in its script, `lock` is `exec_lock`, `held` counts handles by kind, `pool` is the descriptor pool, `busy` the threads with submitted work. |
| `MetalKernels` | parameters, binding slots, lengths | `planned_data_len`, `binding_slots` and the metadata rules of `buffer_plan.rs`; what a pass computes is an uninterpreted function of what it reads. |
| `PassSequence` | what `dispatch_chain` and `dispatch_with_*` promise | `Call`, `Return`: the results of the passes run one by one; `Upload`, `Drop` of resident bytes. |
| `MetalChain` | chain and single dispatch on Metal | `pool` (buffers per list; a buffer is a list and a place in it), `words` (contents of the buffers somebody refers to), `handle`, `alias` (`alias_pool`), `bound` (`per_spec_bufs` and `setBytes`), `barriers` and `done` for the command buffer. |
| `KernelIR` | blocks and operations | A kernel is a function from block ids to sequences of operations. `WellFormed`: operations of their variants, in static single assignment across all blocks, and every owned block owned once. |
| `KernelMeaning` | what a kernel computes | `Meaning` runs it as the emitted shader would, for each thread; a kernel whose shader would not compile has none (`Compiles`). |
| `DslLowering` | `DslBodyParser` of the macro | `Lower` takes a body (let, mutable local, assignment, store, barrier, `for`, `if`, expressions) to a kernel, ids and scopes as the parser hands them out. |
| `Passes` | ten passes and the dead-value sweep | One operator per pass, from a kernel to the kernel its `run` leaves; the operators below it carry the names of the pass's functions where it has them. |
| `PassPipeline` | `run_passes_with_stats` | `kernel`, `next`; one action per pass. |
| `PassMeaning` | what the passes do to what a kernel computes | The properties that relate the meaning before and after a pass. |

`SizeBucketProofs`, `CudaPoolProofs`, `CudaStreamProofs`, `CudaDispatchProofs`,
`VulkanExecProofs`, `MetalChainProofs` and `PassProofs` hold the theorems,
`SharedFacts` what they need of natural numbers, finite sets, sums and powers of two.
RECURSIVE operators are kept to `KernelMeaning` and `DslLowering`, which no module
with a theorem uses: the provers cannot reason above one, so the passes are written with
folds.
`MCSizeBucket`, `MCCudaPool`, `MCCudaStream`, `MCCudaDispatch`, `MCVulkanExec`,
`MCMetalChain` and `MCPassPipeline` instantiate the models.

**Granularity.** A step is one critical section or one driver call, whichever is
smaller, so every interleaving the mutexes allow is explored. `alloc_raw` that
hits, for instance, is two steps: `AllocRawHit` (pop, with the pool's mutex kept,
because the guard is a temporary of the `if let`) and `DebitPooledBytes` (which
needs the counter's mutex too). `free_raw_pooled` is three: `ChargePooledBytes`,
`DropParked` (the explicit `drop(parked)`, on either branch), then `PushPool` or
`CuMemFree`. `htod` that misses holds `pinned_free` across `cuMemAllocHost`,
because the guard of a `match` scrutinee lives to the end of the `match`.

`CudaPool` action, and the code it stands for:

| Action | Code |
|---|---|
| `AllocRawHit`, `DebitPooledBytes` | the free-list lookup that finds a buffer; `*pooled_bytes -= bucket` |
| `AllocRawMiss`, `CuMemAlloc`, `CuMemAllocFails` | the lookup that does not; the driver call and its `?` |
| `FreeRaw`, `CuMemFree` | `free_raw`: leak under a capture, else release |
| `ChargePooledBytes`, `DropParked`, `PushPool` | `free_raw_pooled`: cap test and charge, end of the guard, push |
| `FreeUnpooled` | the same with the pool disabled |
| `BeginCapture`, `CuStreamBeginCapture(Fails)` | the flag is stored, then the driver is asked |
| `EndCapture`, `ClearCapturing` | the driver ends the capture, then the flag is cleared |
| `DropDevice` | `Drop for CudaDevice` |

`CudaStream`:

| Action | Code |
|---|---|
| `HtodLarge` | `htod` over `PINNED_LIMIT` |
| `HtodReuse`, `HtodPin`, `CuMemAllocHost(Fails)`, `CopyToPinned`, `EnqueueCopy(Fails)`, `PushInflight` | `htod` through a pinned buffer |
| `Upload`, `LaunchAsync`, `Launch`, `Synchronize`, `Dtoh` | the calls, up to the point where they wait (`Dtoh` is `dtoh` and `download`) |
| `Synchronized`, `SynchronizeFails`, `CopyBack(Fails)` | the wait is over or failed; the copy on the null stream |
| `LockInflight`, `LockFree`, `DrainInflight` | `reclaim_pinned`: the two guards, then one turn of the loop at a time |
| `CuStreamBeginCapture`, `CuStreamEndCapture`, `GraphLaunch(Fails)` | capture, `graph_launch`, `graph_launch_batch` |
| `DropDevice` | `Drop for CudaDevice` |

`CudaDispatch`: `Enter`, then per parameter `Alloc`, `Memset`, `Copy`,
`Uploaded` (`upload_padded`); `Launch`, `Launched`, `Download` (`run_kernel`, or
`bench_kernel`, which launches again or stops); `GemmCopy`, `Gemm` for a GEMM
with a pointer array; `Fail` and `GemmCopyFails` for `?`; `DropBuffer` once per
buffer for the drops on every path.

`VulkanExec`: `Call`, then per step of the script `Lock`, `Unlock`, `Make` (a
`vkCreate*` or `vkAllocate*`), `Free` (its counterparts and the drops of Rust
locals), `AllocSet` (`write_descriptor_set`, once per item of a batch),
`Submit`, `Wait`, `ResetPool`, `Plain` (steps that keep no handle), `Keep` (a
staged buffer becomes `bench_kernel`'s), `Return`; `Fail` for `?` at any
fallible step (in `bench_kernel`'s closure it goes to the clean-up instead) and
`Refuse` for an exhausted descriptor pool. `FreeRaw` is the caller's.

`MetalChain`: `Upload` (`upload_resident`) and `DropResident`; `Call`, then `Plan`
(`build_binding_plans` and the pipelines), `EncodePass` per pass (the buffers of
all its parameters, the geometry check, the scalars, the barrier; commit after
the last), `Execute` (the GPU), `ReadResults`; `DeviceError` wherever `?` meets
the driver, with what was acquired by then back in the pool; `Accept` when the
caller has seen the outcome. A single dispatch takes the same steps with one
pass, and binds its scalars as buffers.

`PassPipeline`: `ConstFoldPass` to `VectorizePass`, in the order of
`PassRegistry::order`.

**Seeded faults.** A definition whose name has a suffix, such as
`ChargePooledBytes_LateCap`, is what a plausible slip in the code would turn the
definition of that name into. No specification uses it. `PROJECT.json` pairs
each with the property that refutes it; substituting it makes TLC report that
property violated, which shows that the property constrains the code.

## 3. The runs and what they show

| Run | Instance | Checks | Shows |
|---|---|---|---|
| `size_bucket` | any two lengths in a row, at and next to every boundary up to 2^29 | `BucketHoldsRequest`, `BucketIsFixedPoint`, `SlackUnderAQuarter`, `BucketsAreMonotone` | The bucket function does what both its users need, on both sides of every switch. |
| `pool` | 2 threads, 1 capturing, 3 addresses, lengths 300/512/600, cap 1024; with the pool and with `METALTILE_POOL_ALLOC_OFF` | `TypeOK`, `SingleOwner`, `BucketSized`, `NoLostMemory`, `PooledBytesExact`, `CapturePinsMemory`, `ImplementsHeap` | The allocator, captures and errors included. 300 and 512 share a bucket and two of them fill the cap. The device reads the setting when it is made (`Init` takes either, mod.rs:387); without the pool the lists only hold what a capture parked, by exact length. |
| `pool_live` | 3 threads, no captures, cap 1536 | `ParkedWithinCap`, `CriticalSectionsEnd` | Concurrent frees do not overrun the cap; the two mutexes never block each other for good. |
| `stream_one` | 1 thread, 1 pinned buffer, 2 buffers, both `htod` paths, graphs | `TypeOK`, `CopiesCarryTheirBytes`, `ImplementsMemory` | For one thread the asynchronous machinery is invisible. |
| `stream_two` | 2 threads, 2 pinned buffers, 2 lengths | `OnePlaceEach`, `StagingFits`, `WaitsAndLocksEnd` | What survives of the staging protocol with two threads, and that waits end. |
| `dispatch` | 2 threads, 2 buffers, 1 input and 1 output per kernel | `TypeOK`, `GemmsReadTheirPointers`, `TailsReadZeros`, `ResultsAreTheCalls`, `OnlyPointerArraysLeak` | Handing a buffer on while work on it is only enqueued is harmless, because all accesses ride one stream. |
| `vulkan` | 2 threads, 2 descriptor sets with 3 descriptors, batches of up to 3, 2 failures | `TypeOK`, `PoolsSerialized`, `LockFollowsTheCall`, `LockNotReentered`, `PoolDrained`, `ErrorsLoseAtMost`, `TeardownWaits` | Every path through every call, failing or not, keeps to the lock and tears down only what is idle; what a failure loses is bounded and named. |
| `metal_chain` | 144 calls: 10 single passes, pairs of 7 legal with 10 passes, triples of 4; one handle; buffers of one or two words | `TypeOK`, `WritesApart`, `ImplementsPasses` | Aliased and resident inputs, recycled buffers, binding slots, barriers and read-backs together give what the passes give one by one, whatever calls went before. |
| `passes` | 5512 kernels, 3 threads each | `TypeOK`, `ReuseKeepsMeaning`, `MotionKeepsMeaning`, `UnrollKeepsMeaning`, `VectorizeKeepsMeaning` | After each pass but `if_conversion` such a kernel computes what it did before; `algebraic_simplify` and `copy_prop` may leave one that does not compile. |
| `pass_faults` | eight kernels of the shapes `passes` leaves out | `ReshapingKeepsMeaning`, expected violated | TLC stops at the first; with `-continue` it reports a counterexample for each of the eight. See section 6. |
| `pool_replay`, `stream_race` | smallest that show it | one property each, expected violated | See section 6. |

Some properties in more detail:

* `CapturePinsMemory` (an action property): while a stream is recording,
  memory it has recorded stays mapped. `free_raw` reads the flag and frees
  without a lock in between, so this is not evident: it holds because a buffer
  must be held by a client to be recorded, and the client of a buffer about to
  be freed has given it up. It is checked with a single capturing thread;
  two threads capturing on one device share the flag.
* `PooledBytesExact`: the counter equals the bytes in the lists plus those
  of buffers between charge and push or between pop and debit. It follows that
  the `usize` subtraction never underflows.
* `GemmsReadTheirPointers` and `TailsReadZeros` look at each work in the
  stream at the memory it will be executed in (`MemoryAt`), so a state is bad as
  soon as a wrong order is enqueued.
* `ResultsAreTheCalls` is end to end: whatever another thread dispatches in
  the meantime, `run_kernel` returns what the kernel computes from this call's
  bytes.
* `ImplementsHeap` and `ImplementsMemory` are refinements. The mapping for
  the heap is the identity on `lease` and `size`; for the memory, `view` is the
  device's memory after everything enqueued has run.
* `LockFollowsTheCall`: `exec_lock` is held exactly by the call that is inside
  a locked section of its script. `bench_kernel` has three such sections, and
  errors leave from the middle of each.
* `ImplementsPasses` is a refinement to `PassSequence`. What that module promises
  is weaker than a loop over single dispatches in three places, each a choice of
  `ChainDispatch` that its operators name: an output which a later pass names as
  an input starts with unspecified contents (`Source`), is not returned
  (`Returned`), and an aliased or resident input that is shorter than its
  parameter is read past its end instead of refused (`Legal`). A result that
  depends on unspecified words is unspecified; all others must be exact.
* `WritesApart` is about the command buffer as a whole: the pool recycles what
  nobody but itself holds an `Rc` to, and a pass's buffers must be held until the
  wait, though encoding has moved on to later passes.
* `PoolDrained` says when the descriptor pool is empty: between calls, while
  nothing has failed. Then a dispatch is refused only for a batch larger than the pool.
* The `...KeepsMeaning` are action properties that compare the output
  buffer before and after a pass, thread by thread; a kernel that is already wrong
  when a pass gets it says nothing about that pass (`KeepsMeaning`). `UnrollKeepsMeaning` and
  `VectorizeKeepsMeaning` have no exceptions: they hold on the kernels of `passes`,
  and what they, and `if_conversion`, do to other kernels is for `pass_faults`
  (`ReshapingKeepsMeaning`). What `ReuseKeepsMeaning` grants `algebraic_simplify`
  and `copy_prop` is a shader that does not compile (`FailsLoudly`), where a use was left behind
  (`LeavesUse`), never a wrong one.

## 4. Bounds and fairness

The bounds are constants, each named and commented where it is declared.

* `Ptrs`, `Stagings`: how much memory the driver hands out. Two threads with
  three addresses allow a parked, a leased and a carried buffer at once, and
  contention for the last one. One pinned buffer in `stream_one` forces its
  reuse between any two staged copies; `stream_two` has one for each length.
* `Lens`, `PoolCap`: two lengths in one bucket and one in another, and a cap
  that two parked buffers reach, so every branch of the cap test is taken. In
  `CudaStream` one length on each side of `PINNED_LIMIT`, or two below it.
* `MaxQueue`, `MaxRecord`: work waiting in the stream, work in one graph.
  Enqueueing blocks at the bound, as on a full hardware queue. Two is the
  least at which order matters. `dispatch` also holds with `MaxQueue = 3`
  (3.2 million states) and with three buffers, where both threads hold some at
  every stage of a call (8.9 million); the configuration kept here is the one
  that finishes in half a minute. With its two buffers every kernel call needs
  what the other thread has just let go of, with work on it still enqueued.
* `Inputs = 1`: a kernel has one input and one output buffer. Parameters are
  uploaded by a loop of independent iterations.
* `MaxSets = 2`, `MaxDescs = 3`, `Widths = {1, 2}`, `MaxItems = 3`: the pool runs
  out of sets with three dispatches of width one and out of descriptors with two
  of width two, so a batch can exceed either limit. `MaxFailures = 2`: two calls
  fail, or one call twice (once in the bench loop).
* `metal_chain`: four kernels (a producer; a consumer through shape and strides;
  one with a scalar and a wider buffer; one that accumulates into its output) and
  three passes that are refused at different points: while planning, for missing
  metadata when buffers are already bound, for the grid. Names are shared, so
  that outputs shadow one another, an output is produced twice before it is
  read, and a resident buffer competes with an output. `Uploads = {1, 2}` makes a
  resident buffer that fits and one that is too short. The number of calls is not
  bounded: the pool stops growing once it holds what the largest call needs.
* The kernels of `passes`: a fixed prelude (thread id, a load, a mutable local,
  an alias) and a final store, with between them any three of 14 simple
  statements, or a loop or branch with one or two statements in it, or one next
  to a statement, or nested ones. The statements were chosen so that every
  rewriting rule of every pass applies to some, and every kind of obstacle
  (store, barrier, assignment, use in another block) can stand in its way.
  `UnrollFactor = 3` instead of 16: loops of two trips unroll, those whose bound
  is a parameter do not, and longer ones would only add copies. `MaxVecRun` and
  `VecScanWindow` are the code's. Buffers have four cells, indices wrap around;
  `Width = 4096` is far above the values that occur.
* They are `PlainSources`, which leave out the shapes of `pass_faults` and mutable
  locals declared in a loop (section 6): a
  step divides its loop's range; an unrolled body declares no mutable local and
  nests its arms one deep; a body that loads two neighbouring elements of the
  output buffer, or stores them, does nothing else to it and does not wait; no loop reads a load
  that is merged after it; runs of three do not occur. So `unroll` meets literal
  bounds, renamed arms and nested loops, and `vectorize` pairs to merge among
  assignments, branches and loops.
* `MaxRounds = 4`: `algebraic_simplify` and `copy_prop` rewrite a block until nothing
  changes; the model gives them this many rounds and lets further ones change nothing.
  With 3, 4 and 8 the reachable states are the same ones.
* `MaxLog2 = 30`: TLC's integers are 32 bits wide. The theorem about
  `size_bucket` holds for every `MaxLog2`, so for 63 too.

`CHECK_DEADLOCK FALSE` is set where the system may stop: the device is dropped,
all addresses the bound allows are taken, or the last pass has run.

Fairness is assumed only in the two runs with a liveness property:
`WF_vars(Step(t))`, that is, a thread inside a call is scheduled by the
operating system until it returns or has to wait, and in `CudaStream`
`WF_vars(Execute)`, a device works off its stream. No thread is obliged to make
a call, and no driver call is obliged to fail (`SynchronizeFails` is not in
`Step`; in the other calls success and failure are alternatives of which the
driver picks one). Strong fairness is not assumed: `std::sync::Mutex` does not
hand over in order, so a thread that waits for a mutex may starve while others
keep taking it. This is why `CriticalSectionsEnd` says that a lock is
released, and not that a thread gets it.

## 5. What is proved

The theorems about the allocator hold for every set of threads, addresses and
lengths, every cap, and with the pool on or off; those about the stream for every
set of threads, buffers, values, pinned buffers and lengths and every queue;
those about CUDA dispatch for every set of threads, buffers and arguments, every
number of inputs and every queue; those about Vulkan for every number of threads,
pool size, batch size and number of failures; those about Metal for every set of
kernels, requests, handles and lengths, and chains of any length; the one about the
passes for every set of well-formed kernels, of any size and depth, and every
`MaxRounds`, `UnrollFactor`, `MaxVecRun` and `VecScanWindow`.

| Theorem | States |
|---|---|
| `SizeBucketProofs!HoldsRequest` | `Spec => []BucketHoldsRequest` |
| `SizeBucketProofs!FixedPoint` | `Spec => []BucketIsFixedPoint` |
| `SizeBucketProofs!SmallSlack` | `Spec => []SlackUnderAQuarter` |
| `SizeBucketProofs!Monotone` | `Spec => BucketsAreMonotone` |
| `CudaPoolProofs!TypeCorrect` | `Spec => []TypeOK` |
| `CudaPoolProofs!Ownership` | `Spec => []SingleOwner` |
| `CudaPoolProofs!Sizing` | `Spec => []BucketSized` |
| `CudaPoolProofs!NothingLost` | `Spec => []NoLostMemory` |
| `CudaPoolProofs!PoolImplementsHeap` | `Spec => ImplementsHeap` |
| `CudaPoolProofs!CounterExact` | `Spec => []PooledBytesExact` |
| `CudaPoolProofs!CapHolds` | `Capturers = {}` implies `Spec => []ParkedWithinCap` |
| `CudaPoolProofs!CapturePinned` | `OneCapturer` implies `Spec => CapturePinsMemory` |
| `CudaStreamProofs!TypeCorrect` | `Spec => []TypeOK` |
| `CudaStreamProofs!StagingOwnership` | `Spec => []OnePlaceEach` |
| `CudaStreamProofs!StagingSized` | `Spec => []StagingFits` |
| `CudaStreamProofs!CopiesKeepTheirBytes` | `OneThread` implies `Spec => []CopiesCarryTheirBytes` |
| `CudaStreamProofs!StreamImplementsMemory` | `OneThread` implies `Spec => ImplementsMemory` |
| `VulkanExecProofs!LockFollows` | `Spec => []LockFollowsTheCall` |
| `VulkanExecProofs!Serialized` | `Spec => []PoolsSerialized` |
| `VulkanExecProofs!NotReentered` | `Spec => []LockNotReentered` |
| `VulkanExecProofs!WaitBeforeTeardown` | `Spec => TeardownWaits` |
| `VulkanExecProofs!PoolDrains` | `Spec => []PoolDrained` |
| `VulkanExecProofs!VulkanTypes` | `Spec => []TypeOK` |
| `VulkanExecProofs!LostAtMost` | `Spec => []ErrorsLoseAtMost` |
| `CudaDispatchProofs!TypeCorrect` | `Spec => []TypeOK` |
| `CudaDispatchProofs!NothingElseLeaks` | `Spec => []OnlyPointerArraysLeak` |
| `CudaDispatchProofs!PointersSurviveTheFree` | `Spec => []GemmsReadTheirPointers` |
| `CudaDispatchProofs!SlackIsZeroed` | `Spec => []TailsReadZeros` |
| `CudaDispatchProofs!ResultsAreOwn` | `Spec => []ResultsAreTheCalls` |
| `MetalChainProofs!ChainTypeCorrect` | `Spec => []TypeOK` |
| `MetalChainProofs!PassesWriteApart` | `Spec => []WritesApart` |
| `MetalChainProofs!ChainImplementsPasses` | `Spec => ImplementsPasses` |
| `PassProofs!PipelineTypes` | `Spec => []TypeOK` |
| `PassProofs!DefinitionsStay` | `Spec => NothingUndeclared` |

**Assumptions.** TLC evaluates all of them on the runs.

* `WordAssumption`: `MaxLog2` is a natural number. Powers of two are defined by
  doubling, because the provers have no rule for exponentiation.
  `LengthsAssumption`: lengths asked for are between 1 and 2^MaxLog2.
* `PoolAssumption`: the capturing threads are threads, lengths are in that range
  too, the cap is a natural number, and "no thread" and the null pointer are
  neither threads nor addresses. About the driver, the model assumes that
  `cuMemAlloc` returns an address it has not mapped. `StreamAssumption` and
  `DispatchAssumption` say the same kind of thing of the constants there.
* `CallAssumption` (Metal): the parameters of a kernel have different names, as
  the arguments of a Rust function do; lengths and the caller's shapes fit in a
  word; the resident inputs of a request are handles; a request has a pass, and its outputs a static length
  which the caller's bytes do not exceed.

* `MaxRoundsAssumption`: a number. `SourcesAssumption`: the kernels the pipeline is
  given are well-formed. The macro sees to it: it numbers values and blocks with
  counters that only go up (`alloc_vid`, `alloc_bid`, body.rs:125-135), a block is
  numbered before it is filled, so it gets a lower number than those inside it, and it is
  mentioned in the one operation it was made for. TLC evaluates the assumption on
  each of the 5512 kernels lowered for `passes`.

Four theorems hold under a discipline the code leaves to its callers, and say so.
`OneCapturer`: one thread records all graphs, while any number of others allocate
and free; two capturing threads share one flag. `OneThread`: one thread uses the
stream; `stream_race` is the counterexample for two. `Capturers = {}`: nobody
captures, for a capture parks what it frees whatever the cap.

The Vulkan theorems assume that "no one" is no thread (`NoOneIsNoThread`), and that
the pool's sizes, the widths and the bounds are natural numbers, with one set
and one binding at least (`PoolHasRoom`, `WidthsCount`, `BoundsCount`).

**Argument (size classes).** The powers of two are ordered and each is the
double of the one before (`PowerDoubles`), so a length above 1 MiB lies in the
upper half of the range up to its next power of two, which is eight steps wide
(`StepIsAnEighth`, and the step is never less than a block). Rounding up to a
multiple of a step is exact on multiples and adds less than a step
(`RoundUpToMultiples`); hence the bucket lies in the same half-open octave and
has the same step, which gives the fixed point and the slack
(`EveryBucketIsFixed`, `EverySlackIsSmall`). Between two octaves, buckets are ordered
because each stays below its own power (`BucketsGrow`).

**Argument (allocator).** None of the invariants is inductive alone. A pop is safe only if
what is parked is parked once and is not leased; a push only if what a thread
carries is nowhere else; and what a driver allocation returns is nowhere only
because everything that is somewhere is mapped, which takes the size invariant
and, for buffers `free_raw` retained, one more conjunct. The inductive
invariant is therefore

    IInv == TypeOK /\ CarriedTyped /\ SingleOwner /\ BucketSized
              /\ NoLostMemory /\ LeakedMapped

`CarriedTyped` says that a thread between two steps of a free or an alloc really
carries an address and a length; `LeakedMapped`, that a retained buffer is
mapped. `StepInv` proves `IInv /\ [Next]_vars => IInv'` action by action.
Transfers between places are lemmas of their own (`PopPool`, `PushPoolList`,
`Take`, `PutDown`, `LeaseToHand`), since a pop, a push or a release is the same
move whichever action makes it. `PlacesAreMapped` is the fact that a
fresh address is in no place. For the refinement, `StepHeap` maps
`DebitPooledBytes`, `CuMemAlloc` and, without a pool, `AllocRawHit` to `Grant`;
the three frees to `Release`; `CuMemFree` and `DropDevice` to `Manage`; and the
rest to stuttering.

**Argument (counter and cap).** `PooledBytesExact` adds up lists and buffers on
their way over sets of unknown size. `SharedFacts` proves what is needed of such a
sum: it is a natural number, it is zero over nothing, and it changes by the
difference at the one index where its summand does (`SumChanges`), by induction
over the finite sets. Induction is stated there with a *set* of numbers or sets
(`NatSetInduction`, `FiniteSetInduction`), which the provers can instantiate.
Each action moves one buffer from a list to a hand or back, at the moment the
counter moves or with the buffer counted as on its way (`TransitEnters`,
`TransitLeaves`, `OneListChanges`); only finitely many threads are on the way at a
time, however many there are, which is part of the invariant `CounterInv`. For
the cap, `CapInv` adds that the counter itself is within it when nobody captures;
with the exact counter, the lists are.

**Argument (capture).** The frees read the flag `capturing`, while what they must
not disturb is the driver's `streamCapturing` and the addresses it recorded.
`FlagFollows` relates the two: whenever the driver records, the flag is set,
which holds because `begin_capture` sets it first, `end_capture` clears it last,
and no second thread is between the two. `RecordedStays` adds that what is
recorded is mapped and in no free that decided before the flag was set: a buffer
recorded is one a client holds (`RecordStays`), and `SingleOwner`, from the
invariant above, keeps such a buffer out of every free in progress.

**Argument (stream).** A pinned buffer moves from a free-list to a hand, to the
in-flight list and back. `OnePlaceEach` and `StagingFits` are inductive together
with the types and with `CallOK`, which says at which steps a thread carries a
buffer and that the thread in `reclaim_pinned`'s loop holds the in-flight lock
over a list that is not empty. `PopFree`, `PushFree`, `PushInflightList`,
`TakeOldest`, `TakeInHand` and `PutDown` say what each move does to the places.
For the bytes, `Copies` says that a copy in the stream reads a buffer that is in
flight or about to be, with the caller's bytes in it, and that no graph holds a
staged copy; `Sequenced` says what is left in the stream where the thread is:
nothing from the end of a wait to the end of `reclaim_pinned`. It is this last
conjunct that a second thread breaks.

For the refinement, copies that carry their callers' bytes may be read as direct
writes of them (`Issued`, `Resolved`), so the view is what memory becomes when the
issued work is run (`View`). `RunAll` is a recursion over the work; that it
has a value is proved with `NatSetRecursion`, and its laws by induction over the
trajectory it is the end of: work behind other work starts from what that leaves
(`RunBoth`), from which follow those for one more piece at either end. `Visible`
lists what a client can see a step do. Enqueueing appends to the
view or to the recording (`EnqueueIssues`), a replay appends the graph
(`GraphLaunchReplays`), the device taking its oldest work changes nothing
(`ExecuteHidden`), and a read-back finds the stream empty, where view and memory
agree (`CopyBackReads`).

**Argument (dispatch).** What a call may rely on lies in the future: the memory at
the time the device gets to its work. The invariant therefore speaks of the
memory along the stream (`MemoryAfter`, a recursive function whose equations
are proved in `MemoryAfterDef`). `Prepared` says what the inputs of a call hold
once all that is enqueued has run; `OutputInPlace`, that the output holds the
result from the work the call waits for on; `Leases`, that the allocator's
leases are the buffers listed by the calls, each once, and those lost.
Work appended by one call changes only a buffer that call lists
(`MemoryAfterAppend`, `OneBufferWorks`), so those of others keep what they hold
(`GrowsApartFrom`, `BystanderOK`); work executed moves the point of view by one
(`MemoryAfterTail`). A buffer freed while work on it is still enqueued is no
exception: that work is before any work of its next owner, and has its own memory
(`WorksStep`). So no conjunct mentions who owns a buffer when the device gets to
it, which is why early recycling is harmless on one stream.

**Argument (Vulkan).** The lock is taken and released by position in a script,
so the scripts are looked at first: `WellLocked` says of one that it never locks
inside a locked section, and that it unlocks and touches the synchronized
objects only inside one; it is proved script by script (`AllWellLocked`).
`NextPosition` says how being inside a section changes from one position to the
next. The inductive invariant is `CallOK /\ LockFollowsTheCall`, where `CallOK`
keeps a call's position within its script. A normal step is `MoveKeeps`, an
error `LeaveKeeps`, or, in `bench_kernel`'s closure, a jump to the clean-up
inside the same section (`BenchLoopLocked`). Serialization and absence of
self-deadlock follow from the invariant and `AllWellLocked` alone.

For the teardown, `BusyWaits` is added: until a wait has failed, a call whose work is
on the queue stands at its wait. It is kept because every script waits right
after it submits (`SubmitThenWait`), a waiting call goes on by that wait only
(`WaitingStays`), and steps of others move neither it nor its handles
(`OthersStay`, `HeldKeeps`). Only a reset shrinks the pool (`PoolKeeps`), and it
would be a second call at the synchronized objects.

For the descriptor pool, `PoolCounts` says what is in it as long as nothing went
wrong: nothing while the lock is free, and otherwise what its holder has taken
(`Taken`): one set for each dispatch granted so far, all of them from its last
grant to its reset. `WellPooled` is what this asks of a script. A generic step
leaves the count alone (`PassingOn`, `AdvancePool`), a grant adds one
(`GrantPool`), a reset clears it (`ResetGives`), and an error voids the claim
(`FaultPool`).

For what errors lose, `HoldsOnly` says that a call holds no more than its script
has made and not freed before its position (`MayHold`); `WellKept` asks of each
script that its end leaves what the call gives away, that a failing step of
pipeline creation leaves only what is unwound, and that any other holds no more
than the operation makes. The one exception is `Strays`: an error in
`bench_kernel`'s loop skips the release of a command buffer. The types need `Bounded`,
which rests on the invariant of the pool: a call is granted no more sets than it has
dispatches.

**Argument (Metal).** `WritesApart` speaks of all passes of the command buffer,
while buffers are taken one parameter at a time, so the invariant is kept along
the recursion of `allocate_pass_buffers` (`ParamKeeps`, `AllocateKeeps`).
`AcquireFresh`: what the pool hands out nobody refers to, and it is listed where
its length says. `Apart` is what a partly bound pass owes the others: its outputs are bound
once and are no client's and no earlier pass's (`OutputsFresh`); what it shares with
an earlier output it asked for by name (`InputsNamed`); and an alias stands for
outputs of its own name only (`AliasesNamed`). A fresh buffer, a new alias and a bound
input keep it (`FreshKeeps`, `AliasKeeps`, `InputKeeps`), given that slots ascend,
so two parameters never share one (`SlotsAscend`). The inductive invariant is

    ChainInv == Recorded /\ Progress /\ WritesApart /\ AliasesNamed(alias)

where `Recorded` has the references and `Progress` ties the bindings to the phase.
A call that is given up half-way leaves the pool larger and nothing else (`GivenUp`).

`ImplementsPasses` needs what is *in* the buffers, which is `CallInv`. In pass `i` a
name stands for a client's buffer, for the output of that name that was bound last
(`Latest`), or for the caller's bytes if there is none (`Unproduced`). `Served`
says that a parameter is bound to the buffer its name stands for (`Placed`), with its
shape and strides behind it (`Described`) and the caller's bytes in it if those are
meant (`Provided`); `Blank`, that an output holds nothing else yet; `Following`,
that the alias pool knows the latest output of every name a pass from here on asks
for. One turn of the loop keeps them (`DataServes`, `ParamFills`), so does the loop
(`AllocateFills`), and a pass that is encoded disturbs none before it (`ExtendsState`,
`EncodeCall`).

Then the GPU runs. `InOrder`: with a barrier behind every pass but the last, passes run
in their order. `Undisturbed`: by `WritesApart`, no pass writes what is bound to
another, unless that one asked for it by name. So a pass that runs finds in its
buffers what it was promised (`SourceFits`, `ArgumentKeeps`, `ScalarKeeps`), and as
`Computed` is a function of what was read, it leaves what was promised (`PassKeeps`,
`ExecuteCall`). "What was promised" is either unspecified or exactly the value found
(`Keeping`): that is how the three liberties of `PassSequence` enter. What the passes
promise one by one, a recursive function in `Sequence`, satisfies its own recursion for
every request (`SequenceUnfolds`), which is all the proof needs of it. At the end
`ResultKeeps` reads the outputs back, and `StepSequence` maps every step: `Upload`,
`DropResident`, `Call` and `Accept` to theirs, `ReadResults`, a refusal and a driver's
error to `Return`, all others to a stutter.

**Argument (passes).** `ir/mod.rs:4` promises that "every value is produced once, by
one operation", and the emitter relies on it: it turns a value into a variable. Ten
passes must keep it, and two of them make up ids. The proof speaks of *claims*:
an operation claims the value it defines and the blocks it owns (`Claims`). `KInv` says
that operations are those of their variants, that nothing is claimed twice, within a
block or in two, and that a block only owns later blocks of the kernel; it is
equivalent to `WellFormed` (`WellFormedClaims`), but a statement about sets,
which one can follow through a rewriting. `TypeOK` is then inductive; each action is
one lemma about its pass.

Passes are folds, and a fold keeps what each of its turns keeps. The provers cannot be
given that for an arbitrary operator, so `Turn` lists the turns of the fifteen folds in the
passes and `Holds` what is to hold of the running value after so many of them;
that the function behind `FoldLeft` exists (`FoldExists`), goes through its turns in order
(`FoldGoes`) and ends in what they keep (`FoldKeeps`) is then proved once, by
induction on the number of turns. Most turns replace a block by one that claims no more:
the sweep drops operations, `const_fold`, `algebraic_simplify` and
`copy_prop` rewrite them in place, `value_sink` moves each to at most one place
(`UsesOnce` is what rules out a second) and `fusion` gives a chain the claim of its
last member. `licm` and `if_conversion` move claims from one block to another, so two
blocks change at once and the proof is about their union. `vectorize` claims ids
from `NextVid` on, twice the length of the block apart, so the vector loads and the extracts
meet neither each other nor anything else. `unroll` is the hard one: its copies claim
values moved up by `vs` and blocks moved up by `bs`, while the loop's own body goes away
and copies of copies are made. Its invariant says that there is room: every value in
use lies below `vs` and every block below `bs` (`Room`), so what is moved up is new; and
both double with each iteration, so room remains (`CloneIterationKeeps`). What the loop claimed is dropped with
it, after its last copy.

`DefinitionsStay` is about the other thing an emitter cannot do without: that a name it
uses is declared. Five passes of the ten, `const_fold`, `cse`, `licm`, `value_sink` and
`fusion`, never take a definition away from a use, in whichever block the use is
(`NothingUndeclared`; `Undefined` is what a kernel reads and nothing in it defines). The
sweep goes by what all blocks read (`SweepDefined`). `const_fold` leaves every result in
place and takes operands from those of the block. What `cse` redirects a duplicate to
is the first of its kind, which by single assignment is no duplicate itself and stays
(`FirstOfItsKind`). `licm` and `value_sink` only move operations, as sets of operations the
kernel before and after are the same (`LicmBlockMoves`, `SinkBlockMoves`). In `fusion`
values do disappear: those of the members of a chain but the last. The invariant of a chain
(`Strand`) says that its positions ascend and that each member's value, which no other
block reads, is read in one place of the block, the next member; and no two chains
share an operation (`ChainsApart`). So whatever still reads the value is the next member of the same
chain, which by then knows it by its place in the chain and not by name.
`copy_prop`, `algebraic_simplify`, `vectorize` and `if_conversion` are not in the statement
because they do take definitions away (section 6). `unroll` is not, because that
nothing outside a loop reads what its body defines is no part of `WellFormed`.
The property has no run of its own; TLC found it true on the kernels of the runs before it was
proved, and false of those four passes.

**Only model-checked**: liveness (`CriticalSectionsEnd`, `WaitsAndLocksEnd`),
which the proof system does not reach; and that the passes keep the *meaning* of a
kernel, a RECURSIVE operator over it, for which the provers have no induction. That a
value is defined *before* its use is part of the meaning (`Compiles`); what is proved
is that it is defined at all.

## 6. Disagreements between code and documentation

The first nine have a run that TLC ends with a counterexample: the last seven of
them `pass_faults`, each with the kernels named.

* **`stream_race`**: `reclaim_pinned` (mod.rs:1661) frees the whole in-flight
  list. A thread's copy enqueued after another's `cuStreamSynchronize` returned,
  and before that one's `reclaim_pinned`, is still pending; its staging buffer
  goes to the free-list, and the next `htod` of that length overwrites it. The
  comment says of these buffers "their copies have completed", and the
  `Send`/`Sync` comment "cross-thread use is sound".
* **`pool_replay`**: buffers freed during a capture are retained because "the
  graph records buffer pointers, so releasing one to the driver makes replay
  read freed memory" (:1588). Retention ends with the capture, while replays
  come after it: the buffer is then recycled and can be released while the
  graph is live.
* **`if_conversion`** (`StoreEither`, `StoreOrValue`): `inline_diamond_as_selects`
  (if_conversion.rs:235-286) pairs the operations of the two arms by position. A store beside a value, or
  beyond the end of the shorter arm, is lost; two stores are both made, whatever
  the condition; a value pair becomes a `Select` of values whose definitions go
  away with the arms, and defines no value itself. The comments promise that
  "ops that don't produce results (stores, barriers) in the arms are inlined
  directly" and that arms of different shape are rejected. Two-armed `if`s of a
  few predictable operations are enough.
* **`unroll`** (`PartialStep`) rounds the trip count down (:212), so a last
  iteration of less than a step is dropped, though a loop goes "from start to
  end with step" (op.rs:511).
* **`unroll`** (`ArmInArm`): its copies of a block two levels down are not renamed for
  what the block between defines, though the comment (:278-284) says that at
  every depth the copies are renamed throughout.
* **`vectorize`** (`StoreBetween`): the comment at vectorize.rs:169 steps over other
  operations because "they don't depend on the in-progress Load run". It steps over
  stores to the same buffer and barriers too, and stores are collected over loads alike.
* **`vectorize`** (`Swapped`): `index_eq` (:372) speaks of `Add` but takes `x - y`
  for `y - x`.
* **`vectorize`** (`Fill`): the IR wants a length of "2, 4, or 8" (op.rs:684); a run
  of three is emitted with four lanes, and the store of one overwrites the next
  element.
* **`vectorize`** (`ReadInLoop`): "downstream consumers reference the right lane" (:111), if
  they are in the same block (:340).

The others are in the models but have no run.

* The comments at the descriptor pool (vulkan/mod.rs:395-400) and at
  `run_pipeline_bound` (:1522) say that the pool is reset after each batch and
  each call, and that a single dispatch never comes near its size. A call that
  fails before its reset does not reset the pool, and a batch that asks for more
  sets than there are fails because it has filled it. From then on every dispatch
  is refused, so no call gets to a reset. No driver error is needed.
* The step of `size_bucket` above 1 MiB is an eighth of the power of two above the
  request (:247), so the slack is less than a quarter of the request
  (`SlackUnderAQuarter`), not the "~12.5%" of the comment (:246).
* `copy_prop` is to "replace all uses" (:24) and replaces those in the same
  block (:113); a nested block goes on reading a value that is gone (`LeavesUse`).
  `algebraic_simplify`, which calls itself local to a block (:45), does likewise.
* `begin_capture` (mod.rs:1818) sets `capturing` before it asks the driver
  and leaves it set when the driver refuses, which `end_capture` (:1831) takes
  care not to do; from then on nothing is returned to the driver
  (`CuStreamBeginCaptureFails`).
* `dispatch_chain` (context.rs:353) says that "only buffers consumed by no later
  pass are read back". What decides is the name (chain_dispatch.rs:70-80): an
  output that no later pass consumes, since it takes a resident buffer or a later
  output of that name, is not read back either (`Returned`). A single dispatch
  seeds an output with the caller's bytes, a chain only if no later pass names it
  (:205), so a kernel that accumulates starts from what the recycled buffer held.
* A chain does not look at its command buffer's status after the wait
  (chain_dispatch.rs:84-92, the same in single_dispatch.rs): if the GPU aborts it,
  the call returns what is in the buffers.
* A mutable local declared in a loop body is declared once per copy when `unroll`
  copies the body into one block, which does not compile; the notes on renaming
  (unroll.rs:19-23) speak of operation results only. Such bodies are kept out of
  `PlainSources`.
* `fusion` documents a limit on the operations of a chain (:20-21) and has none.

`OnlyPointerArraysLeak` also shows where memory does leak: the pointer array of
a grouped or batched GEMM whose copy fails (:1153, :1264), and only there.
`ErrorsLoseAtMost` is the same for Vulkan: `run_kernel` loses its pipeline
objects and command buffer (the "KNOWN LIMIT" at vulkan/mod.rs:881).

## 7. Not modelled, and why

* **Abstracted in the modelled parts.** Contents of buffers are single values.
  A kernel copies one buffer to another (`CudaStream`) or computes an unknown
  function of its inputs (`CudaDispatch`). `ensure_current` is taken to work,
  in `Drop` too, which does not call it. Poisoned mutexes are left out: no
  critical section panics, provided `PooledBytesExact`.
* **Preconditions taken from the code's contracts.** `begin_capture` asks its
  caller for an all-device sequence: a wait or a staged `htod` inside a capture
  is not an action. A client does not use a buffer it has freed.
  `Drop` has the only reference to its device, so no call is in progress.
* **CUDA, not modelled.** The cuBLAS and cublasLt handles, GEMM variants that
  enqueue one call on the caller's buffers, NVRTC compilation, scalar packing.
* **Vulkan, abstracted.** Recording and submitting are one fallible step; the
  contents of buffers are not represented (every call that submits waits for the
  queue before it returns); GLSL compilation is the creation of a shader module.
* **Passes not modelled.** `type_check` rejects or annotates; `kernel_inline` is
  idle without cross-kernel calls; `fma_fusion` changes the rounding of floats
  only; `schedule` annotates `Dot`; `dead_store_elim` never removes a store to a
  parameter, and `type_check` lets no other through. Of the modelled passes,
  what they do to tile, simdgroup, threadgroup-memory, atomic and masked
  operations, to multi-dimensional indices, and to value names is left out, as
  are the dtype conditions of `vectorize` and the alignment of vector accesses.
  Literals are evaluated in the same width at compile and at run time;
  `const_fold`'s 64-bit evaluation of an overflowing expression, and its shifts
  and divisions (a shift by 64 or `i64::MIN / -1` would panic) are outside.
* **Metal, abstracted.** A buffer holds one value and a number of words. Lengths
  below four bytes, where both dispatchers round up, derived grids of single
  dispatches, outputs of unknown length and GPU faults are left out. The barrier
  is taken to order all that comes before it in the command buffer against all
  that comes after, as the comment at context.rs:351 says of consecutive encoders.
* **Other components.** Caches and the runner protocol are planned (section 8);
  what `Context` adds to the dispatchers selects a device and forwards. HIP keeps no state between calls. Code emitters format
  text whose meaning is defined by compilers outside the repository; what the
  scalar operations mean there is in `KernelMeaning`. The CLI is sequential file and
  terminal handling.
* **The kernel library** (`metaltile-std`) is more than three quarters of the
  repository's lines: numeric kernels in the DSL, without control state of
  their own beyond loops over tiles. They are inputs of the modelled parts, and
  their correctness is numeric, so the share of lines the models translate stays
  small whatever else is modelled.

## 8. Plan

Done: allocator, stream and staging, dispatch, Vulkan, Metal dispatch, passes.
Proved: all safety properties of the size classes, the allocator, the stream,
CUDA dispatch, Vulkan and Metal, all three refinements, and that the passes keep
kernels well-formed. Next, in this order:

1. `PsoCache`: concurrent misses; a hit is the kernel asked for, as far as
   the key can tell.
2. `RunnerProtocol`: child, pipe and CLI; the CLI ends, and its count agrees
   with what ran. `CudaContext`: the per-thread context cache and `Drop`.
3. `fma_fusion` and masked operations in `Passes`.
