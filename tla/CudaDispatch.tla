--------------------------- MODULE CudaDispatch ---------------------------
(***************************************************************************)
(* Kernels and GEMMs dispatched through one CudaDevice                     *)
(* (metaltile-runtime/src/device/cuda/mod.rs): prepare, upload_padded,     *)
(* run_kernel, bench_kernel, gemm_cublas_grouped, gemm_cublas_batched.     *)
(*                                                                         *)
(* A buffer goes back to the allocator while work on it may still be       *)
(* enqueued, and the next user gets it with whatever is left in it: "All   *)
(* GPU work rides one ordered stream, so reusing a freed buffer for a      *)
(* later op is safe".  The allocator is the abstract one of DeviceHeap,    *)
(* which CudaPool implements; the stream is that of CudaStream.            *)
(***************************************************************************)
EXTENDS Integers, Sequences, FiniteSets, SequencesExt

CONSTANTS
  Threads,   \* host threads sharing the device
  Ptrs,      \* device buffers (bounds memory)
  Args,      \* what distinguishes one call from another
  Inputs,    \* buffers a kernel reads; it writes one more
  MaxQueue   \* work waiting in the stream (a bound)

ASSUME DispatchAssumption ==
  /\ Inputs \in Nat \ {0}
  /\ MaxQueue \in Nat

VARIABLES
  memory,   \* device: payload of each buffer, and the slack behind it
  stream,   \* device: work enqueued and not executed
  held,     \* the buffers the allocator has leased
  lost,     \* those an error path let go of
  pc,       \* per thread: next step
  call,     \* per thread: the call it is in
  bufs,     \* per thread: dev_bufs, or the pointer-array buffer
  wait,     \* per thread: work its synchronize still waits for
  result    \* per thread: what it has read back

deviceVars == <<memory, stream>>
callVars   == <<call, bufs, wait, result>>
vars == <<deviceVars, held, lost, pc, callVars>>

Kinds == {"kernel", "gemm"}

(* What a buffer can hold: bytes nobody asked for (leftovers, the zeroes   *)
(* or the pre-sized output an upload puts there), a call's input, what a   *)
(* kernel computes from one.  Behind it: zeroes or not.                    *)
Junk      == <<"junk">>
Zero      == <<"zero">>
Bytes(a)  == <<"bytes", a>>
Output(a) == <<"computed", a>>
Payloads  == {Junk} \cup {Bytes(a) : a \in Args} \cup {Output(a) : a \in Args}
NoResult  == <<>>

Calls  == Kinds \X Args
NoCall == <<"none">>
Kind(t) == call[t][1]
Arg(t)  == call[t][2]
Idle(t) == pc[t] = "idle"
Goto(t, l) == pc' = [pc EXCEPT ![t] = l]

Init ==
  /\ memory = [p \in Ptrs |-> [payload |-> Junk, slack |-> Junk]]
  /\ stream = <<>>
  /\ held = {}
  /\ lost = {}
  /\ pc = [t \in Threads |-> "idle"]
  /\ call = [t \in Threads |-> NoCall]
  /\ bufs = [t \in Threads |-> <<>>]
  /\ wait = [t \in Threads |-> 0]
  /\ result = [t \in Threads |-> NoResult]

---------------------------------------------------------------------------
(* The stream (external).  Work names the buffers it touches; the copy of  *)
(* an input and, as history, a GEMM also name their call's argument.       *)

Work(op, on)       == [op |-> op, on |-> on]
WorkFor(op, on, a) == [op |-> op, on |-> on, for |-> a]

Computed(inputs) ==
  IF \E a \in Args : inputs = {Bytes(a)}
  THEN Output(CHOOSE a \in Args : inputs = {Bytes(a)}) ELSE Junk

(* A kernel has no bounds guard: its tail threads read the slack of its    *)
(* inputs and write that of its output.                                    *)
Effect(mem, w) ==
  LET to == Last(w.on) IN
  CASE w.op = "memset" -> [mem EXCEPT ![to] = [payload |-> Junk, slack |-> Zero]]
    [] w.op = "input"  -> [mem EXCEPT ![to].payload = Bytes(w.for)]
    [] w.op = "seed"   -> [mem EXCEPT ![to].payload = Junk]
    [] w.op = "kernel" -> [mem EXCEPT ![to] =
                             [payload |-> Computed({mem[w.on[k]].payload : k \in 1..Inputs}),
                              slack |-> Junk]]
    [] w.op = "gemm"   -> mem

Enqueue(w) == Len(stream) < MaxQueue /\ stream' = Append(stream, w)
WaitFor(t, k) == wait' = [wait EXCEPT ![t] = Len(stream) + k]

Execute ==
  /\ stream # <<>>
  /\ memory' = Effect(memory, Head(stream))
  /\ stream' = Tail(stream)
  /\ wait' = [t \in Threads |-> IF wait[t] > 0 THEN wait[t] - 1 ELSE 0]
  /\ UNCHANGED <<held, lost, pc, call, bufs, result>>

---------------------------------------------------------------------------
(* Entry and memory *)

Enter(t, c) ==
  /\ Idle(t)
  /\ call' = [call EXCEPT ![t] = c]
  /\ Goto(t, "alloc")
  /\ UNCHANGED <<deviceVars, held, lost, bufs, wait, result>>

Return(t) ==
  /\ Goto(t, "idle")
  /\ call' = [call EXCEPT ![t] = NoCall]
  /\ bufs' = [bufs EXCEPT ![t] = <<>>]
  /\ result' = [result EXCEPT ![t] = NoResult]

Complete(t) == Len(bufs[t]) = Inputs + 1
OnLast(t) == <<Last(bufs[t])>>

Alloc(t, p) ==
  /\ pc[t] = "alloc"
  /\ p \notin held
  /\ held' = held \cup {p}
  /\ bufs' = [bufs EXCEPT ![t] = Append(@, p)]
  /\ Goto(t, IF Kind(t) = "gemm" THEN "pointers" ELSE "memset")
  /\ UNCHANGED <<deviceVars, lost, call, wait, result>>

(* Seeded fault: a failing call forgets the buffers it has. *)
Fail_Forgets(t) ==
  /\ pc[t] \in {"alloc", "memset", "copy", "uploaded", "launch", "launched", "download"}
  /\ wait' = [wait EXCEPT ![t] = 0]
  /\ bufs' = [bufs EXCEPT ![t] = <<>>]
  /\ Goto(t, "drop")
  /\ UNCHANGED <<deviceVars, held, lost, call, result>>

(* `?` on any driver call of prepare, launch and download: the buffer      *)
(* being uploaded is dropped, then those acquired before it.  (It costs a  *)
(* gemm nothing before its alloc; what it costs after, GemmCopyFails says.) *)
Fail(t) ==
  /\ pc[t] \in {"alloc", "memset", "copy", "uploaded", "launch", "launched", "download"}
  /\ wait' = [wait EXCEPT ![t] = 0]
  /\ bufs' = [bufs EXCEPT ![t] = IF pc[t] \in {"memset", "copy", "uploaded"}
                                 THEN OnLast(t) \o Front(@) ELSE @]
  /\ Goto(t, "drop")
  /\ UNCHANGED <<deviceVars, held, lost, call, result>>

(* Seeded fault: the buffers are freed and stay on the list. *)
DropBuffer_KeepsList(t) ==
  /\ pc[t] = "drop"
  /\ held' = held \ ToSet(bufs[t])
  /\ Goto(t, "idle")
  /\ call' = [call EXCEPT ![t] = NoCall]
  /\ result' = [result EXCEPT ![t] = NoResult]
  /\ UNCHANGED <<deviceVars, lost, bufs, wait>>

(* The drops of dev_bufs in order, or free_raw_pooled of the pointers:     *)
(* nothing waits for the stream.                                           *)
DropBuffer(t) ==
  /\ pc[t] = "drop"
  /\ IF bufs[t] = <<>>
     THEN Return(t) /\ UNCHANGED held
     ELSE /\ held' = held \ {Head(bufs[t])}
          /\ bufs' = [bufs EXCEPT ![t] = Tail(@)]
          /\ UNCHANGED <<pc, call, result>>
  /\ UNCHANGED <<deviceVars, lost, wait>>

---------------------------------------------------------------------------
(* prepare: upload_padded for every parameter, inputs first *)

Filling(t) == IF Complete(t) THEN Work("seed", OnLast(t))
                             ELSE WorkFor("input", OnLast(t), Arg(t))

(* Seeded fault: upload, which does not zero the slack. *)
Memset_Skipped(t) ==
  /\ pc[t] = "memset"
  /\ Goto(t, "copy")
  /\ UNCHANGED <<deviceVars, held, lost, callVars>>

Memset(t) ==
  /\ pc[t] = "memset"
  /\ Enqueue(Work("memset", OnLast(t)))
  /\ Goto(t, "copy")
  /\ UNCHANGED <<memory, held, lost, callVars>>

(* Seeded fault: a null-stream copy, which overtakes the memset. *)
Copy_NullStream(t) ==
  /\ pc[t] = "copy"
  /\ memory' = Effect(memory, Filling(t))
  /\ WaitFor(t, 0)
  /\ Goto(t, "uploaded")
  /\ UNCHANGED <<stream, held, lost, call, bufs, result>>

Copy(t) ==
  /\ pc[t] = "copy"
  /\ Enqueue(Filling(t))
  /\ WaitFor(t, 1)
  /\ Goto(t, "uploaded")
  /\ UNCHANGED <<memory, held, lost, call, bufs, result>>

Uploaded(t) ==
  /\ pc[t] = "uploaded"
  /\ wait[t] = 0
  /\ Goto(t, IF Complete(t) THEN "launch" ELSE "alloc")
  /\ UNCHANGED <<deviceVars, held, lost, callVars>>

---------------------------------------------------------------------------
(* run_kernel and bench_kernel *)

Launch(t) ==
  /\ pc[t] = "launch"
  /\ Enqueue(Work("kernel", bufs[t]))
  /\ WaitFor(t, 1)
  /\ Goto(t, "launched")
  /\ UNCHANGED <<memory, held, lost, call, bufs, result>>

(* bench_kernel launches again, or has its samples; run_kernel reads back, *)
(* which waits for the stream anew.                                        *)
Launched(t) ==
  /\ pc[t] = "launched"
  /\ wait[t] = 0
  /\ \/ (Goto(t, "launch") \/ Goto(t, "drop")) /\ UNCHANGED wait
     \/ Goto(t, "download") /\ WaitFor(t, 0)
  /\ UNCHANGED <<deviceVars, held, lost, call, bufs, result>>

Download(t) ==
  /\ pc[t] = "download"
  /\ wait[t] = 0
  /\ result' = [result EXCEPT ![t] = memory[Last(bufs[t])].payload]
  /\ Goto(t, "drop")
  /\ UNCHANGED <<deviceVars, held, lost, call, bufs, wait>>

---------------------------------------------------------------------------
(* gemm_cublas_grouped, gemm_cublas_batched: the operand pointers go to a  *)
(* pooled buffer, which is freed as soon as the GEMM is enqueued.          *)

(* Seeded fault: a null-stream copy, unordered with the stream. *)
GemmCopy_NullStream(t) ==
  /\ pc[t] = "pointers"
  /\ memory' = Effect(memory, WorkFor("input", bufs[t], Arg(t)))
  /\ Goto(t, "gemm")
  /\ UNCHANGED <<stream, held, lost, callVars>>

GemmCopy(t) ==
  /\ pc[t] = "pointers"
  /\ Enqueue(WorkFor("input", bufs[t], Arg(t)))
  /\ Goto(t, "gemm")
  /\ UNCHANGED <<memory, held, lost, callVars>>

(* The `?` on the copy: base is a plain address, nothing frees it. *)
GemmCopyFails(t) ==
  /\ pc[t] = "pointers"
  /\ lost' = lost \cup {Head(bufs[t])}
  /\ Return(t)
  /\ UNCHANGED <<deviceVars, held, wait>>

(* cuBLAS enqueues the GEMM or answers with a status; freed either way. *)
Gemm(t) ==
  /\ pc[t] = "gemm"
  /\ \/ Enqueue(WorkFor("gemm", bufs[t], Arg(t)))
     \/ UNCHANGED stream
  /\ Goto(t, "drop")
  /\ UNCHANGED <<memory, held, lost, callVars>>

---------------------------------------------------------------------------

Next ==
  \/ \E t \in Threads :
       \/ \E c \in Calls : Enter(t, c)
       \/ \E p \in Ptrs : Alloc(t, p)
       \/ Fail(t) \/ DropBuffer(t)
       \/ Memset(t) \/ Copy(t) \/ Uploaded(t)
       \/ Launch(t) \/ Launched(t) \/ Download(t)
       \/ GemmCopy(t) \/ GemmCopyFails(t) \/ Gemm(t)
  \/ Execute

Spec == Init /\ [][Next]_vars

---------------------------------------------------------------------------
(* Properties *)

Works == LET One == [1..1 -> Ptrs] IN
  [op : {"memset", "seed"}, on : One] \cup [op : {"input", "gemm"}, on : One, for : Args]
    \cup [op : {"kernel"}, on : [1..(Inputs + 1) -> Ptrs]]

Memories == [Ptrs -> [payload : Payloads, slack : {Zero, Junk}]]

TypeOK ==
  /\ memory \in Memories
  /\ stream \in Seq(Works)
  /\ held \subseteq Ptrs /\ lost \subseteq Ptrs
  /\ pc \in [Threads -> {"idle", "alloc", "drop", "memset", "copy", "uploaded",
                         "launch", "launched", "download", "pointers", "gemm"}]
  /\ call \in [Threads -> Calls \cup {NoCall}]
  /\ bufs \in [Threads -> Seq(Ptrs)]
  /\ \A t \in Threads : Len(bufs[t]) <= Inputs + 1
  /\ wait \in [Threads -> Nat]
  /\ result \in [Threads -> Payloads \cup {NoResult}]

(* The memory mem after each prefix of works; in particular, the device's  *)
(* when the i-th work of the stream is executed.                           *)
MemoryAfter(mem, works) ==
  LET at[k \in 0..Len(works)] == IF k = 0 THEN mem ELSE Effect(at[k - 1], works[k])
  IN at
MemoryAt(i) == MemoryAfter(memory, stream)[i - 1]

(* "stream order guarantees the read completes before a reuse overwrites   *)
(* it": whoever has the freed pointer-array buffer by then, every GEMM     *)
(* finds in it the operand pointers its own call packed.                   *)
GemmsReadTheirPointers ==
  \A i \in DOMAIN stream :
    stream[i].op = "gemm" =>
      MemoryAt(i)[Head(stream[i].on)].payload = Bytes(stream[i].for)

(* "over-allocate and zero-fill so tail threads read benign zeros": a      *)
(* kernel's tail threads find zeroes behind every input, however often the *)
(* pool has recycled the buffer.                                           *)
TailsReadZeros ==
  \A i \in DOMAIN stream :
    stream[i].op = "kernel" =>
      \A k \in 1..Inputs : MemoryAt(i)[stream[i].on[k]].slack = Zero

(* Whatever other threads dispatch on the device meanwhile, run_kernel     *)
(* returns what the kernel computes from the bytes of this call.           *)
ResultsAreTheCalls ==
  \A t \in Threads : result[t] # NoResult => result[t] = Output(Arg(t))

(* Every lease is some call's, which drops it on every path; only the      *)
(* pointer array of a GEMM whose copy failed stays behind.                 *)
OnlyPointerArraysLeak ==
  held = lost \cup UNION {ToSet(bufs[t]) : t \in Threads}

===========================================================================
