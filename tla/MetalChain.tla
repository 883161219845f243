----------------------------- MODULE MetalChain -----------------------------
(***************************************************************************)
(* Dispatch on Metal (metaltile-runtime/src/dispatch, device/buffer_pool.rs*)
(* and metal_device.rs): a chain of passes on one command buffer, or a     *)
(* single pass, with buffers recycled by reference count through a pool    *)
(* and with resident buffers that clients hold across calls.               *)
(*                                                                         *)
(* The pool is thread-local, so a client is one thread; what runs beside   *)
(* it is the GPU, between commit and waitUntilCompleted.  Metal orders two *)
(* passes of untracked buffers only by a barrier encoded between them.     *)
(***************************************************************************)
EXTENDS MetalKernels, Powers, FiniteSets

CONSTANTS Handles, NoBuffer, Requests, Uploads

(* A buffer is named by its list, that is its size and storage mode, and   *)
(* its place there.                                                        *)
Lists == PowersOfTwo \X BOOLEAN
Buffers == Lists \X (Nat \ {0})

(* Parameters are named apart, as the arguments of the function they are   *)
(* compiled to.  The lengths are such that a buffer can hold them.         *)
WellFormed(params) ==
    /\ params \in Seq(Range(params))
    /\ \A j, k \in DOMAIN params : params[j].name = params[k].name => j = k
    /\ \A j \in DOMAIN params :
          /\ params[j].is_output \in BOOLEAN /\ params[j].strided \in BOOLEAN
          /\ params[j].len \in 0..MaxLength

(* A call has passes (dispatch_chain returns at once without any), and its *)
(* outputs have static lengths, which the caller's bytes do not exceed.    *)
CallsWellFormed ==
    \A r \in Requests : r # <<>> /\ r \in Seq(Range(r)) /\ \A i \in DOMAIN r :
        LET params == r[i].kernel.params
        IN  /\ WellFormed(params)
            /\ Range(r[i].resident) \subseteq Handles
            /\ r[i].shape \in 0..MaxLength
            /\ \A j \in DOMAIN params : r[i].host[params[j].name] \in 0..MaxLength
            /\ \A j \in Outputs(r[i].kernel) :
                  params[j].len # Dynamic /\ r[i].host[params[j].name] <= params[j].len

ASSUME CallAssumption ==
    /\ NoBuffer \notin Buffers
    /\ Uploads \subseteq 1..MaxLength
    /\ CallsWellFormed

VARIABLES
  pool,     \* BUF_POOL: how many buffers each list holds
  words,    \* contents of the buffers somebody holds a reference to
  handle,   \* the buffer behind each ResidentBuffer
  specs,    \* the passes of the call in progress
  single,   \* it is a SingleDispatch
  phase,    \* how far it is
  bound,    \* per pass encoded, its bindings (per_spec_bufs, setBytes)
  alias,    \* alias_pool: outputs later passes read
  barriers, \* passes with a memory barrier behind them
  done,     \* passes the GPU has run
  outcome   \* what the last call returned
vars == <<pool, words, handle, specs, single, phase, bound, alias, barriers, done, outcome>>

Sequences == INSTANCE PassSequence WITH
    request <- specs,
    resident <- [h \in Handles |-> IF handle[h] = NoBuffer THEN Nothing ELSE words[handle[h]]]

LaterInputs(i) == Sequences!LaterInputs(specs, i)
Failed(why) == Sequences!Failed(why)

(* The length of a buffer for n words, and whether the host cannot read it.*)
Bucket(n) == next_power_of_two(n)
IsPrivate(b) == b[1][2]

Init ==
    /\ pool = [l \in Lists |-> 0]
    /\ words = <<>>
    /\ handle = [h \in Handles |-> NoBuffer]
    /\ specs = Sequences!NoRequest /\ single = FALSE /\ phase = "idle"
    /\ bound = <<>> /\ alias = <<>> /\ barriers = {} /\ done = {}
    /\ outcome = Sequences!NoOutcome

-----------------------------------------------------------------------------
(* HashMap::insert.                                                        *)
Put(f, x, y) == [z \in DOMAIN f \cup {x} |-> IF z = x THEN y ELSE f[z]]

(* Seeded fault: the buffers of earlier passes are let go too soon.        *)
InUse_ThisPass(acc) == Range(handle) \cup Range(acc.bufs) \cup Range(acc.alias)

(* Buffers with a strong count above one while a pass is prepared: those   *)
(* of clients, of the passes before it, of the alias pool and its own.     *)
InUse(acc) ==
    Range(handle) \cup Range(acc.bufs) \cup Range(acc.alias)
      \cup UNION {Range(bound[i].bufs) : i \in DOMAIN bound}

(* Seeded fault: a new buffer is not added to its list.                    *)
Acquire_Unlisted(acc, n, private, content) ==
    LET list == <<Bucket(n), private>>
        idle == {k \in 1..acc.pool[list] : <<list, k>> \notin InUse(acc)}
        k == IF idle = {} THEN acc.pool[list] + 1 ELSE Min(idle)
    IN  [acc EXCEPT !.words = Put(@, <<list, k>>, content),
                    !.bufs = Append(@, <<list, k>>)]

(* acquire: the first buffer of the list that nobody uses, else a new one. *)
(* It is bound next and holds `content`; what it held before is nothing to *)
(* count on.                                                               *)
Acquire(acc, n, private, content) ==
    LET list == <<Bucket(n), private>>
        idle == {k \in 1..acc.pool[list] : <<list, k>> \notin InUse(acc)}
        k == IF idle = {} THEN acc.pool[list] + 1 ELSE Min(idle)
    IN  [acc EXCEPT !.pool[list] = IF idle = {} THEN k ELSE @,
                    !.words = Put(@, <<list, k>>, content),
                    !.bufs = Append(@, <<list, k>>)]
acquire_shared(acc, content, n) ==
    Acquire(acc, n, FALSE, IF content.len = 0 THEN Nothing ELSE content)
acquire_private(acc, n) == Acquire(acc, n, TRUE, Nothing)

push_strided(acc, param, shape) ==
    IF ~param.strided THEN acc
    ELSE IF MissingMetadata(param, shape) THEN [acc EXCEPT !.refused = TRUE]
    ELSE acquire_shared(acquire_shared(acc, ShapeOf(param, shape), 1), StridesOf(param), 1)

(* A buffer an input is bound to instead of a new one.                     *)
Resolved(i, acc, param) ==
    IF param.is_output THEN NoBuffer
    ELSE IF param.name \in DOMAIN specs[i].resident THEN handle[specs[i].resident[param.name]]
    ELSE IF param.name \in DOMAIN acc.alias THEN acc.alias[param.name]
    ELSE NoBuffer

BindData(i, acc, param, pre) ==
    LET n == planned_data_len(param, specs[i].host[param.name])
        new == acquire_private(acc, n)
    IN  IF pre # NoBuffer THEN [acc EXCEPT !.bufs = Append(@, pre)]
        ELSE IF param.is_output /\ param.name \in LaterInputs(i)
        THEN [new EXCEPT !.alias = Put(@, param.name, Last(new.bufs))]
        ELSE acquire_shared(acc, Sequences!HostWords(specs[i], i, param.name), n)

(* One turn of the loop over the parameters.                               *)
BindParam(i, acc, param) ==
    IF acc.refused THEN acc
    ELSE push_strided(BindData(i, acc, param, Resolved(i, acc, param)), param, specs[i].shape)

(* The buffers of pass i after its first n parameters.                     *)
allocate_pass_buffers(i, n) ==
    LET params == specs[i].kernel.params
        none == [pool |-> pool, words |-> words, alias |-> alias, bufs |-> <<>>, refused |-> FALSE]
        after[k \in 0..Len(params)] ==
            IF k = 0 THEN none ELSE BindParam(i, after[k - 1], params[k])
    IN  after[n]

(* bind_constexpr_scalars gives the encoder the caller's bytes or zeros,   *)
(* behind the tensors; a SingleDispatch binds one more buffer.             *)
Scalar(i) == IF specs[i].scalar THEN Words(<<"scalar", i>>, 1) ELSE Nothing
Inline(i, acc) ==
    IF single \/ ~specs[i].kernel.constexpr THEN [at |-> 0, words |-> Nothing]
    ELSE [at |-> Len(acc.bufs) + 1,
          words |-> IF specs[i].scalar THEN Scalar(i) ELSE Words(<<"zero">>, 1)]
WithScalar(i, acc) ==
    IF single /\ specs[i].kernel.constexpr /\ ~acc.refused THEN acquire_shared(acc, Scalar(i), 1) ELSE acc

AllBuffers(i) == WithScalar(i, allocate_pass_buffers(i, Len(specs[i].kernel.params)))

-----------------------------------------------------------------------------
(* upload_resident, and the drop of the last clone of a handle. Contents   *)
(* of buffers nobody refers to are forgotten.                              *)
Kept(w) == [b \in DOMAIN w \cap Range(handle') |-> w[b]]

Upload(h, n) ==
    LET acc == acquire_shared([pool |-> pool, words |-> words, alias |-> <<>>, bufs |-> <<>>,
                               refused |-> FALSE],
                              Words(<<"resident", h, n>>, n), n)
    IN  /\ phase = "idle" /\ handle[h] = NoBuffer
        /\ handle' = [handle EXCEPT ![h] = Last(acc.bufs)]
        /\ pool' = acc.pool /\ words' = acc.words
        /\ UNCHANGED <<specs, single, phase, bound, alias, barriers, done, outcome>>

DropResident(h) ==
    /\ phase = "idle" /\ handle[h] # NoBuffer
    /\ handle' = [handle EXCEPT ![h] = NoBuffer]
    /\ words' = Kept(words)
    /\ UNCHANGED <<pool, specs, single, phase, bound, alias, barriers, done, outcome>>

(* dispatch_chain or, without resident inputs, a single dispatch.          *)
Call(r, alone) ==
    /\ phase = "idle"
    /\ \A i \in DOMAIN r : \A n \in DOMAIN r[i].resident : handle[r[i].resident[n]] # NoBuffer
    /\ alone => Len(r) = 1 /\ DOMAIN r[1].resident = {}
    /\ specs' = r /\ single' = alone /\ phase' = "planning"
    /\ UNCHANGED <<pool, words, handle, bound, alias, barriers, done, outcome>>

(* The call is over: its buffers go back to the pool.                      *)
Return(o) ==
    /\ UNCHANGED handle
    /\ outcome' = o
    /\ specs' = Sequences!NoRequest /\ single' = FALSE /\ phase' = "returned"
    /\ bound' = <<>> /\ alias' = <<>> /\ barriers' = {} /\ done' = {}
    /\ words' = Kept(words)

(* The caller has seen the outcome.                                        *)
Accept ==
    /\ phase = "returned"
    /\ phase' = "idle" /\ outcome' = Sequences!NoOutcome
    /\ UNCHANGED <<pool, words, handle, specs, single, bound, alias, barriers, done>>

(* build_param_buffer_plans of every pass, and the pipelines.              *)
Plannable(spec) == \A j \in DOMAIN spec.kernel.params :
    ~Underprovided(spec.kernel.params[j], spec.host[spec.kernel.params[j].name])

Plan ==
    /\ phase = "planning"
    /\ IF \A i \in DOMAIN specs : Plannable(specs[i])
       THEN /\ phase' = "encoding"
            /\ UNCHANGED <<pool, words, handle, specs, single, bound, alias, barriers, done, outcome>>
       ELSE Return(Failed("Refused")) /\ UNCHANGED pool

(* Seeded fault: no barrier behind the last pass but one.                  *)
NeedsBarrier_FirstOnly(i) == i + 1 < Len(specs)

(* memoryBarrierWithScope follows every pass but the last.                 *)
NeedsBarrier(i) == i < Len(specs)

(* One turn of encode_passes, and commit after the last.                   *)
Encode(i, acc) ==
    /\ pool' = acc.pool /\ words' = acc.words /\ alias' = acc.alias
    /\ bound' = Append(bound, [bufs |-> acc.bufs, inline |-> Inline(i, acc)])
    /\ barriers' = IF NeedsBarrier(i) THEN barriers \cup {i} ELSE barriers
    /\ phase' = IF i = Len(specs) THEN "running" ELSE "encoding"
    /\ UNCHANGED <<handle, specs, single, done, outcome>>

EncodeOrRefuse(i, acc) ==
    IF acc.refused \/ ~specs[i].legal_grid
    THEN Return(Failed("Refused")) /\ pool' = acc.pool
    ELSE Encode(i, acc)

EncodePass ==
    /\ phase = "encoding"
    /\ LET i == Len(bound) + 1
       IN  EncodeOrRefuse(i, AllBuffers(i))

(* No pipeline, command buffer, buffer or encoder: whatever was acquired   *)
(* by then goes back. (Three buffers of one parameter are one step.)       *)
Prepared(i) ==
    {allocate_pass_buffers(i, n) : n \in 0..Len(specs[i].kernel.params)} \cup {AllBuffers(i)}

DeviceError ==
    /\ \/ /\ phase = "planning" /\ UNCHANGED pool
          /\ single \/ \A i \in DOMAIN specs : Plannable(specs[i])
       \/ /\ phase = "encoding"
          /\ \E acc \in Prepared(Len(bound) + 1) : ~acc.refused /\ pool' = acc.pool
    /\ Return(Failed("DeviceError"))

-----------------------------------------------------------------------------
(* The GPU runs a pass when the passes a barrier keeps it behind are done. *)
Ordered(k, i) == \E b \in barriers : k <= b /\ b < i

Binding(i, slot) ==
    LET here == bound[i]
    IN  IF slot \in DOMAIN here.bufs THEN words[here.bufs[slot]]
        ELSE IF slot = here.inline.at THEN here.inline.words
        ELSE Nothing

(* A strided parameter whose metadata is not where the kernel expects it   *)
(* is read anywhere.                                                       *)
BoundArgument(i, param, slot) ==
    LET shape == Binding(i, slot + 1).value
        misplaced == param.strided /\ \A n \in 1..MaxLength : shape # <<"shape", n>>
    IN  IF ~param.reads THEN "ignored"
        ELSE IF misplaced \/ (param.strided /\ Binding(i, slot + 2) # StridesOf(param)) THEN Unspecified
        ELSE Read(Binding(i, slot), Extent(param, shape))

BoundArguments(i, kernel) ==
    [j \in DOMAIN kernel.params |->
        BoundArgument(i, kernel.params[j], DataIndex(kernel.params, j))]
      \o (IF kernel.constexpr THEN <<Read(Binding(i, TensorSlots(kernel.params) + 1), 1)>>
          ELSE <<>>)

WriteOutputs(i, kernel, args) ==
    LET At(b) == {j \in Outputs(kernel) : /\ DataIndex(kernel.params, j) \in DOMAIN bound[i].bufs
                                          /\ bound[i].bufs[DataIndex(kernel.params, j)] = b}
    IN  words' = [b \in DOMAIN words |->
                     IF At(b) = {} THEN words[b]
                     ELSE LET j == Max(At(b))
                          IN  Words(Computed(kernel, j, args), kernel.params[j].len)]

Execute(i) ==
    /\ phase = "running" /\ i \in DOMAIN bound \ done
    /\ \A k \in 1..(i - 1) : Ordered(k, i) => k \in done
    /\ WriteOutputs(i, specs[i].kernel, BoundArguments(i, specs[i].kernel))
    /\ done' = done \cup {i}
    /\ UNCHANGED <<pool, handle, specs, single, phase, bound, alias, barriers, outcome>>

(* waitUntilCompleted has returned: read_results. Private memory cannot be *)
(* read by the host.                                                       *)
OutputBytes(i, slot, n) ==
    LET b == bound[i].bufs[slot]
    IN  IF slot \notin DOMAIN bound[i].bufs \/ IsPrivate(b) THEN Unspecified
        ELSE Read(words[b], n)

PassResults(i, params) ==
    LET returned == {j \in Outputs(specs[i].kernel) : params[j].name \notin LaterInputs(i)}
        Named(n) == CHOOSE j \in returned : params[j].name = n
    IN  [n \in {params[j].name : j \in returned} |->
            OutputBytes(i, DataIndex(params, Named(n)), params[Named(n)].len)]

ReadResults ==
    /\ phase = "running" /\ done = DOMAIN bound
    /\ Return(Sequences!Results([i \in DOMAIN specs |-> PassResults(i, specs[i].kernel.params)]))
    /\ UNCHANGED pool

Next ==
    \/ \E h \in Handles : DropResident(h) \/ \E n \in Uploads : Upload(h, n)
    \/ \E r \in Requests, alone \in BOOLEAN : Call(r, alone)
    \/ Plan \/ EncodePass \/ DeviceError \/ ReadResults \/ Accept
    \/ \E i \in DOMAIN bound : Execute(i)

Spec == Init /\ [][Next]_vars

-----------------------------------------------------------------------------
(* Every buffer in use is one the pool knows, of the list it is named for, *)
(* and the call has a phase its bindings agree with: no pass is bound      *)
(* before the plan stands, all are when the GPU runs.                      *)
TypeOK ==
    /\ pool \in [Lists -> Nat]
    /\ \A b \in DOMAIN words : b[1] \in Lists /\ b[2] \in 1..pool[b[1]]
    /\ \A h \in Handles : handle[h] = NoBuffer \/ handle[h] \in DOMAIN words
    /\ \A i \in DOMAIN bound : Range(bound[i].bufs) \subseteq DOMAIN words
    /\ CASE phase \in {"idle", "returned"} -> specs = Sequences!NoRequest /\ bound = <<>>
         [] phase = "planning" -> bound = <<>>
         [] phase = "encoding" -> Len(bound) < Len(specs)
         [] phase = "running" -> Len(bound) = Len(specs)
    /\ barriers \cup done \subseteq DOMAIN bound

(* What a pass writes is in no resident buffer and bound nowhere else, but *)
(* to inputs of that name in later passes: a buffer is recycled only when  *)
(* nothing of the command buffer refers to it any more.                    *)
WritesApart ==
    \A i \in DOMAIN bound : \A j \in Outputs(specs[i].kernel) :
        LET slot == DataIndex(specs[i].kernel.params, j)
            b == bound[i].bufs[slot]
            Reads(k, s) == \E p \in DOMAIN specs[k].kernel.params :
                /\ ~specs[k].kernel.params[p].is_output
                /\ specs[k].kernel.params[p].name = specs[i].kernel.params[j].name
                /\ DataIndex(specs[k].kernel.params, p) = s
        IN  slot \in DOMAIN bound[i].bufs =>
            /\ b \notin Range(handle)
            /\ \A k \in DOMAIN bound : \A s \in DOMAIN bound[k].bufs :
                  bound[k].bufs[s] = b => <<k, s>> = <<i, slot>> \/ (k > i /\ Reads(k, s))

(* Recycled, aliased and resident buffers, binding slots, barriers and     *)
(* read-backs together give what the passes give when run one by one, and  *)
(* no call disturbs a resident buffer.                                     *)
ImplementsPasses == Sequences!SequenceSpec
=============================================================================
