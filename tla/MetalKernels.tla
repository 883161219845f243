---------------------------- MODULE MetalKernels ----------------------------
(***************************************************************************)
(* Kernels as the Metal dispatchers see them: parameters that take binding *)
(* slots and bytes (dispatch/buffer_plan.rs), and what a pass computes     *)
(* from what is bound to it.                                               *)
(*                                                                         *)
(* Lengths are in words of four bytes, the least a buffer has.  What a     *)
(* buffer holds is one value and the number of words that belong to it: a  *)
(* kernel that reads no further gets the value, one that does gets         *)
(* whatever is there.                                                      *)
(***************************************************************************)
EXTENDS Naturals, Sequences, SequencesExt

CONSTANT Unspecified      \* the value of words nobody has promised

Words(v, n) == [value |-> v, len |-> n]
Nothing == Words(Unspecified, 0)
Read(words, n) == IF n <= words.len THEN words.value ELSE Unspecified

(* A parameter, with the fields of ir::Param that matter here. len is the  *)
(* static length, or Dynamic when a dimension is unknown; reads says that  *)
(* the kernel looks at what is in the buffer when the pass begins.         *)
Dynamic == 0
Param(name, is_output, strided, len, reads) ==
    [name |-> name, is_output |-> is_output, strided |-> strided, len |-> len, reads |-> reads]

(* A kernel is a record [name, params, constexpr]; constexpr says whether  *)
(* it takes a scalar.                                                      *)
Outputs(kernel) == {j \in DOMAIN kernel.params : kernel.params[j].is_output}
OutputNames(kernel) == {kernel.params[j].name : j \in Outputs(kernel)}
InputNames(kernel) == {kernel.params[j].name : j \in DOMAIN kernel.params \ Outputs(kernel)}

-----------------------------------------------------------------------------
(* A strided parameter is followed by its shape and its strides.           *)
binding_slots(param) == IF param.strided THEN 3 ELSE 1

(* Where a parameter's data is bound, and the slots all of them take.      *)
SlotsBefore(params, j) ==
    LET slots[n \in 0..Len(params)] ==
          IF n = 0 THEN 0 ELSE slots[n - 1] + binding_slots(params[n])
    IN  slots[j - 1]
DataIndex(params, j) == SlotsBefore(params, j) + 1
TensorSlots(params) == SlotsBefore(params, Len(params) + 1)

(* planned_data_len refuses bytes that do not cover the static length, and *)
(* makes room for an output whether bytes are provided or not.             *)
Underprovided(param, provided) == provided \in 1..(param.len - 1)
planned_data_len(param, provided) ==
    IF param.is_output /\ provided < param.len THEN param.len ELSE provided

(* resolve_strided_metadata: the caller's, or else the static shape's.     *)
MissingMetadata(param, shape) == param.strided /\ param.len = Dynamic /\ shape = 0
ShapeOf(param, shape) == Words(<<"shape", IF shape > 0 THEN shape ELSE param.len>>, 1)
StridesOf(param) == Words(<<"strides">>, 1)

-----------------------------------------------------------------------------
(* How far a kernel reads a parameter: to its static length or, of a       *)
(* strided one, as far as the shape bound next to it says.                 *)
Extent(param, shape) == IF param.strided THEN shape[2] ELSE param.len

(* What an output holds after the pass: a function of the kernel, of what  *)
(* it read and of its scalar, and of no promised value if any of these is  *)
(* none. args are the values read, in the order of the parameters.         *)
Computed(kernel, j, args) ==
    IF \E k \in DOMAIN args : args[k] = Unspecified
    THEN Unspecified
    ELSE <<kernel.name, kernel.params[j].name, args>>
=============================================================================
