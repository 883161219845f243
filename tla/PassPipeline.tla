---------------------------- MODULE PassPipeline ----------------------------
(***************************************************************************)
(* The pipeline MslGenerator::generate runs over a kernel before it emits  *)
(* it: the passes of PassRegistry::order, one after the other.             *)
(*                                                                         *)
(* type_check, kernel_inline (idle without cross-kernel calls), fma_fusion *)
(* (which changes float rounding only), schedule (which annotates Dot) and *)
(* dead_store_elim (which never removes a store to an output, the only     *)
(* stores type_check lets through) are not steps here.                     *)
(***************************************************************************)
EXTENDS Passes

CONSTANT Sources        \* the kernels the pipeline may be given
ASSUME SourcesAssumption == \A k \in Sources : WellFormed(k)

VARIABLES kernel,       \* the kernel being rewritten
          next          \* the pass that runs next
vars == <<kernel, next>>

Order == <<"const_fold", "algebraic_simplify", "copy_prop", "cse", "licm", "if_conversion",
           "value_sink", "fusion", "unroll", "vectorize">>

Init == kernel \in Sources /\ next = 1

(* One turn of run_passes_with_stats. *)
Run(name, result) ==
    /\ next \in DOMAIN Order /\ Order[next] = name
    /\ kernel' = result
    /\ next' = next + 1

ConstFoldPass == Run("const_fold", ConstFold(kernel))
AlgebraicSimplifyPass == Run("algebraic_simplify", AlgebraicSimplify(kernel))
CopyPropPass == Run("copy_prop", CopyProp(kernel))
CsePass == Run("cse", Cse(kernel))
LicmPass == Run("licm", Licm(kernel))
IfConversionPass == Run("if_conversion", IfConversion(kernel))
ValueSinkPass == Run("value_sink", ValueSink(kernel))
FusionPass == Run("fusion", Fusion(kernel))
UnrollPass == Run("unroll", Unroll(kernel))
VectorizePass == Run("vectorize", Vectorize(kernel))

Next == \/ ConstFoldPass \/ AlgebraicSimplifyPass \/ CopyPropPass \/ CsePass
        \/ LicmPass \/ IfConversionPass \/ ValueSinkPass \/ FusionPass
        \/ UnrollPass \/ VectorizePass
Spec == Init /\ [][Next]_vars

-----------------------------------------------------------------------------
(* A kernel stays well-formed: its instructions have the operands of their *)
(* variant, across all its blocks no two of them define the same value     *)
(* (ids made by unroll and vectorize are fresh), and every block they own  *)
(* is the kernel's, and owned once.                                        *)
TypeOK == next \in 1..Len(Order) + 1 /\ WellFormed(kernel)
=============================================================================
