----------------------------- MODULE PassMeaning -----------------------------
(***************************************************************************)
(* What the passes do to what a kernel computes.                           *)
(***************************************************************************)
EXTENDS PassPipeline, KernelMeaning

(* What a pass is given and hands on; what becomes of a kernel that is     *)
(* already wrong says nothing about the passes after it.                   *)
KeepsMeaning == Compiles(kernel) => Meaning(kernel') = Meaning(kernel)

(* The pass removed a value from its block that another block still reads: *)
(* copy_prop and algebraic_simplify redirect the uses of a value in its    *)
(* own block only.                                                         *)
LeavesUse ==
    \E b \in DOMAIN kernel \cap DOMAIN kernel' : \E v \in Defs(kernel[b]) \ Defs(kernel'[b]) :
        v \in UNION {BlockRefs(kernel'[c]) : c \in DOMAIN kernel' \ {b}}
(* ... which shows at once: the emitted shader names an undeclared value.  *)
FailsLoudly == ~Compiles(kernel')

-----------------------------------------------------------------------------
(* const_fold and cse never change what a kernel computes: folding a       *)
(* literal or merging two equal values gives the same output for every     *)
(* thread. Nor do algebraic_simplify and copy_prop, silently: a kernel one *)
(* of them changes does not compile, and it left a use of a removed value  *)
(* in another block.                                                       *)
ReuseKeepsMeaning ==
    [][/\ ConstFoldPass \/ CsePass => KeepsMeaning
       /\ AlgebraicSimplifyPass \/ CopyPropPass => KeepsMeaning \/ (LeavesUse /\ FailsLoudly)]_vars

(* licm, value_sink and fusion move computations, out of loops, down to    *)
(* their use or into one expression, and never change the output: not past *)
(* a barrier, a store or an assignment they depend on, not out of the      *)
(* scope of a value they read, not into one where another block cannot     *)
(* read them.                                                              *)
MotionKeepsMeaning == [][LicmPass \/ ValueSinkPass \/ FusionPass => KeepsMeaning]_vars

(* unroll replaces a loop by its iterations: every step of the range is    *)
(* run once, with its own induction value, and the copies of the body and  *)
(* of the blocks in it read each other's values as the originals did.      *)
UnrollKeepsMeaning == [][UnrollPass => KeepsMeaning]_vars

(* vectorize merges neighbouring loads and stores: every lane has the      *)
(* element its load or store named, at the time it named it, and every     *)
(* use of a merged load reads its lane.                                    *)
VectorizeKeepsMeaning == [][VectorizePass => KeepsMeaning]_vars

(* The passes that give a kernel other blocks or other accesses leave what *)
(* it computes as it was. if_conversion "converts Op::If blocks with short *)
(* bodies into Op::Select chains" (if_conversion.rs:6), unroll runs a loop *)
(* "from start to end with step" (op.rs:511), vectorize merges accesses    *)
(* that do not depend on what is between them (vectorize.rs:170).          *)
ReshapingKeepsMeaning == [][IfConversionPass \/ UnrollPass \/ VectorizePass => KeepsMeaning]_vars
=============================================================================
