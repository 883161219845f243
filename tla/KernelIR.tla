------------------------------ MODULE KernelIR ------------------------------
(***************************************************************************)
(* The intermediate representation of a kernel (metaltile-core, ir).       *)
(*                                                                         *)
(* An instruction is [k: variant of Op, f: its immediate (operator, dtype, *)
(* buffer, literal, local), a: the ValueIds it reads, b: the blocks it     *)
(* owns, r: the ValueId it defines or NoResult]; a block is a sequence of  *)
(* instructions; a kernel is a function from BlockIds to blocks, with the  *)
(* entry block (kernel.body) at Body and the others (kernel.blocks)        *)
(* elsewhere.                                                              *)
(***************************************************************************)
EXTENDS Integers, Sequences, FiniteSets, TLC

NoResult == 0
Body == 0

(* The ValueId under which a loop's body reads its variable. *)
LoopValue(var) == 900 + var

(* Names an index-free Load can read: built-in, constexpr param, local. *)
Tid == 801
Flag == 802
Acc == 803

Ins(k, f, a, b, r) == [k |-> k, f |-> f, a |-> a, b |-> b, r |-> r]

ElemsOf(s) == {s[j] : j \in DOMAIN s}
Instrs(k) == UNION {ElemsOf(k[b]) : b \in DOMAIN k}
Defs(blk) == {i.r : i \in ElemsOf(blk)} \ {NoResult}

(* The values an instruction reads; inside a fused chain a negative        *)
(* operand names an earlier member, not a value of the kernel.             *)
Refs(i) == IF i.k = "Fused"
           THEN {v \in UNION {ElemsOf(s.a) : s \in ElemsOf(i.f)} : v > 0}
           ELSE ElemsOf(i.a)
BlockRefs(blk) == UNION {Refs(i) : i \in ElemsOf(blk)}
AllRefs(k) == UNION {BlockRefs(k[b]) : b \in DOMAIN k}

MaxOf(S) == CHOOSE x \in S : \A y \in S : y <= x
(* The greatest ValueId in use, operands and results alike. *)
MaxVid(k) == MaxOf({0} \cup AllRefs(k) \cup {i.r : i \in Instrs(k)})

(* remap_value_ids: every reference found in m is replaced. *)
RemapOperands(a, m) == [n \in DOMAIN a |-> IF a[n] \in DOMAIN m THEN m[a[n]] ELSE a[n]]
Remap(i, m) ==
    IF i.k = "Fused"
    THEN [i EXCEPT !.f = [n \in DOMAIN i.f |->
                            [i.f[n] EXCEPT !.a = RemapOperands(i.f[n].a, m)]]]
    ELSE [i EXCEPT !.a = RemapOperands(i.a, m)]
RemapBlock(blk, m) == [j \in DOMAIN blk |-> Remap(blk[j], m)]

-----------------------------------------------------------------------------
(* The classes the #[...] flags of Op put its variants in. *)
Elementwise == {"BinOp", "UnaryOp", "Cast", "Select"}
CheapAlu == {"BinOp", "Const", "Cast", "Select", "UnaryOp"}
SideEffect == {"Store", "VectorStore", "Barrier", "SetLocal"}
Unpredictable == {"Loop", "If", "Barrier", "DeclareLocal", "SetLocal"}

-----------------------------------------------------------------------------
(* The operands each variant takes, and the blocks it owns.                *)
Arity == [BinOp |-> 2, UnaryOp |-> 1, Cast |-> 1, Select |-> 3, Const |-> 0, Scalar |-> 0,
          Load |-> 1, VectorLoad |-> 1, VectorExtract |-> 1, Store |-> 2, VectorStore |-> 2,
          DeclareLocal |-> 1, SetLocal |-> 1, Barrier |-> 0, If |-> 1, Loop |-> 3, Fused |-> 0]
BlocksOf(kind) == IF kind = "If" THEN {1, 2} ELSE IF kind = "Loop" THEN {1} ELSE {0}
BinOps == {"Add", "Sub", "Mul", "Max", "CmpLt", "CmpGt", "CmpEq"}

IsSeq(s) == s \in Seq(ElemsOf(s))
IsChain(f) == IsSeq(f) /\ \A m \in ElemsOf(f) : DOMAIN m = {"k", "f", "a"} /\ m.a \in Seq(Int)
IsIns(i) ==
    /\ DOMAIN i = {"k", "f", "a", "b", "r"}
    /\ i.k \in DOMAIN Arity
    /\ i.a \in Seq(Nat) /\ Len(i.a) = Arity[i.k]
    /\ i.b \in Seq(Nat) /\ Len(i.b) \in BlocksOf(i.k)
    /\ i.r \in Nat
    /\ i.k = "BinOp" => i.f \in BinOps
    /\ i.k = "Const" => i.f \in Int
    /\ i.k = "Loop" => i.f \in Nat \ {NoResult}
    /\ i.k = "Fused" => IsChain(i.f)
IsKernel(k) ==
    /\ IsFiniteSet(DOMAIN k) /\ DOMAIN k \subseteq Nat /\ Body \in DOMAIN k
    /\ \A b \in DOMAIN k : IsSeq(k[b]) /\ \A i \in ElemsOf(k[b]) : IsIns(i)

(* Static single assignment, "every value is produced once, by one         *)
(* operation" (ir/mod.rs:4): across all blocks no two instructions define  *)
(* the same value.                                                         *)
Sites(k, P(_)) == UNION {{b} \X {j \in DOMAIN k[b] : P(k[b][j])} : b \in DOMAIN k}
Defines(i) == i.r # NoResult
SingleAssignment(k) ==
    \A s, t \in Sites(k, Defines) : k[s[1]][s[2]].r = k[t[1]][t[2]].r => s = t
(* An instruction owns blocks of the kernel made after the one it is in,   *)
(* and no other instruction owns them.                                     *)
Owns(i) == i.b # <<>>
SingleOwner(k) ==
    /\ \A b \in DOMAIN k : \A i \in ElemsOf(k[b]) : ElemsOf(i.b) \subseteq {c \in DOMAIN k : b < c}
    /\ \A s, t \in Sites(k, Owns) :
          ElemsOf(k[s[1]][s[2]].b) \cap ElemsOf(k[t[1]][t[2]].b) # {} => s = t
WellFormed(k) == IsKernel(k) /\ SingleAssignment(k) /\ SingleOwner(k)

-----------------------------------------------------------------------------
(* What one operation computes, in a signed width far above the literals.  *)
Width == 4096
Wrap(x) == ((x + Width \div 2) % Width) - (Width \div 2)
Truth(p) == IF p THEN 1 ELSE 0
Arith(f, x, y) ==
    CASE f = "Add" -> Wrap(x + y)
      [] f = "Sub" -> Wrap(x - y)
      [] f = "Mul" -> Wrap(x * y)
      [] f = "Max" -> IF x > y THEN x ELSE y
      [] f = "CmpLt" -> Truth(x < y)
      [] f = "CmpGt" -> Truth(x > y)
      [] f = "CmpEq" -> Truth(x = y)
=============================================================================
