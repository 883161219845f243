------------------------------- MODULE Passes -------------------------------
(***************************************************************************)
(* The optimisation passes of metaltile-codegen (passes/), each an         *)
(* operator from a kernel to the kernel its run() leaves behind, the       *)
(* dead-value sweep it ends with included.                                 *)
(***************************************************************************)
EXTENDS KernelIR, SequencesExt

CONSTANTS
    MaxRounds,      \* rounds a rewriting is given to come to rest (no cap in the code)
    UnrollFactor,   \* the longest trip count unroll takes (16 in the code)
    MaxVecRun,      \* MAX_VEC_RUN: the widest vector access (4)
    VecScanWindow   \* VEC_SCAN_WINDOW: how far a run is looked for (8)
ASSUME MaxRoundsAssumption == MaxRounds \in Nat

Nested(k) == DOMAIN k \ {Body}
(* A set of positive numbers in order. *)
Ascending(S) == FlattenSeq([n \in 1..MaxOf({0} \cup S) |-> IF n \in S THEN <<n>> ELSE <<>>])
Descending(S) == Reverse(Ascending(S))
Count(n) == [h \in 1..n |-> h]

(* blk with every instruction replaced by a sequence of them. *)
Splice(blk, New(_)) == FlattenSeq([j \in DOMAIN blk |-> New(j)])
(* Instructions of blk that satisfy Keep. *)
Only(blk, Keep(_)) == FlattenSeq([j \in DOMAIN blk |-> IF Keep(blk[j]) THEN <<blk[j]>> ELSE <<>>])

(* find_const: the literals that define v in blk (one at most). *)
Consts(blk, v) == {i.f : i \in {j \in ElemsOf(blk) : j.r = v /\ j.k = "Const"}}
Literal(n, r) == Ins("Const", n, <<>>, <<>>, r)

NoMap == [v \in {} |-> v]
(* What Away says of the instructions of blk, as a map. *)
AwayMap(blk, Away(_, _)) ==
    [v \in {i.r : i \in {j \in ElemsOf(blk) : Away(blk, j) # {}}} |->
       CHOOSE w \in UNION {Away(blk, i) : i \in {j \in ElemsOf(blk) : j.r = v}} : TRUE]

-----------------------------------------------------------------------------
(* dead_value_elim *)
IndexedLoad(i) == i.k = "Load"
MaxSweeps == 16

Sweep(k, n) ==
    LET used == AllRefs(k)
        live(i) == i.r = NoResult \/ i.k \in SideEffect \/ IndexedLoad(i) \/ i.r \in used
    IN IF \A i \in Instrs(k) : live(i) THEN k ELSE [b \in DOMAIN k |-> Only(k[b], live)]
EliminateDeadValues(k) ==
    IF \E i \in Instrs(k) : i.k \in SideEffect THEN FoldLeft(Sweep, k, Count(MaxSweeps)) ELSE k

-----------------------------------------------------------------------------
(* const_fold *)
EvalBinop(f, x, y) == Arith(f, x, y)

(* The literal instruction i folds to, given the constants of its block. *)
FoldedTo(blk, i) ==
    LET C(n) == Consts(blk, i.a[n])
    IN IF i.k = "BinOp"
       THEN {EvalBinop(i.f, x, y) : x \in C(1), y \in C(2)}
            \cup (IF i.f = "Mul" /\ 0 \in C(1) \cup C(2) THEN {0} ELSE {})
       ELSE IF i.k = "UnaryOp" THEN {0 - x : x \in C(1)} ELSE {}
(* The operand a neutral element makes i equal to. *)
FoldedAway(blk, i) ==
    LET C(n) == Consts(blk, i.a[n])
        neutral == IF i.f = "Mul" THEN 1 ELSE 0
    IN IF i.k # "BinOp" \/ i.f \notin {"Add", "Sub", "Mul"} \/ FoldedTo(blk, i) # {} THEN {}
       ELSE IF neutral \in C(1) /\ i.f # "Sub" THEN {i.a[2]}
       ELSE IF neutral \in C(2) THEN {i.a[1]} ELSE {}

(* The uses of a folded-away value change in its own block only; the       *)
(* instruction stays, for the other blocks and the sweep.                  *)
FoldBlock(blk) ==
    LET folded(i) == IF FoldedTo(blk, i) = {} THEN i
                     ELSE Literal(CHOOSE n \in FoldedTo(blk, i) : TRUE, i.r)
    IN RemapBlock([j \in DOMAIN blk |-> folded(blk[j])], AwayMap(blk, FoldedAway))

(* dce_block, on the nested blocks only: what no block reads goes. *)
ConstFold(k) ==
    LET folded == [b \in DOMAIN k |-> FoldBlock(k[b])]
        refs == AllRefs(folded)
        used(i) == i.r = NoResult \/ i.r \in refs
    IN EliminateDeadValues([b \in DOMAIN k |-> IF b = Body THEN folded[b] ELSE Only(folded[b], used)])

-----------------------------------------------------------------------------
(* resolve_transitive and the rewriting algebraic_simplify and copy_prop   *)
(* share: within the block, uses of the replaced values are redirected and *)
(* their instructions removed.                                             *)
Redirected(map, v) == IF v \in DOMAIN map THEN map[v] ELSE v
Terminal(map, v) ==
    LET follow(w, n) == Redirected(map, w)
    IN FoldLeft(follow, v, Count(Cardinality(DOMAIN map)))
Transitive(map) == [v \in DOMAIN map |-> Terminal(map, v)]
Redirect(blk, map) ==
    LET kept(i) == i.r \notin DOMAIN map
    IN Only(RemapBlock(blk, Transitive(map)), kept)

(* algebraic_simplify: the instruction that replaces i (i when none does) *)
DefinedBy(blk, v, Is(_)) == {i \in ElemsOf(blk) : i.r = v /\ Is(i)}
IsNeg(i) == i.k = "UnaryOp"
IsNot(blk, i) == i.k = "BinOp" /\ i.f = "CmpEq" /\ 0 \in Consts(blk, i.a[1]) \cup Consts(blk, i.a[2])
Negated(blk, v) == {i.a[1] : i \in DefinedBy(blk, v, IsNeg)}
Inverted(blk, v) ==
    LET not(i) == IsNot(blk, i)
    IN {IF 0 \in Consts(blk, i.a[2]) THEN i.a[1] ELSE i.a[2] : i \in DefinedBy(blk, v, not)}
Simplified(blk, i) ==
    LET same == i.a[1] = i.a[2]
        neg == [n \in 1..2 |-> Negated(blk, i.a[n])]
        not == Inverted(blk, i.a[1])
    IN CASE i.k = "BinOp" /\ i.f = "Sub" /\ same -> Literal(0, i.r)
         [] i.k = "BinOp" /\ i.f = "Sub" /\ ~same /\ 0 \in Consts(blk, i.a[1]) ->
              Ins("UnaryOp", "Neg", <<i.a[2]>>, <<>>, i.r)
         [] i.k = "BinOp" /\ i.f = "Mul" /\ neg[1] # {} /\ neg[2] # {} ->
              [i EXCEPT !.a = [n \in 1..2 |-> CHOOSE v \in neg[n] : TRUE]]
         [] i.k = "BinOp" /\ i.f = "CmpLt" -> [i EXCEPT !.f = "CmpGt", !.a = Reverse(@)]
         [] i.k = "BinOp" /\ i.f = "CmpEq" /\ same -> Literal(1, i.r)
         [] i.k = "Select" /\ i.a[2] # i.a[3] /\ not # {} /\ Consts(blk, i.a[1]) \cap {0, 1} = {} ->
              [i EXCEPT !.a = <<CHOOSE v \in not : TRUE, i.a[3], i.a[2]>>]
         [] OTHER -> i
(* The operand a value can be replaced by. *)
SimplifiedAway(blk, i) ==
    IF i.k = "BinOp" /\ i.f = "Max" /\ i.a[1] = i.a[2] THEN {i.a[1]}
    ELSE IF i.k # "Select" THEN {}
    ELSE IF 1 \in Consts(blk, i.a[1]) THEN {i.a[2]}
    ELSE IF 0 \in Consts(blk, i.a[1]) THEN {i.a[3]}
    ELSE IF i.a[2] = i.a[3] THEN {i.a[2]} ELSE {}

SimplifyOnce(blk, n) ==
    LET away == AwayMap(blk, SimplifiedAway)
        map == IF DOMAIN away \cap BlockRefs(blk) = {} THEN NoMap ELSE away
    IN Redirect([j \in DOMAIN blk |-> Simplified(blk, blk[j])], map)
SimplifyBlock(blk) == FoldLeft(SimplifyOnce, blk, Count(MaxRounds))
AlgebraicSimplify(k) == EliminateDeadValues([b \in DOMAIN k |-> SimplifyBlock(k[b])])

-----------------------------------------------------------------------------
(* copy_prop: a cast to the dtype its operand was just cast to, a select   *)
(* between a value and itself.                                             *)
Identity(blk, i) ==
    IF \/ i.k = "Select" /\ i.a[2] = i.a[3]
       \/ i.k = "Cast" /\ \E j \in ElemsOf(blk) : j.r = i.a[1] /\ j.k = "Cast" /\ j.f = i.f
    THEN {IF i.k = "Select" THEN i.a[2] ELSE i.a[1]} ELSE {}

CopyPropOnce(blk, n) ==
    LET map == AwayMap(blk, Identity)
    IN IF DOMAIN map = {} THEN blk ELSE Redirect(blk, map)
CopyPropBlock(blk) == FoldLeft(CopyPropOnce, blk, Count(MaxRounds))
CopyProp(k) == EliminateDeadValues([b \in DOMAIN k |-> CopyPropBlock(k[b])])

-----------------------------------------------------------------------------
(* cse *)
ReadOnly == {<<"in">>}      \* parameters that are not outputs
Commutative == {"Add", "Mul", "Max", "CmpEq"}
Keys_AnyLoad(i) ==
    IF i.k \in Elementwise \/ i.k = "Load"
    THEN {<<i.k, i.f, IF i.f \in Commutative /\ i.a[1] > i.a[2] THEN Reverse(i.a) ELSE i.a>>}
    ELSE {}
Keys(i) ==
    IF i.k \in Elementwise \/ (i.k = "Load" /\ i.f \in ReadOnly)
    THEN {<<i.k, i.f, IF i.f \in Commutative /\ i.a[1] > i.a[2] THEN Reverse(i.a) ELSE i.a>>}
    ELSE {}
(* A value whose key an earlier instruction of the block has: that one's. *)
Duplicates(blk) ==
    LET firsts(j) == {h \in 1..j : Keys(blk[h]) = Keys(blk[j])}
        dup == {j \in DOMAIN blk : Keys(blk[j]) # {} /\ firsts(j) # {j}}
    IN [v \in {blk[j].r : j \in dup} |->
          LET j == CHOOSE j \in dup : blk[j].r = v
          IN blk[CHOOSE h \in firsts(j) : \A g \in firsts(j) : h <= g].r]
(* cse_block, and its remap carried to every other block *)
CseBlock(k, b) ==
    LET map == Duplicates(k[b])
        kept(i) == i.r \notin DOMAIN map
    IN [c \in DOMAIN k |-> IF c = b THEN Only(RemapBlock(k[c], map), kept)
                           ELSE RemapBlock(k[c], map)]
Cse(k) == EliminateDeadValues(FoldLeft(CseBlock, k, <<Body>> \o Ascending(Nested(k))))

-----------------------------------------------------------------------------
(* licm *)
PureOp_OrLoad(i) == i.k \in Elementwise \cup CheapAlu \/ i.k = "Load"
PureOp(i) == i.k \in Elementwise \cup CheapAlu \/ (i.k = "Load" /\ i.f \in ReadOnly)
Hoistable(i, inv) == PureOp(i) /\ i.r # NoResult /\ Refs(i) \subseteq inv

(* The values of body that depend on inv only: a round over body finds one *)
(* more, or there is none. *)
Invariants(body, inv) ==
    LET more(found, n) == found \cup {i.r : i \in {j \in ElemsOf(body) : Hoistable(j, found)}}
    IN FoldLeft(more, inv, Count(Len(body)))

(* The block that defines each value when the pass starts. *)
DefBlocks(k) == [v \in UNION {Defs(k[b]) : b \in DOMAIN k} |->
                   CHOOSE b \in DOMAIN k : v \in Defs(k[b])]
(* What is invariant in the loop at position j of block b. *)
LoopInvariants(k, def, b, j) ==
    LET loop == k[b][j]
        body == k[loop.b[1]]
        before == {k[b][n].r : n \in 1..j - 1} \ {NoResult}
        outer == {v \in BlockRefs(body) : v \in DOMAIN def /\ def[v] < loop.b[1]}
    IN Invariants(body, (before \cup outer) \ {loop.f})

IsLoop(k, i) == i.k = "Loop" /\ i.b[1] \in DOMAIN k
LicmBlock(def, k, b) ==
    LET inv(j) == LoopInvariants(k, def, b, j)
        loops == {j \in DOMAIN k[b] : IsLoop(k, k[b][j])}
        hoisted(j) == LET out(i) == Hoistable(i, inv(j)) IN Only(k[k[b][j].b[1]], out)
        left(j) == LET in(i) == ~Hoistable(i, inv(j)) IN Only(k[k[b][j].b[1]], in)
        moved(j) == IF j \in loops THEN Append(hoisted(j), k[b][j]) ELSE <<k[b][j]>>
        owner(c) == {j \in loops : k[b][j].b[1] = c}
    IN [c \in DOMAIN k |-> IF c = b THEN Splice(k[b], moved)
                           ELSE IF owner(c) # {} THEN left(CHOOSE j \in owner(c) : TRUE)
                           ELSE k[c]]
(* Inner blocks first, the entry block last. *)
Licm(k) ==
    LET step(kk, b) == LicmBlock(DefBlocks(k), kk, b)
    IN EliminateDeadValues(FoldLeft(step, k, Append(Descending(Nested(k)), Body)))

-----------------------------------------------------------------------------
(* if_conversion *)
MaxDiamondOps == 8
Predictable(blk) == \A i \in ElemsOf(blk) : i.k \notin Unpredictable
(* Two arms of predictable operations, few enough. *)
Convertible(k, i) ==
    /\ i.k = "If" /\ Len(i.b) = 2
    /\ \A n \in 1..2 : i.b[n] \in DOMAIN k /\ Predictable(k[i.b[n]])
    /\ Len(k[i.b[1]]) + Len(k[i.b[2]]) <= MaxDiamondOps
(* inline_diamond_as_selects: the arms walked in step. Two values become a *)
(* select that defines nothing, two stores stay, anything else is dropped. *)
InlineDiamond(k, i) ==
    LET t == k[i.b[1]]
        e == k[i.b[2]]
        pair(j) ==
            IF t[j].r # NoResult /\ e[j].r # NoResult
            THEN <<Ins("Select", "", <<i.a[1], t[j].r, e[j].r>>, <<>>, NoResult)>>
            ELSE IF t[j].r = NoResult /\ e[j].r = NoResult THEN <<t[j], e[j]>> ELSE <<>>
    IN FlattenSeq([j \in 1..(IF Len(t) < Len(e) THEN Len(t) ELSE Len(e)) |-> pair(j)])
IfConvertBlock(k, b) ==
    IF b \notin DOMAIN k THEN k
    ELSE LET new(j) == IF Convertible(k, k[b][j]) THEN InlineDiamond(k, k[b][j]) ELSE <<k[b][j]>>
             gone == UNION {ElemsOf(i.b) : i \in {x \in ElemsOf(k[b]) : Convertible(k, x)}}
         IN [c \in DOMAIN k \ gone |-> IF c = b THEN Splice(k[b], new) ELSE k[c]]
IfConversion(k) ==
    EliminateDeadValues(FoldLeft(IfConvertBlock, k, <<Body>> \o Descending(Nested(k))))

-----------------------------------------------------------------------------
(* value_sink *)
(* The places where instruction i reads v, those inside a chain included.  *)
OperandSites(i, v) ==
    IF i.k = "Fused"
    THEN UNION {{<<m, n>> : n \in {x \in DOMAIN i.f[m].a : i.f[m].a[x] = v}} : m \in DOMAIN i.f}
    ELSE {<<0, n>> : n \in {x \in DOMAIN i.a : i.a[x] = v}}
UseSites(blk, v) == UNION {{j} \X OperandSites(blk[j], v) : j \in DOMAIN blk}
UsesOnce(k, v) ==
    LET sites == UNION {{b} \X UseSites(k[b], v) : b \in DOMAIN k}
    IN \E s \in sites : sites = {s}
(* Where the instruction at j sinks to: just before its only use, if that  *)
(* is further down the same block with something in between, no barrier.   *)
SinkTo(k, blk, j) ==
    IF blk[j].k \notin CheapAlu \/ ~UsesOnce(k, blk[j].r) THEN {}
    ELSE {n \in DOMAIN blk : /\ n > j + 1
                             /\ blk[j].r \in Refs(blk[n])
                             /\ \A h \in j + 1..n - 1 : blk[h].k # "Barrier"}
SinkBlock(k, blk) ==
    LET arrive(n) == Ascending({j \in DOMAIN blk : n \in SinkTo(k, blk, j)})
        new(n) == [h \in DOMAIN arrive(n) |-> blk[arrive(n)[h]]]
                  \o (IF SinkTo(k, blk, n) = {} THEN <<blk[n]>> ELSE <<>>)
    IN Splice(blk, new)
ValueSink(k) == EliminateDeadValues([b \in DOMAIN k |-> SinkBlock(k, k[b])])

-----------------------------------------------------------------------------
(* fusion *)
(* The positions of the chain that ends at cur, producers first: each      *)
(* member's first operand comes from an elementwise instruction above it   *)
(* that nothing else reads.                                                *)
Feeds(blk, fused, pinned, p, v) ==
    /\ blk[p].r = v /\ blk[p].k \in Elementwise
    /\ p \notin fused /\ v \notin pinned
    /\ Cardinality(UseSites(blk, v)) = 1
Longer(blk, fused, pinned, c, p) ==
    IF Feeds(blk, fused, pinned, p, blk[Head(c)].a[1]) THEN <<p>> \o c ELSE c
Chain(blk, cur, fused, pinned) ==
    LET extend(c, p) == Longer(blk, fused, pinned, c, p)
    IN FoldLeft(extend, <<cur>>, Reverse(Count(cur - 1)))
(* The chains of a block, found from its end. *)
WithChain(blk, pinned, st, j) ==
    LET c == IF blk[j].k \in Elementwise /\ j \notin st.fused
             THEN Chain(blk, j, st.fused, pinned) ELSE <<j>>
    IN IF Len(c) >= 2 /\ blk[j].r \notin pinned
       THEN [chains |-> st.chains \cup {c}, fused |-> st.fused \cup ElemsOf(c)] ELSE st
Chains(blk, pinned) ==
    LET grow(st, j) == WithChain(blk, pinned, st, j)
    IN FoldLeft(grow, [chains |-> {}, fused |-> {}], Reverse(Count(Len(blk)))).chains
(* FusedElementwise: a member's value is known to the later ones by its    *)
(* place in the chain (sub_op_ref).                                        *)
FusedOp(blk, c) ==
    LET member(n, v) == {p \in 1..n - 1 : blk[c[p]].r = v}
        operand(n, v) == IF member(n, v) = {} THEN v ELSE -(CHOOSE p \in member(n, v) : TRUE)
        sub(n) == LET i == blk[c[n]] IN
                  [k |-> i.k, f |-> i.f, a |-> [h \in DOMAIN i.a |-> operand(n, i.a[h])]]
    IN Ins("Fused", [n \in DOMAIN c |-> sub(n)], <<>>, <<>>, blk[Last(c)].r)
FuseBlock(blk, pinned) ==
    LET chains == Chains(blk, pinned)
        of(j) == {c \in chains : j \in ElemsOf(c)}
        new(j) == IF of(j) = {} THEN <<blk[j]>>
                  ELSE LET c == CHOOSE x \in of(j) : TRUE
                       IN IF j = Last(c) THEN <<FusedOp(blk, c)>> ELSE <<>>
    IN Splice(blk, new)
(* A value another block reads is pinned: it stays a variable of its own. *)
Fusion(k) ==
    LET pinned(b) == UNION {BlockRefs(k[c]) : c \in DOMAIN k \ {b}}
    IN EliminateDeadValues([b \in DOMAIN k |-> FuseBlock(k[b], pinned(b))])

-----------------------------------------------------------------------------
(* unroll *)
(* The blocks the instructions of a block own, and those it owns at every  *)
(* depth: the least set that has them.                                     *)
Children(k, b) == UNION {ElemsOf(i.b) : i \in ElemsOf(k[b])}
Owned(k, b) ==
    LET closed(S) == \A c \in S \cup {b} : Children(k, c) \cap DOMAIN k \subseteq S
    IN {c \in DOMAIN k : \A S \in SUBSET DOMAIN k : closed(S) => c \in S}
LoopOrBarrierIn(k, b) ==
    \E c \in {b} \cup Owned(k, b) : \E i \in ElemsOf(k[c]) : i.k \in {"Loop", "Barrier"}
(* The trips a loop of blk makes, when its bounds are literals there. *)
TripCount_Inclusive(blk, i) ==
    {(e - s) \div d + 1 : s \in Consts(blk, i.a[1]), e \in Consts(blk, i.a[2]),
                          d \in {x \in Consts(blk, i.a[3]) : x > 0}}
TripCount(blk, i) ==
    {(e - s) \div d : s \in Consts(blk, i.a[1]), e \in Consts(blk, i.a[2]),
                      d \in {x \in Consts(blk, i.a[3]) : x > 0}}
Unrollable(k, blk, i) ==
    /\ IsLoop(k, i) /\ ~LoopOrBarrierIn(k, i.b[1])
    /\ \E n \in TripCount(blk, i) : 0 < n /\ n <= UnrollFactor

(* One iteration's copy of instruction i: values renamed by map, results   *)
(* by it too, owned blocks moved up by bs.                                 *)
CloneIns(i, map, bs) ==
    [Remap(i, map) EXCEPT !.r = IF @ \in DOMAIN map THEN map[@] ELSE @,
                          !.b = [n \in DOMAIN @ |-> @[n] + bs]]
(* Iteration n of loop i of st.blk, appended to st.out. Fresh ids are the  *)
(* old ones moved past every id in use. The copy of an owned block is      *)
(* renamed by the body's map and by its own results, not by those of the   *)
(* block around it.                                                        *)
CloneIteration(st, i, n) ==
    LET k == st.k
        body == i.b[1]
        start == CHOOSE s \in Consts(st.blk, i.a[1]) : TRUE
        step == CHOOSE d \in Consts(st.blk, i.a[3]) : TRUE
        fresh(S) == [v \in S \cup {i.f} |-> IF v \in S THEN v + st.vs ELSE st.vs]
        map == fresh(Defs(k[body]))
        inner(c) == fresh(Defs(k[body]) \cup Defs(k[c]))
        clone(c, m) == [j \in DOMAIN k[c] |-> CloneIns(k[c][j], m, st.bs)]
        copies == {c + st.bs : c \in Owned(k, body)}
    IN [st EXCEPT
          !.k = [c \in DOMAIN k \cup copies |->
                   IF c \in copies THEN clone(c - st.bs, inner(c - st.bs)) ELSE k[c]],
          !.out = @ \o <<Literal(start + n * step, st.vs)>> \o clone(body, map),
          !.vs = 2 * @, !.bs = 2 * @]

Iterations(st, i, trips) ==
    LET clone(s, n) == CloneIteration(s, i, n - 1)
    IN FoldLeft(clone, st, Count(trips))
UnrollIns(st, i) ==
    IF ~Unrollable(st.k, st.blk, i) THEN [st EXCEPT !.out = Append(@, i)]
    ELSE LET st2 == Iterations(st, i, CHOOSE n \in TripCount(st.blk, i) : TRUE)
         IN [st2 EXCEPT !.k = [c \in DOMAIN st2.k \ {i.b[1]} |-> st2.k[c]]]
UnrollBlock(st, b) ==
    IF b \notin DOMAIN st.k THEN st
    ELSE LET st2 == FoldLeft(UnrollIns, [st EXCEPT !.blk = st.k[b], !.out = <<>>], st.k[b])
         IN [st2 EXCEPT !.k[b] = st2.out]
Unroll(k) ==
    LET st == [k |-> k, blk |-> <<>>, out |-> <<>>, vs |-> MaxVid(k) + LoopValue(1),
               bs |-> MaxOf(DOMAIN k) + 1]
    IN EliminateDeadValues(FoldLeft(UnrollBlock, st, <<Body>> \o Ascending(Nested(k))).k)

-----------------------------------------------------------------------------
(* vectorize *)
(* find_const and find_op look in the block, find_const in the entry block *)
(* too.                                                                    *)
ConstsHere(k, b, v) == Consts(k[b], v) \cup (IF Consts(k[b], v) = {} THEN Consts(k[Body], v) ELSE {})
IsAdd(i) == i.k = "BinOp" /\ i.f = "Add"
(* decompose_index: index v as <<base, literal offset>> *)
Decomposed(k, b, v) ==
    LET add == DefinedBy(k[b], v, IsAdd)
        lit(n) == {<<i.a[3 - n], c>> : i \in add, c \in UNION {ConstsHere(k, b, j.a[n]) : j \in add}}
    IN IF lit(2) # {} THEN CHOOSE x \in lit(2) : TRUE
       ELSE IF lit(1) # {} THEN CHOOSE x \in lit(1) : TRUE ELSE <<v, 0>>
IsBinOp(i) == i.k = "BinOp"
IndexEq(blk, v, w) ==
    \/ v = w
    \/ \E i \in DefinedBy(blk, v, IsBinOp), j \in DefinedBy(blk, w, IsBinOp) :
          i.f = j.f /\ (i.a = j.a \/ i.a = Reverse(j.a))

(* Whether the access at j goes on with the run: same base, next offset.   *)
Follows_Anywhere(k, b, run, j) ==
    LET blk == k[b]
    IN IndexEq(blk, Decomposed(k, b, blk[j].a[1])[1], Decomposed(k, b, blk[Head(run)].a[1])[1])
Follows(k, b, run, j) ==
    LET blk == k[b]
        i == Decomposed(k, b, blk[Head(run)].a[1])
        d == Decomposed(k, b, blk[j].a[1])
    IN IndexEq(blk, d[1], i[1]) /\ d[2] = i[2] + Len(run)

(* The run of accesses like the one at h, looked for below it: other       *)
(* instructions are stepped over, an access out of line ends it.           *)
Extended(k, b, h, skip, st, j) ==
    LET blk == k[b]
        alike == j \notin skip /\ blk[j].k = blk[h].k /\ blk[j].f = blk[h].f
    IN IF st.ended \/ Len(st.run) = MaxVecRun \/ ~alike THEN st
       ELSE IF Follows(k, b, st.run, j) THEN [st EXCEPT !.run = Append(@, j)]
       ELSE [st EXCEPT !.ended = TRUE]
Window(blk, h) == {j \in DOMAIN blk : h < j /\ j <= h + VecScanWindow}
RunFrom(k, b, h, skip) ==
    LET extend(st, j) == Extended(k, b, h, skip, st, j)
    IN FoldLeft(extend, [run |-> <<h>>, ended |-> FALSE], Ascending(Window(k[b], h))).run
(* The runs of two or more; the stores of one must all write the same      *)
(* value.                                                                  *)
WithRun(k, b, kind, st, j) ==
    LET blk == k[b]
        run == IF blk[j].k = kind /\ j \notin st.skip THEN RunFrom(k, b, j, st.skip) ELSE <<j>>
        same == kind = "Store" => \A n \in DOMAIN run : blk[run[n]].a[2] = blk[Head(run)].a[2]
    IN IF Len(run) >= 2 /\ same
       THEN [runs |-> st.runs \cup {run}, skip |-> st.skip \cup ElemsOf(run)] ELSE st
Runs(k, b, kind) ==
    LET collect(st, j) == WithRun(k, b, kind, st, j)
    IN FoldLeft(collect, [runs |-> {}, skip |-> {}], Count(Len(k[b]))).runs

(* The first id no instruction of the kernel defines.                      *)
NextVid_OfBlock(k, b) == MaxOf({i.r : i \in ElemsOf(k[b])} \cup {0}) + 1
NextVid(k, b) == MaxOf({i.r : i \in Instrs(k)} \cup {0}) + 1

(* A run of loads becomes one vector load at its head and an extract where *)
(* each load was; a run of stores one vector store at its head. Fresh ids  *)
(* start at top.                                                           *)
Merge(blk, runs, top) ==
    LET of(j) == {run \in runs : j \in ElemsOf(run)}
        vec(run) == top + Head(run)
        lane(j) == top + Len(blk) + j
        merged(j, run) ==
            LET width == <<blk[j].f[1], Len(run)>>
                head == j = Head(run)
                place == CHOOSE n \in DOMAIN run : run[n] = j
                extract == Ins("VectorExtract", place, <<vec(run)>>, <<>>, lane(j))
            IN CASE blk[j].k = "Load" /\ head ->
                      <<Ins("VectorLoad", width, blk[j].a, <<>>, vec(run)), extract>>
                 [] blk[j].k = "Load" /\ ~head -> <<extract>>
                 [] blk[j].k = "Store" /\ head ->
                      <<Ins("VectorStore", width, blk[j].a, <<>>, NoResult)>>
                 [] OTHER -> <<>>
        new(j) == IF of(j) = {} THEN <<blk[j]>> ELSE merged(j, CHOOSE run \in of(j) : TRUE)
        loaded == {j \in UNION {ElemsOf(run) : run \in runs} : blk[j].k = "Load"}
        map == [v \in {blk[j].r : j \in loaded} |-> lane(CHOOSE j \in loaded : blk[j].r = v)]
    IN RemapBlock(Splice(blk, new), map)
VectorizeBlock(k, b) ==
    LET runs == UNION {Runs(k, b, kind) : kind \in {"Load", "Store"}}
    IN [k EXCEPT ![b] = Merge(k[b], runs, NextVid(k, b))]
(* Nested blocks look literals up in the entry block as it was. *)
Vectorize(k) ==
    EliminateDeadValues(FoldLeft(VectorizeBlock, k, Append(Ascending(Nested(k)), Body)))
=============================================================================
