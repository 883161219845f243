---------------------------- MODULE KernelMeaning ----------------------------
(***************************************************************************)
(* What a kernel in the intermediate representation computes.              *)
(*                                                                         *)
(* The meaning is the one the emitted shader has: a value or a local is a  *)
(* variable of the C scope its block becomes, so a reference outside that  *)
(* scope, or a second declaration in one scope, does not compile; what a   *)
(* nested scope declares disappears at its end.                            *)
(***************************************************************************)
EXTENDS KernelIR

(* The narrow dtype keeps three bits: a cast to it loses information. *)
Converted(f, x) == IF f = "narrow" THEN x % 8 ELSE x
Pure(k, f, x) ==
    CASE k = "BinOp" -> Arith(f, x[1], x[2])
      [] k = "UnaryOp" -> Wrap(0 - x[1])
      [] k = "Cast" -> Converted(f, x[1])
      [] k = "Select" -> IF x[1] # 0 THEN x[2] ELSE x[3]
      [] k = "Const" -> f

(***************************************************************************)
(* Whether the scopes are right from instruction pos of block b on: scope  *)
(* is what can be named there, own what this block already declared.       *)
(***************************************************************************)
Declares(i) == {i.r, IF i.k = "DeclareLocal" THEN i.f ELSE NoResult} \ {NoResult}
Names(i) == Refs(i) \cup (IF i.k \in {"Scalar", "SetLocal"} THEN {i.f} ELSE {})
Binds(i) == IF i.k = "Loop" THEN {i.f} ELSE {}

RECURSIVE InScope(_, _, _, _, _)
InScope(k, b, pos, scope, own) ==
    \/ b \notin DOMAIN k
    \/ pos > Len(k[b])
    \/ LET i == k[b][pos]
           d == Declares(i)
       IN /\ Names(i) \subseteq scope
          /\ d \cap own = {}
          /\ \A n \in ElemsOf(i.b) : InScope(k, n, 1, scope \cup Binds(i), Binds(i))
          /\ InScope(k, b, pos + 1, scope \cup d, own \cup d)
Compiles(k) == InScope(k, Body, 1, {Tid, Flag}, {})

(***************************************************************************)
(* One thread running a kernel. env: what is in scope; own: what the       *)
(* current scope declared; mem: the buffers, whose few cells wrap around.  *)
(* A barrier lets the other threads' writes to the output be seen, so no   *)
(* load or store may cross it.                                             *)
(***************************************************************************)
Cells == 0..3
Cell(x) == x % 4
Others(out) == [c \in Cells |-> out[c] + 11]

Start(tid, flag) ==
    [env |-> (Tid :> tid) @@ (Flag :> flag), own |-> {},
     mem |-> [in |-> [c \in Cells |-> 3 + 5 * c], out |-> [c \in Cells |-> 20 - 3 * c]]]

Declare(m, v, x) == IF v = NoResult THEN m
                    ELSE [m EXCEPT !.env = (v :> x) @@ @, !.own = @ \cup {v}]

(* The value of a fused chain: each member sees the earlier ones. *)
FusedValue(i, env) ==
    LET val[n \in DOMAIN i.f] ==
          Pure(i.f[n].k, i.f[n].f,
               [j \in DOMAIN i.f[n].a |-> IF i.f[n].a[j] < 0 THEN val[-i.f[n].a[j]]
                                          ELSE env[i.f[n].a[j]]])
    IN val[Len(i.f)]

(* The emitted vector type: two lanes or four. *)
Lanes(len) == IF len = 2 THEN 2 ELSE 4

RECURSIVE Exec(_, _, _, _), Iterate(_, _, _, _)

(* Block b run in a scope of its own that starts with the bindings given. *)
Scope(k, b, m, bind) ==
    LET x == IF b \in DOMAIN k
             THEN Exec(k, b, 1, [m EXCEPT !.own = DOMAIN bind, !.env = bind @@ @])
             ELSE m
    IN [x EXCEPT !.own = m.own,
                 !.env = [v \in DOMAIN m.env |-> IF v \in x.own THEN m.env[v] ELSE x.env[v]]]

Iterate(k, i, m, n) ==
    IF n < m.env[i.a[2]]
    THEN Iterate(k, i, Scope(k, i.b[1], m, i.f :> n), n + m.env[i.a[3]])
    ELSE m

Step(k, i, m) ==
    LET x(n) == m.env[i.a[n]]
        buf == i.f[1]
        at(n) == m.mem[buf][Cell(x(1) + n)]
    IN CASE i.k \in Elementwise \cup {"Const"} ->
              Declare(m, i.r, Pure(i.k, i.f, [n \in DOMAIN i.a |-> x(n)]))
         [] i.k = "Fused" -> Declare(m, i.r, FusedValue(i, m.env))
         [] i.k = "Scalar" -> Declare(m, i.r, m.env[i.f])
         [] i.k = "Load" -> Declare(m, i.r, at(0))
         [] i.k = "VectorLoad" -> Declare(m, i.r, [n \in 1..Lanes(i.f[2]) |-> at(n - 1)])
         [] i.k = "VectorExtract" -> Declare(m, i.r, x(1)[i.f])
         [] i.k = "Store" -> [m EXCEPT !.mem[buf][Cell(x(1))] = x(2)]
         [] i.k = "VectorStore" ->
              [m EXCEPT !.mem[buf] =
                 [c \in Cells |-> IF \E n \in 0..Lanes(i.f[2]) - 1 : c = Cell(x(1) + n)
                                  THEN x(2) ELSE @[c]]]
         [] i.k = "DeclareLocal" -> Declare(m, i.f, x(1))
         [] i.k = "SetLocal" -> [m EXCEPT !.env[i.f] = x(1)]
         [] i.k = "Barrier" -> [m EXCEPT !.mem.out = Others(@)]
         [] i.k = "If" ->
              IF x(1) # 0 THEN Scope(k, i.b[1], m, <<>>)
              ELSE IF Len(i.b) = 2 THEN Scope(k, i.b[2], m, <<>>) ELSE m
         [] i.k = "Loop" -> Iterate(k, i, m, x(1))

Exec(k, b, pos, m) ==
    IF pos > Len(k[b]) THEN m ELSE Exec(k, b, pos + 1, Step(k, k[b][pos], m))

(* What the kernel computes: its output for some threads and params, or    *)
(* nothing when it does not compile.                                       *)
Threads == {<<0, 1>>, <<1, 0>>, <<2, 3>>}
Meaning(k) ==
    [t \in Threads |-> IF Compiles(k)
                       THEN <<Exec(k, Body, 1, Start(t[1], t[2])).mem.out>>
                       ELSE <<>>]
=============================================================================
