--------------------------- MODULE MCPassPipeline ---------------------------
(* Kernel bodies of a few statements over every construct the passes touch, *)
(* lowered as the macro lowers them.                                        *)
EXTENDS PassMeaning, DslLowering

X == <<"var", "x">>
Y == <<"var", "y">>
P == <<"var", "p">>
I == <<"var", "i">>
Lit(n) == <<"lit", n>>
Add(a, b) == <<"Add", a, b>>
Let(v, e) == <<"let", v, e>>
StoreAt(i, e) == <<"store", i, e>>
P1 == Add(P, Lit(1))
Load(i) == <<"load", "out", i>>

(* Two neighbouring loads of the input. *)
Pair == Let("x", <<"Add", <<"load", "in", P>>, <<"load", "in", P1>>>>)
Simple == {
    Let("x", Add(X, Lit(0))),
    Let("x", <<"Mul", <<"Add", X, P>>, <<"Add", P, X>>>>),
    Let("x", <<"cast", "narrow", <<"cast", "narrow", X>>>>),
    Let("x", <<"select", <<"flag">>, X, X>>),
    Let("x", <<"select", <<"CmpLt", Lit(1), Lit(2)>>, Y, X>>),
    Let("x", <<"Mul", <<"neg", X>>, <<"neg", P>>>>),
    Pair,
    Let("x", Add(X, <<"acc">>)),
    Let("y", Load(P)),
    Let("x", Add(Y, Load(P1))),
    StoreAt(P, X),
    StoreAt(P1, X),
    <<"barrier">>,
    <<"set", Add(<<"acc">>, X)>>
  }
Loop(hi, step, body) == <<"for", Lit(0), hi, Lit(step), body>>

Prelude == <<Let("p", <<"tid">>), Let("x", <<"load", "in", P>>), <<"mut", X>>, Let("y", P)>>
Final == <<StoreAt(P, Add(Add(X, Y), <<"acc">>))>>

If(t) == <<"if", <<"CmpLt", P, X>>, t>>
IfElse(t, e) == <<"if", <<"flag">>, t, e>>
One(S) == {<<s>> : s \in S}
Two(S, T) == {<<s, t>> : s \in S, t \in T}
Three(S, T, U) == {<<s, t, u>> : s \in S, t \in T, u \in U}

(* Bodies of the statements S: a few in a row, in loops, in ifs, and in an  *)
(* if in an if whose inner arm reads what the outer one computed.           *)
Counting == {Let("x", Add(X, I)), <<"set", Add(<<"acc">>, Add(I, Lit(1)))>>}
Bounds == {<<Lit(2), 1>>, <<Lit(4), 2>>, <<<<"flag">>, 1>>}
Deep(S) == {If(<<s, If(<<StoreAt(P1, X)>>)>>) : s \in S}
ShortIfs(S) == {If(<<s>>) : s \in S} \cup Deep(S)
Ifs(S) == {If(b) : b \in Two(S, S)} \cup {IfElse(<<s>>, <<t>>) : s \in S, t \in S}
ShortLoops(S) == {Loop(h[1], h[2], b) : h \in Bounds, b \in One(S \cup Counting)}
Loops(S) == {Loop(h[1], h[2], b) : h \in Bounds, b \in Two(S \cup Counting, S)}
       \cup {Loop(Lit(2), 1, <<If(<<s>>)>>) : s \in S \cup Counting}
       \cup {Loop(Lit(2), 1, <<Loop(<<"flag">>, 1, b)>>) : b \in Two(S \cup Counting, S)}
Bodies(S) == Three(S, S, S) \cup One(Loops(S) \cup Ifs(S))
             \cup Two(S, ShortLoops(S) \cup ShortIfs(S)) \cup Two(ShortLoops(S), S)

Kernel(body) == Lower(Prelude \o body \o Final)

(* Kernels without the shapes below: a step divides its range; an unrolled *)
(* body declares no local and nests its arms one deep; a body that loads   *)
(* two neighbouring elements of the output, or stores them, does nothing   *)
(* else to it and has no barrier; no loop reads a load merged after it.    *)
AtP  == {Let("y", Load(P)), StoreAt(P, X)}
AtP1 == {Let("x", Add(Y, Load(P1))), StoreAt(P1, X)}
Groups == {AtP \cup {<<"barrier">>}, AtP1 \cup {<<"barrier">>}, {StoreAt(P, X), StoreAt(P1, X)},
           {Let("y", Load(P)), Let("x", Add(Y, Load(P1)))}}
Plain == Simple \ (AtP \cup AtP1 \cup {<<"barrier">>})
PlainBodies(S) == Bodies(S) \ Two(ShortLoops(S), {Pair})
PlainSources == {Kernel(b) : b \in UNION {PlainBodies(Plain \cup g) : g \in Groups}}

-----------------------------------------------------------------------------
(* Kernels that show a pass at fault.                                      *)

(* if_conversion: one store in each arm; a store opposite a value.         *)
StoreEither == <<IfElse(<<StoreAt(P, X)>>, <<StoreAt(P1, X)>>)>>
StoreOrValue == <<IfElse(<<StoreAt(P1, X)>>, <<Let("x", Add(X, P))>>)>>
(* unroll: two iterations, of which the second is less than a step.        *)
PartialStep == <<Loop(Lit(3), 2, <<<<"set", Add(<<"acc">>, Add(I, Lit(1)))>>>>)>>
(* A loop over an arm whose inner arm reads what it computes.              *)
ArmInArm == <<Loop(Lit(2), 1, <<If(<<Let("x", Add(X, I)), If(<<StoreAt(P1, X)>>)>>)>>)>>
(* vectorize: neighbouring loads, the second one's element stored between. *)
StoreBetween == <<Let("y", Load(P)), StoreAt(P1, X), Let("x", Add(Y, Load(P1)))>>
(* Neighbours but for the order of a subtraction.                          *)
Swapped == <<Let("q", <<"Sub", X, P>>),
             Let("y", <<"load", "in", <<"Sub", P, X>>>>),
             Let("y", Add(Y, <<"load", "in", Add(<<"var", "q">>, Lit(1))>>)),
             Let("x", Add(Y, <<"var", "q">>))>>
(* Three neighbouring stores of one value.                                 *)
Fill == <<StoreAt(P, X), StoreAt(P1, X), StoreAt(Add(P, Lit(2)), X)>>
(* A load that a loop reads, merged with its neighbour below the loop.     *)
ReadInLoop == <<Loop(<<"flag">>, 1, <<<<"set", Add(<<"acc">>, X)>>>>), Pair>>
FaultySources == {Kernel(b) : b \in {StoreEither, StoreOrValue, PartialStep, ArmInArm,
                                     StoreBetween, Swapped, Fill, ReadInLoop}}
=============================================================================
