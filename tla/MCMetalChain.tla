---------------------------- MODULE MCMetalChain ----------------------------
EXTENDS MetalChain, TLC

CONSTANTS h1

In(name, len) == Param(name, FALSE, FALSE, len, TRUE)
Out(name, len) == Param(name, TRUE, FALSE, len, FALSE)

(* Kernels: a first pass; one that reads its result through metadata; one  *)
(* with a scalar, that rounds to another bucket; one that accumulates.     *)
First == [name |-> "first", constexpr |-> FALSE, params |-> <<In("a", 1), Out("b", 2)>>]
Strided == [name |-> "strided", constexpr |-> FALSE,
            params |-> <<Param("b", FALSE, TRUE, Dynamic, TRUE), Out("c", 1)>>]
Scaled == [name |-> "scaled", constexpr |-> TRUE, params |-> <<In("b", 2), Out("a", 1)>>]
Accumulate == [name |-> "accumulate", constexpr |-> FALSE,
               params |-> <<In("a", 1), Param("b", TRUE, FALSE, 2, TRUE)>>]

Spec1(kernel, host, shape, scalar, resident, legal_grid) ==
    [kernel |-> kernel, host |-> host, shape |-> shape, scalar |-> scalar,
     resident |-> resident, legal_grid |-> legal_grid]

Names == {"a", "b", "c"}
Host(a, b) == [n \in Names |-> CASE n = "a" -> a [] n = "b" -> b [] OTHER -> 0]
NoneResident == <<>>
Bound(name) == name :> h1

Longer ==
    {Spec1(First, Host(1, 0), 0, FALSE, NoneResident, TRUE),
     Spec1(Strided, Host(0, 2), 2, FALSE, NoneResident, TRUE),
     Spec1(Scaled, Host(0, 0), 0, FALSE, Bound("b"), TRUE),
     Spec1(Accumulate, Host(1, 2), 0, FALSE, NoneResident, TRUE)}
Passes == Longer \cup
    {Spec1(First, Host(0, 0), 0, FALSE, Bound("a"), TRUE),
     Spec1(Strided, Host(0, 2), 1, FALSE, Bound("b"), TRUE),
     Spec1(Scaled, Host(0, 2), 0, TRUE, NoneResident, TRUE)}
Faulty ==
    {Spec1(Strided, Host(0, 1), 0, FALSE, NoneResident, TRUE),
     Spec1(Scaled, Host(0, 1), 0, TRUE, NoneResident, TRUE),
     Spec1(First, Host(1, 0), 0, FALSE, NoneResident, FALSE)}

MCRequests ==
    {<<p>> : p \in Passes \cup Faulty}
      \cup (Passes \X (Passes \cup Faulty))
      \cup (Longer \X Longer \X Longer)
=============================================================================
