------------------------------ MODULE Powers ------------------------------
(***************************************************************************)
(* Powers of two a machine word holds, and usize::next_power_of_two: what  *)
(* the CUDA allocator and the Metal buffer pool round lengths with.        *)
(***************************************************************************)
EXTENDS Naturals

CONSTANT MaxLog2    \* 63 for a 64-bit usize; TLC's integers stop at 30

ASSUME WordAssumption == MaxLog2 \in Nat

(* Powers of two by doubling: the provers have no rule for exponentiation. *)
Power[k \in Nat] == IF k = 0 THEN 1 ELSE 2 * Power[k - 1]
PowersOfTwo == {Power[k] : k \in 0..MaxLog2}
MaxLength == Power[MaxLog2]

(* usize::next_power_of_two: the least power of two that is >= n.          *)
next_power_of_two(n) ==
  CHOOSE p \in PowersOfTwo : p >= n /\ \A q \in PowersOfTwo : q >= n => p <= q

===========================================================================
