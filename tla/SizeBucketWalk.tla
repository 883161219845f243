-------------------------- MODULE SizeBucketWalk --------------------------
(***************************************************************************)
(* A caller asks size_bucket for one length after another: any length it   *)
(* likes, or the size of the bucket it has just been given.                *)
(***************************************************************************)
EXTENDS SizeBucket

CONSTANT Lengths    \* the lengths callers ask for

ASSUME LengthsAssumption == Lengths \subseteq 1..MaxLength

VARIABLE len        \* the length being requested

Init == len \in Lengths

Request(n) == len' = n

(* Request a bucket's own size: what a caller that re-uses slack does.     *)
ExactFit == len' = size_bucket(len) /\ len' <= MaxLength

Next == (\E n \in Lengths : Request(n)) \/ ExactFit

Spec == Init /\ [][Next]_len

(* A bucket always holds the request it is used for (the caller of         *)
(* alloc_raw touches len bytes of a bucket-sized allocation).              *)
BucketHoldsRequest == size_bucket(len) >= len

(* A request for exactly a bucket's size is served from that bucket, in    *)
(* both regimes and across the 1 MiB switch: a bucket never rounds on.     *)
BucketIsFixedPoint == size_bucket(size_bucket(len)) = size_bucket(len)

(* The slack the code really admits: one 512 B block below 1 MiB, and less *)
(* than a quarter of the request above it.                                 *)
SlackUnderAQuarter ==
  IF len <= SMALL_LIMIT
  THEN size_bucket(len) - len < MIN_BLOCK
  ELSE 4 * (size_bucket(len) - len) < len

(* A longer request never gets a smaller bucket, also at a regime switch.  *)
BucketsAreMonotone == [][len <= len' => size_bucket(len) <= size_bucket(len')]_len

===========================================================================
