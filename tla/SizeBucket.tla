---------------------------- MODULE SizeBucket ----------------------------
(***************************************************************************)
(* The size classes of the CUDA caching allocator: size_bucket() of        *)
(* metaltile-runtime/src/device/cuda/mod.rs.  alloc_raw and                *)
(* free_raw_pooled both derive the free-list a buffer belongs to from the  *)
(* requested length, so the function must be deterministic, never smaller  *)
(* than the request, and must send a request to the same list at both      *)
(* ends.                                                                   *)
(***************************************************************************)
EXTENDS Powers

MIN_BLOCK   == 512
SMALL_LIMIT == 1024 * 1024
Larger(a, b) == IF a >= b THEN a ELSE b
div_ceil(n, d) == (n + d - 1) \div d

(* The step of the large regime: an eighth of the next power of two. *)
large_step(len) == Larger(next_power_of_two(len) \div 8, MIN_BLOCK)

(* Seeded fault: rounding down to a step instead of up. *)
size_bucket_rounds_down(len) ==
  IF len <= SMALL_LIMIT
  THEN div_ceil(len, MIN_BLOCK) * MIN_BLOCK
  ELSE (len \div large_step(len)) * large_step(len)

(* Seeded fault: whole powers of two above the limit, no eighth-steps. *)
size_bucket_whole_powers(len) ==
  IF len <= SMALL_LIMIT
  THEN div_ceil(len, MIN_BLOCK) * MIN_BLOCK
  ELSE next_power_of_two(len)

(* Seeded fault: requests just under the limit reserve double.             *)
size_bucket_doubles_below_limit(len) ==
  IF len < SMALL_LIMIT
  THEN 2 * next_power_of_two(Larger(len, MIN_BLOCK))
  ELSE div_ceil(len, large_step(len)) * large_step(len)

(* Seeded fault: the block is added before rounding, so an exact multiple  *)
(* moves to the next bucket.                                               *)
size_bucket_adds_block(len) ==
  IF len <= SMALL_LIMIT
  THEN (len \div MIN_BLOCK + 1) * MIN_BLOCK
  ELSE div_ceil(len, large_step(len)) * large_step(len)

size_bucket(len) ==
  IF len <= SMALL_LIMIT
  THEN div_ceil(len, MIN_BLOCK) * MIN_BLOCK
  ELSE div_ceil(len, large_step(len)) * large_step(len)

===========================================================================
