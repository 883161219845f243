--------------------------- MODULE MCSizeBucket ---------------------------
(***************************************************************************)
(* Request lengths around every boundary of size_bucket: multiples of      *)
(* 512 B, the switch of regime at 1 MiB, and the powers of two and         *)
(* eighth-steps above it.                                                  *)
(***************************************************************************)
EXTENDS SizeBucketWalk

Small  == {MIN_BLOCK * k : k \in {1, 2, 3, 4, 7, 8, 2047, 2048}}
Large  == {SMALL_LIMIT + (SMALL_LIMIT \div 8) * k : k \in 0..32}
Higher == {Power[k] + j * Power[k - 3] : k \in 23..28, j \in 0..7}
Edges  == Small \cup Large \cup Higher
Samples == {1} \cup {e + d : e \in Edges, d \in {0, 1, 2}} \cup {e - 1 : e \in Edges}

===========================================================================
