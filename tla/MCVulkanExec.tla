---------------------------- MODULE MCVulkanExec ----------------------------
(* Two threads, a descriptor pool of two sets and three descriptors, and      *)
(* batches of up to three dispatches: one more than the pool has sets.        *)
EXTENDS VulkanExec
=============================================================================
