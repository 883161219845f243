---------------------------- MODULE DeviceHeap ----------------------------
(***************************************************************************)
(* What a device allocator promises its clients, whatever it caches: an    *)
(* address is leased to one client at a time, the memory behind it is at   *)
(* least as long as the request for the whole lease, and memory is taken   *)
(* from or returned to the driver only while nobody holds a lease on it.   *)
(***************************************************************************)
EXTENDS Naturals

CONSTANT Ptrs           \* device addresses

VARIABLES
  lease,                \* lease[p]: length leased at p, 0 when not leased
  size                  \* size[p]: bytes the driver has mapped at p, 0 if none

heapVars == <<lease, size>>

HeapInit ==
  /\ lease = [p \in Ptrs |-> 0]
  /\ size  = [p \in Ptrs |-> 0]

LeasedMemoryUntouched == \A p \in Ptrs : lease[p] # 0 => size'[p] = size[p]

(* A request is answered with p; the length asked for is the new lease.    *)
Grant(p) ==
  /\ lease[p] = 0
  /\ lease'[p] \in 1..size'[p]
  /\ \A q \in Ptrs \ {p} : lease'[q] = lease[q]
  /\ LeasedMemoryUntouched

Release(p) ==
  /\ lease[p] # 0
  /\ lease' = [lease EXCEPT ![p] = 0]
  /\ UNCHANGED size

(* The allocator trades unleased memory with the driver. *)
Manage ==
  /\ LeasedMemoryUntouched
  /\ UNCHANGED lease

HeapNext ==
  \/ \E p \in Ptrs : Grant(p) \/ Release(p)
  \/ Manage

HeapSpec == HeapInit /\ [][HeapNext]_heapVars

===========================================================================
