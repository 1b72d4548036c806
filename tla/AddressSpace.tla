---------------------------- MODULE AddressSpace ----------------------------
(***************************************************************************)
(* What new_address_space builds, seen from outside: a partial function    *)
(* from virtual pages to a frame and a permission.  It grows one page at a *)
(* time, no mapping is ever replaced, the only change to one is the loss   *)
(* of the permission to write, and once the processor uses the address     *)
(* space nothing changes any more.                                         *)
(***************************************************************************)
VARIABLES map, active

Init == map = << >> /\ active = FALSE

\* One page more; every other page keeps its frame and its permission.
Map ==
    /\ ~active
    /\ \E v \in DOMAIN map' \ DOMAIN map :
          /\ DOMAIN map' = DOMAIN map \cup {v}
          /\ \A u \in DOMAIN map : map'[u] = map[u]
    /\ UNCHANGED active

Protect ==
    /\ ~active
    /\ \E v \in DOMAIN map : map' = [map EXCEPT ![v].rw = FALSE]
    /\ UNCHANGED active

Activate == ~active /\ active' = TRUE /\ UNCHANGED map

Next == Map \/ Protect \/ Activate

Spec == Init /\ [][Next]_<<map, active>>
=============================================================================
