------------------------------ MODULE PagePool ------------------------------
(***************************************************************************)
(* What the page allocator promises its clients: every page has at most    *)
(* one holder, a freed page can be handed out again, and the machine is    *)
(* halted only by a request made while every page is held.                 *)
(***************************************************************************)
CONSTANT Frame

VARIABLES held, halted

Init == held = Frame /\ halted = FALSE

Give(f) ==
    /\ ~halted
    /\ f \in held
    /\ held' = held \ {f}
    /\ UNCHANGED halted

Take(f) ==
    /\ ~halted
    /\ f \notin held
    /\ held' = held \cup {f}
    /\ UNCHANGED halted

Exhausted ==
    /\ held = Frame
    /\ halted' = TRUE
    /\ UNCHANGED held

Next == Exhausted \/ \E f \in Frame : Give(f) \/ Take(f)

Spec == Init /\ [][Next]_<<held, halted>>
=============================================================================
