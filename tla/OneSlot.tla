------------------------------ MODULE OneSlot ------------------------------
(***************************************************************************)
(* What a component that admits one user at a time promises: the slot is   *)
(* taken only while it is free, each user takes it at most once, and it is *)
(* given back before the next one gets it.  RunManager promises it for     *)
(* measurement runs ("Only one run can be active per RunManager, and a     *)
(* second start is rejected").                                             *)
(***************************************************************************)
CONSTANTS Users, Free

VARIABLES holder, served

Init == holder = Free /\ served = {}

Take(u) ==
  /\ holder = Free
  /\ u \notin served
  /\ holder' = u
  /\ served' = served \cup {u}

Release ==
  /\ holder # Free
  /\ holder' = Free
  /\ UNCHANGED served

Next == Release \/ \E u \in Users : Take(u)

Spec == Init /\ [][Next]_<<holder, served>>
============================================================================
