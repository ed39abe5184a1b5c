-------------------------------- MODULE Lease --------------------------------
(***************************************************************************)
(* What the arbiter promises, without locks, calls or loops: the card is   *)
(* leased to one job at a time, and passes from one to the next only       *)
(* through a moment in which nobody has it.  How a lease comes to be given *)
(* up (release, preemption, a dead holder, a restart) is left open.        *)
(***************************************************************************)
CONSTANT Names      \* the jobs

VARIABLE owners     \* the jobs that have the lease: at most one

Init == owners = {}

Grant(n) == owners = {} /\ owners' = {n}

GiveUp(n) == n \in owners /\ owners' = owners \ {n}

Next == \E n \in Names : Grant(n) \/ GiveUp(n)

Spec == Init /\ [][Next]_owners
=============================================================================
