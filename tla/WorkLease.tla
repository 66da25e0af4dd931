------------------------------- MODULE WorkLease -------------------------------
(***************************************************************************)
(* What a queue with expiring claims promises of each item: it is open,    *)
(* leased or done, it is leased again only after the lease before has      *)
(* lapsed, and done is for good.  The number of leases ever granted is the *)
(* number of times its work may be carried out.                            *)
(***************************************************************************)
EXTENDS Naturals

CONSTANT Items

VARIABLES stage,    \* stage[i]: "open", "leased" or "done"
          granted,  \* granted[i]: the leases granted so far
          lapsed    \* lapsed[i]: the leases that ended before the work was done

vars == <<stage, granted, lapsed>>

Init ==
    /\ stage = [i \in Items |-> "open"]
    /\ granted = [i \in Items |-> 0]
    /\ lapsed = [i \in Items |-> 0]

Grant(i) ==
    /\ stage[i] = "open"
    /\ stage' = [stage EXCEPT ![i] = "leased"]
    /\ granted' = [granted EXCEPT ![i] = @ + 1]
    /\ UNCHANGED lapsed

Lapse(i) ==
    /\ stage[i] = "leased"
    /\ stage' = [stage EXCEPT ![i] = "open"]
    /\ lapsed' = [lapsed EXCEPT ![i] = @ + 1]
    /\ UNCHANGED granted

(* Whoever was granted a lease may finish, also when it has lapsed since.    *)
Finish(i) ==
    /\ granted[i] > 0
    /\ stage[i] # "done"
    /\ stage' = [stage EXCEPT ![i] = "done"]
    /\ UNCHANGED <<granted, lapsed>>

Next == \E i \in Items : Grant(i) \/ Lapse(i) \/ Finish(i)

Spec == Init /\ [][Next]_vars
=============================================================================
