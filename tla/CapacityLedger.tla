--------------------------- MODULE CapacityLedger ---------------------------
(***************************************************************************)
(* What the reservation of a server's capacity promises, without rows,      *)
(* flags, retries or failures: a holder is granted its amount once, on a    *)
(* host that has room at that moment, and gives back at most once what it   *)
(* was granted, where it was granted.                                       *)
(***************************************************************************)
EXTENDS Integers

CONSTANTS
    Holders, Hosts,
    Amount,        \* what each holder takes
    Capacity,      \* what each host has
    Nowhere        \* the place of a holder that holds nothing

VARIABLES
    used,          \* what is taken on each host
    place,         \* the host on which the holder's amount counts
    granted        \* the holders that were granted their amount, then or before
ledgerVars == <<used, place, granted>>

Init ==
    /\ used = [h \in Hosts |-> 0]
    /\ place = [x \in Holders |-> Nowhere]
    /\ granted = {}

Grant(x, h) ==
    /\ x \notin granted
    /\ used[h] + Amount[x] <= Capacity[h]
    /\ used' = [used EXCEPT ![h] = @ + Amount[x]]
    /\ place' = [place EXCEPT ![x] = h]
    /\ granted' = granted \cup {x}

GiveBack(x) ==
    /\ place[x] # Nowhere
    /\ used' = [used EXCEPT ![place[x]] = @ - Amount[x]]
    /\ place' = [place EXCEPT ![x] = Nowhere]
    /\ UNCHANGED granted

Next == \E x \in Holders : GiveBack(x) \/ \E h \in Hosts : Grant(x, h)

Spec == Init /\ [][Next]_ledgerVars
=============================================================================
