---------------------------- MODULE ResourcePool ----------------------------
(***************************************************************************)
(* What an organization's resource pool promises, without transactions,    *)
(* retries or billing events: a request is quoted the pool of the current   *)
(* plan, and is granted later only if the allocations standing at that      *)
(* moment leave room for it in the pool it was quoted.                      *)
(* One resource stands for RAM, CPU and bandwidth, which the code checks    *)
(* alike and one after another.                                             *)
(***************************************************************************)
EXTENDS Naturals

CONSTANTS
    Projects,      \* names of projects
    Requests,      \* requests to create or to resize
    Amounts,       \* what a project may be allocated; 0 is no project
    Pools,         \* the pools of the plans
    Total(_),      \* the sum of an allocation over the projects
    NoQuote        \* the quote of a request that has none

VARIABLES pool, alloc, quote
poolVars == <<pool, alloc, quote>>

\* The total once p holds n.
Planned(f, p, n) == Total([f EXCEPT ![p] = n])

Init ==
    /\ pool \in Pools
    /\ alloc = [p \in Projects |-> 0]
    /\ quote = [r \in Requests |-> NoQuote]

Ask(r) ==
    /\ quote' = [quote EXCEPT ![r] = pool]
    /\ UNCHANGED <<pool, alloc>>

Drop(r) ==
    /\ quote' = [quote EXCEPT ![r] = NoQuote]
    /\ UNCHANGED <<pool, alloc>>

Grant(r, p, n) ==
    /\ quote[r] # NoQuote
    /\ Planned(alloc, p, n) <= quote[r]
    /\ alloc' = [alloc EXCEPT ![p] = n]
    /\ quote' = [quote EXCEPT ![r] = NoQuote]
    /\ UNCHANGED pool

Release(p) ==
    /\ alloc' = [alloc EXCEPT ![p] = 0]
    /\ UNCHANGED <<pool, quote>>

SetPool(n) ==
    /\ pool' = n
    /\ UNCHANGED <<alloc, quote>>

Next ==
    \/ \E r \in Requests : Ask(r) \/ Drop(r)
    \/ \E r \in Requests, p \in Projects, n \in Amounts : Grant(r, p, n)
    \/ \E p \in Projects : Release(p)
    \/ \E n \in Pools : SetPool(n)

Spec == Init /\ [][Next]_poolVars
=============================================================================
