------------------------ MODULE MCContainerActions -------------------------
(* Model-checking instances of ContainerActions.                           *)
EXTENDS ContainerActions

CONSTANTS d1, d2, d3

\* Deployments are interchangeable and only users create them: it is enough to
\* look at the behaviours in which they come in this order.
CreatedInOrder ==
    /\ stage[d2] # "none" => stage[d1] # "none"
    /\ stage[d3] # "none" => stage[d2] # "none"
=============================================================================
