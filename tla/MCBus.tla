------------------------------- MODULE MCBus -------------------------------
(* The bus for TLC: the frames callers send, and the symmetry of the callers. *)
EXTENDS Bus, TLC

\* A numbered request, a broadcast that gets no number, and a request sent raw.
MCRequests == {[type |-> "GET_REG", raw |-> FALSE], [type |-> "DISCOVER", raw |-> FALSE],
               [type |-> "SET_REG", raw |-> TRUE]}

\* Only numbered requests: the numbers wrap and collide soonest.
MCNumbered == {[type |-> "SET_REG", raw |-> FALSE]}

CallerSymmetry == Permutations(Callers)
=============================================================================
