---------------------------- MODULE MCDiscovery ----------------------------
(* a hears the probes of b, which has a as a bootstrap peer and may be told  *)
(* to connect to it, so that they dial each other at once, and b even twice; *)
(* c knows no more than the address of a.                                    *)
EXTENDS Discovery

CONSTANTS a, b, c

OneWay == {<<b, a>>}
GivenToB == {<<b, a>>}
Config == [n \in Nodes |-> CASE n = a -> <<>>
                             [] n = b -> <<[key |-> a, addrs |-> <<a>>]>>
                             [] n = c -> <<[key |-> Unnamed, addrs |-> <<a>>]>>]
=============================================================================
