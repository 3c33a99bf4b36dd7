---------------------------- MODULE MCDhcpLeases ----------------------------
(* An instance of DhcpLeases for TLC: two clients of one interface, whose pool *)
(* has one address more than the table has rows.                             *)
EXTENDS DhcpLeases, TLC

CONSTANTS w1, w2, a1, a2, a3

MCPort == (w1 :> "wifi") @@ (w2 :> "wifi")
MCPool == [wifi |-> {a1, a2, a3}]

Symmetric == Permutations({w1, w2}) \cup Permutations({a1, a2, a3})
=============================================================================
