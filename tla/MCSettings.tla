----------------------------- MODULE MCSettings -----------------------------
(* Settings for TLC: requests that swap the resolvers and turn DHCP on,     *)
(* change one resolver, or set one of two addresses.                        *)
EXTENDS Settings, TLC

CONSTANTS r1, r2, a1, a2

MCValues == {r1, r2, a1, a2, Static, Dhcp}

MCDefault ==
  [k \in KeySet |-> CASE k = "upstream1" -> r1 [] k = "upstream2" -> r2
                      [] k = "net_mode" -> Dhcp [] OTHER -> Unset]

MCBodies ==
  {"upstream1" :> r2 @@ "upstream2" :> r1 @@ "net_mode" :> Dhcp, "upstream2" :> r2,
   "net_mode" :> Static @@ "static_ip" :> a1, "net_mode" :> Static @@ "static_ip" :> a2}

Symmetry == Permutations({a1, a2})
=============================================================================
