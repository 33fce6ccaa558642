----------------------------- MODULE MCLegSetup -----------------------------
(* A publisher's leg and a subscriber's leg that are seen at one address,   *)
(* as when a NAT gives a binding to another browser; and each of them alone *)
(* with a second address to move to.                                        *)
EXTENDS LegSetup

Shared == [v6 |-> FALSE, at |-> "shared"]
Roaming == [v6 |-> TRUE, at |-> "roaming"]
Both == {Shared, Roaming}
Seen(pub, sub) == [k \in {"pub", "sub"} |-> IF k = "pub" THEN pub ELSE sub]
Homes == {Seen({Shared}, {Shared}), Seen(Both, {}), Seen({}, Both)}
=============================================================================
