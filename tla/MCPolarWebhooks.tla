-------------------------- MODULE MCPolarWebhooks --------------------------
(* What Polar may have to say about a customer: two subscriptions one      *)
(* after the other, a change of plan, a payment that comes too late.       *)
EXTENDS PolarWebhooks

CONSTANTS s1, s2, p, q

Says(kind, s, product, status) ==
  [kind |-> kind, subscription |-> s, product |-> product, status |-> status]

Created(s, product) == Says("created", s, product, "active")
Changed(s, product) == Says("updated", s, product, "active")
Unpaid(s, product) == Says("updated", s, product, "lapsed")
Canceled(s, product) == Says("canceled", s, product, "active")
Ended(s, product) == Says("revoked", s, product, "lapsed")

MCBought == [s \in Subscription |-> IF s = s1 THEN p ELSE Default]

MCStories ==
  { <<Ended(s1, p), Created(s2, p), Ended(s2, p)>>,
    <<Changed(s1, q), Ended(s1, q), Created(s2, q)>>,
    <<Unpaid(s1, p), Changed(s1, p), Ended(s1, p)>>,
    <<Created(s2, q), Canceled(s2, q), Changed(s2, p)>> }
=============================================================================
