------------------------ MODULE MCGatewayController ------------------------
(* Two Gateways that compete for the protocol of one port; one may change its
   protocol, the other its class. *)
EXTENDS GatewayController

Listener(n, p, proto, refs, kinds) ==
  [name |-> n, port |-> p, protocol |-> proto, refs |-> refs, kinds |-> kinds]

Http == {"HTTPRoute"}

SecretRef == [core |-> TRUE, secret |-> "s1"]

OtherKind == [core |-> FALSE, secret |-> "s1"]

Other == [class |-> "other", listeners |-> << >>]

Web(proto, refs) == [class |-> "rauta", listeners |-> <<Listener("web", 80, proto, refs, Http)>>]

Mixed ==
  [class |-> "rauta",
   listeners |-> <<Listener("web", 80, "HTTPS", <<SecretRef, OtherKind>>, Http),
                   Listener("raw", 90, "TCP", << >>, {"TCPRoute", "HTTPRoute"})>>]

MCGatewaySpecs ==
  [g \in Gateways |-> IF g = "g1" THEN {Web("HTTP", << >>), Web("HTTPS", <<SecretRef>>)} ELSE {Other, Mixed}]
=============================================================================
