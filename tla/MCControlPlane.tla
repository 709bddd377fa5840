--------------------------- MODULE MCControlPlane ---------------------------
(* One Gateway that may change its class, and a route to two services, with a
   rate limit and a second match that is invalid or has no method, that may be
   edited to an invalid first path and back. *)
EXTENDS ControlPlane

MCGatewaySpecs == [g \in Gateways |-> {[class |-> c, listeners |-> << >>] : c \in {"rauta", "other"}}]

Route(matches, services, annotation) ==
  [parents |-> {"gw"}, matches |-> matches, services |-> services, annotation |-> annotation]

Match(path, method) == [path |-> path, method |-> method]

Limit(unit, rate, burst) == [unit |-> unit, parses |-> TRUE, rate |-> rate, burst |-> burst]

MCRouteSpecs ==
  {Route(<<Match(<<"/", "api">>, "GET"), Match(<<"/", "api", "/">>, "GET"), Match(<<"/", "v2">>, "TRACE")>>,
         <<"s1", "s2">>, Limit("rps", 5, <<9>>)),
   Route(<<Match(<<"/", "/", "api">>, "GET"), Match(<<"/", "api">>, "GET")>>, <<"s1">>, Limit("none", 0, << >>))}

Endpoint(address, conditions) == [address |-> address, conditions |-> conditions, parses |-> TRUE]

Unparsed == [address |-> "x", conditions |-> "none", parses |-> FALSE]

MCEndpointSets ==
  [s \in {"s1", "s2"} |->
     IF s = "s1" THEN {{}, {{Endpoint("a", "none"), Endpoint("b", "unset")}, {Endpoint("a", "ready"), Unparsed}}}
     ELSE {{{Endpoint("c", "unready")}}, {{Endpoint("c", "ready")}}}]
=============================================================================
