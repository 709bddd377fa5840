SPECIFICATION Spec
CONSTANTS
  Gateways = {"gw"}
  Ours = "rauta"
  GatewaySpecs <- MCGatewaySpecs
  Secrets = {}
  Routes = {r1}
  RouteSpecs <- MCRouteSpecs
  Services = {"s1", "s2"}
  EndpointSets <- MCEndpointSets

  
PROPERTIES
  ServedForGood
  
  
