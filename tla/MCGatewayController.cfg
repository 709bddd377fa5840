SPECIFICATION GSpec
CONSTANTS
  Gateways = {"g1", "g2"}
  Ours = "rauta"
  GatewaySpecs <- MCGatewaySpecs
  Secrets = {"s1"}
PROPERTIES
  IndexFollowsClass
  ListenersRetried
  UnresolvedReported
