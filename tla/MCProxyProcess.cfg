SPECIFICATION Spec
CONSTANTS
  Conns = {c1, c2, c3}
  Ports = {80, 81}
  GatewayRefs = {g1, g2}
  Hosts = {"a", "b"}
  Certs <- MCCerts
  SecretNames = {n1, n2}
  SecretSpecs <- MCSecretSpecs
  MaxEvents = 2
  Clients <- MCClients
  Classes = {k1}
  ClassSpecs <- MCClassSpecs
  ControllerName = "rauta"
  Controllers = {"gatewayclass", "gateway"}

  
PROPERTIES
  ServedUntilDrained
  ShutdownEnds
  
  PortsReleased
  
CHECK_DEADLOCK FALSE
