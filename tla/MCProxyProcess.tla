--------------------------- MODULE MCProxyProcess ---------------------------
(* Three clients of a server, two ports that two Gateways share, two
   controllers, or two Secrets for one host. *)
EXTENDS ProxyProcess

Cert(id, pem, hosts) == [id |-> id, pem |-> pem, key |-> pem, hosts |-> hosts]

MCCerts == {Cert("v1", TRUE, {"a"}), Cert("v2", TRUE, {"a"}), Cert("other", TRUE, {}), Cert("broken", FALSE, {"a"})}

MCClients == {[speaks |-> "h1", whole |-> TRUE], [speaks |-> "h2", whole |-> TRUE], [speaks |-> "h2", whole |-> FALSE]}

MCClassSpecs == {[controller |-> "rauta", generation |-> n] : n \in 1 .. 2} \cup {[controller |-> "other", generation |-> 1]}

Secret(tls, host, data, cert) == [tls |-> tls, host |-> host, data |-> data, cert |-> cert]

Good == Cert("v1", TRUE, {"a"})

MCSecretSpecs ==
  {Secret(TRUE, "a", TRUE, cert) : cert \in MCCerts}
    \cup {Secret(TRUE, "a", FALSE, Good), Secret(FALSE, "a", TRUE, Good),
          Secret(TRUE, "missing", TRUE, Good)}
=============================================================================
