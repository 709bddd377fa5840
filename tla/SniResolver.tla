---------------------------- MODULE SniResolver ----------------------------
(***************************************************************************)
(* The certificates of the TLS listeners (proxy/tls.rs).  A certificate is *)
(* what three checks can tell: does its PEM parse, is the type of its key  *)
(* supported, and for which host names is it valid.  The first two are the *)
(* code's, the last is that of the library's ResolvesServerCertUsingSni.   *)
(* Nothing checks that the key belongs to the certificate.                 *)
(***************************************************************************)
EXTENDS Naturals

CONSTANTS
  Hosts,
  Certs    \* [id, pem, key, hosts]

VARIABLES
  inner,       \* the certificate of each host
  hostnames    \* the hosts that has_cert and get_acceptor know

cvars == <<inner, hostnames>>

CInit == inner = << >> /\ hostnames = {}

from_pem(cert) == cert.pem

parse_certified_key(cert) == cert.pem /\ cert.key

\* ResolvesServerCertUsingSni::add.
Addable(host, cert) == parse_certified_key(cert) /\ host \in cert.hosts

With(host, cert) == [h \in DOMAIN inner \cup {host} |-> IF h = host THEN cert ELSE inner[h]]

add_cert(host, cert) ==
  /\ Addable(host, cert)
  /\ inner' = With(host, cert)
  /\ hostnames' = hostnames \cup {host}

\* "Hostname already tracked, no need to update hostnames set".
update_cert(host, cert) ==
  /\ Addable(host, cert)
  /\ inner' = With(host, cert)
  /\ UNCHANGED hostnames

\* The resolver that to_server_config hands to rustls reads inner on every
\* handshake.
Resolves(host) == host \in DOMAIN inner

has_cert(host) == host \in hostnames

\* None for a host that has_cert does not know.
get_acceptor(host) == has_cert(host) /\ Resolves(host)
=============================================================================
