--------------------------- MODULE SecretWatcher ---------------------------
(***************************************************************************)
(* The watcher of TLS Secrets (apis/gateway/secret_watcher.rs), which      *)
(* updates the certificates of a resolver.  The watch of kube-runtime is   *)
(* external: it delivers changes in order; when it is lost, undelivered    *)
(* changes are gone, and it lists all Secrets again (InitApply) in some    *)
(* order.                                                                  *)
(***************************************************************************)
EXTENDS SniResolver, Sequences, FiniteSets, SequencesExt

CONSTANTS
  SecretNames,
  SecretSpecs,   \* [tls, host, data, cert]; host may be Missing
  MaxEvents      \* the bound on undelivered changes

VARIABLES
  secrets,   \* the Secrets of the cluster
  events,    \* the undelivered changes: the Secret as applied, or Gone
  watching   \* has the watch listed the Secrets and not been lost since?

wvars == <<secrets, events, watching>>

Missing == "missing"
Gone == [gone |-> TRUE]

WInit ==
  /\ secrets = [n \in SecretNames |-> Gone]
  /\ events = << >>
  /\ watching = FALSE

Notify(event) == events' = IF watching THEN Append(events, event) ELSE events

\* The user applies a Secret.
SecretApplied(n, spec) ==
  /\ Len(events) < MaxEvents /\ secrets[n] # spec
  /\ secrets' = [secrets EXCEPT ![n] = spec]
  /\ Notify(spec)
  /\ UNCHANGED <<watching, cvars>>

SecretDeleted(n) ==
  /\ Len(events) < MaxEvents /\ secrets[n] # Gone
  /\ secrets' = [secrets EXCEPT ![n] = Gone]
  /\ Notify(Gone)
  /\ UNCHANGED <<watching, cvars>>

WatchLost ==
  /\ watching
  /\ watching' = FALSE
  /\ events' = << >>
  /\ UNCHANGED <<secrets, cvars>>

Listed ==
  /\ ~ watching
  /\ watching' = TRUE
  /\ \E names \in SetToSeqs({n \in SecretNames : secrets[n] # Gone}) :
       events' = [i \in DOMAIN names |-> secrets[names[i]]]
  /\ UNCHANGED <<secrets, cvars>>

parse_cert_from_secret_data(secret) == secret.data /\ from_pem(secret.cert)

\* Does the Secret change a certificate?  Otherwise it is ignored or refused.
Usable(secret) ==
  /\ secret # Gone /\ secret.tls /\ secret.host # Missing
  /\ parse_cert_from_secret_data(secret)
  /\ Addable(secret.host, secret.cert)

\* Faulty variant of handle_secret_apply: a Secret that is refused, or gone,
\* takes the certificates away.
RemoveRefused(secret) ==
  \/ Usable(secret) /\ update_cert(secret.host, secret.cert)
  \/ ~ Usable(secret) /\ inner' = << >> /\ UNCHANGED hostnames

handle_secret_apply(secret) ==
  \/ Usable(secret) /\ update_cert(secret.host, secret.cert)
  \/ ~ Usable(secret) /\ UNCHANGED cvars

\* One event; a deletion is only logged.
watch_tls_secrets ==
  /\ events # << >>
  /\ events' = Tail(events)
  /\ handle_secret_apply(Head(events))
  /\ UNCHANGED <<secrets, watching>>

WNext ==
  \/ \E n \in SecretNames : SecretDeleted(n) \/ \E spec \in SecretSpecs : SecretApplied(n, spec)
  \/ WatchLost \/ Listed \/ watch_tls_secrets
=============================================================================
