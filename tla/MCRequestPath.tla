--------------------------- MODULE MCRequestPath ---------------------------
(***************************************************************************)
(* Two requests of one route with one backend.  The selected options cover *)
(* a redirect, each timeout, a retry of every failure and one of 5xx only. *)
(***************************************************************************)
EXTENDS RequestPath

SomeOptions ==
  {[redirect |-> FALSE, retry |-> {"5xx", "error"}, timeout |-> "request"],
   [redirect |-> FALSE, retry |-> {"5xx"}, timeout |-> "backend"],
   [redirect |-> TRUE, retry |-> {}, timeout |-> "none"]}
=============================================================================
