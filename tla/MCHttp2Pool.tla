---------------------------- MODULE MCHttp2Pool -----------------------------
(* Instances of Http2Pool for TLC. *)
EXTENDS Http2Pool
=============================================================================
