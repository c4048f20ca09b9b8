----------------------------- MODULE MCSession -----------------------------
(* Session with small constants for TLC                                    *)
EXTENDS SessionInvariant
=============================================================================
