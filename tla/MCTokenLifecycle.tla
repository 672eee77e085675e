-------------------------- MODULE MCTokenLifecycle --------------------------
(* TokenLifecycle for the forward test and a script on the same .env.        *)
EXTENDS TokenLifecycle
=============================================================================
