-------------------------- MODULE MCOneTimeTokens --------------------------
(* Two copies of a call, two step-up retries, two wrong keys, or two       *)
(* clients with many calls: these share nothing but the clock.             *)
EXTENDS OneTimeTokens
MCMixes == {[r \in Requests |-> k] : k \in Kinds}
=============================================================================
