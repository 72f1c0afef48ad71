----------------------------- MODULE MCCredential -----------------------------
(* Small instances of Credential for TLC. The requests share one gateway      *)
(* instance; the sweep and the owner's tab are served by others.              *)
EXTENDS Credential

CONSTANTS gateway

Together == [r \in Requests |-> gateway]
==============================================================================
