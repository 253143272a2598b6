--------------------------- MODULE MCEthSubmission ---------------------------
(* Two requests and every kind of fault. *)
EXTENDS EthSubmission

AllFaults == {"rpc", "send", "revert", "evict", "trip", "crash", "signer"}

=============================================================================
