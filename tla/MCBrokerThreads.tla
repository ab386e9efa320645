--------------------------- MODULE MCBrokerThreads ---------------------------
(* Small instances of BrokerThreads for TLC. *)
EXTENDS BrokerThreads
=============================================================================
