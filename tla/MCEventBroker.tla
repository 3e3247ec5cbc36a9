--------------------------- MODULE MCEventBroker ----------------------------
(* A small instance of EventBroker for TLC: one browser that reads and one *)
(* that may not.                                                           *)
EXTENDS EventBroker

CONSTANTS reader, slow
=============================================================================
