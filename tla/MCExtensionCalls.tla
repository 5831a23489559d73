-------------------------- MODULE MCExtensionCalls --------------------------
(* TLC instance of ExtensionCalls: one call with a timeout, one without. *)
EXTENDS ExtensionCalls
=============================================================================
