---------------------------- MODULE MCEmbedOutbox ---------------------------
(* TLC instance of EmbedOutbox: two messages, batches of one or two. *)
EXTENDS EmbedOutbox

CONSTANTS m1, m2
=============================================================================
