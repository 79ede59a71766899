--------------------------- MODULE MCEventPipeline ---------------------------
(***************************************************************************)
(* Two events, so that one flush waits for the message of another and the  *)
(* second message of the topic can be done before the first.               *)
(***************************************************************************)
EXTENDS EventPipeline
=============================================================================
