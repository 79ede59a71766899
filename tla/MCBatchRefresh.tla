--------------------------- MODULE MCBatchRefresh ---------------------------
(* Two run slots beside a client that asks for views again and again.      *)
EXTENDS BootstrapView

=============================================================================
