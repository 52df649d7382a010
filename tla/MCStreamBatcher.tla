--------------------------- MODULE MCStreamBatcher --------------------------
(* Instances of StreamBatcher for TLC.                                      *)
EXTENDS StreamBatcher
=============================================================================
