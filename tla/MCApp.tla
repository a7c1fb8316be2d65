-------------------------------- MODULE MCApp --------------------------------
(* One process in which a few notifications are pushed.                    *)
EXTENDS SampleApp
=============================================================================
