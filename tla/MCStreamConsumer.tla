-------------------------- MODULE MCStreamConsumer --------------------------
(* Small instances of StreamConsumer for TLC.                              *)
EXTENDS StreamConsumer
=============================================================================
