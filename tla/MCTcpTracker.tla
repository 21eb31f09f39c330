---------------------------- MODULE MCTcpTracker ----------------------------
(* Small instances of TcpTracker for TLC.                                  *)
EXTENDS TcpTracker

\* Named sets for the configurations.
Off == {}
=============================================================================
