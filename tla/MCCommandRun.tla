---------------------------- MODULE MCCommandRun ----------------------------
(* One command on small instances: with every failure, and with none.      *)
EXTENDS CommandRun
=============================================================================
