---------------------------- MODULE MCEchoServer ----------------------------
(***************************************************************************)
(* TLC instances of EchoServer.  Clients and workers are interchangeable,  *)
(* but a liveness property is checked in the same run, so no symmetry.     *)
(***************************************************************************)
EXTENDS EchoServer, TLC

===============================================================================
