---------------------------- MODULE MCEpollServer ----------------------------
(***************************************************************************)
(* TLC instances of EpollServer.  Clients are interchangeable in the       *)
(* safety runs; descriptors are numbers and are not.                       *)
(***************************************************************************)
EXTENDS EpollServer, TLC

Symmetry == Permutations(Conns)

===============================================================================
