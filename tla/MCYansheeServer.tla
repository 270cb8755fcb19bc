--------------------------- MODULE MCYansheeServer ---------------------------
(***************************************************************************)
(* TLC instances of YansheeServer: a command to repeat, another one, and   *)
(* the refused dance.                                                      *)
(***************************************************************************)
EXTENDS YansheeServer, TLC

===============================================================================
