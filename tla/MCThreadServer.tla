--------------------------- MODULE MCThreadServer ---------------------------
(***************************************************************************)
(* The TLC instance of ThreadServer: more clients than descriptors, so     *)
(* that accept fails, and than threads, so that one cannot be started.     *)
(***************************************************************************)
EXTENDS ThreadServer, TLC

CONSTANTS early, steady, late

MCConns == {early, steady, late}

\* Two requests from one client: what it leaves in a buffer is longer than a successor's.
MCMaxSend == (early :> 2) @@ (steady :> 1) @@ (late :> 0)

MCMayLeave == {early, late}

===============================================================================
