------------------------------ MODULE MCTulingApi ------------------------------
(***************************************************************************)
(* The TLC instance of TulingApi: two threads, as in the queue server, and *)
(* questions of two clients.                                               *)
(***************************************************************************)
EXTENDS TulingApi

CONSTANTS t, u

MCThreads == {t, u}
MCFdOf == (t :> 5) @@ (u :> 12)

================================================================================
