------------------------------- MODULE MCPrograms -------------------------------
(***************************************************************************)
(* The TLC instance of Programs and LibLog.  The file names: in the        *)
(* working directory, with a dot in its directory's name, and in the root  *)
(* directory.                                                              *)
(***************************************************************************)
EXTENDS Programs

CONSTANTS m, w

MCUsers == {m, w}
MCNums == 0..6
MCIdents ==
  {<<"f", ".", "x">>, <<"a", ".", "b", "/", "c", "/", "f">>, <<"/", "f">>}

================================================================================
