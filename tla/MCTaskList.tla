------------------------------ MODULE MCTaskList ------------------------------
(***************************************************************************)
(* The TLC instance of TaskList: one epoll thread, three workers, and      *)
(* fewer heap blocks than tasks, so that every freed block is malloc'd     *)
(* again.  Liveness is checked in the same run, hence no symmetry.         *)
(***************************************************************************)
EXTENDS TaskList, TLC

===============================================================================
