---------------------------- MODULE RobotService ----------------------------
(***************************************************************************)
(* What the yanshee server and the robot's program promise together to a   *)
(* client: a command is accepted into a line, and when its turn comes it   *)
(* is refused - as a repetition of the command before it, or as a dance    *)
(* the robot must not do - or it is handed to the robot.  The robot starts *)
(* it and tries it at most once, before it is handed another; the attempt  *)
(* may fail, and nobody is told if it does.  The client hears "start" only *)
(* after the robot has started and "done" only after its attempt has       *)
(* ended; a command given up in between stays without the rest of its      *)
(* answer.  No connection, token or buffer is                              *)
(* visible here; YansheeServer implements this specification.              *)
(***************************************************************************)
EXTENDS Naturals, Sequences

CONSTANTS
  Cmds, Banned,    \* the contents of a command, and those the robot must not do
  MaxTasks,        \* commands the clients give (bound)
  NULL             \* no command

VARIABLES
  accepted,        \* commands accepted so far
  line,            \* those whose turn has not come, oldest first
  current,         \* the command whose turn it is, or NULL
  stage,           \* what has become of it
  previous,        \* the contents of the command before it that was not a repetition
  tried,           \* the numbers of the commands the robot has tried, in order
  failed,          \* those of them that it could not perform
  told             \* what the client of each command has heard

vars == <<accepted, line, current, stage, previous, tried, failed, told>>

Init ==
  /\ accepted = 0 /\ line = <<>>
  /\ current = NULL /\ stage = "none" /\ previous = NULL
  /\ tried = <<>> /\ failed = {}
  /\ told = [n \in 1..MaxTasks |-> <<>>]

Accept(cmd) ==
  /\ accepted < MaxTasks
  /\ accepted' = accepted + 1
  /\ line' = Append(line, [id |-> accepted + 1, cmd |-> cmd])
  /\ UNCHANGED <<current, stage, previous, tried, failed, told>>

TakeUp ==
  /\ stage = "none" /\ line # <<>>
  /\ current' = Head(line) /\ line' = Tail(line)
  /\ stage' = "taken"
  /\ UNCHANGED <<accepted, previous, tried, failed, told>>

Tell(word) == told' = [told EXCEPT ![current.id] = Append(@, word)]
Finish == current' = NULL /\ stage' = "none"

Repeat ==
  /\ stage = "taken" /\ current.cmd = previous
  /\ Tell("repeat") /\ Finish
  /\ UNCHANGED <<accepted, line, previous, tried, failed>>

Ban ==
  /\ stage = "taken" /\ current.cmd # previous /\ current.cmd \in Banned
  /\ previous' = current.cmd
  /\ Tell("banned") /\ Finish
  /\ UNCHANGED <<accepted, line, tried, failed>>

Hand ==
  /\ stage = "taken" /\ current.cmd # previous /\ current.cmd \notin Banned
  /\ previous' = current.cmd
  /\ stage' = "handed"
  /\ UNCHANGED <<accepted, line, current, tried, failed, told>>

Start ==
  /\ stage = "handed" /\ stage' = "started"
  /\ UNCHANGED <<accepted, line, current, previous, tried, failed, told>>

\* The attempt ends, in a performance or in a failure.
Try ==
  /\ stage = "started" /\ stage' = "tried"
  /\ tried' = Append(tried, current.id)
  /\ failed' \in {failed, failed \cup {current.id}}
  /\ UNCHANGED <<accepted, line, current, previous, told>>

TellStart ==
  /\ stage \in {"started", "tried"} /\ told[current.id] = <<>>
  /\ Tell("start")
  /\ UNCHANGED <<accepted, line, current, stage, previous, tried, failed>>

TellDone ==
  /\ stage = "tried" /\ told[current.id] = <<"start">>
  /\ Tell("done") /\ Finish
  /\ UNCHANGED <<accepted, line, previous, tried, failed>>

\* The robot has gone away: whatever it made of the command, nobody is told.
Abandon ==
  /\ stage \in {"handed", "started", "tried"}
  /\ Finish
  /\ UNCHANGED <<accepted, line, previous, tried, failed, told>>

Next ==
  \/ \E cmd \in Cmds : Accept(cmd)
  \/ TakeUp \/ Repeat \/ Ban \/ Hand
  \/ Start \/ Try \/ TellStart \/ TellDone \/ Abandon

Spec == Init /\ [][Next]_vars

=============================================================================
