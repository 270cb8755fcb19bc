----------------------------- MODULE EchoService -----------------------------
(***************************************************************************)
(* What the echo server promises to its clients: what a client asks is     *)
(* taken in portions, each exactly once and in the order it was asked, and *)
(* each portion goes back to the client that asked - in no particular      *)
(* order, for several workers answer.  Nothing is promised of a portion    *)
(* that its client's socket refuses; one whose client has gone is dropped  *)
(* or, for a socket number is given out again, reaches a client that has   *)
(* come since.  No descriptor, event, list or worker is visible here;      *)
(* EchoServer implements this specification.                               *)
(***************************************************************************)
EXTENDS Naturals, Sequences

CONSTANTS
  Clients,
  MaxAsked         \* requests of one client (bound)

VARIABLES
  asked, taken,    \* the requests each client sent, and those taken from it
  pending,         \* the portions taken and not yet answered
  broken,          \* the clients whose connection the network has broken
  gone,            \* those whose connection the server has closed
  echoes,          \* what reached each client
  refused          \* the requests whose answer the client's socket refused

vars == <<asked, taken, pending, broken, gone, echoes, refused>>

Requests(p) == {<<p.from, n>> : n \in p.first..p.last}

Init ==
  /\ asked = [c \in Clients |-> 0] /\ taken = [c \in Clients |-> 0]
  /\ pending = {} /\ broken = {} /\ gone = {}
  /\ echoes = [c \in Clients |-> <<>>] /\ refused = {}

Ask(c) ==
  /\ c \notin gone \cup broken /\ asked[c] < MaxAsked
  /\ asked' = [asked EXCEPT ![c] = @ + 1]
  /\ UNCHANGED <<taken, pending, broken, gone, echoes, refused>>

Take(c, n) ==
  /\ c \notin gone /\ n \in taken[c] + 1..asked[c]
  /\ taken' = [taken EXCEPT ![c] = n]
  /\ pending' = pending \cup {[from |-> c, first |-> taken[c] + 1, last |-> n]}
  /\ UNCHANGED <<asked, broken, gone, echoes, refused>>

Echo(p, c) ==
  /\ p.from = c \/ p.from \in gone
  /\ c \notin gone \cup broken
  /\ echoes' = [echoes EXCEPT ![c] = Append(@, p)]
  /\ pending' = pending \ {p}
  /\ UNCHANGED <<asked, taken, broken, gone, refused>>

Refuse(p) ==
  /\ refused' = refused \cup Requests(p)
  /\ pending' = pending \ {p}
  /\ UNCHANGED <<asked, taken, broken, gone, echoes>>

Drop(p) ==
  /\ p.from \in gone \cup broken
  /\ pending' = pending \ {p}
  /\ UNCHANGED <<asked, taken, broken, gone, echoes, refused>>

Break(c) ==
  /\ c \notin gone \cup broken
  /\ broken' = broken \cup {c}
  /\ UNCHANGED <<asked, taken, pending, gone, echoes, refused>>

Leave(c) ==
  /\ c \notin gone
  /\ gone' = gone \cup {c}
  /\ UNCHANGED <<asked, taken, pending, broken, echoes, refused>>

Next ==
  \/ \E c \in Clients :
       Ask(c) \/ Break(c) \/ Leave(c) \/ \E n \in 1..MaxAsked : Take(c, n)
  \/ \E p \in pending : Refuse(p) \/ Drop(p) \/ \E c \in Clients : Echo(p, c)

Spec == Init /\ [][Next]_vars

==============================================================================
