------------------------------ MODULE MCSocket ------------------------------
(* A small instance of sockets; the tasks are interchangeable. *)
EXTENDS UnixSocket, TLC

Symmetry == Permutations(Task) \cup Permutations(Path)

(* To bound the states, a second name is taken, and given up, only while   *)
(* nobody sleeps: what sleepers do is checked with one name.               *)
SecondNameAwake ==
  Len(bound_sockets) > 1 => \A t \in Task : state[t] # "BLOCKED"

MCSocketSpec == SocketInit /\ [][SocketNext /\ SecondNameAwake']_uvars
=============================================================================
