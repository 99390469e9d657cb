----------------------------- MODULE MCSharedNet -----------------------------
(* Two networks, the second one in a file that replaces the first.  On      *)
(* Windows three processes, which a handle kept by a poller needs; on Linux  *)
(* two, and the file that is replaced, which only its aliases notice.        *)
EXTENDS SharedNet

CONSTANTS p1, p2, p3

MCProcs == {p1, p2, p3}
MCFileNet == <<"n1", "n2">>

MCBounds ==
  [windows |-> [procs |-> {p1, p2, p3}, files |-> 1, loads |-> 3, faults |-> 2],
   linux |-> [procs |-> {p1, p2}, files |-> 2, loads |-> 3, faults |-> 2]]

\* No fault, two loads: what the replaced file alone does.
AliasBounds ==
  [x \in Platforms |-> [procs |-> {p1, p2}, files |-> 2, loads |-> 2, faults |-> 0]]
=============================================================================
