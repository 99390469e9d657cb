--------------------------- MODULE WorkerContract ---------------------------
(***************************************************************************)
(* What SearchControl takes for granted of a persistent search thread: a   *)
(* job handed over is taken once, carried out, and only then is the worker *)
(* idle again.                                                             *)
(***************************************************************************)
VARIABLE worker

Init == worker = "idle"

Run == worker = "idle" /\ worker' = "given"
Take == worker = "given" /\ worker' = "search"
Finish == worker = "search" /\ worker' = "idle"

Next == Run \/ Take \/ Finish

Spec == Init /\ [][Next]_worker
=============================================================================
