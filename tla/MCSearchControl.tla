--------------------------- MODULE MCSearchControl ---------------------------
(***************************************************************************)
(* The go commands of the small instances of SearchControl.                *)
(***************************************************************************)
EXTENDS SearchControl

GoWith(uses, d, mate, infinite, ponder) ==
  [uses |-> uses, depth |-> d, mate |-> mate, infinite |-> infinite, ponder |-> ponder]

\* One go of each kind the code treats differently.
AllGoes == { GoWith({"clock"}, 0, FALSE, FALSE, FALSE),
             GoWith({"clock"}, 0, FALSE, FALSE, TRUE),
             GoWith({"movetime", "nodes"}, 0, FALSE, FALSE, TRUE),
             GoWith({}, 0, TRUE, TRUE, FALSE),
             GoWith({}, 1, FALSE, FALSE, FALSE) }

\* Those the liveness properties tell apart.
LiveGoes == { GoWith({"clock"}, 0, FALSE, FALSE, TRUE),
              GoWith({"movetime"}, 0, TRUE, TRUE, FALSE),
              GoWith({"movetime", "nodes"}, 0, FALSE, FALSE, FALSE) }
=============================================================================
