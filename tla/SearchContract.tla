--------------------------- MODULE SearchContract ---------------------------
(***************************************************************************)
(* What the engine promises a GUI about "go" and "bestmove", without       *)
(* threads or flags: every go is answered by exactly one bestmove, in the  *)
(* order of the go commands, and the search of "go infinite" or "go        *)
(* ponder" is not answered before the GUI lets it go (uci_mt.cpp, the loop *)
(* of uci_loop; search/15_threads.inc, wait_release).                      *)
(***************************************************************************)
EXTENDS Naturals, Sequences

Holds == {"infinite", "ponder"}   \* the reasons for which a bestmove is held back

VARIABLES open,    \* one entry per unanswered go: the holds still on its bestmove
          asked    \* the number of go commands received

vars == <<open, asked>>

TypeOK == /\ open \in Seq(SUBSET Holds)
          /\ asked \in Nat

Init == open = <<>> /\ asked = 0

AllLetGo(s) == [i \in DOMAIN s |-> {}]

\* A new go. The searches before it are let go: the engine stops them itself.
Go(h) == /\ open' = Append(AllLetGo(open), h)
         /\ asked' = asked + 1

\* stop, quit, end of input, position and the options that stop the search.
LetGo == open' = AllLetGo(open) /\ UNCHANGED asked

PonderHit == /\ open' = [i \in DOMAIN open |-> open[i] \ {"ponder"}]
             /\ UNCHANGED asked

BestMove == /\ open # <<>>
            /\ Head(open) = {}
            /\ open' = Tail(open)
            /\ UNCHANGED asked

Next == \/ \E h \in SUBSET Holds : Go(h)
        \/ LetGo
        \/ PonderHit
        \/ BestMove

Spec == Init /\ [][Next]_vars
=============================================================================
