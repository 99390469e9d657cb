------------------------------ MODULE PickThread ------------------------------
(***************************************************************************)
(* The choice of the thread that gives the bestmove (pick_thread of        *)
(* 15_threads.inc): the lowest score, the share every thread gives its own *)
(* move, the support of a move, and the walk that prefers a complete       *)
(* decided result, then more support, then the longer line.  The lines do  *)
(* not change meanwhile (VoteAfterJoin).  Left out: SmpRouteShift, off by  *)
(* default, which takes threads from the vote.                             *)
(***************************************************************************)
EXTENDS HashFields

CONSTANTS
  nt,                                      \* the number of threads
  root,                                    \* [0..nt - 1 -> Line]: the first root line of each
  Move,
  SmpVoteBase, SmpVoteScore, SmpVoteDepth

VARIABLES
  step,           \* "floor", "share", "support", "choose" or "chosen"
  i, j,           \* the loop counters
  floor_score, share, support, chosen

vote_vars == <<step, i, j, floor_score, share, support, chosen>>

Infinity == 32000
Scores == (- Infinity)..Infinity
Threads == 0..(nt - 1)
Line == [move : Move, score : Scores, lower : BOOLEAN, upper : BOOLEAN, pv_len : Nat, depth : Nat]

val_lost(v) == v <= - TB_WIN_FLOOR
Absolute(n) == IF n < 0 THEN - n ELSE n

VoteInit ==
  /\ step = "floor" /\ i = 0 /\ j = 0
  /\ floor_score = Infinity
  /\ share = [t \in Threads |-> 0] /\ support = [t \in Threads |-> 0]
  /\ chosen = 0

\* The end of a loop over the threads is the beginning of the next.
Counted(next) ==
  IF i + 1 < nt THEN i' = i + 1 /\ UNCHANGED step
  ELSE i' = 0 /\ step' = next

Floor ==
  /\ step = "floor"
  /\ floor_score' = IF root[i].score < floor_score THEN root[i].score ELSE floor_score
  /\ Counted("share")
  /\ UNCHANGED <<j, share, support, chosen>>

ShareOf(t, lowest) == Trunc((root[t].score - lowest + SmpVoteBase) * SmpVoteScore, 1024) + SmpVoteDepth * root[t].depth
Share ==
  /\ step = "share"
  /\ share' = [share EXCEPT ![i] = ShareOf(i, floor_score)]
  /\ Counted("support")
  /\ UNCHANGED <<j, floor_score, support, chosen>>

Support ==
  /\ step = "support"
  /\ support' = [support EXCEPT ![i] = IF root[j].move = root[i].move THEN @ + share[j] ELSE @]
  /\ IF j + 1 < nt THEN j' = j + 1 /\ UNCHANGED <<i, step>>
     ELSE j' = 0 /\ Counted("choose")
  /\ UNCHANGED <<floor_score, share, chosen>>

\* A thread without a finished iteration has the score -Infinity, which is no result.
decided(line) == line.score # - Infinity /\ val_decided(line.score) /\ ~ line.lower /\ ~ line.upper
prefer(cand, held) ==
  IF decided(root[held]) THEN decided(root[cand]) /\ Absolute(root[cand].score) > Absolute(root[held].score)
  ELSE IF decided(root[cand]) THEN TRUE
  ELSE IF val_lost(root[cand].score) THEN FALSE
  ELSE IF support[cand] # support[held] THEN support[cand] > support[held]
  ELSE root[cand].pv_len > root[held].pv_len

Choose ==
  /\ step = "choose"
  /\ chosen' = IF prefer(i, chosen) THEN i ELSE chosen
  /\ Counted("chosen")
  /\ UNCHANGED <<j, floor_score, share, support>>

VoteNext == Floor \/ Share \/ Support \/ Choose

Vote == VoteInit /\ [][VoteNext]_vote_vars

-----------------------------------------------------------------------------
LineAssumption ==
  /\ nt \in Nat \ {0} /\ root \in [Threads -> Line]
  /\ SmpVoteBase \in Nat /\ SmpVoteScore \in Nat /\ SmpVoteDepth \in Nat

VoteTypeOK ==
  /\ step \in {"floor", "share", "support", "choose", "chosen"}
  /\ i \in Threads /\ j \in Threads /\ chosen \in Threads
  /\ floor_score \in Scores
  /\ share \in [Threads -> Int] /\ support \in [Threads -> Int]

\* The threads a step has dealt with.
Done(t, this, later) == step \in later \/ (step = this /\ t < i)

\* The lowest score is under every score seen, so no share is negative and no support either: a thread never takes
\* from a move it votes for.
SharesAdd ==
  /\ \A t \in Threads : Done(t, "floor", {"share", "support", "choose", "chosen"}) => floor_score <= root[t].score
  /\ \A t \in Threads : share[t] >= 0 /\ support[t] >= 0

\* The thread chosen: one with a complete decided result, the nearest of all those results, as soon as there is one;
\* else one no thread has more support than, leaving out the lost ones, and with as much support no longer line.
Weighed(t) == Done(t, "choose", {"chosen"})
BestOfWeighed ==
  \A t \in Threads : Weighed(t) =>
    IF decided(root[t])
    THEN decided(root[chosen]) /\ Absolute(root[t].score) <= Absolute(root[chosen].score)
    ELSE decided(root[chosen]) \/ val_lost(root[t].score) \/ support[t] < support[chosen]
         \/ (support[t] = support[chosen] /\ root[t].pv_len <= root[chosen].pv_len)

BestIsChosen == step = "chosen" => \A t \in Threads :
  /\ decided(root[t]) => decided(root[chosen]) /\ Absolute(root[t].score) <= Absolute(root[chosen].score)
  /\ ~ decided(root[chosen]) /\ ~ val_lost(root[t].score) =>
       support[t] < support[chosen] \/ (support[t] = support[chosen] /\ root[t].pv_len <= root[chosen].pv_len)

=============================================================================
