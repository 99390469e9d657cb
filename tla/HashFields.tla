----------------------------- MODULE HashFields -----------------------------
(***************************************************************************)
(* What the hash table stores of a node's numbers and gives back: the      *)
(* score as a distance from the node (to_hash_value, from_hash_value of    *)
(* 12_quiesce.inc), the evaluation without the damping of the fifty-move   *)
(* counter (eval_unfade, eval_refade of 09_history.inc), and the fields of *)
(* 16 and 8 bits they and the depth are packed into (tt.h).                *)
(***************************************************************************)
EXTENDS Integers

(***************************************************************************)
(* Division, toward zero as the code divides.                              *)
(***************************************************************************)
Trunc(a, b) == IF a < 0 THEN - ((- a) \div b) ELSE a \div b

max_ply == 128
mate_value == 31000
TB_WIN_TOP == 29872
TB_WIN_FLOOR == 29744     \* from here up a score is decided
MATE_FLOOR == 30872       \* from here up it is a mate
VAL_NONE == 32001
HD_SHIFT == 3

(***************************************************************************)
(* The score.                                                              *)
(***************************************************************************)
val_decided(v) == v >= TB_WIN_FLOOR \/ v <= - TB_WIN_FLOOR

to_hash_value(v, ply) ==
  IF v # VAL_NONE /\ val_decided(v) THEN v + (IF v > 0 THEN ply ELSE - ply) ELSE v

Plies(a) == IF a >= MATE_FLOOR THEN mate_value - a ELSE TB_WIN_TOP - a
Nearer(side, a, ply, fifty) ==
  IF Plies(a) > 100 - fifty THEN side * (TB_WIN_FLOOR - 1) ELSE side * a - side * ply
from_hash_value(v, ply, fifty) ==
  IF v = VAL_NONE THEN VAL_NONE
  ELSE IF ~ val_decided(v) THEN v
  ELSE IF v > 0 THEN Nearer(1, v, ply, fifty) ELSE Nearer(-1, - v, ply, fifty)

\* The field of 16 bits.
pack_score(v) == (v + 32768) % 65536
unpack_score(w) == w - 32768

\* The field of 8 bits of a depth, which may be a little below zero.
pack_depth(d) == (d + HD_SHIFT) % 256
unpack_depth(w) == w - HD_SHIFT

(***************************************************************************)
(* The evaluation.                                                         *)
(***************************************************************************)
tt_eval_none == 32001
tt_eval16(v) == IF v = tt_eval_none \/ v > 30000 \/ v < - 30000 THEN 0 ELSE (v + 32768) % 65536
Unpacked(v) == IF v > 30000 \/ v < - 30000 THEN tt_eval_none ELSE v
tt_unpack_eval16(w) == IF w = 0 THEN tt_eval_none ELSE Unpacked(w - 32768)

\* The division by 199 - fifty is a multiplication by a reciprocal with 40 bits of fraction.
two40 == 1099511627776
unfade_recip(fifty) == (two40 + (198 - fifty)) \div (199 - fifty)
Capped(fifty) == IF fifty > 100 THEN 100 ELSE fifty
Scaled(mag, fifty) == (mag * unfade_recip(fifty)) \div two40
Unfaded(x, fifty) == IF x < 0 THEN - Scaled(- x, fifty) ELSE Scaled(x, fifty)
eval_unfade(v, fifty) == Unfaded(v * 199, Capped(fifty))
eval_refade(v, fifty) == v - Trunc(v * Capped(fifty), 199)
===============================================================================
