------------------------------- MODULE MoveQueue -------------------------------
(***************************************************************************)
(* The move queue of a node (11_queue.inc): the hash move first, then by   *)
(* stages the captures that hold the exchange, the good quiet moves, the   *)
(* losing captures, the other quiet moves; in check all evasions; in       *)
(* quiescence and for the capture probe captures only.  A list is filled   *)
(* when its stage begins, so what was handed out before must be left out.  *)
(* The scores come from statistics: here a score is any function of the    *)
(* target square, and the order of generation, which only decides between  *)
(* equal scores and in the unsorted tail, any.  The setting of a queue:    *)
(* kind of node, score by target, limit of the sort, good_quiet,           *)
(* good_capt and the threshold of the probe.                               *)
(***************************************************************************)
EXTENDS See, FiniteSetsExt
LOCAL INSTANCE TLC

is_tactical(m) == m.capture \/ (m.promo # 0 /\ Type(m.promo) = Queen)

(***************************************************************************)
(* Filling and ranking.                                                    *)
(***************************************************************************)
StageOf == [tact_fill |-> "tactics", only_tact_fill |-> "tactics", quiet_fill |-> "quiets", evade_fill |-> "all"]
FirstFill == [main |-> "tact_fill", evade |-> "evade_fill", quiesce |-> "only_tact_fill", cuts |-> "only_tact_fill"]
AfterFill == [tact_fill |-> "tact_win", only_tact_fill |-> "drain", quiet_fill |-> "quiet_high", evade_fill |-> "drain"]

Generated(td, stage) ==
  IF g_chess960 THEN {m \in td_generate_moves_side(td) : StageKeeps(stage, m)} ELSE generate_legal_tv(td, stage)

\* Variant: the queen promotions, handed out with the captures, come back with the quiet moves.
ListedWithQueens(q, generated) == generated \ q.hash
\* The hash move is out already, and so are the queen promotions when the quiet moves come.
Listed(q, generated) == {m \in generated \ q.hash : q.step = "quiet_fill" => ~ is_tactical(m)}

\* In check the tactical moves come before every quiet one.
ScoreOf(q, m) == q.set.score[m.to] + (IF q.step = "evade_fill" /\ is_tactical(m) THEN 1048576 ELSE 0)
Scored(q, moves) == {[move |-> m, score |-> ScoreOf(q, m)] : m \in moves}
InSomeOrder(S) == FoldSet(LAMBDA x, s : Append(s, x), <<>>, S)
rank_list(scored, limit) ==
  SortSeq(InSomeOrder({x \in scored : x.score >= limit}), LAMBDA x, y : x.score > y.score)
  \o InSomeOrder({x \in scored : x.score < limit})

FilledWith(q, ranked) == [q EXCEPT !.list = ranked, !.tact = Len(ranked), !.cur = 0]
Lowest(scored) == IF scored = {} THEN 0 ELSE Min({x.score : x \in scored})
fill_tactics(q, scored) == FilledWith(q, rank_list(scored, Lowest(scored)))
fill_evasions(q, scored) == FilledWith(q, rank_list(scored, Lowest(scored)))

\* Good and bad quiet moves are two ranges when every good one is sorted; else (-1) the stages compare scores.
QuietSplit(q, scored) ==
  IF q.set.limit > q.set.good_quiet + 1 THEN -1
  ELSE q.tact + Cardinality({x \in scored : x.score > q.set.good_quiet})
fill_quiets(q, scored) ==
  [q EXCEPT !.list = @ \o rank_list(scored, q.set.limit), !.cur = q.tact, !.split = QuietSplit(q, scored)]

FillBy(q, scored) ==
  CASE q.step \in {"tact_fill", "only_tact_fill"} -> fill_tactics(q, scored)
    [] q.step = "evade_fill" -> fill_evasions(q, scored)
    [] OTHER -> fill_quiets(q, scored)
Filled(td, q) ==
  IF q.step = "quiet_fill" /\ q.quiets_off THEN q
  ELSE FillBy(q, Scored(q, Listed(q, Generated(td, StageOf[q.step]))))

(***************************************************************************)
(* One round of the loop of queue_next: a move goes out, or the step       *)
(* changes.                                                                *)
(***************************************************************************)
\* C's division, toward zero.
Quotient(a, b) == IF a < 0 THEN - ((- a) \div b) ELSE a \div b
Margin(set, score) == Quotient(- (score * set.good_capt), 19456)

\* The tactical moves not handed out yet that hold the exchange this stage asks for.
Asked(q, i) == IF q.step = "tact_win" THEN Margin(q.set, q.list[i].score) ELSE q.set.threshold
AllPass(q) == q.step = "drain" /\ q.set.kind # "cuts"
Holding(td, q) ==
  {i \in (q.cur + 1)..q.tact : AllPass(q) \/ see_holds(td, q.list[i].move, Asked(q, i), see_pins_update(td))}

\* The quiet moves of this stage: a range, or those of a good, of a bad score.
InStage(q, i) ==
  IF q.split >= 0 THEN q.step = "quiet_high" => i <= q.split
  ELSE (q.list[i].score > q.set.good_quiet) = (q.step = "quiet_high")
QuietsLeft(q) == {i \in (q.cur + 1)..Len(q.list) : ~ q.quiets_off /\ InStage(q, i)}

HandOut(q, found, next) ==
  IF found = {} THEN [q EXCEPT !.step = next]
  ELSE [q EXCEPT !.cur = Min(found), !.out = {q.list[Min(found)].move}]

\* The moves passed over are the losers of the exchange.
PassedOver(q, found) == [k \in 1..((IF found = {} THEN q.tact ELSE Min(found) - 1) - q.cur) |-> q.cur + k]
Tactic(q, found) ==
  IF q.step = "drain" THEN HandOut(q, found, "done")
  ELSE [HandOut(q, found, "quiet_fill") EXCEPT !.losers = @ \o PassedOver(q, found)]

Loser(q) ==
  IF q.lost < Len(q.losers) THEN [q EXCEPT !.lost = @ + 1, !.out = {q.list[q.losers[q.lost + 1]].move}]
  ELSE [q EXCEPT !.cur = IF q.split >= 0 THEN q.split ELSE q.tact, !.step = "quiet_low"]

Round(td, q) ==
  CASE q.step = "hash" -> [q EXCEPT !.step = FirstFill[q.set.kind], !.out = q.hash]
    [] q.step \in DOMAIN StageOf -> [Filled(td, q) EXCEPT !.step = AfterFill[@]]
    [] q.step \in {"tact_win", "drain"} -> Tactic(q, Holding(td, q))
    [] q.step = "quiet_high" -> HandOut(q, QuietsLeft(q), "tact_lose")
    [] q.step = "tact_lose" -> Loser(q)
    [] q.step = "quiet_low" -> HandOut(q, QuietsLeft(q), "done")

\* The hash move counts if it is a move of this position, and for the capture probe a tactical one.
queue_start(td, set, hash) ==
  [set |-> set, step |-> "hash", quiets_off |-> FALSE, list |-> <<>>, tact |-> 0, cur |-> 0, losers |-> <<>>, lost |-> 0,
   split |-> -1, out |-> {},
   hash |-> {m \in hash : td_is_pseudo_legal(td, m) /\ (set.kind = "cuts" => is_tactical(m))}]

\* One round, after the last move was taken; a round without a move is followed by another.
queue_next(td, q) == Round(td, [q EXCEPT !.out = {}])
=============================================================================
