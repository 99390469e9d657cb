---------------------------------- MODULE See ----------------------------------
(***************************************************************************)
(* Is the exchange on the target of a move worth a threshold?  see.cpp     *)
(* (see_ge_impl), with the pins of see_pins_update and the shortcuts of    *)
(* see_holds and see_holds_q (11_queue.inc).  The pins are kept by key,    *)
(* which is exact here, so they are computed from the board.  The pawn     *)
(* corrections (0 unless an option is set) and the choice of the table of  *)
(* values by the experts of the board (constant in a release) are left     *)
(* out: SeeValues is any table, the two colours' values may differ.        *)
(***************************************************************************)
EXTENDS LegalMoves

CONSTANT SeeValues
ASSUME SeeValuesAssumption == SeeValues \in [Pieces -> Nat]

ValueOf(pc) == IF pc = None THEN 0 ELSE SeeValues[pc]

\* The pieces of colour c pinned to their king, and the sliders that pin them, two in a row included.
PinsIn(shield, pinners) == [pinned |-> UNION {shield[s] : s \in pinners}, pinners |-> pinners]
PinsBy(td, c, shield) ==
  PinsIn(shield, {s \in DOMAIN shield : Cardinality(shield[s]) = 1 /\ shield[s] \subseteq td.occ[c]})
Shields(td, k, snipers) == [s \in snipers |-> between_tbl[k][s] \cap (All(td) \ snipers)]
PinsOn(td, c, k) == PinsBy(td, c, Shields(td, k, Snipers([td EXCEPT !.side = c], k)))
see_pins_update(td) == [c \in {white, black} |-> PinsOn(td, c, KingSquare(td, c))]

(***************************************************************************)
(* The exchange: who captures next on "to", the pieces not yet taken off   *)
(* (occ), those seen to bear on it (seen), the value of the piece that     *)
(* stands there and the balance for the side that has captured last.       *)
(***************************************************************************)
OfBoth(td, t) == td.bb[Piece(white, t)] \cup td.bb[Piece(black, t)]
DiagSliders(td) == OfBoth(td, Bishop) \cup OfBoth(td, Queen)
OrthSliders(td) == OfBoth(td, Rook) \cup OfBoth(td, Queen)
OpensDiag == {Pawn, Bishop, Queen}
OpensOrth == {Rook, Queen}

FirstSeen(td, to, pair) ==
  (pawn_attacks[black][to] \cap td.bb[Piece(white, Pawn)]) \cup (pawn_attacks[white][to] \cap td.bb[Piece(black, Pawn)])
  \cup (knight_attacks[to] \cap OfBoth(td, Knight)) \cup (king_attacks[to] \cap OfBoth(td, King))
  \cup (pair[1] \cap DiagSliders(td)) \cup (pair[2] \cap OrthSliders(td))

\* The lines a piece of kind t has opened by leaving its square.
Uncovered(td, t, pair) ==
  (IF t \in OpensDiag THEN pair[1] \cap DiagSliders(td) ELSE {})
  \cup (IF t \in OpensOrth THEN pair[2] \cap OrthSliders(td) ELSE {})

\* Pinned pieces hold while a pinner stands that was not just taken on "to".
MayTake(td, to, pins, e) ==
  LET all == e.seen \cap e.occ \cap td.occ[e.side]
  IN  IF (pins[e.side].pinners \cap e.occ) \ {to} = {} THEN all ELSE all \ pins[e.side].pinned

LeastKind(td, e, mine) ==
  CHOOSE t \in 0..5 : /\ mine \cap td.bb[Piece(e.side, t)] # {}
                      /\ \A u \in 0..(t - 1) : mine \cap td.bb[Piece(e.side, u)] = {}

\* Variant: the piece that has taken counts by white's table whatever its colour (the code until 28/10).
AfterTakingWhiteValues(td, to, e, t, occ) ==
  [side |-> 1 - e.side, occ |-> occ,
   seen |-> (e.seen \cap e.occ) \cup Uncovered(td, t, slider_pair(to, occ)),
   standing |-> SeeValues[Piece(white, t)], gain |-> e.standing - e.gain]
AfterTaking(td, to, e, t, occ) ==
  [side |-> 1 - e.side, occ |-> occ,
   seen |-> (e.seen \cap e.occ) \cup Uncovered(td, t, slider_pair(to, occ)),
   standing |-> SeeValues[Piece(e.side, t)], gain |-> e.standing - e.gain]

\* The king takes only what is no longer defended, and ends the exchange.
AfterKing(td, e) ==
  IF e.seen \cap e.occ \cap td.occ[1 - e.side] # {} THEN {}
  ELSE {[e EXCEPT !.side = 1 - @, !.seen = {}, !.gain = e.standing - @]}

TakenWith(td, to, e, mine, t) ==
  IF t = King THEN AfterKing(td, e)
  ELSE {AfterTaking(td, to, e, t, e.occ \ {Lsb(mine \cap td.bb[Piece(e.side, t)])})}
TakenBy(td, to, e, mine) == IF mine = {} THEN {} ELSE TakenWith(td, to, e, mine, LeastKind(td, e, mine))

\* Resolved backwards: a side captures only if it does better than stopping.
Lesser(x, y) == IF x < y THEN x ELSE y
Answered(gain, answers) == IF answers = {} THEN gain ELSE Lesser(gain, - (CHOOSE v \in answers : TRUE))
Exchanges == [side : {white, black}, occ : SUBSET Squares, seen : SUBSET Squares, standing : Nat, gain : Int]
Resolve(td, to, pins, first) ==
  LET value[e \in Exchanges] ==
        Answered(e.gain, {value[next] : next \in TakenBy(td, to, e, MayTake(td, to, pins, e))})
  IN  value[first]

FirstGain(td, m) ==
  ValueOf(IF m.enpass THEN Piece(1 - td.side, Pawn) ELSE td.piece_on[m.to])
  + (IF m.promo = 0 THEN 0 ELSE SeeValues[m.promo] - SeeValues[m.piece])
WithoutMover(td, m) == Xor(All(td), {m.from} \cup (IF m.enpass THEN {m.to - Up(td.side)} ELSE {}))
FirstState(td, m, occ) ==
  [side |-> 1 - td.side, occ |-> occ, seen |-> FirstSeen(td, m.to, slider_pair(m.to, occ)),
   standing |-> SeeValues[IF m.promo = 0 THEN m.piece ELSE m.promo], gain |-> FirstGain(td, m)]

\* At most the first gain, at least that gain less the mover: most answers need no walk.
GeFrom(td, m, threshold, pins, e) ==
  /\ e.gain >= threshold
  /\ e.gain - e.standing >= threshold \/ Resolve(td, m.to, pins, e) >= threshold
td_see_ge(td, m, threshold, pins) == GeFrom(td, m, threshold, pins, FirstState(td, m, WithoutMover(td, m)))

see_holds(td, m, threshold, pins) ==
  IF m.castling \/ m.enpass THEN 0 >= threshold ELSE td_see_ge(td, m, threshold, pins)

\* A plain quiet move of a node not in check: no exchange when its target is not attacked and no slider sees its origin.
opp_slider(td) == UNION {UNION {Attacks(t, s, All(td)) : s \in Theirs_(td, t)} : t \in {Bishop, Rook, Queen}}
NoExchange(m, opp_att, sliders) ==
  /\ ~ m.capture /\ m.promo = 0 /\ ~ m.enpass /\ ~ m.castling
  /\ m.to \notin opp_att /\ m.from \notin sliders
see_holds_q(td, m, threshold, pins, opp_att, sliders) ==
  IF NoExchange(m, opp_att, sliders) THEN 0 >= threshold ELSE see_holds(td, m, threshold, pins)
=============================================================================
