----------------------------- MODULE ChessRules -----------------------------
(***************************************************************************)
(* The rules of chess (and of Chess960), stated from the coordinates of    *)
(* the squares and with no bitboard, key or counter kept incrementally:    *)
(* the specification that the boards of the engine are shown to implement. *)
(* A position is a record:                                                 *)
(*   board   what stands on each square: a piece code, or Empty            *)
(*   turn    the side to move, 0 white, 1 black                            *)
(*   rights  the squares of the rooks that may still castle                *)
(*   ep      the square a pawn has just jumped over, when a pawn of the    *)
(*           side to move attacks it; Nowhere otherwise                    *)
(*   clock   plies since the last capture or pawn move                     *)
(* Squares are 8 * row + column, row 0 being the eighth rank; the pieces   *)
(* P N B R Q K are 0..5, the black ones 6..11.                             *)
(***************************************************************************)
EXTENDS Integers

CONSTANTS Openings,   \* the positions a game may start from
          Worth       \* the value of each piece, for the exchanges
VARIABLE pos

Board == 0..63
Nowhere == 64
Empty == -1
Sq(col, row) == 8 * row + col
Col(s) == s % 8
Rank(s) == s \div 8
Owner(pc) == pc \div 6
Kind(pc) == pc % 6
Ours(b, s, c) == b[s] # Empty /\ Owner(b[s]) = c
Ahead(c) == IF c = 0 THEN -1 ELSE 1
FirstRank(c) == IF c = 0 THEN 7 ELSE 0

Orthogonal == {<<0, 1>>, <<0, -1>>, <<1, 0>>, <<-1, 0>>}
Oblique == {<<1, 1>>, <<1, -1>>, <<-1, 1>>, <<-1, -1>>}
Jumps == {<<1, 2>>, <<1, -2>>, <<-1, 2>>, <<-1, -2>>, <<2, 1>>, <<2, -1>>, <<-2, 1>>, <<-2, -1>>}

\* The square n steps from s in direction d, and whether it is on the board.
To(s, d, n) == Sq(Col(s) + n * d[1], Rank(s) + n * d[2])
OnBoard(s, d, n) == Col(s) + n * d[1] \in 0..7 /\ Rank(s) + n * d[2] \in 0..7

Walk(b, s, dirs, far) ==
  UNION {{To(s, d, n) : n \in {k \in 1..far : /\ OnBoard(s, d, k)
                                              /\ \A i \in 1..(k - 1) : b[To(s, d, i)] = Empty}}
         : d \in dirs}

\* The squares the piece on s attacks.
Reach(b, s) ==
  LET k == Kind(b[s])
  IN  CASE k = 0 -> Walk(b, s, {<<-1, Ahead(Owner(b[s]))>>, <<1, Ahead(Owner(b[s]))>>}, 1)
        [] k = 1 -> Walk(b, s, Jumps, 1)
        [] k = 2 -> Walk(b, s, Oblique, 7)
        [] k = 3 -> Walk(b, s, Orthogonal, 7)
        [] k = 4 -> Walk(b, s, Orthogonal \cup Oblique, 7)
        [] k = 5 -> Walk(b, s, Orthogonal \cup Oblique, 1)

Attacked(b, s, by) == \E t \in Board : Ours(b, t, by) /\ s \in Reach(b, t)
KingOf(b, c) == CHOOSE s \in Board : b[s] = 5 + 6 * c
InCheck(b, c) == Attacked(b, KingOf(b, c), 1 - c)

(***************************************************************************)
(* Moves.  A castling move is named by the squares of the king, from and   *)
(* to, and by its rook.                                                    *)
(***************************************************************************)
Plain(s, t, promo) == [from |-> s, to |-> t, promo |-> promo, rook |-> Nowhere]
Castling(k, t, r) == [from |-> k, to |-> t, promo |-> Empty, rook |-> r]

Promotions(t, c) == IF Rank(t) = FirstRank(1 - c) THEN {k + 6 * c : k \in 1..4} ELSE {Empty}

PawnSteps(p, s) ==
  LET c == p.turn
      one == s + 8 * Ahead(c)
      two == s + 16 * Ahead(c)
  IN  (IF one \in Board /\ p.board[one] = Empty THEN {one} ELSE {})
      \cup (IF /\ Rank(s) = FirstRank(c) + Ahead(c)
               /\ p.board[one] = Empty /\ p.board[two] = Empty THEN {two} ELSE {})
      \cup {t \in Reach(p.board, s) : Ours(p.board, t, 1 - c) \/ t = p.ep}

Steps(p, s) == IF Kind(p.board[s]) = 0 THEN PawnSteps(p, s)
               ELSE {t \in Reach(p.board, s) : ~ Ours(p.board, t, p.turn)}

RookTarget(k, r) == Sq(IF Col(r) > Col(k) THEN 5 ELSE 3, Rank(k))
KingTarget(k, r) == Sq(IF Col(r) > Col(k) THEN 6 ELSE 2, Rank(k))
Between(a, b) == {s \in Board : (a <= s /\ s <= b) \/ (b <= s /\ s <= a)}

\* Nothing but the two stands in the way, and the king leaves and crosses no attacked square.
MayCastle(p, k, r) ==
  /\ \A s \in (Between(k, KingTarget(k, r)) \cup Between(r, RookTarget(k, r))) \ {k, r} : p.board[s] = Empty
  /\ \A s \in {k} \cup (Between(k, KingTarget(k, r)) \ {KingTarget(k, r)}) : ~ Attacked(p.board, s, 1 - p.turn)

Candidates(p) ==
  (UNION {{Plain(x[1], x[2], q) : q \in IF Kind(p.board[x[1]]) = 0 THEN Promotions(x[2], p.turn) ELSE {Empty}}
         : x \in UNION {{s} \X Steps(p, s) : s \in {u \in Board : Ours(p.board, u, p.turn)}}})
  \cup LET k == KingOf(p.board, p.turn)
       IN  {Castling(k, KingTarget(k, r), r) :
              r \in {u \in p.rights : Ours(p.board, u, p.turn) /\ MayCastle(p, k, u)}}

(***************************************************************************)
(* The position after a move.                                              *)
(***************************************************************************)
Moved(p, m) ==
  LET b == p.board
      pc == b[m.from]
      enPassant == Kind(pc) = 0 /\ m.to = p.ep
  IN  IF m.rook # Nowhere
      THEN [[b EXCEPT ![m.from] = Empty, ![m.rook] = Empty]
              EXCEPT ![m.to] = pc, ![RookTarget(m.from, m.rook)] = b[m.rook]]
      ELSE [s \in Board |-> CASE s = m.to -> IF m.promo # Empty THEN m.promo ELSE pc
                              [] s = m.from -> Empty
                              [] enPassant /\ s = m.to - 8 * Ahead(p.turn) -> Empty
                              [] OTHER -> b[s]]

After(p, m) ==
  LET b == Moved(p, m)
      pc == p.board[m.from]
      jumped == (m.from + m.to) \div 2
      ready == /\ Kind(pc) = 0 /\ (m.to - m.from) \in {16, -16}
               /\ \E t \in Board : b[t] = 6 * (1 - p.turn) /\ jumped \in Reach(b, t)
  IN  [board |-> b, turn |-> 1 - p.turn,
       rights |-> IF Kind(pc) = 5 THEN {r \in p.rights \ {m.to} : ~ Ours(p.board, r, p.turn)}
                                  ELSE p.rights \ {m.from, m.to},
       ep |-> IF ready THEN jumped ELSE Nowhere,
       clock |-> IF Kind(pc) = 0 \/ (m.rook = Nowhere /\ p.board[m.to] # Empty) THEN 0 ELSE p.clock + 1]

LegalMoves(p) == {m \in Candidates(p) : ~ InCheck(Moved(p, m), p.turn)}

(***************************************************************************)
(* The exchange on the target of a move: from the move on, each side takes *)
(* with its least valuable piece that may, or stops when that is better.   *)
(* Pieces that were pinned do not take while one of the sliders that pin   *)
(* stands and was not taken; a king takes only what is not defended; a     *)
(* pawn that takes stays a pawn.                                           *)
(***************************************************************************)
Cleared(b, away) == [s \in Board |-> IF s \in away THEN Empty ELSE b[s]]
Aiming(b, c) ==
  {t \in Board : Ours(b, t, 1 - c) /\ Kind(b[t]) \in 2..4 /\ KingOf(b, c) \in Reach(Cleared(b, Board \ {t}), t)}
Pins(b, c, k, aiming) ==
  {x \in Board \X aiming : /\ Ours(b, x[1], c) /\ x[1] # k
                           /\ k \notin Reach(Cleared(b, aiming \ {x[2]}), x[2])
                           /\ k \in Reach(Cleared(b, {x[1]} \cup (aiming \ {x[2]})), x[2])}
Holds(b) == [c \in 0..1 |-> Pins(b, c, KingOf(b, c), Aiming(b, c))]

HeldBack(b, q, pins) == IF \E h \in pins : h[2] # q /\ b[h[2]] # Empty THEN {h[1] : h \in pins} ELSE {}
Takers(b, q, c, pins) == {s \in Board : Ours(b, s, c) /\ q \in Reach(b, s)} \ HeldBack(b, q, pins)
Weakest(b, S) == {s \in S : \A t \in S : 64 * Kind(b[s]) + s <= 64 * Kind(b[t]) + t}
Captured(b, q, s) == [b EXCEPT ![q] = b[s], ![s] = Empty]
Captures(b, q, c, takers) ==
  {Captured(b, q, s) : s \in {t \in Weakest(b, takers) : Kind(b[t]) = 5 => ~ Attacked(Captured(b, q, t), q, 1 - c)}}

ValueOn(b, q) == IF b[q] = Empty THEN 0 ELSE Worth[b[q]]
Most(S) == CHOOSE v \in S : \A w \in S : w <= v
Won(board, q, side, holds) ==   \* what a side can win on q
  LET won[x \in [Board -> -1..11] \X (0..1)] ==
        Most({0} \cup {ValueOn(x[1], q) - won[<<b, 1 - x[2]>>] :
                         b \in Captures(x[1], q, x[2], Takers(x[1], q, x[2], holds[x[2]]))})
  IN  won[<<board, side>>]

\* The value of a move that is not castling.
Exchange(p, m, holds) ==
  LET after == Moved(p, m)
      taken == IF Kind(p.board[m.from]) = 0 /\ m.to = p.ep THEN m.to - 8 * Ahead(p.turn) ELSE m.to
  IN  ValueOn(p.board, taken) + ValueOn(after, m.to) - ValueOn(p.board, m.from) - Won(after, m.to, 1 - p.turn, holds)

Init == pos \in Openings
Next == /\ pos'.turn = 1 - pos.turn
        /\ \E m \in LegalMoves(pos) : pos' = After(pos, m)
Spec == Init /\ [][Next]_pos
=============================================================================
