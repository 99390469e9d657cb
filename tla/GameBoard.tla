----------------------------- MODULE GameBoard -----------------------------
(***************************************************************************)
(* The board of the game: movegen.cpp, zobrist.cpp, chess960.h,            *)
(* chess960.cpp and the FEN of io.cpp.  A board is a record of the global  *)
(* variables of the code; a hash key is the set of the Zobrist numbers     *)
(* XORed into it, so two keys are equal only for a good reason (collisions *)
(* of the 64-bit numbers are left out).                                    *)
(***************************************************************************)
EXTENDS Bitboard

VARIABLES
  g_chess960,       \* the UCI_Chess960 option
  setup             \* castle_rook_sq, castle_king_sq and castling_rights, set by parse_fen

Rights == 0..3      \* wk wq bk bq
corners == [rook |-> <<63, 56, 7, 0>>, king |-> <<60, 4>>]
castle_index(king_to) == CASE king_to = 62 -> 0 [] king_to = 58 -> 1 [] king_to = 6 -> 2 [] OTHER -> 3
castle_king_to(idx) == <<62, 58, 6, 2>>[idx + 1]
castle_rook_to(idx) == <<61, 59, 5, 3>>[idx + 1]
castle_rook_sq(idx) == setup.rook[idx + 1]
castle_king_sq(c) == setup.king[c + 1]
OfSide(idx) == idx \div 2

Span(a, b) == IF a < b THEN a..b ELSE b..a

(***************************************************************************)
(* Zobrist numbers, one of each kind.                                      *)
(***************************************************************************)
PieceKey(pc, s) == {64 * pc + s}
EnpassantKey(s) == IF s = no_sq THEN {} ELSE {768 + s}
CastleKey(rights) == {832 + (IF 0 \in rights THEN 1 ELSE 0) + (IF 1 \in rights THEN 2 ELSE 0)
                          + (IF 2 \in rights THEN 4 ELSE 0) + (IF 3 \in rights THEN 8 ELSE 0)}
side_key == {848}

Occupied(bb, c) == UNION {bb[pc] : pc \in {Piece(c, t) : t \in 0..5}}
PiecesKey(bb, pcs) == UNION {{64 * pc + s : s \in bb[pc]} : pc \in pcs}

generate_hash_key(b) ==
  Xor(Xor(PiecesKey(b.bb, Pieces), EnpassantKey(b.ep)),
      Xor(CastleKey(b.castle), IF b.side = black THEN side_key ELSE {}))

(***************************************************************************)
(* Attacks on the board, and castling in Chess960.                         *)
(***************************************************************************)
is_square_attacked(b, s, by) ==
  \/ pawn_attacks[1 - by][s] \cap b.bb[Piece(by, Pawn)] # {}
  \/ \E t \in {Knight, Bishop, Rook, Queen, King} :
       Attacks(t, s, b.occ[white] \cup b.occ[black]) \cap b.bb[Piece(by, t)] # {}

KingSquare(b, c) == Lsb(b.bb[Piece(c, King)])

c960_can_castle(b, idx) ==
  LET c == OfSide(idx)
      ksq == castle_king_sq(c)
      rsq == castle_rook_sq(idx)
      kto == castle_king_to(idx)
      path == IF ksq = kto THEN {ksq} ELSE Span(ksq, kto) \ {kto}
  IN  /\ idx \in b.castle
      /\ (b.occ[white] \cup b.occ[black])
           \cap ((Span(ksq, kto) \cup Span(rsq, castle_rook_to(idx))) \ {ksq, rsq}) = {}
      /\ \A s \in path : ~ is_square_attacked(b, s, 1 - c)

(***************************************************************************)
(* Moves: the fields of encode_move.  promo is 0 for none, as in the code. *)
(***************************************************************************)
encode_move(from, to, pc, promo, capture, double, enpass, castling) ==
  [from |-> from, to |-> to, piece |-> pc, promo |-> promo, capture |-> capture,
   double |-> double, enpass |-> enpass, castling |-> castling]
Simple(from, to, pc, capture) == encode_move(from, to, pc, 0, capture, FALSE, FALSE, FALSE)
CastlingMove(from, to, c) == encode_move(from, to, Piece(c, King), 0, FALSE, FALSE, FALSE, TRUE)

Up(c) == IF c = white THEN -8 ELSE 8
SeventhRow(c) == IF c = white THEN 1 ELSE 6     \* one step from promoting
SecondRow(c) == IF c = white THEN 6 ELSE 1
Promoted(c) == {Piece(c, t) : t \in {Queen, Rook, Bishop, Knight}}

PawnArrivals(from, to, c, capture) ==
  {encode_move(from, to, Piece(c, Pawn), q, capture, FALSE, FALSE, FALSE) :
     q \in IF Row(from) = SeventhRow(c) THEN Promoted(c) ELSE {0}}

\* The pawn on `from`: pushes, captures, en passant.
PawnMoves(b, from, c) ==
  LET free == Squares \ (b.occ[white] \cup b.occ[black])
      one == from + Up(c)
      two == from + 2 * Up(c)
      takes == pawn_attacks[c][from]
  IN  (IF one \in free THEN PawnArrivals(from, one, c, FALSE) ELSE {})
      \cup {encode_move(from, two, Piece(c, Pawn), 0, FALSE, TRUE, FALSE, FALSE) :
              to \in {s \in {two} : Row(from) = SecondRow(c) /\ {one, s} \subseteq free}}
      \cup (UNION {PawnArrivals(from, to, c, TRUE) : to \in takes \cap b.occ[1 - c]})
      \cup {encode_move(from, to, Piece(c, Pawn), 0, TRUE, FALSE, TRUE, FALSE) : to \in takes \cap {b.ep}}

WhitePawnMoves(b) == UNION {PawnMoves(b, s, white) : s \in b.bb[Piece(white, Pawn)]}
BlackPawnMoves(b) == UNION {PawnMoves(b, s, black) : s \in b.bb[Piece(black, Pawn)]}

\* Castling in normal chess: the squares between empty, the king's square and the one it crosses safe;
\* the square it reaches is left to the test of the make.
CanCastle(b, idx) ==
  LET c == OfSide(idx)
      e == corners.king[c + 1]
      between == Span(e, corners.rook[idx + 1]) \ {e, corners.rook[idx + 1]}
  IN  /\ idx \in b.castle
      /\ (b.occ[white] \cup b.occ[black]) \cap between = {}
      /\ ~ is_square_attacked(b, e, 1 - c)
      /\ ~ is_square_attacked(b, castle_rook_to(idx), 1 - c)

CastlingMoves(b) ==
  LET c == b.side
  IN  {CastlingMove(IF g_chess960 THEN castle_king_sq(c) ELSE corners.king[c + 1], castle_king_to(idx), c) :
         idx \in {i \in Rights : OfSide(i) = c /\ IF g_chess960 THEN c960_can_castle(b, i) ELSE CanCastle(b, i)}}

PieceMoves(b, t) ==
  LET c == b.side
      pc == Piece(c, t)
  IN  UNION {{Simple(from, to, pc, to \in b.occ[1 - c]) :
                to \in Attacks(t, from, b.occ[white] \cup b.occ[black]) \ b.occ[c]} : from \in b.bb[pc]}

generate_moves(b) ==
  (IF b.side = white THEN WhitePawnMoves(b) ELSE BlackPawnMoves(b))
  \cup CastlingMoves(b)
  \cup UNION {PieceMoves(b, t) : t \in {Knight, Bishop, Rook, Queen, King}}

(***************************************************************************)
(* make_move.  Result: whether the move was legal, and the board (the one  *)
(* of before when it was not: copy_board and take_back).                   *)
(***************************************************************************)
Lifted(bb, pc, s) == [bb EXCEPT ![pc] = @ \ {s}]
Placed(bb, pc, s) == [bb EXCEPT ![pc] = @ \cup {s}]

\* The first enemy bitboard that has the target.
Victim(bb, c, s) == {pc \in {Piece(1 - c, t) : t \in 0..5} : s \in bb[pc]}

EpAlways(bb, c, to) == to - Up(c)
EpSquare(bb, c, to) ==     \* EPKeyFix: only when an enemy pawn can take
  LET behind == to - Up(c)
  IN  IF pawn_attacks[c][behind] \cap bb[Piece(1 - c, Pawn)] # {} THEN behind ELSE no_sq

RightsLeftByMover(rights, m) == rights \cap setup.mask[m.from]
RightsLeft(rights, m) == rights \cap setup.mask[m.from] \cap setup.mask[m.to]

\* The bitboards: the mover, its victim, the promotion, the pawn taken in passing, the castling rook.
WithoutVictim(bb, m, victims) == [pc \in Pieces |-> IF pc \in victims /\ pc = Lsb(victims) THEN bb[pc] \ {m.to} ELSE bb[pc]]
WithPromotion(bb, c, m) == IF m.promo = 0 THEN bb ELSE Placed(Lifted(bb, Piece(c, Pawn), m.to), m.promo, m.to)
WithoutPassed(bb, c, m) == IF m.enpass THEN Lifted(bb, Piece(1 - c, Pawn), m.to - Up(c)) ELSE bb
WithRook(bb, idx, m) ==
  IF m.castling THEN Placed(Lifted(bb, Piece(OfSide(idx), Rook), castle_rook_sq(idx)), Piece(OfSide(idx), Rook), castle_rook_to(idx))
  ELSE bb
MadeBoards(b, m, victims) ==
  WithRook(WithoutPassed(WithPromotion(WithoutVictim(
    Placed(Lifted(b.bb, m.piece, m.from), m.piece, m.to), m, victims), b.side, m), b.side, m), castle_index(m.to), m)

\* The numbers XORed into the key, in the order of the code.
MadeKey(b, m, victims, ep, castle) ==
  LET c == b.side
      idx == castle_index(m.to)
      rook == Piece(OfSide(idx), Rook)
      piece_key == Xor(PieceKey(m.piece, m.from), PieceKey(m.piece, m.to))
      victim_key == IF victims = {} THEN {} ELSE PieceKey(Lsb(victims), m.to)
      promo_key == IF m.promo = 0 THEN {} ELSE Xor(PieceKey(Piece(c, Pawn), m.to), PieceKey(m.promo, m.to))
      pass_key == IF m.enpass THEN PieceKey(Piece(1 - c, Pawn), m.to - Up(c)) ELSE {}
      rook_key == IF m.castling THEN Xor(PieceKey(rook, castle_rook_sq(idx)), PieceKey(rook, castle_rook_to(idx))) ELSE {}
      state_key == Xor(Xor(EnpassantKey(b.ep), EnpassantKey(ep)), Xor(CastleKey(b.castle), CastleKey(castle)))
  IN  Xor(Xor(Xor(b.key, piece_key), Xor(victim_key, promo_key)), Xor(Xor(pass_key, rook_key), Xor(state_key, side_key)))

MadeFrom(b, m, victims, bb, ep, castle) ==
  [bb |-> bb, occ |-> [o \in {white, black} |-> Occupied(bb, o)],
   side |-> 1 - b.side, ep |-> ep, castle |-> castle,
   fifty |-> IF Type(m.piece) = Pawn \/ m.capture THEN 0 ELSE b.fifty + 1,
   key |-> MadeKey(b, m, victims, ep, castle)]
MadeOn(b, m, victims, bb) ==
  MadeFrom(b, m, victims, bb, IF m.double THEN EpSquare(bb, b.side, m.to) ELSE no_sq, RightsLeft(b.castle, m))
MadeTaking(b, m, victims) == MadeOn(b, m, victims, MadeBoards(b, m, victims))
Made(b, m) == MadeTaking(b, m, IF m.capture THEN Victim(b.bb, b.side, m.to) ELSE {})

LeavesKing(b) == is_square_attacked(b, KingSquare(b, 1 - b.side), b.side)
Kept(b, made, legal) == [legal |-> legal, board |-> IF legal THEN made ELSE b]
Judged(b, made) == Kept(b, made, ~ LeavesKing(made))
make_move(b, m) == Judged(b, Made(b, m))
=============================================================================
