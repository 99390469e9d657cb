-------------------------------- MODULE Fen --------------------------------
(***************************************************************************)
(* Positions and moves as text: parse_fen and board_to_fen of io.cpp, the  *)
(* castling field of chess960.cpp, parse_move of uci_mt.cpp and print_move *)
(* of movegen.cpp.  A FEN is a record of its fields: board (a piece code   *)
(* or -1 for each square), side, letters (the castling field), ep, fifty.  *)
(* A castling letter is <<colour, what>>: what is a file 0..7 (Shredder),  *)
(* or KingSide, QueenSide (K, Q).                                          *)
(***************************************************************************)
EXTENDS GameBoard

KingSide == 8
QueenSide == 9

bitboards_of(board) == [pc \in Pieces |-> {s \in Squares : board[s] = pc}]
mailbox_of(bb) ==
  LET owner == [s \in Squares |-> {pc \in Pieces : s \in bb[pc]}]
  IN  [s \in Squares |-> IF owner[s] = {} THEN -1 ELSE Lsb(owner[s])]

(***************************************************************************)
(* The castling field in Chess960.                                         *)
(***************************************************************************)
BackRow(c) == IF c = white THEN 56 ELSE 0
king_from(bb, c) ==      \* the last king of the back rank, if any
  LET there == bb[Piece(c, King)] \cap BackRow(c)..(BackRow(c) + 7)
  IN  IF there = {} THEN no_sq ELSE CHOOSE s \in there : \A t \in there : t <= s

outer_rook(bb, c, side, kfile) ==
  LET rooks == {f \in 0..7 : BackRow(c) + f \in bb[Piece(c, Rook)]}
      beyond == {f \in rooks : IF side = KingSide THEN f > kfile ELSE f < kfile}
      outermost == CHOOSE f \in beyond : \A e \in beyond : IF side = KingSide THEN e <= f ELSE e >= f
  IN  IF beyond = {} THEN no_sq ELSE BackRow(c) + outermost

RookNamed(bb, c, what, ksq) ==
  CASE ksq = no_sq -> no_sq
    [] ksq # no_sq /\ what \in {KingSide, QueenSide} -> outer_rook(bb, c, what, File(ksq))
    [] OTHER -> IF BackRow(c) + what \in bb[Piece(c, Rook)] /\ what # File(ksq) THEN BackRow(c) + what ELSE no_sq

\* The right a letter names: its index, or -1, and its rook.
Right(c, ksq, rsq) == IF rsq = no_sq THEN <<-1, no_sq>> ELSE <<2 * c + (IF rsq > ksq THEN 0 ELSE 1), rsq>>
RightNamed(bb, c, what, ksq) == Right(c, ksq, RookNamed(bb, c, what, ksq))

\* The last letter that names a right decides its rook.
LastFor(named, idx) == IF \A i \in DOMAIN named : named[i][1] # idx THEN no_sq
                       ELSE named[CHOOSE i \in DOMAIN named : /\ named[i][1] = idx
                                                              /\ \A j \in DOMAIN named : named[j][1] = idx => j <= i][2]
CastlingOf(kings, rook_from) ==
  [rights |-> {idx \in Rights : rook_from[idx] # no_sq}, rook_from |-> rook_from,
   rights_mask |-> [s \in Squares |-> {idx \in Rights : s # kings[OfSide(idx)] /\ s # rook_from[idx]}]]
RooksOf(named) == [idx \in Rights |-> LastFor(named, idx)]
Castling960(bb, letters, kings) ==
  CastlingOf(kings, RooksOf([i \in DOMAIN letters |-> RightNamed(bb, letters[i][1], letters[i][2], kings[letters[i][1]])]))
c960_parse_castling(bb, letters) == Castling960(bb, letters, [c \in {white, black} |-> king_from(bb, c)])

\* c960_reset_standard and c960_apply_to_engine.
standard_setup ==
  [rook |-> corners.rook, king |-> corners.king,
   mask |-> [s \in Squares |-> {idx \in Rights : s # corners.king[OfSide(idx) + 1] /\ s # corners.rook[idx + 1]}]]
c960_setup(bb, parsed) ==
  [rook |-> [i \in 1..4 |-> IF parsed.rook_from[i - 1] # no_sq THEN parsed.rook_from[i - 1] ELSE corners.rook[i]],
   king |-> [i \in 1..2 |-> IF king_from(bb, i - 1) # no_sq THEN king_from(bb, i - 1) ELSE corners.king[i]],
   mask |-> parsed.rights_mask]

(***************************************************************************)
(* parse_fen.                                                              *)
(***************************************************************************)
\* En passant: on the rank the side to move captures on, and a pawn of it ready to capture.
EpField(fen, bb) ==
  IF /\ fen.ep # no_sq
     /\ Row(fen.ep) = (IF fen.side = white THEN 2 ELSE 5)
     /\ pawn_attacks[1 - fen.side][fen.ep] \cap bb[Piece(fen.side, Pawn)] # {}
  THEN fen.ep ELSE no_sq

\* The rights of normal chess, those dropped whose king or rook is not at home.
StandardRights(letters, bb) ==
  {idx \in Rights :
     LET c == OfSide(idx)
     IN  /\ \E i \in DOMAIN letters : letters[i] = <<c, IF idx \in {0, 2} THEN KingSide ELSE QueenSide>>
         /\ corners.king[c + 1] \in bb[Piece(c, King)]
         /\ corners.rook[idx + 1] \in bb[Piece(c, Rook)]}

Keyed(b) == [b EXCEPT !.key = generate_hash_key(b)]
SetUp(fen, bb, castle, squares) ==
  [setup |-> squares,
   board |-> Keyed([bb |-> bb, occ |-> [c \in {white, black} |-> Occupied(bb, c)], side |-> fen.side,
                    ep |-> EpField(fen, bb), castle |-> castle, fifty |-> fen.fifty, key |-> {}])]
SetUp960(fen, bb, parsed) == SetUp(fen, bb, parsed.rights, c960_setup(bb, parsed))
Parsed(fen, bb, c960) == IF c960 THEN SetUp960(fen, bb, c960_parse_castling(bb, fen.letters))
                         ELSE SetUp(fen, bb, StandardRights(fen.letters, bb), standard_setup)

\* One king each, at most 32 pieces, and the side that has moved not in check.
Accepted(fen) ==
  LET bb == bitboards_of(fen.board)
      b == [bb |-> bb, occ |-> [c \in {white, black} |-> Occupied(bb, c)]]
  IN  /\ \A c \in {white, black} : Cardinality(bb[Piece(c, King)]) = 1
      /\ Cardinality(b.occ[white] \cup b.occ[black]) <= 32
      /\ ~ is_square_attacked(b, KingSquare(b, 1 - fen.side), fen.side)

back_rank == <<Rook, Knight, Bishop, Queen, King, Bishop, Knight, Rook>>
start_position ==
  [board |-> [s \in Squares |-> CASE Row(s) = 0 -> Piece(black, back_rank[File(s) + 1])
                                  [] Row(s) = 1 -> Piece(black, Pawn)
                                  [] Row(s) = 6 -> Piece(white, Pawn)
                                  [] Row(s) = 7 -> Piece(white, back_rank[File(s) + 1])
                                  [] OTHER -> -1],
   side |-> white, ep |-> no_sq, fifty |-> 0,
   letters |-> <<<<white, KingSide>>, <<white, QueenSide>>, <<black, KingSide>>, <<black, QueenSide>>>>]

ParsedAs(fen, c960) == Parsed(fen, bitboards_of(fen.board), c960)
parse_fen(fen, c960) == ParsedAs(IF Accepted(fen) THEN fen ELSE start_position, c960)

board_to_fen(b) ==
  LET Letter(idx) == <<OfSide(idx), IF g_chess960 THEN File(castle_rook_sq(idx))
                                    ELSE IF idx \in {0, 2} THEN KingSide ELSE QueenSide>>
      Field(idx) == IF idx \in b.castle THEN <<Letter(idx)>> ELSE <<>>
  IN  [board |-> mailbox_of(b.bb), side |-> b.side, ep |-> b.ep, fifty |-> b.fifty,
       letters |-> Field(0) \o Field(1) \o Field(2) \o Field(3)]

(***************************************************************************)
(* Moves of the protocol: from, to and the kind promoted to (0 for none).  *)
(***************************************************************************)
UciTarget(m) == IF g_chess960 /\ m.castling THEN castle_rook_sq(castle_index(m.to)) ELSE m.to
print_move(m) ==
  [from |-> m.from, to |-> IF m.promo # 0 THEN m.to ELSE UciTarget(m), promo |-> Type(m.promo)]

\* The moves of the list the text names: the code takes the first one, whatever its legality.
ReadAs(moves, text) ==
  {m \in moves : m.from = text.from /\ UciTarget(m) = text.to
                             /\ (m.promo # 0 => Type(m.promo) = text.promo)}
parse_move(b, text) == ReadAs(generate_moves(b), text)
=============================================================================
