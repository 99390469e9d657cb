----------------------------- MODULE LegalMoves -----------------------------
(***************************************************************************)
(* Which moves the search plays: the legal generator (movegen_legal.h),    *)
(* the staged pseudo-legal one used in Chess960 (08_movegen.inc), and the  *)
(* tests of a move that comes from elsewhere (td_is_pseudo_legal of        *)
(* 10_order.inc, legal_before and checks_before of 12_quiesce.inc).        *)
(* A list of moves is a set: the order in which moves are written, and the *)
(* branchless writes that keep it, are left out.                           *)
(***************************************************************************)
EXTENDS SearchBoard

Us(td, t) == td.bb[Piece(td.side, t)]
Theirs_(td, t) == td.bb[Piece(1 - td.side, t)]
Diagonals(td) == Theirs_(td, Bishop) \cup Theirs_(td, Queen)
Straights(td) == Theirs_(td, Rook) \cup Theirs_(td, Queen)
Several(x) == Cardinality(x) > 1

(***************************************************************************)
(* legal_prepare: checkers, pins and the two target masks.                 *)
(***************************************************************************)
Snipers(td, ksq) == (empty_rook_att[ksq] \cap Straights(td)) \cup (empty_bishop_att[ksq] \cap Diagonals(td))

PinnedBy(td, ksq, s) ==
  LET between == between_tbl[ksq][s] \cap All(td)
  IN  IF Cardinality(between) = 1 THEN between \cap td.occ[td.side] ELSE {}

PinnedTo(td, ksq) == UNION {PinnedBy(td, ksq, s) : s \in Snipers(td, ksq)}

Checkers(td, ksq) ==
  (knight_attacks[ksq] \cap Theirs_(td, Knight))
  \cup (pawn_attacks[td.side][ksq] \cap Theirs_(td, Pawn))
  \cup {s \in Snipers(td, ksq) : between_tbl[ksq][s] \cap All(td) = {}}

MoveInfo(td, ksq, checkers) ==
  [king |-> ksq, checkers |-> checkers, pinned |-> PinnedTo(td, ksq),
   capture_mask |-> IF checkers = {} THEN td.occ[1 - td.side]
                    ELSE IF Several(checkers) THEN {} ELSE checkers,
   quiet_mask |-> IF checkers = {} THEN Squares \ All(td)
                  ELSE IF Several(checkers) \/ checkers \cap (Diagonals(td) \cup Straights(td)) = {} THEN {}
                  ELSE between_tbl[ksq][Lsb(checkers)]]
InfoFor(td, ksq) == MoveInfo(td, ksq, Checkers(td, ksq))
legal_prepare(td) == InfoFor(td, KingSquare(td, td.side))

\* Is the square attacked by the side not to move, with occupancy occ?
AttackersOn(td, s, pair) ==
  (pawn_attacks[td.side][s] \cap Theirs_(td, Pawn)) \cup (knight_attacks[s] \cap Theirs_(td, Knight))
  \cup (king_attacks[s] \cap Theirs_(td, King)) \cup (pair[1] \cap Diagonals(td)) \cup (pair[2] \cap Straights(td))
attackers_with(td, s, occ) == AttackersOn(td, s, slider_pair(s, occ))
attacked_by(td, s, occ) == attackers_with(td, s, occ) # {}

\* Every square the enemy attacks with our king lifted off the board.
pawn_set_attacks(c, pawns) ==
  (UNION {Shifts(s, IF c = white THEN {<<-9, Squares>>} ELSE {<<7, Squares>>}) : s \in pawns \cap not_a_file})
  \cup UNION {Shifts(s, IF c = white THEN {<<-7, Squares>>} ELSE {<<9, Squares>>}) : s \in pawns \cap not_h_file}

enemy_map(td, king) ==
  LET occ == Xor(All(td), {king})
  IN  pawn_set_attacks(1 - td.side, Theirs_(td, Pawn))
      \cup UNION {UNION {Attacks(t, s, occ) : s \in Theirs_(td, t)} : t \in {Knight, Bishop, Rook, Queen, King}}

(***************************************************************************)
(* legal_emit_tv: every legal move, by kind.                               *)
(***************************************************************************)
AllowedFrom(info, s) == IF s \in info.pinned THEN line_bb[info.king][s] ELSE Squares

\* Our pawns that may take en passant: both pawns leave the rank, maybe the king's.
OpensNothing(td, king, s, cap) == FALSE
OpensRank(td, king, s, cap) ==
  /\ Row(king) = Row(cap)
  /\ {t \in get_rook_attacks(king, Xor(All(td), {s, cap})) : Row(t) = Row(king)} \cap Straights(td) # {}

ep_ok(td, info) ==
  LET takers == pawn_attacks[1 - td.side][td.ep] \cap Us(td, Pawn)
      cap == td.ep - Up(td.side)
  IN  IF td.ep = no_sq THEN {}
      ELSE IF info.checkers = {}
      THEN {s \in takers \ info.pinned : ~ OpensRank(td, info.king, s, cap)} \cup (takers \cap info.pinned \cap line_bb[td.ep][info.king])
      ELSE IF info.checkers = {cap} /\ cap \in Theirs_(td, Pawn) THEN takers \ info.pinned ELSE {}

PromotionMoves(td, info) ==
  LET c == td.side
  IN  UNION {(UNION {PawnArrivals(s, to, c, FALSE) : to \in {s + Up(c)} \cap info.quiet_mask \cap AllowedFrom(info, s)})
             \cup UNION {PawnArrivals(s, to, c, TRUE) :
                           to \in pawn_attacks[c][s] \cap info.capture_mask \cap AllowedFrom(info, s)}
             : s \in {u \in Us(td, Pawn) : Row(u) = SeventhRow(c)}}

OtherPawnMoves(td, info) ==
  LET c == td.side
      rest == {s \in Us(td, Pawn) : Row(s) # SeventhRow(c)}
      push1 == {s + Up(c) : s \in rest} \ All(td)
      single_to == push1 \cap info.quiet_mask
      double_to == ({s + Up(c) : s \in {u \in push1 : Row(u) = SecondRow(c) + (IF c = white THEN -1 ELSE 1)}} \ All(td))
                     \cap info.quiet_mask
      pawn == Piece(c, Pawn)
  IN  {Simple(s, s + Up(c), pawn, FALSE) : s \in {u \in rest : u + Up(c) \in single_to \cap AllowedFrom(info, u)}}
      \cup {encode_move(s, s + 2 * Up(c), pawn, 0, FALSE, TRUE, FALSE, FALSE) :
              s \in {u \in rest : u + 2 * Up(c) \in double_to \cap AllowedFrom(info, u)}}
      \cup (UNION {{Simple(s, to, pawn, TRUE) :
                      to \in pawn_attacks[c][s] \cap info.capture_mask \cap AllowedFrom(info, s)} : s \in rest})
      \cup {encode_move(s, td.ep, pawn, 0, TRUE, FALSE, TRUE, FALSE) : s \in ep_ok(td, info) \cap rest}

PieceTargets(td, info, t) ==
  LET pc == Piece(td.side, t)
      reach == info.capture_mask \cup info.quiet_mask
  IN  UNION {{Simple(s, to, pc, to \in td.occ[1 - td.side]) :
                to \in Attacks(t, s, All(td)) \cap reach \cap AllowedFrom(info, s)}
             : s \in IF t = Knight THEN Us(td, t) \ info.pinned ELSE Us(td, t)}

LegalCastling(td, info, map) ==
  LET c == td.side
      e == corners.king[c + 1]
      Empty(idx) == Span(e, corners.rook[idx + 1]) \ {e, corners.rook[idx + 1]}
  IN  {CastlingMove(e, castle_king_to(idx), c) :
         idx \in {i \in td.castle : /\ OfSide(i) = c
                                    /\ info.checkers = {}
                                    /\ All(td) \cap Empty(i) = {}
                                    /\ {castle_rook_to(i), castle_king_to(i)} \cap map = {}}}

\* With the map of the node when a stage has built one (quiets), square by square otherwise.
KingSteps(td, info, mapped, map) ==
  LET kt == king_attacks[info.king] \ td.occ[td.side]
      safe == IF mapped THEN kt \ map
              ELSE {s \in kt : ~ attacked_by(td, s, Xor(All(td), {info.king}))}
  IN  {Simple(info.king, s, Piece(td.side, King), s \in td.occ[1 - td.side]) : s \in safe}

Emitted(td, info, mapped, map) ==
  (IF Several(info.checkers) THEN {}
   ELSE PromotionMoves(td, info) \cup OtherPawnMoves(td, info)
        \cup UNION {PieceTargets(td, info, t) : t \in {Knight, Bishop, Rook, Queen}})
  \cup LegalCastling(td, info, map)
  \cup KingSteps(td, info, mapped, map)
EmittedFor(td, info, mapped) == Emitted(td, info, mapped, enemy_map(td, info.king))
legal_emit_tv(td, mapped) == EmittedFor(td, legal_prepare(td), mapped)

\* The stages of ListSink.  The tactics take only the queen of a promotion by push, the quiets all four.
StageKeeps(stage, m) ==
  CASE stage = "tactics" -> m.capture \/ (m.promo # 0 /\ Type(m.promo) = Queen)
    [] stage = "quiets" -> ~ m.capture
    [] OTHER -> TRUE
generate_legal_tv(td, stage) == {m \in legal_emit_tv(td, stage # "tactics") : StageKeeps(stage, m)}

(***************************************************************************)
(* The pseudo-legal generator of the search: in check only what can answer *)
(* the check is generated.                                                 *)
(***************************************************************************)
EvasionsOf(ksq, checkers) == IF Several(checkers) THEN {} ELSE checkers \cup between_tbl[Lsb(checkers)][ksq]
EvasionsFor(td, ksq) == EvasionsOf(ksq, attackers_with(td, ksq, All(td)))
evasion_mask(td) == IF InCheck(td) THEN EvasionsFor(td, KingSquare(td, td.side)) ELSE Squares

Answering(td, moves) == {m \in moves : m.to \in evasion_mask(td) \/ Type(m.piece) = King \/ m.enpass}
td_generate_moves_side(td) == Answering(td, generate_moves(td))

td_generate_moves(td) == IF g_chess960 THEN td_generate_moves_side(td) ELSE generate_legal_tv(td, "all")

(***************************************************************************)
(* A move from the hash table or the killers: is it a move of this         *)
(* position, is it legal, does it give check?                              *)
(***************************************************************************)
PseudoPawn(td, m) ==
  LET c == td.side
      toLastRank == Row(m.to) = Row(BackRow(1 - c))
      captured == m.to - Up(c)
  IN  /\ IF m.promo # 0 THEN toLastRank /\ m.promo \in Promoted(c) ELSE ~ (toLastRank /\ ~ m.enpass)
      /\ IF m.capture
         THEN /\ m.to \in pawn_attacks[c][m.from]
              /\ IF m.enpass THEN ~ m.double /\ td.ep # no_sq /\ m.to = td.ep /\ captured \in Theirs_(td, Pawn)
                             ELSE m.to \in td.occ[1 - c]
         ELSE /\ ~ m.enpass /\ m.to \notin All(td)
              /\ IF m.double THEN Row(m.from) = SecondRow(c) /\ m.to = m.from + 2 * Up(c) /\ m.from + Up(c) \notin All(td)
                             ELSE m.to = m.from + Up(c)

PseudoCastling(td, m) ==
  LET idx == castle_index(m.to)
  IN  /\ ~ m.capture /\ m.promo = 0 /\ ~ m.enpass /\ ~ m.double
      /\ m.piece = Piece(td.side, King) /\ OfSide(idx) = td.side /\ m.to = castle_king_to(idx)
      /\ IF g_chess960 THEN m.from = castle_king_sq(td.side) /\ c960_can_castle(td, idx)
         ELSE m.from = corners.king[td.side + 1] /\ m.to \notin td.occ[td.side] /\ CanCastle(td, idx)

td_is_pseudo_legal(td, m) ==
  /\ m.piece \in {Piece(td.side, t) : t \in 0..5}
  /\ m.from \in td.bb[m.piece]
  /\ IF m.castling THEN PseudoCastling(td, m)
     ELSE /\ m.to \notin td.occ[td.side]
          /\ IF Type(m.piece) = Pawn THEN PseudoPawn(td, m)
             ELSE /\ m.promo = 0 /\ ~ m.double /\ ~ m.enpass
                  /\ m.to \in Attacks(Type(m.piece), m.from, All(td))
                  /\ m.capture = (m.to \in td.occ[1 - td.side])

on_line(a, b, c) == c \in between_tbl[a][b] \/ b \in between_tbl[a][c] \/ a \in between_tbl[b][c]

legal_before(td, m) ==
  LET ksq == KingSquare(td, td.side)
      passed == Xor(All(td), {m.from, m.to - Up(td.side)}) \cup {m.to}
  IN  CASE m.castling -> g_chess960 \/ ~ is_square_attacked(td, m.to, 1 - td.side)
        [] m.enpass -> /\ get_rook_attacks(ksq, passed) \cap Straights(td) = {}
                       /\ get_bishop_attacks(ksq, passed) \cap Diagonals(td) = {}
        [] ~ m.castling /\ ~ m.enpass /\ m.from = ksq -> ~ attacked_by(td, m.to, Xor(All(td), {m.from}))
        [] OTHER -> m.from \in PinnedTo(td, ksq) => on_line(m.from, m.to, ksq)

(***************************************************************************)
(* checks_before: the squares a piece would give check from, the pieces    *)
(* that uncover one, and the moves that change more than one square.       *)
(***************************************************************************)
CheckSquares(td, t) ==
  LET eksq == KingSquare(td, 1 - td.side)
  IN  IF t = Pawn THEN pawn_attacks[1 - td.side][eksq]
      ELSE IF t = King THEN {} ELSE Attacks(t, eksq, All(td))

Discoverers(td) ==
  LET eksq == KingSquare(td, 1 - td.side)
      snipers == (empty_rook_att[eksq] \cap (Us(td, Rook) \cup Us(td, Queen)))
                 \cup (empty_bishop_att[eksq] \cap (Us(td, Bishop) \cup Us(td, Queen)))
  IN  UNION {PinnedBy(td, eksq, s) : s \in snipers}

checks_before(td, m) ==
  LET eksq == KingSquare(td, 1 - td.side)
      lifted == Xor(All(td), {m.from})
      passed == Xor(lifted, {m.to - Up(td.side)}) \cup {m.to}
  IN  \/ ~ m.castling /\ m.to \in CheckSquares(td, Type(m.piece))
      \/ m.from \in Discoverers(td) /\ (m.castling \/ ~ on_line(m.from, m.to, eksq))
      \/ m.promo # 0 /\ eksq \in Attacks(Type(m.promo), m.to, lifted)
      \/ m.enpass /\ \/ get_rook_attacks(eksq, passed) \cap (Us(td, Rook) \cup Us(td, Queen)) # {}
                     \/ get_bishop_attacks(eksq, passed) \cap (Us(td, Bishop) \cup Us(td, Queen)) # {}
      \/ m.castling /\ CastleRook(m).to \in CheckSquares(td, Rook)
=============================================================================
