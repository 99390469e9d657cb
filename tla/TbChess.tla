------------------------------- MODULE TbChess -------------------------------
(***************************************************************************)
(* The board of the tablebase library: fathom/tbchess.c, and the bridge to *)
(* it of syzygy.cpp.  A second chess beside the engine's: squares numbered *)
(* from a1 = 0 to h8 = 63, white on top of black in the colour code, one   *)
(* bitboard for each kind and one for each colour, no castling, 0 for no   *)
(* en passant square.  A position is the record Pos, a move <<promotion,   *)
(* from, to>>, a list of moves a set.                                      *)
(***************************************************************************)
EXTENDS GameBoard

CONSTANT TB_LARGEST       \* men of the largest table found
ASSUME LargestAssumption == TB_LARGEST \in 0..7

Black == FALSE            \* turn
White == TRUE
PROMOTES == {Queen, Rook, Bishop, Knight}
NoPromotion == Pawn

Kinds == 0..5             \* the six bitboards, by the engine's names of the kinds
Colour(p, c) == IF c = White THEN p.white ELSE p.black
Own(p, c, t) == p.kind[t] \cap Colour(p, c)
Occ(p) == p.white \cup p.black

(***************************************************************************)
(* Attacks.  The leapers are the engine's by geometry; a slider's come     *)
(* from tables indexed by the files (of a file, the ranks) of the men on   *)
(* the six inner squares of its line.                                      *)
(***************************************************************************)
tb_pawn_attacks(s, c) ==
  {t \in Squares : Row(t) = Row(s) + (IF c = White THEN 1 ELSE -1) /\ File(t) \in {File(s) - 1, File(s) + 1}}

Edge == {s \in Squares : File(s) \in {0, 7} \/ Row(s) \in {0, 7}}
diag(s) == (File(s) - Row(s)) % 15
anti(s) == (File(s) + Row(s) + 8) % 15

\* The entry of a table: both rays, each up to the first square the index has.
FromTable(rays, idx, ByRank) ==
  UNION {{r[i] : i \in {j \in DOMAIN r : \A h \in 1..(j - 1) : (IF ByRank THEN Row(r[h]) ELSE File(r[h])) \notin idx}} : r \in rays}
Inner6(men, ByRank) == {IF ByRank THEN Row(t) ELSE File(t) : t \in men}

tb_bishop_attacks(s, occ) ==
  FromTable({r \in bishop_rays[s] : r # <<>> /\ diag(r[1]) = diag(s)},
            Inner6({t \in occ \ (Edge \cup {s}) : diag(t) = diag(s)}, FALSE), FALSE)
  \cup FromTable({r \in bishop_rays[s] : r # <<>> /\ anti(r[1]) = anti(s)},
                 Inner6({t \in occ \ (Edge \cup {s}) : anti(t) = anti(s)}, FALSE), FALSE)

tb_rook_attacks(s, occ) ==
  FromTable({r \in rook_rays[s] : r # <<>> /\ Row(r[1]) = Row(s)},
            Inner6({t \in occ \ {s} : Row(t) = Row(s) /\ File(t) \in 1..6}, FALSE), FALSE)
  \cup FromTable({r \in rook_rays[s] : r # <<>> /\ File(r[1]) = File(s)},
                 Inner6({t \in occ \ {s} : File(t) = File(s) /\ Row(t) \in 1..6}, TRUE), TRUE)

tb_attacks(t, s, occ) ==
  CASE t = King -> king_attacks[s]
    [] t = Knight -> knight_attacks[s]
    [] t = Bishop -> tb_bishop_attacks(s, occ)
    [] t = Rook -> tb_rook_attacks(s, occ)
    [] t = Queen -> tb_rook_attacks(s, occ) \cup tb_bishop_attacks(s, occ)

(***************************************************************************)
(* Generation.                                                             *)
(***************************************************************************)
add_move(from, to, pawn) ==
  {<<q, from, to>> : q \in IF pawn /\ Row(to) \in {0, 7} THEN PROMOTES ELSE {NoPromotion}}

PieceSteps(p, targets) ==
  UNION {UNION {{<<NoPromotion, s, to>> : to \in tb_attacks(t, s, Occ(p)) \cap targets} : s \in Own(p, p.turn, t)}
         : t \in Kinds \ {Pawn}}

EnPassant(p, from, att) == {<<NoPromotion, from, to>> : to \in (att \cap {p.ep}) \ {0}}

PawnCaptures(p, from, att) == EnPassant(p, from, att) \cup UNION {add_move(from, to, TRUE) : to \in att \cap Colour(p, ~ p.turn)}

Ahead8(c) == IF c = White THEN 8 ELSE -8
PawnSteps(p, from) ==
  LET next == from + Ahead8(p.turn)
      next2 == from + 2 * Ahead8(p.turn)
      home == IF p.turn = White THEN 1 ELSE 6
  IN  IF next \in Occ(p) THEN {}
      ELSE add_move(from, next, TRUE)
           \cup (IF Row(from) = home /\ next2 \notin Occ(p) THEN add_move(from, next2, TRUE) ELSE {})

gen_captures(p) ==
  PieceSteps(p, Colour(p, ~ p.turn))
  \cup UNION {PawnCaptures(p, s, tb_pawn_attacks(s, p.turn)) : s \in Own(p, p.turn, Pawn)}

gen_moves(p) ==
  PieceSteps(p, Squares \ Colour(p, p.turn))
  \cup UNION {PawnCaptures(p, s, tb_pawn_attacks(s, p.turn)) \cup PawnSteps(p, s) : s \in Own(p, p.turn, Pawn)}

is_en_passant(p, m) == p.ep # 0 /\ m[3] = p.ep /\ m[2] \in Own(p, p.turn, Pawn)
is_capture(p, m) == m[3] \in Colour(p, ~ p.turn) \/ is_en_passant(p, m)
type_of_piece_moved(p, m) == CHOOSE t \in Kinds : m[2] \in Own(p, p.turn, t)

(***************************************************************************)
(* Legality.                                                               *)
(***************************************************************************)
\* The king of c on s is attacked by the other side.
Hit(p, c, s) ==
  \/ \E t \in {Rook, Bishop, Queen, Knight} : tb_attacks(t, s, Occ(p)) \cap Own(p, ~ c, t) # {}
  \/ tb_pawn_attacks(s, c) \cap Own(p, ~ c, Pawn) # {}

is_legal(p) ==
  LET king == Own(p, ~ p.turn, King)
  IN  /\ king # {}
      /\ king_attacks[Lsb(king)] \cap Own(p, p.turn, King) = {}
      /\ ~ Hit(p, ~ p.turn, Lsb(king))

is_check(p) == Hit(p, p.turn, Lsb(Own(p, p.turn, King)))

is_valid(p) ==
  /\ \A c \in {White, Black} : Cardinality(Own(p, c, King)) = 1
  /\ p.white \cap p.black = {}
  /\ \A t, u \in Kinds : t # u => p.kind[t] \cap p.kind[u] = {}
  /\ p.kind[Pawn] \cap {s \in Squares : Row(s) \in {0, 7}} = {}
  /\ Occ(p) = UNION {p.kind[t] : t \in Kinds}
  /\ is_legal(p)

do_bb_move(b, from, to) == (b \ {from, to}) \cup (IF from \in b THEN {to} ELSE {})

\* A double step leaves its square only when a pawn of the other side stands ready.
Jumped(p, from, to) ==
  CASE Row(from) = 1 /\ Row(to) = 3 /\ tb_pawn_attacks(from + 8, White) \cap Own(p, Black, Pawn) # {} -> from + 8
    [] Row(from) = 6 /\ Row(to) = 4 /\ tb_pawn_attacks(from - 8, Black) \cap Own(p, White, Pawn) # {} -> from - 8
    [] OTHER -> 0

Without(p, s) == [p EXCEPT !.white = @ \ {s}, !.black = @ \ {s}, !.kind[Pawn] = @ \ {s}]

TurnedRound(p, from, to) == IF p.turn THEN to + 8 ELSE to - 8
PassedBy(p, from, to) == IF p.turn THEN to - 8 ELSE to + 8

Carried(p, from, to) ==
  [white |-> do_bb_move(p.white, from, to), black |-> do_bb_move(p.black, from, to),
   kind |-> [t \in Kinds |-> do_bb_move(p.kind[t], from, to)], rule50 |-> 0, ep |-> 0, turn |-> ~ p.turn]

PawnMoved(p, q, from, to, jumped) ==
  IF jumped # 0 THEN [q EXCEPT !.ep = jumped]
  ELSE IF to = p.ep THEN Without(q, PassedBy(p, from, to)) ELSE q

do_move(p, m) ==
  LET from == m[2]
      to == m[3]
      q == Carried(p, from, to)
  IN  CASE m[1] # NoPromotion -> [q EXCEPT !.kind[Pawn] = @ \ {to}, !.kind[m[1]] = @ \cup {to}]
        [] m[1] = NoPromotion /\ from \in p.kind[Pawn] -> PawnMoved(p, q, from, to, Jumped(p, from, to))
        [] OTHER -> [q EXCEPT !.rule50 = IF to \in Occ(p) THEN 0 ELSE p.rule50 + 1]

legal_move(p, m) == is_legal(do_move(p, m))
gen_legal(p) == {m \in gen_moves(p) : legal_move(p, m)}

(***************************************************************************)
(* syzygy.cpp: the engine's position and the moves that come back.         *)
(***************************************************************************)
flip(s) == 8 * (7 - Row(s)) + File(s)
flip_vertical(b) == {flip(s) : s \in b}
fathom_ep(s) == IF s = no_sq THEN 0 ELSE flip(s)

to_fathom(b) ==
  [white |-> flip_vertical(b.occ[white]), black |-> flip_vertical(b.occ[black]),
   kind |-> [t \in Kinds |-> flip_vertical(b.bb[Piece(white, t)] \cup b.bb[Piece(black, t)])],
   rule50 |-> b.fifty, ep |-> fathom_ep(b.ep), turn |-> b.side = white]

promo_matches(promo, q) == IF promo = 0 THEN q = NoPromotion ELSE q = Type(promo)

\* The engine's move k is the library's move m; the code takes the first that is.
Matches(k, m) == flip(k.from) = m[2] /\ flip(k.to) = m[3] /\ promo_matches(k.promo, m[1])

MayProbe(b) == b.castle = {} /\ Cardinality(b.occ[white] \cup b.occ[black]) <= TB_LARGEST
=============================================================================
