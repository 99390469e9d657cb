------------------------------ MODULE Bitboard ------------------------------
(***************************************************************************)
(* The attacks of the pieces: sliders.h and magic.cpp, and the lines of    *)
(* the search's tables (07_makemove.inc, 10_order.inc).  What the code     *)
(* does with 64-bit arithmetic (a subtraction that borrows, a byte swap, a *)
(* shift that loses the bits it pushes out) is kept as arithmetic on the   *)
(* set of set bits.                                                        *)
(***************************************************************************)
EXTENDS AttackTables

CONSTANT Kernel     \* the build's kernel: "od" (AVX-512, scalar), "hq" (AVX2) or "tables" (PEXT, magic)

\* The tables computed at the start, before and after the sliders work.
CONSTANTS
  pawn_attacks, knight_attacks, king_attacks, line, bishop_rays, rook_rays,
  between_tbl, line_bb, empty_bishop_att, empty_rook_att

ASSUME KernelAssumption == Kernel \in {"od", "hq", "tables"}
ASSUME LeapersAssumption ==
  /\ pawn_attacks = init_pawn_attacks /\ knight_attacks = init_knight_attacks /\ king_attacks = init_king_attacks
  /\ line = init_line /\ bishop_rays = init_bishop_rays /\ rook_rays = init_rook_rays

\* The entry of a slider's table is the one of the masked occupancy.
table_attacks(rays, occ) == OnTheFly(rays, occ \cap Inner(rays))

(***************************************************************************)
(* The kernels of sliders.h.  Minus(x, b) is x - 2^b modulo 2^64 (x itself *)
(* when 2^b has been shifted out): the subtraction borrows from the lowest *)
(* set bit at or above b and sets every bit in between.                    *)
(***************************************************************************)
Borrow(x, b, low) == (x \ {low}) \cup b..(low - 1)
Minus(x, b) ==
  CASE b > 63 -> x
    [] b <= 63 /\ x \cap b..63 = {} -> x \cup b..63
    [] OTHER -> Borrow(x, b, Lsb(x \cap b..63))

Reversed(s) == 8 * (7 - Row(s)) + File(s)
bswap64(x) == {Reversed(s) : s \in x}
highest_bit(x) == CHOOSE s \in x : \A t \in x : t <= s

OdAttacks(upper, blocker, l) == Xor(upper, Minus(upper, blocker)) \cap l
line_attacks(s, occ, l) ==
  OdAttacks({t \in occ \cap l : t > s}, highest_bit({t \in occ \cap l : t < s} \cup {0}), l)

pair_od(s, occ) ==
  [slider \in {1, 2} |-> UNION {line_attacks(s, occ, line[s][l]) : l \in {slider, slider + 2}}]

HqLanes(s, x) == Xor(Minus(x, s + 1), bswap64(Minus(bswap64(x), Reversed(s) + 1)))
hq_lanes(s, occ, l) == HqLanes(s, occ \cap l) \cap l

\* The rank table is indexed by the six inner squares of the rank.
RankHits(s, inner) == {t \in line[s][4] : \A u \in inner : ~ (s < u /\ u < t) /\ ~ (t < u /\ u < s)}
rank_attacks(s, occ) == RankHits(s, {t \in occ \cap line[s][4] : File(t) \in 1..6})

pair_hqs(s, occ) ==
  [slider \in {1, 2} |->
     UNION {IF l = 4 THEN rank_attacks(s, occ) ELSE hq_lanes(s, occ, line[s][l]) : l \in {slider, slider + 2}}]

pair_tables(s, occ) ==
  [slider \in {1, 2} |-> table_attacks((IF slider = 1 THEN bishop_rays ELSE rook_rays)[s], occ)]

\* The attacks of a bishop and of a rook.
slider_pair(s, occ) ==
  CASE Kernel = "od" -> pair_od(s, occ)
    [] Kernel = "hq" -> pair_hqs(s, occ)
    [] OTHER -> pair_tables(s, occ)

get_bishop_attacks(s, occ) == slider_pair(s, occ)[1]
get_rook_attacks(s, occ) == slider_pair(s, occ)[2]
get_queen_attacks(s, occ) == UNION {slider_pair(s, occ)[i] : i \in {1, 2}}

(***************************************************************************)
(* init_cycle_tables and the lines of the search.                          *)
(***************************************************************************)
\* Squares strictly between two aligned squares.
between_squares(a, b) ==
  CASE b \in get_rook_attacks(a, {}) -> get_rook_attacks(a, {b}) \cap get_rook_attacks(b, {a})
    [] b \in get_bishop_attacks(a, {}) -> get_bishop_attacks(a, {b}) \cap get_bishop_attacks(b, {a})
    [] OTHER -> {}

\* The whole line through two aligned squares.
line_through(a, b) == UNION {line[a][i] \cup {a} : i \in {j \in 1..4 : b \in line[a][j]}}

init_between == [a \in Squares |-> [b \in Squares |-> between_squares(a, b)]]
init_line_bb == [a \in Squares |-> [b \in Squares |-> line_through(a, b)]]
init_empty_bishop == [s \in Squares |-> get_bishop_attacks(s, {})]
init_empty_rook == [s \in Squares |-> get_rook_attacks(s, {})]

ASSUME LinesAssumption ==
  /\ between_tbl = init_between /\ line_bb = init_line_bb
  /\ empty_bishop_att = init_empty_bishop /\ empty_rook_att = init_empty_rook

SliderAttacks(t, pair) ==
  CASE t = Bishop -> pair[1]
    [] t = Rook -> pair[2]
    [] t = Queen -> pair[1] \cup pair[2]

Attacks(t, s, occ) ==
  CASE t = Knight -> knight_attacks[s]
    [] t = King -> king_attacks[s]
    [] OTHER -> SliderAttacks(t, slider_pair(s, occ))
=============================================================================
