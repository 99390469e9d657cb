---------------------------- MODULE AttackTables ----------------------------
(***************************************************************************)
(* Squares, pieces, and the tables the engine computes when it starts:     *)
(* attacks.cpp, sliders.cpp, init_sliders_attacks of magic.cpp.  A         *)
(* bitboard is a set of squares, numbered from a8 = 0 to h1 = 63.          *)
(***************************************************************************)
EXTENDS Integers, FiniteSets, Sequences

Squares == 0..63
no_sq == 64
white == 0
black == 1
File(s) == s % 8
Row(s) == s \div 8        \* 0 is the eighth rank

\* Piece codes: P N B R Q K are 0..5, the black ones 6..11.
Piece(c, t) == t + 6 * c
Type(pc) == pc % 6
Pawn == 0
Knight == 1
Bishop == 2
Rook == 3
Queen == 4
King == 5
Pieces == 0..11

Xor(x, y) == (x \ y) \cup (y \ x)
Lsb(x) == CHOOSE s \in x : \A t \in x : s <= t

(***************************************************************************)
(* The leapers: single-bit shifts, the wrapped files masked off.           *)
(***************************************************************************)
not_a_file == {s \in Squares : File(s) # 0}
not_h_file == {s \in Squares : File(s) # 7}
not_ab_file == {s \in Squares : File(s) > 1}
not_hg_file == {s \in Squares : File(s) < 6}

Shifts(s, shifts) == {s + d[1] : d \in {e \in shifts : s + e[1] \in e[2]}}

mask_pawn_attacks(c, s) ==
  Shifts(s, IF c = white THEN {<<-7, not_a_file>>, <<-9, not_h_file>>}
                         ELSE {<<7, not_h_file>>, <<9, not_a_file>>})

mask_knight_attacks(s) ==
  Shifts(s, {<<-17, not_h_file>>, <<-15, not_a_file>>, <<-10, not_hg_file>>, <<-6, not_ab_file>>,
             <<17, not_a_file>>, <<15, not_h_file>>, <<10, not_ab_file>>, <<6, not_hg_file>>})

mask_king_attacks(s) ==
  Shifts(s, {<<-8, Squares>>, <<-9, not_h_file>>, <<-7, not_a_file>>, <<-1, not_h_file>>,
             <<8, Squares>>, <<9, not_a_file>>, <<7, not_h_file>>, <<1, not_a_file>>})

(***************************************************************************)
(* Lines through a square, and the tables built from rays.                 *)
(***************************************************************************)
line_masks(s) ==     \* diagonal, file, antidiagonal, rank
  <<{t \in Squares \ {s} : Row(t) - File(t) = Row(s) - File(s)},
    {t \in Squares \ {s} : File(t) = File(s)},
    {t \in Squares \ {s} : Row(t) + File(t) = Row(s) + File(s)},
    {t \in Squares \ {s} : Row(t) = Row(s)}>>

\* The squares from s on, one step of (dr, df) at a time, up to the edge.
RayFrom(s, dr, df) ==
  LET n == CHOOSE k \in 0..7 :
             /\ \A i \in 1..k : Row(s) + i * dr \in 0..7 /\ File(s) + i * df \in 0..7
             /\ ~ (Row(s) + (k + 1) * dr \in 0..7 /\ File(s) + (k + 1) * df \in 0..7)
  IN  [i \in 1..n |-> (Row(s) + i * dr) * 8 + File(s) + i * df]

RaysFrom(s, directions) == {RayFrom(s, d[1], d[2]) : d \in directions}
Oblique == {<<1, 1>>, <<-1, 1>>, <<1, -1>>, <<-1, -1>>}
Straight == {<<1, 0>>, <<-1, 0>>, <<0, 1>>, <<0, -1>>}

OnTheFly(rays, block) ==
  UNION {{r[i] : i \in {j \in DOMAIN r : \A h \in 1..(j - 1) : r[h] \notin block}} : r \in rays}

\* The relevant squares of a slider's table: a ray without its last square.
Inner(rays) == UNION {{r[i] : i \in 1..(Len(r) - 1)} : r \in rays}

\* init_leapers_attacks, sliders::init and the rays that init_sliders_attacks walks.
init_pawn_attacks == [c \in {white, black} |-> [s \in Squares |-> mask_pawn_attacks(c, s)]]
init_knight_attacks == [s \in Squares |-> mask_knight_attacks(s)]
init_king_attacks == [s \in Squares |-> mask_king_attacks(s)]
init_line == [s \in Squares |-> line_masks(s)]
init_bishop_rays == [s \in Squares |-> RaysFrom(s, Oblique)]
init_rook_rays == [s \in Squares |-> RaysFrom(s, Straight)]
=============================================================================
