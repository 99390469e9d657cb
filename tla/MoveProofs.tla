------------------------------ MODULE MoveProofs ------------------------------
(***************************************************************************)
(* Proofs about the moves of a board of Game: which squares are attacked,  *)
(* what a move opens and closes around the king, that a move made without  *)
(* a test of the king leaves it safe, that a position of the rules leads   *)
(* to one, what the lists hold, and what a line of moves records.          *)
(*                                                                         *)
(* Two sorts of moves are not tested once made.  When the generator listed *)
(* the move, the pins, the masks of check, the map of the enemy and ep_ok  *)
(* say that no enemy sees the king (ListedIsSafe); when legal_before let   *)
(* it through outside check, the line to the king and the map say so       *)
(* (ValidIsSafe).                                                          *)
(*                                                                         *)
(* What a man reaches by the rules, which walk square by square from       *)
(* coordinates, is what the tables and the kernels give (PieceReach), so   *)
(* the lists are the candidates of the rules, kind by kind (PawnMovesAre,  *)
(* MayCastleIs).                                                           *)
(*                                                                         *)
(* What no move takes back tells the positions of a game apart, and the    *)
(* keys of two boards are equal when their positions are, but for the      *)
(* clock, and not otherwise (KeysTell).                                    *)
(*                                                                         *)
(* Order: the leapers; which squares are attacked; the king after a move   *)
(* of another man, of its own, after castling and after taking en passant; *)
(* the men after a move; the moves that are not tested; the safe           *)
(* positions; the squares the rules reach; check; the moves kind by kind;  *)
(* what no move takes back; the keys; sequences; a line and its record;    *)
(* the loop that looks for repetitions.                                    *)
(***************************************************************************)
EXTENDS BoardProofs, WellFoundedInduction

\* Knights and kings.
Apart(x, y, d) == x - y = d \/ y - x = d
KnightStep(s, t) == \/ Apart(Row(s), Row(t), 1) /\ Apart(File(s), File(t), 2)
                    \/ Apart(Row(s), Row(t), 2) /\ Apart(File(s), File(t), 1)
Near(x, y) == x = y \/ Apart(x, y, 1)
KingStep(s, t) == s # t /\ Near(Row(s), Row(t)) /\ Near(File(s), File(t))

\* The squares a knight attacks.
LEMMA KnightAttacksAre ==
  ASSUME NEW s \in Squares, NEW t \in Squares
  PROVE  t \in knight_attacks[s] <=> KnightStep(s, t)
<1> DEFINE P == {<<-17, not_h_file>>, <<-15, not_a_file>>, <<-10, not_hg_file>>, <<-6, not_ab_file>>,
                 <<17, not_a_file>>, <<15, not_h_file>>, <<10, not_ab_file>>, <<6, not_hg_file>>}
<1>1. knight_attacks[s] = Shifts(s, P)
  BY LeapersAssumption DEF init_knight_attacks, mask_knight_attacks
<1>2. t \in knight_attacks[s] <=> \E d \in P : s + d[1] \in d[2] /\ t = s + d[1]
  <2> HIDE DEF P
  <2> QED
    BY <1>1 DEF Shifts
<1>3. (\E d \in P : s + d[1] \in d[2] /\ t = s + d[1])
        <=> \/ (t = s + (-17) /\ t \in not_h_file) \/ (t = s + (-15) /\ t \in not_a_file)
            \/ (t = s + (-10) /\ t \in not_hg_file) \/ (t = s + (-6) /\ t \in not_ab_file)
            \/ (t = s + 17 /\ t \in not_a_file) \/ (t = s + 15 /\ t \in not_h_file)
            \/ (t = s + 10 /\ t \in not_ab_file) \/ (t = s + 6 /\ t \in not_hg_file)
  OBVIOUS
<1>4. /\ t \in not_a_file <=> File(t) # 0
      /\ t \in not_h_file <=> File(t) # 7
      /\ t \in not_ab_file <=> File(t) > 1
      /\ t \in not_hg_file <=> File(t) < 6
  BY DEF not_a_file, not_h_file, not_ab_file, not_hg_file
<1> DEFINE a == Row(s)
           b == File(s)
           c == Row(t)
           d == File(t)
<1>5. a \in 0..7 /\ b \in 0..7 /\ c \in 0..7 /\ d \in 0..7 /\ s = 8 * a + b /\ t = 8 * c + d
  BY Coordinates
<1>6. KnightStep(s, t) <=> \/ ((a - c = 1 \/ c - a = 1) /\ (b - d = 2 \/ d - b = 2))
                           \/ ((a - c = 2 \/ c - a = 2) /\ (b - d = 1 \/ d - b = 1))
  BY DEF KnightStep, Apart
<1> HIDE DEF a, b, c, d
<1>7. /\ t = s + (-17) /\ d # 7 <=> a - c = 2 /\ b - d = 1
      /\ t = s + (-15) /\ d # 0 <=> a - c = 2 /\ d - b = 1
      /\ t = s + (-10) /\ d < 6 <=> a - c = 1 /\ b - d = 2
      /\ t = s + (-6) /\ d > 1 <=> a - c = 1 /\ d - b = 2
      /\ t = s + 17 /\ d # 0 <=> c - a = 2 /\ d - b = 1
      /\ t = s + 15 /\ d # 7 <=> c - a = 2 /\ b - d = 1
      /\ t = s + 10 /\ d > 1 <=> c - a = 1 /\ d - b = 2
      /\ t = s + 6 /\ d < 6 <=> c - a = 1 /\ b - d = 2
  BY <1>5
<1> QED
  BY <1>2, <1>3, <1>4, <1>6, <1>7 DEF d

\* The squares a king attacks.
LEMMA KingAttacksAre ==
  ASSUME NEW s \in Squares, NEW t \in Squares
  PROVE  t \in king_attacks[s] <=> KingStep(s, t)
<1> DEFINE P == {<<-8, Squares>>, <<-9, not_h_file>>, <<-7, not_a_file>>, <<-1, not_h_file>>,
                 <<8, Squares>>, <<9, not_a_file>>, <<7, not_h_file>>, <<1, not_a_file>>}
<1>1. king_attacks[s] = Shifts(s, P)
  BY LeapersAssumption DEF init_king_attacks, mask_king_attacks
<1>2. t \in king_attacks[s] <=> \E d \in P : s + d[1] \in d[2] /\ t = s + d[1]
  <2> HIDE DEF P
  <2> QED
    BY <1>1 DEF Shifts
<1>3. (\E d \in P : s + d[1] \in d[2] /\ t = s + d[1])
        <=> \/ t = s + (-8) \/ (t = s + (-9) /\ t \in not_h_file)
            \/ (t = s + (-7) /\ t \in not_a_file) \/ (t = s + (-1) /\ t \in not_h_file)
            \/ t = s + 8 \/ (t = s + 9 /\ t \in not_a_file)
            \/ (t = s + 7 /\ t \in not_h_file) \/ (t = s + 1 /\ t \in not_a_file)
  OBVIOUS
<1>4. (t \in not_a_file <=> File(t) # 0) /\ (t \in not_h_file <=> File(t) # 7)
  BY DEF not_a_file, not_h_file
<1> DEFINE a == Row(s)
           b == File(s)
           c == Row(t)
           d == File(t)
<1>5. a \in 0..7 /\ b \in 0..7 /\ c \in 0..7 /\ d \in 0..7 /\ s = 8 * a + b /\ t = 8 * c + d
  BY Coordinates
<1>6. KingStep(s, t) <=> s # t /\ (a = c \/ a - c = 1 \/ c - a = 1) /\ (b = d \/ b - d = 1 \/ d - b = 1)
  BY DEF KingStep, Near, Apart
<1> HIDE DEF a, b, c, d
<1>7. /\ t = s + (-8) <=> a - c = 1 /\ b = d
      /\ t = s + (-9) /\ d # 7 <=> a - c = 1 /\ b - d = 1
      /\ t = s + (-7) /\ d # 0 <=> a - c = 1 /\ d - b = 1
      /\ t = s + (-1) /\ d # 7 <=> a = c /\ b - d = 1
      /\ t = s + 8 <=> c - a = 1 /\ b = d
      /\ t = s + 9 /\ d # 0 <=> c - a = 1 /\ d - b = 1
      /\ t = s + 7 /\ d # 7 <=> c - a = 1 /\ b - d = 1
      /\ t = s + 1 /\ d # 0 <=> a = c /\ d - b = 1
      /\ s = t <=> a = c /\ b = d
  BY <1>5
<1> QED
  <2>1. t \in king_attacks[s]
          <=> \/ t = s + (-8) \/ (t = s + (-9) /\ d # 7) \/ (t = s + (-7) /\ d # 0) \/ (t = s + (-1) /\ d # 7)
              \/ t = s + 8 \/ (t = s + 9 /\ d # 0) \/ (t = s + 7 /\ d # 7) \/ (t = s + 1 /\ d # 0)
    BY <1>2, <1>3, <1>4 DEF d
  <2> QED
    BY <1>5, <1>6, <1>7, <2>1

\* Both ways alike.
LEMMA LeapersMeet ==
  ASSUME NEW s \in Squares, NEW t \in Squares
  PROVE  /\ t \in knight_attacks[s] <=> s \in knight_attacks[t]
         /\ t \in king_attacks[s] <=> s \in king_attacks[t]
<1>1. KnightStep(s, t) <=> KnightStep(t, s)
  BY DEF KnightStep, Apart
<1>2. KingStep(s, t) <=> KingStep(t, s)
  BY DEF KingStep, Near, Apart
<1> QED
  BY <1>1, <1>2, KnightAttacksAre, KingAttacksAre

\* A knight's step is on no line.
LEMMA KnightsJump ==
  ASSUME NEW s \in Squares, NEW t \in Squares, KnightStep(s, t), NEW l \in 1..4
  PROVE  ~OnLine(l, s, t)
<1> DEFINE a == Row(s)
           b == File(s)
           c == Row(t)
           d == File(t)
<1>1. a \in 0..7 /\ b \in 0..7 /\ c \in 0..7 /\ d \in 0..7
  BY Coordinates
<1>2. \/ ((a - c = 1 \/ c - a = 1) /\ (b - d = 2 \/ d - b = 2))
      \/ ((a - c = 2 \/ c - a = 2) /\ (b - d = 1 \/ d - b = 1))
  BY DEF KnightStep, Apart
<1>3. /\ LineOf(1, s) = a - b /\ LineOf(2, s) = b /\ LineOf(3, s) = a + b /\ LineOf(4, s) = a
      /\ LineOf(1, t) = c - d /\ LineOf(2, t) = d /\ LineOf(3, t) = c + d /\ LineOf(4, t) = c
  BY LineOfIs
<1> HIDE DEF a, b, c, d
<1>4. LineOf(l, s) # LineOf(l, t)
  <2>1. l = 1 \/ l = 2 \/ l = 3 \/ l = 4
    OBVIOUS
  <2> QED
    BY <1>1, <1>2, <1>3, <2>1
<1> QED
  BY <1>4 DEF OnLine

\* Nothing stands between neighbours.
LEMMA NothingBetween ==
  ASSUME NEW s \in Squares, NEW t \in Squares, KingStep(s, t), NEW l \in 1..4, OnLine(l, s, t), NEW occ
  PROVE  Clear(l, s, t, occ)
<1> SUFFICES ASSUME NEW u \in Squares, OnLine(l, s, u), Inside(u, s, t)
             PROVE  FALSE
  BY DEF Clear
<1> DEFINE a == Row(s)
           b == File(s)
           c == Row(t)
           d == File(t)
           e == Row(u)
           f == File(u)
<1>1. /\ a \in 0..7 /\ b \in 0..7 /\ c \in 0..7 /\ d \in 0..7 /\ e \in 0..7 /\ f \in 0..7
      /\ s = 8 * a + b /\ t = 8 * c + d /\ u = 8 * e + f
  BY Coordinates
<1>2. (a = c \/ a - c = 1 \/ c - a = 1) /\ (b = d \/ b - d = 1 \/ d - b = 1)
  BY DEF KingStep, Near, Apart
<1>3. /\ LineOf(1, s) = a - b /\ LineOf(2, s) = b /\ LineOf(3, s) = a + b /\ LineOf(4, s) = a
      /\ LineOf(1, t) = c - d /\ LineOf(2, t) = d /\ LineOf(3, t) = c + d /\ LineOf(4, t) = c
      /\ LineOf(1, u) = e - f /\ LineOf(2, u) = f /\ LineOf(3, u) = e + f /\ LineOf(4, u) = e
  BY LineOfIs
<1>4. (s < u /\ u < t) \/ (t < u /\ u < s)
  BY DEF Inside
<1>5. LineOf(l, s) = LineOf(l, t) /\ LineOf(l, s) = LineOf(l, u)
  BY DEF OnLine
<1> HIDE DEF a, b, c, d, e, f
<1>6. CASE l = 1
  BY <1>1, <1>2, <1>3, <1>4, <1>5, <1>6
<1>7. CASE l = 2
  BY <1>1, <1>2, <1>3, <1>4, <1>5, <1>7
<1>8. CASE l = 3
  BY <1>1, <1>2, <1>3, <1>4, <1>5, <1>8
<1>9. CASE l = 4
  BY <1>1, <1>2, <1>3, <1>4, <1>5, <1>9
<1> QED
  BY <1>6, <1>7, <1>8, <1>9

(***************************************************************************)
(* Attacks on a square: by a pawn, a knight or a king from next to it, or  *)
(* by a man that runs along a line and sees it.                            *)
(***************************************************************************)
Runs(bb, by, l) == bb[Piece(by, IF l \in {1, 3} THEN Bishop ELSE Rook)] \cup bb[Piece(by, Queen)]
Leaps(bb, by, s) ==
  (pawn_attacks[1 - by][s] \cap bb[Piece(by, Pawn)]) \cup (knight_attacks[s] \cap bb[Piece(by, Knight)])
  \cup (king_attacks[s] \cap bb[Piece(by, King)])
Aims(bb, by, s, occ) == \E l \in 1..4 : \E e \in Runs(bb, by, l) : Sees(l, s, e, occ)
Assails(bb, by, s, occ) == Leaps(bb, by, s) # {} \/ Aims(bb, by, s, occ)

\* The lines of a bishop and of a rook.
LEMMA RunsAre ==
  ASSUME NEW bb, NEW by
  PROVE  /\ Runs(bb, by, 1) = bb[Piece(by, Bishop)] \cup bb[Piece(by, Queen)] /\ Runs(bb, by, 3) = Runs(bb, by, 1)
         /\ Runs(bb, by, 2) = bb[Piece(by, Rook)] \cup bb[Piece(by, Queen)] /\ Runs(bb, by, 4) = Runs(bb, by, 2)
BY DEF Runs

\* The sliders that see a square are those the kernels find.
LEMMA AimsIs ==
  ASSUME NEW bb, NEW by, NEW s \in Squares, NEW occ
  PROVE  Aims(bb, by, s, occ) <=>
           \/ slider_pair(s, occ)[1] \cap (bb[Piece(by, Bishop)] \cup bb[Piece(by, Queen)]) # {}
           \/ slider_pair(s, occ)[2] \cap (bb[Piece(by, Rook)] \cup bb[Piece(by, Queen)]) # {}
<1> DEFINE D == bb[Piece(by, Bishop)] \cup bb[Piece(by, Queen)]
           S == bb[Piece(by, Rook)] \cup bb[Piece(by, Queen)]
<1>1. Runs(bb, by, 1) = D /\ Runs(bb, by, 3) = D /\ Runs(bb, by, 2) = S /\ Runs(bb, by, 4) = S
  BY RunsAre
<1>2. \A t : t \in slider_pair(s, occ)[1] <=> Sees(1, s, t, occ) \/ Sees(3, s, t, occ)
  <2> TAKE t
  <2>1. t \in slider_pair(s, occ)[1] <=> \E l \in {1, 1 + 2} : Sees(l, s, t, occ)
    BY SliderSees
  <2>2. 1 + 2 = 3
    OBVIOUS
  <2> QED
    BY <2>1, <2>2
<1>3. \A t : t \in slider_pair(s, occ)[2] <=> Sees(2, s, t, occ) \/ Sees(4, s, t, occ)
  <2> TAKE t
  <2>1. t \in slider_pair(s, occ)[2] <=> \E l \in {2, 2 + 2} : Sees(l, s, t, occ)
    BY SliderSees
  <2>2. 2 + 2 = 4
    OBVIOUS
  <2> QED
    BY <2>1, <2>2
<1>4. Aims(bb, by, s, occ) <=> \/ \E e \in D : Sees(1, s, e, occ) \/ Sees(3, s, e, occ)
                               \/ \E e \in S : Sees(2, s, e, occ) \/ Sees(4, s, e, occ)
  <2> HIDE DEF D, S
  <2>1. 1..4 = {1, 2, 3, 4}
    OBVIOUS
  <2> QED
    BY <1>1, <2>1 DEF Aims
<1> HIDE DEF D, S
<1>5. slider_pair(s, occ)[1] \cap D # {} <=> \E e \in D : Sees(1, s, e, occ) \/ Sees(3, s, e, occ)
  BY <1>2
<1>6. slider_pair(s, occ)[2] \cap S # {} <=> \E e \in S : Sees(2, s, e, occ) \/ Sees(4, s, e, occ)
  BY <1>3
<1> QED
  BY <1>4, <1>5, <1>6 DEF D, S

\* The test of a square.
LEMMA AttackedIs ==
  ASSUME NEW b, NEW s \in Squares, NEW by
  PROVE  is_square_attacked(b, s, by) <=> Assails(b.bb, by, s, All(b))
<1> DEFINE occ == b.occ[white] \cup b.occ[black]
<1>1. /\ Attacks(Knight, s, occ) = knight_attacks[s] /\ Attacks(King, s, occ) = king_attacks[s]
      /\ Attacks(Bishop, s, occ) = slider_pair(s, occ)[1] /\ Attacks(Rook, s, occ) = slider_pair(s, occ)[2]
      /\ Attacks(Queen, s, occ) = slider_pair(s, occ)[1] \cup slider_pair(s, occ)[2]
  BY DEF Attacks, SliderAttacks, Knight, Bishop, Rook, Queen, King
<1>2. is_square_attacked(b, s, by) <=>
        \/ pawn_attacks[1 - by][s] \cap b.bb[Piece(by, Pawn)] # {}
        \/ Attacks(Knight, s, occ) \cap b.bb[Piece(by, Knight)] # {}
        \/ Attacks(Bishop, s, occ) \cap b.bb[Piece(by, Bishop)] # {}
        \/ Attacks(Rook, s, occ) \cap b.bb[Piece(by, Rook)] # {}
        \/ Attacks(Queen, s, occ) \cap b.bb[Piece(by, Queen)] # {}
        \/ Attacks(King, s, occ) \cap b.bb[Piece(by, King)] # {}
  <2> DEFINE H(t) == Attacks(t, s, occ) \cap b.bb[Piece(by, t)] # {}
  <2>1. is_square_attacked(b, s, by) <=>
          pawn_attacks[1 - by][s] \cap b.bb[Piece(by, Pawn)] # {} \/ \E t \in {Knight, Bishop, Rook, Queen, King} : H(t)
    BY DEF is_square_attacked
  <2>2. (\E t \in {Knight, Bishop, Rook, Queen, King} : H(t)) <=> H(Knight) \/ H(Bishop) \/ H(Rook) \/ H(Queen) \/ H(King)
    <3> HIDE DEF H
    <3> QED
      OBVIOUS
  <2> QED
    BY <2>1, <2>2
<1>3. Leaps(b.bb, by, s) # {} <=>
        \/ pawn_attacks[1 - by][s] \cap b.bb[Piece(by, Pawn)] # {}
        \/ knight_attacks[s] \cap b.bb[Piece(by, Knight)] # {}
        \/ king_attacks[s] \cap b.bb[Piece(by, King)] # {}
  BY DEF Leaps
<1>4. Aims(b.bb, by, s, occ) <=>
        \/ slider_pair(s, occ)[1] \cap b.bb[Piece(by, Bishop)] # {}
        \/ slider_pair(s, occ)[2] \cap b.bb[Piece(by, Rook)] # {}
        \/ (slider_pair(s, occ)[1] \cup slider_pair(s, occ)[2]) \cap b.bb[Piece(by, Queen)] # {}
  <2> HIDE DEF occ
  <2>1. Aims(b.bb, by, s, occ) <=>
           \/ slider_pair(s, occ)[1] \cap (b.bb[Piece(by, Bishop)] \cup b.bb[Piece(by, Queen)]) # {}
           \/ slider_pair(s, occ)[2] \cap (b.bb[Piece(by, Rook)] \cup b.bb[Piece(by, Queen)]) # {}
    BY AimsIs
  <2> QED
    BY <2>1
<1>5. occ = All(b)
  BY DEF All
<1> HIDE DEF occ
<1> QED
  BY <1>1, <1>2, <1>3, <1>4, <1>5 DEF Assails

\* The attackers the search looks for are the men not to move that hit the square.
LEMMA AttackersAre ==
  ASSUME NEW b, NEW s \in Squares, NEW occ, b.side \in {white, black}
  PROVE  attacked_by(b, s, occ) <=> Assails(b.bb, 1 - b.side, s, occ)
<1> DEFINE by == 1 - b.side
<1>1. 1 - by = b.side
  BY DEF white, black
<1>2. Aims(b.bb, by, s, occ) <=>
           \/ slider_pair(s, occ)[1] \cap (b.bb[Piece(by, Bishop)] \cup b.bb[Piece(by, Queen)]) # {}
           \/ slider_pair(s, occ)[2] \cap (b.bb[Piece(by, Rook)] \cup b.bb[Piece(by, Queen)]) # {}
  BY AimsIs
<1>3. attacked_by(b, s, occ) <=>
        \/ pawn_attacks[b.side][s] \cap b.bb[Piece(by, Pawn)] # {} \/ knight_attacks[s] \cap b.bb[Piece(by, Knight)] # {}
        \/ king_attacks[s] \cap b.bb[Piece(by, King)] # {}
        \/ slider_pair(s, occ)[1] \cap (b.bb[Piece(by, Bishop)] \cup b.bb[Piece(by, Queen)]) # {}
        \/ slider_pair(s, occ)[2] \cap (b.bb[Piece(by, Rook)] \cup b.bb[Piece(by, Queen)]) # {}
  BY DEF attacked_by, attackers_with, AttackersOn, Theirs_, Diagonals, Straights
<1>4. Leaps(b.bb, by, s) # {} <=>
        \/ pawn_attacks[1 - by][s] \cap b.bb[Piece(by, Pawn)] # {}
        \/ knight_attacks[s] \cap b.bb[Piece(by, Knight)] # {}
        \/ king_attacks[s] \cap b.bb[Piece(by, King)] # {}
  BY DEF Leaps
<1> HIDE DEF by
<1> QED
  BY <1>1, <1>2, <1>3, <1>4 DEF Assails, by

\* On a line of theirs: the men that would see the square if nothing stood between.
LEMMA SnipersAre ==
  ASSUME NEW b, NEW k \in Squares, NEW u
  PROVE  u \in Snipers(b, k) <=> \E l \in 1..4 : u \in Runs(b.bb, 1 - b.side, l) /\ u \in Squares /\ OnLine(l, k, u)
<1> DEFINE D == Diagonals(b)
           S == Straights(b)
           On(l) == u \in Squares /\ OnLine(l, k, u)
<1>1. /\ Runs(b.bb, 1 - b.side, 1) = D /\ Runs(b.bb, 1 - b.side, 3) = D
      /\ Runs(b.bb, 1 - b.side, 2) = S /\ Runs(b.bb, 1 - b.side, 4) = S
  BY RunsAre DEF Diagonals, Straights, Theirs_
<1>2. u \in Snipers(b, k) <=> (u \in empty_rook_att[k] /\ u \in S) \/ (u \in empty_bishop_att[k] /\ u \in D)
  BY DEF Snipers
<1>3. u \in empty_bishop_att[k] <=> On(1) \/ On(3)
  <2>1. u \in empty_bishop_att[k] <=> \E l \in {1, 3} : On(l)
    BY EmptySees
  <2> HIDE DEF On
  <2> QED
    BY <2>1
<1>4. u \in empty_rook_att[k] <=> On(2) \/ On(4)
  <2>1. u \in empty_rook_att[k] <=> \E l \in {2, 4} : On(l)
    BY EmptySees
  <2> HIDE DEF On
  <2> QED
    BY <2>1
<1>5. (\E l \in 1..4 : u \in Runs(b.bb, 1 - b.side, l) /\ On(l))
        <=> (u \in D /\ (On(1) \/ On(3))) \/ (u \in S /\ (On(2) \/ On(4)))
  <2> HIDE DEF D, S, On
  <2>1. 1..4 = {1, 2, 3, 4}
    OBVIOUS
  <2> QED
    BY <1>1, <2>1
<1> HIDE DEF D, S
<1> QED
  BY <1>2, <1>3, <1>4, <1>5

\* What stands between two squares of a line.
LEMMA StandsBetween ==
  ASSUME NEW s \in Squares, NEW t \in Squares, NEW l \in 1..4, OnLine(l, s, t), NEW u
  PROVE  u \in between_tbl[s][t] <=> u \in Squares /\ OnLine(l, s, u) /\ Inside(u, s, t)
<1>1. u \in between_tbl[s][t] <=> \E k \in 1..4 : OnLine(k, s, t) /\ u \in Squares /\ OnLine(k, s, u) /\ Inside(u, s, t)
  BY BetweenIs
<1>2. \A k \in 1..4 : OnLine(k, s, t) => k = l
  BY OneLine
<1> QED
  BY <1>1, <1>2

\* The men that give check.
LEMMA CheckersAre ==
  ASSUME NEW b, NEW k \in Squares, NEW u
  PROVE  u \in Checkers(b, k) <=>
           \/ u \in knight_attacks[k] /\ u \in b.bb[Piece(1 - b.side, Knight)]
           \/ u \in pawn_attacks[b.side][k] /\ u \in b.bb[Piece(1 - b.side, Pawn)]
           \/ \E l \in 1..4 : u \in Runs(b.bb, 1 - b.side, l) /\ Sees(l, k, u, All(b))
<1>1. (u \in Snipers(b, k) /\ between_tbl[k][u] \cap All(b) = {})
        <=> \E l \in 1..4 : u \in Runs(b.bb, 1 - b.side, l) /\ Sees(l, k, u, All(b))
  <2>1. \A l \in 1..4 : u \in Squares /\ OnLine(l, k, u) => (between_tbl[k][u] \cap All(b) = {} <=> Clear(l, k, u, All(b)))
    <3> SUFFICES ASSUME NEW l \in 1..4, u \in Squares, OnLine(l, k, u)
                 PROVE  between_tbl[k][u] \cap All(b) = {} <=> Clear(l, k, u, All(b))
      OBVIOUS
    <3>1. \A v : v \in between_tbl[k][u] <=> v \in Squares /\ OnLine(l, k, v) /\ Inside(v, k, u)
      BY StandsBetween
    <3> QED
      BY <3>1 DEF Clear
  <2>2. u \in Snipers(b, k) <=> \E l \in 1..4 : u \in Runs(b.bb, 1 - b.side, l) /\ u \in Squares /\ OnLine(l, k, u)
    BY SnipersAre
  <2> QED
    BY <2>1, <2>2 DEF Sees
<1>2. u \in Checkers(b, k) <=>
        \/ u \in knight_attacks[k] /\ u \in Theirs_(b, Knight)
        \/ u \in pawn_attacks[b.side][k] /\ u \in Theirs_(b, Pawn)
        \/ u \in Snipers(b, k) /\ between_tbl[k][u] \cap All(b) = {}
  BY DEF Checkers
<1> QED
  BY <1>1, <1>2 DEF Theirs_

\* A man of the side to move that alone keeps a slider from the square is among those pinned to it.
LEMMA PinsAre ==
  ASSUME NEW b, NEW k \in Squares, NEW l \in 1..4, NEW e \in Squares, e \in Runs(b.bb, 1 - b.side, l),
         NEW f \in Squares, f \in b.occ[b.side], Pins(l, k, e, f, All(b))
  PROVE  f \in PinnedTo(b, k)
<1>1. OnLine(l, k, e) /\ OnLine(l, k, f) /\ Inside(f, k, e) /\ f \in All(b)
  BY DEF Pins
<1>2. e \in Snipers(b, k)
  BY <1>1, SnipersAre
<1>3. \A v : v \in between_tbl[k][e] <=> v \in Squares /\ OnLine(l, k, v) /\ Inside(v, k, e)
  BY <1>1, StandsBetween
<1>4. between_tbl[k][e] \cap All(b) = {f}
  BY <1>1, <1>3 DEF Pins
<1>5. Cardinality(between_tbl[k][e] \cap All(b)) = 1
  BY <1>4, FS_Singleton
<1>6. f \in PinnedBy(b, k, e)
  <2> DEFINE X == between_tbl[k][e] \cap All(b)
  <2>1. PinnedBy(b, k, e) = IF Cardinality(X) = 1 THEN X \cap b.occ[b.side] ELSE {}
    BY DEF PinnedBy
  <2>2. Cardinality(X) = 1 /\ f \in X
    BY <1>4, <1>5
  <2> HIDE DEF X
  <2> QED
    BY <2>1, <2>2
<1> QED
  BY <1>2, <1>6 DEF PinnedTo

(***************************************************************************)
(* A move goes the way of its man, and nothing stands on its way.          *)
(***************************************************************************)
Goes(b, m) ==
  ~m.castling /\ Type(m.piece) # Pawn => m.to \in Attacks(Type(m.piece), m.from, All(b))

\* One step of a pawn is a step to a neighbour.
LEMMA PawnStep ==
  ASSUME NEW c \in {white, black}, NEW f \in Squares, NEW t \in Squares
  PROVE  /\ t = f + Up(c) => KingStep(f, t) /\ File(f) = File(t) /\ Row(f) # Row(t)
         /\ t \in pawn_attacks[c][f] => KingStep(f, t) /\ Apart(File(f), File(t), 1) /\ Apart(Row(f), Row(t), 1)
         /\ t \in pawn_attacks[c][f] => t - Up(c) \in Squares /\ Row(t - Up(c)) = Row(f) /\ File(t - Up(c)) = File(t)
         /\ t = f + 2 * Up(c) => File(f) = File(t) /\ Row(f) # Row(t) /\ t - Up(c) \in Squares
                                 /\ \A u \in Squares : File(u) = File(t) /\ Inside(u, f, t) => u = t - Up(c)
<1> DEFINE x == Row(f)
           y == File(f)
           z == Row(t)
           w == File(t)
<1>1. x \in 0..7 /\ y \in 0..7 /\ z \in 0..7 /\ w \in 0..7 /\ f = 8 * x + y /\ t = 8 * z + w
  BY Coordinates
<1>2. /\ KingStep(f, t) <=> f # t /\ (x = z \/ x - z = 1 \/ z - x = 1) /\ (y = w \/ y - w = 1 \/ w - y = 1)
      /\ Apart(File(f), File(t), 1) <=> y - w = 1 \/ w - y = 1
      /\ Apart(Row(f), Row(t), 1) <=> x - z = 1 \/ z - x = 1
  BY DEF KingStep, Near, Apart
<1>3. (Up(c) = -8 /\ c = white) \/ (Up(c) = 8 /\ c = black)
  BY DEF Up, white, black
<1>4. /\ t \in pawn_attacks[white][f] <=> (t = f - 7 /\ w # 0) \/ (t = f - 9 /\ w # 7)
      /\ t \in pawn_attacks[black][f] <=> (t = f + 7 /\ w # 7) \/ (t = f + 9 /\ w # 0)
  BY PawnAttacksAre
<1>5. \A r, i \in 0..7 : 8 * r + i \in Squares /\ Row(8 * r + i) = r /\ File(8 * r + i) = i
  BY Coordinates
<1>6. \A u \in Squares : u \in Int /\ Row(u) \in 0..7 /\ File(u) \in 0..7 /\ u = 8 * Row(u) + File(u)
  BY Coordinates
<1>7. Row(f) = x /\ File(f) = y /\ Row(t) = z /\ File(t) = w
  OBVIOUS
<1> HIDE DEF x, y, z, w
<1>8. t = f + Up(c) => KingStep(f, t) /\ File(f) = File(t) /\ Row(f) # Row(t)
  BY <1>1, <1>2, <1>3, <1>7
<1>9. t \in pawn_attacks[c][f] =>
        /\ y - w = 1 \/ w - y = 1
        /\ IF c = white THEN x - z = 1 ELSE z - x = 1
  <2>1. CASE c = white
    <3>1. t \in pawn_attacks[c][f] => (t = f - 7 /\ w # 0) \/ (t = f - 9 /\ w # 7)
      BY <1>4, <2>1
    <3> QED
      BY <1>1, <2>1, <3>1
  <2>2. CASE c = black
    <3>1. t \in pawn_attacks[c][f] => (t = f + 7 /\ w # 7) \/ (t = f + 9 /\ w # 0)
      BY <1>4, <2>2
    <3>2. c # white
      BY <2>2 DEF white, black
    <3> QED
      BY <1>1, <3>1, <3>2
  <2> QED
    BY <2>1, <2>2
<1>10. t \in pawn_attacks[c][f] => KingStep(f, t) /\ Apart(File(f), File(t), 1) /\ Apart(Row(f), Row(t), 1)
  BY <1>1, <1>2, <1>9
<1>11. t \in pawn_attacks[c][f] => t - Up(c) \in Squares /\ Row(t - Up(c)) = Row(f) /\ File(t - Up(c)) = File(t)
  <2> SUFFICES ASSUME t \in pawn_attacks[c][f]
               PROVE  t - Up(c) \in Squares /\ Row(t - Up(c)) = Row(f) /\ File(t - Up(c)) = File(t)
    OBVIOUS
  <2>1. t - Up(c) = 8 * x + w
    BY <1>1, <1>3, <1>9 DEF white, black
  <2> QED
    BY <1>1, <1>5, <1>7, <2>1
<1>12. t = f + 2 * Up(c) => File(f) = File(t) /\ Row(f) # Row(t) /\ t - Up(c) \in Squares
                            /\ \A u \in Squares : File(u) = File(t) /\ Inside(u, f, t) => u = t - Up(c)
  <2> SUFFICES ASSUME t = f + 2 * Up(c)
               PROVE  File(f) = File(t) /\ Row(f) # Row(t) /\ t - Up(c) \in Squares
                      /\ \A u \in Squares : File(u) = File(t) /\ Inside(u, f, t) => u = t - Up(c)
    OBVIOUS
  <2>1. y = w /\ IF c = white THEN x - z = 2 ELSE z - x = 2
    BY <1>1, <1>3 DEF white, black
  <2>2. t - Up(c) = 8 * (IF c = white THEN z + 1 ELSE z - 1) + w /\ (IF c = white THEN z + 1 ELSE z - 1) \in 0..7
    BY <1>1, <1>3, <2>1 DEF white, black
  <2>3. t - Up(c) \in Squares
    BY <1>1, <1>5, <2>2
  <2>4. ASSUME NEW u \in Squares, File(u) = w, Inside(u, f, t)
        PROVE  u = t - Up(c)
    <3> DEFINE r == Row(u)
    <3>1. r \in 0..7 /\ u = 8 * r + w
      BY <1>6, <2>4
    <3>2. (f < u /\ u < t) \/ (t < u /\ u < f)
      BY <2>4 DEF Inside
    <3> HIDE DEF r
    <3>3. r = IF c = white THEN z + 1 ELSE z - 1
      BY <1>1, <2>1, <3>1, <3>2
    <3> QED
      BY <2>2, <3>1, <3>3
  <2> QED
    BY <1>1, <1>7, <2>1, <2>3, <2>4
<1> QED
  BY <1>8, <1>10, <1>11, <1>12

(***************************************************************************)
(* The king after a move of another man.                                   *)
(***************************************************************************)
Full(bb) == {s \in Squares : ~Free(bb, s)}

\* The occupancies hold every man.
LEMMA AllIsFull ==
  ASSUME NEW b, b.bb \in Boards, \A c \in {white, black} : b.occ[c] = Occupied(b.bb, c)
  PROVE  All(b) = Full(b.bb)
<1>1. \A s : s \in All(b) <=> \E p \in Pieces : s \in b.bb[p]
  <2> TAKE s
  <2>1. s \in b.occ[white] <=> \E p \in Men(white) : s \in b.bb[p]
    BY OccupiedIn
  <2>2. s \in b.occ[black] <=> \E p \in Men(black) : s \in b.bb[p]
    BY OccupiedIn
  <2>3. \A p : p \in Pieces <=> p \in Men(white) \/ p \in Men(black)
    BY MenIs DEF Pieces
  <2> QED
    BY <2>1, <2>2, <2>3 DEF All
<1>2. \A p \in Pieces : b.bb[p] \subseteq Squares
  BY DEF Boards
<1> QED
  BY <1>1, <1>2 DEF Full, Free

\* A move on a line goes the way of a slider or to a neighbour or two squares forward, over empty squares only.
LEMMA WayIsClear ==
  ASSUME NEW b, Ready(b), NEW m, FitFrom(b, m), FitPlain(b, m), Goes(b, m), m.piece # Piece(b.side, King),
         NEW l \in 1..4, OnLine(l, m.from, m.to)
  PROVE  Clear(l, m.from, m.to, All(b))
<1> DEFINE f == m.from
           t == m.to
           c == b.side
<1>1. f \in Squares /\ t \in Squares /\ c \in {white, black} /\ m.piece \in Men(c)
  BY DEF FitFrom, Moves, Ready
<1>2. /\ Type(m.piece) = Pawn <=> m.piece = Piece(c, Pawn)
      /\ Type(m.piece) = King <=> m.piece = Piece(c, King)
      /\ Type(m.piece) \in 0..5
  <2>1. Type(m.piece) \in 0..5
    <3>1. m.piece \in 0..11
      BY <1>1, MenIs DEF Pieces
    <3> QED
      BY <3>1 DEF Type
  <2> QED
    BY <1>1, <2>1, KindOfMan
<1>3. OnLine(l, f, t)
  OBVIOUS
<1>4. CASE Type(m.piece) = Pawn
  <2>1. PawnWay(b, m)
    BY <1>2, <1>4 DEF FitPlain
  <2>2. CASE m.capture
    <3>1. t \in pawn_attacks[c][f]
      BY <2>1, <2>2 DEF PawnWay
    <3>2. KingStep(f, t)
      BY <1>1, <3>1, PawnStep
    <3> QED
      BY <1>1, <1>3, <3>2, NothingBetween
  <2>3. CASE ~m.capture /\ ~m.double
    <3>1. t = f + Up(c)
      BY <2>1, <2>3 DEF PawnWay
    <3>2. KingStep(f, t)
      BY <1>1, <3>1, PawnStep
    <3> QED
      BY <1>1, <1>3, <3>2, NothingBetween
  <2>4. CASE ~m.capture /\ m.double
    <3>1. t = f + 2 * Up(c) /\ Free(b.bb, t - Up(c))
      BY <2>1, <2>4 DEF PawnWay, FitPlain
    <3>2. /\ File(f) = File(t) /\ t - Up(c) \in Squares
          /\ \A u \in Squares : File(u) = File(t) /\ Inside(u, f, t) => u = t - Up(c)
      BY <1>1, <3>1, PawnStep
    <3>3. l = 2
      <4>1. OnLine(2, f, t)
        BY <1>3, <3>2, LineOfIs DEF OnLine
      <4> QED
        BY <1>1, <1>3, <4>1, OneLine
    <3>4. t - Up(c) \notin All(b)
      <4>1. All(b) = Full(b.bb)
        BY AllIsFull DEF Ready
      <4> QED
        BY <3>1, <4>1 DEF Full
    <3>5. \A u \in Squares : OnLine(l, f, u) => File(u) = File(t)
      BY <3>2, <3>3, LineOfIs DEF OnLine
    <3> QED
      BY <3>2, <3>4, <3>5 DEF Clear
  <2> QED
    BY <2>2, <2>3, <2>4
<1>5. CASE Type(m.piece) # Pawn
  <2>1. t \in Attacks(Type(m.piece), f, All(b)) /\ Type(m.piece) # King
    BY <1>2, <1>5 DEF Goes, FitPlain
  <2>2. Type(m.piece) \in {Knight, Bishop, Rook, Queen}
    BY <1>2, <1>5, <2>1 DEF Pawn, Knight, Bishop, Rook, Queen, King
  <2>3. CASE Type(m.piece) = Knight
    <3>1. t \in knight_attacks[f]
      BY <2>1, <2>3 DEF Attacks
    <3> QED
      BY <1>1, <1>3, <3>1, KnightAttacksAre, KnightsJump
  <2>4. CASE Type(m.piece) # Knight
    <3>1. \E i \in {1, 2} : t \in slider_pair(f, All(b))[i]
      BY <2>1, <2>2, <2>4 DEF Attacks, SliderAttacks, Knight, Bishop, Rook, Queen, King
    <3>2. PICK i \in {1, 2} : t \in slider_pair(f, All(b))[i]
      BY <3>1
    <3>3. \E k \in {i, i + 2} : Sees(k, f, t, All(b))
      BY <1>1, <3>2, SliderSees
    <3>4. PICK k \in 1..4 : Sees(k, f, t, All(b))
      BY <3>3
    <3>5. k = l
      BY <1>1, <1>3, <3>4, OneLine DEF Sees
    <3> QED
      BY <3>4, <3>5 DEF Sees
  <2> QED
    BY <2>3, <2>4
<1> QED
  BY <1>4, <1>5

\* The men after a move.
LEMMA ShiftedAre ==
  ASSUME NEW b, NEW m, NEW v, NEW vs, PlainMove(b, m, v, vs), NEW new, Shifted(b.bb, new, m, vs)
  PROVE  /\ \A s \in Squares : s \in Full(new) <=> s = m.to \/ (s # m.from /\ s # vs /\ s \in Full(b.bb))
         /\ \A p \in Men(1 - b.side) : \A s : s \in new[p] <=> s \in b.bb[p] /\ s # m.to /\ s # vs
         /\ new \in Boards
<1>1. /\ new \in Boards /\ b.bb \in Boards
      /\ \A p \in Pieces, s \in Squares :
           s \in new[p] <=> IF s = m.to THEN p = Landed(m) ELSE s # m.from /\ s # vs /\ s \in b.bb[p]
  BY DEF Shifted, PlainMove
<1>2. /\ Landed(m) \in Men(b.side) /\ Landed(m) \in Pieces /\ m.piece \in Men(b.side) /\ b.side \in {white, black}
      /\ \A p \in Pieces : p # m.piece => m.from \notin b.bb[p]
  BY DEF PlainMove
<1>3. \A p \in Men(1 - b.side) : p \in Pieces /\ p # Landed(m) /\ p # m.piece
  BY <1>2, MenIs
<1>4. \A p \in Pieces : new[p] \subseteq Squares /\ b.bb[p] \subseteq Squares
  BY <1>1 DEF Boards
<1>5. \A s \in Squares : s \in Full(new) <=> s = m.to \/ (s # m.from /\ s # vs /\ s \in Full(b.bb))
  BY <1>1, <1>2 DEF Full, Free
<1>6. \A p \in Men(1 - b.side) : \A s : s \in new[p] <=> s \in b.bb[p] /\ s # m.to /\ s # vs
  BY <1>1, <1>2, <1>3, <1>4
<1> QED
  BY <1>1, <1>5, <1>6

\* What the men of a side are when one of them, at most, has been taken.
LeftOf(bb, new, by, t) == \A p \in Men(by) : \A u : u \in new[p] => u \in bb[p] /\ u # t

\* The runners and leapers of a side.
LEMMA RunnersStay ==
  ASSUME NEW bb, NEW new, NEW by \in {white, black}, NEW s, NEW t,
         LeftOf(bb, new, by, t)
  PROVE  /\ \A u : u \in Leaps(new, by, s) => u \in Leaps(bb, by, s) /\ u # t
         /\ \A l, u : u \in Runs(new, by, l) => u \in Runs(bb, by, l) /\ u # t
<1>1. \A k \in {Pawn, Knight, Bishop, Rook, Queen, King} : Piece(by, k) \in Men(by)
  BY DEF Men, Pawn, Knight, Bishop, Rook, Queen, King
<1>2. \A u : u \in Leaps(new, by, s) => u \in Leaps(bb, by, s) /\ u # t
  BY <1>1 DEF Leaps, LeftOf
<1>3. \A l, u : u \in Runs(new, by, l) => u \in Runs(bb, by, l) /\ u # t
  BY <1>1 DEF Runs, LeftOf
<1> QED
  BY <1>2, <1>3

\* What keeps the king from attack: every man that gives check is taken or cut off, and a man that alone stands before
\* a slider leaves along its line.
Guarded(b, k, m) ==
  /\ \A u \in Leaps(b.bb, 1 - b.side, k) : u = m.to
  /\ \A l \in 1..4 : \A e \in Runs(b.bb, 1 - b.side, l) :
       Sees(l, k, e, All(b)) => e = m.to \/ (OnLine(l, k, m.to) /\ Inside(m.to, k, e))
  /\ \A l \in 1..4 : \A e \in Runs(b.bb, 1 - b.side, l) :
       e \in Squares /\ Pins(l, k, e, m.from, All(b)) => OnLine(l, m.from, m.to)

\* A move of another man than the king that guards its king so leaves it attacked by nobody.
LEMMA GuardedIsSafe ==
  ASSUME NEW b, Ready(b), NEW m, FitFrom(b, m), FitPlain(b, m), Goes(b, m), ~m.enpass, m.piece # Piece(b.side, King),
         NEW v, NEW vs, PlainMove(b, m, v, vs), vs = m.to \/ vs = None, NEW new, Shifted(b.bb, new, m, vs),
         NEW k \in b.bb[Piece(b.side, King)], Guarded(b, k, m)
  PROVE  ~Assails(new, 1 - b.side, k, Full(new))
<1> DEFINE by == 1 - b.side
           f == m.from
           t == m.to
<1>1. by \in {white, black} /\ b.side \in {white, black}
  BY DEF Ready, white, black
<1>2. /\ \A s \in Squares : s \in Full(new) <=> s = t \/ (s # f /\ s # vs /\ s \in Full(b.bb))
      /\ \A p \in Men(by) : \A s : s \in new[p] <=> s \in b.bb[p] /\ s # t /\ s # vs
  BY ShiftedAre
<1>3. All(b) = Full(b.bb)
  BY AllIsFull DEF Ready
<1>4. f \in Squares /\ t \in Squares /\ f # t
  BY DEF PlainMove
<1>5. Piece(b.side, King) \in Pieces /\ Piece(b.side, King) \in Men(b.side)
  BY <1>1, PieceOf DEF King
<1>6. k \in Squares /\ k \in All(b) /\ k # t /\ k # f
  <2>1. k \in Squares
    BY <1>5 DEF Ready, Boards
  <2>2. k \in Full(b.bb)
    BY <1>5, <2>1 DEF Full, Free
  <2>3. k # t
    BY <1>5 DEF FitPlain
  <2>4. k # f
    BY <1>5 DEF PlainMove
  <2> QED
    BY <1>3, <2>1, <2>2, <2>3, <2>4
<1> HIDE DEF by, f, t
<1>7. /\ \A u : u \in Leaps(new, by, k) => u \in Leaps(b.bb, by, k) /\ u # t
      /\ \A l, u : u \in Runs(new, by, l) => u \in Runs(b.bb, by, l) /\ u # t
  <2>1. LeftOf(b.bb, new, by, t)
    BY <1>2 DEF LeftOf
  <2> QED
    BY <1>1, <2>1, RunnersStay
<1>8. Leaps(new, by, k) = {}
  BY <1>7 DEF Guarded, by, t
<1>9. ASSUME NEW l \in 1..4, NEW e \in Runs(new, by, l), Sees(l, k, e, Full(new))
      PROVE  FALSE
  <2>1. e \in Runs(b.bb, by, l) /\ e # t /\ e \in Squares /\ OnLine(l, k, e)
    BY <1>7, <1>9 DEF Sees
  <2>2. ~(OnLine(l, k, t) /\ Inside(t, k, e))
    <3>1. t \in Full(new)
      BY <1>2, <1>4
    <3> QED
      BY <1>4, <1>9, <3>1 DEF Sees, Clear
  <2>3. ~Sees(l, k, e, All(b))
    BY <2>1, <2>2 DEF Guarded, by, t
  <2>4. Pins(l, k, e, f, All(b))
    <3>1. \A u \in All(b) : u = f \/ u \in Full(new)
      <4>1. All(b) \subseteq Squares
        BY <1>3 DEF Full
      <4>2. \A u \in Squares : u = vs => u = t
        BY DEF t, None, Squares
      <4> QED
        BY <1>2, <1>3, <1>4, <4>1, <4>2
    <3> QED
      BY <1>6, <1>9, <2>1, <2>3, <3>1, Uncovers
  <2>5. OnLine(l, f, t)
    BY <2>1, <2>4 DEF Guarded, by, f, t
  <2>6. Clear(l, f, t, All(b))
    BY <2>5, WayIsClear DEF f, t
  <2>7. e \in All(b)
    <3>1. \E p \in Pieces : e \in b.bb[p]
      <4>1. Piece(by, Bishop) \in Pieces /\ Piece(by, Rook) \in Pieces /\ Piece(by, Queen) \in Pieces
        BY <1>1, PieceOf DEF Bishop, Rook, Queen
      <4> QED
        BY <2>1, <4>1 DEF Runs
    <3> QED
      BY <1>3, <2>1, <3>1 DEF Full, Free
  <2> QED
    BY <1>4, <1>6, <2>1, <2>2, <2>4, <2>5, <2>6, <2>7, StaysBetween
<1>10. ~Aims(new, by, k, Full(new))
  BY <1>9 DEF Aims
<1> QED
  BY <1>8, <1>10 DEF Assails, by

\* The king of a side with one.
LEMMA KingSquareIs ==
  ASSUME NEW b, b.bb \in Boards, NEW c \in {white, black}, Cardinality(b.bb[Piece(c, King)]) = 1
  PROVE  /\ KingSquare(b, c) \in b.bb[Piece(c, King)] /\ KingSquare(b, c) \in Squares
         /\ \A x \in b.bb[Piece(c, King)] : x = KingSquare(b, c)
<1> DEFINE K == b.bb[Piece(c, King)]
<1>1. K \subseteq Squares
  <2>1. Piece(c, King) \in Pieces
    BY PieceOf DEF King
  <2> QED
    BY <2>1 DEF Boards
<1>2. \A x, y \in K : x = y
  BY KingsAre
<1>3. K # {}
  BY FS_EmptySet
<1>4. PICK x : x \in K
  BY <1>3
<1>5. Lsb(K) = x
  <2>1. K \in SUBSET Int /\ x \in K /\ \A y \in K : y = x
    BY <1>1, <1>2, <1>4 DEF Squares
  <2> HIDE DEF K
  <2> QED
    BY <2>1, LsbIn
<1> QED
  BY <1>1, <1>2, <1>4, <1>5 DEF KingSquare

\* The test of legality, as attacks.
LEMMA LegalIs ==
  ASSUME NEW b, b.bb \in Boards, b.side \in {white, black}, IsLegal(b)
  PROVE  /\ \A c \in {white, black} : /\ KingSquare(b, c) \in b.bb[Piece(c, King)] /\ KingSquare(b, c) \in Squares
                                      /\ \A x \in b.bb[Piece(c, King)] : x = KingSquare(b, c)
         /\ ~Assails(b.bb, b.side, KingSquare(b, 1 - b.side), All(b))
<1>1. \A c \in {white, black} : /\ KingSquare(b, c) \in b.bb[Piece(c, King)] /\ KingSquare(b, c) \in Squares
                                /\ \A x \in b.bb[Piece(c, King)] : x = KingSquare(b, c)
  BY KingSquareIs DEF IsLegal
<1>2. KingSquare(b, 1 - b.side) \in Squares
  BY <1>1 DEF white, black
<1>3. ~is_square_attacked(b, KingSquare(b, 1 - b.side), b.side)
  BY DEF IsLegal, LeavesKing
<1>4. ~Assails(b.bb, b.side, KingSquare(b, 1 - b.side), All(b))
  BY <1>2, <1>3, AttackedIs
<1> QED
  BY <1>1, <1>4

\* The king of the side to move does not stand next to the other one.
LEMMA KingsApart ==
  ASSUME NEW b, b.bb \in Boards, b.side \in {white, black}, IsLegal(b), NEW k \in b.bb[Piece(b.side, King)]
  PROVE  king_attacks[k] \cap b.bb[Piece(1 - b.side, King)] = {}
<1>1. 1 - b.side \in {white, black}
  BY DEF white, black
<1>2. SUFFICES ASSUME NEW u, u \in king_attacks[k], u \in b.bb[Piece(1 - b.side, King)]
               PROVE  FALSE
  OBVIOUS
<1>3. k \in Squares /\ u \in Squares /\ u = KingSquare(b, 1 - b.side)
  BY <1>1, <1>2, LegalIs
<1>4. k \in king_attacks[u]
  BY <1>2, <1>3, LeapersMeet
<1>5. k \in Leaps(b.bb, b.side, u)
  BY <1>4 DEF Leaps
<1> QED
  BY <1>3, <1>5, LegalIs DEF Assails

\* Who attacks the king gives check.
LEMMA AttackersCheck ==
  ASSUME NEW b, b.side \in {white, black}, NEW k \in Squares, king_attacks[k] \cap b.bb[Piece(1 - b.side, King)] = {}
  PROVE  /\ \A u : u \in Leaps(b.bb, 1 - b.side, k) =>
                     /\ u \in Checkers(b, k)
                     /\ u \in b.bb[Piece(1 - b.side, Knight)] \/ u \in b.bb[Piece(1 - b.side, Pawn)]
         /\ \A l \in 1..4 : \A e : e \in Runs(b.bb, 1 - b.side, l) /\ Sees(l, k, e, All(b)) => e \in Checkers(b, k)
<1>1. 1 - (1 - b.side) = b.side
  BY DEF white, black
<1> DEFINE by == 1 - b.side
<1>2. \A u : u \in Leaps(b.bb, by, k) => \/ u \in pawn_attacks[b.side][k] /\ u \in b.bb[Piece(by, Pawn)]
                                         \/ u \in knight_attacks[k] /\ u \in b.bb[Piece(by, Knight)]
  <2>1. 1 - by = b.side
    BY <1>1
  <2>2. king_attacks[k] \cap b.bb[Piece(by, King)] = {}
    OBVIOUS
  <2> HIDE DEF by
  <2> QED
    BY <2>1, <2>2 DEF Leaps
<1> QED
  BY <1>2, CheckersAre DEF by

\* A move of a man other than the king to a square of the masks, along the line of its pin if it is pinned, guards the king.
LEMMA MasksGuard ==
  ASSUME NEW b, Ready(b), NEW k \in b.bb[Piece(b.side, King)], king_attacks[k] \cap b.bb[Piece(1 - b.side, King)] = {},
         ~Several(Checkers(b, k)),
         NEW m, m.from \in Squares, m.to \in Squares, m.from # m.to, m.from # k, m.to # k, m.from \in b.occ[b.side],
         m.to \in InfoFor(b, k).capture_mask \cup InfoFor(b, k).quiet_mask,
         m.from \in PinnedTo(b, k) => m.to \in line_bb[k][m.from]
  PROVE  Guarded(b, k, m)
<1> DEFINE by == 1 - b.side
           checkers == Checkers(b, k)
           sliders == Diagonals(b) \cup Straights(b)
           t == m.to
           f == m.from
<1>1. b.side \in {white, black} /\ by \in {white, black} /\ k \in Squares
  <2>1. b.side \in {white, black} /\ by \in {white, black}
    BY DEF Ready, white, black
  <2>2. Piece(b.side, King) \in Pieces
    BY <2>1, PieceOf DEF King
  <2> QED
    BY <2>1, <2>2 DEF Ready, Boards
<1>2. /\ \A u : u \in Leaps(b.bb, by, k) =>
                  u \in checkers /\ (u \in b.bb[Piece(by, Knight)] \/ u \in b.bb[Piece(by, Pawn)])
      /\ \A l \in 1..4 : \A e : e \in Runs(b.bb, by, l) /\ Sees(l, k, e, All(b)) => e \in checkers
  BY <1>1, AttackersCheck
<1>3. /\ InfoFor(b, k).capture_mask = (IF checkers = {} THEN b.occ[1 - b.side]
                                       ELSE IF Several(checkers) THEN {} ELSE checkers)
      /\ InfoFor(b, k).quiet_mask = (IF checkers = {} THEN Squares \ All(b)
                                     ELSE IF Several(checkers) \/ checkers \cap sliders = {} THEN {}
                                     ELSE between_tbl[k][Lsb(checkers)])
  BY DEF InfoFor, MoveInfo
<1>4. checkers # {} => \E x \in Squares : checkers = {x}
  <2> SUFFICES ASSUME checkers # {} PROVE \E x \in Squares : checkers = {x}
    OBVIOUS
  <2>1. checkers \subseteq Squares
    <3>1. \A t_ \in 0..5 : b.bb[Piece(by, t_)] \subseteq Squares
      <4> SUFFICES ASSUME NEW t_ \in 0..5 PROVE b.bb[Piece(by, t_)] \subseteq Squares
        OBVIOUS
      <4>1. Piece(by, t_) \in Pieces
        BY <1>1, PieceOf
      <4> QED
        BY <4>1 DEF Ready, Boards
    <3>2. b.bb[Piece(by, Knight)] \subseteq Squares /\ b.bb[Piece(by, Pawn)] \subseteq Squares
      BY <3>1 DEF Knight, Pawn
    <3> QED
      BY <1>1, <3>2, CheckersAre DEF Sees
  <2>2. IsFiniteSet(checkers)
    <3>1. 0 \in Int /\ 63 \in Int
      OBVIOUS
    <3>2. IsFiniteSet(Squares)
      BY <3>1, FS_Interval DEF Squares
    <3> HIDE DEF checkers
    <3> QED
      BY <2>1, <3>2, FS_Subset
  <2> HIDE DEF checkers
  <2>3. Cardinality(checkers) = 1
    <3>1. Cardinality(checkers) \in Nat
      BY <2>2, FS_CardinalityType
    <3>2. Cardinality(checkers) # 0
      BY <2>2, FS_EmptySet
    <3>3. ~(Cardinality(checkers) > 1)
      BY DEF Several, checkers
    <3> QED
      BY <3>1, <3>2, <3>3
  <2>4. PICK x : checkers = {x}
    BY <2>2, <2>3, FS_Singleton
  <2> QED
    BY <2>1, <2>4
<1>5. \/ \A u \in checkers : u = t
      \/ \E x \in Squares : checkers = {x} /\ x \in sliders /\ t \in between_tbl[k][x]
  <2>1. CASE checkers = {}
    BY <2>1
  <2>2. CASE checkers # {}
    <3>1. PICK x \in Squares : checkers = {x}
      BY <1>4, <2>2
    <3>2. CASE t \in InfoFor(b, k).capture_mask
      BY <1>3, <3>1, <3>2
    <3>3. CASE t \in InfoFor(b, k).quiet_mask
      <4>1. checkers \cap sliders # {} /\ t \in between_tbl[k][Lsb(checkers)]
        BY <1>3, <2>2, <3>3
      <4>2. Lsb(checkers) = x
        <5>1. checkers \in SUBSET Int /\ x \in checkers /\ \A y \in checkers : y = x
          BY <3>1 DEF Squares
        <5> HIDE DEF checkers
        <5> QED
          BY <5>1, LsbIn
      <4> QED
        BY <3>1, <4>1, <4>2
    <3> QED
      BY <3>2, <3>3
  <2> QED
    BY <2>1, <2>2
<1>6. \A x : x \in sliders => x \notin b.bb[Piece(by, Knight)] /\ x \notin b.bb[Piece(by, Pawn)]
  <2> SUFFICES ASSUME NEW x, x \in sliders, x \in b.bb[Piece(by, Knight)] \/ x \in b.bb[Piece(by, Pawn)]
               PROVE  FALSE
    OBVIOUS
  <2>1. PICK i \in {Bishop, Rook, Queen} : x \in b.bb[Piece(by, i)]
    BY DEF Diagonals, Straights, Theirs_
  <2>2. PICK j \in {Knight, Pawn} : x \in b.bb[Piece(by, j)]
    OBVIOUS
  <2>3. i \in 0..5 /\ j \in 0..5 /\ i # j
    BY DEF Pawn, Knight, Bishop, Rook, Queen
  <2>4. Piece(by, i) \in Pieces /\ Piece(by, j) \in Pieces /\ Piece(by, i) # Piece(by, j)
    BY <1>1, <2>3, PieceOf
  <2>5. x \in Squares
    BY <2>1, <2>4 DEF Ready, Boards
  <2> QED
    BY <2>1, <2>2, <2>4, <2>5 DEF Ready, Disjoint
<1> HIDE DEF checkers, sliders
<1>7. \A u \in Leaps(b.bb, by, k) : u = t
  BY <1>2, <1>5, <1>6
<1>8. ASSUME NEW l \in 1..4, NEW e \in Runs(b.bb, by, l), Sees(l, k, e, All(b))
      PROVE  e = t \/ (OnLine(l, k, t) /\ Inside(t, k, e))
  <2>1. e \in checkers /\ e \in Squares /\ OnLine(l, k, e)
    BY <1>2, <1>8 DEF Sees
  <2>2. e = t \/ t \in between_tbl[k][e]
    BY <1>5, <2>1
  <2> QED
    BY <1>1, <2>1, <2>2, StandsBetween
<1>9. ASSUME NEW l \in 1..4, NEW e \in Runs(b.bb, by, l), e \in Squares, Pins(l, k, e, f, All(b))
      PROVE  OnLine(l, f, t)
  <2>1. f \in PinnedTo(b, k)
    BY <1>1, <1>9, PinsAre DEF by
  <2>2. t \in line_bb[k][f]
    BY <2>1
  <2>3. OnLine(l, k, f)
    BY <1>9 DEF Pins
  <2>4. PICK i \in 1..4 : OnLine(i, k, f) /\ (t = k \/ (t \in Squares /\ OnLine(i, k, t)))
    BY <1>1, <2>2, LineThroughIs
  <2>5. i = l
    BY <1>1, <2>3, <2>4, OneLine
  <2>6. OnLine(l, k, t)
    BY <2>4, <2>5
  <2> QED
    BY <2>3, <2>6 DEF OnLine
<1> QED
  BY <1>7, <1>8, <1>9 DEF Guarded, by, f, t

\* Out of check, a man moves as it likes, along the line of its pin if it is pinned.
LEMMA LineGuards ==
  ASSUME NEW b, Ready(b), NEW k \in Squares, ~InCheck(b), k = KingSquare(b, b.side),
         NEW m, m.from \in Squares, m.to \in Squares, m.from # m.to, m.from \in b.occ[b.side],
         m.from \in PinnedTo(b, k) => on_line(m.from, m.to, k)
  PROVE  Guarded(b, k, m)
<1> DEFINE by == 1 - b.side
           t == m.to
           f == m.from
<1>1. ~Assails(b.bb, by, k, All(b))
  BY AttackedIs DEF InCheck
<1>2. ASSUME NEW l \in 1..4, NEW e \in Runs(b.bb, by, l), e \in Squares, Pins(l, k, e, f, All(b))
      PROVE  OnLine(l, f, t)
  <2>1. f \in PinnedTo(b, k)
    BY <1>2, PinsAre DEF by
  <2>2. on_line(f, t, k)
    BY <2>1
  <2>3. PICK i \in 1..4 : OnLine(i, f, t) /\ OnLine(i, f, k)
    BY <2>2, OnLineIs
  <2>4. OnLine(l, f, k)
    BY <1>2, SameLine DEF Pins
  <2>5. i = l
    BY <2>3, <2>4, OneLine
  <2> QED
    BY <2>3, <2>5
<1> QED
  BY <1>1, <1>2 DEF Guarded, Assails, Aims, by, f, t

\* What is seen past more men is seen past fewer.
LEMMA SeesMore ==
  ASSUME NEW l, NEW s, NEW e, NEW A, NEW B, Sees(l, s, e, B), \A u \in A : u = s \/ u \in B
  PROVE  Sees(l, s, e, A)
BY DEF Sees, Clear, OnLine

\* A square the map of the enemy leaves out is hit by nobody once the king is lifted.
LEMMA MapIs ==
  ASSUME NEW b, Ready(b), NEW k, NEW t \in Squares, t \notin enemy_map(b, k)
  PROVE  ~Assails(b.bb, 1 - b.side, t, Xor(All(b), {k}))
<1> DEFINE by == 1 - b.side
           occ == Xor(All(b), {k})
<1>1. b.side \in {white, black} /\ by \in {white, black} /\ 1 - by = b.side
  BY DEF Ready, white, black
<1>2. \A i \in 0..5 : b.bb[Piece(by, i)] \subseteq Squares
  <2> SUFFICES ASSUME NEW i \in 0..5 PROVE b.bb[Piece(by, i)] \subseteq Squares
    OBVIOUS
  <2>1. Piece(by, i) \in Pieces
    BY <1>1, PieceOf
  <2> QED
    BY <2>1 DEF Ready, Boards
<1>3. /\ t \notin pawn_set_attacks(by, b.bb[Piece(by, Pawn)])
      /\ \A i \in {Knight, Bishop, Rook, Queen, King} : \A s \in b.bb[Piece(by, i)] : t \notin Attacks(i, s, occ)
  <2> DEFINE P == pawn_set_attacks(by, b.bb[Piece(by, Pawn)])
             On(i) == UNION {Attacks(i, s, occ) : s \in b.bb[Piece(by, i)]}
  <2>1. enemy_map(b, k) = P \cup UNION {On(i) : i \in {Knight, Bishop, Rook, Queen, King}}
    BY DEF enemy_map, Theirs_
  <2>2. \A i : t \notin On(i) => \A s \in b.bb[Piece(by, i)] : t \notin Attacks(i, s, occ)
    OBVIOUS
  <2> HIDE DEF P, On
  <2>3. t \notin P /\ \A i \in {Knight, Bishop, Rook, Queen, King} : t \notin On(i)
    BY <2>1
  <2> QED
    BY <2>2, <2>3 DEF P
<1>4. ASSUME NEW s \in b.bb[Piece(by, Pawn)] PROVE s \notin pawn_attacks[b.side][t]
  <2>1. s \in Squares
    BY <1>2 DEF Pawn
  <2> SUFFICES ASSUME s \in pawn_attacks[b.side][t] PROVE FALSE
    OBVIOUS
  <2>2. t \in pawn_attacks[by][s]
    BY <1>1, <2>1, PawnsMeet DEF by
  <2>3. /\ s \in not_a_file <=> File(s) # 0
        /\ s \in not_h_file <=> File(s) # 7
    BY <2>1 DEF not_a_file, not_h_file
  <2> DEFINE P == b.bb[Piece(by, Pawn)]
             west == IF by = white THEN {<<-9, Squares>>} ELSE {<<7, Squares>>}
             east == IF by = white THEN {<<-7, Squares>>} ELSE {<<9, Squares>>}
  <2>4. pawn_set_attacks(by, P) = (UNION {Shifts(u, west) : u \in P \cap not_a_file}) \cup UNION {Shifts(u, east) : u \in P \cap not_h_file}
    BY DEF pawn_set_attacks
  <2>5. (s \in not_a_file => t \notin Shifts(s, west)) /\ (s \in not_h_file => t \notin Shifts(s, east))
    <3> HIDE DEF west, east
    <3> QED
      BY <1>3, <2>4
  <2>6. \A d \in Int : t = s + d => t \in Shifts(s, {<<d, Squares>>})
    <3> SUFFICES ASSUME NEW d \in Int, t = s + d PROVE t \in Shifts(s, {<<d, Squares>>})
      OBVIOUS
    <3> DEFINE e == <<d, Squares>>
    <3>1. e[1] = d /\ e[2] = Squares
      OBVIOUS
    <3> HIDE DEF e
    <3>2. s + e[1] \in e[2] /\ t = s + e[1]
      BY <3>1
    <3>3. t \in Shifts(s, {e})
      BY <3>2 DEF Shifts
    <3> QED
      BY <3>3 DEF e
  <2>7. CASE by = white
    <3>1. (t = s - 7 /\ File(t) # 0) \/ (t = s - 9 /\ File(t) # 7)
      BY <2>1, <2>2, <2>7, PawnAttacksAre
    <3>2. (s \in not_a_file => t # s + (-9)) /\ (s \in not_h_file => t # s + (-7))
      BY <2>5, <2>6, <2>7
    <3> DEFINE x == Row(s)
               y == File(s)
               z == Row(t)
               w == File(t)
    <3>3. x \in 0..7 /\ y \in 0..7 /\ z \in 0..7 /\ w \in 0..7 /\ s = 8 * x + y /\ t = 8 * z + w
      BY <2>1, Coordinates
    <3>4. (y # 0 => t # s + (-9)) /\ (y # 7 => t # s + (-7)) /\ ((t = s - 7 /\ w # 0) \/ (t = s - 9 /\ w # 7))
      BY <2>3, <3>1, <3>2
    <3> HIDE DEF x, y, z, w
    <3> QED
      BY <3>3, <3>4
  <2>8. CASE by = black
    <3>1. (t = s + 7 /\ File(t) # 7) \/ (t = s + 9 /\ File(t) # 0)
      BY <2>1, <2>2, <2>8, PawnAttacksAre
    <3>2. (s \in not_a_file => t # s + 7) /\ (s \in not_h_file => t # s + 9)
      BY <2>5, <2>6, <2>8 DEF white, black
    <3> DEFINE x == Row(s)
               y == File(s)
               z == Row(t)
               w == File(t)
    <3>3. x \in 0..7 /\ y \in 0..7 /\ z \in 0..7 /\ w \in 0..7 /\ s = 8 * x + y /\ t = 8 * z + w
      BY <2>1, Coordinates
    <3>4. (y # 0 => t # s + 7) /\ (y # 7 => t # s + 9) /\ ((t = s + 7 /\ w # 7) \/ (t = s + 9 /\ w # 0))
      BY <2>3, <3>1, <3>2
    <3> HIDE DEF x, y, z, w
    <3> QED
      BY <3>3, <3>4
  <2> QED
    BY <1>1, <2>7, <2>8
<1>5. ASSUME NEW s \in b.bb[Piece(by, Knight)] PROVE s \notin knight_attacks[t]
  <2>1. t \notin knight_attacks[s]
    <3>1. Attacks(Knight, s, occ) = knight_attacks[s]
      BY DEF Attacks, Knight, King
    <3> QED
      BY <1>3, <3>1
  <2>2. s \in Squares
    BY <1>2 DEF Knight
  <2> QED
    BY <2>1, <2>2, LeapersMeet
<1>6. ASSUME NEW s \in b.bb[Piece(by, King)] PROVE s \notin king_attacks[t]
  <2>1. t \notin king_attacks[s]
    <3>1. Attacks(King, s, occ) = king_attacks[s]
      BY DEF Attacks, Knight, King
    <3> QED
      BY <1>3, <3>1
  <2>2. s \in Squares
    BY <1>2 DEF King
  <2> QED
    BY <2>1, <2>2, LeapersMeet
<1>7. Leaps(b.bb, by, t) = {}
  <2> HIDE DEF by
  <2> QED
    BY <1>1, <1>4, <1>5, <1>6 DEF Leaps
<1>8. ASSUME NEW l \in 1..4, NEW e \in Runs(b.bb, by, l), Sees(l, t, e, occ)
      PROVE  FALSE
  <2>1. e \in Squares
    BY <1>8 DEF Sees
  <2>2. Sees(l, e, t, occ)
    BY <1>8, <2>1, SeenBack
  <2> DEFINE i == IF l \in {1, 3} THEN 1 ELSE 2
  <2>3. i \in {1, 2} /\ l \in {i, i + 2}
    OBVIOUS
  <2>4. t \in slider_pair(e, occ)[i]
    BY <2>1, <2>2, <2>3, SliderSees
  <2>5. /\ Attacks(Bishop, e, occ) = slider_pair(e, occ)[1] /\ Attacks(Rook, e, occ) = slider_pair(e, occ)[2]
        /\ Attacks(Queen, e, occ) = slider_pair(e, occ)[1] \cup slider_pair(e, occ)[2]
    BY DEF Attacks, SliderAttacks, Knight, Bishop, Rook, Queen, King
  <2>6. e \in b.bb[Piece(by, IF l \in {1, 3} THEN Bishop ELSE Rook)] \/ e \in b.bb[Piece(by, Queen)]
    BY <1>8 DEF Runs
  <2> HIDE DEF by, occ
  <2> QED
    BY <1>3, <2>4, <2>5, <2>6
<1> QED
  BY <1>7, <1>8 DEF Assails, Aims, by, occ

(***************************************************************************)
(* The king after its own move, and after castling.                        *)
(***************************************************************************)
\* No man of a side came nearer.
NoMore(bb, new, by, s, t) ==
  /\ \A u : u \in Leaps(new, by, s) => u \in Leaps(bb, by, s) /\ u # t
  /\ \A l, u : u \in Runs(new, by, l) => u \in Runs(bb, by, l) /\ u # t

\* Of the men left in place, none came nearer.
LEMMA StayKept ==
  ASSUME NEW bb, NEW new, NEW by \in {white, black}, NEW s, NEW t, LeftOf(bb, new, by, t)
  PROVE  NoMore(bb, new, by, s, t)
BY RunnersStay DEF NoMore

\* A king that goes to a square nobody hits once it is lifted is attacked by nobody there.
LEMMA KingIsSafe ==
  ASSUME NEW b, Ready(b), NEW m, m.piece = Piece(b.side, King), NEW v, NEW vs, PlainMove(b, m, v, vs), vs = m.to \/ vs = None,
         NEW new, Shifted(b.bb, new, m, vs), ~Assails(b.bb, 1 - b.side, m.to, Xor(All(b), {m.from}))
  PROVE  ~Assails(new, 1 - b.side, m.to, Full(new))
<1> DEFINE by == 1 - b.side
           f == m.from
           t == m.to
           occ == Xor(All(b), {f})
<1>1. by \in {white, black}
  BY DEF Ready, white, black
<1>2. /\ \A s \in Squares : s \in Full(new) <=> s = t \/ (s # f /\ s # vs /\ s \in Full(b.bb))
      /\ \A p \in Men(by) : \A s : s \in new[p] <=> s \in b.bb[p] /\ s # t /\ s # vs
  BY ShiftedAre
<1>3. All(b) = Full(b.bb)
  BY AllIsFull DEF Ready
<1>4. f \in Squares /\ t \in Squares /\ f # t /\ f \in All(b)
  BY <1>3 DEF PlainMove, Full, Free
<1>5. LeftOf(b.bb, new, by, t)
  BY <1>2 DEF LeftOf
<1> HIDE DEF by, t
<1>6. NoMore(b.bb, new, by, t, t)
  BY <1>1, <1>5, StayKept
<1>7. \A u \in occ : u = t \/ u \in Full(new)
  <2>1. All(b) \subseteq Squares
    BY <1>3 DEF Full
  <2>2. \A u \in occ : u \in All(b) /\ u # f
    BY <1>4 DEF Xor
  <2>3. \A u \in Squares : u = vs => u = t
    BY DEF None, Squares, t
  <2> QED
    BY <1>2, <1>3, <2>1, <2>2, <2>3 DEF t
<1>8. ~Assails(b.bb, by, t, occ)
  BY DEF by, t
<1> HIDE DEF occ, f
<1>9. \A l, e : Sees(l, t, e, Full(new)) => Sees(l, t, e, occ)
  BY <1>7, SeesMore
<1>10. ~Assails(new, by, t, Full(new))
  BY <1>6, <1>8, <1>9 DEF Assails, Aims, NoMore
<1> QED
  BY <1>10 DEF by, t

\* A corner ends every line through it.
LEMMA CornerEnds ==
  ASSUME NEW r \in {0, 7, 56, 63}, NEW l \in 1..4, NEW t \in Squares, NEW x \in Squares, OnLine(l, t, r), OnLine(l, t, x)
  PROVE  ~Inside(r, t, x)
<1> SUFFICES ASSUME Inside(r, t, x) PROVE FALSE
  OBVIOUS
<1> DEFINE a == Row(t)
           b == File(t)
           c == Row(x)
           d == File(x)
           e == Row(r)
           f == File(r)
<1>1. /\ a \in 0..7 /\ b \in 0..7 /\ c \in 0..7 /\ d \in 0..7 /\ e \in 0..7 /\ f \in 0..7
      /\ t = 8 * a + b /\ x = 8 * c + d /\ r = 8 * e + f
  BY Coordinates DEF Squares
<1>2. /\ LineOf(1, r) = e - f /\ LineOf(2, r) = f /\ LineOf(3, r) = e + f /\ LineOf(4, r) = e
      /\ LineOf(1, t) = a - b /\ LineOf(2, t) = b /\ LineOf(3, t) = a + b /\ LineOf(4, t) = a
      /\ LineOf(1, x) = c - d /\ LineOf(2, x) = d /\ LineOf(3, x) = c + d /\ LineOf(4, x) = c
  BY LineOfIs
<1>3. (t < r /\ r < x) \/ (x < r /\ r < t)
  BY DEF Inside
<1>4. LineOf(l, t) = LineOf(l, r) /\ LineOf(l, t) = LineOf(l, x)
  BY DEF OnLine
<1> HIDE DEF a, b, c, d, e, f
<1>5. e \in {0, 7} /\ f \in {0, 7}
  BY <1>1
<1>6. CASE l = 1
  BY <1>1, <1>2, <1>3, <1>4, <1>5, <1>6
<1>7. CASE l = 2
  BY <1>1, <1>2, <1>3, <1>4, <1>5, <1>7
<1>8. CASE l = 3
  BY <1>1, <1>2, <1>3, <1>4, <1>5, <1>8
<1>9. CASE l = 4
  BY <1>1, <1>2, <1>3, <1>4, <1>5, <1>9
<1> QED
  BY <1>6, <1>7, <1>8, <1>9

\* The king castles from the corner's side of the rank to a square that was not hit, with itself lifted or from a square
\* that was not hit either.
LEMMA CastledIsSafe ==
  ASSUME NEW b, Ready(b), NEW m, NEW r, BothMove(b, m, r), NEW new, Castled(b.bb, new, m, r), r.from \in {0, 7, 56, 63},
         \/ ~Assails(b.bb, 1 - b.side, m.to, Xor(All(b), {m.from}))
         \/ ~Assails(b.bb, 1 - b.side, m.to, All(b)) /\ ~Assails(b.bb, 1 - b.side, m.from, All(b))
  PROVE  ~Assails(new, 1 - b.side, m.to, Full(new))
<1> DEFINE by == 1 - b.side
           f == m.from
           t == m.to
           occ == Xor(All(b), {f})
<1>1. by \in {white, black} /\ b.side \in {white, black}
  BY DEF Ready, white, black
<1>2. All(b) = Full(b.bb)
  BY AllIsFull DEF Ready
<1>3. /\ f \in Squares /\ t \in Squares /\ r.from \in Squares /\ r.to \in Squares /\ f # r.from
      /\ m.piece \in Men(b.side) /\ r.piece \in Men(b.side) /\ m.piece \in Pieces /\ r.piece \in Pieces
      /\ \A p \in Pieces : f \in b.bb[p] <=> p = m.piece
      /\ \A p \in Pieces : r.from \in b.bb[p] <=> p = r.piece
  BY DEF BothMove
<1>4. /\ new \in Boards
      /\ \A p \in Pieces, s \in Squares :
           s \in new[p] <=> IF s = t THEN p = m.piece ELSE IF s = r.to THEN p = r.piece
                            ELSE s # f /\ s # r.from /\ s \in b.bb[p]
  BY DEF Castled
<1>5. \A s \in Squares : s \in Full(b.bb) /\ s # f /\ s # r.from => s \in Full(new)
  <2> SUFFICES ASSUME NEW s \in Squares, s \in Full(b.bb), s # f, s # r.from PROVE s \in Full(new)
    OBVIOUS
  <2>1. PICK p \in Pieces : s \in b.bb[p]
    BY DEF Full, Free
  <2>2. \E q \in Pieces : s \in new[q]
    BY <1>3, <1>4, <2>1
  <2> QED
    BY <2>2 DEF Full, Free
<1>6. LeftOf(b.bb, new, by, t)
  <2>1. \A p \in Men(by) : p \in Pieces /\ p # m.piece /\ p # r.piece
    BY <1>1, <1>3, MenIs
  <2>2. \A p \in Pieces : new[p] \subseteq Squares
    BY <1>4 DEF Boards
  <2> HIDE DEF by, t, f
  <2> QED
    BY <1>3, <1>4, <2>1, <2>2 DEF LeftOf
<1>7. f \in All(b)
  BY <1>2, <1>3 DEF Full, Free
<1> HIDE DEF by, t
<1>8. NoMore(b.bb, new, by, t, t)
  BY <1>1, <1>6, StayKept
<1>9. ASSUME NEW l \in 1..4, NEW x \in Squares, OnLine(l, t, x), OnLine(l, t, r.from) PROVE ~Inside(r.from, t, x)
  BY <1>3, <1>9, CornerEnds
<1>10. All(b) \subseteq Squares
  BY <1>2 DEF Full
<1>11. CASE ~Assails(b.bb, by, t, occ)
  <2>1. ASSUME NEW l \in 1..4, NEW x, Sees(l, t, x, Full(new)) PROVE Sees(l, t, x, occ)
    <3>1. x \in Squares /\ OnLine(l, t, x) /\ Clear(l, t, x, Full(new))
      BY <2>1 DEF Sees
    <3>2. \A u \in occ : u \in All(b) /\ u # f
      BY <1>7 DEF Xor
    <3>3. \A u \in occ : u = r.from \/ u \in Full(new)
      BY <1>2, <1>5, <1>10, <3>2
    <3>4. Clear(l, t, x, occ)
      BY <1>9, <3>1, <3>3 DEF Clear
    <3> QED
      BY <3>1, <3>4 DEF Sees
  <2> QED
    BY <1>8, <1>11, <2>1 DEF Assails, Aims, NoMore, by, t
<1>12. CASE ~Assails(b.bb, by, t, All(b)) /\ ~Assails(b.bb, by, f, All(b))
  <2>1. ASSUME NEW l \in 1..4, NEW x \in Runs(b.bb, by, l), Sees(l, t, x, Full(new)) PROVE FALSE
    <3>1. x \in Squares /\ OnLine(l, t, x) /\ Clear(l, t, x, Full(new))
      BY <2>1 DEF Sees
    <3>2. ~Sees(l, t, x, All(b)) /\ ~Sees(l, f, x, All(b))
      BY <1>12 DEF Assails, Aims
    <3>3. PICK u \in All(b) : u \in Squares /\ OnLine(l, t, u) /\ Inside(u, t, x)
      BY <3>1, <3>2 DEF Sees, Clear
    <3>4. u = f
      BY <1>2, <1>5, <1>9, <3>1, <3>3 DEF Clear
    <3>5. OnLine(l, f, x)
      <4>1. f # x
        BY <3>3, <3>4 DEF Inside, Squares
      <4> QED
        BY <3>1, <3>3, <3>4, <4>1 DEF OnLine
    <3>6. ASSUME NEW w \in All(b), w \in Squares, OnLine(l, f, w), Inside(w, f, x) PROVE FALSE
      <4>1. Inside(w, t, x) /\ w # t
        BY <1>3, <3>1, <3>3, <3>4, <3>6 DEF Inside, Squares
      <4>2. OnLine(l, t, w)
        BY <3>3, <3>4, <3>6, <4>1 DEF OnLine
      <4>3. w # f
        BY <3>6 DEF OnLine
      <4>4. w # r.from
        BY <1>9, <3>1, <4>1, <4>2
      <4>5. w \in Full(new)
        BY <1>2, <1>5, <3>6, <4>3, <4>4
      <4> QED
        BY <3>1, <3>6, <4>1, <4>2, <4>5 DEF Clear
    <3>7. Clear(l, f, x, All(b))
      BY <3>6 DEF Clear
    <3> QED
      BY <3>1, <3>2, <3>5, <3>7 DEF Sees
  <2> QED
    BY <1>8, <1>12, <2>1 DEF Assails, Aims, NoMore, by, t
<1> QED
  BY <1>11, <1>12 DEF by, t

(***************************************************************************)
(* Taking en passant.                                                      *)
(***************************************************************************)
\* The pawn that takes stands beside the pawn taken, which stands behind the square reached: on a rank, and on a file,
\* the one is between two men with the other.
LEMMA PassingLine ==
  ASSUME NEW c \in {white, black}, NEW f \in Squares, NEW t \in Squares, t \in pawn_attacks[c][f], NEW cap, cap = t - Up(c),
         NEW k \in Squares, NEW e \in Squares, Inside(cap, k, e)
  PROVE  /\ cap \in Squares /\ OnLine(4, f, cap) /\ Row(cap) = Row(f) /\ Row(f) # Row(t)
         /\ OnLine(4, k, e) /\ OnLine(4, k, cap) /\ f # k /\ f # e => OnLine(4, k, f) /\ Inside(f, k, e)
         /\ OnLine(2, k, e) /\ OnLine(2, k, cap) /\ t # k /\ t # e => OnLine(2, k, t) /\ Inside(t, k, e)
<1>1. /\ cap \in Squares /\ Row(cap) = Row(f) /\ File(cap) = File(t)
      /\ Apart(File(f), File(t), 1) /\ Apart(Row(f), Row(t), 1)
  BY PawnStep
<1> DEFINE rf == Row(f)
           ff == File(f)
           rt == Row(t)
           ft == File(t)
           rk == Row(k)
           fk == File(k)
           re == Row(e)
           fe == File(e)
<1>2. /\ rf \in 0..7 /\ ff \in 0..7 /\ rt \in 0..7 /\ ft \in 0..7 /\ rk \in 0..7 /\ fk \in 0..7 /\ re \in 0..7 /\ fe \in 0..7
      /\ f = 8 * rf + ff /\ t = 8 * rt + ft /\ k = 8 * rk + fk /\ e = 8 * re + fe /\ cap = 8 * rf + ft
  BY <1>1, Coordinates
<1>3. (ff - ft = 1 \/ ft - ff = 1) /\ (rf - rt = 1 \/ rt - rf = 1)
  BY <1>1 DEF Apart
<1>4. /\ \A x : LineOf(4, x) = Row(x) /\ LineOf(2, x) = File(x)
  BY LineOfIs
<1>5. Row(cap) = rf /\ File(cap) = ft
  BY <1>1
<1>6. (k < cap /\ cap < e) \/ (e < cap /\ cap < k)
  BY DEF Inside
<1>7. OnLine(4, f, cap) /\ rf # rt
  <2>1. f # cap /\ rf # rt
    <3> HIDE DEF rf, ff, rt, ft
    <3> QED
      BY <1>2, <1>3
  <2> QED
    BY <1>4, <1>5, <2>1 DEF OnLine
<1>8. ASSUME OnLine(4, k, e), OnLine(4, k, cap), f # k, f # e PROVE OnLine(4, k, f) /\ Inside(f, k, e)
  <2>1. rk = re /\ rk = rf
    BY <1>4, <1>5, <1>8 DEF OnLine
  <2>2. f # k /\ f # e
    BY <1>8
  <2>3. (k < f /\ f < e) \/ (e < f /\ f < k)
    <3> HIDE DEF rf, ff, rt, ft, rk, fk, re, fe
    <3> QED
      BY <1>2, <1>3, <1>6, <2>1, <2>2
  <2> QED
    BY <1>4, <2>1, <2>2, <2>3 DEF OnLine, Inside
<1>9. ASSUME OnLine(2, k, e), OnLine(2, k, cap), t # k, t # e PROVE OnLine(2, k, t) /\ Inside(t, k, e)
  <2>1. fk = fe /\ fk = ft
    BY <1>4, <1>5, <1>9 DEF OnLine
  <2>2. t # k /\ t # e
    BY <1>9
  <2>3. (k < t /\ t < e) \/ (e < t /\ t < k)
    <3> HIDE DEF rf, ff, rt, ft, rk, fk, re, fe
    <3>1. (rk < rf /\ rf < re) \/ (re < rf /\ rf < rk)
      BY <1>2, <1>6, <2>1
    <3>2. rt # rk /\ rt # re
      BY <1>2, <2>1, <2>2
    <3>3. (rk < rt /\ rt < re) \/ (re < rt /\ rt < rk)
      BY <1>2, <1>3, <3>1, <3>2
    <3> QED
      BY <1>2, <2>1, <3>3
  <2> QED
    BY <1>4, <2>1, <2>2, <2>3 DEF OnLine, Inside
<1> QED
  BY <1>1, <1>7, <1>8, <1>9

\* No slider looks at our king on a diagonal past the pawn that may be taken en passant alone: before its double push
\* our king was not attacked, and on the diagonals the push opened nothing this pawn closes.
EpSaneAt(b, k) ==
  b.ep # no_sq =>
    \A l \in {1, 3} : \A e \in Runs(b.bb, 1 - b.side, l) :
      Sees(l, k, e, All(b) \ {b.ep - Up(b.side)}) => Sees(l, k, e, All(b))

\* What keeps the king from attack when a pawn is taken en passant.
EpGuarded(b, k, m, cap) ==
  /\ \A u \in Leaps(b.bb, 1 - b.side, k) : u = cap
  /\ \A l \in 1..4 : \A e \in Runs(b.bb, 1 - b.side, l) : ~Sees(l, k, e, All(b))
  /\ \A l \in 1..4 : \A e \in Runs(b.bb, 1 - b.side, l) :
       e \in Squares /\ Pins(l, k, e, m.from, All(b)) => OnLine(l, m.from, m.to)
  /\ Row(k) = Row(cap) => \A e \in Runs(b.bb, 1 - b.side, 4) : ~Sees(4, k, e, All(b) \ {m.from, cap})

\* Where the men of a capture en passant are.
LEMMA PassingFacts ==
  ASSUME NEW b, Ready(b), NEW m, FitFrom(b, m), FitPlain(b, m), m.enpass
  PROVE  /\ m.to = b.ep /\ b.ep # no_sq /\ m.to \in pawn_attacks[b.side][m.from] /\ Free(b.bb, m.to)
         /\ m.from \in Squares /\ m.to \in Squares /\ b.side \in {white, black} /\ 1 - b.side \in {white, black}
         /\ m.piece = Piece(b.side, Pawn) /\ m.capture
         /\ m.to - Up(b.side) \in b.bb[Piece(1 - b.side, Pawn)] /\ m.to - Up(b.side) \in Squares
<1>1. b.side \in {white, black} /\ 1 - b.side \in {white, black}
  BY DEF Ready, white, black
<1>2. m.from \in Squares /\ m.to \in Squares
  BY DEF FitFrom, Moves
<1>3. m.capture /\ m.piece = Piece(b.side, Pawn) /\ Free(b.bb, m.to) /\ m.to - Up(b.side) \in b.bb[Piece(1 - b.side, Pawn)]
  BY DEF FitPlain
<1>4. m.to \in pawn_attacks[b.side][m.from] /\ m.to = b.ep
  BY <1>3 DEF FitPlain, PawnWay
<1>5. b.ep # no_sq
  BY <1>2, <1>4 DEF Squares, no_sq
<1>6. m.to - Up(b.side) \in Squares
  BY <1>1, <1>2, <1>4, PawnStep
<1> QED
  BY <1>1, <1>2, <1>3, <1>4, <1>5, <1>6

\* Taking en passant leaves the king attacked by nobody if it is guarded against that, the two pawns of its row
\* included, and the pawn taken does not alone keep a bishop or a queen off it.
LEMMA EpIsSafe ==
  ASSUME NEW b, Ready(b), NEW m, FitFrom(b, m), FitPlain(b, m), m.enpass, NEW cap, cap = m.to - Up(b.side),
         PlainMove(b, m, Piece(1 - b.side, Pawn), cap), NEW new, Shifted(b.bb, new, m, cap),
         NEW k \in b.bb[Piece(b.side, King)], EpGuarded(b, k, m, cap), EpSaneAt(b, k)
  PROVE  ~Assails(new, 1 - b.side, k, Full(new))
<1> DEFINE by == 1 - b.side
           f == m.from
           t == m.to
<1>1. /\ t = b.ep /\ b.ep # no_sq /\ t \in pawn_attacks[b.side][f] /\ Free(b.bb, t)
      /\ f \in Squares /\ t \in Squares /\ b.side \in {white, black} /\ by \in {white, black}
      /\ m.piece = Piece(b.side, Pawn) /\ cap \in b.bb[Piece(by, Pawn)] /\ cap \in Squares
  BY PassingFacts
<1>2. /\ \A s \in Squares : s \in Full(new) <=> s = t \/ (s # f /\ s # cap /\ s \in Full(b.bb))
      /\ \A p \in Men(by) : \A s : s \in new[p] <=> s \in b.bb[p] /\ s # t /\ s # cap
  BY ShiftedAre
<1>3. All(b) = Full(b.bb)
  BY AllIsFull DEF Ready
<1>4. All(b) \subseteq Squares
  BY <1>3 DEF Full
<1>5. k \in Squares /\ k \in All(b) /\ k # t /\ k # f
  <2>1. Piece(b.side, King) \in Pieces /\ Piece(b.side, Pawn) \in Pieces /\ Piece(b.side, King) # Piece(b.side, Pawn)
    BY <1>1, PieceOf DEF King, Pawn
  <2>2. k \in Squares
    BY <2>1 DEF Ready, Boards
  <2>3. k \in Full(b.bb)
    BY <2>1, <2>2 DEF Full, Free
  <2>4. k # t
    BY <1>1, <2>1 DEF Free
  <2>5. k # f
    BY <1>1, <2>1, <2>2 DEF PlainMove
  <2> QED
    BY <1>3, <2>2, <2>3, <2>4, <2>5
<1>6. t \notin All(b) /\ f \in All(b) /\ t # f
  <2>1. m.piece \in Pieces /\ f \in b.bb[m.piece] /\ f # t
    BY DEF PlainMove
  <2> QED
    BY <1>1, <1>3, <2>1 DEF Full, Free
<1>7. LeftOf(b.bb, new, by, cap)
  BY <1>2 DEF LeftOf
<1> HIDE DEF by, f, t
<1>8. NoMore(b.bb, new, by, k, cap)
  BY <1>1, <1>7, StayKept
<1>9. Leaps(new, by, k) = {}
  BY <1>8 DEF EpGuarded, NoMore, by
<1>10. ASSUME NEW l \in 1..4, NEW e \in Runs(new, by, l), Sees(l, k, e, Full(new))
       PROVE  FALSE
  <2>1. e \in Runs(b.bb, by, l) /\ e # cap /\ e \in Squares /\ OnLine(l, k, e) /\ Clear(l, k, e, Full(new))
    BY <1>8, <1>10 DEF Sees, NoMore
  <2>2. ~Sees(l, k, e, All(b))
    BY <2>1 DEF EpGuarded, by
  <2>3. e \in All(b) /\ e # t /\ e # f
    <3>1. \E p \in Men(by) : p \in Pieces /\ e \in b.bb[p]
      <4>1. \A i \in {Bishop, Rook, Queen} : Piece(by, i) \in Pieces /\ Piece(by, i) \in Men(by)
        BY <1>1, PieceOf DEF Bishop, Rook, Queen
      <4> QED
        BY <2>1, <4>1 DEF Runs
    <3>2. PICK p \in Men(by) : p \in Pieces /\ e \in b.bb[p]
      BY <3>1
    <3>3. e \in All(b)
      BY <1>3, <2>1, <3>2 DEF Full, Free
    <3>4. p # m.piece
      BY <1>1, <3>2, MenIs DEF PlainMove, by
    <3>5. e # f
      BY <3>2, <3>4 DEF PlainMove, f
    <3> QED
      BY <1>6, <3>3, <3>5
  <2>4. ~(OnLine(l, k, t) /\ Inside(t, k, e))
    <3>1. t \in Full(new)
      BY <1>1, <1>2
    <3> QED
      BY <1>1, <2>1, <3>1 DEF Clear
  <2>5. \A u \in All(b) : u = f \/ u = cap \/ u \in Full(new)
    BY <1>2, <1>3, <1>4
  <2>6. Inside(cap, k, e) => /\ OnLine(4, f, cap)
                             /\ OnLine(4, k, e) /\ OnLine(4, k, cap) /\ f # k /\ f # e => OnLine(4, k, f) /\ Inside(f, k, e)
                             /\ OnLine(2, k, e) /\ OnLine(2, k, cap) /\ t # k /\ t # e => OnLine(2, k, t) /\ Inside(t, k, e)
    <3> SUFFICES ASSUME Inside(cap, k, e)
                 PROVE  /\ OnLine(4, f, cap)
                        /\ OnLine(4, k, e) /\ OnLine(4, k, cap) /\ f # k /\ f # e => OnLine(4, k, f) /\ Inside(f, k, e)
                        /\ OnLine(2, k, e) /\ OnLine(2, k, cap) /\ t # k /\ t # e => OnLine(2, k, t) /\ Inside(t, k, e)
      OBVIOUS
    <3>1. cap = t - Up(b.side)
      BY DEF t
    <3> QED
      BY <1>1, <1>5, <2>1, <3>1, PassingLine
  <2>7. CASE ~(OnLine(l, k, cap) /\ Inside(cap, k, e))
    <3>1. Sees(l, k, e, All(b) \ {f})
      BY <2>1, <2>5, <2>7 DEF Sees, Clear
    <3>2. Pins(l, k, e, f, All(b))
      <4>1. \A u \in All(b) : u = f \/ u \in All(b) \ {f}
        OBVIOUS
      <4> QED
        BY <1>5, <2>1, <2>2, <3>1, <4>1, Uncovers
    <3>3. OnLine(l, f, t)
      BY <2>1, <3>2 DEF EpGuarded, by, f, t
    <3>4. Clear(l, f, t, All(b))
      <4>1. KingStep(f, t)
        BY <1>1, PawnStep
      <4> QED
        BY <1>1, <3>3, <4>1, NothingBetween
    <3> QED
      BY <1>1, <1>5, <2>1, <2>3, <2>4, <3>2, <3>3, <3>4, StaysBetween
  <2>8. CASE /\ OnLine(l, k, cap) /\ Inside(cap, k, e)
             /\ ~(OnLine(l, k, f) /\ Inside(f, k, e))
    <3>1. Sees(l, k, e, All(b) \ {cap})
      BY <2>1, <2>5, <2>8 DEF Sees, Clear
    <3>2. CASE l \in {1, 3}
      <4>1. cap = b.ep - Up(b.side)
        BY <1>1 DEF t
      <4> QED
        BY <1>1, <2>1, <2>2, <3>1, <3>2, <4>1 DEF EpSaneAt, by
    <3>3. CASE l = 2
      BY <1>5, <2>1, <2>3, <2>4, <2>6, <2>8, <3>3
    <3>4. CASE l = 4
      BY <1>5, <2>1, <2>3, <2>6, <2>8, <3>4
    <3> QED
      BY <3>2, <3>3, <3>4
  <2>9. CASE /\ OnLine(l, k, cap) /\ Inside(cap, k, e)
             /\ OnLine(l, k, f) /\ Inside(f, k, e)
    <3>1. OnLine(l, f, cap) /\ OnLine(4, f, cap)
      BY <2>6, <2>9 DEF OnLine
    <3>2. l = 4
      BY <1>1, <3>1, OneLine
    <3>3. Row(k) = Row(cap)
      BY <2>9, <3>2, LineOfIs DEF OnLine
    <3>4. Sees(4, k, e, All(b) \ {f, cap})
      BY <2>1, <2>5, <3>2 DEF Sees, Clear
    <3> QED
      BY <2>1, <3>2, <3>3, <3>4 DEF EpGuarded, by, f
  <2> QED
    BY <2>7, <2>8, <2>9
<1>11. ~Aims(new, by, k, Full(new))
  BY <1>10 DEF Aims
<1> QED
  BY <1>9, <1>11 DEF Assails, by

\* The listed captures en passant guard the king.
LEMMA ListedPassing ==
  ASSUME NEW b, Ready(b), NEW k \in b.bb[Piece(b.side, King)], king_attacks[k] \cap b.bb[Piece(1 - b.side, King)] = {},
         NEW m, FitFrom(b, m), FitPlain(b, m), m.enpass, m.from \in ep_ok(b, InfoFor(b, k))
  PROVE  EpGuarded(b, k, m, m.to - Up(b.side))
<1> DEFINE by == 1 - b.side
           f == m.from
           t == m.to
           cap == m.to - Up(b.side)
           checkers == Checkers(b, k)
<1>1. /\ t = b.ep /\ b.ep # no_sq /\ t \in pawn_attacks[b.side][f] /\ Free(b.bb, t)
      /\ f \in Squares /\ t \in Squares /\ b.side \in {white, black} /\ by \in {white, black}
      /\ m.piece = Piece(b.side, Pawn) /\ cap \in b.bb[Piece(by, Pawn)] /\ cap \in Squares
  BY PassingFacts
<1>2. InfoFor(b, k).king = k /\ InfoFor(b, k).checkers = checkers /\ InfoFor(b, k).pinned = PinnedTo(b, k)
  BY DEF InfoFor, MoveInfo
<1>3. k \in Squares
  <2>1. Piece(b.side, King) \in Pieces
    BY <1>1, PieceOf DEF King
  <2> QED
    BY <2>1 DEF Ready, Boards
<1>4. /\ \A u : u \in Leaps(b.bb, by, k) => u \in checkers
      /\ \A l \in 1..4 : \A e : e \in Runs(b.bb, by, l) /\ Sees(l, k, e, All(b)) => e \in checkers
  BY <1>1, <1>3, AttackersCheck
<1>5. f \in b.occ[b.side]
  <2>1. f \in b.bb[m.piece] /\ m.piece \in Men(b.side)
    BY DEF FitFrom
  <2> QED
    BY <2>1, ReadyOccupied
<1>6. ASSUME NEW l \in 1..4, NEW e \in Runs(b.bb, by, l), e \in Squares, Pins(l, k, e, f, All(b)) PROVE f \in PinnedTo(b, k)
  BY <1>1, <1>3, <1>5, <1>6, PinsAre
<1>7. cap \notin Runs(b.bb, by, 1) \cup Runs(b.bb, by, 2)
  <2> SUFFICES ASSUME cap \in Runs(b.bb, by, 1) \cup Runs(b.bb, by, 2) PROVE FALSE
    OBVIOUS
  <2>1. PICK i \in {Bishop, Rook, Queen} : cap \in b.bb[Piece(by, i)]
    BY DEF Runs
  <2>2. i \in 0..5 /\ Pawn \in 0..5 /\ i # Pawn
    BY DEF Pawn, Bishop, Rook, Queen
  <2>3. Piece(by, i) \in Pieces /\ Piece(by, Pawn) \in Pieces /\ Piece(by, i) # Piece(by, Pawn)
    BY <1>1, <2>2, PieceOf
  <2> QED
    BY <1>1, <2>1, <2>3 DEF Ready, Disjoint
<1>8. \A l \in 1..4 : cap \notin Runs(b.bb, by, l)
  BY <1>7, RunsAre
<1> DEFINE takers == pawn_attacks[1 - b.side][b.ep] \cap Us(b, Pawn)
<1>9. f \in (IF checkers = {}
             THEN {s \in takers \ PinnedTo(b, k) : ~OpensRank(b, k, s, cap)} \cup (takers \cap PinnedTo(b, k) \cap line_bb[b.ep][k])
             ELSE IF checkers = {cap} /\ cap \in Theirs_(b, Pawn) THEN takers \ PinnedTo(b, k) ELSE {})
  <2>1. cap = b.ep - Up(b.side)
    BY <1>1
  <2>2. f \in ep_ok(b, InfoFor(b, k))
    OBVIOUS
  <2> HIDE DEF cap, checkers, f
  <2> QED
    BY <1>1, <1>2, <2>1, <2>2 DEF ep_ok
<1> HIDE DEF takers, checkers
<1>10. ASSUME NEW e \in Runs(b.bb, by, 4), Row(k) = Row(cap), Sees(4, k, e, All(b) \ {f, cap}), ~OpensRank(b, k, f, cap)
       PROVE  FALSE
  <2> DEFINE occ == Xor(All(b), {f, cap})
  <2>1. f \in All(b) /\ cap \in All(b)
    <3>1. cap \in b.occ[by]
      <4>1. Piece(by, Pawn) \in Men(by)
        BY <1>1, PieceOf DEF Pawn
      <4> QED
        BY <1>1, <4>1, ReadyOccupied
    <3> QED
      BY <1>5, <3>1, AllOccupied DEF All
  <2>2. \A u : u \in occ <=> u \in All(b) \ {f, cap}
    BY <2>1, XorIn
  <2>3. Sees(4, k, e, occ)
    BY <1>10, <2>2 DEF Sees, Clear
  <2>4. e \in Squares /\ Row(e) = Row(k)
    BY <1>10, LineOfIs DEF Sees, OnLine
  <2> HIDE DEF occ
  <2>5. e \in slider_pair(k, occ)[2]
    BY <1>3, <2>3, SliderSees
  <2>6. e \in get_rook_attacks(k, occ)
    BY <2>5 DEF slider_pair, get_rook_attacks
  <2>7. e \in Straights(b)
    BY <1>10, RunsAre DEF Straights, Theirs_, by
  <2> QED
    BY <1>10, <2>4, <2>6, <2>7 DEF OpensRank, occ
<1>11. CASE checkers = {} /\ f \in takers \ PinnedTo(b, k) /\ ~OpensRank(b, k, f, cap)
  BY <1>4, <1>6, <1>10, <1>11 DEF EpGuarded
<1>12. CASE checkers = {} /\ f \in PinnedTo(b, k) /\ f \in line_bb[b.ep][k]
  <2>1. PICK i \in 1..4 : OnLine(i, t, k) /\ (f = t \/ (f \in Squares /\ OnLine(i, t, f)))
    BY <1>1, <1>3, <1>12, LineThroughIs
  <2>2. f # t /\ Row(f) # Row(t) /\ Row(f) = Row(cap)
    <3> HIDE DEF f, t, cap
    <3>1. Apart(Row(f), Row(t), 1) /\ Row(cap) = Row(f)
      BY <1>1, PawnStep DEF f, t, cap
    <3>2. Row(f) \in 0..7 /\ Row(t) \in 0..7
      BY <1>1, Coordinates
    <3>3. Row(f) # Row(t)
      BY <3>1, <3>2 DEF Apart
    <3> QED
      BY <3>1, <3>3
  <2>3. OnLine(i, t, f) /\ OnLine(i, f, t) /\ (k # f => OnLine(i, k, f))
    BY <2>1, <2>2 DEF OnLine
  <2>4. ASSUME NEW l \in 1..4, OnLine(l, k, f) PROVE l = i
    <3>1. k # f
      BY <2>4 DEF OnLine
    <3> QED
      BY <1>1, <1>3, <2>3, <2>4, <3>1, OneLine
  <2>5. ASSUME NEW l \in 1..4, NEW e \in Runs(b.bb, by, l), Pins(l, k, e, f, All(b)) PROVE OnLine(l, f, t)
    BY <2>3, <2>4, <2>5 DEF Pins
  <2>6. Row(k) # Row(cap)
    <3> SUFFICES ASSUME Row(k) = Row(cap) PROVE FALSE
      OBVIOUS
    <3>1. k # f
      <4>1. m.piece # Piece(b.side, King) /\ m.piece \in Pieces /\ Piece(b.side, King) \in Pieces
        BY <1>1, PieceOf DEF King, Pawn
      <4>2. f \in b.bb[m.piece]
        BY DEF FitFrom
      <4> QED
        BY <1>1, <4>1, <4>2 DEF Ready, Disjoint
    <3>2. OnLine(4, k, f)
      BY <2>2, <3>1, LineOfIs DEF OnLine
    <3>3. i = 4
      BY <2>4, <3>2
    <3> QED
      BY <2>2, <2>3, <3>3, LineOfIs DEF OnLine
  <2> QED
    BY <1>4, <1>12, <2>5, <2>6 DEF EpGuarded
<1>13. CASE checkers = {cap} /\ f \notin PinnedTo(b, k)
  <2>1. \A l \in 1..4 : \A e \in Runs(b.bb, by, l) : ~Sees(l, k, e, All(b))
    BY <1>4, <1>8, <1>13
  <2>2. cap \in pawn_attacks[b.side][k]
    <3>1. cap \in Checkers(b, k)
      BY <1>13 DEF checkers
    <3>2. cap \notin b.bb[Piece(by, Knight)]
      <4>1. Piece(by, Knight) \in Pieces /\ Piece(by, Pawn) \in Pieces /\ Piece(by, Knight) # Piece(by, Pawn)
        BY <1>1, PieceOf DEF Knight, Pawn
      <4> QED
        BY <1>1, <4>1 DEF Ready, Disjoint
    <3> QED
      BY <1>3, <1>8, <3>1, <3>2, CheckersAre
  <2>3. Row(k) # Row(cap)
    <3>1. Apart(Row(k), Row(cap), 1)
      BY <1>1, <1>3, <2>2, PawnStep
    <3> HIDE DEF cap
    <3>2. Row(k) \in 0..7 /\ Row(cap) \in 0..7
      BY <1>1, <1>3, Coordinates
    <3> QED
      BY <3>1, <3>2 DEF Apart
  <2> QED
    BY <1>4, <1>6, <1>13, <2>1, <2>3 DEF EpGuarded
<1> QED
  BY <1>9, <1>11, <1>12, <1>13

\* Out of check, the test of the sliders with the pawns taken off guards the king.
LEMMA TestedPassing ==
  ASSUME NEW b, Ready(b), NEW m, FitFrom(b, m), FitPlain(b, m), m.enpass, ~m.castling, NEW cap, cap = m.to - Up(b.side),
         PlainMove(b, m, Piece(1 - b.side, Pawn), cap), NEW new, Shifted(b.bb, new, m, cap),
         NEW k \in Squares, k = KingSquare(b, b.side), ~InCheck(b), legal_before(b, m)
  PROVE  ~Assails(new, 1 - b.side, k, Full(new))
<1> DEFINE by == 1 - b.side
           f == m.from
           t == m.to
           passed == Xor(All(b), {m.from, m.to - Up(b.side)}) \cup {m.to}
<1>1. /\ f \in Squares /\ t \in Squares /\ by \in {white, black}
      /\ m.piece = Piece(b.side, Pawn) /\ cap \in b.bb[Piece(by, Pawn)] /\ cap \in Squares
  BY PassingFacts
<1>2. /\ \A s \in Squares : s \in Full(new) <=> s = t \/ (s # f /\ s # cap /\ s \in Full(b.bb))
      /\ \A p \in Men(by) : \A s : s \in new[p] <=> s \in b.bb[p] /\ s # t /\ s # cap
  BY ShiftedAre
<1>3. All(b) = Full(b.bb)
  BY AllIsFull DEF Ready
<1>4. ~Assails(b.bb, by, k, All(b))
  BY AttackedIs DEF InCheck
<1>5. passed = Full(new)
  <2>1. f \in Full(b.bb) /\ cap \in Full(b.bb)
    <3>1. m.piece \in Pieces /\ f \in b.bb[m.piece] /\ Piece(by, Pawn) \in Pieces
      BY <1>1, PieceOf DEF PlainMove, Pawn
    <3> QED
      BY <1>1, <3>1 DEF Full, Free
  <2>2. Full(b.bb) \subseteq Squares /\ Full(new) \subseteq Squares
    BY DEF Full
  <2>3. \A s : s \in passed <=> s = t \/ (s # f /\ s # cap /\ s \in Full(b.bb))
    BY <1>3, <2>1, XorIn
  <2>4. \A s : s \in Full(new) <=> s = t \/ (s # f /\ s # cap /\ s \in Full(b.bb))
    BY <1>1, <1>2, <2>2
  <2> HIDE DEF passed, t, f
  <2> QED
    BY <2>3, <2>4
<1>6. /\ get_rook_attacks(k, passed) \cap Straights(b) = {}
      /\ get_bishop_attacks(k, passed) \cap Diagonals(b) = {}
  BY DEF legal_before
<1>7. LeftOf(b.bb, new, by, cap)
  BY <1>2 DEF LeftOf
<1> HIDE DEF by, passed
<1>8. NoMore(b.bb, new, by, k, cap)
  BY <1>1, <1>7, StayKept
<1>9. ~Aims(b.bb, by, k, passed)
  <2>1. slider_pair(k, passed)[1] = get_bishop_attacks(k, passed) /\ slider_pair(k, passed)[2] = get_rook_attacks(k, passed)
    BY DEF slider_pair, get_bishop_attacks, get_rook_attacks
  <2>2. /\ Diagonals(b) = b.bb[Piece(by, Bishop)] \cup b.bb[Piece(by, Queen)]
        /\ Straights(b) = b.bb[Piece(by, Rook)] \cup b.bb[Piece(by, Queen)]
    BY DEF Diagonals, Straights, Theirs_, by
  <2> QED
    BY <1>6, <2>1, <2>2, AimsIs
<1> QED
  BY <1>4, <1>5, <1>8, <1>9 DEF Assails, Aims, NoMore, by

(***************************************************************************)
(* The men after a move that fits.                                         *)
(***************************************************************************)
Turns(b, m, new) ==
  \/ FitPlain(b, m) /\ \E v, vs : Taking(b, m, v, vs) /\ Shifted(b.bb, new, m, vs)
  \/ FitCastling(b, m) /\ Castled(b.bb, new, m, CastleRook(m))

\* No move goes to the king of the side that has moved: it would have been attacked.
LEMMA KingIsSpared ==
  ASSUME NEW b, Ready(b), IsLegal(b), NEW m, FitFrom(b, m), FitPlain(b, m), Goes(b, m)
  PROVE  m.to \notin b.bb[Piece(1 - b.side, King)]
<1> DEFINE c == b.side
           f == m.from
           t == m.to
<1>1. c \in {white, black} /\ 1 - c \in {white, black} /\ 1 - (1 - c) = c
  BY DEF Ready, white, black
<1>2. /\ f \in Squares /\ t \in Squares /\ m.piece \in Men(c) /\ f \in b.bb[m.piece] /\ ~m.castling
  BY DEF FitFrom, Moves, FitPlain
<1>3. SUFFICES ASSUME t \in b.bb[Piece(1 - c, King)] PROVE FALSE
  OBVIOUS
<1>4. ~Assails(b.bb, c, t, All(b))
  BY <1>1, <1>3, LegalIs DEF Ready
<1>5. ~Free(b.bb, t)
  <2>1. Piece(1 - c, King) \in Pieces
    BY <1>1, PieceOf DEF King
  <2> QED
    BY <1>3, <2>1 DEF Free
<1>6. PICK i \in 0..5 : m.piece = Piece(c, i)
  BY <1>2 DEF Men
<1>7. Type(m.piece) = i
  BY <1>1, <1>6, PieceOf
<1>8. CASE i = Pawn
  <2>1. m.piece = Piece(c, Pawn) /\ m.capture /\ PawnWay(b, m)
    BY <1>5, <1>6, <1>8 DEF FitPlain
  <2>2. t \in pawn_attacks[c][f]
    BY <2>1 DEF PawnWay
  <2>3. f \in pawn_attacks[1 - c][t]
    BY <1>1, <1>2, <2>2, PawnsMeet
  <2>4. f \in Leaps(b.bb, c, t)
    BY <1>2, <2>1, <2>3 DEF Leaps
  <2> QED
    BY <1>4, <2>4 DEF Assails
<1>9. CASE i # Pawn
  <2>1. t \in Attacks(i, f, All(b))
    BY <1>2, <1>7, <1>9 DEF Goes
  <2>2. CASE i = Knight
    <3>1. f \in knight_attacks[t]
      <4>1. Attacks(Knight, f, All(b)) = knight_attacks[f]
        BY DEF Attacks, Knight, King
      <4> QED
        BY <1>2, <2>1, <2>2, <4>1, LeapersMeet
    <3>2. f \in Leaps(b.bb, c, t)
      BY <1>2, <1>6, <2>2, <3>1 DEF Leaps
    <3> QED
      BY <1>4, <3>2 DEF Assails
  <2>3. CASE i = King
    <3>1. f \in king_attacks[t]
      BY <1>2, <2>1, <2>3, LeapersMeet DEF Attacks, Knight, King
    <3>2. f \in Leaps(b.bb, c, t)
      BY <1>2, <1>6, <2>3, <3>1 DEF Leaps
    <3> QED
      BY <1>4, <3>2 DEF Assails
  <2>4. CASE i # Knight /\ i # King
    <3>1. i \in {Bishop, Rook, Queen}
      BY <1>9, <2>4 DEF Pawn, Knight, Bishop, Rook, Queen, King
    <3>2. /\ i = Bishop => t \in slider_pair(f, All(b))[1]
          /\ i = Rook => t \in slider_pair(f, All(b))[2]
          /\ i = Queen => t \in slider_pair(f, All(b))[1] \/ t \in slider_pair(f, All(b))[2]
      BY <2>1, <2>4, <3>1 DEF Attacks, SliderAttacks, Knight, Bishop, Rook, Queen, King
    <3>3. PICK j \in {1, 2} : t \in slider_pair(f, All(b))[j] /\ (i = Bishop => j = 1) /\ (i = Rook => j = 2)
      BY <3>1, <3>2 DEF Bishop, Rook, Queen
    <3>4. PICK l \in {j, j + 2} : Sees(l, f, t, All(b))
      BY <1>2, <3>3, SliderSees
    <3>5. l \in 1..4 /\ Sees(l, t, f, All(b))
      BY <1>2, <3>4, SeenBack
    <3>6. f \in Runs(b.bb, c, l)
      BY <1>2, <1>6, <3>1, <3>3 DEF Runs
    <3> QED
      BY <1>4, <3>5, <3>6 DEF Assails, Aims
  <2> QED
    BY <2>2, <2>3, <2>4
<1> QED
  BY <1>8, <1>9

\* There is still one king of either side, and no more men.
OneKingEach(bb) == \A c \in {white, black} : Cardinality(bb[Piece(c, King)]) = 1

\* A move that takes, steps or jumps leaves one king each and adds no man.
LEMMA PlainMenStay ==
  ASSUME NEW b, Ready(b), IsLegal(b), NEW m, FitFrom(b, m), FitPlain(b, m), Goes(b, m), NEW v, NEW vs, Taking(b, m, v, vs),
         NEW new, Shifted(b.bb, new, m, vs)
  PROVE  OneKingEach(new) /\ Cardinality(Full(new)) <= 32
<1> DEFINE c == b.side
           f == m.from
           t == m.to
           K == Piece(b.side, King)
           O == Piece(1 - b.side, King)
<1>1. /\ c \in {white, black} /\ 1 - c \in {white, black} /\ \A x \in {white, black} : x = c \/ x = 1 - c
      /\ b.bb \in Boards /\ Disjoint(b.bb)
  BY DEF Ready, white, black
<1>2. PlainMove(b, m, v, vs)
  BY <1>1, PlainFacts
<1>3. /\ \A s \in Squares : s \in Full(new) <=> s = t \/ (s # f /\ s # vs /\ s \in Full(b.bb))
      /\ \A p \in Men(1 - c) : \A s : s \in new[p] <=> s \in b.bb[p] /\ s # t /\ s # vs
      /\ new \in Boards
  BY <1>2, ShiftedAre
<1>4. /\ K \in Pieces /\ O \in Pieces /\ K \in Men(c) /\ O \in Men(1 - c) /\ K \notin Men(1 - c)
      /\ Piece(1 - c, Pawn) \in Pieces /\ O # Piece(1 - c, Pawn) /\ K # Piece(c, Pawn) /\ K \notin Promoted(c)
      /\ K # 0 \/ c = white
  <2>1. Piece(1 - c, Pawn) # O /\ Piece(c, Pawn) # K /\ Piece(1 - c, Pawn) \in Pieces
    BY <1>1, PieceOf DEF King, Pawn
  <2>2. K \notin Promoted(c)
    BY <1>1, PieceOf DEF Promoted, King, Queen, Rook, Bishop, Knight
  <2>3. K # 0
    BY <1>1 DEF Piece, King, white, black
  <2> QED
    BY <1>1, <2>1, <2>2, <2>3, PieceOf, MenIs DEF King
<1>5. f \in Squares /\ t \in Squares /\ f # t /\ f \in b.bb[m.piece] /\ m.piece \in Pieces
  BY <1>2 DEF PlainMove
<1>6. new[O] = b.bb[O]
  <2>1. t \notin b.bb[O]
    BY KingIsSpared
  <2>2. vs \notin b.bb[O]
    <3>1. O \in Pieces /\ b.bb[O] \subseteq Squares
      BY <1>1, <1>4 DEF Boards
    <3>2. CASE v = None
      BY <1>2, <3>1, <3>2 DEF PlainMove, None, Squares
    <3>3. CASE v # None /\ vs # t
      BY <1>2, <1>4, <3>3 DEF PlainMove
    <3> QED
      BY <2>1, <3>2, <3>3
  <2> HIDE DEF O, t
  <2> QED
    BY <1>3, <1>4, <2>1, <2>2
<1>7. b.bb[K] \subseteq Squares /\ new[K] \subseteq Squares /\ Full(b.bb) \subseteq Squares /\ Full(new) \subseteq Squares
  BY <1>1, <1>3, <1>4 DEF Boards, Full
<1>8. \A s \in Squares : s \in new[K] <=> IF s = t THEN K = Landed(m) ELSE s # f /\ s # vs /\ s \in b.bb[K]
  BY <1>4 DEF Shifted
<1>9. Cardinality(b.bb[K]) = 1 /\ Cardinality(b.bb[O]) = 1 /\ Cardinality(Full(b.bb)) <= 32
  <2>1. All(b) = Full(b.bb)
    BY AllIsFull DEF Ready
  <2> QED
    BY <1>1, <2>1 DEF IsLegal
<1>10. vs \notin b.bb[K]
  <2>1. CASE v = None
    BY <1>2, <1>7, <2>1 DEF PlainMove, None, Squares
  <2>2. CASE v # None
    BY <1>2, <1>4, <2>2, MenIs DEF PlainMove
  <2> QED
    BY <2>1, <2>2
<1>11. t \notin b.bb[K]
  BY <1>4 DEF FitPlain
<1>12. Cardinality(new[K]) = 1
  <2>1. CASE m.piece = K
    <3>1. Landed(m) = K
      BY <1>4, <2>1 DEF Landed, FitPlain
    <3>2. \A s \in b.bb[K] : s = f
      BY <1>1, <1>5, <1>9, <2>1, KingsAre
    <3>3. new[K] = {t}
      BY <1>5, <1>7, <1>8, <3>1, <3>2
    <3> QED
      BY <3>3, FS_Singleton
  <2>2. CASE m.piece # K
    <3>1. Landed(m) # K
      BY <1>4, <2>2 DEF Landed, FitPlain
    <3>2. f \notin b.bb[K]
      BY <1>2, <1>4, <2>2 DEF PlainMove
    <3>3. \A s : s \in new[K] <=> s \in b.bb[K]
      BY <1>7, <1>8, <1>10, <1>11, <3>1, <3>2
    <3>4. new[K] = b.bb[K]
      <4> HIDE DEF K
      <4> QED
        BY <3>3
    <3> QED
      BY <1>9, <3>4
  <2> QED
    BY <2>1, <2>2
<1>13. OneKingEach(new)
  BY <1>1, <1>6, <1>9, <1>12 DEF OneKingEach
<1>14. Cardinality(Full(new)) <= 32
  <2> DEFINE A == Full(b.bb)
             B == A \ {f}
             C == B \cup {t}
  <2>1. f \in A /\ Full(new) \subseteq C
    <3>1. f \in A
      BY <1>5 DEF Full, Free
    <3> QED
      BY <1>3, <1>7, <3>1
  <2>2. IsFiniteSet(A)
    <3>1. 0 \in Int /\ 63 \in Int
      OBVIOUS
    <3>2. IsFiniteSet(Squares)
      BY <3>1, FS_Interval DEF Squares
    <3> HIDE DEF A
    <3> QED
      BY <1>7, <3>2, FS_Subset DEF A
  <2> HIDE DEF A, f, t
  <2>3. IsFiniteSet(B) /\ Cardinality(B) = Cardinality(A) - 1
    BY <2>1, <2>2, FS_RemoveElement
  <2> HIDE DEF B
  <2>4. IsFiniteSet(C) /\ Cardinality(C) = (IF t \in B THEN Cardinality(B) ELSE Cardinality(B) + 1)
    BY <2>3, FS_AddElement
  <2> HIDE DEF C
  <2>5. Cardinality(Full(new)) <= Cardinality(C)
    BY <2>1, <2>4, FS_Subset
  <2>6. Cardinality(Full(new)) \in Nat /\ Cardinality(A) \in Nat /\ Cardinality(A) <= 32
    <3>1. IsFiniteSet(Full(new))
      BY <2>1, <2>4, FS_Subset
    <3> QED
      BY <1>9, <2>2, <3>1, FS_CardinalityType DEF A
  <2> QED
    BY <2>3, <2>4, <2>5, <2>6
<1> QED
  BY <1>13, <1>14

\* So does castling.
LEMMA CastlingMenStay ==
  ASSUME NEW b, Ready(b), IsLegal(b), NEW m, FitFrom(b, m), FitCastling(b, m),
         NEW new, Castled(b.bb, new, m, CastleRook(m))
  PROVE  OneKingEach(new) /\ Cardinality(Full(new)) <= 32
<1> DEFINE c == b.side
           f == m.from
           t == m.to
           r == CastleRook(m)
           K == Piece(b.side, King)
           O == Piece(1 - b.side, King)
<1>1. /\ c \in {white, black} /\ 1 - c \in {white, black} /\ \A x \in {white, black} : x = c \/ x = 1 - c
      /\ b.bb \in Boards /\ Disjoint(b.bb)
  BY DEF Ready, white, black
<1>2. BothMove(b, m, r)
  BY <1>1, CastlingFacts
<1>3. m.piece = K
  BY DEF FitCastling
<1>4. /\ f \in Squares /\ t \in Squares /\ r.from \in Squares /\ r.to \in Squares /\ f # r.from /\ t # r.to
      /\ m.piece \in Men(c) /\ r.piece \in Men(c) /\ m.piece \in Pieces /\ r.piece \in Pieces /\ m.piece # r.piece
      /\ \A p \in Pieces : f \in b.bb[p] <=> p = m.piece
      /\ \A p \in Pieces : r.from \in b.bb[p] <=> p = r.piece
      /\ \A s \in {t, r.to} : s # f /\ s # r.from => Free(b.bb, s)
  BY <1>2 DEF BothMove
<1> HIDE DEF r
<1>5. /\ new \in Boards
      /\ \A p \in Pieces, s \in Squares :
           s \in new[p] <=> IF s = t THEN p = m.piece ELSE IF s = r.to THEN p = r.piece
                            ELSE s # f /\ s # r.from /\ s \in b.bb[p]
  BY DEF Castled, r
<1>6. K \in Pieces /\ O \in Pieces /\ O \notin Men(c)
  BY <1>1, PieceOf, MenIs DEF King
<1>7. Cardinality(b.bb[K]) = 1 /\ Cardinality(b.bb[O]) = 1 /\ Cardinality(Full(b.bb)) <= 32
  <2>1. All(b) = Full(b.bb)
    BY AllIsFull DEF Ready
  <2> QED
    BY <1>1, <2>1 DEF IsLegal
<1>8. /\ b.bb[K] \subseteq Squares /\ new[K] \subseteq Squares /\ Full(b.bb) \subseteq Squares /\ Full(new) \subseteq Squares
      /\ b.bb[O] \subseteq Squares /\ new[O] \subseteq Squares
  BY <1>1, <1>5, <1>6 DEF Boards, Full
<1>9. new[K] = {t}
  <2>1. \A s \in b.bb[K] : s = f
    BY <1>1, <1>3, <1>4, <1>7, KingsAre
  <2> QED
    BY <1>3, <1>4, <1>5, <1>6, <1>8, <2>1
<1>10. new[O] = b.bb[O]
  <2>1. O # m.piece /\ O # r.piece
    BY <1>4, <1>6
  <2>2. f \notin b.bb[O] /\ r.from \notin b.bb[O]
    BY <1>4, <1>6, <2>1
  <2>3. t \notin b.bb[O] /\ r.to \notin b.bb[O]
    BY <1>4, <1>6, <2>2 DEF Free
  <2>4. \A s : s \in new[O] <=> s \in b.bb[O]
    BY <1>5, <1>6, <1>8, <2>1, <2>2, <2>3
  <2> HIDE DEF O
  <2> QED
    BY <2>4
<1>11. OneKingEach(new)
  <2>1. Cardinality(new[K]) = 1
    BY <1>9, FS_Singleton
  <2> QED
    BY <1>1, <1>7, <1>10, <2>1 DEF OneKingEach
<1>12. Cardinality(Full(new)) <= 32
  <2> DEFINE A == Full(b.bb)
             B == A \ {f}
             C == B \ {r.from}
             D == C \cup {t}
             E == D \cup {r.to}
  <2>1. f \in A /\ r.from \in A /\ Full(new) \subseteq E
    <3>1. f \in A /\ r.from \in A
      BY <1>4 DEF Full, Free
    <3>2. \A s \in Full(new) : s = t \/ s = r.to \/ (s # f /\ s # r.from /\ s \in A)
      <4> SUFFICES ASSUME NEW s \in Full(new), s # t, s # r.to PROVE s # f /\ s # r.from /\ s \in A
        OBVIOUS
      <4>1. PICK p \in Pieces : s \in new[p]
        BY DEF Full, Free
      <4> QED
        BY <1>5, <1>8, <4>1 DEF Full, Free
    <3> QED
      BY <3>1, <3>2
  <2>2. IsFiniteSet(A)
    <3>1. 0 \in Int /\ 63 \in Int
      OBVIOUS
    <3>2. IsFiniteSet(Squares)
      BY <3>1, FS_Interval DEF Squares
    <3> HIDE DEF A
    <3> QED
      BY <1>8, <3>2, FS_Subset DEF A
  <2> HIDE DEF A, f, t
  <2>3. IsFiniteSet(B) /\ Cardinality(B) = Cardinality(A) - 1 /\ r.from \in B
    BY <1>4, <2>1, <2>2, FS_RemoveElement DEF f
  <2> HIDE DEF B
  <2>4. IsFiniteSet(C) /\ Cardinality(C) = Cardinality(B) - 1
    BY <2>3, FS_RemoveElement
  <2> HIDE DEF C
  <2>5. IsFiniteSet(D) /\ Cardinality(D) = (IF t \in C THEN Cardinality(C) ELSE Cardinality(C) + 1)
    BY <2>4, FS_AddElement
  <2> HIDE DEF D
  <2>6. IsFiniteSet(E) /\ Cardinality(E) = (IF r.to \in D THEN Cardinality(D) ELSE Cardinality(D) + 1)
    BY <2>5, FS_AddElement
  <2> HIDE DEF E
  <2>7. Cardinality(Full(new)) <= Cardinality(E)
    BY <2>1, <2>6, FS_Subset
  <2>8. Cardinality(Full(new)) \in Nat /\ Cardinality(A) \in Nat /\ Cardinality(A) <= 32
    <3>1. IsFiniteSet(Full(new))
      BY <2>1, <2>6, FS_Subset
    <3> QED
      BY <1>7, <2>2, <3>1, FS_CardinalityType DEF A
  <2> QED
    BY <2>3, <2>4, <2>5, <2>6, <2>7, <2>8
<1> QED
  BY <1>11, <1>12

\* So does every move that fits.
LEMMA MenStay ==
  ASSUME NEW b, Ready(b), IsLegal(b), NEW m, FitFrom(b, m), Goes(b, m), NEW new, Turns(b, m, new)
  PROVE  OneKingEach(new) /\ Cardinality(Full(new)) <= 32
BY PlainMenStay, CastlingMenStay DEF Turns

(***************************************************************************)
(* The king after a move that is not tested once made.                     *)
(***************************************************************************)
Saved(b, new) == \E k \in new[Piece(b.side, King)] : ~Assails(new, 1 - b.side, k, Full(new))

\* The king stays where it is when another man moves.
LEMMA KingRemains ==
  ASSUME NEW b, Ready(b), NEW m, FitFrom(b, m), FitPlain(b, m), m.piece # Piece(b.side, King), NEW v, NEW vs,
         PlainMove(b, m, v, vs), NEW new, Shifted(b.bb, new, m, vs), NEW k \in b.bb[Piece(b.side, King)]
  PROVE  k \in new[Piece(b.side, King)] /\ k \in Squares /\ k # m.from /\ k # m.to
<1> DEFINE K == Piece(b.side, King)
<1>1. b.side \in {white, black} /\ K \in Pieces /\ K \in Men(b.side)
  BY PieceOf DEF Ready, King
<1>2. k \in Squares /\ b.bb \in Boards
  BY <1>1 DEF Ready, Boards
<1>3. k # m.from
  BY <1>1, <1>2 DEF PlainMove
<1>4. k # m.to
  BY <1>1 DEF FitPlain
<1>5. k # vs
  <2>1. CASE v = None
    BY <1>2, <2>1 DEF PlainMove, None, Squares
  <2>2. CASE v # None
    <3>1. K # v
      BY <1>1, <2>2, MenIs DEF PlainMove
    <3> QED
      BY <1>1, <3>1 DEF PlainMove
  <2> QED
    BY <2>1, <2>2
<1> QED
  BY <1>1, <1>2, <1>3, <1>4, <1>5 DEF Shifted

\* A guarded move of a man other than the king.
LEMMA GuardedSaves ==
  ASSUME NEW b, Ready(b), NEW m, FitFrom(b, m), FitPlain(b, m), Goes(b, m), ~m.enpass, m.piece # Piece(b.side, King),
         NEW new, Turns(b, m, new), NEW k \in b.bb[Piece(b.side, King)], Guarded(b, k, m)
  PROVE  Saved(b, new)
<1>1. ~m.castling
  BY DEF FitPlain
<1>2. PICK v, vs : Taking(b, m, v, vs) /\ Shifted(b.bb, new, m, vs)
  BY <1>1 DEF Turns, FitCastling
<1>3. PlainMove(b, m, v, vs)
  BY <1>2, PlainFacts DEF Ready
<1>4. vs = m.to \/ vs = None
  BY <1>2 DEF Taking
<1>5. ~Assails(new, 1 - b.side, k, Full(new))
  BY <1>2, <1>3, <1>4, GuardedIsSafe
<1>6. k \in new[Piece(b.side, King)]
  BY <1>2, <1>3, KingRemains
<1> QED
  BY <1>5, <1>6 DEF Saved

\* A step of the king to a square that is not attacked with the king lifted.
LEMMA KingSaves ==
  ASSUME NEW b, Ready(b), NEW m, FitFrom(b, m), FitPlain(b, m), m.piece = Piece(b.side, King),
         NEW new, Turns(b, m, new), ~Assails(b.bb, 1 - b.side, m.to, Xor(All(b), {m.from}))
  PROVE  Saved(b, new)
<1>1. ~m.castling
  BY DEF FitPlain
<1>2. PICK v, vs : Taking(b, m, v, vs) /\ Shifted(b.bb, new, m, vs)
  BY <1>1 DEF Turns, FitCastling
<1>3. PlainMove(b, m, v, vs)
  BY <1>2, PlainFacts DEF Ready
<1>4. Piece(b.side, King) # Piece(b.side, Pawn) /\ Piece(b.side, King) \in Pieces
  BY PieceOf DEF Ready, King, Pawn
<1>5. ~m.enpass /\ Landed(m) = m.piece
  BY <1>4 DEF FitPlain, Landed
<1>6. vs = m.to \/ vs = None
  BY <1>2, <1>5 DEF Taking
<1>7. ~Assails(new, 1 - b.side, m.to, Full(new))
  BY <1>2, <1>3, <1>6, KingIsSafe
<1>8. m.to \in new[Piece(b.side, King)]
  BY <1>2, <1>3, <1>4, <1>5 DEF Shifted, PlainMove
<1> QED
  BY <1>7, <1>8 DEF Saved

\* Castling to a square that was not attacked, with the king lifted or from a square that was not attacked.
LEMMA CastlingSaves ==
  ASSUME NEW b, Ready(b), HomeSetup, ~g_chess960, NEW m, FitFrom(b, m), FitCastling(b, m), NEW new, Turns(b, m, new),
         \/ ~Assails(b.bb, 1 - b.side, m.to, Xor(All(b), {m.from}))
         \/ ~Assails(b.bb, 1 - b.side, m.to, All(b)) /\ ~Assails(b.bb, 1 - b.side, m.from, All(b))
  PROVE  Saved(b, new)
<1> DEFINE r == CastleRook(m)
<1>1. Castled(b.bb, new, m, r)
  BY DEF Turns, FitPlain, FitCastling
<1>2. BothMove(b, m, r)
  BY CastlingFacts DEF Ready
<1>3. r.from \in {0, 7, 56, 63}
  <2> DEFINE idx == castle_index(m.to)
  <2>1. idx \in Rights
    BY DEF FitCastling, Ready
  <2>2. r.from = setup.rook[idx + 1]
    BY DEF CastleRook, castle_rook_sq
  <2>3. setup.rook[idx + 1] = corners.rook[idx + 1]
    <3> HIDE DEF idx
    <3> QED
      BY <2>1, CornersAre DEF HomeSetup
  <2> HIDE DEF idx, r
  <2>4. corners.rook[idx + 1] \in {0, 7, 56, 63}
    BY <2>1 DEF Rights, corners
  <2> QED
    BY <2>2, <2>3, <2>4
<1> HIDE DEF r
<1>4. ~Assails(new, 1 - b.side, m.to, Full(new))
  BY <1>1, <1>2, <1>3, CastledIsSafe
<1>5. m.to \in new[Piece(b.side, King)]
  BY <1>1, <1>2 DEF Castled, BothMove, FitCastling
<1> QED
  BY <1>4, <1>5 DEF Saved

\* With the pawn back where it came from no slider of its side sees the king.
LEMMA SaneIs ==
  ASSUME NEW b, NEW k \in Squares, k = KingSquare(b, b.side)
  PROVE  EpSane(b) <=> (b.ep # no_sq => ~Aims(b.bb, 1 - b.side, k, Unjumped(b)))
BY AimsIs DEF EpSane, Diagonals, Straights, Theirs_, get_bishop_attacks, get_rook_attacks

\* Where the pawn that may be taken came from, on the file it jumped along.
LEMMA JumpFile ==
  ASSUME NEW b, Ready(b), b.ep # no_sq
  PROVE  /\ b.ep \in Squares /\ b.ep - Up(b.side) \in Squares /\ b.ep + Up(b.side) \in Squares
         /\ File(b.ep - Up(b.side)) = File(b.ep) /\ File(b.ep + Up(b.side)) = File(b.ep)
         /\ Row(b.ep - Up(b.side)) # Row(b.ep + Up(b.side))
<1>1. b.side \in {white, black} /\ b.ep \in 0..64 /\ Row(b.ep) = IF b.side = white THEN 2 ELSE 5
  BY DEF Ready, EpSound
<1> DEFINE e == b.ep
<1>2. e \in Squares /\ e \in 0..63 BY <1>1 DEF no_sq, Squares
<1>3. CASE b.side = white
  <2>1. Row(e) = 2 /\ Up(b.side) = -8 BY <1>1, <1>3 DEF Up
  <2> HIDE DEF e
  <2>2. e - (-8) = e + 8 /\ e + (-8) = e - 8 /\ e + 8 \in 0..63 /\ e - 8 \in 0..63 /\ (e + 8) % 8 = e % 8 /\ (e - 8) % 8 = e % 8
        /\ (e + 8) \div 8 # (e - 8) \div 8
    BY <1>2, <2>1 DEF Row
  <2> QED BY <1>2, <2>1, <2>2 DEF Row, File, Squares, e
<1>4. CASE b.side = black
  <2>1. Row(e) = 5 /\ Up(b.side) = 8 BY <1>1, <1>4 DEF Up, white, black
  <2> HIDE DEF e
  <2>2. e + 8 \in 0..63 /\ e - 8 \in 0..63 /\ (e + 8) % 8 = e % 8 /\ (e - 8) % 8 = e % 8
        /\ (e - 8) \div 8 # (e + 8) \div 8
    BY <1>2, <2>1 DEF Row
  <2> QED BY <1>2, <2>1, <2>2 DEF Row, File, Squares, e
<1> QED BY <1>1, <1>3, <1>4

\* The pawn that may be taken does not alone keep a bishop or a queen off the king.
LEMMA PassingSane ==
  ASSUME NEW b, Ready(b), EpSane(b), NEW k \in Squares, k = KingSquare(b, b.side)
  PROVE  EpSaneAt(b, k)
<1> SUFFICES ASSUME b.ep # no_sq, NEW l \in {1, 3}, NEW e \in Runs(b.bb, 1 - b.side, l),
                    Sees(l, k, e, All(b) \ {b.ep - Up(b.side)}), ~Sees(l, k, e, All(b))
             PROVE  FALSE
  BY DEF EpSaneAt
<1> DEFINE cap == b.ep - Up(b.side)
           o == b.ep + Up(b.side)
<1>1. cap \in Squares /\ o \in Squares /\ File(cap) = File(o) /\ Row(cap) # Row(o) BY JumpFile
<1>2. e \in Squares /\ l \in 1..4 BY DEF Sees
<1>3. ~Sees(l, k, e, Unjumped(b)) BY <1>2, SaneIs DEF Aims
<1>4. Unjumped(b) = (All(b) \ {cap}) \cup {o} BY DEF Unjumped
<1> HIDE DEF cap, o
<1>5. Sees(l, k, e, All(b) \ {cap}) BY DEF cap
<1>6. Pins(l, k, e, cap, All(b))
  <2>1. \A u \in All(b) : u = cap \/ u \in All(b) \ {cap} OBVIOUS
  <2> QED BY <1>2, <1>5, <2>1, Uncovers
<1>7. Pins(l, k, e, o, Unjumped(b))
  <2>1. \A u \in Unjumped(b) : u = o \/ u \in All(b) \ {cap} BY <1>4
  <2> QED BY <1>2, <1>3, <1>5, <2>1, Uncovers
<1>8. LineOf(l, cap) = LineOf(l, o) BY <1>6, <1>7 DEF Pins, OnLine
<1>9. Row(cap) \in 0..7 /\ Row(o) \in 0..7 /\ File(cap) \in 0..7 BY <1>1, Coordinates
<1> QED BY <1>1, <1>8, <1>9, LineOfIs

\* A listed move of a man other than the king goes to a square of the masks, along the line of its pin.
Covers(b, k, m) ==
  /\ m.to \in InfoFor(b, k).capture_mask \cup InfoFor(b, k).quiet_mask
  /\ m.from \in PinnedTo(b, k) => m.to \in line_bb[k][m.from]

\* From the square of a pinned man only the squares of its line are allowed.
LEMMA AllowedIs ==
  ASSUME NEW b, NEW k, NEW s, NEW to, to \in AllowedFrom(InfoFor(b, k), s)
  PROVE  s \in PinnedTo(b, k) => to \in line_bb[k][s]
<1>1. InfoFor(b, k).king = k /\ InfoFor(b, k).pinned = PinnedTo(b, k)
  BY DEF InfoFor, MoveInfo
<1> QED
  BY <1>1 DEF AllowedFrom

\* The moves of the pawns of the seventh row are covered, with the line of a pin.
LEMMA PromotionsCover ==
  ASSUME NEW b, NEW k, NEW m \in PromotionMoves(b, InfoFor(b, k))
  PROVE  Covers(b, k, m) /\ m.piece = Piece(b.side, Pawn) /\ ~m.enpass /\ ~m.castling
<1> DEFINE c == b.side
           info == InfoFor(b, k)
<1>1. PICK s \in Us(b, Pawn) :
        m \in (UNION {PawnArrivals(s, to, c, FALSE) : to \in {s + Up(c)} \cap info.quiet_mask \cap AllowedFrom(info, s)})
              \cup UNION {PawnArrivals(s, to, c, TRUE) : to \in pawn_attacks[c][s] \cap info.capture_mask \cap AllowedFrom(info, s)}
  BY DEF PromotionMoves
<1>2. PICK to \in (info.capture_mask \cup info.quiet_mask) \cap AllowedFrom(info, s), capture \in BOOLEAN :
        m \in PawnArrivals(s, to, c, capture)
  <2> HIDE DEF info, c
  <2> QED
    BY <1>1
<1>3. s \in PinnedTo(b, k) => to \in line_bb[k][s]
  BY <1>2, AllowedIs
<1>4. m.from = s /\ m.to = to /\ m.piece = Piece(c, Pawn) /\ ~m.enpass /\ ~m.castling
  BY <1>2 DEF PawnArrivals, encode_move
<1> QED
  BY <1>2, <1>3, <1>4 DEF Covers

\* So are those of the other pawns; a pawn that takes en passant has passed its own test (ep_ok).
LEMMA OtherPawnsCover ==
  ASSUME NEW b, NEW k, NEW m \in OtherPawnMoves(b, InfoFor(b, k))
  PROVE  /\ m.piece = Piece(b.side, Pawn) /\ ~m.castling
         /\ m.enpass => m.from \in ep_ok(b, InfoFor(b, k))
         /\ ~m.enpass => Covers(b, k, m)
<1> DEFINE c == b.side
           info == InfoFor(b, k)
           rest == {s \in Us(b, Pawn) : Row(s) # SeventhRow(c)}
           push1 == {s + Up(c) : s \in rest} \ All(b)
           single_to == push1 \cap info.quiet_mask
           double_to == ({s + Up(c) : s \in {u \in push1 : Row(u) = SecondRow(c) + (IF c = white THEN -1 ELSE 1)}} \ All(b))
                          \cap info.quiet_mask
           pawn == Piece(c, Pawn)
           pushes == {Simple(s, s + Up(c), pawn, FALSE) : s \in {u \in rest : u + Up(c) \in single_to \cap AllowedFrom(info, u)}}
           jumps == {encode_move(s, s + 2 * Up(c), pawn, 0, FALSE, TRUE, FALSE, FALSE) :
                       s \in {u \in rest : u + 2 * Up(c) \in double_to \cap AllowedFrom(info, u)}}
           captures == UNION {{Simple(s, to, pawn, TRUE) :
                                 to \in pawn_attacks[c][s] \cap info.capture_mask \cap AllowedFrom(info, s)} : s \in rest}
           passing == {encode_move(s, b.ep, pawn, 0, TRUE, FALSE, TRUE, FALSE) : s \in ep_ok(b, info) \cap rest}
<1>1. m \in pushes \cup jumps \cup captures \cup passing
  BY DEF OtherPawnMoves
<1>2. ASSUME NEW s, NEW to \in (info.capture_mask \cup info.quiet_mask) \cap AllowedFrom(info, s),
             m.from = s, m.to = to
      PROVE  Covers(b, k, m)
  BY <1>2, AllowedIs DEF Covers
<1>3. CASE m \in pushes
  <2>1. PICK s \in rest : s + Up(c) \in single_to \cap AllowedFrom(info, s) /\ m = Simple(s, s + Up(c), pawn, FALSE)
    BY <1>3
  <2>2. s + Up(c) \in info.quiet_mask /\ s + Up(c) \in AllowedFrom(info, s)
    BY <2>1
  <2>3. m.from = s /\ m.to = s + Up(c) /\ m.piece = pawn /\ m.enpass = FALSE /\ m.castling = FALSE
    BY <2>1 DEF Simple, encode_move
  <2> HIDE DEF info, rest, pawn
  <2> QED
    BY <1>2, <2>2, <2>3 DEF pawn
<1>4. CASE m \in jumps
  <2>1. PICK s \in rest : /\ s + 2 * Up(c) \in double_to \cap AllowedFrom(info, s)
                          /\ m = encode_move(s, s + 2 * Up(c), pawn, 0, FALSE, TRUE, FALSE, FALSE)
    BY <1>4
  <2>2. s + 2 * Up(c) \in info.quiet_mask /\ s + 2 * Up(c) \in AllowedFrom(info, s)
    BY <2>1
  <2>3. m.from = s /\ m.to = s + 2 * Up(c) /\ m.piece = pawn /\ m.enpass = FALSE /\ m.castling = FALSE
    BY <2>1 DEF encode_move
  <2> HIDE DEF info, rest, pawn
  <2> QED
    BY <1>2, <2>2, <2>3 DEF pawn
<1>5. CASE m \in captures
  <2>1. PICK s \in rest : m \in {Simple(s, to, pawn, TRUE) : to \in pawn_attacks[c][s] \cap info.capture_mask \cap AllowedFrom(info, s)}
    BY <1>5
  <2>2. PICK to \in pawn_attacks[c][s] \cap info.capture_mask \cap AllowedFrom(info, s) : m = Simple(s, to, pawn, TRUE)
    BY <2>1
  <2>3. m.from = s /\ m.to = to /\ m.piece = pawn /\ m.enpass = FALSE /\ m.castling = FALSE
    BY <2>2 DEF Simple, encode_move
  <2> HIDE DEF info, rest, pawn
  <2> QED
    BY <1>2, <2>2, <2>3 DEF pawn
<1>6. CASE m \in passing
  <2>1. PICK s \in ep_ok(b, info) \cap rest : m = encode_move(s, b.ep, pawn, 0, TRUE, FALSE, TRUE, FALSE)
    BY <1>6
  <2>2. m.from = s /\ m.piece = pawn /\ m.enpass = TRUE /\ m.castling = FALSE
    BY <2>1 DEF encode_move
  <2> QED
    BY <2>1, <2>2
<1> HIDE DEF pushes, jumps, captures, passing
<1> QED
  BY <1>1, <1>3, <1>4, <1>5, <1>6

\* So are those of the knights, bishops, rooks and queens.
LEMMA PiecesCover ==
  ASSUME NEW b, b.side \in {white, black}, NEW k, NEW t \in {Knight, Bishop, Rook, Queen}, NEW m \in PieceTargets(b, InfoFor(b, k), t)
  PROVE  /\ m.piece = Piece(b.side, t) /\ ~m.castling /\ ~m.enpass /\ Covers(b, k, m) /\ Goes(b, m)
<1> DEFINE c == b.side
           info == InfoFor(b, k)
           reach == info.capture_mask \cup info.quiet_mask
<1>1. PICK s : \E to \in Attacks(t, s, All(b)) \cap reach \cap AllowedFrom(info, s) :
                 m = Simple(s, to, Piece(c, t), to \in b.occ[1 - c])
  BY DEF PieceTargets
<1>2. PICK to \in Attacks(t, s, All(b)) \cap reach \cap AllowedFrom(info, s) : m = Simple(s, to, Piece(c, t), to \in b.occ[1 - c])
  BY <1>1
<1>3. m.from = s /\ m.to = to /\ m.piece = Piece(c, t) /\ m.castling = FALSE /\ m.enpass = FALSE
  BY <1>2 DEF Simple, encode_move
<1>4. s \in PinnedTo(b, k) => to \in line_bb[k][s]
  BY <1>2, AllowedIs
<1>5. Type(m.piece) = t
  BY <1>3, PieceOf DEF Knight, Bishop, Rook, Queen
<1> QED
  BY <1>2, <1>3, <1>4, <1>5 DEF Covers, Goes

\* A move of the legal generator leaves its king safe: the search makes it without a test.
THEOREM ListedIsSafe ==
  ASSUME NEW b, Ready(b), HomeSetup, ~g_chess960, IsLegal(b), EpSane(b), NEW m \in generate_legal_tv(b, "all"),
         NEW new, Turns(b, m, new)
  PROVE  Saved(b, new) /\ Goes(b, m)
<1> DEFINE c == b.side
           by == 1 - b.side
           k == KingSquare(b, c)
           info == InfoFor(b, k)
           map == enemy_map(b, info.king)
<1>1. c \in {white, black} /\ by \in {white, black} /\ b.bb \in Boards
  BY DEF Ready, white, black
<1>2. k \in b.bb[Piece(c, King)] /\ k \in Squares /\ \A x \in b.bb[Piece(c, King)] : x = k
  BY <1>1, LegalIs
<1>3. king_attacks[k] \cap b.bb[Piece(by, King)] = {}
  BY <1>1, <1>2, KingsApart
<1>4. m \in Emitted(b, info, TRUE, map)
  BY DEF generate_legal_tv, legal_emit_tv, EmittedFor, legal_prepare
<1>5. Fit(b, m) /\ FitFrom(b, m)
  <2>1. b.bb[Piece(b.side, King)] # {}
    BY <1>2
  <2>2. Fit(b, m)
    BY <2>1, LegalFit
  <2> QED
    BY <2>2 DEF Fit
<1>6. info.king = k /\ info.checkers = Checkers(b, k)
  BY DEF InfoFor, MoveInfo
<1>7. /\ Piece(c, King) \in Pieces /\ Type(Piece(c, King)) = King /\ Type(Piece(c, Pawn)) = Pawn
      /\ \A t \in {Pawn, Knight, Bishop, Rook, Queen} : Piece(c, t) # Piece(c, King)
  BY <1>1, PieceOf DEF Pawn, Knight, Bishop, Rook, Queen, King
<1> HIDE DEF map, k
<1>8. \/ ~Several(info.checkers) /\ (m \in PromotionMoves(b, info) \/ m \in OtherPawnMoves(b, info))
      \/ ~Several(info.checkers) /\ m \in UNION {PieceTargets(b, info, t) : t \in {Knight, Bishop, Rook, Queen}}
      \/ m \in LegalCastling(b, info, map)
      \/ m \in KingSteps(b, info, TRUE, map)
  BY <1>4 DEF Emitted
<1> HIDE DEF info
<1>9. ASSUME m.piece # Piece(c, King), FitPlain(b, m), Goes(b, m), ~m.enpass, ~Several(Checkers(b, k)), Covers(b, k, m)
      PROVE  Saved(b, new)
  <2>1. m.from \in Squares /\ m.to \in Squares /\ m.from # m.to /\ m.from # k /\ m.to # k
    <3>1. PICK v, vs : Taking(b, m, v, vs) /\ Shifted(b.bb, new, m, vs)
      BY <1>9 DEF Turns, FitCastling, FitPlain
    <3>2. PlainMove(b, m, v, vs)
      BY <1>1, <1>5, <1>9, <3>1, PlainFacts DEF Ready
    <3>3. m.from \in Squares /\ m.to \in Squares /\ m.from # m.to
      BY <3>2 DEF PlainMove
    <3>4. k # m.from /\ k # m.to
      BY <1>2, <1>5, <1>9, <3>1, <3>2, KingRemains
    <3> QED
      BY <3>3, <3>4
  <2>2. m.from \in b.occ[c]
    BY <1>5, ReadyOccupied DEF FitFrom
  <2>3. Guarded(b, k, m)
    BY <1>2, <1>3, <1>9, <2>1, <2>2, MasksGuard DEF Covers
  <2> QED
    BY <1>2, <1>5, <1>9, <2>3, GuardedSaves
<1>10. CASE ~Several(info.checkers) /\ (m \in PromotionMoves(b, info) \/ m \in OtherPawnMoves(b, info))
  <2>1. m.piece = Piece(c, Pawn) /\ ~m.castling /\ (~m.enpass => Covers(b, k, m)) /\ (m.enpass => m.from \in ep_ok(b, InfoFor(b, k)))
    BY <1>10, PromotionsCover, OtherPawnsCover DEF info
  <2>2. FitPlain(b, m) /\ Goes(b, m) /\ m.piece # Piece(c, King)
    BY <1>5, <1>7, <2>1 DEF Fit, FitCastling, Goes
  <2>3. ~Several(Checkers(b, k))
    BY <1>6, <1>10
  <2>4. CASE ~m.enpass
    BY <1>9, <2>1, <2>2, <2>3, <2>4
  <2>5. CASE m.enpass
    <3> DEFINE cap == m.to - Up(b.side)
    <3>1. PICK v, vs : Taking(b, m, v, vs) /\ Shifted(b.bb, new, m, vs)
      BY <2>2 DEF Turns, FitCastling, FitPlain
    <3>2. m.capture /\ v = Piece(by, Pawn) /\ vs = cap
      BY <2>2, <2>5, <3>1 DEF Taking, FitPlain
    <3>3. PlainMove(b, m, v, vs)
      BY <1>1, <1>5, <2>2, <3>1, PlainFacts DEF Ready
    <3>4. EpGuarded(b, k, m, cap)
      BY <1>2, <1>3, <1>5, <2>1, <2>2, <2>5, ListedPassing
    <3>5. EpSaneAt(b, k)
      BY <1>2, PassingSane DEF k
    <3> HIDE DEF cap
    <3>6. ~Assails(new, by, k, Full(new))
      <4>1. cap = m.to - Up(b.side) /\ PlainMove(b, m, Piece(1 - b.side, Pawn), cap) /\ Shifted(b.bb, new, m, cap)
        BY <3>1, <3>2, <3>3 DEF cap
      <4> QED
        BY <1>2, <1>5, <2>2, <2>5, <3>4, <3>5, <4>1, EpIsSafe
    <3>7. k \in new[Piece(c, King)]
      BY <1>2, <1>5, <2>2, <3>1, <3>3, KingRemains
    <3> QED
      BY <2>2, <3>6, <3>7 DEF Saved
  <2> QED
    BY <2>2, <2>4, <2>5
<1>11. CASE ~Several(info.checkers) /\ m \in UNION {PieceTargets(b, info, t) : t \in {Knight, Bishop, Rook, Queen}}
  <2>1. PICK t \in {Knight, Bishop, Rook, Queen} : m \in PieceTargets(b, info, t)
    BY <1>11
  <2>2. m.piece = Piece(c, t) /\ ~m.castling /\ ~m.enpass /\ Covers(b, k, m) /\ Goes(b, m)
    BY <1>1, <2>1, PiecesCover DEF info
  <2>3. FitPlain(b, m)
    BY <1>5, <2>2 DEF Fit, FitCastling
  <2> QED
    BY <1>6, <1>7, <1>9, <1>11, <2>2, <2>3
<1>12. CASE m \in LegalCastling(b, info, map)
  <2>1. PICK idx \in b.castle : /\ castle_king_to(idx) \notin map
                                /\ m = CastlingMove(corners.king[c + 1], castle_king_to(idx), c)
    BY <1>12 DEF LegalCastling
  <2>2. m.castling /\ m.to = castle_king_to(idx)
    BY <2>1 DEF CastlingMove, encode_move
  <2>3. FitCastling(b, m)
    BY <1>5, <2>2 DEF Fit, FitPlain
  <2>4. m.from = k
    BY <1>2, <1>5, <2>3 DEF FitFrom, FitCastling
  <2>5. ~Assails(b.bb, by, m.to, Xor(All(b), {k}))
    <3>1. m.to \in Squares /\ m.to \notin enemy_map(b, k)
      BY <1>5, <1>6, <2>1, <2>2 DEF FitFrom, Moves, map
    <3> QED
      BY <3>1, MapIs
  <2> QED
    BY <1>5, <2>2, <2>3, <2>4, <2>5, CastlingSaves DEF Goes
<1>13. CASE m \in KingSteps(b, info, TRUE, map)
  <2>1. PICK s \in king_attacks[k] \ map : m = Simple(k, s, Piece(c, King), s \in b.occ[1 - c])
    BY <1>6, <1>13 DEF KingSteps
  <2>2. m.from = k /\ m.to = s /\ m.piece = Piece(c, King) /\ m.castling = FALSE
    BY <2>1 DEF Simple, encode_move
  <2>3. FitPlain(b, m)
    BY <1>5, <2>2 DEF Fit, FitCastling
  <2>4. Goes(b, m)
    <3>1. Attacks(King, k, All(b)) = king_attacks[k]
      BY DEF Attacks, Knight, King
    <3> QED
      BY <1>7, <2>1, <2>2, <3>1 DEF Goes
  <2>5. ~Assails(b.bb, by, m.to, Xor(All(b), {m.from}))
    <3>1. m.to \in Squares /\ m.to \notin enemy_map(b, k)
      BY <1>5, <1>6, <2>1, <2>2 DEF FitFrom, Moves, map
    <3> QED
      BY <2>2, <3>1, MapIs
  <2> QED
    BY <1>5, <2>2, <2>3, <2>4, <2>5, KingSaves
<1> QED
  BY <1>8, <1>10, <1>11, <1>12, <1>13

\* Nor does a move of another position that passes its two tests out of check.
THEOREM ValidIsSafe ==
  ASSUME NEW b, Ready(b), HomeSetup, IsLegal(b), ~InCheck(b), NEW m, Fit(b, m), td_is_pseudo_legal(b, m), legal_before(b, m),
         ~(g_chess960 /\ m.castling), NEW new, Turns(b, m, new)
  PROVE  Saved(b, new)
<1> DEFINE c == b.side
           by == 1 - b.side
           k == KingSquare(b, c)
<1>1. c \in {white, black} /\ by \in {white, black} /\ b.bb \in Boards
  BY DEF Ready, white, black
<1>2. k \in b.bb[Piece(c, King)] /\ k \in Squares /\ \A x \in b.bb[Piece(c, King)] : x = k
  BY <1>1, LegalIs
<1>3. FitFrom(b, m) /\ m.from \in Squares /\ m.to \in Squares
  BY DEF Fit, FitFrom, Moves
<1> HIDE DEF k
<1>4. CASE m.castling
  <2>1. FitCastling(b, m) /\ ~g_chess960
    BY <1>4 DEF Fit, FitPlain
  <2>2. ~is_square_attacked(b, m.to, by) /\ CanCastle(b, castle_index(m.to)) /\ m.from = corners.king[c + 1]
    <3>1. ~is_square_attacked(b, m.to, by)
      <4>1. ~m.enpass
        BY <2>1 DEF FitCastling
      <4>2. legal_before(b, m) = (g_chess960 \/ ~is_square_attacked(b, m.to, by))
        BY <1>4, <4>1 DEF legal_before
      <4> QED
        BY <2>1, <4>2
    <3>2. PseudoCastling(b, m)
      BY <1>4 DEF td_is_pseudo_legal
    <3> QED
      BY <2>1, <3>1, <3>2 DEF PseudoCastling
  <2>3. ~is_square_attacked(b, m.from, by)
    <3>1. OfSide(castle_index(m.to)) = c
      BY <2>1 DEF FitCastling
    <3> QED
      BY <2>2, <3>1 DEF CanCastle
  <2>4. ~Assails(b.bb, by, m.to, All(b)) /\ ~Assails(b.bb, by, m.from, All(b))
    BY <1>3, <2>2, <2>3, AttackedIs
  <2> QED
    BY <1>3, <2>1, <2>4, CastlingSaves
<1>5. CASE ~m.castling
  <2>1. FitPlain(b, m) /\ Goes(b, m)
    BY <1>5 DEF Fit, FitCastling, td_is_pseudo_legal, Goes
  <2>2. PICK v, vs : Taking(b, m, v, vs) /\ Shifted(b.bb, new, m, vs)
    BY <1>5 DEF Turns, FitCastling
  <2>3. PlainMove(b, m, v, vs)
    BY <1>1, <1>3, <2>1, <2>2, PlainFacts DEF Ready
  <2>4. CASE m.enpass
    <3> DEFINE cap == m.to - Up(b.side)
    <3>1. v = Piece(by, Pawn) /\ vs = cap /\ m.piece = Piece(c, Pawn)
      BY <2>1, <2>2, <2>4 DEF Taking, FitPlain
    <3> HIDE DEF cap
    <3>2. ~Assails(new, by, k, Full(new))
      <4>1. cap = m.to - Up(b.side) /\ PlainMove(b, m, Piece(1 - b.side, Pawn), cap) /\ Shifted(b.bb, new, m, cap)
            /\ k = KingSquare(b, b.side)
        BY <2>2, <2>3, <3>1 DEF cap, k
      <4> QED
        BY <1>2, <1>3, <1>5, <2>1, <2>4, <4>1, TestedPassing
    <3>3. m.piece # Piece(c, King)
      BY <1>1, <3>1, PieceOf DEF Pawn, King
    <3>4. k \in new[Piece(c, King)]
      BY <1>2, <1>3, <2>1, <2>2, <2>3, <3>3, KingRemains
    <3> QED
      BY <3>2, <3>4 DEF Saved
  <2>5. CASE ~m.enpass /\ m.from = k
    <3>1. m.piece = Piece(c, King)
      <4>1. m.piece \in Pieces /\ m.from \in b.bb[m.piece] /\ Piece(c, King) \in Pieces
        BY <1>1, <2>3, PieceOf DEF PlainMove, King
      <4> QED
        BY <1>2, <1>3, <2>5, <4>1 DEF Ready, Disjoint
    <3>2. ~attacked_by(b, m.to, Xor(All(b), {m.from}))
      BY <1>5, <2>5 DEF legal_before, k
    <3>3. ~Assails(b.bb, by, m.to, Xor(All(b), {m.from}))
      BY <1>1, <1>3, <3>2, AttackersAre
    <3> QED
      BY <1>3, <2>1, <3>1, <3>3, KingSaves
  <2>6. CASE ~m.enpass /\ m.from # k
    <3>1. m.piece # Piece(c, King)
      BY <1>2, <1>3, <2>6 DEF FitFrom
    <3>2. m.from \in PinnedTo(b, k) => on_line(m.from, m.to, k)
      BY <1>5, <2>6 DEF legal_before, k
    <3>3. m.from # m.to /\ m.from \in b.occ[c]
      BY <1>3, <2>3, ReadyOccupied DEF PlainMove, FitFrom
    <3>4. Guarded(b, k, m)
      BY <1>2, <1>3, <3>2, <3>3, LineGuards DEF k
    <3> QED
      BY <1>2, <1>3, <2>1, <2>6, <3>1, <3>4, GuardedSaves
  <2> QED
    BY <2>4, <2>5, <2>6
<1> QED
  BY <1>4, <1>5


(***************************************************************************)
(* A position of the rules, en passant included, leads to one.             *)
(***************************************************************************)
Safe(b) == IsLegal(b) /\ EpSane(b)

\* The board after a move, whoever keeps it.
Reached(b, m, x) ==
  /\ Turns(b, m, x.bb) /\ x.side = 1 - b.side
  /\ \A c \in {white, black} : x.occ[c] = Occupied(x.bb, c)
  /\ x.ep = IF m.double THEN EpSquare(x.bb, b.side, m.to) ELSE no_sq

\* A pawn that has just jumped two squares came from a position of the rules: put back, it leaves the king it could be
\* taken for unseen.
LEMMA JumpIsSane ==
  ASSUME NEW b, Ready(b), IsLegal(b), NEW m, FitFrom(b, m), FitPlain(b, m), m.double, NEW v, NEW vs, Taking(b, m, v, vs),
         NEW x, Shifted(b.bb, x.bb, m, vs), OneKingEach(x.bb), Reached(b, m, x)
  PROVE  EpSane(x)
<1> DEFINE c == b.side
           d == 1 - b.side
           f == m.from
           t == m.to
           k == KingSquare(x, d)
<1>1. /\ b.bb \in Boards /\ c \in {white, black} /\ d \in {white, black} /\ 1 - d = c /\ Disjoint(b.bb) /\ x.side = d
      /\ x.bb \in Boards /\ f \in Squares /\ t \in Squares
  BY DEF Ready, Reached, white, black, Shifted, FitFrom, Moves
<1>2. PlainMove(b, m, v, vs) /\ f # t
  <2>1. PlainMove(b, m, v, vs) BY <1>1, PlainFacts
  <2> QED BY <2>1 DEF PlainMove
<1>3. /\ ~m.capture /\ m.promo = 0 /\ m.piece = Piece(c, Pawn) /\ vs = None /\ Landed(m) = m.piece /\ Free(b.bb, t)
      /\ t = f + 2 * Up(c)
  BY DEF FitPlain, PawnWay, Taking, Landed
<1>4. x.ep # no_sq => x.ep - Up(d) = t /\ x.ep + Up(d) = f
  <2> SUFFICES ASSUME x.ep # no_sq PROVE x.ep - Up(d) = t /\ x.ep + Up(d) = f OBVIOUS
  <2>1. x.ep = t - Up(c) BY DEF Reached, EpSquare
  <2>2. t \in Int /\ f \in Int /\ Up(c) \in Int /\ Up(d) = 0 - Up(c) BY <1>1 DEF Up, white, black, Squares
  <2> HIDE DEF t, f
  <2> QED BY <1>3, <2>1, <2>2
<1>5. /\ All(x) = Full(x.bb) /\ All(b) = Full(b.bb)
  BY <1>1, AllIsFull DEF Reached, Ready
<1>6. /\ k \in b.bb[Piece(d, King)] /\ k \in Squares /\ ~Aims(b.bb, c, k, All(b))
  <2>1. k \in x.bb[Piece(d, King)] /\ k \in Squares
    BY <1>1, KingSquareIs DEF OneKingEach
  <2>2. Piece(d, King) \in Men(d)
    BY <1>1, PieceOf DEF King
  <2>3. k \in b.bb[Piece(d, King)]
    BY <1>2, <2>1, <2>2, ShiftedAre
  <2>4. k = KingSquare(b, d) /\ ~Assails(b.bb, c, KingSquare(b, d), All(b))
    BY <1>1, <2>3, LegalIs
  <2> QED
    BY <2>1, <2>3, <2>4 DEF Assails
<1>7. (All(x) \ {t}) \cup {f} = All(b)
  <2>1. \A s \in Squares : s \in All(x) <=> s = t \/ (s # f /\ s # vs /\ s \in All(b)) BY <1>2, <1>5, ShiftedAre
  <2>2. \A s \in Squares : s # vs BY <1>3 DEF None, Squares
  <2>3. All(x) \subseteq Squares /\ All(b) \subseteq Squares BY <1>5 DEF Full
  <2>4. t \notin All(b) BY <1>3, <1>5 DEF Full
  <2>5. f \in All(b) BY <1>1, <1>2, <1>5 DEF Full, Free, PlainMove
  <2> HIDE DEF f, t
  <2> QED BY <1>1, <1>2, <2>1, <2>2, <2>3, <2>4, <2>5
<1>8. \A l \in 1..4 : Runs(x.bb, c, l) \subseteq Runs(b.bb, c, l)
  <2> SUFFICES ASSUME NEW l \in 1..4, NEW e \in Runs(x.bb, c, l) PROVE e \in Runs(b.bb, c, l) OBVIOUS
  <2>1. PICK p \in {Piece(c, Bishop), Piece(c, Rook), Piece(c, Queen)} :
          e \in x.bb[p] /\ (\A y : y \in b.bb[p] => y \in Runs(b.bb, c, l))
    BY DEF Runs
  <2>2. p \in Pieces /\ p # Piece(c, Pawn) BY <1>1, PieceOf DEF Bishop, Rook, Queen, Pawn
  <2>3. e \in Squares BY <1>1, <2>1, <2>2 DEF Boards
  <2>4. e \in b.bb[p] BY <1>3, <2>1, <2>2, <2>3 DEF Shifted
  <2> QED BY <2>1, <2>4
<1>9. x.ep # no_sq => ~Aims(x.bb, c, k, Unjumped(x))
  <2> SUFFICES ASSUME x.ep # no_sq PROVE ~Aims(x.bb, c, k, Unjumped(x)) OBVIOUS
  <2>1. Unjumped(x) = All(b) BY <1>1, <1>4, <1>7 DEF Unjumped
  <2> QED BY <1>6, <1>8, <2>1 DEF Aims
<1> HIDE DEF k
<1>10. k = KingSquare(x, x.side) BY <1>1 DEF k
<1> QED
  BY <1>1, <1>6, <1>9, <1>10, SaneIs

\* A move of a position of the rules that leaves no king attacked leads to a position of the rules.
LEMMA NextIsSafe ==
  ASSUME NEW b, Ready(b), IsLegal(b), NEW m, FitFrom(b, m), Goes(b, m), NEW x, Reached(b, m, x),
         Saved(b, x.bb) \/ ~LeavesKing(x)
  PROVE  Safe(x)
<1>1. /\ b.bb \in Boards /\ b.side \in {white, black} /\ x.side \in {white, black} /\ 1 - x.side = b.side /\ x.side = 1 - b.side
  BY DEF Ready, Reached, white, black
<1>2. OneKingEach(x.bb) /\ Cardinality(Full(x.bb)) <= 32
  BY MenStay DEF Reached
<1>3. x.bb \in Boards
  BY DEF Reached, Turns, Shifted, Castled
<1>4. All(x) = Full(x.bb)
  BY <1>3, AllIsFull DEF Reached
<1>5. ~LeavesKing(x)
  <2>1. ASSUME Saved(b, x.bb) PROVE ~LeavesKing(x)
    <3>1. PICK k \in x.bb[Piece(b.side, King)] : ~Assails(x.bb, 1 - b.side, k, Full(x.bb))
      BY <2>1 DEF Saved
    <3>2. k = KingSquare(x, b.side) /\ k \in Squares
      BY <1>1, <1>2, <1>3, KingSquareIs DEF OneKingEach
    <3>3. ~is_square_attacked(x, k, x.side)
      BY <1>1, <1>4, <3>1, <3>2, AttackedIs
    <3> QED
      BY <1>1, <3>2, <3>3 DEF LeavesKing
  <2> QED
    BY <2>1
<1>6. IsLegal(x)
  BY <1>2, <1>4, <1>5 DEF IsLegal, OneKingEach
<1>7. EpSane(x)
  <2>1. CASE m.double
    <3>1. PICK v, vs : FitPlain(b, m) /\ Taking(b, m, v, vs) /\ Shifted(b.bb, x.bb, m, vs)
      BY <2>1 DEF Reached, Turns, FitCastling
    <3> QED
      BY <1>2, <2>1, <3>1, JumpIsSane
  <2>2. CASE ~m.double
    BY <2>2 DEF Reached, EpSane
  <2> QED
    BY <2>1, <2>2
<1> QED
  BY <1>6, <1>7 DEF Safe

\* A generated piece goes where it attacks.
LEMMA GeneratedGoes ==
  ASSUME NEW b, Ready(b), NEW m \in generate_moves(b)
  PROVE  Goes(b, m)
<1>1. b.side \in {white, black} BY DEF Ready
<1>2. ASSUME NEW c \in {white, black}, NEW s, m \in PawnMoves(b, s, c) PROVE Goes(b, m)
  <2>1. m.piece = Piece(c, Pawn) BY <1>2 DEF PawnMoves, PawnArrivals, encode_move
  <2> QED BY <1>2, <2>1, PieceOf DEF Goes, Pawn
<1>3. ASSUME m \in CastlingMoves(b) PROVE Goes(b, m)
  BY <1>3 DEF CastlingMoves, CastlingMove, encode_move, Goes
<1>4. ASSUME NEW t \in {Knight, Bishop, Rook, Queen, King}, m \in PieceMoves(b, t) PROVE Goes(b, m)
  <2>1. /\ m.piece = Piece(b.side, t) /\ m.to \in Attacks(t, m.from, b.occ[white] \cup b.occ[black])
    BY <1>4 DEF PieceMoves, Simple, encode_move
  <2>2. Type(m.piece) = t BY <1>1, <1>4, <2>1, PieceOf DEF Knight, Bishop, Rook, Queen, King
  <2> QED BY <2>1, <2>2 DEF Goes, All
<1> QED BY <1>1, <1>2, <1>3, <1>4 DEF generate_moves, WhitePawnMoves, BlackPawnMoves

\* So does one that has passed the validation.
LEMMA ValidGoes ==
  ASSUME NEW b, NEW m, td_is_pseudo_legal(b, m)
  PROVE  Goes(b, m)
BY DEF td_is_pseudo_legal, Goes

\* The move of a thread's board turns it into the board after.
LEMMA ThreadTurns ==
  ASSUME NEW b, ThreadOK(b, setup), NEW m, Fit(b, m)
  PROVE  Turns(b, m, MovedBoards(b, m, UndoOf(b, m)))
<1> DEFINE undo == UndoOf(b, m)
           new == MovedBoards(b, m, undo)
<1>1. b.bb \in Boards /\ b.side \in {white, black} /\ Disjoint(b.bb) /\ FitFrom(b, m)
  BY DEF ThreadOK, BoardOK, ThreadBoards, Fit
<1>2. CASE FitPlain(b, m)
  <2>1. Taking(b, m, undo.captured_piece, undo.captured_square) BY <1>1, <1>2, VictimIs
  <2>2. PlainMove(b, m, undo.captured_piece, undo.captured_square) BY <1>1, <1>2, <2>1, PlainFacts
  <2> HIDE DEF undo
  <2>3. Shifted(b.bb, new, m, undo.captured_square) BY <1>1, <2>2, PlainMoves
  <2>4. Turns(b, m, new) BY <1>2, <2>1, <2>3 DEF Turns
  <2> QED BY <2>4 DEF undo
<1>3. CASE FitCastling(b, m)
  <2>1. undo.captured_piece = None BY <1>3 DEF UndoOf, FitCastling
  <2>2. BothMove(b, m, CastleRook(m)) BY <1>1, <1>3, CastlingFacts
  <2> HIDE DEF undo
  <2>3. Castled(b.bb, new, m, CastleRook(m)) BY <1>1, <2>1, <2>2, CastlingMovesBoards
  <2>4. Turns(b, m, new) BY <1>3, <2>3 DEF Turns
  <2> QED BY <2>4 DEF undo
<1> QED BY <1>2, <1>3 DEF Fit

\* The conditions on a move, and what a move turns a board into, read the same fields of both kinds of board.
LEMMA FitsAlike ==
  ASSUME NEW b, NEW t, t.bb = b.bb, t.side = b.side, t.castle = b.castle, t.ep = b.ep, NEW m, NEW new
  PROVE  /\ Fit(b, m) <=> Fit(t, m)
         /\ FitFrom(b, m) <=> FitFrom(t, m)
         /\ Turns(b, m, new) <=> Turns(t, m, new)
<1>1. FitPlain(b, m) <=> FitPlain(t, m) BY DEF FitPlain, PawnWay
<1>2. FitCastling(b, m) <=> FitCastling(t, m) BY DEF FitCastling
<1>3. FitFrom(b, m) <=> FitFrom(t, m) BY DEF FitFrom
<1>4. \A v, vs : Taking(b, m, v, vs) <=> Taking(t, m, v, vs) BY DEF Taking
<1> QED BY <1>1, <1>2, <1>3, <1>4 DEF Fit, Turns

\* The move of the game's board.
LEMMA GameTurns ==
  ASSUME NEW b \in GameBoards, BoardOK(b, setup), NEW m, Fit(b, m)
  PROVE  Turns(b, m, Made(b, m).bb)
<1> DEFINE t == copy_board_to_thread(b, <<>>)
           undo == UndoOf(t, m)
           new == MovedBoards(b, m, undo)
<1>1. /\ t.bb = b.bb /\ t.side = b.side /\ t.ep = b.ep /\ t.castle = b.castle
  BY DEF copy_board_to_thread
<1>2. b.bb \in Boards /\ b.side \in {white, black} /\ Disjoint(b.bb) BY DEF GameBoards, BoardOK
<1>3. ThreadOK(t, setup)
  <2>1. <<>> \in Seq(Keys) OBVIOUS
  <2> QED BY <2>1, CopyIsThread
<1> HIDE DEF t
<1>4. Fit(t, m) /\ FitFrom(b, m) BY <1>1, FitsAlike DEF Fit
<1>5. MovedBoards(t, m, undo) = new BY <1>1 DEF MovedBoards
<1>6. Turns(t, m, new) BY <1>3, <1>4, <1>5, ThreadTurns
<1>7. MadeBoards(b, m, VictimsOf(b, m)) = new
  <2>1. CASE FitPlain(b, m)
    <3>1. FitFrom(t, m) /\ FitPlain(t, m) BY <1>1, <1>4, <2>1 DEF FitFrom, FitPlain, PawnWay
    <3>2. Taking(t, m, undo.captured_piece, undo.captured_square) BY <1>3, <3>1, VictimIs
    <3>3. Taking(b, m, undo.captured_piece, undo.captured_square) BY <1>1, <3>2 DEF Taking
    <3> HIDE DEF undo
    <3> QED BY <1>2, <1>4, <2>1, <3>3, PlainSameBoards
  <2>2. CASE FitCastling(b, m)
    <3>1. undo.captured_piece = None BY <2>2 DEF UndoOf, FitCastling
    <3> HIDE DEF undo
    <3> QED BY <1>2, <1>4, <2>2, <3>1, CastlingSame
  <2> QED BY <2>1, <2>2 DEF Fit
<1>8. Made(b, m).bb = MadeBoards(b, m, VictimsOf(b, m))
  BY DEF Made, MadeTaking, MadeOn, MadeFrom, VictimsOf
<1>9. Turns(t, m, Made(b, m).bb) BY <1>6, <1>7, <1>8
<1> QED BY <1>1, <1>9, FitsAlike

\* A safe position of the game's board or of a thread's, whose fields say the same.
LEMMA SafeAlike ==
  ASSUME NEW b, NEW t, t.bb = b.bb, t.occ = b.occ, t.side = b.side, t.ep = b.ep, Safe(b)
  PROVE  Safe(t)
<1>1. All(t) = All(b) BY DEF All
<1>2. \A c : KingSquare(t, c) = KingSquare(b, c) BY DEF KingSquare
<1>3. LeavesKing(t) <=> LeavesKing(b) BY <1>2, AttackedSame DEF LeavesKing
<1>4. Diagonals(t) = Diagonals(b) /\ Straights(t) = Straights(b) BY DEF Diagonals, Straights, Theirs_
<1>5. Unjumped(t) = Unjumped(b) BY <1>1 DEF Unjumped
<1> QED BY <1>1, <1>2, <1>3, <1>4, <1>5 DEF Safe, IsLegal, EpSane

\* A move not known to be legal is tested once made (td_make_move).
LEMMA StepTested ==
  ASSUME NEW b, ThreadOK(b, setup), NEW m, Fit(b, m), NEW listed
  PROVE  \A r \in {step_in(b, m, listed)} :
           r.made => \/ (listed \/ ~InCheck(b)) /\ ~(g_chess960 /\ m.castling)
                     \/ ~LeavesKing(r.td)
<1> DEFINE p == Pushed(b)
           undo == UndoOf(p, m)
           new == MovedBoards(p, m, undo)
           made == MadeMove(p, m, undo, new)
           known == (listed \/ ~InCheck(b)) /\ ~(g_chess960 /\ m.castling)
           legal == known \/ ~LeavesKing(made)
           r == step_in(b, m, listed)
<1>1. p \in ThreadBoards BY PushedIs DEF ThreadOK
<1>2. r = Stepped([made |-> legal, undo |-> undo,
                   td |-> IF legal THEN [made EXCEPT !.plies_from_null = made.plies_from_null + 1] ELSE PutBack(made, m, undo)])
  BY DEF step_in, td_make_move, MakeWith, Tested, Verdict
<1> HIDE DEF p, undo, new, legal
<1>3. DOMAIN made = DOMAIN p BY <1>1 DEF MadeMove, MadeBoard, ThreadBoards
<1> HIDE DEF made, r, known
<1>4. r.made = legal /\ (legal => r.td = [made EXCEPT !.plies_from_null = made.plies_from_null + 1]) BY <1>2 DEF Stepped
<1>5. legal => r.td.bb = made.bb /\ r.td.occ = made.occ /\ r.td.side = made.side
  <2>1. {"bb", "occ", "side"} \subseteq DOMAIN p BY <1>1 DEF ThreadBoards
  <2> QED BY <1>3, <1>4, <2>1
<1>6. legal => (LeavesKing(r.td) <=> LeavesKing(made))
  <2>1. ASSUME legal PROVE LeavesKing(r.td) <=> LeavesKing(made)
    <3>1. KingSquare(r.td, 1 - r.td.side) = KingSquare(made, 1 - made.side) BY <1>5, <2>1 DEF KingSquare
    <3> QED BY <1>5, <2>1, <3>1, AttackedSame DEF LeavesKing
  <2> QED BY <2>1
<1>7. r.made => known \/ ~LeavesKing(r.td) BY <1>4, <1>6 DEF legal
<1> QED BY <1>7 DEF r, known

\* A move the search makes leads to a safe position: a listed one and a validated one outside check are legal, any other
\* one is tested.
LEMMA StepIsSafe ==
  ASSUME NEW b, ThreadOK(b, setup), HomeSetup, Safe(b), NEW m, Fit(b, m), NEW listed,
         listed \/ (td_is_pseudo_legal(b, m) /\ (InCheck(b) \/ legal_before(b, m))),
         listed => ~g_chess960 /\ m \in td_generate_moves(b)
  PROVE  \A r \in {step_in(b, m, listed)} : r.made => Safe(r.td)
<1> DEFINE p == Pushed(b)
<1>1. PICK r : r = step_in(b, m, listed) OBVIOUS
<1>2. SUFFICES ASSUME r.made PROVE Safe(r.td) BY <1>1
<1>3. /\ Leads(p, m, r.td) /\ ThreadOK(r.td, setup)
      /\ ((listed \/ ~InCheck(b)) /\ ~(g_chess960 /\ m.castling)) \/ ~LeavesKing(r.td)
  BY <1>1, <1>2, MadeIs, StepInIs, StepTested
<1>4. ThreadOK(p, setup) /\ Fit(p, m) /\ b \in ThreadBoards BY PushedIs, PushedFits DEF ThreadOK
<1>5. p.bb = b.bb /\ p.side = b.side /\ p.ep = b.ep /\ p.castle = b.castle BY <1>4 DEF Pushed, ThreadBoards
<1>6. Turns(p, m, r.td.bb) BY <1>3, <1>4, ThreadTurns DEF Leads
<1>7. Turns(b, m, r.td.bb) /\ FitFrom(b, m)
  <2> HIDE DEF p
  <2> QED BY <1>5, <1>6, FitsAlike DEF Fit
<1>8. Reached(b, m, r.td) BY <1>3, <1>5, <1>7 DEF Leads, Reached, ThreadOK, BoardOK
<1>9. Ready(b) /\ IsLegal(b) /\ EpSane(b) BY ThreadIsReady DEF Safe
<1>10. CASE listed
  <2>1. m \in generate_legal_tv(b, "all") /\ ~g_chess960 BY <1>10 DEF td_generate_moves
  <2>2. Saved(b, r.td.bb) /\ Goes(b, m) BY <1>7, <1>9, <2>1, ListedIsSafe
  <2> QED BY <1>7, <1>8, <1>9, <2>2, NextIsSafe
<1>11. CASE ~listed
  <2>1. td_is_pseudo_legal(b, m) /\ (InCheck(b) \/ legal_before(b, m)) BY <1>11
  <2>2. Goes(b, m) BY <2>1, ValidGoes
  <2>3. CASE ~LeavesKing(r.td) BY <1>7, <1>8, <1>9, <2>2, <2>3, NextIsSafe
  <2>4. CASE LeavesKing(r.td)
    <3>1. ~InCheck(b) /\ ~(g_chess960 /\ m.castling) BY <1>3, <1>11, <2>4
    <3>2. Saved(b, r.td.bb) BY <1>7, <1>9, <2>1, <3>1, ValidIsSafe
    <3> QED BY <1>7, <1>8, <1>9, <2>2, <3>2, NextIsSafe
  <2> QED BY <2>3, <2>4
<1> QED BY <1>10, <1>11

\* Out of check, to pass the move is safe.
LEMMA NullIsSafe ==
  ASSUME NEW b, ThreadOK(b, setup), IsLegal(b), ~InCheck(b)
  PROVE  Safe(step_in_null(b))
<1> DEFINE x == step_in_null(b)
           p == Pushed(b)
<1>1. b \in ThreadBoards /\ p \in ThreadBoards BY PushedIs DEF ThreadOK
<1>2. p.bb = b.bb /\ p.occ = b.occ /\ p.side = b.side BY <1>1 DEF Pushed, ThreadBoards
<1>3. x = [p EXCEPT !.key = Xor(Xor(p.key, EnpassantKey(b.ep)), side_key), !.ep = no_sq, !.side = 1 - p.side,
                    !.plies_from_null = 0]
  BY DEF step_in_null
<1> HIDE DEF p, x
<1>4. x.bb = b.bb /\ x.occ = b.occ /\ x.side = 1 - b.side /\ x.ep = no_sq BY <1>1, <1>2, <1>3 DEF ThreadBoards
<1>5. b.side \in {0, 1} BY <1>1 DEF ThreadBoards, white, black
<1>6. 1 - x.side = b.side BY <1>4, <1>5
<1>7. All(x) = All(b) BY <1>4 DEF All
<1>8. ~LeavesKing(x)
  <2>1. KingSquare(x, b.side) = KingSquare(b, b.side) BY <1>4 DEF KingSquare
  <2> QED BY <1>4, <1>6, <2>1, AttackedSame DEF LeavesKing, InCheck
<1>9. IsLegal(x) /\ EpSane(x) BY <1>4, <1>7, <1>8 DEF IsLegal, EpSane
<1> QED BY <1>9 DEF Safe, x

\* The game's board is ready for moves.
LEMMA GameIsReady ==
  ASSUME NEW b \in GameBoards, BoardOK(b, setup) PROVE Ready(b)
BY DEF GameBoards, BoardOK, Ready

\* A legal move of the game (make_move) leads to a safe position.
LEMMA PlayIsSafe ==
  ASSUME NEW b \in GameBoards, BoardOK(b, setup), HomeSetup, Safe(b), NEW m \in generate_moves(b), make_move(b, m).legal
  PROVE  Safe(make_move(b, m).board)
<1> DEFINE x == Made(b, m)
<1>1. make_move(b, m).board = x /\ ~LeavesKing(x) BY DEF make_move, Judged, Kept
<1>2. Ready(b) BY GameIsReady
<1>3. Fit(b, m) /\ Goes(b, m) BY <1>2, GeneratedFit, GeneratedGoes
<1>4. BoardOK(x, setup) /\ Turns(b, m, x.bb) BY <1>3, GameMake, GameTurns
<1>5. x.side = 1 - b.side /\ x.ep = IF m.double THEN EpSquare(x.bb, b.side, m.to) ELSE no_sq
  BY DEF Made, MadeTaking, MadeOn, MadeFrom
<1> HIDE DEF x
<1>6. Reached(b, m, x) BY <1>4, <1>5 DEF Reached, BoardOK
<1>7. Safe(x) BY <1>1, <1>2, <1>3, <1>6, NextIsSafe DEF Fit, Safe
<1> QED BY <1>1, <1>7

\* A square of the start position and the man on it.
LEMMA StartMen ==
  ASSUME NEW s \in Squares, NEW p \in Pieces
  PROVE  s \in bitboards_of(start_position.board)[p] <=>
           \/ Row(s) = 0 /\ p = Piece(black, back_rank[File(s) + 1])
           \/ Row(s) = 1 /\ p = Piece(black, Pawn)
           \/ Row(s) = 6 /\ p = Piece(white, Pawn)
           \/ Row(s) = 7 /\ p = Piece(white, back_rank[File(s) + 1])
<1> DEFINE on == start_position.board
<1>1. on[s] = CASE Row(s) = 0 -> Piece(black, back_rank[File(s) + 1])
                [] Row(s) = 1 -> Piece(black, Pawn)
                [] Row(s) = 6 -> Piece(white, Pawn)
                [] Row(s) = 7 -> Piece(white, back_rank[File(s) + 1])
                [] OTHER -> -1
  BY DEF start_position
<1>2. on \in [Squares -> Pieces \cup {-1}] BY StartSound DEF SoundFen, AnyFen
<1>3. s \in bitboards_of(on)[p] <=> on[s] = p BY <1>2, BitboardsAre
<1> HIDE DEF on
<1>4. Row(s) \in 0..7 BY Coordinates
<1>5. /\ Row(s) = 0 => on[s] = Piece(black, back_rank[File(s) + 1])
      /\ Row(s) = 1 => on[s] = Piece(black, Pawn)
      /\ Row(s) = 6 => on[s] = Piece(white, Pawn)
      /\ Row(s) = 7 => on[s] = Piece(white, back_rank[File(s) + 1])
  BY <1>1
<1>6. Row(s) \notin {0, 1, 6, 7} => on[s] = -1 BY <1>1
<1>7. p # -1 BY DEF Pieces
<1> QED BY <1>3, <1>4, <1>5, <1>6, <1>7 DEF on

\* One king each: on the e-file of the back ranks.
LEMMA StartKings ==
  /\ \A s \in Squares : s \in bitboards_of(start_position.board)[Piece(white, King)] <=> Row(s) = 7 /\ File(s) = 4
  /\ \A s \in Squares : s \in bitboards_of(start_position.board)[Piece(black, King)] <=> Row(s) = 0 /\ File(s) = 4
<1>1. \A f \in 0..7 : back_rank[f + 1] \in 0..5 /\ (back_rank[f + 1] = King <=> f = 4)
  BY DEF back_rank, Rook, Knight, Bishop, Queen, King
<1>2. \A s \in Squares : File(s) \in 0..7 BY Coordinates
<1>3. King \in 0..5 /\ Pawn \in 0..5 /\ King # Pawn BY DEF King, Pawn
<1>4. Piece(white, King) \in Pieces /\ Piece(black, King) \in Pieces BY DEF Piece, Pieces, white, black, King
<1>5. ASSUME NEW c \in {white, black}, NEW e \in {white, black}, NEW t \in 0..5
      PROVE  Piece(c, King) = Piece(e, t) <=> c = e /\ t = King
  BY DEF Piece, white, black, King
<1>6. white # black /\ white \in {white, black} /\ black \in {white, black} BY DEF white, black
<1>7. ASSUME NEW s \in Squares
      PROVE  /\ s \in bitboards_of(start_position.board)[Piece(white, King)] <=> Row(s) = 7 /\ File(s) = 4
             /\ s \in bitboards_of(start_position.board)[Piece(black, King)] <=> Row(s) = 0 /\ File(s) = 4
  <2>1. back_rank[File(s) + 1] \in 0..5 /\ (back_rank[File(s) + 1] = King <=> File(s) = 4) BY <1>1, <1>2
  <2> QED BY <1>3, <1>4, <1>5, <1>6, <2>1, StartMen
<1> QED BY <1>7

\* parse_fen accepts the start position: one king each, 32 men, black not in check.
LEMMA StartAccepted == Accepted(start_position)
<1> DEFINE bb == bitboards_of(start_position.board)
           b == [bb |-> bb, occ |-> [c \in {white, black} |-> Occupied(bb, c)]]
<1>1. bb \in Boards /\ start_position.side = white
  BY StartSound, BitboardsAre DEF SoundFen, AnyFen, start_position
<1>2. b.bb = bb /\ \A c \in {white, black} : b.occ[c] = Occupied(b.bb, c) OBVIOUS
<1>3. All(b) = Full(bb) /\ All(b) = b.occ[white] \cup b.occ[black]
  <2> HIDE DEF b, bb
  <2> QED BY <1>1, <1>2, AllIsFull DEF All
<1>4. bb[Piece(white, King)] = {60} /\ bb[Piece(black, King)] = {4}
  <2>1. /\ Row(60) = 7 /\ File(60) = 4 /\ Row(4) = 0 /\ File(4) = 4 /\ 60 \in Squares /\ 4 \in Squares
        /\ \A s \in Squares : s = 8 * Row(s) + File(s)
    <3>1. 60 \in Squares /\ 4 \in Squares BY DEF Squares
    <3> QED BY <3>1, Coordinates DEF Row, File
  <2>2. bb[Piece(white, King)] \subseteq Squares /\ bb[Piece(black, King)] \subseteq Squares
    BY <1>1 DEF Boards, Piece, Pieces, white, black, King
  <2>3. \A s \in Squares : (Row(s) = 7 /\ File(s) = 4 => s = 60) /\ (Row(s) = 0 /\ File(s) = 4 => s = 4)
    BY <2>1
  <2>4. \A s : s \in bb[Piece(white, King)] <=> s = 60 BY <2>1, <2>2, <2>3, StartKings
  <2>5. \A s : s \in bb[Piece(black, King)] <=> s = 4 BY <2>1, <2>2, <2>3, StartKings
  <2> QED BY <2>4, <2>5
<1>5. \A c \in {white, black} : Cardinality(bb[Piece(c, King)]) = 1
  <2>1. Cardinality({60}) = 1 /\ Cardinality({4}) = 1 BY FS_Singleton
  <2> QED BY <1>4, <2>1
<1>6. Cardinality(Full(bb)) <= 32
  <2> DEFINE home == (0..15) \cup (48..63)
  <2>1. Full(bb) \subseteq home
    <3> SUFFICES ASSUME NEW s \in Squares, ~Free(bb, s) PROVE s \in home BY DEF Full
    <3>1. PICK p \in Pieces : s \in bb[p] BY DEF Free
    <3>2. Row(s) \in {0, 1, 6, 7} BY <3>1, StartMen
    <3>3. s = 8 * Row(s) + File(s) /\ File(s) \in 0..7 /\ s \in Int BY Coordinates
    <3> DEFINE r == Row(s)
               f == File(s)
    <3>4. r \in {0, 1, 6, 7} /\ f \in 0..7 /\ s = 8 * r + f /\ s \in Int BY <3>2, <3>3
    <3> HIDE DEF r, f
    <3> QED BY <3>4
  <2>2. IsFiniteSet(0..15) /\ IsFiniteSet(48..63) /\ Cardinality(0..15) = 16 /\ Cardinality(48..63) = 16
    <3>1. 0 \in Int /\ 15 \in Int /\ 48 \in Int /\ 63 \in Int OBVIOUS
    <3>2. IsFiniteSet(0..15) /\ Cardinality(0..15) = IF 0 > 15 THEN 0 ELSE 15 - 0 + 1 BY <3>1, FS_Interval
    <3>3. IsFiniteSet(48..63) /\ Cardinality(48..63) = IF 48 > 63 THEN 0 ELSE 63 - 48 + 1 BY <3>1, FS_Interval
    <3> QED BY <3>2, <3>3
  <2>3. (0..15) \cap (48..63) = {} OBVIOUS
  <2>4. Cardinality({}) = 0 BY FS_EmptySet
  <2>5. IsFiniteSet(home) /\ Cardinality(home) = 32
    <3>1. IsFiniteSet(home) /\ Cardinality(home) = Cardinality(0..15) + Cardinality(48..63) - Cardinality((0..15) \cap (48..63))
      BY <2>2, FS_Union
    <3> QED BY <2>2, <2>3, <2>4, <3>1
  <2> HIDE DEF home
  <2>6. Cardinality(Full(bb)) <= Cardinality(home) BY <2>1, <2>5, FS_Subset
  <2>7. IsFiniteSet(Full(bb)) BY <2>1, <2>5, FS_Subset
  <2>8. Cardinality(Full(bb)) \in Nat BY <2>7, FS_CardinalityType
  <2> QED BY <2>5, <2>6, <2>8
<1>7. \A p \in Men(white) : \A s \in bb[p] : s \in Squares /\ Row(s) \in {6, 7}
  <2> SUFFICES ASSUME NEW p \in Men(white), NEW s \in bb[p] PROVE s \in Squares /\ Row(s) \in {6, 7} OBVIOUS
  <2>1. p \in Pieces /\ p < 6 BY MenIs DEF Pieces
  <2>2. s \in Squares BY <1>1, <2>1 DEF Boards
  <2>3. back_rank[File(s) + 1] \in 0..5
    <3>1. \A f \in 0..7 : back_rank[f + 1] \in 0..5 BY DEF back_rank, Rook, Knight, Bishop, Queen, King
    <3> QED BY <2>2, <3>1, Coordinates
  <2>4. \A t \in 0..5 : Piece(black, t) >= 6 BY DEF Piece, black
  <2>5. Pawn \in 0..5 BY DEF Pawn
  <2>6. p \in Int /\ \A t \in 0..5 : p # Piece(black, t) BY <2>1, <2>4 DEF Pieces, Piece, black
  <2> QED BY <2>1, <2>2, <2>3, <2>5, <2>6, StartMen
<1>8. ~Assails(bb, white, 4, All(b))
  <2>0. 4 \in Squares /\ Row(4) = 0 /\ File(4) = 4 BY DEF Squares, Row, File
  <2>1. \A t \in 0..5 : Piece(white, t) \in Men(white) BY PieceOf
  <2>2. ASSUME NEW u \in Squares, Row(u) \in {6, 7} PROVE ~KnightStep(4, u) /\ ~KingStep(4, u) /\ u \notin pawn_attacks[1 - white][4]
    <3>1. ~KnightStep(4, u) /\ ~KingStep(4, u) BY <2>0, <2>2 DEF KnightStep, KingStep, Apart, Near
    <3>2. 1 - white \in {white, black} BY DEF white, black
    <3>3. u \in pawn_attacks[1 - white][4] => KingStep(4, u) BY <2>0, <3>2, PawnStep
    <3> QED BY <3>1, <3>3
  <2>3. Leaps(bb, white, 4) = {}
    <3>1. Pawn \in 0..5 /\ Knight \in 0..5 /\ King \in 0..5 BY DEF Pawn, Knight, King
    <3>2. \A u : u \notin Leaps(bb, white, 4)
      <4> SUFFICES ASSUME NEW u \in Leaps(bb, white, 4) PROVE FALSE OBVIOUS
      <4>1. PICK p \in Men(white) : u \in bb[p] BY <2>1, <3>1 DEF Leaps
      <4>2. u \in Squares /\ Row(u) \in {6, 7} BY <1>7, <4>1
      <4>3. u \notin knight_attacks[4] /\ u \notin king_attacks[4] /\ u \notin pawn_attacks[1 - white][4]
        BY <2>0, <2>2, <4>2, KnightAttacksAre, KingAttacksAre
      <4> QED BY <4>3 DEF Leaps
    <3> QED BY <3>2
  <2>4. ~Aims(bb, white, 4, All(b))
    <3> SUFFICES ASSUME NEW l \in 1..4, NEW e \in Runs(bb, white, l), Sees(l, 4, e, All(b)) PROVE FALSE BY DEF Aims
    <3>1. PICK t \in {Bishop, Rook, Queen} : e \in bb[Piece(white, t)] BY DEF Runs
    <3>2. t \in 0..5 /\ t # Pawn /\ t # King BY <3>1 DEF Bishop, Rook, Queen, Pawn, King
    <3>3. e \in Squares /\ Row(e) \in {6, 7} BY <1>7, <2>1, <3>1, <3>2
    <3>4. Piece(white, t) \in Pieces /\ Piece(white, t) # Piece(white, Pawn) /\ Piece(white, t) # Piece(white, King)
          /\ \A q \in 0..5 : Piece(white, t) # Piece(black, q)
      BY <3>2 DEF Piece, Pieces, white, black, Pawn, King
    <3>5. Pawn \in 0..5 /\ Row(e) # 0 /\ Row(e) # 1 BY <3>3 DEF Pawn
    <3>6. Row(e) = 7 /\ File(e) \in 0..7 BY <3>1, <3>3, <3>4, <3>5, StartMen, Coordinates
    <3>7. LineOf(l, 4) = LineOf(l, e) BY DEF Sees, OnLine
    <3>8. /\ LineOf(1, 4) = -4 /\ LineOf(2, 4) = 4 /\ LineOf(3, 4) = 4 /\ LineOf(4, 4) = 0 BY <2>0, LineOfIs
    <3>9. File(e) = 4
      <4> DEFINE f == File(e)
      <4>1. LineOf(1, e) = 7 - f /\ LineOf(2, e) = f /\ LineOf(3, e) = 7 + f /\ LineOf(4, e) = 7 BY <3>6, LineOfIs
      <4>2. f \in 0..7 BY <3>6
      <4> HIDE DEF f
      <4>3. l = 1 \/ l = 2 \/ l = 3 \/ l = 4 OBVIOUS
      <4>4. f = 4 BY <3>7, <3>8, <4>1, <4>2, <4>3
      <4> QED BY <4>4 DEF f
    <3>10. e \in bb[Piece(white, King)] BY <3>3, <3>6, <3>9, StartKings
    <3>11. Piece(white, King) \in Pieces BY DEF Piece, Pieces, white, King
    <3>12. Disjoint(bb) BY StartSound, BitboardsAre DEF SoundFen, AnyFen
    <3> HIDE DEF bb
    <3> QED BY <3>1, <3>3, <3>4, <3>10, <3>11, <3>12 DEF Disjoint
  <2> QED BY <2>3, <2>4 DEF Assails
<1>9. ~is_square_attacked(b, KingSquare(b, 1 - white), white)
  <2>1. 1 - white = black BY DEF white, black
  <2>2. 4 \in Squares BY DEF Squares
  <2> HIDE DEF b, bb
  <2>3. KingSquare(b, black) = 4
    <3>1. 4 \in {4} /\ {4} \in SUBSET Int OBVIOUS
    <3>2. Lsb({4}) = 4 BY <3>1, LsbIn
    <3> QED BY <1>2, <1>4, <3>2 DEF KingSquare
  <2> QED BY <1>2, <1>8, <2>1, <2>2, <2>3, AttackedIs
<1>10. Cardinality(b.occ[white] \cup b.occ[black]) <= 32 BY <1>3, <1>6
<1> QED BY <1>1, <1>5, <1>9, <1>10 DEF Accepted

\* A FEN that parse_fen accepts is a position of the rules.
LEMMA AcceptedIsLegal ==
  ASSUME NEW fen, Accepted(fen), fen.side \in {white, black}, NEW c960 \in BOOLEAN
  PROVE  IsLegal(ParsedAs(fen, c960).board)
<1> DEFINE bb == bitboards_of(fen.board)
           b == [bb |-> bb, occ |-> [c \in {white, black} |-> Occupied(bb, c)]]
           x == ParsedAs(fen, c960).board
<1>1. b.bb = bb /\ b.occ = [c \in {white, black} |-> Occupied(bb, c)] OBVIOUS
<1>2. x.bb = bb /\ x.occ = [c \in {white, black} |-> Occupied(bb, c)] /\ x.side = fen.side
  <2>1. \A castle, squares : /\ SetUp(fen, bb, castle, squares).board.bb = bb
                             /\ SetUp(fen, bb, castle, squares).board.occ = [c \in {white, black} |-> Occupied(bb, c)]
                             /\ SetUp(fen, bb, castle, squares).board.side = fen.side
    BY DEF SetUp, Keyed
  <2>2. \E castle, squares : ParsedAs(fen, c960) = SetUp(fen, bb, castle, squares) BY DEF ParsedAs, Parsed, SetUp960
  <2> QED BY <2>1, <2>2
<1>3. /\ \A c \in {white, black} : Cardinality(bb[Piece(c, King)]) = 1
      /\ Cardinality(b.occ[white] \cup b.occ[black]) <= 32
      /\ ~is_square_attacked(b, KingSquare(b, 1 - fen.side), fen.side)
  BY DEF Accepted
<1> HIDE DEF b, x, bb
<1>4. ~LeavesKing(x)
  <2>1. KingSquare(x, 1 - x.side) = KingSquare(b, 1 - fen.side) BY <1>1, <1>2 DEF KingSquare
  <2> QED BY <1>1, <1>2, <1>3, <2>1, AttackedSame DEF LeavesKing
<1>5. Cardinality(All(x)) <= 32 BY <1>1, <1>2, <1>3 DEF All
<1> QED BY <1>2, <1>3, <1>4, <1>5 DEF IsLegal, x

\* parse_fen of any FEN, also of one it refuses (it sets up the start position then), gives a board of the rules: the keys,
\* the occupancies and the castling rights fit the men, each side has one king, the side that moved is not in check, and a
\* pawn can take on the square for en passant.  That there is a pawn to take parse_fen does not check: the board is one the
\* game may start from (BoardOK) when the FEN says no such square without it.
THEOREM OpeningSound ==
  ASSUME NEW fen, AnyFen(fen), NEW c960 \in BOOLEAN
  PROVE  LET f == parse_fen(fen, c960)
         IN  /\ f.board \in GameBoards /\ ParsedOK(f.board, f.setup) /\ IsLegal(f.board)
             /\ ~c960 => f.setup = standard_setup
             /\ EpBacked(fen) => BoardOK(f.board, f.setup)
<1>1. CASE Accepted(fen)
  <2>1. fen.side \in {white, black} BY DEF AnyFen
  <2> QED BY <1>1, <2>1, ParsedSound, AcceptedIsLegal DEF parse_fen
<1>2. CASE ~Accepted(fen)
  <2>1. AnyFen(start_position) /\ EpBacked(start_position) BY StartSound DEF SoundFen
  <2>2. start_position.side \in {white, black} BY <2>1 DEF AnyFen
  <2> QED BY <1>2, <2>1, <2>2, ParsedSound, StartAccepted, AcceptedIsLegal DEF parse_fen
<1> QED BY <1>1, <1>2

\* The game starts on a position of the rules: the FEN is refused otherwise, and the start position is one.
LEMMA InitSafe == Init => Safe(g)
<1> SUFFICES ASSUME Init PROVE Safe(g) OBVIOUS
<1>1. opening.c960 \in BOOLEAN /\ SoundFen(opening.fen) /\ EpSane(parse_fen(opening.fen, opening.c960).board)
  BY OpeningsAssumption DEF Init
<1>2. g = parse_fen(opening.fen, opening.c960).board BY DEF Init
<1>3. PICK fen : g = ParsedAs(fen, opening.c960).board /\ Accepted(fen) /\ SoundFen(fen)
  <2>1. CASE Accepted(opening.fen) BY <1>1, <1>2, <2>1 DEF parse_fen
  <2>2. CASE ~Accepted(opening.fen) BY <1>2, <2>2, StartAccepted, StartSound DEF parse_fen
  <2> QED BY <2>1, <2>2
<1>4. IsLegal(g) BY <1>1, <1>3, AcceptedIsLegal DEF SoundFen, AnyFen
<1> QED BY <1>1, <1>2, <1>4 DEF Safe

(***************************************************************************)
(* The squares the rules reach: their walks from a square, stated from     *)
(* coordinates, are the rays, the jumps and the pawn attacks of the        *)
(* tables.                                                                 *)
(***************************************************************************)
\* A direction of the rules: columns first.
Way2(l, sg) == <<StepFile(l, sg), StepRow(l, sg)>>

\* A square some steps away, by the rules and by the lines.
LEMMA StepTo ==
  ASSUME NEW l \in 1..4, NEW sg \in {1, -1}, NEW s \in Squares, NEW i \in 1..7
  PROVE  /\ Rules!OnBoard(s, Way2(l, sg), i) =>
              Rules!To(s, Way2(l, sg), i) \in Squares /\ At(l, sg, s, Rules!To(s, Way2(l, sg), i), i)
         /\ \A t \in Squares : At(l, sg, s, t, i) => Rules!OnBoard(s, Way2(l, sg), i) /\ Rules!To(s, Way2(l, sg), i) = t
<1> DEFINE d == Way2(l, sg)
           r == Row(s) + i * StepRow(l, sg)
           f == File(s) + i * StepFile(l, sg)
<1>1. d[1] = StepFile(l, sg) /\ d[2] = StepRow(l, sg) BY DEF Way2
<1>2. Rules!OnBoard(s, d, i) <=> f \in 0..7 /\ r \in 0..7
  BY <1>1 DEF Rules!OnBoard, Rules!Col, Rules!Rank, Row, File
<1>3. Rules!To(s, d, i) = 8 * r + f
  BY <1>1 DEF Rules!To, Rules!Sq, Rules!Col, Rules!Rank, Row, File
<1>4. \A t \in Squares : At(l, sg, s, t, i) <=> Row(t) = r /\ File(t) = f BY DEF At
<1> HIDE DEF d, r, f
<1>5. \A t \in Squares : Row(t) \in 0..7 /\ File(t) \in 0..7 /\ t = 8 * Row(t) + File(t) BY Coordinates
<1>6. f \in 0..7 /\ r \in 0..7 => 8 * r + f \in Squares /\ Row(8 * r + f) = r /\ File(8 * r + f) = f BY Coordinates
<1>7. Rules!OnBoard(s, d, i) => Rules!To(s, d, i) \in Squares /\ At(l, sg, s, Rules!To(s, d, i), i)
  BY <1>2, <1>3, <1>4, <1>6
<1>8. \A t \in Squares : At(l, sg, s, t, i) => Rules!OnBoard(s, d, i) /\ Rules!To(s, d, i) = t
  BY <1>2, <1>3, <1>4, <1>5
<1> QED BY <1>7, <1>8 DEF d

\* The squares walked in one direction before something stands in the way.
Walked(bd, s, d, far) ==
  {Rules!To(s, d, n) : n \in {k \in 1..far : /\ Rules!OnBoard(s, d, k)
                                             /\ \A i \in 1..(k - 1) : bd[Rules!To(s, d, i)] = Rules!Empty}}

\* What the walk sees is what a line sees on one side.
LEMMA WalkedSees ==
  ASSUME NEW l \in 1..4, NEW sg \in {1, -1}, NEW s \in Squares, NEW bd, NEW occ \in SUBSET Squares,
         \A u \in Squares : bd[u] = None <=> u \notin occ, NEW t
  PROVE  t \in Walked(bd, s, Way2(l, sg), 7) <=> Sees(l, s, t, occ) /\ Way(sg, s, t)
<1> DEFINE d == Way2(l, sg)
           Open(k) == \A i \in 1..(k - 1) : bd[Rules!To(s, d, i)] = Rules!Empty
<1>1. t \in Walked(bd, s, d, 7) <=> \E k \in 1..7 : Rules!OnBoard(s, d, k) /\ Open(k) /\ t = Rules!To(s, d, k)
  BY DEF Walked
<1>2. Rules!Empty = None BY RulesTerms
<1>3. \A u \in Squares : OnLine(l, s, u) /\ Way(sg, s, u) => \E i \in 1..7 : At(l, sg, s, u, i) BY Stepwise
<1>4. \A u \in Squares : \A i \in 1..7 : At(l, sg, s, u, i) => OnLine(l, s, u) /\ Way(sg, s, u) BY Stepwise
<1>5. \A i \in 1..7 : Rules!OnBoard(s, d, i) => Rules!To(s, d, i) \in Squares /\ At(l, sg, s, Rules!To(s, d, i), i) BY StepTo
<1>6. \A i \in 1..7 : \A u \in Squares : At(l, sg, s, u, i) => Rules!OnBoard(s, d, i) /\ Rules!To(s, d, i) = u BY StepTo
<1> HIDE DEF d
<1>7. ASSUME NEW k \in 1..7, Rules!OnBoard(s, d, k), Open(k), t = Rules!To(s, d, k)
      PROVE  Sees(l, s, t, occ) /\ Way(sg, s, t)
  <2>1. t \in Squares /\ At(l, sg, s, t, k) BY <1>5, <1>7
  <2>2. OnLine(l, s, t) /\ Way(sg, s, t) BY <1>4, <2>1
  <2>3. ASSUME NEW u \in occ, u \in Squares, OnLine(l, s, u), Inside(u, s, t) PROVE FALSE
    <3>1. Way(sg, s, u)
      <4>1. s \in Int /\ u \in Int /\ t \in Int BY <2>1, <2>3 DEF Squares
      <4> QED BY <2>2, <2>3, <4>1 DEF Way, Inside
    <3>2. PICK h \in 1..7 : At(l, sg, s, u, h) BY <1>3, <2>3, <3>1
    <3>3. Inside(u, s, t) <=> h < k BY <2>1, <2>3, <3>2, StepsBetween
    <3>4. h \in 1..(k - 1) BY <2>3, <3>3
    <3>5. Rules!To(s, d, h) = u BY <1>6, <2>3, <3>2
    <3> QED BY <1>2, <1>7, <2>3, <3>4, <3>5
  <2> QED BY <2>1, <2>2, <2>3 DEF Sees, Clear
<1>8. ASSUME Sees(l, s, t, occ), Way(sg, s, t)
      PROVE  \E k \in 1..7 : Rules!OnBoard(s, d, k) /\ Open(k) /\ t = Rules!To(s, d, k)
  <2>1. t \in Squares /\ OnLine(l, s, t) /\ Clear(l, s, t, occ) BY <1>8 DEF Sees
  <2>2. PICK k \in 1..7 : At(l, sg, s, t, k) BY <1>3, <1>8, <2>1
  <2>3. Rules!OnBoard(s, d, k) /\ Rules!To(s, d, k) = t BY <1>6, <2>1, <2>2
  <2>4. ASSUME NEW h \in 1..(k - 1) PROVE bd[Rules!To(s, d, h)] = Rules!Empty
    <3>1. h \in 1..7 /\ h < k OBVIOUS
    <3>2. PICK u \in Squares : At(l, sg, s, u, h)
      <4>1. /\ Row(s) \in 0..7 /\ File(s) \in 0..7 /\ Row(t) \in 0..7 /\ File(t) \in 0..7 BY <2>1, Coordinates
      <4>2. /\ Row(t) = Row(s) + k * StepRow(l, sg) /\ File(t) = File(s) + k * StepFile(l, sg) BY <2>2 DEF At
      <4>3. StepRow(l, sg) \in {-1, 0, 1} /\ StepFile(l, sg) \in {-1, 0, 1} BY StepIs
      <4>4. \A x \in 0..7 : \A y \in {-1, 0, 1} : x + k * y \in 0..7 => x + h * y \in 0..7
        <5>1. \A y \in {-1, 0, 1} : y = -1 \/ y = 0 \/ y = 1 OBVIOUS
        <5>2. k * (-1) = -k /\ k * 0 = 0 /\ k * 1 = k /\ h * (-1) = -h /\ h * 0 = 0 /\ h * 1 = h BY TimesStep
        <5> QED BY <3>1, <5>1, <5>2
      <4>5. Row(s) + h * StepRow(l, sg) \in 0..7 /\ File(s) + h * StepFile(l, sg) \in 0..7
        BY <4>1, <4>2, <4>3, <4>4
      <4> DEFINE u == 8 * (Row(s) + h * StepRow(l, sg)) + (File(s) + h * StepFile(l, sg))
      <4>6. u \in Squares /\ Row(u) = Row(s) + h * StepRow(l, sg) /\ File(u) = File(s) + h * StepFile(l, sg)
        BY <4>5, Coordinates
      <4> QED BY <4>6 DEF At
    <3>3. Rules!To(s, d, h) = u BY <1>6, <3>1, <3>2
    <3>4. OnLine(l, s, u) BY <1>4, <3>1, <3>2
    <3>5. Inside(u, s, t) BY <2>1, <2>2, <3>1, <3>2, StepsBetween
    <3>6. u \notin occ BY <2>1, <3>4, <3>5 DEF Clear
    <3> QED BY <1>2, <3>3, <3>6
  <2> QED BY <2>3, <2>4
<1> QED BY <1>1, <1>7, <1>8 DEF d

\* A walk in several directions.
LEMMA WalkIs ==
  ASSUME NEW bd, NEW s, NEW dirs, NEW far, NEW t
  PROVE  t \in Rules!Walk(bd, s, dirs, far) <=> \E d \in dirs : t \in Walked(bd, s, d, far)
BY DEF Rules!Walk, Walked

\* The squares a bishop, a rook and a queen of the rules reach.
LEMMA SlidersReach ==
  ASSUME NEW s \in Squares, NEW bd, NEW occ \in SUBSET Squares,
         \A u \in Squares : bd[u] = None <=> u \notin occ, NEW t
  PROVE  /\ t \in Rules!Walk(bd, s, Rules!Oblique, 7) <=> \E l \in {1, 3} : Sees(l, s, t, occ)
         /\ t \in Rules!Walk(bd, s, Rules!Orthogonal, 7) <=> \E l \in {2, 4} : Sees(l, s, t, occ)
         /\ t \in Rules!Walk(bd, s, Rules!Orthogonal \cup Rules!Oblique, 7) <=> \E l \in 1..4 : Sees(l, s, t, occ)
<1>1. ASSUME NEW l \in 1..4
      PROVE  (t \in Walked(bd, s, Way2(l, 1), 7) \/ t \in Walked(bd, s, Way2(l, -1), 7)) <=> Sees(l, s, t, occ)
  <2>1. \A sg \in {1, -1} : t \in Walked(bd, s, Way2(l, sg), 7) <=> Sees(l, s, t, occ) /\ Way(sg, s, t) BY WalkedSees
  <2>2. Sees(l, s, t, occ) => Way(1, s, t) \/ Way(-1, s, t)
    <3>1. Sees(l, s, t, occ) => t \in Int /\ s \in Int /\ s # t BY DEF Sees, OnLine, Squares
    <3> QED BY <3>1 DEF Way
  <2>3. 1 \in {1, -1} /\ -1 \in {1, -1} OBVIOUS
  <2> QED BY <2>1, <2>2, <2>3
<1>2. /\ Way2(1, 1) = <<1, 1>> /\ Way2(1, -1) = <<-1, -1>> /\ Way2(3, 1) = <<-1, 1>> /\ Way2(3, -1) = <<1, -1>>
      /\ Way2(2, 1) = <<0, 1>> /\ Way2(2, -1) = <<0, -1>> /\ Way2(4, 1) = <<1, 0>> /\ Way2(4, -1) = <<-1, 0>>
  BY DEF Way2, StepFile, StepRow
<1>3. \A d : d \in Rules!Oblique <=> d = Way2(1, 1) \/ d = Way2(1, -1) \/ d = Way2(3, 1) \/ d = Way2(3, -1)
  BY <1>2 DEF Rules!Oblique
<1>4. \A d : d \in Rules!Orthogonal <=> d = Way2(2, 1) \/ d = Way2(2, -1) \/ d = Way2(4, 1) \/ d = Way2(4, -1)
  BY <1>2 DEF Rules!Orthogonal
<1> DEFINE W(d) == t \in Walked(bd, s, d, 7)
<1>5. \A dirs : t \in Rules!Walk(bd, s, dirs, 7) <=> \E d \in dirs : W(d) BY WalkIs
<1>6. \A l \in 1..4 : (W(Way2(l, 1)) \/ W(Way2(l, -1))) <=> Sees(l, s, t, occ) BY <1>1
<1>7. 1 \in 1..4 /\ 2 \in 1..4 /\ 3 \in 1..4 /\ 4 \in 1..4 OBVIOUS
<1>8. \A l : l \in 1..4 <=> l = 1 \/ l = 2 \/ l = 3 \/ l = 4 OBVIOUS
<1> HIDE DEF W
<1>9. (\E d \in Rules!Oblique : W(d)) <=> Sees(1, s, t, occ) \/ Sees(3, s, t, occ) BY <1>3, <1>6, <1>7
<1>10. (\E d \in Rules!Orthogonal : W(d)) <=> Sees(2, s, t, occ) \/ Sees(4, s, t, occ) BY <1>4, <1>6, <1>7
<1>11. (\E d \in Rules!Orthogonal \cup Rules!Oblique : W(d)) <=> (\E d \in Rules!Oblique : W(d)) \/ (\E d \in Rules!Orthogonal : W(d))
  OBVIOUS
<1> QED BY <1>5, <1>8, <1>9, <1>10, <1>11

\* The squares a knight and a king of the rules reach.
LEMMA LeapersReach ==
  ASSUME NEW s \in Squares, NEW bd, NEW t
  PROVE  /\ t \in Rules!Walk(bd, s, Rules!Jumps, 1) <=> t \in Squares /\ KnightStep(s, t)
         /\ t \in Rules!Walk(bd, s, Rules!Orthogonal \cup Rules!Oblique, 1) <=> t \in Squares /\ KingStep(s, t)
<1> DEFINE At1(x, y) == File(s) + x \in 0..7 /\ Row(s) + y \in 0..7 /\ t = 8 * (Row(s) + y) + (File(s) + x)
           By(x, y) == t \in Squares /\ File(t) = File(s) + x /\ Row(t) = Row(s) + y
           W(d) == Rules!OnBoard(s, d, 1) /\ t = Rules!To(s, d, 1)
<1>1. Row(s) \in 0..7 /\ File(s) \in 0..7 BY Coordinates
<1>2. ASSUME NEW x \in {-2, -1, 0, 1, 2}, NEW y \in {-2, -1, 0, 1, 2} PROVE W(<<x, y>>) <=> By(x, y)
  <2>1. <<x, y>>[1] = x /\ <<x, y>>[2] = y /\ 1 * x = x /\ 1 * y = y OBVIOUS
  <2>2. W(<<x, y>>) <=> At1(x, y)
    BY <2>1 DEF Rules!OnBoard, Rules!To, Rules!Sq, Rules!Col, Rules!Rank, Row, File
  <2>3. At1(x, y) => By(x, y) BY Coordinates
  <2>4. By(x, y) => At1(x, y) BY Coordinates
  <2> QED BY <2>2, <2>3, <2>4
<1> HIDE DEF W, At1
<1>3. \A dirs : t \in Rules!Walk(bd, s, dirs, 1) <=> \E d \in dirs : W(d) BY ShortWalk DEF W
<1>4. (\E d \in Rules!Jumps : W(d)) <=>
        \/ W(<<1, 2>>) \/ W(<<1, -2>>) \/ W(<<-1, 2>>) \/ W(<<-1, -2>>)
        \/ W(<<2, 1>>) \/ W(<<2, -1>>) \/ W(<<-2, 1>>) \/ W(<<-2, -1>>)
  BY DEF Rules!Jumps
<1>5. (\E d \in Rules!Orthogonal \cup Rules!Oblique : W(d)) <=>
        \/ W(<<0, 1>>) \/ W(<<0, -1>>) \/ W(<<1, 0>>) \/ W(<<-1, 0>>)
        \/ W(<<1, 1>>) \/ W(<<1, -1>>) \/ W(<<-1, 1>>) \/ W(<<-1, -1>>)
  BY DEF Rules!Orthogonal, Rules!Oblique
<1>6. (\E d \in Rules!Jumps : W(d)) <=>
        \/ By(1, 2) \/ By(1, -2) \/ By(-1, 2) \/ By(-1, -2) \/ By(2, 1) \/ By(2, -1) \/ By(-2, 1) \/ By(-2, -1)
  BY <1>2, <1>4
<1>7. (\E d \in Rules!Orthogonal \cup Rules!Oblique : W(d)) <=>
        \/ By(0, 1) \/ By(0, -1) \/ By(1, 0) \/ By(-1, 0) \/ By(1, 1) \/ By(1, -1) \/ By(-1, 1) \/ By(-1, -1)
  BY <1>2, <1>5
<1>8. t \in Squares => Row(t) \in 0..7 /\ File(t) \in 0..7 BY Coordinates
<1>9. (\E d \in Rules!Jumps : W(d)) <=> t \in Squares /\ KnightStep(s, t)
  BY <1>1, <1>6, <1>8 DEF KnightStep, Apart
<1>10. t \in Squares => (s # t <=> Row(s) # Row(t) \/ File(s) # File(t)) BY Coordinates
<1>11. (\E d \in Rules!Orthogonal \cup Rules!Oblique : W(d)) <=> t \in Squares /\ KingStep(s, t)
  BY <1>1, <1>7, <1>8, <1>10 DEF KingStep, Near, Apart
<1> QED BY <1>3, <1>9, <1>11

\* The kind and the owner of a man.
LEMMA ManIs ==
  ASSUME NEW c \in {white, black}, NEW k \in 0..5
  PROVE  Rules!Kind(Piece(c, k)) = k /\ Rules!Owner(Piece(c, k)) = c /\ Piece(c, k) # None /\ Piece(c, k) \in Pieces
BY DEF Rules!Kind, Rules!Owner, Piece, None, Pieces, white, black

\* What a piece of the rules reaches is what the engine's tables and kernels give.
LEMMA PieceReach ==
  ASSUME NEW bb \in Boards, Disjoint(bb), NEW c \in {white, black}, NEW k \in 1..5, NEW s \in bb[Piece(c, k)], NEW t
  PROVE  t \in Rules!Reach(mailbox_of(bb), s) <=> t \in Attacks(k, s, Full(bb))
<1> DEFINE bd == mailbox_of(bb)
           occ == Full(bb)
<1>1. k \in 0..5 /\ Piece(c, k) \in Pieces BY ManIs
<1>2. s \in Squares BY <1>1 DEF Boards
<1>3. bd[s] = Piece(c, k) BY <1>1, <1>2, StandsOn
<1>4. Rules!Kind(bd[s]) = k BY <1>1, <1>3, ManIs
<1>5. occ \in SUBSET Squares BY DEF Full
<1>6. \A u \in Squares : bd[u] = None <=> u \notin occ BY StandsOn DEF Full
<1>7. \A i \in {1, 2} : t \in slider_pair(s, occ)[i] <=> \E l \in {i, i + 2} : Sees(l, s, t, occ) BY <1>2, SliderSees
<1>8. knight_attacks[s] \subseteq Squares /\ king_attacks[s] \subseteq Squares BY <1>2, LeapersOnBoard
<1> HIDE DEF bd, occ
<1>9. CASE k = 1
  <2>1. Rules!Reach(bd, s) = Rules!Walk(bd, s, Rules!Jumps, 1) BY <1>4, <1>9 DEF Rules!Reach
  <2>2. Attacks(k, s, occ) = knight_attacks[s] BY <1>9 DEF Attacks, Knight, King
  <2>3. t \in Squares => (t \in knight_attacks[s] <=> KnightStep(s, t)) BY <1>2, KnightAttacksAre
  <2> QED BY <1>2, <1>8, <2>1, <2>2, <2>3, LeapersReach DEF bd, occ
<1>10. CASE k = 5
  <2>1. Rules!Reach(bd, s) = Rules!Walk(bd, s, Rules!Orthogonal \cup Rules!Oblique, 1) BY <1>4, <1>10 DEF Rules!Reach
  <2>2. Attacks(k, s, occ) = king_attacks[s] BY <1>10 DEF Attacks, Knight, King
  <2>3. t \in Squares => (t \in king_attacks[s] <=> KingStep(s, t)) BY <1>2, KingAttacksAre
  <2> QED BY <1>2, <1>8, <2>1, <2>2, <2>3, LeapersReach DEF bd, occ
<1>11. CASE k = 2
  <2>1. Rules!Reach(bd, s) = Rules!Walk(bd, s, Rules!Oblique, 7) BY <1>4, <1>11 DEF Rules!Reach
  <2>2. Attacks(k, s, occ) = slider_pair(s, occ)[1] BY <1>11 DEF Attacks, SliderAttacks, Knight, King, Bishop, Rook, Queen
  <2>3. t \in Rules!Reach(bd, s) <=> \E l \in {1, 3} : Sees(l, s, t, occ) BY <1>2, <1>5, <1>6, <2>1, SlidersReach
  <2> QED BY <1>7, <2>2, <2>3 DEF bd, occ
<1>12. CASE k = 3
  <2>1. Rules!Reach(bd, s) = Rules!Walk(bd, s, Rules!Orthogonal, 7) BY <1>4, <1>12 DEF Rules!Reach
  <2>2. Attacks(k, s, occ) = slider_pair(s, occ)[2] BY <1>12 DEF Attacks, SliderAttacks, Knight, King, Bishop, Rook, Queen
  <2>3. t \in Rules!Reach(bd, s) <=> \E l \in {2, 4} : Sees(l, s, t, occ) BY <1>2, <1>5, <1>6, <2>1, SlidersReach
  <2> QED BY <1>7, <2>2, <2>3 DEF bd, occ
<1>13. CASE k = 4
  <2>1. Rules!Reach(bd, s) = Rules!Walk(bd, s, Rules!Orthogonal \cup Rules!Oblique, 7) BY <1>4, <1>13 DEF Rules!Reach
  <2>2. Attacks(k, s, occ) = slider_pair(s, occ)[1] \cup slider_pair(s, occ)[2]
    BY <1>13 DEF Attacks, SliderAttacks, Knight, King, Bishop, Rook, Queen
  <2>3. t \in Rules!Reach(bd, s) <=> \E l \in 1..4 : Sees(l, s, t, occ)
    <3>1. t \in Rules!Walk(bd, s, Rules!Orthogonal \cup Rules!Oblique, 7) <=> \E l \in 1..4 : Sees(l, s, t, occ)
      BY <1>2, <1>5, <1>6, SlidersReach, Zenon
    <3> QED BY <2>1, <3>1, Zenon
  <2>4. (\E l \in 1..4 : Sees(l, s, t, occ)) <=> (\E l \in {1, 3} : Sees(l, s, t, occ)) \/ (\E l \in {2, 4} : Sees(l, s, t, occ))
    OBVIOUS
  <2> QED BY <1>7, <2>2, <2>3, <2>4 DEF bd, occ
<1> QED BY <1>9, <1>10, <1>11, <1>12, <1>13

\* The men of a side on the board of the rules.
LEMMA OursAre ==
  ASSUME NEW bb \in Boards, Disjoint(bb), NEW c \in {white, black}, NEW s \in Squares
  PROVE  Rules!Ours(mailbox_of(bb), s, c) <=> \E k \in 0..5 : s \in bb[Piece(c, k)]
<1> DEFINE x == mailbox_of(bb)[s]
<1>1. x \in Pieces \cup {None} /\ \A p \in Pieces : x = p <=> s \in bb[p] BY StandsOn
<1>2. Rules!Ours(mailbox_of(bb), s, c) <=> x # None /\ Rules!Owner(x) = c BY RulesTerms DEF Rules!Ours
<1> HIDE DEF x
<1>3. x \in Pieces /\ Rules!Owner(x) = c => \E k \in 0..5 : x = Piece(c, k)
  <2> SUFFICES ASSUME x \in Pieces, Rules!Owner(x) = c PROVE x % 6 \in 0..5 /\ x = Piece(c, x % 6) OBVIOUS
  <2> QED BY DEF Pieces, Rules!Owner, Piece, white, black
<1>4. \A k \in 0..5 : Rules!Owner(Piece(c, k)) = c /\ Piece(c, k) # None /\ Piece(c, k) \in Pieces BY ManIs
<1> QED BY <1>1, <1>2, <1>3, <1>4

\* A square is attacked by the rules exactly when a man of that side assails it.
LEMMA RulesAttack ==
  ASSUME NEW bb \in Boards, Disjoint(bb), NEW by \in {white, black}, NEW s \in Squares
  PROVE  Rules!Attacked(mailbox_of(bb), s, by) <=> Assails(bb, by, s, Full(bb))
<1> DEFINE bd == mailbox_of(bb)
           occ == Full(bb)
           Harms(k) == \E t \in bb[Piece(by, k)] : s \in Rules!Reach(bd, t)
<1>1. \A k \in 0..5 : Piece(by, k) \in Pieces /\ bb[Piece(by, k)] \subseteq Squares BY ManIs DEF Boards
<1>2. Rules!Attacked(bd, s, by) <=> \E k \in 0..5 : Harms(k)
  <2>1. Rules!Attacked(bd, s, by) <=> \E t \in Squares : Rules!Ours(bd, t, by) /\ s \in Rules!Reach(bd, t)
    BY RulesTerms DEF Rules!Attacked
  <2>2. \A t \in Squares : Rules!Ours(bd, t, by) <=> \E k \in 0..5 : t \in bb[Piece(by, k)] BY OursAre
  <2> HIDE DEF bd
  <2> QED BY <1>1, <2>1, <2>2
<1>3. \A k \in 0..5 : k = 0 \/ k = 1 \/ k = 2 \/ k = 3 \/ k = 4 \/ k = 5 OBVIOUS
<1>4. \A l \in 1..4 : \A t \in Squares : Sees(l, t, s, occ) <=> Sees(l, s, t, occ) BY SeenBack
<1>5. \A t \in Squares : \A i \in {1, 2} : s \in slider_pair(t, occ)[i] <=> \E l \in {i, i + 2} : Sees(l, t, s, occ) BY SliderSees
<1>6. \A k \in 1..5 : \A t \in bb[Piece(by, k)] : s \in Rules!Reach(bd, t) <=> s \in Attacks(k, t, occ) BY PieceReach
<1>7. Harms(0) <=> pawn_attacks[1 - by][s] \cap bb[Piece(by, Pawn)] # {}
  <2>1. \A t \in bb[Piece(by, 0)] : bd[t] = Piece(by, Pawn) BY <1>1, StandsOn DEF Pawn
  <2>2. \A t \in bb[Piece(by, 0)] : s \in Rules!Reach(bd, t) <=> s \in pawn_attacks[by][t] BY <1>1, <2>1, PawnReach
  <2>3. \A t \in Squares : s \in pawn_attacks[by][t] <=> t \in pawn_attacks[1 - by][s] BY PawnsMeet
  <2>4. \A t \in bb[Piece(by, 0)] : s \in Rules!Reach(bd, t) <=> t \in pawn_attacks[1 - by][s] BY <1>1, <2>2, <2>3
  <2> QED BY <2>4 DEF Pawn
<1>8. Harms(1) <=> knight_attacks[s] \cap bb[Piece(by, Knight)] # {}
  <2>1. \A t : Attacks(1, t, occ) = knight_attacks[t] BY DEF Attacks, Knight, King
  <2>2. \A t \in Squares : s \in knight_attacks[t] <=> t \in knight_attacks[s] BY LeapersMeet
  <2>3. \A t \in bb[Piece(by, 1)] : s \in Rules!Reach(bd, t) <=> t \in knight_attacks[s] BY <1>1, <1>6, <2>1, <2>2
  <2> QED BY <2>3 DEF Knight
<1>9. Harms(5) <=> king_attacks[s] \cap bb[Piece(by, King)] # {}
  <2>1. \A t : Attacks(5, t, occ) = king_attacks[t] BY DEF Attacks, Knight, King
  <2>2. \A t \in Squares : s \in king_attacks[t] <=> t \in king_attacks[s] BY LeapersMeet
  <2>3. \A t \in bb[Piece(by, 5)] : s \in Rules!Reach(bd, t) <=> t \in king_attacks[s] BY <1>1, <1>6, <2>1, <2>2
  <2> QED BY <2>3 DEF King
<1>10. Harms(2) <=> \E l \in {1, 3} : \E e \in bb[Piece(by, Bishop)] : Sees(l, s, e, occ)
  <2>1. \A t : Attacks(2, t, occ) = slider_pair(t, occ)[1] BY DEF Attacks, SliderAttacks, Knight, King, Bishop, Rook, Queen
  <2>2. \A t \in bb[Piece(by, 2)] : s \in Rules!Reach(bd, t) <=> \E l \in {1, 3} : Sees(l, t, s, occ) BY <1>1, <1>5, <1>6, <2>1
  <2>3. \A t \in bb[Piece(by, 2)] : s \in Rules!Reach(bd, t) <=> \E l \in {1, 3} : Sees(l, s, t, occ) BY <1>1, <1>4, <2>2
  <2> HIDE DEF bd, occ
  <2> QED BY <2>3 DEF Bishop
<1>11. Harms(3) <=> \E l \in {2, 4} : \E e \in bb[Piece(by, Rook)] : Sees(l, s, e, occ)
  <2>1. \A t : Attacks(3, t, occ) = slider_pair(t, occ)[2] BY DEF Attacks, SliderAttacks, Knight, King, Bishop, Rook, Queen
  <2>2. \A t \in bb[Piece(by, 3)] : s \in Rules!Reach(bd, t) <=> \E l \in {2, 4} : Sees(l, t, s, occ) BY <1>1, <1>5, <1>6, <2>1
  <2>3. \A t \in bb[Piece(by, 3)] : s \in Rules!Reach(bd, t) <=> \E l \in {2, 4} : Sees(l, s, t, occ) BY <1>1, <1>4, <2>2
  <2> HIDE DEF bd, occ
  <2> QED BY <2>3 DEF Rook
<1>12. Harms(4) <=> \E l \in 1..4 : \E e \in bb[Piece(by, Queen)] : Sees(l, s, e, occ)
  <2>1. \A t : Attacks(4, t, occ) = slider_pair(t, occ)[1] \cup slider_pair(t, occ)[2]
    BY DEF Attacks, SliderAttacks, Knight, King, Bishop, Rook, Queen
  <2>2. \A t \in bb[Piece(by, 4)] : s \in Rules!Reach(bd, t) <=> \E l \in 1..4 : Sees(l, t, s, occ)
    <3>1. \A t \in bb[Piece(by, 4)] : s \in Rules!Reach(bd, t) <=>
            (\E l \in {1, 3} : Sees(l, t, s, occ)) \/ (\E l \in {2, 4} : Sees(l, t, s, occ)) BY <1>1, <1>5, <1>6, <2>1
    <3> HIDE DEF bd, occ
    <3> QED BY <3>1
  <2>3. \A t \in bb[Piece(by, 4)] : s \in Rules!Reach(bd, t) <=> \E l \in 1..4 : Sees(l, s, t, occ) BY <1>1, <1>4, <2>2
  <2> HIDE DEF bd, occ
  <2> QED BY <2>3 DEF Queen
<1> HIDE DEF bd, occ, Hit
<1>13. Rules!Attacked(bd, s, by) <=> Harms(0) \/ Harms(1) \/ Harms(2) \/ Harms(3) \/ Harms(4) \/ Harms(5) BY <1>2, <1>3
<1>14. Leaps(bb, by, s) # {} <=> Harms(0) \/ Harms(1) \/ Harms(5) BY <1>7, <1>8, <1>9 DEF Leaps
<1>15. Aims(bb, by, s, occ) <=> Harms(2) \/ Harms(3) \/ Harms(4)
  <2>1. \A l : l \in 1..4 <=> l = 1 \/ l = 2 \/ l = 3 \/ l = 4 OBVIOUS
  <2> QED BY <1>10, <1>11, <1>12, <2>1, RunsAre DEF Aims
<1> QED BY <1>13, <1>14, <1>15 DEF Assails, bd, occ

(***************************************************************************)
(* Check by the rules: the king a make of the code spares is the king the  *)
(* rules keep out of check.                                                *)
(***************************************************************************)
\* The king of a side, by the rules.
LEMMA RulesKing ==
  ASSUME NEW bb \in Boards, Disjoint(bb), NEW c \in {white, black}, Cardinality(bb[Piece(c, King)]) = 1
  PROVE  /\ Rules!KingOf(mailbox_of(bb), c) \in bb[Piece(c, King)]
         /\ Rules!KingOf(mailbox_of(bb), c) \in Squares
         /\ \A x \in bb[Piece(c, King)] : x = Rules!KingOf(mailbox_of(bb), c)
<1> DEFINE bd == mailbox_of(bb)
           K == Piece(c, King)
<1>1. K = 5 + 6 * c /\ K \in Pieces BY DEF Piece, King, Pieces, white, black
<1>2. \A s \in Squares : bd[s] = K <=> s \in bb[K] BY <1>1, StandsOn
<1>3. Rules!KingOf(bd, c) = CHOOSE s \in Squares : bd[s] = K BY <1>1, RulesTerms DEF Rules!KingOf
<1>4. \A x, y \in bb[K] : x = y BY KingsAre
<1>5. bb[K] \subseteq Squares BY <1>1 DEF Boards
<1>6. bb[K] # {}
  <2> SUFFICES ASSUME bb[K] = {} PROVE FALSE OBVIOUS
  <2> QED BY FS_EmptySet
<1> HIDE DEF bd, K
<1>7. Rules!KingOf(bd, c) \in Squares /\ bd[Rules!KingOf(bd, c)] = K BY <1>2, <1>3, <1>5, <1>6
<1> QED BY <1>2, <1>4, <1>7 DEF bd, K

\* The check of the rules.
LEMMA RulesCheck ==
  ASSUME NEW bb \in Boards, Disjoint(bb), NEW c \in {white, black}, Cardinality(bb[Piece(c, King)]) = 1
  PROVE  Rules!InCheck(mailbox_of(bb), c) <=> \E k \in bb[Piece(c, King)] : Assails(bb, 1 - c, k, Full(bb))
<1> DEFINE k == Rules!KingOf(mailbox_of(bb), c)
<1>1. k \in bb[Piece(c, King)] /\ k \in Squares /\ \A x \in bb[Piece(c, King)] : x = k BY RulesKing
<1>2. 1 - c \in {white, black} BY DEF white, black
<1>3. Rules!InCheck(mailbox_of(bb), c) <=> Rules!Attacked(mailbox_of(bb), k, 1 - c) BY DEF Rules!InCheck
<1> HIDE DEF k
<1>4. Rules!Attacked(mailbox_of(bb), k, 1 - c) <=> Assails(bb, 1 - c, k, Full(bb)) BY <1>1, <1>2, RulesAttack
<1> QED BY <1>1, <1>3, <1>4

\* No two men share a square after a move either.
LEMMA TurnedApart ==
  ASSUME NEW b, Ready(b), NEW m, FitFrom(b, m), NEW new, Turns(b, m, new)
  PROVE  new \in Boards /\ Disjoint(new)
<1>1. b.bb \in Boards /\ b.side \in {white, black} /\ Disjoint(b.bb) BY DEF Ready
<1>2. CASE FitPlain(b, m) /\ \E v, vs : Taking(b, m, v, vs) /\ Shifted(b.bb, new, m, vs)
  <2>1. PICK v, vs : Taking(b, m, v, vs) /\ Shifted(b.bb, new, m, vs) BY <1>2
  <2>2. PlainMove(b, m, v, vs) BY <1>1, <1>2, <2>1, PlainFacts
  <2>3. Mirrors(mailbox_of(new), new) BY <1>1, <2>1, <2>2, PlainStands
  <2> QED BY <2>1, <2>3, MirroredDisjoint DEF Shifted
<1>3. CASE FitCastling(b, m) /\ Castled(b.bb, new, m, CastleRook(m))
  <2>1. BothMove(b, m, CastleRook(m)) BY <1>1, <1>3, CastlingFacts
  <2>2. mailbox_of(b.bb) \in [Squares -> Pieces \cup {None}] /\ Mirrors(mailbox_of(b.bb), b.bb) BY <1>1, MailboxIs
  <2>3. Mirrors(td_mailbox_apply(mailbox_of(b.bb), m, None, None), new) BY <1>1, <1>3, <2>1, <2>2, CastlingMailbox
  <2> QED BY <1>3, <2>3, MirroredDisjoint DEF Castled
<1> QED BY <1>2, <1>3 DEF Turns

\* The board of the rules after a move is the one of the engine.
LEMMA MovedIs ==
  ASSUME NEW b, Ready(b), NEW m, FitFrom(b, m), NEW new, Turns(b, m, new)
  PROVE  Rules!Moved(PositionOf(b, setup), RuleMoveIn(m, setup)) = mailbox_of(new)
<1>1. /\ b.bb \in Boards /\ b.side \in {white, black} /\ Disjoint(b.bb) /\ EpSound(b)
      /\ b.castle \in SUBSET Rights /\ RightsSound(b, setup)
  BY DEF Ready
<1>2. CASE FitPlain(b, m) /\ \E v, vs : Taking(b, m, v, vs) /\ Shifted(b.bb, new, m, vs)
  <2>1. PICK v, vs : Taking(b, m, v, vs) /\ Shifted(b.bb, new, m, vs) BY <1>2
  <2> QED BY <1>1, <1>2, <2>1, PlainBoard
<1>3. CASE FitCastling(b, m) /\ Castled(b.bb, new, m, CastleRook(m)) BY <1>1, <1>3, CastlingBoard
<1> QED BY <1>2, <1>3 DEF Turns

\* The make finds a move legal exactly when the rules do.
LEMMA LegalMakes ==
  ASSUME NEW b, Ready(b), IsLegal(b), NEW m, FitFrom(b, m), Goes(b, m), NEW new, Turns(b, m, new)
  PROVE  Saved(b, new) <=> ~Rules!InCheck(Rules!Moved(PositionOf(b, setup), RuleMoveIn(m, setup)), b.side)
<1>1. new \in Boards /\ Disjoint(new) BY TurnedApart
<1>2. OneKingEach(new) BY MenStay
<1>3. b.side \in {white, black} BY DEF Ready
<1>4. Cardinality(new[Piece(b.side, King)]) = 1 BY <1>2, <1>3 DEF OneKingEach
<1>5. \A x, y \in new[Piece(b.side, King)] : x = y BY <1>1, <1>3, <1>4, KingsAre
<1>6. Rules!InCheck(mailbox_of(new), b.side) <=> \E k \in new[Piece(b.side, King)] : Assails(new, 1 - b.side, k, Full(new))
  BY <1>1, <1>3, <1>4, RulesCheck
<1>7. new[Piece(b.side, King)] # {}
  <2> SUFFICES ASSUME new[Piece(b.side, King)] = {} PROVE FALSE OBVIOUS
  <2> QED BY <1>4, FS_EmptySet
<1> QED BY <1>5, <1>6, <1>7, MovedIs DEF Saved

\* The test of a make, on the board it leaves.
LEMMA TestIs ==
  ASSUME NEW b, Ready(b), IsLegal(b), NEW m, FitFrom(b, m), Goes(b, m), NEW x, Reached(b, m, x)
  PROVE  LeavesKing(x) <=> ~Saved(b, x.bb)
<1> DEFINE new == x.bb
<1>1. Turns(b, m, new) /\ x.side = 1 - b.side /\ \A c \in {white, black} : x.occ[c] = Occupied(new, c) BY DEF Reached
<1>2. new \in Boards /\ OneKingEach(new) BY <1>1, TurnedApart, MenStay
<1>3. b.side \in {white, black} /\ 1 - x.side = b.side BY <1>1 DEF Ready, white, black
<1>4. All(x) = Full(new) BY <1>1, <1>2, AllIsFull
<1>5. Cardinality(new[Piece(b.side, King)]) = 1 BY <1>2, <1>3 DEF OneKingEach
<1> HIDE DEF new
<1>6. /\ KingSquare(x, b.side) \in new[Piece(b.side, King)] /\ KingSquare(x, b.side) \in Squares
      /\ \A y \in new[Piece(b.side, King)] : y = KingSquare(x, b.side)
  BY <1>2, <1>3, <1>5, KingSquareIs DEF new
<1>7. LeavesKing(x) <=> is_square_attacked(x, KingSquare(x, b.side), 1 - b.side) BY <1>1, <1>3 DEF LeavesKing
<1>8. LeavesKing(x) <=> Assails(new, 1 - b.side, KingSquare(x, b.side), Full(new)) BY <1>4, <1>6, <1>7, AttackedIs DEF new
<1> QED BY <1>6, <1>8 DEF Saved, new

(***************************************************************************)
(* The generated moves, kind by kind, and the candidates of the rules: the *)
(* men that walk, the pawns, castling.                                     *)
(***************************************************************************)
\* The moves of the man on a square, by the rules; and the castling moves.
StepFrom(p, s, q) ==
  \E t \in Rules!Steps(p, s) :
    \E r \in (IF Rules!Kind(p.board[s]) = 0 THEN Rules!Promotions(t, p.turn) ELSE {None}) : q = Rules!Plain(s, t, r)
CastlingWith(p, r, q) ==
  LET k == Rules!KingOf(p.board, p.turn)
  IN  /\ r \in p.rights /\ Rules!Ours(p.board, r, p.turn) /\ Rules!MayCastle(p, k, r)
      /\ q = Rules!Castling(k, Rules!KingTarget(k, r), r)

\* The candidates of the rules, one by one.
LEMMA CandidatesAre ==
  ASSUME NEW p, NEW q
  PROVE  q \in Rules!Candidates(p) <=>
           \/ \E s \in Squares : Rules!Ours(p.board, s, p.turn) /\ StepFrom(p, s, q)
           \/ \E r : CastlingWith(p, r, q)
<1> DEFINE S == {u \in Rules!Board : Rules!Ours(p.board, u, p.turn)}
           Pr(x) == IF Rules!Kind(p.board[x[1]]) = 0 THEN Rules!Promotions(x[2], p.turn) ELSE {Rules!Empty}
           X == UNION {{s} \X Rules!Steps(p, s) : s \in S}
           A == UNION {{Rules!Plain(x[1], x[2], r) : r \in Pr(x)} : x \in X}
           k == Rules!KingOf(p.board, p.turn)
           B == {Rules!Castling(k, Rules!KingTarget(k, r), r) :
                   r \in {u \in p.rights : Rules!Ours(p.board, u, p.turn) /\ Rules!MayCastle(p, k, u)}}
<1>1. Rules!Candidates(p) = A \cup B BY DEF Rules!Candidates
<1>2. \A x : x \in X <=> \E s \in S : \E t \in Rules!Steps(p, s) : x = <<s, t>> OBVIOUS
<1>3. \A s, t : <<s, t>>[1] = s /\ <<s, t>>[2] = t OBVIOUS
<1>4. q \in A <=> \E x \in X : \E r \in Pr(x) : q = Rules!Plain(x[1], x[2], r)
  <2> HIDE DEF X, Pr
  <2> QED OBVIOUS
<1>5. q \in A <=> \E s \in S : \E t \in Rules!Steps(p, s) : \E r \in Pr(<<s, t>>) : q = Rules!Plain(s, t, r)
  <2> HIDE DEF X, Pr, A, S
  <2>1. ASSUME NEW x \in X, NEW r \in Pr(x), q = Rules!Plain(x[1], x[2], r)
        PROVE  \E s \in S : \E t \in Rules!Steps(p, s) : \E u \in Pr(<<s, t>>) : q = Rules!Plain(s, t, u)
    <3>1. PICK s \in S : \E t \in Rules!Steps(p, s) : x = <<s, t>> BY <1>2, <2>1
    <3>2. PICK t \in Rules!Steps(p, s) : x = <<s, t>> BY <3>1
    <3>3. r \in Pr(<<s, t>>) BY <2>1, <3>2
    <3>4. q = Rules!Plain(s, t, r) BY <1>3, <2>1, <3>2
    <3> QED BY <3>3, <3>4
  <2>2. ASSUME NEW s \in S, NEW t \in Rules!Steps(p, s), NEW r \in Pr(<<s, t>>), q = Rules!Plain(s, t, r)
        PROVE  \E x \in X : \E u \in Pr(x) : q = Rules!Plain(x[1], x[2], u)
    <3>1. <<s, t>> \in X BY <1>2
    <3>2. q = Rules!Plain(<<s, t>>[1], <<s, t>>[2], r) BY <1>3, <2>2
    <3> QED BY <3>1, <3>2
  <2> QED BY <1>4, <2>1, <2>2
<1>6. q \in B <=> \E r : CastlingWith(p, r, q) BY DEF CastlingWith
<1>7. \A s, t : Pr(<<s, t>>) = IF Rules!Kind(p.board[s]) = 0 THEN Rules!Promotions(t, p.turn) ELSE {None} BY RulesTerms
<1>8. \A s : StepFrom(p, s, q) <=> \E t \in Rules!Steps(p, s) : \E r \in Pr(<<s, t>>) : q = Rules!Plain(s, t, r)
  <2> HIDE DEF Pr
  <2> QED BY <1>7 DEF StepFrom
<1> HIDE DEF X, A, B, Pr
<1>9. q \in A <=> \E s \in S : StepFrom(p, s, q) BY <1>5, <1>8
<1> QED BY <1>1, <1>6, <1>9, RulesTerms

\* The terms of a position of a board.
LEMMA PositionTerms ==
  ASSUME NEW b, NEW su
  PROVE  /\ PositionOf(b, su).board = mailbox_of(b.bb) /\ PositionOf(b, su).turn = b.side
         /\ PositionOf(b, su).ep = b.ep /\ PositionOf(b, su).rights = RookSquares(b.castle, su)
BY DEF PositionOf

\* A move that does not castle, as the rules name it.
LEMMA PlainIs ==
  ASSUME NEW m, NEW su, ~m.castling
  PROVE  RuleMoveIn(m, su) = Rules!Plain(m.from, m.to, IF m.promo = 0 THEN None ELSE m.promo)
BY RulesTerms DEF RuleMoveIn, Rules!Plain, None

\* A man of the engine's board is one of the rules', of its kind.
LEMMA ManStands ==
  ASSUME NEW b, Ready(b), NEW k \in 0..5, NEW s \in b.bb[Piece(b.side, k)], NEW p, p = PositionOf(b, setup)
  PROVE  /\ s \in Squares /\ Rules!Ours(p.board, s, p.turn) /\ Rules!Kind(p.board[s]) = k
         /\ p.board[s] = Piece(b.side, k)
<1>1. b.bb \in Boards /\ b.side \in {white, black} /\ Disjoint(b.bb) BY DEF Ready
<1>2. Piece(b.side, k) \in Pieces /\ Rules!Kind(Piece(b.side, k)) = k BY <1>1, ManIs
<1>3. s \in Squares BY <1>1, <1>2 DEF Boards
<1>4. mailbox_of(b.bb)[s] = Piece(b.side, k) BY <1>1, <1>2, <1>3, StandsOn
<1>5. Rules!Ours(mailbox_of(b.bb), s, b.side) BY <1>1, <1>3, OursAre
<1> QED BY <1>2, <1>3, <1>4, <1>5, PositionTerms

\* The free squares, and those of a side, on the board of the rules.
LEMMA SquaresStand ==
  ASSUME NEW b, Ready(b), NEW s \in Squares
  PROVE  /\ mailbox_of(b.bb)[s] = None <=> s \notin b.occ[white] \cup b.occ[black]
         /\ \A c \in {white, black} : Rules!Ours(mailbox_of(b.bb), s, c) <=> s \in b.occ[c]
<1>1. b.bb \in Boards /\ Disjoint(b.bb) /\ \A c \in {white, black} : b.occ[c] = Occupied(b.bb, c) BY DEF Ready
<1>2. All(b) = Full(b.bb) BY <1>1, AllIsFull
<1>3. mailbox_of(b.bb)[s] = None <=> Free(b.bb, s) BY <1>1, StandsOn
<1>4. s \in Full(b.bb) <=> ~Free(b.bb, s) BY DEF Full
<1>5. ASSUME NEW c \in {white, black} PROVE Rules!Ours(mailbox_of(b.bb), s, c) <=> s \in b.occ[c]
  <2>1. Rules!Ours(mailbox_of(b.bb), s, c) <=> \E k \in 0..5 : s \in b.bb[Piece(c, k)] BY <1>1, OursAre
  <2>2. s \in b.occ[c] <=> \E p \in Men(c) : s \in b.bb[p] BY <1>1, OccupiedIn
  <2> QED BY <2>1, <2>2 DEF Men
<1> QED BY <1>2, <1>3, <1>4, <1>5 DEF All

\* One of the moves the generator writes for a man that is no pawn.
LandsOn(b, k, s, q) ==
  \E t \in Attacks(k, s, All(b)) \ b.occ[b.side] :
    q = RuleMoveIn(Simple(s, t, Piece(b.side, k), t \in b.occ[1 - b.side]), setup)

\* The moves of a piece, but for castling.
LEMMA PieceStepsAre ==
  ASSUME NEW b, Ready(b), NEW k \in 1..5, NEW s \in b.bb[Piece(b.side, k)], NEW p, p = PositionOf(b, setup), NEW q
  PROVE  StepFrom(p, s, q) <=> LandsOn(b, k, s, q)
<1>1. b.bb \in Boards /\ b.side \in {white, black} /\ Disjoint(b.bb) /\ All(b) = Full(b.bb)
  BY AllIsFull DEF Ready
<1>2. k \in 0..5 /\ k # 0 OBVIOUS
<1>3. s \in Squares /\ Rules!Kind(p.board[s]) = k BY <1>2, ManStands
<1>4. p.board = mailbox_of(b.bb) /\ p.turn = b.side BY PositionTerms
<1>5. \A t : t \in Rules!Reach(p.board, s) <=> t \in Attacks(k, s, All(b)) BY <1>1, <1>4, PieceReach
<1>6. Attacks(k, s, All(b)) \subseteq Squares
  <2>1. k \in {Knight, Bishop, Rook, Queen, King} BY DEF Knight, Bishop, Rook, Queen, King
  <2> QED BY <1>3, <2>1, AttacksOnBoard
<1>7. Rules!Steps(p, s) = {t \in Rules!Reach(p.board, s) : ~Rules!Ours(p.board, t, p.turn)} BY <1>2, <1>3 DEF Rules!Steps
<1>8. \A t \in Squares : Rules!Ours(p.board, t, p.turn) <=> t \in b.occ[b.side] BY <1>1, <1>4, SquaresStand
<1>9. \A t : t \in Rules!Steps(p, s) <=> t \in Attacks(k, s, All(b)) \ b.occ[b.side] BY <1>5, <1>6, <1>7, <1>8
<1>10. ASSUME NEW t PROVE RuleMoveIn(Simple(s, t, Piece(b.side, k), t \in b.occ[1 - b.side]), setup) = Rules!Plain(s, t, None)
  <2> DEFINE m == Simple(s, t, Piece(b.side, k), t \in b.occ[1 - b.side])
  <2>3. PICK ca : ca = (t \in b.occ[1 - b.side]) OBVIOUS
  <2>4. m = Simple(s, t, Piece(b.side, k), ca) BY <2>3, Zenon
  <2> HIDE DEF m
  <2>5. m = [from |-> s, to |-> t, piece |-> Piece(b.side, k), promo |-> 0, capture |-> ca,
             double |-> FALSE, enpass |-> FALSE, castling |-> FALSE]
    BY <2>4 DEF Simple, encode_move
  <2>1. m.from = s /\ m.to = t /\ m.promo = 0 /\ m.castling = FALSE BY <2>5
  <2> HIDE DEF m
  <2> QED BY <2>1, PlainIs DEF m
<1>11. StepFrom(p, s, q) <=> \E t \in Rules!Steps(p, s) : q = Rules!Plain(s, t, None)
  <2>1. \A t : (IF Rules!Kind(p.board[s]) = 0 THEN Rules!Promotions(t, p.turn) ELSE {None}) = {None} BY <1>2, <1>3
  <2>2. StepFrom(p, s, q) <=> \E t \in Rules!Steps(p, s) : \E r \in {None} : q = Rules!Plain(s, t, r)
    BY <2>1, Zenon DEF StepFrom
  <2>3. \A t : (\E r \in {None} : q = Rules!Plain(s, t, r)) <=> q = Rules!Plain(s, t, None) OBVIOUS
  <2> QED BY <2>2, <2>3, Zenon
<1> DEFINE M(t) == RuleMoveIn(Simple(s, t, Piece(b.side, k), t \in b.occ[1 - b.side]), setup)
<1>12. \A t : M(t) = Rules!Plain(s, t, None) BY <1>10
<1> DEFINE Z == Attacks(k, s, All(b)) \ b.occ[b.side]
<1>14. \A t : t \in Rules!Steps(p, s) <=> t \in Z BY <1>9
<1> HIDE DEF M, Z
<1>15. StepFrom(p, s, q) <=> \E t \in Z : q = M(t) BY <1>14, <1>11, <1>12, Zenon
<1>13. StepFrom(p, s, q) <=> \E t \in Attacks(k, s, All(b)) \ b.occ[b.side] : q = M(t) BY <1>15 DEF Z
<1>16. \A t : M(t) = RuleMoveIn(Simple(s, t, Piece(b.side, k), t \in b.occ[1 - b.side]), setup) BY DEF M
<1> QED BY <1>13, <1>16, Zenon DEF LandsOn

\* An encoded move that does not castle, as the rules name it.
LEMMA EncodedPlain ==
  ASSUME NEW s, NEW t, NEW pc, NEW x, NEW ca, NEW db, NEW en
  PROVE  RuleMoveIn(encode_move(s, t, pc, x, ca, db, en, FALSE), setup) = Rules!Plain(s, t, IF x = 0 THEN None ELSE x)
<1> DEFINE m == encode_move(s, t, pc, x, ca, db, en, FALSE)
<1>1. m = [from |-> s, to |-> t, piece |-> pc, promo |-> x, capture |-> ca, double |-> db, enpass |-> en, castling |-> FALSE]
  BY DEF encode_move
<1> HIDE DEF m
<1>2. m.from = s /\ m.to = t /\ m.promo = x /\ ~m.castling BY <1>1
<1>3. RuleMoveIn(m, setup) = Rules!Plain(s, t, IF x = 0 THEN None ELSE x) BY <1>2, PlainIs
<1> QED BY <1>3 DEF m

\* The pieces a pawn is promoted to.
LEMMA PromotionsAre ==
  ASSUME NEW c \in {white, black}, NEW s \in Squares, NEW t \in Squares,
         Row(s) = SeventhRow(c) <=> Rules!Rank(t) = Rules!FirstRank(1 - c), NEW r
  PROVE  r \in Rules!Promotions(t, c)
           <=> \E x \in (IF Row(s) = SeventhRow(c) THEN Promoted(c) ELSE {0}) : r = IF x = 0 THEN None ELSE x
<1>1. CASE Row(s) = SeventhRow(c)
  <2>1. Rules!Promotions(t, c) = {k + 6 * c : k \in 1..4} BY <1>1 DEF Rules!Promotions
  <2>2. r \in Rules!Promotions(t, c) <=> r \in {1 + 6 * c, 2 + 6 * c, 3 + 6 * c, 4 + 6 * c}
    <3>1. c \in Int BY DEF white, black
    <3>2. \A k : k \in 1..4 <=> k = 1 \/ k = 2 \/ k = 3 \/ k = 4 OBVIOUS
    <3>3. r \in Rules!Promotions(t, c) <=> \E k \in 1..4 : r = k + 6 * c BY <2>1
    <3> QED BY <3>1, <3>2, <3>3
  <2>3. Promoted(c) = {4 + 6 * c, 3 + 6 * c, 2 + 6 * c, 1 + 6 * c}
    BY DEF Promoted, Piece, Queen, Rook, Bishop, Knight
  <2>4. 0 \notin Promoted(c) BY <2>3 DEF white, black
  <2>5. (\E x \in Promoted(c) : r = IF x = 0 THEN None ELSE x) <=> r \in Promoted(c) BY <2>4
  <2> QED BY <1>1, <2>2, <2>3, <2>5
<1>2. CASE Row(s) # SeventhRow(c)
  <2>1. Rules!Promotions(t, c) = {None} BY <1>2, RulesTerms DEF Rules!Promotions
  <2> QED BY <1>2, <2>1
<1> QED BY <1>1, <1>2

\* The arrivals of a pawn on a square are its arrivals by the rules.
ArrivesAs(s, t, c, ca, q) ==
  (\E m \in PawnArrivals(s, t, c, ca) : q = RuleMoveIn(m, setup)) <=> \E r \in Rules!Promotions(t, c) : q = Rules!Plain(s, t, r)

\* The arrivals of a pawn on a square.
LEMMA ArrivalsAre ==
  ASSUME NEW c \in {white, black}, NEW s \in Squares, NEW t \in Squares,
         Row(s) = SeventhRow(c) <=> Rules!Rank(t) = Rules!FirstRank(1 - c), NEW ca, NEW q
  PROVE  ArrivesAs(s, t, c, ca, q)
<1> DEFINE X == IF Row(s) = SeventhRow(c) THEN Promoted(c) ELSE {0}
           E(x) == encode_move(s, t, Piece(c, Pawn), x, ca, FALSE, FALSE, FALSE)
           N(x) == IF x = 0 THEN None ELSE x
           L(r) == Rules!Plain(s, t, r)
           I(m) == RuleMoveIn(m, setup)
<1>1. PawnArrivals(s, t, c, ca) = {E(x) : x \in X} BY DEF PawnArrivals
<1>2. \A x : I(E(x)) = L(N(x)) BY EncodedPlain
<1>3. \A r : r \in Rules!Promotions(t, c) <=> \E x \in X : r = N(x) BY PromotionsAre
<1> HIDE DEF X, E, N, L, I
<1>4. (\E m \in PawnArrivals(s, t, c, ca) : q = I(m)) <=> \E x \in X : q = I(E(x)) BY <1>1
<1>5. (\E r \in Rules!Promotions(t, c) : q = L(r)) <=> \E x \in X : q = L(N(x)) BY <1>3
<1>6. (\E m \in PawnArrivals(s, t, c, ca) : q = I(m)) <=> \E r \in Rules!Promotions(t, c) : q = L(r) BY <1>2, <1>4, <1>5
<1> QED BY <1>6, Zenon DEF I, L, ArrivesAs

\* A pawn reaches squares of the board only.
LEMMA PawnReachOnBoard ==
  ASSUME NEW bd, NEW c \in {white, black}, NEW s \in Squares, bd[s] = Piece(c, Pawn), NEW t \in Rules!Reach(bd, s)
  PROVE  t \in Squares
<1> DEFINE P == {<<-1, Rules!Ahead(Rules!Owner(bd[s]))>>, <<1, Rules!Ahead(Rules!Owner(bd[s]))>>}
<1>1. Rules!Kind(bd[s]) = 0 BY DEF Rules!Kind, Piece, Pawn, white, black
<1>2. Rules!Reach(bd, s) = Rules!Walk(bd, s, P, 1) BY <1>1 DEF Rules!Reach
<1> HIDE DEF P
<1>3. PICK d \in P : Rules!OnBoard(s, d, 1) /\ t = Rules!To(s, d, 1) BY <1>2, ShortWalk
<1>4. t = 8 * (Rules!Rank(s) + 1 * d[2]) + (Rules!Col(s) + 1 * d[1]) BY <1>3 DEF Rules!To, Rules!Sq
<1>5. Rules!Rank(s) + 1 * d[2] \in 0..7 /\ Rules!Col(s) + 1 * d[1] \in 0..7 BY <1>3 DEF Rules!OnBoard
<1> QED BY <1>4, <1>5, Coordinates

\* The squares ahead of a pawn, and those it takes on.
LEMMA PawnRanks ==
  ASSUME NEW c \in {white, black}, NEW s \in Squares
  PROVE  /\ s + 8 * Rules!Ahead(c) = s + Up(c) /\ s + 16 * Rules!Ahead(c) = s + 2 * Up(c)
         /\ Rules!Rank(s) = Rules!FirstRank(c) + Rules!Ahead(c) <=> Row(s) = SecondRow(c)
         /\ \A t \in Squares : t = s + Up(c) \/ t \in pawn_attacks[c][s] =>
              (Row(s) = SeventhRow(c) <=> Rules!Rank(t) = Rules!FirstRank(1 - c))
         /\ Row(s) = SecondRow(c) => s + 2 * Up(c) \in Squares /\ Rules!Rank(s + 2 * Up(c)) # Rules!FirstRank(1 - c)
<1>1. /\ Rules!Ahead(c) = (IF c = white THEN -1 ELSE 1) /\ Up(c) = (IF c = white THEN -8 ELSE 8)
      /\ Rules!FirstRank(c) = (IF c = white THEN 7 ELSE 0) /\ Rules!FirstRank(1 - c) = (IF c = white THEN 0 ELSE 7)
      /\ SecondRow(c) = (IF c = white THEN 6 ELSE 1) /\ SeventhRow(c) = (IF c = white THEN 1 ELSE 6)
  BY DEF Rules!Ahead, Rules!FirstRank, Up, SecondRow, SeventhRow, white, black
<1>2. \A t : Rules!Rank(t) = Row(t) BY DEF Rules!Rank, Row
<1>3. s \in Int /\ Row(s) \in 0..7 /\ Row(s) = s \div 8 BY Coordinates DEF Row
<1>4. s + 8 * Rules!Ahead(c) = s + Up(c) /\ s + 16 * Rules!Ahead(c) = s + 2 * Up(c) BY <1>1, <1>3
<1>5. Rules!Rank(s) = Rules!FirstRank(c) + Rules!Ahead(c) <=> Row(s) = SecondRow(c) BY <1>1, <1>2
<1>6. ASSUME NEW t \in Squares, t = s + Up(c) \/ t \in pawn_attacks[c][s]
      PROVE  Row(s) = SeventhRow(c) <=> Rules!Rank(t) = Rules!FirstRank(1 - c)
  <2>1. Row(t) = Row(s) + (IF c = white THEN -1 ELSE 1)
    <3>1. CASE t = s + Up(c) BY <1>1, <3>1 DEF Row, Squares
    <3>2. CASE t \in pawn_attacks[c][s]
      <4>1. t - Up(c) \in Squares /\ Row(t - Up(c)) = Row(s) BY <3>2, PawnStep
      <4> QED BY <1>1, <4>1 DEF Row, Squares
    <3> QED BY <1>6, <3>1, <3>2
  <2> QED BY <1>1, <1>2, <1>3, <2>1
<1>7. Row(s) = SecondRow(c) => s + 2 * Up(c) \in Squares /\ Rules!Rank(s + 2 * Up(c)) # Rules!FirstRank(1 - c)
  BY <1>1, <1>2 DEF Row, Squares
<1> QED BY <1>4, <1>5, <1>6, <1>7

\* The four ways of a pawn.
Push(b, s, t) == t = s + Up(b.side) /\ t \in Squares /\ Free(b.bb, t)
Jump(b, s, t) == /\ t = s + 2 * Up(b.side) /\ Row(s) = SecondRow(b.side)
                 /\ Free(b.bb, s + Up(b.side)) /\ Free(b.bb, t)
Take(b, s, t) == t \in pawn_attacks[b.side][s] /\ t \in b.occ[1 - b.side]
Pass(b, s, t) == t \in pawn_attacks[b.side][s] /\ t = b.ep

\* The free squares of a board.
LEMMA FreeIs ==
  ASSUME NEW b, Ready(b), NEW t \in Squares
  PROVE  /\ t \in Squares \ (b.occ[white] \cup b.occ[black]) <=> Free(b.bb, t)
         /\ mailbox_of(b.bb)[t] = None <=> Free(b.bb, t)
<1>1. b.bb \in Boards /\ Disjoint(b.bb) BY DEF Ready
<1>2. mailbox_of(b.bb)[t] = None <=> Free(b.bb, t) BY <1>1, StandsOn
<1>3. mailbox_of(b.bb)[t] = None <=> t \notin b.occ[white] \cup b.occ[black] BY SquaresStand
<1> QED BY <1>2, <1>3

\* The steps of a pawn, by the rules, are the four ways.
LEMMA PawnStepsAre ==
  ASSUME NEW b, Ready(b), NEW s \in b.bb[Piece(b.side, Pawn)], NEW p, p = PositionOf(b, setup), NEW t
  PROVE  t \in Rules!PawnSteps(p, s) <=> Push(b, s, t) \/ Jump(b, s, t) \/ Take(b, s, t) \/ Pass(b, s, t)
<1> DEFINE c == b.side
           one == s + Up(c)
           two == s + 2 * Up(c)
<1>1. b.bb \in Boards /\ c \in {white, black} /\ 1 - c \in {white, black} /\ Disjoint(b.bb) BY DEF Ready, white, black
<1>2. Pawn \in 0..5 BY DEF Pawn
<1>3. s \in Squares /\ p.board[s] = Piece(c, Pawn) BY <1>2, ManStands
<1>4. p.board = mailbox_of(b.bb) /\ p.turn = c /\ p.ep = b.ep BY PositionTerms
<1>5. \A u : u \in Rules!Reach(p.board, s) <=> u \in pawn_attacks[c][s]
  <2>1. \A u \in Squares : u \in Rules!Reach(p.board, s) <=> u \in pawn_attacks[c][s] BY <1>1, <1>3, PawnReach
  <2>2. \A u : u \in Rules!Reach(p.board, s) => u \in Squares BY <1>1, <1>3, PawnReachOnBoard
  <2>3. pawn_attacks[c][s] \subseteq Squares BY <1>1, <1>3, LeapersOnBoard
  <2> QED BY <2>1, <2>2, <2>3
<1>6. pawn_attacks[c][s] \subseteq Squares BY <1>1, <1>3, LeapersOnBoard
<1>7. \A u \in Squares : /\ p.board[u] = None <=> Free(b.bb, u)
                         /\ Rules!Ours(p.board, u, 1 - c) <=> u \in b.occ[1 - c]
  BY <1>1, <1>4, FreeIs, SquaresStand
<1>8. /\ s + 8 * Rules!Ahead(c) = one /\ s + 16 * Rules!Ahead(c) = two
      /\ Rules!Rank(s) = Rules!FirstRank(c) + Rules!Ahead(c) <=> Row(s) = SecondRow(c)
      /\ Row(s) = SecondRow(c) => two \in Squares
  BY <1>1, <1>3, PawnRanks
<1>9. Row(s) = SecondRow(c) => one \in Squares BY <1>3 DEF Row, Squares, SecondRow, Up
<1> HIDE DEF c, one, two
<1>10. t \in Rules!PawnSteps(p, s) <=>
         \/ one \in Squares /\ p.board[one] = None /\ t = one
         \/ Row(s) = SecondRow(c) /\ p.board[one] = None /\ p.board[two] = None /\ t = two
         \/ t \in Rules!Reach(p.board, s) /\ (Rules!Ours(p.board, t, 1 - c) \/ t = p.ep)
  BY <1>4, <1>8, RulesTerms DEF Rules!PawnSteps
<1>11. Push(b, s, t) <=> one \in Squares /\ p.board[one] = None /\ t = one BY <1>7 DEF Push, one, c
<1>12. Jump(b, s, t) <=> Row(s) = SecondRow(c) /\ p.board[one] = None /\ p.board[two] = None /\ t = two
  BY <1>7, <1>8, <1>9 DEF Jump, one, two, c
<1>13. Take(b, s, t) \/ Pass(b, s, t) <=> t \in Rules!Reach(p.board, s) /\ (Rules!Ours(p.board, t, 1 - c) \/ t = p.ep)
  BY <1>4, <1>5, <1>6, <1>7 DEF Take, Pass, c
<1> QED BY <1>10, <1>11, <1>12, <1>13

\* The moves of a pawn, as the generator writes them.
LEMMA PawnMovesAre ==
  ASSUME NEW b, NEW s, NEW c, NEW m
  PROVE  m \in PawnMoves(b, s, c) <=>
           \/ s + Up(c) \in Squares \ (b.occ[white] \cup b.occ[black]) /\ m \in PawnArrivals(s, s + Up(c), c, FALSE)
           \/ /\ Row(s) = SecondRow(c) /\ s + Up(c) \in Squares \ (b.occ[white] \cup b.occ[black])
              /\ s + 2 * Up(c) \in Squares \ (b.occ[white] \cup b.occ[black])
              /\ m = encode_move(s, s + 2 * Up(c), Piece(c, Pawn), 0, FALSE, TRUE, FALSE, FALSE)
           \/ \E t \in pawn_attacks[c][s] \cap b.occ[1 - c] : m \in PawnArrivals(s, t, c, TRUE)
           \/ /\ b.ep \in pawn_attacks[c][s]
              /\ m = encode_move(s, b.ep, Piece(c, Pawn), 0, TRUE, FALSE, TRUE, FALSE)
<1> DEFINE free == Squares \ (b.occ[white] \cup b.occ[black])
           one == s + Up(c)
           two == s + 2 * Up(c)
           takes == pawn_attacks[c][s]
           J == encode_move(s, two, Piece(c, Pawn), 0, FALSE, TRUE, FALSE, FALSE)
           E(t) == encode_move(s, t, Piece(c, Pawn), 0, TRUE, FALSE, TRUE, FALSE)
           A(t, ca) == PawnArrivals(s, t, c, ca)
           M1 == IF one \in free THEN A(one, FALSE) ELSE {}
           M2 == {J : to \in {u \in {two} : Row(s) = SecondRow(c) /\ {one, u} \subseteq free}}
           M3 == UNION {A(t, TRUE) : t \in takes \cap b.occ[1 - c]}
           M4 == {E(t) : t \in takes \cap {b.ep}}
<1>1. PawnMoves(b, s, c) = M1 \cup M2 \cup M3 \cup M4 BY Zenon DEF PawnMoves
<1> HIDE DEF free, one, two, takes, J, E, A
<1>2. m \in M1 <=> one \in free /\ m \in A(one, FALSE) OBVIOUS
<1>3. m \in M2 <=> Row(s) = SecondRow(c) /\ one \in free /\ two \in free /\ m = J OBVIOUS
<1>4. m \in M3 <=> \E t \in takes \cap b.occ[1 - c] : m \in A(t, TRUE) OBVIOUS
<1>5. m \in M4 <=> b.ep \in takes /\ m = E(b.ep) OBVIOUS
<1> HIDE DEF M1, M2, M3, M4
<1>6. m \in PawnMoves(b, s, c) <=>
           \/ one \in free /\ m \in A(one, FALSE)
           \/ Row(s) = SecondRow(c) /\ one \in free /\ two \in free /\ m = J
           \/ \E t \in takes \cap b.occ[1 - c] : m \in A(t, TRUE)
           \/ b.ep \in takes /\ m = E(b.ep)
  BY <1>1, <1>2, <1>3, <1>4, <1>5
<1> QED BY <1>6, Zenon DEF free, one, two, takes, J, E, A

\* The moves of a pawn are its steps by the rules.
LEMMA PawnImage ==
  ASSUME NEW b, Ready(b), NEW s \in b.bb[Piece(b.side, Pawn)], NEW p, p = PositionOf(b, setup), NEW q
  PROVE  (\E m \in PawnMoves(b, s, b.side) : q = RuleMoveIn(m, setup)) <=> StepFrom(p, s, q)
<1> DEFINE c == b.side
           one == s + Up(c)
           two == s + 2 * Up(c)
           free == Squares \ (b.occ[white] \cup b.occ[black])
           takes == pawn_attacks[c][s]
           I(m) == RuleMoveIn(m, setup)
           L(t, r) == Rules!Plain(s, t, r)
           Lands(t) == \E r \in Rules!Promotions(t, c) : q = L(t, r)
           A(t, ca) == PawnArrivals(s, t, c, ca)
           J == encode_move(s, two, Piece(c, Pawn), 0, FALSE, TRUE, FALSE, FALSE)
           E == encode_move(s, b.ep, Piece(c, Pawn), 0, TRUE, FALSE, TRUE, FALSE)
<1>1. b.bb \in Boards /\ c \in {white, black} /\ 1 - c \in {white, black} /\ Disjoint(b.bb) /\ EpSound(b)
  BY DEF Ready, white, black
<1>2. Pawn \in 0..5 BY DEF Pawn
<1>3. s \in Squares /\ Rules!Kind(p.board[s]) = 0 BY <1>2, ManStands DEF Pawn
<1>4. p.turn = c BY PositionTerms
<1>5. takes \subseteq Squares BY <1>1, <1>3, LeapersOnBoard
<1>6. StepFrom(p, s, q) <=> \E t \in Rules!PawnSteps(p, s) : Lands(t)
  <2>1. Rules!Steps(p, s) = Rules!PawnSteps(p, s) BY <1>3 DEF Rules!Steps
  <2>2. \A t : (IF Rules!Kind(p.board[s]) = 0 THEN Rules!Promotions(t, p.turn) ELSE {None}) = Rules!Promotions(t, c)
    BY <1>3, <1>4
  <2> QED BY <2>1, <2>2, Zenon DEF StepFrom
<1>7. \A t : t \in Rules!PawnSteps(p, s) <=> Push(b, s, t) \/ Jump(b, s, t) \/ Take(b, s, t) \/ Pass(b, s, t)
  BY PawnStepsAre
<1>8. \A m : m \in PawnMoves(b, s, c) <=>
           \/ one \in free /\ m \in A(one, FALSE)
           \/ Row(s) = SecondRow(c) /\ one \in free /\ two \in free /\ m = J
           \/ \E t \in takes \cap b.occ[1 - c] : m \in A(t, TRUE)
           \/ b.ep \in takes /\ m = E
  BY PawnMovesAre
<1>9. /\ \A t \in Squares : t = one \/ t \in takes => (Row(s) = SeventhRow(c) <=> Rules!Rank(t) = Rules!FirstRank(1 - c))
      /\ Row(s) = SecondRow(c) => two \in Squares /\ Rules!Rank(two) # Rules!FirstRank(1 - c)
  BY <1>1, <1>3, PawnRanks
<1>10. ASSUME NEW t \in Squares, t = one \/ t \in takes, NEW ca
       PROVE  (\E m \in A(t, ca) : q = I(m)) <=> Lands(t)
  <2>1. Row(s) = SeventhRow(c) <=> Rules!Rank(t) = Rules!FirstRank(1 - c) BY <1>9, <1>10
  <2>2. ArrivesAs(s, t, c, ca, q) BY <1>1, <1>3, <2>1, ArrivalsAre
  <2> QED BY <2>2, Zenon DEF ArrivesAs
<1>11. Row(s) = SecondRow(c) => (q = I(J) <=> Lands(two))
  <2>1. I(J) = L(two, None) BY EncodedPlain
  <2>2. Row(s) = SecondRow(c) => Rules!Promotions(two, c) = {None} BY <1>9, RulesTerms DEF Rules!Promotions
  <2> HIDE DEF I, J, L, two
  <2> QED BY <2>1, <2>2
<1>12. b.ep \in takes => (q = I(E) <=> Lands(b.ep))
  <2>1. I(E) = L(b.ep, None) BY EncodedPlain
  <2>2. b.ep \in takes => Rules!Promotions(b.ep, c) = {None}
    <3> SUFFICES ASSUME b.ep \in takes PROVE Rules!Rank(b.ep) # Rules!FirstRank(1 - c)
      BY RulesTerms DEF Rules!Promotions
    <3>1. b.ep # no_sq BY <1>5 DEF Squares, no_sq
    <3>2. Row(b.ep) = (IF c = white THEN 2 ELSE 5) BY <1>1, <3>1 DEF EpSound
    <3> QED BY <1>1, <3>2 DEF Rules!Rank, Row, Rules!FirstRank, white, black
  <2> HIDE DEF I, E, L, takes
  <2> QED BY <2>1, <2>2
<1>13. \A t \in Squares : t \in free <=> Free(b.bb, t) BY FreeIs
<1>14. Row(s) = SecondRow(c) => one \in Squares BY <1>3 DEF Row, Squares, SecondRow, Up
<1>15. free \subseteq Squares OBVIOUS
<1> HIDE DEF I, J, L, E, A, Lands
<1>16. /\ \A t : Push(b, s, t) <=> t = one /\ one \in free
       /\ \A t : Jump(b, s, t) <=> t = two /\ Row(s) = SecondRow(c) /\ one \in free /\ two \in free
       /\ \A t : Take(b, s, t) <=> t \in takes \cap b.occ[1 - c]
       /\ \A t : Pass(b, s, t) <=> t = b.ep /\ b.ep \in takes
  BY <1>9, <1>13, <1>14, <1>15 DEF Push, Jump, Take, Pass
<1> HIDE DEF c, one, two, free, takes
<1>17. (\E t \in Rules!PawnSteps(p, s) : Lands(t)) <=>
           \/ one \in free /\ Lands(one)
           \/ Row(s) = SecondRow(c) /\ one \in free /\ two \in free /\ Lands(two)
           \/ \E t \in takes \cap b.occ[1 - c] : Lands(t)
           \/ b.ep \in takes /\ Lands(b.ep)
  BY <1>7, <1>16
<1>18. (\E m \in PawnMoves(b, s, c) : q = I(m)) <=>
           \/ one \in free /\ \E m \in A(one, FALSE) : q = I(m)
           \/ Row(s) = SecondRow(c) /\ one \in free /\ two \in free /\ q = I(J)
           \/ \E t \in takes \cap b.occ[1 - c] : \E m \in A(t, TRUE) : q = I(m)
           \/ b.ep \in takes /\ q = I(E)
  BY <1>8
<1>19. (\E m \in PawnMoves(b, s, c) : q = I(m)) <=> StepFrom(p, s, q)
  BY <1>5, <1>6, <1>10, <1>11, <1>12, <1>15, <1>17, <1>18
<1> QED BY <1>19 DEF I, c

\* The castling king's square, by the rules.
LEMMA KingGoes ==
  ASSUME NEW su, NEW idx \in Rights, idx \in HomeRights(su)
  PROVE  Rules!KingTarget(su.king[OfSide(idx) + 1], su.rook[idx + 1]) = castle_king_to(idx)
<1> DEFINE c == OfSide(idx)
           k == su.king[c + 1]
           r == su.rook[idx + 1]
<1>1. c \in {white, black} BY SideOfRight
<1>2. k \in BackRank(c) /\ r \in BackRank(c) /\ (r > k <=> idx \in {0, 2}) BY DEF HomeRights
<1>3. /\ idx = 0 => c = white /\ castle_king_to(idx) = 62
      /\ idx = 1 => c = white /\ castle_king_to(idx) = 58
      /\ idx = 2 => c = black /\ castle_king_to(idx) = 6
      /\ idx = 3 => c = black /\ castle_king_to(idx) = 2
  BY DEF OfSide, castle_king_to, white, black
<1>4. Rules!KingTarget(k, r) = 8 * (k \div 8) + (IF r % 8 > k % 8 THEN 6 ELSE 2)
  BY DEF Rules!KingTarget, Rules!Sq, Rules!Col, Rules!Rank
<1> HIDE DEF c, k, r
<1>5. (c = white => k \in 56..63 /\ r \in 56..63) /\ (c = black => k \in 0..7 /\ r \in 0..7)
  BY <1>2 DEF BackRank, BackRow, white, black
<1>6. CASE c = white
  <2>1. k \div 8 = 7 /\ (r % 8 > k % 8 <=> r > k) BY <1>5, <1>6
  <2>2. idx = 0 \/ idx = 1 BY <1>3, <1>6 DEF Rights, white, black
  <2>3. Rules!KingTarget(k, r) = 56 + (IF r > k THEN 6 ELSE 2) BY <1>4, <2>1
  <2>4. Rules!KingTarget(k, r) = castle_king_to(idx) BY <1>2, <1>3, <2>2, <2>3
  <2> QED BY <2>4 DEF c, k, r
<1>7. CASE c = black
  <2>1. k \div 8 = 0 /\ (r % 8 > k % 8 <=> r > k) BY <1>5, <1>7
  <2>2. idx = 2 \/ idx = 3 BY <1>3, <1>7 DEF Rights, white, black
  <2>3. Rules!KingTarget(k, r) = IF r > k THEN 6 ELSE 2 BY <1>4, <2>1
  <2>4. Rules!KingTarget(k, r) = castle_king_to(idx) BY <1>2, <1>3, <2>2, <2>3
  <2> QED BY <2>4 DEF c, k, r
<1> QED BY <1>1, <1>6, <1>7

\* The squares of the rules between two are those of the engine.
SameSpan(x, y) == \A s : (s \in Rules!Between(x, y) <=> s \in Span(x, y)) /\ (s \in Span(x, y) => s \in Squares)
Amid(x, y, s) == s \in Squares /\ ((x <= s /\ s <= y) \/ (y <= s /\ s <= x))

\* A stretch between two squares is the span of the code.
LEMMA SpansAgree ==
  ASSUME NEW x \in Squares, NEW y \in Squares
  PROVE  SameSpan(x, y)
<1>1. \A s : s \in Rules!Between(x, y) <=> Amid(x, y, s) BY RulesTerms DEF Rules!Between, Amid
<1>2. ASSUME NEW s PROVE s \in Span(x, y) <=> Amid(x, y, s)
  <2>1. CASE x < y BY <2>1 DEF Span, Squares, Amid
  <2>2. CASE ~(x < y) BY <2>2 DEF Span, Squares, Amid
  <2> QED BY <2>1, <2>2
<1>3. \A s : Amid(x, y, s) => s \in Squares BY DEF Amid
<1> QED BY <1>1, <1>2, <1>3 DEF SameSpan

\* The squares the king and the rook need, in the usual setting.
LEMMA CornerSpans ==
  ASSUME NEW idx \in Rights, NEW s
  PROVE  LET k == corners.king[OfSide(idx) + 1]
             r == corners.rook[idx + 1]
             kt == castle_king_to(idx)
             rt == castle_rook_to(idx)
         IN  /\ s \in (Span(k, kt) \cup Span(r, rt)) \ {k, r} <=> s \in Span(k, r) \ {k, r}
             /\ s \in {k} \cup (Span(k, kt) \ {kt}) <=> s \in {k, rt}
<1> DEFINE Same(k, r, kt, rt) == /\ s \in (Span(k, kt) \cup Span(r, rt)) \ {k, r} <=> s \in Span(k, r) \ {k, r}
                                 /\ s \in {k} \cup (Span(k, kt) \ {kt}) <=> s \in {k, rt}
<1>1. /\ Same(60, 63, 62, 61) /\ Same(60, 56, 58, 59) /\ Same(4, 7, 6, 5) /\ Same(4, 0, 2, 3)
  <2>1. Same(60, 63, 62, 61) BY DEF Span
  <2>2. Same(60, 56, 58, 59) BY DEF Span
  <2>3. Same(4, 7, 6, 5) BY DEF Span
  <2>4. Same(4, 0, 2, 3) BY DEF Span
  <2> QED BY <2>1, <2>2, <2>3, <2>4
<1> HIDE DEF Same
<1>2. Same(corners.king[OfSide(idx) + 1], corners.rook[idx + 1], castle_king_to(idx), castle_rook_to(idx))
  <2>1. /\ idx = 0 => /\ corners.king[OfSide(idx) + 1] = 60 /\ corners.rook[idx + 1] = 63
                      /\ castle_king_to(idx) = 62 /\ castle_rook_to(idx) = 61
        /\ idx = 1 => /\ corners.king[OfSide(idx) + 1] = 60 /\ corners.rook[idx + 1] = 56
                      /\ castle_king_to(idx) = 58 /\ castle_rook_to(idx) = 59
        /\ idx = 2 => /\ corners.king[OfSide(idx) + 1] = 4 /\ corners.rook[idx + 1] = 7
                      /\ castle_king_to(idx) = 6 /\ castle_rook_to(idx) = 5
        /\ idx = 3 => /\ corners.king[OfSide(idx) + 1] = 4 /\ corners.rook[idx + 1] = 0
                      /\ castle_king_to(idx) = 2 /\ castle_rook_to(idx) = 3
    <3>1. /\ corners.king = <<60, 4>> /\ corners.rook = <<63, 56, 7, 0>>
          /\ 0 \div 2 = 0 /\ 1 \div 2 = 0 /\ 2 \div 2 = 1 /\ 3 \div 2 = 1
      BY DEF corners
    <3>2. idx = 0 => /\ corners.king[OfSide(idx) + 1] = 60 /\ corners.rook[idx + 1] = 63
                     /\ castle_king_to(idx) = 62 /\ castle_rook_to(idx) = 61
      BY <3>1 DEF OfSide, castle_king_to, castle_rook_to
    <3>3. idx = 1 => /\ corners.king[OfSide(idx) + 1] = 60 /\ corners.rook[idx + 1] = 56
                     /\ castle_king_to(idx) = 58 /\ castle_rook_to(idx) = 59
      BY <3>1 DEF OfSide, castle_king_to, castle_rook_to
    <3>4. idx = 2 => /\ corners.king[OfSide(idx) + 1] = 4 /\ corners.rook[idx + 1] = 7
                     /\ castle_king_to(idx) = 6 /\ castle_rook_to(idx) = 5
      BY <3>1 DEF OfSide, castle_king_to, castle_rook_to
    <3>5. idx = 3 => /\ corners.king[OfSide(idx) + 1] = 4 /\ corners.rook[idx + 1] = 0
                     /\ castle_king_to(idx) = 2 /\ castle_rook_to(idx) = 3
      BY <3>1 DEF OfSide, castle_king_to, castle_rook_to
    <3> QED BY <3>2, <3>3, <3>4, <3>5
  <2>2. idx = 0 \/ idx = 1 \/ idx = 2 \/ idx = 3 BY DEF Rights
  <2> QED BY <1>1, <2>1, <2>2
<1> QED BY <1>2 DEF Same

\* What the tests of castling ask of the board.
Allows(b, k, r, kt, rt) ==
  /\ \A s \in (Span(k, kt) \cup Span(r, rt)) \ {k, r} : s \notin b.occ[white] \cup b.occ[black]
  /\ \A s \in {k} \cup (Span(k, kt) \ {kt}) : ~is_square_attacked(b, s, 1 - b.side)

\* The rules allow castling when the engine's tests do.
LEMMA MayCastleIs ==
  ASSUME NEW b, Ready(b), HomeSetup, NEW idx \in b.castle, OfSide(idx) = b.side, NEW p, p = PositionOf(b, setup),
         NEW k, k = castle_king_sq(b.side), NEW r, r = castle_rook_sq(idx)
  PROVE  Rules!MayCastle(p, k, r) <=> IF g_chess960 THEN c960_can_castle(b, idx) ELSE CanCastle(b, idx)
<1> DEFINE c == b.side
           kt == castle_king_to(idx)
           rt == castle_rook_to(idx)
           occ == b.occ[white] \cup b.occ[black]
<1>1. /\ b.bb \in Boards /\ c \in {white, black} /\ 1 - c \in {white, black} /\ Disjoint(b.bb)
      /\ idx \in Rights /\ idx \in HomeRights(setup)
  BY DEF Ready, RightsSound, white, black
<1>2. k = setup.king[OfSide(idx) + 1] /\ r = setup.rook[idx + 1] BY DEF castle_king_sq, castle_rook_sq
<1>3. k \in Squares /\ r \in Squares /\ Rules!RookTarget(k, r) = rt BY <1>1, <1>2, RookGoes
<1>4. Rules!KingTarget(k, r) = kt BY <1>1, <1>2, KingGoes
<1>5. kt \in Squares /\ rt \in Squares BY <1>1, CastlingSquares
<1>6. p.board = mailbox_of(b.bb) /\ p.turn = c BY PositionTerms
<1>7. \A s \in Squares : p.board[s] = Rules!Empty <=> s \notin occ BY <1>6, SquaresStand, RulesTerms
<1>8. \A s \in Squares : Rules!Attacked(p.board, s, 1 - c) <=> is_square_attacked(b, s, 1 - c)
  <2>1. All(b) = Full(b.bb) BY <1>1, AllIsFull DEF Ready
  <2>2. \A s \in Squares : is_square_attacked(b, s, 1 - c) <=> Assails(b.bb, 1 - c, s, All(b)) BY AttackedIs
  <2>3. \A s \in Squares : Rules!Attacked(p.board, s, 1 - c) <=> Assails(b.bb, 1 - c, s, Full(b.bb)) BY <1>1, <1>6, RulesAttack
  <2> QED BY <2>1, <2>2, <2>3
<1>9. \A s : /\ s \in Rules!Between(k, kt) <=> s \in Span(k, kt)
             /\ s \in Rules!Between(r, rt) <=> s \in Span(r, rt)
             /\ s \in Span(k, kt) \/ s \in Span(r, rt) => s \in Squares
  <2> HIDE DEF kt, rt
  <2>1. SameSpan(k, kt) /\ SameSpan(r, rt) BY <1>3, <1>5, SpansAgree
  <2> QED BY <2>1 DEF SameSpan
<1>10. Rules!MayCastle(p, k, r) <=>
         /\ \A s \in (Rules!Between(k, kt) \cup Rules!Between(r, rt)) \ {k, r} : p.board[s] = Rules!Empty
         /\ \A s \in {k} \cup (Rules!Between(k, kt) \ {kt}) : ~Rules!Attacked(p.board, s, 1 - c)
  BY <1>3, <1>4, <1>6 DEF Rules!MayCastle
<1>11. Rules!MayCastle(p, k, r) <=> Allows(b, k, r, kt, rt)
  <2> HIDE DEF kt, rt, occ, c
  <2>1. (\A s \in (Rules!Between(k, kt) \cup Rules!Between(r, rt)) \ {k, r} : p.board[s] = Rules!Empty)
          <=> \A s \in (Span(k, kt) \cup Span(r, rt)) \ {k, r} : s \notin occ
    BY <1>7, <1>9
  <2>2. (\A s \in {k} \cup (Rules!Between(k, kt) \ {kt}) : ~Rules!Attacked(p.board, s, 1 - c))
          <=> \A s \in {k} \cup (Span(k, kt) \ {kt}) : ~is_square_attacked(b, s, 1 - c)
    BY <1>3, <1>8, <1>9
  <2> QED BY <1>10, <2>1, <2>2 DEF Allows, occ, c
<1>12. CASE g_chess960
  <2> DEFINE path == IF k = kt THEN {k} ELSE Span(k, kt) \ {kt}
  <2>1. \A s : s \in path <=> s \in {k} \cup (Span(k, kt) \ {kt})
    BY <1>3, <1>5 DEF Span, Squares
  <2>2. c960_can_castle(b, idx) <=> /\ occ \cap ((Span(k, kt) \cup Span(r, rt)) \ {k, r}) = {}
                                   /\ \A s \in path : ~is_square_attacked(b, s, 1 - c)
    BY DEF c960_can_castle
  <2> HIDE DEF path, kt, rt, occ
  <2>3. c960_can_castle(b, idx) <=> Allows(b, k, r, kt, rt) BY <2>1, <2>2 DEF Allows, occ
  <2> QED BY <1>11, <1>12, <2>3
<1>13. CASE ~g_chess960
  <2>1. k = corners.king[OfSide(idx) + 1] /\ r = corners.rook[idx + 1]
    BY <1>1, <1>2, <1>13, CornersAre DEF HomeSetup
  <2>2. CanCastle(b, idx) <=> /\ occ \cap (Span(k, r) \ {k, r}) = {}
                             /\ ~is_square_attacked(b, k, 1 - c) /\ ~is_square_attacked(b, rt, 1 - c)
    BY <2>1 DEF CanCastle
  <2>3. \A s : /\ s \in (Span(k, kt) \cup Span(r, rt)) \ {k, r} <=> s \in Span(k, r) \ {k, r}
               /\ s \in {k} \cup (Span(k, kt) \ {kt}) <=> s \in {k, rt}
    BY <1>1, <2>1, CornerSpans
  <2> HIDE DEF kt, rt, occ
  <2>4. CanCastle(b, idx) <=> Allows(b, k, r, kt, rt) BY <2>2, <2>3 DEF Allows, occ
  <2> QED BY <1>11, <1>13, <2>4
<1> QED BY <1>12, <1>13

\* Whether the generator castles with a right.
Can(b, i) == IF g_chess960 THEN c960_can_castle(b, i) ELSE CanCastle(b, i)

\* A castling move, as the rules name it.
LEMMA CastlingNamed ==
  ASSUME NEW i \in Rights, NEW k, NEW c
  PROVE  RuleMoveIn(CastlingMove(k, castle_king_to(i), c), setup) = Rules!Castling(k, castle_king_to(i), castle_rook_sq(i))
<1> DEFINE m == CastlingMove(k, castle_king_to(i), c)
<1>1. m = [from |-> k, to |-> castle_king_to(i), piece |-> Piece(c, King), promo |-> 0, capture |-> FALSE, double |-> FALSE,
           enpass |-> FALSE, castling |-> TRUE]
  BY DEF CastlingMove, encode_move
<1> HIDE DEF m
<1>2. m.from = k /\ m.to = castle_king_to(i) /\ m.promo = 0 /\ m.castling BY <1>1
<1>3. setup.rook[castle_index(m.to) + 1] = castle_rook_sq(i) BY <1>2, CastlingSquares DEF castle_rook_sq
<1>4. RuleMoveIn(m, setup) = Rules!Castling(k, castle_king_to(i), castle_rook_sq(i))
  BY <1>2, <1>3, RulesTerms DEF RuleMoveIn, Rules!Castling, None
<1> QED BY <1>4 DEF m

\* The castling moves of the generator are those of the rules.
LEMMA CastlingImage ==
  ASSUME NEW b, Ready(b), HomeSetup, Cardinality(b.bb[Piece(b.side, King)]) = 1, NEW p, p = PositionOf(b, setup), NEW q
  PROVE  (\E m \in CastlingMoves(b) : q = RuleMoveIn(m, setup)) <=> \E r : CastlingWith(p, r, q)
<1> DEFINE c == b.side
           k == castle_king_sq(c)
           C(i) == Rules!Castling(k, castle_king_to(i), castle_rook_sq(i))
           M(i) == CastlingMove(k, castle_king_to(i), c)
           I(m) == RuleMoveIn(m, setup)
           Z == {i \in Rights : OfSide(i) = c /\ Can(b, i)}
           kk == Rules!KingOf(p.board, c)
<1>1. /\ b.bb \in Boards /\ c \in {white, black} /\ Disjoint(b.bb) /\ b.castle \in SUBSET Rights
      /\ RightsSound(b, setup)
  BY DEF Ready
<1>2. \A i \in Rights : Can(b, i) => i \in b.castle BY DEF Can, c960_can_castle, CanCastle
<1>3. p.board = mailbox_of(b.bb) /\ p.turn = c /\ p.rights = {castle_rook_sq(i) : i \in b.castle}
  BY PositionTerms DEF RookSquares, castle_rook_sq
<1>4. CastlingMoves(b) = {M(i) : i \in Z}
  <2>1. (IF g_chess960 THEN castle_king_sq(c) ELSE corners.king[c + 1]) = k BY <1>1, HomeKing
  <2> QED BY <2>1 DEF CastlingMoves, Can
<1>5. \A i \in Rights : I(M(i)) = C(i) BY CastlingNamed
<1>6. ASSUME NEW i \in b.castle
      PROVE  /\ Rules!Ours(p.board, castle_rook_sq(i), c) <=> OfSide(i) = c
             /\ OfSide(i) = c => /\ kk = k /\ Rules!KingTarget(k, castle_rook_sq(i)) = castle_king_to(i)
                                 /\ Rules!MayCastle(p, k, castle_rook_sq(i)) <=> Can(b, i)
  <2>1. /\ i \in Rights /\ i \in HomeRights(setup) /\ castle_rook_sq(i) = setup.rook[i + 1]
        /\ castle_rook_sq(i) \in b.bb[Piece(OfSide(i), Rook)] /\ setup.king[OfSide(i) + 1] \in b.bb[Piece(OfSide(i), King)]
    BY <1>1 DEF RightsSound, castle_rook_sq
  <2>2. castle_rook_sq(i) \in Squares BY <2>1, RookGoes
  <2>3. OfSide(i) \in {white, black} BY <2>1, SideOfRight
  <2>4. Rook \in 0..5 BY DEF Rook
  <2>5. /\ Piece(OfSide(i), Rook) \in Pieces /\ Rules!Owner(Piece(OfSide(i), Rook)) = OfSide(i)
        /\ Piece(OfSide(i), Rook) # None
    BY <2>3, <2>4, ManIs
  <2>6. p.board[castle_rook_sq(i)] = Piece(OfSide(i), Rook) BY <1>1, <1>3, <2>1, <2>2, <2>5, StandsOn
  <2>7. Rules!Ours(p.board, castle_rook_sq(i), c) <=> OfSide(i) = c BY <2>5, <2>6, RulesTerms DEF Rules!Ours
  <2>8. OfSide(i) = c => k = setup.king[OfSide(i) + 1] BY DEF castle_king_sq
  <2>9. OfSide(i) = c => Rules!KingTarget(k, castle_rook_sq(i)) = castle_king_to(i) BY <2>1, <2>8, KingGoes
  <2>10. OfSide(i) = c => kk = k BY <1>1, <1>3, <2>1, <2>8, RulesKing
  <2>11. OfSide(i) = c => (Rules!MayCastle(p, k, castle_rook_sq(i)) <=> Can(b, i)) BY MayCastleIs DEF Can
  <2> QED BY <2>7, <2>9, <2>10, <2>11
<1>7. \A r : CastlingWith(p, r, q) <=> /\ r \in p.rights /\ Rules!Ours(p.board, r, c) /\ Rules!MayCastle(p, kk, r)
                                      /\ q = Rules!Castling(kk, Rules!KingTarget(kk, r), r)
  BY <1>3 DEF CastlingWith
<1> HIDE DEF k, kk, M, I, c
<1>8. (\E m \in CastlingMoves(b) : q = I(m)) <=> \E i \in b.castle : OfSide(i) = c /\ Can(b, i) /\ q = C(i)
  <2> HIDE DEF C
  <2> QED BY <1>1, <1>2, <1>4, <1>5
<1>9. (\E r : CastlingWith(p, r, q)) <=> \E i \in b.castle : CastlingWith(p, castle_rook_sq(i), q) BY <1>3, <1>7
<1>10. \A i \in b.castle : CastlingWith(p, castle_rook_sq(i), q) <=> OfSide(i) = c /\ Can(b, i) /\ q = C(i)
  BY <1>3, <1>6, <1>7
<1> HIDE DEF C
<1>11. (\E m \in CastlingMoves(b) : q = I(m)) <=> \E r : CastlingWith(p, r, q) BY <1>8, <1>9, <1>10
<1> QED BY <1>11 DEF I

(***************************************************************************)
(* What no move takes back: the number of men, the pawns that have not     *)
(* passed a row and the rights never grow, and a move resets the clock     *)
(* only when one of them is less.                                          *)
(***************************************************************************)
Rooks == {Piece(white, Rook), Piece(black, Rook)}
Scene(p) ==
  /\ p \in [board : [Squares -> Pieces \cup {None}], turn : {white, black}, ep : 0..64, clock : Nat, rights : SUBSET Squares]
  /\ \A r \in p.rights : p.board[r] \in Rooks
  /\ p.ep # no_sq => p.board[p.ep] = None
  /\ \A c \in {white, black} : \E k \in Squares : p.board[k] = Piece(c, King)
Alike(p, q) == [p EXCEPT !.clock = 0] = [q EXCEPT !.clock = 0]

MenAt(p) == {s \in Squares : p.board[s] # None}
Unmoved(p, c, r) == {s \in Squares : p.board[s] = Piece(c, Pawn) /\ IF c = white THEN Row(s) >= r ELSE Row(s) <= r}
Onward(p, q) ==
  /\ Cardinality(MenAt(q)) <= Cardinality(MenAt(p))
  /\ \A c \in {white, black}, r \in 0..7 : Cardinality(Unmoved(q, c, r)) <= Cardinality(Unmoved(p, c, r))
  /\ q.rights \subseteq p.rights
Gone(p, q) ==
  \/ Cardinality(MenAt(q)) < Cardinality(MenAt(p))
  \/ \E c \in {white, black}, r \in 0..7 : Cardinality(Unmoved(q, c, r)) < Cardinality(Unmoved(p, c, r))
  \/ q.rights # p.rights
Advances(p, q) ==
  /\ q.turn = 1 - p.turn /\ Onward(p, q)
  /\ q.clock = p.clock + 1 \/ Gone(p, q)
  /\ \A s \in Squares : q.board[s] \in Men(1 - p.turn) => p.board[s] = q.board[s]
  /\ Gone(p, q) \/ \E s \in Squares : p.board[s] \in Men(p.turn) /\ q.board[s] = None
\* q comes d moves after p.
Pair(p, q, d) ==
  /\ q.turn = IF d % 2 = 0 THEN p.turn ELSE 1 - p.turn
  /\ Onward(p, q)
  /\ q.clock >= d \/ Gone(p, q)
  /\ d = 1 => Advances(p, q)
  /\ d = 2 => ~Alike(p, q)

\* Sets of squares are finite.
LEMMA SquaresCount ==
  ASSUME NEW A \in SUBSET Squares
  PROVE  IsFiniteSet(A) /\ Cardinality(A) \in Nat
<1>1. 0 \in Int /\ 63 \in Int OBVIOUS
<1>2. IsFiniteSet(Squares) BY <1>1, FS_Interval DEF Squares
<1>3. IsFiniteSet(A) BY <1>2, FS_Subset
<1> QED BY <1>3, FS_CardinalityType

\* A set that gives up a member for another has not grown.
LEMMA Swapped ==
  ASSUME NEW A \in SUBSET Squares, NEW B \in SUBSET Squares, NEW f \in A, NEW t, B \subseteq (A \ {f}) \cup {t}
  PROVE  /\ Cardinality(B) <= Cardinality(A)
         /\ B \subseteq A \ {f} => Cardinality(B) < Cardinality(A)
<1>1. IsFiniteSet(A) /\ Cardinality(A) \in Nat /\ Cardinality(B) \in Nat BY SquaresCount
<1>2. IsFiniteSet(A \ {f}) /\ Cardinality(A \ {f}) = Cardinality(A) - 1 BY <1>1, FS_RemoveElement
<1>3. IsFiniteSet((A \ {f}) \cup {t}) /\ Cardinality((A \ {f}) \cup {t}) <= Cardinality(A)
  <2>1. Cardinality((A \ {f}) \cup {t}) = IF t \in A \ {f} THEN Cardinality(A \ {f}) ELSE Cardinality(A \ {f}) + 1
    BY <1>2, FS_AddElement
  <2> QED BY <1>1, <1>2, <2>1, FS_AddElement
<1>4. Cardinality(B) <= Cardinality((A \ {f}) \cup {t}) BY <1>3, FS_Subset
<1>5. Cardinality((A \ {f}) \cup {t}) \in Nat BY <1>3, FS_CardinalityType
<1>6. ASSUME B \subseteq A \ {f} PROVE Cardinality(B) < Cardinality(A)
  <2>1. Cardinality(B) <= Cardinality(A \ {f}) BY <1>2, <1>6, FS_Subset
  <2> QED BY <1>1, <1>2, <2>1
<1> QED BY <1>1, <1>3, <1>4, <1>5, <1>6

\* The same for two members and two others.
LEMMA SwappedTwice ==
  ASSUME NEW A \in SUBSET Squares, NEW B \in SUBSET Squares, NEW f \in A, NEW h \in A, f # h, NEW t \in Squares, NEW u,
         B \subseteq (A \ {f, h}) \cup {t, u}
  PROVE  Cardinality(B) <= Cardinality(A)
<1> DEFINE C == (A \ {f}) \cup {t}
<1>1. C \in SUBSET Squares /\ Cardinality(C) <= Cardinality(A) /\ Cardinality(A) \in Nat /\ Cardinality(C) \in Nat /\ Cardinality(B) \in Nat
  BY Swapped, SquaresCount
<1>2. h \in C OBVIOUS
<1>3. CASE t # h
  <2>1. B \subseteq (C \ {h}) \cup {u} BY <1>3
  <2> HIDE DEF C
  <2>2. Cardinality(B) <= Cardinality(C) BY <1>1, <1>2, <2>1, Swapped
  <2> QED BY <1>1, <2>2
<1>4. CASE t = h
  <2>1. B \subseteq (A \ {f}) \cup {u} BY <1>4
  <2> QED BY <2>1, Swapped
<1> QED BY <1>3, <1>4

\* The counts are numbers.
LEMMA CountsAre ==
  ASSUME NEW p
  PROVE  /\ MenAt(p) \in SUBSET Squares /\ Cardinality(MenAt(p)) \in Nat
         /\ \A c, r : Unmoved(p, c, r) \in SUBSET Squares /\ Cardinality(Unmoved(p, c, r)) \in Nat
<1>1. MenAt(p) \in SUBSET Squares BY DEF MenAt
<1>2. \A c, r : Unmoved(p, c, r) \in SUBSET Squares BY DEF Unmoved
<1> QED BY <1>1, <1>2, SquaresCount

\* Positions that differ in the clock alone.
LEMMA AlikeIs ==
  ASSUME NEW p, NEW q, Scene(p), Scene(q)
  PROVE  Alike(p, q) <=> p.board = q.board /\ p.turn = q.turn /\ p.ep = q.ep /\ p.rights = q.rights
<1>1. ASSUME Alike(p, q) PROVE p.board = q.board /\ p.turn = q.turn /\ p.ep = q.ep /\ p.rights = q.rights
  <2>1. [p EXCEPT !.clock = 0].board = p.board /\ [p EXCEPT !.clock = 0].turn = p.turn /\ [p EXCEPT !.clock = 0].ep = p.ep
        /\ [p EXCEPT !.clock = 0].rights = p.rights
    BY DEF Scene
  <2>2. [q EXCEPT !.clock = 0].board = q.board /\ [q EXCEPT !.clock = 0].turn = q.turn /\ [q EXCEPT !.clock = 0].ep = q.ep
        /\ [q EXCEPT !.clock = 0].rights = q.rights
    BY DEF Scene
  <2> QED BY <1>1, <2>1, <2>2 DEF Alike
<1>2. ASSUME p.board = q.board /\ p.turn = q.turn /\ p.ep = q.ep /\ p.rights = q.rights PROVE Alike(p, q)
  BY <1>2 DEF Alike, Scene
<1> QED BY <1>1, <1>2

\* What is gone stays gone.
LEMMA OnwardOn ==
  ASSUME NEW p, NEW q, NEW r, Onward(p, q), Onward(q, r)
  PROVE  Onward(p, r) /\ (Gone(p, q) \/ Gone(q, r) => Gone(p, r))
<1>1. \A x : Cardinality(MenAt(x)) \in Nat /\ \A c, y : Cardinality(Unmoved(x, c, y)) \in Nat BY CountsAre
<1> DEFINE M(x) == Cardinality(MenAt(x))
           U(x, c, y) == Cardinality(Unmoved(x, c, y))
<1>2. \A x : M(x) \in Nat /\ \A c, y : U(x, c, y) \in Nat BY <1>1
<1>3. /\ M(q) <= M(p) /\ M(r) <= M(q) /\ q.rights \subseteq p.rights /\ r.rights \subseteq q.rights
      /\ \A c \in {white, black}, y \in 0..7 : U(q, c, y) <= U(p, c, y) /\ U(r, c, y) <= U(q, c, y)
  BY DEF Onward
<1>4. Onward(p, r) <=> /\ M(r) <= M(p) /\ r.rights \subseteq p.rights
                       /\ \A c \in {white, black}, y \in 0..7 : U(r, c, y) <= U(p, c, y)
  BY DEF Onward
<1>5. Gone(p, q) <=> M(q) < M(p) \/ (\E c \in {white, black}, y \in 0..7 : U(q, c, y) < U(p, c, y)) \/ q.rights # p.rights
  BY DEF Gone
<1>6. Gone(q, r) <=> M(r) < M(q) \/ (\E c \in {white, black}, y \in 0..7 : U(r, c, y) < U(q, c, y)) \/ r.rights # q.rights
  BY DEF Gone
<1>7. Gone(p, r) <=> M(r) < M(p) \/ (\E c \in {white, black}, y \in 0..7 : U(r, c, y) < U(p, c, y)) \/ r.rights # p.rights
  BY DEF Gone
<1> HIDE DEF M, U
<1>8. M(r) <= M(p) /\ (M(q) < M(p) \/ M(r) < M(q) => M(r) < M(p))
  <2>1. M(p) \in Nat /\ M(q) \in Nat /\ M(r) \in Nat BY <1>2
  <2> QED BY <1>3, <2>1
<1>9. ASSUME NEW c \in {white, black}, NEW y \in 0..7
      PROVE  U(r, c, y) <= U(p, c, y) /\ (U(q, c, y) < U(p, c, y) \/ U(r, c, y) < U(q, c, y) => U(r, c, y) < U(p, c, y))
  <2>1. U(p, c, y) \in Nat /\ U(q, c, y) \in Nat /\ U(r, c, y) \in Nat BY <1>2
  <2>2. U(q, c, y) <= U(p, c, y) /\ U(r, c, y) <= U(q, c, y) BY <1>3
  <2> QED BY <2>1, <2>2
<1>10. Onward(p, r) BY <1>3, <1>4, <1>8, <1>9
<1>11. ASSUME Gone(p, q) \/ Gone(q, r) PROVE Gone(p, r)
  <2>1. CASE M(q) < M(p) \/ M(r) < M(q) BY <1>7, <1>8, <2>1
  <2>2. CASE \E c \in {white, black}, y \in 0..7 : U(q, c, y) < U(p, c, y) \/ U(r, c, y) < U(q, c, y)
    <3>1. PICK c \in {white, black}, y \in 0..7 : U(q, c, y) < U(p, c, y) \/ U(r, c, y) < U(q, c, y) BY <2>2
    <3> QED BY <1>7, <1>9, <3>1
  <2>3. CASE q.rights # p.rights \/ r.rights # q.rights BY <1>3, <1>7, <2>3
  <2> QED BY <1>5, <1>6, <1>11, <2>1, <2>2, <2>3
<1> QED BY <1>10, <1>11

\* A position that comes back has lost nothing.
LEMMA GoneIsUnlike ==
  ASSUME NEW p, NEW q, Scene(p), Scene(q), Gone(p, q) PROVE ~Alike(p, q)
<1> SUFFICES ASSUME Alike(p, q) PROVE FALSE OBVIOUS
<1>1. p.board = q.board /\ p.rights = q.rights BY AlikeIs
<1>2. MenAt(p) = MenAt(q) /\ \A c, r : Unmoved(p, c, r) = Unmoved(q, c, r) BY <1>1 DEF MenAt, Unmoved
<1>3. \A x : Cardinality(MenAt(x)) \in Nat /\ \A c, y : Cardinality(Unmoved(x, c, y)) \in Nat BY CountsAre
<1>4. ~(Cardinality(MenAt(q)) < Cardinality(MenAt(p))) BY <1>2, <1>3
<1>5. \A c, r : ~(Cardinality(Unmoved(q, c, r)) < Cardinality(Unmoved(p, c, r))) BY <1>2, <1>3
<1> QED BY <1>1, <1>4, <1>5 DEF Gone

\* One more move.
LEMMA PairExtends ==
  ASSUME NEW p, NEW q, NEW r, Scene(p), Scene(q), Scene(r), NEW d \in Nat, d >= 1, Pair(p, q, d), Advances(q, r)
  PROVE  Pair(p, r, d + 1)
<1>1. Onward(p, r) /\ (Gone(p, q) \/ Gone(q, r) => Gone(p, r)) BY OnwardOn DEF Pair, Advances
<1>2. r.turn = IF (d + 1) % 2 = 0 THEN p.turn ELSE 1 - p.turn
  <2>1. p.turn \in {0, 1} BY DEF Scene, white, black
  <2>2. (d + 1) % 2 = 0 <=> d % 2 # 0 OBVIOUS
  <2> QED BY <2>1, <2>2 DEF Pair, Advances
<1>3. r.clock >= d + 1 \/ Gone(p, r)
  <2>1. p.clock \in Nat /\ q.clock \in Nat /\ r.clock \in Nat BY DEF Scene
  <2> QED BY <1>1, <2>1 DEF Pair, Advances
<1>4. ASSUME d + 1 = 2 PROVE ~Alike(p, r)
  <2>1. Advances(p, q) BY <1>4 DEF Pair
  <2>2. CASE Gone(p, q) BY <1>1, <2>2, GoneIsUnlike
  <2>3. CASE ~Gone(p, q)
    <3>1. PICK s \in Squares : p.board[s] \in Men(p.turn) /\ q.board[s] = None BY <2>1, <2>3 DEF Advances
    <3>2. q.turn = 1 - p.turn /\ p.turn \in {0, 1} BY <2>1 DEF Advances, Scene, white, black
    <3>3. r.board[s] \in Men(p.turn) => q.board[s] = r.board[s]
      <4>1. 1 - q.turn = p.turn BY <3>2
      <4> QED BY <4>1 DEF Advances
    <3>4. None \notin Men(p.turn)
      <4>1. p.turn \in {white, black} BY DEF Scene
      <4> QED BY <4>1, MenIs DEF None, Pieces
    <3>5. r.board[s] # p.board[s] BY <3>1, <3>3, <3>4
    <3> QED BY <3>5, AlikeIs
  <2> QED BY <2>2, <2>3
<1>5. d + 1 # 1 OBVIOUS
<1> QED BY <1>1, <1>2, <1>3, <1>4, <1>5 DEF Pair

\* One move.
LEMMA PairStarts ==
  ASSUME NEW p, NEW q, Scene(p), Scene(q), Advances(p, q)
  PROVE  Pair(p, q, 1)
<1>1. p.clock \in Nat /\ q.clock \in Nat BY DEF Scene
<1>2. q.clock >= 1 \/ Gone(p, q) BY <1>1 DEF Advances
<1>3. 1 % 2 # 0 OBVIOUS
<1> QED BY <1>2, <1>3 DEF Pair, Advances

\* What a move that is not castling does to the squares: one man leaves s, stands on t, as another when it is a promoted
\* pawn, and what else changes is taken.
Transfers(p, q, s, t, man) ==
  /\ s \in Squares /\ t \in Squares /\ p.board[s] \in Men(p.turn) /\ man \in Men(p.turn) /\ p.board[t] \notin Men(p.turn)
  /\ q.board[s] = None /\ q.board[t] = man /\ q.turn = 1 - p.turn
  /\ \A x \in Squares : x # s /\ x # t => q.board[x] \in {p.board[x], None}
  /\ man = Piece(p.turn, Pawn) => /\ p.board[s] = man
                                  /\ IF p.turn = white THEN Row(t) < Row(s) ELSE Row(t) > Row(s)
  /\ q.rights \subseteq p.rights
  /\ q.clock = p.clock + 1 \/ p.board[s] = Piece(p.turn, Pawn) \/ p.board[t] # None

\* A man that goes from one square to another, changed or not, advances the game.
LEMMA TransferAdvances ==
  ASSUME NEW p, NEW q, Scene(p), Scene(q), NEW s, NEW t, NEW man, Transfers(p, q, s, t, man)
  PROVE  Advances(p, q)
<1> DEFINE c == p.turn
           pawn == Piece(c, Pawn)
<1>1. c \in {white, black} BY DEF Scene
<1>2. Men(c) \cap Men(1 - c) = {} /\ None \notin Men(c) /\ None \notin Men(1 - c) BY <1>1, MenIs DEF None, Pieces
<1>3. s # t /\ s \in Squares /\ t \in Squares BY DEF Transfers
<1>4. s \in MenAt(p) BY <1>2 DEF Transfers, MenAt
<1>5. MenAt(q) \subseteq (MenAt(p) \ {s}) \cup {t} BY DEF Transfers, MenAt
<1>6. /\ Cardinality(MenAt(q)) <= Cardinality(MenAt(p))
      /\ p.board[t] # None => Cardinality(MenAt(q)) < Cardinality(MenAt(p))
  <2>1. MenAt(p) \in SUBSET Squares /\ MenAt(q) \in SUBSET Squares BY CountsAre
  <2>2. p.board[t] # None => MenAt(q) \subseteq MenAt(p) \ {s} BY <1>3, <1>5 DEF MenAt
  <2> QED BY <1>4, <1>5, <2>1, <2>2, Swapped
<1>7. \A x \in Squares : q.board[x] \in Men(1 - c) => p.board[x] = q.board[x] BY <1>2 DEF Transfers
<1>8. ASSUME NEW x \in Squares, NEW d \in {white, black}, q.board[x] = Piece(d, Pawn), x # t PROVE p.board[x] = Piece(d, Pawn) /\ x # s
  <2>1. Piece(d, Pawn) # None BY DEF Piece, Pawn, None, white, black
  <2> QED BY <1>8, <2>1 DEF Transfers
<1>9. ASSUME NEW d \in {white, black}, NEW r \in 0..7
      PROVE  /\ Cardinality(Unmoved(q, d, r)) <= Cardinality(Unmoved(p, d, r))
             /\ p.board[s] = pawn /\ d = c /\ r = Row(s) => Cardinality(Unmoved(q, d, r)) < Cardinality(Unmoved(p, d, r))
  <2>1. Unmoved(p, d, r) \in SUBSET Squares /\ Unmoved(q, d, r) \in SUBSET Squares BY CountsAre
  <2>2. Row(s) \in Int /\ Row(t) \in Int BY <1>3 DEF Row, Squares
  <2>3. t \in Unmoved(q, d, r) => man = pawn /\ d = c
    <3>1. man \in Men(c) BY DEF Transfers
    <3>2. Piece(d, Pawn) \in Men(d) BY DEF Men, Pawn
    <3>3. d # c => Piece(d, Pawn) \notin Men(c)
      <4>1. d # c => d = 1 - c BY <1>1 DEF white, black
      <4> QED BY <1>2, <3>2, <4>1
    <3> QED BY <3>1, <3>3 DEF Unmoved, Transfers
  <2>4. Unmoved(q, d, r) \subseteq Unmoved(p, d, r) \cup {t} BY <1>8 DEF Unmoved
  <2>5. s \notin Unmoved(q, d, r)
    <3>1. q.board[s] = None /\ Piece(d, Pawn) # None BY DEF Transfers, Piece, Pawn, None, white, black
    <3> QED BY <3>1 DEF Unmoved
  <2>6. t \in Unmoved(q, d, r) => s \in Unmoved(p, d, r)
    <3> SUFFICES ASSUME t \in Unmoved(q, d, r) PROVE s \in Unmoved(p, d, r) OBVIOUS
    <3>1. man = pawn /\ d = c BY <2>3
    <3>2. p.board[s] = pawn /\ IF c = white THEN Row(t) < Row(s) ELSE Row(t) > Row(s) BY <3>1 DEF Transfers
    <3>3. IF c = white THEN Row(t) >= r ELSE Row(t) <= r BY <3>1 DEF Unmoved
    <3>4. IF c = white THEN Row(s) >= r ELSE Row(s) <= r BY <2>2, <3>2, <3>3
    <3> QED BY <1>3, <3>1, <3>2, <3>4 DEF Unmoved
  <2>7. Cardinality(Unmoved(q, d, r)) <= Cardinality(Unmoved(p, d, r))
    <3>1. CASE t \in Unmoved(q, d, r)
      <4>1. Unmoved(q, d, r) \subseteq (Unmoved(p, d, r) \ {s}) \cup {t} BY <2>4, <2>5
      <4> QED BY <2>1, <2>6, <3>1, <4>1, Swapped
    <3>2. CASE t \notin Unmoved(q, d, r)
      <4>1. Unmoved(q, d, r) \subseteq Unmoved(p, d, r) BY <2>4, <3>2
      <4> QED BY <2>1, <4>1, SquaresCount, FS_Subset
    <3> QED BY <3>1, <3>2
  <2>8. ASSUME p.board[s] = pawn, d = c, r = Row(s) PROVE Cardinality(Unmoved(q, d, r)) < Cardinality(Unmoved(p, d, r))
    <3>1. s \in Unmoved(p, d, r)
      <4>1. IF c = white THEN Row(s) >= r ELSE Row(s) <= r BY <2>2, <2>8
      <4> QED BY <1>3, <2>8, <4>1 DEF Unmoved
    <3>2. t \notin Unmoved(q, d, r)
      <4> SUFFICES ASSUME t \in Unmoved(q, d, r) PROVE FALSE OBVIOUS
      <4>1. man = pawn BY <2>3
      <4>2. IF c = white THEN Row(t) < Row(s) ELSE Row(t) > Row(s) BY <4>1 DEF Transfers
      <4>3. IF c = white THEN Row(t) >= r ELSE Row(t) <= r BY <2>8 DEF Unmoved
      <4> QED BY <2>2, <2>8, <4>2, <4>3
    <3>3. Unmoved(q, d, r) \subseteq Unmoved(p, d, r) \ {s} BY <2>4, <2>5, <3>2
    <3>4. Unmoved(q, d, r) \subseteq (Unmoved(p, d, r) \ {s}) \cup {t} BY <3>3
    <3> QED BY <2>1, <3>1, <3>3, <3>4, Swapped
  <2> QED BY <2>7, <2>8
<1>10. Onward(p, q) BY <1>6, <1>9 DEF Onward, Transfers
<1>11. p.board[s] = pawn => Gone(p, q)
  <2> SUFFICES ASSUME p.board[s] = pawn PROVE Gone(p, q) OBVIOUS
  <2>1. Row(s) \in 0..7 BY <1>3 DEF Row, Squares
  <2>2. Cardinality(Unmoved(q, c, Row(s))) < Cardinality(Unmoved(p, c, Row(s))) BY <1>1, <1>9, <2>1
  <2> QED BY <1>1, <2>1, <2>2 DEF Gone
<1>12. q.clock = p.clock + 1 \/ Gone(p, q) BY <1>6, <1>11 DEF Transfers, Gone
<1>13. p.board[s] \in Men(c) /\ q.board[s] = None /\ q.turn = 1 - c BY DEF Transfers
<1> QED BY <1>3, <1>7, <1>10, <1>12, <1>13 DEF Advances

\* Castling ends the rights of its side.
Castles(p, q, k, r, t, u) ==
  /\ {k, r, t, u} \subseteq Squares /\ k # r
  /\ {p.board[k], p.board[r]} \subseteq Men(p.turn) \ {Piece(p.turn, Pawn)}
  /\ q.turn = 1 - p.turn /\ q.clock = p.clock + 1
  /\ {q.board[t], q.board[u]} \subseteq Men(p.turn) \ {Piece(p.turn, Pawn)}
  /\ \A x \in Squares : x # t /\ x # u => q.board[x] = IF x = k \/ x = r THEN None ELSE p.board[x]
  /\ r \in p.rights /\ q.rights \subseteq p.rights \ {r}

\* Castling advances the game: a right is gone.
LEMMA CastlingAdvances ==
  ASSUME NEW p, NEW q, Scene(p), Scene(q), NEW k, NEW r, NEW t, NEW u, Castles(p, q, k, r, t, u)
  PROVE  Advances(p, q)
<1> DEFINE c == p.turn
<1>1. c \in {white, black} BY DEF Scene
<1>2. Men(c) \cap Men(1 - c) = {} /\ None \notin Men(c) /\ None \notin Men(1 - c) BY <1>1, MenIs DEF None, Pieces
<1>3. MenAt(p) \in SUBSET Squares /\ MenAt(q) \in SUBSET Squares BY CountsAre
<1>4. k \in MenAt(p) /\ r \in MenAt(p) /\ k # r BY <1>2 DEF Castles, MenAt
<1>5. MenAt(q) \subseteq (MenAt(p) \ {k, r}) \cup {t, u} BY DEF Castles, MenAt
<1>6. t \in Squares BY DEF Castles
<1>7. Cardinality(MenAt(q)) <= Cardinality(MenAt(p)) BY <1>3, <1>4, <1>5, <1>6, SwappedTwice
<1>8. ASSUME NEW d \in {white, black}, NEW y \in 0..7 PROVE Cardinality(Unmoved(q, d, y)) <= Cardinality(Unmoved(p, d, y))
  <2>1. Piece(d, Pawn) # None BY DEF Piece, Pawn, None, white, black
  <2>2. q.board[t] # Piece(d, Pawn) /\ q.board[u] # Piece(d, Pawn)
    <3>1. Piece(d, Pawn) \in Men(d) BY DEF Men, Pawn
    <3>2. d = c \/ d = 1 - c BY <1>1 DEF white, black
    <3> QED BY <1>2, <3>1, <3>2 DEF Castles
  <2>3. Unmoved(q, d, y) \subseteq Unmoved(p, d, y) BY <2>1, <2>2 DEF Unmoved, Castles
  <2>4. Unmoved(p, d, y) \in SUBSET Squares BY CountsAre
  <2> QED BY <2>3, <2>4, SquaresCount, FS_Subset
<1>9. Onward(p, q) BY <1>7, <1>8 DEF Onward, Castles
<1>10. Gone(p, q) BY DEF Gone, Castles
<1>11. \A x \in Squares : q.board[x] \in Men(1 - c) => p.board[x] = q.board[x] BY <1>2 DEF Castles
<1>12. q.turn = 1 - c BY DEF Castles
<1> QED BY <1>9, <1>10, <1>11, <1>12 DEF Advances

\* The men of a side on the board of the rules.
LEMMA OursIs ==
  ASSUME NEW p, Scene(p), NEW s \in Squares, NEW c \in {white, black}
  PROVE  Rules!Ours(p.board, s, c) <=> p.board[s] \in Men(c)
<1>1. p.board[s] \in Pieces \cup {None} BY DEF Scene
<1>2. Rules!Ours(p.board, s, c) <=> p.board[s] # None /\ Rules!Owner(p.board[s]) = c BY RulesTerms DEF Rules!Ours
<1>3. \A x \in Pieces : Rules!Owner(x) = c <=> x \in Men(c) BY MenIs DEF Rules!Owner, Pieces, white, black
<1>4. None \notin Men(c) /\ None \notin Pieces BY MenIs DEF None, Pieces
<1> QED BY <1>1, <1>2, <1>3, <1>4

\* What a man reaches is on the board.
LEMMA ReachOnBoard ==
  ASSUME NEW bd, NEW s \in Squares, Rules!Kind(bd[s]) \in 0..5, NEW t \in Rules!Reach(bd, s)
  PROVE  t \in Squares
<1>1. ASSUME NEW dirs, NEW far, t \in Rules!Walk(bd, s, dirs, far) PROVE t \in Squares
  <2>1. PICK d \in dirs, n \in 1..far : Rules!OnBoard(s, d, n) /\ t = Rules!To(s, d, n) BY <1>1 DEF Rules!Walk
  <2>2. t = 8 * (Rules!Rank(s) + n * d[2]) + (Rules!Col(s) + n * d[1]) BY <2>1 DEF Rules!To, Rules!Sq
  <2>3. Rules!Rank(s) + n * d[2] \in 0..7 /\ Rules!Col(s) + n * d[1] \in 0..7 BY <2>1 DEF Rules!OnBoard
  <2> QED BY <2>2, <2>3, Coordinates
<1>2. \E dirs, far : Rules!Reach(bd, s) = Rules!Walk(bd, s, dirs, far)
  <2>1. \/ Rules!Kind(bd[s]) = 0 \/ Rules!Kind(bd[s]) = 1 \/ Rules!Kind(bd[s]) = 2 \/ Rules!Kind(bd[s]) = 3
        \/ Rules!Kind(bd[s]) = 4 \/ Rules!Kind(bd[s]) = 5
    OBVIOUS
  <2> QED BY <2>1 DEF Rules!Reach
<1> QED BY <1>1, <1>2

\* The squares a man of the side to move may step to; a pawn comes nearer to its last row.
LEMMA StepsAre ==
  ASSUME NEW p, Scene(p), NEW s \in Squares, p.board[s] \in Men(p.turn), NEW t \in Rules!Steps(p, s)
  PROVE  /\ t \in Squares /\ p.board[t] \notin Men(p.turn)
         /\ p.board[s] = Piece(p.turn, Pawn) => IF p.turn = white THEN Row(t) < Row(s) ELSE Row(t) > Row(s)
<1> DEFINE c == p.turn
<1>1. c \in {white, black} /\ 1 - c \in {white, black} BY DEF Scene, white, black
<1>2. Men(c) \cap Men(1 - c) = {} /\ None \notin Men(c) BY <1>1, MenIs DEF None, Pieces
<1>3. p.board[s] \in Pieces BY <1>1, MenIs
<1>4. Rules!Kind(p.board[s]) \in 0..5 BY <1>3 DEF Rules!Kind, Pieces
<1>5. p.board[s] = Piece(c, Pawn) <=> Rules!Kind(p.board[s]) = 0
  <2>1. p.board[s] \in (IF c = white THEN 0..5 ELSE 6..11) BY <1>1, MenIs DEF white, black
  <2> QED BY <1>1, <2>1 DEF Piece, Pawn, Rules!Kind, white, black
<1>6. CASE Rules!Kind(p.board[s]) # 0
  <2>1. t \in Rules!Reach(p.board, s) /\ ~Rules!Ours(p.board, t, c) BY <1>6 DEF Rules!Steps
  <2>2. t \in Squares BY <1>4, <2>1, ReachOnBoard
  <2> QED BY <1>1, <1>5, <1>6, <2>1, <2>2, OursIs
<1>7. CASE Rules!Kind(p.board[s]) = 0
  <2>1. t \in Rules!PawnSteps(p, s) BY <1>7 DEF Rules!Steps
  <2>2. /\ s + 8 * Rules!Ahead(c) = s + Up(c) /\ s + 16 * Rules!Ahead(c) = s + 2 * Up(c)
        /\ Rules!Rank(s) = Rules!FirstRank(c) + Rules!Ahead(c) <=> Row(s) = SecondRow(c)
        /\ Row(s) = SecondRow(c) => s + 2 * Up(c) \in Squares
    BY <1>1, PawnRanks
  <2>3. \/ t = s + Up(c) /\ t \in Squares /\ p.board[t] = None
        \/ t = s + 2 * Up(c) /\ Row(s) = SecondRow(c) /\ p.board[t] = None
        \/ t \in Rules!Reach(p.board, s) /\ (Rules!Ours(p.board, t, 1 - c) \/ t = p.ep)
    BY <2>1, <2>2, RulesTerms DEF Rules!PawnSteps
  <2>4. CASE t = s + Up(c) /\ t \in Squares /\ p.board[t] = None
    <3>1. IF c = white THEN Row(t) < Row(s) ELSE Row(t) > Row(s) BY <1>1, <2>4 DEF Row, Up, Squares, white, black
    <3> QED BY <1>2, <2>4, <3>1
  <2>5. CASE t = s + 2 * Up(c) /\ Row(s) = SecondRow(c) /\ p.board[t] = None
    <3>1. t \in Squares BY <2>2, <2>5
    <3>2. IF c = white THEN Row(t) < Row(s) ELSE Row(t) > Row(s) BY <1>1, <2>5, <3>1 DEF Row, Up, Squares, white, black
    <3> QED BY <1>2, <2>5, <3>1, <3>2
  <2>6. CASE t \in Rules!Reach(p.board, s) /\ (Rules!Ours(p.board, t, 1 - c) \/ t = p.ep)
    <3>1. t \in Squares BY <1>4, <2>6, ReachOnBoard
    <3>2. p.board[t] \notin Men(c)
      <4>1. CASE Rules!Ours(p.board, t, 1 - c) BY <1>1, <1>2, <3>1, <4>1, OursIs
      <4>2. CASE t = p.ep
        <5>1. t # no_sq BY <3>1 DEF Squares, no_sq
        <5> QED BY <1>2, <4>2, <5>1 DEF Scene
      <4> QED BY <2>6, <4>1, <4>2
    <3>3. t \in pawn_attacks[c][s] BY <1>1, <1>5, <1>7, <2>6, <3>1, PawnReach
    <3>4. t - Up(c) \in Squares /\ Row(t - Up(c)) = Row(s) BY <1>1, <3>1, <3>3, PawnStep
    <3>5. IF c = white THEN Row(t) < Row(s) ELSE Row(t) > Row(s) BY <1>1, <3>1, <3>4 DEF Row, Up, Squares, white, black
    <3> QED BY <3>1, <3>2, <3>5
  <2> QED BY <2>3, <2>4, <2>5, <2>6
<1> QED BY <1>6, <1>7

\* A move of the rules that does not castle.
LEMMA PlainAdvances ==
  ASSUME NEW p, Scene(p), NEW s \in Squares, Rules!Ours(p.board, s, p.turn), NEW m, StepFrom(p, s, m),
         NEW q, Scene(q), q = Rules!After(p, m)
  PROVE  Advances(p, q)
<1> DEFINE c == p.turn
<1>1. c \in {white, black} BY DEF Scene
<1>2. p.board[s] \in Men(c) BY <1>1, OursIs
<1>3. PICK t \in Rules!Steps(p, s) : \E r \in (IF Rules!Kind(p.board[s]) = 0 THEN Rules!Promotions(t, c) ELSE {None}) : m = Rules!Plain(s, t, r)
  BY DEF StepFrom
<1>4. PICK r \in (IF Rules!Kind(p.board[s]) = 0 THEN Rules!Promotions(t, c) ELSE {None}) : m = Rules!Plain(s, t, r)
  BY <1>3
<1>5. m.from = s /\ m.to = t /\ m.promo = r /\ m.rook = no_sq BY <1>4, RulesTerms DEF Rules!Plain
<1> DEFINE man == IF r # None THEN r ELSE p.board[s]
<1>6. /\ t \in Squares /\ p.board[t] \notin Men(c)
      /\ p.board[s] = Piece(c, Pawn) => IF c = white THEN Row(t) < Row(s) ELSE Row(t) > Row(s)
  BY <1>2, StepsAre
<1>7. r = None \/ r \in Men(c) \ {Piece(c, Pawn)}
  <2> SUFFICES ASSUME r # None PROVE r \in Men(c) \ {Piece(c, Pawn)} OBVIOUS
  <2>1. r \in Rules!Promotions(t, c) BY <1>4
  <2>2. r \in {k + 6 * c : k \in 1..4} BY <2>1, RulesTerms DEF Rules!Promotions
  <2>3. PICK k \in 1..4 : r = k + 6 * c BY <2>2
  <2> QED BY <1>1, <2>3 DEF Men, Piece, Pawn, white, black
<1>8. man \in Men(c) /\ (man = Piece(c, Pawn) => p.board[s] = man) BY <1>2, <1>7
<1>9. /\ q.board = Rules!Moved(p, m) /\ q.turn = 1 - c /\ q.rights \subseteq p.rights
      /\ q.clock = IF Type(p.board[s]) = Pawn \/ p.board[t] # None THEN 0 ELSE p.clock + 1
  <2>1. q = [board |-> Rules!Moved(p, m), turn |-> 1 - p.turn,
             rights |-> IF Type(p.board[m.from]) = King THEN {x \in p.rights \ {m.to} : ~Rules!Ours(p.board, x, p.turn)}
                                  ELSE p.rights \ {m.from, m.to},
             ep |-> IF /\ Type(p.board[m.from]) = Pawn /\ (m.to - m.from) \in {16, -16}
                       /\ \E x \in Squares : /\ Rules!Moved(p, m)[x] = 6 * (1 - p.turn)
                                             /\ (m.from + m.to) \div 2 \in Rules!Reach(Rules!Moved(p, m), x)
                    THEN (m.from + m.to) \div 2 ELSE no_sq,
             clock |-> IF Type(p.board[m.from]) = Pawn \/ (m.rook = no_sq /\ p.board[m.to] # None) THEN 0 ELSE p.clock + 1]
    BY RulesTerms
  <2>2. q.rights = IF Type(p.board[m.from]) = King THEN {x \in p.rights \ {m.to} : ~Rules!Ours(p.board, x, p.turn)}
                   ELSE p.rights \ {m.from, m.to}
    BY <2>1
  <2>3. q.rights \subseteq p.rights BY <2>2
  <2>4. q.board = Rules!Moved(p, m) /\ q.turn = 1 - p.turn BY <2>1
  <2>5. q.clock = IF Type(p.board[m.from]) = Pawn \/ (m.rook = no_sq /\ p.board[m.to] # None) THEN 0 ELSE p.clock + 1 BY <2>1
  <2> QED BY <1>5, <2>3, <2>4, <2>5
<1>10. Rules!Moved(p, m) =
         [x \in Squares |-> CASE x = t -> man
                              [] x = s -> None
                              [] (Rules!Kind(p.board[s]) = 0 /\ t = p.ep) /\ x = t - 8 * Rules!Ahead(c) -> None
                              [] OTHER -> p.board[x]]
  BY <1>5, RulesTerms DEF Rules!Moved
<1>11. s # t BY <1>2, <1>6
<1>12. q.board[t] = man /\ q.board[s] = None
  <2>1. t # t - 8 * Rules!Ahead(c)
    <3>1. 8 * Rules!Ahead(c) = Up(c) /\ t \in Int BY <1>6, RulesTerms DEF Squares
    <3> QED BY <1>1, <3>1 DEF Up, white, black
  <2> HIDE DEF man
  <2>2. q.board[t] = man BY <1>6, <1>9, <1>10, <1>11, <2>1
  <2>3. q.board[s] = None BY <1>9, <1>10, <1>11
  <2> QED BY <2>2, <2>3
<1>13. ASSUME NEW x \in Squares, x # s, x # t PROVE q.board[x] \in {p.board[x], None}
  <2> HIDE DEF man
  <2> QED BY <1>9, <1>10, <1>13
<1>14. q.clock = p.clock + 1 \/ p.board[s] = Piece(c, Pawn) \/ p.board[t] # None
  <2>1. Type(p.board[s]) = Pawn => p.board[s] = Piece(c, Pawn)
    <3>1. p.board[s] \in (IF c = white THEN 0..5 ELSE 6..11) BY <1>1, <1>2, MenIs DEF white, black
    <3> QED BY <1>1, <3>1 DEF Type, Piece, Pawn, white, black
  <2> QED BY <1>9, <2>1
<1> HIDE DEF man
<1>15. Transfers(p, q, s, t, man)
  <2>1. man = Piece(c, Pawn) => /\ p.board[s] = man
                                /\ IF c = white THEN Row(t) < Row(s) ELSE Row(t) > Row(s)
    BY <1>6, <1>8
  <2> QED BY <1>2, <1>6, <1>8, <1>9, <1>12, <1>13, <1>14, <2>1 DEF Transfers
<1> QED BY <1>15, TransferAdvances

\* A castling move of the rules.
LEMMA CastlingMoveAdvances ==
  ASSUME NEW p, Scene(p), NEW r, NEW m, CastlingWith(p, r, m), NEW q, Scene(q), q = Rules!After(p, m)
  PROVE  Advances(p, q)
<1> DEFINE c == p.turn
           k == Rules!KingOf(p.board, c)
           t == Rules!KingTarget(k, r)
           u == Rules!RookTarget(k, r)
<1>1. c \in {white, black} BY DEF Scene
<1>2. r \in p.rights /\ Rules!Ours(p.board, r, c) /\ m = Rules!Castling(k, t, r) BY DEF CastlingWith
<1>3. r \in Squares /\ r # no_sq
  <2>1. p.rights \in SUBSET Squares BY DEF Scene
  <2>2. r \in Squares BY <1>2, <2>1
  <2> QED BY <2>2 DEF Squares, no_sq
<1>4. k \in Squares /\ p.board[k] = Piece(c, King)
  <2>1. Piece(c, King) = 5 + 6 * c BY DEF Piece, King
  <2>2. k = CHOOSE s \in Squares : p.board[s] = 5 + 6 * c BY RulesTerms DEF Rules!KingOf
  <2>3. \E s \in Squares : p.board[s] = 5 + 6 * c BY <1>1, <2>1 DEF Scene
  <2> HIDE DEF k
  <2> QED BY <2>1, <2>2, <2>3
<1>5. p.board[r] \in Men(c) /\ p.board[r] \in Rooks BY <1>1, <1>2, <1>3, OursIs DEF Scene
<1> HIDE DEF k
<1>6. t \in Squares /\ u \in Squares /\ t # u
  <2>1. Rules!Rank(k) = Row(k) /\ Row(k) \in 0..7 BY <1>4, Coordinates DEF Rules!Rank, Row
  <2>2. t = 8 * Row(k) + (IF Rules!Col(r) > Rules!Col(k) THEN 6 ELSE 2) BY <2>1 DEF Rules!KingTarget, Rules!Sq
  <2>3. u = 8 * Row(k) + (IF Rules!Col(r) > Rules!Col(k) THEN 5 ELSE 3) BY <2>1 DEF Rules!RookTarget, Rules!Sq
  <2> HIDE DEF t, u
  <2>4. (t = 8 * Row(k) + 6 /\ u = 8 * Row(k) + 5) \/ (t = 8 * Row(k) + 2 /\ u = 8 * Row(k) + 3) BY <2>2, <2>3
  <2>5. \A f \in {2, 3, 5, 6} : 8 * Row(k) + f \in Squares BY <2>1 DEF Squares
  <2> QED BY <2>1, <2>4, <2>5
<1>7. m.from = k /\ m.to = t /\ m.rook = r BY <1>2 DEF Rules!Castling
<1>8. Type(p.board[k]) = King /\ King # Pawn BY <1>1, <1>4 DEF Type, King, Pawn, Piece, white, black
<1>9. /\ q.board = Rules!Moved(p, m) /\ q.turn = 1 - c /\ q.rights = {x \in p.rights \ {t} : ~Rules!Ours(p.board, x, c)}
      /\ q.clock = p.clock + 1
  <2>1. q = [board |-> Rules!Moved(p, m), turn |-> 1 - p.turn,
             rights |-> IF Type(p.board[m.from]) = King THEN {x \in p.rights \ {m.to} : ~Rules!Ours(p.board, x, p.turn)}
                                  ELSE p.rights \ {m.from, m.to},
             ep |-> IF /\ Type(p.board[m.from]) = Pawn /\ (m.to - m.from) \in {16, -16}
                       /\ \E x \in Squares : /\ Rules!Moved(p, m)[x] = 6 * (1 - p.turn)
                                             /\ (m.from + m.to) \div 2 \in Rules!Reach(Rules!Moved(p, m), x)
                    THEN (m.from + m.to) \div 2 ELSE no_sq,
             clock |-> IF Type(p.board[m.from]) = Pawn \/ (m.rook = no_sq /\ p.board[m.to] # None) THEN 0 ELSE p.clock + 1]
    BY RulesTerms
  <2>2. q.rights = IF Type(p.board[m.from]) = King THEN {x \in p.rights \ {m.to} : ~Rules!Ours(p.board, x, p.turn)}
                   ELSE p.rights \ {m.from, m.to}
    BY <2>1
  <2>4. q.board = Rules!Moved(p, m) /\ q.turn = 1 - p.turn BY <2>1
  <2>5. q.clock = IF Type(p.board[m.from]) = Pawn \/ (m.rook = no_sq /\ p.board[m.to] # None) THEN 0 ELSE p.clock + 1 BY <2>1
  <2> HIDE DEF t
  <2> QED BY <1>3, <1>7, <1>8, <2>2, <2>4, <2>5
<1>10. q.rights \subseteq p.rights \ {r} BY <1>2, <1>9
<1>11. q.board = [[p.board EXCEPT ![k] = None, ![r] = None] EXCEPT ![t] = p.board[k], ![u] = p.board[r]]
  BY <1>3, <1>7, <1>9, RulesTerms DEF Rules!Moved
<1>12. DOMAIN p.board = Squares BY DEF Scene
<1> HIDE DEF t, u
<1>13. q.board[t] = p.board[k] /\ q.board[u] = p.board[r] BY <1>6, <1>11, <1>12
<1>14. ASSUME NEW x \in Squares, x # t, x # u PROVE q.board[x] = IF x = k \/ x = r THEN None ELSE p.board[x]
  BY <1>3, <1>4, <1>6, <1>11, <1>12, <1>14
<1>15. Piece(c, King) \in Men(c) /\ Piece(c, King) # Piece(c, Pawn) /\ Piece(c, King) \notin Rooks /\ Piece(c, Pawn) \notin Rooks
  BY <1>1 DEF Men, Piece, King, Pawn, Rooks, Rook, white, black
<1>16. k # r BY <1>4, <1>5, <1>15
<1>17. {p.board[k], p.board[r]} \subseteq Men(c) \ {Piece(c, Pawn)} BY <1>4, <1>5, <1>15
<1>18. Castles(p, q, k, r, t, u)
  <2>1. {k, r, t, u} \subseteq Squares BY <1>3, <1>4, <1>6
  <2>2. {q.board[t], q.board[u]} \subseteq Men(c) \ {Piece(c, Pawn)} BY <1>13, <1>17
  <2> QED BY <1>2, <1>9, <1>10, <1>14, <1>16, <1>17, <2>1, <2>2 DEF Castles
<1> QED BY <1>18, CastlingAdvances

\* Every move of the rules goes on: it changes the side, and takes back nothing that is gone.
LEMMA MoveAdvances ==
  ASSUME NEW p, Scene(p), NEW m \in Rules!Candidates(p), NEW q, Scene(q), q = Rules!After(p, m)
  PROVE  Advances(p, q)
<1>1. \/ \E s \in Squares : Rules!Ours(p.board, s, p.turn) /\ StepFrom(p, s, m)
      \/ \E r : CastlingWith(p, r, m)
  BY CandidatesAre
<1> QED BY <1>1, PlainAdvances, CastlingMoveAdvances

(***************************************************************************)
(* The keys of the boards tell their positions apart.                      *)
(***************************************************************************)
KeyedBoard(b, su) ==
  /\ b.bb \in Boards /\ Disjoint(b.bb) /\ b.side \in {white, black} /\ b.ep \in 0..64 /\ b.castle \in SUBSET Rights
  /\ RightsSound(b, su)
\* k is the key of a board whose position is p.
Stamps(k, p, su) == \E b : KeyedBoard(b, su) /\ k = generate_hash_key(b) /\ p = PositionOf(b, su)
RightsNumber(x) == (IF 0 \in x THEN 1 ELSE 0) + (IF 1 \in x THEN 2 ELSE 0) + (IF 2 \in x THEN 4 ELSE 0) + (IF 3 \in x THEN 8 ELSE 0)

\* The position of a thread's board is a scene, stamped by its key.
LEMMA ThreadScene ==
  ASSUME NEW b, NEW su, ThreadOK(b, su), IsLegal(b)
  PROVE  Scene(PositionOf(b, su)) /\ Stamps(b.key, PositionOf(b, su), su)
<1> DEFINE p == PositionOf(b, su)
<1>1. /\ b.bb \in Boards /\ b.side \in {white, black} /\ b.ep \in 0..64 /\ b.castle \in SUBSET Rights /\ b.fifty \in Nat
      /\ Disjoint(b.bb) /\ EpSound(b) /\ RightsSound(b, su) /\ b.key = generate_hash_key(b)
  BY DEF ThreadOK, BoardOK, ThreadBoards
<1>2. p = [board |-> mailbox_of(b.bb), turn |-> b.side, ep |-> b.ep, clock |-> b.fifty, rights |-> RookSquares(b.castle, su)]
  BY DEF PositionOf
<1>3. mailbox_of(b.bb) \in [Squares -> Pieces \cup {None}] BY <1>1, MailboxIs
<1>4. ASSUME NEW r \in RookSquares(b.castle, su) PROVE r \in Squares /\ mailbox_of(b.bb)[r] \in Rooks
  <2>1. PICK i \in b.castle : r = su.rook[i + 1] BY DEF RookSquares
  <2>2. i \in Rights BY <1>1, <2>1
  <2>3. OfSide(i) \in {white, black} BY <2>2, SideOfRight
  <2>4. Piece(OfSide(i), Rook) \in Rooks /\ Piece(OfSide(i), Rook) \in Pieces BY <2>3 DEF Rooks, Piece, Rook, Pieces, white, black
  <2>5. r \in b.bb[Piece(OfSide(i), Rook)] BY <1>1, <2>1 DEF RightsSound
  <2>6. r \in Squares BY <1>1, <2>4, <2>5 DEF Boards
  <2>7. mailbox_of(b.bb)[r] = Piece(OfSide(i), Rook) BY <1>1, <2>4, <2>5, <2>6, StandsOn
  <2> QED BY <2>4, <2>6, <2>7
<1>5. RookSquares(b.castle, su) \in SUBSET Squares BY <1>4
<1>6. b.ep # no_sq => mailbox_of(b.bb)[b.ep] = None
  <2> SUFFICES ASSUME b.ep # no_sq PROVE mailbox_of(b.bb)[b.ep] = None OBVIOUS
  <2>1. b.ep \in Squares BY <1>1 DEF Squares, no_sq
  <2>2. Free(b.bb, b.ep) BY <1>1 DEF EpSound
  <2> QED BY <1>1, <2>1, <2>2, StandsOn
<1>7. ASSUME NEW c \in {white, black} PROVE \E k \in Squares : mailbox_of(b.bb)[k] = Piece(c, King)
  <2>1. Piece(c, King) \in Pieces BY DEF Piece, King, Pieces, white, black
  <2>2. Cardinality(b.bb[Piece(c, King)]) = 1 BY DEF IsLegal
  <2>3. Cardinality({}) = 0 BY FS_EmptySet
  <2>4. PICK k \in b.bb[Piece(c, King)] : TRUE BY <2>2, <2>3
  <2>5. k \in Squares BY <1>1, <2>1, <2>4 DEF Boards
  <2>6. mailbox_of(b.bb)[k] = Piece(c, King) BY <1>1, <2>1, <2>4, <2>5, StandsOn
  <2> QED BY <2>5, <2>6
<1>8. p \in [board : [Squares -> Pieces \cup {None}], turn : {white, black}, ep : 0..64, clock : Nat, rights : SUBSET Squares]
  BY <1>1, <1>2, <1>3, <1>5
<1>9. p.board = mailbox_of(b.bb) /\ p.ep = b.ep /\ p.rights = RookSquares(b.castle, su) BY <1>2
<1>10. Scene(p)
  <2> HIDE DEF p
  <2> QED BY <1>4, <1>6, <1>7, <1>8, <1>9 DEF Scene
<1>11. Stamps(b.key, p, su) BY <1>1 DEF Stamps, KeyedBoard
<1> QED BY <1>10, <1>11

\* The numbers of a key, kind by kind.
LEMMA KeyParts ==
  ASSUME NEW b, NEW su, KeyedBoard(b, su), NEW key, key = generate_hash_key(b)
  PROVE  /\ \A p \in Pieces, s \in Squares : 64 * p + s \in key <=> s \in b.bb[p]
         /\ \A s \in Squares : 768 + s \in key <=> b.ep = s
         /\ \A n \in 0..15 : 832 + n \in key <=> n = RightsNumber(b.castle)
         /\ 848 \in key <=> b.side = black
<1> DEFINE P(n) == n \in PiecesKey(b.bb, Pieces)
           E(n) == n \in EnpassantKey(b.ep)
           C(n) == n \in CastleKey(b.castle)
           S(n) == n \in (IF b.side = black THEN side_key ELSE {})
<1>1. b.bb \in Boards /\ b.ep \in 0..64 BY DEF KeyedBoard
<1>2. \A n : n \in key <=> ~(~(P(n) <=> E(n)) <=> ~(C(n) <=> S(n))) BY XorIn DEF generate_hash_key
<1>3. \A n : P(n) => n \in 0..767
  <2>1. \A n : P(n) <=> \E p \in Pieces : \E s \in b.bb[p] : n = 64 * p + s BY <1>1, PiecesKeyIn
  <2>2. \A p \in Pieces : \A s \in b.bb[p] : s \in Squares BY <1>1 DEF Boards
  <2>3. \A p \in Pieces, s \in Squares : 64 * p + s \in 0..767 BY DEF Pieces, Squares
  <2> HIDE DEF P
  <2> QED BY <2>1, <2>2, <2>3
<1>4. \A n : E(n) <=> b.ep # no_sq /\ n = 768 + b.ep BY DEF EnpassantKey
<1>5. \A n : C(n) <=> n = 832 + RightsNumber(b.castle)
  <2>1. CastleKey(b.castle) = {832 + (IF 0 \in b.castle THEN 1 ELSE 0) + (IF 1 \in b.castle THEN 2 ELSE 0)
                          + (IF 2 \in b.castle THEN 4 ELSE 0) + (IF 3 \in b.castle THEN 8 ELSE 0)}
    BY DEF CastleKey
  <2>2. 832 + (IF 0 \in b.castle THEN 1 ELSE 0) + (IF 1 \in b.castle THEN 2 ELSE 0)
                          + (IF 2 \in b.castle THEN 4 ELSE 0) + (IF 3 \in b.castle THEN 8 ELSE 0) = 832 + RightsNumber(b.castle)
    BY DEF RightsNumber
  <2> QED BY <2>1, <2>2
<1>6. RightsNumber(b.castle) \in 0..15 BY DEF RightsNumber
<1>7. \A n : S(n) <=> b.side = black /\ n = 848 BY DEF side_key
<1>8. \A p \in Pieces, s \in Squares : P(64 * p + s) <=> s \in b.bb[p] BY <1>1, PieceNumberIn
<1> HIDE DEF P, E, C, S
<1>13. ASSUME NEW x \in Int, 0 <= x, x <= 767 PROVE ~E(x) /\ ~C(x) /\ ~S(x)
  <2>1. x # 768 + b.ep /\ x # 832 + RightsNumber(b.castle) /\ x # 848 BY <1>1, <1>6, <1>13
  <2> QED BY <1>4, <1>5, <1>7, <2>1
<1>14. ASSUME NEW x \in Int, 768 <= x, x <= 831 PROVE ~P(x) /\ ~C(x) /\ ~S(x)
  <2>1. x \notin 0..767 /\ x # 832 + RightsNumber(b.castle) /\ x # 848 BY <1>6, <1>14
  <2> QED BY <1>3, <1>5, <1>7, <2>1
<1>9. ASSUME NEW p \in Pieces, NEW s \in Squares PROVE 64 * p + s \in key <=> s \in b.bb[p]
  <2>1. 64 * p + s \in Int /\ 0 <= 64 * p + s /\ 64 * p + s <= 767 BY DEF Pieces, Squares
  <2>2. ~E(64 * p + s) /\ ~C(64 * p + s) /\ ~S(64 * p + s) BY <1>13, <2>1
  <2> QED BY <1>2, <1>8, <2>2
<1>10. ASSUME NEW s \in Squares PROVE 768 + s \in key <=> b.ep = s
  <2>1. 768 + s \in Int /\ 768 <= 768 + s /\ 768 + s <= 831 BY DEF Squares
  <2>2. ~P(768 + s) /\ ~C(768 + s) /\ ~S(768 + s) BY <1>14, <2>1
  <2>3. E(768 + s) <=> b.ep = s BY <1>1, <1>4 DEF Squares, no_sq
  <2> QED BY <1>2, <2>2, <2>3
<1>11. ASSUME NEW n \in 0..15 PROVE 832 + n \in key <=> n = RightsNumber(b.castle)
  <2>1. ~P(832 + n) /\ ~E(832 + n) /\ ~S(832 + n) BY <1>1, <1>3, <1>4, <1>7 DEF no_sq
  <2>2. C(832 + n) <=> n = RightsNumber(b.castle) BY <1>5, <1>6
  <2> QED BY <1>2, <2>1, <2>2
<1>12. 848 \in key <=> b.side = black
  <2>1. ~P(848) /\ ~E(848) /\ ~C(848) BY <1>1, <1>3, <1>4, <1>5, <1>6
  <2> QED BY <1>2, <1>7, <2>1
<1> QED BY <1>9, <1>10, <1>11, <1>12

\* The number of a set of rights is its own.
LEMMA NumberOfRights ==
  ASSUME NEW x \in SUBSET Rights, NEW y \in SUBSET Rights, RightsNumber(x) = RightsNumber(y)
  PROVE  x = y
<1>1. (0 \in x <=> 0 \in y) /\ (1 \in x <=> 1 \in y) /\ (2 \in x <=> 2 \in y) /\ (3 \in x <=> 3 \in y) BY DEF RightsNumber
<1>2. \A i \in Rights : i = 0 \/ i = 1 \/ i = 2 \/ i = 3 BY DEF Rights
<1> QED BY <1>1, <1>2

\* On one board, the rooks tell the rights.
LEMMA RooksTell ==
  ASSUME NEW b, NEW t, NEW su, KeyedBoard(b, su), KeyedBoard(t, su), b.bb = t.bb,
         RookSquares(b.castle, su) = RookSquares(t.castle, su)
  PROVE  b.castle = t.castle
<1> DEFINE x == [bb |-> b.bb, castle |-> b.castle \cup t.castle]
<1>1. x.bb = b.bb /\ x.castle = b.castle \cup t.castle OBVIOUS
<1> HIDE DEF x
<1>2. x.bb \in Boards /\ Disjoint(x.bb) /\ x.castle \in SUBSET Rights BY <1>1 DEF KeyedBoard
<1>3. RightsSound(x, su) BY <1>1 DEF KeyedBoard, RightsSound
<1>4. \A i \in x.castle, j \in x.castle : su.rook[i + 1] = su.rook[j + 1] => i = j BY <1>2, <1>3, RightsApart
<1>5. \A i \in b.castle : i \in t.castle
  <2> TAKE i \in b.castle
  <2>1. su.rook[i + 1] \in RookSquares(t.castle, su) BY DEF RookSquares
  <2>2. PICK j \in t.castle : su.rook[i + 1] = su.rook[j + 1] BY <2>1 DEF RookSquares
  <2> QED BY <1>1, <1>4, <2>2
<1>6. \A i \in t.castle : i \in b.castle
  <2> TAKE i \in t.castle
  <2>1. su.rook[i + 1] \in RookSquares(b.castle, su) BY DEF RookSquares
  <2>2. PICK j \in b.castle : su.rook[i + 1] = su.rook[j + 1] BY <2>1 DEF RookSquares
  <2> QED BY <1>1, <1>4, <2>2
<1> QED BY <1>5, <1>6

\* Two keys are equal exactly when the positions are alike.
LEMMA KeysTell ==
  ASSUME NEW su, NEW k, NEW p, Scene(p), Stamps(k, p, su), NEW l, NEW q, Scene(q), Stamps(l, q, su)
  PROVE  k = l <=> Alike(p, q)
<1>1. PICK b : KeyedBoard(b, su) /\ k = generate_hash_key(b) /\ p = PositionOf(b, su) BY DEF Stamps
<1>2. PICK t : KeyedBoard(t, su) /\ l = generate_hash_key(t) /\ q = PositionOf(t, su) BY DEF Stamps
<1>3. /\ b.bb \in Boards /\ t.bb \in Boards /\ Disjoint(b.bb) /\ Disjoint(t.bb) /\ b.ep \in 0..64 /\ t.ep \in 0..64
      /\ b.castle \in SUBSET Rights /\ t.castle \in SUBSET Rights /\ b.side \in {white, black} /\ t.side \in {white, black}
  BY <1>1, <1>2 DEF KeyedBoard
<1>4. /\ p.board = mailbox_of(b.bb) /\ p.turn = b.side /\ p.ep = b.ep /\ p.rights = RookSquares(b.castle, su)
      /\ q.board = mailbox_of(t.bb) /\ q.turn = t.side /\ q.ep = t.ep /\ q.rights = RookSquares(t.castle, su)
  BY <1>1, <1>2, PositionTerms
<1>5. Alike(p, q) <=> p.board = q.board /\ p.turn = q.turn /\ p.ep = q.ep /\ p.rights = q.rights BY AlikeIs
<1>6. ASSUME k = l PROVE b.bb = t.bb /\ b.side = t.side /\ b.ep = t.ep /\ b.castle = t.castle
  <2>1. /\ \A x \in Pieces, s \in Squares : 64 * x + s \in k <=> s \in b.bb[x]
        /\ \A s \in Squares : 768 + s \in k <=> b.ep = s
        /\ \A n \in 0..15 : 832 + n \in k <=> n = RightsNumber(b.castle)
        /\ 848 \in k <=> b.side = black
    BY <1>1, KeyParts
  <2>2. /\ \A x \in Pieces, s \in Squares : 64 * x + s \in k <=> s \in t.bb[x]
        /\ \A s \in Squares : 768 + s \in k <=> t.ep = s
        /\ \A n \in 0..15 : 832 + n \in k <=> n = RightsNumber(t.castle)
        /\ 848 \in k <=> t.side = black
    BY <1>2, <1>6, KeyParts
  <2>3. b.bb = t.bb
    <3>1. \A x \in Pieces, s \in Squares : s \in b.bb[x] <=> s \in t.bb[x] BY <2>1, <2>2
    <3> QED BY <1>3, <3>1, BoardsEqual
  <2>4. b.side = t.side BY <1>3, <2>1, <2>2 DEF white, black
  <2>5. b.ep = t.ep
    <3>1. \A s \in 0..63 : b.ep = s <=> t.ep = s BY <2>1, <2>2 DEF Squares
    <3> QED BY <1>3, <3>1
  <2>6. b.castle = t.castle
    <3>1. RightsNumber(b.castle) \in 0..15 BY DEF RightsNumber
    <3>2. RightsNumber(b.castle) = RightsNumber(t.castle) BY <2>1, <2>2, <3>1
    <3> QED BY <1>3, <3>2, NumberOfRights
  <2> QED BY <2>3, <2>4, <2>5, <2>6
<1>7. ASSUME Alike(p, q) PROVE k = l
  <2>1. \A x \in Pieces, s \in Squares : s \in b.bb[x] <=> s \in t.bb[x] BY <1>3, <1>4, <1>5, <1>7, StandsOn
  <2>2. b.bb = t.bb BY <1>3, <2>1, BoardsEqual
  <2>3. b.castle = t.castle BY <1>1, <1>2, <1>4, <1>5, <1>7, <2>2, RooksTell
  <2> QED BY <1>1, <1>2, <1>4, <1>5, <1>7, <2>2, <2>3 DEF generate_hash_key
<1> QED BY <1>4, <1>5, <1>6, <1>7

\* Sequences, of whatever elements.
IsSequence(s) == s \in Seq({s[i] : i \in DOMAIN s})

\* Sequences of any set are sequences of their elements.
LEMMA SeqIsSequence ==
  ASSUME NEW S, NEW t \in Seq(S) PROVE IsSequence(t)
<1> DEFINE R == {t[i] : i \in DOMAIN t}
<1>1. t \in [1..Len(t) -> S] /\ Len(t) \in Nat /\ DOMAIN t = 1..Len(t) OBVIOUS
<1>2. \A i \in 1..Len(t) : t[i] \in R BY <1>1
<1> HIDE DEF R
<1>3. t \in [1..Len(t) -> R] BY <1>1, <1>2
<1>4. t \in Seq(R)
  <2>1. \A n \in Nat : [1..n -> R] \subseteq Seq(R) OBVIOUS
  <2> QED BY <1>1, <1>3, <2>1
<1> QED BY <1>4 DEF R, IsSequence

\* A sequence with one element more ...
LEMMA AppendIs ==
  ASSUME NEW s, IsSequence(s), NEW e
  PROVE  /\ IsSequence(Append(s, e)) /\ Len(s) \in Nat /\ Len(Append(s, e)) = Len(s) + 1
         /\ Append(s, e)[Len(s) + 1] = e
         /\ \A i \in 1..Len(s) : Append(s, e)[i] = s[i]
<1> DEFINE S == {s[i] : i \in DOMAIN s} \cup {e}
           t == Append(s, e)
<1>1. s \in Seq(S) BY DEF IsSequence
<1> HIDE DEF S
<1>2. e \in S BY DEF S
<1>3. t \in Seq(S) /\ Len(t) = Len(s) + 1 /\ t[Len(s) + 1] = e /\ (\A i \in 1..Len(s) : t[i] = s[i]) /\ Len(s) \in Nat
  BY <1>1, <1>2
<1> HIDE DEF t
<1>4. IsSequence(t) BY <1>3, SeqIsSequence
<1> QED BY <1>3, <1>4 DEF t

\* ... and with one less.
LEMMA FrontIs ==
  ASSUME NEW s, IsSequence(s), s # <<>>
  PROVE  /\ IsSequence(Front(s)) /\ Len(s) \in Nat /\ Len(s) > 0 /\ Len(Front(s)) = Len(s) - 1
         /\ \A i \in 1..(Len(s) - 1) : Front(s)[i] = s[i]
<1> DEFINE S == {s[i] : i \in DOMAIN s}
           t == Front(s)
<1>1. s \in Seq(S) BY DEF IsSequence
<1> HIDE DEF S
<1>2. Len(s) \in Nat /\ Len(s) > 0 BY <1>1
<1>3. t = [i \in 1..(Len(s) - 1) |-> s[i]] BY <1>1, <1>2 DEF Front
<1>4. t \in Seq(S) /\ Len(t) = Len(s) - 1 /\ \A i \in 1..(Len(s) - 1) : t[i] = s[i] BY <1>1, <1>2, <1>3
<1> HIDE DEF t
<1>5. IsSequence(t) BY <1>4, SeqIsSequence
<1> QED BY <1>2, <1>4, <1>5 DEF t

(***************************************************************************)
(* The positions of the game and of the line, one after the other, and     *)
(* what the boards of the line keep of them.  bs: the boards of the line,  *)
(* the current one last; fs: its moves; pl: the positions of the game      *)
(* before it.                                                              *)
(***************************************************************************)
PastAt(pl, bs, k, su) == IF k <= Len(pl) THEN pl[k] ELSE PositionOf(bs[k - Len(pl)], su)
NoNull(pl, fs, k, l) == \A i \in 1..Len(fs) : fs[i].null => ~(k <= Len(pl) + i /\ Len(pl) + i < l)
FromNull(v, fs, n) ==
  \/ v = 1024 + n /\ \A j \in 1..n : ~fs[j].null
  \/ \E j \in 1..n : fs[j].null /\ v = n - j /\ \A x \in 1..n : x > j => ~fs[x].null
Recorded(pl, bs, i, su) ==
  /\ bs[i].ply = i - 1 /\ bs[i].rep \in Seq(Keys) /\ Len(bs[i].rep) = Len(pl) + i - 1
  /\ \A k \in 1..(Len(pl) + i - 1) : Stamps(bs[i].rep[k], PastAt(pl, bs, k, su), su)
Followed(pl, fs, bs, su) ==
  /\ IsSequence(pl) /\ IsSequence(fs) /\ IsSequence(bs) /\ Len(bs) = Len(fs) + 1
  /\ \A k \in 1..(Len(pl) + Len(bs)) : Scene(PastAt(pl, bs, k, su))
  /\ \A k, l \in 1..(Len(pl) + Len(bs)) : k < l /\ NoNull(pl, fs, k, l) => Pair(PastAt(pl, bs, k, su), PastAt(pl, bs, l, su), l - k)
  /\ \A i \in 1..Len(bs) : Recorded(pl, bs, i, su) /\ FromNull(bs[i].plies_from_null, fs, i - 1)

\* A step down the line, a move or a null move.
Follows(last, f, t, su) ==
  /\ Scene(PositionOf(t, su)) /\ Stamps(last.key, PositionOf(last, su), su)
  /\ last.key \in Keys /\ t.ply = last.ply + 1 /\ t.rep = Append(last.rep, last.key)
  /\ IF f.null THEN t.plies_from_null = 0
     ELSE t.plies_from_null = last.plies_from_null + 1 /\ Advances(PositionOf(last, su), PositionOf(t, su))

\* The positions of a longer line.
SamePast(pl, bs, cs, su) == \A k \in 1..(Len(pl) + Len(bs)) : PastAt(pl, cs, k, su) = PastAt(pl, bs, k, su)

\* A longer line has the same positions and one more.
LEMMA PastMore ==
  ASSUME NEW pl, NEW bs, IsSequence(pl), IsSequence(bs), NEW t, NEW su
  PROVE  /\ SamePast(pl, bs, Append(bs, t), su)
         /\ PastAt(pl, Append(bs, t), Len(pl) + Len(bs) + 1, su) = PositionOf(t, su)
<1>1. Len(pl) \in Nat /\ Len(bs) \in Nat /\ Len(Append(bs, t)) = Len(bs) + 1 BY AppendIs
<1>2. ASSUME NEW k \in 1..(Len(pl) + Len(bs)) PROVE PastAt(pl, Append(bs, t), k, su) = PastAt(pl, bs, k, su)
  <2>1. CASE k <= Len(pl) BY <2>1 DEF PastAt
  <2>2. CASE ~(k <= Len(pl))
    <3>1. k - Len(pl) \in 1..Len(bs) BY <1>1, <2>2
    <3>2. Append(bs, t)[k - Len(pl)] = bs[k - Len(pl)] BY <3>1, AppendIs
    <3> QED BY <2>2, <3>2 DEF PastAt
  <2> QED BY <2>1, <2>2
<1>3. PastAt(pl, Append(bs, t), Len(pl) + Len(bs) + 1, su) = PositionOf(t, su)
  <2>1. ~(Len(pl) + Len(bs) + 1 <= Len(pl)) /\ Len(pl) + Len(bs) + 1 - Len(pl) = Len(bs) + 1 BY <1>1
  <2>2. Append(bs, t)[Len(bs) + 1] = t BY AppendIs
  <2> QED BY <2>1, <2>2 DEF PastAt
<1> QED BY <1>2, <1>3 DEF SamePast

\* The last position is that of the current board.
LEMMA PastLast ==
  ASSUME NEW pl, NEW bs, Len(pl) \in Nat, Len(bs) \in Nat, Len(bs) > 0, NEW su
  PROVE  PastAt(pl, bs, Len(pl) + Len(bs), su) = PositionOf(bs[Len(bs)], su)
<1>1. ~(Len(pl) + Len(bs) <= Len(pl)) OBVIOUS
<1>2. Len(pl) + Len(bs) - Len(pl) = Len(bs) OBVIOUS
<1> QED BY <1>1, <1>2 DEF PastAt

\* No null move more, or one.
LEMMA NullsMore ==
  ASSUME NEW pl, IsSequence(pl), NEW fs, IsSequence(fs), NEW f, NEW k \in Int, NEW l \in Int
  PROVE  /\ NoNull(pl, Append(fs, f), k, l) => NoNull(pl, fs, k, l)
         /\ NoNull(pl, Append(fs, f), k, l) /\ k <= Len(pl) + Len(fs) + 1 /\ Len(pl) + Len(fs) + 1 < l => ~f.null
         /\ l = Len(pl) + Len(fs) + 1 /\ NoNull(pl, fs, k, l + 1) => NoNull(pl, fs, k, l)
<1>1. Len(pl) \in Nat /\ Len(fs) \in Nat /\ Len(Append(fs, f)) = Len(fs) + 1 /\ Append(fs, f)[Len(fs) + 1] = f BY AppendIs
<1>2. \A i \in 1..Len(fs) : i \in 1..Len(Append(fs, f)) /\ Append(fs, f)[i] = fs[i] BY <1>1, AppendIs
<1>3. NoNull(pl, Append(fs, f), k, l) => NoNull(pl, fs, k, l) BY <1>2 DEF NoNull
<1>4. Len(fs) + 1 \in 1..Len(Append(fs, f)) BY <1>1
<1>5. NoNull(pl, Append(fs, f), k, l) /\ k <= Len(pl) + Len(fs) + 1 /\ Len(pl) + Len(fs) + 1 < l => ~f.null
  <2> SUFFICES ASSUME NoNull(pl, Append(fs, f), k, l), k <= Len(pl) + Len(fs) + 1, Len(pl) + Len(fs) + 1 < l PROVE ~f.null OBVIOUS
  <2>1. Append(fs, f)[Len(fs) + 1].null => ~(k <= Len(pl) + (Len(fs) + 1) /\ Len(pl) + (Len(fs) + 1) < l) BY <1>4 DEF NoNull
  <2>2. Len(pl) + (Len(fs) + 1) = Len(pl) + Len(fs) + 1 BY <1>1
  <2> QED BY <1>1, <2>1, <2>2
<1>6. l = Len(pl) + Len(fs) + 1 /\ NoNull(pl, fs, k, l + 1) => NoNull(pl, fs, k, l) BY <1>1 DEF NoNull
<1> QED BY <1>3, <1>5, <1>6

\* The count of the plies since the last null move, one frame later.
LEMMA FromNullMore ==
  ASSUME NEW fs, IsSequence(fs), NEW f, NEW v
  PROVE  /\ \A n \in 0..Len(fs) : FromNull(v, Append(fs, f), n) <=> FromNull(v, fs, n)
         /\ f.null => FromNull(0, Append(fs, f), Len(fs) + 1)
         /\ ~f.null /\ FromNull(v, fs, Len(fs)) => FromNull(v + 1, Append(fs, f), Len(fs) + 1)
<1> DEFINE gs == Append(fs, f)
<1>1. Len(fs) \in Nat /\ gs[Len(fs) + 1] = f /\ \A i \in 1..Len(fs) : gs[i] = fs[i] BY AppendIs
<1> HIDE DEF gs
<1>2. ASSUME NEW n \in 0..Len(fs) PROVE FromNull(v, gs, n) <=> FromNull(v, fs, n)
  <2>1. n \in Int /\ \A i \in 1..n : gs[i] = fs[i] BY <1>1
  <2> QED BY <2>1 DEF FromNull
<1>3. f.null => FromNull(0, gs, Len(fs) + 1)
  <2> SUFFICES ASSUME f.null PROVE FromNull(0, gs, Len(fs) + 1) OBVIOUS
  <2>1. Len(fs) + 1 \in 1..(Len(fs) + 1) /\ (Len(fs) + 1) - (Len(fs) + 1) = 0 BY <1>1
  <2>2. \A x \in 1..(Len(fs) + 1) : ~(x > Len(fs) + 1) BY <1>1
  <2> QED BY <1>1, <2>1, <2>2 DEF FromNull
<1>4. ~f.null /\ FromNull(v, fs, Len(fs)) => FromNull(v + 1, gs, Len(fs) + 1)
  <2> SUFFICES ASSUME ~f.null, FromNull(v, fs, Len(fs)) PROVE FromNull(v + 1, gs, Len(fs) + 1) OBVIOUS
  <2>1. \A j \in 1..(Len(fs) + 1) : j = Len(fs) + 1 \/ j \in 1..Len(fs) BY <1>1
  <2>2. CASE v = 1024 + Len(fs) /\ \A j \in 1..Len(fs) : ~fs[j].null
    <3>1. v + 1 = 1024 + (Len(fs) + 1) BY <1>1, <2>2
    <3>2. \A j \in 1..(Len(fs) + 1) : ~gs[j].null BY <1>1, <2>1, <2>2
    <3> QED BY <3>1, <3>2 DEF FromNull
  <2>3. CASE \E j \in 1..Len(fs) : fs[j].null /\ v = Len(fs) - j /\ \A x \in 1..Len(fs) : x > j => ~fs[x].null
    <3>1. PICK j \in 1..Len(fs) : fs[j].null /\ v = Len(fs) - j /\ \A x \in 1..Len(fs) : x > j => ~fs[x].null BY <2>3
    <3>2. j \in 1..(Len(fs) + 1) /\ gs[j].null /\ v + 1 = (Len(fs) + 1) - j BY <1>1, <3>1
    <3>3. \A x \in 1..(Len(fs) + 1) : x > j => ~gs[x].null BY <1>1, <2>1, <3>1
    <3> QED BY <3>2, <3>3 DEF FromNull
  <2> QED BY <2>2, <2>3 DEF FromNull
<1> QED BY <1>2, <1>3, <1>4 DEF gs

\* One step down the line.
LEMMA FollowedDown ==
  ASSUME NEW pl, NEW fs, NEW bs, NEW su, Followed(pl, fs, bs, su), NEW last, last = bs[Len(bs)], NEW f, NEW t, Follows(last, f, t, su)
  PROVE  Followed(pl, Append(fs, f), Append(bs, t), su)
<1> DEFINE N == Len(pl) + Len(bs)
           cs == Append(bs, t)
           gs == Append(fs, f)
           B(k) == PastAt(pl, bs, k, su)
           C(k) == PastAt(pl, cs, k, su)
<1>1. IsSequence(pl) /\ IsSequence(fs) /\ IsSequence(bs) /\ Len(bs) = Len(fs) + 1 BY DEF Followed
<1>2. /\ Len(pl) \in Nat /\ Len(fs) \in Nat /\ Len(bs) \in Nat /\ Len(bs) > 0 /\ IsSequence(gs) /\ IsSequence(cs)
      /\ Len(gs) = Len(fs) + 1 /\ Len(cs) = Len(bs) + 1 /\ cs[Len(bs) + 1] = t /\ \A i \in 1..Len(bs) : cs[i] = bs[i]
  BY <1>1, AppendIs
<1>3. N \in Nat /\ N >= 1 /\ Len(pl) + Len(cs) = N + 1 /\ N = Len(pl) + Len(fs) + 1 BY <1>1, <1>2
<1>4. /\ \A k \in 1..N : C(k) = B(k)
      /\ C(N + 1) = PositionOf(t, su) /\ B(N) = PositionOf(last, su)
  <2>1. SamePast(pl, bs, cs, su) BY <1>1, PastMore
  <2>2. PastAt(pl, cs, N + 1, su) = PositionOf(t, su) BY <1>1, PastMore
  <2>3. PastAt(pl, bs, N, su) = PositionOf(bs[Len(bs)], su) BY <1>1, <1>2, PastLast
  <2> QED BY <2>1, <2>2, <2>3 DEF SamePast
<1>5. \A k \in 1..N : Scene(B(k)) BY DEF Followed
<1>6. \A k, l \in 1..N : k < l /\ NoNull(pl, fs, k, l) => Pair(B(k), B(l), l - k) BY DEF Followed
<1>7. \A i \in 1..Len(bs) : Recorded(pl, bs, i, su) /\ FromNull(bs[i].plies_from_null, fs, i - 1) BY DEF Followed
<1>8. /\ Scene(PositionOf(t, su)) /\ Stamps(last.key, PositionOf(last, su), su)
      /\ last.key \in Keys /\ t.ply = last.ply + 1 /\ t.rep = Append(last.rep, last.key)
      /\ f.null => t.plies_from_null = 0
      /\ ~f.null => t.plies_from_null = last.plies_from_null + 1 /\ Advances(PositionOf(last, su), PositionOf(t, su))
  BY DEF Follows
<1>9. Recorded(pl, bs, Len(bs), su) /\ FromNull(last.plies_from_null, fs, Len(fs))
  <2>1. Len(bs) \in 1..Len(bs) /\ Len(bs) - 1 = Len(fs) BY <1>1, <1>2
  <2> QED BY <1>7, <2>1
<1>10. last.ply = Len(bs) - 1 /\ last.rep \in Seq(Keys) /\ Len(last.rep) = N - 1
       /\ \A k \in 1..(N - 1) : Stamps(last.rep[k], B(k), su)
  BY <1>9 DEF Recorded
<1> HIDE DEF N, cs, gs, B, C
<1>11. \A k \in 1..(N + 1) : k = N + 1 \/ k \in 1..N BY <1>3
<1>12. \A k \in 1..(N + 1) : Scene(C(k)) BY <1>4, <1>5, <1>8, <1>11
<1>13. ASSUME NEW k \in 1..(N + 1), NEW l \in 1..(N + 1), k < l, NoNull(pl, gs, k, l) PROVE Pair(C(k), C(l), l - k)
  <2>1. k \in 1..N BY <1>3, <1>13
  <2>2. k \in Int /\ l \in Int BY <1>3
  <2>3. NoNull(pl, fs, k, l) BY <1>1, <1>13, <2>2, NullsMore DEF gs
  <2>4. CASE l \in 1..N BY <1>4, <1>6, <1>13, <2>1, <2>3, <2>4
  <2>5. CASE l = N + 1
    <3>1. ~f.null
      <4>1. k <= Len(pl) + Len(fs) + 1 /\ Len(pl) + Len(fs) + 1 < l BY <1>3, <2>1, <2>5
      <4> QED BY <1>1, <1>13, <2>2, <4>1, NullsMore DEF gs
    <3>2. Advances(B(N), C(N + 1)) BY <1>4, <1>8, <3>1
    <3>3. N \in 1..N /\ Scene(B(N)) /\ Scene(B(k)) /\ Scene(C(N + 1)) BY <1>3, <1>4, <1>5, <1>8, <2>1
    <3>4. CASE k = N
      <4>1. Pair(B(N), C(N + 1), 1) BY <3>2, <3>3, PairStarts
      <4>2. l - k = 1 BY <1>3, <2>5, <3>4
      <4> QED BY <1>4, <2>1, <2>5, <3>4, <4>1, <4>2
    <3>5. CASE k # N
      <4>1. k < N BY <2>1, <1>3, <3>5
      <4>2. NoNull(pl, fs, k, N)
        <5>1. NoNull(pl, fs, k, N + 1) BY <2>3, <2>5
        <5> QED BY <1>1, <1>3, <2>2, <5>1, NullsMore
      <4>3. Pair(B(k), B(N), N - k) BY <1>6, <2>1, <3>3, <4>1, <4>2
      <4>4. N - k \in Nat /\ N - k >= 1 /\ l - k = (N - k) + 1 BY <1>3, <2>1, <2>5, <4>1
      <4>5. Pair(B(k), C(N + 1), (N - k) + 1) BY <3>2, <3>3, <4>3, <4>4, PairExtends
      <4> QED BY <1>4, <2>1, <2>5, <4>4, <4>5
    <3> QED BY <3>4, <3>5
  <2> QED BY <1>11, <2>4, <2>5
<1>14. t.rep \in Seq(Keys) /\ Len(t.rep) = N /\ t.rep[N] = last.key /\ \A k \in 1..(N - 1) : t.rep[k] = last.rep[k]
  <2>1. N - 1 \in Nat BY <1>3
  <2> QED BY <1>3, <1>8, <1>10, <2>1
<1>15. ASSUME NEW i \in 1..Len(cs) PROVE Recorded(pl, cs, i, su) /\ FromNull(cs[i].plies_from_null, gs, i - 1)
  <2>1. CASE i \in 1..Len(bs)
    <3>1. cs[i] = bs[i] BY <1>2, <2>1 DEF cs
    <3>2. Recorded(pl, bs, i, su) /\ FromNull(bs[i].plies_from_null, fs, i - 1) BY <1>7, <2>1
    <3>3. \A k \in 1..(Len(pl) + i - 1) : k \in 1..N BY <1>2, <2>1 DEF N
    <3>4. \A k \in 1..(Len(pl) + i - 1) : PastAt(pl, cs, k, su) = PastAt(pl, bs, k, su) BY <1>4, <3>3 DEF B, C
    <3>5. Recorded(pl, cs, i, su) BY <3>1, <3>2, <3>4 DEF Recorded
    <3>6. i - 1 \in 0..Len(fs) BY <1>1, <1>2, <2>1
    <3>7. FromNull(bs[i].plies_from_null, gs, i - 1) BY <1>1, <3>2, <3>6, FromNullMore DEF gs
    <3> QED BY <3>1, <3>5, <3>7
  <2>2. CASE i = Len(bs) + 1
    <3>1. cs[i] = t BY <1>2, <2>2 DEF cs
    <3>2. Len(pl) + i - 1 = N /\ i - 1 = Len(fs) + 1 /\ i - 1 = Len(bs) BY <1>1, <1>2, <2>2 DEF N
    <3>3. t.ply = i - 1 BY <1>2, <1>8, <1>10, <3>2
    <3>4. ASSUME NEW k \in 1..N PROVE Stamps(t.rep[k], C(k), su)
      <4>1. CASE k = N BY <1>4, <1>8, <1>14, <3>4, <4>1
      <4>2. CASE k # N
        <5>1. k \in 1..(N - 1) BY <1>3, <4>2
        <5> QED BY <1>4, <1>10, <1>14, <3>4, <5>1
      <4> QED BY <4>1, <4>2
    <3>5. Recorded(pl, cs, i, su) BY <1>14, <3>1, <3>2, <3>3, <3>4 DEF Recorded, C
    <3>6. FromNull(t.plies_from_null, gs, Len(fs) + 1)
      <4>1. CASE f.null BY <1>1, <1>8, <4>1, FromNullMore DEF gs
      <4>2. CASE ~f.null BY <1>1, <1>8, <1>9, <4>2, FromNullMore DEF gs
      <4> QED BY <4>1, <4>2
    <3> QED BY <3>1, <3>2, <3>5, <3>6
  <2>3. i \in 1..Len(bs) \/ i = Len(bs) + 1 BY <1>2 DEF cs
  <2> QED BY <2>1, <2>2, <2>3
<1>16. \A k \in 1..(Len(pl) + Len(cs)) : Scene(PastAt(pl, cs, k, su)) BY <1>3, <1>12 DEF C, cs
<1>17. \A k, l \in 1..(Len(pl) + Len(cs)) : k < l /\ NoNull(pl, gs, k, l) => Pair(PastAt(pl, cs, k, su), PastAt(pl, cs, l, su), l - k)
  BY <1>3, <1>13 DEF C
<1>18. IsSequence(gs) /\ IsSequence(cs) /\ Len(cs) = Len(gs) + 1 BY <1>1, <1>2 DEF gs, cs
<1>19. Followed(pl, gs, cs, su) BY <1>1, <1>15, <1>16, <1>17, <1>18 DEF Followed
<1> QED BY <1>19 DEF gs, cs

\* One step back.
LEMMA FollowedUp ==
  ASSUME NEW pl, NEW fs, NEW bs, NEW su, Followed(pl, fs, bs, su), fs # <<>>
  PROVE  Followed(pl, Front(fs), Front(bs), su)
<1> DEFINE cs == Front(bs)
           gs == Front(fs)
<1>1. IsSequence(pl) /\ IsSequence(fs) /\ IsSequence(bs) /\ Len(bs) = Len(fs) + 1 BY DEF Followed
<1>2. /\ IsSequence(gs) /\ Len(fs) \in Nat /\ Len(fs) > 0 /\ Len(gs) = Len(fs) - 1 /\ \A i \in 1..(Len(fs) - 1) : gs[i] = fs[i]
  BY <1>1, FrontIs
<1>3. bs # <<>> /\ Len(pl) \in Nat
  <2>1. Len(<<>>) = 0 OBVIOUS
  <2> QED BY <1>1, <1>2, <2>1 DEF IsSequence
<1>4. IsSequence(cs) /\ Len(cs) = Len(bs) - 1 /\ \A i \in 1..(Len(bs) - 1) : cs[i] = bs[i] BY <1>1, <1>3, FrontIs
<1> HIDE DEF cs, gs
<1>5. Len(cs) = Len(fs) /\ Len(cs) = Len(gs) + 1 BY <1>1, <1>2, <1>4
<1>6. ASSUME NEW k \in 1..(Len(pl) + Len(cs)) PROVE k \in 1..(Len(pl) + Len(bs)) /\ PastAt(pl, cs, k, su) = PastAt(pl, bs, k, su)
  <2>1. k \in 1..(Len(pl) + Len(bs)) BY <1>1, <1>2, <1>3, <1>5
  <2>2. CASE k <= Len(pl) BY <2>1, <2>2 DEF PastAt
  <2>3. CASE ~(k <= Len(pl))
    <3>1. k - Len(pl) \in 1..(Len(bs) - 1) BY <1>1, <1>2, <1>3, <1>5, <2>3
    <3> QED BY <1>4, <2>1, <2>3, <3>1 DEF PastAt
  <2> QED BY <2>2, <2>3
<1>7. \A k \in 1..(Len(pl) + Len(cs)) : Scene(PastAt(pl, cs, k, su)) BY <1>6 DEF Followed
<1>8. ASSUME NEW k \in 1..(Len(pl) + Len(cs)), NEW l \in 1..(Len(pl) + Len(cs)), k < l, NoNull(pl, gs, k, l)
      PROVE  Pair(PastAt(pl, cs, k, su), PastAt(pl, cs, l, su), l - k)
  <2>1. NoNull(pl, fs, k, l)
    <3> SUFFICES ASSUME NEW i \in 1..Len(fs), fs[i].null PROVE ~(k <= Len(pl) + i /\ Len(pl) + i < l) BY DEF NoNull
    <3>1. CASE i \in 1..Len(gs)
      <4>1. gs[i] = fs[i] BY <1>2, <3>1
      <4> QED BY <1>8, <3>1, <4>1 DEF NoNull
    <3>2. CASE i = Len(fs) BY <1>2, <1>3, <1>5, <3>2
    <3> QED BY <1>2, <3>1, <3>2
  <2>2. /\ PastAt(pl, cs, k, su) = PastAt(pl, bs, k, su) /\ PastAt(pl, cs, l, su) = PastAt(pl, bs, l, su)
        /\ k \in 1..(Len(pl) + Len(bs)) /\ l \in 1..(Len(pl) + Len(bs))
    BY <1>6
  <2>3. Pair(PastAt(pl, bs, k, su), PastAt(pl, bs, l, su), l - k) BY <1>8, <2>1, <2>2 DEF Followed
  <2> QED BY <2>2, <2>3
<1>9. ASSUME NEW i \in 1..Len(cs) PROVE Recorded(pl, cs, i, su) /\ FromNull(cs[i].plies_from_null, gs, i - 1)
  <2>1. i \in 1..Len(bs) /\ cs[i] = bs[i] BY <1>1, <1>2, <1>4, <1>5
  <2>2. Recorded(pl, bs, i, su) /\ FromNull(bs[i].plies_from_null, fs, i - 1) BY <2>1 DEF Followed
  <2>3. \A k \in 1..(Len(pl) + i - 1) : k \in 1..(Len(pl) + Len(cs)) BY <1>2, <1>3, <1>5
  <2>4. \A k \in 1..(Len(pl) + i - 1) : PastAt(pl, cs, k, su) = PastAt(pl, bs, k, su) BY <1>6, <2>3
  <2>5. Recorded(pl, cs, i, su) BY <2>1, <2>2, <2>4 DEF Recorded
  <2>6. i - 1 \in Int /\ \A x \in 1..(i - 1) : gs[x] = fs[x] BY <1>2, <1>5
  <2>7. FromNull(bs[i].plies_from_null, gs, i - 1) BY <2>2, <2>6 DEF FromNull
  <2> QED BY <2>1, <2>5, <2>7
<1>10. Followed(pl, gs, cs, su) BY <1>1, <1>2, <1>4, <1>5, <1>7, <1>8, <1>9 DEF Followed
<1> QED BY <1>10 DEF gs, cs

\* The sequences of none and of one.
LEMMA ShortSequences == ASSUME NEW t PROVE IsSequence(<<>>) /\ IsSequence(<<t>>)
<1>1. PICK s : s = <<>> OBVIOUS
<1>2. IsSequence(<<>>) BY DEF IsSequence
<1>3. IsSequence(s) BY <1>1, <1>2
<1>4. IsSequence(Append(s, t)) BY <1>3, AppendIs
<1>5. Append(s, t) = <<t>> BY <1>1
<1> QED BY <1>2, <1>4, <1>5

\* The start of a game.
LEMMA FollowedStart ==
  ASSUME NEW t, NEW su, Scene(PositionOf(t, su)), t.ply = 0, t.plies_from_null = 1024, t.rep = <<>>
  PROVE  Followed(<<>>, <<>>, <<t>>, su)
<1>1. Len(<<>>) = 0 /\ Len(<<t>>) = 1 /\ <<t>>[1] = t OBVIOUS
<1>2. IsSequence(<<>>) /\ IsSequence(<<t>>) BY ShortSequences
<1>3. PastAt(<<>>, <<t>>, 1, su) = PositionOf(t, su)
  <2>1. Len(<<>>) + Len(<<t>>) = 1 BY <1>1
  <2>2. PastAt(<<>>, <<t>>, Len(<<>>) + Len(<<t>>), su) = PositionOf(<<t>>[Len(<<t>>)], su) BY <1>1, PastLast
  <2> QED BY <1>1, <2>1, <2>2
<1>4. \A k \in 1..(Len(<<>>) + Len(<<t>>)) : k = 1 BY <1>1
<1>5. Recorded(<<>>, <<t>>, 1, su)
  <2>1. <<>> \in Seq(Keys) OBVIOUS
  <2>2. Len(<<>>) + 1 - 1 = 0 BY <1>1
  <2>3. \A k \in 1..0 : FALSE OBVIOUS
  <2>4. <<t>>[1].ply = 1 - 1 /\ <<t>>[1].rep = <<>> BY <1>1
  <2> QED BY <1>1, <2>1, <2>2, <2>3, <2>4 DEF Recorded
<1>6. FromNull(1024, <<>>, 0) BY DEF FromNull
<1>7. ASSUME NEW i \in 1..Len(<<t>>) PROVE Recorded(<<>>, <<t>>, i, su) /\ FromNull(<<t>>[i].plies_from_null, <<>>, i - 1)
  <2>1. i = 1 /\ i - 1 = 0 BY <1>1
  <2> QED BY <1>1, <1>5, <1>6, <2>1
<1>8. \A k \in 1..(Len(<<>>) + Len(<<t>>)) : Scene(PastAt(<<>>, <<t>>, k, su)) BY <1>3, <1>4
<1>9. \A k, l \in 1..(Len(<<>>) + Len(<<t>>)) : ~(k < l) BY <1>4
<1> QED BY <1>1, <1>2, <1>7, <1>8, <1>9 DEF Followed

\* A move of the game: the line of one board starts again one position later.
LEMMA FollowedPlay ==
  ASSUME NEW pl, NEW b, NEW su, Followed(pl, <<>>, <<b>>, su), NEW f, ~f.null, NEW u, Follows(b, f, u, su),
         NEW t, PositionOf(t, su) = PositionOf(u, su), t.rep = u.rep, t.ply = 0, t.plies_from_null = 1024,
         NEW x, x = PositionOf(b, su)
  PROVE  Followed(Append(pl, x), <<>>, <<t>>, su)
<1> DEFINE ql == Append(pl, x)
           bs == Append(<<b>>, u)
           fs == Append(<<>>, f)
           N == Len(pl) + 2
<1>1. Len(<<>>) = 0 /\ Len(<<t>>) = 1 /\ <<t>>[1] = t /\ Len(<<b>>) = 1 /\ <<b>>[1] = b OBVIOUS
<1>2. Followed(pl, fs, bs, su)
  <2>1. PICK cs : cs = <<b>> OBVIOUS
  <2>2. PICK gs : gs = <<>> OBVIOUS
  <2>3. Followed(pl, gs, cs, su) BY <2>1, <2>2
  <2>4. b = cs[Len(cs)] BY <1>1, <2>1
  <2>5. Followed(pl, Append(gs, f), Append(cs, u), su) BY <2>3, <2>4, FollowedDown
  <2> QED BY <2>1, <2>2, <2>5
<1>3. /\ Len(bs) = 2 /\ bs[1] = b /\ bs[2] = u /\ Len(fs) = 1 /\ fs[1] = f OBVIOUS
<1>4. IsSequence(pl) /\ IsSequence(<<>>) /\ IsSequence(<<t>>)
  <2>1. IsSequence(pl) BY DEF Followed
  <2> QED BY <2>1, ShortSequences
<1>5. /\ Len(pl) \in Nat /\ IsSequence(ql) /\ Len(ql) = Len(pl) + 1 /\ ql[Len(pl) + 1] = x
      /\ \A i \in 1..Len(pl) : ql[i] = pl[i]
  BY <1>4, AppendIs
<1> HIDE DEF ql, bs, fs
<1>6. ASSUME NEW k \in 1..N PROVE PastAt(ql, <<t>>, k, su) = PastAt(pl, bs, k, su)
  <2>1. CASE k <= Len(pl)
    <3>1. k \in 1..Len(pl) /\ k <= Len(ql) BY <1>5, <2>1
    <3> QED BY <1>5, <2>1, <3>1 DEF PastAt
  <2>2. CASE k = Len(pl) + 1
    <3>1. ~(k <= Len(pl)) /\ k <= Len(ql) /\ k - Len(pl) = 1 BY <1>5, <2>2
    <3> QED BY <1>3, <1>5, <2>2, <3>1 DEF PastAt
  <2>3. CASE k = Len(pl) + 2
    <3>1. ~(k <= Len(pl)) /\ ~(k <= Len(ql)) /\ k - Len(pl) = 2 /\ k - Len(ql) = 1 BY <1>5, <2>3
    <3> QED BY <1>1, <1>3, <3>1 DEF PastAt
  <2> QED BY <1>5, <2>1, <2>2, <2>3
<1>7. Len(pl) + Len(bs) = N /\ Len(ql) + Len(<<t>>) = N /\ N \in Nat BY <1>1, <1>3, <1>5
<1>8. \A k \in 1..N : Scene(PastAt(pl, bs, k, su)) BY <1>2, <1>7 DEF Followed
<1>9. ASSUME NEW k \in 1..N, NEW l \in 1..N, k < l PROVE Pair(PastAt(pl, bs, k, su), PastAt(pl, bs, l, su), l - k)
  <2>1. NoNull(pl, fs, k, l)
    <3>1. \A i \in 1..Len(fs) : ~fs[i].null
      <4>1. \A i \in 1..1 : i = 1 OBVIOUS
      <4> QED BY <1>3, <4>1
    <3> QED BY <3>1 DEF NoNull
  <2>2. k \in 1..(Len(pl) + Len(bs)) /\ l \in 1..(Len(pl) + Len(bs)) BY <1>7
  <2> QED BY <1>2, <1>9, <2>1, <2>2 DEF Followed
<1>10. Recorded(pl, bs, 2, su)
  <2>1. 2 \in 1..Len(bs) BY <1>3
  <2> QED BY <1>2, <2>1 DEF Followed
<1> HIDE DEF N
<1>11. Recorded(ql, <<t>>, 1, su)
  <2>1. u.rep \in Seq(Keys) /\ Len(u.rep) = Len(pl) + 1 BY <1>3, <1>5, <1>10 DEF Recorded
  <2>2. \A k \in 1..(Len(pl) + 1) : Stamps(u.rep[k], PastAt(pl, bs, k, su), su)
    <3>1. Len(pl) + 2 - 1 = Len(pl) + 1 BY <1>5
    <3> QED BY <1>3, <1>10, <3>1 DEF Recorded
  <2>3. Len(ql) + 1 - 1 = Len(pl) + 1 /\ \A k \in 1..(Len(pl) + 1) : k \in 1..N BY <1>5 DEF N
  <2>4. <<t>>[1].ply = 1 - 1 /\ <<t>>[1].rep = u.rep BY <1>1
  <2>5. \A k \in 1..(Len(pl) + 1) : Stamps(u.rep[k], PastAt(ql, <<t>>, k, su), su) BY <1>6, <2>2, <2>3
  <2> QED BY <2>1, <2>3, <2>4, <2>5 DEF Recorded
<1>12. FromNull(1024, <<>>, 0) BY DEF FromNull
<1>13. ASSUME NEW i \in 1..Len(<<t>>) PROVE Recorded(ql, <<t>>, i, su) /\ FromNull(<<t>>[i].plies_from_null, <<>>, i - 1)
  <2>1. i = 1 /\ i - 1 = 0 BY <1>1
  <2> QED BY <1>1, <1>11, <1>12, <2>1
<1>14. \A k \in 1..N : Scene(PastAt(ql, <<t>>, k, su)) BY <1>6, <1>8
<1>15. \A k, l \in 1..N : k < l => Pair(PastAt(ql, <<t>>, k, su), PastAt(ql, <<t>>, l, su), l - k)
  <2> SUFFICES ASSUME NEW k \in 1..N, NEW l \in 1..N, k < l PROVE Pair(PastAt(ql, <<t>>, k, su), PastAt(ql, <<t>>, l, su), l - k)
    OBVIOUS
  <2>1. PastAt(ql, <<t>>, k, su) = PastAt(pl, bs, k, su) /\ PastAt(ql, <<t>>, l, su) = PastAt(pl, bs, l, su) BY <1>6
  <2>2. Pair(PastAt(pl, bs, k, su), PastAt(pl, bs, l, su), l - k) BY <1>9
  <2> QED BY <2>1, <2>2
<1>16. Len(<<t>>) = Len(<<>>) + 1 BY <1>1
<1>17. Followed(ql, <<>>, <<t>>, su) BY <1>4, <1>5, <1>7, <1>13, <1>14, <1>15, <1>16 DEF Followed
<1> QED BY <1>17 DEF ql

(***************************************************************************)
(* The test of the repetitions.                                            *)
(***************************************************************************)
\* A set of numbers has a least one.
LEMMA LeastOf ==
  ASSUME NEW T \in SUBSET Nat, T # {} PROVE \E x \in T : \A y \in T : x <= y
<1> DEFINE R == OpToRel(<,Nat)
<1>1. IsWellFoundedOn(R, Nat) BY NatLessThanWellFounded
<1>2. \A y \in Nat, z \in Nat : y < z => <<y, z>> \in R BY DEF OpToRel
<1> HIDE DEF R
<1>3. PICK x \in T : \A y \in T : ~(<<y, x>> \in R) BY <1>1, WFMin
<1>4. ASSUME NEW y \in T PROVE x <= y
  <2>1. x \in Nat /\ y \in Nat OBVIOUS
  <2>2. ~(y < x) BY <1>2, <1>3, <2>1
  <2> QED BY <2>1, <2>2
<1> QED BY <1>3, <1>4

\* More than one is two that differ.
LEMMA MoreThanOne ==
  ASSUME NEW K, IsFiniteSet(K) PROVE Cardinality(K) > 1 <=> \E x, y \in K : x # y
<1>1. Cardinality(K) \in Nat BY FS_CardinalityType
<1>2. CASE \E x, y \in K : x # y
  <2>1. PICK x \in K, y \in K : x # y BY <1>2
  <2>2. IsFiniteSet(K \ {x}) /\ Cardinality(K \ {x}) = Cardinality(K) - 1 BY FS_RemoveElement
  <2>3. Cardinality(K \ {x}) \in Nat BY <2>2, FS_CardinalityType
  <2>4. Cardinality(K \ {x}) # 0
    <3>1. y \in K \ {x} BY <2>1
    <3> QED BY <2>2, <3>1, FS_EmptySet
  <2> QED BY <1>1, <1>2, <2>2, <2>3, <2>4
<1>3. CASE ~(\E x, y \in K : x # y)
  <2>1. CASE K = {}
    <3>1. Cardinality(K) = 0 BY <2>1, FS_EmptySet
    <3> QED BY <1>3, <3>1
  <2>2. CASE K # {}
    <3>1. PICK x : x \in K BY <2>2
    <3>2. K = {x} BY <1>3, <3>1
    <3>3. Cardinality(K) = 1 BY <3>2, FS_Singleton
    <3> QED BY <1>3, <3>3
  <2> QED BY <2>1, <2>2
<1> QED BY <1>2, <1>3

\* The loop of repeated_draw over the ages at which the position was seen: it looks for the first and, when that lies
\* before the root, for one more.
FirstOf(A, w) == {i \in 4..w : i % 2 = 0 /\ i \in A /\ \A j \in 4..(i - 1) : j % 2 = 0 => ~(j \in A)}
OneMore(A, w, i) == \E j \in (i + 4)..w : (j - i) % 2 = 0 /\ j \in A

\* When the ages are even and four plies apart, the loop finds what the rules of a repetition ask for.
LEMMA LoopFinds ==
  ASSUME NEW w \in Nat, NEW n \in Nat, NEW A \in SUBSET (4..w), \A i \in A : i % 2 = 0, \A i, j \in A : i < j => j >= i + 4
  PROVE  (\E i \in FirstOf(A, w) : i < n \/ OneMore(A, w, i)) <=> (\E i, j \in A : i # j) \/ \E i \in A : i < n
<1>1. ASSUME NEW i \in FirstOf(A, w), i < n \/ OneMore(A, w, i) PROVE (\E x, y \in A : x # y) \/ \E x \in A : x < n
  <2>1. i \in A /\ i \in Int BY DEF FirstOf
  <2>2. CASE i < n BY <2>1, <2>2
  <2>3. CASE OneMore(A, w, i)
    <3>1. PICK j \in (i + 4)..w : j \in A BY <2>3 DEF OneMore
    <3>2. j # i BY <2>1, <3>1
    <3> QED BY <2>1, <3>1, <3>2
  <2> QED BY <1>1, <2>2, <2>3
<1>2. ASSUME (\E x, y \in A : x # y) \/ \E x \in A : x < n PROVE \E i \in FirstOf(A, w) : i < n \/ OneMore(A, w, i)
  <2>1. A # {} /\ A \in SUBSET Nat BY <1>2
  <2>2. PICK i \in A : \A y \in A : i <= y BY <2>1, LeastOf
  <2>3. i \in FirstOf(A, w)
    <3>1. i \in 4..w /\ i % 2 = 0 OBVIOUS
    <3>2. ASSUME NEW j \in 4..(i - 1) PROVE j \notin A
      <4>1. ~(i <= j) BY <3>1
      <4> QED BY <2>2, <4>1
    <3> QED BY <3>1, <3>2 DEF FirstOf
  <2>4. CASE \E x \in A : x < n
    <3>1. PICK x \in A : x < n BY <2>4
    <3>2. i \in Int /\ x \in Int /\ i <= x BY <2>2
    <3> QED BY <2>3, <3>1, <3>2
  <2>5. CASE \E x, y \in A : x # y
    <3>1. PICK j \in A : j # i BY <2>5
    <3>2. i \in Int /\ j \in Int /\ i <= j /\ j <= w BY <2>2
    <3>3. j >= i + 4 BY <3>1, <3>2
    <3>4. (j - i) % 2 = 0
      <4>1. i % 2 = 0 /\ j % 2 = 0 OBVIOUS
      <4> QED BY <3>2, <4>1
    <3>5. OneMore(A, w, i) BY <3>2, <3>3, <3>4 DEF OneMore
    <3> QED BY <2>3, <3>5
  <2> QED BY <1>2, <2>4, <2>5
<1> QED BY <1>1, <1>2
===============================================================================
