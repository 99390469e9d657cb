----------------------------- MODULE BoardProofs ------------------------------
(***************************************************************************)
(* Proofs about the boards of Game, for any board they are asked of: where *)
(* the four slider kernels and the leapers see, what a move does to the    *)
(* boards, the mailbox, the occupancies, the keys and the rights and what  *)
(* takes it back, that the moves let through fit the board, what a FEN     *)
(* sets up, and that the moves of the board are those of the rules.        *)
(* MoveProofs goes on with the king and the lists, GameProofs with what    *)
(* the game and its searches keep.                                         *)
(*                                                                         *)
(* Of the lists and the validation this module proves that any move they   *)
(* let through fits (Fit): it moves a man of the side to move, takes what  *)
(* stands on the target or in passing, jumps or castles from home over     *)
(* free squares.                                                           *)
(*                                                                         *)
(* Order: lines and the kernels; numbers of pieces and squares; what a     *)
(* move does and what takes it back; the attacks and the moves tried; the  *)
(* game's own make and the FEN; the rules.                                 *)
(*                                                                         *)
(* A least element of a set of numbers comes from the well-foundedness of  *)
(* the naturals (LeastNatural): with it what a CHOOSE of the model picks   *)
(* is proved to exist without an induction of one's own.                   *)
(***************************************************************************)
EXTENDS Game, TLAPS, FiniteSetTheorems

(***************************************************************************)
(* Lines.  A square is known by its row and its file, and each of the four *)
(* lines through it by a number; along a line, squares are in the order of *)
(* their numbers.                                                          *)
(***************************************************************************)
LineOf(l, s) == CASE l = 1 -> Row(s) - File(s) [] l = 2 -> File(s) [] l = 3 -> Row(s) + File(s) [] OTHER -> Row(s)
OnLine(l, s, t) == s # t /\ LineOf(l, s) = LineOf(l, t)
Inside(u, s, t) == (s < u /\ u < t) \/ (t < u /\ u < s)
Clear(l, s, t, occ) == \A u \in occ : u \in Squares /\ OnLine(l, s, u) => ~Inside(u, s, t)
Sees(l, s, t, occ) == t \in Squares /\ OnLine(l, s, t) /\ Clear(l, s, t, occ)

\* Rows and files of squares.
LEMMA Coordinates ==
  /\ \A s \in Squares : s \in Int /\ Row(s) \in 0..7 /\ File(s) \in 0..7 /\ s = 8 * Row(s) + File(s)
  /\ \A r, f \in 0..7 : 8 * r + f \in Squares /\ Row(8 * r + f) = r /\ File(8 * r + f) = f
BY DEF Squares, Row, File

\* A line's number.
LEMMA LineOfIs ==
  ASSUME NEW s
  PROVE  /\ LineOf(1, s) = Row(s) - File(s) /\ LineOf(2, s) = File(s)
         /\ LineOf(3, s) = Row(s) + File(s) /\ LineOf(4, s) = Row(s)
BY DEF LineOf

\* The lines of the table.
LEMMA LineIs ==
  ASSUME NEW s \in Squares, NEW l \in 1..4
  PROVE  line[s][l] = {t \in Squares : OnLine(l, s, t)}
<1>1. line[s] = line_masks(s)
  BY LeapersAssumption DEF init_line
<1>2. /\ line_masks(s)[1] = {t \in Squares \ {s} : Row(t) - File(t) = Row(s) - File(s)}
      /\ line_masks(s)[2] = {t \in Squares \ {s} : File(t) = File(s)}
      /\ line_masks(s)[3] = {t \in Squares \ {s} : Row(t) + File(t) = Row(s) + File(s)}
      /\ line_masks(s)[4] = {t \in Squares \ {s} : Row(t) = Row(s)}
  BY DEF line_masks
<1>3. l = 1 \/ l = 2 \/ l = 3 \/ l = 4
  OBVIOUS
<1>4. CASE l = 1
  BY <1>1, <1>2, <1>4, LineOfIs DEF OnLine
<1>5. CASE l = 2
  BY <1>1, <1>2, <1>5, LineOfIs DEF OnLine
<1>6. CASE l = 3
  BY <1>1, <1>2, <1>6, LineOfIs DEF OnLine
<1>7. CASE l = 4
  BY <1>1, <1>2, <1>7, LineOfIs DEF OnLine
<1> QED
  BY <1>3, <1>4, <1>5, <1>6, <1>7

\* Two squares share one line at most.
LEMMA OneLine ==
  ASSUME NEW s \in Squares, NEW t \in Squares, NEW l \in 1..4, NEW k \in 1..4, OnLine(l, s, t), OnLine(k, s, t)
  PROVE  l = k
<1>1. /\ Row(s) \in 0..7 /\ File(s) \in 0..7 /\ s = 8 * Row(s) + File(s)
      /\ Row(t) \in 0..7 /\ File(t) \in 0..7 /\ t = 8 * Row(t) + File(t)
  BY Coordinates
<1>2. s # t /\ LineOf(l, s) = LineOf(l, t) /\ LineOf(k, s) = LineOf(k, t)
  BY DEF OnLine
<1>3. l = 1 \/ l = 2 \/ l = 3 \/ l = 4
  OBVIOUS
<1>4. k = 1 \/ k = 2 \/ k = 3 \/ k = 4
  OBVIOUS
<1> QED
  BY <1>1, <1>2, <1>3, <1>4, LineOfIs

\* Being on a line is an equivalence of squares.
LEMMA SameLine ==
  ASSUME NEW l, NEW s, NEW t, OnLine(l, s, t)
  PROVE  OnLine(l, t, s) /\ \A u : u # s /\ u # t => (OnLine(l, s, u) <=> OnLine(l, t, u))
BY DEF OnLine

\* Seeing is mutual, and what stands on the two squares does not matter.
LEMMA SeenBack ==
  ASSUME NEW l, NEW s \in Squares, NEW t \in Squares, NEW occ
  PROVE  Sees(l, s, t, occ) <=> Sees(l, t, s, occ)
BY DEF Sees, Clear, OnLine, Inside, Squares

-----------------------------------------------------------------------------
(* Extremes of sets of squares *)

\* A set of natural numbers has a least member, a bounded one a greatest.
LEMMA LeastNatural ==
  ASSUME NEW A \in SUBSET Nat, A # {}
  PROVE  \E x \in A : \A y \in A : x <= y
<1> DEFINE Below(j) == {k \in A : k < j}
           T == {Below(j) : j \in A}
           R == StrictSubsetOrdering(Nat)
           F == FiniteSubsetsOf(Nat)
<1>1. IsWellFoundedOn(R, F) BY FS_StrictSubsetOrderingWellFounded
<1>2. ASSUME NEW j \in A PROVE Below(j) \in F
  <2>1. Below(j) \in SUBSET Nat OBVIOUS
  <2>2. j \in Nat /\ \A s \in Below(j) : s <= j OBVIOUS
  <2> HIDE DEF Below
  <2>3. IsFiniteSet(Below(j)) BY <2>1, <2>2, FS_BoundedSetOfNaturals
  <2> QED BY <2>1, <2>3 DEF FiniteSubsetsOf
<1> HIDE DEF Below, R, F
<1>3. T \subseteq F /\ T # {} BY <1>2
<1> HIDE DEF T
<1>4. PICK X \in T : \A Y \in T : ~(<<Y, X>> \in R) BY <1>1, <1>3, WFMin
<1>5. PICK j \in A : X = Below(j) BY <1>4 DEF T
<1>6. ASSUME NEW k \in A, k < j PROVE FALSE
  <2>1. Below(k) \in T BY DEF T
  <2>2. Below(k) \in SUBSET Nat /\ Below(j) \in SUBSET Nat BY DEF Below
  <2>3. Below(k) \subseteq Below(j)
    <3>1. ASSUME NEW n \in Below(k) PROVE n \in Below(j)
      <4>1. n \in A /\ n < k BY <3>1 DEF Below
      <4>2. n \in Nat /\ k \in Nat /\ j \in Nat BY <4>1
      <4>3. n < j BY <1>6, <4>1, <4>2
      <4> QED BY <4>1, <4>3 DEF Below
    <3> QED BY <3>1
  <2>4. k \in Below(j) /\ k \notin Below(k)
    <3>1. k \in Nat OBVIOUS
    <3> QED BY <1>6, <3>1 DEF Below
  <2>5. Below(k) # Below(j) BY <2>4
  <2>6. <<Below(k), Below(j)>> \in R
    <3>1. <<Below(k), Below(j)>> \in (SUBSET Nat) \X (SUBSET Nat) BY <2>2
    <3> QED BY <3>1, <2>3, <2>5 DEF R, StrictSubsetOrdering
  <2> QED BY <1>4, <1>5, <2>1, <2>6
<1>7. \A y \in A : j <= y
  <2> TAKE y \in A
  <2>1. ~(y < j) BY <1>6
  <2>2. y \in Nat /\ j \in Nat OBVIOUS
  <2> QED BY <2>1, <2>2
<1> QED BY <1>7

\* A bounded set of natural numbers has a greatest element.
LEMMA GreatestNatural ==
  ASSUME NEW n \in Nat, NEW A \in SUBSET (0..n), A # {}
  PROVE  \E x \in A : \A y \in A : y <= x
<1> DEFINE B == {n - a : a \in A}
<1>1. B \in SUBSET Nat /\ B # {}
  <2>1. ASSUME NEW a \in A PROVE n - a \in Nat
    <3>1. a \in 0..n OBVIOUS
    <3> QED BY <3>1
  <2> QED BY <2>1
<1> HIDE DEF B
<1>2. PICK z \in B : \A y \in B : z <= y BY <1>1, LeastNatural
<1>3. PICK x \in A : z = n - x BY DEF B
<1>4. ASSUME NEW y \in A PROVE y <= x
  <2>1. n - y \in B BY DEF B
  <2>2. n - x <= n - y BY <1>2, <1>3, <2>1
  <2>3. x \in Int /\ y \in Int OBVIOUS
  <2> QED BY <2>2, <2>3
<1> QED BY <1>4

\* The lowest bit of a set of squares.
LEMMA LsbIs ==
  ASSUME NEW T \in SUBSET Squares, T # {}
  PROVE  Lsb(T) \in T /\ \A y \in T : Lsb(T) <= y
<1>1. T \in SUBSET Nat
  BY DEF Squares
<1>2. \E x \in T : \A y \in T : x <= y
  BY <1>1, LeastNatural
<1> QED
  BY <1>2 DEF Lsb

\* The highest bit of a set of squares.
LEMMA HighestIs ==
  ASSUME NEW T \in SUBSET Squares, T # {}
  PROVE  highest_bit(T) \in T /\ \A y \in T : y <= highest_bit(T)
<1>1. T \in SUBSET (0..63) /\ 63 \in Nat
  BY DEF Squares
<1>2. \E x \in T : \A y \in T : y <= x
  BY <1>1, GreatestNatural
<1> QED
  BY <1>2 DEF highest_bit

-----------------------------------------------------------------------------
(* The kernels *)

\* What the subtraction flips: from its bit up to the next one set.
Flips(x, b) == {t \in Squares : b <= t /\ \A u \in x : b <= u => t <= u}

\* The subtraction of one bit flips these.
LEMMA MinusFlips ==
  ASSUME NEW x \in SUBSET Squares, NEW b \in 0..64
  PROVE  Xor(x, Minus(x, b)) = Flips(x, b)
<1> DEFINE high == x \cap b..63
<1>1. high = {u \in x : b <= u}
  <2>1. \A u \in x : u \in 0..63 /\ (u \in b..63 <=> b <= u)
    BY DEF Squares
  <2> QED
    BY <2>1
<1>2. CASE b > 63
  <2>1. Minus(x, b) = x
    BY <1>2 DEF Minus
  <2>2. Flips(x, b) = {}
    BY <1>2 DEF Flips, Squares
  <2> QED
    BY <2>1, <2>2 DEF Xor
<1>3. CASE b <= 63 /\ high = {}
  <2>1. Minus(x, b) = x \cup b..63
    BY <1>3 DEF Minus
  <2>2. Flips(x, b) = b..63
    BY <1>1, <1>3 DEF Flips, Squares
  <2> QED
    BY <1>3, <2>1, <2>2 DEF Xor
<1>4. CASE b <= 63 /\ high # {}
  <2> DEFINE low == Lsb(high)
  <2>1. Minus(x, b) = Borrow(x, b, low)
    BY <1>4 DEF Minus
  <2>2. low \in high /\ \A y \in high : low <= y
    BY <1>1, <1>4, LsbIs
  <2> HIDE DEF low, high
  <2>3. low \in Squares /\ low \in x /\ b <= low /\ \A u \in x : b <= u => low <= u
    BY <1>1, <2>2
  <2>4. Flips(x, b) = b..low
    BY <2>3 DEF Flips, Squares
  <2>5. Minus(x, b) = (x \ {low}) \cup b..(low - 1)
    BY <2>1 DEF Borrow
  <2>6. \A u \in b..(low - 1) : u \notin x /\ u \in b..low
    BY <2>3 DEF Squares
  <2>7. \A u \in b..low : u = low \/ u \in b..(low - 1)
    BY <2>3 DEF Squares
  <2>8. low \in b..low
    BY <2>3 DEF Squares
  <2> QED
    BY <2>3, <2>4, <2>5, <2>6, <2>7, <2>8 DEF Xor
<1> QED
  BY <1>2, <1>3, <1>4

\* The lines that the odd-even kernel sees (sliders.h, pair_od).
LEMMA OdSees ==
  ASSUME NEW s \in Squares, NEW occ, NEW l \in 1..4
  PROVE  line_attacks(s, occ, line[s][l]) = {t \in Squares : Sees(l, s, t, occ)}
<1> DEFINE L == line[s][l]
           upper == {t \in occ \cap L : t > s}
           lower == {t \in occ \cap L : t < s} \cup {0}
           blocker == highest_bit(lower)
<1>1. L = {t \in Squares : OnLine(l, s, t)}
  BY LineIs
<1>2. upper \in SUBSET Squares /\ lower \in SUBSET Squares /\ lower # {}
  BY <1>1 DEF Squares
<1>3. blocker \in lower /\ \A y \in lower : y <= blocker
  BY <1>2, HighestIs
<1>4. line_attacks(s, occ, L) = Xor(upper, Minus(upper, blocker)) \cap L
  BY DEF line_attacks, OdAttacks
<1> HIDE DEF blocker
<1>5. blocker \in 0..64
  BY <1>2, <1>3 DEF Squares
<1>6. Xor(upper, Minus(upper, blocker)) = Flips(upper, blocker)
  BY <1>2, <1>5, MinusFlips
<1>7. ASSUME NEW t \in L PROVE t \in Flips(upper, blocker) <=> Clear(l, s, t, occ)
  <2>1. t \in Squares /\ t # s /\ \A u : u \in L <=> u \in Squares /\ OnLine(l, s, u)
    BY <1>1 DEF OnLine
  <2>2. Clear(l, s, t, occ) <=> \A u \in occ \cap L : ~Inside(u, s, t)
    BY <2>1 DEF Clear
  <2>3. blocker = 0 \/ (blocker \in occ \cap L /\ blocker < s)
    BY <1>3
  <2>4. \A u \in occ \cap L : u < s => u <= blocker
    BY <1>3
  <2>5. \A u \in occ \cap L : u \in Squares /\ u # s
    BY <1>1 DEF OnLine
  <2>6. t \in Flips(upper, blocker) <=> blocker <= t /\ \A u \in upper : blocker <= u => t <= u
    BY <2>1 DEF Flips
  <2>7. \A u \in upper : blocker <= u
    BY <2>3, <2>5 DEF Squares
  <2>8. t \in Flips(upper, blocker) <=> blocker <= t /\ \A u \in occ \cap L : s < u => t <= u
    BY <2>6, <2>7
  <2> HIDE DEF L
  <2>9. CASE s < t
    <3>1. blocker <= t
      BY <2>1, <2>3, <2>9 DEF Squares
    <3> QED
      BY <2>1, <2>2, <2>5, <2>8, <2>9, <3>1 DEF Inside, Squares
  <2>10. CASE t < s
    <3>1. \A u \in occ \cap L : s < u => t <= u
      BY <2>1, <2>5, <2>10 DEF Squares
    <3>2. blocker <= t <=> \A u \in occ \cap L : ~(t < u /\ u < s)
      BY <2>1, <2>3, <2>4, <2>5, <2>10 DEF Squares
    <3> QED
      BY <2>1, <2>2, <2>5, <2>8, <2>10, <3>1, <3>2 DEF Inside, Squares
  <2> QED
    BY <2>1, <2>9, <2>10 DEF Squares
<1> QED
  BY <1>1, <1>4, <1>6, <1>7 DEF Sees

\* The rows of a board upside down.
LEMMA ReversedIs ==
  ASSUME NEW s \in Squares
  PROVE  /\ Reversed(s) \in Squares /\ Reversed(Reversed(s)) = s
         /\ Row(Reversed(s)) = 7 - Row(s) /\ File(Reversed(s)) = File(s)
<1>1. Row(s) \in 0..7 /\ File(s) \in 0..7 /\ s = 8 * Row(s) + File(s)
  BY Coordinates
<1>2. Reversed(s) = 8 * (7 - Row(s)) + File(s) /\ 7 - Row(s) \in 0..7
  BY <1>1 DEF Reversed
<1>3. Reversed(s) \in Squares /\ Row(Reversed(s)) = 7 - Row(s) /\ File(Reversed(s)) = File(s)
  <2> DEFINE r == 7 - Row(s)
             f == File(s)
  <2>1. r \in 0..7 /\ f \in 0..7 /\ Reversed(s) = 8 * r + f
    BY <1>1, <1>2
  <2> HIDE DEF r, f
  <2>2. 8 * r + f \in Squares /\ Row(8 * r + f) = r /\ File(8 * r + f) = f
    BY <2>1, Coordinates
  <2>3. Reversed(s) \in Squares /\ Row(Reversed(s)) = r /\ File(Reversed(s)) = f
    BY <2>1, <2>2
  <2> QED
    BY <2>3 DEF r, f
<1>4. Reversed(Reversed(s)) = 8 * (7 - (7 - Row(s))) + File(s)
  BY <1>3 DEF Reversed
<1> QED
  BY <1>1, <1>3, <1>4

\* A set of squares upside down.
LEMMA SwappedIn ==
  ASSUME NEW Y \in SUBSET Squares, NEW t \in Squares
  PROVE  bswap64(Y) \in SUBSET Squares /\ (t \in bswap64(Y) <=> Reversed(t) \in Y)
BY ReversedIs DEF bswap64

\* A line that is no rank lies upside down from its last square to its first.
LEMMA ReversedOrder ==
  ASSUME NEW l \in 1..3, NEW s \in Squares, NEW t \in Squares, LineOf(l, s) = LineOf(l, t)
  PROVE  Reversed(s) < Reversed(t) <=> t < s
<1>1. /\ Row(s) \in 0..7 /\ File(s) \in 0..7 /\ s = 8 * Row(s) + File(s)
      /\ Row(t) \in 0..7 /\ File(t) \in 0..7 /\ t = 8 * Row(t) + File(t)
  BY Coordinates
<1>2. Reversed(s) = 8 * (7 - Row(s)) + File(s) /\ Reversed(t) = 8 * (7 - Row(t)) + File(t)
  BY DEF Reversed
<1>3. l = 1 \/ l = 2 \/ l = 3
  OBVIOUS
<1>4. CASE l = 1
  <2>1. Row(s) - File(s) = Row(t) - File(t)
    BY <1>4, LineOfIs
  <2> QED
    BY <1>1, <1>2, <2>1
<1>5. CASE l = 2
  <2>1. File(s) = File(t)
    BY <1>5, LineOfIs
  <2> QED
    BY <1>1, <1>2, <2>1
<1>6. CASE l = 3
  <2>1. Row(s) + File(s) = Row(t) + File(t)
    BY <1>6, LineOfIs
  <2> QED
    BY <1>1, <1>2, <2>1
<1> QED
  BY <1>3, <1>4, <1>5, <1>6

\* The lines that the hyperbola kernel sees (sliders.h, pair_hqs) ...
LEMMA HqSees ==
  ASSUME NEW s \in Squares, NEW occ, NEW l \in 1..3
  PROVE  hq_lanes(s, occ, line[s][l]) = {t \in Squares : Sees(l, s, t, occ)}
<1> DEFINE L == line[s][l]
           x == occ \cap L
           y == bswap64(x)
           up == Flips(x, s + 1)
           down == Flips(y, Reversed(s) + 1)
<1>1. L = {t \in Squares : OnLine(l, s, t)}
  BY LineIs
<1>2. x \in SUBSET Squares
  BY <1>1
<1>3. y \in SUBSET Squares /\ Reversed(s) \in Squares
  BY <1>2, SwappedIn, ReversedIs
<1> HIDE DEF L
<1>4. hq_lanes(s, occ, L) = Xor(Minus(x, s + 1), bswap64(Minus(y, Reversed(s) + 1))) \cap L
  BY DEF hq_lanes, HqLanes
<1> HIDE DEF x, y
<1>5. Xor(x, Minus(x, s + 1)) = up /\ Xor(y, Minus(y, Reversed(s) + 1)) = down
  <2>1. s + 1 \in 0..64 /\ Reversed(s) + 1 \in 0..64
    BY <1>3 DEF Squares
  <2> QED
    BY <1>2, <1>3, <2>1, MinusFlips
<1>6. up \in SUBSET Squares /\ down \in SUBSET Squares
  BY DEF Flips
<1> HIDE DEF up, down
<1>7. \A A, B, C : Xor(A, B) = C => \A n : n \in B <=> ~(n \in A <=> n \in C)
  BY DEF Xor
<1>8. ASSUME NEW t \in Squares
      PROVE  t \in Xor(Minus(x, s + 1), bswap64(Minus(y, Reversed(s) + 1))) <=> ~(t \in up <=> Reversed(t) \in down)
  <2>1. t \in Minus(x, s + 1) <=> ~(t \in x <=> t \in up)
    BY <1>5, <1>7
  <2> DEFINE D == Minus(y, Reversed(s) + 1)
  <2>2. \A n : n \in D <=> ~(n \in y <=> n \in down)
    BY <1>5, <1>7
  <2>3. D \in SUBSET Squares
    BY <1>3, <1>6, <2>2
  <2> HIDE DEF D
  <2>4. t \in bswap64(D) <=> Reversed(t) \in D
    BY <2>3, SwappedIn
  <2>5. Reversed(t) \in y <=> t \in x
    <3>1. Reversed(t) \in Squares /\ Reversed(Reversed(t)) = t
      BY ReversedIs
    <3> QED
      BY <1>2, <3>1, SwappedIn DEF y
  <2>6. t \in bswap64(D) <=> ~(t \in x <=> Reversed(t) \in down)
    BY <2>2, <2>4, <2>5
  <2> QED
    BY <2>1, <2>6 DEF Xor, D
<1>9. ASSUME NEW t \in L
      PROVE  ~(t \in up <=> Reversed(t) \in down) <=> Clear(l, s, t, occ)
  <2>1. t \in Squares /\ t # s /\ LineOf(l, s) = LineOf(l, t)
    BY <1>1 DEF OnLine
  <2>2. Clear(l, s, t, occ) <=> \A u \in x : ~Inside(u, s, t)
    BY <1>1 DEF Clear, x
  <2>3. \A u \in x : u \in Squares /\ u # s /\ LineOf(l, s) = LineOf(l, u)
    BY <1>1 DEF OnLine, x
  <2>4. t \in up <=> s < t /\ \A u \in x : s < u => t <= u
    <3>1. \A u \in x \cup {t} : s + 1 <= u <=> s < u
      BY <2>1, <2>3 DEF Squares
    <3> QED
      BY <2>1, <3>1 DEF up, Flips
  <2>5. Reversed(t) \in down <=> t < s /\ \A u \in x : u < s => u <= t
    <3>1. Reversed(t) \in Squares /\ Reversed(t) \in Int /\ Reversed(s) \in Int
      BY <1>3, <2>1, ReversedIs DEF Squares
    <3>2. \A u \in x : Reversed(u) \in y
      BY <1>2 DEF y, bswap64
    <3>3. \A v \in y : \E u \in x : v = Reversed(u)
      BY DEF y, bswap64
    <3>4. \A u \in x : Reversed(u) \in Int /\ (Reversed(s) < Reversed(u) <=> u < s) /\ (Reversed(u) < Reversed(t) <=> t < u)
      <4> TAKE u \in x
      <4>1. Reversed(u) \in Squares
        BY <2>3, ReversedIs
      <4>2. Reversed(u) < Reversed(t) <=> t < u
        <5>1. u \in Squares /\ LineOf(l, u) = LineOf(l, t)
          BY <2>1, <2>3
        <5> QED
          BY <2>1, <5>1, ReversedOrder
      <4>3. Reversed(s) < Reversed(u) <=> u < s
        <5>1. u \in Squares /\ LineOf(l, s) = LineOf(l, u)
          BY <2>3
        <5> QED
          BY <5>1, ReversedOrder
      <4> QED
        BY <4>1, <4>2, <4>3 DEF Squares
    <3>5. Reversed(s) < Reversed(t) <=> t < s
      BY <2>1, ReversedOrder
    <3>6. Reversed(t) \in down <=> Reversed(s) + 1 <= Reversed(t) /\ \A v \in y : Reversed(s) + 1 <= v => Reversed(t) <= v
      BY <3>1 DEF down, Flips
    <3>7. \A n \in Int : Reversed(s) + 1 <= n <=> Reversed(s) < n
      BY <3>1
    <3>8. (\A v \in y : Reversed(s) + 1 <= v => Reversed(t) <= v) <=> \A u \in x : u < s => u <= t
      <4>1. \A u \in x : (Reversed(s) + 1 <= Reversed(u) => Reversed(t) <= Reversed(u)) <=> (u < s => u <= t)
        <5> TAKE u \in x
        <5>1. Reversed(s) + 1 <= Reversed(u) <=> u < s
          BY <3>4, <3>7
        <5>2. Reversed(t) <= Reversed(u) <=> u <= t
          <6>1. Reversed(u) \in Int /\ Reversed(t) \in Int /\ u \in Int /\ t \in Int
            BY <2>1, <2>3, <3>1, <3>4 DEF Squares
          <6>2. Reversed(u) < Reversed(t) <=> t < u
            BY <3>4
          <6> QED
            BY <6>1, <6>2
        <5> QED
          BY <5>1, <5>2
      <4> QED
        BY <3>2, <3>3, <4>1
    <3> QED
      BY <3>1, <3>5, <3>6, <3>7, <3>8
  <2>6. CASE s < t
    <3>1. ~(t < s) /\ \A u \in x : ~(t < u /\ u < s)
      BY <2>1, <2>3, <2>6 DEF Squares
    <3>2. (\A u \in x : s < u => t <= u) <=> \A u \in x : ~(s < u /\ u < t)
      BY <2>1, <2>3 DEF Squares
    <3> QED
      BY <2>2, <2>4, <2>5, <2>6, <3>1, <3>2 DEF Inside
  <2>7. CASE t < s
    <3>1. ~(s < t) /\ \A u \in x : ~(s < u /\ u < t)
      BY <2>1, <2>3, <2>7 DEF Squares
    <3>2. (\A u \in x : u < s => u <= t) <=> \A u \in x : ~(t < u /\ u < s)
      BY <2>1, <2>3 DEF Squares
    <3> QED
      BY <2>2, <2>4, <2>5, <2>7, <3>1, <3>2 DEF Inside
  <2> QED
    BY <2>1, <2>6, <2>7 DEF Squares
<1>10. \A t : t \in L <=> t \in Squares /\ OnLine(l, s, t)
  BY <1>1
<1>11. \A t : t \in hq_lanes(s, occ, L) <=> t \in L /\ Clear(l, s, t, occ)
  BY <1>4, <1>8, <1>9, <1>10
<1> QED
  BY <1>10, <1>11 DEF Sees, L

\* ... and the rank, from its table.
LEMMA RankSees ==
  ASSUME NEW s \in Squares, NEW occ
  PROVE  rank_attacks(s, occ) = {t \in Squares : Sees(4, s, t, occ)}
<1> DEFINE L == line[s][4]
           inner == {t \in occ \cap L : File(t) \in 1..6}
<1>1. L = {t \in Squares : OnLine(4, s, t)}
  BY LineIs
<1>2. rank_attacks(s, occ) = {t \in L : \A u \in inner : ~ (s < u /\ u < t) /\ ~ (t < u /\ u < s)}
  BY DEF rank_attacks, RankHits
<1>3. ASSUME NEW t \in L, NEW u \in L, Inside(u, s, t) PROVE File(u) \in 1..6
  <2>1. t \in Squares /\ u \in Squares /\ Row(s) = Row(t) /\ Row(s) = Row(u)
    BY <1>1, LineOfIs DEF OnLine
  <2>2. /\ Row(s) \in 0..7 /\ File(s) \in 0..7 /\ s = 8 * Row(s) + File(s)
        /\ Row(t) \in 0..7 /\ File(t) \in 0..7 /\ t = 8 * Row(t) + File(t)
        /\ Row(u) \in 0..7 /\ File(u) \in 0..7 /\ u = 8 * Row(u) + File(u)
    BY <2>1, Coordinates
  <2> QED
    BY <1>3, <2>1, <2>2 DEF Inside
<1>4. ASSUME NEW t \in L
      PROVE  (\A u \in inner : ~ (s < u /\ u < t) /\ ~ (t < u /\ u < s)) <=> Clear(4, s, t, occ)
  BY <1>1, <1>3 DEF Clear, Inside
<1> QED
  BY <1>1, <1>2, <1>4 DEF Sees

\* The steps along a line, up to higher squares (sg = 1) or down.
StepRow(l, sg) == IF l = 4 THEN 0 ELSE sg
StepFile(l, sg) == CASE l = 1 -> sg [] l = 2 -> 0 [] l = 3 -> 0 - sg [] OTHER -> sg
At(l, sg, s, t, i) == Row(t) = Row(s) + i * StepRow(l, sg) /\ File(t) = File(s) + i * StepFile(l, sg)
Way(sg, s, t) == IF sg = 1 THEN s < t ELSE t < s

\* Every line has its step, and none stands still.
LEMMA StepIs ==
  /\ \A sg \in {1, -1} : StepRow(1, sg) = sg /\ StepFile(1, sg) = sg /\ StepRow(2, sg) = sg /\ StepFile(2, sg) = 0
                         /\ StepRow(3, sg) = sg /\ StepFile(3, sg) = 0 - sg /\ StepRow(4, sg) = 0 /\ StepFile(4, sg) = sg
  /\ \A l \in 1..4 : l = 1 \/ l = 2 \/ l = 3 \/ l = 4
  /\ \A l \in 1..4, sg \in {1, -1} : /\ StepRow(l, sg) \in {-1, 0, 1} /\ StepFile(l, sg) \in {-1, 0, 1}
                                     /\ StepRow(l, sg) # 0 \/ StepFile(l, sg) # 0
<1>1. \A l \in 1..4 : l = 1 \/ l = 2 \/ l = 3 \/ l = 4
  OBVIOUS
<1>2. \A sg \in {1, -1} : StepRow(1, sg) = sg /\ StepFile(1, sg) = sg /\ StepRow(2, sg) = sg /\ StepFile(2, sg) = 0
                         /\ StepRow(3, sg) = sg /\ StepFile(3, sg) = 0 - sg /\ StepRow(4, sg) = 0 /\ StepFile(4, sg) = sg
  BY DEF StepRow, StepFile
<1>3. \A sg \in {1, -1} : sg \in {-1, 0, 1} /\ 0 - sg \in {-1, 0, 1} /\ sg # 0
  OBVIOUS
<1> QED
  BY <1>1, <1>2, <1>3

\* A product by a step.
LEMMA TimesStep ==
  ASSUME NEW i \in Int
  PROVE  i * 1 = i /\ i * (-1) = -i /\ i * 0 = 0
OBVIOUS

\* The steps from a square to another one.
Ahead(sg, n, i) == IF sg = 1 THEN n + i ELSE n - i
Aback(sg, n, i) == IF sg = 1 THEN n - i ELSE n + i
\* The square a number of steps away, by its row and file.
LEMMA AtIs ==
  ASSUME NEW sg \in {1, -1}, NEW s \in Squares, NEW t \in Squares, NEW i \in Int
  PROVE  /\ At(1, sg, s, t, i) <=> Row(t) = Ahead(sg, Row(s), i) /\ File(t) = Ahead(sg, File(s), i)
         /\ At(2, sg, s, t, i) <=> Row(t) = Ahead(sg, Row(s), i) /\ File(t) = File(s)
         /\ At(3, sg, s, t, i) <=> Row(t) = Ahead(sg, Row(s), i) /\ File(t) = Aback(sg, File(s), i)
         /\ At(4, sg, s, t, i) <=> Row(t) = Row(s) /\ File(t) = Ahead(sg, File(s), i)
<1>1. /\ Row(s) \in Int /\ File(s) \in Int /\ i * sg \in Int /\ i * 0 = 0
      /\ i * sg = (IF sg = 1 THEN i ELSE -i) /\ i * (0 - sg) = (IF sg = 1 THEN -i ELSE i)
  <2>1. Row(s) \in 0..7 /\ File(s) \in 0..7
    BY Coordinates
  <2>2. i * 1 = i /\ i * (-1) = -i /\ i * 0 = 0
    BY TimesStep
  <2>3. sg = 1 \/ (sg = -1 /\ 0 - sg = 1)
    OBVIOUS
  <2> QED
    BY <2>1, <2>2, <2>3
<1>2. /\ Row(s) + i * sg = Ahead(sg, Row(s), i) /\ File(s) + i * sg = Ahead(sg, File(s), i)
      /\ File(s) + i * (0 - sg) = Aback(sg, File(s), i) /\ Row(s) + i * 0 = Row(s) /\ File(s) + i * 0 = File(s)
  BY <1>1 DEF Ahead, Aback
<1>3. \A l \in 1..4 : At(l, sg, s, t, i) <=> Row(t) = Row(s) + i * StepRow(l, sg) /\ File(t) = File(s) + i * StepFile(l, sg)
  BY DEF At
<1>4. /\ StepRow(1, sg) = sg /\ StepFile(1, sg) = sg /\ StepRow(2, sg) = sg /\ StepFile(2, sg) = 0
      /\ StepRow(3, sg) = sg /\ StepFile(3, sg) = 0 - sg /\ StepRow(4, sg) = 0 /\ StepFile(4, sg) = sg
  BY StepIs
<1>5. 1 \in 1..4 /\ 2 \in 1..4 /\ 3 \in 1..4 /\ 4 \in 1..4
  OBVIOUS
<1> QED
  BY <1>2, <1>3, <1>4, <1>5

\* What lies on the line in a direction is a number of steps away.
LEMMA Stepwise ==
  ASSUME NEW l \in 1..4, NEW sg \in {1, -1}, NEW s \in Squares, NEW t \in Squares
  PROVE  /\ OnLine(l, s, t) /\ Way(sg, s, t) => \E i \in 1..7 : At(l, sg, s, t, i)
         /\ \A i \in 1..7 : At(l, sg, s, t, i) => OnLine(l, s, t) /\ Way(sg, s, t)
<1>1. /\ Row(s) \in 0..7 /\ File(s) \in 0..7 /\ s = 8 * Row(s) + File(s)
      /\ Row(t) \in 0..7 /\ File(t) \in 0..7 /\ t = 8 * Row(t) + File(t)
  BY Coordinates
<1> DEFINE dr == IF sg = 1 THEN Row(t) - Row(s) ELSE Row(s) - Row(t)
           df == IF sg = 1 THEN File(t) - File(s) ELSE File(s) - File(t)
<1>2. dr \in Int /\ df \in Int
  <2>1. \A x, y \in 0..7 : x - y \in Int
    OBVIOUS
  <2> QED
    BY <1>1, <2>1
<1>3. OnLine(l, s, t) <=> s # t /\ LineOf(l, s) = LineOf(l, t)
  BY DEF OnLine
<1>5. CASE l = 1
  <2>1. LineOf(l, s) = Row(s) - File(s) /\ LineOf(l, t) = Row(t) - File(t)
    BY <1>5, LineOfIs
  <2>2. \A i \in Int : At(l, sg, s, t, i) <=> Row(t) = Ahead(sg, Row(s), i) /\ File(t) = Ahead(sg, File(s), i)
    BY <1>5, AtIs
  <2>3. ASSUME OnLine(l, s, t), Way(sg, s, t) PROVE dr \in 1..7 /\ At(l, sg, s, t, dr)
    <3>1. dr \in 1..7
      BY <1>1, <1>3, <2>1, <2>3 DEF Way
    <3>2. Row(t) = Ahead(sg, Row(s), dr) /\ File(t) = Ahead(sg, File(s), dr)
      BY <1>1, <1>3, <2>1, <2>3 DEF Way, Ahead, Aback
    <3> QED
      BY <1>2, <2>2, <3>1, <3>2
  <2>4. ASSUME NEW i \in 1..7, At(l, sg, s, t, i) PROVE OnLine(l, s, t) /\ Way(sg, s, t)
    <3>1. Row(t) = Ahead(sg, Row(s), i) /\ File(t) = Ahead(sg, File(s), i)
      BY <2>2, <2>4
    <3>5. s \in Int /\ t \in Int
      BY Coordinates
    <3>2. CASE sg = 1
      <4>1. Row(t) = Row(s) + i /\ File(t) = File(s) + i
        BY <3>1, <3>2 DEF Ahead, Aback
      <4>2. s < t /\ LineOf(l, s) = LineOf(l, t)
        <5> DEFINE a == Row(s)
                   b == File(s)
                   c == Row(t)
                   d == File(t)
        <5>0. a \in 0..7 /\ b \in 0..7 /\ c \in 0..7 /\ d \in 0..7 /\ c = a + i /\ d = b + i
          BY <1>1, <4>1
        <5> HIDE DEF a, b, c, d
        <5>1. 8 * a + b < 8 * c + d /\ a - b = c - d
          BY <5>0
        <5> QED
          BY <1>1, <2>1, <5>1 DEF a, b, c, d
      <4> QED
        BY <1>3, <3>2, <3>5, <4>2 DEF Way
    <3>3. CASE sg = -1
      <4>1. Row(t) = Row(s) - i /\ File(t) = File(s) - i
        BY <3>1, <3>3 DEF Ahead, Aback
      <4>2. t < s /\ LineOf(l, s) = LineOf(l, t)
        <5> DEFINE a == Row(s)
                   b == File(s)
                   c == Row(t)
                   d == File(t)
        <5>0. a \in 0..7 /\ b \in 0..7 /\ c \in 0..7 /\ d \in 0..7 /\ c = a - i /\ d = b - i
          BY <1>1, <4>1
        <5> HIDE DEF a, b, c, d
        <5>1. 8 * c + d < 8 * a + b /\ a - b = c - d
          BY <5>0
        <5> QED
          BY <1>1, <2>1, <5>1 DEF a, b, c, d
      <4> QED
        BY <1>3, <3>3, <3>5, <4>2 DEF Way
    <3> QED
      BY <3>2, <3>3
  <2> QED
    BY <2>3, <2>4
<1>6. CASE l = 2
  <2>1. LineOf(l, s) = File(s) /\ LineOf(l, t) = File(t)
    BY <1>6, LineOfIs
  <2>2. \A i \in Int : At(l, sg, s, t, i) <=> Row(t) = Ahead(sg, Row(s), i) /\ File(t) = File(s)
    BY <1>6, AtIs
  <2>3. ASSUME OnLine(l, s, t), Way(sg, s, t) PROVE dr \in 1..7 /\ At(l, sg, s, t, dr)
    <3>1. dr \in 1..7
      BY <1>1, <1>3, <2>1, <2>3 DEF Way
    <3>2. Row(t) = Ahead(sg, Row(s), dr) /\ File(t) = File(s)
      BY <1>1, <1>3, <2>1, <2>3 DEF Way, Ahead, Aback
    <3> QED
      BY <1>2, <2>2, <3>1, <3>2
  <2>4. ASSUME NEW i \in 1..7, At(l, sg, s, t, i) PROVE OnLine(l, s, t) /\ Way(sg, s, t)
    BY <1>1, <1>3, <2>1, <2>2, <2>4 DEF Way, Ahead, Aback
  <2> QED
    BY <2>3, <2>4
<1>7. CASE l = 3
  <2>1. LineOf(l, s) = Row(s) + File(s) /\ LineOf(l, t) = Row(t) + File(t)
    BY <1>7, LineOfIs
  <2>2. \A i \in Int : At(l, sg, s, t, i) <=> Row(t) = Ahead(sg, Row(s), i) /\ File(t) = Aback(sg, File(s), i)
    BY <1>7, AtIs
  <2>3. ASSUME OnLine(l, s, t), Way(sg, s, t) PROVE dr \in 1..7 /\ At(l, sg, s, t, dr)
    <3>1. dr \in 1..7
      BY <1>1, <1>3, <2>1, <2>3 DEF Way
    <3>2. Row(t) = Ahead(sg, Row(s), dr) /\ File(t) = Aback(sg, File(s), dr)
      BY <1>1, <1>3, <2>1, <2>3 DEF Way, Ahead, Aback
    <3> QED
      BY <1>2, <2>2, <3>1, <3>2
  <2>4. ASSUME NEW i \in 1..7, At(l, sg, s, t, i) PROVE OnLine(l, s, t) /\ Way(sg, s, t)
    <3>1. Row(t) = Ahead(sg, Row(s), i) /\ File(t) = Aback(sg, File(s), i)
      BY <2>2, <2>4
    <3>5. s \in Int /\ t \in Int
      BY Coordinates
    <3>2. CASE sg = 1
      <4>1. Row(t) = Row(s) + i /\ File(t) = File(s) - i
        BY <3>1, <3>2 DEF Ahead, Aback
      <4>2. s < t /\ LineOf(l, s) = LineOf(l, t)
        <5> DEFINE a == Row(s)
                   b == File(s)
                   c == Row(t)
                   d == File(t)
        <5>0. a \in 0..7 /\ b \in 0..7 /\ c \in 0..7 /\ d \in 0..7 /\ c = a + i /\ d = b - i
          BY <1>1, <4>1
        <5> HIDE DEF a, b, c, d
        <5>1. 8 * a + b < 8 * c + d /\ a + b = c + d
          BY <5>0
        <5> QED
          BY <1>1, <2>1, <5>1 DEF a, b, c, d
      <4> QED
        BY <1>3, <3>2, <3>5, <4>2 DEF Way
    <3>3. CASE sg = -1
      <4>1. Row(t) = Row(s) - i /\ File(t) = File(s) + i
        BY <3>1, <3>3 DEF Ahead, Aback
      <4>2. t < s /\ LineOf(l, s) = LineOf(l, t)
        <5> DEFINE a == Row(s)
                   b == File(s)
                   c == Row(t)
                   d == File(t)
        <5>0. a \in 0..7 /\ b \in 0..7 /\ c \in 0..7 /\ d \in 0..7 /\ c = a - i /\ d = b + i
          BY <1>1, <4>1
        <5> HIDE DEF a, b, c, d
        <5>1. 8 * c + d < 8 * a + b /\ a + b = c + d
          BY <5>0
        <5> QED
          BY <1>1, <2>1, <5>1 DEF a, b, c, d
      <4> QED
        BY <1>3, <3>3, <3>5, <4>2 DEF Way
    <3> QED
      BY <3>2, <3>3
  <2> QED
    BY <2>3, <2>4
<1>8. CASE l = 4
  <2>1. LineOf(l, s) = Row(s) /\ LineOf(l, t) = Row(t)
    BY <1>8, LineOfIs
  <2>2. \A i \in Int : At(l, sg, s, t, i) <=> Row(t) = Row(s) /\ File(t) = Ahead(sg, File(s), i)
    BY <1>8, AtIs
  <2>3. ASSUME OnLine(l, s, t), Way(sg, s, t) PROVE df \in 1..7 /\ At(l, sg, s, t, df)
    <3>1. df \in 1..7
      BY <1>1, <1>3, <2>1, <2>3 DEF Way
    <3>2. Row(t) = Row(s) /\ File(t) = Ahead(sg, File(s), df)
      BY <1>1, <1>3, <2>1, <2>3 DEF Way, Ahead, Aback
    <3> QED
      BY <1>2, <2>2, <3>1, <3>2
  <2>4. ASSUME NEW i \in 1..7, At(l, sg, s, t, i) PROVE OnLine(l, s, t) /\ Way(sg, s, t)
    BY <1>1, <1>3, <2>1, <2>2, <2>4 DEF Way, Ahead, Aback
  <2> QED
    BY <2>3, <2>4
<1> QED
  BY <1>5, <1>6, <1>7, <1>8, StepIs

\* Fewer steps lead to what lies between.
LEMMA StepsBetween ==
  ASSUME NEW l \in 1..4, NEW sg \in {1, -1}, NEW s \in Squares, NEW t \in Squares, NEW u \in Squares,
         NEW i \in 1..7, NEW h \in 1..7, At(l, sg, s, t, i), At(l, sg, s, u, h)
  PROVE  Inside(u, s, t) <=> h < i
<1>1. /\ Row(s) \in 0..7 /\ File(s) \in 0..7 /\ s = 8 * Row(s) + File(s)
      /\ Row(t) \in 0..7 /\ File(t) \in 0..7 /\ t = 8 * Row(t) + File(t)
      /\ Row(u) \in 0..7 /\ File(u) \in 0..7 /\ u = 8 * Row(u) + File(u)
  BY Coordinates
<1>3. CASE l = 1
  <2>1. Row(t) = Ahead(sg, Row(s), i) /\ File(t) = Ahead(sg, File(s), i) /\ Row(u) = Ahead(sg, Row(s), h) /\ File(u) = Ahead(sg, File(s), h)
    BY <1>3, AtIs
  <2> QED
    BY <1>1, <2>1 DEF Inside, Ahead, Aback
<1>4. CASE l = 2
  <2>1. Row(t) = Ahead(sg, Row(s), i) /\ File(t) = File(s) /\ Row(u) = Ahead(sg, Row(s), h) /\ File(u) = File(s)
    BY <1>4, AtIs
  <2> QED
    BY <1>1, <2>1 DEF Inside, Ahead, Aback
<1>5. CASE l = 3
  <2>1. Row(t) = Ahead(sg, Row(s), i) /\ File(t) = Aback(sg, File(s), i) /\ Row(u) = Ahead(sg, Row(s), h) /\ File(u) = Aback(sg, File(s), h)
    BY <1>5, AtIs
  <2> QED
    BY <1>1, <2>1 DEF Inside, Ahead, Aback
<1>6. CASE l = 4
  <2>1. Row(t) = Row(s) /\ File(t) = Ahead(sg, File(s), i) /\ Row(u) = Row(s) /\ File(u) = Ahead(sg, File(s), h)
    BY <1>6, AtIs
  <2> QED
    BY <1>1, <2>1 DEF Inside, Ahead, Aback
<1> QED
  BY <1>3, <1>4, <1>5, <1>6, StepIs

\* The squares of a ray: the first step that leaves the board ends it.
LEMMA StepsEnd ==
  ASSUME NEW T, 8 \notin T
  PROVE  \E k \in 0..7 : (\A i \in 1..k : i \in T) /\ k + 1 \notin T
<1>1. CASE 1 \notin T
  BY <1>1
<1>2. CASE 1 \in T /\ 2 \notin T
  <2>1. \A i \in 1..1 : i \in T
    BY <1>2
  <2> QED
    BY <1>2, <2>1
<1>3. CASE {1, 2} \subseteq T /\ 3 \notin T
  <2>1. \A i \in 1..2 : i \in T
    BY <1>3
  <2> QED
    BY <1>3, <2>1
<1>4. CASE {1, 2, 3} \subseteq T /\ 4 \notin T
  <2>1. \A i \in 1..3 : i \in T
    BY <1>4
  <2> QED
    BY <1>4, <2>1
<1>5. CASE {1, 2, 3, 4} \subseteq T /\ 5 \notin T
  <2>1. \A i \in 1..4 : i \in T
    BY <1>5
  <2> QED
    BY <1>5, <2>1
<1>6. CASE {1, 2, 3, 4, 5} \subseteq T /\ 6 \notin T
  <2>1. \A i \in 1..5 : i \in T
    BY <1>6
  <2> QED
    BY <1>6, <2>1
<1>7. CASE {1, 2, 3, 4, 5, 6} \subseteq T /\ 7 \notin T
  <2>1. \A i \in 1..6 : i \in T
    BY <1>7
  <2> QED
    BY <1>7, <2>1
<1>8. CASE {1, 2, 3, 4, 5, 6, 7} \subseteq T
  <2>1. \A i \in 1..7 : i \in T
    BY <1>8
  <2> QED
    BY <2>1
<1> QED
  BY <1>1, <1>2, <1>3, <1>4, <1>5, <1>6, <1>7, <1>8

\* A ray has the squares a number of steps away, as many as there are.
LEMMA RayIs ==
  ASSUME NEW l \in 1..4, NEW sg \in {1, -1}, NEW s \in Squares
  PROVE  LET r == RayFrom(s, StepRow(l, sg), StepFile(l, sg))
         IN  \E n \in 0..7 : /\ DOMAIN r = 1..n /\ Len(r) = n
                             /\ \A i \in 1..n : r[i] \in Squares /\ At(l, sg, s, r[i], i)
                             /\ \A t \in Squares, i \in 1..7 : At(l, sg, s, t, i) => i \in 1..n /\ r[i] = t
<1> DEFINE dr == StepRow(l, sg)
           df == StepFile(l, sg)
           OnBoard(j) == Row(s) + j * dr \in 0..7 /\ File(s) + j * df \in 0..7
           T == {j \in 1..8 : OnBoard(j)}
           P(k) == /\ \A j \in 1..k : Row(s) + j * dr \in 0..7 /\ File(s) + j * df \in 0..7
                   /\ ~ (Row(s) + (k + 1) * dr \in 0..7 /\ File(s) + (k + 1) * df \in 0..7)
           n == CHOOSE k \in 0..7 : P(k)
           r == RayFrom(s, dr, df)
<1>1. Row(s) \in 0..7 /\ File(s) \in 0..7
  BY Coordinates
<1>2. dr \in {-1, 0, 1} /\ df \in {-1, 0, 1} /\ (dr # 0 \/ df # 0)
  BY StepIs
<1> HIDE DEF dr, df
<1>3. 8 \notin T
  <2>1. ASSUME NEW x \in 0..7, NEW d \in {-1, 0, 1}, d # 0 PROVE x + 8 * d \notin 0..7
    <3>1. d = -1 \/ d = 1
      BY <2>1
    <3> QED
      BY <3>1
  <2>2. dr # 0 => Row(s) + 8 * dr \notin 0..7
    BY <1>1, <1>2, <2>1
  <2>3. df # 0 => File(s) + 8 * df \notin 0..7
    BY <1>1, <1>2, <2>1
  <2> QED
    BY <1>2, <2>2, <2>3
<1>4. PICK k \in 0..7 : (\A j \in 1..k : j \in T) /\ k + 1 \notin T
  <2> HIDE DEF T
  <2> QED
    BY <1>3, StepsEnd
<1>5. P(k)
  <2>1. k + 1 \in 1..8
    OBVIOUS
  <2>2. \A j \in 1..k : j \in 1..8
    OBVIOUS
  <2> QED
    BY <1>4, <2>1, <2>2
<1>6. n \in 0..7 /\ P(n)
  <2> HIDE DEF P
  <2> QED
    BY <1>5
<1>7. r = [j \in 1..n |-> (Row(s) + j * dr) * 8 + File(s) + j * df]
  BY DEF RayFrom
<1> HIDE DEF n
<1>8. DOMAIN r = 1..n /\ Len(r) = n
  BY <1>6, <1>7
<1>9. \A j \in 1..n : OnBoard(j)
  BY <1>6
<1>10. ~OnBoard(n + 1)
  BY <1>6
<1>11. \A j \in 1..7 : j * dr \in Int /\ j * df \in Int
  BY <1>2
<1>12. ASSUME NEW i \in 1..n PROVE r[i] \in Squares /\ At(l, sg, s, r[i], i)
  <2>1. i \in 1..7
    BY <1>6
  <2> DEFINE x == Row(s) + i * dr
             y == File(s) + i * df
  <2>2. x \in 0..7 /\ y \in 0..7
    BY <1>9
  <2>3. r[i] = x * 8 + File(s) + i * df
    BY <1>7
  <2>4. \A a, b, c \in Int : a * 8 + b + c = 8 * a + (b + c)
    OBVIOUS
  <2>5. r[i] = 8 * x + y
    <3>1. x \in Int /\ File(s) \in Int /\ i * df \in Int
      BY <1>1, <1>11, <2>1, <2>2
    <3> HIDE DEF x
    <3> QED
      BY <2>3, <2>4, <3>1
  <2> HIDE DEF x, y
  <2>6. r[i] \in Squares /\ Row(r[i]) = x /\ File(r[i]) = y
    BY <2>2, <2>5, Coordinates
  <2> QED
    BY <2>6 DEF x, y, At, dr, df
<1>13. ASSUME NEW t \in Squares, NEW i \in 1..7, At(l, sg, s, t, i) PROVE i \in 1..n /\ r[i] = t
  <2>1. Row(t) = Row(s) + i * dr /\ File(t) = File(s) + i * df
    BY <1>13 DEF At, dr, df
  <2>2. OnBoard(i) /\ Row(t) \in 0..7 /\ File(t) \in 0..7 /\ t = 8 * Row(t) + File(t)
    BY <2>1, Coordinates
  <2>3. ASSUME NEW x \in 0..7, NEW d \in {-1, 0, 1}, x + i * d \in 0..7, NEW j \in 1..i PROVE x + j * d \in 0..7
    <3>1. CASE d = 0
      BY <3>1
    <3>2. CASE d = 1
      BY <2>3, <3>2
    <3>3. CASE d = -1
      BY <2>3, <3>3
    <3> QED
      BY <3>1, <3>2, <3>3
  <2>4. \A j \in 1..i : OnBoard(j)
    BY <1>1, <1>2, <2>2, <2>3
  <2>5. i <= n
    <3>1. ASSUME n < i PROVE n + 1 \in 1..i
      BY <1>6, <3>1
    <3>2. ~(n < i)
      <4> HIDE DEF OnBoard
      <4> QED
        BY <1>10, <2>4, <3>1
    <3> QED
      BY <1>6, <3>2
  <2>6. r[i] = (Row(s) + i * dr) * 8 + File(s) + i * df
    BY <1>7, <1>6, <2>5
  <2>7. r[i] = t
    <3>1. i * df \in Int
      BY <1>11
    <3>2. r[i] = Row(t) * 8 + File(s) + i * df
      BY <2>1, <2>6
    <3>3. \A a, b, c \in Int : a * 8 + b + c = 8 * a + (b + c)
      OBVIOUS
    <3>4. Row(t) \in Int /\ File(s) \in Int
      BY <1>1, <2>2
    <3>5. Row(t) * 8 + File(s) + i * df = 8 * Row(t) + (File(s) + i * df)
      BY <3>1, <3>3, <3>4
    <3> QED
      BY <2>1, <2>2, <3>2, <3>5
  <2> QED
    BY <1>6, <2>5, <2>7
<1>14. /\ \A i \in 1..n : r[i] \in Squares /\ At(l, sg, s, r[i], i)
       /\ \A t \in Squares, i \in 1..7 : At(l, sg, s, t, i) => i \in 1..n /\ r[i] = t
  <2> HIDE DEF r
  <2> QED
    BY <1>12, <1>13
<1> QED
  BY <1>6, <1>8, <1>14 DEF dr, df

\* What a ray hits: its squares up to the first one blocked.
Hits(r, block) == {r[i] : i \in {j \in DOMAIN r : \A h \in 1..(j - 1) : r[h] \notin block}}
Ray(l, sg, s) == RayFrom(s, StepRow(l, sg), StepFile(l, sg))
RaysOn(lines, s) == {Ray(l, sg, s) : l \in lines, sg \in {1, -1}}
SeenBy(l, s, occ) == {t \in Squares : Sees(l, s, t, occ)}
SeenOn(l, sg, s, occ) == {t \in SeenBy(l, s, occ) : Way(sg, s, t)}

\* A ray hits what its line sees that way, if all its squares but the last one count.
LEMMA RaySees ==
  ASSUME NEW l \in 1..4, NEW sg \in {1, -1}, NEW s \in Squares, NEW occ, NEW inner,
         \A i \in 1..(Len(Ray(l, sg, s)) - 1) : Ray(l, sg, s)[i] \in inner
  PROVE  Hits(Ray(l, sg, s), occ \cap inner) = SeenOn(l, sg, s, occ)
<1> DEFINE r == Ray(l, sg, s)
<1>0. \A i \in 1..(Len(r) - 1) : r[i] \in inner
  OBVIOUS
<1>1. PICK n \in 0..7 : /\ DOMAIN r = 1..n /\ Len(r) = n
                        /\ \A i \in 1..n : r[i] \in Squares /\ At(l, sg, s, r[i], i)
                        /\ \A t \in Squares, i \in 1..7 : At(l, sg, s, t, i) => i \in 1..n /\ r[i] = t
  BY RayIs DEF Ray
<1> HIDE DEF r
<1> DEFINE Open(j) == \A h \in 1..(j - 1) : r[h] \notin occ \cap inner
<1>2. ASSUME NEW i \in 1..n PROVE Open(i) <=> Clear(l, s, r[i], occ)
  <2>1. i \in 1..7 /\ r[i] \in Squares /\ At(l, sg, s, r[i], i)
    BY <1>1
  <2>2. OnLine(l, s, r[i]) /\ Way(sg, s, r[i])
    BY <2>1, Stepwise
  <2>3. ASSUME NEW h \in 1..(i - 1)
        PROVE  h \in 1..n /\ h \in 1..7 /\ r[h] \in Squares /\ r[h] \in inner /\ OnLine(l, s, r[h]) /\ Inside(r[h], s, r[i])
    <3>1. h \in 1..n /\ h \in 1..7 /\ h \in 1..(Len(r) - 1) /\ h < i
      BY <1>1, <2>1
    <3>5. r[h] \in inner
      BY <1>0, <3>1
    <3>2. r[h] \in Squares /\ At(l, sg, s, r[h], h)
      BY <1>1, <3>1
    <3>3. OnLine(l, s, r[h])
      BY <3>1, <3>2, Stepwise
    <3>4. Inside(r[h], s, r[i])
      BY <2>1, <3>1, <3>2, StepsBetween
    <3> QED
      BY <3>1, <3>2, <3>3, <3>4, <3>5
  <2>4. ASSUME NEW u \in Squares, OnLine(l, s, u), Inside(u, s, r[i]) PROVE \E h \in 1..(i - 1) : u = r[h]
    <3>1. Way(sg, s, u)
      <4>1. u \in Int /\ s \in Int /\ r[i] \in Int /\ Inside(u, s, r[i]) /\ Way(sg, s, r[i])
        BY <2>1, <2>2, <2>4, Coordinates
      <4> DEFINE x == r[i]
      <4> HIDE DEF x
      <4>2. u \in Int /\ s \in Int /\ x \in Int /\ Inside(u, s, x) /\ Way(sg, s, x)
        BY <4>1 DEF x
      <4> QED
        BY <4>2 DEF Way, Inside
    <3>2. PICK h \in 1..7 : At(l, sg, s, u, h)
      BY <2>4, <3>1, Stepwise
    <3>3. h \in 1..n /\ r[h] = u
      BY <1>1, <3>2
    <3>4. h < i
      BY <2>1, <2>4, <3>2, StepsBetween
    <3> QED
      BY <3>2, <3>3, <3>4
  <2> QED
    BY <2>3, <2>4 DEF Clear
<1>3. ASSUME NEW t \in Hits(r, occ \cap inner) PROVE t \in Squares /\ Sees(l, s, t, occ) /\ Way(sg, s, t)
  <2>1. PICK i \in 1..n : t = r[i] /\ Open(i)
    BY <1>1 DEF Hits
  <2>2. i \in 1..7 /\ t \in Squares /\ At(l, sg, s, t, i) /\ Clear(l, s, t, occ)
    BY <1>1, <1>2, <2>1
  <2>3. OnLine(l, s, t) /\ Way(sg, s, t)
    BY <2>2, Stepwise
  <2> QED
    BY <2>2, <2>3 DEF Sees
<1>4. ASSUME NEW t \in Squares, Sees(l, s, t, occ), Way(sg, s, t) PROVE t \in Hits(r, occ \cap inner)
  <2>1. OnLine(l, s, t) /\ Clear(l, s, t, occ)
    BY <1>4 DEF Sees
  <2>2. PICK i \in 1..7 : At(l, sg, s, t, i)
    BY <1>4, <2>1, Stepwise
  <2>3. i \in 1..n /\ r[i] = t
    BY <1>1, <2>2
  <2>4. Open(i)
    BY <1>2, <2>1, <2>3
  <2> QED
    BY <1>1, <2>3, <2>4 DEF Hits
<1>5. \A t : t \in SeenOn(l, sg, s, occ) <=> t \in Squares /\ Sees(l, s, t, occ) /\ Way(sg, s, t)
  BY DEF SeenOn, SeenBy
<1>6. Hits(r, occ \cap inner) = SeenOn(l, sg, s, occ)
  BY <1>3, <1>4, <1>5
<1> QED
  BY <1>6 DEF r

\* The lines that the rays of the tables see (init_sliders_attacks, the tables of magic.cpp).
LEMMA RaysSee ==
  ASSUME NEW s \in Squares, NEW occ, NEW lines, lines \in SUBSET (1..4), NEW t
  PROVE  t \in table_attacks(RaysOn(lines, s), occ) <=> \E l \in lines : Sees(l, s, t, occ)
<1> DEFINE rays == RaysOn(lines, s)
           inner == Inner(rays)
           H(r) == Hits(r, occ \cap inner)
<1>1. \A r \in rays : \A i \in 1..(Len(r) - 1) : r[i] \in inner
  BY DEF Inner
<1>2. table_attacks(rays, occ) = UNION {H(r) : r \in rays}
  BY DEF table_attacks, OnTheFly, Hits
<1>3. /\ \A l \in lines, sg \in {1, -1} : Ray(l, sg, s) \in rays
      /\ \A r \in rays : \E l \in lines, sg \in {1, -1} : r = Ray(l, sg, s)
  BY DEF RaysOn
<1> HIDE DEF inner, rays
<1>4. ASSUME NEW l \in lines, NEW sg \in {1, -1} PROVE H(Ray(l, sg, s)) = SeenOn(l, sg, s, occ)
  <2>1. l \in 1..4 /\ \A i \in 1..(Len(Ray(l, sg, s)) - 1) : Ray(l, sg, s)[i] \in inner
    BY <1>1, <1>3
  <2>2. \A ii : (\A i \in 1..(Len(Ray(l, sg, s)) - 1) : Ray(l, sg, s)[i] \in ii)
               => Hits(Ray(l, sg, s), occ \cap ii) = SeenOn(l, sg, s, occ)
    BY <2>1, RaySees
  <2> QED
    BY <2>1, <2>2
<1> HIDE DEF H
<1>5. t \in table_attacks(rays, occ) <=> \E l \in lines, sg \in {1, -1} : t \in SeenOn(l, sg, s, occ)
  <2>1. t \in table_attacks(rays, occ) <=> \E r \in rays : t \in H(r)
    BY <1>2
  <2> QED
    BY <1>3, <1>4, <2>1
<1>6. \A l \in lines, sg \in {1, -1} : t \in SeenOn(l, sg, s, occ) <=> Sees(l, s, t, occ) /\ Way(sg, s, t)
  BY DEF SeenOn, SeenBy, Sees
<1>7. \A l \in lines : Sees(l, s, t, occ) => \E sg \in {1, -1} : Way(sg, s, t)
  <2> SUFFICES ASSUME NEW l \in lines, Sees(l, s, t, occ) PROVE \E sg \in {1, -1} : Way(sg, s, t)
    OBVIOUS
  <2>1. t \in Int /\ s \in Int /\ s # t
    BY Coordinates DEF Sees, OnLine
  <2>2. Way(1, s, t) <=> s < t
    BY DEF Way
  <2>3. Way(-1, s, t) <=> t < s
    BY DEF Way
  <2>4. s < t \/ t < s
    BY <2>1
  <2> QED
    BY <2>2, <2>3, <2>4
<1> QED
  BY <1>5, <1>6, <1>7 DEF rays

\* Each kernel sees along the lines of the slider (1 the bishop, 2 the rook) up to the first man.
LEMMA KernelsSee ==
  ASSUME NEW s \in Squares, NEW occ, NEW i \in {1, 2}, NEW t
  PROVE  /\ t \in pair_od(s, occ)[i] <=> \E l \in {i, i + 2} : Sees(l, s, t, occ)
         /\ t \in pair_hqs(s, occ)[i] <=> \E l \in {i, i + 2} : Sees(l, s, t, occ)
         /\ t \in pair_tables(s, occ)[i] <=> \E l \in {i, i + 2} : Sees(l, s, t, occ)
<1>1. {i, i + 2} \subseteq 1..4
  OBVIOUS
<1>2. \A l : Sees(l, s, t, occ) => t \in Squares
  BY DEF Sees
<1>3. pair_od(s, occ)[i] = UNION {line_attacks(s, occ, line[s][l]) : l \in {i, i + 2}}
  BY DEF pair_od
<1>4. t \in pair_od(s, occ)[i] <=> \E l \in {i, i + 2} : Sees(l, s, t, occ)
  <2>1. t \in pair_od(s, occ)[i] <=> \E l \in {i, i + 2} : t \in line_attacks(s, occ, line[s][l])
    BY <1>3
  <2>2. \A l \in {i, i + 2} : t \in line_attacks(s, occ, line[s][l]) <=> Sees(l, s, t, occ)
    BY <1>1, <1>2, OdSees
  <2> QED
    BY <2>1, <2>2
<1>5. t \in pair_hqs(s, occ)[i] <=> \E l \in {i, i + 2} : Sees(l, s, t, occ)
  <2> DEFINE Lane(l) == IF l = 4 THEN rank_attacks(s, occ) ELSE hq_lanes(s, occ, line[s][l])
  <2>1. pair_hqs(s, occ)[i] = UNION {Lane(l) : l \in {i, i + 2}}
    BY DEF pair_hqs
  <2>2. \A l \in 1..4 : t \in Lane(l) <=> Sees(l, s, t, occ)
    <3> TAKE l \in 1..4
    <3>1. CASE l = 4
      BY <1>2, <3>1, RankSees
    <3>2. CASE l # 4
      <4>1. l \in 1..3
        BY <3>2
      <4> QED
        BY <1>2, <3>2, <4>1, HqSees
    <3> QED
      BY <3>1, <3>2
  <2> HIDE DEF Lane
  <2>3. t \in pair_hqs(s, occ)[i] <=> \E l \in {i, i + 2} : t \in Lane(l)
    BY <2>1
  <2> QED
    BY <1>1, <2>2, <2>3
<1>6. t \in pair_tables(s, occ)[i] <=> \E l \in {i, i + 2} : Sees(l, s, t, occ)
  <2>1. bishop_rays[s] = RaysOn({1, 3}, s) /\ rook_rays[s] = RaysOn({2, 4}, s)
    <3>1. bishop_rays[s] = RaysFrom(s, Oblique) /\ rook_rays[s] = RaysFrom(s, Straight)
      BY LeapersAssumption DEF init_bishop_rays, init_rook_rays
    <3>2. /\ Ray(1, 1, s) = RayFrom(s, 1, 1) /\ Ray(1, -1, s) = RayFrom(s, -1, -1)
          /\ Ray(2, 1, s) = RayFrom(s, 1, 0) /\ Ray(2, -1, s) = RayFrom(s, -1, 0)
          /\ Ray(3, 1, s) = RayFrom(s, 1, -1) /\ Ray(3, -1, s) = RayFrom(s, -1, 1)
          /\ Ray(4, 1, s) = RayFrom(s, 0, 1) /\ Ray(4, -1, s) = RayFrom(s, 0, -1)
      BY DEF Ray, StepRow, StepFile
    <3>3. RaysFrom(s, Oblique) = {RayFrom(s, 1, 1), RayFrom(s, -1, 1), RayFrom(s, 1, -1), RayFrom(s, -1, -1)}
      BY DEF RaysFrom, Oblique
    <3>4. RaysFrom(s, Straight) = {RayFrom(s, 1, 0), RayFrom(s, -1, 0), RayFrom(s, 0, 1), RayFrom(s, 0, -1)}
      BY DEF RaysFrom, Straight
    <3>5. \A a, b : RaysOn({a, b}, s) = {Ray(a, 1, s), Ray(a, -1, s), Ray(b, 1, s), Ray(b, -1, s)}
      BY DEF RaysOn
    <3>6. RaysOn({1, 3}, s) = {Ray(1, 1, s), Ray(1, -1, s), Ray(3, 1, s), Ray(3, -1, s)}
      BY <3>5
    <3>7. RaysOn({2, 4}, s) = {Ray(2, 1, s), Ray(2, -1, s), Ray(4, 1, s), Ray(4, -1, s)}
      BY <3>5
    <3>8. RaysOn({1, 3}, s) = RaysFrom(s, Oblique)
      BY <3>2, <3>3, <3>6
    <3>9. RaysOn({2, 4}, s) = RaysFrom(s, Straight)
      BY <3>2, <3>4, <3>7
    <3> QED
      BY <3>1, <3>8, <3>9
  <2>2. {1, 3} \in SUBSET (1..4) /\ {2, 4} \in SUBSET (1..4)
    OBVIOUS
  <2>3. CASE i = 1
    <3>1. pair_tables(s, occ)[i] = table_attacks(RaysOn({1, 3}, s), occ) /\ {i, i + 2} = {1, 3}
      BY <2>1, <2>3 DEF pair_tables
    <3> QED
      BY <2>2, <3>1, RaysSee
  <2>4. CASE i = 2
    <3>1. pair_tables(s, occ)[i] = table_attacks(RaysOn({2, 4}, s), occ) /\ {i, i + 2} = {2, 4}
      BY <2>1, <2>4 DEF pair_tables
    <3> QED
      BY <2>2, <3>1, RaysSee
  <2> QED
    BY <2>3, <2>4
<1> QED
  BY <1>4, <1>5, <1>6

\* Any two kernels (pair_od, pair_hqs and the tables of sliders.h) give the same attacks of a bishop and of a rook, from every
\* square and for every occupancy: the borrow of a subtraction, with or without the board upside down, the rank table and
\* the tables of the inner squares all stop at the first man.
THEOREM KernelsAgree ==
  ASSUME NEW s \in Squares, NEW occ
  PROVE  pair_od(s, occ) = pair_hqs(s, occ) /\ pair_hqs(s, occ) = pair_tables(s, occ)
<1>1. \A i \in {1, 2} : pair_od(s, occ)[i] = pair_hqs(s, occ)[i] /\ pair_hqs(s, occ)[i] = pair_tables(s, occ)[i]
  <2> TAKE i \in {1, 2}
  <2>1. \A t : (t \in pair_od(s, occ)[i] <=> t \in pair_hqs(s, occ)[i])
               /\ (t \in pair_hqs(s, occ)[i] <=> t \in pair_tables(s, occ)[i])
    BY KernelsSee
  <2> QED
    BY <2>1
<1> DEFINE Od(i) == UNION {line_attacks(s, occ, line[s][l]) : l \in {i, i + 2}}
           Hqs(i) == UNION {IF l = 4 THEN rank_attacks(s, occ) ELSE hq_lanes(s, occ, line[s][l]) : l \in {i, i + 2}}
           Tables(i) == table_attacks((IF i = 1 THEN bishop_rays ELSE rook_rays)[s], occ)
<1>2. /\ pair_od(s, occ) = [i \in {1, 2} |-> Od(i)] /\ pair_hqs(s, occ) = [i \in {1, 2} |-> Hqs(i)]
      /\ pair_tables(s, occ) = [i \in {1, 2} |-> Tables(i)]
  BY DEF pair_od, pair_hqs, pair_tables
<1> HIDE DEF Od, Hqs, Tables
<1> QED
  BY <1>1, <1>2

\* A slider sees along its lines up to the first man, whatever the kernel (slider_pair: 1 the bishop, 2 the rook).
LEMMA SliderSees ==
  ASSUME NEW s \in Squares, NEW occ, NEW i \in {1, 2}, NEW t
  PROVE  t \in slider_pair(s, occ)[i] <=> \E l \in {i, i + 2} : Sees(l, s, t, occ)
<1>1. slider_pair(s, occ) = pair_od(s, occ) \/ slider_pair(s, occ) = pair_hqs(s, occ) \/ slider_pair(s, occ) = pair_tables(s, occ)
  BY DEF slider_pair
<1> QED
  BY <1>1, KernelsSee

(***************************************************************************)
(* The lines of the search's tables, and pins.                             *)
(***************************************************************************)
\* An empty board does not stop a slider (init_cycle_tables, empty_bishop_att and empty_rook_att).
LEMMA EmptySees ==
  ASSUME NEW s \in Squares, NEW t
  PROVE  /\ t \in get_bishop_attacks(s, {}) <=> \E l \in {1, 3} : t \in Squares /\ OnLine(l, s, t)
         /\ t \in get_rook_attacks(s, {}) <=> \E l \in {2, 4} : t \in Squares /\ OnLine(l, s, t)
         /\ t \in empty_bishop_att[s] <=> \E l \in {1, 3} : t \in Squares /\ OnLine(l, s, t)
         /\ t \in empty_rook_att[s] <=> \E l \in {2, 4} : t \in Squares /\ OnLine(l, s, t)
<1>1. \A l : Sees(l, s, t, {}) <=> t \in Squares /\ OnLine(l, s, t)
  BY DEF Sees, Clear
<1>2. t \in slider_pair(s, {})[1] <=> \E l \in {1, 3} : Sees(l, s, t, {})
  <2>1. 1 \in {1, 2} /\ 1 + 2 = 3
    OBVIOUS
  <2> QED
    BY <2>1, SliderSees
<1>3. t \in slider_pair(s, {})[2] <=> \E l \in {2, 4} : Sees(l, s, t, {})
  <2>1. 2 \in {1, 2} /\ 2 + 2 = 4
    OBVIOUS
  <2> QED
    BY <2>1, SliderSees
<1>4. empty_bishop_att[s] = get_bishop_attacks(s, {}) /\ empty_rook_att[s] = get_rook_attacks(s, {})
  BY LinesAssumption DEF init_empty_bishop, init_empty_rook
<1> QED
  BY <1>1, <1>2, <1>3, <1>4 DEF get_bishop_attacks, get_rook_attacks

\* Two squares of a line that see a third one, neither past the other, have it between them.
LEMMA SeenFromBoth ==
  ASSUME NEW i \in {1, 2}, NEW l \in {i, i + 2}, NEW s \in Squares, NEW t \in Squares, OnLine(l, s, t), NEW u
  PROVE  u \in slider_pair(s, {t})[i] \cap slider_pair(t, {s})[i] <=> u \in Squares /\ OnLine(l, s, u) /\ Inside(u, s, t)
<1>0. {i, i + 2} \subseteq 1..4
  OBVIOUS
<1>1. u \in slider_pair(s, {t})[i] <=> \E k \in {i, i + 2} : Sees(k, s, u, {t})
  BY SliderSees
<1>2. u \in slider_pair(t, {s})[i] <=> \E k \in {i, i + 2} : Sees(k, t, u, {s})
  BY SliderSees
<1>3. OnLine(l, t, s) /\ s # t
  BY SameLine DEF OnLine
<1>4. ASSUME u \in Squares, NEW k1 \in {i, i + 2}, NEW k2 \in {i, i + 2}, OnLine(k1, s, u), OnLine(k2, t, u) PROVE k1 = l /\ k2 = l
  <2>0. u # s /\ u # t
    BY <1>4 DEF OnLine
  <2>1. CASE k1 = l
    <3>1. OnLine(l, t, u)
      BY <1>4, <2>0, <2>1 DEF OnLine
    <3> QED
      BY <1>0, <1>4, <2>1, <3>1, OneLine
  <2>2. CASE k1 # l /\ k2 = l
    <3>1. OnLine(l, s, u)
      BY <1>4, <2>0, <2>2 DEF OnLine
    <3> QED
      BY <1>0, <1>4, <2>2, <3>1, OneLine
  <2>3. CASE k1 # l /\ k2 # l
    <3>1. k1 = k2
      BY <2>3
    <3>2. OnLine(k1, s, t)
      BY <1>3, <1>4, <3>1 DEF OnLine
    <3> QED
      BY <1>0, <2>3, <3>2, OneLine
  <2> QED
    BY <2>1, <2>2, <2>3
<1>5. ASSUME u \in Squares, OnLine(l, s, u) PROVE Sees(l, s, u, {t}) /\ Sees(l, t, u, {s}) <=> Inside(u, s, t)
  <2>1. u # t => OnLine(l, t, u)
    BY <1>5 DEF OnLine
  <2>2. Sees(l, s, u, {t}) <=> ~Inside(t, s, u)
    BY <1>5 DEF Sees, Clear
  <2>3. Sees(l, t, u, {s}) <=> u # t /\ ~Inside(s, t, u)
    BY <1>3, <1>5, <2>1 DEF Sees, Clear, OnLine
  <2>4. u \in Int /\ s \in Int /\ t \in Int /\ u # s /\ s # t
    BY <1>3, <1>5, Coordinates DEF OnLine
  <2> QED
    BY <2>2, <2>3, <2>4 DEF Inside
<1>6. \A k, v, o : Sees(k, v, u, o) => u \in Squares /\ OnLine(k, v, u)
  BY DEF Sees
<1> QED
  BY <1>1, <1>2, <1>4, <1>5, <1>6

\* The squares strictly between two squares of a line (init_cycle_tables, between_tbl).
LEMMA BetweenIs ==
  ASSUME NEW s \in Squares, NEW t \in Squares, NEW u
  PROVE  u \in between_tbl[s][t] <=> \E l \in 1..4 : OnLine(l, s, t) /\ u \in Squares /\ OnLine(l, s, u) /\ Inside(u, s, t)
<1>1. between_tbl[s][t] = between_squares(s, t)
  BY LinesAssumption DEF init_between
<1>2. t \in get_rook_attacks(s, {}) <=> \E l \in {2, 4} : OnLine(l, s, t)
  BY EmptySees
<1>3. t \in get_bishop_attacks(s, {}) <=> \E l \in {1, 3} : OnLine(l, s, t)
  BY EmptySees
<1>4. \A l \in 1..4 : l \in {2, 4} \/ l \in {1, 3}
  OBVIOUS
<1>5. ASSUME NEW l \in {2, 4}, OnLine(l, s, t)
      PROVE  u \in between_squares(s, t) <=> u \in Squares /\ OnLine(l, s, u) /\ Inside(u, s, t)
  <2>0. t \in get_rook_attacks(s, {}) /\ t \notin get_bishop_attacks(s, {})
    <3>1. \A k \in {1, 3} : k \in 1..4 /\ k # l
      OBVIOUS
    <3>2. l \in 1..4
      OBVIOUS
    <3> QED
      BY <1>2, <1>3, <1>5, <3>1, <3>2, OneLine
  <2>1. between_squares(s, t) = get_rook_attacks(s, {t}) \cap get_rook_attacks(t, {s})
    BY <2>0 DEF between_squares
  <2>2. 2 \in {1, 2} /\ l \in {2, 2 + 2}
    OBVIOUS
  <2>3. u \in slider_pair(s, {t})[2] \cap slider_pair(t, {s})[2] <=> u \in Squares /\ OnLine(l, s, u) /\ Inside(u, s, t)
    BY <1>5, <2>2, SeenFromBoth
  <2> QED
    BY <2>1, <2>3 DEF get_rook_attacks
<1>6. ASSUME NEW l \in {1, 3}, OnLine(l, s, t)
      PROVE  u \in between_squares(s, t) <=> u \in Squares /\ OnLine(l, s, u) /\ Inside(u, s, t)
  <2>0. ~ \E k \in {2, 4} : OnLine(k, s, t)
    <3>1. \A k \in {2, 4} : k \in 1..4 /\ k # l
      OBVIOUS
    <3>2. l \in 1..4
      OBVIOUS
    <3> QED
      BY <1>6, <3>1, <3>2, OneLine
  <2>1. between_squares(s, t) = get_bishop_attacks(s, {t}) \cap get_bishop_attacks(t, {s})
    BY <1>2, <1>3, <1>6, <2>0 DEF between_squares
  <2>2. 1 \in {1, 2} /\ l \in {1, 1 + 2}
    OBVIOUS
  <2>3. u \in slider_pair(s, {t})[1] \cap slider_pair(t, {s})[1] <=> u \in Squares /\ OnLine(l, s, u) /\ Inside(u, s, t)
    BY <1>6, <2>2, SeenFromBoth
  <2> QED
    BY <2>1, <2>3 DEF get_bishop_attacks
<1>7. CASE \E l \in 1..4 : OnLine(l, s, t)
  <2>1. PICK l \in 1..4 : OnLine(l, s, t)
    BY <1>7
  <2>2. u \in between_squares(s, t) <=> u \in Squares /\ OnLine(l, s, u) /\ Inside(u, s, t)
    BY <1>4, <1>5, <1>6, <2>1
  <2>3. \A k \in 1..4 : OnLine(k, s, t) => k = l
    BY <2>1, OneLine
  <2> QED
    BY <1>1, <2>1, <2>2, <2>3
<1>8. CASE ~ \E l \in 1..4 : OnLine(l, s, t)
  <2>1. t \notin get_rook_attacks(s, {}) /\ t \notin get_bishop_attacks(s, {})
    BY <1>2, <1>3, <1>8
  <2>2. between_squares(s, t) = {}
    BY <2>1 DEF between_squares
  <2> QED
    BY <1>1, <1>8, <2>2
<1> QED
  BY <1>7, <1>8

\* The squares of the line through two squares (line_bb).
LEMMA LineThroughIs ==
  ASSUME NEW s \in Squares, NEW t \in Squares, NEW u
  PROVE  u \in line_bb[s][t] <=> \E l \in 1..4 : OnLine(l, s, t) /\ (u = s \/ (u \in Squares /\ OnLine(l, s, u)))
<1>1. line_bb[s][t] = line_through(s, t)
  BY LinesAssumption DEF init_line_bb
<1>2. \A l \in 1..4 : \A v : v \in line[s][l] <=> v \in Squares /\ OnLine(l, s, v)
  BY LineIs
<1>3. u \in line_through(s, t) <=> \E l \in {j \in 1..4 : t \in line[s][j]} : u \in line[s][l] \cup {s}
  BY DEF line_through
<1> QED
  BY <1>1, <1>2, <1>3

\* Three squares on_line are on one line.
LEMMA OnLineIs ==
  ASSUME NEW f \in Squares, NEW t \in Squares, NEW k \in Squares, on_line(f, t, k)
  PROVE  \E l \in 1..4 : OnLine(l, f, t) /\ OnLine(l, f, k) /\ OnLine(l, k, t)
<1>1. k \in between_tbl[f][t] \/ t \in between_tbl[f][k] \/ f \in between_tbl[t][k]
  BY DEF on_line
<1>2. ASSUME NEW x \in Squares, NEW y \in Squares, NEW z \in Squares, x \in between_tbl[y][z]
      PROVE  \E l \in 1..4 : OnLine(l, y, z) /\ OnLine(l, y, x) /\ OnLine(l, x, z)
  <2>1. PICK l \in 1..4 : OnLine(l, y, z) /\ OnLine(l, y, x) /\ Inside(x, y, z)
    BY <1>2, BetweenIs
  <2>2. x # z
    <3>1. x \in Int /\ y \in Int /\ z \in Int
      BY Coordinates
    <3> QED
      BY <2>1, <3>1 DEF Inside
  <2>3. OnLine(l, x, z)
    BY <2>1, <2>2 DEF OnLine
  <2> QED
    BY <2>1, <2>3
<1>3. \A l, x, y : OnLine(l, x, y) => OnLine(l, y, x)
  BY DEF OnLine
<1> QED
  BY <1>1, <1>2, <1>3

\* A man between two squares of a line, and no other man there.
Pins(l, k, e, f, occ) ==
  /\ OnLine(l, k, e) /\ OnLine(l, k, f) /\ Inside(f, k, e) /\ f \in occ
  /\ \A u \in occ : u \in Squares /\ OnLine(l, k, u) /\ Inside(u, k, e) => u = f

\* What is seen only after a man has left was hidden by that man.
LEMMA Uncovers ==
  ASSUME NEW l \in 1..4, NEW k \in Squares, NEW e \in Squares, NEW f, NEW A, NEW B,
         Sees(l, k, e, B), ~Sees(l, k, e, A), \A u \in A : u = f \/ u \in B
  PROVE  Pins(l, k, e, f, A)
<1>1. OnLine(l, k, e) /\ \A u \in B : u \in Squares /\ OnLine(l, k, u) => ~Inside(u, k, e)
  BY DEF Sees, Clear
<1>2. PICK u \in A : u \in Squares /\ OnLine(l, k, u) /\ Inside(u, k, e)
  BY <1>1 DEF Sees, Clear
<1>3. u = f
  BY <1>1, <1>2
<1> QED
  BY <1>1, <1>2, <1>3 DEF Pins

\* A pinned man that stays on the line of its pin stays between, or takes the man that pins it.
LEMMA StaysBetween ==
  ASSUME NEW l \in 1..4, NEW k \in Squares, NEW e \in Squares, NEW f \in Squares, NEW t \in Squares, NEW A,
         Pins(l, k, e, f, A), k \in A, e \in A, t # k, OnLine(l, f, t), Clear(l, f, t, A)
  PROVE  t = e \/ (OnLine(l, k, t) /\ Inside(t, k, e))
<1>1. OnLine(l, k, e) /\ OnLine(l, k, f) /\ Inside(f, k, e)
  BY DEF Pins
<1>2. OnLine(l, k, t) /\ OnLine(l, f, k) /\ (OnLine(l, f, e) \/ f = e)
  BY <1>1 DEF OnLine
<1>3. ~Inside(k, f, t) /\ (f = e \/ ~Inside(e, f, t))
  BY <1>2 DEF Clear
<1>4. k \in Int /\ e \in Int /\ f \in Int /\ t \in Int /\ f # t
  BY Coordinates DEF OnLine
<1> QED
  BY <1>1, <1>2, <1>3, <1>4 DEF Inside

-----------------------------------------------------------------------------
(* Every attack is on the board *)

\* The lowest square of a set of one is that one.
LEMMA LsbIn ==
  ASSUME NEW S \in SUBSET Int, NEW x \in S, \A y \in S : y = x
  PROVE  Lsb(S) = x
<1>1. \E s \in S : \A t \in S : s <= t
  OBVIOUS
<1> QED
  BY <1>1 DEF Lsb

\* A shift with its mask stays on the board.
LEMMA ShiftsOnBoard ==
  ASSUME NEW s, NEW shifts, \A d \in shifts : d[2] \subseteq Squares
  PROVE  Shifts(s, shifts) \subseteq Squares
BY DEF Shifts

\* The masks of files are squares.
LEMMA FilesOnBoard ==
  /\ not_a_file \subseteq Squares /\ not_h_file \subseteq Squares
  /\ not_ab_file \subseteq Squares /\ not_hg_file \subseteq Squares
BY DEF not_a_file, not_h_file, not_ab_file, not_hg_file

\* The tables of pawn, knight and king name squares of the board.
LEMMA LeapersOnBoard ==
  ASSUME NEW s \in Squares
  PROVE  /\ knight_attacks[s] \subseteq Squares /\ king_attacks[s] \subseteq Squares
         /\ \A c \in {white, black} : pawn_attacks[c][s] \subseteq Squares
<1>1. mask_knight_attacks(s) \subseteq Squares
  BY FilesOnBoard, ShiftsOnBoard DEF mask_knight_attacks
<1>2. mask_king_attacks(s) \subseteq Squares
  BY FilesOnBoard, ShiftsOnBoard DEF mask_king_attacks
<1>3. \A c \in {white, black} : mask_pawn_attacks(c, s) \subseteq Squares
  <2> SUFFICES ASSUME NEW c \in {white, black} PROVE mask_pawn_attacks(c, s) \subseteq Squares
    OBVIOUS
  <2> DEFINE sh == IF c = white THEN {<<-7, not_a_file>>, <<-9, not_h_file>>} ELSE {<<7, not_h_file>>, <<9, not_a_file>>}
  <2>1. \A d \in sh : d[2] \subseteq Squares
    BY FilesOnBoard
  <2>2. Shifts(s, sh) \subseteq Squares
    <3> HIDE DEF sh
    <3> QED
      BY <2>1, ShiftsOnBoard
  <2> QED
    BY <2>2 DEF mask_pawn_attacks
<1>4. /\ knight_attacks[s] = mask_knight_attacks(s) /\ king_attacks[s] = mask_king_attacks(s)
      /\ \A c \in {white, black} : pawn_attacks[c][s] = mask_pawn_attacks(c, s)
  BY LeapersAssumption DEF init_knight_attacks, init_king_attacks, init_pawn_attacks
<1> QED
  BY <1>1, <1>2, <1>3, <1>4

\* Each of the three kernels gives squares of the board.
LEMMA SlidersOnBoard ==
  ASSUME NEW s \in Squares, NEW occ
  PROVE  slider_pair(s, occ)[1] \subseteq Squares /\ slider_pair(s, occ)[2] \subseteq Squares
<1>1. \A i \in {1, 2} : \A t \in slider_pair(s, occ)[i] : \E l \in {i, i + 2} : Sees(l, s, t, occ)
  BY SliderSees
<1>2. 1 \in {1, 2} /\ 2 \in {1, 2}
  OBVIOUS
<1> QED
  BY <1>1, <1>2 DEF Sees

\* A piece attacks squares of the board.
LEMMA AttacksOnBoard ==
  ASSUME NEW t \in {Knight, Bishop, Rook, Queen, King}, NEW s \in Squares, NEW occ
  PROVE  Attacks(t, s, occ) \subseteq Squares
<1>1. CASE t = Knight
  BY <1>1, LeapersOnBoard DEF Attacks
<1>2. CASE t = King
  BY <1>2, LeapersOnBoard DEF Attacks, King, Knight
<1>3. CASE t \in {Bishop, Rook, Queen}
  <2>1. Attacks(t, s, occ) = SliderAttacks(t, slider_pair(s, occ))
    BY <1>3 DEF Attacks, Bishop, Rook, Queen, Knight, King
  <2> DEFINE pair == slider_pair(s, occ)
  <2>2. SliderAttacks(t, pair) \subseteq pair[1] \cup pair[2]
    BY <1>3 DEF SliderAttacks, Bishop, Rook, Queen
  <2> QED
    BY <2>1, <2>2, SlidersOnBoard
<1> QED
  BY <1>1, <1>2, <1>3

\* The squares between two squares are on the board.
LEMMA BetweenOnBoard ==
  ASSUME NEW x \in Squares, NEW y \in Squares PROVE between_tbl[x][y] \subseteq Squares
BY BetweenIs

\* The squares a pawn attacks, by their numbers.
LEMMA PawnAttacksAre ==
  ASSUME NEW s \in Squares, NEW t \in Squares
  PROVE  /\ t \in pawn_attacks[white][s] <=> (t = s - 7 /\ File(t) # 0) \/ (t = s - 9 /\ File(t) # 7)
         /\ t \in pawn_attacks[black][s] <=> (t = s + 7 /\ File(t) # 7) \/ (t = s + 9 /\ File(t) # 0)
<1>1. /\ pawn_attacks[white][s] = Shifts(s, {<<-7, not_a_file>>, <<-9, not_h_file>>})
      /\ pawn_attacks[black][s] = Shifts(s, {<<7, not_h_file>>, <<9, not_a_file>>})
  BY LeapersAssumption DEF init_pawn_attacks, mask_pawn_attacks, white, black
<1>2. \A P : t \in Shifts(s, P) <=> \E d \in P : s + d[1] \in d[2] /\ t = s + d[1]
  BY DEF Shifts
<1>3. t \in not_a_file <=> File(t) # 0
  BY DEF not_a_file
<1>4. t \in not_h_file <=> File(t) # 7
  BY DEF not_h_file
<1>5. t \in pawn_attacks[white][s] <=> (t = s + (-7) /\ t \in not_a_file) \/ (t = s + (-9) /\ t \in not_h_file)
  <2> DEFINE P == {<<-7, not_a_file>>, <<-9, not_h_file>>}
  <2>1. t \in pawn_attacks[white][s] <=> \E d \in P : s + d[1] \in d[2] /\ t = s + d[1]
    <3> HIDE DEF P
    <3>1. pawn_attacks[white][s] = Shifts(s, P)
      BY <1>1 DEF P
    <3> QED
      BY <1>2, <3>1
  <2>2. (\E d \in P : s + d[1] \in d[2] /\ t = s + d[1]) <=> (t = s + (-7) /\ t \in not_a_file) \/ (t = s + (-9) /\ t \in not_h_file)
    OBVIOUS
  <2> QED
    BY <2>1, <2>2
<1>6. t \in pawn_attacks[black][s] <=> (t = s + 7 /\ t \in not_h_file) \/ (t = s + 9 /\ t \in not_a_file)
  <2> DEFINE P == {<<7, not_h_file>>, <<9, not_a_file>>}
  <2>1. t \in pawn_attacks[black][s] <=> \E d \in P : s + d[1] \in d[2] /\ t = s + d[1]
    <3> HIDE DEF P
    <3>1. pawn_attacks[black][s] = Shifts(s, P)
      BY <1>1 DEF P
    <3> QED
      BY <1>2, <3>1
  <2>2. (\E d \in P : s + d[1] \in d[2] /\ t = s + d[1]) <=> (t = s + 7 /\ t \in not_h_file) \/ (t = s + 9 /\ t \in not_a_file)
    OBVIOUS
  <2> QED
    BY <2>1, <2>2
<1>7. s + (-7) = s - 7 /\ s + (-9) = s - 9
  BY DEF Squares
<1> QED
  BY <1>3, <1>4, <1>5, <1>6, <1>7

\* A pawn attacks the squares from which a pawn of the other side attacks it.
LEMMA PawnsMeet ==
  ASSUME NEW c \in {white, black}, NEW s \in Squares, NEW t \in Squares
  PROVE  t \in pawn_attacks[c][s] <=> s \in pawn_attacks[1 - c][t]
<1>1. /\ t \in pawn_attacks[white][s] <=> (t = s - 7 /\ File(t) # 0) \/ (t = s - 9 /\ File(t) # 7)
      /\ t \in pawn_attacks[black][s] <=> (t = s + 7 /\ File(t) # 7) \/ (t = s + 9 /\ File(t) # 0)
      /\ s \in pawn_attacks[white][t] <=> (s = t - 7 /\ File(s) # 0) \/ (s = t - 9 /\ File(s) # 7)
      /\ s \in pawn_attacks[black][t] <=> (s = t + 7 /\ File(s) # 7) \/ (s = t + 9 /\ File(s) # 0)
  BY PawnAttacksAre
<1>2. /\ (t = s - 7 /\ File(t) # 0) <=> (s = t + 7 /\ File(s) # 7)
      /\ (t = s - 9 /\ File(t) # 7) <=> (s = t + 9 /\ File(s) # 0)
      /\ (s = t - 7 /\ File(s) # 0) <=> (t = s + 7 /\ File(t) # 7)
      /\ (s = t - 9 /\ File(s) # 7) <=> (t = s + 9 /\ File(t) # 0)
  BY DEF File, Squares
<1>3. 1 - white = black /\ 1 - black = white
  BY DEF white, black
<1> QED
  BY <1>1, <1>2, <1>3

-----------------------------------------------------------------------------
(* What the boards are made of *)

Keys == SUBSET Nat
Boards == [Pieces -> SUBSET Squares]
Men(c) == {Piece(c, t) : t \in 0..5}

\* The records of the game's board and of a thread's.
GameBoards == [bb : Boards, occ : [{white, black} -> SUBSET Squares], side : {white, black}, ep : 0..64,
               castle : SUBSET Rights, fifty : Nat, key : Keys]
ThreadBoards == [bb : Boards, occ : [{white, black} -> SUBSET Squares], side : {white, black}, ep : 0..64,
                 castle : SUBSET Rights, fifty : Nat, key : Keys,
                 keys : [KEY_PAWN..KEY_NP_B -> Keys], piece_on : [Squares -> Pieces \cup {None}],
                 plies_from_null : Nat, rep : Seq(Keys), ply : Int]
Moves == [from : Squares, to : Squares, piece : Pieces, promo : Pieces, capture : BOOLEAN, double : BOOLEAN,
          enpass : BOOLEAN, castling : BOOLEAN]

\* One piece on a square at most.
Disjoint(bb) == \A s \in Squares, p, q \in Pieces : s \in bb[p] /\ s \in bb[q] => p = q
Free(bb, s) == \A p \in Pieces : s \notin bb[p]
Mirrors(on, bb) == \A s \in Squares, p \in Pieces : on[s] = p <=> s \in bb[p]

-----------------------------------------------------------------------------
(* Pieces, squares and their numbers *)

\* The twelve numbers of the pieces: 0 to 5 are White's, 6 to 11 Black's.
LEMMA MenIs ==
  /\ Men(white) = 0..5 /\ Men(black) = 6..11
  /\ \A c \in {white, black} : Men(c) \subseteq Pieces /\ Men(1 - c) \subseteq Pieces
  /\ \A c \in {white, black} : Men(c) \cap Men(1 - c) = {}
<1>1. Men(white) = 0..5
  BY DEF Men, Piece, white
<1>2. Men(black) = 6..11
  <2>1. \A x \in 6..11 : x - 6 \in 0..5 /\ x = x - 6 + 6
    OBVIOUS
  <2>2. \A x \in 6..11 : \E t \in 0..5 : x = t + 6
    BY <2>1
  <2> QED
    BY <2>2 DEF Men, Piece, black
<1>3. Men(1 - white) = 6..11 /\ Men(1 - black) = 0..5
  BY <1>1, <1>2 DEF white, black
<1> QED
  BY <1>1, <1>2, <1>3 DEF Pieces, white, black

\* Exclusive or as membership.
LEMMA XorIn == ASSUME NEW x, NEW y, NEW n PROVE n \in Xor(x, y) <=> ~(n \in x <=> n \in y)
BY DEF Xor

\* A side and a kind name one piece.
LEMMA PieceOf ==
  ASSUME NEW c \in {white, black}, NEW t \in 0..5
  PROVE  /\ Piece(c, t) \in Men(c) /\ Piece(c, t) \in Pieces /\ Type(Piece(c, t)) = t
         /\ \A u \in 0..5 : Piece(c, t) = Piece(c, u) => t = u
BY DEF Men, Piece, Pieces, Type, white, black

\* A side occupies the squares of its pieces.
LEMMA OccupiedIn ==
  ASSUME NEW bb, NEW c, NEW s
  PROVE  s \in Occupied(bb, c) <=> \E p \in Men(c) : s \in bb[p]
BY DEF Occupied, Men

\* The number of a piece on a square belongs to no other.
LEMMA NumberIs ==
  ASSUME NEW p \in Pieces, NEW s \in Squares, NEW q \in Pieces, NEW r \in Squares
  PROVE  /\ 64 * p + s = 64 * q + r <=> p = q /\ s = r
         /\ 64 * p + s \in Nat /\ 64 * p + s < 768
BY DEF Pieces, Squares

\* A key is the set of the numbers 64 * p + s of the pieces that stand on squares.
LEMMA PiecesKeyIn ==
  ASSUME NEW bb \in Boards, NEW S \in SUBSET Pieces, NEW n
  PROVE  n \in PiecesKey(bb, S) <=> \E p \in S : \E s \in bb[p] : n = 64 * p + s
BY DEF PiecesKey

\* No two pairs of a piece and a square have the same number.
LEMMA PieceNumberIn ==
  ASSUME NEW bb \in Boards, NEW S \in SUBSET Pieces, NEW p \in Pieces, NEW s \in Squares
  PROVE  64 * p + s \in PiecesKey(bb, S) <=> p \in S /\ s \in bb[p]
<1>1. \A q \in S : \A r \in bb[q] : 64 * p + s = 64 * q + r <=> p = q /\ s = r
  BY NumberIs DEF Boards
<1> QED
  BY <1>1, PiecesKeyIn

-----------------------------------------------------------------------------
(* The moves of the bitboards *)

\* Taking a piece off a square changes that square alone.
LEMMA LiftedIs ==
  ASSUME NEW bb \in Boards, NEW p \in Pieces, NEW s
  PROVE  /\ Lifted(bb, p, s) \in Boards
         /\ \A q \in Pieces, t \in Squares : t \in Lifted(bb, p, s)[q] <=> t \in bb[q] /\ ~(q = p /\ t = s)
BY DEF Lifted, Boards

\* Putting a piece on a square changes that square alone.
LEMMA PlacedIs ==
  ASSUME NEW bb \in Boards, NEW p \in Pieces, NEW s \in Squares
  PROVE  /\ Placed(bb, p, s) \in Boards
         /\ \A q \in Pieces, t \in Squares : t \in Placed(bb, p, s)[q] <=> t \in bb[q] \/ (q = p /\ t = s)
BY DEF Placed, Boards

\* Two boards with the same pieces on the same squares are one.
LEMMA BoardsEqual ==
  ASSUME NEW x \in Boards, NEW y \in Boards, \A q \in Pieces, t \in Squares : t \in x[q] <=> t \in y[q]
  PROVE  x = y
<1>1. \A q \in Pieces : x[q] \subseteq Squares /\ y[q] \subseteq Squares
  BY DEF Boards
<1>2. \A q \in Pieces : x[q] = y[q]
  BY <1>1
<1> QED
  BY <1>2 DEF Boards

\* A right names the king and the rook of its side; what moves or takes one of them ends it.
BackRank(c) == BackRow(c)..(BackRow(c) + 7)
HomeRights(su) ==
  {idx \in Rights : /\ su.king[OfSide(idx) + 1] \in BackRank(OfSide(idx)) /\ su.rook[idx + 1] \in BackRank(OfSide(idx))
                    /\ su.rook[idx + 1] > su.king[OfSide(idx) + 1] <=> idx \in {0, 2}
                    /\ \A s \in Squares : idx \in su.mask[s] <=> s # su.king[OfSide(idx) + 1] /\ s # su.rook[idx + 1]}
RightsSound(b, su) ==
  \A idx \in b.castle : /\ su.king[OfSide(idx) + 1] \in b.bb[Piece(OfSide(idx), King)]
                        /\ su.rook[idx + 1] \in b.bb[Piece(OfSide(idx), Rook)]
                        /\ idx \notin su.mask[su.king[OfSide(idx) + 1]]
                        /\ idx \notin su.mask[su.rook[idx + 1]]
                        /\ idx \in HomeRights(su)

\* A square to take on in passing has been crossed by a pawn, and another one can take.
EpSound(b) ==
  b.ep # no_sq => /\ b.ep - Up(b.side) \in b.bb[Piece(1 - b.side, Pawn)]
                  /\ Free(b.bb, b.ep)
                  /\ Row(b.ep) = (IF b.side = white THEN 2 ELSE 5)
                  /\ pawn_attacks[1 - b.side][b.ep] \cap b.bb[Piece(b.side, Pawn)] # {}

\* What parse_fen makes sure of, whatever the FEN: a pawn can take on the square, if there is a pawn to take.
EpAsked(b) ==
  b.ep # no_sq => /\ Row(b.ep) = (IF b.side = white THEN 2 ELSE 5)
                  /\ pawn_attacks[1 - b.side][b.ep] \cap b.bb[Piece(b.side, Pawn)] # {}
ParsedOK(b, su) ==
  /\ Disjoint(b.bb) /\ EpAsked(b) /\ RightsSound(b, su)
  /\ \A c \in {white, black} : b.occ[c] = Occupied(b.bb, c)
  /\ b.key = generate_hash_key(b)

BoardOK(b, su) ==
  /\ Disjoint(b.bb) /\ EpSound(b) /\ RightsSound(b, su)
  /\ \A c \in {white, black} : b.occ[c] = Occupied(b.bb, c)
  /\ b.key = generate_hash_key(b)

ThreadOK(b, su) ==
  /\ b \in ThreadBoards /\ BoardOK(b, su)
  /\ b.piece_on = mailbox_of(b.bb)
  /\ \A i \in KEY_PAWN..KEY_NP_B : b.keys[i] = PartialKey(b.bb, i)

\* What takes part in a move: the moved piece and the taken one.
FitFrom(b, m) ==
  /\ m \in Moves
  /\ m.piece \in Men(b.side) /\ m.from \in b.bb[m.piece]

\* The way of a pawn.
PawnWay(b, m) ==
  IF m.capture THEN m.to \in pawn_attacks[b.side][m.from] /\ (m.enpass => m.to = b.ep)
               ELSE m.to = m.from + (IF m.double THEN 2 * Up(b.side) ELSE Up(b.side))

FitPlain(b, m) ==
  /\ ~m.castling
  /\ \A p \in Men(b.side) : m.to \notin b.bb[p]
  /\ m.capture /\ ~m.enpass => \E p \in Men(1 - b.side) : m.to \in b.bb[p]
  /\ ~m.capture => Free(b.bb, m.to) /\ ~m.enpass
  /\ m.enpass => /\ m.capture /\ m.piece = Piece(b.side, Pawn) /\ m.promo = 0 /\ Free(b.bb, m.to)
                 /\ m.to - Up(b.side) \in b.bb[Piece(1 - b.side, Pawn)]
  /\ m.promo # 0 => m.piece = Piece(b.side, Pawn) /\ m.promo \in Promoted(b.side)
  /\ m.double => /\ m.piece = Piece(b.side, Pawn) /\ ~m.capture /\ m.promo = 0
                 /\ m.to - Up(b.side) \in Squares /\ Free(b.bb, m.to - Up(b.side))
                 /\ Row(m.to - Up(b.side)) = (IF b.side = white THEN 5 ELSE 2)
  /\ m.piece = Piece(b.side, Pawn) => PawnWay(b, m)

FitCastling(b, m) ==
  LET r == CastleRook(m)
  IN  /\ m.castling /\ ~m.capture /\ m.promo = 0 /\ ~m.enpass /\ ~m.double
      /\ OfSide(castle_index(m.to)) = b.side
      /\ castle_index(m.to) \in b.castle /\ m.to = castle_king_to(castle_index(m.to))
      /\ m.piece = Piece(b.side, King) /\ m.from = castle_king_sq(b.side)
      /\ r.from \in b.bb[r.piece] /\ r.to \in Squares /\ r.from \in Squares /\ r.to # m.to
      /\ \A s \in {m.to, r.to} \ {m.from, r.from} : Free(b.bb, s)

Fit(b, m) == FitFrom(b, m) /\ (FitPlain(b, m) \/ FitCastling(b, m))

\* What a plain move does to the board, v being what it takes, from vs, or None.
Taking(b, m, v, vs) ==
  \/ /\ ~m.capture /\ v = None /\ vs = None
  \/ /\ m.capture /\ v \in Men(1 - b.side) /\ vs \in Squares /\ vs \in b.bb[v]
     /\ IF m.enpass THEN v = Piece(1 - b.side, Pawn) /\ vs = m.to - Up(b.side) ELSE vs = m.to

Landed(m) == IF m.promo # 0 THEN m.promo ELSE m.piece

Shifted(bb, new, m, vs) ==
  /\ new \in Boards
  /\ \A p \in Pieces, s \in Squares :
       s \in new[p] <=> IF s = m.to THEN p = Landed(m) ELSE s # m.from /\ s # vs /\ s \in bb[p]

Castled(bb, new, m, r) ==
  /\ new \in Boards
  /\ \A p \in Pieces, s \in Squares :
       s \in new[p] <=> IF s = m.to THEN p = m.piece ELSE IF s = r.to THEN p = r.piece
                        ELSE s # m.from /\ s # r.from /\ s \in bb[p]

\* A plain move that fits: v, None or the piece it takes, stands on vs.
PlainMove(b, m, v, vs) ==
  /\ b.bb \in Boards /\ b.side \in {white, black} /\ Disjoint(b.bb)
  /\ m.from \in Squares /\ m.to \in Squares /\ m.piece \in Pieces /\ m.from # m.to /\ Landed(m) \in Pieces
  /\ m.from \in b.bb[m.piece] /\ Landed(m) \in Men(b.side) /\ m.piece \in Men(b.side)
  /\ m.castling = FALSE
  /\ v # None => v \in Pieces /\ vs \in Squares /\ vs \in b.bb[v] /\ vs # m.from /\ v \in Men(1 - b.side)
  /\ v = None => vs = None
  /\ v # None /\ vs # m.to => v = Piece(1 - b.side, Pawn)
  /\ \A p \in Pieces : m.to \in b.bb[p] => p = v /\ vs = m.to
  /\ \A p \in Pieces : p # m.piece => m.from \notin b.bb[p]
  /\ \A p \in Pieces : p # v => vs \notin b.bb[p]

\* A castling that fits, r being its rook.
BothMove(b, m, r) ==
  /\ b.bb \in Boards /\ b.side \in {white, black} /\ Disjoint(b.bb) /\ r = CastleRook(m)
  /\ m.from \in Squares /\ m.to \in Squares /\ r.from \in Squares /\ r.to \in Squares
  /\ m.piece \in Pieces /\ r.piece \in Pieces /\ m.piece # r.piece
  /\ m.piece \in Men(b.side) /\ r.piece \in Men(b.side)
  /\ m.castling = TRUE /\ m.promo = 0 /\ Landed(m) = m.piece
  /\ m.from # r.from /\ m.to # r.to
  /\ \A p \in Pieces : m.from \in b.bb[p] <=> p = m.piece
  /\ \A p \in Pieces : r.from \in b.bb[p] <=> p = r.piece
  /\ \A s \in {m.to, r.to} : s # m.from /\ s # r.from => Free(b.bb, s)

\* What a fitting move that does not castle moves, takes and leaves.
LEMMA PlainFacts ==
  ASSUME NEW b, b.bb \in Boards, b.side \in {white, black}, Disjoint(b.bb), NEW m, NEW v, NEW vs,
         FitFrom(b, m), FitPlain(b, m), Taking(b, m, v, vs)
  PROVE  PlainMove(b, m, v, vs)
<1> USE DEF FitFrom, FitPlain, Taking
<1>1. m.from \in Squares /\ m.to \in Squares /\ m.piece \in Pieces /\ m.promo \in Pieces
  BY DEF Moves
<1>2. m.from # m.to
  BY <1>1
<1>3. Promoted(b.side) \subseteq Men(b.side)
  BY DEF Promoted, Men, Queen, Rook, Bishop, Knight
<1>4. Landed(m) \in Men(b.side) /\ Landed(m) \in Pieces
  BY <1>1, <1>3 DEF Landed
<1>5. v # None => v \in Pieces /\ vs \in Squares /\ vs \in b.bb[v] /\ v \in Men(1 - b.side)
  BY MenIs
<1>6. v # None => vs # m.from
  <2> SUFFICES ASSUME v # None, vs = m.from PROVE FALSE
    OBVIOUS
  <2>1. v = m.piece
    BY <1>1, <1>5 DEF Disjoint
  <2> QED
    BY <2>1, <1>5, MenIs
<1>7. \A p \in Pieces : m.to \in b.bb[p] => p = v /\ vs = m.to
  <2> SUFFICES ASSUME NEW p \in Pieces, m.to \in b.bb[p] PROVE p = v /\ vs = m.to
    OBVIOUS
  <2>1. m.capture /\ ~m.enpass
    BY DEF Free
  <2>2. vs = m.to /\ vs \in b.bb[v] /\ v \in Men(1 - b.side)
    BY <2>1
  <2>3. v \in Pieces
    BY <2>2, MenIs
  <2> QED
    BY <2>2, <2>3, <1>1 DEF Disjoint
<1>8. \A p \in Pieces : p # m.piece => m.from \notin b.bb[p]
  BY <1>1 DEF Disjoint
<1>9. \A p \in Pieces : p # v => vs \notin b.bb[p]
  <2>1. CASE v = None
    <3>1. vs = None
      BY <2>1, MenIs DEF None, Pieces
    <3> QED
      BY <3>1 DEF Boards, Squares, None
  <2>2. CASE v # None
    BY <2>2, <1>5 DEF Disjoint
  <2> QED
    BY <2>1, <2>2
<1>10. v = None => vs = None
  BY MenIs DEF None, Pieces
<1>11. v # None /\ vs # m.to => v = Piece(1 - b.side, Pawn)
  OBVIOUS
<1> QED
  BY <1>1, <1>2, <1>4, <1>5, <1>6, <1>7, <1>8, <1>9, <1>10, <1>11 DEF PlainMove

\* What castling moves: king and rook, over free squares.
LEMMA CastlingFacts ==
  ASSUME NEW b, b.bb \in Boards, b.side \in {white, black}, Disjoint(b.bb), NEW m,
         FitFrom(b, m), FitCastling(b, m)
  PROVE  BothMove(b, m, CastleRook(m))
<1> DEFINE r == CastleRook(m)
<1>1. /\ m.piece = Piece(b.side, King) /\ r.piece = Piece(b.side, Rook)
      /\ m.castling /\ m.promo = 0
      /\ r.from \in b.bb[r.piece] /\ r.to \in Squares /\ r.from \in Squares /\ r.to # m.to
      /\ \A s \in {m.to, r.to} \ {m.from, r.from} : Free(b.bb, s)
  BY DEF FitCastling, CastleRook
<1>2. m.castling = TRUE
  BY <1>1 DEF FitFrom, Moves
<1>3. King \in 0..5 /\ Rook \in 0..5 /\ King # Rook
  BY DEF King, Rook
<1>4. m.piece \in Pieces /\ r.piece \in Pieces /\ m.piece # r.piece /\ m.piece \in Men(b.side) /\ r.piece \in Men(b.side)
  BY <1>1, <1>3, PieceOf
<1>5. m.from \in Squares /\ m.to \in Squares /\ m.from \in b.bb[m.piece]
  BY DEF FitFrom, Moves
<1>6. \A p \in Pieces : m.from \in b.bb[p] <=> p = m.piece
  BY <1>4, <1>5 DEF Disjoint
<1>7. \A p \in Pieces : r.from \in b.bb[p] <=> p = r.piece
  BY <1>1, <1>4 DEF Disjoint
<1>8. m.from # r.from
  BY <1>4, <1>6, <1>7
<1> QED
  BY <1>1, <1>2, <1>4, <1>5, <1>6, <1>7, <1>8 DEF Landed, BothMove

\* The boards td_make_move leaves after a move that does not castle.
LEMMA PlainMoves ==
  ASSUME NEW b, b.bb \in Boards, b.side \in {white, black}, NEW m, NEW undo,
         PlainMove(b, m, undo.captured_piece, undo.captured_square)
  PROVE  Shifted(b.bb, MovedBoards(b, m, undo), m, undo.captured_square)
<1> DEFINE v == undo.captured_piece
           vs == undo.captured_square
           b1 == Lifted(b.bb, m.piece, m.from)
           b2 == Placed(b1, m.piece, m.to)
           b3 == WithoutCaptured(b2, undo)
           b4 == Promoting(b3, m)
<1>0. /\ m.from \in Squares /\ m.to \in Squares /\ m.piece \in Pieces /\ m.from # m.to /\ Landed(m) \in Pieces
      /\ m.from \in b.bb[m.piece] /\ m.piece \in Men(b.side) /\ m.castling = FALSE
      /\ v # None => v \in Pieces /\ vs \in Squares /\ vs \in b.bb[v] /\ vs # m.from /\ v \in Men(1 - b.side)
      /\ v = None => vs = None
      /\ \A p \in Pieces : m.to \in b.bb[p] => p = v /\ vs = m.to
      /\ \A p \in Pieces : p # m.piece => m.from \notin b.bb[p]
      /\ \A p \in Pieces : p # v => vs \notin b.bb[p]
  BY DEF PlainMove
<1>1. /\ b1 \in Boards
      /\ \A q \in Pieces, t \in Squares : t \in b1[q] <=> t \in b.bb[q] /\ ~(q = m.piece /\ t = m.from)
  BY <1>0, LiftedIs
<1>2. /\ b2 \in Boards
      /\ \A q \in Pieces, t \in Squares : t \in b2[q] <=> t \in b1[q] \/ (q = m.piece /\ t = m.to)
  <2> HIDE DEF b1
  <2> QED
    BY <1>0, <1>1, PlacedIs
<1>3. /\ b3 \in Boards
      /\ \A q \in Pieces, t \in Squares : t \in b3[q] <=> t \in b2[q] /\ ~(q = v /\ t = vs)
  <2> HIDE DEF b2
  <2>1. CASE v = None
    BY <2>1, <1>2 DEF WithoutCaptured, None, Pieces
  <2>2. CASE v # None
    BY <2>2, <1>0, <1>2, LiftedIs DEF WithoutCaptured
  <2> QED
    BY <2>1, <2>2
<1>4. v # m.piece
  BY <1>0, MenIs DEF None, Pieces
<1>5. /\ b4 \in Boards
      /\ \A q \in Pieces, t \in Squares : t \in b4[q] <=> IF t = m.to THEN q = Landed(m) ELSE t \in b3[q]
  <2> HIDE DEF b3
  <2>1. \A q \in Pieces : m.to \in b3[q] <=> q = m.piece
    BY <1>0, <1>1, <1>2, <1>3, <1>4
  <2>2. CASE m.promo = 0
    BY <2>1, <2>2, <1>3 DEF Promoting, Landed
  <2>3. CASE m.promo # 0
    <3> DEFINE c1 == Lifted(b3, m.piece, m.to)
    <3>1. c1 \in Boards /\ \A q \in Pieces, t \in Squares : t \in c1[q] <=> t \in b3[q] /\ ~(q = m.piece /\ t = m.to)
      BY <1>0, <1>3, LiftedIs
    <3>2. Landed(m) = m.promo
      BY <2>3 DEF Landed
    <3>3. b4 = Placed(c1, m.promo, m.to)
      BY <2>3 DEF Promoting
    <3> HIDE DEF c1
    <3>4. b4 \in Boards /\ \A q \in Pieces, t \in Squares : t \in b4[q] <=> t \in c1[q] \/ (q = m.promo /\ t = m.to)
      <4>1. /\ Placed(c1, m.promo, m.to) \in Boards
            /\ \A q \in Pieces, t \in Squares : t \in Placed(c1, m.promo, m.to)[q] <=> t \in c1[q] \/ (q = m.promo /\ t = m.to)
        BY <3>1, <3>2, <1>0, PlacedIs
      <4> HIDE DEF b4
      <4> QED
        BY <4>1, <3>3
    <3> QED
      BY <3>1, <3>2, <3>4, <2>1
  <2> QED
    BY <2>2, <2>3
<1>6. MovedBoards(b, m, undo) = b4
  BY <1>0 DEF MovedBoards, Castling
<1> HIDE DEF b1, b2, b3, b4
<1>7. \A q \in Pieces, t \in Squares :
        t \in b4[q] <=> IF t = m.to THEN q = Landed(m) ELSE t # m.from /\ t # vs /\ t \in b.bb[q]
  BY <1>0, <1>1, <1>2, <1>3, <1>5
<1> QED
  BY <1>5, <1>6, <1>7 DEF Shifted

\* The way back of a plain move.
LEMMA PlainReturns ==
  ASSUME NEW b, b.bb \in Boards, b.side \in {white, black}, NEW m, NEW undo,
         PlainMove(b, m, undo.captured_piece, undo.captured_square),
         NEW new, Shifted(b.bb, new, m, undo.captured_square)
  PROVE  CastlingBack(WithCaptured(Placed(Lifted(new, Landed(m), m.to), m.piece, m.from), undo), m, CastleRook(m)) = b.bb
<1> DEFINE v == undo.captured_piece
           vs == undo.captured_square
           b1 == Lifted(new, Landed(m), m.to)
           b2 == Placed(b1, m.piece, m.from)
           b3 == WithCaptured(b2, undo)
<1>0. /\ m.from \in Squares /\ m.to \in Squares /\ m.piece \in Pieces /\ m.from # m.to /\ Landed(m) \in Pieces
      /\ m.from \in b.bb[m.piece] /\ m.piece \in Men(b.side) /\ m.castling = FALSE
      /\ v # None => v \in Pieces /\ vs \in Squares /\ vs \in b.bb[v] /\ vs # m.from /\ v \in Men(1 - b.side)
      /\ v = None => vs = None
      /\ \A p \in Pieces : m.to \in b.bb[p] => p = v /\ vs = m.to
      /\ \A p \in Pieces : p # m.piece => m.from \notin b.bb[p]
      /\ \A p \in Pieces : p # v => vs \notin b.bb[p]
  BY DEF PlainMove
<1>1. /\ new \in Boards
      /\ \A p \in Pieces, s \in Squares :
           s \in new[p] <=> IF s = m.to THEN p = Landed(m) ELSE s # m.from /\ s # vs /\ s \in b.bb[p]
  BY DEF Shifted
<1>2. /\ b1 \in Boards
      /\ \A q \in Pieces, t \in Squares : t \in b1[q] <=> t \in new[q] /\ ~(q = Landed(m) /\ t = m.to)
  BY <1>0, <1>1, LiftedIs
<1>3. /\ b2 \in Boards
      /\ \A q \in Pieces, t \in Squares : t \in b2[q] <=> t \in b1[q] \/ (q = m.piece /\ t = m.from)
  <2> HIDE DEF b1
  <2>1. m.piece \in Pieces /\ m.from \in Squares /\ b1 \in Boards
    BY <1>0, <1>2
  <2> QED
    BY <2>1, PlacedIs
<1>4. /\ b3 \in Boards
      /\ \A q \in Pieces, t \in Squares : t \in b3[q] <=> t \in b2[q] \/ (q = v /\ t = vs)
  <2> HIDE DEF b2
  <2>1. CASE v = None
    BY <2>1, <1>3 DEF WithCaptured, None, Pieces
  <2>2. CASE v # None
    <3>1. b3 = Placed(b2, v, vs)
      BY <2>2 DEF WithCaptured
    <3>2. /\ Placed(b2, v, vs) \in Boards
          /\ \A q \in Pieces, t \in Squares : t \in Placed(b2, v, vs)[q] <=> t \in b2[q] \/ (q = v /\ t = vs)
      <4>1. v \in Pieces /\ vs \in Squares
        BY <2>2, <1>0
      <4> HIDE DEF v, vs
      <4> QED
        BY <4>1, <1>3, PlacedIs
    <3> HIDE DEF b3
    <3> QED
      BY <3>1, <3>2
  <2> QED
    BY <2>1, <2>2
<1>5. CastlingBack(b3, m, CastleRook(m)) = b3
  BY <1>0 DEF CastlingBack
<1> HIDE DEF b1, b2, b3
<1>6. ASSUME NEW q \in Pieces, NEW t \in Squares PROVE t \in b3[q] <=> t \in b.bb[q]
  <2>1. t \in b3[q] <=> (t \in new[q] /\ ~(q = Landed(m) /\ t = m.to)) \/ (q = m.piece /\ t = m.from) \/ (q = v /\ t = vs)
    BY <1>2, <1>3, <1>4
  <2>2. t \in new[q] <=> IF t = m.to THEN q = Landed(m) ELSE t # m.from /\ t # vs /\ t \in b.bb[q]
    BY <1>1
  <2>4. q = v => v # None
    BY DEF None, Pieces
  <2>5. CASE t = vs
    BY <2>1, <2>2, <2>4, <2>5, <1>0
  <2>6. CASE t = m.from /\ t # vs
    BY <2>1, <2>2, <2>6, <1>0
  <2>7. CASE t # m.from /\ t # vs
    BY <2>1, <2>2, <2>7, <1>0
  <2> QED
    BY <2>5, <2>6, <2>7
<1>7. b3 = b.bb
  BY <1>4, <1>6, BoardsEqual
<1> QED
  BY <1>5, <1>7 DEF b1, b2, b3

\* The boards td_make_move leaves after castling.
LEMMA CastlingMovesBoards ==
  ASSUME NEW b, b.bb \in Boards, b.side \in {white, black}, NEW m, NEW undo,
         BothMove(b, m, CastleRook(m)), undo.captured_piece = None
  PROVE  Castled(b.bb, MovedBoards(b, m, undo), m, CastleRook(m))
<1> DEFINE r == CastleRook(m)
           b1 == Lifted(b.bb, m.piece, m.from)
           b2 == Placed(b1, m.piece, m.to)
           b3 == Lifted(b2, r.piece, r.from)
           b4 == Placed(b3, r.piece, r.to)
<1>0. /\ m.from \in Squares /\ m.to \in Squares /\ r.from \in Squares /\ r.to \in Squares
      /\ m.piece \in Pieces /\ r.piece \in Pieces /\ m.piece # r.piece
      /\ m.castling = TRUE /\ m.promo = 0
      /\ m.from # r.from /\ m.to # r.to
      /\ \A p \in Pieces : m.from \in b.bb[p] <=> p = m.piece
      /\ \A p \in Pieces : r.from \in b.bb[p] <=> p = r.piece
      /\ \A s \in {m.to, r.to} : s # m.from /\ s # r.from => Free(b.bb, s)
  BY DEF BothMove
<1>1. MovedBoards(b, m, undo) = b4
  BY <1>0 DEF MovedBoards, Castling, Promoting, WithoutCaptured
<1> HIDE DEF r
<1>11. m.from \in Squares /\ m.to \in Squares /\ r.from \in Squares /\ r.to \in Squares /\ m.piece \in Pieces /\ r.piece \in Pieces
  BY <1>0
<1>2. /\ b1 \in Boards
      /\ \A q \in Pieces, t \in Squares : t \in b1[q] <=> t \in b.bb[q] /\ ~(q = m.piece /\ t = m.from)
  BY <1>11, LiftedIs
<1>3. /\ b2 \in Boards
      /\ \A q \in Pieces, t \in Squares : t \in b2[q] <=> t \in b1[q] \/ (q = m.piece /\ t = m.to)
  <2> HIDE DEF b1
  <2>1. m.piece \in Pieces /\ m.to \in Squares /\ b1 \in Boards
    BY <1>11, <1>2
  <2> QED
    BY <2>1, PlacedIs
<1>4. /\ b3 \in Boards
      /\ \A q \in Pieces, t \in Squares : t \in b3[q] <=> t \in b2[q] /\ ~(q = r.piece /\ t = r.from)
  <2> HIDE DEF b2
  <2>1. r.piece \in Pieces /\ r.from \in Squares /\ b2 \in Boards
    BY <1>11, <1>3
  <2> QED
    BY <2>1, LiftedIs
<1>5. /\ b4 \in Boards
      /\ \A q \in Pieces, t \in Squares : t \in b4[q] <=> t \in b3[q] \/ (q = r.piece /\ t = r.to)
  <2> HIDE DEF b3
  <2>1. r.piece \in Pieces /\ r.to \in Squares /\ b3 \in Boards
    BY <1>11, <1>4
  <2> QED
    BY <2>1, PlacedIs
<1> HIDE DEF b1, b2, b3, b4
<1>6. ASSUME NEW q \in Pieces, NEW t \in Squares
      PROVE  t \in b4[q] <=> IF t = m.to THEN q = m.piece ELSE IF t = r.to THEN q = r.piece
                             ELSE t # m.from /\ t # r.from /\ t \in b.bb[q]
  <2>1. t \in b4[q] <=> (((t \in b.bb[q] /\ ~(q = m.piece /\ t = m.from)) \/ (q = m.piece /\ t = m.to))
                           /\ ~(q = r.piece /\ t = r.from)) \/ (q = r.piece /\ t = r.to)
    BY <1>2, <1>3, <1>4, <1>5
  <2>2. t \in {m.to, r.to} => t = m.from \/ t = r.from \/ t \notin b.bb[q]
    BY <1>0 DEF Free
  <2> QED
    BY <2>1, <2>2, <1>0
<1> QED
  BY <1>1, <1>5, <1>6 DEF Castled, r

\* What td_unmake_move does to the boards undoes castling.
LEMMA CastlingReturns ==
  ASSUME NEW b, b.bb \in Boards, b.side \in {white, black}, NEW m, NEW undo,
         BothMove(b, m, CastleRook(m)), undo.captured_piece = None,
         NEW new, Castled(b.bb, new, m, CastleRook(m))
  PROVE  CastlingBack(WithCaptured(Placed(Lifted(new, Landed(m), m.to), m.piece, m.from), undo), m, CastleRook(m)) = b.bb
<1> DEFINE r == CastleRook(m)
           b1 == Lifted(new, m.piece, m.to)
           b2 == Placed(b1, m.piece, m.from)
           b3 == Lifted(b2, r.piece, r.to)
           b4 == Placed(b3, r.piece, r.from)
<1>0. /\ m.from \in Squares /\ m.to \in Squares /\ r.from \in Squares /\ r.to \in Squares
      /\ m.piece \in Pieces /\ r.piece \in Pieces /\ m.piece # r.piece
      /\ m.castling = TRUE /\ m.promo = 0 /\ Landed(m) = m.piece
      /\ m.from # r.from /\ m.to # r.to
      /\ \A p \in Pieces : m.from \in b.bb[p] <=> p = m.piece
      /\ \A p \in Pieces : r.from \in b.bb[p] <=> p = r.piece
      /\ \A s \in {m.to, r.to} : s # m.from /\ s # r.from => Free(b.bb, s)
  BY DEF BothMove
<1>1. CastlingBack(WithCaptured(Placed(Lifted(new, Landed(m), m.to), m.piece, m.from), undo), m, CastleRook(m)) = b4
  BY <1>0 DEF CastlingBack, WithCaptured
<1>a. /\ new \in Boards
      /\ \A p \in Pieces, s \in Squares :
           s \in new[p] <=> IF s = m.to THEN p = m.piece ELSE IF s = r.to THEN p = r.piece
                            ELSE s # m.from /\ s # r.from /\ s \in b.bb[p]
  BY DEF Castled
<1> HIDE DEF r
<1>2. /\ b1 \in Boards
      /\ \A q \in Pieces, t \in Squares : t \in b1[q] <=> t \in new[q] /\ ~(q = m.piece /\ t = m.to)
  BY <1>0, <1>a, LiftedIs
<1>3. /\ b2 \in Boards
      /\ \A q \in Pieces, t \in Squares : t \in b2[q] <=> t \in b1[q] \/ (q = m.piece /\ t = m.from)
  <2> HIDE DEF b1
  <2>1. m.piece \in Pieces /\ m.from \in Squares /\ b1 \in Boards
    BY <1>0, <1>2
  <2> QED
    BY <2>1, PlacedIs
<1>4. /\ b3 \in Boards
      /\ \A q \in Pieces, t \in Squares : t \in b3[q] <=> t \in b2[q] /\ ~(q = r.piece /\ t = r.to)
  <2> HIDE DEF b2
  <2>1. r.piece \in Pieces /\ r.to \in Squares /\ b2 \in Boards
    BY <1>0, <1>3
  <2> QED
    BY <2>1, LiftedIs
<1>5. /\ b4 \in Boards
      /\ \A q \in Pieces, t \in Squares : t \in b4[q] <=> t \in b3[q] \/ (q = r.piece /\ t = r.from)
  <2> HIDE DEF b3
  <2>1. r.piece \in Pieces /\ r.from \in Squares /\ b3 \in Boards
    BY <1>0, <1>4
  <2> QED
    BY <2>1, PlacedIs
<1> HIDE DEF b1, b2, b3, b4
<1>6. ASSUME NEW q \in Pieces, NEW t \in Squares
      PROVE  t \in b4[q] <=> t \in b.bb[q]
  <2>1. t \in b4[q] <=> (((t \in new[q] /\ ~(q = m.piece /\ t = m.to)) \/ (q = m.piece /\ t = m.from))
                           /\ ~(q = r.piece /\ t = r.to)) \/ (q = r.piece /\ t = r.from)
    BY <1>2, <1>3, <1>4, <1>5
  <2>2. t \in {m.to, r.to} => t = m.from \/ t = r.from \/ t \notin b.bb[q]
    BY <1>0 DEF Free
  <2>3. t \in new[q] <=> IF t = m.to THEN q = m.piece ELSE IF t = r.to THEN q = r.piece
                         ELSE t # m.from /\ t # r.from /\ t \in b.bb[q]
    BY <1>a
  <2> QED
    BY <2>1, <2>2, <2>3, <1>0
<1>7. b4 = b.bb
  BY <1>5, <1>6, BoardsEqual
<1> QED
  BY <1>1, <1>7

-----------------------------------------------------------------------------
(* The mailbox *)

\* The mailbox computed from the boards says what stands on every square.
LEMMA MailboxIs ==
  ASSUME NEW bb \in Boards, Disjoint(bb)
  PROVE  /\ mailbox_of(bb) \in [Squares -> Pieces \cup {None}]
         /\ Mirrors(mailbox_of(bb), bb)
<1> DEFINE owner == [s \in Squares |-> {pc \in Pieces : s \in bb[pc]}]
<1>1. mailbox_of(bb) = [s \in Squares |-> IF owner[s] = {} THEN -1 ELSE Lsb(owner[s])]
  BY DEF mailbox_of
<1>2. ASSUME NEW s \in Squares, NEW p \in Pieces, s \in bb[p] PROVE mailbox_of(bb)[s] = p
  <2>1. owner[s] \in SUBSET Int /\ p \in owner[s] /\ \A q \in owner[s] : q = p
    BY <1>2 DEF Disjoint, Pieces
  <2>2. Lsb(owner[s]) = p
    <3> HIDE DEF owner
    <3> QED
      BY <2>1, LsbIn
  <2> QED
    BY <1>1, <2>1, <2>2
<1>3. ASSUME NEW s \in Squares, \A p \in Pieces : s \notin bb[p] PROVE mailbox_of(bb)[s] = None
  <2>1. owner[s] = {}
    BY <1>3
  <2> QED
    BY <1>1, <2>1 DEF None
<1>4. None \notin Pieces
  BY DEF None, Pieces
<1>5. \A s \in Squares : mailbox_of(bb)[s] \in Pieces \cup {None}
  BY <1>2, <1>3
<1>6. Mirrors(mailbox_of(bb), bb)
  BY <1>2, <1>3, <1>4 DEF Mirrors
<1>7. mailbox_of(bb) = [s \in Squares |-> mailbox_of(bb)[s]]
  BY <1>1
<1> QED
  BY <1>5, <1>6, <1>7

\* There is one such mailbox.
LEMMA MirrorsIsMailbox ==
  ASSUME NEW bb \in Boards, Disjoint(bb), NEW on \in [Squares -> Pieces \cup {None}], Mirrors(on, bb)
  PROVE  on = mailbox_of(bb)
<1>1. mailbox_of(bb) \in [Squares -> Pieces \cup {None}] /\ Mirrors(mailbox_of(bb), bb)
  BY MailboxIs
<1>2. \A s \in Squares : on[s] = mailbox_of(bb)[s]
  BY <1>1 DEF Mirrors
<1> QED
  BY <1>1, <1>2

\* A mailbox that mirrors some bitboards shows that they are disjoint.
LEMMA MirroredDisjoint ==
  ASSUME NEW bb, NEW on, Mirrors(on, bb) PROVE Disjoint(bb)
BY DEF Mirrors, Disjoint

\* td_mailbox_apply keeps the mailbox true to the boards (a move that does not castle) ...
LEMMA PlainMailbox ==
  ASSUME NEW b, b.bb \in Boards, b.side \in {white, black}, NEW m, NEW v, NEW vs,
         PlainMove(b, m, v, vs),
         NEW new, Shifted(b.bb, new, m, vs),
         NEW on \in [Squares -> Pieces \cup {None}], Mirrors(on, b.bb)
  PROVE  /\ td_mailbox_apply(on, m, vs, v) \in [Squares -> Pieces \cup {None}]
         /\ Mirrors(td_mailbox_apply(on, m, vs, v), new)
<1> DEFINE x == IF v # None THEN vs ELSE m.from
           on1 == [on EXCEPT ![x] = None, ![m.from] = None, ![m.to] = Landed(m)]
<1>0. /\ m.from \in Squares /\ m.to \in Squares /\ m.piece \in Pieces /\ m.from # m.to /\ Landed(m) \in Pieces
      /\ m.castling = FALSE
      /\ v # None => vs \in Squares
      /\ v = None => vs = None
  BY DEF PlainMove
<1>1. td_mailbox_apply(on, m, vs, v) = on1
  BY <1>0 DEF td_mailbox_apply, Landed
<1>2. x \in Squares
  BY <1>0
<1>3. on1 \in [Squares -> Pieces \cup {None}]
  BY <1>0, <1>2
<1>4. \A s \in Squares : on1[s] = IF s = m.to THEN Landed(m) ELSE IF s = m.from \/ s = x THEN None ELSE on[s]
  BY <1>0, <1>2
<1>5. None \notin Pieces /\ None \notin Squares
  BY DEF None, Pieces, Squares
<1>6. ASSUME NEW s \in Squares, NEW p \in Pieces PROVE on1[s] = p <=> s \in new[p]
  <2>1. s \in new[p] <=> IF s = m.to THEN p = Landed(m) ELSE s # m.from /\ s # vs /\ s \in b.bb[p]
    BY DEF Shifted
  <2>2. on[s] = p <=> s \in b.bb[p]
    BY DEF Mirrors
  <2>3. s # m.from => (s = x <=> s = vs)
    BY <1>0, <1>5
  <2> HIDE DEF x, on1
  <2> QED
    BY <2>1, <2>2, <2>3, <1>4, <1>5
<1> QED
  BY <1>1, <1>3, <1>6 DEF Mirrors

\* ... and castling.
LEMMA CastlingMailbox ==
  ASSUME NEW b, b.bb \in Boards, b.side \in {white, black}, NEW m, NEW v, NEW vs,
         BothMove(b, m, CastleRook(m)),
         NEW new, Castled(b.bb, new, m, CastleRook(m)),
         NEW on \in [Squares -> Pieces \cup {None}], Mirrors(on, b.bb)
  PROVE  /\ td_mailbox_apply(on, m, vs, v) \in [Squares -> Pieces \cup {None}]
         /\ Mirrors(td_mailbox_apply(on, m, vs, v), new)
<1> DEFINE r == CastleRook(m)
           on1 == [[on EXCEPT ![m.from] = None, ![r.from] = None] EXCEPT ![m.to] = m.piece, ![r.to] = r.piece]
<1>0. /\ m.from \in Squares /\ m.to \in Squares /\ r.from \in Squares /\ r.to \in Squares
      /\ m.piece \in Pieces /\ r.piece \in Pieces /\ m.piece # r.piece
      /\ m.castling = TRUE
      /\ m.from # r.from /\ m.to # r.to
  BY DEF BothMove
<1>1. td_mailbox_apply(on, m, vs, v) = on1
  BY <1>0 DEF td_mailbox_apply
<1>2. \A p \in Pieces, s \in Squares :
        s \in new[p] <=> IF s = m.to THEN p = m.piece ELSE IF s = r.to THEN p = r.piece
                         ELSE s # m.from /\ s # r.from /\ s \in b.bb[p]
  BY DEF Castled
<1> HIDE DEF r
<1>3. on1 \in [Squares -> Pieces \cup {None}]
  BY <1>0
<1>4. \A s \in Squares : on1[s] = IF s = m.to THEN m.piece ELSE IF s = r.to THEN r.piece
                                  ELSE IF s = m.from \/ s = r.from THEN None ELSE on[s]
  BY <1>0
<1>5. None \notin Pieces
  BY DEF None, Pieces
<1>6. ASSUME NEW s \in Squares, NEW p \in Pieces PROVE on1[s] = p <=> s \in new[p]
  <2>2. on[s] = p <=> s \in b.bb[p]
    BY DEF Mirrors
  <2> HIDE DEF on1
  <2> QED
    BY <2>2, <1>2, <1>4, <1>5
<1> QED
  BY <1>1, <1>3, <1>6 DEF Mirrors

\* td_mailbox_revert takes td_mailbox_apply back (a move that does not castle) ...
LEMMA PlainMailboxBack ==
  ASSUME NEW b, b.bb \in Boards, b.side \in {white, black}, NEW m, NEW v, NEW vs,
         PlainMove(b, m, v, vs),
         NEW on \in [Squares -> Pieces \cup {None}], Mirrors(on, b.bb)
  PROVE  td_mailbox_revert(td_mailbox_apply(on, m, vs, v), m, vs, v) = on
<1> DEFINE x == IF v # None THEN vs ELSE m.from
           y == IF v # None THEN vs ELSE m.to
           on1 == [on EXCEPT ![x] = None, ![m.from] = None, ![m.to] = Landed(m)]
           on2 == [on1 EXCEPT ![m.to] = None, ![m.from] = m.piece, ![y] = v]
<1>0. /\ m.from \in Squares /\ m.to \in Squares /\ m.piece \in Pieces /\ m.from # m.to /\ Landed(m) \in Pieces
      /\ m.from \in b.bb[m.piece] /\ m.piece \in Men(b.side) /\ m.castling = FALSE
      /\ v # None => v \in Pieces /\ vs \in Squares /\ vs \in b.bb[v] /\ vs # m.from
      /\ v = None => vs = None
      /\ \A p \in Pieces : m.to \in b.bb[p] => p = v /\ vs = m.to
  BY DEF PlainMove
<1>1. td_mailbox_revert(td_mailbox_apply(on, m, vs, v), m, vs, v) = on2
  BY <1>0 DEF td_mailbox_apply, td_mailbox_revert, Landed
<1>2. x \in Squares /\ y \in Squares
  BY <1>0
<1>3. on1 \in [Squares -> Pieces \cup {None}]
  BY <1>0, <1>2
<1>4. on2 \in [Squares -> Pieces \cup {None}]
  <2> HIDE DEF on1
  <2> QED
    BY <1>0, <1>2, <1>3
<1>5. \A s \in Squares : on1[s] = IF s = m.to THEN Landed(m) ELSE IF s = m.from \/ s = x THEN None ELSE on[s]
  BY <1>0, <1>2
<1>6. \A s \in Squares : on2[s] = IF s = y THEN v ELSE IF s = m.from THEN m.piece ELSE IF s = m.to THEN None ELSE on1[s]
  <2> HIDE DEF on1
  <2> QED
    BY <1>0, <1>2, <1>3
<1>7. on[m.from] = m.piece /\ (v # None => on[vs] = v)
  BY <1>0 DEF Mirrors
<1>8. on[m.to] = v \/ on[m.to] = None
  BY <1>0 DEF Mirrors
<1>9. v = None => on[m.to] = None
  BY <1>8
<1>10. v # None /\ vs # m.to => on[m.to] = None
  BY <1>0 DEF Mirrors
<1>11. \A s \in Squares : on2[s] = on[s]
  <2> HIDE DEF on1, on2
  <2> QED
    BY <1>0, <1>5, <1>6, <1>7, <1>9, <1>10
<1> QED
  <2> HIDE DEF on2
  <2> QED
    BY <1>1, <1>4, <1>11

\* ... and castling, where the squares of king and rook may overlap.
LEMMA CastlingMailboxBack ==
  ASSUME NEW b, b.bb \in Boards, b.side \in {white, black}, NEW m, NEW v, NEW vs,
         BothMove(b, m, CastleRook(m)),
         NEW on \in [Squares -> Pieces \cup {None}], Mirrors(on, b.bb)
  PROVE  td_mailbox_revert(td_mailbox_apply(on, m, vs, v), m, vs, v) = on
<1> DEFINE r == CastleRook(m)
           on1 == [[on EXCEPT ![m.from] = None, ![r.from] = None] EXCEPT ![m.to] = m.piece, ![r.to] = r.piece]
           on2 == [[on1 EXCEPT ![m.to] = None, ![r.to] = None] EXCEPT ![m.from] = m.piece, ![r.from] = r.piece]
<1>0. /\ m.from \in Squares /\ m.to \in Squares /\ r.from \in Squares /\ r.to \in Squares
      /\ m.piece \in Pieces /\ r.piece \in Pieces /\ m.piece # r.piece
      /\ m.castling = TRUE
      /\ m.from # r.from /\ m.to # r.to
      /\ \A p \in Pieces : m.from \in b.bb[p] <=> p = m.piece
      /\ \A p \in Pieces : r.from \in b.bb[p] <=> p = r.piece
      /\ \A s \in {m.to, r.to} : s # m.from /\ s # r.from => Free(b.bb, s)
  BY DEF BothMove
<1>1. td_mailbox_revert(td_mailbox_apply(on, m, vs, v), m, vs, v) = on2
  BY <1>0 DEF td_mailbox_apply, td_mailbox_revert
<1> HIDE DEF r
<1>3. on1 \in [Squares -> Pieces \cup {None}]
  BY <1>0
<1>4. on2 \in [Squares -> Pieces \cup {None}]
  <2> HIDE DEF on1
  <2> QED
    BY <1>0, <1>3
<1>5. \A s \in Squares : on1[s] = IF s = m.to THEN m.piece ELSE IF s = r.to THEN r.piece
                                  ELSE IF s = m.from \/ s = r.from THEN None ELSE on[s]
  BY <1>0
<1>6. \A s \in Squares : on2[s] = IF s = m.from THEN m.piece ELSE IF s = r.from THEN r.piece
                                  ELSE IF s = m.to \/ s = r.to THEN None ELSE on1[s]
  <2> HIDE DEF on1
  <2> QED
    BY <1>0, <1>3
<1>7. on[m.from] = m.piece /\ on[r.from] = r.piece
  BY <1>0 DEF Mirrors
<1>8. \A s \in {m.to, r.to} : s # m.from /\ s # r.from => on[s] = None
  BY <1>0 DEF Mirrors, Free
<1>9. \A s \in Squares : on2[s] = on[s]
  <2> HIDE DEF on1, on2
  <2> QED
    BY <1>0, <1>5, <1>6, <1>7, <1>8
<1> QED
  <2> HIDE DEF on2
  <2> QED
    BY <1>1, <1>4, <1>9

-----------------------------------------------------------------------------
(* The occupancies *)

\* The occupancy of a side, square by square.
LEMMA OccupiedIs ==
  ASSUME NEW bb \in Boards, NEW c \in {white, black}
  PROVE  /\ Occupied(bb, c) \in SUBSET Squares
         /\ \A s \in Squares : s \in Occupied(bb, c) <=> \E p \in Men(c) : s \in bb[p]
<1>1. \A p \in Men(c) : bb[p] \subseteq Squares
  BY MenIs DEF Boards
<1> QED
  BY <1>1, OccupiedIn

\* td_occ_update keeps the occupancies true to the boards (a move that does not castle) ...
LEMMA PlainOccupancy ==
  ASSUME NEW b, b.bb \in Boards, b.side \in {white, black}, NEW m, NEW v, NEW vs,
         PlainMove(b, m, v, vs),
         NEW new, Shifted(b.bb, new, m, vs),
         \A c \in {white, black} : b.occ[c] = Occupied(b.bb, c)
  PROVE  \A c \in {white, black} : td_occ_update(b.occ, b.side, m, vs, v)[c] = Occupied(new, c)
<1>0. /\ m.from \in Squares /\ m.to \in Squares /\ m.piece \in Pieces /\ m.from # m.to /\ Landed(m) \in Pieces
      /\ m.from \in b.bb[m.piece] /\ Landed(m) \in Men(b.side) /\ m.piece \in Men(b.side)
      /\ m.castling = FALSE
      /\ v # None => v \in Pieces /\ vs \in Squares /\ vs \in b.bb[v] /\ vs # m.from /\ v \in Men(1 - b.side)
      /\ v = None => vs = None
      /\ \A p \in Pieces : m.to \in b.bb[p] => p = v /\ vs = m.to
      /\ \A p \in Pieces : p # m.piece => m.from \notin b.bb[p]
      /\ \A p \in Pieces : p # v => vs \notin b.bb[p]
  BY DEF PlainMove
<1>1. /\ new \in Boards
      /\ \A p \in Pieces, s \in Squares :
           s \in new[p] <=> IF s = m.to THEN p = Landed(m) ELSE s # m.from /\ s # vs /\ s \in b.bb[p]
  BY DEF Shifted
<1>2. 1 - b.side \in {white, black} /\ 1 - b.side # b.side
  BY DEF white, black
<1>3. None \notin Squares /\ None \notin Pieces
  BY DEF None, Pieces, Squares
<1>4. \A c \in {white, black} : Men(c) \subseteq Pieces
  BY MenIs
<1>5. Men(b.side) \cap Men(1 - b.side) = {}
  BY MenIs
<1>6. td_occ_update(b.occ, b.side, m, vs, v)[b.side] = Occupied(new, b.side)
  <2>1. td_occ_update(b.occ, b.side, m, vs, v)[b.side] = Xor(b.occ[b.side], Xor({m.from}, {m.to}))
    BY <1>0 DEF td_occ_update
  <2>2. ASSUME NEW s \in Squares PROVE s \in Xor(b.occ[b.side], Xor({m.from}, {m.to})) <=> s \in Occupied(new, b.side)
    <3>1. s \in Occupied(new, b.side) <=> \E p \in Men(b.side) : s \in new[p]
      BY <1>1, OccupiedIs
    <3>2. s \in b.occ[b.side] <=> \E p \in Men(b.side) : s \in b.bb[p]
      BY OccupiedIs
    <3>3. s \in Xor(b.occ[b.side], Xor({m.from}, {m.to})) <=> ~(s \in b.occ[b.side] <=> ~(s = m.from <=> s = m.to))
      BY XorIn
    <3>4. CASE s = m.to
      <4>1. s \notin b.occ[b.side]
        <5> SUFFICES ASSUME NEW p \in Men(b.side), m.to \in b.bb[p] PROVE FALSE
          BY <3>2, <3>4
        <5>1. p \in Pieces /\ p = v /\ v # None
          BY <1>0, <1>3, <1>4
        <5> QED
          BY <5>1, <1>0, <1>5
      <4> QED
        BY <4>1, <3>1, <3>3, <3>4, <1>0, <1>1
    <3>5. CASE s = m.from
      <4>1. s \in b.occ[b.side]
        BY <3>2, <3>5, <1>0
      <4>2. ~ \E p \in Men(b.side) : s \in new[p]
        BY <3>5, <1>0, <1>1, <1>4
      <4> QED
        BY <4>1, <4>2, <3>1, <3>3, <3>5, <1>0
    <3>6. CASE s # m.from /\ s # m.to
      <4>1. \A p \in Men(b.side) : s = vs => s \notin b.bb[p]
        BY <1>0, <1>3, <1>4, <1>5
      <4>2. \A p \in Men(b.side) : s \in new[p] <=> s \in b.bb[p]
        BY <4>1, <3>6, <1>1, <1>4
      <4> QED
        BY <4>2, <3>1, <3>2, <3>3, <3>6
    <3> QED
      BY <3>4, <3>5, <3>6
  <2>3. Xor(b.occ[b.side], Xor({m.from}, {m.to})) \subseteq Squares
    BY <1>0, OccupiedIs DEF Xor
  <2>4. Occupied(new, b.side) \subseteq Squares
    BY <1>1, OccupiedIs
  <2> QED
    BY <2>1, <2>2, <2>3, <2>4
<1>7. td_occ_update(b.occ, b.side, m, vs, v)[1 - b.side] = Occupied(new, 1 - b.side)
  <2>1. td_occ_update(b.occ, b.side, m, vs, v)[1 - b.side] = IF v # None THEN Xor(b.occ[1 - b.side], {vs}) ELSE b.occ[1 - b.side]
    BY <1>2 DEF td_occ_update
  <2> DEFINE set == IF v # None THEN Xor(b.occ[1 - b.side], {vs}) ELSE b.occ[1 - b.side]
  <2>2. ASSUME NEW s \in Squares PROVE s \in set <=> s \in Occupied(new, 1 - b.side)
    <3>1. s \in Occupied(new, 1 - b.side) <=> \E p \in Men(1 - b.side) : s \in new[p]
      BY <1>1, <1>2, OccupiedIs
    <3>2. s \in b.occ[1 - b.side] <=> \E p \in Men(1 - b.side) : s \in b.bb[p]
      BY <1>2, OccupiedIs
    <3>3. s \in set <=> ~(s \in b.occ[1 - b.side] <=> s = vs)
      BY <1>0, <1>3, XorIn
    <3>4. \A p \in Men(1 - b.side) : s \in new[p] <=> s # vs /\ s \in b.bb[p]
      <4>1. \A p \in Men(1 - b.side) : p # Landed(m) /\ p # m.piece
        BY <1>0, <1>5
      <4> QED
        BY <4>1, <1>0, <1>1, <1>2, <1>4
    <3>5. s = vs => s \in b.occ[1 - b.side]
      BY <3>2, <1>0, <1>3
    <3> HIDE DEF set
    <3> QED
      BY <3>1, <3>2, <3>3, <3>4, <3>5
  <2>3. set \subseteq Squares
    BY <1>0, <1>2, OccupiedIs DEF Xor
  <2>4. Occupied(new, 1 - b.side) \subseteq Squares
    BY <1>1, <1>2, OccupiedIs
  <2> QED
    BY <2>1, <2>2, <2>3, <2>4
<1> QED
  BY <1>2, <1>6, <1>7 DEF white, black

\* ... and castling.
LEMMA CastlingOccupancy ==
  ASSUME NEW b, b.bb \in Boards, b.side \in {white, black}, NEW m,
         BothMove(b, m, CastleRook(m)),
         NEW new, Castled(b.bb, new, m, CastleRook(m)), NEW vs,
         \A c \in {white, black} : b.occ[c] = Occupied(b.bb, c)
  PROVE  \A c \in {white, black} : td_occ_update(b.occ, b.side, m, vs, None)[c] = Occupied(new, c)
<1> DEFINE r == CastleRook(m)
<1>0. /\ m.from \in Squares /\ m.to \in Squares /\ r.from \in Squares /\ r.to \in Squares
      /\ m.piece \in Pieces /\ r.piece \in Pieces /\ m.piece # r.piece
      /\ m.piece \in Men(b.side) /\ r.piece \in Men(b.side)
      /\ m.castling = TRUE
      /\ m.from # r.from /\ m.to # r.to
      /\ \A p \in Pieces : m.from \in b.bb[p] <=> p = m.piece
      /\ \A p \in Pieces : r.from \in b.bb[p] <=> p = r.piece
      /\ \A s \in {m.to, r.to} : s # m.from /\ s # r.from => Free(b.bb, s)
  BY DEF BothMove
<1>1. /\ new \in Boards
      /\ \A p \in Pieces, s \in Squares :
           s \in new[p] <=> IF s = m.to THEN p = m.piece ELSE IF s = r.to THEN p = r.piece
                            ELSE s # m.from /\ s # r.from /\ s \in b.bb[p]
  BY DEF Castled
<1>2. 1 - b.side \in {white, black} /\ 1 - b.side # b.side
  BY DEF white, black
<1>4. \A c \in {white, black} : Men(c) \subseteq Pieces
  BY MenIs
<1>5. Men(b.side) \cap Men(1 - b.side) = {}
  BY MenIs
<1>6. td_occ_update(b.occ, b.side, m, vs, None)[b.side] = Occupied(new, b.side)
  <2> DEFINE set == Xor(Xor(b.occ[b.side], Xor({m.from}, {m.to})), Xor({r.from}, {r.to}))
  <2>1. td_occ_update(b.occ, b.side, m, vs, None)[b.side] = set
    BY <1>0 DEF td_occ_update
  <2> HIDE DEF r
  <2>2. ASSUME NEW s \in Squares PROVE s \in set <=> s \in Occupied(new, b.side)
    <3>1. s \in Occupied(new, b.side) <=> \E p \in Men(b.side) : s \in new[p]
      BY <1>1, OccupiedIs
    <3>2. s \in b.occ[b.side] <=> \E p \in Men(b.side) : s \in b.bb[p]
      BY OccupiedIs
    <3>3. s \in set <=> ~(~(s \in b.occ[b.side] <=> ~(s = m.from <=> s = m.to)) <=> ~(s = r.from <=> s = r.to))
      BY XorIn
    <3>4. s = m.from \/ s = r.from => s \in b.occ[b.side]
      BY <3>2, <1>0
    <3>5. s \in {m.to, r.to} /\ s # m.from /\ s # r.from => s \notin b.occ[b.side]
      BY <3>2, <1>0, <1>4 DEF Free
    <3>6. s \in {m.to, r.to} => \E p \in Men(b.side) : s \in new[p]
      BY <1>0, <1>1
    <3>7. s \notin {m.to, r.to} => \A p \in Men(b.side) : s \in new[p] <=> s # m.from /\ s # r.from /\ s \in b.bb[p]
      BY <1>1, <1>4
    <3>8. s \in Occupied(new, b.side) <=> s \in {m.to, r.to} \/ (s # m.from /\ s # r.from /\ s \in b.occ[b.side])
      BY <3>1, <3>2, <3>6, <3>7
    <3> HIDE DEF set
    <3> QED
      BY <3>3, <3>4, <3>5, <3>8, <1>0
  <2>3. set \subseteq Squares
    BY <1>0, OccupiedIs DEF Xor
  <2>4. Occupied(new, b.side) \subseteq Squares
    BY <1>1, OccupiedIs
  <2> QED
    BY <2>1, <2>2, <2>3, <2>4
<1>7. td_occ_update(b.occ, b.side, m, vs, None)[1 - b.side] = Occupied(new, 1 - b.side)
  <2>1. td_occ_update(b.occ, b.side, m, vs, None)[1 - b.side] = b.occ[1 - b.side]
    BY <1>2 DEF td_occ_update
  <2> HIDE DEF r
  <2>2. ASSUME NEW s \in Squares PROVE s \in b.occ[1 - b.side] <=> s \in Occupied(new, 1 - b.side)
    <3>1. s \in Occupied(new, 1 - b.side) <=> \E p \in Men(1 - b.side) : s \in new[p]
      BY <1>1, <1>2, OccupiedIs
    <3>2. s \in b.occ[1 - b.side] <=> \E p \in Men(1 - b.side) : s \in b.bb[p]
      BY <1>2, OccupiedIs
    <3>3. ASSUME NEW p \in Men(1 - b.side) PROVE s \in new[p] <=> s \in b.bb[p]
      <4>1. p \in Pieces /\ p # m.piece /\ p # r.piece
        BY <1>0, <1>2, <1>4, <1>5
      <4>2. s \in {m.to, r.to, m.from, r.from} => s \notin b.bb[p]
        BY <4>1, <1>0 DEF Free
      <4> QED
        BY <4>1, <4>2, <1>1
    <3> QED
      BY <3>1, <3>2, <3>3
  <2>3. b.occ[1 - b.side] \subseteq Squares
    BY <1>2, OccupiedIs
  <2>4. Occupied(new, 1 - b.side) \subseteq Squares
    BY <1>1, <1>2, OccupiedIs
  <2> QED
    BY <2>1, <2>2, <2>3, <2>4
<1> QED
  BY <1>2, <1>6, <1>7 DEF white, black

-----------------------------------------------------------------------------
(* The keys *)

\* The number of a piece on a square, if the key is about that piece.
Number(S, p, s) == IF p \in S THEN PieceKey(p, s) ELSE {}

\* How the numbers of a key change with a move that does not castle: those of the mover and of the victim, and no other ...
LEMMA PlainKey ==
  ASSUME NEW b, b.bb \in Boards, b.side \in {white, black}, NEW m, NEW v, NEW vs,
         PlainMove(b, m, v, vs), NEW new, Shifted(b.bb, new, m, vs), NEW S \in SUBSET Pieces, NEW n
  PROVE  n \in PiecesKey(new, S) <=>
           ~(~(n \in PiecesKey(b.bb, S) <=> ~(n \in Number(S, m.piece, m.from) <=> n \in Number(S, Landed(m), m.to)))
             <=> n \in Number(S, v, vs))
<1>0. /\ m.from \in Squares /\ m.to \in Squares /\ m.piece \in Pieces /\ m.from # m.to /\ Landed(m) \in Pieces
      /\ m.from \in b.bb[m.piece]
      /\ v # None => v \in Pieces /\ vs \in Squares /\ vs \in b.bb[v] /\ vs # m.from
      /\ v = None => vs = None
      /\ \A p \in Pieces : m.to \in b.bb[p] => p = v /\ vs = m.to
      /\ \A p \in Pieces : p # m.piece => m.from \notin b.bb[p]
      /\ \A p \in Pieces : p # v => vs \notin b.bb[p]
  BY DEF PlainMove
<1>1. /\ new \in Boards
      /\ \A p \in Pieces, s \in Squares :
           s \in new[p] <=> IF s = m.to THEN p = Landed(m) ELSE s # m.from /\ s # vs /\ s \in b.bb[p]
  BY DEF Shifted
<1>2. None \notin Pieces /\ None \notin Squares
  BY DEF None, Pieces, Squares
<1>3. CASE \E q \in Pieces, t \in Squares : n = 64 * q + t
  <2>1. PICK q \in Pieces, t \in Squares : n = 64 * q + t
    BY <1>3
  <2>2. n \in PiecesKey(new, S) <=> q \in S /\ t \in new[q]
    BY <2>1, <1>1, PieceNumberIn
  <2>3. n \in PiecesKey(b.bb, S) <=> q \in S /\ t \in b.bb[q]
    BY <2>1, PieceNumberIn
  <2>4. ASSUME NEW p \in Pieces, NEW s \in Squares PROVE n \in Number(S, p, s) <=> p \in S /\ q = p /\ t = s
    BY <2>1, NumberIs DEF Number, PieceKey
  <2>5. n \in Number(S, m.piece, m.from) <=> q \in S /\ q = m.piece /\ t = m.from
    BY <2>4, <1>0
  <2>6. n \in Number(S, Landed(m), m.to) <=> q \in S /\ q = Landed(m) /\ t = m.to
    BY <2>4, <1>0
  <2>7. n \in Number(S, v, vs) <=> q \in S /\ q = v /\ t = vs
    <3>1. CASE v = None
      BY <3>1, <1>2 DEF Number
    <3>2. CASE v # None
      BY <3>2, <2>4, <1>0
    <3> QED
      BY <3>1, <3>2
  <2>8. CASE q \notin S
    BY <2>8, <2>2, <2>3, <2>5, <2>6, <2>7
  <2>9. CASE q \in S
    <3>1. t \in new[q] <=> IF t = m.to THEN q = Landed(m) ELSE t # m.from /\ t # vs /\ t \in b.bb[q]
      BY <1>1
    <3>2. CASE t = m.to
      <4>1. t \in b.bb[q] <=> q = v /\ t = vs
        BY <3>2, <1>0, <1>2
      <4> QED
        BY <4>1, <3>1, <3>2, <2>2, <2>3, <2>5, <2>6, <2>7, <2>9, <1>0
    <3>3. CASE t = m.from
      <4>1. (t \in b.bb[q] <=> q = m.piece) /\ (t # vs \/ q # v)
        BY <3>3, <1>0, <1>2
      <4>2. t \in b.bb[q] <=> q = m.piece
        BY <3>3, <1>0
      <4> QED
        BY <4>1, <4>2, <3>1, <3>3, <2>2, <2>3, <2>5, <2>6, <2>7, <2>9, <1>0
    <3>4. CASE t # m.to /\ t # m.from
      <4>1. t = vs => (t \in b.bb[q] <=> q = v)
        BY <1>0, <1>2
      <4> QED
        BY <4>1, <3>1, <3>4, <2>2, <2>3, <2>5, <2>6, <2>7, <2>9
    <3> QED
      BY <3>2, <3>3, <3>4
  <2> QED
    BY <2>8, <2>9
<1>4. CASE ~ \E q \in Pieces, t \in Squares : n = 64 * q + t
  <2>1. n \notin PiecesKey(new, S)
    BY <1>1, <1>4, PiecesKeyIn DEF Boards
  <2>2. n \notin PiecesKey(b.bb, S)
    BY <1>4, PiecesKeyIn DEF Boards
  <2>3. \A p \in Pieces, s \in Squares : n \notin Number(S, p, s)
    BY <1>4 DEF Number, PieceKey
  <2>4. n \notin Number(S, v, vs)
    BY <2>3, <1>0, <1>2 DEF Number
  <2> QED
    BY <2>1, <2>2, <2>3, <2>4, <1>0
<1> QED
  BY <1>3, <1>4

\* ... and with castling: those of king and rook.
LEMMA CastlingKey ==
  ASSUME NEW b, b.bb \in Boards, b.side \in {white, black}, NEW m, NEW r,
         BothMove(b, m, r), NEW new, Castled(b.bb, new, m, r), NEW S \in SUBSET Pieces, NEW n
  PROVE  n \in PiecesKey(new, S) <=>
           ~(~(n \in PiecesKey(b.bb, S) <=> ~(n \in Number(S, m.piece, m.from) <=> n \in Number(S, m.piece, m.to)))
             <=> ~(n \in Number(S, r.piece, r.from) <=> n \in Number(S, r.piece, r.to)))
<1>0. /\ m.from \in Squares /\ m.to \in Squares /\ r.from \in Squares /\ r.to \in Squares
      /\ m.piece \in Pieces /\ r.piece \in Pieces /\ m.piece # r.piece
      /\ m.from # r.from /\ m.to # r.to
      /\ \A p \in Pieces : m.from \in b.bb[p] <=> p = m.piece
      /\ \A p \in Pieces : r.from \in b.bb[p] <=> p = r.piece
      /\ \A s \in {m.to, r.to} : s # m.from /\ s # r.from => Free(b.bb, s)
  BY DEF BothMove
<1>1. /\ new \in Boards
      /\ \A p \in Pieces, s \in Squares :
           s \in new[p] <=> IF s = m.to THEN p = m.piece ELSE IF s = r.to THEN p = r.piece
                            ELSE s # m.from /\ s # r.from /\ s \in b.bb[p]
  BY DEF Castled
<1>3. CASE \E q \in Pieces, t \in Squares : n = 64 * q + t
  <2>1. PICK q \in Pieces, t \in Squares : n = 64 * q + t
    BY <1>3
  <2>2. n \in PiecesKey(new, S) <=> q \in S /\ t \in new[q]
    BY <2>1, <1>1, PieceNumberIn
  <2>3. n \in PiecesKey(b.bb, S) <=> q \in S /\ t \in b.bb[q]
    BY <2>1, PieceNumberIn
  <2>4. ASSUME NEW p \in Pieces, NEW s \in Squares PROVE n \in Number(S, p, s) <=> p \in S /\ q = p /\ t = s
    BY <2>1, NumberIs DEF Number, PieceKey
  <2>5. n \in Number(S, m.piece, m.from) <=> q \in S /\ q = m.piece /\ t = m.from
    BY <2>4, <1>0
  <2>6. n \in Number(S, m.piece, m.to) <=> q \in S /\ q = m.piece /\ t = m.to
    BY <2>4, <1>0
  <2>7. n \in Number(S, r.piece, r.from) <=> q \in S /\ q = r.piece /\ t = r.from
    BY <2>4, <1>0
  <2>8. n \in Number(S, r.piece, r.to) <=> q \in S /\ q = r.piece /\ t = r.to
    BY <2>4, <1>0
  <2>9. t \in {m.to, r.to} => t = m.from \/ t = r.from \/ t \notin b.bb[q]
    BY <1>0 DEF Free
  <2>10. t \in new[q] <=> IF t = m.to THEN q = m.piece ELSE IF t = r.to THEN q = r.piece
                          ELSE t # m.from /\ t # r.from /\ t \in b.bb[q]
    BY <1>1
  <2>11. (t = m.from => (t \in b.bb[q] <=> q = m.piece)) /\ (t = r.from => (t \in b.bb[q] <=> q = r.piece))
    BY <1>0
  <2> QED
    BY <2>2, <2>3, <2>5, <2>6, <2>7, <2>8, <2>9, <2>10, <2>11, <1>0
<1>4. CASE ~ \E q \in Pieces, t \in Squares : n = 64 * q + t
  <2>1. n \notin PiecesKey(new, S)
    BY <1>1, <1>4, PiecesKeyIn DEF Boards
  <2>2. n \notin PiecesKey(b.bb, S)
    BY <1>4, PiecesKeyIn DEF Boards
  <2>3. \A p \in Pieces, s \in Squares : n \notin Number(S, p, s)
    BY <1>4 DEF Number, PieceKey
  <2> QED
    BY <2>1, <2>2, <2>3, <1>0
<1> QED
  BY <1>3, <1>4

\* A key is a set of numbers.
LEMMA PiecesKeyType ==
  ASSUME NEW bb \in Boards, NEW S \in SUBSET Pieces
  PROVE  PiecesKey(bb, S) \in Keys
<1>1. \A p \in S : \A s \in bb[p] : 64 * p + s \in Nat
  BY DEF Boards, Pieces, Squares
<1> QED
  BY <1>1, PiecesKeyIn DEF Keys

PartOf(i) == {pc \in Pieces : i \in {kKeyA(pc), kKeyB(pc)}}

KeysFollow(b, m, v, vs, new) ==
  \A keys : \A i \in KEY_PAWN..KEY_NP_B :
    keys[i] = PartialKey(b.bb, i) => td_keys_update(keys, m, vs, v)[i] = PartialKey(new, i)

\* td_keys_update keeps each partial key (a move that does not castle) ...
LEMMA PlainKeys ==
  ASSUME NEW b, b.bb \in Boards, b.side \in {white, black}, NEW m, NEW v, NEW vs, m.promo \in Pieces,
         PlainMove(b, m, v, vs), NEW new, Shifted(b.bb, new, m, vs)
  PROVE  KeysFollow(b, m, v, vs, new)
<1> SUFFICES ASSUME NEW keys, NEW i \in KEY_PAWN..KEY_NP_B, keys[i] = PartialKey(b.bb, i)
             PROVE  td_keys_update(keys, m, vs, v)[i] = PartialKey(new, i)
  BY DEF KeysFollow
<1> DEFINE S == PartOf(i)
           kd == Xor(PieceKey(m.piece, m.from), IF m.promo = 0 THEN PieceKey(m.piece, m.to) ELSE {})
           kp == IF m.promo = 0 THEN {} ELSE PieceKey(m.promo, m.to)
           kc == IF v = None THEN {} ELSE PieceKey(v, vs)
           Part(pc, k) == IF i \in {kKeyA(pc), kKeyB(pc)} THEN k ELSE {}
<1>0. /\ m.piece \in Pieces /\ m.castling = FALSE /\ (v # None => v \in Pieces)
  BY DEF PlainMove
<1>1. td_keys_update(keys, m, vs, v)[i] =
        Xor(Xor(Xor(keys[i], Part(m.piece, kd)), Xor(Part(m.promo, kp), Part(v, kc))), {})
  BY <1>0 DEF td_keys_update
<1>2. \A pc \in Pieces : pc \in S <=> i \in {kKeyA(pc), kKeyB(pc)}
  BY DEF PartOf
<1>3. S \in SUBSET Pieces
  BY DEF PartOf
<1>4. PartialKey(b.bb, i) = PiecesKey(b.bb, S) /\ PartialKey(new, i) = PiecesKey(new, S)
  BY DEF PartialKey, PartOf
<1>5. None \notin Pieces
  BY DEF None, Pieces
<1>6. ASSUME NEW n PROVE n \in td_keys_update(keys, m, vs, v)[i] <=> n \in PartialKey(new, i)
  <2>1. n \in PartialKey(new, i) <=>
           ~(~(n \in PiecesKey(b.bb, S) <=> ~(n \in Number(S, m.piece, m.from) <=> n \in Number(S, Landed(m), m.to)))
             <=> n \in Number(S, v, vs))
    BY <1>3, <1>4, PlainKey
  <2>2. n \in td_keys_update(keys, m, vs, v)[i] <=>
           ~(~(n \in PiecesKey(b.bb, S) <=> n \in Part(m.piece, kd)) <=> ~(n \in Part(m.promo, kp) <=> n \in Part(v, kc)))
    <3> HIDE DEF Part, kd, kp, kc, S
    <3>1. n \in Xor(Xor(Xor(keys[i], Part(m.piece, kd)), Xor(Part(m.promo, kp), Part(v, kc))), {}) <=>
           ~(~(n \in keys[i] <=> n \in Part(m.piece, kd)) <=> ~(n \in Part(m.promo, kp) <=> n \in Part(v, kc)))
      BY XorIn
    <3> QED
      BY <3>1, <1>1, <1>4
  <2>3. n \in Part(v, kc) <=> n \in Number(S, v, vs)
    <3>1. CASE v = None
      BY <3>1, <1>3, <1>5 DEF Number
    <3>2. CASE v # None
      <4>1. v \in Pieces /\ kc = PieceKey(v, vs)
        BY <3>2, <1>0
      <4> HIDE DEF kc, S
      <4> QED
        BY <4>1, <1>2 DEF Number
    <3> QED
      BY <3>1, <3>2
  <2>4. ~(n \in Part(m.piece, kd) <=> n \in Part(m.promo, kp)) <=> ~(n \in Number(S, m.piece, m.from) <=> n \in Number(S, Landed(m), m.to))
    <3>1. CASE m.promo = 0
      <4>1. n \in kd <=> ~(n \in PieceKey(m.piece, m.from) <=> n \in PieceKey(m.piece, m.to))
        BY <3>1, XorIn
      <4>2. n \notin Part(m.promo, kp)
        BY <3>1
      <4>3. Landed(m) = m.piece
        BY <3>1 DEF Landed
      <4> HIDE DEF kd, kp, S
      <4> QED
        BY <4>1, <4>2, <4>3, <1>0, <1>2 DEF Number
    <3>2. CASE m.promo # 0
      <4>1. n \in kd <=> n \in PieceKey(m.piece, m.from)
        BY <3>2, XorIn
      <4>2. kp = PieceKey(m.promo, m.to)
        BY <3>2
      <4>3. Landed(m) = m.promo
        BY <3>2 DEF Landed
      <4> HIDE DEF kd, kp, S
      <4> QED
        BY <4>1, <4>2, <4>3, <1>0, <1>2 DEF Number
    <3> QED
      BY <3>1, <3>2
  <2> HIDE DEF Part, kd, kp, kc, S
  <2> QED
    BY <2>1, <2>2, <2>3, <2>4
<1> QED
  BY <1>6

\* ... and castling.
LEMMA CastlingKeys ==
  ASSUME NEW b, b.bb \in Boards, b.side \in {white, black}, NEW m, NEW vs,
         BothMove(b, m, CastleRook(m)), NEW new, Castled(b.bb, new, m, CastleRook(m)),
         NEW keys, NEW i \in KEY_PAWN..KEY_NP_B, keys[i] = PartialKey(b.bb, i)
  PROVE  td_keys_update(keys, m, vs, None)[i] = PartialKey(new, i)
<1> DEFINE S == PartOf(i)
           r == CastleRook(m)
           kd == Xor(PieceKey(m.piece, m.from), PieceKey(m.piece, m.to))
           kr == Xor(PieceKey(r.piece, r.from), PieceKey(r.piece, r.to))
           Part(pc, k) == IF i \in {kKeyA(pc), kKeyB(pc)} THEN k ELSE {}
<1>0. /\ m.piece \in Pieces /\ m.castling = TRUE /\ m.promo = 0 /\ r.piece \in Pieces
  BY DEF BothMove
<1>1. td_keys_update(keys, m, vs, None)[i] =
        Xor(Xor(Xor(keys[i], Part(m.piece, kd)), Xor(Part(m.promo, {}), Part(None, {}))), Part(r.piece, kr))
  BY <1>0 DEF td_keys_update
<1>2. \A pc \in Pieces : pc \in S <=> i \in {kKeyA(pc), kKeyB(pc)}
  BY DEF PartOf
<1>3. S \in SUBSET Pieces
  BY DEF PartOf
<1>4. PartialKey(b.bb, i) = PiecesKey(b.bb, S) /\ PartialKey(new, i) = PiecesKey(new, S)
  BY DEF PartialKey, PartOf
<1>6. ASSUME NEW n PROVE n \in td_keys_update(keys, m, vs, None)[i] <=> n \in PartialKey(new, i)
  <2> HIDE DEF r
  <2>1. n \in PartialKey(new, i) <=>
           ~(~(n \in PiecesKey(b.bb, S) <=> ~(n \in Number(S, m.piece, m.from) <=> n \in Number(S, m.piece, m.to)))
             <=> ~(n \in Number(S, r.piece, r.from) <=> n \in Number(S, r.piece, r.to)))
    BY <1>3, <1>4, CastlingKey DEF r
  <2>2. n \in td_keys_update(keys, m, vs, None)[i] <=>
           ~(~(n \in PiecesKey(b.bb, S) <=> n \in Part(m.piece, kd)) <=> n \in Part(r.piece, kr))
    <3> HIDE DEF kd, kr, S
    <3>1. Part(m.promo, {}) = {} /\ Part(None, {}) = {}
      OBVIOUS
    <3> HIDE DEF Part
    <3>2. n \in Xor(Xor(Xor(keys[i], Part(m.piece, kd)), Xor({}, {})), Part(r.piece, kr)) <=>
           ~(~(n \in keys[i] <=> n \in Part(m.piece, kd)) <=> n \in Part(r.piece, kr))
      BY XorIn
    <3> QED
      BY <3>1, <3>2, <1>1, <1>4
  <2>3. n \in kd <=> ~(n \in PieceKey(m.piece, m.from) <=> n \in PieceKey(m.piece, m.to))
    BY XorIn
  <2>4. n \in kr <=> ~(n \in PieceKey(r.piece, r.from) <=> n \in PieceKey(r.piece, r.to))
    BY XorIn
  <2> HIDE DEF kd, kr, S
  <2>5. n \in Part(m.piece, kd) <=> ~(n \in Number(S, m.piece, m.from) <=> n \in Number(S, m.piece, m.to))
    BY <2>3, <1>0, <1>2 DEF Number
  <2>6. n \in Part(r.piece, kr) <=> ~(n \in Number(S, r.piece, r.from) <=> n \in Number(S, r.piece, r.to))
    BY <2>4, <1>0, <1>2 DEF Number
  <2> HIDE DEF Part
  <2> QED
    BY <2>1, <2>2, <2>5, <2>6
<1> QED
  BY <1>6

\* The numbers of the state: the side is black's or it is not.
LEMMA SideKey ==
  ASSUME NEW c \in {white, black}, NEW n
  PROVE  n \in (IF 1 - c = black THEN side_key ELSE {}) <=> ~(n \in (IF c = black THEN side_key ELSE {}) <=> n \in side_key)
BY DEF white, black

\* The key the make updates is the one generate_hash_key gives (a move that does not castle) ...
LEMMA PlainMovedKey ==
  ASSUME NEW b, b.bb \in Boards, b.side \in {white, black}, NEW m, NEW undo, m.promo \in Pieces,
         PlainMove(b, m, undo.captured_piece, undo.captured_square),
         NEW new, Shifted(b.bb, new, m, undo.captured_square),
         b.key = generate_hash_key(b),
         NEW x, x.bb = new, x.side = 1 - b.side
  PROVE  MovedKey(b, m, undo, x.ep, x.castle) = generate_hash_key(x)
<1> DEFINE v == undo.captured_piece
           vs == undo.captured_square
           victim == IF v = None THEN {} ELSE PieceKey(v, vs)
           promo == IF m.promo = 0 THEN {} ELSE Xor(PieceKey(m.piece, m.to), PieceKey(m.promo, m.to))
           state == Xor(Xor(EnpassantKey(b.ep), EnpassantKey(x.ep)), Xor(CastleKey(b.castle), CastleKey(x.castle)))
           mover == Xor(PieceKey(m.piece, m.from), PieceKey(m.piece, m.to))
<1>0. /\ m.piece \in Pieces /\ m.castling = FALSE /\ (v # None => v \in Pieces) /\ Landed(m) \in Pieces
  BY DEF PlainMove
<1>1. MovedKey(b, m, undo, x.ep, x.castle) = Xor(Xor(Xor(b.key, mover), Xor(victim, promo)), Xor(Xor({}, state), side_key))
  BY <1>0 DEF MovedKey
<1>2. ASSUME NEW n PROVE n \in MovedKey(b, m, undo, x.ep, x.castle) <=> n \in generate_hash_key(x)
  <2> DEFINE A == n \in PiecesKey(b.bb, Pieces)
             B == n \in PieceKey(m.piece, m.from)
             C == n \in PieceKey(Landed(m), m.to)
             D == n \in victim
  <2>1. n \in PiecesKey(new, Pieces) <=> ~(~(A <=> ~(B <=> C)) <=> D)
    <3>1. n \in PiecesKey(new, Pieces) <=>
           ~(~(n \in PiecesKey(b.bb, Pieces) <=> ~(n \in Number(Pieces, m.piece, m.from) <=> n \in Number(Pieces, Landed(m), m.to)))
             <=> n \in Number(Pieces, v, vs))
      BY PlainKey
    <3>2. Number(Pieces, m.piece, m.from) = PieceKey(m.piece, m.from) /\ Number(Pieces, Landed(m), m.to) = PieceKey(Landed(m), m.to)
      BY <1>0 DEF Number
    <3>3. Number(Pieces, v, vs) = victim
      BY <1>0 DEF Number, None, Pieces
    <3> HIDE DEF victim
    <3> QED
      BY <3>1, <3>2, <3>3
  <2>2. ~(n \in mover <=> n \in promo) <=> ~(B <=> C)
    <3>1. CASE m.promo = 0
      BY <3>1, XorIn DEF Landed
    <3>2. CASE m.promo # 0
      BY <3>2, XorIn DEF Landed
    <3> QED
      BY <3>1, <3>2
  <2>3. n \in b.key <=> ~(~(A <=> n \in EnpassantKey(b.ep)) <=> ~(n \in CastleKey(b.castle) <=> n \in IF b.side = black THEN side_key ELSE {}))
    BY XorIn DEF generate_hash_key
  <2>4. n \in generate_hash_key(x) <=>
          ~(~(n \in PiecesKey(new, Pieces) <=> n \in EnpassantKey(x.ep))
            <=> ~(n \in CastleKey(x.castle) <=> n \in IF 1 - b.side = black THEN side_key ELSE {}))
    BY XorIn DEF generate_hash_key
  <2>5. n \in state <=> ~(~(n \in EnpassantKey(b.ep) <=> n \in EnpassantKey(x.ep)) <=> ~(n \in CastleKey(b.castle) <=> n \in CastleKey(x.castle)))
    BY XorIn
  <2>6. n \in Xor(Xor(Xor(b.key, mover), Xor(victim, promo)), Xor(Xor({}, state), side_key)) <=>
          ~(~(~(n \in b.key <=> n \in mover) <=> ~(n \in victim <=> n \in promo)) <=> ~(n \in state <=> n \in side_key))
    <3> HIDE DEF mover, victim, promo, state
    <3> QED
      BY XorIn
  <2>7. n \in (IF 1 - b.side = black THEN side_key ELSE {}) <=> ~(n \in (IF b.side = black THEN side_key ELSE {}) <=> n \in side_key)
    BY SideKey
  <2> HIDE DEF A, B, C, mover, victim, promo, state
  <2>8. n \in MovedKey(b, m, undo, x.ep, x.castle) <=>
          ~(~(~(n \in b.key <=> n \in mover) <=> ~(n \in victim <=> n \in promo)) <=> ~(n \in state <=> n \in side_key))
    BY <1>1, <2>6
  <2> QED
    BY <2>1, <2>2, <2>3, <2>4, <2>5, <2>7, <2>8
<1> QED
  BY <1>2

\* ... and castling.
LEMMA CastlingMovedKey ==
  ASSUME NEW b, b.bb \in Boards, b.side \in {white, black}, NEW m, NEW undo, undo.captured_piece = None,
         BothMove(b, m, CastleRook(m)), NEW new, Castled(b.bb, new, m, CastleRook(m)),
         b.key = generate_hash_key(b),
         NEW x, x.bb = new, x.side = 1 - b.side
  PROVE  MovedKey(b, m, undo, x.ep, x.castle) = generate_hash_key(x)
<1> DEFINE r == CastleRook(m)
           rook == Xor(PieceKey(r.piece, r.from), PieceKey(r.piece, r.to))
           state == Xor(Xor(EnpassantKey(b.ep), EnpassantKey(x.ep)), Xor(CastleKey(b.castle), CastleKey(x.castle)))
           mover == Xor(PieceKey(m.piece, m.from), PieceKey(m.piece, m.to))
<1>0. /\ m.piece \in Pieces /\ m.castling = TRUE /\ m.promo = 0 /\ r.piece \in Pieces
  BY DEF BothMove
<1>1. MovedKey(b, m, undo, x.ep, x.castle) = Xor(Xor(Xor(b.key, mover), Xor({}, {})), Xor(Xor(rook, state), side_key))
  BY <1>0 DEF MovedKey
<1>2. ASSUME NEW n PROVE n \in MovedKey(b, m, undo, x.ep, x.castle) <=> n \in generate_hash_key(x)
  <2> DEFINE A == n \in PiecesKey(b.bb, Pieces)
  <2>1. n \in PiecesKey(new, Pieces) <=> ~(~(A <=> n \in mover) <=> n \in rook)
    <3> HIDE DEF r
    <3>1. n \in PiecesKey(new, Pieces) <=>
           ~(~(n \in PiecesKey(b.bb, Pieces) <=> ~(n \in Number(Pieces, m.piece, m.from) <=> n \in Number(Pieces, m.piece, m.to)))
             <=> ~(n \in Number(Pieces, r.piece, r.from) <=> n \in Number(Pieces, r.piece, r.to)))
      BY CastlingKey DEF r
    <3>2. \A p \in Pieces : \A s : Number(Pieces, p, s) = PieceKey(p, s)
      BY DEF Number
    <3> QED
      BY <3>1, <3>2, <1>0, XorIn
  <2>3. n \in b.key <=> ~(~(A <=> n \in EnpassantKey(b.ep)) <=> ~(n \in CastleKey(b.castle) <=> n \in IF b.side = black THEN side_key ELSE {}))
    BY XorIn DEF generate_hash_key
  <2>4. n \in generate_hash_key(x) <=>
          ~(~(n \in PiecesKey(new, Pieces) <=> n \in EnpassantKey(x.ep))
            <=> ~(n \in CastleKey(x.castle) <=> n \in IF 1 - b.side = black THEN side_key ELSE {}))
    BY XorIn DEF generate_hash_key
  <2>5. n \in state <=> ~(~(n \in EnpassantKey(b.ep) <=> n \in EnpassantKey(x.ep)) <=> ~(n \in CastleKey(b.castle) <=> n \in CastleKey(x.castle)))
    BY XorIn
  <2>6. n \in Xor(Xor(Xor(b.key, mover), Xor({}, {})), Xor(Xor(rook, state), side_key)) <=>
          ~(~(n \in b.key <=> n \in mover) <=> ~(~(n \in rook <=> n \in state) <=> n \in side_key))
    <3> HIDE DEF mover, rook, state
    <3> QED
      BY XorIn
  <2>7. n \in (IF 1 - b.side = black THEN side_key ELSE {}) <=> ~(n \in (IF b.side = black THEN side_key ELSE {}) <=> n \in side_key)
    BY SideKey
  <2> HIDE DEF A, mover, rook, state
  <2>8. n \in MovedKey(b, m, undo, x.ep, x.castle) <=>
          ~(~(n \in b.key <=> n \in mover) <=> ~(~(n \in rook <=> n \in state) <=> n \in side_key))
    BY <1>1, <2>6
  <2> QED
    BY <2>1, <2>3, <2>4, <2>5, <2>7, <2>8
<1> QED
  BY <1>2

-----------------------------------------------------------------------------
(* Rights and en passant after a move *)

\* Each castling right is of one side.
LEMMA SideOfRight ==
  ASSUME NEW idx \in Rights PROVE OfSide(idx) \in {white, black}
BY DEF Rights, OfSide, white, black

\* The rights left after a move that does not castle still name king and rook at home ...
LEMMA PlainRights ==
  ASSUME NEW b, b.bb \in Boards, b.side \in {white, black}, b.castle \in SUBSET Rights, NEW m, NEW v, NEW vs,
         PlainMove(b, m, v, vs), NEW new, Shifted(b.bb, new, m, vs), RightsSound(b, setup),
         NEW x, x.bb = new, x.castle = RightsLeft(b.castle, m)
  PROVE  RightsSound(x, setup)
<1> SUFFICES ASSUME NEW idx \in x.castle
             PROVE  /\ setup.king[OfSide(idx) + 1] \in new[Piece(OfSide(idx), King)]
                    /\ setup.rook[idx + 1] \in new[Piece(OfSide(idx), Rook)]
                    /\ idx \notin setup.mask[setup.king[OfSide(idx) + 1]]
                    /\ idx \notin setup.mask[setup.rook[idx + 1]]
                    /\ idx \in HomeRights(setup)
  BY DEF RightsSound
<1> DEFINE c == OfSide(idx)
           ks == setup.king[c + 1]
           rs == setup.rook[idx + 1]
<1>1. idx \in b.castle /\ idx \in Rights /\ idx \in setup.mask[m.from] /\ idx \in setup.mask[m.to]
  BY DEF RightsLeft
<1>2. ks \in b.bb[Piece(c, King)] /\ rs \in b.bb[Piece(c, Rook)] /\ idx \notin setup.mask[ks] /\ idx \notin setup.mask[rs]
      /\ idx \in HomeRights(setup)
  BY <1>1 DEF RightsSound
<1>3. c \in {white, black}
  BY <1>1, SideOfRight
<1> HIDE DEF c, ks, rs
<1>4. Piece(c, King) \in Pieces /\ Piece(c, Rook) \in Pieces
  BY <1>3, PieceOf DEF King, Rook
<1>5. ks \in Squares /\ rs \in Squares
  BY <1>2, <1>4 DEF Boards
<1>6. ks # m.from /\ ks # m.to /\ rs # m.from /\ rs # m.to
  BY <1>1, <1>2
<1>7. Piece(c, King) # Piece(1 - b.side, Pawn) /\ Piece(c, Rook) # Piece(1 - b.side, Pawn)
  BY <1>3 DEF Piece, King, Rook, Pawn, white, black
<1>8. ks # vs /\ rs # vs
  BY <1>2, <1>4, <1>5, <1>6, <1>7 DEF PlainMove, None, Squares
<1>9. ks \in new[Piece(c, King)] /\ rs \in new[Piece(c, Rook)]
  BY <1>2, <1>4, <1>5, <1>6, <1>8 DEF Shifted
<1> QED
  BY <1>2, <1>9 DEF c, ks, rs

\* ... and after castling.
LEMMA CastlingRights ==
  ASSUME NEW b, b.bb \in Boards, b.side \in {white, black}, b.castle \in SUBSET Rights, NEW m,
         BothMove(b, m, CastleRook(m)), m.from = castle_king_sq(b.side),
         NEW new, Castled(b.bb, new, m, CastleRook(m)), RightsSound(b, setup),
         NEW x, x.bb = new, x.castle = RightsLeft(b.castle, m)
  PROVE  RightsSound(x, setup)
<1> SUFFICES ASSUME NEW idx \in x.castle
             PROVE  /\ setup.king[OfSide(idx) + 1] \in new[Piece(OfSide(idx), King)]
                    /\ setup.rook[idx + 1] \in new[Piece(OfSide(idx), Rook)]
                    /\ idx \notin setup.mask[setup.king[OfSide(idx) + 1]]
                    /\ idx \notin setup.mask[setup.rook[idx + 1]]
                    /\ idx \in HomeRights(setup)
  BY DEF RightsSound
<1> DEFINE c == OfSide(idx)
           ks == setup.king[c + 1]
           rs == setup.rook[idx + 1]
           r == CastleRook(m)
<1>0. /\ m.from \in Squares /\ m.to \in Squares /\ r.from \in Squares /\ r.to \in Squares
      /\ m.piece \in Men(b.side) /\ r.piece \in Men(b.side)
      /\ \A p \in Pieces : m.from \in b.bb[p] <=> p = m.piece
      /\ \A p \in Pieces : r.from \in b.bb[p] <=> p = r.piece
      /\ \A s \in {m.to, r.to} : s # m.from /\ s # r.from => Free(b.bb, s)
  BY DEF BothMove
<1>1. idx \in b.castle /\ idx \in Rights /\ idx \in setup.mask[m.from] /\ idx \in setup.mask[m.to]
  BY DEF RightsLeft
<1>2. ks \in b.bb[Piece(c, King)] /\ rs \in b.bb[Piece(c, Rook)] /\ idx \notin setup.mask[ks] /\ idx \notin setup.mask[rs]
      /\ idx \in HomeRights(setup)
  BY <1>1 DEF RightsSound
<1>3. c \in {white, black}
  BY <1>1, SideOfRight
<1>4. c # b.side
  BY <1>1, <1>2 DEF castle_king_sq
<1>5. c = 1 - b.side
  BY <1>3, <1>4 DEF white, black
<1> HIDE DEF c, ks, rs, r
<1>6. Piece(c, King) \in Men(1 - b.side) /\ Piece(c, Rook) \in Men(1 - b.side)
  BY <1>3, <1>5, PieceOf DEF King, Rook
<1>7. ASSUME NEW p \in Men(1 - b.side), NEW s, s \in b.bb[p] PROVE s \in new[p]
  <2>1. p \in Pieces /\ p # m.piece /\ p # r.piece
    BY <1>0, MenIs
  <2>2. s \in Squares
    BY <1>7, <2>1 DEF Boards
  <2>3. s # m.from /\ s # r.from
    BY <1>0, <1>7, <2>1
  <2>4. s # m.to /\ s # r.to
    BY <1>0, <1>7, <2>1, <2>3 DEF Free
  <2> QED
    BY <1>7, <2>1, <2>2, <2>3, <2>4 DEF Castled, r
<1> QED
  BY <1>2, <1>6, <1>7 DEF c, ks, rs

\* The square behind a pawn that has jumped.
LEMMA JumpedEp ==
  ASSUME NEW b, b.bb \in Boards, b.side \in {white, black}, NEW m, NEW v, NEW vs,
         PlainMove(b, m, v, vs), FitPlain(b, m), v = None \/ m.capture, NEW new, Shifted(b.bb, new, m, vs),
         NEW x, x.bb = new, x.side = 1 - b.side,
         x.ep = IF m.double THEN EpSquare(new, b.side, m.to) ELSE no_sq
  PROVE  EpSound(x) /\ x.ep \in 0..64
<1> DEFINE behind == m.to - Up(b.side)
<1>1. CASE x.ep = no_sq
  BY <1>1 DEF EpSound, no_sq
<1>2. CASE x.ep # no_sq
  <2>1. /\ m.double /\ x.ep = behind
        /\ pawn_attacks[b.side][behind] \cap new[Piece(1 - b.side, Pawn)] # {}
    BY <1>2 DEF EpSquare
  <2>2. /\ m.piece = Piece(b.side, Pawn) /\ ~m.capture /\ m.promo = 0
        /\ behind \in Squares /\ Free(b.bb, behind)
        /\ Row(behind) = (IF b.side = white THEN 5 ELSE 2)
    BY <2>1 DEF FitPlain
  <2>3. 1 - x.side = b.side /\ x.ep - Up(x.side) = m.to /\ behind # m.to
    BY <2>1 DEF Up, white, black, PlainMove, Squares
  <2>4. m.to \in new[Piece(b.side, Pawn)]
    BY <2>2 DEF Shifted, Landed, PlainMove
  <2>5. Free(new, behind)
    BY <2>2, <2>3 DEF Free, Shifted
  <2>6. Row(behind) = (IF x.side = white THEN 2 ELSE 5)
    BY <2>2 DEF white, black
  <2>7. behind \in 0..64
    BY <2>2 DEF Squares
  <2> QED
    BY <2>1, <2>3, <2>4, <2>5, <2>6, <2>7 DEF EpSound
<1> QED
  BY <1>1, <1>2

-----------------------------------------------------------------------------
(* Make and unmake *)

\* What the copy for the unmake calls the captured piece is what the move takes.
LEMMA VictimIs ==
  ASSUME NEW b, NEW su, ThreadOK(b, su), NEW m, FitFrom(b, m), FitPlain(b, m)
  PROVE  Taking(b, m, UndoOf(b, m).captured_piece, UndoOf(b, m).captured_square)
<1>1. b \in ThreadBoards /\ b.bb \in Boards /\ b.side \in {white, black} /\ Disjoint(b.bb)
  BY DEF ThreadOK, BoardOK, ThreadBoards
<1>2. Mirrors(b.piece_on, b.bb)
  BY <1>1, MailboxIs DEF ThreadOK
<1>3. m.to \in Squares /\ m.capture \in BOOLEAN
  BY DEF FitFrom, Moves
<1>4. CASE ~m.capture
  BY <1>4 DEF UndoOf, Taking
<1>5. CASE m.capture /\ m.enpass
  <2>1. Piece(1 - b.side, Pawn) \in Men(1 - b.side) /\ Piece(1 - b.side, Pawn) \in Pieces
    <3>1. 1 - b.side \in {white, black} /\ Pawn \in 0..5
      BY <1>1 DEF white, black, Pawn
    <3> QED
      BY <3>1, PieceOf
  <2>2. m.to - Up(b.side) \in b.bb[Piece(1 - b.side, Pawn)]
    BY <1>5 DEF FitPlain
  <2>3. m.to - Up(b.side) \in Squares
    BY <1>1, <2>1, <2>2 DEF Boards
  <2> QED
    BY <1>5, <2>1, <2>2, <2>3 DEF UndoOf, Taking
<1>6. CASE m.capture /\ ~m.enpass
  <2>1. PICK p \in Men(1 - b.side) : m.to \in b.bb[p]
    BY <1>6 DEF FitPlain
  <2>2. p \in Pieces
    BY <1>1, <2>1, MenIs
  <2>3. b.piece_on[m.to] = p
    BY <1>2, <1>3, <2>1, <2>2 DEF Mirrors
  <2>4. UndoOf(b, m).captured_piece = p /\ UndoOf(b, m).captured_square = m.to
    BY <1>6, <2>1, <2>3 DEF UndoOf, Men
  <2> QED
    BY <1>3, <1>6, <2>1, <2>4 DEF Taking
<1> QED
  BY <1>4, <1>5, <1>6

\* What the parts of the make do to the parts of the board, and what takes them back.
MakeEffects(b, m, undo, su) ==
  LET new == MovedBoards(b, m, undo)
      on == td_mailbox_apply(b.piece_on, m, undo.captured_square, undo.captured_piece)
  IN  /\ new \in Boards
      /\ on \in [Squares -> Pieces \cup {None}] /\ Mirrors(on, new)
      /\ \A c \in {white, black} :
           td_occ_update(b.occ, b.side, m, undo.captured_square, undo.captured_piece)[c] = Occupied(new, c)
      /\ \A i \in KEY_PAWN..KEY_NP_B :
           td_keys_update(b.keys, m, undo.captured_square, undo.captured_piece)[i] = PartialKey(new, i)
      /\ CastlingBack(WithCaptured(Placed(Lifted(new, Landed(m), m.to), m.piece, m.from), undo), m, CastleRook(m)) = b.bb
      /\ td_mailbox_revert(on, m, undo.captured_square, undo.captured_piece) = b.piece_on

MakeLeaves(b, m, undo, su) ==
  \A x : /\ x.bb = MovedBoards(b, m, undo) /\ x.side = 1 - b.side
         /\ x.castle = RightsLeft(b.castle, m)
         /\ x.ep = IF m.double THEN EpSquare(MovedBoards(b, m, undo), b.side, m.to) ELSE no_sq
         => /\ MovedKey(b, m, undo, x.ep, x.castle) = generate_hash_key(x)
            /\ RightsSound(x, su) /\ EpSound(x) /\ x.ep \in 0..64

\* A sound board stays sound under td_make_move, and the record of the move holds what it overwrites (not castling) ...
LEMMA PlainMake ==
  ASSUME NEW b, ThreadOK(b, setup), NEW m, FitFrom(b, m), FitPlain(b, m)
  PROVE  MakeEffects(b, m, UndoOf(b, m), setup) /\ MakeLeaves(b, m, UndoOf(b, m), setup)
<1> DEFINE undo == UndoOf(b, m)
           v == undo.captured_piece
           vs == undo.captured_square
           new == MovedBoards(b, m, undo)
           on == td_mailbox_apply(b.piece_on, m, vs, v)
<1>1. /\ b \in ThreadBoards /\ b.bb \in Boards /\ b.side \in {white, black} /\ Disjoint(b.bb)
      /\ b.castle \in SUBSET Rights /\ b.piece_on \in [Squares -> Pieces \cup {None}]
      /\ RightsSound(b, setup) /\ b.key = generate_hash_key(b)
      /\ \A c \in {white, black} : b.occ[c] = Occupied(b.bb, c)
      /\ \A i \in KEY_PAWN..KEY_NP_B : b.keys[i] = PartialKey(b.bb, i)
  BY DEF ThreadOK, BoardOK, ThreadBoards
<1>2. Mirrors(b.piece_on, b.bb)
  BY <1>1, MailboxIs DEF ThreadOK
<1>3. Taking(b, m, v, vs)
  BY VictimIs
<1>4. m.promo \in Pieces
  BY DEF FitFrom, Moves
<1> HIDE DEF undo
<1>5. PlainMove(b, m, v, vs)
  BY <1>1, <1>3, PlainFacts
<1>6. Shifted(b.bb, new, m, vs)
  BY <1>1, <1>5, PlainMoves
<1> HIDE DEF new
<1>7. on \in [Squares -> Pieces \cup {None}] /\ Mirrors(on, new)
  BY <1>1, <1>2, <1>5, <1>6, PlainMailbox
<1>8. \A c \in {white, black} : td_occ_update(b.occ, b.side, m, vs, v)[c] = Occupied(new, c)
  BY <1>1, <1>5, <1>6, PlainOccupancy
<1>9. \A i \in KEY_PAWN..KEY_NP_B : td_keys_update(b.keys, m, vs, v)[i] = PartialKey(new, i)
  <2>1. KeysFollow(b, m, v, vs, new)
    BY <1>1, <1>4, <1>5, <1>6, PlainKeys
  <2> QED
    BY <2>1, <1>1 DEF KeysFollow
<1>10. CastlingBack(WithCaptured(Placed(Lifted(new, Landed(m), m.to), m.piece, m.from), undo), m, CastleRook(m)) = b.bb
  BY <1>1, <1>5, <1>6, PlainReturns
<1>11. td_mailbox_revert(on, m, vs, v) = b.piece_on
  BY <1>1, <1>2, <1>5, PlainMailboxBack
<1>12. MakeEffects(b, m, undo, setup)
  <2>1. new \in Boards
    BY <1>6 DEF Shifted
  <2> QED
    BY <2>1, <1>7, <1>8, <1>9, <1>10, <1>11 DEF MakeEffects, new
<1>13. ASSUME NEW x, x.bb = new, x.side = 1 - b.side, x.castle = RightsLeft(b.castle, m),
              x.ep = IF m.double THEN EpSquare(new, b.side, m.to) ELSE no_sq
       PROVE  /\ MovedKey(b, m, undo, x.ep, x.castle) = generate_hash_key(x)
              /\ RightsSound(x, setup) /\ EpSound(x) /\ x.ep \in 0..64
  <2>1. MovedKey(b, m, undo, x.ep, x.castle) = generate_hash_key(x)
    BY <1>1, <1>4, <1>5, <1>6, <1>13, PlainMovedKey
  <2>2. RightsSound(x, setup)
    BY <1>1, <1>5, <1>6, <1>13, PlainRights
  <2>3. v = None \/ m.capture
    BY <1>3 DEF Taking
  <2>4. EpSound(x) /\ x.ep \in 0..64
    <3>1. b.bb \in Boards /\ b.side \in {white, black}
      BY <1>1
    <3> HIDE DEF v, vs
    <3> QED
      BY <3>1, <1>5, <1>6, <1>13, <2>3, JumpedEp
  <2> QED
    BY <2>1, <2>2, <2>4
<1>14. MakeLeaves(b, m, undo, setup)
  BY <1>13 DEF MakeLeaves, new
<1> QED
  BY <1>12, <1>14 DEF undo

\* ... and castling.
LEMMA CastlingMake ==
  ASSUME NEW b, ThreadOK(b, setup), NEW m, FitFrom(b, m), FitCastling(b, m)
  PROVE  MakeEffects(b, m, UndoOf(b, m), setup) /\ MakeLeaves(b, m, UndoOf(b, m), setup)
<1> DEFINE undo == UndoOf(b, m)
           v == undo.captured_piece
           vs == undo.captured_square
           new == MovedBoards(b, m, undo)
           on == td_mailbox_apply(b.piece_on, m, vs, v)
           r == CastleRook(m)
<1>1. /\ b \in ThreadBoards /\ b.bb \in Boards /\ b.side \in {white, black} /\ Disjoint(b.bb)
      /\ b.castle \in SUBSET Rights /\ b.piece_on \in [Squares -> Pieces \cup {None}]
      /\ RightsSound(b, setup) /\ b.key = generate_hash_key(b)
      /\ \A c \in {white, black} : b.occ[c] = Occupied(b.bb, c)
      /\ \A i \in KEY_PAWN..KEY_NP_B : b.keys[i] = PartialKey(b.bb, i)
  BY DEF ThreadOK, BoardOK, ThreadBoards
<1>2. Mirrors(b.piece_on, b.bb)
  BY <1>1, MailboxIs DEF ThreadOK
<1>3. v = None
  BY DEF UndoOf, FitCastling
<1>4. ~m.double /\ m.from = castle_king_sq(b.side)
  BY DEF FitCastling
<1> HIDE DEF undo
<1>5. BothMove(b, m, r)
  BY <1>1, CastlingFacts
<1>6. Castled(b.bb, new, m, r)
  BY <1>1, <1>3, <1>5, CastlingMovesBoards
<1> HIDE DEF new
<1>7. on \in [Squares -> Pieces \cup {None}] /\ Mirrors(on, new)
  BY <1>1, <1>2, <1>5, <1>6, CastlingMailbox
<1>8. \A c \in {white, black} : td_occ_update(b.occ, b.side, m, vs, v)[c] = Occupied(new, c)
  BY <1>1, <1>3, <1>5, <1>6, CastlingOccupancy
<1>9. \A i \in KEY_PAWN..KEY_NP_B : td_keys_update(b.keys, m, vs, v)[i] = PartialKey(new, i)
  BY <1>1, <1>3, <1>5, <1>6, CastlingKeys
<1>10. CastlingBack(WithCaptured(Placed(Lifted(new, Landed(m), m.to), m.piece, m.from), undo), m, r) = b.bb
  BY <1>1, <1>3, <1>5, <1>6, CastlingReturns
<1>11. td_mailbox_revert(on, m, vs, v) = b.piece_on
  BY <1>1, <1>2, <1>5, CastlingMailboxBack
<1>12. MakeEffects(b, m, undo, setup)
  <2>1. new \in Boards
    BY <1>6 DEF Castled
  <2> QED
    BY <2>1, <1>7, <1>8, <1>9, <1>10, <1>11 DEF MakeEffects, new
<1>13. ASSUME NEW x, x.bb = new, x.side = 1 - b.side, x.castle = RightsLeft(b.castle, m), x.ep = no_sq
       PROVE  /\ MovedKey(b, m, undo, x.ep, x.castle) = generate_hash_key(x)
              /\ RightsSound(x, setup) /\ EpSound(x) /\ x.ep \in 0..64
  <2>1. MovedKey(b, m, undo, x.ep, x.castle) = generate_hash_key(x)
    BY <1>1, <1>3, <1>5, <1>6, <1>13, CastlingMovedKey
  <2>2. RightsSound(x, setup)
    BY <1>1, <1>4, <1>5, <1>6, <1>13, CastlingRights
  <2>3. EpSound(x) /\ x.ep \in 0..64
    BY <1>13 DEF EpSound, no_sq
  <2> QED
    BY <2>1, <2>2, <2>3
<1>14. MakeLeaves(b, m, undo, setup)
  BY <1>4, <1>13 DEF MakeLeaves, new
<1> QED
  BY <1>12, <1>14 DEF undo

\* The record of a board with what a make or an unmake writes.
LEMMA MadeType ==
  ASSUME NEW b \in ThreadBoards, NEW bb \in Boards, NEW ep \in 0..64, NEW castle \in SUBSET Rights,
         NEW side \in {white, black}, NEW fifty \in Nat, NEW key \in Keys, NEW occ \in [{white, black} -> SUBSET Squares],
         NEW keys \in [KEY_PAWN..KEY_NP_B -> Keys], NEW on \in [Squares -> Pieces \cup {None}]
  PROVE  [b EXCEPT !.bb = bb, !.ep = ep, !.castle = castle, !.side = side, !.fifty = fifty, !.key = key,
                   !.occ = occ, !.keys = keys, !.piece_on = on] \in ThreadBoards
BY DEF ThreadBoards

\* A board is what it was when every field has its old value.
LEMMA BackIs ==
  ASSUME NEW b \in ThreadBoards, NEW made \in ThreadBoards,
         made.plies_from_null = b.plies_from_null, made.rep = b.rep, made.ply = b.ply
  PROVE  [made EXCEPT !.side = b.side, !.bb = b.bb, !.castle = b.castle, !.ep = b.ep, !.keys = b.keys, !.key = b.key,
                      !.fifty = b.fifty, !.occ = b.occ, !.piece_on = b.piece_on] = b
BY DEF ThreadBoards

\* Every move that fits leaves a sound board, and taking it back gives the board of before.
Restores(b, m) ==
  \A made \in {MadeMove(b, m, UndoOf(b, m), MovedBoards(b, m, UndoOf(b, m)))} :
    ThreadOK(made, setup) /\ PutBack(made, m, UndoOf(b, m)) = b

\* A make and the take-back of it, or of a try that leaves the king in check, give the board back.
LEMMA MakeRestores ==
  ASSUME NEW b, ThreadOK(b, setup), NEW m, Fit(b, m)
  PROVE  Restores(b, m)
<1> DEFINE undo == UndoOf(b, m)
           v == undo.captured_piece
           vs == undo.captured_square
           new == MovedBoards(b, m, undo)
           on == td_mailbox_apply(b.piece_on, m, vs, v)
           made == MadeMove(b, m, undo, new)
<1>1. MakeEffects(b, m, undo, setup) /\ MakeLeaves(b, m, undo, setup)
  BY PlainMake, CastlingMake DEF Fit
<1>2. b \in ThreadBoards /\ b.side \in {white, black}
  BY DEF ThreadOK, ThreadBoards
<1>3. /\ undo.old_castle = b.castle /\ undo.old_enpassant = b.ep /\ undo.keys = b.keys /\ undo.key = b.key
      /\ undo.fifty = b.fifty /\ undo.occ = b.occ
  BY DEF UndoOf
<1> HIDE DEF undo
<1>4. /\ new \in Boards
      /\ on \in [Squares -> Pieces \cup {None}] /\ Mirrors(on, new)
      /\ \A c \in {white, black} : td_occ_update(b.occ, b.side, m, vs, v)[c] = Occupied(new, c)
      /\ \A i \in KEY_PAWN..KEY_NP_B : td_keys_update(b.keys, m, vs, v)[i] = PartialKey(new, i)
      /\ CastlingBack(WithCaptured(Placed(Lifted(new, Landed(m), m.to), m.piece, m.from), undo), m, CastleRook(m)) = b.bb
      /\ td_mailbox_revert(on, m, vs, v) = b.piece_on
  BY <1>1 DEF MakeEffects
<1>5. ASSUME NEW x, x.bb = new, x.side = 1 - b.side, x.castle = RightsLeft(b.castle, m),
             x.ep = IF m.double THEN EpSquare(new, b.side, m.to) ELSE no_sq
      PROVE  /\ MovedKey(b, m, undo, x.ep, x.castle) = generate_hash_key(x)
             /\ RightsSound(x, setup) /\ EpSound(x) /\ x.ep \in 0..64
  BY <1>1, <1>5 DEF MakeLeaves
<1> HIDE DEF new, on
<1>6. /\ DOMAIN made = DOMAIN b
      /\ made.bb = new /\ made.side = 1 - b.side /\ made.castle = RightsLeft(b.castle, m)
      /\ made.ep = (IF m.double THEN EpSquare(new, b.side, m.to) ELSE no_sq)
      /\ made.fifty = (IF Type(m.piece) = Pawn \/ m.capture THEN 0 ELSE b.fifty + 1)
      /\ made.occ = td_occ_update(b.occ, b.side, m, vs, v)
      /\ made.keys = td_keys_update(b.keys, m, vs, v)
      /\ made.piece_on = on
      /\ made.plies_from_null = b.plies_from_null /\ made.rep = b.rep /\ made.ply = b.ply
  BY <1>2 DEF MadeMove, MadeBoard, ThreadBoards, on
<1>7. made.key = MovedKey(b, m, undo, made.ep, made.castle)
  BY <1>2 DEF MadeMove, MadeBoard, ThreadBoards
<1>a. made = [b EXCEPT !.bb = new, !.ep = IF m.double THEN EpSquare(new, b.side, m.to) ELSE no_sq,
                       !.castle = RightsLeft(b.castle, m), !.side = 1 - b.side,
                       !.fifty = IF Type(m.piece) = Pawn \/ m.capture THEN 0 ELSE b.fifty + 1,
                       !.key = MovedKey(b, m, undo, IF m.double THEN EpSquare(new, b.side, m.to) ELSE no_sq, RightsLeft(b.castle, m)),
                       !.occ = td_occ_update(b.occ, b.side, m, vs, v),
                       !.keys = td_keys_update(b.keys, m, vs, v), !.piece_on = on]
  BY DEF MadeMove, MadeBoard, on
<1> HIDE DEF made
<1>8. /\ made.key = generate_hash_key(made)
      /\ RightsSound(made, setup) /\ EpSound(made) /\ made.ep \in 0..64
  BY <1>5, <1>6, <1>7
<1>9. made.piece_on = mailbox_of(made.bb) /\ Disjoint(made.bb)
  BY <1>4, <1>6, MirroredDisjoint, MirrorsIsMailbox
<1>10. made \in ThreadBoards
  <2>1. 1 - b.side \in {white, black} /\ b.castle \in SUBSET Rights /\ b.fifty \in Nat
    BY <1>2 DEF ThreadBoards, white, black
  <2>2. made.castle \in SUBSET Rights
    BY <1>6, <2>1 DEF RightsLeft
  <2>3. made.fifty \in Nat
    BY <1>6, <2>1
  <2>4. made.occ \in [{white, black} -> SUBSET Squares]
    <3>1. made.occ = [o \in {white, black} |-> Occupied(new, o)]
      BY <1>4, <1>6 DEF td_occ_update
    <3>2. \A o \in {white, black} : Occupied(new, o) \in SUBSET Squares
      BY <1>4, OccupiedIs
    <3> QED
      BY <3>1, <3>2
  <2>5. made.keys \in [KEY_PAWN..KEY_NP_B -> Keys]
    <3>1. made.keys = [i \in KEY_PAWN..KEY_NP_B |-> PartialKey(new, i)]
      BY <1>4, <1>6 DEF td_keys_update
    <3>2. \A i \in KEY_PAWN..KEY_NP_B : PartialKey(new, i) \in Keys
      BY <1>4, PiecesKeyType DEF PartialKey
    <3> QED
      BY <3>1, <3>2
  <2>6. made.key \in Keys
    <3>1. PiecesKey(new, Pieces) \in Keys
      BY <1>4, PiecesKeyType
    <3>2. EnpassantKey(made.ep) \in Keys /\ CastleKey(made.castle) \in Keys /\ side_key \in Keys
      BY <1>8 DEF EnpassantKey, CastleKey, side_key, Keys
    <3> QED
      BY <1>6, <1>8, <3>1, <3>2 DEF generate_hash_key, Keys, Xor
  <2>7. made = [b EXCEPT !.bb = made.bb, !.ep = made.ep, !.castle = made.castle, !.side = made.side, !.fifty = made.fifty,
                         !.key = made.key, !.occ = made.occ, !.keys = made.keys, !.piece_on = made.piece_on]
    BY <1>a, <1>6, <1>7
  <2>8. /\ made.bb \in Boards /\ made.ep \in 0..64 /\ made.side \in {white, black}
        /\ made.piece_on \in [Squares -> Pieces \cup {None}]
    BY <1>4, <1>6, <1>8, <2>1
  <2> QED
    <3>1. [b EXCEPT !.bb = made.bb, !.ep = made.ep, !.castle = made.castle, !.side = made.side, !.fifty = made.fifty,
                    !.key = made.key, !.occ = made.occ, !.keys = made.keys, !.piece_on = made.piece_on] \in ThreadBoards
      BY ONLY <1>2, <2>2, <2>3, <2>4, <2>5, <2>6, <2>8 DEF ThreadBoards
    <3> QED
      BY ONLY <2>7, <3>1
<1>11. ThreadOK(made, setup)
  BY <1>4, <1>6, <1>8, <1>9, <1>10 DEF ThreadOK, BoardOK
<1>12. PutBack(made, m, undo) = b
  <2>1. PutBack(made, m, undo)
          = [made EXCEPT !.side = 1 - made.side,
               !.bb = CastlingBack(WithCaptured(Placed(Lifted(made.bb, Landed(m), m.to), m.piece, m.from), undo), m, CastleRook(m)),
               !.castle = undo.old_castle, !.ep = undo.old_enpassant, !.keys = undo.keys, !.key = undo.key,
               !.fifty = undo.fifty, !.occ = undo.occ, !.piece_on = td_mailbox_revert(made.piece_on, m, vs, v)]
    BY DEF PutBack, Landed
  <2>2. 1 - made.side = b.side
    BY <1>2, <1>6 DEF white, black
  <2>3. PutBack(made, m, undo)
          = [made EXCEPT !.side = b.side, !.bb = b.bb, !.castle = b.castle, !.ep = b.ep, !.keys = b.keys, !.key = b.key,
                      !.fifty = b.fifty, !.occ = b.occ, !.piece_on = b.piece_on]
    BY <1>3, <1>4, <1>6, <2>1, <2>2
  <2> QED
    BY <1>2, <1>6, <1>10, <2>3, BackIs
<1> QED
  BY <1>11, <1>12 DEF Restores, made, new, undo

-----------------------------------------------------------------------------
(* Into a child and back *)

\* A sequence without what was appended.
LEMMA FrontOfAppend ==
  ASSUME NEW S, NEW s \in Seq(S), NEW e \in S
  PROVE  /\ Append(s, e) \in Seq(S) /\ Len(Append(s, e)) = Len(s) + 1
         /\ SubSeq(Append(s, e), 1, Len(Append(s, e)) - 1) = s
<1>1. Append(s, e) \in Seq(S) /\ Len(Append(s, e)) = Len(s) + 1
  OBVIOUS
<1>2. SubSeq(Append(s, e), 1, Len(s)) = s
  OBVIOUS
<1> QED
  BY <1>1, <1>2

\* A board with another history of keys and another ply.
LEMMA PushedIs ==
  ASSUME NEW b, NEW su, ThreadOK(b, su)
  PROVE  ThreadOK(Pushed(b), su) /\ Popped(Pushed(b)) = b
<1>1. b \in ThreadBoards
  BY DEF ThreadOK
<1>2. b.rep \in Seq(Keys) /\ b.key \in Keys /\ b.ply \in Int
  BY <1>1 DEF ThreadBoards
<1>3. Append(b.rep, b.key) \in Seq(Keys) /\ SubSeq(Append(b.rep, b.key), 1, Len(Append(b.rep, b.key)) - 1) = b.rep
  BY <1>2, FrontOfAppend
<1> DEFINE p == Pushed(b)
<1>4. p \in ThreadBoards
  <2>1. \A R \in Seq(Keys), n \in Int : [b EXCEPT !.rep = R, !.ply = n] \in ThreadBoards
    BY <1>1 DEF ThreadBoards
  <2>2. p = [b EXCEPT !.rep = Append(b.rep, b.key), !.ply = b.ply + 1] /\ b.ply + 1 \in Int
    BY <1>2 DEF Pushed
  <2> QED
    BY <2>1, <2>2, <1>3
<1>5. /\ p.bb = b.bb /\ p.occ = b.occ /\ p.side = b.side /\ p.ep = b.ep /\ p.castle = b.castle /\ p.fifty = b.fifty
      /\ p.key = b.key /\ p.keys = b.keys /\ p.piece_on = b.piece_on /\ p.plies_from_null = b.plies_from_null
      /\ p.rep = Append(b.rep, b.key) /\ p.ply = b.ply + 1
  BY <1>1 DEF Pushed, ThreadBoards
<1>6. Popped(p) = b
  <2>1. Popped(p) = [p EXCEPT !.rep = SubSeq(p.rep, 1, Len(p.rep) - 1), !.ply = p.ply - 1]
    BY DEF Popped
  <2>2. SubSeq(p.rep, 1, Len(p.rep) - 1) = b.rep /\ p.ply - 1 = b.ply
    BY <1>2, <1>3, <1>5
  <2> HIDE DEF p
  <2>3. [p EXCEPT !.rep = b.rep, !.ply = b.ply] = b
    BY <1>1, <1>4, <1>5 DEF ThreadBoards
  <2> QED
    BY <2>1, <2>2, <2>3
<1> HIDE DEF p
<1>7. EpSound(p) /\ RightsSound(p, su) /\ p.key = generate_hash_key(p)
  BY <1>5 DEF ThreadOK, BoardOK, EpSound, RightsSound, generate_hash_key
<1>8. ThreadOK(p, su)
  BY <1>4, <1>5, <1>7 DEF ThreadOK, BoardOK
<1> QED
  BY <1>6, <1>8 DEF p

\* A move fits the board also after its key has gone to the repetition stack.
LEMMA PushedFits ==
  ASSUME NEW b, b \in ThreadBoards, NEW m, Fit(b, m) PROVE Fit(Pushed(b), m)
<1>1. Pushed(b).bb = b.bb /\ Pushed(b).side = b.side /\ Pushed(b).ep = b.ep /\ Pushed(b).castle = b.castle
  BY DEF Pushed, ThreadBoards
<1> QED
  BY <1>1 DEF Fit, FitFrom, FitPlain, FitCastling, PawnWay

\* The count of plies since the last null move plays no part in what is put back.
Counted(x, n) == [x EXCEPT !.plies_from_null = n]

\* The count of plies since a null move has no part in the soundness of a board.
LEMMA CountedIs ==
  ASSUME NEW x \in ThreadBoards, NEW n \in Nat
  PROVE  /\ Counted(x, n) \in ThreadBoards
         /\ \A su : ThreadOK(x, su) => ThreadOK(Counted(x, n), su)
<1> DEFINE y == Counted(x, n)
<1>1. y \in ThreadBoards
  BY DEF Counted, ThreadBoards
<1>2. /\ y.bb = x.bb /\ y.occ = x.occ /\ y.side = x.side /\ y.ep = x.ep /\ y.castle = x.castle
      /\ y.key = x.key /\ y.keys = x.keys /\ y.piece_on = x.piece_on
  BY DEF Counted, ThreadBoards
<1> HIDE DEF y
<1>3. ASSUME NEW su, ThreadOK(x, su) PROVE ThreadOK(y, su)
  <2>1. EpSound(y) /\ RightsSound(y, su) /\ y.key = generate_hash_key(y)
    BY <1>2, <1>3 DEF ThreadOK, BoardOK, EpSound, RightsSound, generate_hash_key
  <2> QED
    BY <1>1, <1>2, <1>3, <2>1 DEF ThreadOK, BoardOK
<1> QED
  BY <1>1, <1>3 DEF y

\* td_unmake_move gives that count back, too.
LEMMA CountedBack ==
  ASSUME NEW b \in ThreadBoards, NEW made \in ThreadBoards, NEW n \in Nat, NEW m, NEW undo,
         PutBack(made, m, undo) = b, undo.plies_from_null = b.plies_from_null
  PROVE  td_unmake_move(Counted(made, n), m, undo) = b
<1> DEFINE x == Counted(made, n)
           back == PutBack(x, m, undo)
<1>1. /\ x \in ThreadBoards
      /\ x.bb = made.bb /\ x.side = made.side /\ x.piece_on = made.piece_on
      /\ x.rep = made.rep /\ x.ply = made.ply
  BY DEF Counted, ThreadBoards
<1>2. /\ b.side = 1 - made.side /\ b.castle = undo.old_castle /\ b.ep = undo.old_enpassant /\ b.keys = undo.keys
      /\ b.key = undo.key /\ b.fifty = undo.fifty /\ b.occ = undo.occ /\ b.rep = made.rep /\ b.ply = made.ply
      /\ b.bb = CastlingBack(WithCaptured(Placed(Lifted(made.bb, Landed(m), m.to), m.piece, m.from), undo), m, CastleRook(m))
      /\ b.piece_on = td_mailbox_revert(made.piece_on, m, undo.captured_square, undo.captured_piece)
  BY DEF PutBack, ThreadBoards, Landed
<1> HIDE DEF x
<1>3. back = [x EXCEPT !.side = b.side, !.bb = b.bb, !.castle = b.castle, !.ep = b.ep, !.keys = b.keys, !.key = b.key,
                       !.fifty = b.fifty, !.occ = b.occ, !.piece_on = b.piece_on]
  BY <1>1, <1>2 DEF PutBack, Landed
<1>4. td_unmake_move(x, m, undo) = [back EXCEPT !.plies_from_null = b.plies_from_null]
  BY DEF td_unmake_move
<1>5. [[x EXCEPT !.side = b.side, !.bb = b.bb, !.castle = b.castle, !.ep = b.ep, !.keys = b.keys, !.key = b.key,
                       !.fifty = b.fifty, !.occ = b.occ, !.piece_on = b.piece_on] EXCEPT !.plies_from_null = b.plies_from_null] = b
  <2>1. x.rep = b.rep /\ x.ply = b.ply
    BY <1>1, <1>2
  <2> QED
    BY ONLY <1>1, <2>1, b \in ThreadBoards DEF ThreadBoards
<1> QED
  BY <1>3, <1>4, <1>5 DEF x

\* A move tried: made, it leaves a sound board that the step out turns back; refused, it leaves the board it found.
LEMMA StepInIs ==
  ASSUME NEW b, ThreadOK(b, setup), NEW m, Fit(b, m), NEW listed
  PROVE  \A r \in {step_in(b, m, listed)} :
           /\ r.made => ThreadOK(r.td, setup) /\ step_out(r.td, m, r.undo) = b
           /\ ~r.made => r.td = b
<1> DEFINE p == Pushed(b)
           undo == UndoOf(p, m)
           made == MadeMove(p, m, undo, MovedBoards(p, m, undo))
           known == (listed \/ ~InCheck(b)) /\ ~(g_chess960 /\ m.castling)
           legal == known \/ ~LeavesKing(made)
           n == made.plies_from_null + 1
           r == step_in(b, m, listed)
<1>1. ThreadOK(p, setup) /\ Popped(p) = b /\ Fit(p, m) /\ p \in ThreadBoards
  BY PushedIs, PushedFits DEF ThreadOK
<1>2. ThreadOK(made, setup) /\ PutBack(made, m, undo) = p
  <2>1. Restores(p, m)
    BY <1>1, MakeRestores
  <2> QED
    BY <2>1 DEF Restores
<1>3. undo.plies_from_null = p.plies_from_null
  BY DEF UndoOf
<1>4. r = Stepped([made |-> legal, undo |-> undo,
                   td |-> IF legal THEN [made EXCEPT !.plies_from_null = made.plies_from_null + 1] ELSE PutBack(made, m, undo)])
  BY DEF step_in, td_make_move, MakeWith, Tested, Verdict
<1> HIDE DEF p, undo, made, legal, r
<1>5. r.made = legal /\ r.undo = undo /\ r.td = (IF legal THEN Counted(made, n) ELSE Popped(p))
  BY <1>2, <1>4 DEF Stepped, Counted
<1>6. made \in ThreadBoards /\ n \in Nat
  BY <1>2 DEF ThreadOK, ThreadBoards
<1>7. ThreadOK(Counted(made, n), setup)
  BY <1>2, <1>6, CountedIs
<1>8. td_unmake_move(Counted(made, n), m, undo) = p
  BY <1>1, <1>2, <1>3, <1>6, CountedBack
<1>9. step_out(Counted(made, n), m, undo) = b
  BY <1>1, <1>8 DEF step_out
<1> QED
  BY <1>1, <1>5, <1>7, <1>9 DEF r

\* A null move keeps a board sound, and step_out_null takes it back exactly.
LEMMA StepInNullIs ==
  ASSUME NEW b, NEW su, ThreadOK(b, su)
  PROVE  ThreadOK(step_in_null(b), su) /\ step_out_null(step_in_null(b), NullUndo(b)) = b
<1> DEFINE p == Pushed(b)
           x == step_in_null(b)
           u == NullUndo(b)
<1>1. ThreadOK(p, su) /\ Popped(p) = b
  BY PushedIs
<1>2. p \in ThreadBoards /\ b \in ThreadBoards
  BY <1>1 DEF ThreadOK
<1>3. p.ep = b.ep /\ p.fifty = b.fifty /\ p.plies_from_null = b.plies_from_null /\ p.key = b.key /\ p.side = b.side
  BY <1>2 DEF Pushed, ThreadBoards
<1>4. x = [p EXCEPT !.key = Xor(Xor(p.key, EnpassantKey(b.ep)), side_key), !.ep = no_sq, !.side = 1 - p.side,
                    !.plies_from_null = 0]
  BY DEF step_in_null
<1> HIDE DEF p, x
<1>5. Xor(Xor(p.key, EnpassantKey(b.ep)), side_key) \in Keys
  <2>1. p.key \in Keys /\ EnpassantKey(b.ep) \in Keys /\ side_key \in Keys
    <3>1. p.key \in Keys /\ b.ep \in 0..64
      BY <1>2 DEF ThreadBoards
    <3>2. 768 + b.ep \in Nat
      BY <3>1
    <3> QED
      BY <3>1, <3>2 DEF EnpassantKey, side_key, Keys
  <2> QED
    BY <2>1 DEF Keys, Xor
<1>6. 1 - p.side \in {white, black} /\ 1 - (1 - p.side) = p.side /\ no_sq \in 0..64
  BY <1>2 DEF ThreadBoards, white, black, no_sq
<1>7. /\ x \in ThreadBoards
      /\ x.key = Xor(Xor(p.key, EnpassantKey(p.ep)), side_key) /\ x.ep = no_sq /\ x.side = 1 - p.side
      /\ x.bb = p.bb /\ x.occ = p.occ /\ x.castle = p.castle /\ x.keys = p.keys /\ x.piece_on = p.piece_on
      /\ x.rep = p.rep /\ x.ply = p.ply /\ x.fifty = p.fifty
  BY <1>2, <1>3, <1>4, <1>5, <1>6 DEF ThreadBoards
<1>8. x.key = generate_hash_key(x)
  <2>1. p.key = generate_hash_key(p)
    BY <1>1 DEF ThreadOK, BoardOK
  <2>2. EnpassantKey(x.ep) = {}
    BY <1>7 DEF EnpassantKey
  <2>3. ASSUME NEW n
        PROVE  n \in x.key <=> n \in generate_hash_key(x)
    <3>1. n \in (IF x.side = black THEN side_key ELSE {}) <=> ~(n \in (IF p.side = black THEN side_key ELSE {}) <=> n \in side_key)
      BY <1>2, <1>7, SideKey DEF ThreadBoards
    <3> QED
      BY <1>7, <2>1, <2>2, <3>1, XorIn DEF generate_hash_key
  <2> QED
    BY <2>3
<1>9. ThreadOK(x, su)
  <2>1. EpSound(x) /\ RightsSound(x, su)
    BY <1>1, <1>7 DEF ThreadOK, BoardOK, EpSound, RightsSound
  <2> QED
    BY <1>1, <1>7, <1>8, <2>1 DEF ThreadOK, BoardOK
<1>10. step_out_null(x, u) = b
  <2>1. step_out_null(x, u) = [[x EXCEPT !.rep = SubSeq(x.rep, 1, Len(x.rep) - 1), !.ply = x.ply - 1]
                                 EXCEPT !.side = 1 - x.side, !.ep = p.ep, !.fifty = p.fifty,
                                        !.plies_from_null = p.plies_from_null, !.key = p.key]
    BY <1>3, <1>7 DEF step_out_null, Popped, NullUndo, ThreadBoards
  <2>2. Popped(p) = [p EXCEPT !.rep = SubSeq(x.rep, 1, Len(x.rep) - 1), !.ply = x.ply - 1]
    BY <1>7 DEF Popped
  <2>3. [[x EXCEPT !.rep = SubSeq(x.rep, 1, Len(x.rep) - 1), !.ply = x.ply - 1]
                                 EXCEPT !.side = 1 - x.side, !.ep = p.ep, !.fifty = p.fifty,
                                        !.plies_from_null = p.plies_from_null, !.key = p.key]
          = [p EXCEPT !.rep = SubSeq(x.rep, 1, Len(x.rep) - 1), !.ply = x.ply - 1]
    BY <1>2, <1>6, <1>7 DEF ThreadBoards
  <2> QED
    BY <1>1, <2>1, <2>2, <2>3
<1> QED
  BY <1>9, <1>10 DEF x

-----------------------------------------------------------------------------
(* The moves tried fit *)

\* What a position is for the moves: a board whose side has passed is one, too.
Ready(b) ==
  /\ b.bb \in Boards /\ b.side \in {white, black} /\ b.ep \in 0..64 /\ b.castle \in SUBSET Rights
  /\ Disjoint(b.bb) /\ EpSound(b) /\ RightsSound(b, setup)
  /\ \A c \in {white, black} : b.occ[c] = Occupied(b.bb, c)

HomeSetup == g_chess960 \in BOOLEAN /\ (~g_chess960 => setup = standard_setup)

\* A sound board is ready, and so is the same board with the side passed.
LEMMA ThreadIsReady ==
  ASSUME NEW b, ThreadOK(b, setup)
  PROVE  Ready(b) /\ Ready(Passed(b))
<1>1. b \in ThreadBoards /\ BoardOK(b, setup)
  BY DEF ThreadOK
<1>2. Ready(b)
  BY <1>1 DEF Ready, BoardOK, ThreadBoards
<1> DEFINE p == Passed(b)
<1>3. p.bb = b.bb /\ p.side = 1 - b.side /\ p.ep = no_sq /\ p.castle = b.castle /\ p.occ = b.occ
  BY <1>1 DEF Passed, ThreadBoards
<1> HIDE DEF p
<1>4. p.side \in {white, black} /\ p.ep \in 0..64
  BY <1>2, <1>3 DEF Ready, white, black, no_sq
<1>5. EpSound(p) /\ RightsSound(p, setup)
  BY <1>2, <1>3 DEF Ready, EpSound, RightsSound
<1>6. Ready(p)
  BY <1>2, <1>3, <1>4, <1>5 DEF Ready
<1> QED
  BY <1>2, <1>6 DEF p

\* The occupancies tell what stands on a square.
LEMMA ReadyOccupied ==
  ASSUME NEW b, Ready(b)
  PROVE  /\ \A s : s \in b.occ[b.side] <=> \E p \in Men(b.side) : s \in b.bb[p]
         /\ \A s : s \in b.occ[1 - b.side] <=> \E p \in Men(1 - b.side) : s \in b.bb[p]
         /\ \A s : s \notin b.occ[white] \cup b.occ[black] => Free(b.bb, s)
         /\ \A s : Free(b.bb, s) => \A p \in Men(b.side) : s \notin b.bb[p]
<1>1. b.side \in {white, black} /\ 1 - b.side \in {white, black}
  BY DEF Ready, white, black
<1>2. \A c \in {white, black} : \A s : s \in b.occ[c] <=> \E p \in Men(c) : s \in b.bb[p]
  BY OccupiedIn DEF Ready
<1>3. \A p \in Pieces : p \in Men(white) \/ p \in Men(black)
  BY MenIs DEF Pieces
<1>4. \A s : s \notin b.occ[white] \cup b.occ[black] => Free(b.bb, s)
  BY <1>2, <1>3 DEF Free
<1>5. \A s : Free(b.bb, s) => \A p \in Men(b.side) : s \notin b.bb[p]
  BY <1>1, MenIs DEF Free
<1> QED
  BY <1>1, <1>2, <1>4, <1>5

\* The pieces of the side to move.
LEMMA SidePieces ==
  ASSUME NEW b, Ready(b)
  PROVE  /\ \A t \in 0..5 : Piece(b.side, t) \in Men(b.side) /\ Piece(b.side, t) \in Pieces
         /\ \A t \in 0..5 : b.bb[Piece(b.side, t)] \subseteq Squares
         /\ \A p \in Men(b.side) : p \in Pieces
<1>1. b.side \in {white, black} /\ b.bb \in Boards
  BY DEF Ready
<1>2. \A t \in 0..5 : Piece(b.side, t) \in Men(b.side) /\ Piece(b.side, t) \in Pieces
  BY <1>1, PieceOf
<1> QED
  BY <1>1, <1>2, MenIs DEF Boards

\* A piece other than a pawn goes where it attacks.
LEMMA SimpleFits ==
  ASSUME NEW b, Ready(b), NEW t \in 1..5, NEW from \in b.bb[Piece(b.side, t)], NEW to \in Squares, to \notin b.occ[b.side]
  PROVE  Fit(b, Simple(from, to, Piece(b.side, t), to \in b.occ[1 - b.side]))
<1> DEFINE m == Simple(from, to, Piece(b.side, t), to \in b.occ[1 - b.side])
<1>1. /\ m.from = from /\ m.to = to /\ m.piece = Piece(b.side, t) /\ m.promo = 0 /\ m.capture = (to \in b.occ[1 - b.side])
      /\ m.double = FALSE /\ m.enpass = FALSE /\ m.castling = FALSE
  BY DEF Simple, encode_move
<1>2. m.piece \in Men(b.side) /\ m.piece \in Pieces /\ m.from \in Squares
  BY <1>1, SidePieces
<1>3. m \in Moves
  <2>1. (to \in b.occ[1 - b.side]) \in BOOLEAN /\ 0 \in Pieces
    BY DEF Pieces
  <2> QED
    BY <1>1, <1>2, <2>1 DEF Moves, Simple, encode_move
<1> HIDE DEF m
<1>4. \A p \in Men(b.side) : m.to \notin b.bb[p]
  BY <1>1, ReadyOccupied
<1>5. ~m.capture => Free(b.bb, m.to)
  <2>1. b.side \in {white, black}
    BY DEF Ready
  <2>2. ~m.capture => to \notin b.occ[white] \cup b.occ[black]
    <3>1. ~m.capture => to \notin b.occ[1 - b.side]
      BY <1>1
    <3>2. (b.side = white /\ 1 - b.side = black) \/ (b.side = black /\ 1 - b.side = white)
      BY <2>1 DEF white, black
    <3> QED
      BY <3>1, <3>2
  <2> QED
    BY <1>1, <2>2, ReadyOccupied
<1>6. m.capture => \E p \in Men(1 - b.side) : m.to \in b.bb[p]
  BY <1>1, ReadyOccupied
<1>7. m.piece # Piece(b.side, Pawn)
  BY <1>1, PieceOf DEF Pawn, Ready
<1>8. FitFrom(b, m) /\ FitPlain(b, m)
  BY <1>1, <1>2, <1>3, <1>4, <1>5, <1>6, <1>7 DEF FitFrom, FitPlain
<1> QED
  BY <1>8 DEF Fit, m

\* The three ways of a pawn.
LEMMA ArrivalsFit ==
  ASSUME NEW b, Ready(b), NEW from \in b.bb[Piece(b.side, Pawn)], NEW to \in Squares, NEW capture \in BOOLEAN,
         IF capture THEN to \in b.occ[1 - b.side] /\ to \notin b.occ[b.side] /\ to \in pawn_attacks[b.side][from]
                    ELSE Free(b.bb, to) /\ to = from + Up(b.side),
         NEW m \in PawnArrivals(from, to, b.side, capture)
  PROVE  Fit(b, m)
<1>1. PICK q \in (IF Row(from) = SeventhRow(b.side) THEN Promoted(b.side) ELSE {0}) :
        m = encode_move(from, to, Piece(b.side, Pawn), q, capture, FALSE, FALSE, FALSE)
  BY DEF PawnArrivals
<1>2. /\ m.from = from /\ m.to = to /\ m.piece = Piece(b.side, Pawn) /\ m.promo = q /\ m.capture = capture
      /\ m.double = FALSE /\ m.enpass = FALSE /\ m.castling = FALSE
  BY <1>1 DEF encode_move
<1>3. q \in Pieces /\ (q # 0 => q \in Promoted(b.side))
  <2>1. Promoted(b.side) \subseteq Pieces
    BY PieceOf DEF Ready, Promoted, Queen, Rook, Bishop, Knight
  <2> QED
    BY <1>1, <2>1 DEF Pieces
<1>4. Pawn \in 0..5
  BY DEF Pawn
<1>5. m.piece \in Men(b.side) /\ m.piece \in Pieces /\ m.from \in Squares
  BY <1>2, <1>4, SidePieces
<1>6. m \in Moves
  BY <1>1, <1>2, <1>3, <1>5 DEF Moves, encode_move
<1>7. \A p \in Men(b.side) : m.to \notin b.bb[p]
  BY <1>2, ReadyOccupied
<1>8. m.capture => \E p \in Men(1 - b.side) : m.to \in b.bb[p]
  BY <1>2, ReadyOccupied
<1>9. PawnWay(b, m)
  BY <1>2 DEF PawnWay
<1>10. FitFrom(b, m) /\ FitPlain(b, m)
  BY <1>2, <1>3, <1>5, <1>6, <1>7, <1>8, <1>9 DEF FitFrom, FitPlain
<1> QED
  BY <1>10 DEF Fit

\* The double step of a pawn fits.
LEMMA JumpFits ==
  ASSUME NEW b, Ready(b), NEW from \in b.bb[Piece(b.side, Pawn)], from + 2 * Up(b.side) \in Squares,
         Row(from) = SecondRow(b.side), Free(b.bb, from + Up(b.side)), Free(b.bb, from + 2 * Up(b.side))
  PROVE  Fit(b, encode_move(from, from + 2 * Up(b.side), Piece(b.side, Pawn), 0, FALSE, TRUE, FALSE, FALSE))
<1> DEFINE to == from + 2 * Up(b.side)
           m == encode_move(from, to, Piece(b.side, Pawn), 0, FALSE, TRUE, FALSE, FALSE)
<1>1. /\ m.from = from /\ m.to = to /\ m.piece = Piece(b.side, Pawn) /\ m.promo = 0 /\ m.capture = FALSE
      /\ m.double = TRUE /\ m.enpass = FALSE /\ m.castling = FALSE
  BY DEF encode_move
<1>2. Pawn \in 0..5 /\ 0 \in Pieces
  BY DEF Pawn, Pieces
<1>3. m.piece \in Men(b.side) /\ m.piece \in Pieces /\ from \in Squares
  BY <1>1, <1>2, SidePieces
<1>4. m \in Moves
  BY <1>2, <1>3 DEF Moves, encode_move
<1>5. b.side \in {white, black}
  BY DEF Ready
<1>6. /\ to - Up(b.side) = from + Up(b.side) /\ to - Up(b.side) \in Squares
      /\ Row(to - Up(b.side)) = (IF b.side = white THEN 5 ELSE 2)
  <2>1. CASE b.side = white
    BY <2>1, <1>3 DEF Up, SecondRow, Row, Squares, white, black
  <2>2. CASE b.side = black
    BY <2>2, <1>3 DEF Up, SecondRow, Row, Squares, white, black
  <2> QED
    BY <1>5, <2>1, <2>2
<1>7. \A p \in Men(b.side) : to \notin b.bb[p]
  BY ReadyOccupied
<1> HIDE DEF m
<1>8. FitFrom(b, m) /\ FitPlain(b, m)
  <2>0. PawnWay(b, m)
    BY <1>1 DEF PawnWay
  <2> HIDE DEF to
  <2>1. Free(b.bb, to) /\ Free(b.bb, to - Up(b.side))
    BY <1>6 DEF to
  <2> QED
    BY <1>1, <1>3, <1>4, <1>6, <1>7, <2>0, <2>1 DEF FitFrom, FitPlain
<1> QED
  BY <1>8 DEF Fit, m

\* Taking in passing fits.
LEMMA PassingFits ==
  ASSUME NEW b, Ready(b), NEW from \in b.bb[Piece(b.side, Pawn)], b.ep # no_sq,
         b.ep \in pawn_attacks[b.side][from]
  PROVE  Fit(b, encode_move(from, b.ep, Piece(b.side, Pawn), 0, TRUE, FALSE, TRUE, FALSE))
<1> DEFINE m == encode_move(from, b.ep, Piece(b.side, Pawn), 0, TRUE, FALSE, TRUE, FALSE)
<1>1. /\ m.from = from /\ m.to = b.ep /\ m.piece = Piece(b.side, Pawn) /\ m.promo = 0 /\ m.capture = TRUE
      /\ m.double = FALSE /\ m.enpass = TRUE /\ m.castling = FALSE
  BY DEF encode_move
<1>2. Pawn \in 0..5 /\ 0 \in Pieces /\ b.ep \in Squares
  BY DEF Pawn, Pieces, Ready, Squares, no_sq
<1>3. m.piece \in Men(b.side) /\ m.piece \in Pieces /\ from \in Squares
  BY <1>1, <1>2, SidePieces
<1>4. m \in Moves
  BY <1>2, <1>3 DEF Moves, encode_move
<1> HIDE DEF m
<1>5. Free(b.bb, m.to) /\ m.to - Up(b.side) \in b.bb[Piece(1 - b.side, Pawn)]
  BY <1>1 DEF Ready, EpSound
<1>6. \A p \in Men(b.side) : m.to \notin b.bb[p]
  BY <1>5, ReadyOccupied
<1>7. PawnWay(b, m)
  BY <1>1 DEF PawnWay
<1>8. FitFrom(b, m) /\ FitPlain(b, m)
  BY <1>1, <1>3, <1>4, <1>5, <1>6, <1>7 DEF FitFrom, FitPlain
<1> QED
  BY <1>8 DEF Fit, m

\* The squares of king and rook in a castling.
LEMMA CastlingSquares ==
  ASSUME NEW idx \in Rights
  PROVE  /\ castle_king_to(idx) \in Squares /\ castle_rook_to(idx) \in Squares /\ castle_king_to(idx) # castle_rook_to(idx)
         /\ castle_index(castle_king_to(idx)) = idx
         /\ \A c \in {white, black} : OfSide(idx) = c =>
              {castle_king_to(idx), castle_rook_to(idx)}
                \subseteq Span(corners.king[c + 1], corners.rook[idx + 1]) \ {corners.king[c + 1], corners.rook[idx + 1]}
<1>1. idx = 0 \/ idx = 1 \/ idx = 2 \/ idx = 3
  BY DEF Rights
<1>2. OfSide(0) = 0 /\ OfSide(1) = 0 /\ OfSide(2) = 1 /\ OfSide(3) = 1
  BY DEF OfSide
<1>3. CASE idx = 0
  BY <1>2, <1>3 DEF castle_king_to, castle_rook_to, castle_index, Squares, corners, Span, white, black
<1>4. CASE idx = 1
  BY <1>2, <1>4 DEF castle_king_to, castle_rook_to, castle_index, Squares, corners, Span, white, black
<1>5. CASE idx = 2
  BY <1>2, <1>5 DEF castle_king_to, castle_rook_to, castle_index, Squares, corners, Span, white, black
<1>6. CASE idx = 3
  BY <1>2, <1>6 DEF castle_king_to, castle_rook_to, castle_index, Squares, corners, Span, white, black
<1> QED
  BY <1>1, <1>3, <1>4, <1>5, <1>6

\* A span holds its ends.
LEMMA SpanEnds ==
  ASSUME NEW x \in Int, NEW y \in Int PROVE x \in Span(x, y) /\ y \in Span(x, y)
BY DEF Span

\* A right whose king and rook may trade places.
LEMMA CastlingFits ==
  ASSUME NEW b, Ready(b), NEW idx \in b.castle, OfSide(idx) = b.side,
         NEW m \in Moves, m.from = castle_king_sq(b.side), m.to = castle_king_to(idx), m.piece = Piece(b.side, King),
         m.castling, ~m.capture, m.promo = 0, ~m.enpass, ~m.double,
         \A s \in {castle_king_to(idx), castle_rook_to(idx)} \ {castle_king_sq(b.side), castle_rook_sq(idx)} : Free(b.bb, s)
  PROVE  Fit(b, m)
<1> DEFINE r == CastleRook(m)
<1>1. idx \in Rights /\ b.side \in {white, black} /\ b.bb \in Boards
  BY DEF Ready
<1>2. castle_index(m.to) = idx
  BY <1>1, CastlingSquares
<1>3. r.piece = Piece(b.side, Rook) /\ r.from = castle_rook_sq(idx) /\ r.to = castle_rook_to(idx)
  BY <1>2 DEF CastleRook
<1>4. castle_king_sq(b.side) \in b.bb[Piece(b.side, King)] /\ castle_rook_sq(idx) \in b.bb[Piece(b.side, Rook)]
  BY DEF Ready, RightsSound, castle_king_sq, castle_rook_sq
<1>5. King \in 0..5 /\ Rook \in 0..5
  BY DEF King, Rook
<1>6. r.from \in b.bb[r.piece] /\ r.to \in Squares /\ r.from \in Squares /\ r.to # m.to
  <2>1. castle_rook_sq(idx) \in Squares
    BY <1>4, <1>5, SidePieces
  <2> QED
    BY <1>1, <1>3, <1>4, <2>1, CastlingSquares
<1>7. \A s \in {m.to, r.to} \ {m.from, r.from} : Free(b.bb, s)
  BY <1>3
<1>8. FitFrom(b, m)
  BY <1>4, <1>5, SidePieces DEF FitFrom
<1>9. FitCastling(b, m)
  BY <1>2, <1>6, <1>7 DEF FitCastling
<1> QED
  BY <1>8, <1>9 DEF Fit

\* The fields of a castling move.
LEMMA CastlingIsMove ==
  ASSUME NEW from \in Squares, NEW to \in Squares, NEW c \in {white, black}, NEW m, m = CastlingMove(from, to, c)
  PROVE  /\ m \in Moves /\ m.from = from /\ m.to = to /\ m.piece = Piece(c, King) /\ m.promo = 0
         /\ ~m.capture /\ ~m.double /\ ~m.enpass /\ m.castling
<1>1. Piece(c, King) \in Pieces /\ 0 \in Pieces
  BY PieceOf DEF King, Pieces
<1>2. m = [from |-> from, to |-> to, piece |-> Piece(c, King), promo |-> 0, capture |-> FALSE,
           double |-> FALSE, enpass |-> FALSE, castling |-> TRUE]
  BY DEF CastlingMove, encode_move
<1>3. m \in Moves
  BY <1>1, <1>2 DEF Moves
<1> QED
  BY <1>2, <1>3

\* What the code tests before it castles leaves the squares free.
LEMMA MayCastleIsFree ==
  ASSUME NEW b, Ready(b), HomeSetup, NEW idx \in Rights, OfSide(idx) = b.side,
         IF g_chess960 THEN c960_can_castle(b, idx) ELSE CanCastle(b, idx)
  PROVE  /\ idx \in b.castle /\ castle_king_sq(b.side) \in Squares
         /\ \A s \in {castle_king_to(idx), castle_rook_to(idx)} \ {castle_king_sq(b.side), castle_rook_sq(idx)} : Free(b.bb, s)
<1>1. b.side \in {white, black} /\ b.bb \in Boards
  BY DEF Ready
<1>2. idx \in b.castle
  BY DEF c960_can_castle, CanCastle
<1>3. castle_king_sq(b.side) \in Squares /\ castle_rook_sq(idx) \in Squares
  <2>1. castle_king_sq(b.side) \in b.bb[Piece(b.side, King)] /\ castle_rook_sq(idx) \in b.bb[Piece(b.side, Rook)]
    BY <1>2 DEF Ready, RightsSound, castle_king_sq, castle_rook_sq
  <2> QED
    BY <2>1, SidePieces DEF King, Rook
<1>4. CASE g_chess960
  <2>1. (b.occ[white] \cup b.occ[black])
           \cap ((Span(castle_king_sq(b.side), castle_king_to(idx)) \cup Span(castle_rook_sq(idx), castle_rook_to(idx)))
                   \ {castle_king_sq(b.side), castle_rook_sq(idx)}) = {}
    BY <1>4 DEF c960_can_castle
  <2>2. castle_king_to(idx) \in Span(castle_king_sq(b.side), castle_king_to(idx))
    BY <1>3, CastlingSquares, SpanEnds DEF Squares
  <2>3. castle_rook_to(idx) \in Span(castle_rook_sq(idx), castle_rook_to(idx))
    BY <1>3, CastlingSquares, SpanEnds DEF Squares
  <2>4. \A s \in {castle_king_to(idx), castle_rook_to(idx)} \ {castle_king_sq(b.side), castle_rook_sq(idx)} :
          s \notin b.occ[white] \cup b.occ[black]
    BY <2>1, <2>2, <2>3
  <2> QED
    BY <1>2, <1>3, <2>4, ReadyOccupied
<1>5. CASE ~g_chess960
  <2> DEFINE e == corners.king[b.side + 1]
             r == corners.rook[idx + 1]
  <2>1. (b.occ[white] \cup b.occ[black]) \cap (Span(e, r) \ {e, r}) = {}
    BY <1>5 DEF CanCastle
  <2>2. {castle_king_to(idx), castle_rook_to(idx)} \subseteq Span(e, r) \ {e, r}
    BY <1>1, CastlingSquares
  <2>3. \A s \in {castle_king_to(idx), castle_rook_to(idx)} : s \notin b.occ[white] \cup b.occ[black]
    BY <2>1, <2>2
  <2> QED
    BY <1>2, <1>3, <2>3, ReadyOccupied
<1> QED
  BY <1>4, <1>5

\* The king's square of both settings.
LEMMA HomeKing ==
  ASSUME HomeSetup, NEW c \in {white, black}
  PROVE  (IF g_chess960 THEN castle_king_sq(c) ELSE corners.king[c + 1]) = castle_king_sq(c)
BY DEF HomeSetup, standard_setup, castle_king_sq

\* A square of the enemy is none of ours.
LEMMA OtherSide ==
  ASSUME NEW b, Ready(b), NEW s \in Squares, s \in b.occ[1 - b.side] PROVE s \notin b.occ[b.side]
<1>1. \A p \in Men(b.side), q \in Men(1 - b.side) : p \in Pieces /\ q \in Pieces /\ p # q
  BY MenIs DEF Ready
<1> QED
  BY <1>1, ReadyOccupied DEF Ready, Disjoint

\* A pawn takes what stands on a square it attacks.
LEMMA CaptureSquare ==
  ASSUME NEW b, Ready(b), NEW from \in Squares, NEW to \in pawn_attacks[b.side][from], to \in b.occ[1 - b.side]
  PROVE  to \in Squares /\ to \in b.occ[1 - b.side] /\ to \notin b.occ[b.side]
<1>1. to \in Squares
  BY LeapersOnBoard DEF Ready
<1> QED
  BY <1>1, OtherSide

\* Every move of the pseudo-legal list.
LEMMA GeneratedFit ==
  ASSUME NEW b, Ready(b), HomeSetup, NEW m \in generate_moves(b)
  PROVE  Fit(b, m)
<1>1. b.side \in {white, black} /\ b.bb \in Boards
  BY DEF Ready
<1>2. ASSUME NEW from \in b.bb[Piece(b.side, Pawn)], m \in PawnMoves(b, from, b.side) PROVE Fit(b, m)
  <2> DEFINE c == b.side
             free == Squares \ (b.occ[white] \cup b.occ[black])
             takes == pawn_attacks[c][from]
  <2>1. from \in Squares
    BY SidePieces DEF Pawn
  <2>2. takes \subseteq Squares
    BY <1>1, <2>1, LeapersOnBoard
  <2>3. \A s \in free : Free(b.bb, s)
    BY ReadyOccupied
  <2> DEFINE steps == IF from + Up(c) \in free THEN PawnArrivals(from, from + Up(c), c, FALSE) ELSE {}
             jumps == {encode_move(from, from + 2 * Up(c), Piece(c, Pawn), 0, FALSE, TRUE, FALSE, FALSE) :
                         to \in {s \in {from + 2 * Up(c)} : Row(from) = SecondRow(c) /\ {from + Up(c), s} \subseteq free}}
             captures == UNION {PawnArrivals(from, to, c, TRUE) : to \in takes \cap b.occ[1 - c]}
             passing == {encode_move(from, to, Piece(c, Pawn), 0, TRUE, FALSE, TRUE, FALSE) : to \in takes \cap {b.ep}}
  <2>4. CASE m \in steps
    BY <2>3, <2>4, ArrivalsFit
  <2>5. CASE m \in jumps
    <3>1. /\ m = encode_move(from, from + 2 * Up(c), Piece(c, Pawn), 0, FALSE, TRUE, FALSE, FALSE)
          /\ Row(from) = SecondRow(c) /\ {from + Up(c), from + 2 * Up(c)} \subseteq free
      BY <2>5
    <3> QED
      BY <2>3, <3>1, JumpFits
  <2>6. CASE m \in captures
    <3>1. PICK to \in takes \cap b.occ[1 - c] : m \in PawnArrivals(from, to, c, TRUE)
      BY <2>6
    <3>2. to \notin b.occ[c]
      <4>1. \A p \in Men(c), q \in Men(1 - c) : p \in Pieces /\ q \in Pieces /\ p # q
        BY <1>1, MenIs
      <4> QED
        BY <2>2, <4>1, ReadyOccupied DEF Ready, Disjoint
    <3> QED
      BY <2>2, <3>1, <3>2, ArrivalsFit
  <2>7. CASE m \in passing
    <3>1. b.ep \in takes /\ m = encode_move(from, b.ep, Piece(c, Pawn), 0, TRUE, FALSE, TRUE, FALSE)
      BY <2>7
    <3>2. b.ep # no_sq
      BY <2>2, <3>1 DEF Squares, no_sq
    <3> QED
      BY <3>1, <3>2, PassingFits
  <2>8. PawnMoves(b, from, c) = steps \cup jumps \cup captures \cup passing
    BY DEF PawnMoves
  <2> HIDE DEF steps, jumps, captures, passing
  <2> QED
    BY <1>2, <2>4, <2>5, <2>6, <2>7, <2>8
<1>3. CASE m \in (IF b.side = white THEN WhitePawnMoves(b) ELSE BlackPawnMoves(b))
  <2>1. PICK from \in b.bb[Piece(b.side, Pawn)] : m \in PawnMoves(b, from, b.side)
    BY <1>1, <1>3 DEF WhitePawnMoves, BlackPawnMoves, white, black
  <2> QED
    BY <1>2, <2>1
<1>4. CASE m \in CastlingMoves(b)
  <2>1. PICK idx \in Rights :
          /\ OfSide(idx) = b.side
          /\ IF g_chess960 THEN c960_can_castle(b, idx) ELSE CanCastle(b, idx)
          /\ m = CastlingMove(IF g_chess960 THEN castle_king_sq(b.side) ELSE corners.king[b.side + 1],
                              castle_king_to(idx), b.side)
    BY <1>4 DEF CastlingMoves
  <2>2. /\ idx \in b.castle /\ castle_king_sq(b.side) \in Squares
        /\ \A s \in {castle_king_to(idx), castle_rook_to(idx)} \ {castle_king_sq(b.side), castle_rook_sq(idx)} : Free(b.bb, s)
    BY <2>1, MayCastleIsFree
  <2>3. m = CastlingMove(castle_king_sq(b.side), castle_king_to(idx), b.side)
    BY <1>1, <2>1, HomeKing
  <2>4. castle_king_to(idx) \in Squares
    BY CastlingSquares
  <2>5. /\ m \in Moves /\ m.from = castle_king_sq(b.side) /\ m.to = castle_king_to(idx) /\ m.piece = Piece(b.side, King)
        /\ m.promo = 0 /\ ~m.capture /\ ~m.double /\ ~m.enpass /\ m.castling
    <3>1. castle_king_sq(b.side) \in Squares /\ b.side \in {white, black}
      BY <1>1, <2>2
    <3> QED
      BY ONLY <3>1, <2>3, <2>4, CastlingIsMove
  <2> QED
    BY <2>1, <2>2, <2>5, CastlingFits
<1>5. ASSUME NEW t \in {Knight, Bishop, Rook, Queen, King}, m \in PieceMoves(b, t) PROVE Fit(b, m)
  <2>1. PICK from \in b.bb[Piece(b.side, t)] :
          \E to \in Attacks(t, from, b.occ[white] \cup b.occ[black]) \ b.occ[b.side] :
            m = Simple(from, to, Piece(b.side, t), to \in b.occ[1 - b.side])
    BY <1>5 DEF PieceMoves
  <2>2. PICK to \in Attacks(t, from, b.occ[white] \cup b.occ[black]) \ b.occ[b.side] :
          m = Simple(from, to, Piece(b.side, t), to \in b.occ[1 - b.side])
    BY <2>1
  <2>3. t \in 1..5 /\ t \in 0..5
    BY DEF Knight, Bishop, Rook, Queen, King
  <2>4. from \in Squares
    BY <2>3, SidePieces
  <2>5. to \in Squares
    BY <2>4, AttacksOnBoard
  <2> QED
    BY <2>2, <2>3, <2>5, SimpleFits
<1> QED
  BY <1>3, <1>4, <1>5 DEF generate_moves

\* Both sides' squares, from either side.
LEMMA AllOccupied ==
  ASSUME NEW b, Ready(b)
  PROVE  b.occ[white] \cup b.occ[black] = b.occ[b.side] \cup b.occ[1 - b.side]
<1>1. (b.side = white /\ 1 - b.side = black) \/ (b.side = black /\ 1 - b.side = white)
  BY DEF Ready, white, black
<1> QED
  BY <1>1

\* A move of another position that passes td_is_pseudo_legal.
LEMMA PseudoFit ==
  ASSUME NEW b, Ready(b), HomeSetup, NEW m \in Moves, m.double => ~m.capture, td_is_pseudo_legal(b, m)
  PROVE  Fit(b, m)
<1> DEFINE c == b.side
<1>1. c \in {white, black} /\ b.bb \in Boards
  BY DEF Ready
<1>2. m.piece \in Men(c) /\ m.from \in b.bb[m.piece] /\ FitFrom(b, m)
  BY DEF td_is_pseudo_legal, Men, FitFrom
<1>3. m.to \in Squares /\ m.from \in Squares
  BY DEF Moves
<1>4. CASE m.castling
  <2> DEFINE idx == castle_index(m.to)
  <2>1. /\ ~m.capture /\ m.promo = 0 /\ ~m.enpass /\ ~m.double
        /\ m.piece = Piece(c, King) /\ OfSide(idx) = c /\ m.to = castle_king_to(idx)
        /\ m.from = (IF g_chess960 THEN castle_king_sq(c) ELSE corners.king[c + 1])
        /\ IF g_chess960 THEN c960_can_castle(b, idx) ELSE CanCastle(b, idx)
    BY <1>4 DEF td_is_pseudo_legal, PseudoCastling
  <2>2. idx \in Rights
    BY DEF castle_index, Rights
  <2> HIDE DEF idx
  <2>3. /\ idx \in b.castle
        /\ \A s \in {castle_king_to(idx), castle_rook_to(idx)} \ {castle_king_sq(c), castle_rook_sq(idx)} : Free(b.bb, s)
    BY <2>1, <2>2, MayCastleIsFree
  <2>4. m.from = castle_king_sq(c)
    BY <1>1, <2>1, HomeKing
  <2> QED
    BY <1>4, <2>1, <2>3, <2>4, CastlingFits
<1>5. CASE ~m.castling
  <2>1. m.to \notin b.occ[c]
    BY <1>5 DEF td_is_pseudo_legal
  <2>2. \A p \in Men(c) : m.to \notin b.bb[p]
    BY <2>1, ReadyOccupied
  <2>3. m.to \in b.occ[1 - c] => \E p \in Men(1 - c) : m.to \in b.bb[p]
    BY ReadyOccupied
  <2>4. m.to \notin b.occ[1 - c] => Free(b.bb, m.to)
    BY <2>1, AllOccupied, ReadyOccupied
  <2>5. CASE Type(m.piece) # Pawn
    <3>1. m.promo = 0 /\ ~m.double /\ ~m.enpass /\ m.capture = (m.to \in b.occ[1 - c])
      BY <1>5, <2>5 DEF td_is_pseudo_legal
    <3>2. m.piece # Piece(c, Pawn)
      <4>1. Type(Piece(c, Pawn)) = Pawn
        BY <1>1, PieceOf DEF Pawn
      <4> QED
        BY <2>5, <4>1
    <3> QED
      BY <1>2, <1>5, <2>2, <2>3, <2>4, <3>1, <3>2 DEF Fit, FitPlain
  <2>6. CASE Type(m.piece) = Pawn
    <3>1. PseudoPawn(b, m)
      BY <1>5, <2>6 DEF td_is_pseudo_legal
    <3>2. m.piece = Piece(c, Pawn)
      <4>1. PICK t \in 0..5 : m.piece = Piece(c, t)
        BY <1>2 DEF Men
      <4>2. Type(Piece(c, t)) = t
        BY <1>1, PieceOf
      <4> QED
        BY <2>6, <4>1, <4>2
    <3>3. /\ m.promo # 0 => Row(m.to) = Row(BackRow(1 - c)) /\ m.promo \in Promoted(c)
          /\ m.capture /\ m.enpass => b.ep # no_sq /\ m.to = b.ep
          /\ m.capture /\ ~m.enpass => m.to \in b.occ[1 - c]
          /\ ~m.capture => ~m.enpass /\ m.to \notin All(b)
          /\ ~m.capture /\ m.double => Row(m.from) = SecondRow(c) /\ m.to = m.from + 2 * Up(c) /\ m.from + Up(c) \notin All(b)
      BY <3>1 DEF PseudoPawn
    <3>4. ~m.capture => Free(b.bb, m.to) /\ ~m.enpass
      BY <3>3, ReadyOccupied DEF All
    <3>5. Row(BackRow(1 - c)) = IF c = white THEN 0 ELSE 7
      BY <1>1 DEF Row, BackRow, white, black
    <3>6. m.enpass => /\ m.capture /\ m.promo = 0 /\ Free(b.bb, m.to)
                      /\ m.to - Up(c) \in b.bb[Piece(1 - c, Pawn)]
      <4> SUFFICES ASSUME m.enpass PROVE m.capture /\ m.promo = 0 /\ Free(b.bb, m.to) /\ m.to - Up(c) \in b.bb[Piece(1 - c, Pawn)]
        OBVIOUS
      <4>1. m.capture /\ b.ep # no_sq /\ m.to = b.ep
        BY <3>3
      <4>2. b.ep - Up(c) \in b.bb[Piece(1 - c, Pawn)] /\ Free(b.bb, b.ep) /\ Row(b.ep) = (IF c = white THEN 2 ELSE 5)
        BY <4>1 DEF Ready, EpSound
      <4>3. Row(m.to) # Row(BackRow(1 - c))
        BY <3>5, <4>1, <4>2
      <4> QED
        BY <3>3, <4>1, <4>2, <4>3
    <3>7. m.double => /\ ~m.capture /\ m.promo = 0
                      /\ m.to - Up(c) \in Squares /\ Free(b.bb, m.to - Up(c))
                      /\ Row(m.to - Up(c)) = (IF c = white THEN 5 ELSE 2)
      <4> SUFFICES ASSUME m.double
                   PROVE  /\ ~m.capture /\ m.promo = 0
                          /\ m.to - Up(c) \in Squares /\ Free(b.bb, m.to - Up(c))
                          /\ Row(m.to - Up(c)) = (IF c = white THEN 5 ELSE 2)
        OBVIOUS
      <4>1. ~m.capture /\ Row(m.from) = SecondRow(c) /\ m.to = m.from + 2 * Up(c) /\ m.from + Up(c) \notin All(b)
        BY <3>3
      <4>2. /\ m.to - Up(c) = m.from + Up(c) /\ m.to - Up(c) \in Squares
            /\ Row(m.to - Up(c)) = (IF c = white THEN 5 ELSE 2)
            /\ Row(m.to) = (IF c = white THEN 4 ELSE 3)
        <5>1. CASE c = white
          BY <1>3, <4>1, <5>1 DEF Up, SecondRow, Row, Squares, white, black
        <5>2. CASE c = black
          BY <1>3, <4>1, <5>2 DEF Up, SecondRow, Row, Squares, white, black
        <5> QED
          BY <1>1, <5>1, <5>2
      <4>3. m.promo = 0
        BY <3>3, <3>5, <4>2
      <4>4. Free(b.bb, m.from + Up(c))
        BY <4>1, ReadyOccupied DEF All
      <4> QED
        BY <4>1, <4>2, <4>3, <4>4
    <3>8. PawnWay(b, m)
      BY <3>1, <3>3 DEF PseudoPawn, PawnWay
    <3>9. FitPlain(b, m)
      BY <1>5, <2>2, <2>3, <3>2, <3>3, <3>4, <3>6, <3>7, <3>8 DEF FitPlain
    <3> QED
      BY <1>2, <3>9 DEF Fit
  <2> QED
    BY <2>5, <2>6
<1> QED
  BY <1>4, <1>5

-----------------------------------------------------------------------------
(* The legal moves fit *)

\* The opponent's pieces stand on squares the opponent occupies.
LEMMA TheirPieces ==
  ASSUME NEW b, Ready(b), NEW t \in 0..5
  PROVE  Theirs_(b, t) \subseteq Squares /\ Theirs_(b, t) \subseteq b.occ[1 - b.side]
<1>1. 1 - b.side \in {white, black}
  BY DEF Ready, white, black
<1>2. Piece(1 - b.side, t) \in Men(1 - b.side) /\ Piece(1 - b.side, t) \in Pieces
  BY <1>1, PieceOf
<1> QED
  BY <1>2, ReadyOccupied DEF Theirs_, Ready, Boards

\* Where a legal move may end: a capture on an enemy piece, any other move on a free square.
LEMMA MasksAre ==
  ASSUME NEW b, Ready(b), NEW ksq \in Squares
  PROVE  /\ InfoFor(b, ksq).king = ksq
         /\ InfoFor(b, ksq).capture_mask \subseteq b.occ[1 - b.side]
         /\ \A s \in InfoFor(b, ksq).quiet_mask : s \in Squares /\ s \notin All(b)
<1> DEFINE checkers == Checkers(b, ksq)
           info == InfoFor(b, ksq)
           sliders == Diagonals(b) \cup Straights(b)
<1>1. /\ info.king = ksq
      /\ info.capture_mask = (IF checkers = {} THEN b.occ[1 - b.side] ELSE IF Several(checkers) THEN {} ELSE checkers)
      /\ info.quiet_mask = (IF checkers = {} THEN Squares \ All(b)
                            ELSE IF Several(checkers) \/ checkers \cap sliders = {} THEN {}
                            ELSE between_tbl[ksq][Lsb(checkers)])
  BY DEF InfoFor, MoveInfo
<1>2. \A t \in 0..5 : Theirs_(b, t) \subseteq Squares /\ Theirs_(b, t) \subseteq b.occ[1 - b.side]
  BY TheirPieces
<1>3. Pawn \in 0..5 /\ Knight \in 0..5 /\ Bishop \in 0..5 /\ Rook \in 0..5 /\ Queen \in 0..5
  BY DEF Pawn, Knight, Bishop, Rook, Queen
<1>4. sliders \subseteq Squares /\ sliders \subseteq b.occ[1 - b.side]
  BY <1>2, <1>3 DEF Diagonals, Straights
<1>5. checkers = (knight_attacks[ksq] \cap Theirs_(b, Knight)) \cup (pawn_attacks[b.side][ksq] \cap Theirs_(b, Pawn))
                   \cup {s \in Snipers(b, ksq) : between_tbl[ksq][s] \cap All(b) = {}}
  BY DEF Checkers
<1>6. Snipers(b, ksq) \subseteq sliders
  BY DEF Snipers
<1>7. checkers \subseteq Squares /\ checkers \subseteq b.occ[1 - b.side]
  <2> HIDE DEF checkers, sliders
  <2> QED
    BY <1>2, <1>3, <1>4, <1>5, <1>6
<1>8. ASSUME NEW x, x \in sliders PROVE x \notin Theirs_(b, Knight) /\ x \notin Theirs_(b, Pawn)
  <2>1. 1 - b.side \in {white, black} /\ Disjoint(b.bb)
    BY DEF Ready, white, black
  <2>2. PICK t \in {Bishop, Rook, Queen} : x \in b.bb[Piece(1 - b.side, t)]
    BY <1>8 DEF Diagonals, Straights, Theirs_
  <2>3. \A u \in {Knight, Pawn} : Piece(1 - b.side, t) # Piece(1 - b.side, u)
    BY <2>1 DEF Piece, Knight, Pawn, Bishop, Rook, Queen, white, black
  <2>4. \A u \in {Knight, Pawn} : Piece(1 - b.side, u) \in Pieces
    BY <1>3, <2>1, PieceOf
  <2>5. Piece(1 - b.side, t) \in Pieces
    BY <1>3, <2>1, PieceOf
  <2>6. x \in Squares
    BY <1>4, <1>8
  <2> QED
    BY <2>1, <2>2, <2>3, <2>4, <2>5, <2>6 DEF Disjoint, Theirs_
<1> HIDE DEF checkers, sliders, info
<1>9. info.capture_mask \subseteq b.occ[1 - b.side]
  BY <1>1, <1>7
<1>10. ASSUME NEW s \in info.quiet_mask PROVE s \in Squares /\ s \notin All(b)
  <2>1. CASE checkers = {}
    BY <1>1, <1>10, <2>1
  <2>2. CASE checkers # {}
    <3>1. ~Several(checkers) /\ checkers \cap sliders # {} /\ info.quiet_mask = between_tbl[ksq][Lsb(checkers)]
      BY <1>1, <1>10, <2>2
    <3>2. IsFiniteSet(checkers)
      <4>1. IsFiniteSet(Squares)
        <5>1. 0 \in Int /\ 63 \in Int
          OBVIOUS
        <5> QED
          BY <5>1, FS_Interval DEF Squares
      <4> QED
        BY <1>7, <4>1, FS_Subset
    <3>3. Cardinality(checkers) = 1
      <4>1. Cardinality(checkers) \in Nat
        BY <3>2, FS_CardinalityType
      <4>2. Cardinality(checkers) # 0
        BY <2>2, <3>2, FS_EmptySet
      <4>3. ~(Cardinality(checkers) > 1)
        BY <3>1 DEF Several
      <4> QED
        BY <4>1, <4>2, <4>3
    <3>4. PICK x : checkers = {x}
      BY <3>2, <3>3, FS_Singleton
    <3>5. x \in sliders /\ x \in Squares
      BY <1>4, <3>1, <3>4
    <3>6. Lsb(checkers) = x
      <4>1. checkers \in SUBSET Int /\ x \in checkers /\ \A y \in checkers : y = x
        BY <3>4, <3>5 DEF Squares
      <4> QED
        BY <4>1, LsbIn
    <3>7. between_tbl[ksq][x] \cap All(b) = {}
      BY <1>5, <1>8, <3>4, <3>5
    <3>8. between_tbl[ksq][x] \subseteq Squares
      BY <3>5, BetweenOnBoard
    <3> QED
      BY <1>10, <3>1, <3>6, <3>7, <3>8
  <2> QED
    BY <2>1, <2>2
<1> QED
  BY <1>1, <1>9, <1>10 DEF info

\* The promotions of the legal generator fit ...
LEMMA PromotionsFit ==
  ASSUME NEW b, Ready(b), NEW info, info.capture_mask \subseteq b.occ[1 - b.side],
         \A s \in info.quiet_mask : s \in Squares /\ s \notin All(b), NEW m \in PromotionMoves(b, info)
  PROVE  Fit(b, m)
<1> DEFINE c == b.side
<1>1. PICK s \in Us(b, Pawn) :
        m \in (UNION {PawnArrivals(s, to, c, FALSE) : to \in {s + Up(c)} \cap info.quiet_mask \cap AllowedFrom(info, s)})
              \cup UNION {PawnArrivals(s, to, c, TRUE) : to \in pawn_attacks[c][s] \cap info.capture_mask \cap AllowedFrom(info, s)}
  BY DEF PromotionMoves
<1>2. s \in b.bb[Piece(c, Pawn)] /\ s \in Squares
  BY SidePieces DEF Us, Pawn
<1>3. CASE m \in UNION {PawnArrivals(s, to, c, FALSE) : to \in {s + Up(c)} \cap info.quiet_mask \cap AllowedFrom(info, s)}
  <2>1. PICK to \in info.quiet_mask : m \in PawnArrivals(s, to, c, FALSE) /\ to = s + Up(c)
    BY <1>3
  <2>2. to \in Squares /\ Free(b.bb, to)
    BY ReadyOccupied DEF All
  <2> QED
    BY <1>2, <2>1, <2>2, ArrivalsFit
<1>4. CASE m \in UNION {PawnArrivals(s, to, c, TRUE) : to \in pawn_attacks[c][s] \cap info.capture_mask \cap AllowedFrom(info, s)}
  <2>1. PICK to \in pawn_attacks[c][s] \cap info.capture_mask : m \in PawnArrivals(s, to, c, TRUE)
    BY <1>4
  <2>2. to \in Squares /\ to \in b.occ[1 - c] /\ to \notin b.occ[c]
    BY <1>2, CaptureSquare DEF Ready
  <2> QED
    BY <1>2, <2>1, <2>2, ArrivalsFit
<1> QED
  BY <1>1, <1>3, <1>4

\* ... and its other pawn moves.
LEMMA OtherPawnsFit ==
  ASSUME NEW b, Ready(b), NEW info, info.capture_mask \subseteq b.occ[1 - b.side],
         \A s \in info.quiet_mask : s \in Squares /\ s \notin All(b), NEW m \in OtherPawnMoves(b, info)
  PROVE  Fit(b, m)
<1> DEFINE c == b.side
           rest == {s \in Us(b, Pawn) : Row(s) # SeventhRow(c)}
           push1 == {s + Up(c) : s \in rest} \ All(b)
           single_to == push1 \cap info.quiet_mask
           double_to == ({s + Up(c) : s \in {u \in push1 : Row(u) = SecondRow(c) + (IF c = white THEN -1 ELSE 1)}} \ All(b))
                          \cap info.quiet_mask
           pawn == Piece(c, Pawn)
           pushes == {Simple(s, s + Up(c), pawn, FALSE) : s \in {u \in rest : u + Up(c) \in single_to \cap AllowedFrom(info, u)}}
           jumps == {encode_move(s, s + 2 * Up(c), pawn, 0, FALSE, TRUE, FALSE, FALSE) :
                       s \in {u \in rest : u + 2 * Up(c) \in double_to \cap AllowedFrom(info, u)}}
           captures == UNION {{Simple(s, to, pawn, TRUE) :
                                 to \in pawn_attacks[c][s] \cap info.capture_mask \cap AllowedFrom(info, s)} : s \in rest}
           passing == {encode_move(s, b.ep, pawn, 0, TRUE, FALSE, TRUE, FALSE) : s \in ep_ok(b, info) \cap rest}
<1>1. m \in pushes \cup jumps \cup captures \cup passing
  BY DEF OtherPawnMoves
<1>2. \A s \in rest : s \in b.bb[pawn] /\ s \in Squares /\ Row(s) # SeventhRow(c)
  BY SidePieces DEF Us, Pawn
<1>3. ASSUME NEW s \in rest, NEW to \in Squares, NEW capture \in BOOLEAN
      PROVE  Simple(s, to, pawn, capture) \in PawnArrivals(s, to, c, capture)
  BY <1>2 DEF PawnArrivals, Simple
<1>4. c \in {white, black}
  BY DEF Ready
<1>5. CASE m \in pushes
  <2>1. PICK s \in rest : s + Up(c) \in info.quiet_mask /\ m = Simple(s, s + Up(c), pawn, FALSE)
    BY <1>5
  <2>2. s + Up(c) \in Squares /\ Free(b.bb, s + Up(c))
    BY <2>1, ReadyOccupied DEF All
  <2>3. m \in PawnArrivals(s, s + Up(c), c, FALSE)
    BY <1>3, <2>1, <2>2
  <2> HIDE DEF rest
  <2> QED
    BY <1>2, <2>2, <2>3, ArrivalsFit
<1>6. CASE m \in jumps
  <2>1. PICK s \in rest : s + 2 * Up(c) \in double_to /\ m = encode_move(s, s + 2 * Up(c), pawn, 0, FALSE, TRUE, FALSE, FALSE)
    BY <1>6
  <2>2. s + 2 * Up(c) \in info.quiet_mask
    BY <2>1
  <2>3. s + 2 * Up(c) \in Squares /\ Free(b.bb, s + 2 * Up(c))
    BY <2>2, ReadyOccupied DEF All
  <2>4. PICK u \in push1 : Row(u) = SecondRow(c) + (IF c = white THEN -1 ELSE 1) /\ s + 2 * Up(c) = u + Up(c)
    BY <2>1
  <2>5. PICK w \in rest : u = w + Up(c)
    OBVIOUS
  <2>6. u \notin All(b)
    OBVIOUS
  <2>7. s \in Squares /\ w \in Squares
    BY <1>2
  <2> HIDE DEF rest, push1, double_to
  <2>8. u = s + Up(c) /\ Row(s) = SecondRow(c)
    <3>1. CASE c = white
      BY <2>3, <2>4, <2>5, <2>7, <3>1 DEF Up, SecondRow, Row, Squares, white, black
    <3>2. CASE c = black
      BY <2>3, <2>4, <2>5, <2>7, <3>2 DEF Up, SecondRow, Row, Squares, white, black
    <3> QED
      BY <1>4, <3>1, <3>2
  <2>9. Free(b.bb, s + Up(c))
    BY <2>6, <2>8, ReadyOccupied DEF All
  <2> QED
    BY <1>2, <2>1, <2>3, <2>8, <2>9, JumpFits
<1>7. CASE m \in captures
  <2>1. PICK s \in rest : m \in {Simple(s, to, pawn, TRUE) : to \in pawn_attacks[c][s] \cap info.capture_mask \cap AllowedFrom(info, s)}
    BY <1>7
  <2>2. PICK to \in pawn_attacks[c][s] \cap info.capture_mask : m = Simple(s, to, pawn, TRUE)
    BY <2>1
  <2>3. s \in Squares /\ s \in b.bb[pawn]
    BY <1>2
  <2>4. to \in Squares /\ to \in b.occ[1 - c] /\ to \notin b.occ[c]
    BY <1>4, <2>3, CaptureSquare
  <2>5. m \in PawnArrivals(s, to, c, TRUE)
    BY <1>3, <2>2, <2>4
  <2> HIDE DEF rest
  <2> QED
    BY <2>3, <2>4, <2>5, ArrivalsFit
<1>8. CASE m \in passing
  <2>1. PICK s \in ep_ok(b, info) \cap rest : m = encode_move(s, b.ep, pawn, 0, TRUE, FALSE, TRUE, FALSE)
    BY <1>8
  <2>2. b.ep # no_sq /\ s \in pawn_attacks[1 - c][b.ep]
    BY <2>1 DEF ep_ok
  <2>3. s \in b.bb[pawn] /\ s \in Squares
    BY <1>2
  <2>4. b.ep \in Squares
    BY <2>2 DEF Ready, Squares, no_sq
  <2>5. b.ep \in pawn_attacks[c][s]
    BY <1>4, <2>2, <2>3, <2>4, PawnsMeet
  <2> QED
    BY <2>1, <2>2, <2>3, <2>5, PassingFits
<1> HIDE DEF pushes, jumps, captures, passing
<1> QED
  BY <1>1, <1>5, <1>6, <1>7, <1>8

\* Every move of the legal list, on a board where the king stands that moves.
LEMMA LegalFit ==
  ASSUME NEW b, Ready(b), HomeSetup, ~g_chess960, b.bb[Piece(b.side, King)] # {},
         NEW m \in generate_legal_tv(b, "all")
  PROVE  Fit(b, m)
<1> DEFINE c == b.side
           king == KingSquare(b, c)
           info == InfoFor(b, king)
           map == enemy_map(b, info.king)
<1>1. c \in {white, black} /\ b.bb \in Boards
  BY DEF Ready
<1>2. king \in b.bb[Piece(c, King)] /\ king \in Squares
  <2>1. b.bb[Piece(c, King)] \in SUBSET Squares
    BY SidePieces DEF King
  <2> QED
    BY <2>1, LsbIs DEF KingSquare
<1>3. m \in Emitted(b, info, TRUE, map)
  BY DEF generate_legal_tv, legal_emit_tv, EmittedFor, legal_prepare
<1>4. /\ info.king = king /\ info.capture_mask \subseteq b.occ[1 - c]
      /\ \A s \in info.quiet_mask : s \in Squares /\ s \notin All(b)
  BY <1>2, MasksAre
<1> HIDE DEF info, map, king
<1>5. \/ m \in PromotionMoves(b, info) \/ m \in OtherPawnMoves(b, info)
      \/ m \in UNION {PieceTargets(b, info, t) : t \in {Knight, Bishop, Rook, Queen}}
      \/ m \in LegalCastling(b, info, map)
      \/ m \in KingSteps(b, info, TRUE, map)
  BY <1>3 DEF Emitted
<1>6. CASE m \in PromotionMoves(b, info)
  BY <1>4, <1>6, PromotionsFit
<1>7. CASE m \in OtherPawnMoves(b, info)
  BY <1>4, <1>7, OtherPawnsFit
<1>8. ASSUME NEW t \in {Knight, Bishop, Rook, Queen}, m \in PieceTargets(b, info, t) PROVE Fit(b, m)
  <2>1. PICK s \in Us(b, t) : \E to \in Attacks(t, s, All(b)) \cap (info.capture_mask \cup info.quiet_mask) :
                                m = Simple(s, to, Piece(c, t), to \in b.occ[1 - c])
    BY <1>8 DEF PieceTargets
  <2>2. PICK to \in Attacks(t, s, All(b)) \cap (info.capture_mask \cup info.quiet_mask) :
          m = Simple(s, to, Piece(c, t), to \in b.occ[1 - c])
    BY <2>1
  <2>3. t \in 1..5 /\ t \in 0..5
    BY DEF Knight, Bishop, Rook, Queen
  <2>4. s \in b.bb[Piece(c, t)] /\ s \in Squares
    BY <2>3, SidePieces DEF Us
  <2>5. to \in Squares
    BY <2>4, AttacksOnBoard
  <2>6. to \notin b.occ[c]
    BY <1>1, <1>4, <2>5, OtherSide, AllOccupied DEF All
  <2> QED
    BY <2>2, <2>3, <2>4, <2>5, <2>6, SimpleFits
<1>9. CASE m \in LegalCastling(b, info, map)
  <2> DEFINE e == corners.king[c + 1]
  <2>1. PICK idx \in b.castle :
          /\ OfSide(idx) = c
          /\ All(b) \cap (Span(e, corners.rook[idx + 1]) \ {e, corners.rook[idx + 1]}) = {}
          /\ m = CastlingMove(e, castle_king_to(idx), c)
    BY <1>9 DEF LegalCastling
  <2>2. idx \in Rights
    BY DEF Ready
  <2>3. e = castle_king_sq(c)
    BY <1>1, HomeKing
  <2>4. castle_king_sq(c) \in Squares /\ castle_king_to(idx) \in Squares
    <3>1. castle_king_sq(c) \in b.bb[Piece(c, King)]
      BY <2>1 DEF Ready, RightsSound, castle_king_sq
    <3> QED
      BY <2>2, <3>1, SidePieces, CastlingSquares DEF King
  <2>5. \A s \in {castle_king_to(idx), castle_rook_to(idx)} : Free(b.bb, s)
    <3>1. {castle_king_to(idx), castle_rook_to(idx)} \subseteq Span(e, corners.rook[idx + 1]) \ {e, corners.rook[idx + 1]}
      BY <1>1, <2>1, <2>2, CastlingSquares
    <3>2. \A s \in {castle_king_to(idx), castle_rook_to(idx)} : s \notin All(b)
      BY <2>1, <3>1
    <3> QED
      BY <3>2, ReadyOccupied DEF All
  <2>6. /\ m \in Moves /\ m.from = castle_king_sq(c) /\ m.to = castle_king_to(idx) /\ m.piece = Piece(c, King)
        /\ m.promo = 0 /\ ~m.capture /\ ~m.double /\ ~m.enpass /\ m.castling
    <3>1. m = CastlingMove(castle_king_sq(c), castle_king_to(idx), c)
      BY <2>1, <2>3
    <3> QED
      BY ONLY <1>1, <2>4, <3>1, CastlingIsMove
  <2> HIDE DEF e
  <2> QED
    BY <2>1, <2>5, <2>6, CastlingFits
<1>10. CASE m \in KingSteps(b, info, TRUE, map)
  <2>1. PICK s \in king_attacks[king] \ b.occ[c] : m = Simple(king, s, Piece(c, King), s \in b.occ[1 - c])
    BY <1>4, <1>10 DEF KingSteps
  <2>2. s \in Squares
    BY <1>2, LeapersOnBoard
  <2>3. King \in 1..5
    BY DEF King
  <2> QED
    BY <1>2, <2>1, <2>2, <2>3, SimpleFits
<1> QED
  BY <1>5, <1>6, <1>7, <1>8, <1>9, <1>10

(***************************************************************************)
(* The moves a search tries.                                               *)
(***************************************************************************)
Standing(b) == b.bb[Piece(b.side, King)] # {}
OneWay(m) == m \in Moves /\ (m.double => ~m.capture)

\* No move that fits is a double step and a capture ...
LEMMA FitIsOneWay ==
  ASSUME NEW b, NEW m, Fit(b, m) PROVE OneWay(m)
BY DEF Fit, FitFrom, FitPlain, FitCastling, OneWay

\* Every move of a node's list fits.
LEMMA ListFits ==
  ASSUME NEW b, Ready(b), HomeSetup, Standing(b), NEW m \in td_generate_moves(b)
  PROVE  Fit(b, m)
<1>1. CASE g_chess960
  <2>1. m \in generate_moves(b) BY <1>1 DEF td_generate_moves, td_generate_moves_side, Answering
  <2> QED BY <2>1, GeneratedFit
<1>2. CASE ~g_chess960
  <2>1. m \in generate_legal_tv(b, "all") BY <1>2 DEF td_generate_moves
  <2>2. b.bb[Piece(b.side, King)] # {} BY DEF Standing
  <2> QED BY <1>2, <2>1, <2>2, LegalFit
<1> QED BY <1>1, <1>2

\* ... not even one of another position.
LEMMA ForeignIsOneWay ==
  ASSUME \A i \in DOMAIN before : ThreadOK(before[i], setup), HomeSetup, NEW m \in Foreign
  PROVE  OneWay(m)
<1>1. PICK i \in DOMAIN before : m \in generate_moves(before[i]) \/ m \in generate_moves(Passed(before[i]))
  BY DEF Foreign
<1>2. Ready(before[i]) /\ Ready(Passed(before[i])) BY ThreadIsReady
<1>3. Fit(before[i], m) \/ Fit(Passed(before[i]), m) BY <1>1, <1>2, GeneratedFit
<1> QED BY <1>3, FitIsOneWay

\* Whatever a search may try fits its board.
THEOREM TriedFits ==
  ASSUME ThreadOK(td, setup), \A i \in DOMAIN before : ThreadOK(before[i], setup), HomeSetup, Standing(td),
         NEW m \in td_generate_moves(td) \cup Foreign, NEW listed,
         listed => m \in td_generate_moves(td), MayTry(m, listed)
  PROVE  Fit(td, m)
<1>1. Ready(td) BY ThreadIsReady
<1>2. CASE m \in td_generate_moves(td) BY <1>1, <1>2, ListFits
<1>3. CASE m \notin td_generate_moves(td)
  <2>1. td_is_pseudo_legal(td, m) BY <1>3 DEF MayTry
  <2>2. OneWay(m) BY <1>3, ForeignIsOneWay
  <2> QED BY <1>1, <2>1, <2>2, PseudoFit DEF OneWay
<1> QED BY <1>2, <1>3

(***************************************************************************)
(* The board of the game.                                                  *)
(***************************************************************************)
LEMMA CopyIsThread ==
  ASSUME NEW b \in GameBoards, NEW su, BoardOK(b, su), NEW table \in Seq(Keys)
  PROVE  ThreadOK(copy_board_to_thread(b, table), su)
<1> DEFINE t == copy_board_to_thread(b, table)
<1>1. /\ t.bb = b.bb /\ t.occ = b.occ /\ t.side = b.side /\ t.ep = b.ep /\ t.castle = b.castle /\ t.key = b.key
      /\ t.fifty = b.fifty /\ t.piece_on = mailbox_of(b.bb) /\ t.rep = table /\ t.ply = 0 /\ t.plies_from_null = 1024
      /\ t.keys = [i \in KEY_PAWN..KEY_NP_B |-> PartialKey(b.bb, i)]
  BY DEF copy_board_to_thread
<1>2. b.bb \in Boards BY DEF GameBoards
<1>3. Disjoint(b.bb) BY DEF BoardOK
<1>4. mailbox_of(b.bb) \in [Squares -> Pieces \cup {None}] BY <1>2, <1>3, MailboxIs
<1>5. \A i \in KEY_PAWN..KEY_NP_B : PartialKey(b.bb, i) \in Keys
  <2> TAKE i \in KEY_PAWN..KEY_NP_B
  <2>1. {pc \in Pieces : i \in {kKeyA(pc), kKeyB(pc)}} \in SUBSET Pieces OBVIOUS
  <2> QED BY <1>2, <2>1, PiecesKeyType DEF PartialKey
<1>6. [i \in KEY_PAWN..KEY_NP_B |-> PartialKey(b.bb, i)] \in [KEY_PAWN..KEY_NP_B -> Keys] BY <1>5
<1>7. t \in ThreadBoards
  BY <1>4, <1>6 DEF copy_board_to_thread, GameBoards, ThreadBoards
<1>8. BoardOK(t, su)
  <2> HIDE DEF t
  <2>1. EpSound(t) BY <1>1 DEF BoardOK, EpSound
  <2>2. RightsSound(t, su) BY <1>1 DEF BoardOK, RightsSound
  <2>3. t.key = generate_hash_key(t) BY <1>1 DEF BoardOK, generate_hash_key
  <2> QED BY <1>1, <2>1, <2>2, <2>3 DEF BoardOK
<1> HIDE DEF t
<1>9. \A i \in KEY_PAWN..KEY_NP_B : t.keys[i] = PartialKey(t.bb, i) BY <1>1
<1>10. ThreadOK(t, su) BY <1>1, <1>7, <1>8, <1>9 DEF ThreadOK
<1> QED BY <1>10 DEF t

\* The same numbers in another order and grouping give the same key.
LEMMA XorReorder ==
  ASSUME NEW x, NEW v, NEW r, NEW s, NEW k, NEW t, NEW d, NEW w,
         (v = {} /\ s = w) \/ (s = {} /\ v = w)
  PROVE  Xor(Xor(x, Xor(v, r)), Xor(Xor(s, k), Xor(t, d))) = Xor(Xor(x, Xor(w, r)), Xor(Xor(k, t), d))
<1> DEFINE left == Xor(Xor(x, Xor(v, r)), Xor(Xor(s, k), Xor(t, d)))
           right == Xor(Xor(x, Xor(w, r)), Xor(Xor(k, t), d))
<1>1. ASSUME NEW n PROVE n \in left <=> n \in right
  <2>1. n \in left <=> ~(~(n \in x <=> ~(n \in v <=> n \in r)) <=> ~(~(n \in s <=> n \in k) <=> ~(n \in t <=> n \in d)))
    BY XorIn
  <2>2. n \in right <=> ~(~(n \in x <=> ~(n \in w <=> n \in r)) <=> ~(~(n \in k <=> n \in t) <=> n \in d))
    BY XorIn
  <2>3. (n \notin v /\ (n \in s <=> n \in w)) \/ (n \notin s /\ (n \in v <=> n \in w)) OBVIOUS
  <2> HIDE DEF left, right
  <2> QED BY <2>1, <2>2, <2>3
<1> HIDE DEF left, right
<1>2. left = right BY <1>1
<1> QED BY <1>2 DEF left, right

VictimsOf(b, m) == IF m.capture THEN Victim(b.bb, b.side, m.to) ELSE {}
Victims(b, m, v) == IF m.capture /\ ~m.enpass THEN VictimsOf(b, m) = {v} /\ Lsb(VictimsOf(b, m)) = v
                    ELSE VictimsOf(b, m) = {}

\* The piece the game's board finds on the target is the one the thread's mailbox has there.
LEMMA VictimsAre ==
  ASSUME NEW b, b.bb \in Boards, b.side \in {white, black}, Disjoint(b.bb), NEW m,
         FitFrom(b, m), FitPlain(b, m), NEW v, NEW vs, Taking(b, m, v, vs)
  PROVE  Victims(b, m, v)
<1>1. CASE m.capture /\ ~m.enpass
  <2>1. v \in Men(1 - b.side) /\ m.to \in b.bb[v] /\ m.to \in Squares BY <1>1 DEF Taking
  <2>2. \A p \in Men(1 - b.side) : p \in Pieces BY MenIs
  <2>3. \A p \in Men(1 - b.side) : m.to \in b.bb[p] => p = v BY <2>1, <2>2 DEF Disjoint
  <2>4. Victim(b.bb, b.side, m.to) = {p \in Men(1 - b.side) : m.to \in b.bb[p]} BY DEF Victim, Men
  <2>5. VictimsOf(b, m) = {v} BY <1>1, <2>1, <2>3, <2>4 DEF VictimsOf
  <2>6. v \in Int BY <2>1, <2>2 DEF Pieces
  <2>7. Lsb({v}) = v BY <2>6, LsbIn
  <2> QED BY <1>1, <2>5, <2>7 DEF Victims
<1>2. CASE m.enpass
  <2>1. Free(b.bb, m.to) BY <1>2 DEF FitPlain
  <2>2. \A p \in Men(1 - b.side) : p \in Pieces BY MenIs
  <2>3. Victim(b.bb, b.side, m.to) = {p \in Men(1 - b.side) : m.to \in b.bb[p]} BY DEF Victim, Men
  <2> QED BY <1>2, <2>1, <2>2, <2>3 DEF Free, VictimsOf, Victims
<1>3. CASE ~m.capture BY <1>3 DEF VictimsOf, Victims
<1> QED BY <1>1, <1>2, <1>3

\* The two makes change the bitboards and the key in the same way.
LEMMA PlainSameBoards ==
  ASSUME NEW b, b.bb \in Boards, b.side \in {white, black}, Disjoint(b.bb), NEW m,
         FitFrom(b, m), FitPlain(b, m), NEW undo, Taking(b, m, undo.captured_piece, undo.captured_square)
  PROVE  MadeBoards(b, m, VictimsOf(b, m)) = MovedBoards(b, m, undo)
<1> DEFINE base == Placed(Lifted(b.bb, m.piece, m.from), m.piece, m.to)
           c == b.side
           v == undo.captured_piece
           vs == undo.captured_square
<1>1. m.piece \in Pieces /\ m.to \in Squares /\ m.from \in Squares BY DEF FitFrom, Moves
<1>2. base \in Boards
  <2>1. Lifted(b.bb, m.piece, m.from) \in Boards BY <1>1, LiftedIs
  <2> QED BY <1>1, <2>1, PlacedIs
<1>3. Victims(b, m, v) BY VictimsAre
<1>4. Promoting(base, m) = WithPromotion(base, c, m) BY DEF Promoting, WithPromotion, FitPlain
<1>5. ~m.castling BY DEF FitPlain
<1>6. MadeBoards(b, m, VictimsOf(b, m)) = WithoutPassed(WithPromotion(WithoutVictim(base, m, VictimsOf(b, m)), c, m), c, m)
  BY <1>5 DEF MadeBoards, WithRook
<1>7. MovedBoards(b, m, undo) = Promoting(WithoutCaptured(base, undo), m)
  BY <1>5 DEF MovedBoards, Castling
<1>8. CASE ~m.capture
  <2>1. v = None BY <1>8 DEF Taking
  <2>2. VictimsOf(b, m) = {} BY <1>8 DEF VictimsOf
  <2>3. WithoutVictim(base, m, {}) = base BY <1>2 DEF WithoutVictim, Boards
  <2>4. ~m.enpass BY <1>8 DEF FitPlain
  <2> HIDE DEF base
  <2> QED BY <2>1, <2>2, <2>3, <2>4, <1>4, <1>6, <1>7 DEF WithoutPassed, WithoutCaptured
<1>9. CASE m.capture /\ ~m.enpass
  <2>1. v \in Men(1 - c) /\ vs = m.to BY <1>9 DEF Taking
  <2>2. v \in Pieces /\ v # None BY <2>1, MenIs DEF Pieces, None
  <2>3. VictimsOf(b, m) = {v} /\ Lsb(VictimsOf(b, m)) = v BY <1>3, <1>9 DEF Victims
  <2>4. WithoutVictim(base, m, VictimsOf(b, m)) = [pc \in Pieces |-> IF pc = v THEN base[pc] \ {m.to} ELSE base[pc]]
    <3> HIDE DEF base, v
    <3> QED BY <2>3 DEF WithoutVictim
  <2>5. Lifted(base, v, m.to) = [pc \in Pieces |-> IF pc = v THEN base[pc] \ {m.to} ELSE base[pc]]
    <3> HIDE DEF base, v
    <3> QED BY <1>2, <2>2 DEF Lifted, Boards
  <2>6. WithoutCaptured(base, undo) = WithoutVictim(base, m, VictimsOf(b, m))
    <3> HIDE DEF base
    <3> QED BY <2>1, <2>2, <2>4, <2>5 DEF WithoutCaptured
  <2>7. Promoting(WithoutCaptured(base, undo), m) = WithPromotion(WithoutCaptured(base, undo), c, m)
    BY DEF Promoting, WithPromotion, FitPlain
  <2> HIDE DEF base
  <2> QED BY <2>6, <2>7, <1>6, <1>7, <1>9 DEF WithoutPassed
<1>10. CASE m.enpass
  <2>1. m.capture /\ m.promo = 0 BY <1>10 DEF FitPlain
  <2>2. VictimsOf(b, m) = {} BY <1>3, <1>10 DEF Victims
  <2>3. WithoutVictim(base, m, {}) = base BY <1>2 DEF WithoutVictim, Boards
  <2>4. v = Piece(1 - c, Pawn) /\ vs = m.to - Up(c) /\ v \in Men(1 - c) BY <1>10, <2>1 DEF Taking
  <2>5. v # None BY <2>4, MenIs DEF Pieces, None
  <2> HIDE DEF base
  <2> QED BY <2>1, <2>2, <2>3, <2>4, <2>5, <1>6, <1>7, <1>10 DEF WithoutPassed, WithoutCaptured, Promoting, WithPromotion
<1> QED BY <1>8, <1>9, <1>10

\* make_move of the game and td_make_move of the search compute the same key (a move that does not castle) ...
LEMMA PlainSameKey ==
  ASSUME NEW b, b.bb \in Boards, b.side \in {white, black}, Disjoint(b.bb), NEW m,
         FitFrom(b, m), FitPlain(b, m), NEW undo, Taking(b, m, undo.captured_piece, undo.captured_square),
         NEW ep, NEW castle
  PROVE  MadeKey(b, m, VictimsOf(b, m), ep, castle) = MovedKey(b, m, undo, ep, castle)
<1> DEFINE c == b.side
           v == undo.captured_piece
           vs == undo.captured_square
           x == Xor(b.key, Xor(PieceKey(m.piece, m.from), PieceKey(m.piece, m.to)))
           taken == IF VictimsOf(b, m) = {} THEN {} ELSE PieceKey(Lsb(VictimsOf(b, m)), m.to)
           promo == IF m.promo = 0 THEN {} ELSE Xor(PieceKey(Piece(c, Pawn), m.to), PieceKey(m.promo, m.to))
           passed == IF m.enpass THEN PieceKey(Piece(1 - c, Pawn), m.to - Up(c)) ELSE {}
           state == Xor(Xor(EnpassantKey(b.ep), EnpassantKey(ep)), Xor(CastleKey(b.castle), CastleKey(castle)))
           victim == IF v = None THEN {} ELSE PieceKey(v, vs)
<1>1. ~m.castling BY DEF FitPlain
<1>2. MadeKey(b, m, VictimsOf(b, m), ep, castle) = Xor(Xor(x, Xor(taken, promo)), Xor(Xor(passed, {}), Xor(state, side_key)))
  BY <1>1 DEF MadeKey
<1>3. MovedKey(b, m, undo, ep, castle) = Xor(Xor(x, Xor(victim, promo)), Xor(Xor({}, state), side_key))
  BY <1>1 DEF MovedKey, FitPlain
<1>4. (taken = {} /\ passed = victim) \/ (passed = {} /\ taken = victim)
  <2>1. Victims(b, m, v) BY VictimsAre
  <2>2. CASE ~m.capture
    <3>1. v = None /\ ~m.enpass /\ VictimsOf(b, m) = {} BY <2>2 DEF Taking, FitPlain, VictimsOf
    <3> QED BY <3>1
  <2>3. CASE m.capture /\ ~m.enpass
    <3>1. v \in Men(1 - c) /\ vs = m.to BY <2>3 DEF Taking
    <3>2. v # None BY <3>1, MenIs DEF Pieces, None
    <3>3. VictimsOf(b, m) = {v} /\ Lsb(VictimsOf(b, m)) = v BY <2>1, <2>3 DEF Victims
    <3>4. VictimsOf(b, m) # {} BY <3>3
    <3> QED BY <2>3, <3>1, <3>2, <3>3, <3>4
  <2>4. CASE m.enpass
    <3>1. m.capture BY <2>4 DEF FitPlain
    <3>2. VictimsOf(b, m) = {} BY <2>1, <2>4 DEF Victims
    <3>3. v = Piece(1 - c, Pawn) /\ vs = m.to - Up(c) /\ v \in Men(1 - c) BY <2>4, <3>1 DEF Taking
    <3>4. v # None BY <3>3, MenIs DEF Pieces, None
    <3> QED BY <2>4, <3>2, <3>3, <3>4
  <2> QED BY <2>2, <2>3, <2>4
<1> HIDE DEF x, taken, promo, passed, state, victim
<1>5. Xor(Xor(x, Xor(taken, promo)), Xor(Xor(passed, {}), Xor(state, side_key)))
        = Xor(Xor(x, Xor(victim, promo)), Xor(Xor({}, state), side_key))
  BY <1>4, XorReorder
<1> QED BY <1>2, <1>3, <1>5

\* ... and for castling the same boards and the same key.
LEMMA CastlingSame ==
  ASSUME NEW b, b.bb \in Boards, b.side \in {white, black}, NEW m,
         FitFrom(b, m), FitCastling(b, m), NEW undo, undo.captured_piece = None, NEW ep, NEW castle
  PROVE  /\ MadeBoards(b, m, VictimsOf(b, m)) = MovedBoards(b, m, undo)
         /\ MadeKey(b, m, VictimsOf(b, m), ep, castle) = MovedKey(b, m, undo, ep, castle)
<1> DEFINE base == Placed(Lifted(b.bb, m.piece, m.from), m.piece, m.to)
           r == CastleRook(m)
           x == Xor(b.key, Xor(PieceKey(m.piece, m.from), PieceKey(m.piece, m.to)))
           rook == Xor(PieceKey(r.piece, r.from), PieceKey(r.piece, r.to))
           state == Xor(Xor(EnpassantKey(b.ep), EnpassantKey(ep)), Xor(CastleKey(b.castle), CastleKey(castle)))
<1>1. m.castling /\ ~m.capture /\ m.promo = 0 /\ ~m.enpass BY DEF FitCastling
<1>2. VictimsOf(b, m) = {} BY <1>1 DEF VictimsOf
<1>3. /\ r.piece = Piece(OfSide(castle_index(m.to)), Rook) /\ r.from = castle_rook_sq(castle_index(m.to))
      /\ r.to = castle_rook_to(castle_index(m.to))
  BY DEF CastleRook
<1>4. base \in Boards
  <2>1. m.piece \in Pieces /\ m.to \in Squares /\ m.from \in Squares BY DEF FitFrom, Moves
  <2>2. Lifted(b.bb, m.piece, m.from) \in Boards BY <2>1, LiftedIs
  <2> QED BY <2>1, <2>2, PlacedIs
<1>5. MadeBoards(b, m, VictimsOf(b, m)) = MovedBoards(b, m, undo)
  <2>1. WithoutVictim(base, m, {}) = base BY <1>4 DEF WithoutVictim, Boards
  <2>2. MadeBoards(b, m, VictimsOf(b, m)) = Placed(Lifted(base, r.piece, r.from), r.piece, r.to)
    <3> HIDE DEF r
    <3> QED BY <1>1, <1>2, <1>3, <2>1 DEF MadeBoards, WithRook, WithoutPassed, WithPromotion
  <2>3. MovedBoards(b, m, undo) = Placed(Lifted(base, r.piece, r.from), r.piece, r.to)
    BY <1>1 DEF MovedBoards, Castling, Promoting, WithoutCaptured
  <2> QED BY <2>2, <2>3
<1>6. MadeKey(b, m, VictimsOf(b, m), ep, castle) = Xor(Xor(x, Xor({}, {})), Xor(Xor({}, rook), Xor(state, side_key)))
  <2> HIDE DEF r
  <2> QED BY <1>1, <1>2, <1>3 DEF MadeKey
<1>7. MovedKey(b, m, undo, ep, castle) = Xor(Xor(x, Xor({}, {})), Xor(Xor(rook, state), side_key))
  BY <1>1 DEF MovedKey
<1>8. ({} = {} /\ {} = {}) \/ ({} = {} /\ {} = {}) OBVIOUS
<1> HIDE DEF x, rook, state, r, base
<1>9. Xor(Xor(x, Xor({}, {})), Xor(Xor({}, rook), Xor(state, side_key)))
        = Xor(Xor(x, Xor({}, {})), Xor(Xor(rook, state), side_key))
  BY <1>8, XorReorder
<1> QED BY <1>5, <1>6, <1>7, <1>9

\* A move made on the game's board leaves it sound.
LEMMA GameMake ==
  ASSUME NEW b \in GameBoards, BoardOK(b, setup), NEW m, Fit(b, m)
  PROVE  Made(b, m) \in GameBoards /\ BoardOK(Made(b, m), setup)
<1> DEFINE t == copy_board_to_thread(b, <<>>)
           undo == UndoOf(t, m)
           new == MovedBoards(b, m, undo)
           x == MadeMove(t, m, undo, new)
           y == Made(b, m)
<1>1. /\ t.bb = b.bb /\ t.occ = b.occ /\ t.side = b.side /\ t.ep = b.ep /\ t.castle = b.castle /\ t.key = b.key
      /\ t.fifty = b.fifty
  BY DEF copy_board_to_thread
<1>2. b.bb \in Boards /\ b.side \in {white, black} BY DEF GameBoards
<1>3. Disjoint(b.bb) BY DEF BoardOK
<1>4. ThreadOK(t, setup)
  <2>1. <<>> \in Seq(Keys) OBVIOUS
  <2> QED BY <2>1, CopyIsThread
<1> HIDE DEF t
<1>5. Fit(t, m) BY <1>1 DEF Fit, FitFrom, FitPlain, FitCastling, PawnWay
<1>6. MovedBoards(t, m, undo) = new BY <1>1 DEF MovedBoards
<1>7. \A ep, castle : MovedKey(t, m, undo, ep, castle) = MovedKey(b, m, undo, ep, castle) BY <1>1 DEF MovedKey
<1>8. /\ MadeBoards(b, m, VictimsOf(b, m)) = new
      /\ \A ep, castle : MadeKey(b, m, VictimsOf(b, m), ep, castle) = MovedKey(b, m, undo, ep, castle)
  <2>1. FitFrom(b, m) /\ FitFrom(t, m) BY <1>5 DEF Fit
  <2>2. CASE FitPlain(b, m)
    <3>1. FitPlain(t, m) BY <2>2, <1>1 DEF FitPlain, PawnWay
    <3>2. Taking(t, m, undo.captured_piece, undo.captured_square) BY <1>4, <2>1, <3>1, VictimIs
    <3>3. Taking(b, m, undo.captured_piece, undo.captured_square) BY <1>1, <3>2 DEF Taking
    <3> HIDE DEF undo
    <3>4. MadeBoards(b, m, VictimsOf(b, m)) = new BY <1>2, <1>3, <2>1, <2>2, <3>3, PlainSameBoards
    <3>5. \A ep, castle : MadeKey(b, m, VictimsOf(b, m), ep, castle) = MovedKey(b, m, undo, ep, castle)
      BY <1>2, <1>3, <2>1, <2>2, <3>3, PlainSameKey
    <3> QED BY <3>4, <3>5
  <2>3. CASE FitCastling(b, m)
    <3>1. ~m.capture BY <2>3 DEF FitCastling
    <3>2. undo.captured_piece = None BY <3>1 DEF UndoOf
    <3> HIDE DEF undo
    <3> QED BY <1>2, <2>1, <2>3, <3>2, CastlingSame
  <2> QED BY <2>2, <2>3 DEF Fit
<1>9. ThreadOK(x, setup)
  <2>1. Restores(t, m) BY <1>4, <1>5, MakeRestores
  <2> QED BY <1>6, <2>1 DEF Restores
<1>10. /\ x.bb = new /\ x.side = 1 - b.side /\ x.castle = RightsLeft(b.castle, m)
       /\ x.ep = IF m.double THEN EpSquare(new, b.side, m.to) ELSE no_sq
       /\ x.fifty = IF Type(m.piece) = Pawn \/ m.capture THEN 0 ELSE b.fifty + 1
       /\ x.key = MovedKey(b, m, undo, x.ep, x.castle)
  <2>0. t \in ThreadBoards BY <1>4 DEF ThreadOK
  <2> HIDE DEF undo, new
  <2>1. x = [t EXCEPT !.bb = new, !.ep = IF m.double THEN EpSquare(new, t.side, m.to) ELSE no_sq,
                      !.castle = RightsLeft(t.castle, m), !.side = 1 - t.side,
                      !.fifty = IF Type(m.piece) = Pawn \/ m.capture THEN 0 ELSE t.fifty + 1,
                      !.key = MovedKey(t, m, undo, IF m.double THEN EpSquare(new, t.side, m.to) ELSE no_sq, RightsLeft(t.castle, m)),
                      !.occ = td_occ_update(t.occ, t.side, m, undo.captured_square, undo.captured_piece),
                      !.keys = td_keys_update(t.keys, m, undo.captured_square, undo.captured_piece),
                      !.piece_on = td_mailbox_apply(t.piece_on, m, undo.captured_square, undo.captured_piece)]
    BY DEF MadeMove, MadeBoard
  <2> HIDE DEF x
  <2>2. /\ x.bb = new /\ x.side = 1 - t.side /\ x.castle = RightsLeft(t.castle, m)
        /\ x.ep = IF m.double THEN EpSquare(new, t.side, m.to) ELSE no_sq
        /\ x.fifty = IF Type(m.piece) = Pawn \/ m.capture THEN 0 ELSE t.fifty + 1
        /\ x.key = MovedKey(t, m, undo, IF m.double THEN EpSquare(new, t.side, m.to) ELSE no_sq, RightsLeft(t.castle, m))
    BY <2>0, <2>1 DEF ThreadBoards
  <2>3. x.key = MovedKey(b, m, undo, x.ep, x.castle) BY <2>2, <1>7
  <2> QED BY <2>2, <2>3, <1>1
<1>11. /\ y.bb = new /\ y.occ = [o \in {white, black} |-> Occupied(new, o)]
       /\ y.side = 1 - b.side /\ y.castle = x.castle /\ y.ep = x.ep /\ y.fifty = x.fifty /\ y.key = x.key
       /\ y = [bb |-> y.bb, occ |-> y.occ, side |-> y.side, ep |-> y.ep, castle |-> y.castle, fifty |-> y.fifty, key |-> y.key]
  <2> HIDE DEF undo, new, x
  <2>1. y = MadeTaking(b, m, VictimsOf(b, m)) BY DEF Made, VictimsOf
  <2>2. y = MadeOn(b, m, VictimsOf(b, m), new) BY <2>1, <1>8 DEF MadeTaking
  <2>3. y = MadeFrom(b, m, VictimsOf(b, m), new, x.ep, x.castle) BY <2>2, <1>10 DEF MadeOn
  <2>4. y = [bb |-> new, occ |-> [o \in {white, black} |-> Occupied(new, o)], side |-> 1 - b.side, ep |-> x.ep,
             castle |-> x.castle, fifty |-> x.fifty, key |-> x.key]
    <3>1. MadeKey(b, m, VictimsOf(b, m), x.ep, x.castle) = x.key BY <1>8, <1>10
    <3> QED BY <2>3, <3>1, <1>10 DEF MadeFrom
  <2> HIDE DEF y
  <2> QED BY <2>4
<1>12. x \in ThreadBoards /\ BoardOK(x, setup) BY <1>9 DEF ThreadOK
<1> HIDE DEF undo, new, x, y
<1>13. y \in GameBoards
  <2>1. /\ x.bb \in Boards /\ x.side \in {white, black} /\ x.castle \in SUBSET Rights /\ x.ep \in 0..64
        /\ x.fifty \in Nat /\ x.key \in Keys
    BY <1>12 DEF ThreadBoards
  <2>2. \A o \in {white, black} : Occupied(new, o) \in SUBSET Squares BY <1>10, <2>1, OccupiedIs
  <2>3. y.occ \in [{white, black} -> SUBSET Squares] BY <2>2, <1>11
  <2>4. y.bb \in Boards /\ y.side \in {white, black} /\ y.castle \in SUBSET Rights /\ y.ep \in 0..64
        /\ y.fifty \in Nat /\ y.key \in Keys
    BY <2>1, <1>10, <1>11
  <2> QED BY <2>3, <2>4, <1>11 DEF GameBoards
<1>14. BoardOK(y, setup)
  <2>1. /\ y.bb = x.bb /\ y.side = x.side /\ y.ep = x.ep /\ y.castle = x.castle /\ y.key = x.key BY <1>10, <1>11
  <2>2. EpSound(y) BY <2>1, <1>12 DEF BoardOK, EpSound
  <2>3. RightsSound(y, setup) BY <2>1, <1>12 DEF BoardOK, RightsSound
  <2>4. y.key = generate_hash_key(y) BY <2>1, <1>12 DEF BoardOK, generate_hash_key
  <2>5. \A o \in {white, black} : y.occ[o] = Occupied(y.bb, o) BY <1>11
  <2>6. Disjoint(y.bb) BY <2>1, <1>12 DEF BoardOK
  <2> QED BY <2>2, <2>3, <2>4, <2>5, <2>6 DEF BoardOK
<1> QED BY <1>13, <1>14 DEF y

(***************************************************************************)
(* The position a FEN sets up.                                             *)
(***************************************************************************)
LEMMA BitboardsAre ==
  ASSUME NEW board \in [Squares -> Pieces \cup {-1}]
  PROVE  /\ bitboards_of(board) \in Boards /\ Disjoint(bitboards_of(board))
         /\ \A p \in Pieces : \A s : s \in bitboards_of(board)[p] <=> s \in Squares /\ board[s] = p
         /\ \A s \in Squares : board[s] = -1 => Free(bitboards_of(board), s)
<1> DEFINE bb == bitboards_of(board)
<1>1. bb \in Boards BY DEF bitboards_of, Boards
<1>2. \A p \in Pieces : \A s : s \in bb[p] <=> s \in Squares /\ board[s] = p BY DEF bitboards_of
<1> HIDE DEF bb
<1>3. Disjoint(bb) BY <1>2 DEF Disjoint
<1>4. \A s \in Squares : board[s] = -1 => Free(bb, s)
  <2>1. \A p \in Pieces : p # -1 BY DEF Pieces
  <2> QED BY <1>2, <2>1 DEF Free
<1> QED BY <1>1, <1>2, <1>3, <1>4 DEF bb

\* The standard squares of kings and rooks are those of the rights.
LEMMA CornersAre ==
  /\ \A c \in {white, black} : corners.king[c + 1] \in Squares /\ standard_setup.king[c + 1] = corners.king[c + 1]
  /\ \A idx \in Rights : /\ corners.rook[idx + 1] \in Squares /\ standard_setup.rook[idx + 1] = corners.rook[idx + 1]
                         /\ idx \notin standard_setup.mask[corners.king[OfSide(idx) + 1]]
                         /\ idx \notin standard_setup.mask[corners.rook[idx + 1]]
                         /\ idx \in HomeRights(standard_setup)
<1>1. \A c \in {white, black} : corners.king[c + 1] \in Squares BY DEF corners, Squares, white, black
<1>2. \A idx \in Rights : corners.rook[idx + 1] \in Squares BY DEF corners, Squares, Rights
<1>3. standard_setup.king = corners.king /\ standard_setup.rook = corners.rook BY DEF standard_setup
<1>4. standard_setup.mask = [s \in Squares |-> {idx \in Rights : s # corners.king[OfSide(idx) + 1] /\ s # corners.rook[idx + 1]}]
  BY DEF standard_setup
<1>5. \A idx \in Rights : OfSide(idx) \in {white, black} BY SideOfRight
<1>6. \A idx \in Rights : idx \in HomeRights(standard_setup)
  <2> SUFFICES ASSUME NEW idx \in Rights PROVE idx \in HomeRights(standard_setup) OBVIOUS
  <2>1. idx = 0 \/ idx = 1 \/ idx = 2 \/ idx = 3 BY DEF Rights
  <2>2. /\ corners.king[OfSide(idx) + 1] \in BackRank(OfSide(idx)) /\ corners.rook[idx + 1] \in BackRank(OfSide(idx))
        /\ corners.rook[idx + 1] > corners.king[OfSide(idx) + 1] <=> idx \in {0, 2}
    <3>1. CASE idx = 0 BY <3>1 DEF BackRank, BackRow, OfSide, corners, white, black
    <3>2. CASE idx = 1 BY <3>2 DEF BackRank, BackRow, OfSide, corners, white, black
    <3>3. CASE idx = 2 BY <3>3 DEF BackRank, BackRow, OfSide, corners, white, black
    <3>4. CASE idx = 3 BY <3>4 DEF BackRank, BackRow, OfSide, corners, white, black
    <3> QED BY <2>1, <3>1, <3>2, <3>3, <3>4
  <2>3. \A s \in Squares : idx \in standard_setup.mask[s] <=> s # corners.king[OfSide(idx) + 1] /\ s # corners.rook[idx + 1]
    BY <1>4
  <2> QED BY <1>3, <2>2, <2>3 DEF HomeRights
<1> QED BY <1>1, <1>2, <1>3, <1>4, <1>5, <1>6

\* Rights the standard letters of a FEN give name king and rook at home.
LEMMA StandardSound ==
  ASSUME NEW b, NEW letters, b.castle = StandardRights(letters, b.bb)
  PROVE  RightsSound(b, standard_setup)
<1>1. ASSUME NEW idx \in b.castle
      PROVE  /\ idx \in Rights /\ corners.king[OfSide(idx) + 1] \in b.bb[Piece(OfSide(idx), King)]
             /\ corners.rook[idx + 1] \in b.bb[Piece(OfSide(idx), Rook)]
  BY DEF StandardRights
<1>2. \A idx \in b.castle : OfSide(idx) \in {white, black} BY <1>1, SideOfRight
<1> QED BY <1>1, <1>2, CornersAre DEF RightsSound

\* The rook a letter of Chess960 names is one on the back rank ...
LEMMA RookNamedIs ==
  ASSUME NEW bb \in Boards, NEW c \in {white, black}, NEW what \in 0..9, NEW ksq, RookNamed(bb, c, what, ksq) # no_sq
  PROVE  /\ ksq # no_sq
         /\ RookNamed(bb, c, what, ksq) \in bb[Piece(c, Rook)]
         /\ RookNamed(bb, c, what, ksq) \in BackRank(c)
<1>0. \A f \in 0..7 : BackRow(c) + f \in BackRank(c) BY DEF BackRank, BackRow
<1>1. ksq # no_sq BY DEF RookNamed
<1>2. CASE what \in {KingSide, QueenSide}
  <2> DEFINE rooks == {f \in 0..7 : BackRow(c) + f \in bb[Piece(c, Rook)]}
             beyond == {f \in rooks : IF what = KingSide THEN f > File(ksq) ELSE f < File(ksq)}
             Outer(f) == \A e \in beyond : IF what = KingSide THEN e <= f ELSE e >= f
  <2>1. RookNamed(bb, c, what, ksq) = outer_rook(bb, c, what, File(ksq)) BY <1>1, <1>2 DEF RookNamed
  <2>2. beyond # {} /\ outer_rook(bb, c, what, File(ksq)) = BackRow(c) + (CHOOSE f \in beyond : Outer(f))
    BY <2>1 DEF outer_rook
  <2>3. beyond \in SUBSET (0..7) /\ beyond \in SUBSET Nat OBVIOUS
  <2>4. \E f \in beyond : Outer(f)
    <3>1. CASE what = KingSide
      <4>1. \E f \in beyond : \A e \in beyond : e <= f
        <5> HIDE DEF beyond
        <5>1. 7 \in Nat OBVIOUS
        <5> QED BY <2>2, <2>3, <5>1, GreatestNatural
      <4> QED BY <3>1, <4>1
    <3>2. CASE what # KingSide
      <4>1. \E f \in beyond : \A e \in beyond : f <= e
        <5> HIDE DEF beyond
        <5> QED BY <2>2, <2>3, LeastNatural
      <4>2. \A e, f \in 0..7 : f <= e => e >= f OBVIOUS
      <4> QED BY <2>3, <3>2, <4>1, <4>2
    <3> QED BY <3>1, <3>2
  <2>5. (CHOOSE f \in beyond : Outer(f)) \in beyond
    <3> HIDE DEF beyond, Outer
    <3> QED BY <2>4
  <2>6. \A f \in beyond : BackRow(c) + f \in bb[Piece(c, Rook)] OBVIOUS
  <2> HIDE DEF beyond, Outer
  <2> QED BY <1>0, <1>1, <2>1, <2>2, <2>3, <2>5, <2>6
<1>3. CASE what \notin {KingSide, QueenSide}
  <2>1. RookNamed(bb, c, what, ksq) = IF BackRow(c) + what \in bb[Piece(c, Rook)] /\ what # File(ksq) THEN BackRow(c) + what ELSE no_sq
    BY <1>1, <1>3 DEF RookNamed
  <2>2. what \in 0..7 BY <1>3 DEF KingSide, QueenSide
  <2> QED BY <1>0, <1>1, <2>1, <2>2
<1> QED BY <1>2, <1>3

\* ... the king likewise ...
LEMMA KingFromIs ==
  ASSUME NEW bb \in Boards, NEW c \in {white, black}, king_from(bb, c) # no_sq
  PROVE  king_from(bb, c) \in bb[Piece(c, King)] /\ king_from(bb, c) \in BackRank(c)
<1> DEFINE there == bb[Piece(c, King)] \cap BackRow(c)..(BackRow(c) + 7)
<1>1. there # {} /\ king_from(bb, c) = CHOOSE s \in there : \A t \in there : t <= s BY DEF king_from
<1>2. there \in SUBSET (0..63) BY DEF BackRow, white, black
<1>3. \E s \in there : \A t \in there : t <= s
  <2> HIDE DEF there
  <2>1. 63 \in Nat OBVIOUS
  <2> QED BY <1>1, <1>2, <2>1, GreatestNatural
<1>4. king_from(bb, c) \in there
  <2> HIDE DEF there
  <2> QED BY <1>1, <1>3
<1> QED BY <1>4 DEF BackRank

\* ... and the right is that of the side, on the wing of the rook.
LEMMA RightNamedIs ==
  ASSUME NEW c \in {white, black}, NEW ksq, NEW rsq, NEW idx \in Rights, Right(c, ksq, rsq)[1] = idx
  PROVE  Right(c, ksq, rsq)[2] = rsq /\ rsq # no_sq /\ OfSide(idx) = c /\ (rsq > ksq <=> idx \in {0, 2})
<1>1. rsq # no_sq BY DEF Right, Rights
<1>2. Right(c, ksq, rsq) = <<2 * c + (IF rsq > ksq THEN 0 ELSE 1), rsq>> BY <1>1 DEF Right
<1> DEFINE n == IF rsq > ksq THEN 0 ELSE 1
<1>3. idx = 2 * c \/ idx = 2 * c + 1
  <2>1. n = 0 \/ n = 1 OBVIOUS
  <2>2. Right(c, ksq, rsq) = <<2 * c + n, rsq>> BY <1>2
  <2> HIDE DEF n
  <2>3. idx = 2 * c + n BY <2>2
  <2> QED BY <2>1, <2>3 DEF white, black
<1>4. OfSide(idx) = c BY <1>3 DEF OfSide, white, black
<1>5. rsq > ksq <=> idx \in {0, 2}
  <2>1. CASE rsq > ksq
    <3>1. Right(c, ksq, rsq) = <<2 * c + 0, rsq>> BY <1>2, <2>1
    <3>2. idx = 2 * c BY <3>1 DEF white, black
    <3> QED BY <2>1, <3>2 DEF white, black
  <2>2. CASE ~(rsq > ksq)
    <3>1. Right(c, ksq, rsq) = <<2 * c + 1, rsq>> BY <1>2, <2>2
    <3>2. idx = 2 * c + 1 BY <3>1 DEF white, black
    <3>3. idx \notin {0, 2} BY <3>2 DEF white, black
    <3> QED BY <2>2, <3>3
  <2> QED BY <2>1, <2>2
<1> QED BY <1>1, <1>2, <1>4, <1>5

\* Of several letters for one right the last one counts.
LEMMA LastForIs ==
  ASSUME NEW n \in Nat, NEW named, DOMAIN named = 1..n, NEW idx, LastFor(named, idx) # no_sq
  PROVE  \E i \in 1..n : named[i][1] = idx /\ LastFor(named, idx) = named[i][2]
<1> DEFINE A == {i \in 1..n : named[i][1] = idx}
           Last(i) == i \in DOMAIN named /\ named[i][1] = idx /\ \A j \in DOMAIN named : named[j][1] = idx => j <= i
<1>1. ~(\A i \in DOMAIN named : named[i][1] # idx) BY DEF LastFor
<1>2. A # {} /\ A \in SUBSET (0..n) BY <1>1
<1>3. PICK x \in A : \A y \in A : y <= x
  <2> HIDE DEF A
  <2> QED BY <1>2, GreatestNatural
<1>4. Last(x) BY <1>3
<1>5. LastFor(named, idx) = named[CHOOSE i \in DOMAIN named : named[i][1] = idx /\ \A j \in DOMAIN named : named[j][1] = idx => j <= i][2]
  BY <1>1 DEF LastFor
<1> DEFINE z == CHOOSE i \in DOMAIN named : named[i][1] = idx /\ \A j \in DOMAIN named : named[j][1] = idx => j <= i
<1>6. z \in 1..n /\ named[z][1] = idx BY <1>4
<1> HIDE DEF z
<1>7. LastFor(named, idx) = named[z][2] BY <1>5 DEF z
<1> QED BY <1>6, <1>7

Letters == Seq({white, black} \X (0..9))
Kings(bb) == [c \in {white, black} |-> king_from(bb, c)]
Named(bb, letters) ==
  [i \in DOMAIN letters |-> RightNamed(bb, letters[i][1], letters[i][2], Kings(bb)[letters[i][1]])]

\* The squares c960_setup keeps for a right that was read.
LEMMA RookFromIs ==
  ASSUME NEW bb \in Boards, NEW letters \in Letters, NEW idx \in Rights, LastFor(Named(bb, letters), idx) # no_sq
  PROVE  LET c == OfSide(idx)
             rook == LastFor(Named(bb, letters), idx)
         IN  /\ king_from(bb, c) # no_sq
             /\ king_from(bb, c) \in bb[Piece(c, King)] /\ king_from(bb, c) \in BackRank(c)
             /\ rook \in bb[Piece(c, Rook)] /\ rook \in BackRank(c)
             /\ rook > king_from(bb, c) <=> idx \in {0, 2}
<1> DEFINE c == OfSide(idx)
           named == Named(bb, letters)
           rook == LastFor(named, idx)
<1>1. DOMAIN named = 1..Len(letters) /\ Len(letters) \in Nat BY DEF Named, Letters
<1>2. c \in {white, black} BY SideOfRight
<1> HIDE DEF named
<1>3. PICK i \in 1..Len(letters) : named[i][1] = idx /\ rook = named[i][2] BY <1>1, LastForIs DEF named
<1> HIDE DEF rook
<1>4. PICK d \in {white, black}, w \in 0..9 : letters[i] = <<d, w>>
  <2>1. letters[i] \in {white, black} \X (0..9) BY <1>1, <1>3 DEF Letters
  <2> QED BY <2>1
<1> DEFINE ksq == king_from(bb, d)
           rsq == RookNamed(bb, d, w, ksq)
<1>5. named[i] = Right(d, ksq, rsq)
  <2>1. Kings(bb)[d] = ksq BY DEF Kings
  <2>2. named[i] = RightNamed(bb, letters[i][1], letters[i][2], Kings(bb)[letters[i][1]])
    BY <1>1, <1>3 DEF Named, named
  <2>3. letters[i][1] = d /\ letters[i][2] = w BY <1>4
  <2> QED BY <2>1, <2>2, <2>3 DEF RightNamed
<1>6. rook = rsq /\ rsq # no_sq /\ d = c /\ (rsq > ksq <=> idx \in {0, 2})
  <2> HIDE DEF ksq, rsq, c
  <2>1. Right(d, ksq, rsq)[1] = idx BY <1>3, <1>5
  <2>2. Right(d, ksq, rsq)[2] = rsq /\ rsq # no_sq /\ OfSide(idx) = d /\ (rsq > ksq <=> idx \in {0, 2})
    BY <2>1, RightNamedIs
  <2> QED BY <1>3, <1>5, <2>2 DEF c
<1>7. ksq # no_sq /\ rsq \in bb[Piece(d, Rook)] /\ rsq \in BackRank(d)
  BY <1>6, RookNamedIs
<1>8. ksq \in bb[Piece(d, King)] /\ ksq \in BackRank(d) BY <1>7, KingFromIs
<1> HIDE DEF ksq, rsq
<1>9. ksq = king_from(bb, c) BY <1>6 DEF ksq
<1> QED BY <1>6, <1>7, <1>8, <1>9 DEF rook, named

\* Rights the letters of Chess960 give name king and rook on the back rank.
LEMMA Sound960 ==
  ASSUME NEW bb \in Boards, NEW letters \in Letters, NEW b, b.bb = bb,
         b.castle = c960_parse_castling(bb, letters).rights
  PROVE  b.castle \in SUBSET Rights /\ RightsSound(b, c960_setup(bb, c960_parse_castling(bb, letters)))
<1> DEFINE parsed == c960_parse_castling(bb, letters)
           su == c960_setup(bb, parsed)
           named == Named(bb, letters)
           from == [idx \in Rights |-> LastFor(named, idx)]
           kings == Kings(bb)
<1>1. /\ parsed.rights = {idx \in Rights : from[idx] # no_sq} /\ parsed.rook_from = from
      /\ parsed.rights_mask = [s \in Squares |-> {idx \in Rights : s # kings[OfSide(idx)] /\ s # from[idx]}]
  <2>1. parsed = CastlingOf(kings, from)
    BY DEF c960_parse_castling, Castling960, RooksOf, Named, Kings
  <2> HIDE DEF from, kings, parsed
  <2> QED BY <2>1 DEF CastlingOf
<1>2. /\ su.rook = [i \in 1..4 |-> IF parsed.rook_from[i - 1] # no_sq THEN parsed.rook_from[i - 1] ELSE corners.rook[i]]
      /\ su.king = [i \in 1..2 |-> IF king_from(bb, i - 1) # no_sq THEN king_from(bb, i - 1) ELSE corners.king[i]]
      /\ su.mask = parsed.rights_mask
  <2> HIDE DEF parsed
  <2> QED BY DEF c960_setup
<1> HIDE DEF parsed, su, named
<1>3. ASSUME NEW idx \in b.castle
      PROVE  /\ su.king[OfSide(idx) + 1] \in b.bb[Piece(OfSide(idx), King)]
             /\ su.rook[idx + 1] \in b.bb[Piece(OfSide(idx), Rook)]
             /\ idx \notin su.mask[su.king[OfSide(idx) + 1]]
             /\ idx \notin su.mask[su.rook[idx + 1]]
             /\ idx \in HomeRights(su)
  <2> DEFINE c == OfSide(idx)
             k == king_from(bb, c)
             r == LastFor(named, idx)
  <2>1. idx \in Rights /\ from[idx] = r /\ r # no_sq BY <1>1 DEF parsed
  <2>2. c \in {white, black} BY <2>1, SideOfRight
  <2>3. /\ k # no_sq /\ k \in bb[Piece(c, King)] /\ k \in BackRank(c)
        /\ r \in bb[Piece(c, Rook)] /\ r \in BackRank(c) /\ (r > k <=> idx \in {0, 2})
    BY <2>1, RookFromIs DEF named
  <2> HIDE DEF r, from
  <2>4. su.rook[idx + 1] = r
    <3>1. idx + 1 \in 1..4 /\ (idx + 1) - 1 = idx BY <2>1 DEF Rights
    <3> QED BY <3>1, <1>1, <1>2, <2>1
  <2>5. su.king[c + 1] = k
    <3> HIDE DEF c
    <3>1. c + 1 \in 1..2 /\ (c + 1) - 1 = c BY <2>2 DEF white, black
    <3> QED BY <3>1, <1>2, <2>3
  <2>6. kings[c] = k BY <2>2 DEF Kings
  <2>7. k \in Squares /\ r \in Squares
    <3> HIDE DEF k, c
    <3> QED BY <2>2, <2>3 DEF BackRank, BackRow, Squares, white, black
  <2>8. idx \notin su.mask[k] /\ idx \notin su.mask[r]
    <3> HIDE DEF k, kings
    <3> QED BY <1>1, <1>2, <2>1, <2>6, <2>7
  <2>9. idx \in HomeRights(su)
    <3>1. \A s \in Squares : idx \in su.mask[s] <=> s # k /\ s # r
      <4> HIDE DEF k, kings
      <4> QED BY <1>1, <1>2, <2>1, <2>6
    <3> QED BY <2>1, <2>3, <2>4, <2>5, <3>1 DEF HomeRights
  <2> HIDE DEF k
  <2> QED BY <2>3, <2>4, <2>5, <2>8, <2>9
<1>4. RightsSound(b, su)
  <2> HIDE DEF from, kings
  <2> QED BY <1>3 DEF RightsSound
<1>5. b.castle \in SUBSET Rights BY <1>1 DEF parsed
<1> QED BY <1>4, <1>5 DEF su, parsed

\* The board set up from the fields of a FEN is sound ...
LEMMA SetUpSound ==
  ASSUME NEW fen, AnyFen(fen), NEW bb, bb = bitboards_of(fen.board), NEW castle \in SUBSET Rights, NEW squares,
         \A b : b.bb = bb /\ b.castle = castle => RightsSound(b, squares)
  PROVE  LET f == SetUp(fen, bb, castle, squares)
         IN  /\ f.board \in GameBoards /\ ParsedOK(f.board, squares) /\ f.setup = squares
             /\ EpBacked(fen) => BoardOK(f.board, squares)
<1> DEFINE f == SetUp(fen, bb, castle, squares)
           x == [bb |-> bb, occ |-> [c \in {white, black} |-> Occupied(bb, c)], side |-> fen.side,
                 ep |-> EpField(fen, bb), castle |-> castle, fifty |-> fen.fifty, key |-> {}]
           key == generate_hash_key(x)
           b == [bb |-> bb, occ |-> [c \in {white, black} |-> Occupied(bb, c)], side |-> fen.side,
                 ep |-> EpField(fen, bb), castle |-> castle, fifty |-> fen.fifty, key |-> key]
<1>1. fen.board \in [Squares -> Pieces \cup {-1}] BY DEF AnyFen
<1>2. bb \in Boards /\ Disjoint(bb) BY <1>1, BitboardsAre
<1>3. f.setup = squares /\ f.board = b
  <2>1. f = [setup |-> squares, board |-> Keyed(x)] BY DEF SetUp
  <2>2. Keyed(x) = b
    <3> HIDE DEF key
    <3>1. Keyed(x) = [x EXCEPT !.key = key] BY DEF Keyed, key
    <3> QED BY <3>1
  <2> HIDE DEF x, b
  <2> QED BY <2>1, <2>2
<1>4. EpField(fen, bb) \in 0..64 BY DEF EpField, AnyFen, no_sq
<1>5. key \in Keys
  <2>1. PiecesKey(bb, Pieces) \in Keys BY <1>2, PiecesKeyType
  <2>2. EnpassantKey(EpField(fen, bb)) \in Keys BY <1>4 DEF EnpassantKey, Keys
  <2>3. CastleKey(castle) \in Keys
    <3>1. \A p, q, r, s \in {0, 1, 2, 4, 8} : 832 + p + q + r + s \in Nat OBVIOUS
    <3> QED BY <3>1 DEF CastleKey, Keys
  <2>4. side_key \in Keys /\ {} \in Keys BY DEF side_key, Keys
  <2>5. \A p, q \in Keys : Xor(p, q) \in Keys BY DEF Xor, Keys
  <2>6. key = Xor(Xor(PiecesKey(bb, Pieces), EnpassantKey(EpField(fen, bb))),
                  Xor(CastleKey(castle), IF fen.side = black THEN side_key ELSE {}))
    BY DEF generate_hash_key
  <2> HIDE DEF key
  <2> QED BY <2>1, <2>2, <2>3, <2>4, <2>5, <2>6
<1>6. b.key = generate_hash_key(b)
  <2>1. generate_hash_key(b) = generate_hash_key(x)
    <3> HIDE DEF key
    <3> QED BY DEF generate_hash_key
  <2> HIDE DEF x
  <2> QED BY <2>1
<1> HIDE DEF key
<1>7. b \in GameBoards
  <2>1. \A c \in {white, black} : Occupied(bb, c) \in SUBSET Squares BY <1>2, OccupiedIs
  <2>2. fen.side \in {white, black} /\ fen.fifty \in Nat BY DEF AnyFen
  <2> QED BY <2>1, <2>2, <1>2, <1>4, <1>5 DEF GameBoards
<1>11. EpAsked(b) BY DEF EpAsked, EpField
<1>8. ASSUME EpBacked(fen) PROVE EpSound(b)
  <2> SUFFICES ASSUME EpField(fen, bb) # no_sq PROVE EpSound(b) BY DEF EpSound
  <2> DEFINE s == fen.ep
             u == s - Up(fen.side)
  <2>1. EpField(fen, bb) = s /\ Row(s) = (IF fen.side = white THEN 2 ELSE 5)
        /\ pawn_attacks[1 - fen.side][s] \cap bb[Piece(fen.side, Pawn)] # {}
    BY DEF EpField
  <2>2. fen.board[s] = -1 /\ fen.board[u] = Piece(1 - fen.side, Pawn) /\ s \in 0..64 /\ fen.side \in {white, black}
    BY <1>8 DEF AnyFen, EpBacked
  <2>3. s \in Squares /\ u \in Squares BY <2>1, <2>2 DEF Squares, Row, Up, white, black
  <2>4. Piece(1 - fen.side, Pawn) \in Pieces BY <2>2 DEF Piece, Pawn, Pieces, white, black
  <2>5. u \in bb[Piece(1 - fen.side, Pawn)] /\ Free(bb, s)
    <3> HIDE DEF s, u
    <3> QED BY <1>1, <2>2, <2>3, <2>4, BitboardsAre
  <2> HIDE DEF s
  <2> QED BY <2>1, <2>5 DEF EpSound
<1>9. RightsSound(b, squares)
  <2>1. b.bb = bb /\ b.castle = castle OBVIOUS
  <2> HIDE DEF b
  <2> QED BY <2>1
<1>10. ParsedOK(b, squares) /\ (EpBacked(fen) => BoardOK(b, squares))
  <2>1. b.bb = bb /\ b.occ = [c \in {white, black} |-> Occupied(bb, c)] OBVIOUS
  <2> HIDE DEF b
  <2> QED BY <2>1, <1>2, <1>6, <1>8, <1>9, <1>11 DEF BoardOK, ParsedOK
<1> HIDE DEF b, f
<1> QED BY <1>3, <1>7, <1>10 DEF f

\* ... with the rights of either reading.
LEMMA ParsedSound ==
  ASSUME NEW fen, AnyFen(fen), NEW c960 \in BOOLEAN
  PROVE  LET f == ParsedAs(fen, c960)
         IN  /\ f.board \in GameBoards /\ ParsedOK(f.board, f.setup) /\ (~c960 => f.setup = standard_setup)
             /\ EpBacked(fen) => BoardOK(f.board, f.setup)
<1> DEFINE bb == bitboards_of(fen.board)
           parsed == c960_parse_castling(bb, fen.letters)
           rights == StandardRights(fen.letters, bb)
<1>1. bb \in Boards
  <2>1. fen.board \in [Squares -> Pieces \cup {-1}] BY DEF AnyFen
  <2> QED BY <2>1, BitboardsAre
<1>2. fen.letters \in Letters BY DEF AnyFen, Letters
<1> HIDE DEF bb
<1>3. CASE c960
  <2>1. ParsedAs(fen, c960) = SetUp(fen, bb, parsed.rights, c960_setup(bb, parsed))
    BY <1>3 DEF ParsedAs, Parsed, SetUp960, bb
  <2>2. \A b : b.bb = bb /\ b.castle = parsed.rights => RightsSound(b, c960_setup(bb, parsed)) BY <1>1, <1>2, Sound960
  <2>3. parsed.rights \in SUBSET Rights
    <3> DEFINE b == [bb |-> bb, castle |-> parsed.rights]
    <3>1. b.bb = bb /\ b.castle = parsed.rights OBVIOUS
    <3> HIDE DEF b
    <3> QED BY <1>1, <1>2, <3>1, Sound960
  <2> HIDE DEF parsed
  <2>4. /\ SetUp(fen, bb, parsed.rights, c960_setup(bb, parsed)).board \in GameBoards
        /\ ParsedOK(SetUp(fen, bb, parsed.rights, c960_setup(bb, parsed)).board, c960_setup(bb, parsed))
        /\ EpBacked(fen) =>
             BoardOK(SetUp(fen, bb, parsed.rights, c960_setup(bb, parsed)).board, c960_setup(bb, parsed))
        /\ SetUp(fen, bb, parsed.rights, c960_setup(bb, parsed)).setup = c960_setup(bb, parsed)
    BY <2>2, <2>3, SetUpSound DEF bb
  <2> QED BY <1>3, <2>1, <2>4
<1>4. CASE ~c960
  <2>1. ParsedAs(fen, c960) = SetUp(fen, bb, rights, standard_setup)
    BY <1>4 DEF ParsedAs, Parsed, bb
  <2>2. \A b : b.bb = bb /\ b.castle = rights => RightsSound(b, standard_setup) BY StandardSound
  <2>3. rights \in SUBSET Rights BY DEF StandardRights
  <2> HIDE DEF rights
  <2>4. /\ SetUp(fen, bb, rights, standard_setup).board \in GameBoards
        /\ ParsedOK(SetUp(fen, bb, rights, standard_setup).board, standard_setup)
        /\ EpBacked(fen) => BoardOK(SetUp(fen, bb, rights, standard_setup).board, standard_setup)
        /\ SetUp(fen, bb, rights, standard_setup).setup = standard_setup
    BY <2>2, <2>3, SetUpSound DEF bb
  <2> QED BY <2>1, <2>4
<1> QED BY <1>3, <1>4

\* The start position is such a FEN.
LEMMA StartSound == SoundFen(start_position)
<1>1. start_position.ep = no_sq /\ start_position.side = white /\ start_position.fifty = 0 BY DEF start_position
<1>2. start_position.letters = <<<<white, KingSide>>, <<white, QueenSide>>, <<black, KingSide>>, <<black, QueenSide>>>>
  BY DEF start_position
<1>3. start_position.letters \in Seq({white, black} \X (0..9)) BY <1>2 DEF KingSide, QueenSide
<1>4. start_position.board \in [Squares -> Pieces \cup {-1}]
  <2>1. \A i \in 1..8 : back_rank[i] \in 0..5 BY DEF back_rank, Rook, Knight, Bishop, Queen, King
  <2>2. \A s \in Squares : File(s) + 1 \in 1..8 BY DEF Squares, File
  <2>3. \A s \in Squares : back_rank[File(s) + 1] \in 0..5 BY <2>1, <2>2
  <2>4. \A t \in 0..5 : Piece(white, t) \in Pieces /\ Piece(black, t) \in Pieces BY DEF Piece, Pieces, white, black
  <2>5. Pawn \in 0..5 BY DEF Pawn
  <2>6. start_position.board = [s \in Squares |-> CASE Row(s) = 0 -> Piece(black, back_rank[File(s) + 1])
                                  [] Row(s) = 1 -> Piece(black, Pawn)
                                  [] Row(s) = 6 -> Piece(white, Pawn)
                                  [] Row(s) = 7 -> Piece(white, back_rank[File(s) + 1])
                                  [] OTHER -> -1]
    BY DEF start_position
  <2> QED BY <2>3, <2>4, <2>5, <2>6
<1>5. EpField(start_position, bitboards_of(start_position.board)) = no_sq BY <1>1 DEF EpField
<1> QED BY <1>1, <1>3, <1>4, <1>5 DEF SoundFen, AnyFen, EpBacked, no_sq


(***************************************************************************)
(* A position and its FEN.                                                 *)
(***************************************************************************)
LEMMA RoundBoards ==
  ASSUME NEW bb \in Boards, Disjoint(bb)
  PROVE  bitboards_of(mailbox_of(bb)) = bb
<1> DEFINE on == mailbox_of(bb)
           x == bitboards_of(on)
<1>1. on \in [Squares -> Pieces \cup {None}] /\ Mirrors(on, bb) BY MailboxIs
<1>2. on \in [Squares -> Pieces \cup {-1}] BY <1>1 DEF None
<1> HIDE DEF on
<1>3. x \in Boards /\ \A p \in Pieces : \A s : s \in x[p] <=> s \in Squares /\ on[s] = p BY <1>2, BitboardsAre
<1> HIDE DEF x
<1>4. \A p \in Pieces, s \in Squares : s \in x[p] <=> s \in bb[p] BY <1>1, <1>3 DEF Mirrors
<1>5. x = bb BY <1>3, <1>4, BoardsEqual
<1> QED BY <1>5 DEF x, on

\* Attacks depend on the boards and on what is occupied.
LEMMA AttackedSame ==
  ASSUME NEW x, NEW y, x.bb = y.bb, x.occ[white] \cup x.occ[black] = y.occ[white] \cup y.occ[black], NEW s, NEW by
  PROVE  is_square_attacked(x, s, by) <=> is_square_attacked(y, s, by)
BY DEF is_square_attacked

\* The FEN of a legal position is accepted, and its board is the position's.
LEMMA AcceptedIs ==
  ASSUME NEW b, ThreadOK(b, setup), IsLegal(b)
  PROVE  Accepted(board_to_fen(b)) /\ bitboards_of(board_to_fen(b).board) = b.bb
<1> DEFINE fen == board_to_fen(b)
           x == [bb |-> b.bb, occ |-> [c \in {white, black} |-> Occupied(b.bb, c)]]
<1>1. fen.board = mailbox_of(b.bb) /\ fen.side = b.side BY DEF board_to_fen
<1>2. b.bb \in Boards /\ Disjoint(b.bb) BY DEF ThreadOK, ThreadBoards, BoardOK
<1>3. bitboards_of(fen.board) = b.bb BY <1>1, <1>2, RoundBoards
<1>4. x.bb = b.bb /\ x.occ[white] = b.occ[white] /\ x.occ[black] = b.occ[black]
  BY DEF ThreadOK, BoardOK
<1> HIDE DEF fen
<1>5. /\ \A c \in {white, black} : Cardinality(b.bb[Piece(c, King)]) = 1
      /\ Cardinality(x.occ[white] \cup x.occ[black]) <= 32
      /\ ~is_square_attacked(x, KingSquare(x, 1 - b.side), b.side)
  <2> HIDE DEF x
  <2>1. KingSquare(x, 1 - b.side) = KingSquare(b, 1 - b.side) BY <1>4 DEF KingSquare
  <2>2. ~is_square_attacked(b, KingSquare(b, 1 - b.side), b.side) BY DEF IsLegal, LeavesKing
  <2>3. ~is_square_attacked(x, KingSquare(x, 1 - b.side), b.side) BY <1>4, <2>1, <2>2, AttackedSame
  <2>4. \A c \in {white, black} : Cardinality(b.bb[Piece(c, King)]) = 1 BY DEF IsLegal
  <2>5. Cardinality(b.occ[white] \cup b.occ[black]) <= 32 BY DEF IsLegal, All
  <2>6. Cardinality(x.occ[white] \cup x.occ[black]) <= 32 BY <1>4, <2>5
  <2> QED BY <2>3, <2>4, <2>6
<1>6. Accepted(fen) BY <1>1, <1>3, <1>5 DEF Accepted
<1> QED BY <1>3, <1>6 DEF fen

\* The square for taking in passing is read back.
LEMMA EpReturns ==
  ASSUME NEW b, EpSound(b), b.side \in {white, black}, NEW fen, fen.ep = b.ep, fen.side = b.side
  PROVE  EpField(fen, b.bb) = b.ep
BY DEF EpSound, EpField

\* A letter of the castling field for each right, in order.
Occurs(s, x) == \E i \in 1..Len(s) : s[i] = x

\* What a concatenation holds.
LEMMA JoinedHold ==
  ASSUME NEW S, NEW s \in Seq(S), NEW t \in Seq(S)
  PROVE  s \o t \in Seq(S) /\ \A x : Occurs(s \o t, x) <=> Occurs(s, x) \/ Occurs(t, x)
<1> DEFINE u == s \o t
<1>1. /\ u \in Seq(S) /\ Len(u) = Len(s) + Len(t) /\ Len(s) \in Nat /\ Len(t) \in Nat
      /\ \A i \in 1..Len(s) : u[i] = s[i]
      /\ \A i \in 1..Len(t) : u[Len(s) + i] = t[i]
  OBVIOUS
<1> HIDE DEF u
<1>2. ASSUME NEW x, Occurs(u, x) PROVE Occurs(s, x) \/ Occurs(t, x)
  <2>1. PICK i \in 1..Len(u) : u[i] = x BY <1>2 DEF Occurs
  <2>2. CASE i \in 1..Len(s) BY <1>1, <2>1, <2>2 DEF Occurs
  <2>3. CASE i \notin 1..Len(s)
    <3>1. PICK j \in 1..Len(t) : i = Len(s) + j
      <4>1. i - Len(s) \in 1..Len(t) /\ i = Len(s) + (i - Len(s)) BY <1>1, <2>1, <2>3
      <4> QED BY <4>1
    <3> QED BY <1>1, <2>1, <3>1 DEF Occurs
  <2> QED BY <2>2, <2>3
<1>3. ASSUME NEW x, Occurs(s, x) PROVE Occurs(u, x)
  <2>1. PICK i \in 1..Len(s) : s[i] = x BY <1>3 DEF Occurs
  <2>2. i \in 1..Len(u) BY <1>1, <2>1
  <2> QED BY <1>1, <2>1, <2>2 DEF Occurs
<1>4. ASSUME NEW x, Occurs(t, x) PROVE Occurs(u, x)
  <2>1. PICK i \in 1..Len(t) : t[i] = x BY <1>4 DEF Occurs
  <2>2. Len(s) + i \in 1..Len(u) BY <1>1, <2>1
  <2> QED BY <1>1, <2>1, <2>2 DEF Occurs
<1> QED BY <1>1, <1>2, <1>3, <1>4 DEF u

LetterOf(idx) == <<OfSide(idx), IF g_chess960 THEN File(castle_rook_sq(idx))
                                ELSE IF idx \in {0, 2} THEN KingSide ELSE QueenSide>>

\* The letters of castling in a FEN are those of the rights.
LEMMA LettersAre ==
  ASSUME NEW b, b.castle \in SUBSET Rights, \A idx \in b.castle : castle_rook_sq(idx) \in Squares
  PROVE  /\ board_to_fen(b).letters \in Letters
         /\ \A x : Occurs(board_to_fen(b).letters, x) <=> \E idx \in b.castle : x = LetterOf(idx)
<1> DEFINE S == {white, black} \X (0..9)
           Field(idx) == IF idx \in b.castle THEN <<LetterOf(idx)>> ELSE <<>>
           one == Field(0) \o Field(1)
           two == one \o Field(2)
           all == two \o Field(3)
<1>1. board_to_fen(b).letters = all BY DEF board_to_fen, LetterOf
<1>2. \A idx \in b.castle : LetterOf(idx) \in S
  <2> SUFFICES ASSUME NEW idx \in b.castle PROVE LetterOf(idx) \in S OBVIOUS
  <2>1. OfSide(idx) \in {white, black} BY SideOfRight
  <2>2. File(castle_rook_sq(idx)) \in 0..9 BY DEF File, Squares
  <2> QED BY <2>1, <2>2 DEF LetterOf, KingSide, QueenSide
<1> HIDE DEF S
<1>3. \A idx \in Rights : /\ Field(idx) \in Seq(S)
                          /\ \A x : Occurs(Field(idx), x) <=> idx \in b.castle /\ x = LetterOf(idx)
  <2> SUFFICES ASSUME NEW idx \in Rights
               PROVE  /\ Field(idx) \in Seq(S)
                      /\ \A x : Occurs(Field(idx), x) <=> idx \in b.castle /\ x = LetterOf(idx)
    OBVIOUS
  <2>1. CASE idx \in b.castle
    <3> DEFINE s == <<LetterOf(idx)>>
    <3>1. Field(idx) = s BY <2>1
    <3>2. s \in Seq(S) /\ Len(s) = 1 /\ s[1] = LetterOf(idx) BY <1>2, <2>1
    <3> HIDE DEF s
    <3>3. \A x : Occurs(s, x) <=> x = LetterOf(idx)
      <4>1. 1..Len(s) = {1} BY <3>2
      <4> QED BY <3>2, <4>1 DEF Occurs
    <3> QED BY <2>1, <3>1, <3>2, <3>3
  <2>2. CASE idx \notin b.castle
    <3>1. Field(idx) = <<>> BY <2>2
    <3>2. <<>> \in Seq(S) /\ 1..Len(<<>>) = {} OBVIOUS
    <3> QED BY <2>2, <3>1, <3>2 DEF Occurs
  <2> QED BY <2>1, <2>2
<1>4. 0 \in Rights /\ 1 \in Rights /\ 2 \in Rights /\ 3 \in Rights BY DEF Rights
<1> HIDE DEF Field
<1>5. one \in Seq(S) /\ \A x : Occurs(one, x) <=> Occurs(Field(0), x) \/ Occurs(Field(1), x) BY <1>3, <1>4, JoinedHold
<1> HIDE DEF one
<1>6. two \in Seq(S) /\ \A x : Occurs(two, x) <=> Occurs(one, x) \/ Occurs(Field(2), x) BY <1>3, <1>4, <1>5, JoinedHold
<1> HIDE DEF two
<1>7. all \in Seq(S) /\ \A x : Occurs(all, x) <=> Occurs(two, x) \/ Occurs(Field(3), x) BY <1>3, <1>4, <1>6, JoinedHold
<1> HIDE DEF all
<1>8. \A idx \in b.castle : idx = 0 \/ idx = 1 \/ idx = 2 \/ idx = 3 BY DEF Rights
<1>9. \A x : Occurs(all, x) <=> \E idx \in b.castle : x = LetterOf(idx)
  BY <1>3, <1>4, <1>5, <1>6, <1>7, <1>8
<1> QED BY <1>1, <1>7, <1>9 DEF Letters, S

\* The standard letters are read back as the same rights.
LEMMA StandardReturns ==
  ASSUME NEW b, b.castle \in SUBSET Rights, RightsSound(b, setup), ~g_chess960, setup = standard_setup,
         NEW letters \in Letters, \A x : Occurs(letters, x) <=> \E idx \in b.castle : x = LetterOf(idx)
  PROVE  StandardRights(letters, b.bb) = b.castle
<1> DEFINE Of(idx) == <<OfSide(idx), IF idx \in {0, 2} THEN KingSide ELSE QueenSide>>
<1>1. \A idx \in Rights : LetterOf(idx) = Of(idx) BY DEF LetterOf
<1>2. \A idx, i \in Rights : Of(idx) = Of(i) => idx = i
  <2> SUFFICES ASSUME NEW idx \in Rights, NEW i \in Rights, Of(idx) = Of(i) PROVE idx = i OBVIOUS
  <2>1. OfSide(idx) = OfSide(i) /\ (idx \in {0, 2} <=> i \in {0, 2}) BY DEF KingSide, QueenSide
  <2> QED BY <2>1 DEF Rights, OfSide
<1> HIDE DEF Of
<1>3. \A idx \in Rights : (\E i \in DOMAIN letters : letters[i] = Of(idx)) <=> idx \in b.castle
  <2> SUFFICES ASSUME NEW idx \in Rights PROVE (\E i \in DOMAIN letters : letters[i] = Of(idx)) <=> idx \in b.castle
    OBVIOUS
  <2>1. DOMAIN letters = 1..Len(letters) BY DEF Letters
  <2>2. (\E i \in DOMAIN letters : letters[i] = Of(idx)) <=> Occurs(letters, Of(idx)) BY <2>1 DEF Occurs
  <2>3. Occurs(letters, Of(idx)) <=> \E i \in b.castle : Of(idx) = Of(i) BY <1>1
  <2> QED BY <1>2, <2>2, <2>3
<1>4. \A idx \in b.castle : /\ corners.king[OfSide(idx) + 1] \in b.bb[Piece(OfSide(idx), King)]
                            /\ corners.rook[idx + 1] \in b.bb[Piece(OfSide(idx), Rook)]
  <2> SUFFICES ASSUME NEW idx \in b.castle
               PROVE  /\ corners.king[OfSide(idx) + 1] \in b.bb[Piece(OfSide(idx), King)]
                      /\ corners.rook[idx + 1] \in b.bb[Piece(OfSide(idx), Rook)]
    OBVIOUS
  <2>1. OfSide(idx) \in {white, black} /\ idx \in Rights BY SideOfRight
  <2> QED BY <2>1, CornersAre DEF RightsSound
<1>5. \A idx : idx \in StandardRights(letters, b.bb) <=> idx \in b.castle
  BY <1>3, <1>4 DEF StandardRights, Of
<1> QED BY <1>5

\* A set of one element has one.
LEMMA OnlyKing ==
  ASSUME NEW S, Cardinality(S) = 1, IsFiniteSet(S), NEW x \in S, NEW y \in S PROVE x = y
BY FS_Singleton

\* With one king there is one square of it.
LEMMA KingsAre ==
  ASSUME NEW bb \in Boards, NEW c \in {white, black}, Cardinality(bb[Piece(c, King)]) = 1
  PROVE  \A x, y \in bb[Piece(c, King)] : x = y
<1>1. Piece(c, King) \in Pieces BY PieceOf DEF King
<1>2. bb[Piece(c, King)] \subseteq Squares BY <1>1 DEF Boards
<1>3. IsFiniteSet(0..63)
  <2>1. 0 \in Int /\ 63 \in Int OBVIOUS
  <2> QED BY <2>1, FS_Interval
<1>4. IsFiniteSet(bb[Piece(c, King)]) BY <1>2, <1>3, FS_Subset DEF Squares
<1> QED BY <1>4, OnlyKing

\* The king read from the back rank is that king.
LEMMA HomeIs ==
  ASSUME NEW bb \in Boards, NEW c \in {white, black}, Cardinality(bb[Piece(c, King)]) = 1,
         NEW k \in bb[Piece(c, King)], k \in BackRank(c)
  PROVE  king_from(bb, c) = k
<1>1. king_from(bb, c) # no_sq
  <2> DEFINE there == bb[Piece(c, King)] \cap BackRow(c)..(BackRow(c) + 7)
  <2>1. there = {k} BY KingsAre DEF BackRank
  <2>2. king_from(bb, c) = CHOOSE s \in there : \A t \in there : t <= s BY <2>1 DEF king_from
  <2>3. k \in Int BY DEF BackRank, BackRow, white, black
  <2>4. \E s \in there : \A t \in there : t <= s BY <2>1, <2>3
  <2>5. king_from(bb, c) \in there
    <3> HIDE DEF there
    <3> QED BY <2>2, <2>4
  <2> QED BY <2>1, <2>5 DEF BackRank, BackRow, no_sq, white, black
<1>2. king_from(bb, c) \in bb[Piece(c, King)] BY <1>1, KingFromIs
<1> QED BY <1>2, KingsAre

\* The file of a right's rook names that right.
LEMMA NamedBack ==
  ASSUME NEW bb \in Boards, Disjoint(bb), NEW idx \in Rights, NEW c, c = OfSide(idx), Cardinality(bb[Piece(c, King)]) = 1,
         NEW k \in bb[Piece(c, King)], NEW r \in bb[Piece(c, Rook)], k \in BackRank(c), r \in BackRank(c),
         r > k <=> idx \in {0, 2}
  PROVE  RightNamed(bb, c, File(r), king_from(bb, c)) = <<idx, r>>
<1>1. c \in {white, black} BY SideOfRight
<1>2. king_from(bb, c) = k BY <1>1, HomeIs
<1>3. Piece(c, King) \in Pieces /\ Piece(c, Rook) \in Pieces /\ Piece(c, King) # Piece(c, Rook)
  BY <1>1, PieceOf DEF King, Rook
<1>4. k \in Squares /\ r \in Squares BY <1>3 DEF Boards
<1>5. k # r BY <1>3, <1>4 DEF Disjoint
<1>6. BackRow(c) + File(r) = r /\ File(r) \in 0..7 /\ File(r) # File(k) /\ k # no_sq /\ r # no_sq
  <2>1. CASE c = white BY <2>1, <1>4, <1>5 DEF BackRank, BackRow, File, Squares, no_sq, white, black
  <2>2. CASE c = black BY <2>2, <1>4, <1>5 DEF BackRank, BackRow, File, Squares, no_sq, white, black
  <2> QED BY <1>1, <2>1, <2>2
<1>7. RookNamed(bb, c, File(r), k) = r
  <2>1. File(r) \notin {KingSide, QueenSide} BY <1>6 DEF KingSide, QueenSide
  <2>2. RookNamed(bb, c, File(r), k) = IF BackRow(c) + File(r) \in bb[Piece(c, Rook)] /\ File(r) # File(k) THEN BackRow(c) + File(r) ELSE no_sq
    BY <1>6, <2>1 DEF RookNamed
  <2> QED BY <1>6, <2>2
<1>8. Right(c, k, r) = <<2 * c + (IF r > k THEN 0 ELSE 1), r>> BY <1>6 DEF Right
<1>9. 2 * c + (IF r > k THEN 0 ELSE 1) = idx
  <2>1. idx = 0 \/ idx = 1 \/ idx = 2 \/ idx = 3 BY DEF Rights
  <2>2. CASE idx = 0 BY <2>2 DEF OfSide
  <2>3. CASE idx = 1 BY <2>3 DEF OfSide
  <2>4. CASE idx = 2 BY <2>4 DEF OfSide
  <2>5. CASE idx = 3 BY <2>5 DEF OfSide
  <2> QED BY <2>1, <2>2, <2>3, <2>4, <2>5
<1> QED BY <1>2, <1>7, <1>8, <1>9 DEF RightNamed

\* The letters of Chess960 are read back as the same rights.
LEMMA Returns960 ==
  ASSUME NEW b, b.bb \in Boards, Disjoint(b.bb), b.castle \in SUBSET Rights, RightsSound(b, setup), g_chess960,
         \A c \in {white, black} : Cardinality(b.bb[Piece(c, King)]) = 1,
         NEW letters \in Letters, \A x : Occurs(letters, x) <=> \E idx \in b.castle : x = LetterOf(idx)
  PROVE  c960_parse_castling(b.bb, letters).rights = b.castle
<1> DEFINE bb == b.bb
           named == Named(bb, letters)
           from == [idx \in Rights |-> LastFor(named, idx)]
           kings == Kings(bb)
           parsed == c960_parse_castling(bb, letters)
<1>1. parsed.rights = {idx \in Rights : from[idx] # no_sq}
  <2>1. parsed = CastlingOf(kings, from)
    BY DEF c960_parse_castling, Castling960, RooksOf, Named, Kings
  <2> HIDE DEF from, kings, parsed
  <2> QED BY <2>1 DEF CastlingOf
<1>2. DOMAIN letters = 1..Len(letters) /\ Len(letters) \in Nat BY DEF Letters
<1>3. DOMAIN named = 1..Len(letters) BY <1>2 DEF Named
<1>4. ASSUME NEW idx \in b.castle, NEW i \in 1..Len(letters), letters[i] = LetterOf(idx)
      PROVE  named[i] = <<idx, setup.rook[idx + 1]>> /\ setup.rook[idx + 1] \in Squares
  <2> DEFINE c == OfSide(idx)
             k == setup.king[c + 1]
             r == setup.rook[idx + 1]
  <2>1. idx \in Rights /\ c \in {white, black} BY SideOfRight
  <2>2. /\ k \in bb[Piece(c, King)] /\ r \in bb[Piece(c, Rook)] /\ k \in BackRank(c) /\ r \in BackRank(c)
        /\ r > k <=> idx \in {0, 2}
    BY DEF RightsSound, HomeRights
  <2>3. letters[i][1] = c /\ letters[i][2] = File(r) BY <1>4 DEF LetterOf, castle_rook_sq
  <2>4. named[i] = RightNamed(bb, c, File(r), king_from(bb, c))
    <3>1. named[i] = RightNamed(bb, letters[i][1], letters[i][2], Kings(bb)[letters[i][1]]) BY <1>2 DEF Named
    <3>2. Kings(bb)[c] = king_from(bb, c) BY <2>1 DEF Kings
    <3> HIDE DEF named, bb, c, r
    <3> QED BY <2>3, <3>1, <3>2
  <2>5. Cardinality(bb[Piece(c, King)]) = 1 BY <2>1
  <2>6. Piece(c, Rook) \in Pieces BY <2>1, PieceOf DEF Rook
  <2> HIDE DEF named, k, r
  <2>7. named[i] = <<idx, r>> BY <2>1, <2>2, <2>4, <2>5, NamedBack
  <2>8. r \in Squares BY <2>2, <2>6 DEF Boards
  <2> QED BY <2>7, <2>8 DEF r
<1>5. \A i \in 1..Len(letters) : \E idx \in b.castle : letters[i] = LetterOf(idx)
  <2> SUFFICES ASSUME NEW i \in 1..Len(letters) PROVE \E idx \in b.castle : letters[i] = LetterOf(idx) OBVIOUS
  <2>1. Occurs(letters, letters[i]) BY DEF Occurs
  <2> QED BY <2>1
<1> HIDE DEF named
<1>6. ASSUME NEW idx \in b.castle PROVE from[idx] # no_sq
  <2>1. idx \in Rights OBVIOUS
  <2>2. Occurs(letters, LetterOf(idx)) OBVIOUS
  <2>3. PICK i \in 1..Len(letters) : letters[i] = LetterOf(idx) BY <2>2 DEF Occurs
  <2>4. named[i] = <<idx, setup.rook[idx + 1]>> BY <1>4, <2>3
  <2>5. LastFor(named, idx) # no_sq
    <3> DEFINE A == {j \in 1..Len(letters) : named[j][1] = idx}
               Last(j) == j \in DOMAIN named /\ named[j][1] = idx /\ \A l \in DOMAIN named : named[l][1] = idx => l <= j
    <3>1. i \in A /\ A \in SUBSET (0..Len(letters)) BY <1>2, <2>4
    <3>2. PICK x \in A : \A y \in A : y <= x
      <4> HIDE DEF A
      <4> QED BY <1>2, <3>1, GreatestNatural
    <3>3. Last(x) BY <1>3, <3>2
    <3> DEFINE z == CHOOSE j \in DOMAIN named : named[j][1] = idx /\ \A l \in DOMAIN named : named[l][1] = idx => l <= j
    <3>4. z \in 1..Len(letters) /\ named[z][1] = idx BY <1>3, <3>3
    <3>5. LastFor(named, idx) = named[z][2] BY <1>3, <3>4 DEF LastFor
    <3> HIDE DEF z
    <3>6. PICK j \in b.castle : letters[z] = LetterOf(j) BY <1>5, <3>4
    <3>7. named[z] = <<j, setup.rook[j + 1]>> /\ setup.rook[j + 1] \in Squares BY <1>4, <3>4, <3>6
    <3>8. named[z][2] = setup.rook[j + 1] BY <3>7
    <3>9. setup.rook[j + 1] # no_sq
      <4>1. \A s \in Squares : s # no_sq BY DEF Squares, no_sq
      <4> QED BY <3>7, <4>1
    <3> QED BY <3>5, <3>8, <3>9
  <2> QED BY <2>1, <2>5
<1>7. ASSUME NEW idx \in Rights, from[idx] # no_sq PROVE idx \in b.castle
  <2>1. LastFor(named, idx) # no_sq BY <1>7
  <2>2. PICK i \in 1..Len(letters) : named[i][1] = idx /\ LastFor(named, idx) = named[i][2]
    BY <1>2, <1>3, <2>1, LastForIs
  <2>3. PICK j \in b.castle : letters[i] = LetterOf(j) BY <1>5
  <2>4. named[i] = <<j, setup.rook[j + 1]>> BY <1>4, <2>3
  <2>5. named[i][1] = j BY <2>4
  <2> QED BY <2>2, <2>5
<1>8. \A idx \in b.castle : idx \in Rights OBVIOUS
<1> HIDE DEF from, parsed
<1>9. parsed.rights = b.castle BY <1>1, <1>6, <1>7, <1>8
<1> QED BY <1>9 DEF parsed, bb

\* A legal position comes back from its FEN.
LEMMA FenReturns ==
  ASSUME NEW b, ThreadOK(b, setup), IsLegal(b), HomeSetup
  PROVE  FenAgrees(b, parse_fen(board_to_fen(b), g_chess960).board)
<1> DEFINE fen == board_to_fen(b)
           again == parse_fen(fen, g_chess960)
<1>1. fen.side = b.side /\ fen.ep = b.ep BY DEF board_to_fen
<1>2. Accepted(fen) /\ bitboards_of(fen.board) = b.bb BY AcceptedIs
<1>3. b.bb \in Boards /\ Disjoint(b.bb) /\ b.castle \in SUBSET Rights /\ RightsSound(b, setup) /\ EpSound(b)
      /\ b.side \in {white, black} /\ b.key = generate_hash_key(b)
  BY DEF ThreadOK, ThreadBoards, BoardOK
<1>4. \A idx \in b.castle : castle_rook_sq(idx) \in Squares
  <2> SUFFICES ASSUME NEW idx \in b.castle PROVE castle_rook_sq(idx) \in Squares OBVIOUS
  <2>1. OfSide(idx) \in {white, black} BY <1>3, SideOfRight
  <2>2. Piece(OfSide(idx), Rook) \in Pieces BY <2>1, PieceOf DEF Rook
  <2>3. setup.rook[idx + 1] \in b.bb[Piece(OfSide(idx), Rook)] BY <1>3 DEF RightsSound
  <2> QED BY <1>3, <2>2, <2>3 DEF Boards, castle_rook_sq
<1>5. fen.letters \in Letters /\ \A x : Occurs(fen.letters, x) <=> \E idx \in b.castle : x = LetterOf(idx)
  BY <1>3, <1>4, LettersAre
<1>6. again = Parsed(fen, b.bb, g_chess960) BY <1>2 DEF parse_fen, ParsedAs
<1>7. EpField(fen, b.bb) = b.ep
  <2> HIDE DEF fen
  <2> QED BY <1>1, <1>3, EpReturns
<1> HIDE DEF fen, again
<1>8. PICK squares : again = SetUp(fen, b.bb, b.castle, squares)
  <2>1. CASE g_chess960
    <3>1. c960_parse_castling(b.bb, fen.letters).rights = b.castle BY <1>3, <1>5, <2>1, Returns960 DEF IsLegal
    <3> QED BY <1>6, <2>1, <3>1 DEF Parsed, SetUp960
  <2>2. CASE ~g_chess960
    <3>1. StandardRights(fen.letters, b.bb) = b.castle BY <1>3, <1>5, <2>2, StandardReturns DEF HomeSetup
    <3> QED BY <1>6, <2>2, <3>1 DEF Parsed
  <2> QED BY <2>1, <2>2
<1> DEFINE new == [bb |-> b.bb, occ |-> [c \in {white, black} |-> Occupied(b.bb, c)], side |-> fen.side,
                   ep |-> EpField(fen, b.bb), castle |-> b.castle, fifty |-> fen.fifty, key |-> {}]
<1>9. again.board = Keyed(new) BY <1>8 DEF SetUp
<1>10. new.bb = b.bb /\ new.castle = b.castle /\ new.ep = b.ep /\ new.side = b.side BY <1>1, <1>7
<1>11. /\ Keyed(new).bb = new.bb /\ Keyed(new).castle = new.castle /\ Keyed(new).ep = new.ep
       /\ Keyed(new).key = generate_hash_key(new)
  BY DEF Keyed
<1> HIDE DEF new
<1>12. generate_hash_key(new) = generate_hash_key(b) BY <1>10 DEF generate_hash_key
<1>13. FenAgrees(b, again.board) BY <1>3, <1>9, <1>10, <1>11, <1>12 DEF FenAgrees
<1> QED BY <1>13 DEF again, fen


(***************************************************************************)
(* The moves of the board are those of the rules.                          *)
(***************************************************************************)
RookSquares(rights, su) == {su.rook[i + 1] : i \in rights}
PositionOf(b, su) ==
  [board |-> mailbox_of(b.bb), turn |-> b.side, ep |-> b.ep, clock |-> b.fifty, rights |-> RookSquares(b.castle, su)]
RuleMoveIn(m, su) ==
  [from |-> m.from, to |-> m.to, promo |-> IF m.promo = 0 THEN -1 ELSE m.promo,
   rook |-> IF m.castling THEN su.rook[castle_index(m.to) + 1] ELSE no_sq]
FollowsRules(b, m, next, su) == PositionOf(next, su) = Rules!After(PositionOf(b, su), RuleMoveIn(m, su))

\* The terms of the rules, and what they say a move does, with the model's terms.
LEMMA RulesTerms ==
  /\ Rules!Board = Squares /\ Rules!Empty = None /\ Rules!Nowhere = no_sq
  /\ \A pc : Rules!Kind(pc) = Type(pc)
  /\ \A c : 8 * Rules!Ahead(c) = Up(c)
  /\ \A p, m : Rules!After(p, m) =
       [board |-> Rules!Moved(p, m), turn |-> 1 - p.turn,
        rights |-> IF Type(p.board[m.from]) = King THEN {r \in p.rights \ {m.to} : ~Rules!Ours(p.board, r, p.turn)}
                                  ELSE p.rights \ {m.from, m.to},
        ep |-> IF /\ Type(p.board[m.from]) = Pawn /\ (m.to - m.from) \in {16, -16}
                  /\ \E t \in Squares : /\ Rules!Moved(p, m)[t] = 6 * (1 - p.turn)
                                        /\ (m.from + m.to) \div 2 \in Rules!Reach(Rules!Moved(p, m), t)
               THEN (m.from + m.to) \div 2 ELSE no_sq,
        clock |-> IF Type(p.board[m.from]) = Pawn \/ (m.rook = no_sq /\ p.board[m.to] # None) THEN 0 ELSE p.clock + 1]
<1>1. Rules!Board = Squares /\ Rules!Empty = None /\ Rules!Nowhere = no_sq
  BY DEF Rules!Board, Rules!Empty, Rules!Nowhere, Squares, None, no_sq
<1>2. \A pc : Rules!Kind(pc) = Type(pc)
  BY DEF Rules!Kind, Type
<1>3. \A c : 8 * Rules!Ahead(c) = Up(c)
  BY DEF Rules!Ahead, Up, white
<1>4. \A p, m : Rules!After(p, m) =
       [board |-> Rules!Moved(p, m), turn |-> 1 - p.turn,
        rights |-> IF Type(p.board[m.from]) = King THEN {r \in p.rights \ {m.to} : ~Rules!Ours(p.board, r, p.turn)}
                                  ELSE p.rights \ {m.from, m.to},
        ep |-> IF /\ Type(p.board[m.from]) = Pawn /\ (m.to - m.from) \in {16, -16}
                  /\ \E t \in Squares : /\ Rules!Moved(p, m)[t] = 6 * (1 - p.turn)
                                        /\ (m.from + m.to) \div 2 \in Rules!Reach(Rules!Moved(p, m), t)
               THEN (m.from + m.to) \div 2 ELSE no_sq,
        clock |-> IF Type(p.board[m.from]) = Pawn \/ (m.rook = no_sq /\ p.board[m.to] # None) THEN 0 ELSE p.clock + 1]
  BY <1>1, <1>2 DEF Rules!After, King, Pawn
<1> QED BY <1>1, <1>2, <1>3, <1>4

\* A pawn that goes to the square for taking in passing takes in passing.
LEMMA PassingIs ==
  ASSUME NEW b, b.bb \in Boards, b.side \in {white, black}, Disjoint(b.bb), EpSound(b), NEW m, FitFrom(b, m), FitPlain(b, m)
  PROVE  m.enpass <=> m.piece = Piece(b.side, Pawn) /\ m.to = b.ep
<1> DEFINE c == b.side
<1>1. m.enpass => m.piece = Piece(c, Pawn) /\ m.to = b.ep BY DEF FitPlain, PawnWay
<1>2. ASSUME m.piece = Piece(c, Pawn), m.to = b.ep, ~m.enpass PROVE FALSE
  <2>1. m.to \in Squares /\ m.from \in Squares /\ m.from \in b.bb[Piece(c, Pawn)] BY <1>2 DEF FitFrom, Moves
  <2>2. b.ep # no_sq BY <1>2, <2>1 DEF Squares, no_sq
  <2>3. /\ b.ep - Up(c) \in b.bb[Piece(1 - c, Pawn)] /\ Free(b.bb, m.to)
        /\ Row(m.to) = (IF c = white THEN 2 ELSE 5)
    BY <1>2, <2>2 DEF EpSound
  <2>4. Piece(c, Pawn) \in Pieces /\ Piece(1 - c, Pawn) \in Pieces /\ Piece(c, Pawn) # Piece(1 - c, Pawn)
    BY DEF Piece, Pawn, Pieces, white, black
  <2>5. ~m.capture
    <3> SUFFICES ASSUME m.capture PROVE FALSE OBVIOUS
    <3>1. PICK p \in Men(1 - c) : m.to \in b.bb[p] BY <1>2 DEF FitPlain
    <3>2. p \in Pieces BY MenIs
    <3> QED BY <2>3, <3>1, <3>2 DEF Free
  <2>6. m.to = m.from + (IF m.double THEN 2 * Up(c) ELSE Up(c)) BY <1>2, <2>5 DEF FitPlain, PawnWay
  <2>7. CASE ~m.double
    <3>1. b.ep - Up(c) = m.from
      <4>1. Up(c) \in Int BY DEF Up
      <4>2. m.to = m.from + Up(c) BY <2>6, <2>7
      <4> QED BY <1>2, <2>1, <4>1, <4>2 DEF Squares
    <3> QED BY <2>1, <2>3, <2>4, <3>1 DEF Disjoint
  <2>8. CASE m.double
    <3>1. Row(m.to - Up(c)) = (IF c = white THEN 5 ELSE 2) BY <2>8 DEF FitPlain
    <3>2. CASE c = white BY <2>1, <2>3, <3>1, <3>2 DEF Row, Up, Squares, white, black
    <3>3. CASE c = black BY <2>1, <2>3, <3>1, <3>3 DEF Row, Up, Squares, white, black
    <3> QED BY <3>2, <3>3
  <2> QED BY <2>7, <2>8
<1>3. m.enpass \in BOOLEAN BY DEF FitFrom, Moves
<1> QED BY <1>1, <1>2, <1>3

\* What stands on the board after a plain move.
LEMMA PlainStands ==
  ASSUME NEW b, b.bb \in Boards, b.side \in {white, black}, Disjoint(b.bb), NEW m, NEW v, NEW vs,
         PlainMove(b, m, v, vs), NEW new, Shifted(b.bb, new, m, vs)
  PROVE  /\ mailbox_of(new) \in [Squares -> Pieces \cup {None}] /\ Mirrors(mailbox_of(new), new)
         /\ \A s \in Squares : mailbox_of(new)[s] = IF s = m.to THEN Landed(m) ELSE IF s = m.from \/ s = vs THEN None
                                                    ELSE mailbox_of(b.bb)[s]
<1> DEFINE on == mailbox_of(b.bb)
           on1 == td_mailbox_apply(on, m, vs, v)
           x == IF v # None THEN vs ELSE m.from
<1>1. on \in [Squares -> Pieces \cup {None}] /\ Mirrors(on, b.bb) BY MailboxIs
<1> HIDE DEF on
<1>2. on1 \in [Squares -> Pieces \cup {None}] /\ Mirrors(on1, new) BY <1>1, PlainMailbox
<1>3. new \in Boards BY DEF Shifted
<1>4. Disjoint(new) BY <1>2, MirroredDisjoint
<1>5. on1 = mailbox_of(new) BY <1>2, <1>3, <1>4, MirrorsIsMailbox
<1>6. /\ m.from \in Squares /\ m.to \in Squares /\ m.castling = FALSE /\ (v # None => vs \in Squares) /\ (v = None => vs = None)
  BY DEF PlainMove
<1>7. on1 = [on EXCEPT ![x] = None, ![m.from] = None, ![m.to] = Landed(m)] BY <1>6 DEF td_mailbox_apply, Landed
<1>8. x \in Squares BY <1>6
<1>9. None \notin Squares BY DEF None, Squares
<1>10. \A s \in Squares : on1[s] = IF s = m.to THEN Landed(m) ELSE IF s = m.from \/ s = x THEN None ELSE on[s]
  <2> HIDE DEF x, on1
  <2> QED BY <1>1, <1>6, <1>7, <1>8
<1>11. \A s \in Squares : s # m.from => (s = x <=> s = vs) BY <1>6, <1>9
<1> HIDE DEF x, on1
<1> QED BY <1>2, <1>5, <1>10, <1>11 DEF on

\* The piece of a square.
LEMMA StandsOn ==
  ASSUME NEW bb \in Boards, Disjoint(bb), NEW s \in Squares
  PROVE  /\ \A p \in Pieces : mailbox_of(bb)[s] = p <=> s \in bb[p]
         /\ mailbox_of(bb)[s] = None <=> Free(bb, s)
         /\ mailbox_of(bb)[s] \in Pieces \cup {None}
<1>1. mailbox_of(bb) \in [Squares -> Pieces \cup {None}] /\ Mirrors(mailbox_of(bb), bb) BY MailboxIs
<1>2. None \notin Pieces BY DEF None, Pieces
<1> QED BY <1>1, <1>2 DEF Mirrors, Free

\* Kind and side of a piece.
LEMMA KindOfMan ==
  ASSUME NEW c \in {white, black}, NEW p \in Men(c)
  PROVE  /\ Type(p) = Pawn <=> p = Piece(c, Pawn)
         /\ Type(p) = King <=> p = Piece(c, King)
         /\ p \div 6 = c
<1>1. PICK t \in 0..5 : p = Piece(c, t) BY DEF Men
<1>2. Type(p) = t BY <1>1, PieceOf
<1>3. \A u \in 0..5 : Piece(c, t) = Piece(c, u) => t = u BY PieceOf
<1>4. p \div 6 = c
  <2>1. CASE c = white BY <1>1, <2>1 DEF Piece, white
  <2>2. CASE c = black BY <1>1, <2>2 DEF Piece, black
  <2> QED BY <2>1, <2>2
<1>5. Pawn \in 0..5 /\ King \in 0..5 BY DEF Pawn, King
<1> QED BY <1>1, <1>2, <1>3, <1>4, <1>5

\* The board after a move that does not castle is the one the rules give ...
LEMMA PlainBoard ==
  ASSUME NEW b, b.bb \in Boards, b.side \in {white, black}, Disjoint(b.bb), EpSound(b), NEW m, NEW v, NEW vs,
         FitFrom(b, m), FitPlain(b, m), Taking(b, m, v, vs), NEW new, Shifted(b.bb, new, m, vs), NEW su
  PROVE  Rules!Moved(PositionOf(b, su), RuleMoveIn(m, su)) = mailbox_of(new)
<1> DEFINE on == mailbox_of(b.bb)
           p == PositionOf(b, su)
           r == RuleMoveIn(m, su)
           c == b.side
           passed == Type(on[m.from]) = Pawn /\ m.to = b.ep
<1>1. PlainMove(b, m, v, vs) BY PlainFacts
<1>2. m.from \in Squares /\ m.to \in Squares /\ m.piece \in Pieces /\ m.from # m.to /\ m.castling = FALSE
      /\ m.from \in b.bb[m.piece] /\ m.piece \in Men(c)
  BY <1>1 DEF PlainMove
<1>3. p.board = on /\ p.turn = c /\ p.ep = b.ep BY DEF PositionOf
<1>4. r.from = m.from /\ r.to = m.to /\ r.rook = no_sq /\ r.promo = (IF m.promo = 0 THEN None ELSE m.promo)
  BY <1>2 DEF RuleMoveIn, None
<1>5. on[m.from] = m.piece BY <1>2, StandsOn
<1> HIDE DEF p, r
<1>6. Rules!Moved(p, r) =
        [s \in Squares |-> CASE s = m.to -> IF r.promo # None THEN r.promo ELSE on[m.from]
                             [] s = m.from -> None
                             [] passed /\ s = m.to - Up(c) -> None
                             [] OTHER -> on[s]]
  BY <1>3, <1>4, RulesTerms DEF Rules!Moved, Pawn
<1>7. passed <=> m.enpass
  <2>1. passed <=> m.piece = Piece(c, Pawn) /\ m.to = b.ep BY <1>2, <1>5, KindOfMan
  <2> QED BY <2>1, PassingIs
<1>8. (IF r.promo # None THEN r.promo ELSE on[m.from]) = Landed(m)
  <2>1. m.promo \in Pieces /\ None \notin Pieces BY DEF FitFrom, Moves, None, Pieces
  <2> QED BY <1>4, <1>5, <2>1 DEF Landed
<1>9. \A s \in Squares : s # m.to => (s = vs <=> m.enpass /\ s = m.to - Up(c))
  <2> SUFFICES ASSUME NEW s \in Squares, s # m.to PROVE s = vs <=> m.enpass /\ s = m.to - Up(c) OBVIOUS
  <2>1. CASE m.capture BY <2>1 DEF Taking, None, Pieces, Men
  <2>2. CASE ~m.capture
    <3>1. vs = None /\ ~m.enpass BY <2>2 DEF Taking, FitPlain
    <3> QED BY <3>1 DEF Squares, None
  <2> QED BY <2>1, <2>2
<1> DEFINE Value(s) == CASE s = m.to -> IF r.promo # None THEN r.promo ELSE on[m.from]
                         [] s = m.from -> None
                         [] passed /\ s = m.to - Up(c) -> None
                         [] OTHER -> on[s]
<1>10. \A s \in Squares : Value(s) = mailbox_of(new)[s]
  <2> SUFFICES ASSUME NEW s \in Squares PROVE Value(s) = mailbox_of(new)[s] OBVIOUS
  <2>1. mailbox_of(new)[s] = IF s = m.to THEN Landed(m) ELSE IF s = m.from \/ s = vs THEN None ELSE on[s]
    BY <1>1, PlainStands
  <2> DEFINE landing == IF r.promo # None THEN r.promo ELSE on[m.from]
             behind == m.to - Up(c)
  <2> HIDE DEF on, passed, landing, behind
  <2>2. Value(s) = CASE s = m.to -> landing [] s = m.from -> None [] passed /\ s = behind -> None [] OTHER -> on[s]
    BY DEF landing, behind
  <2> HIDE DEF Value
  <2>3. landing = Landed(m) BY <1>8 DEF landing
  <2>4. s # m.to => (s = vs <=> passed /\ s = behind) BY <1>7, <1>9 DEF behind
  <2>5. CASE s = m.to
    <3>1. behind # m.to BY <1>2 DEF behind, Up, Squares
    <3>2. Value(s) = landing BY <1>2, <2>2, <2>5, <3>1
    <3> QED BY <2>1, <2>3, <2>5, <3>2
  <2>6. CASE s = m.from
    <3>1. Value(s) = None BY <1>2, <2>2, <2>6
    <3> QED BY <1>2, <2>1, <2>6, <3>1
  <2>7. CASE s # m.to /\ s # m.from /\ passed /\ s = behind
    <3>1. Value(s) = None BY <2>2, <2>7
    <3> QED BY <2>1, <2>4, <2>7, <3>1
  <2>8. CASE s # m.to /\ s # m.from /\ ~(passed /\ s = behind)
    <3>1. Value(s) = on[s] BY <2>2, <2>8
    <3> QED BY <2>1, <2>4, <2>8, <3>1
  <2> QED BY <2>5, <2>6, <2>7, <2>8
<1>11. mailbox_of(new) \in [Squares -> Pieces \cup {None}] BY <1>1, PlainStands
<1>12. Rules!Moved(p, r) = [s \in Squares |-> Value(s)] BY <1>6
<1> HIDE DEF Value
<1> QED BY <1>10, <1>11, <1>12 DEF p, r

\* The rook of a right goes where the rules say.
LEMMA RookGoes ==
  ASSUME NEW su, NEW idx \in Rights, idx \in HomeRights(su)
  PROVE  /\ su.rook[idx + 1] \in Squares /\ su.king[OfSide(idx) + 1] \in Squares
         /\ Rules!RookTarget(su.king[OfSide(idx) + 1], su.rook[idx + 1]) = castle_rook_to(idx)
<1> DEFINE c == OfSide(idx)
           k == su.king[c + 1]
           r == su.rook[idx + 1]
<1>1. c \in {white, black} BY SideOfRight
<1>2. k \in BackRank(c) /\ r \in BackRank(c) /\ (r > k <=> idx \in {0, 2}) BY DEF HomeRights
<1>3. /\ idx = 0 => c = white /\ castle_rook_to(idx) = 61
      /\ idx = 1 => c = white /\ castle_rook_to(idx) = 59
      /\ idx = 2 => c = black /\ castle_rook_to(idx) = 5
      /\ idx = 3 => c = black /\ castle_rook_to(idx) = 3
  BY DEF OfSide, castle_rook_to, white, black
<1>4. Rules!RookTarget(k, r) = 8 * (k \div 8) + (IF r % 8 > k % 8 THEN 5 ELSE 3)
  BY DEF Rules!RookTarget, Rules!Sq, Rules!Col, Rules!Rank
<1> HIDE DEF c, k, r
<1>5. (c = white => k \in 56..63 /\ r \in 56..63) /\ (c = black => k \in 0..7 /\ r \in 0..7)
  BY <1>2 DEF BackRank, BackRow, white, black
<1>6. CASE c = white
  <2>1. k \div 8 = 7 /\ (r % 8 > k % 8 <=> r > k) BY <1>5, <1>6
  <2>2. idx = 0 \/ idx = 1 BY <1>3, <1>6 DEF Rights, white, black
  <2>3. Rules!RookTarget(k, r) = 56 + (IF r > k THEN 5 ELSE 3) BY <1>4, <2>1
  <2>4. Rules!RookTarget(k, r) = castle_rook_to(idx) BY <1>2, <1>3, <2>2, <2>3
  <2> QED BY <1>5, <1>6, <2>4 DEF c, k, r, Squares
<1>7. CASE c = black
  <2>1. k \div 8 = 0 /\ (r % 8 > k % 8 <=> r > k) BY <1>5, <1>7
  <2>2. idx = 2 \/ idx = 3 BY <1>3, <1>7 DEF Rights, white, black
  <2>3. Rules!RookTarget(k, r) = IF r > k THEN 5 ELSE 3 BY <1>4, <2>1
  <2>4. Rules!RookTarget(k, r) = castle_rook_to(idx) BY <1>2, <1>3, <2>2, <2>3
  <2> QED BY <1>5, <1>7, <2>4 DEF c, k, r, Squares
<1> QED BY <1>1, <1>6, <1>7

\* ... and after castling.
LEMMA CastlingBoard ==
  ASSUME NEW b, b.bb \in Boards, b.side \in {white, black}, Disjoint(b.bb), b.castle \in SUBSET Rights,
         RightsSound(b, setup), NEW m, FitFrom(b, m), FitCastling(b, m), NEW new, Castled(b.bb, new, m, CastleRook(m))
  PROVE  Rules!Moved(PositionOf(b, setup), RuleMoveIn(m, setup)) = mailbox_of(new)
<1> DEFINE on == mailbox_of(b.bb)
           r == CastleRook(m)
           idx == castle_index(m.to)
           p == PositionOf(b, setup)
           q == RuleMoveIn(m, setup)
           on1 == [[on EXCEPT ![m.from] = None, ![r.from] = None] EXCEPT ![m.to] = m.piece, ![r.to] = r.piece]
<1>1. BothMove(b, m, r) BY CastlingFacts
<1>2. /\ m.from \in Squares /\ m.to \in Squares /\ r.from \in Squares /\ r.to \in Squares
      /\ m.piece \in Pieces /\ r.piece \in Pieces /\ m.castling = TRUE
      /\ m.from \in b.bb[m.piece] /\ r.from \in b.bb[r.piece]
  BY <1>1 DEF BothMove
<1>3. on \in [Squares -> Pieces \cup {None}] /\ Mirrors(on, b.bb) BY MailboxIs
<1>4. idx \in b.castle /\ idx \in Rights /\ OfSide(idx) = b.side /\ m.from = castle_king_sq(b.side) BY DEF FitCastling
<1>5. idx \in HomeRights(setup) BY <1>4 DEF RightsSound
<1>6. r.from = setup.rook[idx + 1] /\ r.to = castle_rook_to(idx) /\ m.from = setup.king[OfSide(idx) + 1]
  BY <1>4 DEF CastleRook, castle_rook_sq, castle_king_sq
<1>7. Rules!RookTarget(m.from, r.from) = r.to BY <1>4, <1>5, <1>6, RookGoes
<1>8. q.from = m.from /\ q.to = m.to /\ q.rook = r.from /\ q.rook # no_sq
  <2>1. q.rook = r.from BY <1>2, <1>6 DEF RuleMoveIn
  <2> QED BY <1>2, <2>1 DEF RuleMoveIn, Squares, no_sq
<1>9. p.board = on BY DEF PositionOf
<1>10. on[m.from] = m.piece /\ on[r.from] = r.piece BY <1>2, <1>3 DEF Mirrors
<1>13. on1 = td_mailbox_apply(on, m, None, None) BY <1>2 DEF td_mailbox_apply
<1> HIDE DEF p, q, r, on, idx
<1> DEFINE Put(x, y) == [[on EXCEPT ![m.from] = None, ![r.from] = None] EXCEPT ![m.to] = x, ![r.to] = y]
<1>11. Rules!Moved(p, q) = Put(on[m.from], on[r.from])
  BY <1>7, <1>8, <1>9, RulesTerms DEF Rules!Moved
<1>a. on1 = Put(m.piece, r.piece) OBVIOUS
<1> HIDE DEF Put, on1
<1>12. Rules!Moved(p, q) = on1 BY <1>10, <1>11, <1>a
<1>14. on1 \in [Squares -> Pieces \cup {None}] /\ Mirrors(on1, new) BY <1>1, <1>3, <1>13, CastlingMailbox DEF r
<1>15. new \in Boards /\ Disjoint(new) BY <1>14, MirroredDisjoint DEF Castled
<1>16. on1 = mailbox_of(new) BY <1>14, <1>15, MirrorsIsMailbox
<1> QED BY <1>12, <1>16 DEF p, q

\* What a pawn attacks is what the rules say.
LEMMA ShortWalk ==
  ASSUME NEW bd, NEW t \in Squares, NEW dirs, NEW s
  PROVE  s \in Rules!Walk(bd, t, dirs, 1) <=> \E d \in dirs : Rules!OnBoard(t, d, 1) /\ s = Rules!To(t, d, 1)
<1>1. \A d : \A n : n \in {k \in 1..1 : Rules!OnBoard(t, d, k) /\ \A i \in 1..(k - 1) : bd[Rules!To(t, d, i)] = Rules!Empty}
                    <=> n = 1 /\ Rules!OnBoard(t, d, 1)
  <2>1. 1..1 = {1} /\ 1..(1 - 1) = {} OBVIOUS
  <2> QED BY <2>1
<1> DEFINE Once(d) == {Rules!To(t, d, n) : n \in {k \in 1..1 : Rules!OnBoard(t, d, k) /\ \A i \in 1..(k - 1) : bd[Rules!To(t, d, i)] = Rules!Empty}}
<1>2. \A d : s \in Once(d) <=> Rules!OnBoard(t, d, 1) /\ s = Rules!To(t, d, 1) BY <1>1
<1>3. Rules!Walk(bd, t, dirs, 1) = UNION {Once(d) : d \in dirs} BY DEF Rules!Walk
<1> HIDE DEF Once
<1> QED BY <1>2, <1>3

\* The table of pawn attacks is what a pawn of the rules reaches.
LEMMA PawnReach ==
  ASSUME NEW bd, NEW c \in {white, black}, NEW t \in Squares, bd[t] = Piece(c, Pawn), NEW s \in Squares
  PROVE  s \in Rules!Reach(bd, t) <=> s \in pawn_attacks[c][t]
<1> DEFINE up == IF c = white THEN -1 ELSE 1
           P == {<<-1, up>>, <<1, up>>}
<1>1. Rules!Kind(bd[t]) = 0 /\ Rules!Owner(bd[t]) = c /\ Rules!Ahead(c) = up
  BY DEF Rules!Kind, Rules!Owner, Rules!Ahead, Piece, Pawn, white, black
<1>2. Rules!Reach(bd, t) = Rules!Walk(bd, t, P, 1) BY <1>1 DEF Rules!Reach
<1> DEFINE W(d) == Rules!OnBoard(t, d, 1) /\ s = Rules!To(t, d, 1)
<1>3. s \in Rules!Reach(bd, t) <=> \E d \in P : W(d)
  <2> HIDE DEF P
  <2> QED BY <1>2, ShortWalk
<1>4. (\E d \in P : W(d)) <=> W(<<-1, up>>) \/ W(<<1, up>>)
  <2> HIDE DEF W, up
  <2> QED OBVIOUS
<1>5. \A x \in {-1, 1} : \A y \in {-1, 1} :
        W(<<x, y>>) <=> /\ (t % 8) + x \in 0..7 /\ t \div 8 + y \in 0..7 /\ s = 8 * (t \div 8 + y) + ((t % 8) + x)
  BY DEF Rules!OnBoard, Rules!To, Rules!Sq, Rules!Col, Rules!Rank
<1> HIDE DEF W
<1>6. \A x \in {-1, 1} : \A y \in {-1, 1} :
        ((t % 8) + x \in 0..7 /\ t \div 8 + y \in 0..7 /\ s = 8 * (t \div 8 + y) + ((t % 8) + x))
          <=> s = t + 8 * y + x /\ s % 8 # (IF x = 1 THEN 0 ELSE 7)
  BY DEF Squares
<1>7. CASE c = white
  <2>1. up = -1 BY <1>7
  <2>2. W(<<-1, -1>>) <=> s = t - 9 /\ File(s) # 7 BY <1>5, <1>6 DEF File, Squares
  <2>3. W(<<1, -1>>) <=> s = t - 7 /\ File(s) # 0 BY <1>5, <1>6 DEF File, Squares
  <2> QED BY <1>3, <1>4, <1>7, <2>1, <2>2, <2>3, PawnAttacksAre
<1>8. CASE c = black
  <2>1. up = 1 BY <1>8 DEF white, black
  <2>2. W(<<-1, 1>>) <=> s = t + 7 /\ File(s) # 7 BY <1>5, <1>6 DEF File, Squares
  <2>3. W(<<1, 1>>) <=> s = t + 9 /\ File(s) # 0 BY <1>5, <1>6 DEF File, Squares
  <2> QED BY <1>3, <1>4, <1>8, <2>1, <2>2, <2>3, PawnAttacksAre
<1> QED BY <1>7, <1>8

\* The square a pawn has jumped over counts when an enemy pawn attacks it.
JumpedBy(bd, c, pc, from, to) ==
  IF /\ Type(pc) = Pawn /\ (to - from) \in {16, -16}
     /\ \E t \in Squares : bd[t] = 6 * (1 - c) /\ (from + to) \div 2 \in Rules!Reach(bd, t)
  THEN (from + to) \div 2 ELSE no_sq

\* A pawn that could take in passing is one the table finds.
LEMMA JumpSeen ==
  ASSUME NEW new \in Boards, Disjoint(new), NEW c \in {white, black}, NEW behind \in Squares
  PROVE  (\E t \in Squares : mailbox_of(new)[t] = 6 * (1 - c) /\ behind \in Rules!Reach(mailbox_of(new), t))
           <=> pawn_attacks[c][behind] \cap new[Piece(1 - c, Pawn)] # {}
<1> DEFINE q == Piece(1 - c, Pawn)
           bd == mailbox_of(new)
<1>1. 1 - c \in {white, black} /\ q = 6 * (1 - c) /\ q \in Pieces /\ 1 - (1 - c) = c BY DEF Piece, Pawn, Pieces, white, black
<1>2. \A t \in Squares : bd[t] = q <=> t \in new[q] BY <1>1, StandsOn
<1>3. \A t \in Squares : bd[t] = q => (behind \in Rules!Reach(bd, t) <=> behind \in pawn_attacks[1 - c][t])
  BY <1>1, PawnReach
<1>4. \A t \in Squares : behind \in pawn_attacks[1 - c][t] <=> t \in pawn_attacks[c][behind] BY PawnsMeet
<1>5. new[q] \subseteq Squares BY <1>1 DEF Boards
<1> HIDE DEF q, bd
<1>6. (\E t \in Squares : bd[t] = q /\ behind \in Rules!Reach(bd, t)) <=> \E t \in Squares : t \in new[q] /\ t \in pawn_attacks[c][behind]
  BY <1>2, <1>3, <1>4
<1>7. (\E t \in Squares : t \in new[q] /\ t \in pawn_attacks[c][behind]) <=> pawn_attacks[c][behind] \cap new[q] # {} BY <1>5
<1> QED BY <1>1, <1>6, <1>7 DEF q, bd

\* A double step is a pawn's move by two rows.
LEMMA PawnPace ==
  ASSUME NEW b, b.side \in {white, black}, NEW m, m \in Moves, FitPlain(b, m)
  PROVE  m.double <=> m.piece = Piece(b.side, Pawn) /\ (m.to - m.from) \in {16, -16}
<1> DEFINE c == b.side
<1>1. m.from \in Squares /\ m.to \in Squares /\ m.double \in BOOLEAN /\ m.capture \in BOOLEAN BY DEF Moves
<1>2. m.double => m.piece = Piece(c, Pawn) /\ ~m.capture BY DEF FitPlain
<1>3. m.piece = Piece(c, Pawn) => PawnWay(b, m) BY DEF FitPlain
<1>4. CASE m.piece = Piece(c, Pawn) /\ m.capture
  <2>1. m.to \in pawn_attacks[c][m.from] BY <1>3, <1>4 DEF PawnWay
  <2>2. m.to = m.from - 7 \/ m.to = m.from - 9 \/ m.to = m.from + 7 \/ m.to = m.from + 9 BY <1>1, <2>1, PawnAttacksAre
  <2>3. m.to - m.from # 16 /\ m.to - m.from # -16 BY <1>1, <2>2 DEF Squares
  <2> QED BY <1>2, <1>4, <2>3
<1>5. CASE m.piece = Piece(c, Pawn) /\ ~m.capture
  <2>1. m.to = m.from + (IF m.double THEN 2 * Up(c) ELSE Up(c)) BY <1>3, <1>5 DEF PawnWay
  <2>2. Up(c) = 8 \/ Up(c) = -8 BY DEF Up
  <2>3. m.double => m.to - m.from = 16 \/ m.to - m.from = -16 BY <1>1, <2>1, <2>2 DEF Squares
  <2>4. ~m.double => m.to - m.from = 8 \/ m.to - m.from = -8 BY <1>1, <2>1, <2>2 DEF Squares
  <2> QED BY <1>5, <2>3, <2>4
<1> QED BY <1>1, <1>2, <1>4, <1>5

\* The square for taking in passing is the one of the rules.
LEMMA EpFollows ==
  ASSUME NEW b, b.bb \in Boards, b.side \in {white, black}, Disjoint(b.bb), NEW m, FitFrom(b, m), FitPlain(b, m),
         NEW new \in Boards, Disjoint(new)
  PROVE  JumpedBy(mailbox_of(new), b.side, m.piece, m.from, m.to) = IF m.double THEN EpSquare(new, b.side, m.to) ELSE no_sq
<1> DEFINE c == b.side
           behind == m.to - Up(c)
           bd == mailbox_of(new)
           jumped == (m.from + m.to) \div 2
<1>1. m \in Moves /\ m.piece \in Men(c) BY DEF FitFrom
<1>2. m.double <=> m.piece = Piece(c, Pawn) /\ (m.to - m.from) \in {16, -16} BY <1>1, PawnPace
<1>3. Type(m.piece) = Pawn <=> m.piece = Piece(c, Pawn) BY <1>1, KindOfMan
<1>4. CASE ~m.double BY <1>2, <1>3, <1>4 DEF JumpedBy
<1>5. CASE m.double
  <2>1. behind \in Squares /\ ~m.capture /\ m.piece = Piece(c, Pawn) BY <1>5 DEF FitPlain
  <2>2. m.to = m.from + 2 * Up(c) BY <1>5, <2>1 DEF FitPlain, PawnWay
  <2>3. jumped = behind
    <3>1. m.from \in Squares /\ m.to \in Squares BY <1>1 DEF Moves
    <3> QED BY <2>2, <3>1 DEF Up, Squares
  <2>4. (\E t \in Squares : bd[t] = 6 * (1 - c) /\ behind \in Rules!Reach(bd, t)) <=> pawn_attacks[c][behind] \cap new[Piece(1 - c, Pawn)] # {}
    BY <2>1, JumpSeen
  <2>5. EpSquare(new, c, m.to) = IF pawn_attacks[c][behind] \cap new[Piece(1 - c, Pawn)] # {} THEN behind ELSE no_sq BY DEF EpSquare
  <2>6. JumpedBy(bd, c, m.piece, m.from, m.to) =
          IF \E t \in Squares : bd[t] = 6 * (1 - c) /\ behind \in Rules!Reach(bd, t) THEN behind ELSE no_sq
    <3> HIDE DEF behind, bd, c
    <3> QED BY <1>2, <1>3, <1>5, <2>3 DEF JumpedBy
  <2> QED BY <1>5, <2>4, <2>5, <2>6
<1>6. m.double \in BOOLEAN BY <1>1 DEF Moves
<1> QED BY <1>4, <1>5, <1>6

\* The rights after a move: those the masks of the setup leave are those of the rules.
RightsAfter(bd, rights, c, from, to) ==
  IF Type(bd[from]) = King THEN {r \in rights \ {to} : ~Rules!Ours(bd, r, c)} ELSE rights \ {from, to}

\* Two rights are two rooks.
LEMMA RightsApart ==
  ASSUME NEW b, b.bb \in Boards, Disjoint(b.bb), b.castle \in SUBSET Rights, NEW su, RightsSound(b, su),
         NEW i \in b.castle, NEW j \in b.castle, su.rook[i + 1] = su.rook[j + 1]
  PROVE  i = j
<1>1. i \in Rights /\ j \in Rights OBVIOUS
<1>2. OfSide(i) \in {white, black} /\ OfSide(j) \in {white, black} BY <1>1, SideOfRight
<1>3. Rook \in 0..5 BY DEF Rook
<1>4. Piece(OfSide(i), Rook) \in Pieces /\ Piece(OfSide(j), Rook) \in Pieces BY <1>2, <1>3, PieceOf
<1>5. su.rook[i + 1] \in b.bb[Piece(OfSide(i), Rook)] /\ su.rook[j + 1] \in b.bb[Piece(OfSide(j), Rook)] BY DEF RightsSound
<1>6. su.rook[i + 1] \in Squares BY <1>4, <1>5 DEF Boards
<1>7. Piece(OfSide(i), Rook) = Piece(OfSide(j), Rook) BY <1>4, <1>5, <1>6 DEF Disjoint
<1>8. OfSide(i) = OfSide(j) BY <1>2, <1>7 DEF Piece, Rook, white, black
<1>9. i \in HomeRights(su) /\ j \in HomeRights(su) BY DEF RightsSound
<1>10. i \in {0, 2} <=> j \in {0, 2} BY <1>8, <1>9 DEF HomeRights
<1>11. i = j
  <2> HIDE DEF OfSide
  <2>1. OfSide(0) = 0 /\ OfSide(1) = 0 /\ OfSide(2) = 1 /\ OfSide(3) = 1 BY DEF OfSide
  <2>2. i \in {0, 1, 2, 3} /\ j \in {0, 1, 2, 3} BY <1>1 DEF Rights
  <2> QED BY <1>8, <1>10, <2>1, <2>2
<1> QED BY <1>11

\* The masks of the castling rights leave the rights the rules leave.
LEMMA RightsFollow ==
  ASSUME NEW b, b.bb \in Boards, b.side \in {white, black}, Disjoint(b.bb), b.castle \in SUBSET Rights,
         NEW su, RightsSound(b, su), NEW m, m.from \in Squares, m.to \in Squares, m.piece \in Men(b.side), m.from \in b.bb[m.piece],
         \A x, y \in b.bb[Piece(b.side, King)] : x = y,
         \A i \in b.castle : m.to = su.king[OfSide(i) + 1] => OfSide(i) = b.side /\ m.piece = Piece(b.side, King)
  PROVE  RookSquares(b.castle \cap su.mask[m.from] \cap su.mask[m.to], su)
           = RightsAfter(mailbox_of(b.bb), RookSquares(b.castle, su), b.side, m.from, m.to)
<1> DEFINE c == b.side
           on == mailbox_of(b.bb)
           K(i) == su.king[OfSide(i) + 1]
           R(i) == su.rook[i + 1]
           left == b.castle \cap su.mask[m.from] \cap su.mask[m.to]
           rights == {R(i) : i \in b.castle}
<1>1. ASSUME NEW i \in b.castle
      PROVE  /\ OfSide(i) \in {white, black}
             /\ i \in left <=> m.from # K(i) /\ m.from # R(i) /\ m.to # K(i) /\ m.to # R(i)
             /\ K(i) \in b.bb[Piece(OfSide(i), King)] /\ R(i) \in b.bb[Piece(OfSide(i), Rook)]
             /\ Rules!Ours(on, R(i), c) <=> OfSide(i) = c
             /\ m.piece = Piece(c, King) => (m.from = K(i) <=> OfSide(i) = c) /\ (OfSide(i) # c => m.from # R(i))
             /\ m.piece # Piece(c, King) => m.from # K(i)
  <2>1. OfSide(i) \in {white, black} BY SideOfRight
  <2>2. K(i) \in b.bb[Piece(OfSide(i), King)] /\ R(i) \in b.bb[Piece(OfSide(i), Rook)] /\ i \in HomeRights(su) BY DEF RightsSound
  <2>3. King \in 0..5 /\ Rook \in 0..5 BY DEF King, Rook
  <2>4. /\ Piece(OfSide(i), King) \in Pieces /\ Piece(OfSide(i), Rook) \in Pieces /\ Piece(c, King) \in Pieces
        /\ Piece(OfSide(i), King) \in Men(OfSide(i)) /\ Piece(OfSide(i), Rook) \in Men(OfSide(i))
    BY <2>1, <2>3, PieceOf
  <2>5. K(i) \in Squares /\ R(i) \in Squares BY <2>2, <2>4 DEF Boards
  <2>6. \A s \in Squares : i \in su.mask[s] <=> s # K(i) /\ s # R(i) BY <2>2 DEF HomeRights
  <2>7. i \in left <=> m.from # K(i) /\ m.from # R(i) /\ m.to # K(i) /\ m.to # R(i) BY <2>6
  <2>8. Rules!Ours(on, R(i), c) <=> OfSide(i) = c
    <3>1. on[R(i)] = Piece(OfSide(i), Rook) BY <2>2, <2>4, <2>5, StandsOn
    <3>2. Piece(OfSide(i), Rook) \div 6 = OfSide(i) BY <2>1, <2>4, KindOfMan
    <3>3. Piece(OfSide(i), Rook) # None BY <2>4 DEF Pieces, None
    <3> QED BY <3>1, <3>2, <3>3, RulesTerms DEF Rules!Ours, Rules!Owner
  <2>9. m.piece \in Pieces BY MenIs
  <2>10. m.from = K(i) => m.piece = Piece(OfSide(i), King) BY <2>2, <2>4, <2>9 DEF Disjoint
  <2>11. m.from = R(i) => m.piece = Piece(OfSide(i), Rook) BY <2>2, <2>4, <2>9 DEF Disjoint
  <2>12. Piece(c, King) = Piece(OfSide(i), King) => OfSide(i) = c BY <2>1 DEF Piece, King, white, black
  <2>13. Piece(c, King) # Piece(OfSide(i), Rook) BY <2>1 DEF Piece, King, Rook, white, black
  <2>14. m.piece = Piece(OfSide(i), King) => OfSide(i) = c
    <3>1. CASE OfSide(i) = c BY <3>1
    <3>2. CASE OfSide(i) # c
      <4>1. OfSide(i) = 1 - c BY <2>1, <3>2 DEF white, black
      <4>2. Men(c) \cap Men(OfSide(i)) = {} BY <4>1, MenIs
      <4> QED BY <2>4, <4>2
    <3> QED BY <3>1, <3>2
  <2>15. OfSide(i) = c /\ m.piece = Piece(c, King) => m.from = K(i) BY <2>2
  <2> HIDE DEF K, R, left
  <2> QED BY <2>1, <2>2, <2>7, <2>8, <2>10, <2>11, <2>12, <2>13, <2>14, <2>15
<1>2. \A i, j \in b.castle : R(i) = R(j) => i = j BY RightsApart
<1>3. \A i \in b.castle : m.to = K(i) => OfSide(i) = c /\ m.piece = Piece(c, King) OBVIOUS
<1>4. on[m.from] = m.piece
  <2>1. m.piece \in Pieces BY MenIs
  <2> QED BY <2>1, StandsOn
<1>5. Type(on[m.from]) = King <=> m.piece = Piece(c, King) BY <1>4, KindOfMan
<1>6. left \subseteq b.castle OBVIOUS
<1>7. RightsAfter(on, rights, c, m.from, m.to)
        = IF m.piece = Piece(c, King) THEN {r \in rights \ {m.to} : ~Rules!Ours(on, r, c)} ELSE rights \ {m.from, m.to}
  <2> HIDE DEF on, rights
  <2> QED BY <1>5 DEF RightsAfter
<1> HIDE DEF K, R, on, left
<1>8. ASSUME NEW x, x \in {R(i) : i \in left} PROVE x \in RightsAfter(on, rights, c, m.from, m.to)
  <2>1. PICK i \in left : x = R(i) BY <1>8
  <2>2. i \in b.castle BY <1>6
  <2>3. m.from # K(i) /\ m.from # R(i) /\ m.to # K(i) /\ m.to # R(i) BY <1>1, <2>2
  <2>4. x \in rights /\ x # m.to /\ x # m.from BY <2>1, <2>2, <2>3
  <2>5. m.piece = Piece(c, King) => ~Rules!Ours(on, x, c) BY <1>1, <2>1, <2>2, <2>3
  <2> HIDE DEF rights
  <2> QED BY <1>7, <2>4, <2>5
<1>9. ASSUME NEW x, x \in RightsAfter(on, rights, c, m.from, m.to) PROVE x \in {R(i) : i \in left}
  <2>1. /\ x \in rights /\ x # m.to
        /\ m.piece = Piece(c, King) => ~Rules!Ours(on, x, c)
        /\ m.piece # Piece(c, King) => x # m.from
    <3> HIDE DEF rights
    <3> QED BY <1>7, <1>9
  <2>2. PICK i \in b.castle : x = R(i) BY <2>1
  <2>3. i \in left <=> m.from # K(i) /\ m.from # R(i) /\ m.to # K(i) /\ m.to # R(i) BY <1>1
  <2>4. m.to # R(i) BY <2>1, <2>2
  <2>5. CASE m.piece = Piece(c, King)
    <3>1. OfSide(i) # c BY <1>1, <2>1, <2>2, <2>5
    <3>2. m.from # K(i) /\ m.from # R(i) BY <1>1, <2>5, <3>1
    <3> QED BY <1>3, <2>2, <2>3, <2>4, <3>1, <3>2
  <2>6. CASE m.piece # Piece(c, King)
    <3>1. m.from # K(i) BY <1>1, <2>6
    <3> QED BY <1>3, <2>1, <2>2, <2>3, <2>4, <2>6, <3>1
  <2> QED BY <2>5, <2>6
<1>10. {R(i) : i \in left} = RightsAfter(on, rights, c, m.from, m.to)
  <2> HIDE DEF rights
  <2> QED BY <1>8, <1>9
<1> QED BY <1>10 DEF K, R, on, left, RookSquares

\* The position the rules give after a move of the board.
LEMMA AfterIs ==
  ASSUME NEW b, NEW m, NEW su
  PROVE  LET p == PositionOf(b, su)
             q == RuleMoveIn(m, su)
             on == mailbox_of(b.bb)
         IN  Rules!After(p, q) =
               [board |-> Rules!Moved(p, q), turn |-> 1 - b.side,
                rights |-> RightsAfter(on, RookSquares(b.castle, su), b.side, m.from, m.to),
                ep |-> JumpedBy(Rules!Moved(p, q), b.side, on[m.from], m.from, m.to),
                clock |-> IF Type(on[m.from]) = Pawn \/ (q.rook = no_sq /\ on[m.to] # None) THEN 0 ELSE b.fifty + 1]
<1> DEFINE p == PositionOf(b, su)
           q == RuleMoveIn(m, su)
           on == mailbox_of(b.bb)
           rights == RookSquares(b.castle, su)
<1>1. p.board = on /\ p.turn = b.side /\ p.rights = rights /\ p.clock = b.fifty BY DEF PositionOf
<1>2. q.from = m.from /\ q.to = m.to BY DEF RuleMoveIn
<1> HIDE DEF p, q, on, rights
<1>3. Rules!After(p, q) =
       [board |-> Rules!Moved(p, q), turn |-> 1 - p.turn,
        rights |-> RightsAfter(p.board, p.rights, p.turn, q.from, q.to),
        ep |-> JumpedBy(Rules!Moved(p, q), p.turn, p.board[q.from], q.from, q.to),
        clock |-> IF Type(p.board[q.from]) = Pawn \/ (q.rook = no_sq /\ p.board[q.to] # None) THEN 0 ELSE p.clock + 1]
  BY RulesTerms DEF RightsAfter, JumpedBy
<1>4. Rules!After(p, q) =
       [board |-> Rules!Moved(p, q), turn |-> 1 - b.side,
        rights |-> RightsAfter(on, rights, b.side, m.from, m.to),
        ep |-> JumpedBy(Rules!Moved(p, q), b.side, on[m.from], m.from, m.to),
        clock |-> IF Type(on[m.from]) = Pawn \/ (q.rook = no_sq /\ on[m.to] # None) THEN 0 ELSE b.fifty + 1]
  BY <1>1, <1>2, <1>3
<1> QED BY <1>4 DEF p, q, on, rights

\* The fields of the board after a move.
Leads(b, m, next) ==
  /\ next.bb = MovedBoards(b, m, UndoOf(b, m)) /\ next.side = 1 - b.side
  /\ next.castle = RightsLeft(b.castle, m)
  /\ next.ep = (IF m.double THEN EpSquare(next.bb, b.side, m.to) ELSE no_sq)
  /\ next.fifty = (IF Type(m.piece) = Pawn \/ m.capture THEN 0 ELSE b.fifty + 1)
Sole(b) == \A x, y \in b.bb[Piece(b.side, King)] : x = y

\* The position after a move that does not castle is the one the rules give ...
LEMMA PlainFollows ==
  ASSUME NEW b, ThreadOK(b, setup), NEW m, FitFrom(b, m), FitPlain(b, m), Sole(b), m.to \notin b.bb[Piece(1 - b.side, King)],
         NEW next, Leads(b, m, next)
  PROVE  FollowsRules(b, m, next, setup)
<1> DEFINE undo == UndoOf(b, m)
           c == b.side
           new == next.bb
           p == PositionOf(b, setup)
           q == RuleMoveIn(m, setup)
           on == mailbox_of(b.bb)
           rights == RookSquares(b.castle, setup)
<1>1. /\ b.bb \in Boards /\ b.side \in {white, black} /\ Disjoint(b.bb) /\ EpSound(b) /\ RightsSound(b, setup)
      /\ b.castle \in SUBSET Rights
  BY DEF ThreadOK, BoardOK, ThreadBoards
<1>2. Taking(b, m, undo.captured_piece, undo.captured_square) BY VictimIs
<1>3. PlainMove(b, m, undo.captured_piece, undo.captured_square) BY <1>1, <1>2, PlainFacts
<1>4. Shifted(b.bb, new, m, undo.captured_square) BY <1>1, <1>3, PlainMoves DEF Leads
<1>5. m \in Moves /\ m.piece \in Men(c) /\ m.from \in b.bb[m.piece] /\ m.from \in Squares /\ m.to \in Squares /\ m.piece \in Pieces
  BY <1>3 DEF FitFrom, PlainMove
<1> HIDE DEF undo
<1>6. Rules!Moved(p, q) = mailbox_of(new) BY <1>1, <1>2, <1>4, PlainBoard
<1>7. new \in Boards /\ Disjoint(new)
  <2>1. Mirrors(mailbox_of(new), new) BY <1>1, <1>3, <1>4, PlainStands
  <2> QED BY <1>4, <2>1, MirroredDisjoint DEF Shifted
<1>8. on[m.from] = m.piece BY <1>1, <1>5, StandsOn
<1>9. JumpedBy(mailbox_of(new), c, m.piece, m.from, m.to) = next.ep
  <2>1. JumpedBy(mailbox_of(new), c, m.piece, m.from, m.to) = IF m.double THEN EpSquare(new, c, m.to) ELSE no_sq
    BY <1>1, <1>7, EpFollows
  <2> QED BY <2>1 DEF Leads
<1>10. RookSquares(next.castle, setup) = RightsAfter(on, rights, c, m.from, m.to)
  <2>1. ASSUME NEW i \in b.castle, m.to = setup.king[OfSide(i) + 1] PROVE OfSide(i) = c /\ m.piece = Piece(c, King)
    <3>1. m.to \in b.bb[Piece(OfSide(i), King)] BY <1>1, <2>1 DEF RightsSound
    <3>2. OfSide(i) \in {white, black} BY <1>1, SideOfRight
    <3>3. King \in 0..5 BY DEF King
    <3>4. Piece(c, King) \in Men(c) BY <1>1, <3>3, PieceOf
    <3>5. m.to \notin b.bb[Piece(c, King)] BY <3>4 DEF FitPlain
    <3>6. OfSide(i) # c /\ OfSide(i) # 1 - c BY <3>1, <3>5
    <3> QED BY <1>1, <3>2, <3>6 DEF white, black
  <2>2. next.castle = b.castle \cap setup.mask[m.from] \cap setup.mask[m.to] BY DEF Leads, RightsLeft
  <2>3. \A x, y \in b.bb[Piece(b.side, King)] : x = y BY DEF Sole
  <2>4. RookSquares(b.castle \cap setup.mask[m.from] \cap setup.mask[m.to], setup) = RightsAfter(on, rights, c, m.from, m.to)
    <3>1. \A i \in b.castle : m.to = setup.king[OfSide(i) + 1] => OfSide(i) = b.side /\ m.piece = Piece(b.side, King) BY <2>1
    <3>2. m.from \in Squares /\ m.to \in Squares /\ m.piece \in Men(b.side) /\ m.from \in b.bb[m.piece] BY <1>5
    <3> QED BY ONLY <1>1, <2>3, <3>1, <3>2, RightsFollow
  <2> QED BY <2>2, <2>4
<1>11. next.fifty = IF Type(on[m.from]) = Pawn \/ (q.rook = no_sq /\ on[m.to] # None) THEN 0 ELSE b.fifty + 1
  <2>1. q.rook = no_sq BY DEF RuleMoveIn, FitPlain
  <2>2. m.capture /\ ~m.enpass => on[m.to] # None
    <3> SUFFICES ASSUME m.capture, ~m.enpass PROVE on[m.to] # None OBVIOUS
    <3>1. PICK x \in Men(1 - c) : m.to \in b.bb[x] BY DEF FitPlain
    <3>2. x \in Pieces BY <1>1, MenIs
    <3>3. ~Free(b.bb, m.to) BY <3>1, <3>2 DEF Free
    <3> QED BY <1>1, <1>5, <3>3, StandsOn
  <2>3. ~m.capture => on[m.to] = None
    <3>1. ~m.capture => Free(b.bb, m.to) BY DEF FitPlain
    <3> QED BY <1>1, <1>5, <3>1, StandsOn
  <2>4. m.enpass => Type(m.piece) = Pawn
    <3>1. m.enpass => m.piece = Piece(c, Pawn) BY DEF FitPlain
    <3> QED BY <1>1, <1>5, <3>1, KindOfMan
  <2>5. next.fifty = (IF Type(m.piece) = Pawn \/ m.capture THEN 0 ELSE b.fifty + 1) BY DEF Leads
  <2> HIDE DEF q, on
  <2> QED BY <1>8, <2>1, <2>2, <2>3, <2>4, <2>5
<1>12. PositionOf(next, setup) =
         [board |-> mailbox_of(new), turn |-> 1 - c, ep |-> next.ep, clock |-> next.fifty,
          rights |-> RookSquares(next.castle, setup)]
  BY DEF PositionOf, Leads
<1>13. Rules!After(p, q) =
         [board |-> Rules!Moved(p, q), turn |-> 1 - c,
          rights |-> RightsAfter(on, rights, c, m.from, m.to),
          ep |-> JumpedBy(Rules!Moved(p, q), c, on[m.from], m.from, m.to),
          clock |-> IF Type(on[m.from]) = Pawn \/ (q.rook = no_sq /\ on[m.to] # None) THEN 0 ELSE b.fifty + 1]
  BY AfterIs
<1> HIDE DEF p, q, on, rights, c
<1>14. Rules!After(p, q) =
         [board |-> mailbox_of(new), turn |-> 1 - c, rights |-> RookSquares(next.castle, setup),
          ep |-> next.ep, clock |-> next.fifty]
  BY <1>6, <1>8, <1>9, <1>10, <1>11, <1>13
<1> QED BY <1>12, <1>14 DEF FollowsRules, p, q, c

\* ... and after castling.
LEMMA CastlingFollows ==
  ASSUME NEW b, ThreadOK(b, setup), NEW m, FitFrom(b, m), FitCastling(b, m), Sole(b), NEW next, Leads(b, m, next)
  PROVE  FollowsRules(b, m, next, setup)
<1> DEFINE undo == UndoOf(b, m)
           c == b.side
           r == CastleRook(m)
           new == next.bb
           p == PositionOf(b, setup)
           q == RuleMoveIn(m, setup)
           on == mailbox_of(b.bb)
           rights == RookSquares(b.castle, setup)
<1>1. /\ b.bb \in Boards /\ b.side \in {white, black} /\ Disjoint(b.bb) /\ RightsSound(b, setup)
      /\ b.castle \in SUBSET Rights
  BY DEF ThreadOK, BoardOK, ThreadBoards
<1>2. undo.captured_piece = None BY DEF UndoOf, FitCastling
<1>3. BothMove(b, m, r) BY <1>1, CastlingFacts
<1>4. Castled(b.bb, new, m, r) BY <1>1, <1>2, <1>3, CastlingMovesBoards DEF Leads
<1>5. m.piece \in Men(c) /\ m.from \in b.bb[m.piece] /\ m.from \in Squares /\ m.to \in Squares /\ m.piece \in Pieces
      /\ m.piece = Piece(c, King) /\ ~m.capture /\ ~m.double
  BY <1>3 DEF FitFrom, BothMove, FitCastling
<1>6. Rules!Moved(p, q) = mailbox_of(new) BY <1>1, <1>4, CastlingBoard
<1>7. on[m.from] = m.piece BY <1>1, <1>5, StandsOn
<1>8. Type(m.piece) = King /\ Type(m.piece) # Pawn
  <2>1. Type(m.piece) = King BY <1>1, <1>5, KindOfMan
  <2> QED BY <2>1 DEF King, Pawn
<1>9. JumpedBy(mailbox_of(new), c, m.piece, m.from, m.to) = next.ep BY <1>5, <1>8 DEF JumpedBy, Leads
<1>10. RookSquares(next.castle, setup) = RightsAfter(on, rights, c, m.from, m.to)
  <2>1. ASSUME NEW i \in b.castle, m.to = setup.king[OfSide(i) + 1] PROVE OfSide(i) = c
    <3>1. m.to \in b.bb[Piece(OfSide(i), King)] BY <1>1, <2>1 DEF RightsSound
    <3>2. OfSide(i) \in {white, black} BY <1>1, SideOfRight
    <3>3. King \in 0..5 BY DEF King
    <3>4. Piece(OfSide(i), King) \in Pieces BY <3>2, <3>3, PieceOf
    <3>5. m.to = m.from \/ m.to = r.from BY <1>3, <3>1, <3>4 DEF BothMove, Free
    <3>6. Piece(OfSide(i), King) = m.piece \/ Piece(OfSide(i), King) = r.piece BY <1>3, <3>1, <3>4, <3>5 DEF BothMove
    <3>7. r.piece = Piece(c, Rook) BY DEF CastleRook, FitCastling
    <3> QED BY <1>1, <1>5, <3>2, <3>6, <3>7 DEF Piece, King, Rook, white, black
  <2>2. next.castle = b.castle \cap setup.mask[m.from] \cap setup.mask[m.to] BY DEF Leads, RightsLeft
  <2>3. \A x, y \in b.bb[Piece(b.side, King)] : x = y BY DEF Sole
  <2>4. RookSquares(b.castle \cap setup.mask[m.from] \cap setup.mask[m.to], setup) = RightsAfter(on, rights, c, m.from, m.to)
    <3>1. \A i \in b.castle : m.to = setup.king[OfSide(i) + 1] => OfSide(i) = b.side /\ m.piece = Piece(b.side, King)
      BY <1>5, <2>1
    <3>2. m.from \in Squares /\ m.to \in Squares /\ m.piece \in Men(b.side) /\ m.from \in b.bb[m.piece] BY <1>5
    <3> QED BY ONLY <1>1, <2>3, <3>1, <3>2, RightsFollow
  <2> QED BY <2>2, <2>4
<1>11. next.fifty = IF Type(on[m.from]) = Pawn \/ (q.rook = no_sq /\ on[m.to] # None) THEN 0 ELSE b.fifty + 1
  <2>1. q.rook # no_sq
    <3>1. r.from \in Squares /\ m.castling = TRUE BY <1>3 DEF BothMove
    <3>2. q.rook = r.from BY <3>1 DEF RuleMoveIn, CastleRook, castle_rook_sq
    <3> QED BY <3>1, <3>2 DEF Squares, no_sq
  <2>2. next.fifty = (IF Type(m.piece) = Pawn \/ m.capture THEN 0 ELSE b.fifty + 1) BY DEF Leads
  <2> HIDE DEF q, on
  <2> QED BY <1>5, <1>7, <1>8, <2>1, <2>2
<1>12. PositionOf(next, setup) =
         [board |-> mailbox_of(new), turn |-> 1 - c, ep |-> next.ep, clock |-> next.fifty,
          rights |-> RookSquares(next.castle, setup)]
  BY DEF PositionOf, Leads
<1>13. Rules!After(p, q) =
         [board |-> Rules!Moved(p, q), turn |-> 1 - c,
          rights |-> RightsAfter(on, rights, c, m.from, m.to),
          ep |-> JumpedBy(Rules!Moved(p, q), c, on[m.from], m.from, m.to),
          clock |-> IF Type(on[m.from]) = Pawn \/ (q.rook = no_sq /\ on[m.to] # None) THEN 0 ELSE b.fifty + 1]
  BY AfterIs
<1> HIDE DEF p, q, on, rights, c
<1>14. Rules!After(p, q) =
         [board |-> mailbox_of(new), turn |-> 1 - c, rights |-> RookSquares(next.castle, setup),
          ep |-> next.ep, clock |-> next.fifty]
  BY <1>6, <1>7, <1>9, <1>10, <1>11, <1>13
<1> QED BY <1>12, <1>14 DEF FollowsRules, p, q, c

\* A move of the search leads to the position the rules give.
LEMMA MadeIs ==
  ASSUME NEW b, ThreadOK(b, setup), NEW m, Fit(b, m), NEW listed
  PROVE  \A r \in {step_in(b, m, listed)} : r.made => Leads(Pushed(b), m, r.td)
<1> DEFINE p == Pushed(b)
           undo == UndoOf(p, m)
           new == MovedBoards(p, m, undo)
           made == MadeMove(p, m, undo, new)
           known == (listed \/ ~InCheck(b)) /\ ~(g_chess960 /\ m.castling)
           legal == known \/ ~LeavesKing(made)
           r == step_in(b, m, listed)
<1>1. p \in ThreadBoards BY PushedIs DEF ThreadOK
<1>2. r = Stepped([made |-> legal, undo |-> undo,
                   td |-> IF legal THEN [made EXCEPT !.plies_from_null = made.plies_from_null + 1] ELSE PutBack(made, m, undo)])
  BY DEF step_in, td_make_move, MakeWith, Tested, Verdict
<1> HIDE DEF p, undo, new, legal
<1>3. /\ made.bb = new /\ made.side = 1 - p.side /\ made.castle = RightsLeft(p.castle, m)
      /\ made.ep = (IF m.double THEN EpSquare(new, p.side, m.to) ELSE no_sq)
      /\ made.fifty = (IF Type(m.piece) = Pawn \/ m.capture THEN 0 ELSE p.fifty + 1)
      /\ DOMAIN made = DOMAIN p
  BY <1>1 DEF MadeMove, MadeBoard, ThreadBoards
<1> HIDE DEF made, r
<1>4. r.made = legal /\ (legal => r.td = [made EXCEPT !.plies_from_null = made.plies_from_null + 1]) BY <1>2 DEF Stepped
<1>5. legal => /\ r.td.bb = made.bb /\ r.td.side = made.side /\ r.td.castle = made.castle /\ r.td.ep = made.ep
               /\ r.td.fifty = made.fifty
  <2>1. DOMAIN p = DOMAIN b /\ {"bb", "side", "castle", "ep", "fifty"} \subseteq DOMAIN p BY <1>1 DEF ThreadBoards, p, Pushed
  <2> QED BY <1>3, <1>4, <2>1
<1>6. legal => Leads(p, m, r.td) BY <1>3, <1>5 DEF Leads, new, undo
<1> QED BY <1>4, <1>6 DEF r, p

\* A king is not taken: the side it belongs to has one afterwards.
LEMMA KingIsNotTaken ==
  ASSUME NEW b, ThreadOK(b, setup), NEW m, FitFrom(b, m), FitPlain(b, m), IsLegal(b), NEW next, Leads(b, m, next), IsLegal(next)
  PROVE  m.to \notin b.bb[Piece(1 - b.side, King)]
<1> SUFFICES ASSUME m.to \in b.bb[Piece(1 - b.side, King)] PROVE FALSE OBVIOUS
<1> DEFINE undo == UndoOf(b, m)
           k == Piece(1 - b.side, King)
           new == next.bb
<1>1. b.bb \in Boards /\ b.side \in {white, black} /\ Disjoint(b.bb) /\ 1 - b.side \in {white, black}
  BY DEF ThreadOK, BoardOK, ThreadBoards, white, black
<1>2. Taking(b, m, undo.captured_piece, undo.captured_square) BY VictimIs
<1>3. PlainMove(b, m, undo.captured_piece, undo.captured_square) BY <1>1, <1>2, PlainFacts
<1>4. Shifted(b.bb, new, m, undo.captured_square) BY <1>1, <1>3, PlainMoves DEF Leads
<1> HIDE DEF undo
<1>5. King \in 0..5 BY DEF King
<1>6. k \in Men(1 - b.side) /\ k \in Pieces BY <1>1, <1>5, PieceOf
<1>7. Landed(m) # k
  <2>1. Landed(m) \in Men(b.side) BY <1>3 DEF PlainMove
  <2> QED BY <1>1, <1>6, <2>1, MenIs
<1>8. Cardinality(b.bb[k]) = 1 /\ Cardinality(new[k]) = 1 BY <1>1 DEF IsLegal
<1>9. \A x, y \in b.bb[k] : x = y BY <1>1, <1>8, KingsAre
<1> HIDE DEF k
<1>10. new[k] = {}
  <2> SUFFICES ASSUME NEW s \in new[k] PROVE FALSE OBVIOUS
  <2>1. s \in Squares BY <1>4, <1>6 DEF Shifted, Boards
  <2>2. s # m.to /\ s \in b.bb[k] BY <1>4, <1>6, <1>7, <2>1 DEF Shifted
  <2> QED BY <1>9, <2>2 DEF k
<1> QED BY <1>8, <1>10, FS_EmptySet

\* step_in leads to the position the rules lead to.
LEMMA StepFollows ==
  ASSUME NEW b, ThreadOK(b, setup), NEW m, Fit(b, m), NEW listed, IsLegal(b)
  PROVE  \A r \in {step_in(b, m, listed)} : r.made /\ IsLegal(r.td) => FollowsRules(b, m, r.td, setup)
<1> DEFINE p == Pushed(b)
<1> SUFFICES ASSUME NEW r, r = step_in(b, m, listed), r.made, IsLegal(r.td) PROVE FollowsRules(b, m, r.td, setup)
  OBVIOUS
<1>1. ThreadOK(p, setup) /\ b \in ThreadBoards BY PushedIs DEF ThreadOK
<1>2. Fit(p, m) BY <1>1, PushedFits
<1>3. Leads(p, m, r.td) BY MadeIs
<1>4. p.bb = b.bb /\ p.side = b.side /\ p.ep = b.ep /\ p.castle = b.castle /\ p.fifty = b.fifty /\ p.occ = b.occ
  BY <1>1 DEF Pushed, ThreadBoards
<1> HIDE DEF p
<1>5. IsLegal(p)
  <2>1. All(p) = All(b) BY <1>4 DEF All
  <2>2. KingSquare(p, 1 - p.side) = KingSquare(b, 1 - b.side) BY <1>4 DEF KingSquare
  <2>3. \A s, by : is_square_attacked(p, s, by) <=> is_square_attacked(b, s, by) BY <1>4, AttackedSame
  <2>4. LeavesKing(p) <=> LeavesKing(b) BY <1>4, <2>2, <2>3 DEF LeavesKing
  <2> QED BY <1>4, <2>1, <2>4 DEF IsLegal
<1>6. Sole(p)
  <2>1. p.bb \in Boards /\ p.side \in {white, black} BY <1>1 DEF ThreadOK, ThreadBoards
  <2>2. Cardinality(p.bb[Piece(p.side, King)]) = 1 BY <1>5, <2>1 DEF IsLegal
  <2> QED BY <2>1, <2>2, KingsAre DEF Sole
<1>7. FollowsRules(p, m, r.td, setup)
  <2>1. CASE FitPlain(p, m)
    <3>1. FitFrom(p, m) BY <1>2 DEF Fit
    <3>2. m.to \notin p.bb[Piece(1 - p.side, King)] BY <1>1, <1>3, <1>5, <2>1, <3>1, KingIsNotTaken
    <3> QED BY <1>1, <1>3, <1>6, <2>1, <3>1, <3>2, PlainFollows
  <2>2. CASE FitCastling(p, m) BY <1>1, <1>2, <1>3, <1>6, <2>2, CastlingFollows DEF Fit
  <2> QED BY <1>2, <2>1, <2>2 DEF Fit
<1>8. PositionOf(p, setup) = PositionOf(b, setup) BY <1>4 DEF PositionOf
<1> QED BY <1>7, <1>8 DEF FollowsRules
===============================================================================
