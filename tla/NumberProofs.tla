----------------------------- MODULE NumberProofs -----------------------------
(***************************************************************************)
(* Proofs about the numbers of the search, for every value of them: that   *)
(* the scores, depths and evaluations the hash table stores come back as   *)
(* they were (HashFields), that an entry of the statistics stays within    *)
(* its limit whatever updates cross (Statistics), and which thread the     *)
(* vote over the scores of all threads chooses (PickThread).               *)
(***************************************************************************)
EXTENDS Statistics, PickThread, TLAPS

(***************************************************************************)
(* What the proofs need of the division of natural numbers.                *)
(***************************************************************************)
\* A product grows by at least its other factor at each step.
LEMMA Growing ==
  ASSUME NEW b \in Nat, NEW x \in Nat, NEW y \in Nat, x < y
  PROVE  b * x + b <= b * y
<1>1. b * (y - x - 1) >= 0  BY SMT
<1>2. b * (y - x - 1) = b * y - b * x - b  BY SMT
<1> QED BY <1>1, <1>2, SMT

\* A quotient is known by its bounds.
LEMMA QuotientIs ==
  ASSUME NEW a \in Nat, NEW b \in Nat \ {0}, NEW q \in Nat, b * q <= a, a < b * q + b
  PROVE  a \div b = q
<1> DEFINE r == a \div b
<1>1. r \in Nat /\ b * r <= a /\ a < b * r + b  BY SMT
<1>2. ~ q < r  BY <1>1, Growing, SMT
<1>3. ~ r < q  BY <1>1, Growing, SMT
<1> QED BY <1>1, <1>2, <1>3, SMT

\* The bounds of a quotient.
LEMMA Bounds ==
  ASSUME NEW b \in Nat \ {0}, NEW a \in Nat
  PROVE  a \div b \in Nat /\ b * (a \div b) <= a /\ a < b * (a \div b) + b
  BY SMT

(***************************************************************************)
(* Scores and depths in their fields.  A decided score of a node at ply is *)
(* a tablebase win, or a mate, distance plies from the root, for one side. *)
(***************************************************************************)
Decided(side, top, distance) == side * (top - distance)

\* A score other than the win of a tablebase or a mate comes back as it was, from any node.
THEOREM OthersComeBack ==
  ASSUME NEW v \in Int, ~ val_decided(v), NEW ply \in 0..max_ply, NEW there \in 0..max_ply, NEW fifty \in 0..100
  PROVE  from_hash_value(to_hash_value(v, ply), there, fifty) = v
  BY SMT DEF from_hash_value, to_hash_value, val_decided, TB_WIN_FLOOR, VAL_NONE

\* A win or a loss, stored at one node and read at another (there plies from the root, with its own counter), is as far
\* from that node as it was from the first; only when the counter does not leave the plies it takes does it come back
\* below every decided score of its side.
THEOREM DecidedComesBack ==
  ASSUME NEW side \in {1, -1}, NEW top \in {TB_WIN_TOP, mate_value}, NEW ply \in 0..max_ply,
         NEW distance \in ply..max_ply, NEW there \in 0..max_ply, NEW fifty \in 0..100
  PROVE  from_hash_value(to_hash_value(Decided(side, top, distance), ply), there, fifty)
           = IF distance - ply > 100 - fifty THEN side * (TB_WIN_FLOOR - 1)
             ELSE Decided(side, top, distance - ply + there)
<1>1. CASE side = 1
  BY <1>1, SMT DEF from_hash_value, to_hash_value, val_decided, Decided, Nearer, Plies, TB_WIN_FLOOR, TB_WIN_TOP, MATE_FLOOR,
              mate_value, max_ply, VAL_NONE
<1>2. CASE side = -1
  BY <1>2, SMT DEF from_hash_value, to_hash_value, val_decided, Decided, Nearer, Plies, TB_WIN_FLOOR, TB_WIN_TOP, MATE_FLOOR,
              mate_value, max_ply, VAL_NONE
<1> QED BY <1>1, <1>2, SMT

\* What to_hash_value makes of a score of the search fits the field, and only "none" becomes "none".
THEOREM ScoreFits ==
  ASSUME NEW ply \in 0..max_ply, NEW v \in Int, v = VAL_NONE \/ (- mate_value <= v /\ v <= mate_value)
  PROVE  /\ unpack_score(pack_score(to_hash_value(v, ply))) = to_hash_value(v, ply)
         /\ to_hash_value(v, ply) = VAL_NONE <=> v = VAL_NONE
  BY SMT DEF unpack_score, pack_score, to_hash_value, val_decided, TB_WIN_FLOOR, mate_value, max_ply, VAL_NONE

\* A depth comes back if it is not below -3 nor above 252.
THEOREM DepthFits ==
  ASSUME NEW d \in (- HD_SHIFT)..252
  PROVE  unpack_depth(pack_depth(d)) = d
  BY SMT DEF unpack_depth, pack_depth, HD_SHIFT

(***************************************************************************)
(* Evaluations.                                                            *)
(***************************************************************************)
\* The comment on the reciprocal claims as much: |v| <= 2^20.
exact == 1048576

\* The multiplication by the reciprocal is the division it stands for.
LEMMA ScaledIs ==
  ASSUME NEW mag \in Nat, mag <= 199 * exact, NEW fifty \in 0..100
  PROVE  Scaled(mag, fifty) = mag \div (199 - fifty)
<1> DEFINE D == 199 - fifty
           P == two40
           M == unfade_recip(fifty)
           k == mag \div D
<1>1. D \in 99..199 /\ P \in Nat
  BY SMT DEF two40
<1>2. M \in Nat /\ D * M >= P /\ D * M <= P + D - 1
  <2>1. M = (P + D - 1) \div D
    BY <1>1, SMT DEF unfade_recip
  <2>2. P + D - 1 \in Nat
    BY <1>1, SMT
  <2>3. D \in Nat \ {0}
    BY <1>1, SMT
  <2> HIDE DEF D, P, M
  <2>4. (P + D - 1) \div D \in Nat /\ D * ((P + D - 1) \div D) <= P + D - 1 /\ P + D - 1 < D * ((P + D - 1) \div D) + D
    BY <2>2, <2>3, Bounds
  <2>5. M \in Nat /\ D * M <= P + D - 1 /\ P + D - 1 < D * M + D
    BY <2>1, <2>4
  <2> QED BY <2>5, <1>1, SMT
<1>3. k \in Nat /\ D * k <= mag /\ mag < D * k + D
  <2> HIDE DEF D
  <2> QED BY <1>1, Bounds, SMT
<1>4. M > mag + D
  <2>1. P > 199 * (mag + 199)
    BY SMT DEF two40, exact
  <2> HIDE DEF D, P, M
  <2> QED BY <1>1, <1>2, <2>1, SMT
<1> HIDE DEF D, P, M, k
<1>5. P * k <= mag * M
  <2>1. (D * k) * M <= mag * M
    BY <1>1, <1>2, <1>3, SMT
  <2>2. (D * M) * k >= P * k
    BY <1>1, <1>2, <1>3, SMT
  <2>3. (D * k) * M = (D * M) * k
    BY <1>1, <1>2, <1>3, SMT
  <2> QED BY <2>1, <2>2, <2>3, <1>1, <1>2, <1>3, SMT
<1>6. mag * M < P * k + P
  <2>1. mag * M <= (D * k + D - 1) * M
    BY <1>1, <1>2, <1>3, SMT
  <2>2. (D * k + D - 1) * M = (D * M) * k + D * M - M
    BY <1>1, <1>2, <1>3, SMT
  <2>3. (D * M) * k <= (P + D - 1) * k
    BY <1>1, <1>2, <1>3, SMT
  <2>4. (P + D - 1) * k = P * k + D * k - k
    BY <1>1, <1>3, SMT
  <2> QED BY <2>1, <2>2, <2>3, <2>4, <1>1, <1>2, <1>3, <1>4, SMT
<1>7. (mag * M) \div P = k
  BY <1>1, <1>2, <1>3, <1>5, <1>6, QuotientIs, SMT
<1> QED BY <1>7, SMT DEF Scaled, P, k, D, M

\* eval_unfade divides, toward zero, as the code did before the reciprocal, for every evaluation up to 2^20.
THEOREM ReciprocalIsExact ==
  ASSUME NEW v \in Int, - exact <= v, v <= exact, NEW fifty \in Nat
  PROVE  eval_unfade(v, fifty) = Trunc(v * 199, 199 - Capped(fifty))
<1>1. Capped(fifty) \in 0..100
  BY SMT DEF Capped
<1>2. CASE v * 199 < 0
  <2>1. - (v * 199) \in Nat /\ - (v * 199) <= 199 * exact
    BY <1>2, SMT DEF exact
  <2>2. Scaled(- (v * 199), Capped(fifty)) = (- (v * 199)) \div (199 - Capped(fifty))
    BY <1>1, <2>1, ScaledIs
  <2> QED BY <1>2, <2>2 DEF eval_unfade, Unfaded, Trunc
<1>3. CASE ~ v * 199 < 0
  <2>1. v * 199 \in Nat /\ v * 199 <= 199 * exact
    BY <1>3, SMT DEF exact
  <2>2. Scaled(v * 199, Capped(fifty)) = (v * 199) \div (199 - Capped(fifty))
    BY <1>1, <2>1, ScaledIs
  <2> QED BY <1>3, <2>2 DEF eval_unfade, Unfaded, Trunc
<1> QED BY <1>2, <1>3, SMT

\* Damping what undamping gave takes away what it had added.
LEMMA FadesBack ==
  ASSUME NEW n \in Nat, NEW f \in 0..100
  PROVE  /\ (199 * n) \div (199 - f) \in Nat
         /\ (((199 * n) \div (199 - f)) * f) \div 199 = (199 * n) \div (199 - f) - n
<1> DEFINE D == 199 - f
           raw == (199 * n) \div D
<1>1. D \in 99..199
  BY SMT
<1>2. raw \in Nat /\ D * raw <= 199 * n /\ 199 * n < D * raw + D
  <2> HIDE DEF D
  <2> QED BY <1>1, Bounds, SMT
<1> HIDE DEF raw
<1>3. raw * f = 199 * raw - D * raw
  BY <1>2, SMT
<1> HIDE DEF D
<1>4. 199 * (raw - n) <= raw * f /\ raw * f < 199 * (raw - n) + 199
  BY <1>1, <1>2, <1>3, SMT
<1>5. raw * f \in Nat
  BY <1>2, SMT
<1>6. (raw * f) \div 199 = raw - n
  BY <1>2, <1>4, <1>5, SMT
<1> QED BY <1>2, <1>6, SMT DEF raw, D

\* The evaluation of a position, damped by the counter, is the same from the network and from the hash, at any value of
\* the counter.
THEOREM EvalComesBack ==
  ASSUME NEW v \in Int, - exact <= v, v <= exact, NEW fifty \in Nat
  PROVE  eval_refade(eval_unfade(v, fifty), fifty) = v
<1> DEFINE f == Capped(fifty)
           raw(n) == (199 * n) \div (199 - f)
<1>1. f \in 0..100
  BY SMT DEF Capped
<1>2. CASE v >= 0
  <2>1. eval_unfade(v, fifty) = raw(v)
    BY <1>2, ReciprocalIsExact, SMT DEF Trunc
  <2>2. raw(v) \in Nat /\ (raw(v) * f) \div 199 = raw(v) - v
    <3>1. v \in Nat
      BY <1>2, SMT
    <3> HIDE DEF f
    <3> QED BY <1>1, <3>1, FadesBack
  <2> HIDE DEF f, raw
  <2>3. ~ raw(v) * f < 0
    BY <1>1, <2>2, SMT
  <2> QED BY <2>1, <2>2, <2>3, SMT DEF eval_refade, Trunc, f
<1>3. CASE v < 0
  <2>1. eval_unfade(v, fifty) = - raw(- v)
    BY <1>3, ReciprocalIsExact, SMT DEF Trunc
  <2>2. raw(- v) \in Nat /\ (raw(- v) * f) \div 199 = raw(- v) + v
    <3>1. - v \in Nat
      BY <1>3, SMT
    <3>2. (raw(- v) * f) \div 199 = raw(- v) - (- v) /\ raw(- v) \in Nat
      <4> HIDE DEF f
      <4> QED BY <1>1, <3>1, FadesBack
    <3> HIDE DEF f, raw
    <3> QED BY <3>2, SMT
  <2> HIDE DEF f, raw
  <2>3. (- raw(- v)) * f = - (raw(- v) * f)
    BY <1>1, <1>3, <2>2, SMT
  <2>4. raw(- v) * f >= 0
    BY <1>1, <2>2, SMT
  <2>5. Trunc((- raw(- v)) * f, 199) = - (raw(- v) + v)
    BY <2>2, <2>3, <2>4, <1>1, SMT DEF Trunc
  <2> QED BY <2>1, <2>2, <2>5, SMT DEF eval_refade, f
<1> QED BY <1>2, <1>3, SMT

\* The field keeps an evaluation up to 30000 and no other.
THEOREM EvalFits ==
  ASSUME NEW v \in Int
  PROVE  tt_unpack_eval16(tt_eval16(v)) = Unpacked(v)
  BY SMT DEF tt_unpack_eval16, tt_eval16, Unpacked, tt_eval_none

(***************************************************************************)
(* The statistics.                                                         *)
(***************************************************************************)
\* The pull of a value that is not negative is not more than the value or the reward, and enough to stay in the limit.
LEMMA PullIs ==
  ASSUME LimitAssumption, NEW v \in 0..limit, NEW b \in 0..limit
  PROVE  /\ (v * b) \div limit \in Nat
         /\ (v * b) \div limit <= v
         /\ (v * b) \div limit <= b
         /\ v + b - (v * b) \div limit <= limit
<1> DEFINE q == (v * b) \div limit
<1>1. limit \in Nat \ {0} /\ v * b \in Nat
  BY SMT DEF LimitAssumption
<1>2. q \in Nat /\ limit * q <= v * b /\ v * b < limit * q + limit
  BY <1>1, Bounds
<1> HIDE DEF q
<1>3. v * b <= limit * v /\ v * b <= limit * b
  <2>1. (limit - b) * v >= 0 /\ (limit - v) * b >= 0
    BY SMT DEF LimitAssumption
  <2> QED BY <2>1, <1>1, SMT
<1>4. ~ v < q
  BY <1>1, <1>2, <1>3, Growing, SMT
<1>5. ~ b < q
  BY <1>1, <1>2, <1>3, Growing, SMT
<1>6. ~ limit < v + b - q
  <2>1. SUFFICES ASSUME limit < v + b - q PROVE FALSE
    OBVIOUS
  <2>2. limit * (v + b - q) >= limit * limit + limit
    BY <2>1, <1>1, <1>2, Growing, SMT
  <2>3. limit * (v + b - q) = limit * v + limit * b - limit * q
    BY <1>1, <1>2, SMT
  <2>4. (limit - v) * (limit - b) >= 0
    BY <1>1, SMT
  <2>7. (limit - v) * (limit - b) = limit * limit - limit * v - limit * b + v * b
    BY <1>1, SMT
  <2> QED BY <2>2, <2>3, <2>4, <2>7, <1>1, <1>2, SMT
<1> QED BY <1>1, <1>2, <1>4, <1>5, <1>6, SMT DEF q

\* The same for any value, with its sign.
LEMMA PullBounds ==
  ASSUME LimitAssumption, NEW v \in Entries, NEW b \in Entries
  PROVE  /\ Pull(v, b) \in Int
         /\ Unclamped(v, b) \in Entries
         /\ b >= 0 => Unclamped(v, b) >= v
         /\ b <= 0 => Unclamped(v, b) <= v
<1> DEFINE w == Magnitude(v)
           c == Magnitude(b)
           q == (w * c) \div limit
<1>1. w \in 0..limit /\ c \in 0..limit /\ limit \in 1..32000
  BY SMT DEF Entries, Magnitude, LimitAssumption
<1>2. q \in Nat /\ q <= w /\ q <= c /\ w + c - q <= limit
  <2>1. \A x \in 0..limit : \A y \in 0..limit :
          /\ (x * y) \div limit \in Nat /\ (x * y) \div limit <= x /\ (x * y) \div limit <= y
          /\ x + y - (x * y) \div limit <= limit
    BY PullIs
  <2> HIDE DEF w, c
  <2>2. w \in 0..limit /\ c \in 0..limit
    BY <1>1
  <2>3. /\ (w * c) \div limit \in Nat /\ (w * c) \div limit <= w /\ (w * c) \div limit <= c
        /\ w + c - (w * c) \div limit <= limit
    BY <2>1, <2>2
  <2> QED BY <2>3
<1>3. Pull(v, b) = IF v < 0 THEN - q ELSE q
  <2>1. CASE v < 0
    <3>1. v * c = - (w * c)
      BY <2>1, <1>1, SMT DEF Magnitude, Entries
    <3>2. w * c \in Nat
      BY <1>1, SMT
    <3> HIDE DEF w, c
    <3>3. CASE w * c = 0
      <4>1. v * c = 0
        BY <3>1, <3>3, SMT
      <4>2. 0 \div limit = 0
        BY <1>1, SMT
      <4> QED BY <4>1, <4>2, <2>1, <3>3, SMT DEF Pull, Trunc, c
    <3>4. CASE w * c # 0
      <4>1. v * c < 0 /\ - (v * c) = w * c
        BY <3>1, <3>2, <3>4, SMT
      <4> QED BY <4>1, <2>1 DEF Pull, Trunc, c
    <3> QED BY <3>3, <3>4
  <2>2. CASE ~ v < 0
    <3>1. v = w
      BY <2>2 DEF Magnitude
    <3>2. ~ v * c < 0
      BY <3>1, <1>1, SMT
    <3> QED BY <2>2, <3>1, <3>2 DEF Pull, Trunc
  <2> QED BY <2>1, <2>2
<1>4. v = (IF v < 0 THEN - w ELSE w) /\ b = (IF b < 0 THEN - c ELSE c)
  BY SMT DEF Magnitude, Entries
<1> HIDE DEF w, c, q
<1> QED BY <1>1, <1>2, <1>3, <1>4, SMT DEF Unclamped, Entries

\* As the comment on hist_learn says: the clamp to 16 bits never acts, the product fits 32 bits and the quotient with
\* the gravity multiplied in is the same; and a reward never lowers an entry, a penalty never raises it.
THEOREM LearningIsSafe ==
  ASSUME LimitAssumption, NEW v \in Entries, NEW bonus \in Int
  PROVE  /\ hist_learn(v, bonus) = Unclamped(v, Reward(bonus))
         /\ hist_learn(v, bonus) \in Entries
         /\ bonus >= 0 => hist_learn(v, bonus) >= v
         /\ bonus <= 0 => hist_learn(v, bonus) <= v
         /\ - int_max <= v * Magnitude(Reward(bonus)) /\ v * Magnitude(Reward(bonus)) <= int_max
         /\ LongPull(v, Reward(bonus)) = Pull(v, Reward(bonus))
<1> DEFINE b == Reward(bonus)
           c == Magnitude(b)
<1>1. /\ b \in Entries /\ limit \in 1..32000 /\ c \in 0..limit
      /\ bonus >= 0 => b >= 0
      /\ bonus <= 0 => b <= 0
  BY SMT DEF Entries, Reward, Clamped, Magnitude, LimitAssumption
<1>2. Unclamped(v, b) \in Entries /\ (b >= 0 => Unclamped(v, b) >= v) /\ (b <= 0 => Unclamped(v, b) <= v)
  <2> HIDE DEF b
  <2> QED BY <1>1, PullBounds
<1>3. hist_learn(v, bonus) = Unclamped(v, b)
  <2> HIDE DEF b
  <2>1. Clamped(Unclamped(v, b), - short_max, short_max) = Unclamped(v, b)
    BY <1>1, <1>2, SMT DEF Clamped, Entries, short_max
  <2> QED BY <2>1 DEF hist_learn, b
<1> HIDE DEF b, c
<1>4. - (limit * limit) <= v * c /\ v * c <= limit * limit /\ limit * limit <= int_max
  <2>1. v \in Int /\ - limit <= v /\ v <= limit /\ limit \in Int /\ c \in Int
    BY <1>1, SMT DEF Entries
  <2>2. (limit - v) * c >= 0 /\ (limit + v) * c >= 0 /\ (limit - c) * limit >= 0
    BY <2>1, <1>1, SMT
  <2>3. limit * limit <= 32000 * limit
    BY <1>1, SMT
  <2>4. - (limit * limit) <= v * c /\ v * c <= limit * limit
    BY <2>1, <2>2, SMT
  <2>5. \A p, n \in Int : n <= 32000 /\ p <= 32000 * n => p <= int_max
    BY SMT DEF int_max
  <2>6. limit * limit \in Int /\ limit \in Int /\ limit <= 32000
    BY <1>1, SMT
  <2>7. limit * limit <= int_max
    BY <2>3, <2>5, <2>6
  <2> QED BY <2>4, <2>7
<1>5. v * c \in Int
  BY <1>1, SMT DEF Entries
<1>6. LongPull(v, b) = Pull(v, b)
  <2>1. \A a \in Nat : (a * 1024) \div (limit * 1024) = a \div limit
    <3>1. TAKE a \in Nat
    <3>2. a \div limit \in Nat /\ limit * (a \div limit) <= a /\ a < limit * (a \div limit) + limit
      <4>1. limit \in Nat \ {0}
        BY <1>1, SMT
      <4> QED BY <4>1, Bounds
    <3> DEFINE k == a \div limit
    <3> HIDE DEF k
    <3>3. k \in Nat /\ limit * k <= a /\ a < limit * k + limit
      BY <3>2 DEF k
    <3>4. /\ a * 1024 \in Nat /\ limit * 1024 \in Nat \ {0} /\ k \in Nat
          /\ (limit * 1024) * k <= a * 1024 /\ a * 1024 < (limit * 1024) * k + limit * 1024
      BY <3>3, <1>1, SMT
    <3> QED BY <3>4, QuotientIs DEF k
  <2>2. CASE v * c < 0
    <3>1. v * c * 1024 < 0 /\ - (v * c * 1024) = (- (v * c)) * 1024 /\ - (v * c) \in Nat
      BY <2>2, <1>5, SMT
    <3>2. ((- (v * c)) * 1024) \div (limit * 1024) = (- (v * c)) \div limit
      BY <2>1, <3>1
    <3> QED BY <3>1, <3>2, <2>2 DEF LongPull, Pull, Trunc, c
  <2>3. CASE ~ v * c < 0
    <3>1. ~ v * c * 1024 < 0 /\ v * c \in Nat
      BY <2>3, <1>5, SMT
    <3>2. (v * c * 1024) \div (limit * 1024) = (v * c) \div limit
      BY <2>1, <3>1
    <3> QED BY <3>1, <3>2, <2>3 DEF LongPull, Pull, Trunc, c
  <2> QED BY <2>2, <2>3
<1>7. - int_max <= v * c /\ v * c <= int_max
  BY <1>4, <1>1, <1>5, SMT DEF int_max
<1> QED BY <1>1, <1>2, <1>3, <1>6, <1>7 DEF b, c

\* Fading brings an entry nearer to zero.
LEMMA DecayKeeps ==
  ASSUME LimitAssumption, NEW v \in Entries
  PROVE  Trunc(v * QuietHistDecay, 1024) \in Entries
  BY SMT DEF Trunc, QuietHistDecay, Entries, LimitAssumption

\* The types of the entry and of what the threads have read.
THEOREM TypeCorrect ==
  ASSUME LimitAssumption
  PROVE  Spec => []TypeOK
<1>1. Init => TypeOK
  BY SMT DEF Init, TypeOK, Entries, LimitAssumption
<1>2. TypeOK /\ [Next]_vars => TypeOK'
  <2> SUFFICES ASSUME TypeOK, [Next]_vars PROVE TypeOK'
    OBVIOUS
  <2>1. CASE Decay
    BY <2>1, DecayKeeps DEF Decay, TypeOK
  <2>2. ASSUME NEW t \in Thread, Read(t) PROVE TypeOK'
    BY <2>2 DEF Read, TypeOK
  <2>3. ASSUME NEW t \in Thread, NEW bonus \in Int, Write(t, bonus) PROVE TypeOK'
    <3>1. seen[t] \in Entries
      BY DEF TypeOK
    <3>2. hist_learn(seen[t], bonus) \in Entries
      BY <3>1, LearningIsSafe
    <3> QED BY <2>3, <3>2 DEF Write, TypeOK
  <2>4. CASE UNCHANGED vars
    BY <2>4 DEF vars, TypeOK
  <2> QED BY <2>1, <2>2, <2>3, <2>4 DEF Next
<1> QED BY <1>1, <1>2, PTL DEF Spec

\* No crossing of updates, whatever their rewards, brings an entry over its limit.
THEOREM EntriesStayInRange ==
  ASSUME LimitAssumption
  PROVE  Spec => []InRange
<1>1. TypeOK => InRange
  BY DEF TypeOK, InRange
<1> QED BY <1>1, TypeCorrect, PTL

(***************************************************************************)
(* The vote.                                                               *)
(***************************************************************************)
\* The end of a turn of a loop leaves i and the step in their ranges.
LEMMA CountedKeepsTypes ==
  ASSUME LineAssumption, VoteTypeOK, NEW next \in {"share", "support", "choose", "chosen"}, Counted(next)
  PROVE  i' \in Threads /\ step' \in {"floor", "share", "support", "choose", "chosen"}
  BY SMT DEF LineAssumption, VoteTypeOK, Counted, Threads

\* What the lines of the threads consist of.
LEMMA LineFacts ==
  ASSUME LineAssumption
  PROVE  /\ \A t \in Threads : root[t].score \in Int /\ root[t].depth \in Nat /\ root[t].pv_len \in Int
         /\ Scores \subseteq Int
         /\ \A t \in Threads : Absolute(root[t].score) \in Int
<1>1. \A t \in Threads : root[t].score \in Scores /\ root[t].depth \in Nat /\ root[t].pv_len \in Nat
  BY DEF LineAssumption, Line
<1>2. Scores \subseteq Int
  BY SMT DEF Scores, Infinity
<1>3. \A n \in Int : Absolute(n) \in Int
  BY SMT DEF Absolute
<1>4. \A t \in Threads : root[t].score \in Int
  BY <1>1, <1>2
<1>5. \A t \in Threads : Absolute(root[t].score) \in Int
  BY <1>3, <1>4
<1>6. Nat \subseteq Int
  BY SMT
<1>7. \A t \in Threads : root[t].pv_len \in Int
  BY <1>1, <1>6
<1> QED BY <1>1, <1>2, <1>4, <1>5, <1>7

\* A share is a number, and not a negative one when the floor is not above the score.
LEMMA ShareOfIsInt ==
  ASSUME LineAssumption, NEW t \in Threads, NEW lowest \in Scores
  PROVE  /\ ShareOf(t, lowest) \in Int
         /\ lowest <= root[t].score => ShareOf(t, lowest) >= 0
<1> DEFINE s == root[t].score
           d == root[t].depth
           n == (s - lowest + SmpVoteBase) * SmpVoteScore
<1>1. /\ lowest \in Int /\ SmpVoteBase \in Nat /\ SmpVoteScore \in Nat /\ SmpVoteDepth \in Nat
  BY SMT DEF LineAssumption, Scores, Infinity
<1>2. s \in Int /\ d \in Nat
  BY LineFacts
<1> HIDE DEF s, d
<1>3. n \in Int /\ SmpVoteDepth * d \in Nat
  BY <1>1, <1>2, SMT
<1>4. lowest <= s => n >= 0
  <2>1. SUFFICES ASSUME lowest <= s PROVE n >= 0
    OBVIOUS
  <2>2. s - lowest + SmpVoteBase \in Nat
    BY <2>1, <1>1, <1>2, SMT
  <2> QED BY <2>2, <1>1, SMT
<1> HIDE DEF n
<1>5. Trunc(n, 1024) \in Int /\ (n >= 0 => Trunc(n, 1024) >= 0)
  BY <1>3, SMT DEF Trunc
<1>6. ShareOf(t, lowest) = Trunc(n, 1024) + SmpVoteDepth * d
  BY DEF ShareOf, n, s, d
<1>7. lowest <= s <=> lowest <= root[t].score
  BY DEF s
<1> QED BY <1>3, <1>4, <1>5, <1>6, <1>7, SMT

\* The counters, the scores and the supports keep their types for any number of threads and any lines.
THEOREM VoteTypeCorrect ==
  ASSUME LineAssumption
  PROVE  Vote => []VoteTypeOK
<1>1. VoteInit => VoteTypeOK
  BY SMT DEF VoteInit, VoteTypeOK, LineAssumption, Threads, Scores, Infinity
<1>2. VoteTypeOK /\ [VoteNext]_vote_vars => VoteTypeOK'
  <2> SUFFICES ASSUME VoteTypeOK, [VoteNext]_vote_vars PROVE VoteTypeOK'
    OBVIOUS
  <2> USE DEF VoteTypeOK
  <2>1. CASE Floor
    <3>1. root[i].score \in Scores
      BY DEF LineAssumption, Line
    <3>2. i' \in Threads /\ step' \in {"floor", "share", "support", "choose", "chosen"}
      BY <2>1, CountedKeepsTypes DEF Floor
    <3> QED BY <2>1, <3>1, <3>2 DEF Floor
  <2>2. CASE Share
    <3>1. ShareOf(i, floor_score) \in Int
      BY ShareOfIsInt
    <3>2. i' \in Threads /\ step' \in {"floor", "share", "support", "choose", "chosen"}
      BY <2>2, CountedKeepsTypes DEF Share
    <3> QED BY <2>2, <3>1, <3>2 DEF Share
  <2>3. CASE Support
    <3>1. support' \in [Threads -> Int]
      BY <2>3, SMT DEF Support
    <3>2. i' \in Threads /\ j' \in Threads /\ step' \in {"floor", "share", "support", "choose", "chosen"}
      <4>1. CASE j + 1 < nt
        BY <2>3, <4>1, SMT DEF Support, Threads, LineAssumption
      <4>2. CASE ~ j + 1 < nt
        <5>1. Counted("choose") /\ j' = 0 /\ 0 \in Threads
          BY <2>3, <4>2, SMT DEF Support, Threads, LineAssumption
        <5> QED BY <5>1, CountedKeepsTypes
      <4> QED BY <4>1, <4>2
    <3> QED BY <2>3, <3>1, <3>2 DEF Support
  <2>4. CASE Choose
    <3>1. i' \in Threads /\ step' \in {"floor", "share", "support", "choose", "chosen"}
      BY <2>4, CountedKeepsTypes DEF Choose
    <3> QED BY <2>4, <3>1 DEF Choose
  <2>5. CASE UNCHANGED vote_vars
    BY <2>5 DEF vote_vars
  <2> QED BY <2>1, <2>2, <2>3, <2>4, <2>5 DEF VoteNext
<1> QED BY <1>1, <1>2, PTL DEF Vote

\* No share is negative, so no vote takes support from the move it is for.
THEOREM VotesAdd ==
  ASSUME LineAssumption
  PROVE  Vote => []SharesAdd
<1>1. VoteInit => SharesAdd
  BY SMT DEF VoteInit, SharesAdd, Done, Threads, LineAssumption
<1>2. VoteTypeOK /\ SharesAdd /\ [VoteNext]_vote_vars => SharesAdd'
  <2> SUFFICES ASSUME VoteTypeOK, SharesAdd, [VoteNext]_vote_vars PROVE SharesAdd'
    OBVIOUS
  <2> USE DEF SharesAdd, VoteTypeOK
  <2>0. (\A t \in Threads : root[t].score \in Int) /\ floor_score \in Int
    BY LineFacts
  <2>1. CASE Floor
    <3>1. floor_score' <= floor_score /\ floor_score' <= root[i].score /\ floor_score' \in Int
      BY <2>0, <2>1, SMT DEF Floor
    <3>2. \A t \in Threads : Done(t, "floor", {"share", "support", "choose", "chosen"})' =>
            t = i \/ Done(t, "floor", {"share", "support", "choose", "chosen"})
      BY <2>1, SMT DEF Floor, Counted, Done, Threads, LineAssumption
    <3>3. \A t \in Threads : Done(t, "floor", {"share", "support", "choose", "chosen"})' => floor_score' <= root[t].score
      BY <3>1, <3>2, <2>0, SMT
    <3> QED BY <2>1, <3>3 DEF Floor
  <2>2. CASE Share
    <3>1. floor_score <= root[i].score
      BY <2>2 DEF Share, Done
    <3>2. ShareOf(i, floor_score) >= 0
      BY <3>1, ShareOfIsInt
    <3>3. \A t \in Threads : share'[t] >= 0 /\ support'[t] >= 0
      BY <2>2, <3>2 DEF Share
    <3>4. floor_score' = floor_score /\ \A t \in Threads : floor_score <= root[t].score
      BY <2>2 DEF Share, Done
    <3> QED BY <3>3, <3>4
  <2>3. CASE Support
    <3>1. \A t \in Threads : share'[t] >= 0 /\ support'[t] >= 0
      BY <2>3, SMT DEF Support
    <3>2. floor_score' = floor_score /\ \A t \in Threads : floor_score <= root[t].score
      BY <2>3 DEF Support, Done
    <3> QED BY <3>1, <3>2
  <2>4. CASE Choose
    BY <2>4 DEF Choose, Done
  <2>5. CASE UNCHANGED vote_vars
    BY <2>5 DEF vote_vars, Done
  <2> QED BY <2>1, <2>2, <2>3, <2>4, <2>5 DEF VoteNext
<1> QED BY <1>1, <1>2, VoteTypeCorrect, PTL DEF Vote

\* The answer comes from a complete decided result if any thread has one, else from the most supported move.
THEOREM TheBestAnswers ==
  ASSUME LineAssumption
  PROVE  Vote => []BestIsChosen
<1>1. VoteInit => BestOfWeighed
  BY SMT DEF VoteInit, BestOfWeighed, Weighed, Done, Threads, LineAssumption
<1>2. VoteTypeOK /\ BestOfWeighed /\ [VoteNext]_vote_vars => BestOfWeighed'
  <2> SUFFICES ASSUME VoteTypeOK, BestOfWeighed, [VoteNext]_vote_vars PROVE BestOfWeighed'
    OBVIOUS
  <2> USE DEF BestOfWeighed, VoteTypeOK
  <2>1. CASE Floor
    BY <2>1, SMT DEF Floor, Counted, Weighed, Done, Threads, LineAssumption
  <2>2. CASE Share
    BY <2>2, SMT DEF Share, Counted, Weighed, Done, Threads, LineAssumption
  <2>3. CASE Support
    BY <2>3, SMT DEF Support, Counted, Weighed, Done, Threads, LineAssumption
  <2>4. CASE Choose
    <3> SUFFICES ASSUME NEW t \in Threads, Weighed(t)'
                 PROVE  (IF decided(root[t])
                         THEN decided(root[chosen']) /\ Absolute(root[t].score) <= Absolute(root[chosen'].score)
                         ELSE decided(root[chosen']) \/ val_lost(root[t].score) \/ support[t] < support[chosen']
                              \/ (support[t] = support[chosen'] /\ root[t].pv_len <= root[chosen'].pv_len))
      BY <2>4 DEF Choose
    <3>1. Weighed(t) \/ t = i
      BY <2>4, SMT DEF Choose, Counted, Weighed, Done, Threads, LineAssumption
    <3>2. \A u \in Threads : /\ Absolute(root[u].score) \in Int /\ root[u].pv_len \in Int /\ support[u] \in Int
      BY LineFacts
    <3>3. chosen' = IF prefer(i, chosen) THEN i ELSE chosen
      BY <2>4 DEF Choose
    <3>4. i \in Threads /\ chosen \in Threads
      OBVIOUS
    <3> QED BY <3>1, <3>2, <3>3, <3>4, SMT DEF prefer
  <2>5. CASE UNCHANGED vote_vars
    BY <2>5 DEF vote_vars, Weighed, Done
  <2> QED BY <2>1, <2>2, <2>3, <2>4, <2>5 DEF VoteNext
<1>3. VoteTypeOK /\ BestOfWeighed => BestIsChosen
  BY DEF BestOfWeighed, BestIsChosen, Weighed, Done
<1> QED BY <1>1, <1>2, <1>3, VoteTypeCorrect, PTL DEF Vote
===============================================================================
