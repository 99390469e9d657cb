------------------------------ MODULE NnFeatures ------------------------------
(***************************************************************************)
(* The input features of the network (first part of cn.cpp): for each      *)
(* perspective, which rows of the weights a board adds up.  A row is the   *)
(* network it belongs to, its block and its number in the block; the       *)
(* numbers it holds are left out, so two sums are the same only when they  *)
(* add the same rows.  Boards are the ones of SearchBoard; a man is a pair *)
(* of a piece and its square.                                              *)
(***************************************************************************)
EXTENDS SearchBoard
LOCAL INSTANCE FiniteSetsExt
LOCAL INSTANCE Functions

CONSTANTS
  Router(_, _, _),  \* the expert the network's routing table gives two signatures, the side's own first
  ThreatOrder,      \* groups of threat rows stored first (cn_thrgroup.inc): kind * 64 + square
  PawnPairOrder,    \* rows of pawn pairs stored first (cn_pporder.inc)
  GateNets,         \* the networks PkGate's mean belongs to
  features          \* the index tables, computed when the program starts

HKA_PHASE_ROWS == 32 * 704
ROWS_THR == 59808
ROWS_PP == 4560
ROWS_PAS == 96
NEXPERTS == 8

Gap(a, b) == IF a < b THEN b - a ELSE a - b

(***************************************************************************)
(* build_tables.  The trainer numbers squares from a1 and sees the board   *)
(* from the perspective's side, mirrored so that the king's half is fixed. *)
(***************************************************************************)
mirror_hka(ksq) == File(ksq) < 4
mirror_oth_late(ksq) == File(ksq) > 4
mirror_oth(ksq) == File(ksq) >= 4
orient(p, mirror, s) == 8 * (IF p = white THEN 7 - Row(s) ELSE Row(s)) + (IF mirror THEN 7 - File(s) ELSE File(s))

KingBase(p, ksq) ==
  LET ko == orient(p, mirror_hka(ksq), ksq) IN 704 * (31 - 4 * Row(ko) - (File(ko) - 4))
PieceBase(p, pc) == 64 * (IF Type(pc) = King THEN 10 ELSE 2 * Type(pc) + (IF pc \div 6 = p THEN 0 ELSE 1))

\* In the trainer's numbers White advances towards the higher rows.
t_pawn_attacks(s, c) ==
  {t \in Squares : /\ Row(s) \in 1..6 /\ Row(t) = (IF c = white THEN Row(s) + 1 ELSE Row(s) - 1)
                   /\ Gap(File(s), File(t)) = 1}
OnLine(t, rows, files) ==
  CASE t = Knight -> {rows, files} = {1, 2}
    [] t = Bishop -> rows = files
    [] t = Rook -> rows = 0 \/ files = 0
    [] OTHER -> rows = files \/ rows = 0 \/ files = 0
t_empty_attacks(t, s) == {u \in Squares \ {s} : OnLine(t, Gap(Row(s), Row(u)), Gap(File(s), File(u)))}

\* Attackers are numbered 5 * colour + type, kings left out.
Attackers == 0..9
ReachOf(x, s) == IF x % 5 = Pawn THEN t_pawn_attacks(s, x \div 5) ELSE t_empty_attacks(x % 5, s)
THREAT_SLOT ==
  <<<<-1, 0, -1, 1, -1, -1>>, <<0, 1, 2, 3, 4, -1>>, <<0, 1, 2, 3, -1, -1>>, <<0, 1, 2, 3, -1, -1>>, <<0, 1, 2, 3, 4, -1>>>>
NUM_VALID == <<4, 10, 8, 8, 10>>
Targets(x) == NUM_VALID[(x % 5) + 1]

Running(size, n) == LET sum[i \in 0..n] == IF i = 0 THEN 0 ELSE sum[i - 1] + size[i - 1] IN sum

\* Specification order: attacker, target, square.  Total is the number of rows of a target.
ThreatStarts(reach) ==
  LET off == [x \in Attackers |-> Running([s \in Squares |-> Cardinality(reach[x][s])], 64)]
      base == Running([x \in Attackers |-> Targets(x) * off[x][64]], 10)
  IN  [start |-> [x \in Attackers |-> [s \in Squares |-> base[x] + off[x][s]]],
       total |-> [x \in Attackers |-> off[x][64]], rows |-> base[10]]

build_tables ==
  LET reach == [x \in Attackers |-> [s \in Squares |-> ReachOf(x, s)]]
  IN  [reach |-> reach, thr |-> ThreatStarts(reach)]

ASSUME FeaturesAssumption == features = build_tables
ASSUME ThreatRowsAssumption == features.thr.rows = ROWS_THR

(***************************************************************************)
(* Threats.  threat_index is the specification's row of a threat; rows are *)
(* stored in groups (one per attacker, target and square of the attacker), *)
(* the ones most read first.                                               *)
(***************************************************************************)
Rank(x, f, t) == Cardinality({u \in features.reach[x][f] : u < t})
Seen(pc, p) == Xor({pc \div 6}, {p}) # {}        \* is the piece the other side's?
AttackerOf(p, apc) == 5 * (IF Seen(apc, p) THEN 1 ELSE 0) + Type(apc)
KindOf(p, apc, tpc) ==                           \* -1: no feature
  LET slot == IF Type(apc) = King THEN -1 ELSE THREAT_SLOT[Type(apc) + 1][Type(tpc) + 1]
  IN  IF slot < 0 THEN -1
      ELSE 10 * AttackerOf(p, apc) + (IF Seen(tpc, p) THEN Targets(AttackerOf(p, apc)) \div 2 ELSE 0) + slot

\* Of two like pieces that attack each other only one is counted; two pawns of a side never do.
SameKind(apc, tpc) == Type(apc) = Type(tpc) /\ (apc # tpc \/ Type(apc) # Pawn)

GroupStart(k, f) == features.thr.start[k \div 10][f] + (k % 10) * features.thr.total[k \div 10]
GroupLen(g) ==
  LET x == (g \div 64) \div 10 IN IF (g \div 64) % 10 < Targets(x) THEN Cardinality(features.reach[x][g % 64]) ELSE 0
LenOf(groups) == MapThenSumSet(GroupLen, groups)
Groups == 0..6399

\* Where build_thr_slots puts a group: after the listed ones before it, or after all of them and the unlisted before it.
StoredStart(k, f) ==
  LET g == 64 * k + f
      at == {i \in DOMAIN ThreatOrder : ThreatOrder[i] = g}
      listed == {ThreatOrder[i] : i \in DOMAIN ThreatOrder} \cap Groups
  IN  IF at # {} THEN LenOf({ThreatOrder[i] : i \in 1..(Min(at) - 1)} \cap Groups)
      ELSE LenOf(listed) + GroupStart(k, f) - LenOf({h \in listed : h < g})

\* What the update loops use: no row when the tuple has no feature.
threat_row(P, x) ==
  LET k == KindOf(P.p, x.pc, x.tpc)
      f == orient(P.p, P.mo, x.from)
      t == orient(P.p, P.mo, x.to)
  IN  IF k < 0 \/ (SameKind(x.pc, x.tpc) /\ f < t) THEN {}
      ELSE {<<P.net, "thr", StoredStart(k, f) + Rank(k \div 10, f, t)>>}

\* The reference: the row of the specification, and its place in the store.
threat_index(P, x) ==
  LET ac == IF P.p = white THEN x.pc \div 6 ELSE 1 - x.pc \div 6
      dc == IF P.p = white THEN x.tpc \div 6 ELSE 1 - x.tpc \div 6
      a == 5 * ac + Type(x.pc)
      slot == THREAT_SLOT[Type(x.pc) + 1][Type(x.tpc) + 1]
      f == orient(P.p, P.mo, x.from)
      t == orient(P.p, P.mo, x.to)
  IN  IF slot < 0 \/ (Type(x.pc) = Type(x.tpc) /\ (ac # dc \/ Type(x.pc) # Pawn) /\ f < t) THEN -1
      ELSE features.thr.start[a][f] + (dc * (Targets(a) \div 2) + slot) * features.thr.total[a] + Rank(a, f, t)

thr_slot(row) ==
  LET x == CHOOSE a \in Attackers : row \in features.thr.start[a][0]..(features.thr.start[a][0] + Targets(a) * features.thr.total[a] - 1)
      slot == (row - features.thr.start[x][0]) \div features.thr.total[x]
      f == Max({s \in Squares : GroupStart(10 * x + slot, s) <= row /\ features.reach[x][s] # {}})
  IN  StoredStart(10 * x + slot, f) + row - GroupStart(10 * x + slot, f)

(***************************************************************************)
(* Pawns: pairs on the same or neighbouring files, and passed pawns.       *)
(***************************************************************************)
pair_spec(a, b) == IF a > b THEN (a * (a - 1)) \div 2 + b ELSE (b * (b - 1)) \div 2 + a
StoredPair(row) ==
  LET at == {i \in DOMAIN PawnPairOrder : PawnPairOrder[i] = row}
      listed == {PawnPairOrder[i] : i \in DOMAIN PawnPairOrder} \cap 0..(ROWS_PP - 1)
  IN  IF at # {} THEN Cardinality({PawnPairOrder[i] : i \in 1..(Min(at) - 1)} \cap listed)
      ELSE Cardinality(listed) + row - Cardinality({r \in listed : r < row})

ppMask(s) == {t \in Squares \ {s} : Row(t) \in 1..6 /\ Gap(File(s), File(t)) <= 1}

\* White advances towards row 0.
Behind(c, s, t) == IF c = white THEN Row(t) > Row(s) ELSE Row(t) < Row(s)
PassersOf(c, own, opp) ==
  {s \in own : /\ \A t \in opp : ~ (Behind(c, t, s) /\ Gap(File(s), File(t)) <= 1)
               /\ \A t \in own : ~ (Behind(c, t, s) /\ File(s) = File(t))}
PawnsOf(men, c) == {m[2] : m \in {k \in men : k[1] = Piece(c, Pawn)}}
passers(men) ==
  UNION {{<<Piece(c, Pawn), s>> : s \in PassersOf(c, PawnsOf(men, c), PawnsOf(men, 1 - c))} : c \in {white, black}}
Pawns(men) == {m \in men : Type(m[1]) = Pawn}

(***************************************************************************)
(* A perspective: what a row needs beside the man.                         *)
(***************************************************************************)
Men(b) == UNION {{<<pc, s>> : s \in b.bb[pc]} : pc \in Pieces}
KingOf(men, p) == (CHOOSE m \in men : m[1] = Piece(p, King))[2]

Capped(n, most) == IF n < most THEN n ELSE most
router_sig(n, b, r, q) == 18 * Capped(n, 2) + 6 * Capped(b, 2) + 2 * Capped(r, 2) + Capped(q, 1)
side_sig(men, c) ==
  LET Count(t) == Cardinality({m \in men : m[1] = Piece(c, t)})
  IN  router_sig(Count(Knight), Count(Bishop), Count(Rook), Count(Queen))
expert_of(net, men, p) == Router(net, side_sig(men, p), side_sig(men, 1 - p))
Experts(net, men) == [p \in {white, black} |-> expert_of(net, men, p)]

PerspOf(net, p, ksq, phase) ==
  [net |-> net, p |-> p, ksq |-> ksq, phase |-> phase, mh |-> mirror_hka(ksq), mo |-> mirror_oth(ksq)]
Persp(net, p, men, phase) == PerspOf(net, p, KingOf(men, p), phase)

hka(P, m) ==
  <<P.net, "hka", P.phase * HKA_PHASE_ROWS + KingBase(P.p, P.ksq) + PieceBase(P.p, m[1]) + orient(P.p, P.mh, m[2])>>
HkaRows(P, men) == {hka(P, m) : m \in men}
pid(P, m) ==
  LET o == orient(P.p, P.mo, m[2]) IN (IF Seen(m[1], P.p) THEN 48 ELSE 0) + o - 8
PasRows(P, men) == {<<P.net, "pas", pid(P, m)>> : m \in men}
PairRows(P, m, others) ==
  {<<P.net, "pp", StoredPair(pair_spec(pid(P, m), pid(P, o)))>> : o \in {k \in others : k[2] \in ppMask(m[2])}}
ThreatRows(P, tuples) == UNION {threat_row(P, x) : x \in tuples}

(***************************************************************************)
(* active_rows: every row of a board, for an evaluation from scratch.      *)
(***************************************************************************)
PawnPairRows(P, pawns) == UNION {PairRows(P, m, {k \in pawns : k[2] < m[2]}) : m \in pawns}
active_pawns(P, men) == PawnPairRows(P, Pawns(men)) \cup PasRows(P, passers(men))

TargetsOf(b, t) ==
  LET kings == b.bb[Piece(white, King)] \cup b.bb[Piece(black, King)]
      queens == b.bb[Piece(white, Queen)] \cup b.bb[Piece(black, Queen)]
  IN  CASE t = Pawn -> UNION {b.bb[Piece(c, k)] : c \in {white, black}, k \in {Knight, Rook}}
        [] t \in {Bishop, Rook} -> All(b) \ (kings \cup queens)
        [] OTHER -> All(b) \ kings
AttacksFrom(b, pc, s) == IF Type(pc) = Pawn THEN pawn_attacks[pc \div 6][s] ELSE Attacks(Type(pc), s, All(b))
threat(pc, tpc, from, to) == [pc |-> pc, tpc |-> tpc, from |-> from, to |-> to]
ThreatsFrom(b, m) ==
  {threat(m[1], b.piece_on[t], m[2], t) : t \in AttacksFrom(b, m[1], m[2]) \cap TargetsOf(b, Type(m[1]))}
active_threats(b) == UNION {ThreatsFrom(b, m) : m \in {k \in Men(b) : Type(k[1]) # King}}

active_rows(P, b) == HkaRows(P, Men(b)) \cup ThreatRows(P, active_threats(b)) \cup active_pawns(P, Men(b))

(***************************************************************************)
(* The rest of an evaluation's inputs: the output bucket and the pawn-king *)
(* subnetwork, seen from the side to move.                                 *)
(***************************************************************************)
bucket_of(b) == (Cardinality(All(b)) - 1) \div 4

ForMover(b, s) == orient(b.side, FALSE, s)
pk_inputs(b) ==
  LET us == b.side
      Of(c, t) == b.bb[Piece(c, t)]
  IN  {ForMover(b, s) : s \in Of(us, Pawn)} \cup {64 + ForMover(b, s) : s \in Of(1 - us, Pawn)}
      \cup {128 + ForMover(b, s) : s \in Of(us, King)} \cup {192 + ForMover(b, s) : s \in Of(1 - us, King)}

PK_GATE_MEAN == [net |-> 0, inputs |-> {}]
pawn_king_compute(net, b) == [net |-> net, inputs |-> pk_inputs(b)]
pk_gate_skip(net, b) ==
  /\ net \in GateNets
  /\ \/ \E c \in {white, black} : b.bb[Piece(c, Rook)] # {} \/ b.bb[Piece(c, Queen)] # {}
     \/ Cardinality(UNION {b.bb[Piece(c, t)] : c \in {white, black}, t \in {Knight, Bishop}}) > 1
=============================================================================
