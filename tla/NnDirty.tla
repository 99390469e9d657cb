-------------------------------- MODULE NnDirty --------------------------------
(***************************************************************************)
(* What a move changes for the network (06_nndirty.inc, nn_dirty.h): the   *)
(* state the make leaves on the stack of the network's handle, and the     *)
(* pawns and threats added to it when an evaluation is reached.            *)
(*                                                                         *)
(* The local board of the code (bitboards by type and colour, mailbox) is  *)
(* a set of men here; the mailbox is `was`, the men before the move, also  *)
(* in the middle of it.  The squares and pieces of a dirty entry that may  *)
(* be absent are sets of at most one.                                      *)
(***************************************************************************)
EXTENDS NnFeatures
LOCAL INSTANCE SequencesExt

CONSTANT rays       \* NN_RAY, a table computed when the program starts

Squares_(men) == {m[2] : m \in men}
OfType(men, types) == {m[2] : m \in {k \in men : Type(k[1]) \in types}}
look(was, s) == (CHOOSE m \in was : m[2] = s)[1]
Only(S) == CHOOSE x \in S : TRUE

\* From a through b to the edge, nothing when they are not on a line.
RayThrough(a, b) ==
  CASE b \in empty_rook_att[a] -> empty_rook_att[a] \cap (get_rook_attacks(b, {a}) \cup {b})
    [] b \in empty_bishop_att[a] -> empty_bishop_att[a] \cap (get_bishop_attacks(b, {a}) \cup {b})
    [] OTHER -> {}
nn_dirty_init == [a \in Squares |-> [b \in Squares |-> RayThrough(a, b)]]
ASSUME RaysAssumption == rays = nn_dirty_init
NN_RAY(a, b) == rays[a][b]

(***************************************************************************)
(* nn_piece_threats: the threats that change when a piece arrives on a     *)
(* square (sign 1) or leaves it (-1), on the men of that moment.  First,   *)
(* unless the square stays occupied, the lines through it, that close when *)
(* a piece arrives; then the threats of the piece and those against it.    *)
(* `pair` is what a bishop and a rook see from the square, whether or not  *)
(* it is occupied itself.                                                  *)
(***************************************************************************)
Moment(men, pc, sign, s, whole_move, skip_seers) ==
  [men |-> men, pc |-> pc, sign |-> sign, s |-> s, lines |-> TRUE, whole_move |-> whole_move,
   skip_seers |-> skip_seers, skip_pairs |-> {}]
Swapping(men, pc, sign, s, skip_pairs) ==
  [men |-> men, pc |-> pc, sign |-> sign, s |-> s, lines |-> FALSE, whole_move |-> Squares,
   skip_seers |-> {}, skip_pairs |-> skip_pairs]

nn_can_slider_threat(pc, slider) == Type(pc) = Queen => Type(slider) = Queen

Seers(men, pair) == (pair[1] \cap OfType(men, {Bishop, Queen})) \cup (pair[2] \cap OfType(men, {Rook, Queen}))
LineThreat(was, from, behind) ==
  IF behind # {} /\ nn_can_slider_threat(look(was, Lsb(behind)), look(was, from))
  THEN {threat(look(was, from), look(was, Lsb(behind)), from, Lsb(behind))} ELSE {}
LineFrom(was, seen, from, ray, whole_move) == IF whole_move \subseteq ray THEN {} ELSE LineThreat(was, from, ray \cap seen)
Lines(was, t, pair) ==
  UNION {LineFrom(was, (pair[1] \cup pair[2]) \cap OfType(t.men, Pawn..Queen), from, NN_RAY(from, t.s), t.whole_move) :
           from \in Seers(t.men, pair) \ t.skip_seers}

nn_piece_attacks(pc, s, pair) ==
  CASE Type(pc) = Pawn -> pawn_attacks[pc \div 6][s]
    [] Type(pc) = Knight -> knight_attacks[s]
    [] OTHER -> SliderAttacks(Type(pc), pair)
Outgoing(t, pair) ==
  nn_piece_attacks(t.pc, t.s, pair) \cap
    OfType(t.men, CASE Type(t.pc) = Pawn -> {Knight, Rook}
                    [] Type(t.pc) \in {Bishop, Rook} -> {Pawn, Knight, Bishop, Rook}
                    [] OTHER -> {Pawn, Knight, Bishop, Rook, Queen})
Incoming(t, pair) ==
  (knight_attacks[t.s] \cap OfType(t.men, {Knight}))
  \cup (IF Type(t.pc) = Queen THEN Seers(t.men, pair) \cap OfType(t.men, {Queen}) ELSE Seers(t.men, pair))
  \cup (IF Type(t.pc) \in {Knight, Rook}
        THEN UNION {pawn_attacks[c][t.s] \cap PawnsOf(t.men, 1 - c) : c \in {white, black}} ELSE {})
PiecePairs(was, t, pair) ==
  IF Type(t.pc) = King THEN {}
  ELSE {threat(t.pc, look(was, u), t.s, u) : u \in Outgoing(t, pair) \ t.skip_pairs}
       \cup {threat(look(was, a), t.pc, a, t.s) : a \in Incoming(t, pair) \ t.skip_pairs}

ThreatsOf(was, t, pair) ==
  <<<<-t.sign, IF t.lines THEN Lines(was, t, pair) ELSE {}>>, <<t.sign, PiecePairs(was, t, pair)>>>>
nn_piece_threats(was, t) == ThreatsOf(was, t, slider_pair(t.s, Squares_(t.men)))

(***************************************************************************)
(* The moments of a move: a piece removed, put, moved or replaced, each on *)
(* the men of before or after that step.                                   *)
(***************************************************************************)
nn_step_remove(men, pc, s, skip_seers) == <<Moment(men, pc, -1, s, Squares, skip_seers)>>
nn_step_put(men, pc, s) == <<Moment(men \cup {<<pc, s>>}, pc, 1, s, Squares, {})>>
nn_step_move(men, pc, from, to) ==
  <<Moment(men, pc, -1, from, {from, to}, {}),
    Moment((men \ {<<pc, from>>}) \cup {<<pc, to>>}, pc, 1, to, {from, to}, {})>>
nn_step_swap(men, old, new, s, skip_old) ==
  <<Swapping(men \ {<<old, s>>}, old, -1, s, skip_old), Swapping((men \ {<<old, s>>}) \cup {<<new, s>>}, new, 1, s, {})>>

CastlingSteps(was, pc, from, to, rook, rf, rt) ==
  LET lifted == was \ {<<pc, from>>, <<rook, rf>>}
  IN  IF Cardinality({from, to, rf, rt}) = 4
      THEN nn_step_move(was, pc, from, to) \o nn_step_move((was \ {<<pc, from>>}) \cup {<<pc, to>>}, rook, rf, rt)
      ELSE nn_step_remove(was, pc, from, {}) \o nn_step_remove(was \ {<<pc, from>>}, rook, rf, {})
           \o nn_step_put(lifted, pc, to) \o nn_step_put(lifted \cup {<<pc, to>>}, rook, rt)

\* Along a line, what the mover uncovers on the victim is not worth adding: the victim leaves at once.
CaptureSkips(from, to) == NN_RAY(to, from)
CaptureSteps(was, pc, from, gone, arriving, to, ray) ==
  nn_step_remove(was, pc, from, ray \cup {to}) \o nn_step_swap(was \ {<<pc, from>>}, gone, arriving, to, ray)

Moments(was, dp) ==
  LET arrived == IF dp.add # {} THEN Only(dp.add) ELSE <<dp.pc, Only(dp.to)>>
      gone == Only(dp.remove)
  IN  CASE dp.to # {} /\ dp.add # {} -> CastlingSteps(was, dp.pc, dp.from, Only(dp.to), gone[1], gone[2], arrived[2])
        [] dp.remove # {} /\ gone[2] # arrived[2] ->
             nn_step_remove(was, gone[1], gone[2], {}) \o nn_step_move(was \ {gone}, dp.pc, dp.from, arrived[2])
        [] dp.remove # {} /\ gone[2] = arrived[2] ->
             CaptureSteps(was, dp.pc, dp.from, gone[1], arrived[1], arrived[2], CaptureSkips(dp.from, arrived[2]))
        [] dp.remove = {} /\ dp.to = {} ->
             nn_step_remove(was, dp.pc, dp.from, {}) \o nn_step_put(was \ {<<dp.pc, dp.from>>}, arrived[1], arrived[2])
        [] OTHER -> nn_step_move(was, dp.pc, dp.from, arrived[2])

AllThreats(was, moments) == FlattenSeq([k \in DOMAIN moments |-> nn_piece_threats(was, moments[k])])
nn_threat_steps(was, dp) == AllThreats(was, Moments(was, dp))

(***************************************************************************)
(* nn_fill_pawns: the pawns before the move, those it removes, in order,   *)
(* and the one it adds.                                                    *)
(***************************************************************************)
nn_fill_pawns(dp, was) ==
  LET mover == Type(dp.pc) = Pawn
      victim == dp.remove # {} /\ Type(Only(dp.remove)[1]) = Pawn
  IN  [any |-> mover \/ victim, before |-> Pawns(was),
       removed |-> (IF mover THEN <<<<dp.pc, dp.from>>>> ELSE <<>>) \o (IF victim THEN <<Only(dp.remove)>> ELSE <<>>),
       added |-> IF mover THEN {<<dp.pc, t>> : t \in dp.to} ELSE {}]

(***************************************************************************)
(* nn_make_dirty: the state of a move, on the board before it.  A state    *)
(* has neither pawns nor threats until nn_dirty_catch_up.  Sums not        *)
(* computed are never read: they are kept empty.                           *)
(***************************************************************************)
Pending == [any |-> FALSE, before |-> {}, removed |-> <<>>, added |-> {}]
NewState(dp) ==
  [dp |-> dp, computed |-> {}, acc |-> [p \in {white, black} |-> {}], pawns |-> Pending, threats |-> <<>>,
   passKnown |-> FALSE, pass |-> {}]

DirtyPiece(m, undo, phase, changed) ==
  LET r == CastleRook(m)
  IN  [pc |-> m.piece, from |-> m.from, to |-> IF m.promo # 0 THEN {} ELSE {m.to},
       remove |-> IF m.castling THEN {<<r.piece, r.from>>}
                  ELSE IF undo.captured_piece = None THEN {} ELSE {<<undo.captured_piece, undo.captured_square>>},
       add |-> IF m.castling THEN {<<r.piece, r.to>>} ELSE IF m.promo # 0 THEN {<<m.promo, m.to>>} ELSE {},
       phase |-> phase, changed |-> changed]

\* The experts before and after a move that may change them.
Phases(dp, e0, e1) == [dp EXCEPT !.phase = e1, !.changed = {p \in {white, black} : e0[p] # e1[p]}]
Counted(dp, men) == IF dp.to # {} /\ dp.add # {} THEN men ELSE (men \ dp.remove) \cup dp.add

c2_same(st, dp) == Len(st) >= 2 /\ ~ (dp.to = {}) /\ (dp.remove = {} \/ dp.add # {} \/ Type(Only(dp.remove)[1]) = Pawn)
WithPhase(st, dp, net, men) ==
  IF c2_same(st, dp) THEN [dp EXCEPT !.phase = st[Len(st)].dp.phase]
  ELSE Phases(dp, IF Len(st) >= 2 THEN st[Len(st)].dp.phase ELSE Experts(net, men), Experts(net, Counted(dp, men)))

nn_make_dirty(h, td, m, net) ==
  [h EXCEPT !.st = Append(@, NewState(WithPhase(@, DirtyPiece(m, UndoOf(td, m), <<>>, {}), net, Men(td))))]

UnmadeAsReady(h) == [h EXCEPT !.st = SubSeq(@, 1, Len(@) - 1)]
nn_unmake_dirty(h) ==
  [h EXCEPT !.st = SubSeq(@, 1, Len(@) - 1), !.ready = IF @ < Len(h.st) - 1 THEN @ ELSE Len(h.st) - 1]

(***************************************************************************)
(* nn_dirty_catch_up: the boards of the states not ready, found by undoing *)
(* their moves on the thread's board, and then each state's pawns, threats *)
(* and passed pawns.                                                       *)
(***************************************************************************)
nn_dp_toggle(men, dp) ==
  Xor(Xor(Xor(Xor(men, {<<dp.pc, dp.from>>}), {<<dp.pc, t>> : t \in dp.to}), dp.remove), dp.add)

\* The men after state i, for i from ready to the top.
BoardsOf(st, ready, men) ==
  LET board[i \in ready..Len(st)] == IF i = Len(st) THEN men ELSE nn_dp_toggle(board[i + 1], st[i + 1].dp)
  IN  board

Filled(s, was) == [s EXCEPT !.pawns = nn_fill_pawns(s.dp, was), !.threats = nn_threat_steps(was, s.dp)]
PassOf(s, men, last) == [s EXCEPT !.passKnown = TRUE, !.pass = IF s.pawns.any THEN passers(men) ELSE last.pass]

\* One state after the other, each on the passed pawns of the one before.
CatchUp(st, ready, board) ==
  LET root == IF st[ready].passKnown THEN st[ready] ELSE [st[ready] EXCEPT !.passKnown = TRUE, !.pass = passers(board[ready])]
      up[i \in ready..Len(st)] == IF i = ready THEN root ELSE PassOf(Filled(st[i], board[i - 1]), board[i], up[i - 1])
  IN  [i \in DOMAIN st |-> IF i < ready THEN st[i] ELSE up[i]]

nn_dirty_catch_up(h, td) ==
  IF h.ready >= Len(h.st) THEN h
  ELSE [h EXCEPT !.st = CatchUp(h.st, h.ready, BoardsOf(h.st, h.ready, Men(td))), !.ready = Len(h.st)]
=============================================================================
