---------------------------------- MODULE Network ----------------------------------
(***************************************************************************)
(* The evaluation of a thread's board by the network, brought up to date   *)
(* from the moves made (cn.cpp, consilium_bridge.cpp, 09_history.inc): the *)
(* stack of states, the sums ("accumulators") of the states evaluated, and *)
(* the three caches that outlive a search.  The tree walked is the one of  *)
(* nnperft (16_tdperft.inc) and of the search: moves, null moves and       *)
(* unmakes in any order, evaluations wherever they are asked for.          *)
(*                                                                         *)
(* A sum is a set of pairs <<row, times>>, with the rows it adds a number  *)
(* of times that is not zero.  The arithmetic of the layers above the sums *)
(* is left out: an evaluation is known by its inputs.                      *)
(***************************************************************************)
EXTENDS NnDirty

CONSTANTS
  Openings,             \* records [fen, c960, net, texts, depth, evals, roots, fused]: the network first loaded; the texts
                        \* moves are limited to; bounds on plies, on evaluations of a search and on searches; whether
                        \* the build has the fused king step
  Nets,                 \* the networks that may be loaded (their contentHash)
  KINGSTEP_MIN_PIECES,
  PawnSlot(_),          \* where the pawn cache and
  PkSlot(_)             \* the pawn-king cache keep a key

ASSUME NetsAssumption == Nets \subseteq Nat \ {0}

VARIABLES
  opening,
  g,                    \* the board of the game, the root of the search
  net,                  \* the network loaded
  td,                   \* the thread's board
  h,                    \* its handle
  frames,               \* the moves, null or not, made from the root
  value,                \* the last evaluation, of td
  evals, roots,         \* evaluations of this search, searches so far: for the bounds
  boards                \* history: the board of every state of the stack

vars == <<opening, g, net, g_chess960, setup, td, h, frames, value, evals, roots, boards>>

(***************************************************************************)
(* Sums.  A list of rows is a sequence of <<sign, rows>>.                  *)
(***************************************************************************)
At(acc, r) == LET times == {x[2] : x \in {y \in acc : y[1] = r}} IN IF times = {} THEN 0 ELSE Only(times)
Pair(r, n) == IF n = 0 THEN {} ELSE {<<r, n>>}
Touched(L) == UNION {L[i][2] : i \in DOMAIN L}
Change(L, r) ==
  Cardinality({i \in DOMAIN L : L[i][1] = 1 /\ r \in L[i][2]}) - Cardinality({i \in DOMAIN L : L[i][1] = -1 /\ r \in L[i][2]})

Changed(acc, L, touched) ==
  {x \in acc : x[1] \notin touched} \cup UNION {Pair(r, At(acc, r) + Change(L, r)) : r \in touched}
apply(L, acc) == Changed(acc, L, Touched(L))

RowsIn(accs) == {x[1] : x \in UNION accs}
SumOf(a, b) == UNION {Pair(r, At(a, r) + At(b, r)) : r \in RowsIn({a, b})}
Moved(s, e, n) == UNION {Pair(r, At(s, r) - At(e, r) + At(n, r)) : r \in RowsIn({s, e, n})}

ftBias(n) == {<<<<n, "bias", 0>>, 1>>}
refresh_one(n, b, P) == apply(<<<<1, active_rows(P, b)>>>>, ftBias(n))

(***************************************************************************)
(* The handle.  An entry of a cache is absent until it is written.         *)
(***************************************************************************)
RootState == NewState([pc |-> None])
reset(x) == [x EXCEPT !.st = <<RootState>>, !.ready = 1]
EmptyHandle == [st |-> <<RootState>>, ready |-> 1, kcache |-> {}, cacheNet |-> 0, pawnc |-> {}, pawnNet |-> 0, pkc |-> {}, pkNet |-> 0]
Top(x) == Len(x.st)

kcache_init(x, n) == IF x.cacheNet = n THEN x ELSE [x EXCEPT !.kcache = {}, !.cacheNet = n]
pawn_init(x, n) == IF x.pawnNet = n THEN x ELSE [x EXCEPT !.pawnc = {}, !.pawnNet = n]
pk_init(x, n) == IF x.pkNet = n THEN x ELSE [x EXCEPT !.pkc = {}, !.pkNet = n]

KingKey(P) == <<P.p, P.ksq, P.phase>>
KingEntry(x, P) ==
  LET found == {e \in x.kcache : e.key = KingKey(P)}
  IN  IF found = {} THEN [key |-> KingKey(P), men |-> {}, acc |-> ftBias(P.net)] ELSE Only(found)

\* The rows of the men that differ from the last board of this king's square.
kcache_rows(e, P, men) == <<<<-1, HkaRows(P, e.men \ men)>>, <<1, HkaRows(P, men \ e.men)>>>>
Brought(x, e, P, men) ==
  [x EXCEPT !.kcache = (@ \ {e}) \cup {[e EXCEPT !.men = men, !.acc = apply(kcache_rows(e, P, men), @)]}]
BroughtTo(x, P, men) == Brought(x, KingEntry(x, P), P, men)

\* The pawn rows of a board, from the cache or computed and stored in place of another structure.
PawnKey(P, men) == <<Pawns(men), P.p, P.mo>>
PawnVector(P, men) == apply(<<<<1, active_pawns(P, men)>>>>, {})
PawnsKept(x, slot, key, P, men) ==
  IF \E e \in x.pawnc : e.key = key THEN x
  ELSE [x EXCEPT !.pawnc = {e \in @ : PawnSlot(e.key) # slot} \cup {[key |-> key, acc |-> PawnVector(P, men)]}]
pawn_vec(x, P, men) == PawnsKept(pawn_init(x, P.net), PawnSlot(PawnKey(P, men)), PawnKey(P, men), P, men)
StoredPawns(x, key) == Only({e \in x.pawnc : e.key = key}).acc

(***************************************************************************)
(* The rows one move changes, forward (dir = 1) or back.                   *)
(***************************************************************************)
move_rows_h(dp, P, dir) ==
  <<<<-dir, {hka(P, <<dp.pc, dp.from>>)}>>, <<dir, HkaRows(P, {<<dp.pc, t>> : t \in dp.to})>>,
    <<-dir, HkaRows(P, dp.remove)>>, <<dir, HkaRows(P, dp.add)>>>>
move_threats(threats, P, dir) == [k \in DOMAIN threats |-> <<dir * threats[k][1], ThreatRows(P, threats[k][2])>>]

StillThere(pw, k) == pw.before \ {pw.removed[j] : j \in 1..k}
RemovedPairs(pw, P, dir) == [k \in DOMAIN pw.removed |-> <<-dir, PairRows(P, pw.removed[k], StillThere(pw, k))>>]
AddedPairs(pw, P, dir) == <<<<dir, UNION {PairRows(P, m, StillThere(pw, Len(pw.removed))) : m \in pw.added}>>>>
PassedRows(last, now, P, dir) == <<<<-dir, PasRows(P, last \ now)>>, <<dir, PasRows(P, now \ last)>>>>
move_pawns(st, i, P, dir) ==
  IF ~ st[i].pawns.any THEN <<>>
  ELSE RemovedPairs(st[i].pawns, P, dir) \o AddedPairs(st[i].pawns, P, dir) \o PassedRows(st[i - 1].pass, st[i].pass, P, dir)

move_rows_o(st, i, P, dir) == move_threats(st[i].threats, P, dir) \o move_pawns(st, i, P, dir)
move_rows_all(st, i, P, dir) == move_rows_h(st[i].dp, P, dir) \o move_rows_o(st, i, P, dir)

(***************************************************************************)
(* evaluate: where each perspective starts from, and one of three ways to  *)
(* the top of the stack.  The case of one move from the parent for both    *)
(* perspectives, which the code writes apart, is the chain of one.         *)
(***************************************************************************)
Computed(x, i, p, acc) == [x EXCEPT !.st[i].computed = @ \cup {p}, !.st[i].acc[p] = acc]

barrier(dp, p) == dp.pc = Piece(p, King) \/ p \in dp.changed
Nearest(st, p) ==
  LET stops == {i \in DOMAIN st : i = 1 \/ p \in st[i].computed \/ barrier(st[i].dp, p)}
  IN  CHOOSE i \in stops : \A j \in stops : j <= i

state_phase(st, i, n, men, p) == IF i > 1 THEN st[i].dp.phase[p] ELSE expert_of(n, men, p)
PerspAt(x, i, n, men, p) == PerspOf(n, p, KingOf(men, p), state_phase(x.st, i, n, men, p))

\* A king's step in its half, or another expert, from a computed parent.
StepsAside(dp, p) == dp.pc = Piece(p, King) /\ dp.to # {} /\ mirror_oth(dp.from) # mirror_oth(Only(dp.to))
KingStepPays(x, p, men) ==
  /\ Top(x) > 1
  /\ barrier(x.st[Top(x)].dp, p)
  /\ p \in x.st[Top(x) - 1].computed
  /\ ~ StepsAside(x.st[Top(x)].dp, p)
  /\ Cardinality(men) >= KINGSTEP_MIN_PIECES

\* The parent's entry leaves the sum as it is before (fused builds) or after the child's entry is brought to its board.
LastStep(x, P, parent, ePar, eNew) ==
  apply(move_rows_o(x.st, Top(x), P, 1), Moved(parent, ePar.acc, eNew.acc))
apply_kingstep(x1, x2, P, Ppar, parent, fused) ==
  Computed(x2, Top(x2), P.p, LastStep(x2, P, parent, KingEntry(IF fused THEN x1 ELSE x2, Ppar), KingEntry(x2, P)))
ChildBrought(x1, men, P, Ppar, parent, fused) == apply_kingstep(x1, BroughtTo(x1, P, men), P, Ppar, parent, fused)
KingStep(x, n, menPar, men, P, Ppar, fused) ==
  ChildBrought(BroughtTo(kcache_init(x, n), Ppar, menPar), men, P, Ppar, x.st[Top(x) - 1].acc[P.p], fused)
KingStepFrom(x, n, menPar, men, P, fused) ==
  KingStep(x, n, menPar, men, P, PerspAt(x, Top(x) - 1, n, menPar, P.p), fused)

\* Every state after `from`, one move at a time, and every state before the top down to `from`, taking moves back.
Forward(x, from, P) ==
  LET up[i \in from..Top(x)] == IF i = from THEN x.st[i].acc[P.p] ELSE apply(move_rows_all(x.st, i, P, 1), up[i - 1])
  IN  [x EXCEPT !.st = [i \in DOMAIN @ |-> IF i <= from THEN @[i]
                                           ELSE [@[i] EXCEPT !.computed = @ \cup {P.p}, !.acc[P.p] = up[i]]]]
Backward(x, from, P, top) ==
  LET down[i \in from..Top(x)] == IF i = Top(x) THEN top ELSE apply(move_rows_all(x.st, i + 1, P, -1), down[i + 1])
  IN  [x EXCEPT !.st = [i \in DOMAIN @ |-> IF i < from THEN @[i]
                                           ELSE [@[i] EXCEPT !.computed = @ \cup {P.p}, !.acc[P.p] = down[i]]]]

\* The entry, and on top of it the threats and pawn rows of the board.
apply_refresh(x, b, P) ==
  apply(<<<<1, ThreatRows(P, active_threats(b))>>>>, SumOf(KingEntry(x, P).acc, StoredPawns(x, PawnKey(P, Men(b)))))
Refresh(x, from, b, P) == Backward(x, from, P, apply_refresh(x, b, P))
RefreshFrom(x, n, from, b, P) == Refresh(pawn_vec(BroughtTo(kcache_init(x, n), P, Men(b)), P, Men(b)), from, b, P)

Updated(x, n, b, men, P, from, fused) ==
  IF P.p \in x.st[from].computed THEN Forward(x, from, P)
  ELSE IF from = Top(x) /\ KingStepPays(x, P.p, men)
  THEN KingStepFrom(x, n, nn_dp_toggle(men, x.st[Top(x)].dp), men, P, fused)
  ELSE RefreshFrom(x, n, from, b, P)
OneSide(x, n, b, men, p, fused) ==
  IF p \in x.st[Top(x)].computed THEN x
  ELSE Updated(x, n, b, men, PerspAt(x, Top(x), n, men, p), Nearest(x.st, p), fused)

\* The pawn-king outputs: the mean, the cache's or computed and stored in place of another structure.
PkKey(b) == <<Pawns(Men(b)), KingSquare(b, white), KingSquare(b, black), b.side>>
PkKept(x, slot, key, n, b) ==
  IF \E e \in x.pkc : e.key = key THEN x
  ELSE [x EXCEPT !.pkc = {e \in @ : PkSlot(e.key) # slot} \cup {[key |-> key, out |-> pawn_king_compute(n, b)]}]
pawn_king(x, n, b) == IF pk_gate_skip(n, b) THEN x ELSE PkKept(pk_init(x, n), PkSlot(PkKey(b)), PkKey(b), n, b)
PkOut(x, n, b) == IF pk_gate_skip(n, b) THEN PK_GATE_MEAN ELSE Only({e \in x.pkc : e.key = PkKey(b)}).out

Out(us, them, b, pk) == [us |-> us, them |-> them, bucket |-> bucket_of(b), pk |-> pk]
evaluate(x, n, b, fused) == pawn_king(OneSide(OneSide(x, n, b, Men(b), white, fused), n, b, Men(b), black, fused), n, b)
ValueOf(x, n, b) == Out(x.st[Top(x)].acc[b.side], x.st[Top(x)].acc[1 - b.side], b, PkOut(x, n, b))

Scratch(n, b, p) == refresh_one(n, b, Persp(n, p, Men(b), expert_of(n, Men(b), p)))
evaluate_refresh(n, b) ==
  Out(Scratch(n, b, b.side), Scratch(n, b, 1 - b.side), b,
      IF pk_gate_skip(n, b) THEN PK_GATE_MEAN ELSE pawn_king_compute(n, b))

(***************************************************************************)
(* The walk.                                                               *)
(***************************************************************************)
NoValue == [bucket |-> -1]
Final(s) == s[Len(s)]
Front(s) == SubSeq(s, 1, Len(s) - 1)
Allowed(b) == {m \in generate_moves(b) : <<m.from, m.to>> \in opening.texts}

Init ==
  /\ opening \in Openings
  /\ g_chess960 = opening.c960
  /\ \E f \in {parse_fen(opening.fen, opening.c960)} :
       /\ setup = f.setup /\ g = f.board
       /\ td = copy_board_to_thread(f.board, <<>>) /\ boards = <<td>>
  /\ net = opening.net
  /\ h = EmptyHandle /\ frames = <<>> /\ value = NoValue /\ evals = 0 /\ roots = 1

\* The make writes the dirty state first, and takes it back when the move proves illegal.
MakeMove(m, r) ==
  /\ Len(frames) < opening.depth
  /\ td' = r.td
  /\ IF r.made
     THEN /\ h' = nn_make_dirty(h, td, m, net)
          /\ frames' = Append(frames, [null |-> FALSE, move |-> m, undo |-> r.undo])
          /\ boards' = Append(boards, r.td)
     ELSE /\ h' = nn_unmake_dirty(nn_make_dirty(h, td, m, net))
          /\ UNCHANGED <<frames, boards>>
  /\ value' = NoValue
  /\ UNCHANGED <<opening, g, net, g_chess960, setup, evals, roots>>
MakeAny == \E m \in Allowed(td) : \E r \in {td_make_move(td, m, FALSE)} : MakeMove(m, r)

\* A null move adds no state: the men stay where they are.
MakeNull ==
  /\ Len(frames) < opening.depth
  /\ ~ InCheck(td) /\ (frames # <<>> => ~ Final(frames).null)
  /\ td' = step_in_null(td)
  /\ frames' = Append(frames, [null |-> TRUE, undo |-> NullUndo(td)])
  /\ value' = NoValue
  /\ UNCHANGED <<opening, g, net, g_chess960, setup, h, evals, roots, boards>>

Unmake ==
  /\ frames # <<>> /\ ~ Final(frames).null
  /\ td' = td_unmake_move(td, Final(frames).move, Final(frames).undo)
  /\ h' = nn_unmake_dirty(h)
  /\ frames' = Front(frames) /\ boards' = Front(boards) /\ value' = NoValue
  /\ UNCHANGED <<opening, g, net, g_chess960, setup, evals, roots>>

UnmakeNull ==
  /\ frames # <<>> /\ Final(frames).null
  /\ td' = step_out_null(td, Final(frames).undo)
  /\ frames' = Front(frames) /\ value' = NoValue
  /\ UNCHANGED <<opening, g, net, g_chess960, setup, h, evals, roots, boards>>

td_nn_eval == evaluate(nn_dirty_catch_up(h, td), net, td, opening.fused)
Evaluate ==
  /\ evals < opening.evals
  /\ evals' = evals + 1
  /\ \E x \in {td_nn_eval} : h' = x /\ value' = ValueOf(x, net, td)
  /\ UNCHANGED <<opening, g, net, g_chess960, setup, td, frames, roots, boards>>

\* Back at the root: another iteration, the search of the position after a move, or of another game, with whatever
\* network is loaded then.  The caches stay; a new game has the pawn-king ones forgotten.
nn_root_sync(x) == reset(x)
nn_pk_cache_clear(x) == [x EXCEPT !.pkNet = 0]
NewRoot(board, n, new_game) ==
  /\ frames = <<>> /\ roots < opening.roots
  /\ roots' = roots + 1 /\ evals' = 0
  /\ g' = board /\ net' = n
  /\ td' = copy_board_to_thread(board, <<>>) /\ boards' = <<td'>>
  /\ h' = nn_root_sync(IF new_game THEN nn_pk_cache_clear(h) ELSE h)
  /\ value' = NoValue
  /\ UNCHANGED <<opening, g_chess960, setup, frames>>
Continue == NewRoot(g, net, FALSE)
PlayMove == \E m \in Allowed(g) : \E r \in {make_move(g, m)} : r.legal /\ NewRoot(r.board, net, FALSE)
ChangeNet == \E n \in Nets \ {net} : NewRoot(g, n, FALSE)
NewGame == \E f \in {parse_fen(opening.fen, opening.c960)} : NewRoot(f.board, net, TRUE)

Next ==
  \/ MakeAny
  \/ MakeNull
  \/ Unmake
  \/ UnmakeNull
  \/ Evaluate
  \/ Continue
  \/ PlayMove
  \/ ChangeNet
  \/ NewGame

Spec == Init /\ [][Next]_vars
-----------------------------------------------------------------------------
(***************************************************************************)
(* Whatever was evaluated on the way, and whatever the caches remember,    *)
(* what the thread keeps is what an evaluation from scratch would find:    *)
(* the sum of every state marked computed, the experts the make has put in *)
(* the states, the entries of the caches, and the last evaluation.         *)
(* (consilium_bridge.cpp, nn_pos_eval with g_verify: "Same position from   *)
(* scratch: final values and both accumulators must be identical"; nnp_eval *)
(* of 16_tdperft.inc on the experts.)                                      *)
(***************************************************************************)
StatesAreTrue == \A i \in DOMAIN h.st : \A p \in h.st[i].computed : h.st[i].acc[p] = Scratch(net, boards[i], p)
ExpertsAreTrue == \A i \in 2..Top(h) : h.st[i].dp.phase = Experts(net, Men(boards[i]))
KingEntryIsTrue(e) == e.acc = apply(<<<<1, HkaRows(PerspOf(h.cacheNet, e.key[1], e.key[2], e.key[3]), e.men)>>>>, ftBias(h.cacheNet))
PawnEntryIsTrue(e) == e.acc = PawnVector([net |-> h.pawnNet, p |-> e.key[2], mo |-> e.key[3]], e.key[1])
CachesAreTrue == (\A e \in h.kcache : KingEntryIsTrue(e)) /\ (\A e \in h.pawnc : PawnEntryIsTrue(e))
AccumulatorsAreRefreshes ==
  /\ Men(boards[Top(h)]) = Men(td)
  /\ StatesAreTrue /\ ExpertsAreTrue /\ CachesAreTrue
  /\ value # NoValue => value = evaluate_refresh(net, td)

(***************************************************************************)
(* The network sees no colour and no left or right: a perspective has the  *)
(* same rows on the board with the colours exchanged, for the other side,  *)
(* and on the board mirrored, and so has the pawn-king subnetwork for the  *)
(* side to move.  Different features have different rows, inside their     *)
(* block, and a threat's row is the one of the specification, at its place *)
(* in the store (cn.cpp, check_fast_threats).                              *)
(***************************************************************************)
Turned(b, square(_), colour) ==
  LET bb == [pc \in Pieces |-> {square(s) : s \in b.bb[(pc + 6 * colour) % 12]}]
  IN  [bb |-> bb, occ |-> [c \in {white, black} |-> Occupied(bb, c)], piece_on |-> mailbox_of(bb), side |-> (b.side + colour) % 2]
Flipped(b) == Turned(b, LAMBDA s : 8 * (7 - Row(s)) + File(s), 1)
Mirrored(b) == Turned(b, LAMBDA s : 8 * Row(s) + 7 - File(s), 0)
View(b, p) == Persp(net, p, Men(b), expert_of(net, Men(b), p))
RowsSeen(b, p) == active_rows(View(b, p), b)

RowsOfBlock(k) == CASE k = "hka" -> NEXPERTS * HKA_PHASE_ROWS [] k = "thr" -> ROWS_THR [] k = "pp" -> ROWS_PP [] OTHER -> ROWS_PAS
Neighbours(pawns) == {{m, k} : m \in pawns, k \in {o \in pawns : \E n \in pawns : n # o /\ o[2] \in ppMask(n[2])}}
PairsOf(pawns) == {q \in Neighbours(pawns) : \E m, k \in q : m # k /\ k[2] \in ppMask(m[2])}
RowsAreApart(P, rows, men, threats) ==
  /\ \A r \in rows : r[3] \in 0..(RowsOfBlock(r[2]) - 1)
  /\ Cardinality(rows) = Cardinality(men) + Cardinality({x \in threats : threat_row(P, x) # {}})
                         + Cardinality(PairsOf(Pawns(men))) + Cardinality(passers(men))
ThreatIsStored(P, x) ==
  threat_row(P, x) = IF threat_index(P, x) < 0 THEN {} ELSE {<<P.net, "thr", thr_slot(threat_index(P, x))>>}
SeesFairly(p, rows) ==
  /\ rows = RowsSeen(Flipped(td), 1 - p) /\ rows = RowsSeen(Mirrored(td), p)
  /\ RowsAreApart(View(td, p), rows, Men(td), active_threats(td))
  /\ \A x \in active_threats(td) : ThreatIsStored(View(td, p), x)
ViewsAreFair ==
  /\ \A p \in {white, black} : SeesFairly(p, RowsSeen(td, p))
  /\ pk_inputs(td) = pk_inputs(Flipped(td))
=============================================================================
