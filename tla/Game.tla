---------------------------------- MODULE Game ----------------------------------
(***************************************************************************)
(* A game and the searches of its positions.  The game's board follows the *)
(* "position" commands (parse_position); a search copies it to a thread    *)
(* and walks the tree move by move and null move by null move, forward and *)
(* back, trying also moves of other positions (the hash move, the killers) *)
(* after their validation.  Which move is tried, in what order, and the    *)
(* cuts of the search are left out: any move may be tried.                 *)
(***************************************************************************)
EXTENDS MoveQueue, TbChess

CONSTANT Openings   \* records [fen, c960, plies, depth, texts, queues]: plies of the game and depth of the search
                    \* are bounds; texts, the moves both sides limit themselves to ({}: to none); queues, the
                    \* settings of the queues a node may start

\* The FENs of the protocol: any placement of men, any castling letters, any square for en passant.
AnyFen(fen) ==
  /\ fen.board \in [Squares -> Pieces \cup {-1}] /\ fen.side \in {white, black} /\ fen.ep \in 0..64 /\ fen.fifty \in Nat
  /\ fen.letters \in Seq({white, black} \X (0..9))

\* What parse_fen does not check: the square it takes for en passant is empty, with the pawn to take behind it.
EpBacked(fen) ==
  EpField(fen, bitboards_of(fen.board)) # no_sq =>
    fen.board[fen.ep] = -1 /\ fen.board[fen.ep - Up(fen.side)] = Piece(1 - fen.side, Pawn)
SoundFen(fen) == AnyFen(fen) /\ EpBacked(fen)

\* The board of before the double push that may be taken en passant was legal: with the pawn back where it came from, none
\* of its side's sliders sees our king (nor does parse_fen check this).
Unjumped(b) == (All(b) \ {b.ep - Up(b.side)}) \cup {b.ep + Up(b.side)}
EpSane(b) ==
  b.ep # no_sq =>
    /\ get_bishop_attacks(KingSquare(b, b.side), Unjumped(b)) \cap Diagonals(b) = {}
    /\ get_rook_attacks(KingSquare(b, b.side), Unjumped(b)) \cap Straights(b) = {}
ASSUME OpeningsAssumption ==
  \A o \in Openings : o.c960 \in BOOLEAN /\ SoundFen(o.fen) /\ EpSane(parse_fen(o.fen, o.c960).board)
\* No longer games: a thread's board starts with a count of 1024 plies that stands for "no null move" and bounds the window
\* of the repetitions (03_tables.inc:393), and uci_mt.cpp:124 halves a table of the repetitions of 1748.
ASSUME PliesAssumption == \A o \in Openings : o.plies \in 0..1024

VARIABLES
  opening,          \* the one this game starts from
  g,                \* the engine's global board
  repetition_table, \* the keys of the game, oldest first
  searching,        \* a thread walks the tree, on
  td,               \* its own board
  frames,           \* the moves, null or not, made from the root, with what takes them back
  refused,          \* the last move tried was illegal and has been taken back
  played,           \* history: the positions of the game before the current one
  before,           \* history: td before each move of frames
  queue,            \* the queue of the node, while it hands out moves
  handed            \* history: the moves it has handed out

vars == <<opening, g, repetition_table, g_chess960, setup, searching, td, frames, refused, played, before, queue, handed>>
game_vars == <<opening, g, repetition_table, g_chess960, setup, played>>
queue_vars == <<queue, handed>>

NoQueue == [step |-> "none"]
Idle == [ply |-> 0]     \* the board of a thread that does not search is never read
Final(s) == s[Len(s)]
Front(s) == SubSeq(s, 1, Len(s) - 1)
Texts(m) == opening.texts = {} \/ <<m.from, m.to>> \in opening.texts

(***************************************************************************)
(* The board as a position of the rules.                                   *)
(***************************************************************************)
PosOf(b) == [board |-> mailbox_of(b.bb), turn |-> b.side, ep |-> b.ep, clock |-> b.fifty,
             rights |-> {castle_rook_sq(i) : i \in b.castle}]
RuleMove(m) == [from |-> m.from, to |-> m.to, promo |-> IF m.promo = 0 THEN -1 ELSE m.promo,
                rook |-> IF m.castling THEN castle_rook_sq(castle_index(m.to)) ELSE no_sq]
SetUpPos(f) == [board |-> mailbox_of(f.board.bb), turn |-> f.board.side, ep |-> f.board.ep, clock |-> f.board.fifty,
                rights |-> {f.setup.rook[i + 1] : i \in f.board.castle}]
Rules == INSTANCE ChessRules WITH pos <- PosOf(g), Worth <- SeeValues,
                                  Openings <- {SetUpPos(parse_fen(o.fen, o.c960)) : o \in Openings}

(***************************************************************************)
(* The game.                                                               *)
(***************************************************************************)
Init ==
  /\ opening \in Openings
  /\ g_chess960 = opening.c960
  /\ \E f \in {parse_fen(opening.fen, opening.c960)} : setup = f.setup /\ g = f.board
  /\ repetition_table = <<>> /\ played = <<>>
  /\ searching = FALSE /\ td = Idle /\ frames = <<>> /\ before = <<>> /\ refused = FALSE
  /\ queue = NoQueue /\ handed = <<>>

\* One move of "position ... moves ...".  The protocol gives legal moves only.
Play(next) ==
  /\ next.legal
  /\ repetition_table' = Append(repetition_table, g.key)
  /\ g' = next.board
  /\ played' = Append(played, PosOf(g))
  /\ UNCHANGED <<opening, g_chess960, setup, searching, td, frames, refused, before, queue_vars>>

PlayAny ==
  /\ ~ searching /\ Len(played) < opening.plies
  /\ \E text \in {print_move(m) : m \in {k \in generate_moves(g) : Texts(k)}} :
       \E m \in parse_move(g, text) : Play(make_move(g, m))

(***************************************************************************)
(* The search.                                                             *)
(***************************************************************************)
StartSearch ==
  /\ ~ searching /\ (opening.depth > 0 \/ opening.queues # {})
  /\ searching' = TRUE
  /\ td' = copy_board_to_thread(g, repetition_table)
  /\ UNCHANGED <<game_vars, frames, refused, before, queue_vars>>

\* The queue of a node ends with it.
QueueEnds == queue' = NoQueue /\ handed' = <<>>

EndSearch ==
  /\ searching /\ frames = <<>>
  /\ searching' = FALSE /\ td' = Idle /\ refused' = FALSE
  /\ QueueEnds
  /\ UNCHANGED <<game_vars, frames, before>>

\* The lists hold legal moves outside Chess960; any other move is validated, and out of check legal_before decides.
MayTry(m, listed) == listed \/ (td_is_pseudo_legal(td, m) /\ (InCheck(td) \/ legal_before(td, m)))

\* The queues looked at here are those of the last nodes of the walk.
Down(frame, board) ==
  /\ frames' = Append(frames, frame) /\ before' = Append(before, td)
  /\ td' = board /\ refused' = FALSE
  /\ UNCHANGED <<game_vars, searching, queue_vars>>

StepIn(m, r) ==
  /\ r.made
  /\ Down([null |-> FALSE, move |-> m, undo |-> r.undo], r.td)

StepRefused(r) ==
  /\ ~ r.made
  /\ td' = r.td /\ refused' = TRUE
  /\ UNCHANGED <<game_vars, searching, frames, before, queue_vars>>

Step(m, r) == StepIn(m, r) \/ StepRefused(r)

\* Not in check, and not twice in a row.
StepInNull ==
  /\ ~ InCheck(td)
  /\ frames # <<>> => ~ Final(frames).null
  /\ Down([null |-> TRUE, undo |-> NullUndo(td)], step_in_null(td))

Back(board) ==
  /\ td' = board
  /\ frames' = Front(frames) /\ before' = Front(before) /\ refused' = FALSE
  /\ QueueEnds
  /\ UNCHANGED <<game_vars, searching>>

StepOut ==
  /\ ~ Final(frames).null
  /\ Back(step_out(td, Final(frames).move, Final(frames).undo))

StepOutNull ==
  /\ Final(frames).null
  /\ Back(step_out_null(td, Final(frames).undo))

\* The moves of the positions a node comes from, for either side.
Passed(b) == [b EXCEPT !.side = 1 - @, !.ep = no_sq]
Foreign == UNION {generate_moves(b) : b \in {before[i] : i \in DOMAIN before} \cup {Passed(before[i]) : i \in DOMAIN before}}

(***************************************************************************)
(* The queue of a node.  The walk below a move it hands out gives the      *)
(* board back (UnmakeRestores), so it is left out here.                    *)
(***************************************************************************)
QueueIs(q) == queue' = q /\ UNCHANGED <<game_vars, searching, td, frames, refused, before>>

\* The hash table gives any move, one of another position too, or none.
QueueStart ==
  /\ searching /\ queue = NoQueue /\ Len(frames) = opening.depth
  /\ \E set \in {s \in opening.queues : s.kind = "evade" <=> InCheck(td)} :
     \E hash \in {{}} \cup {{m} : m \in {k \in generate_moves(td) \cup generate_moves(Passed(td)) : Texts(k)}} :
       QueueIs(queue_start(td, set, hash))
  /\ handed' = <<>>

QueueGives(q) ==
  /\ QueueIs(q)
  /\ handed' = handed \o InSomeOrder(q.out)
QueueNext ==
  /\ queue # NoQueue /\ queue.step # "done"
  /\ QueueGives(queue_next(td, queue))

\* After a move, its count may end the quiet moves (count_gate, called in check as well).
QuietsOff ==
  /\ queue # NoQueue /\ queue.step # "done" /\ queue.out # {} /\ ~ queue.quiets_off
  /\ queue.set.kind \in {"main", "evade"}
  /\ QueueIs([queue EXCEPT !.quiets_off = TRUE]) /\ UNCHANGED handed

\* A move of this node or a foreign one.
Try(list) == \E m \in {k \in list \cup Foreign : Texts(k)} :
               \E listed \in {~ g_chess960 /\ m \in list} :
                 MayTry(m, listed) /\ Step(m, step_in(td, m, listed))

Next ==
  \/ PlayAny
  \/ StartSearch
  \/ EndSearch
  \/ QueueStart
  \/ QueueNext
  \/ QuietsOff
  \/ searching /\ Len(frames) < opening.depth /\ Try(td_generate_moves(td))
  \/ searching /\ Len(frames) < opening.depth /\ StepInNull
  \/ searching /\ frames # <<>> /\ StepOut
  \/ searching /\ frames # <<>> /\ StepOutNull

Spec == Init /\ [][Next]_vars

(***************************************************************************)
(* Properties.                                                             *)
(***************************************************************************)
Here == IF searching THEN td ELSE copy_board_to_thread(g, repetition_table)
HerePos == PosOf(Here)
\* What the legality of the moves keeps: one king each, no more men than at the start, the side that has moved not in check.
IsLegal(b) ==
  /\ \A c \in {white, black} : Cardinality(b.bb[Piece(c, King)]) = 1
  /\ Cardinality(All(b)) <= 32
  /\ ~ LeavesKing(b)
LegalPosition == IsLegal(Here)
LegalHere == Rules!LegalMoves(HerePos)
\* Every way to a move of the search and of the game gives the legal moves of the rules and no other: the pseudo-legal
\* lists filtered by their make, the legal generator, whole and by stages, and the validation of a move of another
\* position; the text of a move is read back as that move.
ExactMoves(b, list, valid, tried, game, check) ==
  /\ \A s \in All(b) : pair_od(s, All(b)) = pair_tables(s, All(b)) /\ pair_hqs(s, All(b)) = pair_tables(s, All(b))
  /\ {RuleMove(m) : m \in game} = Rules!LegalMoves(PosOf(b))
  /\ {m \in Answering(b, list) : tried[m].made} = game
  /\ ~ g_chess960 => UNION {generate_legal_tv(b, stage) : stage \in {"tactics", "quiets"}} = game
  /\ {m \in valid : IF check \/ (g_chess960 /\ m.castling) THEN tried[m].made ELSE legal_before(b, m)} = game
  /\ \A m \in game : ReadAs(list, print_move(m)) = {m} /\ (checks_before(b, m) <=> InCheck(tried[m].td))
ExactFor(b, list, valid) ==
  ExactMoves(b, list, valid, [m \in list \cup valid |-> td_make_move(b, m, FALSE)], {m \in list : make_move(b, m).legal},
             InCheck(b))
ExactAt(b, list) == ExactFor(b, list, {m \in list \cup Foreign : td_is_pseudo_legal(b, m)})
MovesAreExact == ExactAt(Here, generate_moves(Here))

\* The position is one of the rules, what is kept move by move is what a computation from nothing gives (the key, the
\* partial keys, the occupancies, the mailbox and the position the moves lead to), and the position survives its own FEN.
KeptAgrees(b) ==
  /\ b.key = generate_hash_key(b)
  /\ \A i \in KEY_PAWN..KEY_NP_B : b.keys[i] = PartialKey(b.bb, i)
  /\ \A c \in {white, black} : b.occ[c] = Occupied(b.bb, c)
  /\ b.piece_on = mailbox_of(b.bb)
FenAgrees(b, again) ==
  again.bb = b.bb /\ again.castle = b.castle /\ again.ep = b.ep /\ again.key = b.key
MoveAgrees ==
  frames # <<>> /\ ~ Final(frames).null => HerePos = Rules!After(PosOf(Final(before)), RuleMove(Final(frames).move))
StateAgrees ==
  LegalPosition /\ KeptAgrees(Here) /\ MoveAgrees /\ FenAgrees(Here, parse_fen(board_to_fen(Here), g_chess960).board)

\* A repetition is announced when a position of game and search since the last null move comes back, once inside the
\* search or twice in all.
Past == played \o [i \in DOMAIN before |-> PosOf(before[i])]
Since == LET nulls == {i \in DOMAIN frames : frames[i].null}
         IN  IF nulls = {} THEN 1 ELSE Len(played) + 1 + (CHOOSE i \in nulls : \A j \in nulls : j <= i)
Repeats(p) ==
  LET twins == {i \in Since..Len(Past) : [Past[i] EXCEPT !.clock = 0] = [p EXCEPT !.clock = 0]}
  IN  Cardinality(twins) > 1 \/ \E i \in twins : i > Len(played) + 1
RepetitionsAreFound == searching => (repeated_draw(td) <=> Repeats(HerePos))

\* A coming repetition is announced when a legal move makes such a position.
ComingRepetitionsAreFound ==
  searching => (td_upcoming_repetition(td) <=> \E m \in LegalHere : Repeats(Rules!After(HerePos, m)))

\* The tablebase library plays the same chess: it accepts the engine's position, its legal moves are the engine's (each
\* found again by squares and promotion), they lead to the engine's next position, counters and en passant square
\* included, its list of captures misses none, and it sees the same checks and mates.
KeptMoves(b) == {k \in {[move |-> m, made |-> make_move(b, m)] : m \in generate_moves(b)} : k.made.legal}
FoundAs(kept, m) == {k \in kept : Matches(k.move, m)}
SameMove(m, next, kept) == \E k \in kept : FoundAs(kept, m) = {k} /\ next = to_fathom(k.made.board)
SameMoves(p, kept, next) ==
  /\ \A m \in DOMAIN next : SameMove(m, next[m], kept)
  /\ UNION {FoundAs(kept, m) : m \in DOMAIN next} = kept
  /\ {m \in DOMAIN next : is_capture(p, m)} = gen_captures(p) \cap DOMAIN next
SameChess(p, kept, check) ==
  /\ is_valid(p)
  /\ SameMoves(p, kept, [m \in gen_legal(p) |-> do_move(p, m)])
  /\ is_check(p) <=> check
TablebaseMovesAgree == MayProbe(Here) => SameChess(to_fathom(Here), KeptMoves(Here), InCheck(Here))

\* Every test of an exchange (is it worth v, is it worth more?) gives what playing it out on the board gives.
Says(b, m, x, pins, att, sliders) ==
  IF m.enpass THEN td_see_ge(b, m, x, pins) ELSE see_holds_q(b, m, x, pins, att, sliders)
SaysAll(b, p, list, holds, pins, att, sliders) ==
  \A m \in list : \A v \in {Rules!Exchange(p, RuleMove(m), holds)} : \A x \in {v, v + 1} :
    Says(b, m, x, pins, att, sliders) <=> v >= x
ExchangesAt(b, p, list) ==
  SaysAll(b, p, list, Rules!Holds(p.board), see_pins_update(b),
          IF InCheck(b) THEN Squares ELSE enemy_map(b, KingSquare(b, b.side)), opp_slider(b))
ExchangesAreRight ==
  ExchangesAt(Here, HerePos, {m \in generate_moves(Here) : ~ m.castling /\ make_move(Here, m).legal})

\* The queue hands out no move twice and, when it is empty, has given every legal move its kind of node asks for, the
\* quiet ones only until they are switched off; apart from the hash move nothing else, and in the order of the groups.
ScoreTo(m) == queue.set.score[m.to]
Good(m, worth) ==
  IF is_tactical(m) THEN worth[m] >= Margin(queue.set, ScoreTo(m)) ELSE ScoreTo(m) > queue.set.good_quiet
Group(m, worth) ==
  IF {m} = queue.hash THEN 0
  ELSE (IF is_tactical(m) THEN 1 ELSE 2) + (IF queue.set.kind = "main" /\ ~ Good(m, worth) THEN 2 ELSE 0)
Unsorted(m) == queue.set.kind = "main" /\ ~ is_tactical(m) /\ ScoreTo(m) < queue.set.limit
InTurn(x, y, worth) ==
  /\ Group(x, worth) <= Group(y, worth)
  /\ Group(x, worth) = Group(y, worth) => ScoreTo(x) >= ScoreTo(y) \/ Unsorted(y)
WantedBy(legal, worth) ==
  CASE queue.set.kind \in {"main", "evade"} -> legal
    [] queue.set.kind = "quiesce" -> {m \in legal : is_tactical(m)}
    [] OTHER -> {m \in legal : is_tactical(m) /\ worth[m] >= queue.set.threshold}
Owed(wanted) == IF queue.set.kind = "main" /\ queue.quiets_off THEN {m \in wanted : is_tactical(m)} ELSE wanted
GivesAll(legal, given, wanted, worth) ==
  /\ \A i, j \in DOMAIN handed : i < j => handed[i] # handed[j]
  /\ \A i, j \in DOMAIN handed : i < j /\ {handed[i], handed[j]} \subseteq legal => InTurn(handed[i], handed[j], worth)
  /\ given \cap legal \subseteq wanted \cup queue.hash
  /\ ~ g_chess960 => given \ queue.hash \subseteq legal
  /\ queue.step = "done" => Owed(wanted) \subseteq given
GivesWhatIsWorth(legal, worth) ==
  GivesAll(legal, {handed[i] : i \in DOMAIN handed}, WantedBy(legal, worth), worth)
WorthOf(p, m, holds) == IF m.castling \/ m.enpass THEN 0 ELSE Rules!Exchange(p, RuleMove(m), holds)
GivesLegal(p, legal, holds) == GivesWhatIsWorth(legal, [m \in legal |-> WorthOf(p, m, holds)])
QueueGivesAll ==
  queue # NoQueue =>
    GivesLegal(HerePos, {m \in generate_moves(td) : RuleMove(m) \in LegalHere}, Rules!Holds(HerePos.board))

\* Taking back a move, a null move or an illegal try leaves the board exactly as it was.
UnmakeRestores ==
  [][/\ Len(frames') < Len(frames) => td' = Final(before)
     /\ refused' /\ frames' = frames => td' = td]_vars

\* The game follows the rules of chess.
PlaysByRules == Rules!Spec
=============================================================================
