------------------------------ MODULE GameProofs ------------------------------
(***************************************************************************)
(* Proofs about Game, for every set of openings, every slider kernel,      *)
(* either reading of the castling rights and games and searches of any     *)
(* length: every position is one of the rules (Legality), taking back      *)
(* restores (Unmaking), what is kept move by move is what a computation    *)
(* from nothing gives and what the rules of chess say (Agreement), the     *)
(* moves that the code generates and makes are the legal moves of the      *)
(* rules (LawfulMoves), by whichever of its ways it comes to them          *)
(* (Exactness), the game implements the rules (Refinement), and the search *)
(* finds the positions that come back, in games of up to 1024 plies        *)
(* (Repetitions).                                                          *)
(*                                                                         *)
(* Two invariants, each needed by the other.  GameInv: the boards are      *)
(* sound, and each board of the line is what taking back the next move     *)
(* gives.  LegalInv: the boards are safe (Safe): one king each, at most 32 *)
(* men, the side that has moved not in check, and, when a pawn may be      *)
(* taken en passant, no slider of its side sees our king with that pawn    *)
(* back where it came from (EpSane).  The last part is what the legal      *)
(* generator relies on without looking: ep_ok tests the row of the king    *)
(* and the pin of the pawn that takes, never the diagonals the pawn taken  *)
(* leaves open.  A double push from a position of the rules keeps it       *)
(* (JumpIsSane); of the FENs it is assumed.                                *)
(*                                                                         *)
(* A move is made without a test of the king afterwards when the generator *)
(* listed it or when legal_before let it through outside check; MoveProofs *)
(* shows that neither leaves the king attacked (ListedIsSafe,              *)
(* ValidIsSafe).  Every other move is tested once made.                    *)
(*                                                                         *)
(* The moves: MoveProofs shows that the generator's lists are, kind by    *)
(* kind, the candidates of the rules; here they are put together, and the  *)
(* test of the make is the rules' own, the king out of check (LegalMakes). *)
(*                                                                         *)
(* The other ways to a move are each compared with the pseudo-legal list   *)
(* and with Spared, "the rules find the king safe after it": the moves of  *)
(* other positions that pass td_is_pseudo_legal are the list (ValidAre);   *)
(* legal_before lets through whatever is Spared (SafePasses), and          *)
(* legal_prepare and the stages leave out nothing that is (StagesAre); a   *)
(* text names one move (TextsTell); checks_before is whether the enemy     *)
(* king is attacked on the board reached (TestIsExact).  Together they are *)
(* Exactness.                                                              *)
(*                                                                         *)
(* RepInv: each board of the line has recorded the keys of the positions   *)
(* of the game and of the line before it, and the plies since the last     *)
(* null move; and of two positions with no null move between, the later    *)
(* has no more men, unmoved pawns and rights than the earlier, and         *)
(* strictly less, or a clock that counts every ply between (Pair).  So a   *)
(* position that comes back does so within the window, after an even       *)
(* number of plies, at least four (TwinsAre); its key tells it from every  *)
(* other (KeysTell).  That is Repetitions; what a line records (Followed)  *)
(* is in MoveProofs.                                                       *)
(*                                                                         *)
(* Order: the walk and GameInv; LegalInv, Legality, Unmaking and           *)
(* Agreement; the moves; LawfulMoves and Refinement; validation, the test  *)
(* before a make, the legal generator, texts, the test for check;          *)
(* Exactness; RepInv, the positions like the current one; Repetitions.     *)
(***************************************************************************)
EXTENDS MoveProofs

(***************************************************************************)
(* The walk: each board of `before` is what taking the next move back      *)
(* gives.  The castling squares are a parameter here (su), so that a state *)
(* and its successor can be compared.                                      *)
(***************************************************************************)
RookOf(m, su) ==
  LET idx == castle_index(m.to)
  IN  [piece |-> Piece(OfSide(idx), Rook), from |-> su.rook[idx + 1], to |-> castle_rook_to(idx)]
Reverted(on, m, victim_sq, victim, r) ==
  IF m.castling
  THEN [[on EXCEPT ![m.to] = None, ![r.to] = None] EXCEPT ![m.from] = m.piece, ![r.from] = r.piece]
  ELSE [on EXCEPT ![m.to] = None, ![m.from] = m.piece, ![IF victim # None THEN victim_sq ELSE m.to] = victim]
OutWith(t, m, undo, r) ==
  Popped([[t EXCEPT !.side = 1 - @,
     !.bb = CastlingBack(WithCaptured(Placed(Lifted(@, IF m.promo # 0 THEN m.promo ELSE m.piece, m.to), m.piece, m.from), undo), m, r),
     !.castle = undo.old_castle, !.ep = undo.old_enpassant,
     !.keys = undo.keys, !.key = undo.key, !.fifty = undo.fifty, !.occ = undo.occ,
     !.piece_on = Reverted(@, m, undo.captured_square, undo.captured_piece, r)]
   EXCEPT !.plies_from_null = undo.plies_from_null])

\* step_out, with the castling squares as a parameter.
LEMMA StepOutIs ==
  ASSUME NEW t, NEW m, NEW undo
  PROVE  step_out(t, m, undo) = OutWith(t, m, undo, RookOf(m, setup))
<1>1. CastleRook(m) = RookOf(m, setup) BY DEF CastleRook, RookOf, castle_rook_sq
<1>2. \A on, vs, v : td_mailbox_revert(on, m, vs, v) = Reverted(on, m, vs, v, RookOf(m, setup))
  BY <1>1 DEF td_mailbox_revert, Reverted
<1> QED BY <1>1, <1>2 DEF step_out, td_unmake_move, PutBack, OutWith

TakesBack(b, f, next, su) ==
  b = IF f.null THEN step_out_null(next, f.undo) ELSE OutWith(next, f.move, f.undo, RookOf(f.move, su))

\* A link of the walk: what takes the move back, and what the rules say of the move.
Link(b, f, next, su) ==
  TakesBack(b, f, next, su) /\ (~f.null => FollowsRules(b, f.move, next, su))

Chain(t, fs, bs, su) ==
  /\ ThreadOK(t, su)
  /\ IsSequence(fs) /\ IsSequence(bs) /\ Len(bs) = Len(fs)
  /\ \A i \in 1..Len(bs) :
       ThreadOK(bs[i], su) /\ Link(bs[i], fs[i], IF i = Len(bs) THEN t ELSE bs[i + 1], su)

\* One step down lengthens the chain, one step back shortens it.
LEMMA ChainDown ==
  ASSUME NEW t, NEW fs, NEW bs, NEW su, Chain(t, fs, bs, su), NEW next, ThreadOK(next, su), NEW f, Link(t, f, next, su)
  PROVE  Chain(next, Append(fs, f), Append(bs, t), su)
<1>1. /\ IsSequence(Append(fs, f)) /\ Len(fs) \in Nat /\ Len(Append(fs, f)) = Len(fs) + 1
      /\ Append(fs, f)[Len(fs) + 1] = f
      /\ \A i \in 1..Len(fs) : Append(fs, f)[i] = fs[i]
  BY AppendIs DEF Chain
<1>2. /\ IsSequence(Append(bs, t)) /\ Len(bs) \in Nat /\ Len(Append(bs, t)) = Len(bs) + 1
      /\ Append(bs, t)[Len(bs) + 1] = t
      /\ \A i \in 1..Len(bs) : Append(bs, t)[i] = bs[i]
  BY AppendIs DEF Chain
<1>3. Len(bs) = Len(fs) BY DEF Chain
<1> DEFINE F == Append(fs, f)
           B == Append(bs, t)
           n == Len(bs)
<1> HIDE DEF F, B, n
<1>4. ASSUME NEW i \in 1..Len(B)
      PROVE  ThreadOK(B[i], su) /\ Link(B[i], F[i], IF i = Len(B) THEN next ELSE B[i + 1], su)
  <2>1. CASE i = n + 1
    <3>1. B[i] = t /\ F[i] = f /\ i = Len(B) BY <2>1, <1>1, <1>2, <1>3 DEF B, F, n
    <3> QED BY <3>1 DEF Chain
  <2>2. CASE i \in 1..n
    <3>1. B[i] = bs[i] /\ F[i] = fs[i] /\ i # Len(B) BY <2>2, <1>1, <1>2, <1>3 DEF B, F, n
    <3>2. B[i + 1] = IF i = n THEN t ELSE bs[i + 1]
      <4>1. CASE i = n BY <4>1, <1>2 DEF B, n
      <4>2. CASE i # n
        <5>1. i + 1 \in 1..Len(bs) BY <2>2, <4>2, <1>2 DEF n
        <5> QED BY <4>2, <5>1, <1>2 DEF B
      <4> QED BY <4>1, <4>2
    <3>3. ThreadOK(bs[i], su) /\ Link(bs[i], fs[i], IF i = n THEN t ELSE bs[i + 1], su) BY <2>2 DEF Chain, n
    <3> QED BY <3>1, <3>2, <3>3
  <2> QED BY <2>1, <2>2, <1>2 DEF B, n
<1> QED BY <1>1, <1>2, <1>3, <1>4 DEF Chain, B, F

\* The last link gives the board before, and the rest is a chain.
LEMMA ChainBack ==
  ASSUME NEW t, NEW fs, NEW bs, NEW su, Chain(t, fs, bs, su), fs # <<>>
  PROVE  /\ Chain(Final(bs), Front(fs), Front(bs), su)
         /\ Link(Final(bs), Final(fs), t, su)
<1>1. IsSequence(fs) /\ IsSequence(bs) /\ Len(bs) = Len(fs) BY DEF Chain
<1>2. /\ IsSequence(Front(fs)) /\ Len(fs) \in Nat /\ Len(fs) > 0 /\ Len(Front(fs)) = Len(fs) - 1
      /\ \A i \in 1..(Len(fs) - 1) : Front(fs)[i] = fs[i]
  BY <1>1, FrontIs
<1>3. bs # <<>>
  <2>1. Len(<<>>) = 0 OBVIOUS
  <2> QED BY <1>1, <1>2, <2>1
<1>4. /\ IsSequence(Front(bs)) /\ Len(Front(bs)) = Len(bs) - 1
      /\ \A i \in 1..(Len(bs) - 1) : Front(bs)[i] = bs[i]
  BY <1>1, <1>3, FrontIs
<1> DEFINE n == Len(bs)
           F == Front(fs)
           B == Front(bs)
<1> HIDE DEF n, F, B
<1>5. n \in 1..n BY <1>1, <1>2 DEF n
<1>6. ThreadOK(Final(bs), su) /\ Link(Final(bs), Final(fs), t, su) BY <1>1, <1>5 DEF Chain, Final, n
<1>7. ASSUME NEW i \in 1..Len(B)
      PROVE  ThreadOK(B[i], su) /\ Link(B[i], F[i], IF i = Len(B) THEN Final(bs) ELSE B[i + 1], su)
  <2>1. i \in 1..n /\ i # n /\ i \in 1..(n - 1) /\ Len(B) = n - 1 BY <1>1, <1>2, <1>4 DEF B, n
  <2>2. B[i] = bs[i] /\ F[i] = fs[i] BY <2>1, <1>1, <1>2, <1>4 DEF B, F, n
  <2>3. bs[i + 1] = IF i = Len(B) THEN Final(bs) ELSE B[i + 1]
    <3>1. CASE i = n - 1
      <4>1. i + 1 = n BY <3>1, <2>1, <1>1, <1>2 DEF n
      <4> QED BY <3>1, <4>1, <2>1 DEF Final, n
    <3>2. CASE i # n - 1
      <4>1. i + 1 \in 1..(n - 1) BY <3>2, <2>1, <1>1, <1>2 DEF n
      <4> QED BY <3>2, <4>1, <2>1, <1>4 DEF B, n
    <3> QED BY <3>1, <3>2
  <2>4. ThreadOK(bs[i], su) /\ Link(bs[i], fs[i], IF i = n THEN t ELSE bs[i + 1], su) BY <2>1 DEF Chain, n
  <2> QED BY <2>1, <2>2, <2>3, <2>4
<1>8. Chain(Final(bs), F, B, su) BY <1>1, <1>2, <1>4, <1>6, <1>7 DEF Chain, F, B
<1> QED BY <1>6, <1>8 DEF F, B

\* The root of a search is a chain of no moves.
LEMMA ChainStart ==
  ASSUME NEW t, NEW su, ThreadOK(t, su) PROVE Chain(t, <<>>, <<>>, su)
<1>1. IsSequence(<<>>) BY DEF IsSequence
<1>2. 1..Len(<<>>) = {} OBVIOUS
<1> QED BY <1>1, <1>2 DEF Chain

(***************************************************************************)
(* The invariant: the game's board is sound, and while a thread searches   *)
(* its board and all boards before it are sound, each of them what taking  *)
(* back the move made on it gives.                                         *)
(***************************************************************************)
GameInv ==
  /\ HomeSetup
  /\ g \in GameBoards /\ BoardOK(g, setup) /\ repetition_table \in Seq(Keys)
  /\ searching \in BOOLEAN
  /\ searching => Chain(td, frames, before, setup)
  /\ ~searching => frames = <<>> /\ before = <<>> /\ ~refused

Restored ==
  /\ Len(frames') < Len(frames) => td' = Final(before)
  /\ refused' /\ frames' = frames => td' = td

\* The game starts on a sound board.
LEMMA InitSound == Init => GameInv
<1> SUFFICES ASSUME Init PROVE GameInv OBVIOUS
<1>1. opening.c960 \in BOOLEAN /\ SoundFen(opening.fen) BY OpeningsAssumption DEF Init
<1>2. PICK f : f = parse_fen(opening.fen, opening.c960) /\ setup = f.setup /\ g = f.board BY DEF Init
<1>3. f.board \in GameBoards /\ BoardOK(f.board, f.setup) /\ (~opening.c960 => f.setup = standard_setup)
  BY <1>1, <1>2, OpeningSound DEF SoundFen
<1>4. g \in GameBoards /\ BoardOK(g, setup) /\ HomeSetup BY <1>1, <1>2, <1>3 DEF Init, HomeSetup
<1>5. repetition_table \in Seq(Keys) BY DEF Init
<1> QED BY <1>4, <1>5 DEF Init, GameInv

\* A move of the game (parse_move, make_move) keeps the invariant.
LEMMA PlayKeeps ==
  ASSUME GameInv, PlayAny PROVE GameInv' /\ Restored
<1>0. PICK text : \E k \in parse_move(g, text) : Play(make_move(g, k)) BY DEF PlayAny
<1>1. PICK m \in parse_move(g, text) : Play(make_move(g, m)) BY <1>0
<1>2. m \in generate_moves(g) BY DEF parse_move, ReadAs
<1>3. Ready(g) BY GameIsReady DEF GameInv
<1>4. Fit(g, m) BY <1>2, <1>3, GeneratedFit DEF GameInv
<1>5. Made(g, m) \in GameBoards /\ BoardOK(Made(g, m), setup) BY <1>4, GameMake DEF GameInv
<1> DEFINE made == Made(g, m)
<1>6. PICK r : r = make_move(g, m) OBVIOUS
<1>7. g' = made /\ repetition_table' = Append(repetition_table, g.key)
      /\ UNCHANGED <<g_chess960, setup, searching, td, frames, refused, before>>
  <2>1. r = Kept(g, made, ~LeavesKing(made)) BY <1>6 DEF make_move, Judged
  <2>2. r.legal <=> ~LeavesKing(made)
    <3> HIDE DEF made
    <3> QED BY <2>1 DEF Kept
  <2>3. r.legal => r.board = made
    <3> HIDE DEF made
    <3>1. ASSUME ~LeavesKing(made) PROVE r.board = made BY <2>1, <3>1 DEF Kept
    <3> QED BY <2>2, <3>1
  <2>4. Play(r) BY <1>1, <1>6
  <2>5. r.legal /\ g' = r.board /\ repetition_table' = Append(repetition_table, g.key)
        /\ UNCHANGED <<g_chess960, setup, searching, td, frames, refused, before>>
    BY <2>4 DEF Play
  <2> HIDE DEF made
  <2> QED BY <2>3, <2>5
<1>8. ~searching BY DEF PlayAny
<1>9. g.key \in Keys BY DEF GameInv, GameBoards
<1>10. repetition_table' \in Seq(Keys) BY <1>7, <1>9 DEF GameInv
<1>11. HomeSetup' BY <1>7 DEF GameInv, HomeSetup
<1>12. g' \in GameBoards /\ BoardOK(g', setup') BY <1>5, <1>7
<1>13. GameInv' BY <1>7, <1>8, <1>10, <1>11, <1>12 DEF GameInv
<1>14. Restored
  <2>1. Len(frames') = Len(frames) /\ td' = td BY <1>7
  <2>2. Len(frames) \in Nat BY <1>8 DEF GameInv
  <2> QED BY <2>1, <2>2 DEF Restored
<1> QED BY <1>13, <1>14

\* The start of a search keeps it (copy_board_to_thread).
LEMMA StartKeeps ==
  ASSUME GameInv, StartSearch PROVE GameInv' /\ Restored
<1>1. ~searching /\ searching' = TRUE /\ td' = copy_board_to_thread(g, repetition_table)
      /\ UNCHANGED <<g, repetition_table, g_chess960, setup, frames, refused, before>>
  BY DEF StartSearch, game_vars
<1>2. ThreadOK(td', setup) BY <1>1, CopyIsThread DEF GameInv
<1>3. frames = <<>> /\ before = <<>> /\ ~refused BY <1>1 DEF GameInv
<1>4. Chain(td', frames', before', setup') BY <1>1, <1>2, <1>3, ChainStart
<1>5. HomeSetup' BY <1>1 DEF GameInv, HomeSetup
<1>6. GameInv' BY <1>1, <1>4, <1>5 DEF GameInv
<1>7. Restored
  <2>1. Len(frames') = Len(frames) /\ Len(frames) \in Nat BY <1>1, <1>3
  <2> QED BY <1>1, <1>3, <2>1 DEF Restored
<1> QED BY <1>6, <1>7

\* As many boards as moves.
LEMMA ChainLength ==
  ASSUME GameInv PROVE Len(frames) \in Nat /\ Len(before) = Len(frames)
<1>1. CASE searching
  <2>1. IsSequence(frames) /\ Len(before) = Len(frames) BY <1>1 DEF GameInv, Chain
  <2>2. Len(frames) \in Nat BY <2>1, AppendIs
  <2> QED BY <2>1, <2>2
<1>2. CASE ~searching BY <1>2 DEF GameInv
<1> QED BY <1>1, <1>2 DEF GameInv

\* Steps that leave the boards alone keep it, a refused try among them.
LEMMA SameKeeps ==
  ASSUME GameInv, UNCHANGED <<g, repetition_table, g_chess960, setup, searching, td, frames, before>>,
         refused' = refused \/ searching
  PROVE  GameInv' /\ Restored
<1>1. HomeSetup' BY DEF GameInv, HomeSetup
<1>2. GameInv' BY <1>1 DEF GameInv
<1>3. Restored BY ChainLength DEF Restored
<1> QED BY <1>2, <1>3

\* The end of a search keeps it.
LEMMA EndKeeps ==
  ASSUME GameInv, EndSearch PROVE GameInv' /\ Restored
<1>1. searching /\ frames = <<>> /\ searching' = FALSE /\ refused' = FALSE
      /\ UNCHANGED <<g, repetition_table, g_chess960, setup, frames, before>>
  BY DEF EndSearch, game_vars
<1>2. before = <<>>
  <2>1. Len(before) = 0 /\ IsSequence(before) BY <1>1, ChainLength DEF GameInv, Chain
  <2> QED BY <2>1, FrontIs
<1>3. HomeSetup' BY <1>1 DEF GameInv, HomeSetup
<1>4. GameInv' BY <1>1, <1>2, <1>3 DEF GameInv
<1>5. Restored BY <1>1, ChainLength DEF Restored
<1> QED BY <1>4, <1>5

\* A step down keeps it when the new link holds ...
LEMMA DownKeeps ==
  ASSUME GameInv, searching, NEW f, NEW next, Down(f, next), ThreadOK(next, setup), Link(td, f, next, setup)
  PROVE  GameInv' /\ Restored
<1>1. /\ frames' = Append(frames, f) /\ before' = Append(before, td) /\ td' = next /\ refused' = FALSE
      /\ UNCHANGED <<g, repetition_table, g_chess960, setup, searching>>
  BY DEF Down, game_vars
<1>2. Chain(next, Append(frames, f), Append(before, td), setup) BY ChainDown DEF GameInv
<1>3. Chain(td', frames', before', setup') BY <1>1, <1>2
<1>4. HomeSetup' BY <1>1 DEF GameInv, HomeSetup
<1>5. GameInv' BY <1>1, <1>3, <1>4 DEF GameInv
<1>6. Restored
  <2>1. IsSequence(frames) BY DEF GameInv, Chain
  <2>2. Len(frames) \in Nat /\ Len(frames') = Len(frames) + 1 BY <1>1, <2>1, AppendIs
  <2> QED BY <1>1, <2>2 DEF Restored
<1> QED BY <1>5, <1>6

\* ... and a step back when it gives the board before.
LEMMA BackKeeps ==
  ASSUME GameInv, searching, frames # <<>>, NEW next, Back(next),
         Link(Final(before), Final(frames), td, setup) => next = Final(before)
  PROVE  GameInv' /\ Restored
<1>1. /\ frames' = Front(frames) /\ before' = Front(before) /\ td' = next /\ refused' = FALSE
      /\ UNCHANGED <<g, repetition_table, g_chess960, setup, searching>>
  BY DEF Back, game_vars
<1>2. Chain(Final(before), Front(frames), Front(before), setup) /\ Link(Final(before), Final(frames), td, setup)
  BY ChainBack DEF GameInv
<1>3. next = Final(before) BY <1>2
<1>4. Chain(td', frames', before', setup') BY <1>1, <1>2, <1>3
<1>5. HomeSetup' BY <1>1 DEF GameInv, HomeSetup
<1>6. GameInv' BY <1>1, <1>4, <1>5 DEF GameInv
<1>7. Restored BY <1>1, <1>3 DEF Restored
<1> QED BY <1>6, <1>7

\* In a legal position the side to move has its king.
LEMMA KingStands ==
  ASSUME GameInv, searching, LegalPosition PROVE Standing(td)
<1>1. td.side \in {white, black} BY DEF GameInv, Chain, ThreadOK, ThreadBoards
<1>2. Cardinality(td.bb[Piece(td.side, King)]) = 1 BY <1>1 DEF LegalPosition, IsLegal, Here
<1>3. Cardinality({}) = 0 BY FS_EmptySet
<1> QED BY <1>2, <1>3 DEF Standing

\* Trying a move, made or refused, keeps it (td_make_move, step_in).
LEMMA TryKeeps ==
  ASSUME GameInv, searching, LegalPosition, LegalPosition', Try(td_generate_moves(td)) PROVE GameInv' /\ Restored
<1>1. PICK m \in td_generate_moves(td) \cup Foreign :
        \E listed \in {~g_chess960 /\ m \in td_generate_moves(td)} : MayTry(m, listed) /\ Step(m, step_in(td, m, listed))
  BY DEF Try
<1>2. PICK listed \in {~g_chess960 /\ m \in td_generate_moves(td)} : MayTry(m, listed) /\ Step(m, step_in(td, m, listed))
  BY <1>1
<1>3. listed => m \in td_generate_moves(td) BY <1>2
<1>4. Chain(td, frames, before, setup) /\ HomeSetup BY DEF GameInv
<1>5. ThreadOK(td, setup) BY <1>4 DEF Chain
<1>6. \A i \in DOMAIN before : ThreadOK(before[i], setup)
  <2>1. IsSequence(before) BY <1>4 DEF Chain
  <2>2. DOMAIN before = 1..Len(before) BY <2>1 DEF IsSequence
  <2> QED BY <1>4, <2>2 DEF Chain
<1>7. Fit(td, m) BY <1>2, <1>3, <1>4, <1>5, <1>6, KingStands, TriedFits
<1>8. PICK r : r = step_in(td, m, listed) OBVIOUS
<1>9. /\ r.made => ThreadOK(r.td, setup) /\ step_out(r.td, m, r.undo) = td
      /\ ~r.made => r.td = td
  BY <1>5, <1>7, <1>8, StepInIs
<1>10. CASE StepIn(m, r)
  <2> DEFINE f == [null |-> FALSE, move |-> m, undo |-> r.undo]
  <2>1. r.made /\ Down(f, r.td) BY <1>10 DEF StepIn
  <2>2. f.null = FALSE /\ f.move = m /\ f.undo = r.undo OBVIOUS
  <2> HIDE DEF f
  <2>3. ThreadOK(r.td, setup) BY <1>9, <2>1
  <2>4. IsLegal(td) BY DEF LegalPosition, Here
  <2>5. td' = r.td /\ searching' = searching BY <2>1 DEF Down
  <2>6. IsLegal(r.td)
    <3>1. Here' = td' BY <2>5 DEF Here
    <3>2. IsLegal(Here') BY DEF LegalPosition
    <3> QED BY <2>5, <3>1, <3>2
  <2>7. FollowsRules(td, m, r.td, setup)
    <3>1. \A x \in {step_in(td, m, listed)} : x.made /\ IsLegal(x.td) => FollowsRules(td, m, x.td, setup)
      BY <1>5, <1>7, <2>4, StepFollows
    <3> QED BY <1>8, <2>1, <2>6, <3>1
  <2>8. TakesBack(td, f, r.td, setup) BY <1>9, <2>1, <2>2, StepOutIs DEF TakesBack
  <2>9. Link(td, f, r.td, setup) BY <2>2, <2>7, <2>8 DEF Link
  <2> QED BY <2>1, <2>3, <2>9, DownKeeps
<1>11. CASE StepRefused(r)
  <2>1. UNCHANGED <<g, repetition_table, g_chess960, setup, searching, td, frames, before>>
    BY <1>9, <1>11 DEF StepRefused, game_vars
  <2> QED BY <2>1, SameKeeps
<1> QED BY <1>2, <1>8, <1>10, <1>11 DEF Step

\* A null move keeps it (step_in_null).
LEMMA NullKeeps ==
  ASSUME GameInv, searching, StepInNull PROVE GameInv' /\ Restored
<1> DEFINE f == [null |-> TRUE, undo |-> NullUndo(td)]
<1>1. Down(f, step_in_null(td)) BY DEF StepInNull
<1>2. ThreadOK(td, setup) BY DEF GameInv, Chain
<1>3. ThreadOK(step_in_null(td), setup) /\ step_out_null(step_in_null(td), NullUndo(td)) = td BY <1>2, StepInNullIs
<1>4. Link(td, f, step_in_null(td), setup) BY <1>3 DEF Link, TakesBack
<1> HIDE DEF f
<1> QED BY <1>1, <1>3, <1>4, DownKeeps

\* Taking a move or a null move back keeps it (step_out, step_out_null).
LEMMA OutKeeps ==
  ASSUME GameInv, searching, frames # <<>>, StepOut \/ StepOutNull PROVE GameInv' /\ Restored
<1>1. CASE StepOut
  <2>1. ~Final(frames).null /\ Back(step_out(td, Final(frames).move, Final(frames).undo)) BY <1>1 DEF StepOut
  <2>2. Link(Final(before), Final(frames), td, setup) =>
          step_out(td, Final(frames).move, Final(frames).undo) = Final(before)
    BY <2>1, StepOutIs DEF Link, TakesBack
  <2> QED BY <2>1, <2>2, BackKeeps
<1>2. CASE StepOutNull
  <2>1. Final(frames).null /\ Back(step_out_null(td, Final(frames).undo)) BY <1>2 DEF StepOutNull
  <2>2. Link(Final(before), Final(frames), td, setup) =>
          step_out_null(td, Final(frames).undo) = Final(before)
    BY <2>1 DEF Link, TakesBack
  <2> QED BY <2>1, <2>2, BackKeeps
<1> QED BY <1>1, <1>2

\* The queue of moves does not touch the board.
LEMMA QueueKeeps ==
  ASSUME GameInv, QueueStart \/ QueueNext \/ QuietsOff PROVE GameInv' /\ Restored
<1>1. \E q : QueueIs(q) BY DEF QueueStart, QueueNext, QueueGives, QuietsOff
<1>2. UNCHANGED <<g, repetition_table, g_chess960, setup, searching, td, frames, before>> /\ refused' = refused
  BY <1>1 DEF QueueIs, game_vars
<1> QED BY <1>2, SameKeeps

\* Every step keeps the invariant, takes moves back exactly and leaves the board of a refused try alone.
LEMMA StepKeeps ==
  ASSUME GameInv, LegalPosition, LegalPosition', [Next]_vars PROVE GameInv' /\ Restored
<1>1. CASE PlayAny BY <1>1, PlayKeeps
<1>2. CASE StartSearch BY <1>2, StartKeeps
<1>3. CASE EndSearch BY <1>3, EndKeeps
<1>4. CASE QueueStart \/ QueueNext \/ QuietsOff BY <1>4, QueueKeeps
<1>5. CASE searching /\ Try(td_generate_moves(td)) BY <1>5, TryKeeps
<1>6. CASE searching /\ StepInNull BY <1>6, NullKeeps
<1>7. CASE searching /\ frames # <<>> /\ (StepOut \/ StepOutNull) BY <1>7, OutKeeps
<1>8. CASE UNCHANGED vars
  <2>1. UNCHANGED <<g, repetition_table, g_chess960, setup, searching, td, frames, before>> /\ refused' = refused
    BY <1>8 DEF vars
  <2> QED BY <2>1, SameKeeps
<1> QED BY <1>1, <1>2, <1>3, <1>4, <1>5, <1>6, <1>7, <1>8 DEF Next

\* In every state the invariant and the legality of the position give what is kept by moves and what a computation
\* from nothing gives as the same.
LEMMA SoundAgrees ==
  ASSUME GameInv, LegalPosition PROVE StateAgrees
<1>1. ThreadOK(Here, setup)
  <2>1. CASE searching BY <2>1 DEF GameInv, Chain, Here
  <2>2. CASE ~searching BY <2>2, CopyIsThread DEF GameInv, Here
  <2> QED BY <2>1, <2>2
<1>2. KeptAgrees(Here) BY <1>1 DEF ThreadOK, BoardOK, KeptAgrees
<1>3. FenAgrees(Here, parse_fen(board_to_fen(Here), g_chess960).board)
  BY <1>1, FenReturns DEF GameInv, LegalPosition
<1>4. MoveAgrees
  <2> SUFFICES ASSUME frames # <<>>, ~Final(frames).null
               PROVE  HerePos = Rules!After(PosOf(Final(before)), RuleMove(Final(frames).move))
    BY DEF MoveAgrees
  <2>1. searching BY DEF GameInv
  <2>2. Link(Final(before), Final(frames), td, setup) BY <2>1, ChainBack DEF GameInv
  <2>3. FollowsRules(Final(before), Final(frames).move, td, setup) BY <2>2 DEF Link
  <2>4. \A b : PosOf(b) = PositionOf(b, setup)
    BY DEF PosOf, PositionOf, RookSquares, castle_rook_sq
  <2>5. \A m : RuleMove(m) = RuleMoveIn(m, setup) BY DEF RuleMove, RuleMoveIn, castle_rook_sq
  <2>6. HerePos = PositionOf(td, setup) BY <2>1, <2>4 DEF HerePos, Here
  <2> QED BY <2>3, <2>4, <2>5, <2>6 DEF FollowsRules
<1> QED BY <1>2, <1>3, <1>4 DEF StateAgrees

(***************************************************************************)
(* The positions of the game, of the search and of the line that led to it *)
(* are safe.                                                               *)
(***************************************************************************)
LegalInv ==
  /\ Safe(g)
  /\ searching => Safe(td) /\ \A i \in DOMAIN before : Safe(before[i])

\* The thread's copy of the game's board is as safe.
LEMMA LegalNow == ASSUME LegalInv PROVE LegalPosition
<1>1. CASE searching BY <1>1 DEF LegalInv, Safe, LegalPosition, Here
<1>2. CASE ~searching
  <2> DEFINE t == copy_board_to_thread(g, repetition_table)
  <2>1. t.bb = g.bb /\ t.occ = g.occ /\ t.side = g.side /\ t.ep = g.ep BY DEF copy_board_to_thread
  <2> HIDE DEF t
  <2>2. Safe(t) BY <2>1, SafeAlike DEF LegalInv
  <2> QED BY <1>2, <2>2 DEF Safe, LegalPosition, Here, t
<1> QED BY <1>1, <1>2

\* A move of the game.
LEMMA PlayIsLegal == ASSUME GameInv, LegalInv, PlayAny PROVE LegalInv'
<1>0. PICK text : \E k \in parse_move(g, text) : Play(make_move(g, k)) BY DEF PlayAny
<1>1. PICK m \in parse_move(g, text) : Play(make_move(g, m)) BY <1>0
<1>2. m \in generate_moves(g) BY DEF parse_move, ReadAs
<1>3. PICK r : r = make_move(g, m) OBVIOUS
<1>4. r.legal /\ g' = r.board /\ searching' = searching BY <1>1, <1>3 DEF Play
<1>5. Safe(g') BY <1>2, <1>3, <1>4, PlayIsSafe DEF GameInv, LegalInv
<1>6. ~searching BY DEF PlayAny
<1> QED BY <1>4, <1>5, <1>6 DEF LegalInv

\* The start of a search.
LEMMA StartIsLegal == ASSUME GameInv, LegalInv, StartSearch PROVE LegalInv'
<1>1. ~searching /\ td' = copy_board_to_thread(g, repetition_table) /\ UNCHANGED <<g, before>> BY DEF StartSearch, game_vars
<1> DEFINE t == copy_board_to_thread(g, repetition_table)
<1>2. t.bb = g.bb /\ t.occ = g.occ /\ t.side = g.side /\ t.ep = g.ep BY DEF copy_board_to_thread
<1> HIDE DEF t
<1>3. Safe(t) BY <1>2, SafeAlike DEF LegalInv
<1>4. before' = <<>> BY <1>1 DEF GameInv
<1>5. DOMAIN <<>> = {} OBVIOUS
<1> QED BY <1>1, <1>3, <1>4, <1>5 DEF LegalInv, t

\* A move or a null move of the search adds a board to the line and goes to a safe one.
LEMMA DownIsLegal ==
  ASSUME GameInv, LegalInv, searching, NEW f, NEW next, Down(f, next), Safe(next) PROVE LegalInv'
<1>1. before' = Append(before, td) /\ td' = next /\ g' = g BY DEF Down, game_vars
<1>2. IsSequence(before) BY DEF GameInv, Chain
<1>3. ASSUME NEW i \in DOMAIN Append(before, td) PROVE Safe(Append(before, td)[i])
  <2>1. Len(before) \in Nat /\ DOMAIN Append(before, td) = 1..(Len(before) + 1) /\ DOMAIN before = 1..Len(before)
    BY <1>2, AppendIs DEF IsSequence
  <2>2. CASE i = Len(before) + 1 BY <1>2, <2>2, AppendIs DEF LegalInv
  <2>3. CASE i # Len(before) + 1
    <3>1. i \in 1..Len(before) BY <2>1, <2>3
    <3> QED BY <1>2, <2>1, <3>1, AppendIs DEF LegalInv
  <2> QED BY <2>2, <2>3
<1> QED BY <1>1, <1>3 DEF LegalInv

\* Trying a move.
LEMMA TryIsLegal ==
  ASSUME GameInv, LegalInv, searching, Try(td_generate_moves(td)) PROVE LegalInv'
<1>1. PICK m \in td_generate_moves(td) \cup Foreign :
        \E listed \in {~g_chess960 /\ m \in td_generate_moves(td)} : MayTry(m, listed) /\ Step(m, step_in(td, m, listed))
  BY DEF Try
<1>2. PICK listed \in {~g_chess960 /\ m \in td_generate_moves(td)} : MayTry(m, listed) /\ Step(m, step_in(td, m, listed))
  BY <1>1
<1>3. listed => ~g_chess960 /\ m \in td_generate_moves(td) BY <1>2
<1>4. Chain(td, frames, before, setup) /\ HomeSetup BY DEF GameInv
<1>5. ThreadOK(td, setup) /\ Safe(td) BY <1>4 DEF Chain, LegalInv
<1>6. \A i \in DOMAIN before : ThreadOK(before[i], setup)
  <2>1. IsSequence(before) BY <1>4 DEF Chain
  <2>2. DOMAIN before = 1..Len(before) BY <2>1 DEF IsSequence
  <2> QED BY <1>4, <2>2 DEF Chain
<1>7. Fit(td, m) BY <1>2, <1>3, <1>4, <1>5, <1>6, LegalNow, KingStands, TriedFits
<1>8. PICK r : r = step_in(td, m, listed) OBVIOUS
<1>9. /\ r.made => Safe(r.td)
      /\ ~r.made => r.td = td
  <2>1. listed \/ (td_is_pseudo_legal(td, m) /\ (InCheck(td) \/ legal_before(td, m))) BY <1>2 DEF MayTry
  <2> QED BY <1>3, <1>4, <1>5, <1>7, <1>8, <2>1, StepIsSafe, StepInIs
<1>10. CASE StepIn(m, r)
  <2>1. r.made /\ Down([null |-> FALSE, move |-> m, undo |-> r.undo], r.td) BY <1>10 DEF StepIn
  <2> QED BY <1>9, <2>1, DownIsLegal
<1>11. CASE StepRefused(r)
  <2>1. UNCHANGED <<g, searching, td, before>> BY <1>9, <1>11 DEF StepRefused, game_vars
  <2> QED BY <2>1 DEF LegalInv
<1> QED BY <1>2, <1>8, <1>10, <1>11 DEF Step

\* Taking a move or a null move back.
LEMMA OutIsLegal ==
  ASSUME GameInv, LegalInv, searching, frames # <<>>, StepOut \/ StepOutNull PROVE LegalInv'
<1>1. /\ frames' = Front(frames) /\ before' = Front(before) /\ g' = g
  BY DEF StepOut, StepOutNull, Back, game_vars
<1>2. IsSequence(frames) /\ IsSequence(before) /\ Len(before) = Len(frames) BY DEF GameInv, Chain
<1>3. Len(frames) \in Nat /\ Len(frames) > 0 /\ Len(Front(frames)) = Len(frames) - 1 BY <1>2, FrontIs
<1>4. td' = Final(before) BY <1>1, <1>3, OutKeeps DEF Restored
<1>5. before # <<>>
  <2>1. Len(<<>>) = 0 OBVIOUS
  <2> QED BY <1>2, <1>3, <2>1
<1>6. /\ IsSequence(Front(before)) /\ Len(Front(before)) = Len(before) - 1
      /\ \A i \in 1..(Len(before) - 1) : Front(before)[i] = before[i]
  BY <1>2, <1>5, FrontIs
<1>7. DOMAIN before = 1..Len(before) /\ DOMAIN Front(before) = 1..Len(Front(before)) BY <1>2, <1>6 DEF IsSequence
<1>8. \A i \in 1..Len(before) : Safe(before[i]) BY <1>7 DEF LegalInv
<1>9. Safe(td')
  <2>1. Len(before) \in 1..Len(before) BY <1>2, <1>3
  <2> QED BY <1>4, <1>8, <2>1 DEF Final
<1>10. \A i \in DOMAIN Front(before) : Safe(Front(before)[i])
  <2> TAKE i \in DOMAIN Front(before)
  <2>1. i \in 1..(Len(before) - 1) /\ i \in 1..Len(before) BY <1>2, <1>3, <1>6, <1>7
  <2> QED BY <1>6, <1>8, <2>1
<1> QED BY <1>1, <1>9, <1>10 DEF LegalInv

\* Every step leads to safe positions.
LEMMA LegalKeeps == ASSUME GameInv, LegalInv, [Next]_vars PROVE LegalInv'
<1>1. CASE PlayAny BY <1>1, PlayIsLegal
<1>2. CASE StartSearch BY <1>2, StartIsLegal
<1>3. CASE EndSearch BY <1>3 DEF EndSearch, game_vars, LegalInv
<1>4. CASE QueueStart \/ QueueNext \/ QuietsOff
  <2>1. \E q : QueueIs(q) BY <1>4 DEF QueueStart, QueueNext, QueueGives, QuietsOff
  <2> QED BY <2>1 DEF QueueIs, game_vars, LegalInv
<1>5. CASE searching /\ Try(td_generate_moves(td)) BY <1>5, TryIsLegal
<1>6. CASE searching /\ StepInNull
  <2>1. ~InCheck(td) /\ Down([null |-> TRUE, undo |-> NullUndo(td)], step_in_null(td)) BY <1>6 DEF StepInNull
  <2>2. ThreadOK(td, setup) /\ IsLegal(td) BY <1>6 DEF GameInv, Chain, LegalInv, Safe
  <2>3. Safe(step_in_null(td)) BY <2>1, <2>2, NullIsSafe
  <2> QED BY <1>6, <2>1, <2>3, DownIsLegal
<1>7. CASE searching /\ frames # <<>> /\ (StepOut \/ StepOutNull) BY <1>7, OutIsLegal
<1>8. CASE UNCHANGED vars BY <1>8 DEF vars, LegalInv
<1> QED BY <1>1, <1>2, <1>3, <1>4, <1>5, <1>6, <1>7, <1>8 DEF Next

\* The two invariants hold together.
LEMMA Invariant == Spec => [](GameInv /\ LegalInv)
<1>1. Init => GameInv /\ LegalInv
  <2>1. Init => ~searching BY DEF Init
  <2> QED BY <2>1, InitSound, InitSafe DEF LegalInv
<1>2. LegalInv => LegalPosition BY LegalNow
<1>3. GameInv /\ LegalInv /\ [Next]_vars => LegalInv' BY LegalKeeps
<1>4. GameInv /\ LegalPosition /\ LegalPosition' /\ [Next]_vars => GameInv' BY StepKeeps
<1> QED BY <1>1, <1>2, <1>3, <1>4, PTL DEF Spec

\* Every position of the game and of its searches is one of the rules: one king each, at most 32 men, the side that has
\* moved not in check, though a listed move and, outside check, a validated one are never tested once made
\* (generate_legal_tv, td_is_pseudo_legal, legal_before, td_make_move, make_move, parse_fen).
THEOREM Legality == Spec => []LegalPosition
<1>1. LegalInv => LegalPosition BY LegalNow
<1> QED BY <1>1, Invariant, PTL

\* Taking back a move, a null move or an illegal try leaves the thread's board exactly as it was before: boards, keys,
\* occupancies, mailbox, rights, counters and the repetition stack (td_unmake_move, step_out, step_out_null, the rollback
\* of td_make_move).
THEOREM Unmaking == Spec => UnmakeRestores
<1>1. LegalInv => LegalPosition BY LegalNow
<1>2. GameInv /\ LegalPosition /\ LegalPosition' /\ [Next]_vars
        => [/\ Len(frames') < Len(frames) => td' = Final(before)
            /\ refused' /\ frames' = frames => td' = td]_vars
  BY StepKeeps DEF Restored
<1> QED BY <1>1, <1>2, Invariant, PTL DEF Spec, UnmakeRestores

\* Every position is one of the rules, what the boards keep move by move (key, partial keys, occupancies, mailbox) is what
\* a computation from nothing gives, the position after a move is the one the rules lead to, and the FEN of a position is
\* read back as that position (make_move, td_make_move, step_in, board_to_fen, parse_fen).
THEOREM Agreement == Spec => []StateAgrees
<1>1. GameInv /\ LegalInv => StateAgrees BY SoundAgrees, LegalNow
<1> QED BY <1>1, Invariant, PTL

(***************************************************************************)
(* All the generated moves, and those their make accepts: the legal moves  *)
(* of the rules.                                                           *)
(***************************************************************************)
\* The moves of the pieces, as the generator writes them.
LEMMA PieceMovesAre ==
  ASSUME NEW b, NEW t, NEW q
  PROVE  (\E m \in PieceMoves(b, t) : q = RuleMoveIn(m, setup))
           <=> \E s \in b.bb[Piece(b.side, t)] : LandsOn(b, t, s, q)
<1> DEFINE I(m) == RuleMoveIn(m, setup)
           S(s, to) == Simple(s, to, Piece(b.side, t), to \in b.occ[1 - b.side])
           T(s) == Attacks(t, s, All(b)) \ b.occ[b.side]
<1>1. PieceMoves(b, t) = UNION {{S(s, to) : to \in T(s)} : s \in b.bb[Piece(b.side, t)]} BY DEF PieceMoves, All
<1> HIDE DEF I, S, T
<1>2. (\E m \in PieceMoves(b, t) : q = I(m)) <=> \E s \in b.bb[Piece(b.side, t)] : \E to \in T(s) : q = I(S(s, to)) BY <1>1
<1> QED BY <1>2, Zenon DEF I, S, T, LandsOn

\* The moves of the generator are the candidates of the rules.
LEMMA GeneratedAre ==
  ASSUME NEW b, Ready(b), HomeSetup, Cardinality(b.bb[Piece(b.side, King)]) = 1, NEW p, p = PositionOf(b, setup), NEW q
  PROVE  (\E m \in generate_moves(b) : q = RuleMoveIn(m, setup)) <=> q \in Rules!Candidates(p)
<1> DEFINE c == b.side
           I(m) == RuleMoveIn(m, setup)
           G(k) == \E s \in b.bb[Piece(c, k)] : StepFrom(p, s, q)
           Ps == UNION {PawnMoves(b, s, c) : s \in b.bb[Piece(c, Pawn)]}
<1>1. b.bb \in Boards /\ c \in {white, black} /\ Disjoint(b.bb) BY DEF Ready
<1>2. p.board = mailbox_of(b.bb) /\ p.turn = c BY PositionTerms
<1>3. \A k \in 0..5 : b.bb[Piece(c, k)] \subseteq Squares BY <1>1, ManIs DEF Boards
<1>4. \A s \in Squares : Rules!Ours(p.board, s, p.turn) <=> \E k \in 0..5 : s \in b.bb[Piece(c, k)] BY <1>1, <1>2, OursAre
<1>5. (IF b.side = white THEN WhitePawnMoves(b) ELSE BlackPawnMoves(b)) = Ps
  BY <1>1 DEF WhitePawnMoves, BlackPawnMoves, white, black
<1>6. (\E m \in Ps : q = I(m)) <=> G(0)
  <2>1. \A s \in b.bb[Piece(c, Pawn)] : (\E m \in PawnMoves(b, s, c) : q = I(m)) <=> StepFrom(p, s, q) BY PawnImage
  <2>2. (\E m \in Ps : q = I(m)) <=> \E s \in b.bb[Piece(c, Pawn)] : \E m \in PawnMoves(b, s, c) : q = I(m)
    <3> HIDE DEF I
    <3> QED OBVIOUS
  <2> HIDE DEF I, Ps
  <2> QED BY <2>1, <2>2 DEF Pawn
<1>7. ASSUME NEW k \in 1..5 PROVE (\E m \in PieceMoves(b, k) : q = I(m)) <=> G(k)
  <2>1. (\E m \in PieceMoves(b, k) : q = RuleMoveIn(m, setup)) <=> \E s \in b.bb[Piece(b.side, k)] : LandsOn(b, k, s, q)
    BY PieceMovesAre
  <2>2. \A s \in b.bb[Piece(b.side, k)] : StepFrom(p, s, q) <=> LandsOn(b, k, s, q) BY PieceStepsAre
  <2> QED BY <2>1, <2>2, Zenon
<1>8. (\E m \in CastlingMoves(b) : q = I(m)) <=> \E r : CastlingWith(p, r, q) BY CastlingImage
<1>9. {Knight, Bishop, Rook, Queen, King} = 1..5 BY DEF Knight, Bishop, Rook, Queen, King
<1>10. \A m : m \in generate_moves(b) <=> m \in Ps \/ m \in CastlingMoves(b) \/ \E k \in 1..5 : m \in PieceMoves(b, k)
  BY <1>5, <1>9 DEF generate_moves
<1> HIDE DEF I, G, Ps
<1>11. (\E m \in generate_moves(b) : q = I(m)) <=> G(0) \/ (\E r : CastlingWith(p, r, q)) \/ \E k \in 1..5 : G(k)
  BY <1>6, <1>7, <1>8, <1>10
<1>12. q \in Rules!Candidates(p) <=> (\E s \in Squares : Rules!Ours(p.board, s, p.turn) /\ StepFrom(p, s, q))
                                      \/ \E r : CastlingWith(p, r, q)
  BY CandidatesAre
<1>13. (\E s \in Squares : Rules!Ours(p.board, s, p.turn) /\ StepFrom(p, s, q)) <=> \E k \in 0..5 : G(k)
  <2>1. \A k : G(k) <=> \E s \in b.bb[Piece(c, k)] : StepFrom(p, s, q) BY DEF G
  <2> HIDE DEF c
  <2> QED BY <1>3, <1>4, <2>1
<1>14. (\E k \in 0..5 : G(k)) <=> G(0) \/ \E k \in 1..5 : G(k)
  <2>1. \A k : k \in 0..5 <=> k = 0 \/ k \in 1..5 OBVIOUS
  <2> QED BY <2>1
<1>15. (\E m \in generate_moves(b) : q = I(m)) <=> q \in Rules!Candidates(p) BY <1>11, <1>12, <1>13, <1>14
<1> QED BY <1>15 DEF I

\* A make_move on any board reaches the board of the move.
LEMMA MadeReaches ==
  ASSUME NEW b \in GameBoards, BoardOK(b, setup), NEW m, Fit(b, m)
  PROVE  Reached(b, m, Made(b, m))
<1> DEFINE x == Made(b, m)
<1>1. BoardOK(x, setup) /\ Turns(b, m, x.bb) BY GameMake, GameTurns
<1>2. x.side = 1 - b.side /\ x.ep = IF m.double THEN EpSquare(x.bb, b.side, m.to) ELSE no_sq
  BY DEF Made, MadeTaking, MadeOn, MadeFrom
<1> HIDE DEF x
<1>3. Reached(b, m, x) BY <1>1, <1>2 DEF Reached, BoardOK
<1> QED BY <1>3 DEF x

\* The fields of the game's board in a thread's.
AsGame(b) == [bb |-> b.bb, occ |-> b.occ, side |-> b.side, ep |-> b.ep, castle |-> b.castle, fifty |-> b.fifty, key |-> b.key]

\* They make a sound board of the game.
LEMMA AsGameIs ==
  ASSUME NEW b, ThreadOK(b, setup)
  PROVE  /\ AsGame(b) \in GameBoards /\ BoardOK(AsGame(b), setup)
         /\ AsGame(b).bb = b.bb /\ AsGame(b).side = b.side /\ AsGame(b).castle = b.castle /\ AsGame(b).ep = b.ep
<1> DEFINE x == AsGame(b)
<1>1. /\ x.bb = b.bb /\ x.occ = b.occ /\ x.side = b.side /\ x.ep = b.ep /\ x.castle = b.castle /\ x.fifty = b.fifty
      /\ x.key = b.key
  BY DEF AsGame
<1>2. x \in GameBoards BY DEF AsGame, GameBoards, ThreadOK, ThreadBoards
<1> HIDE DEF x
<1>3. BoardOK(b, setup) BY DEF ThreadOK
<1>4. EpSound(x) BY <1>1, <1>3 DEF BoardOK, EpSound
<1>5. RightsSound(x, setup) BY <1>1, <1>3 DEF BoardOK, RightsSound
<1>6. generate_hash_key(x) = generate_hash_key(b) BY <1>1 DEF generate_hash_key
<1>7. BoardOK(x, setup) BY <1>1, <1>3, <1>4, <1>5, <1>6 DEF BoardOK
<1> QED BY <1>1, <1>2, <1>7 DEF x

\* A make_move of a thread's board reaches the board of the move.
LEMMA ThreadMade ==
  ASSUME NEW b, ThreadOK(b, setup), NEW m, Fit(b, m)
  PROVE  Reached(b, m, Made(b, m))
<1> DEFINE x == AsGame(b)
<1>1. x \in GameBoards /\ BoardOK(x, setup) /\ x.bb = b.bb /\ x.side = b.side /\ x.castle = b.castle /\ x.ep = b.ep
  BY AsGameIs
<1> HIDE DEF x
<1>2. Fit(x, m) BY <1>1, FitsAlike
<1>3. Reached(x, m, Made(x, m)) BY <1>1, <1>2, MadeReaches
<1>4. Turns(b, m, Made(x, m).bb) BY <1>1, <1>3, FitsAlike DEF Reached
<1>5. /\ Made(b, m).bb = Made(x, m).bb /\ Made(b, m).side = Made(x, m).side /\ Made(b, m).occ = Made(x, m).occ
      /\ Made(b, m).ep = Made(x, m).ep
  BY <1>1 DEF Made, MadeTaking, MadeOn, MadeFrom, MadeBoards
<1> HIDE DEF Made
<1> QED BY <1>1, <1>3, <1>4, <1>5 DEF Reached

\* The make of a generated move is legal exactly when the rules do not leave the king in check.
LEMMA MakeJudges ==
  ASSUME NEW b, Ready(b), HomeSetup, IsLegal(b), NEW m \in generate_moves(b), Reached(b, m, Made(b, m))
  PROVE  make_move(b, m).legal <=> ~Rules!InCheck(Rules!Moved(PositionOf(b, setup), RuleMoveIn(m, setup)), b.side)
<1> DEFINE x == Made(b, m)
<1>1. make_move(b, m).legal <=> ~LeavesKing(x) BY DEF make_move, Judged, Kept
<1> HIDE DEF x
<1>2. FitFrom(b, m) /\ Goes(b, m) BY GeneratedFit, GeneratedGoes DEF Fit
<1>3. Turns(b, m, x.bb) /\ Reached(b, m, x) BY DEF Reached, x
<1>4. LeavesKing(x) <=> ~Saved(b, x.bb) BY <1>2, <1>3, TestIs
<1>5. Saved(b, x.bb) <=> ~Rules!InCheck(Rules!Moved(PositionOf(b, setup), RuleMoveIn(m, setup)), b.side)
  BY <1>2, <1>3, LegalMakes
<1> QED BY <1>1, <1>4, <1>5

\* The generated moves that their make accepts, as the rules name them, are the legal moves of the rules.
LEMMA LegalMovesAre ==
  ASSUME NEW b, Ready(b), HomeSetup, IsLegal(b), \A m \in generate_moves(b) : Reached(b, m, Made(b, m))
  PROVE  {RuleMoveIn(m, setup) : m \in {k \in generate_moves(b) : make_move(b, k).legal}} = Rules!LegalMoves(PositionOf(b, setup))
<1> DEFINE p == PositionOf(b, setup)
           I(m) == RuleMoveIn(m, setup)
           Bad(q) == Rules!InCheck(Rules!Moved(p, q), p.turn)
           L(m) == make_move(b, m).legal
<1>1. b.side \in {white, black} BY DEF Ready
<1>2. Cardinality(b.bb[Piece(b.side, King)]) = 1 BY <1>1 DEF IsLegal
<1>3. p.turn = b.side BY PositionTerms
<1>4. \A m \in generate_moves(b) : L(m) <=> ~Bad(I(m)) BY <1>3, MakeJudges
<1>5. \A q : (\E m \in generate_moves(b) : q = I(m)) <=> q \in Rules!Candidates(p) BY <1>2, GeneratedAre
<1>6. Rules!LegalMoves(p) = {q \in Rules!Candidates(p) : ~Bad(q)} BY DEF Rules!LegalMoves
<1> HIDE DEF p, I, Bad, L
<1>7. {I(m) : m \in {k \in generate_moves(b) : L(k)}} = Rules!LegalMoves(p) BY <1>4, <1>5, <1>6
<1> QED BY <1>7 DEF p, I, L

(***************************************************************************)
(* The moves of a position and the game are those of the rules.            *)
(***************************************************************************)
\* A board gives the moves of the rules: the generated moves that their make accepts are the legal ones.
GivesMoves(b) ==
  {RuleMove(m) : m \in {k \in generate_moves(b) : make_move(b, k).legal}} = Rules!LegalMoves(PosOf(b))
MovesAreLawful == GivesMoves(Here)

\* The names of the model for the position and the move of the rules.
LEMMA NamedAlike ==
  /\ \A b : PosOf(b) = PositionOf(b, setup)
  /\ \A m : RuleMove(m) = RuleMoveIn(m, setup)
BY DEF PosOf, PositionOf, RookSquares, RuleMove, RuleMoveIn, castle_rook_sq

\* A board of the search.
LEMMA ThreadGives ==
  ASSUME NEW b, ThreadOK(b, setup), HomeSetup, IsLegal(b)
  PROVE  GivesMoves(b)
<1>1. Ready(b) BY ThreadIsReady
<1>2. \A m \in generate_moves(b) : Reached(b, m, Made(b, m)) BY <1>1, GeneratedFit, ThreadMade
<1>3. {RuleMoveIn(m, setup) : m \in {k \in generate_moves(b) : make_move(b, k).legal}} = Rules!LegalMoves(PositionOf(b, setup))
  BY <1>1, <1>2, LegalMovesAre
<1> QED BY <1>3, NamedAlike DEF GivesMoves

\* The board of the game.
LEMMA GameGives ==
  ASSUME NEW b \in GameBoards, BoardOK(b, setup), HomeSetup, IsLegal(b)
  PROVE  GivesMoves(b)
<1>1. Ready(b) BY GameIsReady
<1>2. \A m \in generate_moves(b) : Reached(b, m, Made(b, m)) BY <1>1, GeneratedFit, MadeReaches
<1>3. {RuleMoveIn(m, setup) : m \in {k \in generate_moves(b) : make_move(b, k).legal}} = Rules!LegalMoves(PositionOf(b, setup))
  BY <1>1, <1>2, LegalMovesAre
<1> QED BY <1>3, NamedAlike DEF GivesMoves

\* The thread's board, or the copy a search would start from, is sound and safe.
LEMMA HereIsThread ==
  ASSUME GameInv, LegalInv PROVE ThreadOK(Here, setup) /\ IsLegal(Here) /\ HomeSetup
<1>1. CASE searching BY <1>1, LegalNow DEF GameInv, Chain, Here, LegalPosition
<1>2. CASE ~searching
  <2>1. ThreadOK(copy_board_to_thread(g, repetition_table), setup) BY CopyIsThread DEF GameInv
  <2> QED BY <1>2, <2>1, LegalNow DEF GameInv, Here, LegalPosition
<1> QED BY <1>1, <1>2

\* In every position of the game and of the searches, in normal chess and in Chess960, the moves generate_moves lists and
\* make_move accepts are the legal moves of the rules of chess, promotions, castling and en passant included: none is
\* missing and none is added.
THEOREM LawfulMoves == Spec => []MovesAreLawful
<1>1. GameInv /\ LegalInv => MovesAreLawful BY HereIsThread, ThreadGives DEF MovesAreLawful
<1> QED BY <1>1, Invariant, PTL

\* The board that make_move leaves is the position the rules lead to.
LEMMA MadeFollows ==
  ASSUME NEW b \in GameBoards, BoardOK(b, setup), HomeSetup, IsLegal(b), NEW m \in generate_moves(b)
  PROVE  FollowsRules(b, m, Made(b, m), setup)
<1> DEFINE t == copy_board_to_thread(b, <<>>)
           undo == UndoOf(t, m)
           new == MovedBoards(b, m, undo)
           next == Made(b, m)
<1>1. /\ t.bb = b.bb /\ t.occ = b.occ /\ t.side = b.side /\ t.ep = b.ep /\ t.castle = b.castle /\ t.fifty = b.fifty
  BY DEF copy_board_to_thread
<1>2. b.bb \in Boards /\ b.side \in {white, black} /\ Disjoint(b.bb) BY DEF GameBoards, BoardOK
<1>3. ThreadOK(t, setup)
  <2>1. <<>> \in Seq(Keys) OBVIOUS
  <2> QED BY <2>1, CopyIsThread
<1> HIDE DEF t
<1>4. Ready(b) BY GameIsReady
<1>5. Fit(b, m) /\ FitFrom(b, m) /\ Goes(b, m) BY <1>4, GeneratedFit, GeneratedGoes DEF Fit
<1>6. Fit(t, m) /\ FitFrom(t, m) BY <1>1, <1>5, FitsAlike DEF Fit
<1>7. MovedBoards(t, m, undo) = new BY <1>1 DEF MovedBoards
<1>8. MadeBoards(b, m, VictimsOf(b, m)) = new
  <2>1. CASE FitPlain(b, m)
    <3>1. FitPlain(t, m) BY <1>1, <2>1 DEF FitPlain, PawnWay
    <3>2. Taking(t, m, undo.captured_piece, undo.captured_square) BY <1>3, <1>6, <3>1, VictimIs
    <3>3. Taking(b, m, undo.captured_piece, undo.captured_square) BY <1>1, <3>2 DEF Taking
    <3> HIDE DEF undo
    <3> QED BY <1>2, <1>5, <2>1, <3>3, PlainSameBoards
  <2>2. CASE FitCastling(b, m)
    <3>1. undo.captured_piece = None BY <2>2 DEF UndoOf, FitCastling
    <3> HIDE DEF undo
    <3> QED BY <1>2, <1>5, <2>2, <3>1, CastlingSame
  <2> QED BY <1>5, <2>1, <2>2 DEF Fit
<1>9. /\ next.bb = new /\ next.side = 1 - b.side /\ next.castle = RightsLeft(b.castle, m)
      /\ next.ep = (IF m.double THEN EpSquare(next.bb, b.side, m.to) ELSE no_sq)
      /\ next.fifty = (IF Type(m.piece) = Pawn \/ m.capture THEN 0 ELSE b.fifty + 1)
  <2> HIDE DEF new
  <2> QED BY <1>8 DEF Made, MadeTaking, MadeOn, MadeFrom, VictimsOf
<1>10. Leads(t, m, next)
  <2> HIDE DEF next, new
  <2> QED BY <1>1, <1>7, <1>9 DEF Leads, undo
<1> HIDE DEF next, new, undo
<1>11. Sole(t)
  <2>1. Cardinality(t.bb[Piece(t.side, King)]) = 1 BY <1>1, <1>2 DEF IsLegal
  <2>2. t.bb \in Boards /\ t.side \in {white, black} BY <1>1, <1>2
  <2> QED BY <2>1, <2>2, KingsAre DEF Sole
<1>12. FollowsRules(t, m, next, setup)
  <2>1. CASE FitPlain(b, m)
    <3>1. FitPlain(t, m) BY <1>1, <2>1 DEF FitPlain, PawnWay
    <3>2. m.to \notin t.bb[Piece(1 - t.side, King)] BY <1>1, <1>4, <1>5, <2>1, KingIsSpared
    <3> QED BY <1>3, <1>6, <1>10, <1>11, <3>1, <3>2, PlainFollows
  <2>2. CASE FitCastling(b, m)
    <3>1. FitCastling(t, m) BY <1>1, <2>2 DEF FitCastling
    <3> QED BY <1>3, <1>6, <1>10, <1>11, <3>1, CastlingFollows
  <2> QED BY <1>5, <2>1, <2>2 DEF Fit
<1>13. PositionOf(t, setup) = PositionOf(b, setup) BY <1>1 DEF PositionOf
<1> QED BY <1>12, <1>13 DEF FollowsRules, next

\* A move of the game is a move of the rules.
LEMMA PlayIsLawful ==
  ASSUME GameInv, LegalInv, PlayAny
  PROVE  /\ PosOf(g)'.turn = 1 - PosOf(g).turn
         /\ \E q \in Rules!LegalMoves(PosOf(g)) : PosOf(g)' = Rules!After(PosOf(g), q)
<1>0. PICK text : \E k \in parse_move(g, text) : Play(make_move(g, k)) BY DEF PlayAny
<1>1. PICK m \in parse_move(g, text) : Play(make_move(g, m)) BY <1>0
<1>2. m \in generate_moves(g) BY DEF parse_move, ReadAs
<1>3. PICK r : r = make_move(g, m) OBVIOUS
<1>4. r.legal /\ g' = r.board /\ setup' = setup BY <1>1, <1>3 DEF Play
<1> DEFINE x == Made(g, m)
<1>5. r.legal => r.board = x BY <1>3 DEF make_move, Judged, Kept
<1>6. g \in GameBoards /\ BoardOK(g, setup) /\ HomeSetup /\ IsLegal(g) BY DEF GameInv, LegalInv, Safe
<1>7. FollowsRules(g, m, x, setup) BY <1>2, <1>6, MadeFollows
<1>8. x.side = 1 - g.side BY DEF Made, MadeTaking, MadeOn, MadeFrom
<1> HIDE DEF x
<1>9. g' = x BY <1>4, <1>5
<1>10. PosOf(g)' = PositionOf(x, setup)
  BY <1>4, <1>9 DEF PosOf, PositionOf, RookSquares, castle_rook_sq
<1>11. PosOf(g) = PositionOf(g, setup) /\ RuleMove(m) = RuleMoveIn(m, setup) BY NamedAlike
<1>12. PosOf(g)' = Rules!After(PosOf(g), RuleMove(m)) BY <1>7, <1>10, <1>11 DEF FollowsRules
<1>13. PosOf(g)'.turn = 1 - PosOf(g).turn BY <1>8, <1>10, <1>11 DEF PositionOf
<1>14. RuleMove(m) \in Rules!LegalMoves(PosOf(g))
  <2>1. GivesMoves(g) BY <1>6, GameGives
  <2>2. m \in {k \in generate_moves(g) : make_move(g, k).legal} BY <1>2, <1>3, <1>4
  <2> QED BY <2>1, <2>2 DEF GivesMoves
<1> QED BY <1>12, <1>13, <1>14

\* The other steps leave the position of the game alone.
LEMMA OthersWait ==
  ASSUME [Next]_vars, ~PlayAny PROVE PosOf(g)' = PosOf(g)
<1>1. UNCHANGED <<g, setup>>
  BY DEF Next, vars, StartSearch, EndSearch, QueueStart, QueueNext, QueueGives, QuietsOff, QueueIs, Try, Step, StepIn, StepRefused,
     StepInNull, StepOut, StepOutNull, Down, Back, game_vars
<1> QED BY <1>1 DEF PosOf, castle_rook_sq

\* The game starts from the position its opening sets up.
LEMMA StartIsLawful ==
  ASSUME Init PROVE PosOf(g) \in {SetUpPos(parse_fen(o.fen, o.c960)) : o \in Openings}
<1>1. opening \in Openings BY DEF Init
<1>2. PICK f : f = parse_fen(opening.fen, opening.c960) /\ setup = f.setup /\ g = f.board BY DEF Init
<1>3. PosOf(g) = SetUpPos(f) BY <1>2 DEF PosOf, SetUpPos, castle_rook_sq
<1> QED BY <1>1, <1>2, <1>3

\* The game implements the rules of chess: every game the engine follows (parse_position, parse_move, make_move) starts
\* from the position its FEN sets up and goes on by legal moves of the rules to the positions they lead to.
THEOREM Refinement == Spec => PlaysByRules
<1>1. Init => Rules!Init BY StartIsLawful DEF Rules!Init
<1>2. GameInv /\ LegalInv /\ [Next]_vars => [Rules!Next]_(PosOf(g))
  <2> SUFFICES ASSUME GameInv, LegalInv, [Next]_vars PROVE Rules!Next \/ PosOf(g)' = PosOf(g)
    OBVIOUS
  <2>1. CASE PlayAny BY <2>1, PlayIsLawful DEF Rules!Next
  <2>2. CASE ~PlayAny BY <2>2, OthersWait
  <2> QED BY <2>1, <2>2
<1> QED BY <1>1, <1>2, Invariant, PTL DEF Spec, PlaysByRules, Rules!Spec

\* The men on the squares of the board are on it; the king stands somewhere.
LEMMA OurKingStands ==
  ASSUME NEW b, Ready(b), NEW c \in {white, black}, NEW k \in b.bb[Piece(c, King)]
  PROVE  k \in Squares /\ k \in All(b) /\ k \in Full(b.bb) /\ All(b) = Full(b.bb) /\ All(b) \subseteq Squares
<1>1. Piece(c, King) \in Pieces BY PieceOf DEF King
<1>2. k \in Squares BY <1>1 DEF Ready, Boards
<1>3. All(b) = Full(b.bb) BY AllIsFull DEF Ready
<1> QED BY <1>1, <1>2, <1>3 DEF Full, Free

\* All men of a side stand where they stood, but for those on one of two squares.
StayBut(bb, new, by, t, vs) == \A p \in Men(by) : \A s : s \in new[p] <=> s \in bb[p] /\ s # t /\ s # vs

\* An enemy man stands after a move that neither takes it nor lands on it.
LEMMA EnemyStays ==
  ASSUME NEW bb, NEW new, NEW by \in {white, black}, NEW t, NEW vs, StayBut(bb, new, by, t, vs)
  PROVE  /\ \A s, u : u \in Leaps(bb, by, s) /\ u # t /\ u # vs => u \in Leaps(new, by, s)
         /\ \A l, u : u \in Runs(bb, by, l) /\ u # t /\ u # vs => u \in Runs(new, by, l)
<1>1. \A q \in {Pawn, Knight, Bishop, Rook, Queen, King} : Piece(by, q) \in Men(by)
  BY DEF Men, Pawn, Knight, Bishop, Rook, Queen, King
<1>2. \A q \in {Pawn, Knight, Bishop, Rook, Queen, King} : \A s : s \in new[Piece(by, q)] <=> s \in bb[Piece(by, q)] /\ s # t /\ s # vs
  BY <1>1 DEF StayBut
<1>3. \A s, u : u \in Leaps(bb, by, s) /\ u # t /\ u # vs => u \in Leaps(new, by, s) BY <1>2 DEF Leaps
<1>4. \A l, u : u \in Runs(bb, by, l) /\ u # t /\ u # vs => u \in Runs(new, by, l) BY <1>2 DEF Runs
<1> QED BY <1>3, <1>4

\* A move of a man other than the king after which no enemy sees it guards it (the converse of GuardedIsSafe).
LEMMA SafeIsGuarded ==
  ASSUME NEW b, Ready(b), NEW m, NEW v, NEW vs, PlainMove(b, m, v, vs), vs = m.to \/ vs = None,
         NEW new, Shifted(b.bb, new, m, vs), NEW k \in b.bb[Piece(b.side, King)], ~Assails(new, 1 - b.side, k, Full(new))
  PROVE  Guarded(b, k, m)
<1> DEFINE by == 1 - b.side
           f == m.from
           t == m.to
<1>1. by \in {white, black} /\ b.side \in {white, black} BY DEF Ready, white, black
<1>2. /\ \A s \in Squares : s \in Full(new) <=> s = t \/ (s # f /\ s # vs /\ s \in Full(b.bb))
      /\ \A p \in Men(by) : \A s : s \in new[p] <=> s \in b.bb[p] /\ s # t /\ s # vs
  BY ShiftedAre
<1>3. f \in Squares /\ t \in Squares /\ f # t BY DEF PlainMove
<1>4. k \in Squares /\ All(b) = Full(b.bb) /\ All(b) \subseteq Squares BY <1>1, OurKingStands
<1>5. \A u \in Squares : u = vs => u = t BY DEF None, Squares
<1>6. Leaps(new, by, k) = {} /\ ~Aims(new, by, k, Full(new)) BY DEF Assails
<1> HIDE DEF by, f, t
<1>7. /\ \A s, u : u \in Leaps(b.bb, by, s) /\ u # t /\ u # vs => u \in Leaps(new, by, s)
      /\ \A l, u : u \in Runs(b.bb, by, l) /\ u # t /\ u # vs => u \in Runs(new, by, l)
  <2>1. StayBut(b.bb, new, by, t, vs) BY <1>2 DEF StayBut
  <2> QED BY <1>1, <2>1, EnemyStays
<1>8. \A u \in Leaps(b.bb, by, k) : u = t
  <2>1. \A u \in Leaps(b.bb, by, k) : u = t \/ u = vs BY <1>6, <1>7
  <2>2. Leaps(b.bb, by, k) \subseteq Squares
    <3>1. \A q \in {Pawn, Knight, King} : Piece(by, q) \in Pieces BY <1>1, PieceOf DEF Pawn, Knight, King
    <3>2. \A q \in {Pawn, Knight, King} : b.bb[Piece(by, q)] \subseteq Squares BY <3>1 DEF Ready, Boards
    <3> QED BY <3>2 DEF Leaps
  <2> QED BY <1>5, <2>1, <2>2
<1>9. ASSUME NEW l \in 1..4, NEW e \in Runs(b.bb, by, l), e \in Squares, e # t, OnLine(l, k, e)
      PROVE  \E u \in Full(new) : u \in Squares /\ OnLine(l, k, u) /\ Inside(u, k, e)
  <2>1. e \in Runs(new, by, l) BY <1>5, <1>7, <1>9
  <2>2. ~Sees(l, k, e, Full(new)) BY <1>6, <2>1 DEF Aims
  <2> QED BY <1>9, <2>2 DEF Sees, Clear
<1>10. ASSUME NEW l \in 1..4, NEW e \in Runs(b.bb, by, l), Sees(l, k, e, All(b)), e # t
       PROVE  OnLine(l, k, t) /\ Inside(t, k, e)
  <2>1. e \in Squares /\ OnLine(l, k, e) /\ \A u \in All(b) : u \in Squares /\ OnLine(l, k, u) => ~Inside(u, k, e)
    BY <1>10 DEF Sees, Clear
  <2>2. PICK u \in Full(new) : u \in Squares /\ OnLine(l, k, u) /\ Inside(u, k, e) BY <1>9, <1>10, <2>1
  <2>3. u \notin Full(b.bb) BY <1>4, <2>1, <2>2
  <2> QED BY <1>2, <2>2, <2>3
<1>11. ASSUME NEW l \in 1..4, NEW e \in Runs(b.bb, by, l), e \in Squares, Pins(l, k, e, f, All(b))
       PROVE  OnLine(l, f, t)
  <2>1. OnLine(l, k, e) /\ OnLine(l, k, f) /\ Inside(f, k, e)
        /\ \A u \in All(b) : u \in Squares /\ OnLine(l, k, u) /\ Inside(u, k, e) => u = f
    BY <1>11 DEF Pins
  <2>2. e \in Int /\ f \in Int /\ k \in Int BY <1>3, <1>4, <1>11 DEF Squares
  <2>3. e # f BY <2>1, <2>2 DEF Inside
  <2>4. CASE e = t BY <1>3, <2>1, <2>4 DEF OnLine
  <2>5. CASE e # t
    <3>1. PICK u \in Full(new) : u \in Squares /\ OnLine(l, k, u) /\ Inside(u, k, e) BY <1>9, <1>11, <2>1, <2>5
    <3>2. u = t BY <1>2, <1>4, <2>1, <3>1
    <3> QED BY <1>3, <2>1, <3>1, <3>2 DEF OnLine
  <2> QED BY <2>4, <2>5
<1> QED BY <1>8, <1>10, <1>11 DEF Guarded, by, f, t

\* What attacks a square: a leaper, or a slider that sees it.
Strikes(b, s, u) ==
  u \in Leaps(b.bb, 1 - b.side, s) \/ \E l \in 1..4 : u \in Runs(b.bb, 1 - b.side, l) /\ Sees(l, s, u, All(b))

\* attackers_with gives them.
LEMMA StrikersAre ==
  ASSUME NEW b, b.side \in {white, black}, NEW s \in Squares, NEW u
  PROVE  u \in attackers_with(b, s, All(b)) <=> Strikes(b, s, u)
<1> DEFINE by == 1 - b.side
           occ == All(b)
<1>1. 1 - by = b.side BY DEF white, black
<1> HIDE DEF by, occ
<1>2. u \in attackers_with(b, s, occ) <=>
        \/ u \in pawn_attacks[b.side][s] \cap b.bb[Piece(by, Pawn)] \/ u \in knight_attacks[s] \cap b.bb[Piece(by, Knight)]
        \/ u \in king_attacks[s] \cap b.bb[Piece(by, King)]
        \/ u \in slider_pair(s, occ)[1] \cap (b.bb[Piece(by, Bishop)] \cup b.bb[Piece(by, Queen)])
        \/ u \in slider_pair(s, occ)[2] \cap (b.bb[Piece(by, Rook)] \cup b.bb[Piece(by, Queen)])
  BY DEF attackers_with, AttackersOn, Theirs_, Diagonals, Straights, by
<1>3. u \in Leaps(b.bb, by, s) <=>
        \/ u \in pawn_attacks[b.side][s] \cap b.bb[Piece(by, Pawn)] \/ u \in knight_attacks[s] \cap b.bb[Piece(by, Knight)]
        \/ u \in king_attacks[s] \cap b.bb[Piece(by, King)]
  BY <1>1 DEF Leaps
<1>4. /\ u \in slider_pair(s, occ)[1] <=> Sees(1, s, u, occ) \/ Sees(3, s, u, occ)
      /\ u \in slider_pair(s, occ)[2] <=> Sees(2, s, u, occ) \/ Sees(4, s, u, occ)
  <2>1. \A i \in {1, 2} : u \in slider_pair(s, occ)[i] <=> \E l \in {i, i + 2} : Sees(l, s, u, occ) BY SliderSees
  <2> QED BY <2>1
<1>5. (\E l \in 1..4 : u \in Runs(b.bb, by, l) /\ Sees(l, s, u, occ)) <=>
        \/ (Sees(1, s, u, occ) \/ Sees(3, s, u, occ)) /\ u \in b.bb[Piece(by, Bishop)] \cup b.bb[Piece(by, Queen)]
        \/ (Sees(2, s, u, occ) \/ Sees(4, s, u, occ)) /\ u \in b.bb[Piece(by, Rook)] \cup b.bb[Piece(by, Queen)]
  <2>1. 1..4 = {1, 2, 3, 4} OBVIOUS
  <2> QED BY <2>1, RunsAre
<1> QED BY <1>2, <1>3, <1>4, <1>5 DEF Strikes, by, occ

(***************************************************************************)
(* What the ways to a move are compared with: the rules spare the king     *)
(* after it.                                                               *)
(***************************************************************************)
Spared(b, m) == ~Rules!InCheck(Rules!Moved(PositionOf(b, setup), RuleMoveIn(m, setup)), b.side)
Tried(b, m) == MovedBoards(b, m, UndoOf(b, m))

\* The board after a move tells.
LEMMA SparedIs ==
  ASSUME NEW b, ThreadOK(b, setup), IsLegal(b), NEW m, Fit(b, m), Goes(b, m)
  PROVE  Turns(b, m, Tried(b, m)) /\ (Saved(b, Tried(b, m)) <=> Spared(b, m))
<1>1. Turns(b, m, Tried(b, m)) BY ThreadTurns DEF Tried
<1>2. Ready(b) /\ FitFrom(b, m) BY ThreadIsReady DEF Fit
<1> QED BY <1>1, <1>2, LegalMakes DEF Spared

\* The fields of the result of a make.
LEMMA VerdictIs ==
  ASSUME NEW made, NEW m, NEW undo, NEW legal \in BOOLEAN
  PROVE  /\ Verdict(made, m, undo, legal).made = legal
         /\ legal => Verdict(made, m, undo, legal).td = [made EXCEPT !.plies_from_null = made.plies_from_null + 1]
BY DEF Verdict

\* So does the make of the search that tests it, which gives that board.
LEMMA TryTells ==
  ASSUME NEW b, ThreadOK(b, setup), IsLegal(b), NEW m, Fit(b, m), Goes(b, m), NEW r, r = td_make_move(b, m, FALSE)
  PROVE  /\ r.made <=> Spared(b, m)
         /\ r.made => r.td.bb = Tried(b, m) /\ r.td.side = 1 - b.side /\ \A c \in {white, black} : r.td.occ[c] = Occupied(r.td.bb, c)
<1> DEFINE undo == UndoOf(b, m)
           new == MovedBoards(b, m, undo)
           made == MadeMove(b, m, undo, new)
           legal == FALSE \/ ~LeavesKing(made)
<1>1. b \in ThreadBoards /\ Ready(b) /\ FitFrom(b, m) BY ThreadIsReady DEF ThreadOK, Fit
<1>2. r = Verdict(made, m, undo, legal) BY DEF td_make_move, MakeWith, Tested
<1>2a. legal \in BOOLEAN BY DEF LeavesKing, is_square_attacked
<1>3. ThreadOK(made, setup) BY MakeRestores DEF Restores
<1>4. Turns(b, m, new) BY ThreadTurns
<1> HIDE DEF undo, new, legal
<1>5. /\ made.bb = new /\ made.side = 1 - b.side
      /\ made.ep = (IF m.double THEN EpSquare(new, b.side, m.to) ELSE no_sq)
      /\ DOMAIN made = DOMAIN b
  BY <1>1 DEF MadeMove, MadeBoard, ThreadBoards
<1> HIDE DEF made
<1>6. \A c \in {white, black} : made.occ[c] = Occupied(made.bb, c) BY <1>3 DEF ThreadOK, BoardOK
<1>7. Reached(b, m, made) BY <1>4, <1>5, <1>6 DEF Reached
<1>8. LeavesKing(made) <=> ~Saved(b, new) BY <1>1, <1>5, <1>7, TestIs
<1>9. Saved(b, new) <=> Spared(b, m) BY SparedIs DEF Tried, new, undo
<1>10. r.made <=> ~LeavesKing(made)
  <2>1. Verdict(made, m, undo, legal).made = legal BY <1>2a, VerdictIs
  <2>2. r.made = legal BY <1>2, <2>1, Zenon
  <2> QED BY <2>2 DEF legal
<1>11. legal => r.td = [made EXCEPT !.plies_from_null = made.plies_from_null + 1]
  <2>1. legal => Verdict(made, m, undo, legal).td = [made EXCEPT !.plies_from_null = made.plies_from_null + 1] BY <1>2a, VerdictIs
  <2> QED BY <1>2, <2>1, Zenon
<1>12. legal => r.td.bb = made.bb /\ r.td.side = made.side /\ r.td.occ = made.occ
  <2>1. {"bb", "occ", "side"} \subseteq DOMAIN b BY <1>1 DEF ThreadBoards
  <2> QED BY <1>5, <1>11, <2>1
<1> QED BY <1>5, <1>6, <1>8, <1>9, <1>10, <1>12 DEF legal, Tried, new, undo

\* ... and the make of the game.
LEMMA MakeTells ==
  ASSUME NEW b, ThreadOK(b, setup), HomeSetup, IsLegal(b), NEW m \in generate_moves(b)
  PROVE  make_move(b, m).legal <=> Spared(b, m)
<1>1. Ready(b) BY ThreadIsReady
<1>2. Reached(b, m, Made(b, m)) BY <1>1, GeneratedFit, ThreadMade
<1> QED BY <1>1, <1>2, MakeJudges DEF Spared

\* A spared move that does not castle, by a man other than the king, other than en passant, guards the king.
LEMMA SparedIsGuarded ==
  ASSUME NEW b, ThreadOK(b, setup), IsLegal(b), NEW m, FitFrom(b, m), FitPlain(b, m), Goes(b, m), m.piece # Piece(b.side, King), ~m.enpass,
         Spared(b, m), NEW k \in b.bb[Piece(b.side, King)]
  PROVE  Guarded(b, k, m)
<1> DEFINE new == Tried(b, m)
<1>1. Ready(b) /\ Fit(b, m) BY ThreadIsReady DEF Fit
<1>2. Turns(b, m, new) /\ Saved(b, new) BY <1>1, SparedIs
<1> HIDE DEF new
<1>3. PICK v, vs : Taking(b, m, v, vs) /\ Shifted(b.bb, new, m, vs) BY <1>2 DEF Turns, FitPlain, FitCastling
<1>4. PlainMove(b, m, v, vs) BY <1>1, <1>3, PlainFacts DEF Ready
<1>5. vs = m.to \/ vs = None BY <1>3 DEF Taking
<1>6. PICK x \in new[Piece(b.side, King)] : ~Assails(new, 1 - b.side, x, Full(new)) BY <1>2 DEF Saved
<1>7. k \in new[Piece(b.side, King)] BY <1>1, <1>3, <1>4, KingRemains
<1>8. x = k
  <2>1. new \in Boards /\ Disjoint(new) /\ OneKingEach(new)
    BY <1>1, <1>2, TurnedApart, MenStay
  <2>2. b.side \in {white, black} BY <1>1 DEF Ready
  <2>3. Cardinality(new[Piece(b.side, King)]) = 1 BY <2>1, <2>2 DEF OneKingEach
  <2> QED BY <1>6, <1>7, <2>1, <2>2, <2>3, KingsAre
<1> QED BY <1>1, <1>3, <1>4, <1>5, <1>6, <1>8, SafeIsGuarded

\* Enemy men are on the board.
LEMMA EnemiesStand ==
  ASSUME NEW b, Ready(b), NEW s
  PROVE  /\ \A u \in Leaps(b.bb, 1 - b.side, s) : u \in Squares /\ u \in All(b) /\ u \in b.occ[1 - b.side]
         /\ \A l : \A u \in Runs(b.bb, 1 - b.side, l) : u \in Squares /\ u \in All(b) /\ u \in b.occ[1 - b.side]
<1> DEFINE by == 1 - b.side
<1>1. by \in {white, black} BY DEF Ready, white, black
<1>2. \A q \in {Pawn, Knight, Bishop, Rook, Queen, King} : q \in 0..5 BY DEF Pawn, Knight, Bishop, Rook, Queen, King
<1>3. \A q \in {Pawn, Knight, Bishop, Rook, Queen, King} : Theirs_(b, q) \subseteq Squares /\ Theirs_(b, q) \subseteq b.occ[by]
  BY <1>2, TheirPieces
<1>4. \A q \in {Pawn, Knight, Bishop, Rook, Queen, King} : \A u \in b.bb[Piece(by, q)] : u \in Squares /\ u \in b.occ[by]
  BY <1>3 DEF Theirs_
<1>5. b.occ[by] \subseteq All(b) BY <1>1 DEF All
<1> HIDE DEF by
<1>6. \A u \in Leaps(b.bb, by, s) : u \in Squares /\ u \in b.occ[by] BY <1>4 DEF Leaps
<1>7. \A l : \A u \in Runs(b.bb, by, l) : u \in Squares /\ u \in b.occ[by] BY <1>4 DEF Runs
<1> QED BY <1>5, <1>6, <1>7 DEF by

\* A square of the line strictly between, and another beyond it in the same direction.
LEMMA SameWay ==
  ASSUME NEW k \in Squares, NEW x \in Squares, NEW y \in Squares, NEW t \in Squares, x # y, Inside(t, k, x), Inside(t, k, y)
  PROVE  Inside(x, k, y) \/ Inside(y, k, x)
BY DEF Inside, Squares

\* Two attackers of the king cannot be met by one move of another man.
LEMMA GuardedFromOne ==
  ASSUME NEW b, Ready(b), NEW k \in b.bb[Piece(b.side, King)], NEW m, m.to \in Squares, Guarded(b, k, m),
         NEW x, NEW y, Strikes(b, k, x), Strikes(b, k, y)
  PROVE  x = y
<1> DEFINE by == 1 - b.side
           t == m.to
<1>1. k \in Squares /\ All(b) \subseteq Squares BY OurKingStands DEF Ready
<1>2. /\ \A u \in Leaps(b.bb, by, k) : u \in Squares /\ u \in All(b)
      /\ \A l : \A u \in Runs(b.bb, by, l) : u \in Squares /\ u \in All(b)
  BY EnemiesStand
<1>3. /\ \A u \in Leaps(b.bb, by, k) : u = t
      /\ \A l \in 1..4 : \A e \in Runs(b.bb, by, l) : Sees(l, k, e, All(b)) => e = t \/ (OnLine(l, k, t) /\ Inside(t, k, e))
  BY DEF Guarded
<1>4. \A l, e, u : Sees(l, k, e, All(b)) /\ u \in All(b) /\ OnLine(l, k, u) => ~Inside(u, k, e)
  BY <1>1 DEF Sees, Clear
<1>5. \A u : Strikes(b, k, u) => u \in Squares /\ u \in All(b)
                /\ (u = t \/ \E l \in 1..4 : Sees(l, k, u, All(b)) /\ OnLine(l, k, t) /\ Inside(t, k, u))
  BY <1>2, <1>3 DEF Strikes
<1>6. ASSUME NEW u, NEW w, Strikes(b, k, u), Strikes(b, k, w), u = t, w # t PROVE FALSE
  BY <1>4, <1>5, <1>6
<1>7. ASSUME x # t, y # t, x # y PROVE FALSE
  <2>1. PICK l \in 1..4 : Sees(l, k, x, All(b)) /\ OnLine(l, k, t) /\ Inside(t, k, x) BY <1>5, <1>7
  <2>2. PICK j \in 1..4 : Sees(j, k, y, All(b)) /\ OnLine(j, k, t) /\ Inside(t, k, y) BY <1>5, <1>7
  <2>3. l = j BY <1>1, <2>1, <2>2, OneLine
  <2>4. x \in Squares /\ y \in Squares /\ x \in All(b) /\ y \in All(b) BY <1>5
  <2>5. Inside(x, k, y) \/ Inside(y, k, x) BY <1>1, <1>7, <2>1, <2>2, <2>4, SameWay
  <2>6. OnLine(l, k, x) /\ OnLine(l, k, y) BY <2>1, <2>2, <2>3 DEF Sees
  <2> QED BY <1>4, <2>1, <2>2, <2>3, <2>4, <2>5, <2>6
<1> QED BY <1>6, <1>7

\* A set whose members are the same has not several.
LEMMA NotSeveral ==
  ASSUME NEW S, \A x, y \in S : x = y
  PROVE  ~Several(S)
<1>1. CASE S = {} BY <1>1, FS_EmptySet DEF Several
<1>2. ASSUME NEW x \in S PROVE ~Several(S)
  <2>1. S = {x} BY <1>2
  <2>2. Cardinality(S) = 1 BY <2>1, FS_Singleton
  <2> QED BY <2>2 DEF Several
<1> QED BY <1>1, <1>2

\* The squares that answer a check (evasion_mask) hold the target of every move that guards the king: another man's move is
\* only legal in check when it takes the one that checks or steps between.
LEMMA GuardedAnswers ==
  ASSUME NEW b, Ready(b), IsLegal(b), NEW k \in b.bb[Piece(b.side, King)], NEW m, m.to \in Squares, Guarded(b, k, m)
  PROVE  m.to \in evasion_mask(b)
<1> DEFINE A == attackers_with(b, k, All(b))
<1>1. b.side \in {white, black} /\ k \in Squares /\ k = KingSquare(b, b.side) BY OurKingStands, LegalIs DEF Ready
<1>2. CASE ~InCheck(b) BY <1>2 DEF evasion_mask
<1>3. CASE InCheck(b)
  <2>1. \A u : u \in A <=> Strikes(b, k, u) BY <1>1, StrikersAre
  <2>2. \A x, y \in A : x = y BY <2>1, GuardedFromOne
  <2>3. ~Several(A) BY <2>2, NotSeveral
  <2>4. evasion_mask(b) = A \cup between_tbl[Lsb(A)][k] BY <1>1, <1>3, <2>3 DEF evasion_mask, EvasionsFor, EvasionsOf
  <2>5. \E x : Strikes(b, k, x)
    <3>1. Assails(b.bb, 1 - b.side, k, All(b)) BY <1>1, <1>3, AttackedIs DEF InCheck
    <3>2. CASE Leaps(b.bb, 1 - b.side, k) # {} BY <3>2 DEF Strikes
    <3>3. CASE Aims(b.bb, 1 - b.side, k, All(b)) BY <3>3 DEF Strikes, Aims
    <3> QED BY <3>1, <3>2, <3>3 DEF Assails
  <2>6. PICK x : Strikes(b, k, x) BY <2>5
  <2>7. x \in A /\ x \in Squares /\ A = {x}
    <3>1. x \in Squares BY <2>6, EnemiesStand DEF Strikes
    <3> QED BY <2>1, <2>2, <2>6, <3>1
  <2>8. Lsb(A) = x
    <3>1. \A y \in A : y = x BY <2>7
    <3> QED BY <2>7, <3>1 DEF Lsb
  <2>9. CASE x = m.to BY <2>4, <2>7, <2>9
  <2>10. CASE x # m.to
    <3>1. \E l \in 1..4 : Sees(l, k, x, All(b)) /\ OnLine(l, k, m.to) /\ Inside(m.to, k, x) BY <2>6, <2>10 DEF Strikes, Guarded
    <3>2. PICK l \in 1..4 : Sees(l, k, x, All(b)) /\ OnLine(l, k, m.to) /\ Inside(m.to, k, x) BY <3>1
    <3>3. OnLine(l, x, k) /\ Inside(m.to, x, k) BY <3>2 DEF OnLine, Sees, Inside
    <3>4. m.to # x /\ OnLine(l, x, m.to) BY <2>10, <3>2, <3>3 DEF OnLine
    <3>5. m.to \in between_tbl[x][k] BY <1>1, <2>7, <3>3, <3>4, BetweenIs
    <3> QED BY <2>4, <2>8, <3>5
  <2> QED BY <2>9, <2>10
<1> QED BY <1>2, <1>3

\* So no legal move is lost by generating only what can answer a check.
LEMMA SparedIsAnswering ==
  ASSUME NEW b, ThreadOK(b, setup), HomeSetup, IsLegal(b), NEW m \in generate_moves(b), Spared(b, m)
  PROVE  m \in Answering(b, generate_moves(b))
<1>1. Ready(b) BY ThreadIsReady
<1>2. Fit(b, m) /\ Goes(b, m) BY <1>1, GeneratedFit, GeneratedGoes
<1>3. b.side \in {white, black} BY <1>1 DEF Ready
<1>4. Type(Piece(b.side, King)) = King BY <1>3 DEF Type, Piece, King, white, black
<1>5. CASE m.piece = Piece(b.side, King) \/ m.enpass BY <1>4, <1>5 DEF Answering
<1>6. CASE m.piece # Piece(b.side, King) /\ ~m.enpass
  <2>1. FitFrom(b, m) /\ FitPlain(b, m) BY <1>2, <1>6 DEF Fit, FitCastling
  <2>2. PICK k \in b.bb[Piece(b.side, King)] : TRUE BY <1>1, <1>3, LegalIs DEF Ready
  <2>3. Guarded(b, k, m) BY <1>2, <1>6, <2>1, SparedIsGuarded
  <2>4. m.to \in Squares BY <2>1 DEF FitFrom, Moves
  <2>5. m.to \in evasion_mask(b) BY <1>1, <2>3, <2>4, GuardedAnswers
  <2> QED BY <2>5 DEF Answering
<1> QED BY <1>5, <1>6

\* The pseudo-legal list of the search, its evasions in check, filtered by its make, and the game's list filtered by its own
\* hold the same moves.
EvasionsSuffice(b, list) ==
  {m \in Answering(b, list) : td_make_move(b, m, FALSE).made} = {m \in list : make_move(b, m).legal}
LEMMA AnswersAreAll ==
  ASSUME NEW b, ThreadOK(b, setup), HomeSetup, IsLegal(b)
  PROVE  EvasionsSuffice(b, generate_moves(b))
<1>1. Ready(b) BY ThreadIsReady
<1>2. \A m \in generate_moves(b) : Fit(b, m) /\ Goes(b, m) BY <1>1, GeneratedFit, GeneratedGoes
<1>3. \A m \in generate_moves(b) : td_make_move(b, m, FALSE).made <=> Spared(b, m) BY <1>2, TryTells
<1>4. \A m \in generate_moves(b) : make_move(b, m).legal <=> Spared(b, m) BY MakeTells
<1>5. Answering(b, generate_moves(b)) \subseteq generate_moves(b) BY DEF Answering
<1>6. \A m \in generate_moves(b) : Spared(b, m) => m \in Answering(b, generate_moves(b)) BY SparedIsAnswering
<1> QED BY <1>3, <1>4, <1>5, <1>6 DEF EvasionsSuffice

(***************************************************************************)
(* The moves of the pseudo-legal list, and the moves of other positions    *)
(* that pass td_is_pseudo_legal, by the same conditions.                   *)
(***************************************************************************)
\* A pawn promotes from its seventh rank, and only from it; a king castles with a right that may be used.
Proper(b, m) ==
  /\ m.piece = Piece(b.side, Pawn) => m.promo \in IF Row(m.from) = SeventhRow(b.side) THEN Promoted(b.side) ELSE {0}
  /\ m.castling => Can(b, castle_index(m.to))

\* A move is its fields.
LEMMA FieldsAre ==
  ASSUME NEW m \in Moves
  PROVE  m = encode_move(m.from, m.to, m.piece, m.promo, m.capture, m.double, m.enpass, m.castling)
BY DEF Moves, encode_move

\* A man of a side is a pawn, or one of the others.
LEMMA KindIs ==
  ASSUME NEW c \in {white, black}, NEW p \in Men(c)
  PROVE  /\ Type(p) \in 0..5 /\ p = Piece(c, Type(p))
         /\ p = Piece(c, Pawn) <=> Type(p) = Pawn
         /\ p = Piece(c, King) <=> Type(p) = King
         /\ Type(p) # Pawn => Type(p) \in {Knight, Bishop, Rook, Queen, King}
<1>1. PICK t \in 0..5 : p = Piece(c, t) BY DEF Men
<1>2. Type(p) = t BY <1>1, PieceOf
<1>3. t \in 0..5 /\ (t # Pawn => t \in {Knight, Bishop, Rook, Queen, King}) BY DEF Pawn, Knight, Bishop, Rook, Queen, King
<1>4. Type(Piece(c, Pawn)) = Pawn /\ Type(Piece(c, King)) = King BY PieceOf DEF Pawn, King
<1> QED BY <1>1, <1>2, <1>3, <1>4

\* A pawn that steps or takes reaches the last row from its seventh, and only from it; the square taken in passing is not on it.
LEMMA LastRow ==
  ASSUME NEW c \in {white, black}, NEW s \in Squares, NEW t \in Squares, t = s + Up(c) \/ t \in pawn_attacks[c][s]
  PROVE  /\ Row(s) = SeventhRow(c) <=> Row(t) = Row(BackRow(1 - c))
         /\ Row(t) = (IF c = white THEN 2 ELSE 5) => Row(s) # SeventhRow(c)
<1>1. Row(BackRow(1 - c)) = IF c = white THEN 0 ELSE 7 BY DEF Row, BackRow, white, black
<1>2. Row(t) = Row(s) + (IF c = white THEN 0 - 1 ELSE 1)
  <2>1. t = s + Up(c) => Row(t) = Row(s) + (IF c = white THEN 0 - 1 ELSE 1) BY DEF Row, Up, Squares, white, black
  <2>2. t \in pawn_attacks[c][s] => Row(t - Up(c)) = Row(s) BY PawnStep
  <2>3. Row(t - Up(c)) = Row(t) - (IF c = white THEN 0 - 1 ELSE 1) BY DEF Row, Up, Squares, white, black
  <2>4. Row(t) \in Int /\ Row(s) \in Int BY DEF Row, Squares
  <2> QED BY <2>1, <2>2, <2>3, <2>4
<1>3. Row(t) \in Int /\ Row(s) \in Int BY DEF Row, Squares
<1> QED BY <1>1, <1>2, <1>3 DEF SeventhRow, white, black

\* What fits, goes as its man goes and is proper is generated.
LEMMA ProperIsGenerated ==
  ASSUME NEW b, Ready(b), HomeSetup, NEW m, Fit(b, m), Goes(b, m), Proper(b, m)
  PROVE  m \in generate_moves(b)
<1> DEFINE c == b.side
           free == Squares \ (b.occ[white] \cup b.occ[black])
<1>1. /\ c \in {white, black} /\ m \in Moves /\ m.piece \in Men(c) /\ m.from \in b.bb[m.piece]
      /\ m.from \in Squares /\ m.to \in Squares
  BY DEF Ready, Fit, FitFrom, Moves
<1>2. m = encode_move(m.from, m.to, m.piece, m.promo, m.capture, m.double, m.enpass, m.castling) BY <1>1, FieldsAre
<1>3. m.capture \in BOOLEAN /\ m.double \in BOOLEAN /\ m.enpass \in BOOLEAN /\ m.castling \in BOOLEAN BY <1>1 DEF Moves
<1>4. CASE m.castling
  <2> DEFINE i == castle_index(m.to)
  <2>1. FitCastling(b, m) BY <1>4 DEF Fit, FitPlain
  <2>2. i \in Rights /\ OfSide(i) = c /\ Can(b, i) BY <1>4, <2>1 DEF FitCastling, Proper, castle_index, Rights
  <2>3. m = CastlingMove(m.from, castle_king_to(i), c)
    <3>1. m.to = castle_king_to(i) /\ m.promo = 0 /\ m.piece = Piece(c, King) /\ ~m.capture /\ ~m.enpass /\ ~m.double
      BY <2>1 DEF FitCastling
    <3> QED BY <1>2, <1>3, <1>4, <3>1 DEF CastlingMove
  <2>4. m.from = (IF g_chess960 THEN castle_king_sq(c) ELSE corners.king[c + 1]) BY <1>1, <2>1, HomeKing DEF FitCastling
  <2>5. m \in CastlingMoves(b) BY <2>2, <2>3, <2>4 DEF CastlingMoves, Can
  <2> QED BY <2>5 DEF generate_moves
<1>5. CASE ~m.castling /\ m.piece # Piece(c, Pawn)
  <2> DEFINE t == Type(m.piece)
  <2>1. FitPlain(b, m) BY <1>5 DEF Fit, FitCastling
  <2>2. t \in {Knight, Bishop, Rook, Queen, King} /\ m.piece = Piece(c, t) /\ t # Pawn BY <1>1, <1>5, KindIs
  <2>3. m.promo = 0 /\ ~m.double /\ ~m.enpass BY <1>5, <2>1 DEF FitPlain
  <2>4. m.to \notin b.occ[c] /\ (m.capture <=> m.to \in b.occ[1 - c])
    <3>1. m.to \notin b.occ[c] BY <2>1, ReadyOccupied DEF FitPlain
    <3>2. m.capture => m.to \in b.occ[1 - c] BY <2>1, <2>3, ReadyOccupied DEF FitPlain
    <3>3. ~m.capture => Free(b.bb, m.to) BY <2>1 DEF FitPlain
    <3>4. Free(b.bb, m.to) => m.to \notin b.occ[1 - c] BY <1>1, FreeIs, AllOccupied
    <3> QED BY <3>1, <3>2, <3>3, <3>4
  <2>5. m.to \in Attacks(t, m.from, b.occ[white] \cup b.occ[black]) \ b.occ[c] BY <1>5, <2>2, <2>4 DEF Goes, All
  <2>6. m = Simple(m.from, m.to, Piece(c, t), m.to \in b.occ[1 - c])
    <3>1. m.capture = (m.to \in b.occ[1 - c]) BY <1>3, <2>4
    <3> QED BY <1>2, <1>3, <1>5, <2>2, <2>3, <3>1 DEF Simple
  <2> HIDE DEF t
  <2>7. m.from \in b.bb[Piece(c, t)] BY <1>1, <2>2
  <2>8. m \in PieceMoves(b, t) BY <2>5, <2>6, <2>7 DEF PieceMoves
  <2> QED BY <2>2, <2>8 DEF generate_moves
<1>6. CASE ~m.castling /\ m.piece = Piece(c, Pawn)
  <2> DEFINE s == m.from
  <2>1. FitPlain(b, m) /\ PawnWay(b, m) BY <1>6 DEF Fit, FitCastling, FitPlain
  <2>2. m.promo \in IF Row(s) = SeventhRow(c) THEN Promoted(c) ELSE {0} BY <1>6 DEF Proper
  <2>3. \A t \in Squares : t \in free <=> Free(b.bb, t) BY FreeIs
  <2>8. m \in PawnMoves(b, s, c) => m \in generate_moves(b)
    BY <1>1, <1>6 DEF generate_moves, WhitePawnMoves, BlackPawnMoves, white, black
  <2>4. CASE ~m.capture /\ ~m.double
    <3>1. m.to = s + Up(c) /\ Free(b.bb, m.to) /\ ~m.enpass BY <2>1, <2>4 DEF PawnWay, FitPlain
    <3>2. m = encode_move(s, m.to, Piece(c, Pawn), m.promo, FALSE, FALSE, FALSE, FALSE) BY <1>2, <1>3, <1>6, <2>4, <3>1
    <3>3. m \in PawnArrivals(s, m.to, c, FALSE) BY <2>2, <3>2 DEF PawnArrivals
    <3>4. m.to \in free BY <1>1, <2>3, <3>1
    <3> QED BY <3>1, <3>3, <3>4, <2>8, PawnMovesAre
  <2>5. CASE m.double
    <3>1. /\ ~m.capture /\ m.promo = 0 /\ m.to - Up(c) \in Squares /\ Free(b.bb, m.to - Up(c)) /\ Free(b.bb, m.to) /\ ~m.enpass
          /\ Row(m.to - Up(c)) = (IF c = white THEN 5 ELSE 2)
      BY <2>1, <2>5 DEF FitPlain
    <3>2. m.to = s + 2 * Up(c) BY <2>1, <2>5, <3>1 DEF PawnWay
    <3>3. m.to - Up(c) = s + Up(c) /\ Row(s) = SecondRow(c)
      BY <1>1, <3>1, <3>2 DEF Row, Up, Squares, SecondRow, white, black
    <3>4. m = encode_move(s, m.to, Piece(c, Pawn), 0, FALSE, TRUE, FALSE, FALSE) BY <1>2, <1>3, <1>6, <2>5, <3>1
    <3>5. m.to \in free /\ s + Up(c) \in free BY <1>1, <2>3, <3>1, <3>3
    <3> QED BY <3>2, <3>3, <3>4, <3>5, <2>8, PawnMovesAre
  <2>6. CASE m.capture /\ ~m.enpass
    <3>1. m.to \in pawn_attacks[c][s] /\ ~m.double BY <2>1, <2>6 DEF PawnWay, FitPlain
    <3>2. m.to \in b.occ[1 - c] BY <2>1, <2>6, ReadyOccupied DEF FitPlain
    <3>3. m = encode_move(s, m.to, Piece(c, Pawn), m.promo, TRUE, FALSE, FALSE, FALSE) BY <1>2, <1>3, <1>6, <2>6, <3>1
    <3>4. m \in PawnArrivals(s, m.to, c, TRUE) BY <2>2, <3>3 DEF PawnArrivals
    <3> QED BY <3>1, <3>2, <3>4, <2>8, PawnMovesAre
  <2>7. CASE m.enpass
    <3>1. m.capture /\ m.promo = 0 /\ ~m.double /\ m.to = b.ep /\ b.ep \in pawn_attacks[c][s] BY <2>1, <2>7 DEF PawnWay, FitPlain
    <3>2. m = encode_move(s, b.ep, Piece(c, Pawn), 0, TRUE, FALSE, TRUE, FALSE) BY <1>2, <1>3, <1>6, <2>7, <3>1
    <3> QED BY <3>1, <3>2, <2>8, PawnMovesAre
  <2> QED BY <1>3, <2>4, <2>5, <2>6, <2>7
<1> QED BY <1>4, <1>5, <1>6

\* A generated move is proper.
LEMMA GeneratedIsProper ==
  ASSUME NEW b, Ready(b), HomeSetup, NEW m \in generate_moves(b)
  PROVE  Proper(b, m)
<1> DEFINE c == b.side
<1>1. c \in {white, black} BY DEF Ready
<1>2. ASSUME NEW s \in b.bb[Piece(c, Pawn)], m \in PawnMoves(b, s, c) PROVE Proper(b, m)
  <2>1. s \in Squares BY SidePieces DEF Pawn
  <2>2. ASSUME NEW t, NEW ca, m \in PawnArrivals(s, t, c, ca) PROVE Proper(b, m)
    <3>1. PICK x \in (IF Row(s) = SeventhRow(c) THEN Promoted(c) ELSE {0}) :
            m = encode_move(s, t, Piece(c, Pawn), x, ca, FALSE, FALSE, FALSE)
      BY <2>2 DEF PawnArrivals
    <3>2. m.from = s /\ m.promo = x /\ m.castling = FALSE BY <3>1 DEF encode_move
    <3> QED BY <3>1, <3>2 DEF Proper
  <2>3. ASSUME NEW t, NEW ca, NEW db, NEW en, m = encode_move(s, t, Piece(c, Pawn), 0, ca, db, en, FALSE), Row(s) # SeventhRow(c)
        PROVE  Proper(b, m)
    <3>1. m.from = s /\ m.promo = 0 /\ m.castling = FALSE BY <2>3 DEF encode_move
    <3> QED BY <2>3, <3>1 DEF Proper
  <2>4. Row(s) = SecondRow(c) => Row(s) # SeventhRow(c) BY <1>1 DEF SecondRow, SeventhRow, white, black
  <2>5. b.ep \in pawn_attacks[c][s] => Row(s) # SeventhRow(c)
    <3> SUFFICES ASSUME b.ep \in pawn_attacks[c][s] PROVE Row(s) # SeventhRow(c) OBVIOUS
    <3>1. b.ep \in Squares BY <1>1, <2>1, LeapersOnBoard
    <3>2. Row(b.ep) = (IF c = white THEN 2 ELSE 5) BY <3>1 DEF Ready, EpSound, Squares, no_sq
    <3> QED BY <1>1, <2>1, <3>1, <3>2, LastRow
  <2> QED BY <1>2, <2>2, <2>3, <2>4, <2>5, PawnMovesAre
<1>3. CASE m \in (IF c = white THEN WhitePawnMoves(b) ELSE BlackPawnMoves(b))
  <2>1. PICK s \in b.bb[Piece(c, Pawn)] : m \in PawnMoves(b, s, c)
    BY <1>1, <1>3 DEF WhitePawnMoves, BlackPawnMoves, white, black
  <2> QED BY <1>2, <2>1
<1>4. CASE m \in CastlingMoves(b)
  <2>1. PICK i \in Rights : /\ Can(b, i)
                            /\ m = CastlingMove(IF g_chess960 THEN castle_king_sq(c) ELSE corners.king[c + 1], castle_king_to(i), c)
    BY <1>4 DEF CastlingMoves, Can
  <2>2. m.piece = Piece(c, King) /\ m.to = castle_king_to(i) BY <2>1 DEF CastlingMove, encode_move
  <2>3. castle_index(m.to) = i BY <2>2, CastlingSquares
  <2>4. Piece(c, King) # Piece(c, Pawn) BY <1>1 DEF Piece, King, Pawn, white, black
  <2> QED BY <2>1, <2>2, <2>3, <2>4 DEF Proper
<1>5. ASSUME NEW t \in {Knight, Bishop, Rook, Queen, King}, m \in PieceMoves(b, t) PROVE Proper(b, m)
  <2>1. PICK s, to : m = Simple(s, to, Piece(c, t), to \in b.occ[1 - c]) BY <1>5 DEF PieceMoves
  <2>2. m.piece = Piece(c, t) /\ m.castling = FALSE BY <2>1 DEF Simple, encode_move
  <2>3. Piece(c, t) # Piece(c, Pawn) BY <1>1 DEF Piece, Pawn, Knight, Bishop, Rook, Queen, King, white, black
  <2> QED BY <2>2, <2>3 DEF Proper
<1> QED BY <1>3, <1>4, <1>5 DEF generate_moves

\* What passes the validation is proper ...
LEMMA ValidIsProper ==
  ASSUME NEW b, Ready(b), HomeSetup, NEW m, OneWay(m), td_is_pseudo_legal(b, m)
  PROVE  Proper(b, m)
<1> DEFINE c == b.side
<1>1. c \in {white, black} BY DEF Ready
<1>2. Fit(b, m) /\ m \in Moves BY PseudoFit DEF OneWay
<1>3. m.piece \in Men(c) BY <1>2 DEF Fit, FitFrom
<1>4. m.from \in Squares /\ m.to \in Squares BY <1>2 DEF Moves
<1>5. CASE m.castling
  <2>1. PseudoCastling(b, m) BY <1>5 DEF td_is_pseudo_legal
  <2>2. Can(b, castle_index(m.to)) /\ m.piece = Piece(c, King) BY <2>1 DEF PseudoCastling, Can
  <2>3. Piece(c, King) # Piece(c, Pawn) BY <1>1 DEF Piece, King, Pawn, white, black
  <2> QED BY <2>2, <2>3 DEF Proper
<1>6. CASE ~m.castling /\ m.piece # Piece(c, Pawn) BY <1>6 DEF Proper
<1>7. CASE ~m.castling /\ m.piece = Piece(c, Pawn)
  <2>1. Type(m.piece) = Pawn BY <1>1, <1>3, <1>7, KindIs
  <2>2. PseudoPawn(b, m) BY <1>7, <2>1 DEF td_is_pseudo_legal
  <2>3. FitPlain(b, m) /\ PawnWay(b, m) BY <1>2, <1>7 DEF Fit, FitCastling, FitPlain
  <2>4. CASE m.double
    <3>1. m.promo = 0 /\ ~m.capture /\ m.to = m.from + 2 * Up(c) /\ Row(m.to - Up(c)) = (IF c = white THEN 5 ELSE 2)
      BY <2>3, <2>4 DEF FitPlain, PawnWay
    <3>2. Row(m.from) # SeventhRow(c) BY <1>1, <1>4, <3>1 DEF Row, Up, Squares, SeventhRow, white, black
    <3> QED BY <1>7, <3>1, <3>2 DEF Proper
  <2>5. CASE m.enpass
    <3>1. m.promo = 0 /\ m.to \in pawn_attacks[c][m.from] /\ m.to = b.ep BY <2>3, <2>5 DEF FitPlain, PawnWay
    <3>2. Row(b.ep) = (IF c = white THEN 2 ELSE 5) BY <1>4, <3>1 DEF Ready, EpSound, Squares, no_sq
    <3>3. Row(m.from) # SeventhRow(c) BY <1>1, <1>4, <3>1, <3>2, LastRow
    <3> QED BY <1>7, <3>1, <3>3 DEF Proper
  <2>6. CASE ~m.double /\ ~m.enpass
    <3>1. m.to = m.from + Up(c) \/ m.to \in pawn_attacks[c][m.from] BY <2>3, <2>6 DEF PawnWay
    <3>2. Row(m.from) = SeventhRow(c) <=> Row(m.to) = Row(BackRow(1 - c)) BY <1>1, <1>4, <3>1, LastRow
    <3>3. IF m.promo # 0 THEN Row(m.to) = Row(BackRow(1 - c)) /\ m.promo \in Promoted(c) ELSE ~(Row(m.to) = Row(BackRow(1 - c)))
      BY <2>2, <2>6 DEF PseudoPawn
    <3>4. m.promo \in IF Row(m.from) = SeventhRow(c) THEN Promoted(c) ELSE {0} BY <3>2, <3>3
    <3> QED BY <1>7, <3>4 DEF Proper
  <2> QED BY <2>4, <2>5, <2>6
<1> QED BY <1>5, <1>6, <1>7

\* ... and what fits, goes as its man goes and is proper passes it.
LEMMA ProperIsValid ==
  ASSUME NEW b, Ready(b), HomeSetup, NEW m, Fit(b, m), Goes(b, m), Proper(b, m)
  PROVE  td_is_pseudo_legal(b, m)
<1> DEFINE c == b.side
<1>1. /\ c \in {white, black} /\ m \in Moves /\ m.piece \in Men(c) /\ m.from \in b.bb[m.piece]
      /\ m.from \in Squares /\ m.to \in Squares
  BY DEF Ready, Fit, FitFrom, Moves
<1>2. m.piece \in {Piece(c, t) : t \in 0..5} BY <1>1 DEF Men
<1>3. m.capture \in BOOLEAN /\ m.double \in BOOLEAN /\ m.enpass \in BOOLEAN /\ m.castling \in BOOLEAN BY <1>1 DEF Moves
<1>4. CASE m.castling
  <2> DEFINE i == castle_index(m.to)
  <2>1. FitCastling(b, m) BY <1>4 DEF Fit, FitPlain
  <2>2. /\ ~m.capture /\ m.promo = 0 /\ ~m.enpass /\ ~m.double /\ m.piece = Piece(c, King) /\ OfSide(i) = c
        /\ m.to = castle_king_to(i) /\ m.from = castle_king_sq(c) /\ i \in Rights /\ Can(b, i)
    BY <1>4, <2>1 DEF FitCastling, Proper, castle_index, Rights
  <2>3. (IF g_chess960 THEN castle_king_sq(c) ELSE corners.king[c + 1]) = castle_king_sq(c) BY <1>1, HomeKing
  <2>4. ~g_chess960 => m.to \notin b.occ[c]
    <3> SUFFICES ASSUME ~g_chess960 PROVE m.to \notin b.occ[c] OBVIOUS
    <3>1. \A s \in {castle_king_to(i), castle_rook_to(i)} \ {castle_king_sq(c), castle_rook_sq(i)} : Free(b.bb, s)
      BY <2>2, MayCastleIsFree DEF Can
    <3>2. setup = standard_setup BY DEF HomeSetup
    <3>3. castle_king_to(i) # castle_king_sq(c) /\ castle_king_to(i) # castle_rook_sq(i)
      <4>1. castle_king_sq(c) \in {60, 4} /\ castle_rook_sq(i) \in {63, 56, 7, 0}
        BY <1>1, <2>2, <3>2 DEF castle_king_sq, castle_rook_sq, standard_setup, corners, Rights, white, black
      <4>2. castle_king_to(i) \in {62, 58, 6, 2} BY <2>2 DEF castle_king_to, Rights
      <4> QED BY <4>1, <4>2
    <3>4. Free(b.bb, m.to) BY <2>2, <3>1, <3>3
    <3> QED BY <1>1, <3>4, FreeIs, AllOccupied
  <2>5. PseudoCastling(b, m) BY <2>2, <2>3, <2>4 DEF PseudoCastling, Can
  <2> QED BY <1>1, <1>2, <1>4, <2>5 DEF td_is_pseudo_legal
<1>5. CASE ~m.castling
  <2>1. FitPlain(b, m) BY <1>5 DEF Fit, FitCastling
  <2>2. m.to \notin b.occ[c] BY <2>1, ReadyOccupied DEF FitPlain
  <2>3. m.capture /\ ~m.enpass => m.to \in b.occ[1 - c] BY <2>1, ReadyOccupied DEF FitPlain
  <2>4. ~m.capture => m.to \notin All(b) BY <1>1, <2>1, FreeIs DEF FitPlain, All
  <2>5. CASE m.piece # Piece(c, Pawn)
    <3>1. Type(m.piece) # Pawn BY <1>1, <2>5, KindIs
    <3>2. m.promo = 0 /\ ~m.double /\ ~m.enpass BY <2>1, <2>5 DEF FitPlain
    <3>3. m.capture <=> m.to \in b.occ[1 - c] BY <2>3, <2>4, <3>2, AllOccupied DEF All
    <3>4. m.capture = (m.to \in b.occ[1 - c]) BY <1>3, <3>3
    <3>5. m.to \in Attacks(Type(m.piece), m.from, All(b)) BY <1>5, <3>1 DEF Goes
    <3> QED BY <1>1, <1>2, <1>5, <2>2, <3>1, <3>2, <3>4, <3>5 DEF td_is_pseudo_legal
  <2>6. CASE m.piece = Piece(c, Pawn)
    <3> DEFINE last == Row(m.to) = Row(BackRow(1 - c))
    <3>1. Type(m.piece) = Pawn /\ PawnWay(b, m) BY <1>1, <2>1, <2>6, KindIs DEF FitPlain
    <3>2. m.promo \in IF Row(m.from) = SeventhRow(c) THEN Promoted(c) ELSE {0} BY <2>6 DEF Proper
    <3>3. 0 \notin Promoted(c) BY <1>1 DEF Promoted, Piece, Queen, Rook, Bishop, Knight, white, black
    <3>4. IF m.promo # 0 THEN last /\ m.promo \in Promoted(c) ELSE ~(last /\ ~m.enpass)
      <4>1. CASE m.double
        <5>1. m.promo = 0 /\ Row(m.to - Up(c)) = (IF c = white THEN 5 ELSE 2) BY <2>1, <4>1 DEF FitPlain
        <5>2. ~last BY <1>1, <5>1 DEF Row, Up, Squares, BackRow, white, black
        <5> QED BY <5>1, <5>2
      <4>2. CASE m.enpass BY <2>1, <4>2 DEF FitPlain
      <4>3. CASE ~m.double /\ ~m.enpass
        <5>1. m.to = m.from + Up(c) \/ m.to \in pawn_attacks[c][m.from] BY <3>1, <4>3 DEF PawnWay
        <5>2. Row(m.from) = SeventhRow(c) <=> last BY <1>1, <5>1, LastRow
        <5> QED BY <3>2, <3>3, <4>3, <5>2
      <4> QED BY <4>1, <4>2, <4>3
    <3> HIDE DEF last
    <3>5. IF m.capture
          THEN /\ m.to \in pawn_attacks[c][m.from]
               /\ IF m.enpass THEN ~m.double /\ b.ep # no_sq /\ m.to = b.ep /\ m.to - Up(c) \in Theirs_(b, Pawn)
                              ELSE m.to \in b.occ[1 - c]
          ELSE /\ ~m.enpass /\ m.to \notin All(b)
               /\ IF m.double THEN Row(m.from) = SecondRow(c) /\ m.to = m.from + 2 * Up(c) /\ m.from + Up(c) \notin All(b)
                              ELSE m.to = m.from + Up(c)
      <4>1. CASE m.capture
        <5>1. m.to \in pawn_attacks[c][m.from] /\ (m.enpass => m.to = b.ep) BY <3>1, <4>1 DEF PawnWay
        <5>2. m.enpass => ~m.double /\ m.to - Up(c) \in b.bb[Piece(1 - c, Pawn)] BY <2>1, <4>1 DEF FitPlain
        <5>3. m.enpass => b.ep # no_sq BY <1>1, <5>1 DEF Squares, no_sq
        <5> QED BY <2>3, <4>1, <5>1, <5>2, <5>3 DEF Theirs_
      <4>2. CASE ~m.capture
        <5>1. ~m.enpass /\ m.to = m.from + (IF m.double THEN 2 * Up(c) ELSE Up(c)) BY <2>1, <3>1, <4>2 DEF PawnWay, FitPlain
        <5>2. m.double => Row(m.from) = SecondRow(c) /\ m.from + Up(c) \notin All(b)
          <6> SUFFICES ASSUME m.double PROVE Row(m.from) = SecondRow(c) /\ m.from + Up(c) \notin All(b) OBVIOUS
          <6>1. m.to - Up(c) \in Squares /\ Free(b.bb, m.to - Up(c)) /\ Row(m.to - Up(c)) = (IF c = white THEN 5 ELSE 2)
            BY <2>1 DEF FitPlain
          <6>2. m.to - Up(c) = m.from + Up(c) /\ Row(m.from) = SecondRow(c)
            BY <1>1, <5>1, <6>1 DEF Row, Up, Squares, SecondRow, white, black
          <6> QED BY <6>1, <6>2, FreeIs DEF All
        <5> QED BY <2>4, <4>2, <5>1, <5>2
      <4> QED BY <4>1, <4>2
    <3>6. PseudoPawn(b, m) BY <3>4, <3>5 DEF PseudoPawn, last
    <3> QED BY <1>1, <1>2, <1>5, <2>2, <3>1, <3>6 DEF td_is_pseudo_legal
  <2> QED BY <2>5, <2>6
<1> QED BY <1>4, <1>5

\* So the validation accepts, of any moves, just those of the pseudo-legal list.
LEMMA ValidIsGenerated ==
  ASSUME NEW b, Ready(b), HomeSetup, NEW m, OneWay(m)
  PROVE  td_is_pseudo_legal(b, m) <=> m \in generate_moves(b)
<1>1. ASSUME td_is_pseudo_legal(b, m) PROVE m \in generate_moves(b)
  <2>1. Fit(b, m) BY <1>1, PseudoFit DEF OneWay
  <2>2. Goes(b, m) BY <1>1, ValidGoes
  <2>3. Proper(b, m) BY <1>1, ValidIsProper
  <2> QED BY <2>1, <2>2, <2>3, ProperIsGenerated
<1>2. ASSUME m \in generate_moves(b) PROVE td_is_pseudo_legal(b, m)
  BY <1>2, GeneratedFit, GeneratedGoes, GeneratedIsProper, ProperIsValid
<1> QED BY <1>1, <1>2

(***************************************************************************)
(* The test of a move before its make (legal_before) misses no legal move. *)
(***************************************************************************)
\* The one king of a board no enemy sees.
LEMMA SavedKing ==
  ASSUME NEW b, Ready(b), IsLegal(b), NEW m, FitFrom(b, m), Goes(b, m), NEW new, Turns(b, m, new), Saved(b, new),
         NEW k \in new[Piece(b.side, King)]
  PROVE  ~Assails(new, 1 - b.side, k, Full(new))
<1>1. PICK x \in new[Piece(b.side, King)] : ~Assails(new, 1 - b.side, x, Full(new)) BY DEF Saved
<1>2. new \in Boards /\ Disjoint(new) /\ OneKingEach(new) BY TurnedApart, MenStay
<1>3. b.side \in {white, black} BY DEF Ready
<1>4. Cardinality(new[Piece(b.side, King)]) = 1 BY <1>2, <1>3 DEF OneKingEach
<1>5. x = k BY <1>1, <1>2, <1>3, <1>4, KingsAre
<1> QED BY <1>1, <1>5

\* A leaper does not attack its own square.
LEMMA LeapsAway ==
  ASSUME NEW bb, NEW by \in {white, black}, NEW s \in Squares
  PROVE  s \notin Leaps(bb, by, s)
<1>1. s \notin knight_attacks[s] BY KnightAttacksAre DEF KnightStep, Apart, Row, File, Squares
<1>2. s \notin king_attacks[s] BY KingAttacksAre DEF KingStep
<1>3. 1 - by \in {white, black} BY DEF white, black
<1>4. s \notin pawn_attacks[1 - by][s] BY <1>3, PawnStep DEF KingStep
<1> QED BY <1>1, <1>2, <1>4 DEF Leaps

\* The king's step that leaves it safe leads to a square not attacked with the king lifted (the converse of KingIsSafe).
LEMMA SafeStep ==
  ASSUME NEW b, Ready(b), NEW m, NEW v, NEW vs, PlainMove(b, m, v, vs), vs = m.to \/ vs = None,
         NEW new, Shifted(b.bb, new, m, vs), ~Assails(new, 1 - b.side, m.to, Full(new))
  PROVE  ~Assails(b.bb, 1 - b.side, m.to, Xor(All(b), {m.from}))
<1> DEFINE by == 1 - b.side
           f == m.from
           t == m.to
           occ == Xor(All(b), {f})
<1>1. by \in {white, black} BY DEF Ready, white, black
<1>2. /\ \A s \in Squares : s \in Full(new) <=> s = t \/ (s # f /\ s # vs /\ s \in Full(b.bb))
      /\ \A p \in Men(by) : \A s : s \in new[p] <=> s \in b.bb[p] /\ s # t /\ s # vs
  BY ShiftedAre
<1>3. All(b) = Full(b.bb) BY AllIsFull DEF Ready
<1>4. f \in Squares /\ t \in Squares /\ f # t /\ f \in All(b) BY <1>3 DEF PlainMove, Full, Free
<1>5. StayBut(b.bb, new, by, t, vs) BY <1>2 DEF StayBut
<1>6. \A u \in Squares : u = vs => u = t BY DEF None, Squares
<1> HIDE DEF by, t
<1>7. /\ \A s, u : u \in Leaps(b.bb, by, s) /\ u # t /\ u # vs => u \in Leaps(new, by, s)
      /\ \A l, u : u \in Runs(b.bb, by, l) /\ u # t /\ u # vs => u \in Runs(new, by, l)
  BY <1>1, <1>5, EnemyStays
<1>8. Leaps(new, by, t) = {} /\ ~Aims(new, by, t, Full(new)) BY DEF Assails, by, t
<1>9. Leaps(b.bb, by, t) = {}
  <2>1. Leaps(b.bb, by, t) \subseteq Squares BY EnemiesStand DEF by
  <2>2. t \notin Leaps(b.bb, by, t) BY <1>1, <1>4, LeapsAway
  <2> QED BY <1>6, <1>7, <1>8, <2>1, <2>2
<1>10. \A u \in Full(new) : u = t \/ u \in occ
  <2>1. Full(new) \subseteq Squares BY DEF Full
  <2> QED BY <1>2, <1>3, <2>1 DEF Xor, t
<1> HIDE DEF occ, f
<1>11. ASSUME NEW l \in 1..4, NEW e \in Runs(b.bb, by, l), Sees(l, t, e, occ) PROVE FALSE
  <2>1. Sees(l, t, e, Full(new)) BY <1>10, <1>11, SeesMore
  <2>2. e \in Squares /\ e # t BY <1>11 DEF Sees, OnLine
  <2>3. e \in Runs(new, by, l) BY <1>6, <1>7, <2>2
  <2> QED BY <1>8, <2>1, <2>3 DEF Aims
<1>12. ~Assails(b.bb, by, t, occ) BY <1>9, <1>11 DEF Assails, Aims
<1> QED BY <1>12 DEF by, t, occ, f

\* A man that stands alone between the king and a slider of that line is pinned.
LEMMA PinnedIs ==
  ASSUME NEW b, Ready(b), NEW k \in Squares, NEW f \in PinnedTo(b, k)
  PROVE  f \in b.occ[b.side] /\ \E l \in 1..4 : \E e \in Runs(b.bb, 1 - b.side, l) : e \in Squares /\ Pins(l, k, e, f, All(b))
<1>1. PICK s \in Snipers(b, k) : f \in PinnedBy(b, k, s) BY DEF PinnedTo
<1>2. PICK l \in 1..4 : s \in Runs(b.bb, 1 - b.side, l) /\ s \in Squares /\ OnLine(l, k, s) BY SnipersAre
<1> DEFINE between == between_tbl[k][s] \cap All(b)
<1>3. Cardinality(between) = 1 /\ f \in between /\ f \in b.occ[b.side] BY <1>1 DEF PinnedBy
<1>4. \A u : u \in between_tbl[k][s] <=> u \in Squares /\ OnLine(l, k, u) /\ Inside(u, k, s) BY <1>2, StandsBetween
<1>5. between \subseteq Squares BY <1>4
<1>6. IsFiniteSet(between)
  <2>0. 0 \in Int /\ 63 \in Int OBVIOUS
  <2>1. IsFiniteSet(Squares) BY <2>0, FS_Interval DEF Squares
  <2> HIDE DEF between
  <2> QED BY <1>5, <2>1, FS_Subset
<1>7. \A u \in between : u = f
  <2> HIDE DEF between
  <2> QED BY <1>3, <1>6, OnlyKing
<1>8. Pins(l, k, s, f, All(b)) BY <1>2, <1>3, <1>4, <1>7 DEF Pins
<1> QED BY <1>2, <1>3, <1>8

\* Of three squares of a line, one is between the others.
LEMMA ThreeOnLine ==
  ASSUME NEW f \in Squares, NEW t \in Squares, NEW k \in Squares, NEW l \in 1..4, OnLine(l, f, t), OnLine(l, k, f), k # t
  PROVE  on_line(f, t, k)
<1>1. OnLine(l, f, k) /\ OnLine(l, t, k) /\ OnLine(l, t, f) BY DEF OnLine
<1>2. f # t /\ f # k /\ k # t BY DEF OnLine
<1>3. Inside(k, f, t) \/ Inside(t, f, k) \/ Inside(f, t, k) BY <1>2 DEF Inside, Squares
<1>4. Inside(k, f, t) => k \in between_tbl[f][t] BY <1>1, BetweenIs
<1>5. Inside(t, f, k) => t \in between_tbl[f][k] BY <1>1, BetweenIs
<1>6. Inside(f, t, k) => f \in between_tbl[t][k] BY <1>1, BetweenIs
<1> QED BY <1>3, <1>4, <1>5, <1>6 DEF on_line

\* A pinned man that guards the king stays on its line.
LEMMA GuardedStaysOn ==
  ASSUME NEW b, Ready(b), NEW k \in Squares, NEW m, m.from \in Squares, m.to \in Squares, m.to # k, Guarded(b, k, m),
         m.from \in PinnedTo(b, k)
  PROVE  on_line(m.from, m.to, k)
<1>1. PICK l \in 1..4 : \E e \in Runs(b.bb, 1 - b.side, l) : e \in Squares /\ Pins(l, k, e, m.from, All(b)) BY PinnedIs
<1>2. PICK e \in Runs(b.bb, 1 - b.side, l) : e \in Squares /\ Pins(l, k, e, m.from, All(b)) BY <1>1
<1>3. OnLine(l, m.from, m.to) BY <1>2 DEF Guarded
<1>4. OnLine(l, k, m.from) BY <1>2 DEF Pins
<1> QED BY <1>3, <1>4, ThreeOnLine

\* The board after a castling: king and rook have moved, all else stands.
LEMMA CastledAre ==
  ASSUME NEW b, Ready(b), NEW m, NEW r, BothMove(b, m, r), NEW new, Castled(b.bb, new, m, r)
  PROVE  /\ \A s : s \in Full(new) <=> s = m.to \/ s = r.to \/ (s # m.from /\ s # r.from /\ s \in Full(b.bb))
         /\ \A p \in Men(1 - b.side) : new[p] = b.bb[p]
         /\ \A s : Leaps(new, 1 - b.side, s) = Leaps(b.bb, 1 - b.side, s)
         /\ \A l : Runs(new, 1 - b.side, l) = Runs(b.bb, 1 - b.side, l)
<1> DEFINE by == 1 - b.side
<1>1. by \in {white, black} /\ b.side \in {white, black} BY DEF Ready, white, black
<1>2. /\ m.from \in Squares /\ m.to \in Squares /\ r.from \in Squares /\ r.to \in Squares /\ b.bb \in Boards
      /\ m.piece \in Pieces /\ r.piece \in Pieces /\ m.piece \in Men(b.side) /\ r.piece \in Men(b.side) /\ m.to # r.to
      /\ \A p \in Pieces : m.from \in b.bb[p] <=> p = m.piece
      /\ \A p \in Pieces : r.from \in b.bb[p] <=> p = r.piece
      /\ \A s \in {m.to, r.to} : s # m.from /\ s # r.from => Free(b.bb, s)
  BY DEF BothMove
<1>3. /\ new \in Boards
      /\ \A p \in Pieces, s \in Squares :
           s \in new[p] <=> IF s = m.to THEN p = m.piece ELSE IF s = r.to THEN p = r.piece
                            ELSE s # m.from /\ s # r.from /\ s \in b.bb[p]
  BY DEF Castled
<1>4. \A p \in Pieces : new[p] \subseteq Squares /\ b.bb[p] \subseteq Squares BY <1>2, <1>3 DEF Boards
<1>5. \A p \in Men(by) : p \in Pieces /\ p # m.piece /\ p # r.piece BY <1>1, <1>2, MenIs
<1> HIDE DEF by
<1>6. \A s : s \in Full(new) <=> s = m.to \/ s = r.to \/ (s # m.from /\ s # r.from /\ s \in Full(b.bb))
  <2>1. ASSUME NEW s \in Squares PROVE s \in Full(new) <=> s = m.to \/ s = r.to \/ (s # m.from /\ s # r.from /\ s \in Full(b.bb))
    <3>1. s \in Full(new) <=> \E p \in Pieces : s \in new[p] BY DEF Full, Free
    <3>2. s \in Full(b.bb) <=> \E p \in Pieces : s \in b.bb[p] BY DEF Full, Free
    <3> QED BY <1>2, <1>3, <3>1, <3>2
  <2>2. \A s : s \in Full(new) \/ s \in Full(b.bb) => s \in Squares BY DEF Full
  <2> QED BY <1>2, <2>1, <2>2
<1>7. ASSUME NEW p \in Men(by) PROVE new[p] = b.bb[p]
  <2>1. p \in Pieces /\ p # m.piece /\ p # r.piece BY <1>5
  <2>2. m.to \notin b.bb[p] /\ r.to \notin b.bb[p] /\ m.from \notin b.bb[p] /\ r.from \notin b.bb[p]
    BY <1>2, <2>1 DEF Free
  <2>3. \A s \in Squares : s \in new[p] <=> s \in b.bb[p] BY <1>3, <2>1, <2>2
  <2> QED BY <1>4, <2>1, <2>3
<1>8. \A q \in {Pawn, Knight, Bishop, Rook, Queen, King} : new[Piece(by, q)] = b.bb[Piece(by, q)]
  <2>1. \A q \in {Pawn, Knight, Bishop, Rook, Queen, King} : Piece(by, q) \in Men(by)
    BY <1>1, PieceOf DEF Pawn, Knight, Bishop, Rook, Queen, King
  <2> QED BY <1>7, <2>1
<1>9. \A s : Leaps(new, by, s) = Leaps(b.bb, by, s) BY <1>8 DEF Leaps
<1>10. \A l : Runs(new, by, l) = Runs(b.bb, by, l) BY <1>8 DEF Runs
<1> QED BY <1>6, <1>7, <1>9, <1>10 DEF by

\* A castling of normal chess that leaves the king safe leads to a square not attacked before.
LEMMA CastlingWasSafe ==
  ASSUME NEW b, Ready(b), HomeSetup, ~g_chess960, NEW m, FitFrom(b, m), FitCastling(b, m), NEW new, Castled(b.bb, new, m, CastleRook(m)),
         ~Assails(new, 1 - b.side, m.to, Full(new))
  PROVE  ~Assails(b.bb, 1 - b.side, m.to, All(b))
<1> DEFINE by == 1 - b.side
           r == CastleRook(m)
           t == m.to
           f == m.from
           idx == castle_index(m.to)
<1>1. BothMove(b, m, r) BY CastlingFacts DEF Ready
<1> HIDE DEF r
<1>2. /\ \A s : s \in Full(new) <=> s = t \/ s = r.to \/ (s # f /\ s # r.from /\ s \in Full(b.bb))
      /\ \A s : Leaps(new, by, s) = Leaps(b.bb, by, s)
      /\ \A l : Runs(new, by, l) = Runs(b.bb, by, l)
  BY <1>1, CastledAre DEF r
<1>3. All(b) = Full(b.bb) BY AllIsFull DEF Ready
<1>4. idx \in Rights /\ OfSide(idx) = b.side /\ t = castle_king_to(idx) /\ f = castle_king_sq(b.side) BY DEF FitCastling, Ready
<1>5. r.to = castle_rook_to(idx) BY DEF CastleRook, r
<1> HIDE DEF idx
<1>6. f = corners.king[OfSide(idx) + 1] BY <1>4, HomeKing DEF Ready
<1>7. /\ t \in Squares /\ f \in Squares /\ r.to \in Squares /\ r.to # t /\ Row(t) = Row(r.to) /\ Row(f) = Row(t)
      /\ \A e \in Squares : Inside(r.to, t, e) => e = f \/ Inside(f, t, e)
  <2>1. <<t, r.to, f>> \in {<<62, 61, 60>>, <<58, 59, 60>>, <<6, 5, 4>>, <<2, 3, 4>>}
    BY <1>4, <1>5, <1>6 DEF Rights, castle_king_to, castle_rook_to, corners, OfSide
  <2> QED BY <2>1 DEF Squares, Row, Inside
<1>8. f \in All(b) /\ f \notin b.occ[by]
  <2>1. m.piece \in Men(b.side) /\ m.piece \in Pieces /\ f \in b.bb[m.piece] /\ \A p \in Pieces : f \in b.bb[p] => p = m.piece
    BY <1>1 DEF BothMove
  <2>2. f \in Full(b.bb) BY <1>7, <2>1 DEF Full, Free
  <2>3. b.side \in {white, black} BY DEF Ready
  <2>4. \A p \in Men(by) : p \in Pieces /\ p # m.piece BY <2>1, <2>3, MenIs
  <2>5. b.occ[by] = Occupied(b.bb, by) BY <2>3 DEF Ready, white, black
  <2> HIDE DEF by, f
  <2>6. f \notin Occupied(b.bb, by) BY <2>1, <2>4, OccupiedIn
  <2> QED BY <1>3, <2>2, <2>5, <2>6
<1>9. Leaps(new, by, t) = {} /\ ~Aims(new, by, t, Full(new)) BY DEF Assails
<1> HIDE DEF by, t, f
<1>10. ASSUME NEW l \in 1..4, NEW e \in Runs(b.bb, by, l), Sees(l, t, e, All(b)) PROVE FALSE
  <2>1. e \in Squares /\ OnLine(l, t, e) /\ Clear(l, t, e, All(b)) BY <1>10 DEF Sees
  <2>2. e # f BY <1>8, EnemiesStand DEF by
  <2>3. e \in Runs(new, by, l) BY <1>2
  <2>4. ~Sees(l, t, e, Full(new)) BY <1>9, <2>3 DEF Aims
  <2>5. PICK u \in Full(new) : u \in Squares /\ OnLine(l, t, u) /\ Inside(u, t, e) BY <2>1, <2>4 DEF Sees, Clear
  <2>6. u = t \/ u = r.to \/ u \in All(b) BY <1>2, <1>3
  <2>7. u = r.to BY <2>1, <2>5, <2>6 DEF OnLine, Clear
  <2>8. OnLine(4, t, r.to) /\ OnLine(4, t, f)
    <3>1. t # f BY <1>7, <2>1, <2>2, <2>5, <2>7 DEF Inside, Squares
    <3> QED BY <1>7, <3>1, LineOfIs DEF OnLine
  <2>9. l = 4 BY <1>7, <2>5, <2>7, <2>8, OneLine
  <2>10. Inside(f, t, e) BY <1>7, <2>1, <2>2, <2>5, <2>7
  <2> QED BY <1>7, <1>8, <2>1, <2>8, <2>9, <2>10 DEF Clear
<1> QED BY <1>2, <1>9, <1>10 DEF Assails, Aims, by, t, f

\* An en passant capture that leaves the king safe passes the test of the sliders.
LEMMA PassingWasSafe ==
  ASSUME NEW b, Ready(b), NEW m, FitFrom(b, m), FitPlain(b, m), m.enpass, ~m.castling, NEW cap, cap = m.to - Up(b.side),
         PlainMove(b, m, Piece(1 - b.side, Pawn), cap), NEW new, Shifted(b.bb, new, m, cap),
         NEW k \in Squares, k = KingSquare(b, b.side), ~Assails(new, 1 - b.side, k, Full(new))
  PROVE  legal_before(b, m)
<1> DEFINE by == 1 - b.side
           f == m.from
           t == m.to
           passed == Xor(All(b), {m.from, m.to - Up(b.side)}) \cup {m.to}
<1>1. /\ f \in Squares /\ t \in Squares /\ by \in {white, black} /\ Free(b.bb, t)
      /\ m.piece = Piece(b.side, Pawn) /\ cap \in b.bb[Piece(by, Pawn)] /\ cap \in Squares
  BY PassingFacts
<1>2. /\ \A s \in Squares : s \in Full(new) <=> s = t \/ (s # f /\ s # cap /\ s \in Full(b.bb))
      /\ \A p \in Men(by) : \A s : s \in new[p] <=> s \in b.bb[p] /\ s # t /\ s # cap
  BY ShiftedAre
<1>3. All(b) = Full(b.bb)
  BY AllIsFull DEF Ready
<1>5. passed = Full(new)
  <2>1. f \in Full(b.bb) /\ cap \in Full(b.bb)
    <3>1. m.piece \in Pieces /\ f \in b.bb[m.piece] /\ Piece(by, Pawn) \in Pieces
      BY <1>1, PieceOf DEF PlainMove, Pawn
    <3> QED
      BY <1>1, <3>1 DEF Full, Free
  <2>2. Full(b.bb) \subseteq Squares /\ Full(new) \subseteq Squares
    BY DEF Full
  <2>3. \A s : s \in passed <=> s = t \/ (s # f /\ s # cap /\ s \in Full(b.bb))
    BY <1>3, <2>1, XorIn
  <2>4. \A s : s \in Full(new) <=> s = t \/ (s # f /\ s # cap /\ s \in Full(b.bb))
    BY <1>1, <1>2, <2>2
  <2> HIDE DEF passed, t, f
  <2> QED
    BY <2>3, <2>4
<1>6. StayBut(b.bb, new, by, t, cap) BY <1>2 DEF StayBut
<1>7. ~Aims(new, by, k, Full(new)) BY DEF Assails
<1>8. /\ get_bishop_attacks(k, passed) = slider_pair(k, passed)[1] /\ get_rook_attacks(k, passed) = slider_pair(k, passed)[2]
      /\ Diagonals(b) = b.bb[Piece(by, Bishop)] \cup b.bb[Piece(by, Queen)]
      /\ Straights(b) = b.bb[Piece(by, Rook)] \cup b.bb[Piece(by, Queen)]
  BY DEF get_bishop_attacks, get_rook_attacks, Diagonals, Straights, Theirs_
<1>9. legal_before(b, m) <=> /\ get_rook_attacks(k, passed) \cap Straights(b) = {}
                             /\ get_bishop_attacks(k, passed) \cap Diagonals(b) = {}
  BY DEF legal_before
<1>10. \A l, e : e \in Runs(b.bb, by, l) => e # t /\ e # cap
  <2>1. \A q \in {Bishop, Rook, Queen} : Piece(by, q) \in Pieces /\ Piece(by, q) # Piece(by, Pawn) /\ Piece(by, Pawn) \in Pieces
    BY <1>1, PieceOf DEF Bishop, Rook, Queen, Pawn
  <2>2. \A q \in {Bishop, Rook, Queen} : t \notin b.bb[Piece(by, q)] /\ cap \notin b.bb[Piece(by, q)]
    BY <1>1, <2>1 DEF Free, Ready, Disjoint
  <2> HIDE DEF by, t
  <2> QED BY <2>2 DEF Runs
<1> HIDE DEF by, passed, t
<1>11. \A l, e : e \in Runs(b.bb, by, l) => e \in Runs(new, by, l) BY <1>1, <1>6, <1>10, EnemyStays
<1>12. ~Aims(b.bb, by, k, passed) BY <1>5, <1>7, <1>11 DEF Aims
<1> QED BY <1>8, <1>9, <1>12, AimsIs

\* Out of check, the test of a move before its make accepts every move the rules allow (the converse of ValidIsSafe).
LEMMA SafePasses ==
  ASSUME NEW b, ThreadOK(b, setup), HomeSetup, IsLegal(b), ~InCheck(b), NEW m \in generate_moves(b), Spared(b, m),
         ~(g_chess960 /\ m.castling)
  PROVE  legal_before(b, m)
<1> DEFINE c == b.side
           by == 1 - b.side
           k == KingSquare(b, c)
           new == Tried(b, m)
<1>1. Ready(b) /\ c \in {white, black} /\ by \in {white, black} /\ b.bb \in Boards
  BY ThreadIsReady DEF Ready, white, black
<1>2. k \in b.bb[Piece(c, King)] /\ k \in Squares /\ \A x \in b.bb[Piece(c, King)] : x = k
  BY <1>1, LegalIs
<1>3. Fit(b, m) /\ Goes(b, m) /\ FitFrom(b, m) /\ m.from \in Squares /\ m.to \in Squares
  BY <1>1, GeneratedFit, GeneratedGoes DEF Fit, FitFrom, Moves
<1>4. Turns(b, m, new) /\ Saved(b, new) BY <1>3, SparedIs
<1> HIDE DEF k, new
<1>5. CASE m.castling
  <2>1. FitCastling(b, m) /\ ~g_chess960 BY <1>3, <1>5 DEF Fit, FitPlain
  <2>2. Castled(b.bb, new, m, CastleRook(m)) BY <1>4, <1>5 DEF Turns, FitPlain
  <2>3. m.to \in new[Piece(c, King)]
    <3>1. BothMove(b, m, CastleRook(m)) BY <1>1, <1>3, <2>1, CastlingFacts DEF Ready
    <3> QED BY <2>1, <2>2, <3>1 DEF Castled, BothMove, FitCastling
  <2>4. ~Assails(new, by, m.to, Full(new)) BY <1>1, <1>3, <1>4, <2>3, SavedKing
  <2>5. ~Assails(b.bb, by, m.to, All(b)) BY <1>1, <1>3, <2>1, <2>2, <2>4, CastlingWasSafe
  <2>6. ~is_square_attacked(b, m.to, by) BY <1>3, <2>5, AttackedIs
  <2>7. ~m.enpass BY <2>1 DEF FitCastling
  <2>8. legal_before(b, m) = (g_chess960 \/ ~is_square_attacked(b, m.to, by)) BY <1>5, <2>7 DEF legal_before
  <2> QED BY <2>6, <2>8
<1>6. CASE ~m.castling
  <2>1. FitPlain(b, m) BY <1>3, <1>6 DEF Fit, FitCastling
  <2>2. PICK v, vs : Taking(b, m, v, vs) /\ Shifted(b.bb, new, m, vs) BY <1>4, <1>6 DEF Turns, FitCastling
  <2>3. PlainMove(b, m, v, vs) BY <1>1, <1>3, <2>1, <2>2, PlainFacts DEF Ready
  <2>4. CASE m.enpass
    <3> DEFINE cap == m.to - Up(b.side)
    <3>1. v = Piece(by, Pawn) /\ vs = cap /\ m.piece = Piece(c, Pawn)
      BY <2>1, <2>2, <2>4 DEF Taking, FitPlain
    <3> HIDE DEF cap
    <3>2. m.piece # Piece(c, King) BY <1>1, <3>1, PieceOf DEF Pawn, King
    <3>3. k \in new[Piece(c, King)] BY <1>1, <1>2, <1>3, <2>1, <2>2, <2>3, <3>2, KingRemains
    <3>4. ~Assails(new, by, k, Full(new)) BY <1>1, <1>3, <1>4, <3>3, SavedKing
    <3>5. cap = m.to - Up(b.side) /\ PlainMove(b, m, Piece(1 - b.side, Pawn), cap) /\ Shifted(b.bb, new, m, cap)
          /\ k = KingSquare(b, b.side)
      BY <2>2, <2>3, <3>1 DEF cap, k
    <3> QED BY <1>1, <1>2, <1>3, <1>6, <2>1, <2>4, <3>4, <3>5, PassingWasSafe
  <2>5. CASE ~m.enpass
    <3>1. vs = m.to \/ vs = None BY <2>2, <2>5 DEF Taking
    <3>2. CASE m.from = k
      <4>1. m.piece = Piece(c, King)
        <5>1. m.piece \in Pieces /\ m.from \in b.bb[m.piece] /\ Piece(c, King) \in Pieces
          BY <1>1, <2>3, PieceOf DEF PlainMove, King
        <5> QED
          BY <1>1, <1>2, <1>3, <3>2, <5>1 DEF Ready, Disjoint
      <4>2. m.to \in new[Piece(c, King)]
        <5>1. m.promo = 0
          <6>1. Piece(c, King) # Piece(c, Pawn) BY <1>1, PieceOf DEF Pawn, King
          <6> QED BY <2>1, <4>1, <6>1 DEF FitPlain
        <5> QED BY <2>2, <2>3, <4>1, <5>1 DEF Shifted, Landed, PlainMove
      <4>3. ~Assails(new, by, m.to, Full(new)) BY <1>1, <1>3, <1>4, <4>2, SavedKing
      <4>4. ~Assails(b.bb, by, m.to, Xor(All(b), {m.from})) BY <1>1, <2>2, <2>3, <3>1, <4>3, SafeStep
      <4>5. ~attacked_by(b, m.to, Xor(All(b), {m.from})) BY <1>1, <1>3, <4>4, AttackersAre
      <4> QED BY <1>6, <2>5, <3>2, <4>5 DEF legal_before, k
    <3>3. CASE m.from # k
      <4>1. m.piece # Piece(c, King) BY <1>2, <1>3, <3>3 DEF FitFrom
      <4>2. Guarded(b, k, m) BY <1>2, <1>3, <2>1, <2>5, <4>1, SparedIsGuarded
      <4>3. m.to # k
        <5>1. k \in new[Piece(c, King)] /\ k # m.to BY <1>1, <1>2, <1>3, <2>1, <2>2, <2>3, <4>1, KingRemains
        <5> QED BY <5>1
      <4>4. m.from \in PinnedTo(b, k) => on_line(m.from, m.to, k) BY <1>1, <1>2, <1>3, <4>2, <4>3, GuardedStaysOn
      <4> QED BY <1>6, <2>5, <3>3, <4>4 DEF legal_before, k
    <3> QED BY <3>2, <3>3
  <2> QED BY <2>4, <2>5
<1> QED BY <1>5, <1>6

\* Of the moves of this and other positions, those that validate are the moves of this one ...
ValidIn(b, list) == {m \in list : td_is_pseudo_legal(b, m)}
LEMMA ValidAre ==
  ASSUME NEW b, Ready(b), HomeSetup, NEW others, \A m \in others : OneWay(m)
  PROVE  ValidIn(b, generate_moves(b) \cup others) = generate_moves(b)
<1>1. \A m \in generate_moves(b) : OneWay(m) BY GeneratedFit, FitIsOneWay
<1>2. \A m \in generate_moves(b) \cup others : td_is_pseudo_legal(b, m) <=> m \in generate_moves(b) BY <1>1, ValidIsGenerated
<1> QED BY <1>2 DEF ValidIn

\* ... and those that pass the test of the search are its legal moves.
PassTests(b, list) ==
  {m \in list : IF InCheck(b) \/ (g_chess960 /\ m.castling) THEN td_make_move(b, m, FALSE).made ELSE legal_before(b, m)}
    = {m \in list : make_move(b, m).legal}
LEMMA TestsAreExact ==
  ASSUME NEW b, ThreadOK(b, setup), HomeSetup, IsLegal(b)
  PROVE  PassTests(b, generate_moves(b))
<1>1. Ready(b) BY ThreadIsReady
<1>2. \A m \in generate_moves(b) : Fit(b, m) /\ Goes(b, m) BY <1>1, GeneratedFit, GeneratedGoes
<1>3. \A m \in generate_moves(b) : td_make_move(b, m, FALSE).made <=> Spared(b, m) BY <1>2, TryTells
<1>4. \A m \in generate_moves(b) : make_move(b, m).legal <=> Spared(b, m) BY MakeTells
<1>5. ASSUME NEW m \in generate_moves(b), ~InCheck(b), ~(g_chess960 /\ m.castling)
      PROVE  legal_before(b, m) <=> Spared(b, m)
  <2>1. ASSUME legal_before(b, m) PROVE Spared(b, m)
    <3>1. td_is_pseudo_legal(b, m)
      <4>1. OneWay(m) BY <1>2, FitIsOneWay
      <4> QED BY <1>1, <4>1, ValidIsGenerated
    <3>2. Turns(b, m, Tried(b, m)) /\ (Saved(b, Tried(b, m)) <=> Spared(b, m)) BY <1>2, SparedIs
    <3>3. Saved(b, Tried(b, m)) BY <1>1, <1>2, <1>5, <2>1, <3>1, <3>2, ValidIsSafe
    <3> QED BY <3>2, <3>3
  <2>2. ASSUME Spared(b, m) PROVE legal_before(b, m) BY <1>5, <2>2, SafePasses
  <2> QED BY <2>1, <2>2
<1> QED BY <1>3, <1>4, <1>5 DEF PassTests

\* The map of the enemy holds nothing but squares that are hit once the king is lifted.
LEMMA MappedIs ==
  ASSUME NEW b, Ready(b), NEW k, NEW t \in Squares, t \in enemy_map(b, k)
  PROVE  Assails(b.bb, 1 - b.side, t, Xor(All(b), {k}))
<1> DEFINE by == 1 - b.side
           occ == Xor(All(b), {k})
           P == pawn_set_attacks(by, b.bb[Piece(by, Pawn)])
           On(i) == UNION {Attacks(i, s, occ) : s \in b.bb[Piece(by, i)]}
<1>1. b.side \in {white, black} /\ by \in {white, black} /\ 1 - by = b.side
  BY DEF Ready, white, black
<1>2. \A i \in {Pawn, Knight, Bishop, Rook, Queen, King} : b.bb[Piece(by, i)] \subseteq Squares
  <2>1. \A i \in {Pawn, Knight, Bishop, Rook, Queen, King} : Piece(by, i) \in Pieces
    BY <1>1, PieceOf DEF Pawn, Knight, Bishop, Rook, Queen, King
  <2> QED BY <2>1 DEF Ready, Boards
<1>3. enemy_map(b, k) = P \cup UNION {On(i) : i \in {Knight, Bishop, Rook, Queen, King}}
  BY DEF enemy_map, Theirs_
<1>4. CASE t \in P
  <2> DEFINE Q == b.bb[Piece(by, Pawn)]
             west == IF by = white THEN {<<-9, Squares>>} ELSE {<<7, Squares>>}
             east == IF by = white THEN {<<-7, Squares>>} ELSE {<<9, Squares>>}
  <2>1. P = (UNION {Shifts(u, west) : u \in Q \cap not_a_file}) \cup UNION {Shifts(u, east) : u \in Q \cap not_h_file}
    BY DEF pawn_set_attacks
  <2>2. \A s, d : t \in Shifts(s, {<<d, Squares>>}) => t = s + d
    BY DEF Shifts
  <2>3. \E s \in Q : \/ s \in not_a_file /\ t \in Shifts(s, west)
                     \/ s \in not_h_file /\ t \in Shifts(s, east)
    <3> HIDE DEF west, east, Q
    <3> QED BY <1>4, <2>1
  <2>4. PICK s \in Q : \/ s \in not_a_file /\ t \in Shifts(s, west)
                       \/ s \in not_h_file /\ t \in Shifts(s, east)
    BY <2>3
  <2>5. s \in Squares BY <1>2 DEF Pawn
  <2>6. /\ s \in not_a_file <=> File(s) # 0
        /\ s \in not_h_file <=> File(s) # 7
    BY <2>5 DEF not_a_file, not_h_file
  <2> DEFINE x == Row(s)
             y == File(s)
             z == Row(t)
             w == File(t)
  <2>7. x \in 0..7 /\ y \in 0..7 /\ z \in 0..7 /\ w \in 0..7 /\ s = 8 * x + y /\ t = 8 * z + w
    BY <2>5, Coordinates
  <2>8. CASE by = white
    <3>1. (y # 0 /\ t = s + (-9)) \/ (y # 7 /\ t = s + (-7)) BY <2>2, <2>4, <2>6, <2>8
    <3>2. (t = s - 7 /\ w # 0) \/ (t = s - 9 /\ w # 7)
      <4> HIDE DEF x, y, z, w
      <4> QED BY <2>7, <3>1
    <3>3. t \in pawn_attacks[white][s] BY <2>5, <3>2, PawnAttacksAre
    <3>4. s \in pawn_attacks[1 - by][t] BY <1>1, <2>5, <2>8, <3>3, PawnsMeet
    <3> QED BY <2>4, <3>4 DEF Assails, Leaps
  <2>9. CASE by = black
    <3>1. (y # 0 /\ t = s + 7) \/ (y # 7 /\ t = s + 9) BY <2>2, <2>4, <2>6, <2>9 DEF white, black
    <3>2. (t = s + 7 /\ w # 7) \/ (t = s + 9 /\ w # 0)
      <4> HIDE DEF x, y, z, w
      <4> QED BY <2>7, <3>1
    <3>3. t \in pawn_attacks[black][s] BY <2>5, <3>2, PawnAttacksAre
    <3>4. s \in pawn_attacks[1 - by][t] BY <1>1, <2>5, <2>9, <3>3, PawnsMeet
    <3> QED BY <2>4, <3>4 DEF Assails, Leaps
  <2> QED BY <1>1, <2>8, <2>9
<1>5. ASSUME NEW i \in {Knight, Bishop, Rook, Queen, King}, t \in On(i)
      PROVE  Assails(b.bb, by, t, occ)
  <2>1. PICK s \in b.bb[Piece(by, i)] : t \in Attacks(i, s, occ) BY <1>5
  <2>2. s \in Squares BY <1>2
  <2>3. CASE i = Knight
    <3>1. Attacks(Knight, s, occ) = knight_attacks[s] BY DEF Attacks, Knight, King
    <3>2. s \in knight_attacks[t] BY <2>1, <2>2, <2>3, <3>1, LeapersMeet
    <3> QED BY <2>1, <2>3, <3>2 DEF Assails, Leaps
  <2>4. CASE i = King
    <3>1. Attacks(King, s, occ) = king_attacks[s] BY DEF Attacks, Knight, King
    <3>2. s \in king_attacks[t] BY <2>1, <2>2, <2>4, <3>1, LeapersMeet
    <3> QED BY <2>1, <2>4, <3>2 DEF Assails, Leaps
  <2>5. CASE i \in {Bishop, Rook, Queen}
    <3>1. /\ Attacks(Bishop, s, occ) = slider_pair(s, occ)[1] /\ Attacks(Rook, s, occ) = slider_pair(s, occ)[2]
          /\ Attacks(Queen, s, occ) = slider_pair(s, occ)[1] \cup slider_pair(s, occ)[2]
      BY DEF Attacks, SliderAttacks, Knight, Bishop, Rook, Queen, King
    <3>2. /\ t \in slider_pair(s, occ)[1] <=> Sees(1, s, t, occ) \/ Sees(3, s, t, occ)
          /\ t \in slider_pair(s, occ)[2] <=> Sees(2, s, t, occ) \/ Sees(4, s, t, occ)
      <4>1. \A j \in {1, 2} : t \in slider_pair(s, occ)[j] <=> \E l \in {j, j + 2} : Sees(l, s, t, occ) BY <2>2, SliderSees
      <4> QED BY <4>1
    <3>3. \E l \in 1..4 : s \in Runs(b.bb, by, l) /\ Sees(l, s, t, occ)
      <4> HIDE DEF by, occ
      <4>1. /\ Sees(1, s, t, occ) \/ Sees(3, s, t, occ) => i \in {Bishop, Queen} \/ i = Rook
            /\ i = Bishop => Sees(1, s, t, occ) \/ Sees(3, s, t, occ)
            /\ i = Rook => Sees(2, s, t, occ) \/ Sees(4, s, t, occ)
            /\ i = Queen => Sees(1, s, t, occ) \/ Sees(3, s, t, occ) \/ Sees(2, s, t, occ) \/ Sees(4, s, t, occ)
        BY <2>1, <2>5, <3>1, <3>2
      <4>2. /\ i \in {Bishop, Queen} => s \in Runs(b.bb, by, 1) /\ s \in Runs(b.bb, by, 3)
            /\ i \in {Rook, Queen} => s \in Runs(b.bb, by, 2) /\ s \in Runs(b.bb, by, 4)
        BY <2>1, RunsAre
      <4>3. 1 \in 1..4 /\ 2 \in 1..4 /\ 3 \in 1..4 /\ 4 \in 1..4 OBVIOUS
      <4> QED BY <2>5, <4>1, <4>2, <4>3
    <3>4. PICK l \in 1..4 : s \in Runs(b.bb, by, l) /\ Sees(l, s, t, occ) BY <3>3
    <3>5. Sees(l, t, s, occ) BY <2>2, <3>4, SeenBack
    <3> QED BY <3>4, <3>5 DEF Assails, Aims
  <2> QED BY <2>3, <2>4, <2>5
<1> HIDE DEF P, On
<1> QED BY <1>3, <1>4, <1>5 DEF by, occ

\* The king steps to the same squares, whether the map of the enemy is there or each square is looked at.
LEMMA StepsAgree ==
  ASSUME NEW b, Ready(b), NEW info, info.king \in Squares
  PROVE  KingSteps(b, info, FALSE, enemy_map(b, info.king)) = KingSteps(b, info, TRUE, enemy_map(b, info.king))
<1> DEFINE k == info.king
           map == enemy_map(b, k)
           kt == king_attacks[k] \ b.occ[b.side]
           open == {s \in kt : ~attacked_by(b, s, Xor(All(b), {k}))}
<1>1. kt \subseteq Squares BY LeapersOnBoard
<1>2. \A s \in Squares : s \in map <=> Assails(b.bb, 1 - b.side, s, Xor(All(b), {k})) BY MapIs, MappedIs
<1>3. \A s \in Squares : attacked_by(b, s, Xor(All(b), {k})) <=> Assails(b.bb, 1 - b.side, s, Xor(All(b), {k}))
  BY AttackersAre DEF Ready
<1>4. open = kt \ map
  <2> HIDE DEF kt, map
  <2> QED BY <1>1, <1>2, <1>3
<1>5. /\ KingSteps(b, info, TRUE, map) = {Simple(k, s, Piece(b.side, King), s \in b.occ[1 - b.side]) : s \in kt \ map}
      /\ KingSteps(b, info, FALSE, map) = {Simple(k, s, Piece(b.side, King), s \in b.occ[1 - b.side]) : s \in open}
  BY DEF KingSteps
<1> HIDE DEF map, kt, open
<1>6. KingSteps(b, info, FALSE, map) = KingSteps(b, info, TRUE, map) BY <1>4, <1>5
<1> QED BY <1>6 DEF map, k

\* The stages give the moves of the whole list: the captures among the tactics, the other moves among the quiets.
LEMMA StagesCover ==
  ASSUME NEW b, Ready(b), IsLegal(b)
  PROVE  UNION {generate_legal_tv(b, stage) : stage \in {"tactics", "quiets"}} = generate_legal_tv(b, "all")
<1> DEFINE info == InfoFor(b, KingSquare(b, b.side))
<1>1. info.king \in Squares BY LegalIs DEF Ready, InfoFor, MoveInfo
<1>2. KingSteps(b, info, FALSE, enemy_map(b, info.king)) = KingSteps(b, info, TRUE, enemy_map(b, info.king))
  BY <1>1, StepsAgree
<1>3. legal_emit_tv(b, FALSE) = legal_emit_tv(b, TRUE) BY <1>2 DEF legal_emit_tv, EmittedFor, Emitted, legal_prepare
<1>4. /\ generate_legal_tv(b, "tactics") = {m \in legal_emit_tv(b, FALSE) : StageKeeps("tactics", m)}
      /\ generate_legal_tv(b, "quiets") = {m \in legal_emit_tv(b, TRUE) : StageKeeps("quiets", m)}
      /\ generate_legal_tv(b, "all") = {m \in legal_emit_tv(b, TRUE) : StageKeeps("all", m)}
  BY DEF generate_legal_tv
<1>5. \A m : /\ StageKeeps("tactics", m) <=> (m.capture \/ (m.promo # 0 /\ Type(m.promo) = Queen))
             /\ StageKeeps("quiets", m) <=> ~m.capture
             /\ StageKeeps("all", m)
  BY DEF StageKeeps
<1>6. UNION {generate_legal_tv(b, stage) : stage \in {"tactics", "quiets"}}
        = generate_legal_tv(b, "tactics") \cup generate_legal_tv(b, "quiets")
  OBVIOUS
<1> QED BY <1>3, <1>4, <1>5, <1>6

\* Once nobody attacks the king nor a square, nobody hits the square through the king.
LEMMA ThroughTheKing ==
  ASSUME NEW b, NEW by, NEW k \in Squares, NEW t \in Squares,
         ~Assails(b.bb, by, k, All(b)), ~Assails(b.bb, by, t, All(b))
  PROVE  ~Assails(b.bb, by, t, Xor(All(b), {k}))
<1>1. Leaps(b.bb, by, t) = {} BY DEF Assails
<1>2. ASSUME NEW l \in 1..4, NEW e \in Runs(b.bb, by, l), Sees(l, t, e, Xor(All(b), {k})) PROVE FALSE
  <2>1. ~Sees(l, t, e, All(b)) /\ ~Sees(l, k, e, All(b)) BY DEF Assails, Aims
  <2>2. e \in Squares BY <1>2 DEF Sees
  <2>3. \A u \in All(b) : u = k \/ u \in Xor(All(b), {k}) BY DEF Xor
  <2>4. Pins(l, t, e, k, All(b)) BY <1>2, <2>1, <2>2, <2>3, Uncovers
  <2>5. OnLine(l, k, e) /\ Clear(l, k, e, All(b))
    <3>1. OnLine(l, t, e) /\ OnLine(l, t, k) /\ Inside(k, t, e)
          /\ \A u \in All(b) : u \in Squares /\ OnLine(l, t, u) /\ Inside(u, t, e) => u = k
      BY <2>4 DEF Pins
    <3>2. k # e /\ OnLine(l, k, e) BY <2>2, <3>1 DEF OnLine, Inside, Squares
    <3>3. ASSUME NEW u \in All(b), u \in Squares, OnLine(l, k, u), Inside(u, k, e) PROVE FALSE
      <4>1. Inside(u, t, e) /\ u # t /\ u # k BY <2>2, <3>1, <3>3 DEF Inside, Squares
      <4>2. OnLine(l, t, u) BY <3>1, <3>3, <4>1 DEF OnLine
      <4> QED BY <3>1, <3>3, <4>1, <4>2
    <3> QED BY <3>2, <3>3 DEF Clear
  <2> QED BY <2>1, <2>2, <2>5 DEF Sees
<1> QED BY <1>1, <1>2 DEF Assails, Aims

\* The checkers of legal_prepare are the men that attack the king.
LEMMA CheckersStrike ==
  ASSUME NEW b, Ready(b), IsLegal(b), NEW k \in b.bb[Piece(b.side, King)], NEW u
  PROVE  u \in Checkers(b, k) <=> Strikes(b, k, u)
<1> DEFINE by == 1 - b.side
<1>1. b.side \in {white, black} /\ b.bb \in Boards /\ 1 - by = b.side BY DEF Ready, white, black
<1>2. k \in Squares BY <1>1, OurKingStands
<1>3. king_attacks[k] \cap b.bb[Piece(by, King)] = {} BY <1>1, KingsApart
<1>4. u \in Leaps(b.bb, by, k) => u \in Checkers(b, k) BY <1>1, <1>2, <1>3, AttackersCheck
<1>5. \A l \in 1..4 : u \in Runs(b.bb, by, l) /\ Sees(l, k, u, All(b)) => u \in Checkers(b, k)
  BY <1>1, <1>2, <1>3, AttackersCheck
<1>6. u \in Checkers(b, k) =>
           \/ u \in knight_attacks[k] /\ u \in b.bb[Piece(by, Knight)]
           \/ u \in pawn_attacks[b.side][k] /\ u \in b.bb[Piece(by, Pawn)]
           \/ \E l \in 1..4 : u \in Runs(b.bb, by, l) /\ Sees(l, k, u, All(b))
  BY <1>2, CheckersAre
<1>7. \/ u \in knight_attacks[k] /\ u \in b.bb[Piece(by, Knight)]
      \/ u \in pawn_attacks[b.side][k] /\ u \in b.bb[Piece(by, Pawn)]
      => u \in Leaps(b.bb, by, k)
  BY <1>1 DEF Leaps
<1> HIDE DEF by
<1> QED BY <1>4, <1>5, <1>6, <1>7 DEF Strikes, by

\* There are none when nobody attacks it.
LEMMA NoCheckers ==
  ASSUME NEW b, Ready(b), IsLegal(b), NEW k \in b.bb[Piece(b.side, King)]
  PROVE  Checkers(b, k) = {} <=> ~Assails(b.bb, 1 - b.side, k, All(b))
<1>1. \A u : u \in Checkers(b, k) <=> Strikes(b, k, u) BY CheckersStrike
<1>2. (\E u : Strikes(b, k, u)) <=> Assails(b.bb, 1 - b.side, k, All(b)) BY DEF Strikes, Assails, Aims
<1> QED BY <1>1, <1>2

\* The castlings of the legal generator are castlings of the rules.
LEMMA ListedCastling ==
  ASSUME NEW b, Ready(b), HomeSetup, ~g_chess960, IsLegal(b), NEW k \in b.bb[Piece(b.side, King)],
         NEW m \in LegalCastling(b, InfoFor(b, k), enemy_map(b, k))
  PROVE  m.castling /\ m.piece = Piece(b.side, King) /\ Can(b, castle_index(m.to))
<1> DEFINE c == b.side
           e == corners.king[c + 1]
           info == InfoFor(b, k)
           map == enemy_map(b, k)
<1>1. c \in {white, black} /\ b.castle \subseteq Rights BY DEF Ready
<1>2. PICK i \in b.castle : /\ OfSide(i) = c /\ info.checkers = {}
                            /\ All(b) \cap (Span(e, corners.rook[i + 1]) \ {e, corners.rook[i + 1]}) = {}
                            /\ {castle_rook_to(i), castle_king_to(i)} \cap map = {}
                            /\ m = CastlingMove(e, castle_king_to(i), c)
  BY DEF LegalCastling
<1>3. m.castling = TRUE /\ m.piece = Piece(c, King) /\ m.to = castle_king_to(i) BY <1>2 DEF CastlingMove, encode_move
<1>4. castle_index(m.to) = i /\ castle_rook_to(i) \in Squares BY <1>1, <1>3, CastlingSquares
<1>5. info.checkers = Checkers(b, k) BY DEF InfoFor, MoveInfo
<1>6. ~Assails(b.bb, 1 - c, k, All(b)) BY <1>2, <1>5, NoCheckers
<1>7. e = castle_king_sq(c) BY <1>1, HomeKing
<1>8. castle_king_sq(c) \in b.bb[Piece(c, King)] BY <1>1, <1>2 DEF Ready, RightsSound, castle_king_sq
<1>9. e = k /\ k \in Squares
  <2>1. \A x \in b.bb[Piece(c, King)] : x = KingSquare(b, c) BY <1>1, LegalIs DEF Ready
  <2> QED BY <1>1, <1>7, <1>8, <2>1, OurKingStands
<1>10. ~Assails(b.bb, 1 - c, castle_rook_to(i), All(b))
  <2>1. ~Assails(b.bb, 1 - c, castle_rook_to(i), Xor(All(b), {k})) BY <1>2, <1>4, MapIs
  <2>2. \A u \in Xor(All(b), {k}) : u \in All(b)
    <3>1. k \in All(b) BY <1>1, OurKingStands
    <3> QED BY <3>1 DEF Xor
  <2>3. \A l, x : Sees(l, castle_rook_to(i), x, All(b)) => Sees(l, castle_rook_to(i), x, Xor(All(b), {k})) BY <2>2, SeesMore
  <2> QED BY <2>1, <2>3 DEF Assails, Aims
<1>11. ~is_square_attacked(b, e, 1 - c) /\ ~is_square_attacked(b, castle_rook_to(i), 1 - c)
  <2> HIDE DEF e
  <2> QED BY <1>4, <1>6, <1>9, <1>10, AttackedIs
<1>12. CanCastle(b, i)
  <2>1. All(b) = b.occ[white] \cup b.occ[black] BY DEF All
  <2> QED BY <1>2, <1>11, <2>1 DEF CanCastle
<1> QED BY <1>3, <1>4, <1>12 DEF Can

\* The pawn moves of the legal generator promote from the seventh row, and only from it.
LEMMA ListedPawns ==
  ASSUME NEW b, NEW info, NEW m, m \in PromotionMoves(b, info) \/ m \in OtherPawnMoves(b, info)
  PROVE  m.promo \in (IF Row(m.from) = SeventhRow(b.side) THEN Promoted(b.side) ELSE {0}) /\ m.castling = FALSE
<1> DEFINE c == b.side
<1>1. CASE m \in PromotionMoves(b, info)
  <2> DEFINE pushes(s) == {s + Up(c)} \cap info.quiet_mask \cap AllowedFrom(info, s)
             takes(s) == pawn_attacks[c][s] \cap info.capture_mask \cap AllowedFrom(info, s)
  <2>0. PICK s \in {u \in Us(b, Pawn) : Row(u) = SeventhRow(c)} :
          m \in (UNION {PawnArrivals(s, to, c, FALSE) : to \in pushes(s)}) \cup UNION {PawnArrivals(s, to, c, TRUE) : to \in takes(s)}
    BY <1>1 DEF PromotionMoves
  <2> HIDE DEF pushes, takes
  <2>1. Row(s) = SeventhRow(c) /\ \E to, capture : m \in PawnArrivals(s, to, c, capture) BY <2>0
  <2>2. PICK to, capture : m \in PawnArrivals(s, to, c, capture) BY <2>1
  <2>3. PICK q \in Promoted(c) : m = encode_move(s, to, Piece(c, Pawn), q, capture, FALSE, FALSE, FALSE) BY <2>1, <2>2 DEF PawnArrivals
  <2>4. m.from = s /\ m.promo = q /\ m.castling = FALSE BY <2>3 DEF encode_move
  <2> QED BY <2>1, <2>3, <2>4
<1>2. CASE m \in OtherPawnMoves(b, info)
  <2>1. \E s \in {u \in Us(b, Pawn) : Row(u) # SeventhRow(c)} :
          \E to, capture, double, enpass : m = encode_move(s, to, Piece(c, Pawn), 0, capture, double, enpass, FALSE)
    BY <1>2 DEF OtherPawnMoves, Simple
  <2>2. PICK s, to, capture, double, enpass :
          m = encode_move(s, to, Piece(c, Pawn), 0, capture, double, enpass, FALSE) /\ Row(s) # SeventhRow(c)
    BY <2>1
  <2>3. m.from = s /\ m.promo = 0 /\ m.castling = FALSE BY <2>2 DEF encode_move
  <2> QED BY <2>2, <2>3
<1> QED BY <1>1, <1>2

\* A move of the legal generator is one of the pseudo-legal list, and spares the king.
LEMMA ListedIsGenerated ==
  ASSUME NEW b, ThreadOK(b, setup), HomeSetup, ~g_chess960, Safe(b), NEW m \in generate_legal_tv(b, "all")
  PROVE  m \in generate_moves(b) /\ Spared(b, m)
<1> DEFINE c == b.side
           k == KingSquare(b, c)
           info == InfoFor(b, k)
           map == enemy_map(b, info.king)
           new == Tried(b, m)
<1>1. Ready(b) /\ IsLegal(b) /\ EpSane(b) /\ c \in {white, black} /\ b.bb \in Boards BY ThreadIsReady DEF Safe, Ready
<1>2. k \in b.bb[Piece(c, King)] /\ k \in Squares BY <1>1, LegalIs
<1>3. Fit(b, m)
  <2>1. b.bb[Piece(b.side, King)] # {} BY <1>2
  <2> QED BY <1>1, <2>1, LegalFit
<1>4. Turns(b, m, new) BY <1>3, ThreadTurns DEF Tried
<1>5. Saved(b, new) /\ Goes(b, m) BY <1>1, <1>4, ListedIsSafe
<1>6. Spared(b, m) BY <1>1, <1>3, <1>5, SparedIs
<1>7. m \in Emitted(b, info, TRUE, map) BY DEF generate_legal_tv, legal_emit_tv, EmittedFor, legal_prepare
<1>8. info.king = k BY DEF InfoFor, MoveInfo
<1>9. Piece(c, King) # Piece(c, Pawn) /\ \A t \in {Knight, Bishop, Rook, Queen} : Piece(c, t) # Piece(c, Pawn)
  BY <1>1, PieceOf DEF Pawn, Knight, Bishop, Rook, Queen, King
<1> HIDE DEF map, k, info
<1>10. \/ m \in PromotionMoves(b, info) \/ m \in OtherPawnMoves(b, info)
       \/ m \in UNION {PieceTargets(b, info, t) : t \in {Knight, Bishop, Rook, Queen}}
       \/ m \in LegalCastling(b, info, map)
       \/ m \in KingSteps(b, info, TRUE, map)
  BY <1>7 DEF Emitted
<1>11. CASE m \in PromotionMoves(b, info) \/ m \in OtherPawnMoves(b, info)
  <2>1. m.promo \in (IF Row(m.from) = SeventhRow(c) THEN Promoted(c) ELSE {0}) /\ m.castling = FALSE BY <1>11, ListedPawns
  <2> QED BY <2>1, <1>1, <1>3, <1>5, <1>6, ProperIsGenerated DEF Proper
<1>12. CASE m \in UNION {PieceTargets(b, info, t) : t \in {Knight, Bishop, Rook, Queen}}
  <2>1. PICK t \in {Knight, Bishop, Rook, Queen} : m \in PieceTargets(b, info, t) BY <1>12
  <2>2. m.piece = Piece(c, t) /\ ~m.castling BY <1>1, <2>1, PiecesCover DEF info
  <2>3. Proper(b, m) BY <1>9, <2>2 DEF Proper
  <2> QED BY <2>3, <1>1, <1>3, <1>5, <1>6, ProperIsGenerated
<1>13. CASE m \in LegalCastling(b, info, map)
  <2>1. m \in LegalCastling(b, InfoFor(b, k), enemy_map(b, k)) BY <1>8, <1>13 DEF info, map
  <2>2. m.castling /\ m.piece = Piece(c, King) /\ Can(b, castle_index(m.to)) BY <1>1, <1>2, <2>1, ListedCastling
  <2>3. Proper(b, m) BY <1>9, <2>2 DEF Proper
  <2> QED BY <2>3, <1>1, <1>3, <1>5, <1>6, ProperIsGenerated
<1>14. CASE m \in KingSteps(b, info, TRUE, map)
  <2>1. PICK s : m = Simple(info.king, s, Piece(c, King), s \in b.occ[1 - c]) BY <1>14 DEF KingSteps
  <2>2. m.piece = Piece(c, King) /\ m.castling = FALSE BY <2>1 DEF Simple, encode_move
  <2>3. Proper(b, m) BY <1>9, <2>2 DEF Proper
  <2> QED BY <2>3, <1>1, <1>3, <1>5, <1>6, ProperIsGenerated
<1> QED BY <1>10, <1>11, <1>12, <1>13, <1>14

\* The squares of the masks, by what is on them.
Targets(info, m) ==
  /\ m.capture => m.to \in info.capture_mask
  /\ ~m.capture => m.to \in info.quiet_mask
  /\ m.to \in AllowedFrom(info, m.from)

\* A move that guards the king goes to a square of the masks, along the line of its pin (the converse of MasksGuard).
LEMMA GuardedCovers ==
  ASSUME NEW b, Ready(b), IsLegal(b), NEW k \in b.bb[Piece(b.side, King)], NEW m, FitFrom(b, m), FitPlain(b, m), ~m.enpass,
         Guarded(b, k, m)
  PROVE  ~Several(InfoFor(b, k).checkers) /\ Targets(InfoFor(b, k), m)
<1> DEFINE c == b.side
           by == 1 - b.side
           C == Checkers(b, k)
           info == InfoFor(b, k)
           t == m.to
<1>1. c \in {white, black} /\ by \in {white, black} /\ b.bb \in Boards BY DEF Ready, white, black
<1>2. k \in Squares /\ All(b) = Full(b.bb) /\ All(b) \subseteq Squares BY <1>1, OurKingStands
<1>3. t \in Squares /\ m.from \in Squares BY DEF FitFrom, Moves
<1>4. /\ info.king = k /\ info.checkers = C /\ info.pinned = PinnedTo(b, k)
      /\ info.capture_mask = (IF C = {} THEN b.occ[by] ELSE IF Several(C) THEN {} ELSE C)
      /\ info.quiet_mask = (IF C = {} THEN Squares \ All(b)
                            ELSE IF Several(C) \/ C \cap (Diagonals(b) \cup Straights(b)) = {} THEN {}
                            ELSE between_tbl[k][Lsb(C)])
  BY DEF InfoFor, MoveInfo
<1>5. \A u : u \in C <=> Strikes(b, k, u) BY CheckersStrike
<1>6. \A x, y \in C : x = y BY <1>1, <1>3, <1>5, GuardedFromOne
<1>7. ~Several(C) BY <1>6, NotSeveral
<1>8. m.capture => t \in b.occ[by] /\ t \in All(b)
  <2>1. ASSUME m.capture PROVE t \in b.occ[by]
    <3>1. \E p \in Men(by) : t \in b.bb[p] BY <2>1 DEF FitPlain
    <3> QED BY <3>1, ReadyOccupied
  <2> QED BY <2>1, <1>1 DEF All, white, black
<1>9. ~m.capture => t \notin All(b) BY <1>2, <1>3 DEF FitPlain, Full
<1>10. \A u \in C : u \in Squares /\ u \in All(b) /\ u \in b.occ[by]
  BY <1>5, EnemiesStand DEF Strikes
<1>11. \A u \in C : u = t \/ \E l \in 1..4 : u \in Runs(b.bb, by, l) /\ Sees(l, k, u, All(b)) /\ OnLine(l, k, t) /\ Inside(t, k, u)
  BY <1>5 DEF Guarded, Strikes
<1>12. \A l, u : Sees(l, k, u, All(b)) /\ OnLine(l, k, t) /\ Inside(t, k, u) => t \notin All(b) BY <1>3 DEF Sees, Clear
<1>13. m.capture => t \in info.capture_mask
  <2>1. CASE C = {} BY <1>4, <1>8, <2>1
  <2>2. CASE C # {} BY <1>4, <1>7, <1>8, <1>11, <1>12, <2>2
  <2> QED BY <2>1, <2>2
<1>14. ~m.capture => t \in info.quiet_mask
  <2> SUFFICES ASSUME ~m.capture PROVE t \in info.quiet_mask OBVIOUS
  <2>1. CASE C = {} BY <1>3, <1>4, <1>9, <2>1
  <2>2. CASE C # {}
    <3>1. PICK u \in C : TRUE BY <2>2
    <3>2. u # t BY <1>9, <1>10, <3>1
    <3>3. PICK l \in 1..4 : u \in Runs(b.bb, by, l) /\ Sees(l, k, u, All(b)) /\ OnLine(l, k, t) /\ Inside(t, k, u)
      BY <1>11, <3>1, <3>2
    <3>4. u \in Diagonals(b) \cup Straights(b)
      BY <3>3 DEF Runs, Diagonals, Straights, Theirs_
    <3>5. C \in SUBSET Int BY <1>10 DEF Squares
    <3>6. Lsb(C) = u BY <1>6, <3>1, <3>5, LsbIn
    <3>7. t \in between_tbl[k][u] BY <1>2, <1>3, <1>10, <3>1, <3>3, BetweenIs DEF Sees
    <3> QED BY <1>4, <1>7, <2>2, <3>1, <3>4, <3>6, <3>7
  <2> QED BY <2>1, <2>2
<1>15. t \in AllowedFrom(info, m.from)
  <2>1. CASE m.from \notin PinnedTo(b, k) BY <1>3, <1>4, <2>1 DEF AllowedFrom
  <2>2. CASE m.from \in PinnedTo(b, k)
    <3>1. PICK l \in 1..4 : \E e \in Runs(b.bb, by, l) : e \in Squares /\ Pins(l, k, e, m.from, All(b))
      BY <1>2, <2>2, PinnedIs
    <3>2. OnLine(l, k, m.from) /\ OnLine(l, m.from, t) BY <3>1 DEF Pins, Guarded
    <3>3. t = k \/ OnLine(l, k, t) BY <3>2 DEF OnLine
    <3>4. t \in line_bb[k][m.from] BY <1>2, <1>3, <3>2, <3>3, LineThroughIs
    <3> QED BY <1>4, <2>2, <3>4 DEF AllowedFrom
  <2> QED BY <2>1, <2>2
<1> HIDE DEF info, C
<1> QED BY <1>4, <1>7, <1>13, <1>14, <1>15 DEF info, Targets

\* Such a move of a knight, bishop, rook or queen is listed: no pinned knight has one.
LEMMA PieceIsListed ==
  ASSUME NEW b, Ready(b), IsLegal(b), NEW k \in b.bb[Piece(b.side, King)], NEW m, FitFrom(b, m), FitPlain(b, m), Goes(b, m),
         Guarded(b, k, m), NEW t \in {Knight, Bishop, Rook, Queen}, m.piece = Piece(b.side, t)
  PROVE  m \in PieceTargets(b, InfoFor(b, k), t)
<1> DEFINE c == b.side
           info == InfoFor(b, k)
<1>1. c \in {white, black} /\ m \in Moves /\ m.from \in Squares /\ m.to \in Squares BY DEF Ready, FitFrom, Moves
<1>2. Type(m.piece) = t /\ m.piece # Piece(c, Pawn)
  BY <1>1, PieceOf DEF Pawn, Knight, Bishop, Rook, Queen
<1>3. ~m.enpass /\ ~m.double /\ m.promo = 0 /\ ~m.castling BY <1>2 DEF FitPlain
<1>4. m.to \in Attacks(t, m.from, All(b)) BY <1>2, <1>3 DEF Goes, Pawn, Knight, Bishop, Rook, Queen
<1>5. Targets(info, m) BY <1>3, GuardedCovers
<1>6. m.capture <=> m.to \in b.occ[1 - c]
  <2>1. m.capture => \E p \in Men(1 - c) : m.to \in b.bb[p] BY <1>3 DEF FitPlain
  <2>2. ~m.capture => Free(b.bb, m.to) BY DEF FitPlain
  <2>3. \A p \in Men(1 - c) : p \in Pieces BY <1>1, MenIs
  <2> QED BY <2>1, <2>2, <2>3, ReadyOccupied DEF Free
<1>7. m = Simple(m.from, m.to, Piece(c, t), m.to \in b.occ[1 - c])
  <2>1. m = encode_move(m.from, m.to, m.piece, m.promo, m.capture, m.double, m.enpass, m.castling) BY <1>1, FieldsAre
  <2>2. m.capture \in BOOLEAN /\ m.double = FALSE /\ m.enpass = FALSE /\ m.castling = FALSE BY <1>1, <1>3 DEF Moves
  <2>3. m.capture = (m.to \in b.occ[1 - c]) BY <1>6, <2>2
  <2> QED BY <1>3, <2>1, <2>2, <2>3, Zenon DEF Simple
<1>8. t = Knight => m.from \notin info.pinned
  <2> SUFFICES ASSUME t = Knight, m.from \in info.pinned PROVE FALSE OBVIOUS
  <2>1. m.from \in PinnedTo(b, k) BY DEF InfoFor, MoveInfo
  <2>2. k \in Squares BY <1>1, OurKingStands
  <2>3. PICK l \in 1..4 : \E e \in Runs(b.bb, 1 - c, l) : e \in Squares /\ Pins(l, k, e, m.from, All(b))
    BY <2>1, <2>2, PinnedIs
  <2>4. OnLine(l, m.from, m.to) BY <2>3 DEF Guarded
  <2>5. Attacks(Knight, m.from, All(b)) = knight_attacks[m.from] BY DEF Attacks, Knight, King
  <2>6. KnightStep(m.from, m.to) BY <1>1, <1>4, <2>5, KnightAttacksAre
  <2> QED BY <1>1, <2>4, <2>6, KnightsJump
<1>9. m.from \in Us(b, t) BY DEF FitFrom, Us
<1> DEFINE From == IF t = Knight THEN Us(b, t) \ info.pinned ELSE Us(b, t)
           reach == info.capture_mask \cup info.quiet_mask
           To(s) == {Simple(s, to, Piece(c, t), to \in b.occ[1 - c]) : to \in Attacks(t, s, All(b)) \cap reach \cap AllowedFrom(info, s)}
<1>10. PieceTargets(b, info, t) = UNION {To(s) : s \in From} BY DEF PieceTargets
<1>11. m.from \in From BY <1>8, <1>9
<1>12. m.to \in Attacks(t, m.from, All(b)) \cap reach \cap AllowedFrom(info, m.from) BY <1>4, <1>5 DEF Targets
<1>13. m \in To(m.from) BY <1>7, <1>12
<1> HIDE DEF To, From
<1> QED BY <1>10, <1>11, <1>13

\* So is such a move of a pawn, other than en passant.
LEMMA PawnIsListed ==
  ASSUME NEW b, Ready(b), IsLegal(b), NEW k \in b.bb[Piece(b.side, King)], NEW m, FitFrom(b, m), FitPlain(b, m), Proper(b, m),
         Guarded(b, k, m), m.piece = Piece(b.side, Pawn), ~m.enpass
  PROVE  m \in PromotionMoves(b, InfoFor(b, k)) \cup OtherPawnMoves(b, InfoFor(b, k))
<1> DEFINE c == b.side
           info == InfoFor(b, k)
           s == m.from
           t == m.to
<1>1. c \in {white, black} /\ m \in Moves /\ s \in Squares /\ t \in Squares BY DEF Ready, FitFrom, Moves
<1>2. Targets(info, m) BY GuardedCovers
<1>3. m.promo \in IF Row(s) = SeventhRow(c) THEN Promoted(c) ELSE {0} BY DEF Proper
<1>4. PawnWay(b, m) /\ ~m.castling BY DEF FitPlain
<1>5. s \in Us(b, Pawn) BY DEF FitFrom, Us
<1>6. m = encode_move(s, t, Piece(c, Pawn), m.promo, m.capture, m.double, FALSE, FALSE)
  <2>1. m = encode_move(m.from, m.to, m.piece, m.promo, m.capture, m.double, m.enpass, m.castling) BY <1>1, FieldsAre
  <2>2. m.enpass = FALSE /\ m.castling = FALSE BY <1>1, <1>4 DEF Moves
  <2> QED BY <2>1, <2>2
<1>7. m.double => m.promo = 0 /\ ~m.capture /\ t = s + 2 * Up(c) BY <1>4 DEF FitPlain, PawnWay
<1>8. /\ m.capture => t \in pawn_attacks[c][s] /\ t \in info.capture_mask
      /\ ~m.capture => t \in info.quiet_mask /\ (~m.double => t = s + Up(c))
      /\ t \in AllowedFrom(info, s)
  BY <1>2, <1>4 DEF Targets, PawnWay
<1>9. m.capture \in BOOLEAN /\ m.double \in BOOLEAN BY <1>1 DEF Moves
<1>10. CASE Row(s) = SeventhRow(c)
  <2>1. m.promo \in Promoted(c) /\ m.promo # 0
    BY <1>1, <1>3, <1>10 DEF Promoted, Piece, Queen, Rook, Bishop, Knight, white, black
  <2>2. m.double = FALSE BY <1>7, <1>9, <2>1
  <2>3. m \in PawnArrivals(s, t, c, m.capture) BY <1>6, <1>10, <2>1, <2>2 DEF PawnArrivals
  <2> DEFINE pushes(x) == {x + Up(c)} \cap info.quiet_mask \cap AllowedFrom(info, x)
             takes(x) == pawn_attacks[c][x] \cap info.capture_mask \cap AllowedFrom(info, x)
             Of(x) == (UNION {PawnArrivals(x, to, c, FALSE) : to \in pushes(x)}) \cup UNION {PawnArrivals(x, to, c, TRUE) : to \in takes(x)}
             From == {u \in Us(b, Pawn) : Row(u) = SeventhRow(c)}
  <2>4. PromotionMoves(b, info) = UNION {Of(x) : x \in From} BY DEF PromotionMoves
  <2>5. m \in Of(s)
    <3>1. CASE m.capture
      <4>1. t \in takes(s) BY <1>8, <3>1
      <4>2. m \in PawnArrivals(s, t, c, TRUE)
        <5>1. m.capture = TRUE BY <1>9, <3>1
        <5> QED BY <2>3, <5>1, Zenon
      <4> HIDE DEF takes, pushes
      <4> QED BY <4>1, <4>2
    <3>2. CASE ~m.capture
      <4>1. t \in pushes(s) BY <1>8, <2>2, <3>2
      <4>2. m \in PawnArrivals(s, t, c, FALSE)
        <5>1. m.capture = FALSE BY <1>9, <3>2
        <5> QED BY <2>3, <5>1, Zenon
      <4> HIDE DEF takes, pushes
      <4> QED BY <4>1, <4>2
    <3> QED BY <3>1, <3>2
  <2>6. s \in From BY <1>5, <1>10
  <2> HIDE DEF Of, From
  <2> QED BY <2>4, <2>5, <2>6
<1>11. CASE Row(s) # SeventhRow(c)
  <2>1. m.promo = 0 BY <1>3, <1>11
  <2> DEFINE rest == {u \in Us(b, Pawn) : Row(u) # SeventhRow(c)}
             push1 == {u + Up(c) : u \in rest} \ All(b)
             single_to == push1 \cap info.quiet_mask
             double_to == ({u + Up(c) : u \in {x \in push1 : Row(x) = SecondRow(c) + (IF c = white THEN -1 ELSE 1)}} \ All(b))
                            \cap info.quiet_mask
             pawn == Piece(c, Pawn)
             pushes == {Simple(u, u + Up(c), pawn, FALSE) : u \in {x \in rest : x + Up(c) \in single_to \cap AllowedFrom(info, x)}}
             jumps == {encode_move(u, u + 2 * Up(c), pawn, 0, FALSE, TRUE, FALSE, FALSE) :
                         u \in {x \in rest : x + 2 * Up(c) \in double_to \cap AllowedFrom(info, x)}}
             Takes(u) == {Simple(u, to, pawn, TRUE) : to \in pawn_attacks[c][u] \cap info.capture_mask \cap AllowedFrom(info, u)}
             captures == UNION {Takes(u) : u \in rest}
             passing == {encode_move(u, b.ep, pawn, 0, TRUE, FALSE, TRUE, FALSE) : u \in ep_ok(b, info) \cap rest}
  <2>2. OtherPawnMoves(b, info) = pushes \cup jumps \cup captures \cup passing BY DEF OtherPawnMoves
  <2>3. s \in rest BY <1>5, <1>11
  <2>4. CASE m.capture
    <3>1. m = Simple(s, t, pawn, TRUE)
      <4>1. m.capture = TRUE /\ m.double = FALSE BY <1>7, <1>9, <2>4
      <4> QED BY <1>6, <2>1, <4>1, Zenon DEF Simple, pawn
    <3>2. m \in Takes(s) BY <1>8, <2>4, <3>1
    <3> HIDE DEF Takes, pushes, jumps, passing, rest
    <3> QED BY <2>2, <2>3, <3>2
  <2>5. CASE ~m.capture /\ ~m.double
    <3>1. m = Simple(s, s + Up(c), pawn, FALSE)
      <4>1. m.capture = FALSE /\ m.double = FALSE /\ t = s + Up(c) BY <1>8, <1>9, <2>5
      <4> QED BY <1>6, <2>1, <4>1, Zenon DEF Simple, pawn
    <3>2. s + Up(c) \in info.quiet_mask /\ s + Up(c) \in AllowedFrom(info, s) BY <1>8, <2>5
    <3>3. s + Up(c) \notin All(b)
      <4>1. Free(b.bb, t) BY <2>5 DEF FitPlain
      <4>2. t \notin b.occ[white] \cup b.occ[black] BY <1>1, <4>1, FreeIs
      <4> QED BY <1>8, <2>5, <4>2 DEF All
    <3>4. s + Up(c) \in push1 BY <2>3, <3>3
    <3>5. m \in pushes
      <4> HIDE DEF push1, rest, info, pawn
      <4> QED BY <2>3, <3>1, <3>2, <3>4
    <3> HIDE DEF pushes, jumps, captures, passing
    <3> QED BY <2>2, <3>5
  <2>6. CASE m.double
    <3>1. t = s + 2 * Up(c) /\ ~m.capture BY <1>7, <2>6
    <3>2. m = encode_move(s, s + 2 * Up(c), pawn, 0, FALSE, TRUE, FALSE, FALSE)
      <4>1. m.capture = FALSE /\ m.double = TRUE BY <1>9, <2>6, <3>1
      <4> QED BY <1>6, <2>1, <3>1, <4>1, Zenon DEF pawn
    <3>3. s + Up(c) = t - Up(c) /\ s + 2 * Up(c) = (s + Up(c)) + Up(c)
      <4>1. s \in Int /\ Up(c) \in Int BY <1>1 DEF Squares, Up
      <4> QED BY <3>1, <4>1
    <3>4. t - Up(c) \in Squares /\ Free(b.bb, t - Up(c)) /\ Row(t - Up(c)) = (IF c = white THEN 5 ELSE 2) /\ Free(b.bb, t)
      BY <2>6 DEF FitPlain
    <3>5. t - Up(c) \notin All(b) /\ t \notin All(b)
      BY <1>1, <3>4, FreeIs DEF All
    <3>6. Row(t - Up(c)) = SecondRow(c) + (IF c = white THEN -1 ELSE 1) BY <1>1, <3>4 DEF SecondRow, white, black
    <3>7. s + Up(c) \in push1 BY <2>3, <3>3, <3>5
    <3>8. s + Up(c) \in {x \in push1 : Row(x) = SecondRow(c) + (IF c = white THEN -1 ELSE 1)}
      <4> HIDE DEF push1
      <4> QED BY <3>3, <3>6, <3>7
    <3>9. s + 2 * Up(c) \in info.quiet_mask /\ s + 2 * Up(c) \in AllowedFrom(info, s) BY <1>8, <3>1
    <3>10. s + 2 * Up(c) \in double_to
      <4> HIDE DEF push1, info
      <4> QED BY <3>1, <3>3, <3>5, <3>8, <3>9
    <3>11. m \in jumps
      <4> HIDE DEF double_to, rest, info, pawn
      <4> QED BY <2>3, <3>2, <3>9, <3>10
    <3> HIDE DEF pushes, jumps, captures, passing
    <3> QED BY <2>2, <3>11
  <2> QED BY <2>4, <2>5, <2>6
<1> QED BY <1>10, <1>11

\* A pawn that may take en passant leaves no bishop, rook or queen seeing the king before: the pawn that has jumped would
\* have had to step out of the way along its file.
LEMMA NoRunnerBefore ==
  ASSUME NEW b, Ready(b), Safe(b), NEW k \in b.bb[Piece(b.side, King)], NEW m, FitFrom(b, m), FitPlain(b, m), m.enpass,
         NEW cap, cap = m.to - Up(b.side), NEW l \in 1..4, NEW e \in Runs(b.bb, 1 - b.side, l), Sees(l, k, e, All(b)),
         e # cap, OnLine(l, k, m.to), Inside(m.to, k, e)
  PROVE  FALSE
<1> DEFINE t == m.to
           o == t + Up(b.side)
<1>1. /\ t = b.ep /\ b.ep # no_sq /\ t \in Squares /\ cap \in b.bb[Piece(1 - b.side, Pawn)] /\ cap \in Squares
      /\ b.side \in {white, black} /\ 1 - b.side \in {white, black}
  BY PassingFacts
<1>2. k \in Squares /\ All(b) = Full(b.bb) BY <1>1, OurKingStands
<1>3. e \in Squares /\ OnLine(l, k, e) BY DEF Sees
<1>4. k = KingSquare(b, b.side) BY <1>1, LegalIs DEF Safe, Ready
<1>5. ~Sees(l, k, e, Unjumped(b))
  <2>1. ~Aims(b.bb, 1 - b.side, k, Unjumped(b)) BY <1>1, <1>2, <1>4, SaneIs DEF Safe
  <2> QED BY <2>1 DEF Aims
<1>6. Unjumped(b) = (All(b) \ {cap}) \cup {o} BY <1>1 DEF Unjumped
<1>7. o \in Squares /\ File(o) = File(t) /\ File(cap) = File(t) BY <1>1, JumpFile
<1>8. OnLine(l, k, o) /\ Inside(o, k, e)
  <2>1. \E u \in Unjumped(b) : u \in Squares /\ OnLine(l, k, u) /\ Inside(u, k, e) BY <1>3, <1>5 DEF Sees, Clear
  <2>2. \A u \in All(b) : u \in Squares /\ OnLine(l, k, u) => ~Inside(u, k, e) BY DEF Sees, Clear
  <2> QED BY <1>6, <2>1, <2>2
<1>9. cap # k
  <2>1. Piece(1 - b.side, Pawn) \in Men(1 - b.side) /\ Piece(b.side, King) \in Men(b.side) BY <1>1, PieceOf DEF Pawn, King
  <2> QED BY <1>1, <1>2, <2>1, MenIs DEF Ready, Disjoint
<1>10. ~(OnLine(l, k, cap) /\ Inside(cap, k, e))
  <2>1. cap \in All(b)
    <3>1. Piece(1 - b.side, Pawn) \in Pieces BY <1>1, PieceOf DEF Pawn
    <3> QED BY <1>1, <1>2, <3>1 DEF Full, Free
  <2> QED BY <1>1, <2>1 DEF Sees, Clear
<1>11. Up(b.side) = 8 \/ Up(b.side) = -8 BY DEF Up
<1>12. LineOf(l, t) = LineOf(l, o) /\ LineOf(l, k) = LineOf(l, t) /\ LineOf(l, e) = LineOf(l, k) BY <1>3, <1>8 DEF OnLine
<1>13. t \in Int /\ o # t BY <1>1, <1>11 DEF Squares
<1> HIDE DEF t, o
<1>14. /\ Row(t) \in 0..7 /\ File(t) \in 0..7 /\ t = 8 * Row(t) + File(t) /\ Row(o) \in 0..7 /\ o = 8 * Row(o) + File(o)
       /\ k = 8 * Row(k) + File(k) /\ e = 8 * Row(e) + File(e) /\ cap = 8 * Row(cap) + File(cap)
       /\ Row(k) \in 0..7 /\ Row(e) \in 0..7 /\ Row(cap) \in 0..7
  BY <1>1, <1>2, <1>3, <1>7, Coordinates DEF t
<1>15. Row(o) # Row(t) BY <1>7, <1>13, <1>14
<1>16. l = 2
  <2>1. l = 1 => Row(o) = Row(t) BY <1>7, <1>12, <1>14, LineOfIs
  <2>2. l = 3 => Row(o) = Row(t) BY <1>7, <1>12, <1>14, LineOfIs
  <2>3. l = 4 => Row(o) = Row(t) BY <1>12, LineOfIs
  <2> QED BY <1>15, <2>1, <2>2, <2>3
<1>17. File(k) = File(t) /\ File(e) = File(t) BY <1>12, <1>16, LineOfIs
<1>18. OnLine(l, k, cap) BY <1>7, <1>9, <1>16, <1>17, LineOfIs DEF OnLine
<1>19. Apart(Row(cap), Row(t), 1)
  <2>1. cap = t - Up(b.side) BY DEF t
  <2>2. cap = 8 * Row(cap) + File(t) /\ t = 8 * Row(t) + File(t) BY <1>7, <1>14
  <2> QED BY <1>11, <1>14, <2>1, <2>2 DEF Apart
<1>20. Inside(t, k, e) BY DEF t
<1>21. Row(k) # Row(cap) BY <1>7, <1>9, <1>14, <1>17
<1>22. Row(e) # Row(cap) BY <1>7, <1>14, <1>17
<1>23. (Row(k) < Row(t) /\ Row(t) < Row(e)) \/ (Row(e) < Row(t) /\ Row(t) < Row(k)) BY <1>14, <1>17, <1>20 DEF Inside
<1>24. (Row(k) < Row(cap) /\ Row(cap) < Row(e)) \/ (Row(e) < Row(cap) /\ Row(cap) < Row(k))
  BY <1>14, <1>19, <1>21, <1>22, <1>23 DEF Apart
<1>25. Inside(cap, k, e) BY <1>7, <1>14, <1>17, <1>24 DEF Inside
<1> QED BY <1>10, <1>18, <1>25

\* A capture en passant that leaves the king safe is one of the listed ones, and the king has no attacker but the pawn taken.
LEMMA SafePassing ==
  ASSUME NEW b, Ready(b), Safe(b), NEW k \in b.bb[Piece(b.side, King)], NEW m, FitFrom(b, m), FitPlain(b, m), m.enpass,
         NEW cap, cap = m.to - Up(b.side), PlainMove(b, m, Piece(1 - b.side, Pawn), cap),
         NEW new, Shifted(b.bb, new, m, cap), ~Assails(new, 1 - b.side, k, Full(new))
  PROVE  m.from \in ep_ok(b, InfoFor(b, k)) /\ ~Several(InfoFor(b, k).checkers)
<1> DEFINE c == b.side
           by == 1 - b.side
           f == m.from
           t == m.to
           C == Checkers(b, k)
<1>1. /\ t = b.ep /\ b.ep # no_sq /\ t \in pawn_attacks[c][f] /\ Free(b.bb, t) /\ f \in Squares /\ t \in Squares
      /\ c \in {white, black} /\ by \in {white, black}
      /\ m.piece = Piece(c, Pawn) /\ cap \in b.bb[Piece(by, Pawn)] /\ cap \in Squares
  BY PassingFacts
<1>2. k \in Squares /\ All(b) = Full(b.bb) /\ All(b) \subseteq Squares BY <1>1, OurKingStands
<1>3. /\ \A s \in Squares : s \in Full(new) <=> s = t \/ (s # f /\ s # cap /\ s \in Full(b.bb))
      /\ \A p \in Men(by) : \A s : s \in new[p] <=> s \in b.bb[p] /\ s # t /\ s # cap
  BY ShiftedAre
<1>4. StayBut(b.bb, new, by, t, cap) BY <1>3 DEF StayBut
<1>5. \A p \in Pieces : cap \in b.bb[p] => p = Piece(by, Pawn)
  <2>1. Piece(by, Pawn) \in Pieces BY <1>1, PieceOf DEF Pawn
  <2> QED BY <1>1, <2>1 DEF Ready, Disjoint
<1>6. \A i \in {Knight, Bishop, Rook, Queen, King} : cap \notin b.bb[Piece(by, i)]
  <2>1. \A i \in {Knight, Bishop, Rook, Queen, King} : i \in 0..5 /\ i # Pawn /\ Pawn \in 0..5
    BY DEF Pawn, Knight, Bishop, Rook, Queen, King
  <2> QED BY <1>1, <1>5, <2>1, PieceOf
<1>7. \A l \in 1..4 : cap \notin Runs(b.bb, by, l) BY <1>6 DEF Runs
<1>8. \A l : \A e \in Runs(b.bb, by, l) : e \in Squares /\ e \in All(b) BY EnemiesStand
<1>9. t \notin All(b) BY <1>1, <1>2 DEF Full
<1>10. \A u : u \in Leaps(b.bb, by, k) => u = cap
  <2> SUFFICES ASSUME NEW u, u \in Leaps(b.bb, by, k), u # cap PROVE FALSE OBVIOUS
  <2>1. u # t BY <1>9, EnemiesStand
  <2>2. u \in Leaps(new, by, k) BY <1>1, <1>4, <2>1, EnemyStays
  <2> QED BY <2>2 DEF Assails
<1>11. ASSUME NEW l \in 1..4, NEW e \in Runs(b.bb, by, l), OnLine(l, k, e)
       PROVE  \E u \in Full(new) : u \in Squares /\ OnLine(l, k, u) /\ Inside(u, k, e)
  <2>1. e # t /\ e # cap /\ e \in Squares BY <1>7, <1>8, <1>9
  <2>2. e \in Runs(new, by, l) BY <1>1, <1>4, <2>1, EnemyStays
  <2>3. ~Sees(l, k, e, Full(new)) BY <2>2 DEF Assails, Aims
  <2> QED BY <1>11, <2>1, <2>3 DEF Sees, Clear
<1>12. ASSUME NEW l \in 1..4, NEW e \in Runs(b.bb, by, l), Sees(l, k, e, All(b)) PROVE FALSE
  <2>1. OnLine(l, k, e) BY <1>12 DEF Sees
  <2>2. PICK u \in Full(new) : u \in Squares /\ OnLine(l, k, u) /\ Inside(u, k, e) BY <1>11, <2>1
  <2>3. u \notin All(b) BY <1>12, <2>2 DEF Sees, Clear
  <2>4. u = t BY <1>2, <1>3, <2>2, <2>3
  <2>5. e # cap BY <1>7
  <2> QED BY <1>12, <2>2, <2>4, <2>5, NoRunnerBefore
<1>13. ASSUME NEW u \in C PROVE u = cap /\ cap \in Leaps(b.bb, by, k)
  <2>1. Strikes(b, k, u) BY <1>13, CheckersStrike DEF Safe
  <2>2. u \in Leaps(b.bb, by, k) BY <1>12, <2>1 DEF Strikes
  <2> QED BY <1>10, <2>2
<1>14. ASSUME NEW l \in 1..4, NEW e \in Runs(b.bb, by, l), Pins(l, k, e, f, All(b)) PROVE OnLine(l, k, t) /\ OnLine(l, k, f)
  <2>1. OnLine(l, k, e) /\ OnLine(l, k, f) BY <1>14 DEF Pins
  <2>2. PICK u \in Full(new) : u \in Squares /\ OnLine(l, k, u) /\ Inside(u, k, e) BY <1>11, <2>1
  <2>3. u = t \/ (u # f /\ u \in All(b)) BY <1>2, <1>3, <2>2
  <2>4. u \in All(b) => u = f BY <1>14, <2>2 DEF Pins
  <2> QED BY <2>1, <2>2, <2>3, <2>4
<1>15. /\ KingStep(f, t) /\ Apart(Row(f), Row(t), 1) /\ Row(cap) = Row(f) /\ File(cap) = File(t)
  <2>1. KingStep(f, t) /\ Apart(Row(f), Row(t), 1) /\ Row(t - Up(c)) = Row(f) /\ File(t - Up(c)) = File(t)
    <3> HIDE DEF f, t, c, by
    <3> QED BY <1>1, PawnStep
  <2>2. cap = t - Up(c) OBVIOUS
  <2> HIDE DEF f, t, c
  <2> QED BY <2>1, <2>2, Zenon
<1>16. Row(f) \in 0..7 /\ Row(t) \in 0..7 /\ File(t) \in 0..7 /\ Row(k) \in 0..7 /\ File(k) \in 0..7 /\ Row(cap) \in 0..7 /\ File(cap) \in 0..7
  BY <1>1, <1>2, Coordinates
<1>17. Row(t) # Row(f) /\ t # f BY <1>15, <1>16 DEF Apart
<1>18. InfoFor(b, k).king = k /\ InfoFor(b, k).checkers = C /\ InfoFor(b, k).pinned = PinnedTo(b, k)
  BY DEF InfoFor, MoveInfo
<1> DEFINE takers == pawn_attacks[1 - c][b.ep] \cap Us(b, Pawn)
<1>19. f \in takers
  <2>1. f \in pawn_attacks[1 - c][t] BY <1>1, PawnsMeet
  <2> QED BY <1>1, <2>1 DEF FitFrom, Us
<1>20. f \in PinnedTo(b, k) => \E l \in 1..4 : OnLine(l, k, t) /\ OnLine(l, k, f)
  <2> SUFFICES ASSUME f \in PinnedTo(b, k) PROVE \E l \in 1..4 : OnLine(l, k, t) /\ OnLine(l, k, f) OBVIOUS
  <2>1. PICK l \in 1..4 : \E e \in Runs(b.bb, by, l) : e \in Squares /\ Pins(l, k, e, f, All(b)) BY <1>2, PinnedIs
  <2> QED BY <1>14, <2>1
<1>21. f \in PinnedTo(b, k) => f \in line_bb[b.ep][k]
  <2> SUFFICES ASSUME f \in PinnedTo(b, k) PROVE f \in line_bb[t][k] BY <1>1
  <2>1. PICK l \in 1..4 : OnLine(l, k, t) /\ OnLine(l, k, f) BY <1>20
  <2>2. OnLine(l, t, k) /\ OnLine(l, t, f) BY <1>17, <2>1 DEF OnLine
  <2> QED BY <1>1, <1>2, <2>2, LineThroughIs
<1>22. ~OpensRank(b, k, f, cap)
  <2> SUFFICES ASSUME OpensRank(b, k, f, cap) PROVE FALSE OBVIOUS
  <2> DEFINE occ == Xor(All(b), {f, cap})
  <2>1. Row(k) = Row(cap) /\ \E x : x \in get_rook_attacks(k, occ) /\ Row(x) = Row(k) /\ x \in Straights(b) BY DEF OpensRank
  <2>2. PICK x : x \in get_rook_attacks(k, occ) /\ Row(x) = Row(k) /\ x \in Straights(b) BY <2>1
  <2>3. \A u \in Full(new) : u \in Squares => u = t \/ u \in occ
    <3>1. \A u : u \in All(b) /\ u # f /\ u # cap => u \in occ BY XorIn
    <3> HIDE DEF occ
    <3> QED BY <1>2, <1>3, <3>1
  <2> HIDE DEF occ
  <2>4. x \in slider_pair(k, occ)[2] BY <2>2 DEF get_rook_attacks, slider_pair
  <2>5. PICK l \in {2, 4} : Sees(l, k, x, occ) BY <1>2, <2>4, SliderSees
  <2>6. x \in Squares /\ OnLine(l, k, x) BY <2>5 DEF Sees
  <2>7. l = 4
    <3> SUFFICES ASSUME l = 2 PROVE FALSE BY <2>5
    <3>1. File(x) = File(k) /\ x # k BY <2>6, LineOfIs DEF OnLine
    <3> QED BY <1>2, <2>2, <2>6, <3>1, Coordinates
  <2>8. x \in Runs(b.bb, by, 4) BY <2>2, RunsAre DEF Straights, Theirs_
  <2>9. PICK u \in Full(new) : u \in Squares /\ OnLine(4, k, u) /\ Inside(u, k, x) BY <1>11, <2>6, <2>7, <2>8
  <2>10. u \notin occ BY <2>5, <2>7, <2>9 DEF Sees, Clear
  <2>11. u = t BY <2>3, <2>9, <2>10
  <2>12. Row(t) = Row(k) BY <2>9, <2>11, LineOfIs DEF OnLine
  <2> QED BY <1>15, <1>17, <2>1, <2>12
<1>23. C # {} => f \notin PinnedTo(b, k)
  <2> SUFFICES ASSUME C # {}, f \in PinnedTo(b, k) PROVE FALSE OBVIOUS
  <2>1. cap \in Leaps(b.bb, by, k) BY <1>13
  <2>2. cap \in pawn_attacks[c][k]
    <3>1. 1 - by = c BY <1>1 DEF white, black
    <3> QED BY <1>6, <2>1, <3>1 DEF Leaps
  <2>3. Apart(Row(k), Row(cap), 1) /\ Apart(File(k), File(cap), 1) BY <1>1, <1>2, <2>2, PawnStep
  <2>4. PICK l \in 1..4 : OnLine(l, k, t) /\ OnLine(l, k, f) BY <1>20
  <2>5. LineOf(l, k) = LineOf(l, t) /\ LineOf(l, k) = LineOf(l, f) BY <2>4 DEF OnLine
  <2>6. Apart(File(f), File(t), 1) /\ File(f) \in 0..7 BY <1>1, PawnStep, Coordinates
  <2> HIDE DEF f, t
  <2>7. l # 4 BY <1>17, <2>5, LineOfIs
  <2>8. l # 2
    <3>1. File(f) # File(t) BY <1>16, <2>6 DEF Apart
    <3> QED BY <2>5, <3>1, LineOfIs
  <2>9. l # 1
    <3> SUFFICES ASSUME l = 1 PROVE FALSE OBVIOUS
    <3>1. Row(k) - File(k) = Row(t) - File(t) BY <2>5, LineOfIs
    <3> QED BY <1>15, <1>16, <2>3, <3>1 DEF Apart
  <2>10. l # 3
    <3> SUFFICES ASSUME l = 3 PROVE FALSE OBVIOUS
    <3>1. Row(k) + File(k) = Row(t) + File(t) BY <2>5, LineOfIs
    <3> QED BY <1>15, <1>16, <2>3, <3>1 DEF Apart
  <2> QED BY <2>7, <2>8, <2>9, <2>10
<1>24. C = {} \/ C = {cap} BY <1>13
<1>25. ~Several(C)
  <2>1. \A x, y \in C : x = y BY <1>13
  <2> QED BY <2>1, NotSeveral
<1>26. cap \in Theirs_(b, Pawn) BY <1>1 DEF Theirs_
<1> HIDE DEF takers, C
<1>27. f \in (IF C = {}
             THEN {s \in takers \ PinnedTo(b, k) : ~OpensRank(b, k, s, cap)} \cup (takers \cap PinnedTo(b, k) \cap line_bb[b.ep][k])
             ELSE IF C = {cap} /\ cap \in Theirs_(b, Pawn) THEN takers \ PinnedTo(b, k) ELSE {})
  BY <1>19, <1>21, <1>22, <1>23, <1>24, <1>26
<1>28. f \in ep_ok(b, InfoFor(b, k))
  <2>1. cap = b.ep - Up(b.side) BY <1>1
  <2> HIDE DEF f
  <2> QED BY <1>1, <1>18, <1>27, <2>1 DEF ep_ok, takers
<1> QED BY <1>18, <1>25, <1>28

\* So it is listed.
LEMMA PassingIsListed ==
  ASSUME NEW b, ThreadOK(b, setup), Safe(b), NEW k \in b.bb[Piece(b.side, King)], NEW m, Fit(b, m), FitPlain(b, m), Goes(b, m),
         m.enpass, Spared(b, m)
  PROVE  m \in OtherPawnMoves(b, InfoFor(b, k)) /\ ~Several(InfoFor(b, k).checkers)
<1> DEFINE c == b.side
           cap == m.to - Up(c)
           new == Tried(b, m)
           info == InfoFor(b, k)
<1>1. Ready(b) /\ FitFrom(b, m) /\ m \in Moves BY ThreadIsReady DEF Fit, FitFrom
<1>2. /\ m.to = b.ep /\ b.ep # no_sq /\ m.to \in pawn_attacks[c][m.from] /\ m.from \in Squares /\ m.to \in Squares
      /\ c \in {white, black} /\ m.piece = Piece(c, Pawn) /\ m.capture
  BY <1>1, PassingFacts
<1>3. IsLegal(b) BY DEF Safe
<1>4. Turns(b, m, new) /\ Saved(b, new) BY <1>3, SparedIs
<1>5. Taking(b, m, Piece(1 - c, Pawn), cap) /\ Shifted(b.bb, new, m, cap)
  <2>1. ~FitCastling(b, m) BY DEF FitCastling, FitPlain
  <2>2. PICK v, vs : Taking(b, m, v, vs) /\ Shifted(b.bb, new, m, vs) BY <1>4, <2>1 DEF Turns
  <2>3. v = Piece(1 - c, Pawn) /\ vs = cap BY <1>2, <2>2 DEF Taking
  <2> QED BY <2>2, <2>3, Zenon
<1>6. PlainMove(b, m, Piece(1 - c, Pawn), cap) BY <1>1, <1>5, PlainFacts DEF Ready
<1>7. m.piece # Piece(c, King) BY <1>2, PieceOf DEF Pawn, King
<1>8. k \in new[Piece(c, King)] BY <1>1, <1>5, <1>6, <1>7, KingRemains
<1> HIDE DEF new
<1>9. ~Assails(new, 1 - c, k, Full(new)) BY <1>1, <1>3, <1>4, <1>8, SavedKing
<1>10. m.from \in ep_ok(b, info) /\ ~Several(info.checkers)
  <2> HIDE DEF info
  <2> QED BY <1>1, <1>5, <1>6, <1>9, SafePassing DEF info
<1> DEFINE rest == {u \in Us(b, Pawn) : Row(u) # SeventhRow(c)}
           passing == {encode_move(u, b.ep, Piece(c, Pawn), 0, TRUE, FALSE, TRUE, FALSE) : u \in ep_ok(b, info) \cap rest}
<1>11. m.from \in rest
  <2>1. Row(b.ep) = (IF c = white THEN 2 ELSE 5) BY <1>1, <1>2 DEF Ready, EpSound
  <2>2. Row(m.from) # SeventhRow(c) BY <1>2, <2>1, LastRow
  <2> QED BY <1>1, <1>2, <2>2 DEF FitFrom, Us
<1>12. m = encode_move(m.from, b.ep, Piece(c, Pawn), 0, TRUE, FALSE, TRUE, FALSE)
  <2>1. m = encode_move(m.from, m.to, m.piece, m.promo, m.capture, m.double, m.enpass, m.castling) BY <1>1, FieldsAre
  <2>2. m.capture \in BOOLEAN /\ m.double \in BOOLEAN /\ m.enpass \in BOOLEAN /\ m.castling \in BOOLEAN BY <1>1 DEF Moves
  <2>3. m.promo = 0 /\ m.capture = TRUE /\ m.double = FALSE /\ m.enpass = TRUE /\ m.castling = FALSE
    BY <1>2, <2>2 DEF FitPlain
  <2> QED BY <1>2, <2>1, <2>3, Zenon
<1>13. m \in passing
  <2> HIDE DEF rest, info
  <2> QED BY <1>10, <1>11, <1>12
<1>14. passing \subseteq OtherPawnMoves(b, info) BY DEF OtherPawnMoves
<1> HIDE DEF passing
<1> QED BY <1>10, <1>13, <1>14

\* A move of a man other than a pawn is the plain one between its squares.
LEMMA PlainIsSimple ==
  ASSUME NEW b, Ready(b), NEW m, FitFrom(b, m), FitPlain(b, m), m.piece # Piece(b.side, Pawn)
  PROVE  m = Simple(m.from, m.to, m.piece, m.to \in b.occ[1 - b.side])
<1> DEFINE c == b.side
<1>1. c \in {white, black} /\ m \in Moves /\ m.to \in Squares BY DEF Ready, FitFrom, Moves
<1>2. ~m.enpass /\ ~m.double /\ m.promo = 0 /\ ~m.castling BY DEF FitPlain
<1>3. m.capture <=> m.to \in b.occ[1 - c]
  <2>1. m.capture => \E p \in Men(1 - c) : m.to \in b.bb[p] BY <1>2 DEF FitPlain
  <2>2. ~m.capture => Free(b.bb, m.to) BY DEF FitPlain
  <2>3. \A p \in Men(1 - c) : p \in Pieces BY <1>1, MenIs
  <2> QED BY <2>1, <2>2, <2>3, ReadyOccupied DEF Free
<1>4. m = encode_move(m.from, m.to, m.piece, m.promo, m.capture, m.double, m.enpass, m.castling) BY <1>1, FieldsAre
<1>5. m.capture \in BOOLEAN /\ m.double = FALSE /\ m.enpass = FALSE /\ m.castling = FALSE BY <1>1, <1>2 DEF Moves
<1>6. m.capture = (m.to \in b.occ[1 - c]) BY <1>3, <1>5
<1> QED BY <1>2, <1>4, <1>5, <1>6, Zenon DEF Simple

\* A castling that leaves the king safe is listed: nobody hits the squares it crosses and reaches, not even through the king.
LEMMA CastlingIsListed ==
  ASSUME NEW b, ThreadOK(b, setup), HomeSetup, ~g_chess960, IsLegal(b), NEW k \in b.bb[Piece(b.side, King)],
         NEW m \in generate_moves(b), Fit(b, m), m.castling, Spared(b, m)
  PROVE  m \in LegalCastling(b, InfoFor(b, k), enemy_map(b, k))
<1> DEFINE c == b.side
           by == 1 - b.side
           i == castle_index(m.to)
           info == InfoFor(b, k)
           map == enemy_map(b, k)
           e == corners.king[c + 1]
           new == Tried(b, m)
<1>1. Ready(b) /\ FitFrom(b, m) /\ m \in Moves BY ThreadIsReady DEF Fit, FitFrom
<1>2. FitCastling(b, m) BY DEF Fit, FitPlain
<1>3. /\ c \in {white, black} /\ i \in Rights /\ i \in b.castle /\ OfSide(i) = c /\ m.to = castle_king_to(i)
      /\ m.from = castle_king_sq(c) /\ m.piece = Piece(c, King) /\ ~m.capture /\ m.promo = 0 /\ ~m.enpass /\ ~m.double
  BY <1>1, <1>2 DEF FitCastling, Ready
<1>4. CanCastle(b, i) BY <1>1, GeneratedIsProper DEF Proper, Can
<1>5. e = m.from BY <1>3, HomeKing
<1>6. k \in Squares /\ m.from = k
  <2>1. m.from \in b.bb[Piece(c, King)] BY <1>1, <1>3 DEF FitFrom
  <2>2. \A x \in b.bb[Piece(c, King)] : x = KingSquare(b, c) BY <1>1, <1>3, LegalIs DEF Ready
  <2> QED BY <1>1, <1>3, <2>1, <2>2, OurKingStands
<1>7. castle_rook_to(i) \in Squares /\ castle_king_to(i) \in Squares BY <1>3, CastlingSquares
<1>8. Goes(b, m) BY <1>1, GeneratedGoes
<1>9. Turns(b, m, new) /\ Saved(b, new) BY <1>8, SparedIs
<1>10. Castled(b.bb, new, m, CastleRook(m)) BY <1>2, <1>9 DEF Turns, FitPlain, FitCastling
<1>11. m.to \in new[Piece(c, King)]
  <2>1. Piece(c, King) \in Pieces BY <1>3, PieceOf DEF King
  <2> QED BY <1>3, <1>7, <1>10, <2>1 DEF Castled
<1> HIDE DEF new, i
<1>12. ~Assails(new, by, m.to, Full(new)) BY <1>1, <1>8, <1>9, <1>11, SavedKing
<1>13. ~Assails(b.bb, by, m.to, All(b)) BY <1>1, <1>2, <1>10, <1>12, CastlingWasSafe
<1>14. /\ All(b) \cap (Span(e, corners.rook[i + 1]) \ {e, corners.rook[i + 1]}) = {}
       /\ ~is_square_attacked(b, e, 1 - c) /\ ~is_square_attacked(b, castle_rook_to(i), 1 - c)
  BY <1>3, <1>4 DEF CanCastle, All
<1>15. ~Assails(b.bb, by, k, All(b)) /\ ~Assails(b.bb, by, castle_rook_to(i), All(b))
  <2> HIDE DEF e
  <2> QED BY <1>5, <1>6, <1>7, <1>14, AttackedIs
<1>16. castle_rook_to(i) \notin map /\ castle_king_to(i) \notin map
  <2>1. /\ ~Assails(b.bb, by, castle_rook_to(i), Xor(All(b), {k}))
        /\ ~Assails(b.bb, by, castle_king_to(i), Xor(All(b), {k}))
    BY <1>3, <1>6, <1>7, <1>13, <1>15, ThroughTheKing
  <2> QED BY <1>1, <1>7, <2>1, MappedIs
<1>17. info.checkers = {}
  <2>1. Checkers(b, k) = {} BY <1>1, <1>15, NoCheckers
  <2> QED BY <2>1 DEF InfoFor, MoveInfo
<1>18. m = CastlingMove(e, castle_king_to(i), c)
  <2>1. m = encode_move(m.from, m.to, m.piece, m.promo, m.capture, m.double, m.enpass, m.castling) BY <1>1, FieldsAre
  <2>2. m.capture \in BOOLEAN /\ m.double \in BOOLEAN /\ m.enpass \in BOOLEAN /\ m.castling \in BOOLEAN BY <1>1 DEF Moves
  <2>3. m.capture = FALSE /\ m.double = FALSE /\ m.enpass = FALSE /\ m.castling = TRUE BY <1>3, <2>2
  <2> QED BY <1>3, <1>5, <2>1, <2>3, Zenon DEF CastlingMove
<1> DEFINE Empty(idx) == Span(e, corners.rook[idx + 1]) \ {e, corners.rook[idx + 1]}
           May == {idx \in b.castle : /\ OfSide(idx) = c /\ info.checkers = {} /\ All(b) \cap Empty(idx) = {}
                                      /\ {castle_rook_to(idx), castle_king_to(idx)} \cap map = {}}
<1>19. i \in May
  <2> HIDE DEF map, info, e
  <2> QED BY <1>3, <1>14, <1>16, <1>17
<1>20. LegalCastling(b, info, map) = {CastlingMove(e, castle_king_to(idx), c) : idx \in May} BY DEF LegalCastling
<1> HIDE DEF May, e, info, map
<1>21. m \in LegalCastling(b, info, map) BY <1>18, <1>19, <1>20
<1> QED BY <1>21 DEF info, map

\* A step of the king to a safe square is listed.
LEMMA KingStepIsListed ==
  ASSUME NEW b, ThreadOK(b, setup), IsLegal(b), NEW k \in b.bb[Piece(b.side, King)],
         NEW m, Fit(b, m), FitPlain(b, m), Goes(b, m), m.piece = Piece(b.side, King), Spared(b, m)
  PROVE  m \in KingSteps(b, InfoFor(b, k), TRUE, enemy_map(b, k))
<1> DEFINE c == b.side
           by == 1 - b.side
           info == InfoFor(b, k)
           map == enemy_map(b, k)
           new == Tried(b, m)
<1>1. Ready(b) /\ FitFrom(b, m) /\ c \in {white, black} /\ m.to \in Squares BY ThreadIsReady DEF Fit, FitFrom, Ready, Moves
<1>2. k \in Squares /\ m.from = k
  <2>1. m.from \in b.bb[Piece(c, King)] BY <1>1 DEF FitFrom
  <2>2. \A x \in b.bb[Piece(c, King)] : x = KingSquare(b, c) BY <1>1, LegalIs DEF Ready
  <2> QED BY <1>1, <2>1, <2>2, OurKingStands
<1>3. Type(m.piece) = King /\ m.piece # Piece(c, Pawn) /\ King # Pawn /\ Piece(c, King) \in Pieces
  BY <1>1, PieceOf DEF King, Pawn
<1>4. m.promo = 0 /\ ~m.enpass /\ ~m.castling BY <1>3 DEF FitPlain
<1>5. m.to \in king_attacks[k]
  <2>1. m.to \in Attacks(King, m.from, All(b)) BY <1>3, <1>4 DEF Goes
  <2> QED BY <1>2, <2>1 DEF Attacks, Knight, King
<1>6. m.to \notin b.occ[c] BY <1>1, ReadyOccupied DEF FitPlain
<1>7. Turns(b, m, new) /\ Saved(b, new) BY SparedIs
<1>8. PICK v, vs : Taking(b, m, v, vs) /\ Shifted(b.bb, new, m, vs)
  <2>1. ~FitCastling(b, m) BY <1>4 DEF FitCastling
  <2> QED BY <1>7, <2>1 DEF Turns
<1>9. vs = m.to \/ vs = None BY <1>4, <1>8 DEF Taking
<1>10. PlainMove(b, m, v, vs) BY <1>1, <1>8, PlainFacts DEF Ready
<1>11. m.to \in new[Piece(c, King)] BY <1>1, <1>3, <1>4, <1>8 DEF Shifted, Landed
<1> HIDE DEF new
<1>12. ~Assails(new, by, m.to, Full(new)) BY <1>1, <1>7, <1>11, SavedKing
<1>13. ~Assails(b.bb, by, m.to, Xor(All(b), {k})) BY <1>1, <1>2, <1>8, <1>9, <1>10, <1>12, SafeStep
<1>14. m.to \notin map BY <1>1, <1>13, MappedIs
<1>15. m = Simple(k, m.to, Piece(c, King), m.to \in b.occ[1 - c])
  <2>1. m = Simple(m.from, m.to, m.piece, m.to \in b.occ[1 - c]) BY <1>1, <1>3, PlainIsSimple
  <2> QED BY <1>2, <2>1, Zenon
<1>16. info.king = k BY DEF InfoFor, MoveInfo
<1> DEFINE safe == (king_attacks[k] \ b.occ[c]) \ map
<1>17. m.to \in safe BY <1>5, <1>6, <1>14
<1>18. KingSteps(b, info, TRUE, map) = {Simple(k, s, Piece(c, King), s \in b.occ[1 - c]) : s \in safe} BY <1>16 DEF KingSteps
<1> HIDE DEF safe, info, map
<1>19. m \in KingSteps(b, info, TRUE, map) BY <1>15, <1>17, <1>18
<1> QED BY <1>19 DEF info, map

\* Every move of the pseudo-legal list that leaves the king safe is a move of the legal generator.
LEMMA SparedIsListed ==
  ASSUME NEW b, ThreadOK(b, setup), HomeSetup, ~g_chess960, Safe(b), NEW m \in generate_moves(b), Spared(b, m)
  PROVE  m \in generate_legal_tv(b, "all")
<1> DEFINE c == b.side
           k == KingSquare(b, c)
           info == InfoFor(b, k)
           map == enemy_map(b, k)
<1>1. Ready(b) /\ IsLegal(b) /\ c \in {white, black} /\ b.bb \in Boards BY ThreadIsReady DEF Safe, Ready
<1>2. k \in b.bb[Piece(c, King)] /\ k \in Squares BY <1>1, LegalIs
<1>3. Fit(b, m) /\ FitFrom(b, m) /\ Goes(b, m) /\ Proper(b, m)
  BY <1>1, GeneratedFit, GeneratedGoes, GeneratedIsProper DEF Fit
<1>4. info.king = k BY DEF InfoFor, MoveInfo
<1>5. generate_legal_tv(b, "all") = Emitted(b, info, TRUE, map)
  <2>1. generate_legal_tv(b, "all") = {x \in Emitted(b, info, TRUE, enemy_map(b, info.king)) : StageKeeps("all", x)}
    BY DEF generate_legal_tv, legal_emit_tv, EmittedFor, legal_prepare
  <2>2. \A x : StageKeeps("all", x) BY DEF StageKeeps
  <2> HIDE DEF info
  <2> QED BY <1>4, <2>1, <2>2
<1> HIDE DEF k
<1>6. m \in Emitted(b, info, TRUE, map)
  <2>1. CASE m.castling
    <3>1. m \in LegalCastling(b, info, map) BY <1>1, <1>2, <1>3, <2>1, CastlingIsListed
    <3> QED BY <3>1 DEF Emitted
  <2>2. CASE ~m.castling /\ m.piece = Piece(c, King)
    <3>1. FitPlain(b, m) BY <1>3, <2>2 DEF Fit, FitCastling
    <3>2. m \in KingSteps(b, info, TRUE, map) BY <1>1, <1>2, <1>3, <2>2, <3>1, KingStepIsListed
    <3> QED BY <3>2 DEF Emitted
  <2>3. CASE ~m.castling /\ m.enpass
    <3>1. FitPlain(b, m) BY <1>3, <2>3 DEF Fit, FitCastling
    <3>2. m \in OtherPawnMoves(b, info) /\ ~Several(info.checkers) BY <1>2, <1>3, <2>3, <3>1, PassingIsListed
    <3> QED BY <3>2 DEF Emitted
  <2>4. CASE ~m.castling /\ ~m.enpass /\ m.piece # Piece(c, King)
    <3>1. FitPlain(b, m) BY <1>3, <2>4 DEF Fit, FitCastling
    <3>2. Guarded(b, k, m) BY <1>1, <1>2, <1>3, <2>4, <3>1, SparedIsGuarded
    <3>3. ~Several(info.checkers) BY <1>1, <1>2, <1>3, <2>4, <3>1, <3>2, GuardedCovers
    <3>4. CASE m.piece = Piece(c, Pawn)
      <4>1. m \in PromotionMoves(b, info) \cup OtherPawnMoves(b, info)
        BY <1>1, <1>2, <1>3, <2>4, <3>1, <3>2, <3>4, PawnIsListed
      <4> QED BY <3>3, <4>1 DEF Emitted
    <3>5. CASE m.piece # Piece(c, Pawn)
      <4>1. PICK t \in {Knight, Bishop, Rook, Queen} : m.piece = Piece(c, t)
        <5>1. m.piece \in Men(c) BY <1>3 DEF FitFrom
        <5>2. Type(m.piece) \in {Knight, Bishop, Rook, Queen, King} /\ m.piece = Piece(c, Type(m.piece)) /\ Type(m.piece) # King
          BY <1>1, <2>4, <3>5, <5>1, KindIs
        <5> QED BY <5>2
      <4>2. m \in PieceTargets(b, info, t) BY <1>1, <1>2, <1>3, <3>1, <3>2, <4>1, PieceIsListed
      <4> HIDE DEF info, map
      <4>3. m \in UNION {PieceTargets(b, info, u) : u \in {Knight, Bishop, Rook, Queen}} BY <4>2
      <4> QED BY <3>3, <4>3 DEF Emitted
    <3> QED BY <3>4, <3>5
  <2> QED BY <2>1, <2>2, <2>3, <2>4
<1> HIDE DEF info, map
<1> QED BY <1>5, <1>6

\* The legal generator, stage by stage, gives the legal moves.
StagesGive(b, list) ==
  UNION {generate_legal_tv(b, stage) : stage \in {"tactics", "quiets"}} = {m \in list : make_move(b, m).legal}
LEMMA StagesAre ==
  ASSUME NEW b, ThreadOK(b, setup), HomeSetup, ~g_chess960, Safe(b)
  PROVE  StagesGive(b, generate_moves(b))
<1>1. Ready(b) /\ IsLegal(b) BY ThreadIsReady DEF Safe
<1>2. UNION {generate_legal_tv(b, stage) : stage \in {"tactics", "quiets"}} = generate_legal_tv(b, "all") BY <1>1, StagesCover
<1>3. \A m \in generate_moves(b) : make_move(b, m).legal <=> Spared(b, m) BY <1>1, MakeTells
<1>4. \A m : m \in generate_legal_tv(b, "all") <=> m \in generate_moves(b) /\ Spared(b, m) BY ListedIsGenerated, SparedIsListed
<1> QED BY <1>2, <1>3, <1>4 DEF StagesGive

\* Two pawn moves between the same squares and to the same promotion are the same move.
LEMMA PawnsDiffer ==
  ASSUME NEW b, Ready(b), NEW m, FitFrom(b, m), FitPlain(b, m), NEW n, FitFrom(b, n), FitPlain(b, n),
         m.piece = Piece(b.side, Pawn), n.piece = m.piece, n.from = m.from, n.to = m.to, n.promo = m.promo
  PROVE  n = m
<1> DEFINE c == b.side
<1>1. /\ c \in {white, black} /\ m \in Moves /\ n \in Moves /\ m.from \in Squares /\ m.to \in Squares
  BY DEF Ready, FitFrom, Moves
<1>2. PawnWay(b, m) /\ PawnWay(b, n) /\ ~m.castling /\ ~n.castling BY DEF FitPlain
<1>3. /\ m.capture => m.to \in pawn_attacks[c][m.from]
      /\ ~m.capture => m.to = m.from + (IF m.double THEN 2 * Up(c) ELSE Up(c))
      /\ n.capture => m.to \in pawn_attacks[c][m.from]
      /\ ~n.capture => m.to = m.from + (IF n.double THEN 2 * Up(c) ELSE Up(c))
  BY <1>2 DEF PawnWay
<1>4. ~(m.to \in pawn_attacks[c][m.from] /\ (m.to = m.from + Up(c) \/ m.to = m.from + 2 * Up(c)))
  <2>1. File(m.from) \in 0..7 /\ File(m.to) \in 0..7 BY <1>1, Coordinates
  <2>2. m.to \in pawn_attacks[c][m.from] => Apart(File(m.from), File(m.to), 1) BY <1>1, PawnStep
  <2>3. m.to = m.from + Up(c) \/ m.to = m.from + 2 * Up(c) => File(m.from) = File(m.to) BY <1>1, PawnStep
  <2> QED BY <2>1, <2>2, <2>3 DEF Apart
<1>5. m.capture <=> n.capture BY <1>3, <1>4
<1>6. m.enpass <=> n.enpass
  <2>1. (m.enpass => m.capture) /\ (n.enpass => n.capture) BY DEF FitPlain
  <2>2. \A x \in {m, n} : x.capture /\ ~x.enpass => \E p \in Men(1 - c) : m.to \in b.bb[p] BY DEF FitPlain
  <2>3. \A x \in {m, n} : x.enpass => Free(b.bb, m.to) BY DEF FitPlain
  <2>4. Men(1 - c) \subseteq Pieces BY <1>1, MenIs
  <2> QED BY <1>5, <2>1, <2>2, <2>3, <2>4 DEF Free
<1>7. m.double <=> n.double
  <2>1. (m.double => ~m.capture) /\ (n.double => ~n.capture) BY DEF FitPlain
  <2>2. m.from + 2 * Up(c) # m.from + Up(c) BY <1>1 DEF Up, Squares
  <2> QED BY <1>3, <1>5, <2>1, <2>2
<1>8. /\ m.capture = n.capture /\ m.enpass = n.enpass /\ m.double = n.double /\ m.castling = n.castling
  <2>1. \A x \in {m, n} : x.capture \in BOOLEAN /\ x.double \in BOOLEAN /\ x.enpass \in BOOLEAN /\ x.castling \in BOOLEAN
    BY <1>1 DEF Moves
  <2> QED BY <1>2, <1>5, <1>6, <1>7, <2>1
<1>9. /\ m = encode_move(m.from, m.to, m.piece, m.promo, m.capture, m.double, m.enpass, m.castling)
      /\ n = encode_move(n.from, n.to, n.piece, n.promo, n.capture, n.double, n.enpass, n.castling)
  BY <1>1, FieldsAre
<1> QED BY <1>8, <1>9, Zenon

\* No step of the king is written like a castling: the king's two squares are too far apart, and in Chess960 the square
\* written is that of the own rook.
LEMMA StepIsNoCastling ==
  ASSUME NEW b, Ready(b), HomeSetup, NEW m, FitFrom(b, m), FitCastling(b, m), NEW n, FitFrom(b, n), FitPlain(b, n), Goes(b, n),
         n.piece = Piece(b.side, King), n.from = m.from
  PROVE  UciTarget(n) # UciTarget(m)
<1> DEFINE c == b.side
           i == castle_index(m.to)
<1>1. /\ c \in {white, black} /\ n.from \in Squares /\ n.to \in Squares BY DEF Ready, FitFrom, Moves
<1>2. /\ i \in Rights /\ OfSide(i) = c /\ m.to = castle_king_to(i) /\ m.from = castle_king_sq(c)
      /\ castle_rook_sq(i) \in b.bb[Piece(c, Rook)] /\ m.castling
  BY DEF FitCastling, CastleRook, Ready
<1>3. UciTarget(n) = n.to BY DEF UciTarget, FitPlain
<1>4. CASE g_chess960
  <2>1. UciTarget(m) = castle_rook_sq(i) BY <1>2, <1>4 DEF UciTarget
  <2>2. Piece(c, Rook) \in Men(c) BY <1>1, PieceOf DEF Rook
  <2>3. n.to \notin b.bb[Piece(c, Rook)] BY <2>2 DEF FitPlain
  <2> QED BY <1>2, <1>3, <2>1, <2>3
<1>5. CASE ~g_chess960
  <2>1. UciTarget(m) = m.to BY <1>5 DEF UciTarget
  <2>2. KingStep(n.from, n.to)
    <3>1. Type(n.piece) = King /\ King # Pawn BY <1>1, PieceOf DEF King, Pawn
    <3>2. n.to \in Attacks(King, n.from, All(b)) BY <3>1 DEF Goes, FitPlain
    <3>3. n.to \in king_attacks[n.from] BY <3>2 DEF Attacks, Knight, King
    <3> QED BY <1>1, <3>3, KingAttacksAre
  <2>3. m.from = corners.king[OfSide(i) + 1] BY <1>1, <1>2, <1>5, HomeKing
  <2>4. <<m.to, m.from>> \in {<<62, 60>>, <<58, 60>>, <<6, 4>>, <<2, 4>>}
    <3>1. m.to = castle_king_to(i) /\ i \in Rights BY <1>2
    <3> HIDE DEF i
    <3>2. i = 0 \/ i = 1 \/ i = 2 \/ i = 3 BY <3>1 DEF Rights
    <3>3. OfSide(0) = 0 /\ OfSide(1) = 0 /\ OfSide(2) = 1 /\ OfSide(3) = 1 BY DEF OfSide
    <3>4. m.to = <<62, 58, 6, 2>>[i + 1] /\ m.from = <<60, 4>>[OfSide(i) + 1] BY <2>3, <3>1 DEF castle_king_to, corners
    <3> QED BY <3>2, <3>3, <3>4
  <2>5. ~Near(File(m.from), File(m.to)) BY <2>4 DEF Near, Apart, File
  <2> QED BY <1>3, <2>1, <2>2, <2>5 DEF KingStep
<1> QED BY <1>4, <1>5

\* Two castlings written alike are the same.
LEMMA CastlingsDiffer ==
  ASSUME NEW b, Ready(b), NEW m, FitFrom(b, m), FitCastling(b, m), NEW n, FitFrom(b, n), FitCastling(b, n), n.from = m.from,
         UciTarget(n) = UciTarget(m)
  PROVE  n = m
<1>1. /\ m \in Moves /\ n \in Moves /\ b.castle \in SUBSET Rights /\ b.bb \in Boards /\ Disjoint(b.bb) /\ RightsSound(b, setup)
  BY DEF Ready, FitFrom
<1>2. \A x \in {m, n} : /\ x.castling /\ ~x.capture /\ x.promo = 0 /\ ~x.enpass /\ ~x.double /\ x.piece = Piece(b.side, King)
                        /\ castle_index(x.to) \in b.castle /\ x.to = castle_king_to(castle_index(x.to))
  BY DEF FitCastling
<1>3. m.to = n.to
  <2>1. CASE g_chess960
    <3> DEFINE i == castle_index(m.to)
               j == castle_index(n.to)
    <3>1. setup.rook[i + 1] = setup.rook[j + 1] BY <1>2, <2>1 DEF UciTarget, castle_rook_sq
    <3>2. i \in b.castle /\ j \in b.castle /\ m.to = castle_king_to(i) /\ n.to = castle_king_to(j) BY <1>2
    <3> HIDE DEF i, j
    <3>3. i = j BY <1>1, <3>1, <3>2, RightsApart
    <3> QED BY <3>2, <3>3
  <2>2. CASE ~g_chess960 BY <2>2 DEF UciTarget
  <2> QED BY <2>1, <2>2
<1>4. /\ m.capture = n.capture /\ m.enpass = n.enpass /\ m.double = n.double /\ m.castling = n.castling
      /\ m.piece = n.piece /\ m.promo = n.promo
  <2>1. \A x \in {m, n} : x.capture \in BOOLEAN /\ x.double \in BOOLEAN /\ x.enpass \in BOOLEAN /\ x.castling \in BOOLEAN
    BY <1>1 DEF Moves
  <2> QED BY <1>2, <2>1
<1>5. /\ m = encode_move(m.from, m.to, m.piece, m.promo, m.capture, m.double, m.enpass, m.castling)
      /\ n = encode_move(n.from, n.to, n.piece, n.promo, n.capture, n.double, n.enpass, n.castling)
  BY <1>1, FieldsAre
<1> QED BY <1>3, <1>4, <1>5, Zenon

\* The text of a generated move names that move and no other.
TextNames(list, m) == ReadAs(list, print_move(m)) = {m}
LEMMA TextsTell ==
  ASSUME NEW b, Ready(b), HomeSetup, NEW m \in generate_moves(b)
  PROVE  TextNames(generate_moves(b), m)
<1> DEFINE c == b.side
<1>1. c \in {white, black} /\ b.bb \in Boards /\ Disjoint(b.bb) BY DEF Ready
<1>2. \A x \in generate_moves(b) : Fit(b, x) /\ FitFrom(b, x) /\ Goes(b, x) /\ Proper(b, x)
  BY GeneratedFit, GeneratedGoes, GeneratedIsProper DEF Fit
<1>3. /\ print_move(m).from = m.from /\ print_move(m).to = (IF m.promo # 0 THEN m.to ELSE UciTarget(m))
      /\ print_move(m).promo = Type(m.promo)
  BY DEF print_move
<1>4. print_move(m).to = UciTarget(m)
  <2>1. m.promo # 0 => ~m.castling BY <1>2 DEF Fit, FitPlain, FitCastling
  <2> QED BY <1>3, <2>1 DEF UciTarget
<1>5. m \in ReadAs(generate_moves(b), print_move(m)) BY <1>3, <1>4 DEF ReadAs
<1>6. ASSUME NEW n \in ReadAs(generate_moves(b), print_move(m)) PROVE n = m
  <2>1. /\ n \in generate_moves(b) /\ n.from = m.from /\ UciTarget(n) = UciTarget(m)
        /\ n.promo # 0 => Type(n.promo) = Type(m.promo)
    BY <1>3, <1>4, <1>6 DEF ReadAs
  <2>2. Fit(b, m) /\ FitFrom(b, m) /\ Goes(b, m) /\ Proper(b, m) /\ Fit(b, n) /\ FitFrom(b, n) /\ Goes(b, n) /\ Proper(b, n)
    BY <1>2, <2>1
  <2>3. n.piece = m.piece
    <3>1. m.piece \in Pieces /\ n.piece \in Pieces /\ m.from \in b.bb[m.piece] /\ m.from \in b.bb[n.piece] /\ m.from \in Squares
      BY <1>1, <2>1, <2>2, MenIs DEF FitFrom, Moves
    <3> QED BY <1>1, <3>1 DEF Disjoint
  <2>4. Piece(c, Pawn) # Piece(c, King) BY <1>1, PieceOf DEF Pawn, King
  <2>5. CASE m.piece = Piece(c, Pawn)
    <3>1. FitPlain(b, m) /\ FitPlain(b, n) BY <2>2, <2>3, <2>4, <2>5 DEF Fit, FitCastling
    <3>2. n.to = m.to BY <2>1, <3>1 DEF UciTarget, FitPlain
    <3>3. /\ m.promo \in IF Row(m.from) = SeventhRow(c) THEN Promoted(c) ELSE {0}
          /\ n.promo \in IF Row(m.from) = SeventhRow(c) THEN Promoted(c) ELSE {0}
      BY <2>1, <2>2, <2>3, <2>5 DEF Proper
    <3>4. n.promo = m.promo
      <4>1. CASE Row(m.from) = SeventhRow(c)
        <5>1. m.promo \in Promoted(c) /\ n.promo \in Promoted(c) BY <3>3, <4>1
        <5>2. PICK x \in 0..5, y \in 0..5 : m.promo = Piece(c, x) /\ n.promo = Piece(c, y)
          BY <5>1 DEF Promoted, Queen, Rook, Bishop, Knight
        <5>3. n.promo # 0 BY <1>1, <5>1 DEF Promoted, Piece, Queen, Rook, Bishop, Knight, white, black
        <5>4. Type(n.promo) = Type(m.promo) BY <2>1, <5>3
        <5>5. x = y BY <1>1, <5>2, <5>4, PieceOf
        <5> QED BY <5>2, <5>5
      <4>2. CASE Row(m.from) # SeventhRow(c) BY <3>3, <4>2
      <4> QED BY <4>1, <4>2
    <3> QED BY <2>1, <2>2, <2>3, <2>5, <3>1, <3>2, <3>4, PawnsDiffer
  <2>6. CASE m.piece # Piece(c, Pawn) /\ ~m.castling /\ ~n.castling
    <3>1. FitPlain(b, m) /\ FitPlain(b, n) BY <2>2, <2>6 DEF Fit, FitCastling
    <3>2. n.to = m.to BY <2>1, <2>6 DEF UciTarget
    <3>3. m = Simple(m.from, m.to, m.piece, m.to \in b.occ[1 - c]) BY <2>2, <2>6, <3>1, PlainIsSimple
    <3>4. n = Simple(n.from, n.to, n.piece, n.to \in b.occ[1 - c]) BY <2>2, <2>3, <2>6, <3>1, PlainIsSimple
    <3> QED BY <2>1, <2>3, <3>2, <3>3, <3>4, Zenon
  <2>7. CASE m.castling /\ n.castling
    <3>1. FitCastling(b, m) /\ FitCastling(b, n) BY <2>2, <2>7 DEF Fit, FitPlain
    <3> QED BY <2>1, <2>2, <3>1, CastlingsDiffer
  <2>8. CASE m.castling /\ ~n.castling
    <3>1. FitCastling(b, m) /\ FitPlain(b, n) BY <2>2, <2>8 DEF Fit, FitPlain, FitCastling
    <3>2. n.piece = Piece(c, King) BY <2>3, <3>1 DEF FitCastling
    <3> QED BY <2>1, <2>2, <3>1, <3>2, StepIsNoCastling
  <2>9. CASE ~m.castling /\ n.castling
    <3>1. FitCastling(b, n) /\ FitPlain(b, m) BY <2>2, <2>9 DEF Fit, FitPlain, FitCastling
    <3>2. m.piece = Piece(c, King) BY <2>3, <3>1 DEF FitCastling
    <3>3. m.from = n.from BY <2>1
    <3>4. UciTarget(m) # UciTarget(n) BY <2>2, <3>1, <3>2, <3>3, StepIsNoCastling
    <3> QED BY <2>1, <3>4
  <2> QED BY <2>5, <2>6, <2>7, <2>8, <2>9
<1> QED BY <1>5, <1>6 DEF TextNames

(***************************************************************************)
(* The test for check before a move is made (checks_before).               *)
(***************************************************************************)
\* The lines a slider moves on.
Rides(t) == IF t = Bishop THEN {1, 3} ELSE IF t = Rook THEN {2, 4} ELSE IF t = Queen THEN 1..4 ELSE {}

\* A slider attacks what it sees on its lines.
LEMMA AttacksSee ==
  ASSUME NEW t \in {Bishop, Rook, Queen}, NEW s \in Squares, NEW occ, NEW u
  PROVE  u \in Attacks(t, s, occ) <=> \E l \in Rides(t) : Sees(l, s, u, occ)
<1> DEFINE S(l) == Sees(l, s, u, occ)
<1>1. u \in slider_pair(s, occ)[1] <=> S(1) \/ S(3)
  <2>1. u \in slider_pair(s, occ)[1] <=> \E l \in {1, 1 + 2} : S(l) BY SliderSees
  <2>2. 1 + 2 = 3 OBVIOUS
  <2> HIDE DEF S
  <2> QED BY <2>1, <2>2
<1>2. u \in slider_pair(s, occ)[2] <=> S(2) \/ S(4)
  <2>1. u \in slider_pair(s, occ)[2] <=> \E l \in {2, 2 + 2} : S(l) BY SliderSees
  <2>2. 2 + 2 = 4 OBVIOUS
  <2> HIDE DEF S
  <2> QED BY <2>1, <2>2
<1>3. t = Bishop \/ t = Rook \/ t = Queen OBVIOUS
<1>4. CASE t = Bishop
  <2>1. Attacks(t, s, occ) = slider_pair(s, occ)[1] BY <1>4 DEF Attacks, SliderAttacks, Knight, King, Bishop, Rook, Queen
  <2>2. Rides(t) = {1, 3} BY <1>4 DEF Rides
  <2> HIDE DEF S
  <2>3. (\E l \in Rides(t) : S(l)) <=> S(1) \/ S(3) BY <2>2
  <2> QED BY <1>1, <2>1, <2>3 DEF S
<1>5. CASE t = Rook
  <2>1. Attacks(t, s, occ) = slider_pair(s, occ)[2] BY <1>5 DEF Attacks, SliderAttacks, Knight, King, Bishop, Rook, Queen
  <2>2. Rides(t) = {2, 4} BY <1>5 DEF Rides, Bishop, Rook
  <2> HIDE DEF S
  <2>3. (\E l \in Rides(t) : S(l)) <=> S(2) \/ S(4) BY <2>2
  <2> QED BY <1>2, <2>1, <2>3 DEF S
<1>6. CASE t = Queen
  <2>1. Attacks(t, s, occ) = slider_pair(s, occ)[1] \cup slider_pair(s, occ)[2]
    BY <1>6 DEF Attacks, SliderAttacks, Knight, King, Bishop, Rook, Queen
  <2>2. Rides(t) = {1, 2, 3, 4} BY <1>6 DEF Rides, Bishop, Rook, Queen
  <2> HIDE DEF S
  <2>3. (\E l \in Rides(t) : S(l)) <=> S(1) \/ S(3) \/ S(2) \/ S(4) BY <2>2
  <2> QED BY <1>1, <1>2, <2>1, <2>3 DEF S
<1> QED BY <1>3, <1>4, <1>5, <1>6

\* The men that run on a line are the sliders of that line.
LEMMA RunsHold ==
  ASSUME NEW bb, NEW by, NEW l \in 1..4, NEW u
  PROVE  u \in Runs(bb, by, l) <=> \E t \in {Bishop, Rook, Queen} : l \in Rides(t) /\ u \in bb[Piece(by, t)]
<1>1. /\ l \in Rides(Bishop) <=> l \in {1, 3}
      /\ l \in Rides(Rook) <=> ~(l \in {1, 3})
      /\ l \in Rides(Queen)
  BY DEF Rides, Bishop, Rook, Queen
<1> DEFINE B == bb[Piece(by, Bishop)]
           R == bb[Piece(by, Rook)]
           Q == bb[Piece(by, Queen)]
<1>2. Runs(bb, by, l) = (IF l \in {1, 3} THEN B ELSE R) \cup Q
  <2>1. CASE l \in {1, 3} BY <2>1 DEF Runs
  <2>2. CASE ~(l \in {1, 3}) BY <2>2 DEF Runs
  <2> QED BY <2>1, <2>2
<1>3. (\E t \in {Bishop, Rook, Queen} : l \in Rides(t) /\ u \in bb[Piece(by, t)])
        <=> (l \in Rides(Bishop) /\ u \in B) \/ (l \in Rides(Rook) /\ u \in R) \/ (l \in Rides(Queen) /\ u \in Q)
  OBVIOUS
<1> HIDE DEF B, R, Q
<1>4. u \in Runs(bb, by, l) <=> (l \in {1, 3} /\ u \in B) \/ (~(l \in {1, 3}) /\ u \in R) \/ u \in Q BY <1>2
<1> QED BY <1>1, <1>3, <1>4, Zenon

\* The sliders of the side to move on a line of the enemy king are the snipers of checks_before.
OwnSnipers(b, k) ==
  (empty_rook_att[k] \cap (Us(b, Rook) \cup Us(b, Queen))) \cup (empty_bishop_att[k] \cap (Us(b, Bishop) \cup Us(b, Queen)))
LEMMA OwnSnipersAre ==
  ASSUME NEW b, NEW k \in Squares, NEW u
  PROVE  u \in OwnSnipers(b, k) <=> \E l \in 1..4 : u \in Runs(b.bb, b.side, l) /\ u \in Squares /\ OnLine(l, k, u)
<1> DEFINE D == b.bb[Piece(b.side, Bishop)] \cup b.bb[Piece(b.side, Queen)]
           S == b.bb[Piece(b.side, Rook)] \cup b.bb[Piece(b.side, Queen)]
           On(l) == u \in Squares /\ OnLine(l, k, u)
<1>1. /\ Runs(b.bb, b.side, 1) = D /\ Runs(b.bb, b.side, 3) = D
      /\ Runs(b.bb, b.side, 2) = S /\ Runs(b.bb, b.side, 4) = S
  BY RunsAre
<1>2. u \in OwnSnipers(b, k) <=> (u \in empty_rook_att[k] /\ u \in S) \/ (u \in empty_bishop_att[k] /\ u \in D)
  BY DEF OwnSnipers, Us
<1>3. u \in empty_bishop_att[k] <=> On(1) \/ On(3)
  <2>1. u \in empty_bishop_att[k] <=> \E l \in {1, 3} : On(l) BY EmptySees
  <2> HIDE DEF On
  <2> QED BY <2>1
<1>4. u \in empty_rook_att[k] <=> On(2) \/ On(4)
  <2>1. u \in empty_rook_att[k] <=> \E l \in {2, 4} : On(l) BY EmptySees
  <2> HIDE DEF On
  <2> QED BY <2>1
<1>5. (\E l \in 1..4 : u \in Runs(b.bb, b.side, l) /\ On(l))
        <=> (u \in D /\ (On(1) \/ On(3))) \/ (u \in S /\ (On(2) \/ On(4)))
  <2> HIDE DEF D, S, On
  <2>1. 1..4 = {1, 2, 3, 4} OBVIOUS
  <2> QED BY <1>1, <2>1
<1> HIDE DEF D, S
<1> QED BY <1>2, <1>3, <1>4, <1>5

\* A man stands alone between a slider of its side and the square.
Hides(b, k, f) == \E l \in 1..4 : \E e \in Runs(b.bb, b.side, l) : e \in Squares /\ Pins(l, k, e, f, All(b))

\* The discoverers are the men of the side to move that alone hide the enemy king from a slider of theirs.
LEMMA DiscoverersAre ==
  ASSUME NEW b, Ready(b), NEW k \in Squares, k = KingSquare(b, 1 - b.side), NEW f
  PROVE  f \in Discoverers(b) <=> f \in b.occ[b.side] /\ Hides(b, k, f)
<1>0. Discoverers(b) = UNION {PinnedBy(b, k, s) : s \in OwnSnipers(b, k)} BY DEF Discoverers, OwnSnipers
<1>1. ASSUME f \in Discoverers(b) PROVE f \in b.occ[b.side] /\ Hides(b, k, f)
  <2>1. PICK s \in OwnSnipers(b, k) : f \in PinnedBy(b, k, s) BY <1>0, <1>1
  <2>2. PICK l \in 1..4 : s \in Runs(b.bb, b.side, l) /\ s \in Squares /\ OnLine(l, k, s) BY <2>1, OwnSnipersAre
  <2> DEFINE between == between_tbl[k][s] \cap All(b)
  <2>3. Cardinality(between) = 1 /\ f \in between /\ f \in b.occ[b.side] BY <2>1 DEF PinnedBy
  <2>4. \A u : u \in between_tbl[k][s] <=> u \in Squares /\ OnLine(l, k, u) /\ Inside(u, k, s) BY <2>2, StandsBetween
  <2>5. between \subseteq Squares BY <2>4
  <2>6. IsFiniteSet(between)
    <3>0. 0 \in Int /\ 63 \in Int OBVIOUS
    <3>1. IsFiniteSet(Squares) BY <3>0, FS_Interval DEF Squares
    <3> HIDE DEF between
    <3> QED BY <2>5, <3>1, FS_Subset
  <2>7. \A u \in between : u = f
    <3> HIDE DEF between
    <3> QED BY <2>3, <2>6, OnlyKing
  <2>8. Pins(l, k, s, f, All(b)) BY <2>2, <2>3, <2>4, <2>7 DEF Pins
  <2> QED BY <2>2, <2>3, <2>8 DEF Hides
<1>2. ASSUME f \in b.occ[b.side], Hides(b, k, f) PROVE f \in Discoverers(b)
  <2>1. PICK l \in 1..4 : \E e \in Runs(b.bb, b.side, l) : e \in Squares /\ Pins(l, k, e, f, All(b)) BY <1>2 DEF Hides
  <2>2. PICK e \in Runs(b.bb, b.side, l) : e \in Squares /\ Pins(l, k, e, f, All(b)) BY <2>1
  <2>3. OnLine(l, k, e) /\ OnLine(l, k, f) /\ Inside(f, k, e) /\ f \in All(b) BY <2>2 DEF Pins
  <2>4. e \in OwnSnipers(b, k) BY <2>2, <2>3, OwnSnipersAre
  <2>5. \A v : v \in between_tbl[k][e] <=> v \in Squares /\ OnLine(l, k, v) /\ Inside(v, k, e) BY <2>2, <2>3, StandsBetween
  <2>6. f \in Squares
    <3>1. All(b) \subseteq Squares BY AllIsFull DEF Ready, Full
    <3> QED BY <2>3, <3>1
  <2>7. between_tbl[k][e] \cap All(b) = {f} BY <2>2, <2>3, <2>5, <2>6 DEF Pins
  <2>8. Cardinality(between_tbl[k][e] \cap All(b)) = 1 BY <2>7, FS_Singleton
  <2>9. f \in PinnedBy(b, k, e)
    <3> DEFINE X == between_tbl[k][e] \cap All(b)
    <3>1. PinnedBy(b, k, e) = IF Cardinality(X) = 1 THEN X \cap b.occ[b.side] ELSE {} BY DEF PinnedBy
    <3>2. Cardinality(X) = 1 /\ f \in X BY <2>7, <2>8
    <3> HIDE DEF X
    <3> QED BY <1>2, <3>1, <3>2
  <2> QED BY <1>0, <2>4, <2>9
<1> QED BY <1>1, <1>2

\* The parts of checks_before, k being the enemy king.
Direct(b, m) == ~m.castling /\ m.to \in CheckSquares(b, Type(m.piece))
Uncovering(b, m, k) == m.from \in Discoverers(b) /\ (m.castling \/ ~on_line(m.from, m.to, k))
Promotes(b, m, k) == m.promo # 0 /\ k \in Attacks(Type(m.promo), m.to, Xor(All(b), {m.from}))
PassingBoard(b, m) == Xor(Xor(All(b), {m.from}), {m.to - Up(b.side)}) \cup {m.to}
Passes(b, m, k) ==
  m.enpass /\ \/ get_rook_attacks(k, PassingBoard(b, m)) \cap (Us(b, Rook) \cup Us(b, Queen)) # {}
              \/ get_bishop_attacks(k, PassingBoard(b, m)) \cap (Us(b, Bishop) \cup Us(b, Queen)) # {}
RookLooks(b, m) == m.castling /\ CastleRook(m).to \in CheckSquares(b, Rook)
LEMMA ChecksAre ==
  ASSUME NEW b, NEW m, NEW k, k = KingSquare(b, 1 - b.side)
  PROVE  checks_before(b, m) <=> Direct(b, m) \/ Uncovering(b, m, k) \/ Promotes(b, m, k) \/ Passes(b, m, k) \/ RookLooks(b, m)
BY DEF checks_before, Direct, Uncovering, Promotes, Passes, PassingBoard, RookLooks

\* A plain move, the board after it, and the enemy king.
PlainStep(b, m, v, vs, new, k) ==
  /\ Ready(b) /\ IsLegal(b) /\ FitFrom(b, m) /\ FitPlain(b, m) /\ Goes(b, m) /\ Proper(b, m)
  /\ Taking(b, m, v, vs) /\ Shifted(b.bb, new, m, vs) /\ k = KingSquare(b, 1 - b.side)

\* What stands where before and after the step.
LEMMA StepFacts ==
  ASSUME NEW b, NEW m, NEW v, NEW vs, NEW new, NEW k, PlainStep(b, m, v, vs, new, k)
  PROVE  /\ PlainMove(b, m, v, vs) /\ b.side \in {white, black} /\ 1 - b.side \in {white, black}
         /\ m.from \in Squares /\ m.to \in Squares /\ m.from # m.to /\ m.from \in All(b) /\ m.from \in b.occ[b.side]
         /\ k \in Squares /\ k \in All(b) /\ k # m.to /\ k # m.from /\ k \in b.bb[Piece(1 - b.side, King)]
         /\ All(b) = Full(b.bb) /\ All(b) \subseteq Squares /\ Full(new) \subseteq Squares
         /\ \A s \in Squares : s \in Full(new) <=> s = m.to \/ (s # m.from /\ s # vs /\ s \in All(b))
         /\ ~Assails(b.bb, b.side, k, All(b))
<1> USE DEF PlainStep
<1>1. b.bb \in Boards /\ b.side \in {white, black} /\ 1 - b.side \in {white, black} /\ Disjoint(b.bb) BY DEF Ready, white, black
<1>2. PlainMove(b, m, v, vs) BY <1>1, PlainFacts
<1>3. All(b) = Full(b.bb) BY AllIsFull DEF Ready
<1>4. k \in b.bb[Piece(1 - b.side, King)] /\ k \in Squares /\ ~Assails(b.bb, b.side, k, All(b)) BY <1>1, LegalIs
<1>5. k # m.to BY <1>4, KingIsSpared
<1>6. m.from \in Squares /\ m.to \in Squares /\ m.from # m.to /\ m.piece \in Pieces /\ m.piece \in Men(b.side) /\ m.from \in b.bb[m.piece]
  BY <1>2 DEF PlainMove
<1>7. m.from \in All(b) BY <1>3, <1>6 DEF Full, Free
<1>8. m.from \in b.occ[b.side] BY <1>6, ReadyOccupied
<1>9. King \in 0..5 BY DEF King
<1>10. Piece(1 - b.side, King) \in Men(1 - b.side) /\ Piece(1 - b.side, King) \in Pieces BY <1>1, <1>9, PieceOf
<1>11. k \in All(b) BY <1>3, <1>4, <1>10 DEF Full, Free
<1>12. k # m.from
  <2>1. Piece(1 - b.side, King) # m.piece BY <1>1, <1>6, <1>10, MenIs
  <2> QED BY <1>1, <1>4, <1>6, <1>10, <2>1 DEF Disjoint
<1>13. \A s \in Squares : s \in Full(new) <=> s = m.to \/ (s # m.from /\ s # vs /\ s \in All(b)) BY <1>2, <1>3, ShiftedAre
<1>14. Full(new) \subseteq Squares /\ All(b) \subseteq Squares BY <1>3 DEF Full
<1> QED BY <1>1, <1>2, <1>3, <1>4, <1>5, <1>6, <1>7, <1>8, <1>11, <1>12, <1>13, <1>14

\* The men of the side that moves: one has moved, and stands as what it lands as.
LEMMA OwnAfter ==
  ASSUME NEW b, NEW m, NEW v, NEW vs, PlainMove(b, m, v, vs), NEW new, Shifted(b.bb, new, m, vs), NEW p \in Men(b.side)
  PROVE  \A s : s \in new[p] <=> (s = m.to /\ p = Landed(m)) \/ (s # m.to /\ s # m.from /\ s \in b.bb[p])
<1>1. b.side \in {white, black} /\ b.bb \in Boards /\ Disjoint(b.bb) /\ new \in Boards /\ m.to \in Squares BY DEF PlainMove, Shifted
<1>2. p \in Pieces BY <1>1, MenIs
<1>3. new[p] \subseteq Squares /\ b.bb[p] \subseteq Squares BY <1>1, <1>2 DEF Boards
<1>4. ASSUME NEW s \in Squares, s \in b.bb[p] PROVE s # vs
  <2>1. CASE v = None BY <2>1 DEF PlainMove, None, Squares
  <2>2. CASE v # None
    <3>1. v \in Pieces /\ v \in Men(1 - b.side) /\ vs \in b.bb[v] BY <2>2 DEF PlainMove
    <3>2. v # p BY <1>1, <3>1, MenIs
    <3> QED BY <1>1, <1>2, <1>4, <3>1, <3>2 DEF Disjoint
  <2> QED BY <2>1, <2>2
<1>5. ASSUME NEW s \in Squares PROVE s \in new[p] <=> (s = m.to /\ p = Landed(m)) \/ (s # m.to /\ s # m.from /\ s \in b.bb[p])
  <2>1. s \in new[p] <=> IF s = m.to THEN p = Landed(m) ELSE s # m.from /\ s # vs /\ s \in b.bb[p] BY <1>2 DEF Shifted
  <2> QED BY <1>4, <2>1
<1> QED BY <1>1, <1>3, <1>5

\* Sliders and leapers of the side that moves, after the move.
LEMMA UnitsAfter ==
  ASSUME NEW b, NEW m, NEW v, NEW vs, PlainMove(b, m, v, vs), NEW new, Shifted(b.bb, new, m, vs), NEW k
  PROVE  /\ \A l \in 1..4 : \A u \in Runs(new, b.side, l) : u = m.to \/ (u # m.from /\ u \in Runs(b.bb, b.side, l))
         /\ \A l \in 1..4 : \A u \in Runs(b.bb, b.side, l) : u # m.to /\ (u # m.from => u \in Runs(new, b.side, l))
         /\ \A u \in Leaps(new, b.side, k) : u = m.to \/ u \in Leaps(b.bb, b.side, k)
<1> DEFINE c == b.side
<1>1. c \in {white, black} /\ b.bb \in Boards BY DEF PlainMove
<1>2. \A t \in {Pawn, Knight, Bishop, Rook, Queen, King} : Piece(c, t) \in Men(c) /\ Piece(c, t) \in Pieces
  BY <1>1, PieceOf DEF Pawn, Knight, Bishop, Rook, Queen, King
<1>3. ASSUME NEW t \in {Pawn, Knight, Bishop, Rook, Queen, King}
      PROVE  /\ \A u \in new[Piece(c, t)] : u = m.to \/ (u # m.from /\ u \in b.bb[Piece(c, t)])
             /\ \A u \in b.bb[Piece(c, t)] : u # m.to /\ (u # m.from => u \in new[Piece(c, t)])
  <2>1. Piece(c, t) \in Men(c) /\ Piece(c, t) \in Pieces BY <1>2
  <2>2. \A s : s \in new[Piece(c, t)] <=> (s = m.to /\ Piece(c, t) = Landed(m)) \/ (s # m.to /\ s # m.from /\ s \in b.bb[Piece(c, t)])
    BY <2>1, OwnAfter
  <2>3. m.to \notin b.bb[Piece(c, t)]
    <3> SUFFICES ASSUME m.to \in b.bb[Piece(c, t)] PROVE FALSE OBVIOUS
    <3>1. Piece(c, t) = v BY <2>1 DEF PlainMove
    <3>2. v # None => v \in Men(1 - c) BY DEF PlainMove
    <3>3. v # None BY <2>1, <3>1 DEF Pieces, None
    <3> QED BY <1>1, <2>1, <3>1, <3>2, <3>3, MenIs
  <2> QED BY <2>2, <2>3
<1>4. ASSUME NEW l \in 1..4, NEW u \in Runs(new, c, l) PROVE u = m.to \/ (u # m.from /\ u \in Runs(b.bb, c, l))
  BY <1>3, <1>4 DEF Runs
<1>5. ASSUME NEW l \in 1..4, NEW u \in Runs(b.bb, c, l) PROVE u # m.to /\ (u # m.from => u \in Runs(new, c, l))
  BY <1>3, <1>5 DEF Runs
<1>6. ASSUME NEW u \in Leaps(new, c, k) PROVE u = m.to \/ u \in Leaps(b.bb, c, k)
  BY <1>3, <1>6 DEF Leaps
<1> QED BY <1>4, <1>5, <1>6

\* A pawn that promotes stands on the last row, from where no pawn attacks; it lands as a knight or a slider.
LEMMA PromotedAre ==
  ASSUME NEW b, NEW m, NEW v, NEW vs, NEW new, NEW k, PlainStep(b, m, v, vs, new, k), m.promo # 0
  PROVE  /\ m.to \notin pawn_attacks[1 - b.side][k] /\ Type(m.piece) = Pawn
         /\ Type(m.promo) \in {Knight, Bishop, Rook, Queen} /\ m.promo = Piece(b.side, Type(m.promo))
<1> DEFINE c == b.side
           t == m.to
<1>1. /\ c \in {white, black} /\ 1 - c \in {white, black} /\ m.from \in Squares /\ t \in Squares /\ k \in Squares BY StepFacts
<1>2. FitPlain(b, m) /\ Proper(b, m) BY DEF PlainStep
<1>3. m.piece = Piece(c, Pawn) /\ m.promo \in Promoted(c) BY <1>2 DEF FitPlain
<1>4. Row(m.from) = SeventhRow(c) BY <1>2, <1>3 DEF Proper
<1>5. PawnWay(b, m) /\ ~m.double BY <1>2, <1>3 DEF FitPlain
<1>6. t = m.from + Up(c) \/ t \in pawn_attacks[c][m.from] BY <1>5 DEF PawnWay
<1> HIDE DEF t, c
<1>7. Row(t) = Row(BackRow(1 - c)) BY <1>1, <1>4, <1>6, LastRow DEF t
<1>8. t \notin pawn_attacks[1 - c][k]
  <2> SUFFICES ASSUME t \in pawn_attacks[1 - c][k] PROVE FALSE OBVIOUS
  <2>1. 1 - (1 - c) = c BY <1>1 DEF white, black
  <2>2. k \in pawn_attacks[c][t] BY <1>1, <2>1, PawnsMeet
  <2>3. k - Up(c) \in Squares /\ Row(k - Up(c)) = Row(t) BY <1>1, <2>2, PawnStep
  <2>4. c = white \/ c = black BY <1>1
  <2>5. CASE c = white
    <3>1. Row(k + 8) = Row(0) BY <1>7, <2>3, <2>5 DEF Up, BackRow, white, black, Squares
    <3> QED BY <1>1, <3>1 DEF Row, Squares
  <2>6. CASE c = black
    <3>1. k - 8 \in Squares /\ Row(k - 8) = Row(56) BY <1>7, <2>3, <2>6 DEF Up, BackRow, white, black, Squares
    <3> QED BY <1>1, <3>1 DEF Row, Squares
  <2> QED BY <2>4, <2>5, <2>6
<1>9. PICK q \in {Queen, Rook, Bishop, Knight} : m.promo = Piece(c, q) BY <1>3 DEF Promoted, c
<1>10. q \in 0..5 /\ Pawn \in 0..5 BY DEF Queen, Rook, Bishop, Knight, Pawn
<1>11. Type(m.promo) = q BY <1>1, <1>9, <1>10, PieceOf
<1>12. Type(m.piece) = Pawn BY <1>1, <1>3, <1>10, PieceOf DEF c
<1> QED BY <1>8, <1>9, <1>11, <1>12 DEF c, t

\* What a plain move lands as.
LEMMA LandedAre ==
  ASSUME NEW b, NEW m, NEW v, NEW vs, NEW new, NEW k, PlainStep(b, m, v, vs, new, k)
  PROVE  /\ m.promo = 0 => Landed(m) = Piece(b.side, Type(m.piece)) /\ Type(m.piece) \in 0..5
         /\ m.promo # 0 => Landed(m) = Piece(b.side, Type(m.promo)) /\ Type(m.promo) \in 0..5
         /\ \A q \in 0..5 : m.to \in new[Piece(b.side, q)] <=> Piece(b.side, q) = Landed(m)
<1>1. PlainMove(b, m, v, vs) /\ b.side \in {white, black} /\ m.to \in Squares BY StepFacts
<1>2. Shifted(b.bb, new, m, vs) BY DEF PlainStep
<1>3. \A q \in 0..5 : m.to \in new[Piece(b.side, q)] <=> Piece(b.side, q) = Landed(m)
  <2> TAKE q \in 0..5
  <2>1. Piece(b.side, q) \in Men(b.side) BY <1>1, PieceOf
  <2> QED BY <1>1, <1>2, <2>1, OwnAfter
<1>4. m.piece \in Men(b.side) BY <1>1 DEF PlainMove
<1>5. Type(m.piece) \in 0..5 /\ m.piece = Piece(b.side, Type(m.piece)) BY <1>1, <1>4, KindIs
<1>6. m.promo # 0 => m.promo = Piece(b.side, Type(m.promo)) /\ Type(m.promo) \in 0..5
  BY PromotedAre DEF Knight, Bishop, Rook, Queen
<1> QED BY <1>3, <1>5, <1>6 DEF Landed

\* A man that landed where a man of its kind attacks the king gives check.
LEMMA LandedChecks ==
  ASSUME NEW b, NEW m, NEW v, NEW vs, NEW new, NEW k, PlainStep(b, m, v, vs, new, k), NEW q \in 0..5, Landed(m) = Piece(b.side, q),
         \/ q = Pawn /\ m.to \in pawn_attacks[1 - b.side][k]
         \/ q = Knight /\ m.to \in knight_attacks[k]
         \/ q \in {Bishop, Rook, Queen} /\ \E l \in Rides(q) : Sees(l, k, m.to, Full(new))
  PROVE  Assails(new, b.side, k, Full(new))
<1>1. m.to \in new[Piece(b.side, q)] BY LandedAre
<1>2. CASE q = Pawn /\ m.to \in pawn_attacks[1 - b.side][k] BY <1>1, <1>2 DEF Assails, Leaps
<1>3. CASE q = Knight /\ m.to \in knight_attacks[k] BY <1>1, <1>3 DEF Assails, Leaps
<1>4. CASE q \in {Bishop, Rook, Queen} /\ \E l \in Rides(q) : Sees(l, k, m.to, Full(new))
  <2>1. PICK l \in Rides(q) : Sees(l, k, m.to, Full(new)) BY <1>4
  <2>2. l \in 1..4 BY DEF Rides
  <2>3. m.to \in Runs(new, b.side, l) BY <1>1, <1>4, <2>2, RunsHold
  <2> QED BY <2>1, <2>2, <2>3 DEF Assails, Aims
<1> QED BY <1>2, <1>3, <1>4

\* En passant, the occupancy the test looks through is that after the move; the pawn that leaves was no slider.
LEMMA PassedFacts ==
  ASSUME NEW b, NEW m, NEW v, NEW vs, NEW new, NEW k, PlainStep(b, m, v, vs, new, k), m.enpass
  PROVE  /\ PassingBoard(b, m) = Full(new) /\ Landed(m) = Piece(b.side, Pawn)
         /\ \A l \in 1..4 : m.from \notin Runs(b.bb, b.side, l) /\ m.to \notin Runs(new, b.side, l)
<1> DEFINE c == b.side
           cap == m.to - Up(c)
<1>1. /\ c \in {white, black} /\ m.from \in Squares /\ m.to \in Squares /\ m.from # m.to /\ m.from \in All(b)
      /\ All(b) \subseteq Squares /\ Full(new) \subseteq Squares /\ All(b) = Full(b.bb) /\ PlainMove(b, m, v, vs)
      /\ \A s \in Squares : s \in Full(new) <=> s = m.to \/ (s # m.from /\ s # vs /\ s \in All(b))
  BY StepFacts
<1>2. Ready(b) /\ FitFrom(b, m) /\ FitPlain(b, m) /\ Taking(b, m, v, vs) BY DEF PlainStep
<1>3. /\ m.capture /\ m.piece = Piece(c, Pawn) /\ cap \in Squares /\ Free(b.bb, m.to)
  BY <1>2, PassingFacts
<1>4. vs = cap /\ vs \in b.bb[v] /\ v \in Men(1 - c) BY <1>2, <1>3 DEF Taking
<1>5. v \in Pieces BY <1>1, <1>4, MenIs
<1>6. vs \in All(b) BY <1>1, <1>3, <1>4, <1>5 DEF Full, Free
<1>7. m.to \notin All(b) BY <1>1, <1>3 DEF Full
<1>8. vs # m.from
  <2>1. PlainMove(b, m, v, vs) => (v # None => vs # m.from) BY DEF PlainMove
  <2>2. v # None BY <1>5 DEF Pieces, None
  <2> QED BY <1>1, <2>1, <2>2
<1>9. PassingBoard(b, m) = Full(new)
  <2>1. PassingBoard(b, m) = Xor(Xor(All(b), {m.from}), {vs}) \cup {m.to} BY <1>4 DEF PassingBoard
  <2>2. \A s : s \in PassingBoard(b, m) <=> s = m.to \/ (s # m.from /\ s # vs /\ s \in All(b)) BY <1>1, <1>6, <1>8, <2>1 DEF Xor
  <2> QED BY <1>1, <2>2
<1>10. Landed(m) = Piece(c, Pawn) BY <1>2, <1>3 DEF Landed, FitPlain
<1>11. ASSUME NEW t \in {Bishop, Rook, Queen} PROVE m.from \notin b.bb[Piece(c, t)] /\ m.to \notin new[Piece(c, t)]
  <2>1. t \in 0..5 /\ Pawn \in 0..5 /\ t # Pawn BY DEF Bishop, Rook, Queen, Pawn
  <2>2. Piece(c, t) # Piece(c, Pawn) /\ Piece(c, t) \in Pieces BY <1>1, <2>1, PieceOf
  <2>3. m.to \in new[Piece(c, t)] <=> Piece(c, t) = Landed(m) BY <2>1, LandedAre
  <2>4. PlainMove(b, m, v, vs) => (Piece(c, t) # m.piece => m.from \notin b.bb[Piece(c, t)]) BY <2>2 DEF PlainMove
  <2> QED BY <1>1, <1>3, <1>10, <2>2, <2>3, <2>4
<1>12. \A l \in 1..4 : m.from \notin Runs(b.bb, c, l) /\ m.to \notin Runs(new, c, l) BY <1>11 DEF Runs
<1> QED BY <1>9, <1>10, <1>12

\* A plain move that passes the test gives check.
LEMMA TestedChecks ==
  ASSUME NEW b, NEW m, NEW v, NEW vs, NEW new, NEW k, PlainStep(b, m, v, vs, new, k),
         Direct(b, m) \/ Uncovering(b, m, k) \/ Promotes(b, m, k) \/ Passes(b, m, k)
  PROVE  Assails(new, b.side, k, Full(new))
<1> DEFINE c == b.side
           f == m.from
           t == m.to
<1>1. /\ PlainMove(b, m, v, vs) /\ c \in {white, black} /\ f \in Squares /\ t \in Squares /\ f # t /\ f \in All(b)
      /\ k \in Squares /\ k # t /\ k # f /\ All(b) \subseteq Squares /\ Full(new) \subseteq Squares
      /\ \A s \in Squares : s \in Full(new) <=> s = t \/ (s # f /\ s # vs /\ s \in All(b))
  BY StepFacts
<1>2. Shifted(b.bb, new, m, vs) /\ Ready(b) /\ k = KingSquare(b, 1 - c) BY DEF PlainStep
<1>3. \A l \in 1..4 : \A u \in Runs(b.bb, c, l) : u # t /\ (u # f => u \in Runs(new, c, l)) BY <1>1, <1>2, UnitsAfter
<1>4. \A l \in 1..4 : \A u \in Runs(new, c, l) : u = t \/ (u # f /\ u \in Runs(b.bb, c, l)) BY <1>1, <1>2, UnitsAfter
<1>5. m.castling = FALSE BY <1>1 DEF PlainMove
<1>6. \A u \in Full(new) : u = t \/ (u # f /\ u \in All(b)) BY <1>1
<1>7. CASE Direct(b, m)
  <2> DEFINE q == Type(m.piece)
  <2>1. t \in CheckSquares(b, q) BY <1>7 DEF Direct
  <2> HIDE DEF q
  <2>2. q \in 0..5 /\ (m.promo = 0 => Landed(m) = Piece(c, q))
    <3>1. PlainMove(b, m, v, vs) => m.piece \in Men(c) BY DEF PlainMove
    <3> QED BY <1>1, <3>1, KindIs, LandedAre DEF q
  <2>3. q = Pawn => t \in pawn_attacks[1 - c][k] BY <1>2, <2>1 DEF CheckSquares
  <2>4. m.promo = 0 BY <2>3, PromotedAre DEF q
  <2>5. q # King BY <2>1 DEF CheckSquares, King, Pawn
  <2>6. q # Pawn => t \in Attacks(q, k, All(b)) BY <1>2, <2>1, <2>5 DEF CheckSquares
  <2>7. q \in {Pawn, Knight, Bishop, Rook, Queen} BY <2>2, <2>5 DEF Pawn, Knight, Bishop, Rook, Queen, King
  <2>8. CASE q = Pawn BY <2>2, <2>3, <2>4, <2>8, LandedChecks
  <2>9. CASE q = Knight
    <3>0. Attacks(q, k, All(b)) = knight_attacks[k] BY <2>9 DEF Attacks, Knight, King
    <3>1. t \in knight_attacks[k] BY <2>6, <2>9, <3>0 DEF Knight, Pawn
    <3> QED BY <2>2, <2>4, <2>9, <3>1, LandedChecks
  <2>10. CASE q \in {Bishop, Rook, Queen}
    <3>1. q # Pawn BY <2>10 DEF Bishop, Rook, Queen, Pawn
    <3>2. PICK l \in Rides(q) : Sees(l, k, t, All(b)) BY <1>1, <2>6, <2>10, <3>1, AttacksSee
    <3>3. Sees(l, k, t, Full(new)) BY <1>1, <1>6, <3>2 DEF Sees, Clear, Inside, Squares
    <3> QED BY <2>2, <2>4, <2>10, <3>3, LandedChecks
  <2> QED BY <2>7, <2>8, <2>9, <2>10
<1>8. CASE Uncovering(b, m, k)
  <2>1. f \in Discoverers(b) /\ ~on_line(f, t, k) BY <1>5, <1>8 DEF Uncovering
  <2>2. Hides(b, k, f)
    <3> HIDE DEF f, t
    <3> QED BY <1>1, <1>2, <2>1, DiscoverersAre
  <2>3. PICK l \in 1..4 : \E e \in Runs(b.bb, c, l) : e \in Squares /\ Pins(l, k, e, f, All(b)) BY <2>2 DEF Hides
  <2>4. PICK e \in Runs(b.bb, c, l) : e \in Squares /\ Pins(l, k, e, f, All(b)) BY <2>3
  <2> HIDE DEF f, t, c
  <2>5. OnLine(l, k, e) /\ OnLine(l, k, f) /\ Inside(f, k, e) BY <2>4 DEF Pins
  <2>6. e # f BY <1>1, <2>4, <2>5 DEF Inside, Squares
  <2>7. e \in Runs(new, c, l) BY <1>3, <2>4, <2>6
  <2>8. ASSUME NEW u \in Full(new), OnLine(l, k, u), Inside(u, k, e) PROVE FALSE
    <3>1. CASE u = t
      <4>1. OnLine(l, f, t) BY <1>1, <2>5, <2>8, <3>1 DEF OnLine
      <4>2. on_line(f, t, k) BY <1>1, <2>5, <4>1, ThreeOnLine
      <4> QED BY <2>1, <4>2
    <3>2. CASE u # f /\ u \in All(b)
      <4>1. u \in Squares BY <1>1
      <4> QED BY <2>4, <2>8, <3>2, <4>1 DEF Pins
    <3> QED BY <1>6, <3>1, <3>2
  <2>9. Sees(l, k, e, Full(new)) BY <2>4, <2>5, <2>8 DEF Sees, Clear
  <2> QED BY <2>3, <2>7, <2>9 DEF Assails, Aims, c
<1>9. CASE Promotes(b, m, k)
  <2> DEFINE q == Type(m.promo)
             lifted == Xor(All(b), {f})
  <2>1. m.promo # 0 /\ k \in Attacks(q, t, lifted) BY <1>9 DEF Promotes
  <2>2. q \in {Knight, Bishop, Rook, Queen} BY <2>1, PromotedAre
  <2>3. q \in 0..5 /\ Landed(m) = Piece(c, q) BY <2>1, LandedAre
  <2>4. \A u \in Full(new) : u = t \/ u \in lifted BY <1>6 DEF Xor
  <2> HIDE DEF q, lifted, t, f
  <2>5. CASE q = Knight
    <3>0. Attacks(q, t, lifted) = knight_attacks[t] BY <2>5 DEF Attacks, Knight, King
    <3>1. k \in knight_attacks[t] BY <2>1, <3>0
    <3>2. t \in knight_attacks[k] BY <1>1, <3>1, LeapersMeet
    <3> QED BY <2>3, <2>5, <3>2, LandedChecks DEF t
  <2>6. CASE q \in {Bishop, Rook, Queen}
    <3>1. PICK l \in Rides(q) : Sees(l, t, k, lifted) BY <1>1, <2>1, <2>6, AttacksSee
    <3>2. Sees(l, t, k, Full(new)) BY <2>4, <3>1, SeesMore
    <3>3. Sees(l, k, t, Full(new)) BY <1>1, <3>2, SeenBack
    <3> QED BY <2>3, <2>6, <3>3, LandedChecks DEF t
  <2> QED BY <2>2, <2>5, <2>6
<1>10. CASE Passes(b, m, k)
  <2>1. m.enpass BY <1>10 DEF Passes
  <2>2. Aims(b.bb, c, k, PassingBoard(b, m))
    BY <1>1, <1>10, AimsIs DEF Passes, Us, get_rook_attacks, get_bishop_attacks
  <2>3. PICK l \in 1..4 : \E e \in Runs(b.bb, c, l) : Sees(l, k, e, PassingBoard(b, m)) BY <2>2 DEF Aims
  <2>4. PICK e \in Runs(b.bb, c, l) : Sees(l, k, e, PassingBoard(b, m)) BY <2>3
  <2>5. PassingBoard(b, m) = Full(new) BY <2>1, PassedFacts
  <2>6. e # f BY <2>1, <2>3, <2>4, PassedFacts
  <2>7. e \in Runs(new, c, l) BY <1>3, <2>4, <2>6
  <2> QED BY <2>3, <2>4, <2>5, <2>7 DEF Assails, Aims
<1> QED BY <1>7, <1>8, <1>9, <1>10

\* The king of the side that waits stays where it is.
LEMMA WaitingKingStays ==
  ASSUME NEW b, NEW m, NEW v, NEW vs, NEW new, NEW k, PlainStep(b, m, v, vs, new, k)
  PROVE  k \in new[Piece(1 - b.side, King)]
<1> DEFINE c == b.side
           t == m.to
<1>1. /\ c \in {white, black} /\ 1 - c \in {white, black} /\ k \in Squares /\ k # t /\ PlainMove(b, m, v, vs)
      /\ k \in b.bb[Piece(1 - c, King)]
  BY StepFacts
<1>2. Ready(b) /\ Taking(b, m, v, vs) /\ Shifted(b.bb, new, m, vs) BY DEF PlainStep
<1>3. King \in 0..5 BY DEF King
<1>4. Piece(1 - c, King) \in Men(1 - c) /\ Piece(1 - c, King) \in Pieces BY <1>1, <1>3, PieceOf
<1>5. k # vs
  <2> SUFFICES ASSUME k = vs PROVE FALSE OBVIOUS
  <2>1. v # None => vs \in b.bb[v] /\ v \in Pieces BY <1>1 DEF PlainMove
  <2>2. v # None BY <1>1 DEF PlainMove, None, Squares
  <2>3. v = Piece(1 - c, King) BY <1>1, <1>2, <1>4, <2>1, <2>2 DEF Ready, Disjoint
  <2>4. m.enpass
    <3>1. m.capture BY <1>2, <2>2 DEF Taking
    <3>2. ~m.enpass => vs = t BY <1>2, <3>1 DEF Taking
    <3> QED BY <1>1, <3>2
  <2>5. v = Piece(1 - c, Pawn) BY <1>2, <2>2, <2>4 DEF Taking
  <2> QED BY <1>1, <1>3, <2>3, <2>5, PieceOf DEF Pawn, King
<1> QED BY <1>1, <1>2, <1>4, <1>5, ShiftedAre

\* The king that a plain move of the king leaves safe does not stand next to the enemy king.
LEMMA KingGivesNone ==
  ASSUME NEW b, NEW m, NEW v, NEW vs, NEW new, NEW k, PlainStep(b, m, v, vs, new, k), Saved(b, new),
         Landed(m) = Piece(b.side, King)
  PROVE  m.to \notin king_attacks[k]
<1> DEFINE c == b.side
           t == m.to
<1>1. /\ c \in {white, black} /\ 1 - c \in {white, black} /\ t \in Squares /\ k \in Squares /\ k # t /\ PlainMove(b, m, v, vs)
      /\ k \in b.bb[Piece(1 - c, King)]
  BY StepFacts
<1>2. Ready(b) /\ IsLegal(b) /\ FitFrom(b, m) /\ FitPlain(b, m) /\ Goes(b, m) /\ Taking(b, m, v, vs) /\ Shifted(b.bb, new, m, vs)
  BY DEF PlainStep
<1>3. King \in 0..5 BY DEF King
<1>4. t \in new[Piece(c, King)] BY <1>3, LandedAre
<1>5. Turns(b, m, new) BY <1>2 DEF Turns
<1>6. ~Assails(new, 1 - c, t, Full(new)) BY <1>2, <1>4, <1>5, SavedKing
<1>7. k \in new[Piece(1 - c, King)] BY WaitingKingStays
<1> SUFFICES ASSUME t \in king_attacks[k] PROVE FALSE BY DEF t
<1>8. k \in king_attacks[t] BY <1>1, LeapersMeet
<1> HIDE DEF t, c
<1>9. k \in Leaps(new, 1 - c, t) BY <1>7, <1>8 DEF Leaps
<1> QED BY <1>6, <1>9 DEF Assails

\* Between a man that alone hid the king and the square it leaves to, the line is another one than the slider's.
LEMMA LeavesTheLine ==
  ASSUME NEW b, NEW m, NEW v, NEW vs, NEW new, NEW k, PlainStep(b, m, v, vs, new, k), ~m.enpass,
         NEW l \in 1..4, NEW e \in Squares, e \in All(b), e # m.to, Pins(l, k, e, m.from, All(b)), Sees(l, k, e, Full(new))
  PROVE  ~on_line(m.from, m.to, k)
<1> DEFINE f == m.from
           t == m.to
<1>1. /\ f \in Squares /\ t \in Squares /\ f # t /\ k \in Squares /\ k # t /\ k # f /\ k \in All(b) /\ PlainMove(b, m, v, vs)
      /\ b.side \in {white, black} /\ t \in Full(new)
  BY StepFacts
<1>2. Ready(b) /\ FitFrom(b, m) /\ FitPlain(b, m) /\ Goes(b, m) BY DEF PlainStep
<1> SUFFICES ASSUME on_line(f, t, k) PROVE FALSE BY DEF f, t
<1>3. m.piece = Piece(b.side, King) => KingStep(f, t)
  <2> SUFFICES ASSUME m.piece = Piece(b.side, King) PROVE KingStep(f, t) OBVIOUS
  <2>1. King \in 0..5 BY DEF King
  <2>2. Type(m.piece) = King BY <1>1, <2>1, PieceOf
  <2>3. t \in Attacks(King, f, All(b)) BY <1>2, <2>2 DEF Goes, FitPlain, King, Pawn
  <2>4. Attacks(King, f, All(b)) = king_attacks[f] BY DEF Attacks, King, Knight
  <2> QED BY <1>1, <2>3, <2>4, KingAttacksAre
<1>4. \A j \in 1..4 : OnLine(j, f, t) => Clear(j, f, t, All(b))
  <2> TAKE j \in 1..4
  <2>1. CASE m.piece = Piece(b.side, King) BY <1>1, <1>3, <2>1, NothingBetween
  <2>2. CASE m.piece # Piece(b.side, King) BY <1>2, <2>2, WayIsClear
  <2> QED BY <2>1, <2>2
<1> HIDE DEF f, t
<1>5. PICK j \in 1..4 : OnLine(j, f, t) /\ OnLine(j, f, k) /\ OnLine(j, k, t) BY <1>1, OnLineIs
<1>6. OnLine(l, k, f) BY DEF Pins, f
<1>7. j = l BY <1>1, <1>5, <1>6, OneLine, SameLine
<1>8. t = e \/ (OnLine(l, k, t) /\ Inside(t, k, e)) BY <1>1, <1>4, <1>5, <1>7, StaysBetween DEF f
<1> QED BY <1>1, <1>8 DEF Sees, Clear, t

\* A plain move that gives check passes the test.
LEMMA GivenChecks ==
  ASSUME NEW b, NEW m, NEW v, NEW vs, NEW new, NEW k, PlainStep(b, m, v, vs, new, k), Saved(b, new),
         Assails(new, b.side, k, Full(new))
  PROVE  Direct(b, m) \/ Uncovering(b, m, k) \/ Promotes(b, m, k) \/ Passes(b, m, k)
<1> DEFINE c == b.side
           f == m.from
           t == m.to
<1>1. /\ PlainMove(b, m, v, vs) /\ c \in {white, black} /\ f \in Squares /\ t \in Squares /\ f # t /\ f \in All(b)
      /\ k \in Squares /\ k # t /\ k # f /\ All(b) \subseteq Squares /\ Full(new) \subseteq Squares
      /\ \A s \in Squares : s \in Full(new) <=> s = t \/ (s # f /\ s # vs /\ s \in All(b))
      /\ f \in b.occ[c] /\ ~Assails(b.bb, c, k, All(b)) /\ All(b) = Full(b.bb)
  BY StepFacts
<1>2. Shifted(b.bb, new, m, vs) /\ Ready(b) /\ k = KingSquare(b, 1 - c) /\ Taking(b, m, v, vs) BY DEF PlainStep
<1>3. \A l \in 1..4 : \A u \in Runs(new, c, l) : u = t \/ (u # f /\ u \in Runs(b.bb, c, l)) BY <1>1, <1>2, UnitsAfter
<1>4. \A u \in Leaps(new, c, k) : u = t \/ u \in Leaps(b.bb, c, k)
  <2>1. PlainMove(b, m, v, vs) /\ Shifted(b.bb, new, m, vs) BY <1>1, <1>2
  <2> QED BY <2>1, UnitsAfter
<1>5. m.castling = FALSE BY <1>1 DEF PlainMove
<1>6. Leaps(b.bb, c, k) = {} /\ \A l \in 1..4 : \A e \in Runs(b.bb, c, l) : ~Sees(l, k, e, All(b)) BY <1>1 DEF Assails, Aims
<1>7. /\ m.promo = 0 => Landed(m) = Piece(c, Type(m.piece)) /\ Type(m.piece) \in 0..5
      /\ m.promo # 0 => Landed(m) = Piece(c, Type(m.promo)) /\ Type(m.promo) \in 0..5
      /\ \A q \in 0..5 : t \in new[Piece(c, q)] <=> Piece(c, q) = Landed(m)
  BY LandedAre
<1>8. ~m.enpass => \A u \in All(b) : u = f \/ u \in Full(new)
  <2> SUFFICES ASSUME ~m.enpass, NEW u \in All(b), u # f PROVE u \in Full(new) OBVIOUS
  <2>1. vs = t \/ vs = None BY <1>2 DEF Taking
  <2> QED BY <1>1, <2>1 DEF None, Squares
\* A kind q that lands: what it was, or what it was promoted to.
<1>9. ASSUME NEW q \in 0..5, Piece(c, q) = Landed(m)
      PROVE  /\ m.promo = 0 => Type(m.piece) = q
             /\ m.promo # 0 => Type(m.promo) = q /\ q \in {Knight, Bishop, Rook, Queen}
  <2>1. m.promo # 0 => Type(m.promo) \in {Knight, Bishop, Rook, Queen} BY PromotedAre
  <2> QED BY <1>1, <1>7, <1>9, <2>1, PieceOf
<1>10. CASE Leaps(new, c, k) # {}
  <2>1. t \in Leaps(new, c, k) BY <1>4, <1>6, <1>10
  <2> HIDE DEF f, t, c
  <2>2. Pawn \in 0..5 /\ Knight \in 0..5 /\ King \in 0..5 BY DEF Pawn, Knight, King
  <2>3. CASE t \in pawn_attacks[1 - c][k] /\ t \in new[Piece(c, Pawn)]
    <3>1. Piece(c, Pawn) = Landed(m) BY <1>7, <2>2, <2>3
    <3>2. m.promo = 0 BY <1>9, <2>2, <3>1 DEF Pawn, Knight, Bishop, Rook, Queen
    <3>3. Type(m.piece) = Pawn BY <1>9, <2>2, <3>1, <3>2
    <3>4. t \in CheckSquares(b, Pawn) BY <1>2, <2>3 DEF CheckSquares, c
    <3> QED BY <1>5, <3>3, <3>4 DEF Direct, t
  <2>4. CASE t \in knight_attacks[k] /\ t \in new[Piece(c, Knight)]
    <3>1. Piece(c, Knight) = Landed(m) BY <1>7, <2>2, <2>4
    <3>2. CASE m.promo = 0
      <4>1. Type(m.piece) = Knight BY <1>9, <2>2, <3>1, <3>2
      <4>2. Attacks(Knight, k, All(b)) = knight_attacks[k] BY DEF Attacks, Knight, King
      <4>3. CheckSquares(b, Knight) = Attacks(Knight, k, All(b)) BY <1>2 DEF CheckSquares, Knight, Pawn, King, c
      <4> QED BY <1>5, <2>4, <4>1, <4>2, <4>3 DEF Direct, t
    <3>3. CASE m.promo # 0
      <4>1. Type(m.promo) = Knight BY <1>9, <2>2, <3>1, <3>3
      <4>2. k \in knight_attacks[t] BY <1>1, <2>4, LeapersMeet
      <4>3. Attacks(Knight, t, Xor(All(b), {f})) = knight_attacks[t] BY DEF Attacks, Knight, King
      <4> QED BY <3>3, <4>1, <4>2, <4>3 DEF Promotes, t, f
    <3> QED BY <3>2, <3>3
  <2>5. CASE t \in king_attacks[k] /\ t \in new[Piece(c, King)]
    <3>1. Piece(c, King) = Landed(m) BY <1>7, <2>2, <2>5
    <3> QED BY <2>5, <3>1, KingGivesNone DEF c, t
  <2> QED BY <2>1, <2>3, <2>4, <2>5 DEF Leaps
<1>11. CASE Aims(new, c, k, Full(new))
  <2>1. PICK l \in 1..4 : \E e \in Runs(new, c, l) : Sees(l, k, e, Full(new)) BY <1>11 DEF Aims
  <2>2. PICK e \in Runs(new, c, l) : Sees(l, k, e, Full(new)) BY <2>1
  <2>3. e \in Squares /\ OnLine(l, k, e) BY <2>2 DEF Sees
  <2> HIDE DEF f, t, c
  <2>4. CASE m.enpass
    <3>1. PassingBoard(b, m) = Full(new) /\ e # t BY <2>2, <2>4, PassedFacts DEF c, t
    <3>2. e \in Runs(b.bb, c, l) BY <1>3, <2>2, <3>1
    <3>3. Aims(b.bb, c, k, PassingBoard(b, m)) BY <2>2, <3>1, <3>2 DEF Aims
    <3>4. Passes(b, m, k) BY <1>1, <2>4, <3>3, AimsIs DEF Passes, Us, get_rook_attacks, get_bishop_attacks, c
    <3> QED BY <3>4
  <2>5. CASE ~m.enpass /\ e = t
    <3>1. PICK q \in {Bishop, Rook, Queen} : l \in Rides(q) /\ t \in new[Piece(c, q)] BY <2>2, <2>5, RunsHold
    <3>2. q \in 0..5 /\ q # Pawn /\ q # King BY DEF Bishop, Rook, Queen, Pawn, King
    <3>3. Piece(c, q) = Landed(m) BY <1>7, <3>1, <3>2
    <3>4. CASE m.promo = 0
      <4>1. Type(m.piece) = q BY <1>9, <3>2, <3>3, <3>4
      <4>2. ASSUME NEW u \in All(b), OnLine(l, k, u), Inside(u, k, t) PROVE FALSE
        <5>1. u \in Squares BY <1>1
        <5>2. u = f BY <1>8, <2>2, <2>5, <4>2, <5>1 DEF Sees, Clear
        <5>3. ASSUME NEW w \in All(b), w \in Squares, OnLine(l, k, w), Inside(w, k, f) PROVE FALSE
          <6>1. Inside(w, k, t) /\ w # f BY <1>1, <4>2, <5>2, <5>3 DEF Inside, Squares
          <6> QED BY <1>8, <2>2, <2>5, <5>3, <6>1 DEF Sees, Clear
        <5>4. Sees(l, k, f, All(b)) BY <1>1, <4>2, <5>2, <5>3 DEF Sees, Clear
        <5>5. f \in b.bb[Piece(c, q)]
          <6>1. PlainMove(b, m, v, vs) => f \in b.bb[m.piece] BY DEF PlainMove, f
          <6>2. m.piece = Landed(m) BY <3>4 DEF Landed
          <6> QED BY <1>1, <3>3, <6>1, <6>2
        <5>6. f \in Runs(b.bb, c, l) BY <3>1, <5>5, RunsHold
        <5> QED BY <1>6, <5>4, <5>6
      <4>3. Sees(l, k, t, All(b)) BY <2>3, <2>5, <4>2 DEF Sees, Clear
      <4>4. t \in Attacks(q, k, All(b)) BY <1>1, <3>1, <4>3, AttacksSee
      <4>5. CheckSquares(b, q) = Attacks(q, k, All(b)) BY <1>2, <3>2 DEF CheckSquares, c
      <4> QED BY <1>5, <4>1, <4>4, <4>5 DEF Direct, t
    <3>5. CASE m.promo # 0
      <4> DEFINE lifted == Xor(All(b), {f})
      <4>1. Type(m.promo) = q BY <1>9, <3>2, <3>3, <3>5
      <4>2. Sees(l, t, k, Full(new)) BY <1>1, <2>2, <2>5, SeenBack
      <4>3. \A u \in lifted : u = t \/ u \in Full(new) BY <1>1, <1>8, <2>5 DEF Xor
      <4> HIDE DEF lifted
      <4>4. Sees(l, t, k, lifted) BY <4>2, <4>3, SeesMore
      <4>5. k \in Attacks(q, t, lifted) BY <1>1, <3>1, <4>4, AttacksSee
      <4> QED BY <3>5, <4>1, <4>5 DEF Promotes, t, f, lifted
    <3> QED BY <3>4, <3>5
  <2>6. CASE ~m.enpass /\ e # t
    <3>1. e \in Runs(b.bb, c, l) /\ e # f BY <1>3, <2>2, <2>6
    <3>2. ~Sees(l, k, e, All(b)) BY <1>6, <3>1
    <3>3. Pins(l, k, e, f, All(b)) BY <1>1, <1>8, <2>2, <2>3, <2>6, <3>2, Uncovers
    <3>4. Hides(b, k, f) BY <2>3, <3>1, <3>3 DEF Hides, c
    <3>5. f \in Discoverers(b) BY <1>1, <1>2, <3>4, DiscoverersAre DEF c
    <3>6. e \in All(b)
      <4>1. PICK q \in {Bishop, Rook, Queen} : l \in Rides(q) /\ e \in b.bb[Piece(c, q)] BY <3>1, RunsHold
      <4>2. q \in 0..5 BY DEF Bishop, Rook, Queen
      <4>3. Piece(c, q) \in Pieces BY <1>1, <4>2, PieceOf
      <4> QED BY <1>1, <2>3, <4>1, <4>3 DEF Full, Free
    <3>7. ~on_line(f, t, k) BY <2>2, <2>3, <2>6, <3>3, <3>6, LeavesTheLine DEF f, t
    <3> QED BY <3>5, <3>7 DEF Uncovering, f, t
  <2> QED BY <2>4, <2>5, <2>6
<1> QED BY <1>10, <1>11 DEF Assails

\* For a plain move that leaves its king safe, the test is exact.
LEMMA PlainChecks ==
  ASSUME NEW b, NEW m, NEW v, NEW vs, NEW new, NEW k, PlainStep(b, m, v, vs, new, k), Saved(b, new)
  PROVE  checks_before(b, m) <=> Assails(new, b.side, k, Full(new))
<1>1. k = KingSquare(b, 1 - b.side) /\ ~m.castling BY DEF PlainStep, FitPlain
<1>2. ~RookLooks(b, m) BY <1>1 DEF RookLooks
<1> QED BY <1>1, <1>2, ChecksAre, GivenChecks, TestedChecks

\* A square of an edge row is between two others of a line only along its row.
LEMMA EdgeLine ==
  ASSUME NEW u \in Squares, Row(u) \in {0, 7}, NEW l \in 1..4, NEW x \in Squares, NEW y \in Squares, OnLine(l, x, y), OnLine(l, x, u),
         Inside(u, x, y)
  PROVE  l = 4 /\ Row(x) = Row(u) /\ Row(y) = Row(u)
<1> DEFINE a == Row(x)
           b == File(x)
           c == Row(y)
           d == File(y)
           e == Row(u)
           f == File(u)
<1>1. /\ a \in 0..7 /\ b \in 0..7 /\ c \in 0..7 /\ d \in 0..7 /\ e \in 0..7 /\ f \in 0..7
      /\ x = 8 * a + b /\ y = 8 * c + d /\ u = 8 * e + f
  BY Coordinates
<1>2. l = 1 \/ l = 2 \/ l = 3 \/ l = 4 OBVIOUS
<1>3. LineOf(l, x) = LineOf(l, y) /\ LineOf(l, x) = LineOf(l, u) BY DEF OnLine
<1>4. /\ l = 1 => a - b = c - d /\ a - b = e - f
      /\ l = 2 => b = d /\ b = f
      /\ l = 3 => a + b = c + d /\ a + b = e + f
      /\ l = 4 => a = c /\ a = e
  BY <1>3, LineOfIs
<1>5. e = 0 \/ e = 7 OBVIOUS
<1>6. (x < u /\ u < y) \/ (y < u /\ u < x) BY DEF Inside
<1> HIDE DEF a, b, c, d, e, f
<1>7. l # 1 BY <1>1, <1>4, <1>5, <1>6
<1>8. l # 2 BY <1>1, <1>4, <1>5, <1>6
<1>9. l # 3 BY <1>1, <1>4, <1>5, <1>6
<1>10. l = 4 BY <1>2, <1>7, <1>8, <1>9
<1> QED BY <1>4, <1>10 DEF a, c, e

\* A row is the fourth line.
LEMMA RowIsLine ==
  ASSUME NEW x \in Squares, NEW y \in Squares
  PROVE  OnLine(4, x, y) <=> x # y /\ Row(x) = Row(y)
BY LineOfIs DEF OnLine

\* The squares of a castling: on one edge row, king and rook end side by side, each on the other side of the other, and
\* what they cross is free.
EdgeRow(kf, kt, rf, rt) ==
  /\ kf \in Squares /\ kt \in Squares /\ rf \in Squares /\ rt \in Squares
  /\ Row(kf) \in {0, 7} /\ Row(kt) = Row(kf) /\ Row(rf) = Row(kf) /\ Row(rt) = Row(kf)
  /\ (rf > kf /\ kt = rt + 1) \/ (rf < kf /\ kt = rt - 1)
Swap(kf, kt, rf, rt, A, N) ==
  /\ EdgeRow(kf, kt, rf, rt) /\ kf \in A /\ rf \in A /\ A \subseteq Squares /\ N \subseteq Squares
  /\ \A u \in A : Amid(kf, kt, u) \/ Amid(rf, rt, u) => u = kf \/ u = rf
  /\ \A s : s \in N <=> s = kt \/ s = rt \/ (s # kf /\ s # rf /\ s \in A)

\* The rook sees a square after the castling that its square did not see before: it looked through the king before.
LEMMA SeesAfter ==
  ASSUME NEW kf, NEW kt, NEW rf, NEW rt, NEW A, NEW N, Swap(kf, kt, rf, rt, A, N), NEW k \in A, k # kf, k # rf,
         NEW l \in 1..4, Sees(l, k, rt, N), ~Sees(l, k, rt, A)
  PROVE  l = 4 /\ Pins(4, k, rf, kf, A)
<1>1. /\ kf \in Squares /\ kt \in Squares /\ rf \in Squares /\ rt \in Squares /\ k \in Squares
      /\ Row(kf) \in {0, 7} /\ Row(kt) = Row(kf) /\ Row(rf) = Row(kf) /\ Row(rt) = Row(kf)
      /\ (rf > kf /\ kt = rt + 1) \/ (rf < kf /\ kt = rt - 1)
  BY DEF Swap, EdgeRow
<1>2. /\ kf \in A /\ rf \in A /\ A \subseteq Squares
      /\ \A u \in A : Amid(kf, kt, u) \/ Amid(rf, rt, u) => u = kf \/ u = rf
      /\ \A s : s \in N <=> s = kt \/ s = rt \/ (s # kf /\ s # rf /\ s \in A)
  BY DEF Swap
<1>3. OnLine(l, k, rt) /\ \A u \in N : u \in Squares /\ OnLine(l, k, u) => ~Inside(u, k, rt) BY DEF Sees, Clear
<1>4. PICK u \in A : u \in Squares /\ OnLine(l, k, u) /\ Inside(u, k, rt) BY <1>1, <1>3 DEF Sees, Clear
<1>5. u = kf \/ u = rf BY <1>2, <1>3, <1>4
<1>6. l = 4 /\ Row(k) = Row(kf) BY <1>1, <1>3, <1>4, <1>5, EdgeLine
<1>7. \A s \in Squares : Row(s) = Row(kf) /\ s # k => OnLine(4, k, s) BY <1>1, <1>6, RowIsLine
<1>8. kf \in Int /\ kt \in Int /\ rf \in Int /\ rt \in Int /\ k \in Int /\ u \in Int BY <1>1, <1>4 DEF Squares
<1>9. k # rt /\ (k # kt => ~Inside(kt, k, rt)) BY <1>1, <1>2, <1>3, <1>6, <1>7 DEF OnLine
<1>10. ~Amid(kf, kt, k) /\ ~Amid(rf, rt, k) BY <1>2
<1>11. /\ ~((kf <= k /\ k <= kt) \/ (kt <= k /\ k <= kf)) /\ ~((rf <= k /\ k <= rt) \/ (rt <= k /\ k <= rf))
       /\ k # kt => ~((k < kt /\ kt < rt) \/ (rt < kt /\ kt < k))
       /\ (k < u /\ u < rt) \/ (rt < u /\ u < k)
  BY <1>1, <1>4, <1>9, <1>10 DEF Amid, Inside
<1>12. (k < kf /\ kf < rf /\ k < rt) \/ (rf < kf /\ kf < k /\ rt < k)
  BY <1>1, <1>5, <1>8, <1>11
<1>13. OnLine(4, k, rf) /\ OnLine(4, k, kf) BY <1>1, <1>6, <1>7
<1>14. Inside(kf, k, rf) BY <1>12 DEF Inside
<1>15. ASSUME NEW w \in A, w \in Squares, OnLine(4, k, w), Inside(w, k, rf) PROVE w = kf
  <2> SUFFICES ASSUME w # kf PROVE FALSE OBVIOUS
  <2>1. w \in Int BY <1>15 DEF Squares
  <2>2. w # rf BY <1>8, <1>15, <2>1 DEF Inside
  <2>3. w \in N BY <1>2, <1>15, <2>2
  <2>4. ~Inside(w, k, rt) BY <1>3, <1>6, <1>15, <2>3
  <2>5. ~Amid(rf, rt, w) BY <1>2, <1>15, <2>2
  <2>6. /\ ~((k < w /\ w < rt) \/ (rt < w /\ w < k)) /\ ~((rf <= w /\ w <= rt) \/ (rt <= w /\ w <= rf))
        /\ (k < w /\ w < rf) \/ (rf < w /\ w < k)
    BY <1>15, <2>4, <2>5 DEF Amid, Inside
  <2> QED BY <1>8, <1>12, <2>1, <2>6
<1> QED BY <1>2, <1>6, <1>13, <1>14, <1>15 DEF Pins

\* No other man sees after the castling what it did not see before.
LEMMA SwapHides ==
  ASSUME NEW kf, NEW kt, NEW rf, NEW rt, NEW A, NEW N, Swap(kf, kt, rf, rt, A, N), NEW k \in A, k # kf, k # rf,
         NEW l \in 1..4, NEW e \in A, e # kf, e # rf, Sees(l, k, e, N)
  PROVE  Sees(l, k, e, A)
<1> SUFFICES ASSUME ~Sees(l, k, e, A) PROVE FALSE OBVIOUS
<1>1. /\ kf \in Squares /\ kt \in Squares /\ rf \in Squares /\ rt \in Squares /\ k \in Squares /\ e \in Squares
      /\ Row(kf) \in {0, 7} /\ Row(kt) = Row(kf) /\ Row(rf) = Row(kf) /\ Row(rt) = Row(kf)
  BY DEF Swap, EdgeRow
<1>2. /\ \A u \in A : Amid(kf, kt, u) \/ Amid(rf, rt, u) => u = kf \/ u = rf
      /\ \A s : s \in N <=> s = kt \/ s = rt \/ (s # kf /\ s # rf /\ s \in A)
  BY DEF Swap
<1>3. OnLine(l, k, e) /\ \A u \in N : u \in Squares /\ OnLine(l, k, u) => ~Inside(u, k, e) BY DEF Sees, Clear
<1>4. PICK u \in A : u \in Squares /\ OnLine(l, k, u) /\ Inside(u, k, e) BY <1>1, <1>3 DEF Sees, Clear
<1>5. u = kf \/ u = rf BY <1>2, <1>3, <1>4
<1>6. l = 4 /\ Row(k) = Row(kf) BY <1>1, <1>3, <1>4, <1>5, EdgeLine
<1>7. \A s \in Squares : Row(s) = Row(kf) /\ s # k => OnLine(4, k, s) BY <1>1, <1>6, RowIsLine
<1>8. kf \in Int /\ kt \in Int /\ rf \in Int /\ rt \in Int /\ k \in Int /\ e \in Int BY <1>1 DEF Squares
<1>9. (k # kt => ~Inside(kt, k, e)) /\ (k # rt => ~Inside(rt, k, e)) BY <1>1, <1>2, <1>3, <1>6, <1>7
<1>10. ~Amid(kf, kt, k) /\ ~Amid(rf, rt, k) /\ ~Amid(kf, kt, e) /\ ~Amid(rf, rt, e) BY <1>2
<1>11. /\ ~((kf <= k /\ k <= kt) \/ (kt <= k /\ k <= kf)) /\ ~((rf <= k /\ k <= rt) \/ (rt <= k /\ k <= rf))
       /\ ~((kf <= e /\ e <= kt) \/ (kt <= e /\ e <= kf)) /\ ~((rf <= e /\ e <= rt) \/ (rt <= e /\ e <= rf))
       /\ k # kt => ~((k < kt /\ kt < e) \/ (e < kt /\ kt < k))
       /\ k # rt => ~((k < rt /\ rt < e) \/ (e < rt /\ rt < k))
       /\ (k < u /\ u < e) \/ (e < u /\ u < k)
  BY <1>1, <1>4, <1>9, <1>10 DEF Amid, Inside
<1> QED BY <1>5, <1>8, <1>11

\* What the rook's square saw before, the rook sees after, unless the rook saw it before from where it came.
LEMMA SeesBefore ==
  ASSUME NEW kf, NEW kt, NEW rf, NEW rt, NEW A, NEW N, Swap(kf, kt, rf, rt, A, N), NEW k \in A, k # kf, k # rf,
         NEW l \in 1..4, Sees(l, k, rt, A)
  PROVE  Sees(l, k, rt, N) \/ Sees(4, k, rf, A)
<1> SUFFICES ASSUME ~Sees(l, k, rt, N) PROVE Sees(4, k, rf, A) OBVIOUS
<1>1. /\ kf \in Squares /\ kt \in Squares /\ rf \in Squares /\ rt \in Squares /\ k \in Squares
      /\ Row(kf) \in {0, 7} /\ Row(kt) = Row(kf) /\ Row(rf) = Row(kf) /\ Row(rt) = Row(kf)
      /\ (rf > kf /\ kt = rt + 1) \/ (rf < kf /\ kt = rt - 1)
  BY DEF Swap, EdgeRow
<1>2. /\ kf \in A /\ rf \in A /\ A \subseteq Squares
      /\ \A u \in A : Amid(kf, kt, u) \/ Amid(rf, rt, u) => u = kf \/ u = rf
      /\ \A s : s \in N <=> s = kt \/ s = rt \/ (s # kf /\ s # rf /\ s \in A)
  BY DEF Swap
<1>3. OnLine(l, k, rt) /\ \A u \in A : u \in Squares /\ OnLine(l, k, u) => ~Inside(u, k, rt) BY DEF Sees, Clear
<1>4. PICK u \in N : u \in Squares /\ OnLine(l, k, u) /\ Inside(u, k, rt) BY <1>1, <1>3 DEF Sees, Clear
<1>5. u = kt
  <2>1. u # rt BY <1>1, <1>4 DEF Inside, Squares
  <2> QED BY <1>2, <1>3, <1>4, <2>1
<1>6. l = 4 /\ Row(k) = Row(kf) BY <1>1, <1>3, <1>4, <1>5, EdgeLine
<1>7. \A s \in Squares : Row(s) = Row(kf) /\ s # k => OnLine(4, k, s) BY <1>1, <1>6, RowIsLine
<1>8. kf \in Int /\ kt \in Int /\ rf \in Int /\ rt \in Int /\ k \in Int BY <1>1 DEF Squares
<1>9. OnLine(4, k, kf) /\ OnLine(4, k, rf) BY <1>1, <1>6, <1>7
<1>10. ~Inside(kf, k, rt) /\ ~Inside(rf, k, rt) BY <1>1, <1>2, <1>3, <1>6, <1>9
<1>11. ~Amid(kf, kt, k) /\ ~Amid(rf, rt, k) BY <1>2
<1>12. /\ ~((kf <= k /\ k <= kt) \/ (kt <= k /\ k <= kf)) /\ ~((rf <= k /\ k <= rt) \/ (rt <= k /\ k <= rf))
       /\ ~((k < kf /\ kf < rt) \/ (rt < kf /\ kf < k)) /\ ~((k < rf /\ rf < rt) \/ (rt < rf /\ rf < k))
       /\ (k < kt /\ kt < rt) \/ (rt < kt /\ kt < k)
  BY <1>1, <1>4, <1>5, <1>10, <1>11 DEF Amid, Inside
<1>13. (kf < rf /\ rf <= rt /\ rt < k) \/ (k < rt /\ rt <= rf /\ rf < kf) BY <1>1, <1>8, <1>12
<1>14. ASSUME NEW w \in A, w \in Squares, OnLine(4, k, w), Inside(w, k, rf) PROVE FALSE
  <2>1. w \in Int BY <1>14 DEF Squares
  <2>2. (k < w /\ w < rf) \/ (rf < w /\ w < k) BY <1>14 DEF Inside
  <2>3. w # kf /\ w # rf BY <1>8, <1>13, <2>1, <2>2
  <2>4. ~Inside(w, k, rt) BY <1>3, <1>6, <1>14
  <2>5. ~Amid(rf, rt, w) BY <1>2, <1>14, <2>3
  <2>6. ~((k < w /\ w < rt) \/ (rt < w /\ w < k)) /\ ~((rf <= w /\ w <= rt) \/ (rt <= w /\ w <= rf))
    BY <1>14, <2>4, <2>5 DEF Amid, Inside
  <2> QED BY <1>8, <1>13, <2>1, <2>2, <2>6
<1> QED BY <1>1, <1>9, <1>14 DEF Sees, Clear

\* A king that hides a square hides it from its rook, and the rook sees the square after the castling.
LEMMA KingUncovers ==
  ASSUME NEW kf, NEW kt, NEW rf, NEW rt, NEW A, NEW N, Swap(kf, kt, rf, rt, A, N), NEW k \in A, k # kf, k # rf,
         NEW l \in 1..4, NEW e \in A, Pins(l, k, e, kf, A)
  PROVE  Sees(4, k, rt, N)
<1>1. /\ kf \in Squares /\ kt \in Squares /\ rf \in Squares /\ rt \in Squares /\ k \in Squares /\ e \in Squares
      /\ Row(kf) \in {0, 7} /\ Row(kt) = Row(kf) /\ Row(rf) = Row(kf) /\ Row(rt) = Row(kf)
      /\ (rf > kf /\ kt = rt + 1) \/ (rf < kf /\ kt = rt - 1)
  BY DEF Swap, EdgeRow
<1>2. /\ kf \in A /\ rf \in A /\ A \subseteq Squares
      /\ \A u \in A : Amid(kf, kt, u) \/ Amid(rf, rt, u) => u = kf \/ u = rf
      /\ \A s : s \in N <=> s = kt \/ s = rt \/ (s # kf /\ s # rf /\ s \in A)
  BY DEF Swap
<1>3. /\ OnLine(l, k, e) /\ OnLine(l, k, kf) /\ Inside(kf, k, e)
      /\ \A u \in A : u \in Squares /\ OnLine(l, k, u) /\ Inside(u, k, e) => u = kf
  BY DEF Pins
<1>4. l = 4 /\ Row(k) = Row(kf) /\ Row(e) = Row(kf) BY <1>1, <1>3, EdgeLine
<1>5. \A s \in Squares : Row(s) = Row(kf) /\ s # k => OnLine(4, k, s) BY <1>1, <1>4, RowIsLine
<1>6. kf \in Int /\ kt \in Int /\ rf \in Int /\ rt \in Int /\ k \in Int /\ e \in Int BY <1>1 DEF Squares
<1>7. (k < kf /\ kf < e) \/ (e < kf /\ kf < k) BY <1>3 DEF Inside
<1>8. ~Inside(rf, k, e) BY <1>1, <1>2, <1>3, <1>4, <1>5, <1>6
<1>9. ~Amid(kf, kt, k) /\ ~Amid(rf, rt, k) BY <1>2
<1>10. e # rf => ~Amid(kf, kt, e) /\ ~Amid(rf, rt, e)
  <2>1. e # kf BY <1>6, <1>7
  <2> QED BY <1>2, <2>1
<1>11. /\ ~((kf <= k /\ k <= kt) \/ (kt <= k /\ k <= kf)) /\ ~((rf <= k /\ k <= rt) \/ (rt <= k /\ k <= rf))
       /\ e # rf => /\ ~((kf <= e /\ e <= kt) \/ (kt <= e /\ e <= kf)) /\ ~((rf <= e /\ e <= rt) \/ (rt <= e /\ e <= rf))
       /\ ~((k < rf /\ rf < e) \/ (e < rf /\ rf < k))
  BY <1>1, <1>8, <1>9, <1>10 DEF Amid, Inside
<1>12. e = rf BY <1>1, <1>6, <1>7, <1>11
<1>13. (k < kf /\ kf < rf /\ k < rt) \/ (rf < kf /\ kf < k /\ rt < k) BY <1>1, <1>6, <1>7, <1>11, <1>12
<1>14. ASSUME NEW w \in N, w \in Squares, OnLine(4, k, w), Inside(w, k, rt) PROVE FALSE
  <2>1. w \in Int BY <1>14 DEF Squares
  <2>2. (k < w /\ w < rt) \/ (rt < w /\ w < k) BY <1>14 DEF Inside
  <2>3. w # rt /\ w # kt BY <1>1, <1>6, <1>13, <2>1, <2>2
  <2>4. w \in A /\ w # kf /\ w # rf BY <1>2, <2>3
  <2>5. ~Inside(w, k, e) BY <1>3, <1>4, <1>14, <2>4
  <2>6. ~Amid(rf, rt, w) BY <1>2, <2>4
  <2>7. ~((k < w /\ w < rf) \/ (rf < w /\ w < k)) /\ ~((rf <= w /\ w <= rt) \/ (rt <= w /\ w <= rf))
    BY <1>12, <1>14, <2>5, <2>6 DEF Amid, Inside
  <2> QED BY <1>6, <1>13, <2>1, <2>2, <2>4, <2>7
<1>15. OnLine(4, k, rt) BY <1>1, <1>4, <1>5, <1>6, <1>13
<1> QED BY <1>1, <1>14, <1>15 DEF Sees, Clear

\* A right of castling names squares of one edge row.
LEMMA RightsOnEdge ==
  ASSUME NEW su, NEW idx \in Rights, idx \in HomeRights(su), NEW kf, kf = su.king[OfSide(idx) + 1], NEW rf, rf = su.rook[idx + 1], kf # rf
  PROVE  EdgeRow(kf, castle_king_to(idx), rf, castle_rook_to(idx))
<1> DEFINE c == OfSide(idx)
           kt == castle_king_to(idx)
           rt == castle_rook_to(idx)
<1>1. c \in {white, black} BY SideOfRight
<1>2. kf \in BackRank(c) /\ rf \in BackRank(c) /\ (rf > kf <=> idx \in {0, 2}) BY DEF HomeRights
<1>3. /\ idx = 0 => c = white /\ kt = 62 /\ rt = 61
      /\ idx = 1 => c = white /\ kt = 58 /\ rt = 59
      /\ idx = 2 => c = black /\ kt = 6 /\ rt = 5
      /\ idx = 3 => c = black /\ kt = 2 /\ rt = 3
  BY DEF OfSide, castle_king_to, castle_rook_to, white, black
<1>4. idx = 0 \/ idx = 1 \/ idx = 2 \/ idx = 3 BY DEF Rights
<1> HIDE DEF c, kt, rt
<1>5. (c = white => kf \in 56..63 /\ rf \in 56..63) /\ (c = black => kf \in 0..7 /\ rf \in 0..7)
  BY <1>2 DEF BackRank, BackRow, white, black
<1>6. white # black BY DEF white, black
<1>7. /\ kf \in Squares /\ rf \in Squares /\ kt \in Squares /\ rt \in Squares
      /\ (rf > kf /\ kt = rt + 1) \/ (rf < kf /\ kt = rt - 1)
  BY <1>1, <1>2, <1>3, <1>4, <1>5 DEF Squares
<1>8. \A s \in 56..63 : s \div 8 = 7 OBVIOUS
<1>9. \A s \in 0..7 : s \div 8 = 0 OBVIOUS
<1>10. CASE c = white
  <2>1. kt \in 56..63 /\ rt \in 56..63 BY <1>3, <1>4, <1>6, <1>10
  <2>2. kt \div 8 = 7 /\ rt \div 8 = 7 /\ kf \div 8 = 7 /\ rf \div 8 = 7 BY <1>5, <1>8, <1>10, <2>1
  <2>3. Row(kf) \in {0, 7} /\ Row(kt) = Row(kf) /\ Row(rf) = Row(kf) /\ Row(rt) = Row(kf) BY <2>2 DEF Row
  <2>4. EdgeRow(kf, kt, rf, rt) BY <1>7, <2>3 DEF EdgeRow
  <2> QED BY <2>4 DEF kt, rt
<1>11. CASE c = black
  <2>1. kt \in 0..7 /\ rt \in 0..7 BY <1>3, <1>4, <1>6, <1>11
  <2>2. kt \div 8 = 0 /\ rt \div 8 = 0 /\ kf \div 8 = 0 /\ rf \div 8 = 0 BY <1>5, <1>9, <1>11, <2>1
  <2>3. Row(kf) \in {0, 7} /\ Row(kt) = Row(kf) /\ Row(rf) = Row(kf) /\ Row(rt) = Row(kf) BY <2>2 DEF Row
  <2>4. EdgeRow(kf, kt, rf, rt) BY <1>7, <2>3 DEF EdgeRow
  <2> QED BY <2>4 DEF kt, rt
<1> QED BY <1>1, <1>10, <1>11

\* A castling, the board after it, and the enemy king.
CastlingStep(b, m, new, k) ==
  /\ Ready(b) /\ IsLegal(b) /\ HomeSetup /\ FitFrom(b, m) /\ FitCastling(b, m) /\ Can(b, castle_index(m.to))
  /\ Castled(b.bb, new, m, CastleRook(m)) /\ k = KingSquare(b, 1 - b.side)

\* The squares the generator wants free are those the two cross.
LEMMA CrossedAreFree ==
  ASSUME NEW b, Ready(b), HomeSetup, NEW idx \in b.castle, OfSide(idx) = b.side, Can(b, idx),
         NEW kf, kf = castle_king_sq(b.side), NEW rf, rf = castle_rook_sq(idx), NEW u \in All(b),
         Amid(kf, castle_king_to(idx), u) \/ Amid(rf, castle_rook_to(idx), u)
  PROVE  u = kf \/ u = rf
<1> DEFINE kt == castle_king_to(idx)
           rt == castle_rook_to(idx)
           S == (Span(kf, kt) \cup Span(rf, rt)) \ {kf, rf}
<1>1. idx \in Rights /\ idx \in HomeRights(setup) BY DEF Ready, RightsSound
<1>2. kf = setup.king[OfSide(idx) + 1] /\ rf = setup.rook[idx + 1] BY DEF castle_king_sq, castle_rook_sq
<1>3. kf \in Squares /\ rf \in Squares BY <1>1, <1>2, RookGoes
<1>4. kt \in Squares /\ rt \in Squares BY <1>1, CastlingSquares
<1>5. \A x \in Squares, y \in Squares : Amid(x, y, u) => u \in Span(x, y)
  <2> SUFFICES ASSUME NEW x \in Squares, NEW y \in Squares, Amid(x, y, u) PROVE u \in Span(x, y) OBVIOUS
  <2>1. CASE x < y BY <2>1 DEF Span, Squares, Amid
  <2>2. CASE ~(x < y) BY <2>2 DEF Span, Squares, Amid
  <2> QED BY <2>1, <2>2
<1>6. u \in Span(kf, kt) \cup Span(rf, rt)
  <2> HIDE DEF kt, rt
  <2>1. Amid(kf, kt, u) \/ Amid(rf, rt, u) BY DEF kt, rt
  <2> QED BY <1>3, <1>4, <1>5, <2>1
<1>7. CASE g_chess960
  <2>1. c960_can_castle(b, idx) BY <1>7 DEF Can
  <2>2. (b.occ[white] \cup b.occ[black]) \cap S = {} BY <2>1 DEF c960_can_castle
  <2> HIDE DEF kt, rt
  <2> QED BY <1>6, <2>2 DEF All
<1>8. CASE ~g_chess960
  <2>1. CanCastle(b, idx) BY <1>8 DEF Can
  <2>2. kf = corners.king[OfSide(idx) + 1] /\ rf = corners.rook[idx + 1]
    BY <1>1, <1>2, <1>8, CornersAre, SideOfRight DEF HomeSetup
  <2>3. (b.occ[white] \cup b.occ[black]) \cap (Span(kf, rf) \ {kf, rf}) = {} BY <2>1, <2>2 DEF CanCastle
  <2>4. u \in S <=> u \in Span(kf, rf) \ {kf, rf} BY <1>1, <2>2, CornerSpans
  <2> HIDE DEF kt, rt
  <2> QED BY <1>6, <2>3, <2>4 DEF All
<1> QED BY <1>7, <1>8

\* What stands where before and after a castling.
LEMMA CastlingStepFacts ==
  ASSUME NEW b, NEW m, NEW new, NEW k, CastlingStep(b, m, new, k)
  PROVE  /\ BothMove(b, m, CastleRook(m)) /\ b.side \in {white, black} /\ 1 - b.side \in {white, black}
         /\ Swap(m.from, m.to, CastleRook(m).from, CastleRook(m).to, All(b), Full(new))
         /\ k \in Squares /\ k \in All(b) /\ k # m.from /\ k # CastleRook(m).from /\ k # m.to /\ k # CastleRook(m).to
         /\ k \in new[Piece(1 - b.side, King)]
         /\ ~Assails(b.bb, b.side, k, All(b))
         /\ m.from \in b.occ[b.side] /\ CastleRook(m).from \in b.bb[Piece(b.side, Rook)]
         /\ m.piece = Piece(b.side, King) /\ CastleRook(m).piece = Piece(b.side, Rook)
<1> DEFINE c == b.side
           r == CastleRook(m)
           idx == castle_index(m.to)
<1> USE DEF CastlingStep
<1>1. b.bb \in Boards /\ c \in {white, black} /\ 1 - c \in {white, black} /\ Disjoint(b.bb) BY DEF Ready, white, black
<1>2. BothMove(b, m, r) BY <1>1, CastlingFacts
<1>3. /\ OfSide(idx) = c /\ idx \in b.castle /\ m.to = castle_king_to(idx) /\ m.from = castle_king_sq(c)
      /\ r.from = castle_rook_sq(idx) /\ r.to = castle_rook_to(idx) /\ m.piece = Piece(c, King) /\ r.piece = Piece(c, Rook)
      /\ r.from \in b.bb[r.piece]
  BY DEF FitCastling, CastleRook
<1>4. idx \in Rights /\ idx \in HomeRights(setup) BY <1>3 DEF Ready, RightsSound
<1>5. m.from = setup.king[OfSide(idx) + 1] /\ r.from = setup.rook[idx + 1] BY <1>3 DEF castle_king_sq, castle_rook_sq
<1> HIDE DEF r
<1>6. /\ m.from # r.from /\ m.from \in Squares /\ m.to \in Squares /\ r.from \in Squares /\ r.to \in Squares
      /\ m.piece \in Pieces /\ r.piece \in Pieces /\ m.piece \in Men(c) /\ r.piece \in Men(c) /\ m.from \in b.bb[m.piece]
      /\ \A p \in Pieces : m.from \in b.bb[p] <=> p = m.piece
      /\ \A p \in Pieces : r.from \in b.bb[p] <=> p = r.piece
      /\ \A s \in {m.to, r.to} : s # m.from /\ s # r.from => Free(b.bb, s)
  BY <1>2 DEF BothMove
<1>7. EdgeRow(m.from, m.to, r.from, r.to)
  <2> HIDE DEF idx
  <2> QED BY <1>3, <1>4, <1>5, <1>6, RightsOnEdge
<1>8. All(b) = Full(b.bb) BY AllIsFull DEF Ready
<1>9. /\ \A s : s \in Full(new) <=> s = m.to \/ s = r.to \/ (s # m.from /\ s # r.from /\ s \in Full(b.bb))
      /\ \A p \in Men(1 - c) : new[p] = b.bb[p]
  BY <1>2, CastledAre DEF r
<1>10. m.from \in All(b) /\ r.from \in All(b) BY <1>6, <1>8 DEF Full, Free
<1>11. \A u \in All(b) : Amid(m.from, m.to, u) \/ Amid(r.from, r.to, u) => u = m.from \/ u = r.from
  <2>1. Ready(b) /\ HomeSetup /\ Can(b, idx) OBVIOUS
  <2> HIDE DEF idx
  <2> QED BY <1>3, <2>1, CrossedAreFree
<1>12. All(b) \subseteq Squares /\ Full(new) \subseteq Squares BY <1>8 DEF Full
<1>13. Swap(m.from, m.to, r.from, r.to, All(b), Full(new)) BY <1>7, <1>8, <1>9, <1>10, <1>11, <1>12 DEF Swap
<1>14. k \in b.bb[Piece(1 - c, King)] /\ k \in Squares /\ ~Assails(b.bb, c, k, All(b)) BY <1>1, LegalIs
<1>15. King \in 0..5 BY DEF King
<1>16. Piece(1 - c, King) \in Men(1 - c) /\ Piece(1 - c, King) \in Pieces BY <1>1, <1>15, PieceOf
<1>17. k \in All(b) BY <1>8, <1>14, <1>16 DEF Full, Free
<1>18. Piece(1 - c, King) # m.piece /\ Piece(1 - c, King) # r.piece BY <1>1, <1>6, <1>16, MenIs
<1>19. k # m.from /\ k # r.from BY <1>6, <1>14, <1>16, <1>18
<1>20. k # m.to /\ k # r.to BY <1>6, <1>14, <1>16, <1>19 DEF Free
<1>21. k \in new[Piece(1 - c, King)] BY <1>9, <1>14, <1>16
<1>22. m.from \in b.occ[c] BY <1>6, ReadyOccupied
<1> QED BY <1>1, <1>2, <1>3, <1>13, <1>14, <1>17, <1>19, <1>20, <1>21, <1>22 DEF r

\* The men of the side that castles.
LEMMA OwnCastled ==
  ASSUME NEW b, NEW m, NEW r, BothMove(b, m, r), b.side \in {white, black}, b.bb \in Boards, NEW new, Castled(b.bb, new, m, r),
         NEW p \in Men(b.side)
  PROVE  \A s : s \in new[p] <=> IF s = m.to THEN p = m.piece ELSE IF s = r.to THEN p = r.piece ELSE s # m.from /\ s # r.from /\ s \in b.bb[p]
<1>1. p \in Pieces BY MenIs
<1>2. new[p] \subseteq Squares /\ b.bb[p] \subseteq Squares BY <1>1 DEF Castled, Boards
<1>3. m.to \in Squares /\ r.to \in Squares BY DEF BothMove
<1>4. \A s \in Squares : s \in new[p] <=> IF s = m.to THEN p = m.piece ELSE IF s = r.to THEN p = r.piece ELSE s # m.from /\ s # r.from /\ s \in b.bb[p]
  BY <1>1 DEF Castled
<1> QED BY <1>2, <1>3, <1>4

\* Sliders and leapers of the side that castles.
LEMMA CastledUnits ==
  ASSUME NEW b, NEW m, NEW new, NEW k, CastlingStep(b, m, new, k), NEW r, r = CastleRook(m)
  PROVE  /\ \A l \in 1..4 : \A u \in Runs(new, b.side, l) : u = r.to \/ (u # m.from /\ u # r.from /\ u \in Runs(b.bb, b.side, l) /\ u \in All(b))
         /\ \A l \in 1..4 : l \in Rides(Rook) <=> r.to \in Runs(new, b.side, l)
         /\ \A l \in 1..4 : l \in Rides(Rook) => r.from \in Runs(b.bb, b.side, l)
         /\ \A u \in Leaps(new, b.side, k) : (u = m.to /\ u \in king_attacks[k]) \/ u \in Leaps(b.bb, b.side, k)
<1> DEFINE c == b.side
<1>1. /\ BothMove(b, m, r) /\ c \in {white, black} /\ r.from \in b.bb[Piece(c, Rook)] /\ m.piece = Piece(c, King) /\ r.piece = Piece(c, Rook)
  BY CastlingStepFacts
<1>2. Castled(b.bb, new, m, r) /\ b.bb \in Boards BY DEF CastlingStep, Ready
<1>3. \A t \in {Pawn, Knight, Bishop, Rook, Queen, King} : Piece(c, t) \in Men(c) /\ Piece(c, t) \in Pieces
  BY <1>1, PieceOf DEF Pawn, Knight, Bishop, Rook, Queen, King
<1>4. \A t \in {Pawn, Knight, Bishop, Rook, Queen} : Piece(c, t) # Piece(c, King)
  BY <1>1, PieceOf DEF Pawn, Knight, Bishop, Rook, Queen, King
<1>5. \A t \in {Pawn, Knight, Bishop, Queen, King} : Piece(c, t) # Piece(c, Rook)
  BY <1>1, PieceOf DEF Pawn, Knight, Bishop, Rook, Queen, King
<1>6. r.to # m.to BY <1>1 DEF BothMove
<1>7. All(b) = Full(b.bb) BY AllIsFull DEF Ready, CastlingStep
<1>8. \A t \in {Pawn, Knight, Bishop, Rook, Queen, King} : \A s :
        s \in new[Piece(c, t)] <=> IF s = m.to THEN t = King ELSE IF s = r.to THEN t = Rook ELSE s # m.from /\ s # r.from /\ s \in b.bb[Piece(c, t)]
  <2> SUFFICES ASSUME NEW t \in {Pawn, Knight, Bishop, Rook, Queen, King}, NEW s
               PROVE s \in new[Piece(c, t)] <=> IF s = m.to THEN t = King ELSE IF s = r.to THEN t = Rook ELSE s # m.from /\ s # r.from /\ s \in b.bb[Piece(c, t)]
    OBVIOUS
  <2>1. Piece(c, t) \in Men(c) BY <1>3
  <2>2. s \in new[Piece(c, t)] <=> IF s = m.to THEN Piece(c, t) = m.piece ELSE IF s = r.to THEN Piece(c, t) = r.piece
                                   ELSE s # m.from /\ s # r.from /\ s \in b.bb[Piece(c, t)]
    BY <1>1, <1>2, <2>1, OwnCastled
  <2>3. Piece(c, t) = m.piece <=> t = King BY <1>1, <1>4
  <2>4. Piece(c, t) = r.piece <=> t = Rook BY <1>1, <1>5
  <2> HIDE DEF c
  <2> QED BY <2>2, <2>3, <2>4
<1> HIDE DEF c
<1>9. \A t \in {Pawn, Knight, Bishop, Rook, Queen} : t # King BY DEF Pawn, Knight, Bishop, Rook, Queen, King
<1>10. ASSUME NEW l \in 1..4, NEW u \in Runs(new, c, l) PROVE u = r.to \/ (u # m.from /\ u # r.from /\ u \in Runs(b.bb, c, l) /\ u \in All(b))
  <2>1. PICK t \in {Bishop, Rook, Queen} : l \in Rides(t) /\ u \in new[Piece(c, t)] BY <1>10, RunsHold
  <2>2. u # m.to /\ (u = r.to \/ (u # m.from /\ u # r.from /\ u \in b.bb[Piece(c, t)])) BY <1>8, <1>9, <2>1
  <2>3. u \in b.bb[Piece(c, t)] => u \in Runs(b.bb, c, l) BY <2>1, RunsHold
  <2>4. u \in b.bb[Piece(c, t)] => u \in All(b)
    <3>1. Piece(c, t) \in Pieces BY <1>3
    <3>2. b.bb[Piece(c, t)] \subseteq Squares BY <1>2, <3>1 DEF Boards
    <3> QED BY <1>7, <3>1, <3>2 DEF Full, Free
  <2> QED BY <2>2, <2>3, <2>4
<1>11. ASSUME NEW l \in 1..4 PROVE l \in Rides(Rook) <=> r.to \in Runs(new, c, l)
  <2>1. \A t \in {Bishop, Rook, Queen} : r.to \in new[Piece(c, t)] <=> t = Rook BY <1>6, <1>8
  <2>2. r.to \in Runs(new, c, l) <=> \E t \in {Bishop, Rook, Queen} : l \in Rides(t) /\ r.to \in new[Piece(c, t)] BY RunsHold
  <2> QED BY <2>1, <2>2
<1>12. ASSUME NEW l \in 1..4, l \in Rides(Rook) PROVE r.from \in Runs(b.bb, c, l) BY <1>1, <1>12, RunsHold
<1>13. ASSUME NEW u \in Leaps(new, c, k) PROVE (u = m.to /\ u \in king_attacks[k]) \/ u \in Leaps(b.bb, c, k)
  <2>1. Pawn # Rook /\ Knight # Rook /\ King # Rook BY DEF Pawn, Knight, King, Rook
  <2>2. \A t \in {Pawn, Knight} : u \in new[Piece(c, t)] => u \in b.bb[Piece(c, t)] BY <1>8, <1>9, <2>1
  <2>3. u \in new[Piece(c, King)] => u = m.to \/ u \in b.bb[Piece(c, King)] BY <1>8, <2>1
  <2> QED BY <1>13, <2>2, <2>3 DEF Leaps
<1> QED BY <1>10, <1>11, <1>12, <1>13 DEF c

\* For a castling that leaves its king safe, the test is exact.
LEMMA CastlingChecks ==
  ASSUME NEW b, NEW m, NEW new, NEW k, CastlingStep(b, m, new, k), ~Assails(new, 1 - b.side, m.to, Full(new))
  PROVE  checks_before(b, m) <=> Assails(new, b.side, k, Full(new))
<1> DEFINE c == b.side
           r == CastleRook(m)
           A == All(b)
           N == Full(new)
           kf == m.from
           kt == m.to
           rf == r.from
           rt == r.to
<1>1. /\ c \in {white, black} /\ 1 - c \in {white, black} /\ Swap(kf, kt, rf, rt, A, N)
      /\ k \in Squares /\ k \in A /\ k # kf /\ k # rf /\ k # kt /\ k # rt /\ k \in new[Piece(1 - c, King)]
      /\ ~Assails(b.bb, c, k, A) /\ kf \in b.occ[c] /\ rf \in b.bb[Piece(c, Rook)] /\ m.piece = Piece(c, King)
  BY CastlingStepFacts
<1>2. /\ Ready(b) /\ k = KingSquare(b, 1 - c) /\ m.castling /\ m.promo = 0 /\ ~m.enpass
  BY DEF CastlingStep, FitCastling
<1>3. /\ \A l \in 1..4 : \A u \in Runs(new, c, l) : u = rt \/ (u # kf /\ u # rf /\ u \in Runs(b.bb, c, l) /\ u \in A)
      /\ \A l \in 1..4 : l \in Rides(Rook) <=> rt \in Runs(new, c, l)
      /\ \A l \in 1..4 : l \in Rides(Rook) => rf \in Runs(b.bb, c, l)
      /\ \A u \in Leaps(new, c, k) : (u = kt /\ u \in king_attacks[k]) \/ u \in Leaps(b.bb, c, k)
  BY CastledUnits
<1>4. Leaps(b.bb, c, k) = {} /\ \A l \in 1..4 : \A e \in Runs(b.bb, c, l) : ~Sees(l, k, e, A) BY <1>1 DEF Assails, Aims
<1>5. checks_before(b, m) <=> Uncovering(b, m, k) \/ RookLooks(b, m)
  <2>1. ~Direct(b, m) /\ ~Promotes(b, m, k) /\ ~Passes(b, m, k) BY <1>2 DEF Direct, Promotes, Passes
  <2> QED BY <1>2, <2>1, ChecksAre
<1>6. Uncovering(b, m, k) <=> Hides(b, k, kf)
  <2>1. kf \in Discoverers(b) <=> kf \in b.occ[c] /\ Hides(b, k, kf) BY <1>1, <1>2, DiscoverersAre
  <2> QED BY <1>1, <1>2, <2>1 DEF Uncovering
<1>7. RookLooks(b, m) <=> \E l \in Rides(Rook) : Sees(l, k, rt, A)
  <2>1. CheckSquares(b, Rook) = Attacks(Rook, k, A) BY <1>2 DEF CheckSquares, Rook, Pawn, King
  <2>2. rt \in Attacks(Rook, k, A) <=> \E l \in Rides(Rook) : Sees(l, k, rt, A) BY <1>1, AttacksSee
  <2> QED BY <1>2, <2>1, <2>2 DEF RookLooks
<1>8. Rides(Rook) = {2, 4} BY DEF Rides, Rook, Bishop
<1>9. Leaps(new, c, k) = {}
  <2> SUFFICES ASSUME NEW u \in Leaps(new, c, k) PROVE FALSE OBVIOUS
  <2>1. u = kt /\ kt \in king_attacks[k] BY <1>3, <1>4
  <2>2. kt \in Squares BY <1>1 DEF Swap, EdgeRow
  <2> HIDE DEF kt
  <2>3. k \in king_attacks[kt] BY <1>1, <2>1, <2>2, LeapersMeet
  <2>4. k \in Leaps(new, 1 - c, kt) BY <1>1, <2>3 DEF Leaps
  <2> QED BY <2>4 DEF Assails, kt
<1> HIDE DEF c, r, A, N, kf, kt, rf, rt
<1>10. Assails(new, c, k, N) <=> \E l \in 1..4 : \E e \in Runs(new, c, l) : Sees(l, k, e, N) BY <1>9 DEF Assails, Aims
<1>11. ASSUME NEW l \in 1..4, NEW e \in Runs(new, c, l), Sees(l, k, e, N) PROVE Uncovering(b, m, k) \/ RookLooks(b, m)
  <2>1. CASE e = rt
    <3>1. l \in Rides(Rook) BY <1>3, <1>11, <2>1
    <3>2. CASE Sees(l, k, rt, A) BY <1>7, <3>1, <3>2
    <3>3. CASE ~Sees(l, k, rt, A)
      <4>1. l = 4 /\ Pins(4, k, rf, kf, A) BY <1>1, <1>11, <2>1, <3>3, SeesAfter
      <4>2. rf \in Runs(b.bb, c, l) /\ rf \in Squares BY <1>1, <1>3, <3>1 DEF Swap, EdgeRow
      <4>3. Hides(b, k, kf) BY <4>1, <4>2 DEF Hides, c, A
      <4> QED BY <1>6, <4>3
    <3> QED BY <3>2, <3>3
  <2>2. CASE e # rt
    <3>1. e # kf /\ e # rf /\ e \in Runs(b.bb, c, l) /\ e \in A BY <1>3, <1>11, <2>2
    <3>2. Sees(l, k, e, A) BY <1>1, <1>11, <3>1, SwapHides
    <3> QED BY <1>4, <3>1, <3>2
  <2> QED BY <2>1, <2>2
<1>12. ASSUME RookLooks(b, m) PROVE \E l \in 1..4 : \E e \in Runs(new, c, l) : Sees(l, k, e, N)
  <2>1. PICK l \in Rides(Rook) : Sees(l, k, rt, A) BY <1>7, <1>12
  <2>2. l \in 1..4 /\ 4 \in 1..4 /\ 4 \in Rides(Rook) BY <1>8
  <2>3. ~Sees(4, k, rf, A) BY <1>3, <1>4, <2>2
  <2>4. Sees(l, k, rt, N) BY <1>1, <2>1, <2>2, <2>3, SeesBefore
  <2> QED BY <1>3, <2>2, <2>4
<1>13. ASSUME Uncovering(b, m, k) PROVE \E l \in 1..4 : \E e \in Runs(new, c, l) : Sees(l, k, e, N)
  <2>1. PICK l \in 1..4 : \E e \in Runs(b.bb, c, l) : e \in Squares /\ Pins(l, k, e, kf, A) BY <1>6, <1>13 DEF Hides, c, A
  <2>2. PICK e \in Runs(b.bb, c, l) : e \in Squares /\ Pins(l, k, e, kf, A) BY <2>1
  <2>3. e \in A
    <3>1. PICK q \in {Bishop, Rook, Queen} : l \in Rides(q) /\ e \in b.bb[Piece(c, q)] BY <2>2, RunsHold
    <3>2. q \in 0..5 BY DEF Bishop, Rook, Queen
    <3>3. Piece(c, q) \in Pieces BY <1>1, <3>2, PieceOf
    <3>4. A = Full(b.bb) BY <1>2, AllIsFull DEF Ready, A
    <3> QED BY <2>2, <3>1, <3>3, <3>4 DEF Full, Free
  <2>4. Sees(4, k, rt, N) BY <1>1, <2>2, <2>3, KingUncovers
  <2>5. 4 \in 1..4 /\ 4 \in Rides(Rook) BY <1>8
  <2> QED BY <1>3, <2>4, <2>5
<1>14. checks_before(b, m) <=> Assails(new, c, k, N) BY <1>5, <1>10, <1>11, <1>12, <1>13
<1> QED BY <1>14 DEF c, N

\* The board after a legal move, and its test, agree on the enemy king.
LEMMA TestIsExact ==
  ASSUME NEW b, Ready(b), IsLegal(b), HomeSetup, NEW m, FitFrom(b, m), Goes(b, m), Proper(b, m), NEW new, Turns(b, m, new), Saved(b, new),
         NEW k, k = KingSquare(b, 1 - b.side)
  PROVE  k \in new[Piece(1 - b.side, King)] /\ (checks_before(b, m) <=> Assails(new, b.side, k, Full(new)))
<1>1. CASE FitPlain(b, m) /\ \E v, vs : Taking(b, m, v, vs) /\ Shifted(b.bb, new, m, vs)
  <2>1. PICK v, vs : Taking(b, m, v, vs) /\ Shifted(b.bb, new, m, vs) BY <1>1
  <2>2. PlainStep(b, m, v, vs, new, k) BY <1>1, <2>1 DEF PlainStep
  <2> QED BY <2>2, WaitingKingStays, PlainChecks
<1>2. CASE FitCastling(b, m) /\ Castled(b.bb, new, m, CastleRook(m))
  <2>1. Can(b, castle_index(m.to)) BY <1>2 DEF Proper, FitCastling
  <2>2. CastlingStep(b, m, new, k) BY <1>2, <2>1 DEF CastlingStep
  <2>3. /\ k \in new[Piece(1 - b.side, King)] /\ m.piece = Piece(b.side, King) /\ BothMove(b, m, CastleRook(m)) /\ b.side \in {white, black}
    BY <2>2, CastlingStepFacts
  <2>4. m.to \in new[Piece(b.side, King)]
    <3>1. Piece(b.side, King) \in Pieces BY <2>3, PieceOf DEF King
    <3> QED BY <1>2, <2>3, <3>1 DEF Castled, BothMove
  <2>5. ~Assails(new, 1 - b.side, m.to, Full(new)) BY <2>4, SavedKing
  <2> QED BY <2>2, <2>3, <2>5, CastlingChecks
<1> QED BY <1>1, <1>2 DEF Turns

\* The test for check before a legal move is made says what the board says once it is made.
ChecksAgree(b, m) == checks_before(b, m) <=> InCheck(td_make_move(b, m, FALSE).td)
LEMMA ChecksTold ==
  ASSUME NEW b, ThreadOK(b, setup), HomeSetup, IsLegal(b), NEW m \in generate_moves(b), Spared(b, m)
  PROVE  ChecksAgree(b, m)
<1> DEFINE c == b.side
           new == Tried(b, m)
           k == KingSquare(b, 1 - c)
<1>1. PICK r : r = td_make_move(b, m, FALSE) OBVIOUS
<1>2. Ready(b) /\ c \in {white, black} /\ 1 - c \in {white, black} /\ 1 - (1 - c) = c BY ThreadIsReady DEF Ready, white, black
<1>3. Fit(b, m) /\ FitFrom(b, m) /\ Goes(b, m) /\ Proper(b, m) BY <1>2, GeneratedFit, GeneratedGoes, GeneratedIsProper DEF Fit
<1>4. r.td.bb = new /\ r.td.side = 1 - c /\ \A x \in {white, black} : r.td.occ[x] = Occupied(r.td.bb, x)
  BY <1>1, <1>3, TryTells
<1>5. Turns(b, m, new) /\ Saved(b, new) BY <1>3, SparedIs
<1> HIDE DEF new, c
<1>6. new \in Boards /\ Disjoint(new) /\ OneKingEach(new) BY <1>2, <1>3, <1>5, TurnedApart, MenStay
<1>7. k \in new[Piece(1 - c, King)] /\ (checks_before(b, m) <=> Assails(new, c, k, Full(new)))
  BY <1>2, <1>3, <1>5, TestIsExact DEF c
<1> HIDE DEF k
<1>8. KingSquare(r.td, 1 - c) = k
  <2>1. r.td.bb \in Boards BY <1>4, <1>6
  <2>2. Cardinality(r.td.bb[Piece(1 - c, King)]) = 1 BY <1>2, <1>4, <1>6 DEF OneKingEach
  <2>3. \A x \in r.td.bb[Piece(1 - c, King)] : x = KingSquare(r.td, 1 - c) BY <1>2, <2>1, <2>2, KingSquareIs
  <2> QED BY <1>4, <1>7, <2>3
<1>9. k \in Squares
  <2>1. Piece(1 - c, King) \in Pieces BY <1>2, PieceOf DEF King
  <2> QED BY <1>6, <1>7, <2>1 DEF Boards
<1>10. All(r.td) = Full(new)
  <2>1. All(r.td) = Full(r.td.bb) BY <1>4, <1>6, AllIsFull
  <2> QED BY <1>4, <2>1
<1>11. InCheck(r.td) <=> Assails(new, c, k, Full(new))
  <2>1. InCheck(r.td) <=> is_square_attacked(r.td, k, c) BY <1>2, <1>4, <1>8 DEF InCheck
  <2> QED BY <1>4, <1>9, <1>10, <2>1, AttackedIs
<1> QED BY <1>1, <1>7, <1>11 DEF ChecksAgree

\* What ExactMoves asks of a board and its list, read off the makes.
LEMMA BoardIsExact ==
  ASSUME NEW b, ThreadOK(b, setup), HomeSetup, Safe(b), NEW list, list = generate_moves(b), NEW tried,
         \A m \in list : tried[m] = td_make_move(b, m, FALSE)
  PROVE  ExactMoves(b, list, list, tried, {m \in list : make_move(b, m).legal}, InCheck(b))
<1> DEFINE game == {m \in list : make_move(b, m).legal}
<1>1. Ready(b) /\ IsLegal(b) BY ThreadIsReady DEF Safe
<1>2. All(b) \subseteq Squares BY <1>1, AllIsFull DEF Ready, Full
<1>3. \A s \in All(b) : pair_od(s, All(b)) = pair_tables(s, All(b)) /\ pair_hqs(s, All(b)) = pair_tables(s, All(b))
  BY <1>2, KernelsAgree
<1>4. {RuleMove(m) : m \in game} = Rules!LegalMoves(PosOf(b)) BY <1>1, ThreadGives DEF GivesMoves
<1>5. {m \in Answering(b, list) : tried[m].made} = game
  <2>1. {m \in Answering(b, list) : td_make_move(b, m, FALSE).made} = game BY <1>1, AnswersAreAll DEF EvasionsSuffice
  <2>2. Answering(b, list) \subseteq list BY DEF Answering
  <2> HIDE DEF game
  <2> QED BY <2>1, <2>2
<1>6. ~g_chess960 => UNION {generate_legal_tv(b, stage) : stage \in {"tactics", "quiets"}} = game BY StagesAre DEF StagesGive
<1>7. {m \in list : IF InCheck(b) \/ (g_chess960 /\ m.castling) THEN tried[m].made ELSE legal_before(b, m)} = game
  <2>1. {m \in list : IF InCheck(b) \/ (g_chess960 /\ m.castling) THEN td_make_move(b, m, FALSE).made ELSE legal_before(b, m)} = game
    BY <1>1, TestsAreExact DEF PassTests
  <2> HIDE DEF game
  <2> QED BY <2>1
<1>8. \A m \in game : ReadAs(list, print_move(m)) = {m} /\ (checks_before(b, m) <=> InCheck(tried[m].td))
  <2> SUFFICES ASSUME NEW m \in list, make_move(b, m).legal
               PROVE  ReadAs(list, print_move(m)) = {m} /\ (checks_before(b, m) <=> InCheck(tried[m].td))
    OBVIOUS
  <2>1. ReadAs(list, print_move(m)) = {m} BY <1>1, TextsTell DEF TextNames
  <2>2. Spared(b, m) BY <1>1, MakeTells
  <2>3. checks_before(b, m) <=> InCheck(td_make_move(b, m, FALSE).td) BY <1>1, <2>2, ChecksTold DEF ChecksAgree
  <2> QED BY <2>1, <2>3
<1> HIDE DEF game
<1>9. ExactMoves(b, list, list, tried, game, InCheck(b)) BY <1>3, <1>4, <1>5, <1>6, <1>7, <1>8 DEF ExactMoves
<1> QED BY <1>9 DEF game

\* The boards of the line from the root are sound.
LEMMA LineIsSound == ASSUME GameInv PROVE \A i \in DOMAIN before : ThreadOK(before[i], setup)
<1>1. CASE searching
  <2>1. Chain(td, frames, before, setup) BY <1>1 DEF GameInv
  <2>2. DOMAIN before = 1..Len(before) BY <2>1 DEF Chain, IsSequence
  <2> QED BY <2>1, <2>2 DEF Chain
<1>2. CASE ~searching
  <2>1. before = <<>> BY <1>2 DEF GameInv
  <2>2. DOMAIN <<>> = {} OBVIOUS
  <2> QED BY <2>1, <2>2
<1> QED BY <1>1, <1>2

\* The thread's board, or its copy, is safe.
LEMMA HereIsSafe == ASSUME GameInv, LegalInv PROVE ThreadOK(Here, setup) /\ Safe(Here) /\ HomeSetup
<1>1. ThreadOK(Here, setup) /\ HomeSetup BY HereIsThread
<1>2. CASE searching BY <1>1, <1>2 DEF LegalInv, Here
<1>3. CASE ~searching
  <2> DEFINE t == copy_board_to_thread(g, repetition_table)
  <2>1. t.bb = g.bb /\ t.occ = g.occ /\ t.side = g.side /\ t.ep = g.ep BY DEF copy_board_to_thread
  <2> HIDE DEF t
  <2>2. Safe(t) BY <2>1, SafeAlike DEF LegalInv
  <2> QED BY <1>1, <1>3, <2>2 DEF Here, t
<1> QED BY <1>1, <1>2, <1>3

\* Every way to a move of the search and of the game (the pseudo-legal lists filtered by their make, the legal generator by
\* stages, the validation of moves of other positions, the test before a make, the text of a move) gives the legal moves of
\* the rules and no other, whatever kernel computes the attacks, and what a move is said to check it checks.
THEOREM Exactness == Spec => []MovesAreExact
<1>1. GameInv /\ LegalInv => MovesAreExact
  <2> SUFFICES ASSUME GameInv, LegalInv PROVE MovesAreExact OBVIOUS
  <2> DEFINE b == Here
             list == generate_moves(b)
             valid == {m \in list \cup Foreign : td_is_pseudo_legal(b, m)}
             tried == [m \in list \cup valid |-> td_make_move(b, m, FALSE)]
             game == {m \in list : make_move(b, m).legal}
  <2>1. ThreadOK(b, setup) /\ Safe(b) /\ HomeSetup BY HereIsSafe
  <2>2. \A m \in Foreign : OneWay(m) BY <2>1, LineIsSound, ForeignIsOneWay
  <2>3. Ready(b) BY <2>1, ThreadIsReady
  <2> HIDE DEF b
  <2>4. valid = list BY <2>1, <2>2, <2>3, ValidAre DEF ValidIn
  <2>5. \A m \in list : tried[m] = td_make_move(b, m, FALSE) OBVIOUS
  <2> HIDE DEF tried, valid
  <2>6. ExactMoves(b, list, list, tried, game, InCheck(b)) BY <2>1, <2>5, BoardIsExact
  <2> HIDE DEF list, game
  <2>7. ExactMoves(b, list, valid, tried, game, InCheck(b)) BY <2>4, <2>6
  <2>8. ExactAt(b, list) BY <2>7 DEF ExactAt, ExactFor, tried, valid, game
  <2> QED BY <2>8 DEF MovesAreExact, b, list
<1> QED BY <1>1, Invariant, PTL

\* What a move made records: the key of the board it leaves, one ply more, one ply more since the last null move.
Records(b, t) == t.rep = Append(b.rep, b.key) /\ t.ply = b.ply + 1

\* A move made records so.
LEMMA StepRecords ==
  ASSUME NEW b, ThreadOK(b, setup), NEW m, NEW listed, NEW r, r = step_in(b, m, listed), r.made
  PROVE  Records(b, r.td) /\ r.td.plies_from_null = b.plies_from_null + 1
<1> DEFINE p == Pushed(b)
           undo == UndoOf(p, m)
           new == MovedBoards(p, m, undo)
           made == MadeMove(p, m, undo, new)
           known == (listed \/ ~InCheck(b)) /\ ~(g_chess960 /\ m.castling)
           legal == known \/ ~LeavesKing(made)
<1>1. p \in ThreadBoards /\ b \in ThreadBoards BY PushedIs DEF ThreadOK
<1>2. r = Stepped([made |-> legal, undo |-> undo,
                   td |-> IF legal THEN [made EXCEPT !.plies_from_null = made.plies_from_null + 1] ELSE PutBack(made, m, undo)])
  BY DEF step_in, td_make_move, MakeWith, Tested, Verdict
<1>3. p.rep = Append(b.rep, b.key) /\ p.ply = b.ply + 1 /\ p.plies_from_null = b.plies_from_null
  BY <1>1 DEF Pushed, ThreadBoards
<1> HIDE DEF p, undo, new, legal
<1>4. made.rep = p.rep /\ made.ply = p.ply /\ made.plies_from_null = p.plies_from_null /\ DOMAIN made = DOMAIN p
  BY <1>1 DEF MadeMove, MadeBoard, ThreadBoards
<1> HIDE DEF made
<1>5. r.made = legal /\ (legal => r.td = [made EXCEPT !.plies_from_null = made.plies_from_null + 1]) BY <1>2 DEF Stepped
<1>6. "plies_from_null" \in DOMAIN made /\ "rep" \in DOMAIN made /\ "ply" \in DOMAIN made BY <1>1, <1>4 DEF ThreadBoards
<1>7. legal => r.td.rep = made.rep /\ r.td.ply = made.ply /\ r.td.plies_from_null = made.plies_from_null + 1 BY <1>5, <1>6
<1> QED BY <1>3, <1>4, <1>5, <1>7 DEF Records

\* The same of a null move, which starts the count anew.
LEMMA NullRecords ==
  ASSUME NEW b, NEW su, ThreadOK(b, su)
  PROVE  Records(b, step_in_null(b)) /\ step_in_null(b).plies_from_null = 0
<1> DEFINE p == Pushed(b)
           x == step_in_null(b)
<1>1. p \in ThreadBoards /\ b \in ThreadBoards BY PushedIs DEF ThreadOK
<1>2. p.rep = Append(b.rep, b.key) /\ p.ply = b.ply + 1 BY <1>1 DEF Pushed, ThreadBoards
<1>3. x = [p EXCEPT !.key = Xor(Xor(p.key, EnpassantKey(b.ep)), side_key), !.ep = no_sq, !.side = 1 - p.side,
                    !.plies_from_null = 0]
  BY DEF step_in_null
<1> HIDE DEF p, x
<1>4. x.rep = p.rep /\ x.ply = p.ply /\ x.plies_from_null = 0 BY <1>1, <1>3 DEF ThreadBoards
<1> QED BY <1>2, <1>4 DEF Records, x

\* Whatever is tried is a pseudo-legal move of the position.
LEMMA TriedIsGenerated ==
  ASSUME GameInv, LegalInv, searching, NEW m \in td_generate_moves(td) \cup Foreign, NEW listed,
         listed => m \in td_generate_moves(td), MayTry(m, listed)
  PROVE  m \in generate_moves(td)
<1>1. ThreadOK(td, setup) /\ Safe(td) /\ HomeSetup BY DEF GameInv, Chain, LegalInv
<1>2. Ready(td) BY <1>1, ThreadIsReady
<1>3. CASE m \in td_generate_moves(td)
  <2>1. CASE g_chess960 BY <1>3, <2>1 DEF td_generate_moves, td_generate_moves_side, Answering
  <2>2. CASE ~g_chess960
    <3>1. m \in generate_legal_tv(td, "all") BY <1>3, <2>2 DEF td_generate_moves
    <3> QED BY <1>1, <2>2, <3>1, ListedIsGenerated
  <2> QED BY <2>1, <2>2
<1>4. CASE m \notin td_generate_moves(td)
  <2>1. td_is_pseudo_legal(td, m) BY <1>4 DEF MayTry
  <2>2. OneWay(m) BY <1>1, <1>4, LineIsSound, ForeignIsOneWay
  <2> QED BY <1>1, <1>2, <2>1, <2>2, ValidIsGenerated
<1> QED BY <1>3, <1>4

\* A move that leads to the position of the rules advances.
LEMMA MoveLeads ==
  ASSUME NEW b, ThreadOK(b, setup), IsLegal(b), HomeSetup, NEW m \in generate_moves(b),
         NEW next, FollowsRules(b, m, next, setup), Scene(PositionOf(next, setup))
  PROVE  Advances(PositionOf(b, setup), PositionOf(next, setup))
<1> DEFINE p == PositionOf(b, setup)
           q == RuleMoveIn(m, setup)
           r == PositionOf(next, setup)
<1>1. Scene(p) BY ThreadScene
<1>2. Ready(b) BY ThreadIsReady
<1>3. Cardinality(b.bb[Piece(b.side, King)]) = 1 BY <1>2 DEF IsLegal, Ready
<1>4. q \in Rules!Candidates(p) BY <1>2, <1>3, GeneratedAre
<1>5. r = Rules!After(p, q) BY DEF FollowsRules
<1> HIDE DEF p, q, r
<1> QED BY <1>1, <1>4, <1>5, MoveAdvances DEF p, q, r

(***************************************************************************)
(* The invariant of the repetitions: the boards of the line have recorded  *)
(* the game and the line.                                                  *)
(***************************************************************************)
Seen == Append(before, Here)
Root == copy_board_to_thread(g, repetition_table)
RepInv ==
  /\ opening \in Openings /\ Len(played) <= opening.plies
  /\ Followed(played, frames, Seen, setup)
  /\ Seen[1] = Root
HereSound == ThreadOK(Here, setup) /\ IsLegal(Here) /\ HomeSetup

\* What the root's board is.
LEMMA RootIs ==
  /\ Root.ply = 0 /\ Root.plies_from_null = 1024 /\ Root.rep = repetition_table /\ Root.key = g.key
  /\ PositionOf(Root, setup) = PositionOf(g, setup)
BY DEF Root, copy_board_to_thread, PositionOf

\* At the start nothing has been played.
LEMMA InitRecorded == ASSUME Init, GameInv, LegalInv, NEW n, \A o \in Openings : o.plies \in 0..n PROVE RepInv
<1>1. opening \in Openings /\ repetition_table = <<>> /\ played = <<>> /\ frames = <<>> /\ before = <<>> /\ ~searching BY DEF Init
<1>2. Here = Root /\ Seen = <<Root>> BY <1>1 DEF Here, Root, Seen
<1>3. Scene(PositionOf(Root, setup))
  <2>1. ThreadOK(Here, setup) /\ IsLegal(Here) BY HereIsThread
  <2>2. Scene(PositionOf(Here, setup)) BY <2>1, ThreadScene
  <2> QED BY <1>2, <2>2
<1>4. Root.ply = 0 /\ Root.plies_from_null = 1024 /\ Root.rep = <<>> BY <1>1, RootIs
<1>5. Followed(<<>>, <<>>, <<Root>>, setup) BY <1>3, <1>4, FollowedStart
<1>6. Followed(played, frames, Seen, setup) BY <1>1, <1>2, <1>5
<1>7. Seen[1] = Root BY <1>2
<1>8. Len(played) <= opening.plies
  <2>1. Len(played) = 0 BY <1>1
  <2> QED BY <1>1, <2>1
<1> QED BY <1>1, <1>6, <1>7, <1>8 DEF RepInv

\* Steps that leave the game and the line alone.
LEMMA SameRecorded ==
  ASSUME RepInv, UNCHANGED <<opening, played, frames, before, g, repetition_table, setup>>, Here' = Here
  PROVE  RepInv'
<1>1. Seen' = Seen /\ Root' = Root BY DEF Seen, Root, copy_board_to_thread
<1> QED BY <1>1 DEF RepInv

\* A move of the game.
LEMMA PlayRecorded ==
  ASSUME GameInv, LegalInv, RepInv, HereSound', PlayAny, NEW n \in Nat, \A o \in Openings : o.plies \in 0..n
  PROVE  RepInv'
<1> DEFINE p == PosOf(g)
<1>1. ~searching /\ Len(played) < opening.plies BY DEF PlayAny
<1>2. /\ repetition_table' = Append(repetition_table, g.key) /\ played' = Append(played, p)
      /\ UNCHANGED <<opening, setup, searching, frames, before>>
  <2>1. PICK text : \E k \in parse_move(g, text) : Play(make_move(g, k)) BY DEF PlayAny
  <2>2. \E r : Play(r) BY <2>1
  <2> QED BY <2>2 DEF Play
<1>3. frames = <<>> /\ before = <<>> BY <1>1 DEF GameInv
<1>4. Here = Root /\ Seen = <<Root>> /\ Here' = Root' /\ Seen' = <<Root'>> BY <1>1, <1>2, <1>3 DEF Here, Root, Seen
<1>5. p = PositionOf(g, setup) BY NamedAlike
<1>6. PositionOf(Root, setup) = p BY <1>5, RootIs
<1>7. PosOf(g)' = PositionOf(Root', setup)
  <2>1. Root'.bb = g'.bb /\ Root'.side = g'.side /\ Root'.ep = g'.ep /\ Root'.castle = g'.castle /\ Root'.fifty = g'.fifty
    BY DEF Root, copy_board_to_thread
  <2> QED BY <1>2, <2>1 DEF PosOf, PositionOf, RookSquares, castle_rook_sq
<1>8. ThreadOK(Root, setup) /\ IsLegal(Root) BY <1>4, HereIsThread
<1>9. Scene(p) /\ Stamps(Root.key, p, setup) BY <1>6, <1>8, ThreadScene
<1>10. Scene(PositionOf(Root', setup))
  <2>1. ThreadOK(Root', setup) /\ IsLegal(Root') BY <1>2, <1>4 DEF HereSound
  <2> QED BY <2>1, ThreadScene
<1>11. Advances(p, PositionOf(Root', setup))
  <2>1. PICK q \in Rules!LegalMoves(p) : PosOf(g)' = Rules!After(p, q) BY PlayIsLawful
  <2>2. q \in Rules!Candidates(p) BY <2>1 DEF Rules!LegalMoves
  <2>3. PositionOf(Root', setup) = Rules!After(p, q) BY <1>7, <2>1
  <2> HIDE DEF p
  <2> QED BY <1>9, <1>10, <2>2, <2>3, MoveAdvances
<1> DEFINE b == Root
           t == Root'
           u == [Root' EXCEPT !.ply = 1, !.plies_from_null = 1025]
           f == [null |-> FALSE]
<1>12. b.ply = 0 /\ b.plies_from_null = 1024 /\ b.rep = repetition_table /\ b.key = g.key BY RootIs
<1>13. t.ply = 0 /\ t.plies_from_null = 1024 /\ t.rep = repetition_table' BY DEF Root, copy_board_to_thread
<1>14. u.ply = 1 /\ u.plies_from_null = 1025 /\ u.rep = t.rep /\ PositionOf(u, setup) = PositionOf(t, setup)
  BY DEF Root, copy_board_to_thread, PositionOf
<1>15. ~f.null OBVIOUS
<1>16. b.key \in Keys BY <1>8 DEF ThreadOK, ThreadBoards
<1>17. Followed(played, <<>>, <<b>>, setup) BY <1>3, <1>4 DEF RepInv
<1>18. PositionOf(b, setup) = p BY <1>6
<1> HIDE DEF b, t, u, f, p
<1>19. t.rep = Append(b.rep, b.key) BY <1>2, <1>12, <1>13
<1>20. Follows(b, f, u, setup)
  <2>1. Scene(PositionOf(u, setup)) /\ Advances(PositionOf(b, setup), PositionOf(u, setup)) BY <1>10, <1>11, <1>14, <1>18 DEF t
  <2>2. Stamps(b.key, PositionOf(b, setup), setup) BY <1>9, <1>18 DEF b
  <2>3. u.ply = b.ply + 1 /\ u.plies_from_null = b.plies_from_null + 1 /\ u.rep = Append(b.rep, b.key) BY <1>12, <1>14, <1>19
  <2> QED BY <1>15, <1>16, <2>1, <2>2, <2>3 DEF Follows
<1>21. Followed(Append(played, p), <<>>, <<t>>, setup) BY <1>13, <1>14, <1>15, <1>17, <1>18, <1>20, FollowedPlay
<1>22. Followed(played', frames', Seen', setup') BY <1>2, <1>3, <1>4, <1>21 DEF t
<1>23. Seen'[1] = Root' BY <1>4
<1>24. opening' \in Openings /\ Len(played') <= opening'.plies
  <2>1. IsSequence(played) BY DEF RepInv, Followed
  <2>2. Len(played) \in Nat /\ Len(played') = Len(played) + 1 BY <1>2, <2>1, AppendIs
  <2>3. opening \in Openings /\ opening.plies \in Int BY DEF RepInv
  <2> QED BY <1>1, <1>2, <2>2, <2>3
<1> QED BY <1>22, <1>23, <1>24 DEF RepInv

\* The sequences of a step down and back.
LEMMA LongerSequences ==
  ASSUME NEW s, IsSequence(s), NEW e, NEW h
  PROVE  Append(Append(s, e), h)[1] = Append(s, e)[1] /\ Front(Append(s, e)) = s
<1>1. IsSequence(Append(s, e)) /\ Len(s) \in Nat /\ Len(Append(s, e)) = Len(s) + 1 BY AppendIs
<1>2. Append(Append(s, e), h)[1] = Append(s, e)[1]
  <2>1. PICK t : t = Append(s, e) OBVIOUS
  <2>2. IsSequence(t) /\ 1 \in 1..Len(t) BY <1>1, <2>1
  <2>3. Append(t, h)[1] = t[1] BY <2>2, AppendIs
  <2> QED BY <2>1, <2>3
<1>3. Front(Append(s, e)) = s
  <2> DEFINE S == {s[i] : i \in DOMAIN s} \cup {e}
  <2>1. s \in Seq(S) /\ e \in S
    <3>1. s \in Seq({s[i] : i \in DOMAIN s}) BY DEF IsSequence
    <3>2. \A A, B : A \subseteq B => Seq(A) \subseteq Seq(B) OBVIOUS
    <3> QED BY <3>1, <3>2
  <2> HIDE DEF S
  <2> QED BY <2>1, FrontOfAppend DEF Front
<1> QED BY <1>2, <1>3

\* Its last element put back.
LEMMA BackAgain ==
  ASSUME NEW s, IsSequence(s), s # <<>>
  PROVE  Append(Front(s), Final(s)) = s
<1>1. IsSequence(Front(s)) /\ Len(s) \in Nat /\ Len(s) > 0 /\ Len(Front(s)) = Len(s) - 1 /\ \A i \in 1..(Len(s) - 1) : Front(s)[i] = s[i]
  BY FrontIs
<1>2. PICK t : t = Front(s) OBVIOUS
<1>3. PICK u : u = Append(t, Final(s)) OBVIOUS
<1>4. IsSequence(t) /\ Len(t) = Len(s) - 1 BY <1>1, <1>2
<1>5. IsSequence(u) /\ Len(u) = Len(s) /\ u[Len(s)] = Final(s) /\ \A i \in 1..(Len(s) - 1) : u[i] = s[i]
  <2>1. IsSequence(u) /\ Len(u) = Len(t) + 1 /\ u[Len(t) + 1] = Final(s) /\ \A i \in 1..Len(t) : u[i] = t[i] BY <1>3, <1>4, AppendIs
  <2>2. Len(t) + 1 = Len(s) BY <1>1, <1>4
  <2> QED BY <1>1, <1>2, <1>4, <2>1, <2>2
<1>6. \A i \in 1..Len(s) : u[i] = s[i]
  <2>1. \A i \in 1..Len(s) : i = Len(s) \/ i \in 1..(Len(s) - 1) BY <1>1
  <2> QED BY <1>5, <2>1 DEF Final
<1>7. u = s
  <2>1. PICK S : s \in Seq(S) BY DEF IsSequence
  <2>2. PICK T : u \in Seq(T) BY <1>5 DEF IsSequence
  <2> QED BY <1>5, <1>6, <2>1, <2>2
<1> QED BY <1>2, <1>3, <1>7

\* A step down.
LEMMA DownRecorded ==
  ASSUME GameInv, LegalInv, RepInv, HereSound', searching, NEW f, NEW t, Down(f, t), Records(td, t),
         IF f.null THEN t.plies_from_null = 0
         ELSE t.plies_from_null = td.plies_from_null + 1 /\ Advances(PositionOf(td, setup), PositionOf(t, setup))
  PROVE  RepInv'
<1>1. /\ frames' = Append(frames, f) /\ before' = Append(before, td) /\ td' = t
      /\ UNCHANGED <<opening, g, repetition_table, setup, played, searching>>
  BY DEF Down, game_vars
<1>2. IsSequence(before) BY DEF GameInv, Chain
<1>3. Here = td /\ Seen = Append(before, td) /\ Here' = t /\ Seen' = Append(Seen, t) BY <1>1 DEF Here, Seen
<1>4. Seen'[1] = Root'
  <2>1. Append(Append(before, td), t)[1] = Append(before, td)[1] BY <1>2, LongerSequences
  <2>2. Root' = Root BY <1>1 DEF Root, copy_board_to_thread
  <2> QED BY <1>3, <2>1, <2>2 DEF RepInv
<1>5. td = Seen[Len(Seen)]
  <2>1. Len(Append(before, td)) = Len(before) + 1 /\ Append(before, td)[Len(before) + 1] = td BY <1>2, AppendIs
  <2> QED BY <1>3, <2>1
<1>6. ThreadOK(td, setup) /\ IsLegal(td) BY <1>3, HereIsThread
<1>7. Scene(PositionOf(t, setup))
  <2>1. ThreadOK(t, setup) /\ IsLegal(t) BY <1>1, <1>3 DEF HereSound
  <2> QED BY <2>1, ThreadScene
<1>8. Follows(td, f, t, setup)
  <2>1. Stamps(td.key, PositionOf(td, setup), setup) BY <1>6, ThreadScene
  <2>2. td.key \in Keys BY <1>6 DEF ThreadOK, ThreadBoards
  <2> QED BY <1>7, <2>1, <2>2 DEF Follows, Records
<1>9. Followed(played, Append(frames, f), Append(Seen, t), setup) BY <1>5, <1>8, FollowedDown DEF RepInv
<1>10. Followed(played', frames', Seen', setup') BY <1>1, <1>3, <1>9
<1> QED BY <1>1, <1>4, <1>10 DEF RepInv

\* A step back.
LEMMA BackRecorded ==
  ASSUME GameInv, RepInv, searching, frames # <<>>, StepOut \/ StepOutNull
  PROVE  RepInv'
<1>1. /\ frames' = Front(frames) /\ before' = Front(before) /\ UNCHANGED <<opening, g, repetition_table, setup, played, searching>>
  BY DEF StepOut, StepOutNull, Back, game_vars
<1>2. IsSequence(frames) /\ IsSequence(before) /\ Len(before) = Len(frames) BY DEF GameInv, Chain
<1>3. Len(frames) \in Nat /\ Len(frames) > 0 /\ Len(Front(frames)) = Len(frames) - 1 BY <1>2, FrontIs
<1>4. td' = Final(before) BY <1>1, <1>3, OutKeeps DEF Restored
<1>5. before # <<>>
  <2>1. Len(<<>>) = 0 OBVIOUS
  <2> QED BY <1>2, <1>3, <2>1
<1>6. Seen' = before
  <2>1. Seen' = Append(Front(before), Final(before)) BY <1>1, <1>4 DEF Seen, Here
  <2> QED BY <1>2, <1>5, <2>1, BackAgain
<1>7. Front(Seen) = before BY <1>2, LongerSequences DEF Seen
<1>8. Followed(played, Front(frames), Front(Seen), setup) BY FollowedUp DEF RepInv
<1>9. Followed(played', frames', Seen', setup') BY <1>1, <1>6, <1>7, <1>8
<1>10. Seen'[1] = Root'
  <2>1. Seen[1] = before[1]
    <3>1. 1 \in 1..Len(before) BY <1>2, <1>3
    <3> QED BY <1>2, <3>1, AppendIs DEF Seen
  <2>2. Root' = Root BY <1>1 DEF Root, copy_board_to_thread
  <2> QED BY <1>6, <2>1, <2>2 DEF RepInv
<1> QED BY <1>1, <1>9, <1>10 DEF RepInv

\* Trying a move.
LEMMA TryRecorded ==
  ASSUME GameInv, LegalInv, RepInv, HereSound', searching, Try(td_generate_moves(td)) PROVE RepInv'
<1>1. PICK m \in td_generate_moves(td) \cup Foreign :
        \E listed \in {~g_chess960 /\ m \in td_generate_moves(td)} : MayTry(m, listed) /\ Step(m, step_in(td, m, listed))
  BY DEF Try
<1>2. PICK listed \in {~g_chess960 /\ m \in td_generate_moves(td)} : MayTry(m, listed) /\ Step(m, step_in(td, m, listed))
  BY <1>1
<1>3. listed => m \in td_generate_moves(td) BY <1>2
<1>4. ThreadOK(td, setup) /\ IsLegal(td) /\ HomeSetup BY DEF GameInv, Chain, LegalInv, Safe
<1>5. m \in generate_moves(td) BY <1>2, <1>3, TriedIsGenerated
<1>6. Fit(td, m)
  <2>1. Ready(td) BY <1>4, ThreadIsReady
  <2> QED BY <1>4, <1>5, <2>1, GeneratedFit
<1>7. PICK r : r = step_in(td, m, listed) OBVIOUS
<1>8. CASE StepIn(m, r)
  <2> DEFINE f == [null |-> FALSE, move |-> m, undo |-> r.undo]
  <2>1. r.made /\ Down(f, r.td) BY <1>8 DEF StepIn
  <2>2. ~f.null OBVIOUS
  <2> HIDE DEF f
  <2>3. Records(td, r.td) /\ r.td.plies_from_null = td.plies_from_null + 1 BY <1>4, <1>7, <2>1, StepRecords
  <2>4. td' = r.td /\ searching' = searching /\ setup' = setup BY <2>1 DEF Down, game_vars
  <2>5. ThreadOK(r.td, setup) /\ IsLegal(r.td) BY <2>4 DEF HereSound, Here
  <2>6. FollowsRules(td, m, r.td, setup)
    <3>1. \A x \in {step_in(td, m, listed)} : x.made /\ IsLegal(x.td) => FollowsRules(td, m, x.td, setup)
      BY <1>4, <1>6, StepFollows
    <3> QED BY <1>7, <2>1, <2>5, <3>1
  <2>7. Scene(PositionOf(r.td, setup)) BY <2>5, ThreadScene
  <2>8. Advances(PositionOf(td, setup), PositionOf(r.td, setup)) BY <1>4, <1>5, <2>6, <2>7, MoveLeads
  <2> QED BY <2>1, <2>2, <2>3, <2>8, DownRecorded
<1>9. CASE StepRefused(r)
  <2>1. ~r.made => r.td = td
    <3>1. \A x \in {step_in(td, m, listed)} : ~x.made => x.td = td BY <1>4, <1>6, StepInIs
    <3> QED BY <1>7, <3>1
  <2>2. UNCHANGED <<opening, played, frames, before, g, repetition_table, setup, searching, td>>
    BY <1>9, <2>1 DEF StepRefused, game_vars
  <2>3. Here' = Here BY <2>2 DEF Here
  <2> QED BY <2>2, <2>3, SameRecorded
<1> QED BY <1>2, <1>7, <1>8, <1>9 DEF Step

\* A null move.
LEMMA NullRecorded ==
  ASSUME GameInv, LegalInv, RepInv, HereSound', searching, StepInNull PROVE RepInv'
<1> DEFINE f == [null |-> TRUE, undo |-> NullUndo(td)]
           t == step_in_null(td)
<1>1. Down(f, t) BY DEF StepInNull
<1>2. f.null OBVIOUS
<1>3. ThreadOK(td, setup) BY DEF GameInv, Chain
<1>4. Records(td, t) /\ t.plies_from_null = 0 BY <1>3, NullRecords
<1> HIDE DEF f, t
<1> QED BY <1>1, <1>2, <1>4, DownRecorded

\* Every step.
LEMMA StepRecorded ==
  ASSUME GameInv, LegalInv, RepInv, HereSound', [Next]_vars, NEW n \in Nat, \A o \in Openings : o.plies \in 0..n
  PROVE  RepInv'
<1>1. CASE PlayAny BY <1>1, PlayRecorded
<1>2. CASE StartSearch
  <2>1. ~searching /\ searching' = TRUE /\ td' = copy_board_to_thread(g, repetition_table)
        /\ UNCHANGED <<opening, played, frames, before, g, repetition_table, setup>>
    BY <1>2 DEF StartSearch, game_vars
  <2>2. Here' = Here BY <2>1 DEF Here
  <2> QED BY <2>1, <2>2, SameRecorded
<1>3. CASE EndSearch
  <2>1. searching /\ frames = <<>> /\ searching' = FALSE /\ UNCHANGED <<opening, played, frames, before, g, repetition_table, setup>>
    BY <1>3 DEF EndSearch, game_vars
  <2>2. before = <<>>
    <3>1. Len(before) = 0 /\ IsSequence(before) BY <2>1, ChainLength DEF GameInv, Chain
    <3> QED BY <3>1, FrontIs
  <2>3. Seen[1] = Here BY <2>2 DEF Seen
  <2>4. Here' = Root BY <2>1 DEF Here, Root, copy_board_to_thread
  <2>5. Here' = Here BY <2>3, <2>4 DEF RepInv
  <2> QED BY <2>1, <2>5, SameRecorded
<1>4. CASE QueueStart \/ QueueNext \/ QuietsOff
  <2>1. \E q : QueueIs(q) BY <1>4 DEF QueueStart, QueueNext, QueueGives, QuietsOff
  <2>2. UNCHANGED <<opening, played, frames, before, g, repetition_table, setup, searching, td>> BY <2>1 DEF QueueIs, game_vars
  <2>3. Here' = Here BY <2>2 DEF Here
  <2> QED BY <2>2, <2>3, SameRecorded
<1>5. CASE searching /\ Try(td_generate_moves(td)) BY <1>5, TryRecorded
<1>6. CASE searching /\ StepInNull BY <1>6, NullRecorded
<1>7. CASE searching /\ frames # <<>> /\ (StepOut \/ StepOutNull) BY <1>7, BackRecorded
<1>8. CASE UNCHANGED vars
  <2>1. UNCHANGED <<opening, played, frames, before, g, repetition_table, setup, searching, td>> BY <1>8 DEF vars
  <2>2. Here' = Here BY <2>1 DEF Here
  <2> QED BY <2>1, <2>2, SameRecorded
<1> QED BY <1>1, <1>2, <1>3, <1>4, <1>5, <1>6, <1>7, <1>8 DEF Next

(***************************************************************************)
(* The repetitions of the search.                                          *)
(***************************************************************************)
\* The positions of the game and of the line, and how many come before the current one.
Known(k) == PastAt(played, Seen, k, setup)
Earlier == Len(played) + Len(frames)
Sizes ==
  /\ IsSequence(played) /\ IsSequence(before) /\ IsSequence(frames)
  /\ Len(played) \in Nat /\ Len(frames) \in Nat /\ Len(before) = Len(frames)
  /\ td.ply = Len(frames) /\ td.rep \in Seq(Keys) /\ Len(td.rep) = Earlier
Told ==
  /\ Known(Earlier + 1) = HerePos /\ HerePos.clock = td.fifty
  /\ \A k \in 1..(Earlier + 1) : Scene(Known(k))
  /\ \A k \in 1..Earlier : Stamps(td.rep[k], Known(k), setup)
  /\ Stamps(td.key, HerePos, setup)
Paired ==
  \A k, l \in 1..(Earlier + 1) : k < l /\ NoNull(played, frames, k, l) => Pair(Known(k), Known(l), l - k)

\* The current board has recorded the game and the line.
LEMMA RecordIs ==
  ASSUME searching, GameInv, LegalInv, RepInv
  PROVE  Sizes /\ Told /\ Paired /\ FromNull(td.plies_from_null, frames, Len(frames))
<1>1. Here = td BY DEF Here
<1>2. IsSequence(before) /\ IsSequence(frames) /\ Len(before) = Len(frames) BY DEF GameInv, Chain
<1>3. IsSequence(played) /\ Followed(played, frames, Seen, setup) BY DEF RepInv, Followed
<1>4. Len(played) \in Nat /\ Len(frames) \in Nat BY <1>2, <1>3, AppendIs
<1>5. Len(Seen) = Len(frames) + 1 /\ Seen[Len(frames) + 1] = td /\ IsSequence(Seen) BY <1>1, <1>2, AppendIs DEF Seen
<1>6. Recorded(played, Seen, Len(frames) + 1, setup) /\ FromNull(td.plies_from_null, frames, Len(frames))
  <2>1. Len(frames) + 1 \in 1..Len(Seen) /\ Len(frames) + 1 - 1 = Len(frames) BY <1>4, <1>5
  <2>2. FromNull(Seen[Len(frames) + 1].plies_from_null, frames, Len(frames) + 1 - 1) BY <1>3, <2>1 DEF Followed
  <2> QED BY <1>3, <1>5, <2>1, <2>2 DEF Followed
<1>7. Sizes
  <2>1. td.ply = Len(frames) + 1 - 1 /\ td.rep \in Seq(Keys) /\ Len(td.rep) = Len(played) + (Len(frames) + 1) - 1
    BY <1>5, <1>6 DEF Recorded
  <2> QED BY <1>2, <1>3, <1>4, <2>1 DEF Sizes, Earlier
<1>8. Told
  <2>1. Earlier + 1 = Len(played) + Len(Seen) /\ Earlier = Len(played) + (Len(frames) + 1) - 1 BY <1>4, <1>5 DEF Earlier
  <2>2. HerePos = PositionOf(td, setup) BY <1>1, NamedAlike DEF HerePos
  <2>3. Known(Earlier + 1) = HerePos
    <3>1. Len(Seen) \in Nat /\ Len(Seen) > 0 BY <1>4, <1>5
    <3>2. PastAt(played, Seen, Len(played) + Len(Seen), setup) = PositionOf(Seen[Len(Seen)], setup) BY <1>4, <3>1, PastLast
    <3> QED BY <1>5, <2>1, <2>2, <3>2 DEF Known
  <2>4. HerePos.clock = td.fifty BY <1>1 DEF HerePos, PosOf
  <2>5. \A k \in 1..(Earlier + 1) : Scene(Known(k)) BY <1>3, <2>1 DEF Followed, Known
  <2>6. \A k \in 1..Earlier : Stamps(td.rep[k], Known(k), setup) BY <1>5, <1>6, <2>1 DEF Recorded, Known
  <2>7. Stamps(td.key, HerePos, setup)
    <3>1. ThreadOK(td, setup) /\ IsLegal(td) BY <1>1, HereIsThread
    <3> QED BY <2>2, <3>1, ThreadScene
  <2> QED BY <2>3, <2>4, <2>5, <2>6, <2>7 DEF Told
<1>9. Paired
  <2>1. Earlier + 1 = Len(played) + Len(Seen) BY <1>4, <1>5 DEF Earlier
  <2> QED BY <1>3, <2>1 DEF Followed, Paired, Known
<1>10. FromNull(td.plies_from_null, frames, Len(frames)) BY <1>6
<1> QED BY <1>7, <1>8, <1>9, <1>10

\* Two sequences, one after the other.
LEMMA Joined ==
  ASSUME NEW S, NEW s \in Seq(S), NEW t \in Seq(S)
  PROVE  /\ Len(s \o t) = Len(s) + Len(t)
         /\ \A k \in 1..(Len(s) + Len(t)) : (s \o t)[k] = IF k <= Len(s) THEN s[k] ELSE t[k - Len(s)]
OBVIOUS

\* The positions the repetitions are looked for in.
LEMMA PastIs ==
  ASSUME Sizes
  PROVE  Len(Past) = Earlier /\ \A k \in 1..Earlier : Past[k] = Known(k)
<1> DEFINE P == Len(played)
           t == [i \in DOMAIN before |-> PosOf(before[i])]
           S == {played[i] : i \in DOMAIN played} \cup {t[i] : i \in DOMAIN t}
<1>1. P \in Nat /\ Len(frames) \in Nat /\ Len(before) = Len(frames) /\ Earlier = P + Len(frames) BY DEF Sizes, Earlier
<1>2. before \in Seq({before[i] : i \in DOMAIN before}) /\ played \in Seq({played[i] : i \in DOMAIN played}) BY DEF Sizes, IsSequence
<1>3. DOMAIN before = 1..Len(before) /\ DOMAIN played = 1..P BY <1>2
<1>4. played \in Seq(S)
  <2>1. played \in [1..P -> S] BY <1>2, <1>3
  <2> QED BY <1>1, <2>1
<1>5. t \in Seq(S) /\ Len(t) = Len(frames)
  <2>1. DOMAIN t = 1..Len(frames) BY <1>1, <1>3
  <2>2. t \in [1..Len(frames) -> S] BY <2>1
  <2> HIDE DEF t, S
  <2> QED BY <1>1, <2>1, <2>2
<1>6. \A i \in 1..Len(frames) : t[i] = PositionOf(Seen[i], setup)
  <2> SUFFICES ASSUME NEW i \in 1..Len(frames) PROVE t[i] = PositionOf(Seen[i], setup) OBVIOUS
  <2>1. t[i] = PosOf(before[i]) BY <1>1, <1>3
  <2>2. Seen[i] = before[i] BY <1>1, AppendIs DEF Seen, Sizes
  <2> QED BY <2>1, <2>2, NamedAlike
<1> HIDE DEF t, S
<1>7. Len(played \o t) = P + Len(t) /\ \A k \in 1..(P + Len(t)) : (played \o t)[k] = IF k <= P THEN played[k] ELSE t[k - P]
  BY <1>4, <1>5, Joined
<1>8. Past = played \o t BY DEF Past, t
<1>9. ASSUME NEW k \in 1..Earlier PROVE Past[k] = Known(k)
  <2>1. CASE k <= P BY <1>1, <1>5, <1>7, <1>8, <2>1 DEF Known, PastAt
  <2>2. CASE ~(k <= P)
    <3>1. k - P \in 1..Len(frames) BY <1>1, <2>2
    <3>2. Past[k] = t[k - P] BY <1>1, <1>5, <1>7, <1>8, <2>2
    <3> QED BY <1>6, <2>2, <3>1, <3>2 DEF Known, PastAt
  <2> QED BY <2>1, <2>2
<1> QED BY <1>1, <1>5, <1>7, <1>8, <1>9

\* The positions since the last null move.
LEMMA SinceIs ==
  ASSUME Sizes, FromNull(td.plies_from_null, frames, Len(frames)), Len(played) <= 1024
  PROVE  /\ Since \in 1..(Earlier + 1) /\ td.plies_from_null \in Nat /\ td.plies_from_null >= Earlier + 1 - Since
         /\ td.plies_from_null = Earlier + 1 - Since \/ Since = 1
         /\ \A k \in Since..Earlier, l \in 1..(Earlier + 1) : NoNull(played, frames, k, l)
<1> DEFINE n == Len(frames)
           v == td.plies_from_null
           nulls == {i \in DOMAIN frames : frames[i].null}
           last == CHOOSE i \in nulls : \A j \in nulls : j <= i
<1>1. Len(played) \in Nat /\ n \in Nat /\ Earlier = Len(played) + n BY DEF Sizes, Earlier
<1>2. DOMAIN frames = 1..n
  <2>1. frames \in Seq({frames[i] : i \in DOMAIN frames}) BY DEF Sizes, IsSequence
  <2> QED BY <2>1
<1>3. FromNull(v, frames, n) OBVIOUS
<1>4. Since = IF nulls = {} THEN 1 ELSE Len(played) + 1 + last BY DEF Since
<1>5. \A i \in 1..n : frames[i].null <=> i \in nulls BY <1>2
<1>6. nulls \subseteq 1..n BY <1>2
<1> HIDE DEF nulls, n, v
<1>7. CASE v = 1024 + n /\ \A j \in 1..n : ~frames[j].null
  <2>1. nulls = {} BY <1>5, <1>6, <1>7
  <2>2. Since = 1 BY <1>4, <2>1
  <2>3. \A k, l : NoNull(played, frames, k, l) BY <1>7 DEF NoNull, n
  <2>4. Since \in 1..(Earlier + 1) /\ v \in Nat /\ v >= Earlier + 1 - Since BY <1>1, <1>7, <2>2
  <2> QED BY <2>2, <2>3, <2>4 DEF v
<1>8. CASE \E j \in 1..n : frames[j].null /\ v = n - j /\ \A x \in 1..n : x > j => ~frames[x].null
  <2>1. PICK j \in 1..n : frames[j].null /\ v = n - j /\ \A x \in 1..n : x > j => ~frames[x].null BY <1>8
  <2>2. j \in nulls /\ \A x \in nulls : x <= j
    <3>1. j \in nulls BY <1>5, <2>1
    <3>2. ASSUME NEW x \in nulls PROVE x <= j
      <4>1. x \in 1..n /\ frames[x].null BY <1>5, <1>6
      <4>2. ~(x > j) BY <2>1, <4>1
      <4> QED BY <2>1, <4>1, <4>2
    <3> QED BY <3>1, <3>2
  <2>3. last \in nulls /\ \A x \in nulls : x <= last BY <2>2
  <2>4. last = j
    <3>1. last <= j /\ j <= last /\ last \in 1..n BY <1>6, <2>2, <2>3
    <3> QED BY <2>1, <3>1
  <2> HIDE DEF last
  <2>5. Since = Len(played) + 1 + j BY <1>4, <2>2, <2>4
  <2>6. Since \in 1..(Earlier + 1) /\ v \in Nat /\ v = Earlier + 1 - Since BY <1>1, <2>1, <2>5
  <2>7. ASSUME NEW k \in Since..Earlier, NEW l \in 1..(Earlier + 1) PROVE NoNull(played, frames, k, l)
    <3> SUFFICES ASSUME NEW i \in 1..n, frames[i].null PROVE ~(k <= Len(played) + i /\ Len(played) + i < l) BY DEF NoNull, n
    <3>1. i <= j
      <4>1. i \in nulls BY <1>5
      <4> QED BY <2>2, <4>1
    <3>2. k >= Since /\ k \in Int BY <2>6
    <3> QED BY <1>1, <2>1, <2>5, <3>1, <3>2
  <2>8. v >= Earlier + 1 - Since BY <1>1, <2>6
  <2> QED BY <2>6, <2>7, <2>8 DEF v
<1> QED BY <1>3, <1>7, <1>8 DEF FromNull

\* The least of three numbers.
LEMMA LeastIs ==
  ASSUME NEW a \in Nat, NEW b \in Nat, NEW c \in Nat
  PROVE  Least({a, b, c}) \in {a, b, c} /\ Least({a, b, c}) <= a /\ Least({a, b, c}) <= b /\ Least({a, b, c}) <= c
<1> DEFINE S == {a, b, c}
<1>1. \E x \in S : \A y \in S : x <= y
  <2>1. CASE a <= b /\ a <= c BY <2>1
  <2>2. CASE b <= a /\ b <= c BY <2>2
  <2>3. CASE c <= a /\ c <= b BY <2>3
  <2> QED BY <2>1, <2>2, <2>3
<1>2. a \in S /\ b \in S /\ c \in S OBVIOUS
<1> HIDE DEF S
<1>3. Least(S) \in S /\ \A y \in S : Least(S) <= y BY <1>1 DEF Least
<1>4. Least(S) <= a /\ Least(S) <= b /\ Least(S) <= c BY <1>2, <1>3
<1> QED BY <1>3, <1>4 DEF S

\* The window of the search for a repetition: no further back than the last null move and the last move that counts.
LEMMA WindowIs ==
  ASSUME Sizes, Told, Since \in 1..(Earlier + 1), td.plies_from_null \in Nat, td.plies_from_null >= Earlier + 1 - Since,
         td.plies_from_null = Earlier + 1 - Since \/ Since = 1
  PROVE  /\ Window(td) \in Nat /\ td.fifty \in Nat /\ Window(td) <= td.fifty /\ Window(td) <= Earlier + 1 - Since
         /\ Window(td) = td.fifty \/ Window(td) = Earlier + 1 - Since
<1>1. Earlier \in Nat /\ Len(td.rep) = Earlier BY DEF Sizes, Earlier
<1>2. td.fifty \in Nat
  <2>1. Earlier + 1 \in 1..(Earlier + 1) BY <1>1
  <2>2. Scene(HerePos) BY <2>1 DEF Told
  <2>3. HerePos.clock \in Nat BY <2>2 DEF Scene
  <2> QED BY <2>3 DEF Told
<1>3. Window(td) = Least({td.fifty, td.plies_from_null, Earlier}) BY <1>1 DEF Window
<1> DEFINE w == Window(td)
<1>4. /\ w \in {td.fifty, td.plies_from_null, Earlier}
      /\ w <= td.fifty /\ w <= td.plies_from_null /\ w <= Earlier BY <1>1, <1>2, <1>3, LeastIs
<1> HIDE DEF w
<1>5. w \in Nat BY <1>1, <1>2, <1>4
<1>6. w <= Earlier + 1 - Since BY <1>1, <1>4, <1>5
<1>7. w = td.fifty \/ w = Earlier + 1 - Since BY <1>1, <1>4, <1>5
<1> QED BY <1>2, <1>4, <1>5, <1>6, <1>7 DEF w

\* Every other position has the other side to move, and two plies do not bring a position back.
LEMMA TurnsApart ==
  ASSUME NEW p, NEW q, Scene(p), Scene(q), NEW d \in Nat, d >= 1, Pair(p, q, d), Alike(p, q)
  PROVE  d % 2 = 0 /\ d # 2 /\ q.clock >= d
<1>1. p.turn = q.turn BY AlikeIs
<1>2. ~Gone(p, q) BY GoneIsUnlike
<1>3. q.clock >= d /\ d # 2 BY <1>2 DEF Pair
<1>4. d % 2 = 0
  <2>1. p.turn \in {0, 1} BY DEF Scene, white, black
  <2>2. q.turn = IF d % 2 = 0 THEN p.turn ELSE 1 - p.turn BY DEF Pair
  <2> QED BY <1>1, <2>1, <2>2
<1> QED BY <1>3, <1>4

\* So a position comes back after four plies at least.
LEMMA AlikeApart ==
  ASSUME NEW p, NEW q, Scene(p), Scene(q), NEW d \in Nat, d >= 1, Pair(p, q, d), Alike(p, q)
  PROVE  d % 2 = 0 /\ d >= 4 /\ d <= q.clock
<1>1. d % 2 = 0 /\ d # 2 /\ q.clock >= d BY TurnsApart
<1>2. q.clock \in Nat BY DEF Scene
<1>3. d # 1 /\ d # 3
  <2>1. 1 % 2 = 1 /\ 3 % 2 = 1 OBVIOUS
  <2> QED BY <1>1, <2>1
<1> QED BY <1>1, <1>2, <1>3

Twin(k) == Alike(Known(k), HerePos)
\* The key of a position since the last null move is the current one when the position comes back, which takes an even number
\* of plies, four at least, none of which takes a man or moves a pawn.
LEMMA TwinsAre ==
  ASSUME Sizes, Told, Paired, NEW k \in 1..Earlier, NoNull(played, frames, k, Earlier + 1)
  PROVE  /\ td.rep[k] = td.key <=> Twin(k)
         /\ Twin(k) => (Earlier + 1 - k) % 2 = 0 /\ Earlier + 1 - k >= 4 /\ Earlier + 1 - k <= td.fifty
<1> DEFINE d == Earlier + 1 - k
           p == Known(k)
           q == HerePos
<1>1. Earlier \in Nat BY DEF Sizes, Earlier
<1>2. k \in 1..(Earlier + 1) /\ Earlier + 1 \in 1..(Earlier + 1) /\ k < Earlier + 1 /\ d \in Nat /\ d >= 1 BY <1>1
<1>3. Scene(p) /\ Scene(q) /\ Stamps(td.rep[k], p, setup) /\ Stamps(td.key, q, setup) /\ q.clock = td.fifty BY <1>2 DEF Told
<1>4. Pair(p, q, d)
  <2> DEFINE e == Earlier + 1
  <2>1. Pair(Known(k), Known(e), e - k)
    <3>1. k \in 1..e /\ e \in 1..e /\ k < e /\ NoNull(played, frames, k, e) BY <1>2
    <3>2. \A i, j \in 1..e : i < j /\ NoNull(played, frames, i, j) => Pair(Known(i), Known(j), j - i) BY DEF Paired
    <3> HIDE DEF e
    <3> QED BY <3>1, <3>2
  <2>2. Known(e) = HerePos BY DEF Told
  <2>3. d = e - k BY <1>1
  <2> HIDE DEF e, d
  <2> QED BY <2>1, <2>2, <2>3
<1>5. Twin(k) <=> Alike(p, q) BY DEF Twin
<1> HIDE DEF p, q, d
<1>6. td.rep[k] = td.key <=> Alike(p, q) BY <1>3, KeysTell
<1>7. Alike(p, q) => d % 2 = 0 /\ d >= 4 /\ d <= td.fifty BY <1>2, <1>3, <1>4, AlikeApart
<1> QED BY <1>5, <1>6, <1>7 DEF d

\* Two of them are as far from each other.
LEMMA TwinsApart ==
  ASSUME Sizes, Told, Paired, NEW k \in 1..Earlier, NEW l \in 1..Earlier, k < l, NoNull(played, frames, k, l), Twin(k), Twin(l)
  PROVE  l - k >= 4
<1> DEFINE d == l - k
           p == Known(k)
           q == Known(l)
<1>1. Earlier \in Nat BY DEF Sizes, Earlier
<1>2. k \in 1..(Earlier + 1) /\ l \in 1..(Earlier + 1) /\ d \in Nat /\ d >= 1 BY <1>1
<1>3. Scene(p) /\ Scene(q) BY <1>2 DEF Told
<1>4. Pair(p, q, d) BY <1>2 DEF Paired
<1>5. Alike(p, q) BY DEF Twin, Alike
<1> HIDE DEF p, q, d
<1>6. d >= 4 BY <1>2, <1>3, <1>4, <1>5, AlikeApart
<1> QED BY <1>6 DEF d

\* How many plies ago the current key was recorded, and the numbers of those positions.
Ages == {i \in 1..(Earlier + 1 - Since) : KeyAgo(td, i) = td.key}
Twins == {k \in Since..Earlier : Twin(k)}
AgesSound ==
  /\ Window(td) \in Nat /\ Ages \in SUBSET (4..Window(td))
  /\ \A i \in Ages : i % 2 = 0
  /\ \A i, j \in Ages : i < j => j >= i + 4
AgesTold ==
  /\ Since \in 1..(Earlier + 1)
  /\ \A i \in 4..Window(td) : i \in Ages <=> KeyAgo(td, i) = td.key
  /\ \A k \in Since..Earlier : k \in Twins <=> Earlier + 1 - k \in Ages

\* The ages are even, four plies apart and within the window, and they are the ages of the twins.
LEMMA AgesAre ==
  ASSUME GameInv, LegalInv, RepInv, searching, Len(played) <= 1024 PROVE AgesSound /\ AgesTold
<1> DEFINE N == Earlier + 1
           w == Window(td)
<1>1. Sizes /\ Told /\ Paired /\ FromNull(td.plies_from_null, frames, Len(frames)) BY RecordIs
<1>2. /\ Since \in 1..N /\ td.plies_from_null \in Nat /\ td.plies_from_null >= Earlier + 1 - Since
      /\ td.plies_from_null = Earlier + 1 - Since \/ Since = 1
      /\ \A k \in Since..Earlier, l \in 1..N : NoNull(played, frames, k, l)
  BY <1>1, SinceIs
<1>3. /\ w \in Nat /\ td.fifty \in Nat /\ w <= td.fifty /\ w <= Earlier + 1 - Since
      /\ w = td.fifty \/ w = Earlier + 1 - Since
  BY <1>1, <1>2, WindowIs
<1>4. Earlier \in Nat /\ N \in Nat /\ N = Earlier + 1 /\ Len(td.rep) = Earlier BY <1>1 DEF Sizes, Earlier
<1> HIDE DEF N, w
<1>5. ASSUME NEW i \in 1..(Earlier + 1 - Since)
      PROVE  /\ N - i \in Since..Earlier /\ N - i \in 1..Earlier /\ N - i \in Int /\ Earlier + 1 - (N - i) = i
             /\ KeyAgo(td, i) = td.rep[N - i]
  <2>1. N - i \in Since..Earlier /\ N - i \in 1..Earlier /\ Earlier + 1 - (N - i) = i BY <1>2, <1>4
  <2>2. Earlier - (i - 1) = N - i BY <1>4
  <2> QED BY <1>4, <2>1, <2>2 DEF KeyAgo
<1>6. ASSUME NEW i \in 1..(Earlier + 1 - Since)
      PROVE  /\ i \in Ages <=> Twin(N - i)
             /\ i \in Ages => i % 2 = 0 /\ i >= 4 /\ i <= w
  <2> DEFINE k == N - i
  <2>1. k \in Since..Earlier /\ k \in 1..Earlier /\ Earlier + 1 - k = i /\ KeyAgo(td, i) = td.rep[k] BY <1>5
  <2> HIDE DEF k
  <2>2. NoNull(played, frames, k, Earlier + 1)
    <3>1. Earlier + 1 \in 1..N BY <1>4
    <3> QED BY <1>2, <2>1, <3>1
  <2>3. /\ td.rep[k] = td.key <=> Twin(k)
        /\ Twin(k) => (Earlier + 1 - k) % 2 = 0 /\ Earlier + 1 - k >= 4 /\ Earlier + 1 - k <= td.fifty
    BY <1>1, <2>1, <2>2, TwinsAre
  <2>4. i \in Ages <=> Twin(k) BY <2>1, <2>3 DEF Ages
  <2>5. Twin(k) => i % 2 = 0 /\ i >= 4 /\ i <= td.fifty BY <2>1, <2>3
  <2>6. Twin(k) => i <= w BY <1>2, <1>3, <1>4, <2>5
  <2> QED BY <2>4, <2>5, <2>6 DEF k
<1>7. \A i \in Ages : i \in 1..(Earlier + 1 - Since) /\ i \in Int BY DEF Ages
<1>8. Ages \in SUBSET (4..w) /\ \A i \in Ages : i % 2 = 0
  <2>1. \A i \in Ages : i \in Int /\ i % 2 = 0 /\ i >= 4 /\ i <= w BY <1>6, <1>7
  <2> QED BY <1>3, <2>1
<1>9. ASSUME NEW i \in Ages, NEW j \in Ages, i < j PROVE j >= i + 4
  <2> DEFINE k == N - j
             l == N - i
  <2>1. /\ k \in Since..Earlier /\ k \in 1..Earlier /\ Twin(k) /\ k \in Int
        /\ l \in Since..Earlier /\ l \in 1..Earlier /\ Twin(l) /\ l \in Int BY <1>5, <1>6, <1>7
  <2>2. k < l /\ l - k = j - i BY <1>4, <1>7, <1>9
  <2>3. l \in 1..N BY <1>4, <2>1
  <2> HIDE DEF k, l
  <2>4. NoNull(played, frames, k, l) BY <1>2, <2>1, <2>3
  <2>5. l - k >= 4 BY <1>1, <2>1, <2>2, <2>4, TwinsApart
  <2> QED BY <1>7, <2>2, <2>5
<1>10. AgesSound BY <1>3, <1>8, <1>9 DEF AgesSound, w
<1>11. \A i \in 4..w : i \in Ages <=> KeyAgo(td, i) = td.key
  <2>1. \A i \in 4..w : i \in 1..(Earlier + 1 - Since) BY <1>2, <1>3, <1>4
  <2> QED BY <2>1 DEF Ages
<1>12. ASSUME NEW k \in Since..Earlier PROVE k \in Twins <=> Earlier + 1 - k \in Ages
  <2> DEFINE i == Earlier + 1 - k
  <2>1. i \in 1..(Earlier + 1 - Since) /\ N - i = k BY <1>2, <1>4
  <2> HIDE DEF i
  <2>2. i \in Ages <=> Twin(k)
    <3>1. i \in Ages <=> Twin(N - i) BY <1>6, <2>1
    <3> QED BY <2>1, <3>1
  <2> QED BY <2>2 DEF Twins, i
<1>13. AgesTold BY <1>2, <1>11, <1>12 DEF AgesTold, N, w
<1> QED BY <1>10, <1>13

\* The rules' count of the positions like the current one.
LEMMA RepeatsIs ==
  ASSUME Sizes, Told, AgesTold
  PROVE  Repeats(HerePos) <=> (\E i, j \in Ages : i # j) \/ \E i \in Ages : i < td.ply
<1> DEFINE twins == {i \in Since..Len(Past) : [Past[i] EXCEPT !.clock = 0] = [HerePos EXCEPT !.clock = 0]}
<1>1. Earlier \in Nat /\ Since \in Nat /\ Since >= 1 /\ td.ply = Len(frames) /\ Earlier = Len(played) + Len(frames)
      /\ Len(played) \in Nat /\ Len(frames) \in Nat
  BY DEF Sizes, Earlier, AgesTold
<1>2. Len(Past) = Earlier /\ \A k \in 1..Earlier : Past[k] = Known(k) BY PastIs
<1>3. twins = Twins
  <2>1. \A k \in Since..Earlier : k \in 1..Earlier BY <1>1
  <2>2. \A k \in Since..Earlier : [Past[k] EXCEPT !.clock = 0] = [HerePos EXCEPT !.clock = 0] <=> Twin(k)
    BY <1>2, <2>1 DEF Twin, Alike
  <2> QED BY <1>2, <2>2 DEF Twins
<1>4. Repeats(HerePos) <=> Cardinality(Twins) > 1 \/ \E k \in Twins : k > Len(played) + 1
  <2>1. Repeats(HerePos) <=> Cardinality(twins) > 1 \/ \E k \in twins : k > Len(played) + 1 BY DEF Repeats
  <2> QED BY <1>3, <2>1
<1> HIDE DEF twins
<1>5. IsFiniteSet(Twins)
  <2>1. IsFiniteSet(Since..Earlier) BY <1>1, FS_Interval
  <2>2. Twins \subseteq Since..Earlier BY DEF Twins
  <2> QED BY <2>1, <2>2, FS_Subset
<1>6. Cardinality(Twins) > 1 <=> \E k, l \in Twins : k # l BY <1>5, MoreThanOne
<1>7. \A k \in Twins : k \in Since..Earlier /\ k \in Int /\ Earlier + 1 - k \in Ages BY <1>1 DEF Twins, AgesTold
<1>8. \A i \in Ages : i \in Int /\ Earlier + 1 - i \in Twins
  <2> SUFFICES ASSUME NEW i \in Ages PROVE i \in Int /\ Earlier + 1 - i \in Twins OBVIOUS
  <2>1. i \in 1..(Earlier + 1 - Since) BY DEF Ages
  <2> DEFINE k == Earlier + 1 - i
  <2>2. k \in Since..Earlier /\ Earlier + 1 - k = i BY <1>1, <2>1
  <2> HIDE DEF k
  <2>3. k \in Twins BY <2>2 DEF AgesTold
  <2> QED BY <2>1, <2>3 DEF k
<1>9. (\E k, l \in Twins : k # l) <=> \E i, j \in Ages : i # j
  <2>1. ASSUME NEW k \in Twins, NEW l \in Twins, k # l PROVE \E i, j \in Ages : i # j
    <3>1. Earlier + 1 - k # Earlier + 1 - l BY <1>1, <1>7, <2>1
    <3> QED BY <1>7, <3>1
  <2>2. ASSUME NEW i \in Ages, NEW j \in Ages, i # j PROVE \E k, l \in Twins : k # l
    <3>1. Earlier + 1 - i # Earlier + 1 - j BY <1>1, <1>8, <2>2
    <3> QED BY <1>8, <3>1
  <2> QED BY <2>1, <2>2
<1>10. (\E k \in Twins : k > Len(played) + 1) <=> \E i \in Ages : i < td.ply
  <2>1. ASSUME NEW k \in Twins, k > Len(played) + 1 PROVE \E i \in Ages : i < td.ply
    <3>1. Earlier + 1 - k < td.ply BY <1>1, <1>7, <2>1
    <3> QED BY <1>7, <3>1
  <2>2. ASSUME NEW i \in Ages, i < td.ply PROVE \E k \in Twins : k > Len(played) + 1
    <3>1. Earlier + 1 - i > Len(played) + 1 BY <1>1, <1>8, <2>2
    <3> QED BY <1>8, <3>1
  <2> QED BY <2>1, <2>2
<1> QED BY <1>4, <1>6, <1>9, <1>10

\* The loop is over those ages.
LEMMA DrawIs ==
  ASSUME AgesSound, AgesTold
  PROVE  repeated_draw(td) <=> \E i \in FirstOf(Ages, Window(td)) : i < td.ply \/ OneMore(Ages, Window(td), i)
<1> DEFINE w == Window(td)
           first == {i \in 4..w : i % 2 = 0 /\ KeyAgo(td, i) = td.key /\ \A j \in 4..(i - 1) : j % 2 = 0 => ~(KeyAgo(td, j) = td.key)}
           More(i) == \E j \in (i + 4)..w : (j - i) % 2 = 0 /\ KeyAgo(td, j) = td.key
<1>1. repeated_draw(td) <=> \E i \in first : i < td.ply \/ More(i) BY DEF repeated_draw
<1>2. w \in Nat /\ \A i \in 4..w : i \in Ages <=> KeyAgo(td, i) = td.key BY DEF AgesSound, AgesTold
<1>3. first = FirstOf(Ages, w)
  <2>1. \A i \in 4..w : \A j \in 4..(i - 1) : j \in 4..w BY <1>2
  <2>2. \A i \in 4..w : (\A j \in 4..(i - 1) : j % 2 = 0 => ~(KeyAgo(td, j) = td.key)) <=> \A j \in 4..(i - 1) : j % 2 = 0 => ~(j \in Ages)
    BY <1>2, <2>1
  <2> HIDE DEF w
  <2> QED BY <1>2, <2>2 DEF FirstOf
<1>4. \A i \in 4..w : More(i) <=> OneMore(Ages, w, i)
  <2> HIDE DEF w
  <2>1. \A i \in 4..w : \A j \in (i + 4)..w : j \in 4..w BY <1>2
  <2> QED BY <1>2, <2>1 DEF OneMore
<1>5. first \subseteq 4..w OBVIOUS
<1> HIDE DEF first, More, w
<1>6. repeated_draw(td) <=> \E i \in FirstOf(Ages, w) : i < td.ply \/ OneMore(Ages, w, i) BY <1>1, <1>3, <1>4, <1>5
<1> QED BY <1>6 DEF w

\* In every position of every search, the search scores a repetition exactly when the rules of the search find one: the position,
\* its side to move, castling and en passant rights with it, has come up before since the last null move, once after the root or
\* twice in all.  The test sees only keys, in steps of two plies, four plies back at first and no further than the last move
\* that counts, and it is nothing less: keys are equal for equal positions alone, and no position comes back otherwise.
THEOREM Repetitions == Spec => []RepetitionsAreFound
<1>1. Init /\ GameInv /\ LegalInv => RepInv
  <2>1. \A o \in Openings : o.plies \in 0..1024 BY PliesAssumption
  <2> QED BY <2>1, InitRecorded
<1>2. GameInv /\ LegalInv => HereSound BY HereIsThread DEF HereSound
<1>3. GameInv /\ LegalInv /\ RepInv /\ HereSound' /\ [Next]_vars => RepInv'
  <2>1. \A o \in Openings : o.plies \in 0..1024 BY PliesAssumption
  <2>2. 1024 \in Nat OBVIOUS
  <2> SUFFICES ASSUME GameInv, LegalInv, RepInv, HereSound', [Next]_vars PROVE RepInv' OBVIOUS
  <2> QED BY <2>1, <2>2, StepRecorded
<1>4. GameInv /\ LegalInv /\ RepInv => RepetitionsAreFound
  <2> SUFFICES ASSUME GameInv, LegalInv, RepInv, searching PROVE repeated_draw(td) <=> Repeats(HerePos) BY DEF RepetitionsAreFound
  <2>1. Len(played) <= 1024
    <3>1. opening.plies \in 0..1024 BY PliesAssumption DEF RepInv
    <3>2. Len(played) <= opening.plies BY DEF RepInv
    <3>3. IsSequence(played) BY RecordIs DEF Sizes
    <3>4. Len(played) \in Nat BY <3>3, AppendIs
    <3> DEFINE x == opening.plies
               y == Len(played)
    <3>5. x \in Int /\ x <= 1024 /\ y <= x /\ y \in Int
      <4>1. x \in 0..1024 /\ y <= x /\ y \in Nat BY <3>1, <3>2, <3>4
      <4> HIDE DEF x, y
      <4> QED BY <4>1
    <3> HIDE DEF x, y
    <3>6. y <= 1024 BY <3>5
    <3> QED BY <3>6 DEF y
  <2>2. Sizes /\ Told BY RecordIs
  <2>3. AgesSound /\ AgesTold BY <2>1, AgesAre
  <2>4. td.ply \in Nat BY <2>2, AppendIs DEF Sizes
  <2>5. (\E i \in FirstOf(Ages, Window(td)) : i < td.ply \/ OneMore(Ages, Window(td), i))
        <=> (\E i, j \in Ages : i # j) \/ \E i \in Ages : i < td.ply
    <3> DEFINE w == Window(td)
               n == td.ply
               A == Ages
    <3>1. w \in Nat /\ n \in Nat /\ A \in SUBSET (4..w) /\ (\A i \in A : i % 2 = 0) /\ \A i, j \in A : i < j => j >= i + 4
      BY <2>3, <2>4 DEF AgesSound
    <3> HIDE DEF w, n, A
    <3>2. (\E i \in FirstOf(A, w) : i < n \/ OneMore(A, w, i)) <=> (\E i, j \in A : i # j) \/ \E i \in A : i < n BY <3>1, LoopFinds
    <3> QED BY <3>2 DEF w, n, A
  <2> QED BY <2>2, <2>3, <2>5, RepeatsIs, DrawIs
<1>5. Spec => [](GameInv /\ LegalInv) BY Invariant, PTL
<1> QED BY <1>1, <1>2, <1>3, <1>4, <1>5, PTL DEF Spec
===============================================================================
