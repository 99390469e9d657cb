---------------------------- MODULE SearchBoard ----------------------------
(***************************************************************************)
(* The board of a search thread: copy_board_to_thread (03_tables.inc),     *)
(* make, unmake and their helpers (07_makemove.inc), the steps into a      *)
(* child and back (12_quiesce.inc), the validation of a move that was not  *)
(* generated here and the repetitions (10_order.inc, 12_quiesce.inc).      *)
(* Beside the bitboards the thread keeps a mailbox, the occupancies, six   *)
(* partial keys and two counters, all updated move by move and restored    *)
(* from a copy: what the properties of Game relate to each other.          *)
(***************************************************************************)
EXTENDS Fen

None == -1

KEY_PAWN == 0
KEY_MINOR == 1
KEY_MAJOR == 2
KEY_NP_W == 3
KEY_NP_B == 4
KEY_SINK == 5
kKeyA(pc) == IF pc = None \/ Type(pc) = King THEN KEY_SINK
             ELSE <<KEY_PAWN, KEY_MINOR, KEY_MINOR, KEY_MAJOR, KEY_MAJOR>>[Type(pc) + 1]
kKeyB(pc) == IF pc = None \/ Type(pc) = Pawn THEN KEY_SINK
             ELSE IF pc < 6 THEN KEY_NP_W ELSE KEY_NP_B

\* What each partial key is made of, from scratch.
PartialKey(bb, i) == PiecesKey(bb, {pc \in Pieces : i \in {kKeyA(pc), kKeyB(pc)}})

copy_board_to_thread(b, table) ==
  [bb |-> b.bb, occ |-> b.occ, side |-> b.side, ep |-> b.ep, castle |-> b.castle, fifty |-> b.fifty,
   key |-> b.key, keys |-> [i \in KEY_PAWN..KEY_NP_B |-> PartialKey(b.bb, i)],
   piece_on |-> mailbox_of(b.bb), plies_from_null |-> 1024, rep |-> table, ply |-> 0]

All(td) == td.occ[white] \cup td.occ[black]
InCheck(td) == is_square_attacked(td, KingSquare(td, td.side), 1 - td.side)

(***************************************************************************)
(* Make.  The parts the code updates in functions of their own.            *)
(***************************************************************************)
CastleRook(m) ==
  LET idx == castle_index(m.to)
  IN  [piece |-> Piece(OfSide(idx), Rook), from |-> castle_rook_sq(idx), to |-> castle_rook_to(idx)]

\* Bits are flipped, not set: king and rook may trade places in Chess960.
td_occ_update(occ, c, m, victim_sq, victim) ==
  LET r == CastleRook(m)
      mover == Xor(occ[c], Xor({m.from}, {m.to}))
  IN  [o \in {white, black} |->
         IF o = c THEN IF m.castling THEN Xor(mover, Xor({r.from}, {r.to})) ELSE mover
         ELSE IF victim # None THEN Xor(occ[o], {victim_sq}) ELSE occ[o]]

\* The writes in the code's order, so that a later one wins.
td_mailbox_apply(on, m, victim_sq, victim) ==
  LET r == CastleRook(m)
  IN  IF m.castling
      THEN [[on EXCEPT ![m.from] = None, ![r.from] = None] EXCEPT ![m.to] = m.piece, ![r.to] = r.piece]
      ELSE [on EXCEPT ![IF victim # None THEN victim_sq ELSE m.from] = None, ![m.from] = None,
                      ![m.to] = IF m.promo # 0 THEN m.promo ELSE m.piece]

td_mailbox_revert(on, m, victim_sq, victim) ==
  LET r == CastleRook(m)
  IN  IF m.castling
      THEN [[on EXCEPT ![m.to] = None, ![r.to] = None] EXCEPT ![m.from] = m.piece, ![r.from] = r.piece]
      ELSE [on EXCEPT ![m.to] = None, ![m.from] = m.piece,
                      ![IF victim # None THEN victim_sq ELSE m.to] = victim]

td_keys_update(keys, m, victim_sq, victim) ==
  LET r == CastleRook(m)
      kd == Xor(PieceKey(m.piece, m.from), IF m.promo = 0 THEN PieceKey(m.piece, m.to) ELSE {})
      kp == IF m.promo = 0 THEN {} ELSE PieceKey(m.promo, m.to)
      kc == IF victim = None THEN {} ELSE PieceKey(victim, victim_sq)
      kr == Xor(PieceKey(r.piece, r.from), PieceKey(r.piece, r.to))
      Part(i, pc, k) == IF i \in {kKeyA(pc), kKeyB(pc)} THEN k ELSE {}
  IN  [i \in KEY_PAWN..KEY_NP_B |->
         Xor(Xor(Xor(keys[i], Part(i, m.piece, kd)), Xor(Part(i, m.promo, kp), Part(i, victim, kc))),
             IF m.castling THEN Part(i, r.piece, kr) ELSE {})]

UndoOf(td, m) ==
  LET c == td.side
      here == td.piece_on[m.to]
      victim == IF m.enpass THEN Piece(1 - c, Pawn)
                ELSE IF here \in {Piece(1 - c, t) : t \in 0..5} THEN here ELSE None
  IN  [old_castle |-> td.castle, old_enpassant |-> td.ep, keys |-> td.keys, key |-> td.key, fifty |-> td.fifty,
       plies_from_null |-> td.plies_from_null, occ |-> td.occ,
       captured_piece |-> IF m.capture THEN victim ELSE None,
       captured_square |-> IF m.capture THEN (IF m.enpass THEN m.to - Up(c) ELSE m.to) ELSE None]

\* The bitboards after a move.
WithoutCaptured(bb, undo) == IF undo.captured_piece = None THEN bb ELSE Lifted(bb, undo.captured_piece, undo.captured_square)
Promoting(bb, m) == IF m.promo = 0 THEN bb ELSE Placed(Lifted(bb, m.piece, m.to), m.promo, m.to)
Castling(bb, m, r) == IF m.castling THEN Placed(Lifted(bb, r.piece, r.from), r.piece, r.to) ELSE bb
MovedBoards(td, m, undo) ==
  Castling(Promoting(WithoutCaptured(Placed(Lifted(td.bb, m.piece, m.from), m.piece, m.to), undo), m), m, CastleRook(m))

MovedKey(td, m, undo, ep, castle) ==
  LET r == CastleRook(m)
      victim == IF undo.captured_piece = None THEN {} ELSE PieceKey(undo.captured_piece, undo.captured_square)
      promo == IF m.promo = 0 THEN {} ELSE Xor(PieceKey(m.piece, m.to), PieceKey(m.promo, m.to))
      rook == IF m.castling THEN Xor(PieceKey(r.piece, r.from), PieceKey(r.piece, r.to)) ELSE {}
      state == Xor(Xor(EnpassantKey(td.ep), EnpassantKey(ep)), Xor(CastleKey(td.castle), CastleKey(castle)))
  IN  Xor(Xor(Xor(td.key, Xor(PieceKey(m.piece, m.from), PieceKey(m.piece, m.to))), Xor(victim, promo)),
          Xor(Xor(rook, state), side_key))

\* The bitboards and flags an unmake (and the rollback of an illegal move) puts back one by one.
WithCaptured(bb, undo) == IF undo.captured_piece = None THEN bb ELSE Placed(bb, undo.captured_piece, undo.captured_square)
CastlingBack(bb, m, r) == IF m.castling THEN Placed(Lifted(bb, r.piece, r.to), r.piece, r.from) ELSE bb
PutBack(td, m, undo) ==
  [td EXCEPT !.side = 1 - @,
     !.bb = CastlingBack(WithCaptured(Placed(Lifted(@, IF m.promo # 0 THEN m.promo ELSE m.piece, m.to), m.piece, m.from), undo),
                         m, CastleRook(m)),
     !.castle = undo.old_castle, !.ep = undo.old_enpassant,
     !.keys = undo.keys, !.key = undo.key, !.fifty = undo.fifty, !.occ = undo.occ,
     !.piece_on = td_mailbox_revert(@, m, undo.captured_square, undo.captured_piece)]

MadeBoard(td, m, undo, bb, ep, castle) ==
  [td EXCEPT !.bb = bb, !.ep = ep, !.castle = castle, !.side = 1 - @,
     !.fifty = IF Type(m.piece) = Pawn \/ m.capture THEN 0 ELSE @ + 1,
     !.key = MovedKey(td, m, undo, ep, castle),
     !.occ = td_occ_update(@, td.side, m, undo.captured_square, undo.captured_piece),
     !.keys = td_keys_update(@, m, undo.captured_square, undo.captured_piece),
     !.piece_on = td_mailbox_apply(@, m, undo.captured_square, undo.captured_piece)]

MadeMove(td, m, undo, bb) ==
  MadeBoard(td, m, undo, bb, IF m.double THEN EpSquare(bb, td.side, m.to) ELSE no_sq,
            RightsLeft(td.castle, m))

\* Result: whether the move was made, the board, and the copy the unmake needs.
Verdict(made, m, undo, legal) ==
  [made |-> legal, undo |-> undo,
   td |-> IF legal THEN [made EXCEPT !.plies_from_null = @ + 1] ELSE PutBack(made, m, undo)]
Tested(made, m, undo, known_legal) == Verdict(made, m, undo, known_legal \/ ~ LeavesKing(made))
MakeWith(td, m, undo, known_legal) == Tested(MadeMove(td, m, undo, MovedBoards(td, m, undo)), m, undo, known_legal)
td_make_move(td, m, known_legal) == MakeWith(td, m, UndoOf(td, m), known_legal)

UnmakeKeepsCount(td, m, undo) == PutBack(td, m, undo)
td_unmake_move(td, m, undo) ==
  [PutBack(td, m, undo) EXCEPT !.plies_from_null = undo.plies_from_null]

(***************************************************************************)
(* Steps into a child and back.                                            *)
(***************************************************************************)
Pushed(td) == [td EXCEPT !.rep = Append(@, td.key), !.ply = @ + 1]
Popped(td) == [td EXCEPT !.rep = SubSeq(@, 1, Len(@) - 1), !.ply = @ - 1]

Stepped(r) == [r EXCEPT !.td = IF r.made THEN @ ELSE Popped(@)]
step_in(td, m, legal) ==
  Stepped(td_make_move(Pushed(td), m, (legal \/ ~ InCheck(td)) /\ ~ (g_chess960 /\ m.castling)))

step_out(td, m, undo) == Popped(td_unmake_move(td, m, undo))

step_in_null(td) ==
  [Pushed(td) EXCEPT !.key = Xor(Xor(@, EnpassantKey(td.ep)), side_key),
                     !.ep = no_sq, !.side = 1 - @, !.plies_from_null = 0]

NullUndo(td) == [enpassant |-> td.ep, fifty |-> td.fifty, plies_from_null |-> td.plies_from_null, hash |-> td.key]

step_out_null(td, u) ==
  [Popped(td) EXCEPT !.side = 1 - @, !.ep = u.enpassant, !.fifty = u.fifty,
                     !.plies_from_null = u.plies_from_null, !.key = u.hash]

(***************************************************************************)
(* Repetitions.  rep is the table up to its index: its last entry is the   *)
(* position one ply ago.                                                   *)
(***************************************************************************)
Least(S) == CHOOSE n \in S : \A k \in S : n <= k
WindowOverNull(td) == Least({td.fifty, Len(td.rep)})
Window(td) == Least({td.fifty, td.plies_from_null, Len(td.rep)})
KeyAgo(td, plies) == td.rep[Len(td.rep) - (plies - 1)]

\* The one reversible move whose key is the difference, if there is one.
rev_move_of(key) ==
  LET n == key \ side_key
      pcs == {k \div 64 : k \in n}
  IN  IF side_key \subseteq key /\ Cardinality(n) = 2 /\ Cardinality(pcs) = 1 /\ pcs \subseteq Pieces
      THEN {mv \in {<<k % 64, l % 64>> : k \in n, l \in n} :
              mv[1] < mv[2] /\ \A pc \in pcs : Type(pc) # Pawn /\ mv[2] \in Attacks(Type(pc), mv[1], {})}
      ELSE {}

\* The opponent's part of the key change of the last `back` plies.
Theirs(td, back) ==
  LET D[k \in 1..back] ==
        IF k = 1 THEN Xor(Xor(td.key, KeyAgo(td, 1)), side_key)
        ELSE IF k % 2 = 0 THEN D[k - 1]
        ELSE Xor(D[k - 2], Xor(Xor(KeyAgo(td, k - 1), KeyAgo(td, k)), side_key))
  IN  D[back]

OddButLast(lo, hi) == {k \in lo..(hi - 1) : k % 2 = 1}
Odd(lo, hi) == {k \in lo..hi : k % 2 = 1}

td_upcoming_repetition(td) ==
  LET window == Window(td)
      Closes(back) ==
        /\ Theirs(td, back) = {}
        /\ \E mv \in rev_move_of(Xor(td.key, KeyAgo(td, back))) :
             /\ between_tbl[mv[1]][mv[2]] \cap All(td) = {}
             /\ \/ td.ply > back
                \/ /\ (IF mv[1] \in All(td) THEN mv[1] ELSE mv[2]) \in td.occ[td.side]
                   /\ \E k \in Odd(back + 2, window) : KeyAgo(td, k) = KeyAgo(td, back)
  IN  \E back \in Odd(3, window) : Closes(back)

repeated_draw(td) ==
  LET end == Window(td)
      Same(i) == KeyAgo(td, i) = td.key
      first == {i \in 4..end : i % 2 = 0 /\ Same(i) /\ \A j \in 4..(i - 1) : j % 2 = 0 => ~ Same(j)}
  IN  \E i \in first : i < td.ply \/ \E j \in (i + 4)..end : (j - i) % 2 = 0 /\ Same(j)
=============================================================================
