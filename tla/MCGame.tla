------------------------------- MODULE MCGame -------------------------------
EXTENDS Game

MCpawn_attacks == init_pawn_attacks
MCknight_attacks == init_knight_attacks
MCking_attacks == init_king_attacks
MCline == init_line
MCbishop_rays == init_bishop_rays
MCrook_rays == init_rook_rays
MCbetween == init_between
MCline_bb == init_line_bb
MCempty_bishop == init_empty_bishop
MCempty_rook == init_empty_rook

Men(men) == [s \in Squares |-> IF \E m \in men : m[2] = s THEN (CHOOSE m \in men : m[2] = s)[1] ELSE -1]
WP == 0
WN == 1
WB == 2
WR == 3
WQ == 4
WK == 5
BP == 6
BN == 7
BB == 8
BR == 9
BQ == 10
BK == 11
AllRights == <<<<white, KingSide>>, <<white, QueenSide>>, <<black, KingSide>>, <<black, QueenSide>>>>
MCFen(men, side, letters, ep) == [board |-> Men(men), side |-> side, letters |-> letters, ep |-> ep, fifty |-> 0]
Opening(fen, c960, plies, depth, texts) ==
  [fen |-> fen, c960 |-> c960, plies |-> plies, depth |-> depth, texts |-> texts, queues |-> {}]
Both(S) == S \cup {<<m[2], m[1]>> : m \in S}
MCSeeValues == [pc \in 0..11 |-> <<2, 8, 9, 13, 25, 200, 3, 7, 8, 12, 26, 200>>[pc + 1]]

\* Squares: 0 is a8, 7 h8, 56 a1, 63 h1.
\* Four rights, a bishop that bears on the squares the white king crosses, rooks that take each other.
Castles == Opening(MCFen({<<WK, 60>>, <<WR, 63>>, <<WR, 56>>, <<WP, 53>>, <<BK, 4>>, <<BR, 0>>, <<BR, 7>>, <<BB, 20>>}, white, AllRights, no_sq),
                   FALSE, 1, 2, {<<60, 62>>, <<60, 58>>, <<4, 6>>, <<4, 2>>, <<63, 7>>, <<20, 34>>, <<53, 37>>})

\* Chess960, king between its rooks with castling that swaps them, Shredder letters and an outer rook that has no right.
Fischer == Opening(MCFen({<<WK, 61>>, <<WR, 62>>, <<WR, 58>>, <<BK, 1>>, <<BR, 0>>, <<BR, 2>>, <<BR, 7>>, <<BN, 40>>}, white,
                         <<<<white, 6>>, <<white, QueenSide>>, <<black, 2>>, <<black, QueenSide>>>>, no_sq),
                   TRUE, 1, 3, {<<61, 62>>, <<61, 58>>, <<1, 0>>, <<1, 2>>, <<61, 60>>, <<62, 6>>, <<40, 46>>, <<40, 55>>, <<7, 63>>})

\* En passant: opening the king's rank, and answering the check of the pawn that has jumped.
Passing == Opening(MCFen({<<WK, 24>>, <<WP, 27>>, <<WP, 51>>, <<BK, 39>>, <<BR, 31>>, <<BP, 10>>, <<BP, 12>>, <<BP, 36>>}, black, <<>>, no_sq),
                   FALSE, 1, 3, {<<10, 26>>, <<12, 28>>, <<27, 18>>, <<27, 20>>, <<51, 35>>, <<36, 43>>, <<24, 33>>})
PassingCheck == Opening(MCFen({<<WK, 35>>, <<WP, 27>>, <<WB, 56>>, <<BK, 0>>, <<BP, 12>>, <<BP, 10>>, <<BB, 6>>}, black, <<>>, no_sq),
                        FALSE, 1, 2, {<<12, 28>>, <<10, 26>>, <<27, 20>>, <<27, 18>>, <<35, 28>>, <<35, 26>>, <<6, 20>>})

\* Promotions, by capture too, on a rook that still has its right.
Promotes == Opening(MCFen({<<WK, 60>>, <<WP, 9>>, <<WP, 14>>, <<BK, 4>>, <<BR, 0>>, <<BR, 7>>, <<BP, 49>>}, white, AllRights, no_sq),
                    FALSE, 1, 1, {<<9, 0>>, <<9, 1>>, <<14, 7>>, <<49, 57>>, <<4, 2>>, <<4, 6>>})

\* Pins on ranks and diagonals, discovered and double checks.
Pinned == Opening(MCFen({<<WK, 60>>, <<WN, 44>>, <<WB, 51>>, <<WQ, 54>>, <<WR, 36>>, <<BK, 4>>, <<BR, 12>>, <<BB, 24>>, <<BQ, 45>>, <<BN, 20>>}, white, <<>>, no_sq),
                  FALSE, 0, 3, {<<54, 45>>, <<36, 20>>, <<45, 53>>, <<44, 29>>, <<44, 34>>, <<51, 24>>, <<20, 35>>, <<20, 30>>, <<12, 11>>, <<24, 51>>, <<4, 3>>, <<4, 12>>})

\* Kings that come and go: repetitions in the game, across the root and in the search.
Shuffle == Opening(MCFen({<<WK, 56>>, <<WR, 61>>, <<BK, 7>>, <<BP, 33>>, <<WP, 41>>}, white, <<>>, no_sq),
                   FALSE, 3, 5, Both({<<56, 57>>, <<7, 6>>}) \cup {<<61, 60>>})

Long == Opening(MCFen({<<WK, 56>>, <<WR, 61>>, <<BK, 7>>, <<BP, 33>>, <<WP, 41>>}, white, <<>>, no_sq),
                FALSE, 7, 2, Both({<<56, 57>>, <<7, 6>>}))

\* A knight that uncovers a rook and checks too; the answers, and one that is none.
DoubleCheck == Opening(MCFen({<<WK, 56>>, <<WR, 60>>, <<WN, 36>>, <<BK, 4>>, <<BQ, 3>>, <<BR, 7>>}, white, <<>>, no_sq),
                       FALSE, 0, 2, {<<36, 19>>, <<36, 21>>, <<4, 13>>, <<4, 5>>, <<3, 19>>})

\* A FEN with the side that has moved in check: the start position is set up; one with an idle en passant square and
\* rights its rooks do not have.
Refused == Opening(MCFen({<<WK, 60>>, <<BK, 4>>, <<WR, 12>>}, white, <<>>, no_sq), FALSE, 1, 0, {<<52, 36>>, <<57, 42>>})
Corrected == Opening(MCFen({<<WK, 60>>, <<WR, 63>>, <<WP, 28>>, <<BK, 4>>, <<BP, 27>>, <<BR, 1>>}, white, AllRights, 18),
                     FALSE, 0, 1, {})

\* Few men: en passant and promotions as the tablebase library sees them.
Tables == Opening(MCFen({<<WK, 60>>, <<WP, 9>>, <<WP, 27>>, <<BK, 7>>, <<BR, 0>>, <<BP, 12>>}, black, <<>>, no_sq),
                  FALSE, 1, 2, {<<12, 28>>, <<12, 20>>, <<27, 20>>, <<9, 0>>, <<9, 1>>, <<0, 2>>})

\* Exchanges: lines opened one behind another, pawns of two values, a pinner that is taken, that takes and that has
\* another behind it, en passant on an open file.
Static(men, ep) == Opening(MCFen(men, white, <<>>, ep), FALSE, 0, 0, {})
Batteries == Static({<<WK, 62>>, <<WP, 36>>, <<WB, 45>>, <<WQ, 54>>, <<WP, 33>>, <<WQ, 40>>, <<WR, 56>>, <<WN, 38>>, <<WR, 23>>,
                     <<BK, 6>>, <<BN, 27>>, <<BP, 18>>, <<BR, 3>>, <<BN, 24>>, <<BR, 0>>, <<BQ, 10>>, <<BP, 21>>, <<BP, 14>>}, no_sq)
PinnerTaken == Static({<<WK, 60>>, <<WR, 44>>, <<WN, 21>>, <<WP, 30>>, <<WR, 63>>, <<BK, 49>>, <<BR, 4>>, <<BR, 0>>, <<BP, 31>>, <<BP, 14>>,
                       <<WR, 59>>, <<BP, 27>>, <<BP, 18>>, <<BB, 9>>}, 23)
PinnerTakes(behind) == Static({<<WK, 54>>, <<WN, 27>>, <<WP, 40>>, <<BK, 7>>, <<BQ, 9>>, <<BP, 33>>} \cup behind, no_sq)

\* Queues: scores by file, up or down, with a limit under and over the good moves; a promotion by push and by capture,
\* a pawn that wins and one that loses, the same in check and in Chess960 with a pinned rook.
Setting(kind, score, limit, good_quiet, threshold) ==
  [kind |-> kind, score |-> score, limit |-> limit, good_quiet |-> good_quiet, good_capt |-> 1024, threshold |-> threshold]
Rising == [s \in Squares |-> 40 * (s % 8) - 140]
Falling == [s \in Squares |-> 60 - 40 * (s % 8)]
MainSettings == {Setting("main", Rising, -1000, 50, 0), Setting("main", Falling, 20, -50, 0)}
TacticSettings == {Setting("quiesce", Rising, 0, 0, 0), Setting("cuts", Rising, 0, 0, 2), Setting("cuts", Falling, 0, 0, 0)}
Queued(o, queues) == [o EXCEPT !.queues = queues]
Queens == Queued(Opening(MCFen({<<WK, 63>>, <<WP, 54>>, <<WP, 55>>, <<WP, 8>>, <<BK, 7>>, <<BP, 46>>, <<BN, 1>>, <<BP, 37>>}, white, <<>>, no_sq),
                         FALSE, 0, 0, {<<8, 0>>, <<55, 46>>, <<55, 47>>, <<46, 55>>}), MainSettings \cup TacticSettings)
Answers == Queued(Opening(MCFen({<<WK, 60>>, <<WR, 57>>, <<BK, 4>>, <<BP, 11>>, <<BN, 6>>, <<BP, 13>>, <<BQ, 59>>, <<BB, 58>>}, white, <<>>, no_sq),
                          FALSE, 0, 0, {<<60, 59>>, <<60, 53>>}), {Setting("evade", Rising, 0, 0, 0), Setting("evade", Falling, 0, 0, 0)})
Fischers == Queued(Opening(MCFen({<<WK, 61>>, <<WR, 62>>, <<WP, 53>>, <<WP, 54>>, <<WP, 55>>, <<WP, 52>>, <<BK, 0>>, <<BB, 47>>, <<BP, 45>>}, white, <<<<white, 6>>>>, no_sq),
                           TRUE, 0, 0, {<<54, 47>>, <<61, 62>>, <<54, 45>>}), MainSettings)

MCOpenings == {Queens, Answers, Fischers, Batteries, PinnerTaken, PinnerTakes({}), PinnerTakes({<<BB, 0>>}), Tables, Castles, Fischer, Passing, PassingCheck, Promotes, Pinned, Shuffle, Long, DoubleCheck, Refused, Corrected}
=============================================================================
