----------------------------- MODULE MCNetwork -----------------------------
EXTENDS Network

MCpawn_attacks == init_pawn_attacks
MCknight_attacks == init_knight_attacks
MCking_attacks == init_king_attacks
MCline == init_line
MCbishop_rays == init_bishop_rays
MCrook_rays == init_rook_rays
MCbetween == init_between
MCline_bb == init_line_bb
MCempty_bishop == init_empty_bishop
MCempty_rook == init_empty_rook

MCfeatures == build_tables
MCrays == nn_dirty_init

\* A network's routing: an expert that depends on the side's own men, and on its opponent's knights.
MCRouter(n, own, opp) == (own + opp \div 18 + n) % NEXPERTS
MCThreatOrder == <<64 * 31 + 35, 64 * 1 + 12, 64 * 30 + 35, 6399, 64 * 11 + 3>>
MCPawnPairOrder == <<4559, 17, 903>>
\* Small caches: structures of a perspective, or of a side to move, drive each other out.
MCPawnSlot(key) == key[2]
MCPkSlot(key) == key[4]

WP == 0
WN == 1
WB == 2
WR == 3
WQ == 4
WK == 5
BP == 6
BN == 7
BB == 8
BR == 9
BQ == 10
BK == 11
OnBoard(men) == [s \in Squares |-> IF \E m \in men : m[2] = s THEN (CHOOSE m \in men : m[2] = s)[1] ELSE -1]
MCFen(men, side, letters) == [board |-> OnBoard(men), side |-> side, letters |-> letters, ep |-> no_sq, fifty |-> 0]
Walk(fen, texts, plies, values, searches) ==
  [fen |-> fen, c960 |-> FALSE, net |-> 2, texts |-> texts, depth |-> plies, evals |-> values, roots |-> searches, fused |-> FALSE]
Fischer(w, fused) == [w EXCEPT !.c960 = TRUE, !.fused = fused]

\* Squares: 0 is a8, 7 h8, 56 a1, 63 h1.
\* Captures along lines with pieces behind and beyond, answered on the same square; experts change.
Lines_ == Walk(MCFen({<<WK, 62>>, <<WR, 59>>, <<WQ, 51>>, <<WN, 26>>, <<BK, 6>>, <<BR, 3>>, <<BB, 11>>, <<BP, 27>>, <<BN, 35>>}, white, <<>>),
               {<<51, 35>>, <<11, 35>>, <<3, 27>>, <<27, 35>>, <<59, 35>>, <<26, 11>>}, 3, 3, 1)

\* En passant and passed pawns that come and go, promotions with and without a capture; kings that cross the middle.
Pawns_ == Walk(MCFen({<<WK, 60>>, <<WP, 9>>, <<WP, 27>>, <<WP, 33>>, <<BK, 22>>, <<BR, 0>>, <<BP, 10>>, <<BP, 42>>}, black, <<>>),
               {<<10, 26>>, <<27, 18>>, <<42, 33>>, <<60, 59>>}, 3, 2, 1)
Promotes == Walk(MCFen({<<WK, 59>>, <<WP, 9>>, <<WN, 18>>, <<BK, 6>>, <<BN, 0>>, <<BP, 50>>, <<BR, 56>>}, white, <<>>),
                 {<<9, 0>>, <<9, 1>>, <<50, 58>>, <<50, 59>>, <<59, 50>>, <<6, 5>>}, 2, 2, 1)

\* Castling of both sides, and a rook that takes the other's.
Letters == <<<<white, KingSide>>, <<white, QueenSide>>, <<black, KingSide>>, <<black, QueenSide>>>>
Castles == Walk(MCFen({<<WK, 60>>, <<WR, 63>>, <<WR, 56>>, <<WB, 35>>, <<BK, 4>>, <<BR, 0>>, <<BR, 7>>, <<BP, 8>>}, white, Letters),
                {<<60, 62>>, <<60, 58>>, <<4, 6>>, <<63, 7>>, <<35, 8>>}, 2, 2, 1)

\* Chess960: king and rook trade squares, the rook jumps over the king, the king stays where it is.
Traders == Walk(MCFen({<<WK, 61>>, <<WR, 62>>, <<WR, 57>>, <<WQ, 45>>, <<BK, 2>>, <<BR, 1>>, <<BR, 7>>, <<BP, 13>>}, white, Letters),
                {<<61, 62>>, <<61, 58>>, <<2, 6>>, <<45, 13>>, <<57, 1>>}, 2, 2, 1)
Stayers == Walk(MCFen({<<WK, 62>>, <<WR, 63>>, <<WN, 45>>, <<BK, 2>>, <<BR, 0>>, <<BB, 11>>}, white,
                      <<<<white, KingSide>>, <<black, QueenSide>>>>),
                {<<62, 62>>, <<2, 2>>, <<45, 30>>, <<11, 38>>}, 2, 2, 1)

\* Few men, several searches: the caches outlive moves of the game, other networks and other games.
Endings == Walk(MCFen({<<WK, 60>>, <<WP, 51>>, <<WB, 34>>, <<BK, 4>>, <<BP, 11>>}, white, <<>>),
                {<<60, 59>>, <<51, 43>>, <<4, 3>>, <<34, 25>>}, 1, 1, 3)

MCOpenings == {Lines_, Pawns_, Promotes, Castles, Fischer(Traders, FALSE), Fischer(Stayers, TRUE), Endings}

\* The default AVX2 and plain builds, and the number of men of the code: the king of g1 castles with the rook of h1.
Full == Walk(MCFen({<<WK, 62>>, <<WR, 63>>, <<WR, 56>>, <<WQ, 59>>, <<WN, 45>>, <<WP, 53>>, <<WP, 54>>, <<WP, 55>>, <<WP, 36>>,
                    <<BK, 6>>, <<BR, 7>>, <<BR, 0>>, <<BQ, 3>>, <<BP, 13>>, <<BP, 14>>, <<BP, 15>>, <<BP, 28>>}, white,
                   <<<<white, KingSide>>, <<black, KingSide>>>>),
             {<<62, 62>>, <<6, 6>>, <<45, 28>>}, 2, 2, 1)
MCFull == {Fischer(Full, FALSE)}
=============================================================================
