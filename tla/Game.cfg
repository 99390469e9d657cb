CONSTANTS
  Kernel = "od"
  pawn_attacks <- MCpawn_attacks
  knight_attacks <- MCknight_attacks
  king_attacks <- MCking_attacks
  line <- MCline
  bishop_rays <- MCbishop_rays
  rook_rays <- MCrook_rays
  between_tbl <- MCbetween
  line_bb <- MCline_bb
  empty_bishop_att <- MCempty_bishop
  empty_rook_att <- MCempty_rook
  Openings <- MCOpenings
  TB_LARGEST = 7
  SeeValues <- MCSeeValues
SPECIFICATION Spec
INVARIANTS
  MovesAreExact
  StateAgrees
  RepetitionsAreFound
  ComingRepetitionsAreFound
  TablebaseMovesAgree
  ExchangesAreRight
  QueueGivesAll
PROPERTIES
  UnmakeRestores
  PlaysByRules
CHECK_DEADLOCK FALSE
