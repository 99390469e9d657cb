CONSTANTS
  Kernel = "od"
  pawn_attacks <- MCpawn_attacks
  knight_attacks <- MCknight_attacks
  king_attacks <- MCking_attacks
  line <- MCline
  bishop_rays <- MCbishop_rays
  rook_rays <- MCrook_rays
  between_tbl <- MCbetween
  line_bb <- MCline_bb
  empty_bishop_att <- MCempty_bishop
  empty_rook_att <- MCempty_rook
  features <- MCfeatures
  rays <- MCrays
  Router <- MCRouter
  ThreatOrder <- MCThreatOrder
  PawnPairOrder <- MCPawnPairOrder
  GateNets = {1}
  Openings <- MCFull
  Nets = {1, 2}
  KINGSTEP_MIN_PIECES = 15
  PawnSlot <- MCPawnSlot
  PkSlot <- MCPkSlot
SPECIFICATION Spec
INVARIANTS
  AccumulatorsAreRefreshes
CHECK_DEADLOCK FALSE
