------------------------------- MODULE TbProbe -------------------------------
(***************************************************************************)
(* The probes of the Syzygy tablebases: probe_table, probe_ab, probe_wdl,  *)
(* probe_dtz and probe_root of fathom/tbprobe.c, syzygy_probe_root and the *)
(* root of launch_search that plays by them.                               *)
(*                                                                         *)
(* The chess is abstract: positions of one material are the nodes of a     *)
(* graph, a quiet move an edge; a capture or a pawn move leaves for a      *)
(* position of other tables, whose own captures are all that is left of    *)
(* it.  The tables are external: what they promise is stated from the      *)
(* rules, and what they leave open (entries of positions a capture or a    *)
(* pawn move decides, the rounding of distances) is open here too.         *)
(*                                                                         *)
(* Values are the code's, for the side to move: -2 loss, -1 loss the       *)
(* fifty-move rule saves, 0, 1, 2.                                         *)
(***************************************************************************)
EXTENDS Integers, Sequences, FiniteSets, SequencesExt

CONSTANTS
  Limit,        \* plies of the fifty-move rule: 100 in the code
  Graphs,       \* node -> position [turn, check, quiets, zeroing, rest, missing]
  Tables,       \* [stored: side of the DTZ table, exact: in plies, open: what undefined entries hold]
  TbDrawSearch

ASSUME LimitAssumption == Limit \in Nat \ {0}
ASSUME DrawSearchAssumption == TbDrawSearch \in BOOLEAN

VARIABLES
  graph,        \* the chess
  tables,       \* the files
  distance,     \* what the generator of the tables has computed for each node
  at, clock,    \* the game's node and fifty-move counter
  over,         \* "" or how the game on this material has ended
  engine,       \* the engine's side
  g_ignore_50_move_rule  \* in the search a cursed win is a win, a blessed loss a loss

vars == <<graph, tables, distance, at, clock, over, engine, g_ignore_50_move_rule>>

Largest(S) == CHOOSE x \in S : \A y \in S : y <= x
Least(S) == CHOOSE x \in S : \A y \in S : x <= y
One(S) == CHOOSE m \in S : TRUE
Either(a, b) == IF a >= b THEN a ELSE b

WdlToDtz(v) == <<-1, -(Limit + 1), 0, Limit + 1, 1>>[v + 3]

(***************************************************************************)
(* A position's moves.  A zeroing move is [kind, legal, to]: "capture",    *)
(* "ep" or "pawn", and the position it leads to.                           *)
(***************************************************************************)
Legal(S) == {m \in S : m.legal}
Captures(p) == {m \in p.zeroing : m.kind # "pawn"}
PawnMoves(p) == {m \in p.zeroing : m.kind = "pawn"}
LegalMovesButEp(p) == p.quiets # {} \/ \E m \in Legal(p.zeroing) : m.kind # "ep"
HasMoves(p) == p.quiets # {} \/ Legal(p.zeroing) # {}
is_mate(p) == p.check /\ ~ HasMoves(p)

(***************************************************************************)
(* The truth by the rules, and the tables' content.                        *)
(***************************************************************************)
\* A position of other tables: what its quiet moves are worth is given (rest).
RECURSIVE LeafValue(_)
LeafWorth(p, moves) ==
  LET worth == {-LeafValue(m.to) : m \in moves} \cup (IF p.quiets = {} THEN {} ELSE {p.rest})
  IN  IF worth # {} THEN Largest(worth) ELSE IF p.check THEN -2 ELSE 0
LeafValue(p) == LeafWorth(p, Legal(p.zeroing))

\* The distance a move gives, from the distances of the nodes; the best of them.
Ahead(d) == IF d < 0 THEN 1 - d ELSE IF d > 0 THEN -1 - d ELSE 0
AheadTo(g, dist, q) == IF is_mate(g[q]) THEN 1 ELSE Ahead(dist[q])
Options(g, dist, p, zeroing) == {WdlToDtz(-LeafValue(m.to)) : m \in zeroing} \cup {AheadTo(g, dist, q) : q \in p.quiets}
BestOf(p, ds) ==
  CASE ds = {} -> IF p.check THEN -1 ELSE 0
    [] \E d \in ds : d > 0 -> Least({d \in ds : d > 0})
    [] 0 \in ds -> 0
    [] OTHER -> Least(ds)

\* Retrograde: a distance <<node, d>> is settled in the round of its size; what is never settled is drawn.
Known(settled, n) == LET ds == {e[2] : e \in {k \in settled : k[1] = n}} IN IF ds = {} THEN 0 ELSE One(ds)
Round(g, dist, settled, k) ==
  settled \cup {e \in {<<n, BestOf(g[n], Options(g, dist, g[n], Legal(g[n].zeroing)))>> : n \in {m \in DOMAIN g : dist[m] = 0}} :
                 e[2] \in {k, -k}}
AsFunction(g, settled) == [n \in DOMAIN g |-> Known(settled, n)]
Distances(g) ==
  LET rounds == [k \in 1..(Limit + 1 + Cardinality(DOMAIN g)) |-> k]
  IN  AsFunction(g, FoldLeft(LAMBDA settled, k : Round(g, AsFunction(g, settled), settled, k), {}, rounds))

ToWdl(d) == CASE d = 0 -> 0 [] d > 0 -> (IF d <= Limit THEN 2 ELSE 1) [] d < 0 -> (IF -d <= Limit THEN -2 ELSE -1)

\* The result of best play with the clock at c: 1, 0 or -1.
RECURSIVE Result(_, _, _)
Decided(v) == CASE v = 2 -> 1 [] v = -2 -> -1 [] OTHER -> 0
Result(g, n, c) ==
  LET p == g[n]
  IN  CASE ~ HasMoves(p) -> IF p.check THEN -1 ELSE 0
        [] HasMoves(p) /\ c >= Limit -> 0
        [] OTHER -> Largest({-Decided(LeafValue(m.to)) : m \in Legal(p.zeroing)} \cup {-Result(g, q, c + 1) : q \in p.quiets})

\* The result without the fifty-move rule: a win that can be forced, however far, takes no more quiet moves than there
\* are nodes.
Sign(v) == CASE v > 0 -> 1 [] v < 0 -> -1 [] OTHER -> 0
RECURSIVE Unlimited(_, _, _)
Unlimited(g, n, left) ==
  LET p == g[n]
  IN  CASE ~ HasMoves(p) -> IF p.check THEN -1 ELSE 0
        [] HasMoves(p) /\ left = 0 -> 0
        [] OTHER -> Largest({-Sign(LeafValue(m.to)) : m \in Legal(p.zeroing)} \cup {-Unlimited(g, q, left - 1) : q \in p.quiets})

\* The WDL entry: the value without en passant, or anything not above a capture as good.
WdlEntry(p, value) ==
  LET takes == {-LeafValue(m.to) : m \in {k \in Legal(p.zeroing) : k.kind = "capture"}}
  IN  IF takes # {} /\ Largest(takes) >= value
      THEN (IF tables.open = "low" THEN -2 ELSE Largest(takes))
      ELSE value
LeafEntry(p) == WdlEntry(p, LeafWorth(p, {m \in Legal(p.zeroing) : m.kind # "ep"}))
NodeEntry(n) ==
  LET p == graph[n]
  IN  WdlEntry(p, ToWdl(BestOf(p, Options(graph, distance, p, {m \in Legal(p.zeroing) : m.kind # "ep"}))))

\* The DTZ entry, in plies or in moves; open when a zeroing move wins or the value is a draw.
DtzEntry(n, wdl) ==
  LET past == (IF distance[n] < 0 THEN - distance[n] ELSE distance[n]) - (IF wdl \in {-2, 2} THEN 1 ELSE Limit + 1)
      undefined == distance[n] = 0 \/ \E m \in Legal(graph[n].zeroing) : LeafValue(m.to) < 0 /\ -LeafValue(m.to) = wdl
  IN  CASE undefined -> IF tables.open = "low" THEN 0 ELSE 3
        [] OTHER -> IF tables.exact /\ wdl \in {-2, 2} THEN past ELSE past \div 2

(***************************************************************************)
(* The probes.  A result is [s, v]: success and value.  Moves are taken in *)
(* some order.                                                             *)
(***************************************************************************)
Failed == [s |-> 0, v |-> 0]
Found(s, v) == [s |-> s, v |-> v]

probe_wdl_table(p, entry) == IF p.missing THEN Failed ELSE Found(1, entry)

\* The table of one side to move; of the other, -1.
probe_dtz_table(n, wdl) ==
  LET e == DtzEntry(n, wdl)
  IN  CASE tables.dtz_missing -> Failed
        [] ~ tables.dtz_missing /\ graph[n].turn # tables.stored -> Found(-1, 0)
        [] OTHER -> Found(1, IF tables.exact /\ wdl \in {-2, 2} THEN e ELSE 2 * e)

RECURSIVE AbLoop(_, _, _, _)
probe_ab(p, alpha, beta) == AbLoop(p, Legal(Captures(p)), alpha, beta)
AbLoop(p, rest, alpha, beta) ==
  IF rest = {} THEN LET r == probe_wdl_table(p, LeafEntry(p)) IN [r EXCEPT !.v = Either(alpha, @)]
  ELSE LET r == probe_ab(One(rest).to, -beta, -alpha)
       IN  CASE r.s = 0 -> Failed
             [] r.s # 0 /\ -r.v > alpha /\ -r.v >= beta -> Found(1, -r.v)
             [] OTHER -> AbLoop(p, rest \ {One(rest)}, Either(alpha, -r.v), beta)

\* Two slips: an en passant capture that only saves from stalemate is not the value; quiet moves not counted as plies.
StalematedNever(p) == FALSE
QuietScoreUncounted(dtz, q, r) == -r.v

Stalemated(p) == ~ LegalMovesButEp(p) /\ ~ p.check
AfterCaptures(p, bestCap, bestEp, t) ==
  LET best == Either(bestCap, bestEp)
  IN  CASE t.s = 0 -> Failed
        [] t.s # 0 /\ bestEp > bestCap /\ bestEp > t.v -> Found(2, bestEp)
        [] t.s # 0 /\ ~ (bestEp > bestCap /\ bestEp > t.v) /\ best >= t.v -> Found(IF best > 0 THEN 2 ELSE 1, best)
        [] t.s # 0 /\ best < t.v /\ bestEp > -3 /\ t.v = 0 /\ Stalemated(p) -> Found(2, bestEp)
        [] OTHER -> Found(1, t.v)

RECURSIVE WdlLoop(_, _, _, _, _)
WdlLoop(p, entry, rest, bestCap, bestEp) ==
  IF rest = {} THEN AfterCaptures(p, bestCap, bestEp, probe_wdl_table(p, entry))
  ELSE LET m == One(rest)
           r == probe_ab(m.to, -2, -bestCap)
           better == -r.v > bestCap
       IN  CASE r.s = 0 -> Failed
             [] r.s # 0 /\ better /\ -r.v = 2 -> Found(2, 2)
             [] OTHER -> WdlLoop(p, entry, rest \ {m},
                                 IF better /\ m.kind # "ep" THEN -r.v ELSE bestCap,
                                 IF better /\ m.kind = "ep" /\ -r.v > bestEp THEN -r.v ELSE bestEp)
probe_wdl(p, entry) == WdlLoop(p, entry, Legal(Captures(p)), -3, -3)
ProbeWdlAway(m) == probe_wdl(m.to, LeafEntry(m.to))
ProbeWdlNode(n) == probe_wdl(graph[n], NodeEntry(n))

\* probe_dtz.  FromMoves is the case of the table of the other side.
RECURSIVE probe_dtz(_)
Settled(n, wdl, r) ==     \* the value of a quiet move in FromMoves, 0 for none
  LET v == -r.v
  IN  IF v = 1 /\ is_mate(graph[n]) THEN 1
      ELSE IF wdl > 0 THEN (IF v > 0 THEN v + 1 ELSE 0) ELSE v - 1
FromMoves(n, wdl) ==
  LET tries == {[n |-> q, r |-> probe_dtz(q)] : q \in graph[n].quiets}
      values == {Settled(t.n, wdl, t.r) : t \in tries}
  IN  CASE \E t \in tries : t.r.s = 0 -> Failed
        [] (\A t \in tries : t.r.s # 0) /\ wdl > 0 -> Found(1, Least(values \ {0}))
        [] OTHER -> Found(1, Least(values \cup {WdlToDtz(wdl)}))

ByPawn(p, wdl) == \E m \in Legal(PawnMoves(p)) : -ProbeWdlAway(m).v = wdl
PawnFails(p) == \E m \in Legal(PawnMoves(p)) : ProbeWdlAway(m).s = 0
FromTable(n, wdl, t) ==
  CASE t.s = 0 -> Failed
    [] t.s < 0 -> FromMoves(n, wdl)
    [] OTHER -> Found(t.s, WdlToDtz(wdl) + (IF wdl > 0 THEN t.v ELSE -t.v))
DtzOf(n, w) ==
  CASE w.s = 0 -> Failed
    [] w.s # 0 /\ w.v = 0 -> Found(w.s, 0)
    [] w.s = 2 /\ w.v # 0 -> Found(2, WdlToDtz(w.v))
    [] w.s = 1 /\ w.v > 0 /\ ByPawn(graph[n], w.v) -> Found(1, WdlToDtz(w.v))
    [] w.s = 1 /\ w.v > 0 /\ ~ ByPawn(graph[n], w.v) /\ PawnFails(graph[n]) -> Failed
    [] OTHER -> FromTable(n, w.v, probe_dtz_table(n, w.v))
probe_dtz(n) == DtzOf(n, ProbeWdlNode(n))

\* The probe inside the search, right after a zeroing move only: the sign of the score, or none.
wdl_to_score(v) ==
  CASE v = 2 \/ (v = 1 /\ g_ignore_50_move_rule) -> 1
    [] v = -2 \/ (v = -1 /\ g_ignore_50_move_rule) -> -1
    [] OTHER -> 0
syzygy_probe_wdl(w) == IF w.s = 0 \/ clock # 0 THEN {} ELSE {wdl_to_score(w.v)}

(***************************************************************************)
(* The root.                                                               *)
(***************************************************************************)
dtz_to_wdl(cnt50, dtz) ==
  CASE dtz > 0 -> (IF dtz + cnt50 <= Limit THEN 2 ELSE 1)
    [] dtz < 0 -> (IF -dtz + cnt50 <= Limit THEN -2 ELSE -1)
    [] OTHER -> 0

QuietScore(dtz, q, r) ==
  CASE dtz > 0 /\ is_mate(graph[q]) -> 1
    [] OTHER -> IF r.v < 0 THEN 1 - r.v ELSE IF r.v > 0 THEN -1 - r.v ELSE 0
\* Each legal move with its value: [quiet, to node or the move, s, v].
RootQuiets(n, dtz) ==
  {LET r == probe_dtz(q) IN [to |-> q, s |-> r.s, v |-> QuietScore(dtz, q, r)] : q \in graph[n].quiets}
ZeroScore(m, r) == [move |-> m, s |-> r.s, v |-> WdlToDtz(-r.v)]
RootZeroing(n) == {ZeroScore(m, ProbeWdlAway(m)) : m \in Legal(graph[n].zeroing)}

\* Of the values of the moves, those probe_root may answer with.
PickValue(dtz, vs) ==
  CASE dtz > 0 -> {v \in vs : v > 0 /\ \A u \in vs : u > 0 => v <= u}
    [] dtz < 0 -> {v \in vs : v < 0 /\ \A u \in vs : v <= u}
    [] OTHER -> vs \cap {0}

Values(quiets, zeroing) == {r.v : r \in quiets} \cup {r.v : r \in zeroing}
Chosen(quiets, zeroing, vs) == [quiet |-> {r.to : r \in {k \in quiets : k.v \in vs}},
                                zeroing |-> {r.move : r \in {k \in zeroing : k.v \in vs}}]
AnswerOf(root, quiets, zeroing) ==
  LET vs == Values(quiets, zeroing)
      best == PickValue(root.v, vs)
      same == {v \in vs : dtz_to_wdl(clock, v) = dtz_to_wdl(clock, root.v)}
  IN  [probed |-> TRUE, value |-> root.v, best |-> best, moves |-> Chosen(quiets, zeroing, best),
       kept |-> Chosen(quiets, zeroing, same)]
NoAnswer == [probed |-> FALSE]
AnswerIf(root, quiets, zeroing) ==
  IF root.s = 0 \/ (\E r \in quiets : r.s = 0) \/ \E r \in zeroing : r.s = 0 THEN NoAnswer
  ELSE AnswerOf(root, quiets, zeroing)
RootOf(n, root) == AnswerIf(root, RootQuiets(n, root.v), RootZeroing(n))
syzygy_probe_root(n) == RootOf(n, probe_dtz(n))

Size(c) == Cardinality(c.quiet) + Cardinality(c.zeroing)
EveryMove(n) == [quiet |-> graph[n].quiets, zeroing |-> Legal(graph[n].zeroing)]
\* launch_search: the move at once, or a search among the moves that keep a draw; without an answer, any move.
Launched(n, a) ==
  CASE ~ a.probed -> EveryMove(n)
    [] a.probed /\ TbDrawSearch /\ dtz_to_wdl(clock, a.value) \in {-1, 0, 1} /\ Size(a.kept) > 1 -> a.kept
    [] OTHER -> a.moves

(***************************************************************************)
(* The game.                                                               *)
(***************************************************************************)
Init ==
  /\ graph \in Graphs
  /\ distance = Distances(graph)
  /\ tables \in Tables
  /\ at \in DOMAIN graph /\ clock \in 0..(Limit - 1)
  /\ over = ""
  /\ engine = graph[at].turn
  /\ g_ignore_50_move_rule = FALSE

Playing == over = "" /\ HasMoves(graph[at]) /\ clock < Limit

\* A move of the given ones: on this material, or away from it.
Move(choice) ==
  /\ \/ /\ at' \in choice.quiet /\ clock' = clock + 1 /\ over' = ""
     \/ /\ \E m \in choice.zeroing :
             over' = CASE LeafValue(m.to) = -2 -> "won" [] LeafValue(m.to) = 2 -> "lost" [] OTHER -> "drawn"
        /\ UNCHANGED <<at, clock>>
  /\ UNCHANGED <<graph, tables, distance, engine, g_ignore_50_move_rule>>

EngineMoves == Playing /\ graph[at].turn = engine /\ Move(Launched(at, syzygy_probe_root(at)))
OpponentMoves == Playing /\ graph[at].turn # engine /\ Move(EveryMove(at))

\* The option Syzygy50MoveRule, at any time; the root does not read it.
syzygy_set_ignore_50_move_rule ==
  /\ g_ignore_50_move_rule' = ~ g_ignore_50_move_rule
  /\ UNCHANGED <<graph, tables, distance, at, clock, over, engine>>

Next == EngineMoves \/ OpponentMoves \/ syzygy_set_ignore_50_move_rule
Spec == Init /\ [][Next]_vars

(***************************************************************************)
(* Properties.                                                             *)
(***************************************************************************)
\* What the tables are taken to hold follows from the rules: a distance is a win or a loss within the clock.
Here == Result(graph, at, clock)
Searched == IF g_ignore_50_move_rule THEN Unlimited(graph, at, Cardinality(DOMAIN graph)) ELSE Here

\* The WDL probe of every position, its captures and en passant resolved, is its value, and what the search is told
\* after a capture or a pawn move is the result of best play, with the fifty-move rule or, when the option says so, without
\* it; the DTZ probe is the distance or, when the table counts in moves, one less; a win with dtz + clock under the limit is
\* certain whatever the rounding.
DistanceIsTrue(d, c) == Here = 1 <=> d > 0 /\ d + c <= Limit
DtzIsTrue(r, d) ==
  r.s # 0 => /\ (r.v = 0) = (d = 0) /\ (r.v > 0) = (d > 0)
             /\ r.v \in (IF tables.exact /\ ToWdl(d) \in {-2, 2} THEN {d} ELSE {d, IF d > 0 THEN d - 1 ELSE d + 1})
             /\ r.v > 0 /\ r.v + clock <= Limit - 1 => Here = 1
ProbesAreTrue ==
  over = "" => /\ ProbeWdlNode(at).s # 0 => ProbeWdlNode(at).v = ToWdl(distance[at])
               /\ \A score \in syzygy_probe_wdl(ProbeWdlNode(at)) : score = Searched
               /\ \A m \in Legal(graph[at].zeroing) : ProbeWdlAway(m).s # 0 => ProbeWdlAway(m).v = LeafValue(m.to)
               /\ clock < Limit => DistanceIsTrue(distance[at], clock)
               /\ clock < Limit => DtzIsTrue(probe_dtz(at), distance[at])

\* The engine's moves by the tables never give away a result: a won position stays won within the fifty-move rule, one
\* that is not lost is not lost after it.  With distances rounded to moves it is certain of a win the answer promises
\* with a ply to spare, and of draws the clock has no part in.
Standing == CASE over = "won" -> 1 [] over = "lost" -> -1 [] over = "drawn" -> 0 [] OTHER -> Here
StandingAfter(s) == IF over' = "" THEN -Standing' ELSE Standing'
Certain(a) ==
  a.probed /\ (tables.exact \/ a.value = 0 \/ \E v \in a.best : v > 0 /\ v + clock <= Limit - 1)
ResultIsKept ==
  [][Playing /\ graph[at].turn = engine /\ Certain(syzygy_probe_root(at)) => StandingAfter(Standing) >= Standing]_<<at, clock, over>>
=============================================================================
