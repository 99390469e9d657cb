# Triumviratus: TLA+ models, model checking and proofs

Triumviratus is a UCI chess engine: a command loop reads a GUI's commands, a persistent master thread
and persistent helper threads search one position (lazy SMP), a lockless transposition table and
shared statistics connect them, a neural network with incremental inputs evaluates, and several engine
processes may share one copy of the weights. This directory holds TLA+ modules of the engine's
concurrent core (control, threads, table, shared network), of its chess (boards, moves, exchanges,
repetitions, queue, tablebases) and of the inputs of its network, the configurations TLC checks them
with, and TLAPS proofs of the properties that do not depend on the size of an instance. `PROJECT.json` maps every definition to the source lines it
stands for, and lists the runs, the mutants, the theorems, the hazards and the findings.

    tlc -workers 4 -config SearchControl.cfg MCSearchControl     # the runs: see the table below
    tlapm SearchControlProofs.tla                                # the proofs: section 4

## 1. Inventory

Sources are under `src/source/`; `search/*.inc` are one translation unit (`threads.cpp`).

| part (sources) | state | operations | interacts with | what makes it correct |
|---|---|---|---|---|
| **Search control** (`search/15_threads.inc`, `search/02_state.inc`, `uci_mt.cpp`, control of `search/14_deepen.inc`, `poll_limits`) | `stop_threads`, `g_uci_stop`, `g_pondering`, `g_stop_at_ponderhit`, `g_limits`, the progress of the master and the helpers | go, stop, ponderhit, position, ucinewgame, options, quit; launch, deepen, wait_release, join, bestmove | atomics, two condition variables, plain `g_limits` read by running searches | one bestmove per go, in order, never while held back by infinite or ponder; a stop is answered; handlers that touch boards or tables run alone; no lost wake-up |
| **Search threads** (`SearchWorker`) | mutex, condition variable, `job`, `busy` | run, wait, loop | the UCI loop owns the master worker, the master owns the helpers | each job is carried out once, wait returns only after it |
| **Transposition table** (`tt.h`, `hash_read/write/soften`) | buckets of 4 entries of two words, age | probe_tt, store_tt, hash_soften, new_search, clear | every search thread, no lock | a hit belongs to the position asked for; what is stored is found; replacement by depth and age |
| **Iterative deepening, time** (`search/14_deepen.inc`) | depth, aspiration window, root lines, time plan | deepen, clock_plan, clock_hard_limit, settle_lines | flags above, root lines read by `pick_thread` | the first line is the best complete one also when cut; a proved mate is kept; time plan within the clock (control only is modelled) |
| **Choice of the answer** (`pick_thread`, `reply_from_hash`, `expected_key`) | root lines of all threads | a weighted vote | after the join only | a decided complete result wins, else the most support, also when a thread has finished nothing |
| **Tree search** (`search/13_search.inc`, `12_quiesce.inc`) | frames, windows, PV table | explore, move_loop, quiesce | TT, queue, board, statistics | its moves, boards, draws, evaluations and table entries are right (the rows around this one); its value is a heuristic |
| **Move queue** (`11_queue.inc`, `10_order.inc`) | stage, lists | queue_start, queue_next | TT move, statistics | every legal move once, in the order of the stages |
| **Statistics** (`09_history.inc`, `03_tables.inc`, `13_learn.inc`) | history tables, corrections, `SharedStats` | hist_learn, corrections, search_clear, shared_stats_alloc | shared without locks | entries stay in range whatever updates cross |
| **Board** (`07_makemove.inc`, `threads.h`, `movegen.cpp`) | bitboards, mailbox, keys, counters, repetition stack | td_make_move, td_unmake_move, null move, td_upcoming_repetition | network inputs | the game follows the rules of chess; unmake restores everything; what is kept move by move equals what is computed from scratch; repetitions are the real ones |
| **Incremental network inputs** (`06_nndirty.inc`, `nn_dirty.h`) | stack of dirty entries | nn_make_dirty, nn_unmake_dirty, nn_dirty_catch_up | board, accumulators | an evaluation sees the inputs of the board it evaluates |
| **Network** (`consilium/cn.cpp`, `consilium_bridge.cpp`) | weights, accumulators and three caches per thread | load, reload, evaluate, bind to a node | dirty stack, shared network | accumulators and caches equal a fresh computation, whatever was evaluated before |
| **Shared network** (`shared_net.h`) | a named area or file, its lock, `ready`, alias | attach, attach_by_file, release | other processes, which may die | only complete weights of the right content are used |
| **Move generation, attacks, SEE** (`08_movegen.inc`, `movegen_legal.h`, `magic.cpp`, `sliders.*`, `see.cpp`, `chess960.*`) | tables | pure functions of the board | search | legal moves exactly, by every way to them; the exchange as played out |
| **Tablebases** (`syzygy.cpp`, vendored `fathom/`) | loaded tables | probe at the root and in the search | launch_search | the library plays the same chess; probes are true; the move played gives no result away |
| **UCI text, options, parameters** (`uci_mt.cpp`, `io.cpp`, `search/01_params.inc`) | global options | parse_go, parse_position, setoption | control | the command reaches the right handler |
| **Life cycle** (`init_threads`, `search_clear`, `large_pages.cpp`) | `thread_data`, handles, tables | resize, clear | control: only with no search running | no handle used after it is destroyed |
| Packaging, build, logs, self-checks (`universal/`, `incbin/`, `tools/`, `build/`, `perft`, `profile.h`, `*log.h`) | none at run time | | | |

Hard behaviours, each at its line in `PROJECT.json` "hazards": commands that cross each other and the
search (stop, ponderhit, the time verdict, a go that overwrites the limits of a running search); the
hand-over between threads over condition variables; words of one table entry written by two threads;
data read twice with a writer in between; a search cut half-way; processes that die while they create
what others wait for; long sequences of make and unmake followed by delayed updates; a second chess (the
tablebase library's) beside the first, and four generators and validators of moves that must agree;
values packed into 16 and 8 bits.

## 2. Modules

| module | models | kind |
|---|---|---|
| `SearchContract` | what the engine promises about go and bestmove: a queue of unanswered go commands with the reasons their answer is held back | abstract specification |
| `SearchControl` | the UCI loop, the master, the helpers, the flags and limits they share | component |
| `MCSearchControl` | the go commands of the instances | constants for TLC |
| `SearchControlProofs` | proofs about `SearchControl` | proofs |
| `WorkerContract` | what `SearchControl` takes for granted of a worker | abstract specification |
| `SearchWorker` | one persistent thread and its caller, with the mutex and the condition variable | component |
| `SearchWorkerProofs` | proofs about `SearchWorker` | proofs |
| `TranspositionTable` | one bucket and the calls of several threads on it, a word at a time | component |
| `MCTranspositionTable` | the stores of the instances | constants for TLC |
| `TranspositionTableProofs` | proofs about `TranspositionTable` | proofs |
| `SharedNet` | the processes of a machine that share a network, on Windows or on Linux (`platform`) | component |
| `MCSharedNet` | the network each identity of the file holds, the bounds of each platform | constants for TLC |
| `SharedNetProofs` | proofs about `SharedNet` | proofs |
| `ChessRules` | the rules of chess and Chess960 from the coordinates of squares: legal moves, the next position, exchanges played out | abstract specification |
| `AttackTables`, `Bitboard` | the tables computed at the start; sliders (table, obstruction difference, hyperbola), lines between squares | pure definitions |
| `GameBoard`, `Fen` | the game's board: make_move, generator, Chess960 castling, keys; FEN and the text of moves | component |
| `SearchBoard` | a thread's board: copy, make, unmake, null move, partial keys, repetitions | component |
| `LegalMoves` | the legal generator with its stages and evasions, the validation of foreign moves | component |
| `See` | the static exchange evaluation and its shortcuts | component |
| `MoveQueue` | the staged queue of a node | component |
| `TbChess` | the tablebase library's chess and the bridge to it | component |
| `Game` | a game, the searches of its positions and the queues of their nodes: composes all of these | composition, refines `ChessRules` |
| `BoardProofs` | proofs about the boards of `Game`: slider kernels, make and unmake, keys, the moves tried, FEN, the rules | proofs |
| `MoveProofs` | proofs about one move of such a board: attacks and pins, the king after it, what the lists hold | proofs |
| `GameProofs` | proofs about `Game`: the walk, the legality of every position, every way to a move against the rules | proofs |
| `MCGame` | openings, settings of queues, values of pieces | constants for TLC |
| `TbProbe`, `MCTbProbe` | the probes of the tablebases and the root that plays by them | component, constants for TLC |
| `NnFeatures` | which rows of the network's weights a board adds up, by perspective and expert | pure definitions |
| `NnDirty` | what a make leaves on the network's stack, what an unmake takes back, the catch-up | component |
| `Network`, `MCNetwork` | evaluations of a walked tree with the stack, the sums and the caches | composition, constants for TLC |
| `HashFields` | the numbers an entry of the table stores: scores, depths, evaluations, and the division toward zero they use | algorithms |
| `Statistics` | one shared statistic under updates that cross | component |
| `NumberProofs` | proofs about `HashFields`, `Statistics` and `PickThread` | proofs |
| `PickThread` | the vote for the answering thread | component |

`SearchControl` uses a worker only through the three states of `WorkerContract`; `SearchWorker` is
shown to implement it (`ContractKept`). `SearchControl` is shown to implement `SearchContract` with the
history variables `open` and `asked`, which no guard reads except the bound `MaxGo`. That the table is
cleared and aged only when no thread is in it (`AllIdle` in `TranspositionTable`) is what
`HandlersAlone` says of the control, and `new_search` is called by the master before it starts its
helpers. That the lines do not change while `PickThread` reads them is `VoteAfterJoin`. `TranspositionTable`
knows fields, `HashFields` what they do to numbers. `Network` walks the boards of `SearchBoard` that
`Game` shows to be right.

### SearchControl

The UCI loop is in `uci`, executing `cmd`; the master in `master`; helper i in `helper[i]`. A step is
one read or write of a shared flag, except where nobody can tell: `ResetFlags` and `Root` write while
every other thread is idle, and `PollDue` and the loop condition read flags that only move one way while
the reader runs. The master is `"sleepy"` from the moment it has found that it must wait until it is in
the wait set; it holds `g_release_m` then, which is what `NotifyLock` waits for.

* A command that stops (`stop`; "sync" stands for position, ucinewgame, Clear Hash, Hash, EvalFile, and
  the other options that stop first; `threads`; quit or end of input): `ReadStopping`, `StopUci`,
  `StopAll`, `NotifyLock`, `NotifyAll`, and unless it is stop, `Join` and `Apply`.
* go: `ReadGo` (the whole of `parse_go` up to `launch_search`: the limits are overwritten while the old
  search may still run and read them), the same stop and join, then `LaunchTablebase` or `LaunchSearch`.
* ponderhit: `ReadPonderHit`, `HitClear`, `HitCheck`, then the notification.
* master: `Take`, `Root`, `HireHelpers`, the iteration (`NextIteration`, `RootMove`, `FailLow`,
  `PollLimits`, `CutShort`, `Complete`, `MateCheck`, `Verdict`, `HoldForPonderHit`, `CutByClock`,
  `LeaveLoop`), then `CheckRelease`, `Sleep`, `Unponder`, `Halt`, `JoinHelpers`, `PrintBestMove`,
  `Leave`. The helpers: `HelperTake`, `HelperQuit`, `HelperExhausted`, `HelperFindsMate`.

Abstractions. The tree search is the choice between scoring a root move, failing low, completing,
being cut. Time is the set `late` of budgets that are used up: it only grows from the start of a
search on (time passes, nodes are counted), and `ReadGo` makes the clock and movetime look used up
because `start_ms` is 0 until `search_position_mt` sets it. Whether the time verdict says "over" before
the hard limit is a free choice (`Verdict`), since the plan of `deepen` may end a search at any time.
"clock" is in `uses` when `use_tm()` holds; a go whose clock is only the opponent's is the same for the
control. `bench` goes through the same launch and join and has no action of its own. Memory is
sequentially consistent: the flags are atomics and each is read alone, so a relaxed load can only be
late, which interleaving already covers; `g_limits` is not atomic, and its racing reads are modelled as
reading the new value or the old one field by field only as far as the whole record is one value.

### SearchWorker

`mutex` and the two wait states are explicit; a wait releases the mutex in the same step
(`condition_variable::wait`), a notification is a step of its own after the release, both sleepers share
one condition variable, and either may wake for no reason. The caller calls `run` only after a `wait`
that followed its last `run`, which is the assumption `NoJobOverwritten` establishes in
`SearchControl`.

### TranspositionTable

A word is the set of the fields written into it and XOR is symmetric difference, so that two words
cancel exactly in the fields in which they agree. The tag check compares the 48 high bits: tag, depth,
score, bound, PV flag, age and the special bits of the move; the low 16 bits hold the squares and piece
of the move in `data` and the evaluation in `kw XOR data`. What this leaves out is that two different
contents of the high bits may by chance XOR to a tag (a probability of about 2^-48 per torn pair), and
positions of one bucket with equal tags. The two loads and the two stores of an entry come in any order
(plain accesses: the compiler and the processor are free). A scan reads the ways in order and stops at
the first match; the code reads all four and takes the first match, which differs in reads nobody uses.
The vector versions read more at once, so their behaviours are among those of the scalar one.
`given` is a history variable: what the callers of `store_tt` handed over.

### SharedNet

`platform` says which half of `shared_net.h` was compiled; it is chosen in `Init` and never changes. An
object is an area of memory (Windows) or an inode (Linux); `link` gives the object behind each name, and
an area's name goes with its last handle (`ClosedBy`). A process is a path through the code: `StatFile` and
`OpenAlias` (`attach_by_file`, once per directory), `LoadFile`, then on Linux `OpenPath`, `Flock`,
`Recheck`, `Reserve`, the three writes, `Rename`, `Link`, `Unlock`, and on Windows `WaitMutex` or
`WaitTimesOut` and `Poll`, `CheckArea`, `CreateArea`, `MapArea`, the writes, `Release`. `view` is what the
process evaluates with when it is shared, `src` its own copy, `held` what it has open inside a call.

On Windows the name of an area exists from `CreateArea` on, before it is mapped or written. The creator tries
large pages first; when that view cannot be mapped (`MapFails`) it closes the handle, and the name goes unless a
poller has opened the area meanwhile; then it creates an area with normal pages, or opens the blank one the
poller keeps, and when that cannot be mapped either it keeps its private copy and releases the mutex. So a
third process can find a blank area under the mutex though nobody has died. On Linux the file is seen
under its final name only when it is complete, and its creator maps it after the renaming; when that fails
(`RenamedUnmapped`) the file stays for the others.

`faults` counts what may go wrong, by kind. A death (`Die`) may come at any step: handles and locks are closed by
the system, files and a temporary file half written stay, and a new process may have the old one's number. A
mapping may fail at every look at an object that is there (`Missed`: a complete area then looks not ready, a
complete file absent) and at every creation. The system may refuse a lock file, a file, its space, its
renaming, or an area. `Bounds` gives each platform its processes, files, loads and faults.

Abstractions. A half-written network is `Blank`, which is no network. NUMA node, size and PassedScale are
part of every name, so that different values never meet; there is one of each. The temporary name has no
network in it (a process has one at a time). The failures between `open` and `rename` of the temporary
file are one choice, at `Reserve`. Left out: the extra views of NumaSpread, a mutex that cannot be created, a
network embedded in the executable, and an alias that is found again because a file was replaced within one second with the same size and inode.

### ChessRules, AttackTables, Bitboard, GameBoard, Fen, SearchBoard, LegalMoves

A bitboard is the set of its squares; what the code does with 64-bit arithmetic (a subtraction that borrows,
a byte swap, a shift) is kept as arithmetic on the numbers of the bits. A hash key is the set of Zobrist
numbers XORed into it: equal keys mean equal contents, collisions are left out, and so are the magic
numbers (any perfect hash of the masked occupancy gives the tables). A list of moves is a set. `GameBoard` is
`make_move` and the generator of the game, with the copy taken back when the king stands in check; `Fen`
reads a position as `parse_fen` does, with its refusals and corrections. `SearchBoard` keeps beside the
bitboards the mailbox, the occupancies, six partial keys, the counters and the stack of keys, as
`ThreadData` does, and undoes a move from the `UndoInfo` its make left. `LegalMoves` has the generator that
needs no test (pins, check masks, the en passant that opens a rank) and `td_is_pseudo_legal`, by which a move
of the hash table or a killer of another position is admitted. Left out: prefetches, the byte copy of the
mailbox, the guard of a game longer than the stack.

### See, MoveQueue

`See` is `see_ge_impl` with its swaps, the pins that end when the pinner leaves or is taken, and the two
shortcuts. `SeeValues` is any table, with other values for the two colours; en passant and castling count 0
in `see_holds`; exchanges of pseudo-legal moves that are not legal are not compared, and `td_see_ge` is used
for en passant only to have it checked (nothing in the sources calls it so). `MoveQueue` is one call of
`queue_next` per step: fill of a list when its stage begins, hand out, losers put off. A score is any
function of the target square given by a setting, the order of generation any order, and `quiets_off` may be
set after any move, as the counting of `move_loop` does. The bonuses that make the scores are not modelled.

### TbChess, TbProbe

`TbChess` is `tbchess.c` on the library's own board (a1 = 0, colours exchanged, no castling) and
`to_fathom`; `Game` compares it with the engine at every position it may probe. In `TbProbe` the chess is
a graph: nodes are positions of one material, edges quiet moves, and a capture or pawn move leaves for a
position of other tables whose own captures are all that is left of it. The table files are external: `Distances`
states from the rules what a generator would have computed, and what the files leave open (entries a
capture or pawn move decides, distances counted in moves) is open in `tables`. The option `Syzygy50MoveRule`
may change at any time (`syzygy_set_ignore_50_move_rule`): the score told to the search then counts cursed wins and
blessed losses as decided; the root reads the counter whatever the option says. The order of the moves
is any; only in `DtzOf` a pawn move found to win always comes before one whose probe fails (the other order
makes the whole probe fail, and a failed probe claims nothing). Not
modelled: the index of a position in a file, decompression, the search for files, DTM tables and the
ranking API, which the engine does not call.

### NnFeatures, NnDirty, Network

A sum of weights is the bag of the rows it adds, so two sums are equal only when they add the same rows;
biases are rows too. `NnFeatures` is the index arithmetic of `cn.cpp`: king-relative piece rows with
mirroring and expert, threats, pawn pairs, passed pawns, the inputs and the gate of the pawn-king
subnetwork; `ThreatOrder` and `PawnPairOrder` are any stored orders. `NnDirty` is what `nn_make_dirty` leaves and
`nn_dirty_catch_up` adds. `Network` is a handle: the stack of states with the perspectives computed on
each, `evaluate` with its chains (forward from the last state computed, king step, refresh through the king
cache), the pawn and pawn-king caches (`PawnSlot`, `PkSlot`: any hash), a network replaced between two
searches. `fused` tells the builds whose king step reads the old entry first. Left out: the layers above the
sums and their SIMD kernels, the vector emission of the same tuples, reading and checking the file, the
options that are off (`SmpRouteShift`, held experts, `C2PkStale`, `pk_effect`), NUMA copies; functions
nothing calls (`nn_last_unadjusted`, `nn_finalize` and the coefficients of an older optimism).

### HashFields, Statistics, PickThread

`HashFields` translates `to_hash_value`, `from_hash_value`, the packing of score, depth and evaluation and
`eval_unfade` with its 40-bit reciprocal. `Statistics` is one entry that any number of threads update, read
and write being steps of their own, so that an update may be lost; it has the form of the AVX2 build and the
one with the gravity multiplied in. `PickThread` has one step per turn of the loops of `pick_thread`; with one
thread, for which the code returns at once, the loops choose the same.

## 3. Runs

| run | module, configuration | distinct states | shows |
|---|---|---|---|
| `search_control` | `MCSearchControl`, `SearchControl.cfg` | 475,347 | invariants, action properties and refinement of the control, two go commands out of five kinds, up to 2 helpers, depth up to 2 |
| `search_control_live` | `MCSearchControl`, `SearchControlLive.cfg` | 119,493 | liveness under fairness, two go commands out of three kinds, up to 1 helper |
| `search_worker` | `SearchWorker`, `SearchWorker.cfg` | 190 | hand-over of 3 jobs, spurious wake-ups, refinement of `WorkerContract`, liveness |
| `tt_threads` | `MCTranspositionTable`, `TranspositionTable.cfg` | 3,979,432 | two threads in one way, two positions, three stores |
| `tt_solo` | `MCTranspositionTable`, `TranspositionTableSolo.cfg` | 2,525,824 | one thread, two ways, three positions: replacement, keeping, eviction |
| `tt_torn` | `MCTranspositionTable`, `TranspositionTableTorn.cfg` | (violation) | the comment in `tt.h` about the evaluation and torn writes |
| `shared_net` | `MCSharedNet`, `SharedNet.cfg` | 492,790 | on Windows three processes, on Linux two and a replaced file; three loads and any two faults |
| `shared_net_alias` | `MCSharedNet`, `SharedNetAlias.cfg` | (violation) | the comment on `file_alias` |
| `chess_game` | `MCGame`, `Game.cfg` | 2,334 | 19 openings played, searched and queued; every state compares whole sets of moves, keys and boards with the rules |
| `tablebase_probe` | `MCTbProbe`, `TbProbe.cfg` | 496,836 | chains of six positions, three kinds of tables, every value of a fifty-move counter of 4 plies, the search with and without the rule |
| `network_inputs` | `MCNetwork`, `Network.cfg` | 12,889 | seven openings walked with evaluations anywhere |
| `nn_kingstep` | `MCNetwork`, `NetworkKingStep.cfg` | (violation) | the king step of the default builds |

What the properties say:

* `NoLostWakeUp`: the comment on `notify_release`. `HandlersAlone`, `VoteAfterJoin`: what is touched
  without a lock is touched alone (the handlers that stop and wait first; the diagnostic commands of
  `uci_mt.cpp`, which do not, are outside). `FreshFlags`: a search starts with the flags of its own go.
  `NoJobOverwritten`: two searches never share a `ThreadData`. `PonderRunsOn`: no budget ends a search
  while pondering. `ContractKept`: every go is answered once, in order, and not while held back.
* `StopAnswered`, `BudgetAnswered`, `EarlyStopHeeded`, `CommandsFinish`: the liveness of the control.
  `EarlyStopHeeded` is about the crossing of `ponder_hit` with the verdict of `deepen`: if deepen stores
  the early stop after ponderhit looked for it, `poll_limits` still ends the search.
* `ContractKept` (of the worker), `JobsDone`, `WaitReturns`: the worker implements the one `SearchControl`
  assumes, loses no job, and wait comes back.
* `HitIsOfTheKey`: what the tag check covers belongs to the position. `EvalIsOfTheKey`,
  `MoveIsOfTheKey`, `DepthIsNotRaised`, `OneWayPerKey`, `StoreIsFound`, `NoNeedlessEviction`: the table
  used by one thread, over any sequence of calls; they say nothing of two threads, with which the first of them
  fails (section 5). What two threads do to each other is `HitIsOfTheKey` and the run `tt_torn`.
* `AttachedIsWhole`, `OneCopy`, `NotReadyIsAFault`, `LoadEnds`: the shared network. `NotReadyIsAFault`
  is about `attach` on Windows: who has the mutex gives an area up as not ready only when a process has died or a
  mapping has failed, never because of a creator at work; it then keeps a private copy at once (the comment in
  `attach` has it only after 15 minutes). `OneCopy` is conditional on Linux: a process that cannot map the
  complete file it finds writes it again and renames it over the first, so there are two copies after a
  mapping that failed, and only then.
* `PlaysByRules`: the game refines `ChessRules`. `MovesAreExact`: the pseudo-legal lists filtered by make, the
  legal generator whole and by stages, and the validation of a foreign move all give the legal moves of the rules.
  `StateAgrees`: the position is one of the rules; key, partial keys, occupancies, mailbox and position are those from scratch, and survive their
  FEN. `UnmakeRestores`: taking back restores the whole board. `RepetitionsAreFound`: a repetition
  is scored exactly when there is one; `ComingRepetitionsAreFound`: so is a legal move that reaches one. `TablebaseMovesAgree`: the library's chess is the
  engine's. `ExchangesAreRight`: every threshold is answered as the exchange played out on the board.
  `QueueGivesAll`: no move twice, every wanted move when the queue is empty, in the order of the groups, no
  move that is not legal (outside Chess960) except the hash move, which the node tests.
* `ProbesAreTrue`: WDL and DTZ probes, and the score told to the search, are the values of the rules.
  `ResultIsKept`: the move the root plays gives no result away, where the distances are certain.
* `AccumulatorsAreRefreshes`: every sum marked computed, every expert, every cache entry and the last
  evaluation are what an evaluation from scratch gives. `ViewsAreFair`: rows do not depend on colours or
  on left and right, and different features have different rows.

Every property has a mutant in `PROJECT.json`: a plausible slip in one definition (a dropped lock, a
missing reset, an ignored flag, an off-by-one) with which TLC finds it violated. The mutated forms stand
in the modules before the definition they replace.

Bounds. Two go commands are the smallest number at which one search's leftovers, answers and
commands meet another; a third adds no pair. Two helpers tell "one", "another" and "all" apart
(`HelpersDoneButLast` is caught with them), depth 2 tells the first iteration, in which
`root_move_ready` may be false, from the later ones. One way and two threads are enough for torn
entries: the words of a way interact with no other way; replacement needs two ways and a third
position. `MaxStores` counts different stores since the last clear. On Windows three processes are needed for
a creator whose mapping fails, a poller that keeps its blank area and one that then finds it under the mutex;
two faults let both attempts of a creator fail, a creator die after another one's mapping has failed, or a
process die, come back and meet the area that a poller keeps alive. A replaced file changes only the content
loaded there, so one file is enough. On Linux, where what differs is the aliases and the two directories, two
processes race and the file is replaced once. `MaxRounds` 1 lets a wait time out, look, wait again and give up.

The openings of `MCGame` are chosen by hazard: castling of both sides and notations, Chess960 with king and
rook in each other's place, en passant that opens a rank or answers a check, promotions that take a rook with a
right, pins, double checks, long shuffles across the root of a search, refused and corrected FENs, batteries
and pinners in an exchange, queues with scores rising or falling by file. `texts` restricts the moves
walked, never the moves compared: every state compares all of them. Depths of 0 to 5 plies are what each hazard takes. In
`MCTbProbe` the counter ends at 4 instead of 100, so that chains of six positions lie on both sides of it; in
`MCNetwork` the king step is taken from 6 men on instead of 15 (`KINGSTEP_MIN_PIECES`), so that
openings of few men reach it, with two networks, one of them with a gate, caches in which structures drive
each other out, and a handful of moves out of the stored order; `nn_kingstep` has 17 men and the 15 of the
code. These three runs stop at the ends of their walks (`CHECK_DEADLOCK FALSE`), and so do
the runs of `SharedNet`, whose processes are at rest when nobody loads any more; that none of them is stuck
in a load is `LoadEnds`.

Fairness (`FairSpec`). Threads that can run do run; a mutex that keeps being released is obtained in
the end (strong fairness of `NotifyLock`, `LoopLock`, `CallerLock`: the waiter holds it for a few
instructions only); a process in a load of the shared network goes on when it can, a free mutex or lock file included (weak
fairness is enough: loads are bounded, so a lock is not taken from it for ever); the first iteration scores a root move. Nothing is assumed of what need not happen:
further input, the end of a deep iteration, a fail low, the end of a budget, a mate, a spurious
wake-up, a new load, a death, a replaced file, a lock file that cannot be opened; which outcome a mapping has is left open.

## 4. Proofs

Proved for every value of the constants that satisfies the assumptions of the modules
(`ConstantsAssumption`, `TableAssumption`, `RangeAssumption`, ...), all checked by tlapm:

* `SearchControlProofs`: `TypeCorrect`, `WakeUpNotLost`, `HandlersRunAlone`, `VoteIsAfterJoin`,
  `FlagsAreFresh`, `JobsNotOverwritten`, `PonderIsNotCut`, `ContractImplemented`.
  The properties are not inductive as they stand. The strengthening adds where each thread can be
  relative to the others: helpers are busy only between `HireHelpers` and `JoinHelpers`; the master is
  idle when the loop is past `Join`; the length of `open` is one more while a search is between its
  go and its bestmove; the head of `open` holds nothing back once the master is past `wait_release`,
  because `MustWait` is implied by what the head still holds. For the refinement each step is shown to be
  a step of `SearchContract` or to leave `open` and `asked` alone.
* `TranspositionTableProofs`: `TypeCorrect` and `HitsAreOfTheKey`, for any number of threads, ways,
  positions, stores and ages. The invariant says of every word in memory, half-read or about to be written that
  it is either *bound* (a tag together with data given for that position) or carries no tag: then whatever
  two words are combined, a result that passes the check has cancelled every field that was not given for
  the position. It needs the second check in `store_tt` (`StillOurs`): without it the words kept
  from the second reading need not be bound, and the mutant `StillOursAssumed` breaks the property.
  Under `Alone` (one thread uses the table; the option Threads is 1 by default) also `EvalsOfOneThread`,
  `MovesOfOneThread`, `DepthsOfOneThread`, `OneWayOfOneThread`, `StoresOfOneThread`, `EvictionsOfOneThread`,
  for any number of ways, positions, stores and ages. `Alone` cannot be dropped: with two threads
  the first of them fails (`tt_torn`), and so do the others after a tear. The second invariant, `OneInv`, says that every
  way nobody writes is empty or a whole entry of one position (`TableInv`), that no position is in two of them, and
  of a call (`AloneInv`) that what it read is still there, that its scan has met the position in none of the ways it
  passed, and that what it is about to write is an entry of a position in no other way. The eviction needs that
  an entry is worth more than an empty way whatever its age (`RangeAssumption`: depth in 8 bits, 32 ages, `TtAgeWeight`
  from 1 to 16, the range of the parameter). `OneInv` was checked on `TranspositionTableSolo.cfg` before it was proved.
* `SearchWorkerProofs`: `TypeCorrect`, `WaitIsAfterTheJob`, `ContractImplemented`, for any number of
  jobs. The invariant ties `busy` and `job` to the place of the thread and to the count of jobs handed
  over and done: a worker that is not busy has no job and is outside the steps of one.
* `SharedNetProofs`: `TypeCorrect`, `SharedIsWhole`, for any number of processes, networks, files, objects,
  loads and faults (assumption `NetsAssumption`), on both platforms. What is mapped or has a final name is
  ready (`ViewInv`, `PathInv`, `AliasInv`), what is ready is whole (`WholeInv`); that nobody else has what a
  process writes (`WriterInv`) rests on temporary names that nobody else uses (`TmpInv`), including those a
  dead process left, and on objects taken only when no name and no handle has them.
  `OneCopyIsShared` and `OnlyFaultsLeaveHalves` need a second invariant (`CopyInv`) over the first: from the look at a
  name to the last change under it the lock of that directory, or the mutex of that network, is held (`LockInv`), so
  what was found under the name is still so (`HandInv`); an object under the name of a network is of that
  network and no other name of a network shares it (`NamedInv`); what a process maps has the name of a network
  (`MapInv`); and before the first death and the first mapping that fails an area is complete or its creator is still at work (`HalvesInv`).
  The two invariants are carried by each step together.

* `BoardProofs`, `MoveProofs` and `GameProofs`: `Legality` (`LegalPosition`), `Unmaking` (`UnmakeRestores`), `Agreement`
  (`StateAgrees`, which includes `LegalPosition`), `LawfulMoves` (the moves generated and made are the legal moves of `ChessRules`),
  `Exactness` (`MovesAreExact`: so are those of every other way to a move), `Refinement` (`PlaysByRules`) and
  `Repetitions` (`RepetitionsAreFound`), each as `Spec => ...`, for any openings (`OpeningsAssumption`), slider kernel, attack tables that are those of
  `AttackTables`, game length (for `Repetitions` up to 1024 plies, `PliesAssumption`) and search depth. `LegalPosition` says of every position reached that there is one king each, at most 32
  men, and that the side that has moved is not in check.

  *The boards.* What the proofs need of the generators, the evasions and the
  validation of hash and killer moves is `TriedFits`: whatever they let through *fits* the board (`Fit`), that
  is, moves a man of the side to move, takes what stands on the target or in passing, jumps over a free
  square or castles from home over free squares. This covers every way into `td_make_move`, moves of
  other positions included.

  The invariant `GameInv` says that the game's board is sound (`BoardOK`: one man on a square, occupancies, key, rights whose
  king and rook are at home, an en passant square with its pawn behind and a taker beside it), that while a thread
  searches its board is sound with mailbox and partial keys (`ThreadOK`), and that `before`, `frames` and `td` form a `Chain`:
  each board is sound, is exactly what taking its move back from the next one gives, and the next one is the position `ChessRules`
  gives after that move (`Link`). It needs the legality of the positions. `UnmakeRestores` is not inductive without the chain: a
  `StepOut` restores what an arbitrarily distant `StepIn` left. Each step down adds a link (`DownKeeps`), each step back uses one
  (`BackKeeps`). Under it lie, for moves that castle and moves that do not, what a make does to the bitboards, mailbox,
  occupancies, full and partial keys and rights and that the unmake undoes it (`MakeRestores`; castling in
  Chess960 with overlapping squares is the hard case), that make_move of the game and td_make_move of the
  search give the same board, that the masks of the rights and the en passant rule are those of the rules (`StepFollows`),
  that `parse_fen` gives a legal position with keys, occupancies and rights that fit for any FEN, refused ones included
  (`OpeningSound`; its en passant square is one a pawn can take on, and has a pawn to take when that of the FEN has one, `EpBacked`), and reads the FEN of a legal position back (`FenReturns`).
  The prover has no induction, so that the value of a CHOOSE exists (the lowest square of a set, the last letter for a right)
  comes from the library's theorem that inclusion is well-founded on finite sets (`LeastNatural`).

  *The sliders.* A square is a row and a file; two squares are on one of four lines when a number of theirs agrees, and on a line the
  order of the squares is that of their numbers. `KernelsSee` says of each of the three kernels (the borrow of a subtraction
  in `sliders.h`, the same with the board upside down plus the rank table, the tables over the inner squares) that it
  gives the squares of the lines up to the first man (`Sees`), for every occupancy; `KernelsAgree` follows. `between_tbl`,
  `line_bb`, the checkers, the pins and the attackers of a square are proved to be what these lines say (`BetweenIs`, `LineThroughIs`,
  `CheckersAre`, `PinsAre`, `AttackedIs`).

  *Legality.* The engine does not test the king after a move its legal generator listed, nor after one `legal_before` let through
  outside check. The invariant `LegalInv` says that the game's board, the thread's and those before it are `Safe`:
  legal, and `EpSane`: with the pawn that may be taken en passant back where it came from, no slider of its side sees our king.
  `LegalPosition` alone is not inductive: `ep_ok` tests the row of the king and the pin of the taker, never
  the diagonals which the pawn taken leaves open, and relies on the double push having come from a legal position, where the slider behind
  it would have given check to the side that was not to move. `JumpIsSane` proves that every double push keeps it so.
  `ListedIsSafe`: a listed move of a man other than the king goes to a square of the check masks along the line of its pin, so that
  every checker is taken or cut off and no slider is uncovered (`MasksGuard`, `GuardedIsSafe`); the king goes to a square
  that the map of the enemy, drawn with the king lifted, leaves out (`MapIs`, `KingIsSafe`); en passant is `ListedPassing`, `EpIsSafe`.
  `ValidIsSafe`: the same of a validated move, from `on_line`, the attackers of the target and the walk of `legal_before`
  over the lines after en passant (`TestedPassing`). The remaining moves are tested once made (`StepTested`). That the men stay at most 32
  and the kings one each is counted in `MenStay`. Both invariants, `GameInv` and `LegalInv`, were checked on the openings of `chess_game` before the proof.

  *The ways to a move.* `ChessRules` walks square by square from coordinates and looks for check on the board reached; the code has
  tables, kernels, pins and masks. `PieceReach` and the lemmas on pawns and castling show the generated moves to be the candidates of
  the rules, and `LegalMakes` the test of the make to be the rules' own; `LawfulMoves` and `Refinement` follow. Every other way is
  compared with that list and with `Spared`, "the rules find the king safe after the move". A move of another position that passes
  `td_is_pseudo_legal` is in the list, and all of the list pass (`ValidAre`); of a move of another
  position it is enough that it is not a double step and a capture at once (`ForeignIsOneWay`). The test before a make and the legal generator were sound by
  `ValidIsSafe` and `ListedIsSafe`; that they leave out no legal move is the converse. A move that leaves the king safe
  moves a pinned man along its pin and answers every checker (`SafePasses`, `GuardedCovers`); the king goes to a square out of the map,
  which holds only squares hit with the king lifted (`MappedIs`); en passant is the hard case, where two men leave a row
  (`SafePassing`). The stages are a partition of the list (`StagesAre`). Two moves of one position have two texts (`TextsTell`).
  `checks_before` is compared with the attackers of the enemy king on the board reached: directly, by uncovering, by
  promotion, en passant (`TestedChecks`, `GivenChecks`), and by castling, where king and rook both move along one row,
  perhaps over each other (`CastlingChecks`). `EpSane` is needed here too.

  *The repetitions.* `repeated_draw` compares keys alone, every second one from four plies back to the clock, the last null move or the
  start of the table; `Repeats` compares positions over all that came since the last null move. Three things make them agree. Each
  board of the line has recorded the keys of the game and of the line, and the plies since the last null move (`RepInv`, inductive over
  `GameInv` and `LegalInv`; `FollowedDown`, `FollowedUp`, `FollowedPlay`). Keys, here the sets of the numbers that are combined, are equal
  exactly when the positions are, clocks aside (`KeysTell`; two sets of rights with the same rooks are one, `RooksTell`). And what
  no move gives back (men, pawns not yet past a row, rights) shows that a position does not come back across a move that resets the clock,
  nor after two plies, when the man that moved is away (`MoveAdvances`, `PairExtends`, `GoneIsUnlike`, `TwinsAre`). The loop stops at the first hit
  and, at or before the root, looks for a second from four plies on (`LoopFinds`). `PliesAssumption` is needed: the count of 1024 plies
  that stands for "no null move" is a bound of the window.

  `OpeningsAssumption` asks of a FEN what `parse_fen` does not check: that an en passant square which a pawn could use has its pawn behind
  it and is free (`EpBacked` of `SoundFen`), and `EpSane`. A FEN that breaks either is no position a game reaches; from one that breaks
  the second the legal generator can list an en passant capture that leaves its king in check.

* `NumberProofs`, of `HashFields`: `DecidedComesBack`, `OthersComeBack`, `ScoreFits`, `DepthFits`,
  `ReciprocalIsExact`, `EvalComesBack`, `EvalFits`. A quotient is known by its bounds (`QuotientIs`); the
  error of the rounded reciprocal is less than a part of the divisor for |v| up to 2^20, as its comment claims. The
  numbers of the code are definitions of the module and stay closed where they would only slow the prover.
* `NumberProofs`, of `Statistics`: `LearningIsSafe`, `EntriesStayInRange`, for any number of threads and any rewards, for limits up
  to the 32000 the parameters allow (`LimitAssumption`). An update of a value within the limit stays within
  it by itself; since every value read was in the table once, lost updates change nothing. Gravities above 1024,
  which only tuning builds have, are not covered: with them the 16-bit clamp may act.
* `NumberProofs`, of `PickThread`: `VotesAdd`, `TheBestAnswers`, for any number of threads, scores, bounds, depths and vote
  parameters (`LineAssumption`). The invariant says of the threads the walk has passed what the theorem says
  of all (`BestOfWeighed`).

`HashFields`, `Statistics` and `PickThread` have no run, since what they say needs no interleaving that an
instance would show better.

Only model-checked: the liveness properties (ENABLED and fairness are outside the prover); of chess `ComingRepetitionsAreFound`
(the changes of the key are folded over the plies by recursion), `TablebaseMovesAgree`, `ExchangesAreRight` and `QueueGivesAll`, which
compare two algorithms over whole boards or lists (an exchange is a recursion, and the lists of the queue are folded and sorted); the tablebases (their
results are recursive) and the network, where that an update of the bags of rows is exact is checked, not proved.

## 5. Findings

`tt.h:52-54` says that a torn write makes the key check fail and that the evaluation is protected by the
same check. The check compares only the high 48 bits. Two threads that store one position with equal
score, depth, bound, PV flag and age but different squares of the move produce words that differ in the
low 16 bits only; the `kw` of one with the `data` of the other passes, and the evaluation read is garbage
(the run `tt_torn`). The engine clamps what it reads, so this costs accuracy of a static evaluation in a rare
case, not memory safety; the words of the comment are stronger than the code. Two related facts the
model shows: the squares of the move, too, are outside the check, and `hash_soften` has no second check,
so that after a tear a depth can be claimed for a score it was not searched for
(`DepthIsNotRaised` holds for one thread only).

`shared_net.h:258-261` gives the alias of a shared network the identity of the network file on disk, so that a
process can map the weights without reading the file. `attach` looks at that identity after
`load_net_impl` has read the file: when the file is replaced in between (a network copied over the old one
while an engine starts), the alias of the new file is linked to the old weights (the run
`shared_net_alias`). `attach_by_file` does not compare the content hash and an existing alias stays, so every
later engine of the node evaluates with the old network, and reports the new file, until the alias is
removed. A stat before the read, compared with the one after it, would close the gap.

The king step of the network (`cn.cpp:2445-2454`), in the builds without AVX-512 and without
`CN_AVX2_FUSED`, brings the king-cache entry of the parent and then that of the child up to date, and forms
the difference of the two only then. When the king castles without moving (Chess960, `cn.cpp:2547-2549` admits it: a
castling is a barrier, and the half of the board is the same) and 15 men or more are left, the two are one entry: the difference is
empty, and the two rows of the rook that jumped are missing from that side's sum and from every state
computed from it (the run `nn_kingstep`). The other builds read the parent's entry before the child's update;
`network_inputs` passes with them. `16_tdperft.inc:163-167` and `consilium_bridge.cpp:900` ask for
exactly this equality; a test in `evaluate` that sends a castling on one square to the refresh would do.

Smaller things met on the way, which no run is about:

* `12_quiesce.inc:40-42` says that a win beyond the fifty-move counter "comes back as the lowest decided
  value"; it comes back as `TB_WIN_FLOOR - 1`, which is not decided (`DecidedComesBack` states the code).
* `15_threads.inc:307-309` says that between two decided results the larger one is preferred and that a lost score never
  replaces anything. A complete decided loss does replace any undecided line, and between two losses the
  absolute value prefers the nearer one (`TheBestAnswers` states the code).
* `syzygy.cpp:117` says that `Syzygy50MoveRule` true makes a cursed win a real one; it is `false` that does
  (`01_params.inc:2025-2027` sets the opposite flag).
* `launch_search` plays the tablebase move without looking at `go searchmoves`.
* A DTZ file that cannot be set up marks its material as in error, and with it the WDL table.
* Tables that count distances in moves can lose a win at the edge of the fifty-move rule, as
  `tbprobe.c:2238-2251` documents; `ResultIsKept` therefore asks for a ply to spare there.

## 6. Not modelled

* **The values of the tree search** (`13_search.inc`, `12_quiesce.inc`): reductions, prunings and margins
  make the value of a node a heuristic, and no reference says what it should be. What a node relies on (moves, board,
  draws, evaluations, probes, entries of the table) is modelled and checked in the modules above.
* **The lines of `deepen`** (aspiration window, multi-PV, the recovery of a mate) and the time plan: one
  thread's bookkeeping over scores that only the tree search gives. The control of a search that is cut is in
  `SearchControl`.
* **The scores of the move queue and which statistics a node rewards**: weights without a specification;
  the queue is checked for any score, an entry for any reward.
* **The layers of the network and their SIMD kernels**, the scaling of the result, the check of the file:
  arithmetic without state; its inputs are what the model compares.
* **The table files of the tablebases**: their promise is stated, their format is not read.
* **Allocation and NUMA placement** (`large_pages.cpp`, `shared_stats_alloc`, `init_threads`): it happens when
  every thread is idle, which is `HandlersAlone`.
* **Text** of the commands and options beyond FEN and moves, packaging, build scripts, logs, profiling,
  self-checks: no state of the engine.
* `reply_from_hash` and `expected_key` (a ponder move to print, a key for the clock of the next search),
  `SmpRouteShift`, held experts, `C2PkStale`, pawn corrections of the exchange: off by default or without effect on
  what the properties say.
