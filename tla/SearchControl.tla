---------------------------- MODULE SearchControl ----------------------------
(***************************************************************************)
(* How a search is started, stopped, pondered and answered: the UCI loop,  *)
(* the master search thread and the helper threads, and the flags they     *)
(* share (search/15_threads.inc, the control of deepen in                  *)
(* search/14_deepen.inc, poll_limits in search/13_search.inc, the command  *)
(* loop of uci_mt.cpp).  The tree search is abstracted to the four things  *)
(* that touch the control state: a root move gets a score, the iteration   *)
(* fails low, it completes, it is cut short by stop_threads.               *)
(*                                                                         *)
(* A step reads or writes one shared flag, except where the other threads  *)
(* cannot tell: writes done while they are all idle, and reads of flags    *)
(* that only move one way while the reader runs.                           *)
(***************************************************************************)
EXTENDS Naturals, Sequences

CONSTANTS MaxHelpers,   \* the largest number of helper threads (max_threads - 1)
          MaxDepth,     \* the deepest iteration (max_ply - 1)
          GoLimits,     \* the limits a go command can carry
          MaxGo         \* bound on the go commands of a behaviour

(* uses: the limits of poll_limits the go sets ("clock" stands for          *)
(* wtime/btime with time for the side to move); depth: 0 for none.          *)
Budgets == {"clock", "movetime", "nodes"}
Limits == [uses : SUBSET Budgets, depth : 0..MaxDepth, mate : BOOLEAN,
           infinite : BOOLEAN, ponder : BOOLEAN]

ASSUME ConstantsAssumption == /\ MaxHelpers \in Nat
                              /\ MaxDepth \in Nat \ {0}
                              /\ GoLimits \subseteq Limits
                              /\ MaxGo \in Nat

VARIABLES
  uci,        \* where the UCI loop is
  cmd,        \* the command it is executing
  limits,     \* g_limits
  goDepth,    \* the depth argument parse_go passes to launch_search
  uciStop,    \* g_uci_stop
  stop,       \* stop_threads
  pondering,  \* g_pondering
  stopAtHit,  \* g_stop_at_ponderhit
  late,       \* the budgets that are used up, as poll_limits would compute them
  master,     \* where the master search thread is ("idle": its worker is not busy)
  noMoves,    \* the root has no legal move (n == 0)
  depth,      \* root_depth of thread 0
  ready,      \* root_move_ready()
  nHelpers,   \* num_threads - 1
  helper,     \* helper worker i: "idle", "given" (job handed over), "search"
  open, asked \* what the GUI is owed (see SearchContract)

flags == <<uciStop, stop, pondering, stopAtHit>>
uciVars == <<uci, cmd, limits, goDepth>>
searchVars == <<master, noMoves, depth, ready>>
vars == <<uciVars, flags, late, searchVars, nHelpers, helper, open, asked>>

Contract == INSTANCE SearchContract

HelperIds == 1..MaxHelpers

UciSteps == {"read", "stopUci", "stopAll", "lock", "notify", "join", "apply",
             "launch", "hitClear", "hitCheck", "done"}
Commands == {"none", "go", "stop", "ponderhit", "sync", "threads", "quit"}
Searching == {"loop", "search", "mate", "verdict", "hold", "cut"}
MasterSteps == {"idle", "given", "root", "hire", "wait", "sleepy", "asleep",
                "unponder", "halt", "joinHelpers", "print", "leave"} \cup Searching

TypeOK ==
  /\ uci \in UciSteps /\ cmd \in Commands
  /\ limits \in Limits /\ goDepth \in 0..MaxDepth
  /\ uciStop \in BOOLEAN /\ stop \in BOOLEAN
  /\ pondering \in BOOLEAN /\ stopAtHit \in BOOLEAN
  /\ late \in SUBSET Budgets
  /\ master \in MasterSteps
  /\ noMoves \in BOOLEAN /\ depth \in 0..MaxDepth /\ ready \in BOOLEAN
  /\ nHelpers \in 0..MaxHelpers
  /\ helper \in [HelperIds -> {"idle", "given", "search"}]
  /\ open \in Seq(SUBSET Contract!Holds) /\ asked \in 0..MaxGo

NoLimits == [uses |-> {}, depth |-> 0, mate |-> FALSE,
             infinite |-> FALSE, ponder |-> FALSE]

Init ==
  /\ uci = "read" /\ cmd = "none"
  /\ limits = NoLimits /\ goDepth = 0
  /\ uciStop = FALSE /\ stop = FALSE /\ pondering = FALSE /\ stopAtHit = FALSE
  /\ late = {}
  /\ master = "idle" /\ noMoves = FALSE /\ depth = 0 /\ ready = FALSE
  /\ nHelpers = 0
  /\ helper = [i \in HelperIds |-> "idle"]
  /\ open = <<>> /\ asked = 0

-----------------------------------------------------------------------------
(* The UCI loop *)

\* Faulty variants the properties must reject stand before the definition they
\* replace.  Here: a wait_release that forgets ponder, or the stop command.
MustWaitForgetsPonder == limits.infinite /\ ~uciStop
MustWaitForgetsStop == limits.infinite \/ pondering

\* wait_release goes through when this is false.
MustWait == (limits.infinite \/ pondering) /\ ~uciStop

\* Commands that begin with stop_search_threads: stop itself, and those that
\* go on to wait_for_search_done (position, ucinewgame, Clear Hash, Hash,
\* EvalFile, ...; Threads, which changes num_threads; quit and end of input).
ReadStopping(c) ==
  /\ uci = "read"
  /\ c \in {"stop", "sync", "threads", "quit"}
  /\ uci' = "stopUci" /\ cmd' = c
  /\ Contract!LetGo
  /\ UNCHANGED <<limits, goDepth, flags, late, searchVars, nHelpers, helper>>

\* parse_go: g_limits is overwritten (start_ms back to 0, so that every budget
\* looks used up) before launch_search stops the search that may be running.
\* The depth reaches g_limits only in launch_search.
ReadGo(l) ==
  /\ uci = "read"
  /\ asked < MaxGo
  /\ uci' = "stopUci" /\ cmd' = "go"
  /\ limits' = [l EXCEPT !.depth = 0] /\ goDepth' = l.depth
  /\ late' = l.uses \ {"nodes"}
  /\ Contract!Go({h \in Contract!Holds : l[h]})
  /\ UNCHANGED <<flags, searchVars, nHelpers, helper>>

\* ponder_hit, its first read included.
ReadPonderHit ==
  /\ uci = "read"
  /\ IF pondering THEN uci' = "hitClear" /\ cmd' = "ponderhit"
                  ELSE UNCHANGED <<uci, cmd>>
  /\ Contract!PonderHit
  /\ UNCHANGED <<limits, goDepth, flags, late, searchVars, nHelpers, helper>>

StopUci ==
  /\ uci = "stopUci"
  /\ uciStop' = TRUE /\ uci' = "stopAll"
  /\ UNCHANGED <<cmd, limits, goDepth, stop, pondering, stopAtHit, late,
                 searchVars, nHelpers, helper, open, asked>>

StopAll ==
  /\ uci = "stopAll"
  /\ stop' = TRUE /\ uci' = "lock"
  /\ UNCHANGED <<cmd, limits, goDepth, uciStop, pondering, stopAtHit, late,
                 searchVars, nHelpers, helper, open, asked>>

HitClear ==
  /\ uci = "hitClear"
  /\ pondering' = FALSE /\ uci' = "hitCheck"
  /\ UNCHANGED <<cmd, limits, goDepth, uciStop, stop, stopAtHit, late,
                 searchVars, nHelpers, helper, open, asked>>

HitCheck ==
  /\ uci = "hitCheck"
  /\ stop' = (stop \/ stopAtHit) /\ uci' = "lock"
  /\ UNCHANGED <<cmd, limits, goDepth, uciStop, pondering, stopAtHit, late,
                 searchVars, nHelpers, helper, open, asked>>

\* Variant: the notification does not pass through the mutex.
NotifyWithoutLock ==
  /\ uci = "lock"
  /\ uci' = "notify"
  /\ UNCHANGED <<cmd, limits, goDepth, flags, late, searchVars, nHelpers,
                 helper, open, asked>>

\* notify_release takes g_release_m and lets it go. The master holds it from
\* the moment it finds it must wait until it is asleep ("sleepy").
NotifyLock ==
  /\ uci = "lock"
  /\ master # "sleepy"
  /\ uci' = "notify"
  /\ UNCHANGED <<cmd, limits, goDepth, flags, late, searchVars, nHelpers,
                 helper, open, asked>>

NotifyAll ==
  /\ uci = "notify"
  /\ master' = IF master = "asleep" THEN "wait" ELSE master
  /\ uci' = IF cmd \in {"stop", "ponderhit"} THEN "read" ELSE "join"
  /\ cmd' = IF cmd \in {"stop", "ponderhit"} THEN "none" ELSE cmd
  /\ UNCHANGED <<limits, goDepth, flags, late, noMoves, depth, ready, nHelpers,
                 helper, open, asked>>

\* Variant: the worker is no longer busy before its job is over.
SearchDoneEarly == master \in {"idle", "print", "leave"}

SearchDone == master = "idle"   \* the worker of the master is not busy

\* wait_for_search_done
Join ==
  /\ uci = "join"
  /\ SearchDone
  /\ uci' = CASE cmd = "go" -> "launch" [] cmd = "quit" -> "done" [] OTHER -> "apply"
  /\ UNCHANGED <<cmd, limits, goDepth, flags, late, searchVars, nHelpers,
                 helper, open, asked>>

\* What the handler does to the board, the tables or the threads once no
\* search runs; for Threads, init_threads with a new number of threads.
Apply ==
  /\ uci = "apply"
  /\ uci' = "read" /\ cmd' = "none"
  /\ IF cmd = "threads" THEN nHelpers' \in 0..MaxHelpers ELSE UNCHANGED nHelpers
  /\ UNCHANGED <<limits, goDepth, flags, late, searchVars, helper, open, asked>>

\* launch_search after the wait. A root covered by the tablebases is answered
\* at once unless the search is held back.
LaunchTablebase ==
  /\ uci = "launch"
  /\ ~limits.infinite /\ ~limits.ponder
  /\ limits' = [limits EXCEPT !.depth = goDepth]
  /\ uci' = "read" /\ cmd' = "none"
  /\ open' = Tail(open)
  /\ UNCHANGED <<asked, goDepth, flags, late, searchVars, nHelpers, helper>>

\* Variant: the early stop of an earlier ponder search is left set.
ResetFlagsButHit == /\ stop' = FALSE /\ uciStop' = FALSE /\ UNCHANGED stopAtHit
                    /\ pondering' = limits.ponder

ResetFlags == /\ stop' = FALSE /\ uciStop' = FALSE /\ stopAtHit' = FALSE
              /\ pondering' = limits.ponder

LaunchSearch ==
  /\ uci = "launch"
  /\ limits' = [limits EXCEPT !.depth = goDepth]
  /\ ResetFlags
  /\ master' = "given"
  /\ uci' = "read" /\ cmd' = "none"
  /\ UNCHANGED <<goDepth, late, noMoves, depth, ready, nHelpers, helper, open, asked>>

Uci == \/ \E c \in Commands : ReadStopping(c)
       \/ \E l \in GoLimits : ReadGo(l)
       \/ ReadPonderHit
       \/ StopUci \/ StopAll \/ HitClear \/ HitCheck \/ NotifyLock \/ NotifyAll
       \/ Join \/ Apply \/ LaunchTablebase \/ LaunchSearch

-----------------------------------------------------------------------------
(* The master thread: SearchWorker::loop around search_position_mt *)

Quiet == \A i \in HelperIds : helper[i] = "idle"

MasterStep(from, to) == master = from /\ master' = to

Take == /\ MasterStep("given", "root")
        /\ UNCHANGED <<uciVars, flags, late, noMoves, depth, ready, nHelpers,
                       helper, open, asked>>

\* Everything up to the start of the helpers; with no legal move (n == 0) the
\* lines of the threads are not reset.
Root(none) ==
  /\ MasterStep("root", IF none THEN "wait" ELSE "hire")
  /\ noMoves' = none
  /\ late' = {}
  /\ IF none THEN UNCHANGED <<depth, ready>> ELSE depth' = 0 /\ ready' = FALSE
  /\ UNCHANGED <<uciVars, flags, nHelpers, helper, open, asked>>

HireHelpers ==
  /\ MasterStep("hire", "loop")
  /\ helper' = [i \in HelperIds |-> IF i <= nHelpers THEN "given" ELSE helper[i]]
  /\ UNCHANGED <<uciVars, flags, late, noMoves, depth, ready, nHelpers, open, asked>>

\* The loop condition of deepen.
MoreDepth == depth < MaxDepth /\ ~stop /\ (limits.depth > 0 => depth < limits.depth)

NextIteration ==
  /\ MoreDepth
  /\ MasterStep("loop", "search")
  /\ depth' = depth + 1
  /\ UNCHANGED <<uciVars, flags, late, noMoves, ready, nHelpers, helper, open, asked>>

LeaveLoop ==
  /\ ~MoreDepth
  /\ MasterStep("loop", "wait")
  /\ UNCHANGED <<uciVars, flags, late, noMoves, depth, ready, nHelpers, helper,
                 open, asked>>

\* root_record gives the first root move a score.
RootMove ==
  /\ MasterStep("search", "search")
  /\ ~stop /\ ready' = TRUE
  /\ UNCHANGED <<uciVars, flags, late, noMoves, depth, nHelpers, helper, open, asked>>

\* Variants: the budgets also count while pondering; the early stop decided
\* while pondering is not looked at; movetime is not.
PollDueInPonder ==
  \/ "clock" \in limits.uses /\ ("clock" \in late \/ stopAtHit) /\ ready
  \/ "movetime" \in limits.uses \cap late /\ ready
  \/ "nodes" \in limits.uses \cap late
PollDueIgnoresHit ==
  /\ ~pondering
  /\ \/ {"clock", "movetime"} \cap limits.uses \cap late # {} /\ ready
     \/ "nodes" \in limits.uses \cap late
PollDueIgnoresMovetime ==
  /\ ~pondering
  /\ \/ "clock" \in limits.uses /\ ("clock" \in late \/ stopAtHit) /\ ready
     \/ "nodes" \in limits.uses \cap late

PollDue ==
  /\ ~pondering
  /\ \/ "clock" \in limits.uses /\ ("clock" \in late \/ stopAtHit) /\ ready
     \/ "movetime" \in limits.uses \cap late /\ ready
     \/ "nodes" \in limits.uses \cap late

\* poll_limits, when it stops the search.
PollLimits ==
  /\ MasterStep("search", "search")
  /\ PollDue
  /\ stop' = TRUE
  /\ UNCHANGED <<uciVars, uciStop, pondering, stopAtHit, late, noMoves, depth,
                 ready, nHelpers, helper, open, asked>>

\* A fail low of the aspiration window takes the early stop back.
FailLow ==
  /\ MasterStep("search", "search")
  /\ ~stop
  /\ stopAtHit' = FALSE
  /\ UNCHANGED <<uciVars, uciStop, stop, pondering, late, noMoves, depth, ready,
                 nHelpers, helper, open, asked>>

\* stop_threads cuts the iteration short: the loop condition ends deepen.
CutShort ==
  /\ stop
  /\ MasterStep("search", "loop")
  /\ UNCHANGED <<uciVars, flags, late, noMoves, depth, ready, nHelpers, helper,
                 open, asked>>

Complete ==
  /\ ~stop
  /\ MasterStep("search", "mate")
  /\ ready' = TRUE
  /\ UNCHANGED <<uciVars, flags, late, noMoves, depth, nHelpers, helper, open, asked>>

\* "go mate": any thread that completes an iteration with the mate stops all.
MateCheck(found) ==
  /\ MasterStep("mate", "verdict")
  /\ found => limits.mate
  /\ stop' = (stop \/ found)
  /\ UNCHANGED <<uciVars, uciStop, pondering, stopAtHit, late, noMoves, depth,
                 ready, nHelpers, helper, open, asked>>

\* The time verdict: over may be true long before the hard limit (settled move,
\* short mate), and is true past it (clock_hard_limit is the maximum). Which
\* flag it sets is decided by g_pondering, read here and acted on one step later.
Verdict(over) ==
  /\ IF "clock" \in limits.uses /\ ~stop /\ ~stopAtHit
     THEN /\ "clock" \in late => over
          /\ MasterStep("verdict", IF ~over THEN "loop"
                                   ELSE IF pondering THEN "hold" ELSE "cut")
     ELSE MasterStep("verdict", "loop")
  /\ UNCHANGED <<uciVars, flags, late, noMoves, depth, ready, nHelpers, helper,
                 open, asked>>

HoldForPonderHit ==
  /\ MasterStep("hold", "loop")
  /\ stopAtHit' = TRUE
  /\ UNCHANGED <<uciVars, uciStop, stop, pondering, late, noMoves, depth, ready,
                 nHelpers, helper, open, asked>>

CutByClock ==
  /\ MasterStep("cut", "loop")
  /\ stop' = TRUE
  /\ UNCHANGED <<uciVars, uciStop, pondering, stopAtHit, late, noMoves, depth,
                 ready, nHelpers, helper, open, asked>>

\* wait_release: the predicate is read under g_release_m.
AfterRelease == IF noMoves THEN "print" ELSE "unponder"

CheckRelease ==
  /\ MasterStep("wait", IF MustWait THEN "sleepy" ELSE AfterRelease)
  /\ UNCHANGED <<uciVars, flags, late, noMoves, depth, ready, nHelpers, helper,
                 open, asked>>

Sleep == /\ MasterStep("sleepy", "asleep")
         /\ UNCHANGED <<uciVars, flags, late, noMoves, depth, ready, nHelpers,
                        helper, open, asked>>

\* A condition variable may wake its waiter with no notification.
SpuriousWake == /\ MasterStep("asleep", "wait")
                /\ UNCHANGED <<uciVars, flags, late, noMoves, depth, ready,
                               nHelpers, helper, open, asked>>

Unponder == /\ MasterStep("unponder", "halt")
            /\ pondering' = FALSE
            /\ UNCHANGED <<uciVars, uciStop, stop, stopAtHit, late, noMoves, depth,
                           ready, nHelpers, helper, open, asked>>

Halt == /\ MasterStep("halt", "joinHelpers")
        /\ stop' = TRUE
        /\ UNCHANGED <<uciVars, uciStop, pondering, stopAtHit, late, noMoves, depth,
                       ready, nHelpers, helper, open, asked>>

\* Variant: the last helper is not waited for.
HelpersDoneButLast == \A i \in 1..nHelpers - 1 : helper[i] = "idle"

HelpersDone == \A i \in 1..nHelpers : helper[i] = "idle"

\* wait_for_threads
JoinHelpers ==
  /\ HelpersDone
  /\ MasterStep("joinHelpers", "print")
  /\ UNCHANGED <<uciVars, flags, late, noMoves, depth, ready, nHelpers, helper,
                 open, asked>>

PrintBestMove ==
  /\ MasterStep("print", "leave")
  /\ open' = Tail(open)
  /\ UNCHANGED <<uciVars, flags, late, noMoves, depth, ready, nHelpers, helper, asked>>

\* busy = false: wait_for_search_done lets the UCI loop go on.
Leave == /\ MasterStep("leave", "idle")
         /\ UNCHANGED <<uciVars, flags, late, noMoves, depth, ready, nHelpers,
                        helper, open, asked>>

Iterate == \/ NextIteration \/ LeaveLoop \/ PollLimits \/ CutShort
           \/ \E found \in BOOLEAN : MateCheck(found)
           \/ \E over \in BOOLEAN : Verdict(over)
           \/ HoldForPonderHit \/ CutByClock

Finish == CheckRelease \/ Sleep \/ Unponder \/ Halt \/ JoinHelpers
          \/ PrintBestMove \/ Leave

Begin == Take \/ (\E none \in BOOLEAN : Root(none)) \/ HireHelpers

Master == Begin \/ Iterate \/ Finish
          \/ RootMove \/ FailLow \/ Complete \/ SpuriousWake

-----------------------------------------------------------------------------
(* The helpers (thread_main) and the budgets *)

HelperStep(i, from, to) ==
  /\ helper[i] = from
  /\ helper' = [helper EXCEPT ![i] = to]
  /\ UNCHANGED <<uciVars, uciStop, pondering, stopAtHit, late, searchVars,
                 nHelpers, open, asked>>

HelperTake(i) == HelperStep(i, "given", "search") /\ UNCHANGED stop

\* It sees stop_threads and its job ends.
HelperQuit(i) == HelperStep(i, "search", "idle") /\ stop /\ UNCHANGED stop

\* It reaches the deepest iteration; the depth limit of go binds thread 0 only.
HelperExhausted(i) == HelperStep(i, "search", "idle") /\ ~stop /\ UNCHANGED stop

HelperFindsMate(i) ==
  HelperStep(i, "search", "search") /\ limits.mate /\ stop' = TRUE

Helper(i) == HelperTake(i) \/ HelperQuit(i) \/ HelperExhausted(i) \/ HelperFindsMate(i)

\* A budget in use is used up: time passes at any moment, nodes are counted by
\* the search.
Spend(b) ==
  /\ b \in limits.uses \ late
  /\ b = "nodes" => master \in Searching
  /\ late' = late \cup {b}
  /\ UNCHANGED <<uciVars, flags, searchVars, nHelpers, helper, open, asked>>

\* The process has left the UCI loop.
Terminated == uci = "done" /\ UNCHANGED vars

Next == \/ Uci
        \/ Master
        \/ \E i \in HelperIds : Helper(i)
        \/ \E b \in Budgets : Spend(b)
        \/ Terminated

Spec == Init /\ [][Next]_vars

(***************************************************************************)
(* Fairness.  The threads are never blocked for good by the scheduler, a   *)
(* mutex that keeps being released is eventually obtained (NotifyLock),    *)
(* and depth 1 scores a first root move; deeper iterations may take for    *)
(* ever (Complete, FailLow), a spurious wake-up need not come, a budget    *)
(* need not run out, a helper need not find a mate or exhaust its depth,   *)
(* and the GUI need not send anything (the Read actions).                  *)
(***************************************************************************)
Fairness ==
  /\ WF_vars(StopUci \/ StopAll \/ HitClear \/ HitCheck \/ NotifyAll \/ Join
             \/ Apply \/ LaunchTablebase \/ LaunchSearch)
  /\ SF_vars(NotifyLock)
  /\ WF_vars(Begin) /\ WF_vars(Iterate) /\ WF_vars(RootMove) /\ WF_vars(Finish)
  /\ \A i \in HelperIds : WF_vars(HelperTake(i)) /\ WF_vars(HelperQuit(i))

FairSpec == Spec /\ Fairness

-----------------------------------------------------------------------------
(* Properties *)

\* The steps of a command between its first write and its notification.
BeforeNotify == {"stopUci", "stopAll", "hitCheck", "lock", "notify"}

\* A master asleep in wait_release with nothing left to wait for always has a
\* notification coming, and one that is about to fall asleep will be found
\* asleep by it: the comment on notify_release, "the wake-up is never lost".
NoLostWakeUp ==
  /\ master = "asleep" /\ ~MustWait => uci \in BeforeNotify
  /\ master = "sleepy" /\ ~MustWait => uci \in BeforeNotify \ {"notify"}

\* Handlers that change the board, the tables or the number of threads, and the
\* exit of the process, meet no search thread (uci_mt.cpp: stop and wait first;
\* 15_threads.inc: the master itself waits for its helpers).
HandlersAlone ==
  uci \in {"apply", "launch", "done"} => master = "idle" /\ Quiet

\* The bestmove is chosen and printed when no thread writes its root lines any
\* more (pick_thread reads those of every thread).
VoteAfterJoin == master \in {"print", "leave"} => Quiet

\* A search starts with the flags of its own go: only a stop that came after it
\* may be set before its first iteration (launch_search).
FreshFlags ==
  master \in {"given", "root", "hire"} => ~stopAtHit /\ (stop => uciStop)

\* SearchWorker::run is never called on a worker whose job is not over: a job
\* is not overwritten and two searches never use one ThreadData.
NoJobOverwritten ==
  [][/\ \A i \in HelperIds : helper'[i] = "given" => helper[i] \in {"idle", "given"}
     /\ master' = "given" => master \in {"idle", "given"}]_vars

\* Pondering, the clock and the other budgets do not end the search: only a
\* stop of the GUI, or a mate for "go mate", sets stop_threads.
PonderRunsOn ==
  [][~stop /\ stop' /\ pondering => uci = "stopAll" \/ limits.mate]_vars

\* The control implements the contract of go and bestmove.
ContractKept == Contract!Spec

Answered == asked - Len(open)

\* After stop, or a command that stops, all that was asked is answered; a go
\* gets the answer of the go commands before it.
StopAnswered ==
  \A n \in 1..MaxGo :
    /\ (asked = n /\ cmd \in {"stop", "sync", "threads", "quit"}) ~> (Answered >= n)
    /\ (asked = n /\ cmd = "go") ~> (Answered >= n - 1)

\* A search that nothing holds back is answered once one of its budgets is used
\* up (in the search itself: until its start, start_ms is not yet its own).
BudgetAnswered ==
  \A n \in 1..MaxGo :
    (/\ asked = n /\ cmd = "none" /\ Answered = n - 1 /\ Head(open) = {}
     /\ limits.uses \cap late # {} /\ master \notin {"given", "root"}) ~> (Answered >= n)

\* The verdict taken while pondering and the ponderhit may cross: deepen finds
\* g_pondering set, ponder_hit clears it and finds g_stop_at_ponderhit not yet
\* set. The early stop still takes place (poll_limits), unless a fail low takes
\* it back.
EarlyStopHeeded ==
  (stopAtHit /\ ~pondering /\ master \in Searching /\ "clock" \in limits.uses)
     ~> (stop \/ ~stopAtHit)

\* The UCI loop always comes back to reading, or ends.
CommandsFinish == (uci # "read") ~> (uci \in {"read", "done"})
=============================================================================
