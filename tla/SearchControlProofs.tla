------------------------- MODULE SearchControlProofs -------------------------
(***************************************************************************)
(* Proofs about SearchControl, for every number of helpers, depth and set  *)
(* of go commands.                                                         *)
(***************************************************************************)
EXTENDS SearchControl, TLAPS

Stopping == {"go", "stop", "sync", "threads", "quit"}

\* A search has been handed to the master and its bestmove is not out.
Running == master \notin {"idle", "leave"}

\* Which command is being executed at which step.
CmdMatches ==
  /\ uci = "read" => cmd = "none"
  /\ uci \in {"stopUci", "stopAll", "join"} => cmd \in Stopping
  /\ uci = "join" => cmd # "stop"
  /\ uci \in {"hitClear", "hitCheck"} => cmd = "ponderhit"
  /\ uci \in {"lock", "notify"} => cmd # "none"
  /\ uci = "launch" => cmd = "go"
  /\ uci = "apply" => cmd \in {"sync", "threads"}
  /\ uci = "done" => cmd = "quit"

\* Helpers beyond num_threads never run; the others run only between their
\* hiring and the wait for them, in a search that has moves.
HelpersBound ==
  /\ \A i \in HelperIds : i > nHelpers => helper[i] = "idle"
  /\ master \in {"idle", "given", "root", "hire", "print", "leave"} => Quiet
  /\ noMoves /\ master \in {"wait", "sleepy", "asleep"} => Quiet
  /\ master \in Searching \cup {"hire", "unponder", "halt", "joinHelpers"} => ~noMoves

MasterIdle == uci \in {"apply", "launch", "done"} => master = "idle"

\* The flags at the steps where they are known.
FlagsKnown ==
  /\ uci = "stopAll" => uciStop
  /\ uci = "hitCheck" => ~pondering
  /\ master \in {"cut", "halt", "joinHelpers"} => ~pondering

\* Nobody but the running search and the go in progress is owed a bestmove.
Owed ==
  Len(open) = (IF Running THEN 1 ELSE 0) + (IF cmd = "go" THEN 1 ELSE 0)

\* While a hold is on the bestmove of the running search, wait_release waits.
Held ==
  Running =>
    /\ "infinite" \in open[1] => limits.infinite /\ ~uciStop
    /\ "ponder" \in open[1] => pondering /\ ~uciStop
    /\ cmd \in Stopping => open[1] = {}
    /\ cmd = "ponderhit" => "ponder" \notin open[1]
    /\ master \in {"unponder", "halt", "joinHelpers", "print"} => open[1] = {}

\* The go in progress holds its bestmove as its limits say.
NewHolds ==
  cmd = "go" => open[Len(open)] = {h \in Contract!Holds : limits[h]}

UciInv == CmdMatches /\ MasterIdle /\ Owed

FlagInv == FlagsKnown /\ NoLostWakeUp /\ FreshFlags

\* The inductive invariant, and what the contract needs on top of it.
IInv == TypeOK /\ UciInv /\ HelpersBound /\ FlagInv

ContractInv == Held /\ NewHolds

-----------------------------------------------------------------------------
(* Types.  Only a search that runs or a go at its launch takes a bestmove off *)
(* what is owed, so Tail is never applied to the empty sequence.              *)

\* The fields of the limits that guards read.
LEMMA LimitsFields ==
  ASSUME NEW l \in Limits
  PROVE  l.infinite \in BOOLEAN /\ l.ponder \in BOOLEAN /\ l.depth \in 0..MaxDepth
BY DEF Limits

\* launch_search gives the limits their depth.
LEMMA LimitsType ==
  ASSUME NEW l \in Limits, NEW d \in 0..MaxDepth
  PROVE  [l EXCEPT !.depth = d] \in Limits
BY DEF Limits

\* The program starts well typed.
LEMMA InitType == Init => TypeOK
<1> SUFFICES ASSUME Init PROVE TypeOK
  OBVIOUS
<1>1. limits \in Limits
  BY ConstantsAssumption DEF Init, NoLimits, Limits
<1>2. open \in Seq(SUBSET Contract!Holds)
  BY DEF Init
<1>3. depth \in 0..MaxDepth /\ goDepth \in 0..MaxDepth /\ nHelpers \in 0..MaxHelpers
        /\ asked \in 0..MaxGo
  BY ConstantsAssumption DEF Init
<1> QED
  BY <1>1, <1>2, <1>3, Zenon DEF Init, TypeOK, UciSteps, Commands, MasterSteps

\* Letting the answers go keeps their number.
LEMMA LetGoType ==
  ASSUME NEW s \in Seq(SUBSET Contract!Holds)
  PROVE  /\ Contract!AllLetGo(s) \in Seq(SUBSET Contract!Holds)
         /\ Len(Contract!AllLetGo(s)) = Len(s)
BY DEF Contract!AllLetGo

\* Each step keeps the types, if a bestmove is only taken off a non-empty queue.
LEMMA StepType ==
  ASSUME TypeOK, [Next]_vars, master = "print" \/ uci = "launch" => open # <<>>
  PROVE  TypeOK'
<1> USE ConstantsAssumption
    DEF TypeOK, UciSteps, Commands, Searching, MasterSteps, vars, uciVars, flags,
        searchVars, MasterStep, HelperStep
<1>1. ASSUME NEW c \in Commands, ReadStopping(c) PROVE TypeOK'
  BY <1>1 DEF ReadStopping, Contract!LetGo, Contract!AllLetGo
<1>2. ASSUME NEW l \in GoLimits, ReadGo(l) PROVE TypeOK'
  <2>1. limits' \in Limits
    BY <1>2, LimitsType DEF ReadGo
  <2>2. open' \in Seq(SUBSET Contract!Holds)
    <3>1. {h \in Contract!Holds : l[h]} \in SUBSET Contract!Holds
      OBVIOUS
    <3> QED
      BY <1>2, <3>1, LetGoType DEF ReadGo, Contract!Go
  <2>3. goDepth' \in 0..MaxDepth /\ late' \in SUBSET Budgets
    BY <1>2 DEF ReadGo, Limits
  <2>4. asked' \in 0..MaxGo
    BY <1>2 DEF ReadGo, Contract!Go
  <2> QED
    BY <1>2, <2>1, <2>2, <2>3, <2>4 DEF ReadGo
<1>3. CASE ReadPonderHit
  <2>1. open' \in Seq(SUBSET Contract!Holds)
    BY <1>3 DEF ReadPonderHit, Contract!PonderHit
  <2> QED
    BY <1>3, <2>1 DEF ReadPonderHit, Contract!PonderHit
<1>4. CASE StopUci
  BY <1>4 DEF StopUci
<1>5. CASE StopAll
  BY <1>5 DEF StopAll
<1>6. CASE HitClear
  BY <1>6 DEF HitClear
<1>7. CASE HitCheck
  BY <1>7 DEF HitCheck
<1>8. CASE NotifyLock
  BY <1>8 DEF NotifyLock
<1>9. CASE NotifyAll
  BY <1>9 DEF NotifyAll
<1>10. CASE Join
  BY <1>10 DEF Join, SearchDone
<1>11. CASE Apply
  BY <1>11 DEF Apply
<1>12. CASE LaunchTablebase
  <2>1. limits' \in Limits
    BY <1>12, LimitsType DEF LaunchTablebase
  <2>2. open' \in Seq(SUBSET Contract!Holds)
    BY <1>12 DEF LaunchTablebase
  <2> QED
    BY <1>12, <2>1, <2>2 DEF LaunchTablebase
<1>13. CASE LaunchSearch
  <2>1. limits' \in Limits
    BY <1>13, LimitsType DEF LaunchSearch, ResetFlags
  <2>2. pondering' \in BOOLEAN
    BY <1>13, LimitsFields DEF LaunchSearch, ResetFlags
  <2> QED
    BY <1>13, <2>1, <2>2 DEF LaunchSearch, ResetFlags
<1>14. CASE Take
  BY <1>14 DEF Take
<1>15. ASSUME NEW none \in BOOLEAN, Root(none) PROVE TypeOK'
  <2>1. depth' \in 0..MaxDepth
    BY <1>15 DEF Root
  <2>2. ready' \in BOOLEAN
    BY <1>15, Zenon DEF Root
  <2> QED
    BY <1>15, <2>1, <2>2 DEF Root
<1>16. CASE HireHelpers
  BY <1>16 DEF HireHelpers
<1>17. CASE NextIteration
  BY <1>17 DEF NextIteration, MoreDepth
<1>18. CASE LeaveLoop
  BY <1>18 DEF LeaveLoop, MoreDepth
<1>19. CASE PollLimits
  BY <1>19 DEF PollLimits, PollDue
<1>20. CASE CutShort
  BY <1>20 DEF CutShort
<1>21. ASSUME NEW found \in BOOLEAN, MateCheck(found) PROVE TypeOK'
  BY <1>21 DEF MateCheck
<1>22. ASSUME NEW over \in BOOLEAN, Verdict(over) PROVE TypeOK'
  BY <1>22 DEF Verdict
<1>23. CASE HoldForPonderHit
  BY <1>23 DEF HoldForPonderHit
<1>24. CASE CutByClock
  BY <1>24 DEF CutByClock
<1>25. CASE CheckRelease
  BY <1>25 DEF CheckRelease, AfterRelease
<1>26. CASE Sleep
  BY <1>26 DEF Sleep
<1>27. CASE Unponder
  BY <1>27 DEF Unponder
<1>28. CASE Halt
  BY <1>28 DEF Halt
<1>29. CASE JoinHelpers
  BY <1>29 DEF JoinHelpers, HelpersDone
<1>30. CASE PrintBestMove
  BY <1>30 DEF PrintBestMove
<1>31. CASE Leave
  BY <1>31 DEF Leave
<1>32. CASE RootMove
  BY <1>32 DEF RootMove
<1>33. CASE FailLow
  BY <1>33 DEF FailLow
<1>34. CASE Complete
  BY <1>34 DEF Complete
<1>35. CASE SpuriousWake
  BY <1>35 DEF SpuriousWake
<1>36. ASSUME NEW i \in HelperIds, HelperTake(i) PROVE TypeOK'
  BY <1>36 DEF HelperTake
<1>37. ASSUME NEW i \in HelperIds, HelperQuit(i) PROVE TypeOK'
  BY <1>37 DEF HelperQuit
<1>38. ASSUME NEW i \in HelperIds, HelperExhausted(i) PROVE TypeOK'
  BY <1>38 DEF HelperExhausted
<1>39. ASSUME NEW i \in HelperIds, HelperFindsMate(i) PROVE TypeOK'
  BY <1>39 DEF HelperFindsMate
<1>40. ASSUME NEW b \in Budgets, Spend(b) PROVE TypeOK'
  BY <1>40 DEF Spend
<1>41. CASE UNCHANGED vars
  BY <1>41
<1> QED
  BY <1>1, <1>2, <1>3, <1>4, <1>5, <1>6, <1>7, <1>8, <1>9, <1>10, <1>11,
     <1>12, <1>13, <1>14, <1>15, <1>16, <1>17, <1>18, <1>19, <1>20, <1>21,
     <1>22, <1>23, <1>24, <1>25, <1>26, <1>27, <1>28, <1>29, <1>30, <1>31,
     <1>32, <1>33, <1>34, <1>35, <1>36, <1>37, <1>38, <1>39, <1>40, <1>41
     DEF Next, Uci, Master, Begin, Iterate, Finish, Helper, Terminated

-----------------------------------------------------------------------------
(* The UCI loop: which command, the master idle when it waited for it, and    *)
(* how many bestmoves are owed.                                               *)

\* Each step keeps the command loop and what is owed in line with the master.
LEMMA StepUci ==
  ASSUME TypeOK, UciInv, [Next]_vars
  PROVE  UciInv'
<1> USE DEF UciInv, CmdMatches, MasterIdle, Owed, Running, Stopping, Commands,
            TypeOK, vars, uciVars, flags, searchVars, MasterStep, HelperStep
<1>1. ASSUME NEW c \in Commands, ReadStopping(c) PROVE UciInv'
  BY <1>1 DEF ReadStopping, Contract!LetGo, Contract!AllLetGo
<1>2. ASSUME NEW l \in GoLimits, ReadGo(l) PROVE UciInv'
  BY <1>2 DEF ReadGo, Contract!Go, Contract!AllLetGo
<1>3. CASE ReadPonderHit
  BY <1>3 DEF ReadPonderHit, Contract!PonderHit
<1>4. CASE StopUci
  BY <1>4 DEF StopUci
<1>5. CASE StopAll
  BY <1>5 DEF StopAll
<1>6. CASE HitClear
  BY <1>6 DEF HitClear
<1>7. CASE HitCheck
  BY <1>7 DEF HitCheck
<1>8. CASE NotifyLock
  BY <1>8 DEF NotifyLock
<1>9. CASE NotifyAll
  BY <1>9 DEF NotifyAll
<1>10. CASE Join
  BY <1>10 DEF Join, SearchDone
<1>11. CASE Apply
  BY <1>11 DEF Apply
<1>12. CASE LaunchTablebase
  BY <1>12 DEF LaunchTablebase
<1>13. CASE LaunchSearch
  BY <1>13 DEF LaunchSearch, ResetFlags
<1>14. CASE Take
  BY <1>14 DEF Take
<1>15. ASSUME NEW none \in BOOLEAN, Root(none) PROVE UciInv'
  BY <1>15 DEF Root
<1>16. CASE HireHelpers
  BY <1>16 DEF HireHelpers
<1>17. CASE NextIteration
  BY <1>17 DEF NextIteration, MoreDepth
<1>18. CASE LeaveLoop
  BY <1>18 DEF LeaveLoop, MoreDepth
<1>19. CASE PollLimits
  BY <1>19 DEF PollLimits, PollDue
<1>20. CASE CutShort
  BY <1>20 DEF CutShort
<1>21. ASSUME NEW found \in BOOLEAN, MateCheck(found) PROVE UciInv'
  BY <1>21 DEF MateCheck
<1>22. ASSUME NEW over \in BOOLEAN, Verdict(over) PROVE UciInv'
  BY <1>22 DEF Verdict
<1>23. CASE HoldForPonderHit
  BY <1>23 DEF HoldForPonderHit
<1>24. CASE CutByClock
  BY <1>24 DEF CutByClock
<1>25. CASE CheckRelease
  BY <1>25 DEF CheckRelease, AfterRelease
<1>26. CASE Sleep
  BY <1>26 DEF Sleep
<1>27. CASE Unponder
  BY <1>27 DEF Unponder
<1>28. CASE Halt
  BY <1>28 DEF Halt
<1>29. CASE JoinHelpers
  BY <1>29 DEF JoinHelpers, HelpersDone
<1>30. CASE PrintBestMove
  <2>1. Len(open) >= 1
    BY <1>30 DEF PrintBestMove
  <2>2. Len(Tail(open)) = Len(open) - 1
    BY <2>1
  <2> QED
    BY <1>30, <2>2 DEF PrintBestMove
<1>31. CASE Leave
  BY <1>31 DEF Leave
<1>32. CASE RootMove
  BY <1>32 DEF RootMove
<1>33. CASE FailLow
  BY <1>33 DEF FailLow
<1>34. CASE Complete
  BY <1>34 DEF Complete
<1>35. CASE SpuriousWake
  BY <1>35 DEF SpuriousWake
<1>36. ASSUME NEW i \in HelperIds, HelperTake(i) PROVE UciInv'
  BY <1>36 DEF HelperTake
<1>37. ASSUME NEW i \in HelperIds, HelperQuit(i) PROVE UciInv'
  BY <1>37 DEF HelperQuit
<1>38. ASSUME NEW i \in HelperIds, HelperExhausted(i) PROVE UciInv'
  BY <1>38 DEF HelperExhausted
<1>39. ASSUME NEW i \in HelperIds, HelperFindsMate(i) PROVE UciInv'
  BY <1>39 DEF HelperFindsMate
<1>40. ASSUME NEW b \in Budgets, Spend(b) PROVE UciInv'
  BY <1>40 DEF Spend
<1>41. CASE UNCHANGED vars
  BY <1>41
<1> QED
  BY <1>1, <1>2, <1>3, <1>4, <1>5, <1>6, <1>7, <1>8, <1>9, <1>10, <1>11,
     <1>12, <1>13, <1>14, <1>15, <1>16, <1>17, <1>18, <1>19, <1>20, <1>21,
     <1>22, <1>23, <1>24, <1>25, <1>26, <1>27, <1>28, <1>29, <1>30, <1>31,
     <1>32, <1>33, <1>34, <1>35, <1>36, <1>37, <1>38, <1>39, <1>40, <1>41
     DEF Next, Uci, Master, Begin, Iterate, Finish, Helper, Terminated

-----------------------------------------------------------------------------
(* The helpers.                                                               *)

\* Each step keeps the helpers within the search that hired them.
LEMMA StepHelpers ==
  ASSUME TypeOK, UciInv, HelpersBound, [Next]_vars
  PROVE  HelpersBound'
<1> USE DEF HelpersBound, Quiet, HelperIds, Searching, UciInv, MasterIdle,
            TypeOK, vars, uciVars, flags, searchVars, MasterStep, HelperStep
<1>1. ASSUME NEW c \in Commands, ReadStopping(c) PROVE HelpersBound'
  BY <1>1 DEF ReadStopping
<1>2. ASSUME NEW l \in GoLimits, ReadGo(l) PROVE HelpersBound'
  BY <1>2 DEF ReadGo
<1>3. CASE ReadPonderHit
  BY <1>3 DEF ReadPonderHit
<1>4. CASE StopUci
  BY <1>4 DEF StopUci
<1>5. CASE StopAll
  BY <1>5 DEF StopAll
<1>6. CASE HitClear
  BY <1>6 DEF HitClear
<1>7. CASE HitCheck
  BY <1>7 DEF HitCheck
<1>8. CASE NotifyLock
  BY <1>8 DEF NotifyLock
<1>9. CASE NotifyAll
  BY <1>9 DEF NotifyAll
<1>10. CASE Join
  BY <1>10 DEF Join, SearchDone
<1>11. CASE Apply
  BY <1>11 DEF Apply
<1>12. CASE LaunchTablebase
  BY <1>12 DEF LaunchTablebase
<1>13. CASE LaunchSearch
  BY <1>13 DEF LaunchSearch, ResetFlags
<1>14. CASE Take
  BY <1>14 DEF Take
<1>15. ASSUME NEW none \in BOOLEAN, Root(none) PROVE HelpersBound'
  BY <1>15 DEF Root
<1>16. CASE HireHelpers
  BY <1>16 DEF HireHelpers
<1>17. CASE NextIteration
  BY <1>17 DEF NextIteration, MoreDepth
<1>18. CASE LeaveLoop
  BY <1>18 DEF LeaveLoop, MoreDepth
<1>19. CASE PollLimits
  BY <1>19 DEF PollLimits, PollDue
<1>20. CASE CutShort
  BY <1>20 DEF CutShort
<1>21. ASSUME NEW found \in BOOLEAN, MateCheck(found) PROVE HelpersBound'
  BY <1>21 DEF MateCheck
<1>22. ASSUME NEW over \in BOOLEAN, Verdict(over) PROVE HelpersBound'
  BY <1>22 DEF Verdict
<1>23. CASE HoldForPonderHit
  BY <1>23 DEF HoldForPonderHit
<1>24. CASE CutByClock
  BY <1>24 DEF CutByClock
<1>25. CASE CheckRelease
  BY <1>25 DEF CheckRelease, AfterRelease
<1>26. CASE Sleep
  BY <1>26 DEF Sleep
<1>27. CASE Unponder
  BY <1>27 DEF Unponder
<1>28. CASE Halt
  BY <1>28 DEF Halt
<1>29. CASE JoinHelpers
  BY <1>29 DEF JoinHelpers, HelpersDone
<1>30. CASE PrintBestMove
  BY <1>30 DEF PrintBestMove
<1>31. CASE Leave
  BY <1>31 DEF Leave
<1>32. CASE RootMove
  BY <1>32 DEF RootMove
<1>33. CASE FailLow
  BY <1>33 DEF FailLow
<1>34. CASE Complete
  BY <1>34 DEF Complete
<1>35. CASE SpuriousWake
  BY <1>35 DEF SpuriousWake
<1>36. ASSUME NEW i \in HelperIds, HelperTake(i) PROVE HelpersBound'
  BY <1>36 DEF HelperTake
<1>37. ASSUME NEW i \in HelperIds, HelperQuit(i) PROVE HelpersBound'
  BY <1>37 DEF HelperQuit
<1>38. ASSUME NEW i \in HelperIds, HelperExhausted(i) PROVE HelpersBound'
  BY <1>38 DEF HelperExhausted
<1>39. ASSUME NEW i \in HelperIds, HelperFindsMate(i) PROVE HelpersBound'
  BY <1>39 DEF HelperFindsMate
<1>40. ASSUME NEW b \in Budgets, Spend(b) PROVE HelpersBound'
  BY <1>40 DEF Spend
<1>41. CASE UNCHANGED vars
  BY <1>41
<1> QED
  BY <1>1, <1>2, <1>3, <1>4, <1>5, <1>6, <1>7, <1>8, <1>9, <1>10, <1>11,
     <1>12, <1>13, <1>14, <1>15, <1>16, <1>17, <1>18, <1>19, <1>20, <1>21,
     <1>22, <1>23, <1>24, <1>25, <1>26, <1>27, <1>28, <1>29, <1>30, <1>31,
     <1>32, <1>33, <1>34, <1>35, <1>36, <1>37, <1>38, <1>39, <1>40, <1>41
     DEF Next, Uci, Master, Begin, Iterate, Finish, Helper, Terminated

-----------------------------------------------------------------------------
(* The flags.                                                                 *)

\* Each step keeps what is known of the flags at each point.
LEMMA StepFlags ==
  ASSUME TypeOK, UciInv, HelpersBound, FlagInv, [Next]_vars
  PROVE  FlagInv'
<1> USE DEF FlagInv, FlagsKnown, NoLostWakeUp, FreshFlags, MustWait, BeforeNotify,
            UciInv, CmdMatches, MasterIdle, vars, uciVars, flags, searchVars,
            MasterStep, HelperStep
<1>1. ASSUME NEW c \in Commands, ReadStopping(c) PROVE FlagInv'
  BY <1>1 DEF ReadStopping
<1>2. ASSUME NEW l \in GoLimits, ReadGo(l) PROVE FlagInv'
  BY <1>2 DEF ReadGo
<1>3. CASE ReadPonderHit
  BY <1>3 DEF ReadPonderHit
<1>4. CASE StopUci
  BY <1>4 DEF StopUci
<1>5. CASE StopAll
  BY <1>5 DEF StopAll
<1>6. CASE HitClear
  BY <1>6 DEF HitClear
<1>7. CASE HitCheck
  BY <1>7 DEF HitCheck
<1>8. CASE NotifyLock
  BY <1>8 DEF NotifyLock
<1>9. CASE NotifyAll
  BY <1>9 DEF NotifyAll
<1>10. CASE Join
  BY <1>10 DEF Join, SearchDone
<1>11. CASE Apply
  BY <1>11 DEF Apply
<1>12. CASE LaunchTablebase
  BY <1>12 DEF LaunchTablebase
<1>13. CASE LaunchSearch
  BY <1>13 DEF LaunchSearch, ResetFlags
<1>14. CASE Take
  BY <1>14 DEF Take
<1>15. ASSUME NEW none \in BOOLEAN, Root(none) PROVE FlagInv'
  BY <1>15 DEF Root
<1>16. CASE HireHelpers
  BY <1>16 DEF HireHelpers
<1>17. CASE NextIteration
  BY <1>17 DEF NextIteration, MoreDepth
<1>18. CASE LeaveLoop
  BY <1>18 DEF LeaveLoop, MoreDepth
<1>19. CASE PollLimits
  BY <1>19 DEF PollLimits, PollDue
<1>20. CASE CutShort
  BY <1>20 DEF CutShort
<1>21. ASSUME NEW found \in BOOLEAN, MateCheck(found) PROVE FlagInv'
  BY <1>21 DEF MateCheck
<1>22. ASSUME NEW over \in BOOLEAN, Verdict(over) PROVE FlagInv'
  BY <1>22 DEF Verdict
<1>23. CASE HoldForPonderHit
  BY <1>23 DEF HoldForPonderHit
<1>24. CASE CutByClock
  BY <1>24 DEF CutByClock
<1>25. CASE CheckRelease
  BY <1>25 DEF CheckRelease, AfterRelease
<1>26. CASE Sleep
  BY <1>26 DEF Sleep
<1>27. CASE Unponder
  BY <1>27 DEF Unponder
<1>28. CASE Halt
  BY <1>28 DEF Halt
<1>29. CASE JoinHelpers
  BY <1>29 DEF JoinHelpers, HelpersDone
<1>30. CASE PrintBestMove
  BY <1>30 DEF PrintBestMove
<1>31. CASE Leave
  BY <1>31 DEF Leave
<1>32. CASE RootMove
  BY <1>32 DEF RootMove
<1>33. CASE FailLow
  BY <1>33 DEF FailLow
<1>34. CASE Complete
  BY <1>34 DEF Complete
<1>35. CASE SpuriousWake
  BY <1>35 DEF SpuriousWake
<1>36. ASSUME NEW i \in HelperIds, HelperTake(i) PROVE FlagInv'
  BY <1>36 DEF HelperTake
<1>37. ASSUME NEW i \in HelperIds, HelperQuit(i) PROVE FlagInv'
  BY <1>37 DEF HelperQuit
<1>38. ASSUME NEW i \in HelperIds, HelperExhausted(i) PROVE FlagInv'
  BY <1>38 DEF HelperExhausted
<1>39. ASSUME NEW i \in HelperIds, HelperFindsMate(i) PROVE FlagInv'
  BY <1>39 DEF HelperFindsMate, HelpersBound, Quiet
<1>40. ASSUME NEW b \in Budgets, Spend(b) PROVE FlagInv'
  BY <1>40 DEF Spend
<1>41. CASE UNCHANGED vars
  BY <1>41
<1> QED
  BY <1>1, <1>2, <1>3, <1>4, <1>5, <1>6, <1>7, <1>8, <1>9, <1>10, <1>11,
     <1>12, <1>13, <1>14, <1>15, <1>16, <1>17, <1>18, <1>19, <1>20, <1>21,
     <1>22, <1>23, <1>24, <1>25, <1>26, <1>27, <1>28, <1>29, <1>30, <1>31,
     <1>32, <1>33, <1>34, <1>35, <1>36, <1>37, <1>38, <1>39, <1>40, <1>41
     DEF Next, Uci, Master, Begin, Iterate, Finish, Helper, Terminated

-----------------------------------------------------------------------------
(* The contract: the holds of the running search and of the go in progress.   *)

\* Each step keeps what is held back in line with the flags that hold it.
LEMMA StepContractInv ==
  ASSUME IInv, ContractInv, [Next]_vars
  PROVE  ContractInv'
<1> USE DEF IInv, ContractInv, Held, NewHolds, Running, Stopping, TypeOK, UciInv,
            CmdMatches, MasterIdle, Owed, FlagInv, FlagsKnown,
            vars, uciVars, flags, searchVars, MasterStep, HelperStep
<1>1. ASSUME NEW c \in Commands, ReadStopping(c) PROVE ContractInv'
  BY <1>1 DEF ReadStopping, Contract!LetGo, Contract!AllLetGo, Commands
<1>2. ASSUME NEW l \in GoLimits, ReadGo(l) PROVE ContractInv'
  <2> DEFINE new == {h \in Contract!Holds : l[h]}
  <2>1. /\ open' = Append(Contract!AllLetGo(open), new)
        /\ cmd' = "go" /\ cmd = "none" /\ limits' = [l EXCEPT !.depth = 0]
        /\ UNCHANGED <<flags, searchVars>>
    BY <1>2 DEF ReadGo, Contract!Go
  <2>2. Contract!AllLetGo(open) \in Seq(SUBSET Contract!Holds)
        /\ Len(Contract!AllLetGo(open)) = Len(open)
    BY LetGoType
  <2>3. Len(open') = Len(open) + 1 /\ open'[Len(open')] = new
    BY <2>1, <2>2
  <2>4. new = {h \in Contract!Holds : limits'[h]}
    <3>1. limits'["infinite"] = l["infinite"] /\ limits'["ponder"] = l["ponder"]
      BY <2>1, ConstantsAssumption DEF Limits
    <3> QED
      BY <3>1 DEF Contract!Holds
  <2>5. Running => open'[1] = {}
    <3> SUFFICES ASSUME Running PROVE open'[1] = {}
      OBVIOUS
    <3>1. Len(open) = 1
      BY <2>1
    <3> QED
      BY <2>1, <2>2, <3>1 DEF Contract!AllLetGo
  <2> QED
    BY <2>1, <2>3, <2>4, <2>5
<1>3. CASE ReadPonderHit
  BY <1>3 DEF ReadPonderHit, Contract!PonderHit
<1>4. CASE StopUci
  BY <1>4 DEF StopUci
<1>5. CASE StopAll
  BY <1>5 DEF StopAll
<1>6. CASE HitClear
  BY <1>6 DEF HitClear
<1>7. CASE HitCheck
  BY <1>7 DEF HitCheck
<1>8. CASE NotifyLock
  BY <1>8 DEF NotifyLock
<1>9. CASE NotifyAll
  BY <1>9 DEF NotifyAll
<1>10. CASE Join
  BY <1>10 DEF Join, SearchDone
<1>11. CASE Apply
  BY <1>11 DEF Apply
<1>12. CASE LaunchTablebase
  BY <1>12 DEF LaunchTablebase
<1>13. CASE LaunchSearch
  BY <1>13 DEF LaunchSearch, ResetFlags
<1>14. CASE Take
  BY <1>14 DEF Take
<1>15. ASSUME NEW none \in BOOLEAN, Root(none) PROVE ContractInv'
  BY <1>15 DEF Root
<1>16. CASE HireHelpers
  BY <1>16 DEF HireHelpers
<1>17. CASE NextIteration
  BY <1>17 DEF NextIteration, MoreDepth
<1>18. CASE LeaveLoop
  BY <1>18 DEF LeaveLoop, MoreDepth
<1>19. CASE PollLimits
  BY <1>19 DEF PollLimits, PollDue
<1>20. CASE CutShort
  BY <1>20 DEF CutShort
<1>21. ASSUME NEW found \in BOOLEAN, MateCheck(found) PROVE ContractInv'
  BY <1>21 DEF MateCheck
<1>22. ASSUME NEW over \in BOOLEAN, Verdict(over) PROVE ContractInv'
  BY <1>22 DEF Verdict
<1>23. CASE HoldForPonderHit
  BY <1>23 DEF HoldForPonderHit
<1>24. CASE CutByClock
  BY <1>24 DEF CutByClock
<1>25. CASE CheckRelease
  <2>1. open[1] \in SUBSET Contract!Holds
    <3>1. Len(open) >= 1
      BY <1>25 DEF CheckRelease
    <3> QED
      BY <3>1
  <2>2. ~MustWait => open[1] = {}
    BY <1>25, <2>1 DEF CheckRelease, MustWait, Contract!Holds
  <2> QED
    BY <1>25, <2>2 DEF CheckRelease, AfterRelease
<1>26. CASE Sleep
  BY <1>26 DEF Sleep
<1>27. CASE Unponder
  BY <1>27 DEF Unponder
<1>28. CASE Halt
  BY <1>28 DEF Halt
<1>29. CASE JoinHelpers
  BY <1>29 DEF JoinHelpers, HelpersDone
<1>30. CASE PrintBestMove
  BY <1>30 DEF PrintBestMove
<1>31. CASE Leave
  BY <1>31 DEF Leave
<1>32. CASE RootMove
  BY <1>32 DEF RootMove
<1>33. CASE FailLow
  BY <1>33 DEF FailLow
<1>34. CASE Complete
  BY <1>34 DEF Complete
<1>35. CASE SpuriousWake
  BY <1>35 DEF SpuriousWake
<1>36. ASSUME NEW i \in HelperIds, HelperTake(i) PROVE ContractInv'
  BY <1>36 DEF HelperTake
<1>37. ASSUME NEW i \in HelperIds, HelperQuit(i) PROVE ContractInv'
  BY <1>37 DEF HelperQuit
<1>38. ASSUME NEW i \in HelperIds, HelperExhausted(i) PROVE ContractInv'
  BY <1>38 DEF HelperExhausted
<1>39. ASSUME NEW i \in HelperIds, HelperFindsMate(i) PROVE ContractInv'
  BY <1>39 DEF HelperFindsMate
<1>40. ASSUME NEW b \in Budgets, Spend(b) PROVE ContractInv'
  BY <1>40 DEF Spend
<1>41. CASE UNCHANGED vars
  BY <1>41
<1> QED
  BY <1>1, <1>2, <1>3, <1>4, <1>5, <1>6, <1>7, <1>8, <1>9, <1>10, <1>11,
     <1>12, <1>13, <1>14, <1>15, <1>16, <1>17, <1>18, <1>19, <1>20, <1>21,
     <1>22, <1>23, <1>24, <1>25, <1>26, <1>27, <1>28, <1>29, <1>30, <1>31,
     <1>32, <1>33, <1>34, <1>35, <1>36, <1>37, <1>38, <1>39, <1>40, <1>41
     DEF Next, Uci, Master, Begin, Iterate, Finish, Helper, Terminated

-----------------------------------------------------------------------------
(* The invariant is inductive.                                                *)

\* The program starts within the invariant.
LEMMA InitInv == Init => IInv /\ ContractInv
<1> SUFFICES ASSUME Init PROVE IInv /\ ContractInv
  OBVIOUS
<1>1. TypeOK
  BY InitType
<1>2. HelpersBound
  BY DEF Init, HelpersBound, Quiet, HelperIds, Searching
<1>3. UciInv /\ FlagInv
  BY DEF Init, UciInv, CmdMatches, MasterIdle, Owed, Running, FlagInv, FlagsKnown,
         NoLostWakeUp, FreshFlags, Stopping
<1>4. ContractInv
  BY DEF Init, ContractInv, Held, NewHolds, Running
<1> QED
  BY <1>1, <1>2, <1>3, <1>4 DEF IInv

\* The invariant is inductive.
LEMMA StepIInv == IInv /\ [Next]_vars => IInv'
<1> SUFFICES ASSUME IInv, [Next]_vars PROVE IInv'
  OBVIOUS
<1>1. master = "print" \/ uci = "launch" => open # <<>>
  BY DEF IInv, UciInv, CmdMatches, Owed, Running
<1>2. TypeOK'
  BY <1>1, StepType DEF IInv
<1>3. UciInv' /\ HelpersBound' /\ FlagInv'
  BY StepUci, StepHelpers, StepFlags DEF IInv
<1> QED
  BY <1>2, <1>3 DEF IInv

\* It holds in every behaviour, and so does what the contract needs.
LEMMA SpecIInv == Spec => [](IInv /\ ContractInv)
<1>1. IInv /\ ContractInv /\ [Next]_vars => (IInv /\ ContractInv)'
  BY StepIInv, StepContractInv
<1> QED
  BY <1>1, InitInv, PTL DEF Spec

-----------------------------------------------------------------------------
(* The variables keep their types. *)
THEOREM TypeCorrect == Spec => []TypeOK
BY SpecIInv, PTL DEF IInv

\* Whoever waits in wait_release with nothing to wait for is about to be woken.
THEOREM WakeUpNotLost == Spec => []NoLostWakeUp
BY SpecIInv, PTL DEF IInv, FlagInv

\* A handler that changes the position, the tables or the threads runs alone.
THEOREM HandlersRunAlone == Spec => []HandlersAlone
<1>1. IInv => HandlersAlone
  BY DEF IInv, UciInv, MasterIdle, HelpersBound, HandlersAlone
<1> QED
  BY <1>1, SpecIInv, PTL

\* The bestmove is chosen among threads that have all stopped.
THEOREM VoteIsAfterJoin == Spec => []VoteAfterJoin
<1>1. IInv => VoteAfterJoin
  BY DEF IInv, HelpersBound, VoteAfterJoin
<1> QED
  BY <1>1, SpecIInv, PTL

\* No flag of an earlier search reaches a new one.
THEOREM FlagsAreFresh == Spec => []FreshFlags
BY SpecIInv, PTL DEF IInv, FlagInv

-----------------------------------------------------------------------------
(* Action properties *)

\* No worker is given a job while it has one.
THEOREM JobsNotOverwritten == Spec => NoJobOverwritten
<1> DEFINE A == /\ \A i \in HelperIds : helper'[i] = "given" => helper[i] \in {"idle", "given"}
                /\ master' = "given" => master \in {"idle", "given"}
<1>1. IInv /\ [Next]_vars => [A]_vars
  <2> SUFFICES ASSUME IInv, Next PROVE A
    OBVIOUS
  <2> USE DEF vars, uciVars, flags, searchVars, MasterStep, HelperStep
  <2>1. CASE Uci
    BY <2>1 DEF IInv, UciInv, MasterIdle, Uci, ResetFlags, SearchDone,
      ReadStopping, ReadGo, ReadPonderHit, StopUci, StopAll, HitClear,
      HitCheck, NotifyLock, NotifyAll, Join, Apply, LaunchTablebase,
      LaunchSearch
  <2>2. CASE HireHelpers
    BY <2>2 DEF IInv, HelpersBound, Quiet, HireHelpers
  <2>3. CASE Master /\ ~HireHelpers
    BY <2>3 DEF Master, Begin, Iterate, Finish, AfterRelease,
      Take, Root, NextIteration, LeaveLoop, PollLimits, CutShort, MateCheck,
      Verdict, HoldForPonderHit, CutByClock, CheckRelease, Sleep, Unponder,
      Halt, JoinHelpers, PrintBestMove, Leave, RootMove, FailLow, Complete,
      SpuriousWake
  <2>4. ASSUME NEW j \in HelperIds, Helper(j) PROVE A
    BY <2>4 DEF IInv, TypeOK, Helper, HelperTake, HelperQuit, HelperExhausted,
                HelperFindsMate
  <2>5. ASSUME NEW b \in Budgets, Spend(b) PROVE A
    BY <2>5 DEF Spend
  <2>6. CASE Terminated
    BY <2>6 DEF Terminated
  <2> QED
    BY <2>1, <2>2, <2>3, <2>4, <2>5, <2>6 DEF Next
<1> QED
  BY <1>1, SpecIInv, PTL DEF Spec, NoJobOverwritten

\* No budget ends a search while the engine ponders.
THEOREM PonderIsNotCut == Spec => PonderRunsOn
<1> DEFINE A == ~stop /\ stop' /\ pondering => uci = "stopAll" \/ limits.mate
<1>1. IInv /\ [Next]_vars => [A]_vars
  <2> SUFFICES ASSUME IInv, Next PROVE A
    OBVIOUS
  <2> USE DEF vars, uciVars, flags, searchVars, MasterStep, HelperStep
  <2>1. CASE Uci
    BY <2>1 DEF IInv, FlagInv, FlagsKnown, Uci, ResetFlags,
      ReadStopping, ReadGo, ReadPonderHit, StopUci, StopAll, HitClear,
      HitCheck, NotifyLock, NotifyAll, Join, Apply, LaunchTablebase,
      LaunchSearch
  <2>2. CASE Master
    <3>1. CASE PollLimits
      BY <3>1 DEF PollLimits, PollDue
    <3>2. CASE CutByClock \/ Halt
      BY <3>2 DEF IInv, FlagInv, FlagsKnown, CutByClock, Halt
    <3>3. ASSUME NEW found \in BOOLEAN, MateCheck(found) PROVE A
      BY <3>3 DEF IInv, TypeOK, MateCheck
    <3>4. ASSUME stop' = stop PROVE A
      BY <3>4 DEF IInv, TypeOK
    <3> QED
      BY <2>2, <3>1, <3>2, <3>3, <3>4
         DEF Master, Begin, Iterate, Finish,
             Take, Root, HireHelpers, NextIteration, LeaveLoop, CutShort,
             Verdict, HoldForPonderHit, CheckRelease, Sleep, Unponder,
             JoinHelpers, PrintBestMove, Leave, RootMove, FailLow, Complete,
             SpuriousWake
  <2>3. ASSUME NEW j \in HelperIds, Helper(j) PROVE A
    BY <2>3 DEF Helper, HelperTake, HelperQuit, HelperExhausted, HelperFindsMate
  <2>4. ASSUME NEW b \in Budgets, Spend(b) PROVE A
    BY <2>4 DEF Spend
  <2>5. CASE Terminated
    BY <2>5 DEF Terminated
  <2> QED
    BY <2>1, <2>2, <2>3, <2>4, <2>5 DEF Next
<1> QED
  BY <1>1, SpecIInv, PTL DEF Spec, PonderRunsOn

-----------------------------------------------------------------------------
(* The control implements the contract of go and bestmove. *)

\* A bestmove goes out only for a go that nothing holds back.
LEMMA BestMoveAllowed ==
  ASSUME IInv, ContractInv, open' = Tail(open), asked' = asked,
         master = "print" \/ (uci = "launch" /\ ~limits.infinite /\ ~limits.ponder)
  PROVE  Contract!BestMove
<1>1. open # <<>>
  BY DEF IInv, UciInv, CmdMatches, Owed, Running
<1>2. Head(open) = open[1]
  BY <1>1 DEF IInv, TypeOK
<1>3. open[1] = {}
  <2>1. CASE master = "print"
    BY <2>1 DEF ContractInv, Held, Running
  <2>2. CASE uci = "launch" /\ ~limits.infinite /\ ~limits.ponder
    BY <2>2 DEF IInv, UciInv, CmdMatches, MasterIdle, Owed, Running, ContractInv,
                NewHolds, Contract!Holds
  <2> QED
    BY <2>1, <2>2
<1> QED
  BY <1>1, <1>2, <1>3 DEF Contract!BestMove

\* Each step is a step of the contract, or leaves what is owed alone.
LEMMA StepContract ==
  ASSUME IInv, ContractInv, [Next]_vars
  PROVE  [Contract!Next]_(Contract!vars)
<1> USE DEF Contract!Next, Contract!vars, vars
<1>1. ASSUME NEW c \in Commands, ReadStopping(c) PROVE Contract!Next
  BY <1>1 DEF ReadStopping
<1>2. ASSUME NEW l \in GoLimits, ReadGo(l) PROVE Contract!Next
  BY <1>2 DEF ReadGo
<1>3. ASSUME ReadPonderHit PROVE Contract!Next
  BY <1>3 DEF ReadPonderHit
<1>4. ASSUME LaunchTablebase PROVE Contract!Next
  BY <1>4, BestMoveAllowed DEF LaunchTablebase
<1>5. ASSUME PrintBestMove PROVE Contract!Next
  BY <1>5, BestMoveAllowed DEF PrintBestMove, MasterStep
<1>6. CASE UNCHANGED <<open, asked>>
  BY <1>6
<1> QED
  BY <1>1, <1>2, <1>3, <1>4, <1>5, <1>6
     DEF Next, Uci, Master, Begin, Iterate, Finish, Helper, Terminated, HelperStep,
         StopUci, StopAll, HitClear, HitCheck, NotifyLock, NotifyAll, Join,
         Apply, LaunchSearch, Take, Root, HireHelpers, NextIteration,
         LeaveLoop, PollLimits, CutShort, MateCheck, Verdict,
         HoldForPonderHit, CutByClock, CheckRelease, Sleep, Unponder, Halt,
         JoinHelpers, Leave, RootMove, FailLow, Complete, SpuriousWake,
         HelperTake, HelperQuit, HelperExhausted, HelperFindsMate, Spend

\* Every go gets one bestmove, in order, and none before its holds are lifted.
THEOREM ContractImplemented == Spec => ContractKept
<1>1. Init => Contract!Init
  BY DEF Init, Contract!Init
<1> QED
  BY <1>1, StepContract, SpecIInv, PTL DEF Spec, ContractKept, Contract!Spec
=============================================================================
