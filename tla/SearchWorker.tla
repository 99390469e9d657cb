---------------------------- MODULE SearchWorker ----------------------------
(***************************************************************************)
(* The hand-over of a job to a persistent thread (struct SearchWorker of   *)
(* search/15_threads.inc): one mutex, one condition variable on which both *)
(* the thread and its caller sleep, the fields job and busy.  The caller   *)
(* is the UCI loop (for the master worker) or the master (for a helper):   *)
(* it calls run only after a wait that followed its last run.              *)
(***************************************************************************)
EXTENDS Naturals

CONSTANT MaxJobs   \* bound on the calls of run

ASSUME MaxJobsAssumption == MaxJobs \in Nat

VARIABLES
  mutex,     \* who holds m: "free", "loop", "caller"
  job,       \* number of the job handed over and not yet taken, 0 for none
  busy,
  loop,      \* where the thread is
  mine,      \* the job the thread took last
  caller,    \* where the caller is
  handed,    \* calls of run so far
  done,      \* jobs carried out
  waited     \* the caller has waited since its last run

vars == <<mutex, job, busy, loop, mine, caller, handed, done, waited>>

LoopSteps == {"lock", "check", "asleep", "work", "lockDone", "clear", "notify"}
CallerSteps == {"out", "lockRun", "hand", "notify", "lockWait", "check", "asleep"}

TypeOK ==
  /\ mutex \in {"free", "loop", "caller"}
  /\ job \in 0..MaxJobs /\ mine \in 0..MaxJobs
  /\ busy \in BOOLEAN /\ waited \in BOOLEAN
  /\ loop \in LoopSteps /\ caller \in CallerSteps
  /\ handed \in 0..MaxJobs /\ done \in 0..MaxJobs

Init ==
  /\ mutex = "free" /\ job = 0 /\ busy = FALSE
  /\ loop = "lock" /\ mine = 0
  /\ caller = "out" /\ handed = 0 /\ done = 0 /\ waited = TRUE

-----------------------------------------------------------------------------
(* SearchWorker::loop *)

Loop(from, to) == loop = from /\ loop' = to

LoopLock ==
  /\ \/ Loop("lock", "check")
     \/ Loop("lockDone", "clear")
  /\ mutex = "free" /\ mutex' = "loop"
  /\ UNCHANGED <<job, busy, mine, caller, handed, done, waited>>

\* No job: it lets the mutex go and sleeps, in one step.
LoopSleep ==
  /\ job = 0
  /\ Loop("check", "asleep") /\ mutex' = "free"
  /\ UNCHANGED <<job, busy, mine, caller, handed, done, waited>>

\* Faulty variants the properties must reject stand before what they replace:
\* busy is reset when the job is taken.
TakeFieldsClearBusy == mine' = job /\ job' = 0 /\ busy' = FALSE

TakeFields == mine' = job /\ job' = 0 /\ UNCHANGED busy

LoopTake ==
  /\ job # 0
  /\ Loop("check", "work") /\ mutex' = "free"
  /\ TakeFields
  /\ UNCHANGED <<caller, handed, done, waited>>

LoopWork ==
  /\ Loop("work", "lockDone")
  /\ done' = done + 1
  /\ UNCHANGED <<mutex, job, busy, mine, caller, handed, waited>>

LoopClear ==
  /\ Loop("clear", "notify") /\ mutex' = "free"
  /\ busy' = FALSE
  /\ UNCHANGED <<job, mine, caller, handed, done, waited>>

\* Variant: the end of a job is not notified.
CallerNotWoken(c) == c

\* Where notify_all leaves a caller that was at c.
CallerWoken(c) == IF c = "asleep" THEN "lockWait" ELSE c

LoopNotify ==
  /\ Loop("notify", "lock")
  /\ caller' = CallerWoken(caller)
  /\ UNCHANGED <<mutex, job, busy, mine, handed, done, waited>>

-----------------------------------------------------------------------------
(* SearchWorker::run and SearchWorker::wait *)

Caller(from, to) == caller = from /\ caller' = to

CallRun ==
  /\ waited /\ handed < MaxJobs
  /\ Caller("out", "lockRun") /\ handed' = handed + 1 /\ waited' = FALSE
  /\ UNCHANGED <<mutex, job, busy, loop, mine, done>>

CallWait ==
  /\ Caller("out", "lockWait")
  /\ UNCHANGED <<mutex, job, busy, loop, mine, handed, done, waited>>

CallerLock ==
  /\ \/ Caller("lockRun", "hand")
     \/ Caller("lockWait", "check")
  /\ mutex = "free" /\ mutex' = "caller"
  /\ UNCHANGED <<job, busy, loop, mine, handed, done, waited>>

HandFields == busy' = TRUE /\ job' = handed

Hand ==
  /\ Caller("hand", "notify") /\ mutex' = "free"
  /\ HandFields
  /\ UNCHANGED <<loop, mine, handed, done, waited>>

\* Variant: run does not notify.
LoopNotWoken(l) == l

\* Where notify_all leaves a thread that was at l.
LoopWoken(l) == IF l = "asleep" THEN "lock" ELSE l

RunNotify ==
  /\ Caller("notify", "out")
  /\ loop' = LoopWoken(loop)
  /\ UNCHANGED <<mutex, job, busy, mine, handed, done, waited>>

WaitSleep ==
  /\ busy
  /\ Caller("check", "asleep") /\ mutex' = "free"
  /\ UNCHANGED <<job, busy, loop, mine, handed, done, waited>>

WaitReturn ==
  /\ ~busy
  /\ Caller("check", "out") /\ mutex' = "free" /\ waited' = TRUE
  /\ UNCHANGED <<job, busy, loop, mine, handed, done>>

\* Either sleeper may wake with no notification.
SpuriousWake ==
  /\ \/ Loop("asleep", "lock") /\ UNCHANGED caller
     \/ Caller("asleep", "lockWait") /\ UNCHANGED loop
  /\ UNCHANGED <<mutex, job, busy, mine, handed, done, waited>>

LoopStep == LoopSleep \/ LoopTake \/ LoopWork \/ LoopClear \/ LoopNotify
CallerStep == Hand \/ RunNotify \/ WaitSleep \/ WaitReturn

Next == LoopLock \/ LoopStep \/ CallRun \/ CallWait \/ CallerLock \/ CallerStep
        \/ SpuriousWake

Spec == Init /\ [][Next]_vars

\* Both threads run; a mutex that keeps being released is obtained in the end.
\* The caller calls when it likes, spurious wake-ups need not come.
FairSpec == /\ Spec
            /\ WF_vars(LoopStep) /\ WF_vars(CallerStep)
            /\ SF_vars(LoopLock) /\ SF_vars(CallerLock)

-----------------------------------------------------------------------------
(* Properties *)

\* wait comes back only when everything handed over has been carried out, and
\* the thread is not about to touch anything of it (the reason HandlersAlone
\* may read "idle" off the worker).
WaitMeansDone ==
  caller = "out" /\ waited => done = handed /\ loop \notin {"work", "lockDone", "clear"}

\* The worker as SearchControl sees it.
Worker == IF ~busy THEN "idle" ELSE IF job # 0 THEN "given" ELSE "search"

Contract == INSTANCE WorkerContract WITH worker <- Worker

ContractKept == Contract!Spec

\* A job is carried out, and a wait comes back: no wake-up is lost.
JobsDone == (caller = "notify") ~> (done = handed)
WaitReturns == (caller = "lockWait") ~> (caller = "out")
=============================================================================
