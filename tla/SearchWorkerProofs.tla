-------------------------- MODULE SearchWorkerProofs --------------------------
(***************************************************************************)
(* Proofs about SearchWorker, for every number of jobs.                    *)
(***************************************************************************)
EXTENDS SearchWorker, TLAPS

\* The mutex is held exactly by who is between its lock and its release.
MutexInv == /\ (mutex = "loop") <=> (loop \in {"check", "clear"})
            /\ (mutex = "caller") <=> (caller \in {"hand", "check"})

AtWork == {"work", "lockDone", "clear"}   \* the steps of a job
Handing == {"lockRun", "hand"}            \* run has begun, the job is not handed over

IdleInv ==
  ~busy => /\ job = 0 /\ loop \notin AtWork
           /\ handed = done + (IF caller \in Handing THEN 1 ELSE 0)

BusyInv ==
  busy => /\ ~waited /\ caller \notin Handing
          /\ job # 0 => loop \notin AtWork /\ handed = done + 1
          /\ job = 0 => loop \in AtWork /\ handed = done + (IF loop = "work" THEN 1 ELSE 0)

HandingInv == caller \in Handing => ~waited

\* The inductive invariant.
IInv == TypeOK /\ MutexInv /\ IdleInv /\ BusyInv /\ HandingInv

\* The worker starts idle.
LEMMA InitInv == Init => IInv
<1> SUFFICES ASSUME Init PROVE IInv
  OBVIOUS
<1>1. TypeOK
  <2>1. busy \in BOOLEAN /\ waited \in BOOLEAN
    BY Zenon DEF Init
  <2>2. 0 \in 0..MaxJobs
    BY MaxJobsAssumption
  <2> QED
    BY <2>1, <2>2 DEF Init, TypeOK, LoopSteps, CallerSteps
<1>2. MutexInv
  BY DEF Init, MutexInv
<1>3. IdleInv
  BY DEF Init, IdleInv, AtWork, Handing
<1>4. BusyInv /\ HandingInv
  BY DEF Init, BusyInv, HandingInv, Handing
<1> QED
  BY <1>1, <1>2, <1>3, <1>4 DEF IInv

\* The invariant is inductive.
LEMMA StepInv == IInv /\ [Next]_vars => IInv'
<1> SUFFICES ASSUME IInv, [Next]_vars PROVE IInv'
  OBVIOUS
<1> USE MaxJobsAssumption
    DEF IInv, TypeOK, MutexInv, IdleInv, BusyInv, HandingInv, AtWork, Handing,
        LoopSteps, CallerSteps, Loop, Caller
<1>1. CASE LoopLock
  BY <1>1 DEF LoopLock
<1>2. CASE LoopSleep
  BY <1>2 DEF LoopSleep
<1>3. CASE LoopTake
  BY <1>3 DEF LoopTake, TakeFields
<1>4. CASE LoopWork
  BY <1>4 DEF LoopWork
<1>5. CASE LoopClear
  BY <1>5 DEF LoopClear
<1>6. CASE LoopNotify
  BY <1>6 DEF LoopNotify, CallerWoken
<1>7. CASE CallRun
  <2>1. ~waited' /\ UNCHANGED <<mutex, job, busy, loop, mine, done>>
    BY <1>7 DEF CallRun
  <2>2. ~busy /\ caller = "out" /\ caller' = "lockRun" /\ handed' = handed + 1
    BY <1>7 DEF CallRun
  <2>3. handed' \in 0..MaxJobs
    BY <1>7 DEF CallRun
  <2>4. waited' \in BOOLEAN
    BY <1>7, Zenon DEF CallRun
  <2> QED
    BY <2>1, <2>2, <2>3, <2>4
<1>8. CASE CallWait
  BY <1>8 DEF CallWait
<1>9. CASE CallerLock
  BY <1>9 DEF CallerLock
<1>10. CASE Hand
  BY <1>10 DEF Hand, HandFields
<1>11. CASE RunNotify
  BY <1>11 DEF RunNotify, LoopWoken
<1>12. CASE WaitSleep
  BY <1>12 DEF WaitSleep
<1>13. CASE WaitReturn
  BY <1>13 DEF WaitReturn
<1>14. CASE SpuriousWake
  BY <1>14 DEF SpuriousWake
<1>15. CASE UNCHANGED vars
  BY <1>15 DEF vars
<1> QED
  BY <1>1, <1>2, <1>3, <1>4, <1>5, <1>6, <1>7, <1>8, <1>9, <1>10, <1>11, <1>12,
     <1>13, <1>14, <1>15 DEF Next, LoopStep, CallerStep

\* The invariant holds in every behaviour, fair or not.
LEMMA SpecInv == Spec => []IInv
BY InitInv, StepInv, PTL DEF Spec

-----------------------------------------------------------------------------
\* The fields of the worker and the places of its two threads are of their types.
THEOREM TypeCorrect == FairSpec => []TypeOK
<1>1. IInv => TypeOK
  BY DEF IInv
<1> QED
  BY <1>1, SpecInv, PTL DEF FairSpec

\* When wait has come back, everything handed to run has been carried out.
THEOREM WaitIsAfterTheJob == FairSpec => []WaitMeansDone
<1>1. IInv => WaitMeansDone
  BY DEF IInv, TypeOK, IdleInv, BusyInv, WaitMeansDone, AtWork, Handing
<1> QED
  BY <1>1, SpecInv, PTL DEF FairSpec

\* A step of the worker is one of its contract, or not seen by it.
LEMMA StepContract == IInv /\ [Next]_vars => [Contract!Next]_Worker
<1> SUFFICES ASSUME IInv, [Next]_vars PROVE [Contract!Next]_Worker
  OBVIOUS
<1> USE DEF Worker, Contract!Next, Contract!Run, Contract!Take, Contract!Finish,
            IInv, IdleInv, BusyInv, AtWork, Handing, TypeOK, Loop, Caller
<1>1. CASE LoopTake
  BY <1>1 DEF LoopTake, TakeFields
<1>2. CASE LoopClear
  BY <1>2 DEF LoopClear
<1>3. CASE Hand
  <2>1. handed # 0
    BY <1>3 DEF Hand
  <2> QED
    BY <1>3, <2>1 DEF Hand, HandFields
<1>4. CASE UNCHANGED <<job, busy>>
  BY <1>4
<1> QED
  BY <1>1, <1>2, <1>3, <1>4
     DEF Next, LoopStep, CallerStep, vars, LoopLock, LoopSleep, LoopWork, LoopNotify,
         CallRun, CallWait, CallerLock, RunNotify, WaitSleep, WaitReturn, SpuriousWake

\* The worker is what SearchControl takes it for: a job handed over is taken
\* once, carried out, and only then is the worker idle again.
THEOREM ContractImplemented == FairSpec => ContractKept
<1>1. Init => Contract!Init
  BY DEF Init, Worker, Contract!Init
<1> QED
  BY <1>1, StepContract, SpecInv, PTL DEF FairSpec, Spec, ContractKept, Contract!Spec
=============================================================================
