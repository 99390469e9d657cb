--------------------------- MODULE SharedNetProofs ---------------------------
(***************************************************************************)
(* Proofs about SharedNet, for any number of processes, networks, files,   *)
(* objects, loads and faults.                                              *)
(*                                                                         *)
(* That what is mapped is whole (IInv) rests on the order in which one     *)
(* process fills and names its object.  That there is one copy only, and   *)
(* that nobody finds an area of a creator at work (CopyInv), rests on the  *)
(* lock held from the look at the name to the last change under it: two    *)
(* holders of the lock of one network are one.  The first needs the second *)
(* in one place: an area that a creator could not map, and that a poller   *)
(* kept open, is nobody's when its creator takes it up again.              *)
(***************************************************************************)
EXTENDS SharedNet, TLAPS

\* The steps at which a process has its network in its own memory.
WithSrc == {"open", "lock", "recheck", "reserve", "weights", "header", "ready", "rename",
            "link", "unlock", "wait", "polling", "check", "createLarge", "mapLarge", "create",
            "map", "release"}
SrcInv == \A p \in Procs : pc[p] \in WithSrc => src[p] \in Nets

\* An object that is ready is whole; one with a header has its weights.
WholeInv == \A o \in Objs : /\ ready[o] => header[o] \in Nets
                            /\ header[o] # Blank => header[o] = weights[o]

\* What a process maps, and what has a final name, is ready.
ViewInv == \A p \in Procs : view[p] # NoObj => ready[view[p]]
PathInv == \A d \in Dirs, n \in Nets : link[Path(d, n)] # NoObj => ready[link[Path(d, n)]]
AliasInv == \A d \in Dirs, f \in Files : link[Alias(d, f)] # NoObj => ready[link[Alias(d, f)]]

\* What a process maps to write, it alone writes, in the order weights, header, ready.
Writing == {"mapLarge", "map", "weights", "header", "ready"}
WriterInv ==
  \A p \in Procs : pc[p] \in Writing =>
    /\ held[p] \in Objs /\ ~ready[held[p]]
    /\ pc[p] \in {"mapLarge", "map", "weights"} => header[held[p]] = Blank
    /\ pc[p] \in {"header", "ready"} => weights[held[p]] = src[p]
    /\ pc[p] = "header" => header[held[p]] = Blank
    /\ pc[p] = "ready" => header[held[p]] = src[p]
    /\ \A q \in Procs \ {p} : pc[q] \in Writing => held[q] # held[p]
    /\ platform = "linux" => link[Tmp(dir[p], p)] = held[p]

\* A process that is past its look or its writing holds an object that is ready,
\* one that has not begun either holds none.
EmptyHanded == {"idle", "stat", "openAlias", "load", "open", "lock", "recheck", "reserve",
                "wait", "check", "createLarge", "create"}
HeldInv ==
  \A p \in Procs :
    /\ pc[p] \in EmptyHanded => held[p] = NoObj
    /\ pc[p] \in {"rename", "link", "unlock"} => held[p] \in Objs /\ ready[held[p]]
    /\ pc[p] = "rename" => link[Tmp(dir[p], p)] = held[p]
    /\ pc[p] = "release" /\ held[p] # NoObj => ready[held[p]]

\* What has a temporary name has no other, and only the process of the name
\* has it, to write it.
TmpInv ==
  \A d \in Dirs, p \in Procs : link[Tmp(d, p)] # NoObj =>
    /\ \A x \in Names \ {Tmp(d, p)} : link[x] # link[Tmp(d, p)]
    /\ \A q \in Procs : view[q] # link[Tmp(d, p)]
    /\ \A q \in Procs : held[q] = link[Tmp(d, p)] => q = p /\ pc[p] \in Writing \cup {"rename"}

\* Each half of the header file has its own steps and names.
LinuxSteps == {"stat", "openAlias", "open", "lock", "recheck", "reserve", "rename", "link",
   "unlock"}
WindowsSteps == {"wait", "polling", "check", "createLarge", "mapLarge", "create", "map",
   "release"}
PlatformInv ==
  /\ \A p \in Procs : /\ pc[p] \in LinuxSteps => platform = "linux"
                      /\ pc[p] \in WindowsSteps => platform = "windows"
  /\ platform = "windows" => \A d \in Dirs, p \in Procs : link[Tmp(d, p)] = NoObj

\* The first half of the inductive invariant.
IInv == TypeOK /\ SrcInv /\ WholeInv /\ ViewInv /\ PathInv /\ AliasInv
        /\ WriterInv /\ HeldInv /\ TmpInv /\ PlatformInv

-----------------------------------------------------------------------------
(* One copy: what the processes hold the locks for *)

\* Each half has its own names.
NamesInv ==
  /\ platform = "windows" =>
       /\ \A d \in Dirs, n \in Nets : link[Path(d, n)] = NoObj
       /\ \A d \in Dirs, f \in Files : link[Alias(d, f)] = NoObj
  /\ platform = "linux" => \A n \in Nets : link[Area(n)] = NoObj

\* A load begins by releasing the view of the load before.
ReleasedInv == \A p \in Procs : pc[p] \in WithSrc => view[p] = NoObj

\* From the look under the lock to the last change under a name, the lock is held.
LockAt(p) == IF platform = "linux" THEN LockOf(p) ELSE MutexOf(p)
Holding == {"recheck", "reserve", "rename", "check", "createLarge", "create", "release"}
           \cup Writing
LockInv == \A p \in Procs : pc[p] \in Holding => lock[LockAt(p)] = p

\* Nothing has made a process write a second copy on Linux.
Mappable == platform = "windows" \/ faults["mapping"] = 0

\* An object under the name of a network is of that network; an area has that name only.
NamedInv ==
  /\ \A d \in Dirs, n \in Nets : link[Path(d, n)] # NoObj => header[link[Path(d, n)]] = n
  /\ Mappable => \A d \in Dirs, f \in Files : link[Alias(d, f)] # NoObj =>
       \E n \in Nets : link[Alias(d, f)] = link[Path(d, n)]
  /\ \A n \in Nets : link[Area(n)] # NoObj =>
       /\ header[link[Area(n)]] \in {n, Blank}
       /\ \A m \in Nets : link[Area(m)] = link[Area(n)] => m = n

\* What a process looks for, holds or is about to name stands as it found it; an
\* area under the name that it is about to create is the one it could not map.
Hand(p) ==
  /\ pc[p] = "rename" => header[held[p]] = src[p]
  /\ Mappable /\ pc[p] \in {"link", "unlock"} => held[p] = link[PathOf(p)]
  /\ Mappable /\ platform = "linux" /\ pc[p] \in {"reserve", "rename"} \cup Writing =>
       link[PathOf(p)] = NoObj
  /\ pc[p] = "createLarge" => link[AreaOf(p)] = NoObj
  /\ pc[p] = "create" /\ link[AreaOf(p)] # NoObj =>
       header[link[AreaOf(p)]] = Blank /\ ~ready[link[AreaOf(p)]]
  /\ platform = "windows" /\ held[p] # NoObj => held[p] = link[AreaOf(p)]
HandInv == \A p \in Procs : Hand(p)

\* What a process maps has the name of a network.
NetNames == {Area(n) : n \in Nets} \cup {Path(d, n) : d \in Dirs, n \in Nets}
MapInv ==
  Mappable => \A p \in Procs : view[p] # NoObj => \E x \in NetNames : view[p] = link[x]

\* A process maps or writes the area of n.
AtWork(n) == \E q \in Procs : pc[q] \in Writing /\ src[q] = n

\* Without a fault an area is complete, or its creator is still at work.
Healthy == faults["death"] = 0 /\ faults["mapping"] = 0
NoHalves ==
  /\ \A p \in Procs : status[p] # "notReady"
  /\ \A n \in Nets : link[Area(n)] # NoObj => Ready(link[Area(n)], n) \/ AtWork(n)
HalvesInv == Healthy => NoHalves

\* The second half of the inductive invariant.
CopyInv == /\ NamesInv /\ ReleasedInv /\ LockInv /\ NamedInv /\ HandInv /\ MapInv /\ HalvesInv

-----------------------------------------------------------------------------
\* Each name is one, and names of different kinds differ.
LEMMA NamesApart ==
  /\ \A d \in Dirs, n \in Nets : Area(n) \in Names /\ Path(d, n) \in Names
  /\ \A d \in Dirs, f \in Files : Alias(d, f) \in Names
  /\ \A d \in Dirs, p \in Procs : Tmp(d, p) \in Names
  /\ \A d, c, p, n : Tmp(d, p) # Area(n) /\ Tmp(d, p) # Path(c, n) /\ Tmp(d, p) # Alias(c, n)
  /\ \A d, c, m, n : Path(d, m) # Area(n) /\ Path(d, m) # Alias(c, n) /\ Alias(d, m) # Area(n)
  /\ \A d, c, p, q : Tmp(d, p) = Tmp(c, q) => d = c /\ p = q
  /\ \A d, c, m, n : Path(d, m) = Path(c, n) => d = c /\ m = n
  /\ \A d, c, f, g : Alias(d, f) = Alias(c, g) => d = c /\ f = g
BY DEF Names, Area, Path, Alias, Tmp

\* Only an area loses its name when a process closes it.
LEMMA Closing ==
  ASSUME TypeOK, NEW p \in Procs
  PROVE  /\ ClosedBy(p) \in [Names -> Objs \cup {NoObj}]
         /\ \A d \in Dirs, n \in Nets : ClosedBy(p)[Path(d, n)] = link[Path(d, n)]
         /\ \A d \in Dirs, f \in Files : ClosedBy(p)[Alias(d, f)] = link[Alias(d, f)]
         /\ \A d \in Dirs, q \in Procs : ClosedBy(p)[Tmp(d, q)] = link[Tmp(d, q)]
         /\ \A x \in Names : ClosedBy(p)[x] \in {link[x], NoObj}
<1>1. /\ ClosedBy(p) \in [Names -> Objs \cup {NoObj}]
      /\ \A x \in Names : ClosedBy(p)[x] \in {link[x], NoObj}
  BY DEF ClosedBy, TypeOK
<1>2. \A x \in Names : x[1] # "area" => ClosedBy(p)[x] = link[x]
  BY DEF ClosedBy
<1>3. \A d, n : Path(d, n)[1] # "area" /\ Alias(d, n)[1] # "area" /\ Tmp(d, n)[1] # "area"
  BY DEF Path, Alias, Tmp
<1> QED
  BY <1>1, <1>2, <1>3, NamesApart

\* The processes start with nothing.
LEMMA InitInv == Init => IInv
<1> SUFFICES ASSUME Init PROVE IInv
  OBVIOUS
<1>1. TypeOK
  BY NetsAssumption DEF Init, TypeOK, Steps, Statuses, Dirs, Files, NoLock
<1>2. SrcInv /\ WholeInv /\ ViewInv /\ WriterInv /\ HeldInv
  BY NetsAssumption DEF Init, SrcInv, WholeInv, ViewInv, WriterInv, HeldInv, WithSrc, Writing
<1>3. \A x \in Names : link[x] = NoObj
  BY DEF Init
<1>4. PathInv /\ AliasInv /\ TmpInv
  BY <1>3, NamesApart DEF PathInv, AliasInv, TmpInv
<1>5. PlatformInv
  BY <1>3, NamesApart DEF Init, PlatformInv, LinuxSteps, WindowsSteps
<1> QED
  BY <1>1, <1>2, <1>4, <1>5 DEF IInv

\* Faults are counted and never forgotten.
LEMMA FaultsGrow ==
  ASSUME TypeOK, NEW p \in Procs,
         BeginLoad(p) \/ Step(p) \/ Flock(p) \/ LockFails(p) \/ WaitMutex(p) \/ Die(p)
  PROVE  /\ platform' = platform /\ faults' \in [FaultKinds -> Nat]
         /\ (Healthy' => Healthy) /\ (Mappable' => Mappable)
<1>1. platform' = platform /\ (UNCHANGED faults \/ \E k \in FaultKinds : Fault(k))
  BY DEF BeginLoad, Flock, LockFails, WaitMutex, Die, Step, FileStep, LinuxStep, WriteStep,
         WindowsStep, StatFile, OpenAlias, LoadFile, LoadFails, OpenPath, Recheck, Look, Missed,
         Reserve, ReserveFails, Rename, RenamedUnmapped, Link, Unlock, WriteWeights, WriteHeader,
         WriteReady, WaitTimesOut, Poll, GiveUp, CheckArea, CreateArea, CreateFails, MapArea,
         MapFails, Release, world, scene, FaultKinds
<1>2. CASE UNCHANGED faults
  BY <1>1, <1>2 DEF TypeOK, Healthy, Mappable
<1>3. ASSUME NEW k \in FaultKinds, Fault(k)
      PROVE  /\ faults' \in [FaultKinds -> Nat]
             /\ \A x \in FaultKinds : faults'[x] = 0 => faults[x] = 0
  BY <1>3 DEF Fault, TypeOK
<1> QED
  BY <1>1, <1>2, <1>3 DEF Healthy, Mappable, FaultKinds

\* Each step of a process keeps the invariant.
LEMMA ProcessInv ==
  ASSUME IInv, CopyInv, NEW p \in Procs,
         BeginLoad(p) \/ Step(p) \/ Flock(p) \/ LockFails(p) \/ WaitMutex(p) \/ Die(p)
  PROVE  IInv'
<1> USE NetsAssumption, NamesApart
    DEF IInv, TypeOK, SrcInv, PlatformInv, Goto, Set, KeepLocal, UseShared,
        WithSrc, Writing, EmptyHanded, LinuxSteps, WindowsSteps, world, scene, private, object
<1>c. faults' \in [FaultKinds -> Nat]
  BY FaultsGrow
<1>a. {"idle", "stat", "load", "open", "lock", "reserve", "link", "wait"} \subseteq Steps
  BY DEF Steps
<1>b. \A s \in Steps : [pc EXCEPT ![p] = s] \in [Procs -> Steps]
  OBVIOUS
<1>1. CASE BeginLoad(p)
  <2>1. TypeOK'
    BY <1>c, <1>1 DEF BeginLoad, Steps, Statuses, Dirs, Files
  <2>2. SrcInv' /\ PlatformInv'
    BY <1>1 DEF BeginLoad
  <2>3. WholeInv' /\ ViewInv' /\ PathInv' /\ AliasInv'
    BY <1>1 DEF BeginLoad, WholeInv, ViewInv, PathInv, AliasInv, WriterInv, HeldInv, TmpInv
  <2>4. WriterInv' /\ HeldInv'
    BY <1>1 DEF BeginLoad, ViewInv, PathInv, AliasInv, WriterInv, HeldInv, TmpInv
  <2>5. TmpInv'
    BY <1>1 DEF BeginLoad, WriterInv, HeldInv, TmpInv
  <2> QED
    BY <2>1, <2>2, <2>3, <2>4, <2>5
<1>2. CASE StatFile(p)
  <2>1. TypeOK'
    BY <1>c, <1>2 DEF StatFile, Steps, Statuses, Dirs, Files
  <2>2. SrcInv' /\ PlatformInv'
    BY <1>2 DEF StatFile
  <2>3. WholeInv' /\ ViewInv' /\ PathInv' /\ AliasInv'
    BY <1>2 DEF StatFile, WholeInv, ViewInv, PathInv, AliasInv, WriterInv, HeldInv, TmpInv
  <2>4. WriterInv' /\ HeldInv'
    BY <1>2 DEF StatFile, ViewInv, PathInv, AliasInv, WriterInv, HeldInv, TmpInv
  <2>5. TmpInv'
    BY <1>2 DEF StatFile, WriterInv, HeldInv, TmpInv
  <2> QED
    BY <2>1, <2>2, <2>3, <2>4, <2>5
<1>3. CASE OpenAlias(p)
  <2>1. ASSUME link[Alias(dir[p], ident[p])] # NoObj, ready[link[Alias(dir[p], ident[p])]],
               pc' = [pc EXCEPT ![p] = "idle"], pc[p] = "openAlias",
               view' = [view EXCEPT ![p] = link[Alias(dir[p], ident[p])]],
               src' = [src EXCEPT ![p] = Blank], status' = [status EXCEPT ![p] = "openedByFile"],
               UNCHANGED <<world, dir, rounds, ident, held, object, link, lock>>
        PROVE  IInv'
    <3>2. TypeOK'
      BY <1>a, <1>b, <1>c, <2>1 DEF Statuses, Dirs
    <3>3. SrcInv' /\ PlatformInv' /\ WholeInv'
      BY <2>1 DEF WholeInv
    <3>4. ViewInv' /\ PathInv' /\ AliasInv'
      BY <2>1 DEF ViewInv, PathInv, AliasInv
    <3>5. WriterInv' /\ HeldInv'
      BY <2>1 DEF WriterInv, HeldInv
    <3>6. TmpInv'
      BY <2>1 DEF TmpInv
    <3> QED
      BY <3>2, <3>3, <3>4, <3>5, <3>6
  <2>2. ASSUME \E s \in {"stat", "load"} : pc' = [pc EXCEPT ![p] = s],
               \E d \in Dirs : dir' = [dir EXCEPT ![p] = d], pc[p] = "openAlias",
               UNCHANGED <<scene, rounds, ident, src, view, status, held, object, link, lock>>
        PROVE  IInv'
    <3>2. TypeOK'
      BY <1>a, <1>b, <1>c, <2>2 DEF Statuses, Dirs
    <3>3. SrcInv' /\ PlatformInv' /\ WholeInv'
      BY <2>2 DEF WholeInv
    <3>4. ViewInv' /\ PathInv' /\ AliasInv'
      BY <2>2 DEF ViewInv, PathInv, AliasInv
    <3>5. WriterInv' /\ HeldInv'
      BY <2>2 DEF WriterInv, HeldInv
    <3>6. TmpInv'
      BY <2>2 DEF TmpInv
    <3> QED
      BY <3>2, <3>3, <3>4, <3>5, <3>6
  <2> QED
    BY <1>3, <2>1, <2>2 DEF OpenAlias, Dirs
<1>4. CASE LoadFile(p)
  <2>1. TypeOK'
    BY <1>c, Closing, <1>4 DEF LoadFile, Steps, Statuses, Dirs, Files
  <2>2. SrcInv' /\ PlatformInv'
    <3>1. /\ src' = [src EXCEPT ![p] = FileNet[disk]] /\ FileNet[disk] \in Nets
          /\ pc' = [pc EXCEPT ![p] = IF platform = "linux" THEN "open" ELSE "wait"]
          /\ link' = ClosedBy(p) /\ platform' = platform
      BY <1>4 DEF LoadFile
    <3>2. SrcInv'
      BY <3>1
    <3>3. PlatformInv'
      BY <3>1, Closing DEF Platforms
    <3> QED
      BY <3>2, <3>3
  <2>3. WholeInv' /\ ViewInv' /\ PathInv' /\ AliasInv'
    BY Closing, <1>4 DEF LoadFile, WholeInv, ViewInv, PathInv, AliasInv, WriterInv, HeldInv, TmpInv
  <2>4. WriterInv' /\ HeldInv'
    BY Closing, <1>4 DEF LoadFile, ViewInv, PathInv, AliasInv, WriterInv, HeldInv, TmpInv
  <2>5. TmpInv'
    BY Closing, <1>4 DEF LoadFile, WriterInv, HeldInv, TmpInv
  <2> QED
    BY <2>1, <2>2, <2>3, <2>4, <2>5
<1>5. CASE OpenPath(p)
  <2>1. TypeOK'
    <3>1. link[PathOf(p)] \in Objs \cup {NoObj}
      BY <1>5 DEF OpenPath, Look, PathOf
    <3>2. pc' \in [Procs -> Steps]
      BY <1>a, <1>b, <1>5 DEF OpenPath, Look
    <3>3. held' \in [Procs -> Objs \cup {NoObj}]
      BY <1>5, <3>1 DEF OpenPath, Look
    <3> QED
      BY <1>c, <1>5, <3>2, <3>3 DEF OpenPath, Look
  <2>2. SrcInv'
    BY <1>5 DEF OpenPath, Look, Ready, PathOf
  <2>3. PlatformInv'
    BY <1>5 DEF OpenPath, Look, Ready, PathOf
  <2>4. WholeInv'
    BY <1>5
       DEF OpenPath, Look, Ready, PathOf, ViewInv, PathInv, AliasInv, WriterInv, HeldInv, TmpInv, WholeInv
  <2>5. ViewInv'
    BY <1>5 DEF OpenPath, Look, Ready, PathOf, ViewInv, PathInv, AliasInv, WriterInv, HeldInv, TmpInv
  <2>6. PathInv'
    BY <1>5 DEF OpenPath, Look, Ready, PathOf, ViewInv, PathInv, AliasInv, WriterInv, HeldInv, TmpInv
  <2>7. AliasInv'
    BY <1>5 DEF OpenPath, Look, Ready, PathOf, ViewInv, PathInv, AliasInv, WriterInv, HeldInv, TmpInv
  <2>8. WriterInv'
    <3>1. pc'[p] \notin Writing /\ UNCHANGED <<platform, dir, src, object, link>>
      BY <1>5 DEF OpenPath, Look, Ready, PathOf
    <3>2. \A q \in Procs \ {p} : pc'[q] = pc[q] /\ held'[q] = held[q]
      BY <1>5 DEF OpenPath, Look, Ready, PathOf
    <3>3. ASSUME NEW q \in Procs, pc'[q] \in Writing
          PROVE  q # p /\ pc[q] \in Writing /\ pc'[q] = pc[q] /\ held'[q] = held[q]
      BY <3>1, <3>2, <3>3
    <3> QED
      BY <3>1, <3>3 DEF WriterInv
  <2>9. HeldInv'
    BY <1>5 DEF OpenPath, Look, Ready, PathOf, ViewInv, PathInv, AliasInv, WriterInv, HeldInv, TmpInv
  <2>10. TmpInv'
    BY <1>5 DEF OpenPath, Look, Ready, PathOf, ViewInv, PathInv, AliasInv, WriterInv, HeldInv, TmpInv
  <2> QED
    BY <2>1, <2>2, <2>3, <2>4, <2>5, <2>6, <2>7, <2>8, <2>9, <2>10
<1>6. CASE LockFails(p)
  <2>1. TypeOK'
    <3>1. dir' \in [Procs -> Dirs]
      BY <1>6 DEF LockFails, NextDir, Dirs
    <3>2. pc' \in [Procs -> Steps]
      BY <1>a, <1>b, <1>6 DEF LockFails, NextDir
    <3>3. status' \in [Procs -> Statuses]
      BY <1>6 DEF LockFails, NextDir, Statuses
    <3> QED
      BY <1>c, <1>6, <3>1, <3>2, <3>3 DEF LockFails, NextDir
  <2>2. SrcInv' /\ PlatformInv'
    BY <1>6 DEF LockFails, NextDir
  <2>3. WholeInv' /\ ViewInv' /\ PathInv' /\ AliasInv'
    BY <1>6 DEF LockFails, NextDir, WholeInv, ViewInv, PathInv, AliasInv, WriterInv, HeldInv, TmpInv
  <2>4. WriterInv' /\ HeldInv'
    BY <1>6 DEF LockFails, NextDir, ViewInv, PathInv, AliasInv, WriterInv, HeldInv, TmpInv
  <2>5. TmpInv'
    <3>1. /\ UNCHANGED <<link, held, view>> /\ pc[p] = "lock"
          /\ \A q \in Procs \ {p} : pc'[q] = pc[q]
      BY <1>6 DEF LockFails, NextDir
    <3>2. \A q \in Procs : pc[q] \in Writing \cup {"rename"} => pc'[q] = pc[q]
      BY <3>1
    <3>3. ASSUME NEW d \in Dirs, NEW r \in Procs, link[Tmp(d, r)] # NoObj, NEW q \in Procs,
                 held[q] = link[Tmp(d, r)]
          PROVE  q = r /\ pc'[r] \in Writing \cup {"rename"}
      <4>1. q = r /\ pc[r] \in Writing \cup {"rename"}
        BY <3>3 DEF TmpInv
      <4> QED
        BY <3>2, <4>1
    <3>4. \A d \in Dirs, r \in Procs : link[Tmp(d, r)] # NoObj =>
            /\ \A x \in Names \ {Tmp(d, r)} : link[x] # link[Tmp(d, r)]
            /\ \A q \in Procs : view[q] # link[Tmp(d, r)]
      BY DEF TmpInv
    <3> QED
      BY <3>1, <3>3, <3>4 DEF TmpInv
  <2> QED
    BY <2>1, <2>2, <2>3, <2>4, <2>5
<1>7. CASE Flock(p)
  <2>1. TypeOK'
    BY <1>c, <1>7 DEF Flock, LockOf, NoLock, Steps, Statuses, Dirs, Files
  <2>2. SrcInv' /\ PlatformInv'
    BY <1>7 DEF Flock, LockOf, NoLock
  <2>3. WholeInv' /\ ViewInv' /\ PathInv' /\ AliasInv'
    BY <1>7
       DEF Flock, LockOf, NoLock, WholeInv, ViewInv, PathInv, AliasInv, WriterInv, HeldInv, TmpInv
  <2>4. WriterInv' /\ HeldInv'
    BY <1>7 DEF Flock, LockOf, NoLock, ViewInv, PathInv, AliasInv, WriterInv, HeldInv, TmpInv
  <2>5. TmpInv'
    BY <1>7 DEF Flock, LockOf, NoLock, WriterInv, HeldInv, TmpInv
  <2> QED
    BY <2>1, <2>2, <2>3, <2>4, <2>5
<1>8. CASE Recheck(p)
  <2>1. TypeOK'
    <3>1. link[PathOf(p)] \in Objs \cup {NoObj}
      BY <1>8 DEF Recheck, Look, PathOf
    <3>2. pc' \in [Procs -> Steps]
      BY <1>a, <1>b, <1>8 DEF Recheck, Look
    <3>3. held' \in [Procs -> Objs \cup {NoObj}]
      BY <1>8, <3>1 DEF Recheck, Look
    <3> QED
      BY <1>c, <1>8, <3>2, <3>3 DEF Recheck, Look
  <2>2. SrcInv'
    BY <1>8 DEF Recheck, Look, FoundUnderLock, Ready, PathOf
  <2>3. PlatformInv'
    BY <1>8 DEF Recheck, Look, FoundUnderLock, Ready, PathOf
  <2>4. WholeInv'
    BY <1>8
       DEF Recheck, Look, FoundUnderLock, Ready, PathOf, ViewInv, PathInv, AliasInv, WriterInv, HeldInv,
           TmpInv, WholeInv
  <2>5. ViewInv'
    BY <1>8
       DEF Recheck, Look, FoundUnderLock, Ready, PathOf, ViewInv, PathInv, AliasInv, WriterInv, HeldInv,
           TmpInv
  <2>6. PathInv'
    BY <1>8
       DEF Recheck, Look, FoundUnderLock, Ready, PathOf, ViewInv, PathInv, AliasInv, WriterInv, HeldInv,
           TmpInv
  <2>7. AliasInv'
    BY <1>8
       DEF Recheck, Look, FoundUnderLock, Ready, PathOf, ViewInv, PathInv, AliasInv, WriterInv, HeldInv,
           TmpInv
  <2>8. WriterInv'
    <3>1. pc'[p] \notin Writing /\ UNCHANGED <<platform, dir, src, object, link>>
      BY <1>8 DEF Recheck, Look, FoundUnderLock, Ready, PathOf
    <3>2. \A q \in Procs \ {p} : pc'[q] = pc[q] /\ held'[q] = held[q]
      BY <1>8 DEF Recheck, Look, FoundUnderLock, Ready, PathOf
    <3>3. ASSUME NEW q \in Procs, pc'[q] \in Writing
          PROVE  q # p /\ pc[q] \in Writing /\ pc'[q] = pc[q] /\ held'[q] = held[q]
      BY <3>1, <3>2, <3>3
    <3> QED
      BY <3>1, <3>3 DEF WriterInv
  <2>9. HeldInv'
    BY <1>8
       DEF Recheck, Look, FoundUnderLock, Ready, PathOf, ViewInv, PathInv, AliasInv, WriterInv, HeldInv,
           TmpInv
  <2>10. TmpInv'
    BY <1>8
       DEF Recheck, Look, FoundUnderLock, Ready, PathOf, ViewInv, PathInv, AliasInv, WriterInv, HeldInv,
           TmpInv
  <2> QED
    BY <2>1, <2>2, <2>3, <2>4, <2>5, <2>6, <2>7, <2>8, <2>9, <2>10
<1>9. CASE Reserve(p)
  <2>1. TypeOK'
    <3>1. PICK o \in Fresh(link[Tmp(dir[p], p)]) :
             held' = Set(held, p, o) /\ link' = Set(link, Tmp(dir[p], p), o) /\ Blanked(o)
      BY <1>9 DEF Reserve
    <3>2. o \in Objs
      BY <3>1 DEF Fresh
    <3>3. pc' \in [Procs -> Steps]
      BY <1>9 DEF Reserve, Steps
    <3> QED
      BY <1>c, <1>9, <3>1, <3>2, <3>3 DEF Reserve, Blanked
  <2>2. SrcInv' /\ PlatformInv'
    BY <1>9 DEF Reserve, Fresh, InUse, Blanked
  <2>3. WholeInv' /\ ViewInv' /\ PathInv' /\ AliasInv'
    BY <1>9
       DEF Reserve, Fresh, InUse, Blanked, WholeInv, ViewInv, PathInv, AliasInv, WriterInv, HeldInv,
           TmpInv
  <2>4. WriterInv' /\ HeldInv'
    BY <1>9
       DEF Reserve, Fresh, InUse, Blanked, ViewInv, PathInv, AliasInv, WriterInv, HeldInv, TmpInv
  <2>5. TmpInv'
    BY <1>9 DEF Reserve, Fresh, InUse, Blanked, WriterInv, HeldInv, TmpInv
  <2> QED
    BY <2>1, <2>2, <2>3, <2>4, <2>5
<1>10. CASE ReserveFails(p)
  <2>1. TypeOK'
    <3>1. dir' \in [Procs -> Dirs]
      BY <1>10 DEF ReserveFails, NextDir, Dirs
    <3>2. pc' \in [Procs -> Steps]
      BY <1>a, <1>b, <1>10 DEF ReserveFails, NextDir
    <3>3. status' \in [Procs -> Statuses]
      BY <1>10 DEF ReserveFails, NextDir, Statuses
    <3>4. lock' \in [Dirs \X Nets -> Procs \cup {NoLock}]
      BY <1>10 DEF ReserveFails, FreedLock, LockOf
    <3>5. link' \in [Names -> Objs \cup {NoObj}]
      BY <1>10 DEF ReserveFails
    <3> QED
      BY <1>c, <1>10, <3>1, <3>2, <3>3, <3>4, <3>5 DEF ReserveFails, NextDir
  <2>2. SrcInv' /\ PlatformInv'
    BY <1>10 DEF ReserveFails, NextDir, FreedLock, LockOf, NoLock
  <2>3. WholeInv' /\ ViewInv' /\ PathInv' /\ AliasInv'
    BY <1>10
       DEF ReserveFails, NextDir, FreedLock, LockOf, NoLock, WholeInv, ViewInv, PathInv, AliasInv,
           WriterInv, HeldInv, TmpInv
  <2>4. WriterInv' /\ HeldInv'
    BY <1>10
       DEF ReserveFails, NextDir, FreedLock, LockOf, NoLock, ViewInv, PathInv, AliasInv, WriterInv,
           HeldInv, TmpInv
  <2>5. TmpInv'
    BY <1>10 DEF ReserveFails, NextDir, FreedLock, LockOf, NoLock, WriterInv, HeldInv, TmpInv
  <2> QED
    BY <2>1, <2>2, <2>3, <2>4, <2>5
<1>11. CASE Rename(p)
  <2>1. TypeOK'
    BY <1>c, <1>11 DEF Rename, Renamed, PathOf, Steps, Statuses, Dirs, Files
  <2>2. SrcInv' /\ PlatformInv'
    BY <1>11 DEF Rename, Renamed, PathOf
  <2>3. WholeInv' /\ ViewInv' /\ PathInv' /\ AliasInv'
    BY <1>11 DEF Rename, Renamed, PathOf, WholeInv, ViewInv, PathInv, AliasInv, WriterInv, HeldInv, TmpInv
  <2>4. WriterInv' /\ HeldInv'
    BY <1>11 DEF Rename, Renamed, PathOf, ViewInv, PathInv, AliasInv, WriterInv, HeldInv, TmpInv
  <2>5. TmpInv'
    BY <1>11 DEF Rename, Renamed, PathOf, WriterInv, HeldInv, TmpInv
  <2> QED
    BY <2>1, <2>2, <2>3, <2>4, <2>5
<1>12. CASE Link(p)
  <2>1. TypeOK'
    BY <1>c, <1>12 DEF Link, PathOf, Steps, Statuses, Dirs, Files
  <2>2. SrcInv' /\ PlatformInv'
    BY <1>12 DEF Link, PathOf
  <2>3. WholeInv' /\ ViewInv' /\ PathInv' /\ AliasInv'
    BY <1>12 DEF Link, PathOf, WholeInv, ViewInv, PathInv, AliasInv, WriterInv, HeldInv, TmpInv
  <2>4. WriterInv' /\ HeldInv'
    BY <1>12 DEF Link, PathOf, ViewInv, PathInv, AliasInv, WriterInv, HeldInv, TmpInv
  <2>5. TmpInv'
    BY <1>12 DEF Link, PathOf, WriterInv, HeldInv, TmpInv
  <2> QED
    BY <2>1, <2>2, <2>3, <2>4, <2>5
<1>13. CASE Unlock(p)
  <2>1. TypeOK'
    BY <1>c, <1>13 DEF Unlock, FreedLock, LockOf, NoLock, Steps, Statuses, Dirs, Files
  <2>2. SrcInv' /\ PlatformInv'
    BY <1>13 DEF Unlock, FreedLock, LockOf, NoLock
  <2>3. WholeInv' /\ ViewInv' /\ PathInv' /\ AliasInv'
    BY <1>13
       DEF Unlock, FreedLock, LockOf, NoLock, WholeInv, ViewInv, PathInv, AliasInv, WriterInv,
           HeldInv, TmpInv
  <2>4. WriterInv' /\ HeldInv'
    BY <1>13
       DEF Unlock, FreedLock, LockOf, NoLock, ViewInv, PathInv, AliasInv, WriterInv, HeldInv, TmpInv
  <2>5. TmpInv'
    BY <1>13 DEF Unlock, FreedLock, LockOf, NoLock, WriterInv, HeldInv, TmpInv
  <2> QED
    BY <2>1, <2>2, <2>3, <2>4, <2>5
<1>14. CASE WriteWeights(p)
  <2>1. TypeOK'
    BY <1>c, <1>14 DEF WriteWeights, Steps, Statuses, Dirs, Files
  <2>2. SrcInv' /\ PlatformInv'
    BY <1>14 DEF WriteWeights
  <2>3. WholeInv' /\ ViewInv' /\ PathInv' /\ AliasInv'
    BY <1>14 DEF WriteWeights, WholeInv, ViewInv, PathInv, AliasInv, WriterInv, HeldInv, TmpInv
  <2>4. WriterInv' /\ HeldInv'
    BY <1>14 DEF WriteWeights, ViewInv, PathInv, AliasInv, WriterInv, HeldInv, TmpInv
  <2>5. TmpInv'
    BY <1>14 DEF WriteWeights, WriterInv, HeldInv, TmpInv
  <2> QED
    BY <2>1, <2>2, <2>3, <2>4, <2>5
<1>15. CASE WriteHeader(p)
  <2>1. TypeOK'
    BY <1>c, <1>15 DEF WriteHeader, Steps, Statuses, Dirs, Files
  <2>2. SrcInv' /\ PlatformInv'
    BY <1>15 DEF WriteHeader
  <2>3. WholeInv' /\ ViewInv' /\ PathInv' /\ AliasInv'
    BY <1>15 DEF WriteHeader, WholeInv, ViewInv, PathInv, AliasInv, WriterInv, HeldInv, TmpInv
  <2>4. WriterInv' /\ HeldInv'
    BY <1>15 DEF WriteHeader, ViewInv, PathInv, AliasInv, WriterInv, HeldInv, TmpInv
  <2>5. TmpInv'
    BY <1>15 DEF WriteHeader, WriterInv, HeldInv, TmpInv
  <2> QED
    BY <2>1, <2>2, <2>3, <2>4, <2>5
<1>16. CASE WriteReady(p)
  <2>1. TypeOK'
    BY <1>c, <1>16 DEF WriteReady, Steps, Statuses, Dirs, Files
  <2>0. /\ pc[p] = "ready" /\ UNCHANGED <<platform, src, held, view, link>>
        /\ pc' = [pc EXCEPT ![p] = IF platform = "linux" THEN "rename" ELSE "release"]
    BY <1>16 DEF WriteReady
  <2>2. SrcInv' /\ PlatformInv'
    BY <2>0 DEF Platforms
  <2>3. WholeInv' /\ ViewInv' /\ PathInv' /\ AliasInv'
    BY <1>16 DEF WriteReady, WholeInv, ViewInv, PathInv, AliasInv, WriterInv, HeldInv, TmpInv
  <2>4. WriterInv' /\ HeldInv'
    BY <1>16 DEF WriteReady, ViewInv, PathInv, AliasInv, WriterInv, HeldInv, TmpInv
  <2>5. TmpInv'
    <3>1. platform = "windows" => \A d \in Dirs, q \in Procs : link[Tmp(d, q)] = NoObj
      OBVIOUS
    <3>2. platform = "linux" => pc'[p] = "rename"
      BY <2>0
    <3> QED
      BY <2>0, <3>1, <3>2 DEF TmpInv, Platforms
  <2> QED
    BY <2>1, <2>2, <2>3, <2>4, <2>5
<1>17. CASE WaitMutex(p)
  <2>1. TypeOK'
    BY <1>c, <1>17 DEF WaitMutex, MutexFree, MutexOf, NoLock, Steps, Statuses, Dirs, Files
  <2>2. SrcInv' /\ PlatformInv'
    BY <1>17 DEF WaitMutex, MutexFree, MutexOf, NoLock
  <2>3. WholeInv' /\ ViewInv' /\ PathInv' /\ AliasInv'
    BY <1>17
       DEF WaitMutex, MutexFree, MutexOf, NoLock, WholeInv, ViewInv, PathInv, AliasInv, WriterInv,
           HeldInv, TmpInv
  <2>4. WriterInv' /\ HeldInv'
    BY <1>17
       DEF WaitMutex, MutexFree, MutexOf, NoLock, ViewInv, PathInv, AliasInv, WriterInv, HeldInv,
           TmpInv
  <2>5. TmpInv'
    BY <1>17 DEF WaitMutex, MutexFree, MutexOf, NoLock, WriterInv, HeldInv, TmpInv
  <2> QED
    BY <2>1, <2>2, <2>3, <2>4, <2>5
<1>18. CASE WaitTimesOut(p)
  <2>1. TypeOK'
    <3>1. link[AreaOf(p)] \in Objs \cup {NoObj}
      BY <1>18 DEF WaitTimesOut, AreaOf
    <3>2. pc' \in [Procs -> Steps]
      BY <1>18 DEF WaitTimesOut, Steps
    <3>3. rounds' \in [Procs -> 0..MaxRounds]
      BY <1>18 DEF WaitTimesOut, RoundsLeft
    <3> QED
      BY <1>c, <1>18, <3>1, <3>2, <3>3 DEF WaitTimesOut
  <2>2. SrcInv' /\ PlatformInv'
    BY <1>18 DEF WaitTimesOut, AreaOf
  <2>3. WholeInv' /\ ViewInv' /\ PathInv' /\ AliasInv'
    BY <1>18
       DEF WaitTimesOut, AreaOf, WholeInv, ViewInv, PathInv, AliasInv, WriterInv, HeldInv, TmpInv
  <2>4. WriterInv' /\ HeldInv'
    BY <1>18 DEF WaitTimesOut, AreaOf, ViewInv, PathInv, AliasInv, WriterInv, HeldInv, TmpInv
  <2>5. TmpInv'
    BY <1>18 DEF WaitTimesOut, AreaOf, WriterInv, HeldInv, TmpInv
  <2> QED
    BY <2>1, <2>2, <2>3, <2>4, <2>5
<1>19. CASE Poll(p)
  <2>1. ASSUME Ready(held[p], src[p]), pc' = [pc EXCEPT ![p] = "idle"], pc[p] = "polling",
               held' = [held EXCEPT ![p] = NoObj], view' = [view EXCEPT ![p] = held[p]],
               src' = [src EXCEPT ![p] = Blank], status' = [status EXCEPT ![p] = "shared"],
               UNCHANGED <<world, dir, rounds, ident, object, link, lock>>
        PROVE  IInv'
    <3>1. held[p] # NoObj /\ ready[held[p]]
      BY <2>1 DEF Ready
    <3>2. TypeOK'
      BY <1>a, <1>b, <1>c, <2>1 DEF Statuses
    <3>3. SrcInv' /\ PlatformInv' /\ WholeInv'
      BY <2>1 DEF WholeInv
    <3>4. ViewInv' /\ PathInv' /\ AliasInv'
      BY <2>1, <3>1 DEF ViewInv, PathInv, AliasInv
    <3>5. WriterInv' /\ HeldInv'
      BY <2>1 DEF WriterInv, HeldInv
    <3>6. TmpInv'
      BY <2>1 DEF TmpInv
    <3> QED
      BY <3>2, <3>3, <3>4, <3>5, <3>6
  <2>2. ASSUME pc' = [pc EXCEPT ![p] = "wait"], pc[p] = "polling",
               held' = [held EXCEPT ![p] = NoObj], link' = ClosedBy(p),
               UNCHANGED <<scene, dir, rounds, ident, src, view, status, object, lock>>
        PROVE  IInv'
    <3>2. TypeOK'
      BY Closing, <1>a, <1>b, <1>c, <2>2 DEF Statuses
    <3>3. SrcInv' /\ PlatformInv' /\ WholeInv'
      BY Closing, <2>2 DEF WholeInv
    <3>4. ViewInv' /\ PathInv' /\ AliasInv'
      BY Closing, <2>2 DEF ViewInv, PathInv, AliasInv
    <3>5. WriterInv' /\ HeldInv'
      BY Closing, <2>2 DEF WriterInv, HeldInv
    <3>6. TmpInv'
      BY Closing, <2>2 DEF TmpInv
    <3> QED
      BY <3>2, <3>3, <3>4, <3>5, <3>6
  <2> QED
    BY <1>19, <2>1, <2>2 DEF Poll
<1>20. CASE GiveUp(p)
  <2>1. TypeOK'
    BY <1>c, <1>20 DEF GiveUp, Steps, Statuses, Dirs, Files
  <2>2. SrcInv' /\ PlatformInv'
    BY <1>20 DEF GiveUp
  <2>3. WholeInv' /\ ViewInv' /\ PathInv' /\ AliasInv'
    BY <1>20 DEF GiveUp, WholeInv, ViewInv, PathInv, AliasInv, WriterInv, HeldInv, TmpInv
  <2>4. WriterInv' /\ HeldInv'
    BY <1>20 DEF GiveUp, ViewInv, PathInv, AliasInv, WriterInv, HeldInv, TmpInv
  <2>5. TmpInv'
    BY <1>20 DEF GiveUp, WriterInv, HeldInv, TmpInv
  <2> QED
    BY <2>1, <2>2, <2>3, <2>4, <2>5
<1>21. CASE CheckArea(p)
  <2>1. TypeOK'
    BY <1>c, <1>21 DEF CheckArea, Ready, AreaOf, Steps, Statuses, Dirs, Files
  <2>2. SrcInv'
    BY <1>21 DEF CheckArea, Ready, AreaOf
  <2>3. PlatformInv'
    BY <1>21 DEF CheckArea, Ready, AreaOf
  <2>4. WholeInv'
    BY <1>21
       DEF CheckArea, Ready, AreaOf, ViewInv, PathInv, AliasInv, WriterInv, HeldInv, TmpInv,
           WholeInv
  <2>5. ViewInv'
    BY <1>21 DEF CheckArea, Ready, AreaOf, ViewInv, PathInv, AliasInv, WriterInv, HeldInv, TmpInv
  <2>6. PathInv'
    BY <1>21 DEF CheckArea, Ready, AreaOf, ViewInv, PathInv, AliasInv, WriterInv, HeldInv, TmpInv
  <2>7. AliasInv'
    BY <1>21 DEF CheckArea, Ready, AreaOf, ViewInv, PathInv, AliasInv, WriterInv, HeldInv, TmpInv
  <2>8. WriterInv'
    <3>1. pc'[p] \notin Writing /\ UNCHANGED <<platform, dir, src, object, link>>
      BY <1>21 DEF CheckArea, Ready, AreaOf
    <3>2. \A q \in Procs \ {p} : pc'[q] = pc[q] /\ held'[q] = held[q]
      BY <1>21 DEF CheckArea, Ready, AreaOf
    <3>3. ASSUME NEW q \in Procs, pc'[q] \in Writing
          PROVE  q # p /\ pc[q] \in Writing /\ pc'[q] = pc[q] /\ held'[q] = held[q]
      BY <3>1, <3>2, <3>3
    <3> QED
      BY <3>1, <3>3 DEF WriterInv
  <2>9. HeldInv'
    BY <1>21 DEF CheckArea, Ready, AreaOf, ViewInv, PathInv, AliasInv, WriterInv, HeldInv, TmpInv
  <2>10. TmpInv'
    BY <1>21 DEF CheckArea, Ready, AreaOf, ViewInv, PathInv, AliasInv, WriterInv, HeldInv, TmpInv
  <2> QED
    BY <2>1, <2>2, <2>3, <2>4, <2>5, <2>6, <2>7, <2>8, <2>9, <2>10
<1>22. CASE CreateArea(p)
  <2> DEFINE left == link[AreaOf(p)]
  <2>0. /\ pc[p] \in {"createLarge", "create"} /\ platform = "windows" /\ src[p] \in Nets
        /\ \E s \in {"mapLarge", "map"} : pc' = [pc EXCEPT ![p] = s]
        /\ UNCHANGED <<world, private, lock>>
    BY <1>22 DEF CreateArea
  <2>1. CASE left # NoObj
    <3>1. held' = [held EXCEPT ![p] = left] /\ UNCHANGED <<link, object>>
      BY <1>22, <2>1 DEF CreateArea
    <3>2. left \in Objs /\ header[left] = Blank /\ ~ready[left]
      BY <2>0, <2>1 DEF CopyInv, HandInv, Hand, AreaOf
    <3>3. ASSUME NEW q \in Procs \ {p}, pc[q] \in Writing PROVE held[q] # left
      <4>1. SUFFICES ASSUME held[q] = left PROVE FALSE
        OBVIOUS
      <4>2. held[q] = link[Area(src[q])] /\ src[q] \in Nets
        BY <2>0, <2>1, <3>3, <4>1 DEF CopyInv, HandInv, Hand, AreaOf
      <4>3. src[q] = src[p]
        BY <2>0, <2>1, <4>1, <4>2 DEF CopyInv, NamedInv, AreaOf
      <4>4. lock[MutexOf(q)] = q /\ lock[MutexOf(p)] = p
        BY <2>0, <3>3 DEF CopyInv, LockInv, LockAt, Holding
      <4> QED
        BY <4>3, <4>4 DEF MutexOf
    <3> HIDE DEF left
    <3>4. TypeOK'
      BY <1>c, <2>0, <3>1, <3>2 DEF Steps
    <3>5. SrcInv' /\ PlatformInv' /\ WholeInv' /\ ViewInv' /\ PathInv' /\ AliasInv'
      BY <2>0, <3>1 DEF WholeInv, ViewInv, PathInv, AliasInv
    <3>6. WriterInv'
      BY <2>0, <3>1, <3>2, <3>3 DEF WriterInv
    <3>7. HeldInv' /\ TmpInv'
      BY <2>0, <3>1 DEF HeldInv, TmpInv
    <3> QED
      BY <3>4, <3>5, <3>6, <3>7
  <2>2. CASE left = NoObj
    <3>1. PICK o \in Fresh(NoObj) :
            /\ held' = [held EXCEPT ![p] = o] /\ link' = [link EXCEPT ![AreaOf(p)] = o]
            /\ Blanked(o)
      BY <1>22, <2>2 DEF CreateArea
    <3>2. /\ o \in Objs /\ \A x \in Names : link[x] # o
          /\ \A q \in Procs : held[q] # o /\ view[q] # o
      BY DEF Fresh, InUse
    <3>3. AreaOf(p) \in Names /\ (\A d \in Dirs, q \in Procs : Tmp(d, q) # AreaOf(p))
          /\ (\A d \in Dirs, n \in Nets : Path(d, n) # AreaOf(p))
          /\ (\A d \in Dirs, f \in Files : Alias(d, f) # AreaOf(p))
      BY <2>0 DEF AreaOf
    <3>4. TypeOK'
      BY <1>c, <2>0, <3>1, <3>2, <3>3 DEF Steps, Blanked
    <3>5. SrcInv' /\ PlatformInv' /\ WholeInv'
      BY <2>0, <3>1, <3>2, <3>3 DEF WholeInv, Blanked
    <3>6. ViewInv' /\ PathInv' /\ AliasInv'
      BY <2>0, <3>1, <3>2, <3>3 DEF ViewInv, PathInv, AliasInv, Blanked
    <3>7. WriterInv' /\ HeldInv'
      BY <2>0, <3>1, <3>2, <3>3 DEF WriterInv, HeldInv, Blanked
    <3>8. TmpInv'
      BY <2>0, <3>1, <3>2, <3>3 DEF TmpInv
    <3> QED
      BY <3>4, <3>5, <3>6, <3>7, <3>8
  <2> QED
    BY <2>1, <2>2
<1>23. CASE CreateFails(p)
  <2>1. TypeOK'
    BY <1>c, <1>23 DEF CreateFails, Steps, Statuses, Dirs, Files
  <2>2. SrcInv' /\ PlatformInv'
    BY <1>23 DEF CreateFails
  <2>3. WholeInv' /\ ViewInv' /\ PathInv' /\ AliasInv'
    BY <1>23 DEF CreateFails, WholeInv, ViewInv, PathInv, AliasInv, WriterInv, HeldInv, TmpInv
  <2>4. WriterInv' /\ HeldInv'
    BY <1>23 DEF CreateFails, ViewInv, PathInv, AliasInv, WriterInv, HeldInv, TmpInv
  <2>5. TmpInv'
    BY <1>23 DEF CreateFails, WriterInv, HeldInv, TmpInv
  <2> QED
    BY <2>1, <2>2, <2>3, <2>4, <2>5
<1>24. CASE Release(p)
  <2>1. TypeOK'
    BY <1>c, <1>24 DEF Release, FreedLock, MutexOf, NoLock, Steps, Statuses, Dirs, Files
  <2>2. SrcInv'
    BY <1>24 DEF Release, FreedLock, MutexOf, NoLock
  <2>3. PlatformInv'
    BY <1>24 DEF Release, FreedLock, MutexOf, NoLock
  <2>4. WholeInv'
    BY <1>24
       DEF Release, FreedLock, MutexOf, NoLock, ViewInv, PathInv, AliasInv, WriterInv, HeldInv,
           TmpInv, WholeInv
  <2>5. ViewInv'
    BY <1>24
       DEF Release, FreedLock, MutexOf, NoLock, ViewInv, PathInv, AliasInv, WriterInv, HeldInv,
           TmpInv
  <2>6. PathInv'
    BY <1>24
       DEF Release, FreedLock, MutexOf, NoLock, ViewInv, PathInv, AliasInv, WriterInv, HeldInv,
           TmpInv
  <2>7. AliasInv'
    BY <1>24
       DEF Release, FreedLock, MutexOf, NoLock, ViewInv, PathInv, AliasInv, WriterInv, HeldInv,
           TmpInv
  <2>8. WriterInv'
    BY <1>24
       DEF Release, FreedLock, MutexOf, NoLock, ViewInv, PathInv, AliasInv, WriterInv, HeldInv,
           TmpInv
  <2>9. HeldInv'
    BY <1>24
       DEF Release, FreedLock, MutexOf, NoLock, ViewInv, PathInv, AliasInv, WriterInv, HeldInv,
           TmpInv
  <2>10. TmpInv'
    BY <1>24
       DEF Release, FreedLock, MutexOf, NoLock, ViewInv, PathInv, AliasInv, WriterInv, HeldInv,
           TmpInv
  <2> QED
    BY <2>1, <2>2, <2>3, <2>4, <2>5, <2>6, <2>7, <2>8, <2>9, <2>10
<1>25. CASE Die(p)
  <2>1. TypeOK'
    BY <1>c, Closing, <1>25 DEF Die, NoLock, Steps, Statuses, Dirs, Files
  <2>2. SrcInv' /\ PlatformInv'
    BY Closing, <1>25 DEF Die, NoLock
  <2>3. WholeInv' /\ ViewInv' /\ PathInv' /\ AliasInv'
    BY Closing, <1>25
       DEF Die, NoLock, WholeInv, ViewInv, PathInv, AliasInv, WriterInv, HeldInv, TmpInv
  <2>4. WriterInv' /\ HeldInv'
    BY Closing, <1>25 DEF Die, NoLock, ViewInv, PathInv, AliasInv, WriterInv, HeldInv, TmpInv
  <2>5. TmpInv'
    BY Closing, <1>25 DEF Die, NoLock, WriterInv, HeldInv, TmpInv
  <2> QED
    BY <2>1, <2>2, <2>3, <2>4, <2>5
<1>26. CASE LoadFails(p)
  <2>1. TypeOK'
    BY <1>c, <1>26 DEF LoadFails, Steps, Statuses, Dirs, Files
  <2>2. SrcInv' /\ PlatformInv'
    BY <1>26 DEF LoadFails
  <2>3. WholeInv' /\ ViewInv' /\ PathInv' /\ AliasInv'
    BY <1>26 DEF LoadFails, WholeInv, ViewInv, PathInv, AliasInv, WriterInv, HeldInv, TmpInv
  <2>4. WriterInv' /\ HeldInv'
    BY <1>26 DEF LoadFails, ViewInv, PathInv, AliasInv, WriterInv, HeldInv, TmpInv
  <2>5. TmpInv'
    BY <1>26 DEF LoadFails, WriterInv, HeldInv, TmpInv
  <2> QED
    BY <2>1, <2>2, <2>3, <2>4, <2>5
<1>27. CASE RenamedUnmapped(p)
  <2>1. TypeOK'
    <3>0. NextDir(p)
      BY <1>27 DEF RenamedUnmapped
    <3>1. dir' \in [Procs -> Dirs]
      BY <3>0 DEF NextDir, Dirs
    <3>2. pc' \in [Procs -> Steps]
      BY <1>a, <1>b, <1>27 DEF RenamedUnmapped, NextDir
    <3>3. status' \in [Procs -> Statuses]
      BY <1>27 DEF RenamedUnmapped, NextDir, Statuses
    <3>4. lock' \in [Dirs \X Nets -> Procs \cup {NoLock}]
      BY <1>27 DEF RenamedUnmapped, FreedLock, LockOf
    <3>5. link' \in [Names -> Objs \cup {NoObj}] /\ held' \in [Procs -> Objs \cup {NoObj}]
      BY <1>27 DEF RenamedUnmapped, Renamed
    <3> QED
      BY <1>c, <1>27, <3>1, <3>2, <3>3, <3>4, <3>5 DEF RenamedUnmapped, NextDir
  <2>2. SrcInv' /\ PlatformInv'
    BY <1>27 DEF RenamedUnmapped, Renamed, NextDir, PathOf
  <2>3. WholeInv' /\ ViewInv' /\ PathInv' /\ AliasInv'
    BY <1>27
       DEF RenamedUnmapped, Renamed, NextDir, PathOf, WholeInv, ViewInv, PathInv, AliasInv,
           HeldInv, TmpInv
  <2>4. WriterInv' /\ HeldInv'
    BY <1>27 DEF RenamedUnmapped, Renamed, NextDir, PathOf, WriterInv, HeldInv, TmpInv
  <2>5. TmpInv'
    BY <1>27 DEF RenamedUnmapped, Renamed, NextDir, PathOf, WriterInv, HeldInv, TmpInv
  <2> QED
    BY <2>1, <2>2, <2>3, <2>4, <2>5
<1>28. CASE MapArea(p)
  <2>1. TypeOK'
    BY <1>c, <1>28 DEF MapArea, Steps
  <2>2. SrcInv' /\ PlatformInv'
    BY <1>28 DEF MapArea
  <2>3. WholeInv' /\ ViewInv' /\ PathInv' /\ AliasInv'
    BY <1>28 DEF MapArea, WholeInv, ViewInv, PathInv, AliasInv
  <2>4. WriterInv' /\ HeldInv'
    BY <1>28 DEF MapArea, WriterInv, HeldInv
  <2>5. TmpInv'
    BY <1>28 DEF MapArea, TmpInv
  <2> QED
    BY <2>1, <2>2, <2>3, <2>4, <2>5
<1>29. CASE MapFails(p)
  <2>0. /\ pc[p] \in {"mapLarge", "map"} /\ \E s \in {"create", "release"} : pc' = [pc EXCEPT ![p] = s]
        /\ held' = [held EXCEPT ![p] = NoObj] /\ link' = ClosedBy(p)
        /\ \E t \in {status[p], "cannotCreate"} : status' = [status EXCEPT ![p] = t]
        /\ UNCHANGED <<scene, dir, rounds, ident, src, view, object, lock>>
    BY <1>29 DEF MapFails
  <2>1. TypeOK'
    <3>1. pc' \in [Procs -> Steps]
      BY <2>0 DEF Steps
    <3>3. status' \in [Procs -> Statuses]
      <4>1. PICK t \in {status[p], "cannotCreate"} : status' = [status EXCEPT ![p] = t]
        BY <2>0
      <4>2. t \in Statuses
        BY DEF Statuses
      <4> QED
        BY <4>1, <4>2
    <3>2. link' \in [Names -> Objs \cup {NoObj}] /\ held' \in [Procs -> Objs \cup {NoObj}]
      BY <2>0, Closing
    <3> QED
      BY <1>c, <2>0, <3>1, <3>2, <3>3
  <2>2. SrcInv' /\ PlatformInv'
    BY <2>0, Closing
  <2>3. WholeInv' /\ ViewInv' /\ PathInv' /\ AliasInv'
    BY <2>0, Closing DEF WholeInv, ViewInv, PathInv, AliasInv
  <2>4. WriterInv' /\ HeldInv'
    BY <2>0, Closing DEF WriterInv, HeldInv
  <2>5. TmpInv'
    BY <2>0, Closing DEF TmpInv
  <2> QED
    BY <2>1, <2>2, <2>3, <2>4, <2>5
<1> QED
  BY <1>1, <1>2, <1>3, <1>4, <1>5, <1>6, <1>7, <1>8, <1>9, <1>10, <1>11, <1>12, <1>13, <1>14, <1>15,
     <1>16, <1>17, <1>18, <1>19, <1>20, <1>21, <1>22, <1>23, <1>24, <1>25, <1>26,
     <1>27, <1>28, <1>29
     DEF Step, FileStep, LinuxStep, WriteStep, WindowsStep

\* Every step keeps the first half.
LEMMA StepInv == IInv /\ CopyInv /\ [Next]_vars => IInv'
<1> SUFFICES ASSUME IInv, CopyInv, [Next]_vars PROVE IInv'
  OBVIOUS
<1>1. CASE ReplaceFile
  <2>1. disk' \in Files
    BY <1>1, NetsAssumption DEF ReplaceFile, IInv, TypeOK, Files
  <2> QED
    BY <1>1, <2>1
       DEF ReplaceFile, private, object, IInv, TypeOK, SrcInv, WholeInv, ViewInv, PathInv,
           AliasInv, WriterInv, HeldInv, TmpInv, PlatformInv
<1>2. CASE UNCHANGED vars
  BY <1>2 DEF vars, IInv, TypeOK, SrcInv, WholeInv, ViewInv, PathInv, AliasInv,
     WriterInv, HeldInv, TmpInv, PlatformInv
<1> QED
  BY <1>1, <1>2, ProcessInv DEF Next

-----------------------------------------------------------------------------
\* Each area is of one network.
LEMMA AreasApart == \A m, n : Area(m) = Area(n) => m = n
BY DEF Area

\* A name that another process still uses stays.
LEMMA ClosingKeeps ==
  ASSUME NEW p \in Procs, NEW q \in Procs \ {p}, NEW x \in Names,
         link[x] = held[q] \/ link[x] = view[q]
  PROVE  ClosedBy(p)[x] = link[x]
BY DEF ClosedBy

\* The other processes keep their locks, and the one that steps has its own.
LEMMA LockKept ==
  ASSUME LockInv, NEW p \in Procs, platform' = platform,
         \A q \in Procs \ {p} : pc'[q] = pc[q] /\ dir'[q] = dir[q] /\ src'[q] = src[q],
         \A q \in Procs \ {p} : pc[q] \in Holding /\ lock[LockAt(q)] = q => lock'[LockAt(q)] = q,
         pc'[p] \in Holding => lock'[LockAt(p)'] = p
  PROVE  LockInv'
<1>1. \A q \in Procs \ {p} : LockAt(q)' = LockAt(q)
  BY DEF LockAt, LockOf, MutexOf
<1> QED
  BY <1>1 DEF LockInv

\* The other views keep their names, and the one of the process that steps has one.
LEMMA MapKept ==
  ASSUME MapInv, NEW p \in Procs, Mappable' => Mappable,
         \A q \in Procs \ {p} : view'[q] = view[q],
         \A q \in Procs \ {p}, x \in NetNames :
           view[q] # NoObj /\ view[q] = link[x] => link'[x] = link[x],
         Mappable /\ view'[p] # NoObj => \E x \in NetNames : view'[p] = link'[x]
  PROVE  MapInv'
BY DEF MapInv

\* Nobody left an area half-done, and nobody saw one.
LEMMA HalvesKept ==
  ASSUME HalvesInv, NEW p \in Procs, Healthy' => Healthy,
         \A q \in Procs \ {p} : status'[q] = status[q] /\ pc'[q] = pc[q] /\ src'[q] = src[q],
         status'[p] # "notReady" \/ status'[p] = status[p],
         pc[p] \in Writing => pc'[p] \in Writing /\ src'[p] = src[p],
         \A n \in Nets : link'[Area(n)] # NoObj =>
           /\ link'[Area(n)] = link[Area(n)]
           /\ header'[link[Area(n)]] = header[link[Area(n)]]
           /\ ready'[link[Area(n)]] = ready[link[Area(n)]]
  PROVE  HalvesInv'
<1> SUFFICES ASSUME Healthy PROVE NoHalves'
  BY DEF HalvesInv
<1>1. \A q \in Procs : status'[q] # "notReady"
  BY DEF HalvesInv, NoHalves
<1>2. \A n \in Nets : AtWork(n) => AtWork(n)'
  BY DEF AtWork
<1>3. \A n \in Nets : link[Area(n)] # NoObj => Ready(link[Area(n)], n) \/ AtWork(n)
  BY DEF HalvesInv, NoHalves
<1>4. \A n \in Nets : link'[Area(n)] # NoObj => Ready(link[Area(n)], n)' \/ AtWork(n)'
  BY <1>2, <1>3 DEF Ready
<1>5. \A n \in Nets : link'[Area(n)] # NoObj => link'[Area(n)] = link[Area(n)]
  OBVIOUS
<1> QED
  BY <1>1, <1>4, <1>5 DEF NoHalves, Ready

\* A mapping that failed is seen.
LEMMA FaultSeen ==
  ASSUME TypeOK, Fault("mapping")
  PROVE  ~Healthy' /\ (platform = "linux" /\ platform' = platform => ~Mappable')
BY DEF TypeOK, FaultKinds, Fault, Healthy, Mappable

\* So is a death.
LEMMA DeathSeen == ASSUME TypeOK, Fault("death") PROVE ~Healthy'
BY DEF TypeOK, FaultKinds, Fault, Healthy

\* Each step of a process keeps the second half of the invariant.
LEMMA ProcessCopy ==
  ASSUME IInv, CopyInv, NEW p \in Procs,
         BeginLoad(p) \/ Step(p) \/ Flock(p) \/ LockFails(p) \/ WaitMutex(p) \/ Die(p)
  PROVE  CopyInv'
<1> USE NetsAssumption, NamesApart, AreasApart
    DEF IInv, CopyInv, TypeOK, SrcInv, Goto, Set, KeepLocal, UseShared, PathOf, AreaOf,
        LockOf, MutexOf, NoLock, WithSrc, Writing, EmptyHanded, LinuxSteps, WindowsSteps, world,
        scene, private, object
<1>a. /\ NetNames \subseteq Names /\ \A n \in Nets : Area(n) \in NetNames
      /\ \A d \in Dirs, n \in Nets : Path(d, n) \in NetNames
  BY DEF NetNames
<1>b. \A q \in Procs : dir[q] \in Dirs /\ 1 \in Dirs
  BY DEF Dirs
<1>c. \A d \in Dirs, q \in Procs : Tmp(d, q) \notin NetNames
  BY DEF NetNames
<1>d. \A d \in Dirs, f \in Files : Alias(d, f) \notin NetNames
  BY DEF NetNames
<1>e. \A q \in Procs : held[q] # NoObj => src[q] \in Nets
  BY DEF HeldInv, Steps
<1>f. \A q \in Procs : pc[q] \in Holding => LockAt(q) \in Dirs \X Nets
  BY <1>b DEF LockAt, Holding
<1>g. (Mappable' => Mappable) /\ (Healthy' => Healthy)
  BY FaultsGrow
<1> USE <1>g
<1>1. CASE BeginLoad(p)
  <2>1. NamesInv' /\ ReleasedInv' /\ LockInv' /\ NamedInv' /\ HandInv'
    BY <1>1
       DEF BeginLoad, NamesInv, ReleasedInv, LockInv, LockAt, Holding, NamedInv, HandInv, Hand
  <2>2. MapInv'
    BY <1>1 DEF BeginLoad, MapInv
  <2>3. HalvesInv'
    BY <1>1 DEF BeginLoad, HalvesInv, NoHalves, AtWork, Ready
  <2> QED
    BY <2>1, <2>2, <2>3
<1>2. CASE StatFile(p)
  <2>1. NamesInv' /\ ReleasedInv' /\ LockInv' /\ NamedInv' /\ HandInv'
    BY <1>2 DEF StatFile, NamesInv, ReleasedInv, LockInv, LockAt, Holding, NamedInv, HandInv, Hand
  <2>2. MapInv'
    BY <1>2 DEF StatFile, MapInv
  <2>3. HalvesInv'
    BY <1>2 DEF StatFile, HalvesInv, NoHalves, AtWork, Ready
  <2> QED
    BY <2>1, <2>2, <2>3
<1>3. CASE OpenAlias(p)
  <2>1. NamesInv'
    BY <1>3 DEF OpenAlias, NamesInv
  <2>0. /\ pc[p] = "openAlias" /\ pc'[p] \in {"idle", "stat", "load"}
        /\ UNCHANGED <<platform, held, object, link, lock>>
        /\ \A q \in Procs \ {p} : /\ pc'[q] = pc[q] /\ view'[q] = view[q]
                                 /\ dir'[q] = dir[q] /\ src'[q] = src[q]
    BY <1>3 DEF OpenAlias
  <2>2. ReleasedInv'
    BY <2>0 DEF ReleasedInv
  <2>3. NamedInv'
    BY <1>3 DEF OpenAlias, NamedInv
  <2>4. LockInv'
    BY <1>3 DEF OpenAlias, LockInv, LockAt, Holding, PlatformInv
  <2>5. HandInv'
    <3>1. held[p] = NoObj
      BY <2>0 DEF HeldInv
    <3>2. Hand(p)'
      BY <2>0, <3>1 DEF Hand
    <3>3. ASSUME NEW q \in Procs \ {p} PROVE Hand(q)'
      BY <2>0 DEF HandInv, Hand
    <3> QED
      BY <3>2, <3>3 DEF HandInv
  <2>6. MapInv'
    <3> DEFINE o == link[Alias(dir[p], ident[p])]
    <3>1. UNCHANGED link /\ (\A q \in Procs \ {p} : view'[q] = view[q])
          /\ view'[p] \in {view[p], o}
      BY <1>3 DEF OpenAlias
    <3>2. Mappable /\ o # NoObj => \E n \in Nets : o = link[Path(dir[p], n)]
      BY <1>b DEF NamedInv
    <3>3. Mappable /\ o # NoObj => \E x \in NetNames : o = link[x]
      BY <3>2, <1>a, <1>b
    <3>4. Mappable /\ view[p] # NoObj => \E x \in NetNames : view[p] = link[x]
      BY DEF MapInv
    <3> HIDE DEF o
    <3>5. Mappable /\ view'[p] # NoObj => \E x \in NetNames : view'[p] = link'[x]
      BY <3>1, <3>3, <3>4
    <3> QED
      BY <3>1, <3>5, MapKept
  <2>7. HalvesInv'
    <3>1. /\ UNCHANGED <<link, header, ready>> /\ pc[p] \notin Writing
          /\ \A q \in Procs \ {p} : status'[q] = status[q] /\ pc'[q] = pc[q] /\ src'[q] = src[q]
          /\ status'[p] # "notReady" \/ status'[p] = status[p]
      BY <1>3 DEF OpenAlias
    <3> QED
      BY <3>1, HalvesKept
  <2> QED
    BY <2>1, <2>2, <2>3, <2>4, <2>5, <2>6, <2>7
<1>4. CASE LoadFile(p)
  <2>1. NamesInv' /\ ReleasedInv' /\ LockInv' /\ NamedInv'
    BY <1>4, Closing DEF LoadFile, NamesInv, ReleasedInv, LockInv, LockAt, Holding, NamedInv
  <2>2. HandInv'
    <3>1. Hand(p)'
      BY <1>4 DEF LoadFile, Hand, HeldInv
    <3>2. ASSUME NEW q \in Procs \ {p} PROVE Hand(q)'
      BY <1>4, <1>b, <1>e, Closing, ClosingKeeps DEF LoadFile, HandInv, Hand, PlatformInv
    <3> QED
      BY <3>1, <3>2 DEF HandInv
  <2>3. MapInv'
    <3>1. view'[p] = NoObj /\ (\A q \in Procs \ {p} : view'[q] = view[q])
      BY <1>4 DEF LoadFile
    <3>2. \A q \in Procs \ {p}, x \in NetNames :
            view[q] # NoObj /\ view[q] = link[x] => link'[x] = link[x]
      BY <1>4, <1>a, ClosingKeeps DEF LoadFile
    <3>3. view'[p] # NoObj => \E x \in NetNames : view'[p] = link'[x]
      BY <3>1
    <3> QED
      BY <3>1, <3>2, <3>3, MapKept
  <2>4. HalvesInv'
    BY <1>4, Closing, ClosingKeeps
       DEF LoadFile, NamesInv, NamedInv, HandInv, Hand, LockInv, LockAt, Holding, HalvesInv,
           NoHalves, AtWork, WriterInv, HeldInv, WholeInv, Ready
  <2> QED
    BY <2>1, <2>2, <2>3, <2>4
<1>5. CASE LoadFails(p)
  <2>1. NamesInv' /\ ReleasedInv' /\ LockInv' /\ NamedInv' /\ HandInv'
    BY <1>5
       DEF LoadFails, NamesInv, ReleasedInv, LockInv, LockAt, Holding, NamedInv, HandInv, Hand
  <2>2. MapInv'
    BY <1>5 DEF LoadFails, MapInv
  <2>3. HalvesInv'
    BY <1>5 DEF LoadFails, HalvesInv, NoHalves, AtWork, Ready
  <2> QED
    BY <2>1, <2>2, <2>3
<1>6. CASE OpenPath(p)
  <2>1. NamesInv' /\ ReleasedInv' /\ LockInv' /\ NamedInv' /\ MapInv'
    BY <1>6 DEF OpenPath, Look, Ready, NamesInv, ReleasedInv, LockInv, LockAt, Holding, NamedInv, MapInv
  <2>2. HandInv'
    BY <1>6
       DEF OpenPath, Look, Ready, NamesInv, NamedInv, HandInv, Hand, LockInv, LockAt, Holding,
           WriterInv, HeldInv, TmpInv, PathInv
  <2>3. HalvesInv'
    <3>1. /\ UNCHANGED <<link, header, ready>> /\ pc[p] \notin Writing
          /\ \A q \in Procs \ {p} : status'[q] = status[q] /\ pc'[q] = pc[q] /\ src'[q] = src[q]
          /\ status'[p] # "notReady" \/ status'[p] = status[p]
      BY <1>6 DEF OpenPath, Look, Ready
    <3> QED
      BY <3>1, HalvesKept
  <2> QED
    BY <2>1, <2>2, <2>3
<1>7. CASE LockFails(p)
  <2>1. NamesInv' /\ ReleasedInv' /\ LockInv' /\ NamedInv' /\ HandInv'
    BY <1>7
       DEF LockFails, NextDir, NamesInv, ReleasedInv, LockInv, LockAt, Holding, NamedInv,
           HandInv, Hand
  <2>2. MapInv'
    BY <1>7 DEF LockFails, NextDir, MapInv
  <2>3. HalvesInv'
    <3>1. /\ UNCHANGED <<link, header, ready>> /\ pc[p] \notin Writing
          /\ \A q \in Procs \ {p} : status'[q] = status[q] /\ pc'[q] = pc[q] /\ src'[q] = src[q]
          /\ status'[p] # "notReady" \/ status'[p] = status[p]
      BY <1>7 DEF LockFails, NextDir
    <3> QED
      BY <3>1, HalvesKept
  <2> QED
    BY <2>1, <2>2, <2>3
<1>8. CASE Flock(p)
  <2>1. NamesInv' /\ ReleasedInv' /\ NamedInv' /\ HandInv'
    BY <1>8 DEF Flock, NamesInv, ReleasedInv, NamedInv, HandInv, Hand
  <2>2. MapInv'
    BY <1>8 DEF Flock, MapInv
  <2>3. HalvesInv'
    BY <1>8 DEF Flock, HalvesInv, NoHalves, AtWork, Ready
  <2>4. LockInv'
    BY <1>8 DEF Flock, LockInv, LockAt, Holding, PlatformInv
  <2> QED
    BY <2>1, <2>2, <2>3, <2>4
<1>9. CASE Recheck(p)
  <2>1. NamesInv' /\ ReleasedInv' /\ LockInv' /\ NamedInv' /\ MapInv'
    BY <1>9
       DEF Recheck, Look, FoundUnderLock, Ready, NamesInv, ReleasedInv, LockInv, LockAt, Holding,
           NamedInv, MapInv
  <2>2. HandInv'
    <3>1. /\ pc[p] = "recheck" /\ platform = "linux" /\ pc'[p] \in {"link", "reserve"}
          /\ UNCHANGED <<platform, dir, src, header, ready, link>>
          /\ \A q \in Procs \ {p} : pc'[q] = pc[q] /\ held'[q] = held[q]
      BY <1>9 DEF Recheck, Look, PlatformInv
    <3>2. pc'[p] = "link" => held'[p] = link[PathOf(p)]
      BY <1>9 DEF Recheck, Look
    <3>3. pc'[p] = "reserve" => Missed(FoundUnderLock(p))
      BY <1>9 DEF Recheck, Look
    <3>4. link[PathOf(p)] # NoObj => FoundUnderLock(p)
      BY <1>b, <3>1 DEF FoundUnderLock, Ready, PathInv, NamedInv
    <3>5. pc'[p] = "reserve" /\ Mappable' => link[PathOf(p)] = NoObj
      BY <3>1, <3>3, <3>4, FaultSeen DEF Missed
    <3>6. Hand(p)'
      BY <3>1, <3>2, <3>5 DEF Hand
    <3>7. ASSUME NEW q \in Procs \ {p} PROVE Hand(q)'
      BY <3>1 DEF HandInv, Hand
    <3> QED
      BY <3>6, <3>7 DEF HandInv
  <2>3. HalvesInv'
    <3>1. /\ UNCHANGED <<link, header, ready>> /\ pc[p] \notin Writing
          /\ \A q \in Procs \ {p} : status'[q] = status[q] /\ pc'[q] = pc[q] /\ src'[q] = src[q]
          /\ status'[p] # "notReady" \/ status'[p] = status[p]
      BY <1>9 DEF Recheck, Look, FoundUnderLock, Ready
    <3> QED
      BY <3>1, HalvesKept
  <2> QED
    BY <2>1, <2>2, <2>3
<1>10. CASE Reserve(p)
  <2>1. NamesInv' /\ ReleasedInv' /\ LockInv'
    BY <1>10 DEF Reserve, Fresh, InUse, Blanked, NamesInv, ReleasedInv, LockInv, LockAt, Holding
  <2>2. NamedInv'
    BY <1>10
       DEF Reserve, Fresh, InUse, Blanked, NamesInv, NamedInv, HandInv, Hand, WriterInv,
           HeldInv, TmpInv, PathInv, AliasInv, WholeInv
  <2>3. HandInv'
    <3>1. Hand(p)'
      BY <1>10 DEF Reserve, HandInv, Hand, PlatformInv
    <3>2. ASSUME NEW q \in Procs \ {p} PROVE Hand(q)'
      BY <1>10 DEF Reserve, Fresh, InUse, Blanked, HandInv, Hand, PlatformInv, HeldInv, TmpInv
    <3> QED
      BY <3>1, <3>2 DEF HandInv
  <2>4. MapInv'
    <3>1. UNCHANGED view /\ (\A x \in NetNames : link'[x] = link[x])
      BY <1>10, <1>a, <1>c DEF Reserve
    <3> QED
      BY <3>1 DEF MapInv
  <2>5. HalvesInv'
    <3>1. /\ platform' = platform /\ platform = "linux" /\ UNCHANGED <<status>>
          /\ \A n \in Nets : link'[Area(n)] = link[Area(n)]
      BY <1>10 DEF Reserve, PlatformInv
    <3> QED
      BY <3>1 DEF HalvesInv, NoHalves, NamesInv
  <2> QED
    BY <2>1, <2>2, <2>3, <2>4, <2>5
<1>11. CASE ReserveFails(p)
  <2>1. NamesInv'
    BY <1>11 DEF ReserveFails, NextDir, FreedLock, NamesInv
  <2>2. ReleasedInv'
    BY <1>11 DEF ReserveFails, NextDir, FreedLock, ReleasedInv
  <2>3. LockInv'
    BY <1>11 DEF ReserveFails, NextDir, FreedLock, LockInv, LockAt, Holding
  <2>4. NamedInv'
    BY <1>11 DEF ReserveFails, NextDir, FreedLock, NamedInv
  <2>5. HandInv'
    <3>1. /\ pc'[p] \in {"open", "idle"} /\ UNCHANGED <<platform, header, ready>>
          /\ platform = "linux" /\ link' = [link EXCEPT ![Tmp(dir[p], p)] = NoObj]
          /\ \A q \in Procs \ {p} : /\ pc'[q] = pc[q] /\ dir'[q] = dir[q]
                                   /\ src'[q] = src[q] /\ held'[q] = held[q]
      BY <1>11 DEF ReserveFails, NextDir, PlatformInv
    <3>4. \A x \in NetNames : link'[x] = link[x]
      BY <3>1, <1>a, <1>c
    <3>2. Hand(p)'
      BY <3>1 DEF Hand
    <3>3. ASSUME NEW q \in Procs \ {p} PROVE Hand(q)'
      BY <3>1, <3>4, <1>a, <1>b DEF HandInv, Hand, PlatformInv
    <3> QED
      BY <3>2, <3>3 DEF HandInv
  <2>6. MapInv'
    <3>1. UNCHANGED view /\ (\A x \in NetNames : link'[x] = link[x])
      BY <1>11, <1>a, <1>c DEF ReserveFails, NextDir
    <3> QED
      BY <3>1 DEF MapInv
  <2>7. HalvesInv'
    <3>1. /\ UNCHANGED <<header, ready>> /\ pc[p] \notin Writing
          /\ \A q \in Procs \ {p} : status'[q] = status[q] /\ pc'[q] = pc[q] /\ src'[q] = src[q]
          /\ status'[p] # "notReady" \/ status'[p] = status[p]
          /\ \A n \in Nets : link'[Area(n)] = link[Area(n)]
      BY <1>11 DEF ReserveFails, NextDir
    <3> QED
      BY <3>1, HalvesKept
  <2> QED
    BY <2>1, <2>2, <2>3, <2>4, <2>5, <2>6, <2>7
<1>12. CASE Rename(p)
  <2>1. ReleasedInv' /\ LockInv'
    BY <1>12 DEF Rename, Renamed, ReleasedInv, LockInv, LockAt, Holding
  <2>2. NamesInv'
    BY <1>12 DEF Rename, Renamed, NamesInv, PlatformInv, AliasInv, HeldInv, HandInv, Hand
  <2>3. NamedInv'
    <3>1. /\ pc[p] = "rename" /\ platform = "linux" /\ UNCHANGED <<platform, header>>
          /\ link' = [link EXCEPT ![Tmp(dir[p], p)] = NoObj, ![PathOf(p)] = held[p]]
      BY <1>12 DEF Rename, Renamed, PlatformInv
    <3>2. header[held[p]] = src[p] /\ src[p] \in Nets /\ PathOf(p) \in Names
          /\ (Mappable => link[PathOf(p)] = NoObj)
      BY <1>b, <3>1 DEF HandInv, Hand
    <3>3. /\ \A d \in Dirs, n \in Nets :
               link'[Path(d, n)] = IF Path(d, n) = PathOf(p) THEN held[p] ELSE link[Path(d, n)]
          /\ \A d \in Dirs, f \in Files : link'[Alias(d, f)] = link[Alias(d, f)]
          /\ \A n \in Nets : link'[Area(n)] = NoObj
      BY <3>1, <3>2 DEF NamesInv
    <3>4. \A d \in Dirs, n \in Nets : link'[Path(d, n)] # NoObj => header'[link'[Path(d, n)]] = n
      BY <3>1, <3>2, <3>3 DEF NamedInv
    <3>5. ASSUME Mappable, NEW d \in Dirs, NEW f \in Files, link[Alias(d, f)] # NoObj
          PROVE  \E n \in Nets : link'[Alias(d, f)] = link'[Path(d, n)]
      <4>1. PICK n \in Nets : link[Alias(d, f)] = link[Path(d, n)]
        BY <3>5 DEF NamedInv
      <4> QED
        BY <3>2, <3>3, <3>5, <4>1
    <3> QED
      BY <3>3, <3>4, <3>5 DEF NamedInv
  <2>4. HandInv'
    <3>1. Hand(p)'
      BY <1>12 DEF Rename, Renamed, HandInv, Hand, PlatformInv
    <3>2. ASSUME NEW q \in Procs \ {p} PROVE Hand(q)'
      <4>1. /\ UNCHANGED <<platform, dir, src, held, header>> /\ pc'[q] = pc[q]
            /\ platform = "linux" /\ pc[p] = "rename"
            /\ \A x \in NetNames : x # PathOf(p) => link'[x] = link[x]
        BY <1>12, <1>a, <1>c DEF Rename, Renamed, PlatformInv
      <4>2. (Mappable => link[PathOf(p)] = NoObj) /\ lock[LockOf(p)] = p
        BY <4>1 DEF HandInv, Hand, LockInv, LockAt, Holding
      <4>3. pc[q] \in {"reserve", "rename"} \cup Writing => PathOf(q) # PathOf(p)
        BY <4>1, <4>2 DEF LockInv, LockAt, Holding
      <4>4. Mappable /\ pc[q] \in {"link", "unlock"} => PathOf(q) # PathOf(p)
        BY <4>2 DEF HandInv, Hand, HeldInv
      <4>5. pc[q] \notin {"createLarge", "create"}
        BY <4>1 DEF PlatformInv
      <4>6. Mappable /\ pc[q] \in {"link", "unlock", "reserve", "rename"} \cup Writing =>
              link'[PathOf(q)] = link[PathOf(q)]
        BY <1>a, <1>b, <4>1, <4>3, <4>4
      <4> QED
        BY <4>1, <4>5, <4>6 DEF HandInv, Hand
    <3> QED
      BY <3>1, <3>2 DEF HandInv
  <2>5. MapInv'
    <3>1. UNCHANGED view /\ (\A x \in NetNames : x # PathOf(p) => link'[x] = link[x])
      BY <1>12, <1>a, <1>c DEF Rename, Renamed
    <3>2. Mappable => link[PathOf(p)] = NoObj
      BY <1>12 DEF Rename, Renamed, PlatformInv, HandInv, Hand
    <3> QED
      BY <3>1, <3>2 DEF MapInv
  <2>6. HalvesInv'
    BY <1>12
       DEF Rename, Renamed, NamesInv, NamedInv, HandInv, Hand, LockInv, LockAt, Holding, HalvesInv,
           NoHalves, AtWork, WriterInv, HeldInv, WholeInv, Ready
  <2> QED
    BY <2>1, <2>2, <2>3, <2>4, <2>5, <2>6
<1>13. CASE Link(p)
  <2>1. NamesInv' /\ ReleasedInv' /\ LockInv' /\ NamedInv' /\ HandInv'
    BY <1>13 DEF Link, NamesInv, ReleasedInv, LockInv, LockAt, Holding, NamedInv, HandInv, Hand
  <2>2. MapInv'
    <3>1. UNCHANGED view /\ (\A x \in NetNames : link'[x] = link[x])
      BY <1>13, <1>a, <1>d DEF Link
    <3> QED
      BY <3>1 DEF MapInv
  <2>3. HalvesInv'
    BY <1>13
       DEF Link, NamesInv, NamedInv, HandInv, Hand, LockInv, LockAt, Holding, HalvesInv, NoHalves, AtWork,
           WriterInv, HeldInv, WholeInv, Ready
  <2> QED
    BY <2>1, <2>2, <2>3
<1>14. CASE Unlock(p)
  <2>1. NamesInv'
    BY <1>14 DEF Unlock, FreedLock, NamesInv
  <2>2. ReleasedInv'
    BY <1>14 DEF Unlock, FreedLock, ReleasedInv
  <2>3. LockInv'
    BY <1>14 DEF Unlock, FreedLock, LockInv, LockAt, Holding
  <2>4. NamedInv'
    BY <1>14 DEF Unlock, FreedLock, NamedInv
  <2>5. HandInv'
    BY <1>14 DEF Unlock, FreedLock, HandInv, Hand
  <2>6. HalvesInv'
    BY <1>14 DEF Unlock, FreedLock, HalvesInv, NoHalves, AtWork, Ready
  <2>7. MapInv'
    <3>1. UNCHANGED link /\ (\A q \in Procs \ {p} : view'[q] = view[q]) /\ view'[p] = held[p]
      BY <1>14 DEF Unlock
    <3>2. (Mappable => held[p] = link[PathOf(p)]) /\ PathOf(p) \in NetNames
      BY <1>14, <1>a, <1>b DEF Unlock, HandInv, Hand
    <3> QED
      BY <3>1, <3>2, MapKept
  <2> QED
    BY <2>1, <2>2, <2>3, <2>4, <2>5, <2>6, <2>7
<1>15. CASE WriteWeights(p)
  <2>1. NamesInv' /\ ReleasedInv' /\ LockInv' /\ NamedInv' /\ HandInv' /\ MapInv' /\ HalvesInv'
    BY <1>15
       DEF WriteWeights, NamesInv, ReleasedInv, LockInv, LockAt, Holding, NamedInv, HandInv,
           Hand, MapInv, HalvesInv, NoHalves, AtWork, Ready
  <2> QED
    BY <2>1
<1>16. CASE WriteHeader(p)
  <2>1. NamesInv' /\ ReleasedInv' /\ LockInv' /\ MapInv'
    BY <1>16 DEF WriteHeader, NamesInv, ReleasedInv, LockInv, LockAt, Holding, MapInv
  <2>0. /\ pc[p] = "header" /\ pc' = [pc EXCEPT ![p] = "ready"]
        /\ header' = [header EXCEPT ![held[p]] = src[p]]
        /\ UNCHANGED <<platform, dir, src, held, ready, link>>
    BY <1>16 DEF WriteHeader
  <2>5. /\ held[p] \in Objs /\ ~ready[held[p]] /\ src[p] \in Nets /\ held[p] # NoObj
        /\ (platform = "linux" => link[Tmp(dir[p], p)] = held[p])
        /\ (platform = "windows" => held[p] = link[AreaOf(p)])
    BY <2>0 DEF WriterInv, HandInv, Hand
  <2>6. \A x \in Objs \cup {NoObj} : x # held[p] => header'[x] = header[x]
    BY <2>0
  <2>2. NamedInv'
    <3>1. \A d \in Dirs, n \in Nets : link[Path(d, n)] # held[p]
      BY <2>5 DEF PathInv
    <3>2. \A n \in Nets : link[Area(n)] = held[p] => n = src[p]
      BY <2>5 DEF NamedInv, NamesInv, Platforms
    <3>3. header'[held[p]] = src[p]
      BY <2>0, <2>5
    <3>4. \A n \in Nets : link[Area(n)] # NoObj => header'[link[Area(n)]] \in {n, Blank}
      BY <2>6, <3>2, <3>3 DEF NamedInv
    <3>5. \A d \in Dirs, n \in Nets : link[Path(d, n)] # NoObj => header'[link[Path(d, n)]] = n
      BY <2>6, <3>1 DEF NamedInv
    <3> QED
      BY <2>0, <3>4, <3>5 DEF NamedInv
  <2>3. HandInv'
    <3>1. Hand(p)'
      BY <2>0 DEF HandInv, Hand
    <3>2. ASSUME NEW q \in Procs \ {p} PROVE Hand(q)'
      <4>1. pc[q] = "rename" => held[q] # held[p]
        BY <2>5 DEF HeldInv
      <4>2. pc[q] = "create" => link[AreaOf(q)] # held[p]
        <5> SUFFICES ASSUME pc[q] = "create", link[AreaOf(q)] = held[p] PROVE FALSE
          OBVIOUS
        <5>1. platform = "windows" /\ src[q] \in Nets
          BY DEF PlatformInv
        <5>2. src[q] = src[p]
          BY <2>5, <5>1 DEF NamedInv
        <5>3. lock[MutexOf(q)] = q /\ lock[MutexOf(p)] = p
          BY <2>0, <5>1 DEF LockInv, LockAt, Holding
        <5> QED
          BY <5>2, <5>3
      <4>3. pc[q] = "create" => link[AreaOf(q)] \in Objs \cup {NoObj}
        OBVIOUS
      <4> QED
        BY <2>0, <2>6, <4>1, <4>2, <4>3 DEF HandInv, Hand
    <3> QED
      BY <3>1, <3>2 DEF HandInv
  <2>4. HalvesInv'
    BY <1>16
       DEF WriteHeader, NamesInv, NamedInv, HandInv, Hand, LockInv, LockAt, Holding, HalvesInv,
           NoHalves, AtWork, WriterInv, HeldInv, WholeInv, Ready
  <2> QED
    BY <2>1, <2>2, <2>3, <2>4
<1>17. CASE WriteReady(p)
  <2>1. NamesInv' /\ ReleasedInv' /\ LockInv' /\ NamedInv' /\ MapInv'
    BY <1>17 DEF WriteReady, NamesInv, ReleasedInv, LockInv, LockAt, Holding, NamedInv, MapInv
  <2>2. HandInv'
    BY <1>17
       DEF WriteReady, NamesInv, NamedInv, HandInv, Hand, LockInv, LockAt, Holding, WriterInv,
           HeldInv, TmpInv, PathInv
  <2>3. HalvesInv'
    <3>1. /\ UNCHANGED <<platform, status, link, header, src>> /\ pc[p] = "ready"
          /\ ready' = [ready EXCEPT ![held[p]] = TRUE]
          /\ \A q \in Procs \ {p} : pc'[q] = pc[q]
      BY <1>17 DEF WriteReady
    <3>2. held[p] \in Objs /\ header[held[p]] = src[p]
      BY <3>1 DEF WriterInv
    <3>3. ASSUME NEW n \in Nets, link[Area(n)] # NoObj, Ready(link[Area(n)], n)
          PROVE  Ready(link[Area(n)], n)'
      BY <3>1, <3>3 DEF Ready
    <3>4. ASSUME NEW n \in Nets, link[Area(n)] # NoObj,
                 NEW q \in Procs, pc[q] \in Writing, src[q] = n
          PROVE  Ready(link[Area(n)], n)' \/ AtWork(n)'
      <4>1. CASE q # p
        BY <3>1, <3>4, <4>1 DEF AtWork
      <4>2. CASE q = p
        <5>0. platform = "windows"
          BY <3>4 DEF NamesInv, Platforms
        <5>1. held[p] = link[Area(n)]
          BY <3>1, <3>2, <3>4, <4>2, <5>0 DEF HandInv, Hand
        <5> QED
          BY <3>1, <3>2, <3>4, <4>2, <5>1 DEF Ready
      <4> QED
        BY <4>1, <4>2
    <3> QED
      BY <3>1, <3>3, <3>4 DEF HalvesInv, NoHalves, AtWork
  <2> QED
    BY <2>1, <2>2, <2>3
<1>18. CASE WaitMutex(p)
  <2>1. NamesInv' /\ ReleasedInv' /\ NamedInv' /\ HandInv'
    BY <1>18 DEF WaitMutex, MutexFree, NamesInv, ReleasedInv, NamedInv, HandInv, Hand
  <2>2. MapInv'
    BY <1>18 DEF WaitMutex, MutexFree, MapInv
  <2>3. HalvesInv'
    BY <1>18 DEF WaitMutex, MutexFree, HalvesInv, NoHalves, AtWork, Ready
  <2>4. LockInv'
    <3>1. /\ platform = "windows" /\ platform' = platform
          /\ \A q \in Procs \ {p} : pc'[q] = pc[q] /\ dir'[q] = dir[q] /\ src'[q] = src[q]
          /\ lock[MutexOf(p)] = NoLock /\ lock' = [lock EXCEPT ![MutexOf(p)] = p]
          /\ src'[p] = src[p] /\ src[p] \in Nets
      BY <1>18 DEF WaitMutex, MutexFree, PlatformInv
    <3>2. MutexOf(p) \in Dirs \X Nets
      BY <3>1, <1>b
    <3>3. lock'[LockAt(p)'] = p
      BY <3>1, <3>2 DEF LockAt
    <3>4. \A q \in Procs \ {p}, x \in Dirs \X Nets : lock[x] = q => lock'[x] = q
      BY <3>1, <3>2
    <3> QED
      BY <1>f, <3>1, <3>3, <3>4, LockKept
  <2> QED
    BY <2>1, <2>2, <2>3, <2>4
<1>19. CASE WaitTimesOut(p)
  <2>1. NamesInv' /\ ReleasedInv' /\ LockInv' /\ NamedInv' /\ HandInv'
    BY <1>19
       DEF WaitTimesOut, RoundsLeft, NamesInv, ReleasedInv, LockInv, LockAt, Holding, NamedInv,
           HandInv, Hand
  <2>2. MapInv'
    BY <1>19 DEF WaitTimesOut, RoundsLeft, MapInv
  <2>3. HalvesInv'
    BY <1>19 DEF WaitTimesOut, RoundsLeft, HalvesInv, NoHalves, AtWork, Ready
  <2> QED
    BY <2>1, <2>2, <2>3
<1>20. CASE Poll(p)
  <2>1. NamesInv' /\ NamedInv'
    BY <1>20, Closing DEF Poll, Ready, NamesInv, NamedInv
  <2>2. ReleasedInv'
    <3>1. \A q \in Procs \ {p} : pc'[q] = pc[q] /\ view'[q] = view[q]
      BY <1>20 DEF Poll
    <3>2. pc'[p] \in WithSrc => view'[p] = view[p] /\ pc[p] \in WithSrc
      BY <1>20 DEF Poll
    <3> QED
      BY <3>1, <3>2 DEF ReleasedInv
  <2>3. LockInv'
    <3>1. /\ UNCHANGED <<platform, lock>> /\ pc'[p] \notin Holding
          /\ \A q \in Procs \ {p} : pc'[q] = pc[q] /\ dir'[q] = dir[q] /\ src'[q] = src[q]
      BY <1>20 DEF Poll, Holding
    <3> QED
      BY <3>1, LockKept
  <2>4. HandInv'
    <3>1. Hand(p)'
      BY <1>20 DEF Poll, Hand, HeldInv
    <3>2. ASSUME NEW q \in Procs \ {p} PROVE Hand(q)'
      BY <1>20, <1>b, <1>e, Closing, ClosingKeeps DEF Poll, HandInv, Hand, PlatformInv
    <3> QED
      BY <3>1, <3>2 DEF HandInv
  <2>5. MapInv'
    <3>1. \A q \in Procs \ {p}, x \in NetNames :
            view[q] # NoObj /\ view[q] = link[x] => link'[x] = link[x]
      BY <1>20, <1>a, ClosingKeeps DEF Poll
    <3>2. \A q \in Procs \ {p} : view'[q] = view[q]
      BY <1>20 DEF Poll
    <3>3. view[p] = NoObj
      BY <1>20 DEF Poll, ReleasedInv
    <3>4. view'[p] # NoObj => view'[p] = held[p] /\ held[p] # NoObj /\ UNCHANGED link
      BY <1>20, <3>3 DEF Poll, Ready
    <3>5. held[p] # NoObj => held[p] = link[AreaOf(p)]
      BY <1>20 DEF Poll, PlatformInv, HandInv, Hand
    <3>6. AreaOf(p) \in NetNames
      BY <1>20, <1>a DEF Poll
    <3>7. view'[p] # NoObj => \E x \in NetNames : view'[p] = link'[x]
      BY <3>4, <3>5, <3>6
    <3> QED
      BY <3>1, <3>2, <3>7, MapKept
  <2>6. HalvesInv'
    <3>1. /\ UNCHANGED <<header, ready>> /\ pc[p] \notin Writing
          /\ \A q \in Procs \ {p} : status'[q] = status[q] /\ pc'[q] = pc[q] /\ src'[q] = src[q]
          /\ status'[p] # "notReady" \/ status'[p] = status[p]
          /\ link' \in {link, ClosedBy(p)}
      BY <1>20 DEF Poll
    <3>2. \A n \in Nets : link'[Area(n)] # NoObj => link'[Area(n)] = link[Area(n)]
      BY <3>1, Closing
    <3> QED
      BY <3>1, <3>2, HalvesKept
  <2> QED
    BY <2>1, <2>2, <2>3, <2>4, <2>5, <2>6
<1>21. CASE GiveUp(p)
  <2>1. NamesInv' /\ ReleasedInv' /\ LockInv' /\ NamedInv' /\ HandInv'
    BY <1>21 DEF GiveUp, NamesInv, ReleasedInv, LockInv, LockAt, Holding, NamedInv, HandInv, Hand
  <2>2. MapInv'
    BY <1>21 DEF GiveUp, MapInv
  <2>3. HalvesInv'
    BY <1>21 DEF GiveUp, HalvesInv, NoHalves, AtWork, Ready
  <2> QED
    BY <2>1, <2>2, <2>3
<1>22. CASE CheckArea(p)
  <2>1. NamesInv' /\ ReleasedInv' /\ LockInv' /\ NamedInv' /\ HandInv'
    BY <1>22
       DEF CheckArea, Ready, NamesInv, ReleasedInv, LockInv, LockAt, Holding, NamedInv, HandInv,
           Hand
  <2>2. MapInv'
    BY <1>22 DEF CheckArea, Ready, MapInv
  <2>3. HalvesInv'
    <3>1. /\ UNCHANGED <<link, header, ready>> /\ pc[p] = "check"
          /\ \A q \in Procs \ {p} : status'[q] = status[q] /\ pc'[q] = pc[q] /\ src'[q] = src[q]
      BY <1>22 DEF CheckArea
    <3>2. ASSUME Healthy, link[AreaOf(p)] # NoObj
          PROVE  Ready(link[AreaOf(p)], src[p])
      <4> SUFFICES ASSUME NEW q \in Procs, pc[q] \in Writing, src[q] = src[p]
                   PROVE  FALSE
        BY <3>1, <3>2 DEF HalvesInv, NoHalves, AtWork
      <4>1. platform = "windows" /\ LockAt(q) = MutexOf(p) /\ LockAt(p) = MutexOf(p)
        BY <3>1 DEF PlatformInv, LockAt
      <4>2. lock[LockAt(q)] = q /\ lock[LockAt(p)] = p
        BY <3>1 DEF LockInv, Holding
      <4> QED
        BY <3>1, <4>1, <4>2
    <3>3. Healthy' => status'[p] = status[p]
      <4>1. CASE status' = status
        BY <4>1
      <4>2. CASE link[AreaOf(p)] # NoObj /\ Missed(Ready(link[AreaOf(p)], src[p]))
        BY <4>2, <3>2, FaultSeen DEF Missed
      <4> QED
        BY <1>22, <4>1, <4>2 DEF CheckArea
    <3>4. CASE Healthy'
      BY <3>1, <3>3, <3>4, HalvesKept
    <3> QED
      BY <3>4 DEF HalvesInv
  <2> QED
    BY <2>1, <2>2, <2>3
<1>23. CASE CreateArea(p)
  <2>0. /\ pc[p] \in {"createLarge", "create"} /\ platform = "windows" /\ src[p] \in Nets
        /\ \E t \in {"mapLarge", "map"} : pc' = [pc EXCEPT ![p] = t]
        /\ UNCHANGED <<platform, status, dir, src, view, lock>>
    BY <1>23 DEF CreateArea, PlatformInv
  <2>1. ReleasedInv' /\ LockInv'
    BY <2>0 DEF ReleasedInv, LockInv, LockAt, Holding
  <2>2. AtWork(src[p])' /\ \A n \in Nets : AtWork(n) => AtWork(n)'
    BY <2>0 DEF AtWork
  <2>3. CASE link[AreaOf(p)] # NoObj
    <3>1. /\ held' = [held EXCEPT ![p] = link[AreaOf(p)]] /\ UNCHANGED <<link, object>>
      BY <1>23, <2>3 DEF CreateArea
    <3>2. NamesInv' /\ NamedInv' /\ MapInv'
      BY <2>0, <3>1 DEF NamesInv, NamedInv, MapInv
    <3>3. HandInv'
      BY <2>0, <3>1 DEF HandInv, Hand
    <3>4. HalvesInv'
      BY <2>0, <2>2, <3>1 DEF HalvesInv, NoHalves, Ready
    <3> QED
      BY <2>1, <3>2, <3>3, <3>4
  <2>4. CASE link[AreaOf(p)] = NoObj
    <3>1. PICK o \in Fresh(NoObj) :
            /\ held' = [held EXCEPT ![p] = o] /\ link' = [link EXCEPT ![AreaOf(p)] = o]
            /\ Blanked(o)
      BY <1>23, <2>4 DEF CreateArea
    <3>2. o \in Objs /\ \A x \in Names : link[x] # o
      BY DEF Fresh, InUse
    <3>3. /\ \A n \in Nets : link'[Area(n)] = IF n = src[p] THEN o ELSE link[Area(n)]
          /\ \A x \in NetNames : x # AreaOf(p) => link'[x] = link[x]
          /\ \A d \in Dirs, n \in Nets : link'[Path(d, n)] = link[Path(d, n)]
          /\ \A d \in Dirs, f \in Files : link'[Alias(d, f)] = link[Alias(d, f)]
      BY <1>a, <2>0, <3>1
    <3>4. /\ header'[o] = Blank
          /\ \A x \in Objs : x # o => header'[x] = header[x] /\ ready'[x] = ready[x]
      BY <3>1, <3>2 DEF Blanked
    <3>5. NamesInv'
      BY <2>0, <3>3 DEF NamesInv
    <3>6. NamedInv'
      <4>1. \A n \in Nets : link'[Area(n)] # NoObj =>
              /\ header'[link'[Area(n)]] \in {n, Blank}
              /\ \A m \in Nets : link'[Area(m)] = link'[Area(n)] => m = n
        <5>1. \A n \in Nets : Area(n) \in Names /\ link[Area(n)] # o
          BY <3>2
        <5>2. \A n \in Nets : link[Area(n)] # NoObj => header'[link[Area(n)]] \in {n, Blank}
          BY <3>4, <5>1 DEF NamedInv
        <5>3. \A m, n \in Nets : link[Area(n)] # NoObj /\ link[Area(m)] = link[Area(n)] => m = n
          BY DEF NamedInv
        <5>4. ASSUME NEW n \in Nets, link'[Area(n)] # NoObj, NEW m \in Nets,
                     link'[Area(m)] = link'[Area(n)]
              PROVE  m = n
          BY <3>3, <5>1, <5>3, <5>4
        <5>5. ASSUME NEW n \in Nets, link'[Area(n)] # NoObj
              PROVE  header'[link'[Area(n)]] \in {n, Blank}
          BY <3>3, <3>4, <5>2, <5>5
        <5> QED
          BY <5>4, <5>5
      <4>2. /\ \A d \in Dirs, n \in Nets : link'[Path(d, n)] = NoObj
            /\ \A d \in Dirs, f \in Files : link'[Alias(d, f)] = NoObj
        BY <2>0, <3>3 DEF NamesInv
      <4> QED
        BY <4>1, <4>2 DEF NamedInv
    <3>7. HandInv'
      <4>1. Hand(p)'
        BY <2>0, <3>1, <3>3 DEF Hand
      <4>2. ASSUME NEW q \in Procs \ {p} PROVE Hand(q)'
        <5>1. pc'[q] = pc[q] /\ held'[q] = held[q]
          BY <2>0, <3>1
        <5>2. lock[MutexOf(p)] = p
          BY <2>0 DEF LockInv, LockAt, Holding
        <5>3. pc[q] \in {"createLarge", "create"} => AreaOf(q) # AreaOf(p)
          BY <2>0, <5>2 DEF LockInv, LockAt, Holding
        <5>4. held[q] # NoObj => AreaOf(q) # AreaOf(p)
          BY <2>0, <2>4 DEF HandInv, Hand
        <5>5. pc[q] \notin {"link", "unlock", "rename"}
          BY <2>0 DEF PlatformInv
        <5>6. pc[q] \in {"createLarge", "create"} \/ held[q] # NoObj =>
                link'[AreaOf(q)] = link[AreaOf(q)]
          BY <1>a, <1>e, <3>3, <5>3, <5>4
        <5>7. pc[q] \in {"createLarge", "create"} => AreaOf(q) \in Names
          OBVIOUS
        <5>8. \A x \in Names : link[x] # NoObj =>
                header'[link[x]] = header[link[x]] /\ ready'[link[x]] = ready[link[x]]
          BY <3>2, <3>4
        <5> QED
          BY <2>0, <5>1, <5>5, <5>6, <5>7, <5>8 DEF HandInv, Hand
      <4> QED
        BY <4>1, <4>2 DEF HandInv
    <3>8. MapInv'
      <4>1. view[p] = NoObj /\ UNCHANGED view
        BY <2>0 DEF ReleasedInv
      <4>2. \A q \in Procs \ {p}, x \in NetNames :
              view[q] # NoObj /\ view[q] = link[x] => link'[x] = link[x]
        BY <2>4, <3>3
      <4> QED
        BY <4>1, <4>2, MapKept
    <3>9. HalvesInv'
      <4>1. \A n \in Nets : link[Area(n)] # NoObj =>
              header'[link[Area(n)]] = header[link[Area(n)]]
              /\ ready'[link[Area(n)]] = ready[link[Area(n)]]
        BY <3>2, <3>4
      <4>2. ASSUME NEW n \in Nets, Healthy, link'[Area(n)] # NoObj
            PROVE  Ready(link[Area(n)], n)' \/ AtWork(n)'
        <5>1. CASE n = src[p]
          <6>1. AtWork(n)' = AtWork(src[p])'
            BY <2>0, <5>1 DEF AtWork
          <6> QED
            BY <2>2, <6>1
        <5>2. CASE n # src[p]
          <6>1. link'[Area(n)] = link[Area(n)]
            BY <3>3, <5>2
          <6>2. Ready(link[Area(n)], n) \/ AtWork(n)
            BY <4>2, <6>1 DEF HalvesInv, NoHalves
          <6> QED
            BY <2>2, <4>1, <4>2, <6>1, <6>2 DEF Ready
        <5> QED
          BY <5>1, <5>2
      <4> QED
        BY <2>0, <4>2 DEF HalvesInv, NoHalves
    <3> QED
      BY <2>1, <3>5, <3>6, <3>7, <3>8, <3>9
  <2> QED
    BY <2>3, <2>4
<1>24. CASE CreateFails(p)
  <2>0. /\ \/ pc[p] = "createLarge" /\ pc' = [pc EXCEPT ![p] = "create"]
           \/ pc[p] = "create" /\ pc' = [pc EXCEPT ![p] = "release"]
        /\ UNCHANGED <<platform, dir, src, view, held, object, link, lock>>
    BY <1>24 DEF CreateFails
  <2>1. NamesInv' /\ ReleasedInv' /\ NamedInv' /\ MapInv'
    BY <2>0 DEF NamesInv, ReleasedInv, NamedInv, MapInv
  <2>2. LockInv'
    BY <2>0 DEF LockInv, LockAt, Holding
  <2>3. HandInv'
    <3>1. Hand(p)'
      BY <2>0 DEF HandInv, Hand
    <3>2. ASSUME NEW q \in Procs \ {p} PROVE Hand(q)'
      BY <2>0 DEF HandInv, Hand
    <3> QED
      BY <3>1, <3>2 DEF HandInv
  <2>4. HalvesInv'
    <3>1. /\ UNCHANGED <<link, header, ready>> /\ pc[p] \notin Writing
          /\ \A q \in Procs \ {p} : status'[q] = status[q] /\ pc'[q] = pc[q] /\ src'[q] = src[q]
          /\ status'[p] # "notReady" \/ status'[p] = status[p]
      BY <1>24 DEF CreateFails
    <3> QED
      BY <3>1, HalvesKept
  <2> QED
    BY <2>1, <2>2, <2>3, <2>4
<1>25. CASE Release(p)
  <2>1. NamesInv' /\ ReleasedInv' /\ NamedInv' /\ HandInv'
    BY <1>25 DEF Release, FreedLock, NamesInv, ReleasedInv, NamedInv, HandInv, Hand
  <2>2. LockInv'
    <3>1. /\ platform = "windows" /\ platform' = platform
          /\ pc'[p] \notin Holding /\ pc[p] \in Holding
          /\ \A q \in Procs \ {p} : pc'[q] = pc[q] /\ dir'[q] = dir[q] /\ src'[q] = src[q]
          /\ lock' = [lock EXCEPT ![MutexOf(p)] = NoLock]
      BY <1>25 DEF Release, FreedLock, PlatformInv, Holding
    <3>2. lock[MutexOf(p)] = p
      BY <3>1 DEF LockInv, LockAt
    <3>3. \A q \in Procs \ {p}, x \in Dirs \X Nets : lock[x] = q => lock'[x] = q
      BY <3>1, <3>2
    <3> QED
      BY <1>f, <3>1, <3>3, LockKept
  <2>3. MapInv'
    <3>1. UNCHANGED link /\ (\A q \in Procs \ {p} : view'[q] = view[q])
          /\ (held[p] # NoObj => view'[p] = held[p]) /\ (held[p] = NoObj => view'[p] = view[p])
      BY <1>25 DEF Release
    <3>2. held[p] # NoObj => held[p] = link[AreaOf(p)]
      BY <1>25 DEF Release, PlatformInv, HandInv, Hand
    <3>3. AreaOf(p) \in NetNames
      BY <1>25, <1>a DEF Release
    <3>0. view[p] = NoObj
      BY <1>25 DEF Release, ReleasedInv
    <3>4. view'[p] # NoObj => \E x \in NetNames : view'[p] = link'[x]
      BY <3>0, <3>1, <3>2, <3>3
    <3> QED
      BY <3>1, <3>4, MapKept
  <2>4. HalvesInv'
    <3>1. /\ UNCHANGED <<link, header, ready>> /\ pc[p] \notin Writing
          /\ \A q \in Procs \ {p} : status'[q] = status[q] /\ pc'[q] = pc[q] /\ src'[q] = src[q]
          /\ status'[p] # "notReady" \/ status'[p] = status[p]
      BY <1>25 DEF Release
    <3> QED
      BY <3>1, HalvesKept
  <2> QED
    BY <2>1, <2>2, <2>3, <2>4
<1>26. CASE Die(p)
  <2>1. NamesInv' /\ ReleasedInv' /\ NamedInv' /\ HalvesInv'
    <3>1. /\ UNCHANGED <<platform, header>> /\ link' = ClosedBy(p) /\ view'[p] = NoObj
          /\ \A q \in Procs \ {p} : pc'[q] = pc[q] /\ view'[q] = view[q]
      BY <1>26 DEF Die
    <3>2. NamesInv'
      BY <3>1, Closing DEF NamesInv
    <3>5. ReleasedInv'
      <4>1. pc'[p] = "idle"
        BY <1>26 DEF Die
      <4> QED
        BY <3>1, <4>1 DEF ReleasedInv
    <3>3. NamedInv'
      BY <3>1, Closing DEF NamedInv
    <3>4. HalvesInv'
      BY <1>26, DeathSeen DEF Die, HalvesInv
    <3> QED
      BY <3>2, <3>3, <3>4, <3>5
  <2>2. LockInv'
    <3>1. /\ platform' = platform /\ pc'[p] \notin Holding
          /\ \A q \in Procs \ {p} : pc'[q] = pc[q] /\ dir'[q] = dir[q] /\ src'[q] = src[q]
          /\ \A x \in Dirs \X Nets : lock[x] # p => lock'[x] = lock[x]
      BY <1>26 DEF Die, Holding
    <3>2. \A q \in Procs \ {p}, x \in Dirs \X Nets : lock[x] = q => lock'[x] = q
      BY <3>1
    <3>3. \A q \in Procs \ {p} :
            pc[q] \in Holding /\ lock[LockAt(q)] = q => lock'[LockAt(q)] = q
      BY <1>f, <3>2
    <3> QED
      BY <3>1, <3>3, LockKept
  <2>3. HandInv'
    <3>1. Hand(p)'
      BY <1>26 DEF Die, Hand, HeldInv
    <3>2. ASSUME NEW q \in Procs \ {p} PROVE Hand(q)'
      BY <1>26, <1>b, <1>e, Closing, ClosingKeeps DEF Die, HandInv, Hand, PlatformInv
    <3> QED
      BY <3>1, <3>2 DEF HandInv
  <2>4. MapInv'
    <3>1. view'[p] = NoObj /\ (\A q \in Procs \ {p} : view'[q] = view[q])
      BY <1>26 DEF Die
    <3>2. \A q \in Procs \ {p}, x \in NetNames :
            view[q] # NoObj /\ view[q] = link[x] => link'[x] = link[x]
      BY <1>26, <1>a, ClosingKeeps DEF Die
    <3>3. view'[p] # NoObj => \E x \in NetNames : view'[p] = link'[x]
      BY <3>1
    <3> QED
      BY <3>1, <3>2, <3>3, MapKept
  <2> QED
    BY <2>1, <2>2, <2>3, <2>4
<1>27. CASE RenamedUnmapped(p)
  <2>1. /\ pc[p] = "rename" /\ \E t \in {"open", "idle"} : pc' = [pc EXCEPT ![p] = t]
        /\ link' = [link EXCEPT ![Tmp(dir[p], p)] = NoObj, ![PathOf(p)] = held[p]]
        /\ held' = [held EXCEPT ![p] = NoObj] /\ lock' = [lock EXCEPT ![LockOf(p)] = NoLock]
        /\ UNCHANGED <<platform, src, view, object>> /\ platform = "linux"
        /\ \A q \in Procs \ {p} : dir'[q] = dir[q]
    BY <1>27 DEF RenamedUnmapped, Renamed, NextDir, FreedLock, PlatformInv
  <2>2. ~Healthy' /\ ~Mappable'
    BY <1>27, <2>1, FaultSeen DEF RenamedUnmapped
  <2>3. NamesInv'
    BY <2>1 DEF NamesInv
  <2>4. ReleasedInv'
    BY <2>1 DEF ReleasedInv
  <2>5. LockInv'
    <3>1. pc'[p] \notin Holding
      BY <2>1 DEF Holding
    <3>2. \A q \in Procs \ {p} : pc'[q] = pc[q] /\ dir'[q] = dir[q] /\ src'[q] = src[q]
      BY <2>1
    <3>3. lock[LockOf(p)] = p
      BY <2>1 DEF LockInv, LockAt, Holding
    <3>4. \A q \in Procs \ {p}, x \in Dirs \X Nets : lock[x] = q => lock'[x] = q
      BY <2>1, <3>3
    <3>5. \A q \in Procs \ {p} :
            pc[q] \in Holding /\ lock[LockAt(q)] = q => lock'[LockAt(q)] = q
      BY <1>f, <3>4
    <3> QED
      BY <2>1, <3>1, <3>2, <3>5, LockKept
  <2>6. NamedInv'
    BY <2>1, <2>2 DEF NamedInv, NamesInv, HandInv, Hand
  <2>7. HandInv'
    BY <2>1, <2>2 DEF HandInv, Hand, PlatformInv
  <2>8. MapInv' /\ HalvesInv'
    BY <2>2 DEF MapInv, HalvesInv
  <2> QED
    BY <2>3, <2>4, <2>5, <2>6, <2>7, <2>8
<1>28. CASE MapArea(p)
  <2>1. NamesInv' /\ ReleasedInv' /\ LockInv' /\ NamedInv' /\ HandInv' /\ MapInv'
    BY <1>28
       DEF MapArea, NamesInv, ReleasedInv, LockInv, LockAt, Holding, NamedInv, HandInv, Hand,
           MapInv
  <2>2. HalvesInv'
    <3>1. /\ UNCHANGED <<link, header, ready, status, src>> /\ pc'[p] \in Writing
          /\ \A q \in Procs \ {p} : pc'[q] = pc[q]
      BY <1>28 DEF MapArea
    <3> QED
      BY <3>1, HalvesKept
  <2> QED
    BY <2>1, <2>2
<1>29. CASE MapFails(p)
  <2>1. /\ pc[p] \in {"mapLarge", "map"} /\ \E t \in {"create", "release"} : pc' = [pc EXCEPT ![p] = t]
        /\ held' = [held EXCEPT ![p] = NoObj] /\ link' = ClosedBy(p)
        /\ UNCHANGED <<platform, dir, src, view, object, lock>> /\ platform = "windows"
    BY <1>29 DEF MapFails, PlatformInv
  <2>2. NamesInv' /\ ReleasedInv' /\ LockInv' /\ NamedInv'
    BY <2>1, Closing DEF NamesInv, ReleasedInv, LockInv, LockAt, Holding, NamedInv
  <2>3. HandInv'
    <3>1. Hand(p)'
      <4>1. held[p] = link[AreaOf(p)] /\ header[held[p]] = Blank /\ ~ready[held[p]]
        BY <2>1 DEF HandInv, Hand, WriterInv
      <4>2. link'[AreaOf(p)] \in {held[p], NoObj}
        BY <2>1, <4>1, Closing
      <4> QED
        BY <2>1, <4>1, <4>2 DEF Hand
    <3>2. ASSUME NEW q \in Procs \ {p} PROVE Hand(q)'
      BY <2>1, <1>b, <1>e, Closing, ClosingKeeps DEF HandInv, Hand, PlatformInv
    <3> QED
      BY <3>1, <3>2 DEF HandInv
  <2>4. MapInv'
    <3>1. view[p] = NoObj
      BY <2>1 DEF ReleasedInv
    <3>2. \A q \in Procs \ {p}, x \in NetNames :
            view[q] # NoObj /\ view[q] = link[x] => link'[x] = link[x]
      BY <2>1, <1>a, ClosingKeeps
    <3> QED
      BY <2>1, <3>1, <3>2, MapKept
  <2>5. HalvesInv'
    BY <1>29, FaultSeen DEF MapFails, HalvesInv
  <2> QED
    BY <2>2, <2>3, <2>4, <2>5
<1> QED
  BY <1>1, <1>2, <1>3, <1>4, <1>5, <1>6, <1>7, <1>8, <1>9, <1>10, <1>11, <1>12, <1>13, <1>14,
     <1>15, <1>16, <1>17, <1>18, <1>19, <1>20, <1>21, <1>22, <1>23, <1>24, <1>25, <1>26,
     <1>27, <1>28, <1>29
     DEF Step, FileStep, LinuxStep, WriteStep, WindowsStep

\* The processes start with no name, no lock and no view.
LEMMA InitCopy == Init => CopyInv
<1> SUFFICES ASSUME Init PROVE CopyInv
  OBVIOUS
<1>0. \A x \in Names : link[x] = NoObj
  BY DEF Init
<1>1. /\ \A n \in Nets : link[Area(n)] = NoObj
      /\ \A d \in Dirs, n \in Nets : link[Path(d, n)] = NoObj
      /\ \A d \in Dirs, f \in Files : link[Alias(d, f)] = NoObj
  BY <1>0, NamesApart DEF Dirs
<1>2. NamesInv /\ NamedInv
  BY <1>1 DEF NamesInv, NamedInv
<1>3. ReleasedInv /\ LockInv /\ MapInv
  BY DEF Init, ReleasedInv, LockInv, MapInv, WithSrc, Holding, Writing
<1>4. HandInv
  BY DEF Init, HandInv, Hand, Writing
<1>5. HalvesInv
  BY <1>1 DEF Init, HalvesInv, NoHalves
<1> QED
  BY <1>2, <1>3, <1>4, <1>5 DEF CopyInv

\* Every step keeps the second half: together they are inductive.
LEMMA StepCopy == IInv /\ CopyInv /\ [Next]_vars => CopyInv'
<1> SUFFICES ASSUME IInv, CopyInv, [Next]_vars PROVE CopyInv'
  OBVIOUS
<1>1. CASE UNCHANGED <<platform, pc, held, private, object, link, lock, faults>>
  BY <1>1 DEF private, object, CopyInv, NamesInv, ReleasedInv, LockInv, LockAt, LockOf, MutexOf,
     Holding, NamedInv, HandInv, Hand, PathOf, AreaOf, MapInv, HalvesInv, NoHalves, AtWork, Ready, Mappable, Healthy
<1>2. CASE ReplaceFile \/ UNCHANGED vars
  BY <1>1, <1>2 DEF ReplaceFile, vars, private, object
<1> QED
  BY <1>2, ProcessCopy DEF Next

\* The invariant holds in every behaviour.
LEMMA SpecCopy == Spec => [](IInv /\ CopyInv)
BY InitInv, InitCopy, StepInv, StepCopy, PTL DEF Spec

-----------------------------------------------------------------------------
\* The processes, the objects and the names keep their types.
THEOREM TypeCorrect == FairSpec => []TypeOK
<1>1. IInv => TypeOK
  BY DEF IInv
<1> QED
  BY <1>1, SpecCopy, PTL DEF FairSpec

\* A process that evaluates with shared memory sees a whole network, whoever
\* creates, attaches, reloads or dies meanwhile.
THEOREM SharedIsWhole == FairSpec => []AttachedIsWhole
<1>1. IInv => AttachedIsWhole
  BY NetsAssumption DEF IInv, TypeOK, WholeInv, ViewInv, AttachedIsWhole
<1> QED
  BY <1>1, SpecCopy, PTL DEF FairSpec

\* What a process maps is what the name of its network stands for: nobody makes
\* a second copy of what others have mapped.
THEOREM OneCopyIsShared == FairSpec => []OneCopy
<1>1. IInv /\ CopyInv => OneCopy
  <2> SUFFICES ASSUME IInv, CopyInv, Mappable, NEW p \in Procs, view[p] # NoObj
               PROVE  view[p] \in {link[Area(weights[view[p]])]} \cup
                                  {link[Path(d, weights[view[p]])] : d \in Dirs}
    BY DEF OneCopy, Mappable
  <2>1. view[p] \in Objs /\ ready[view[p]]
    BY DEF IInv, TypeOK, ViewInv
  <2>2. header[view[p]] \in Nets /\ header[view[p]] = weights[view[p]]
    BY <2>1, NetsAssumption DEF IInv, WholeInv
  <2>3. PICK x \in NetNames : view[p] = link[x]
    BY DEF CopyInv, MapInv
  <2>4. CASE \E n \in Nets : x = Area(n)
    BY <2>2, <2>3, <2>4, NetsAssumption DEF CopyInv, NamedInv
  <2>5. CASE \E d \in Dirs, n \in Nets : x = Path(d, n)
    BY <2>2, <2>3, <2>5 DEF CopyInv, NamedInv
  <2> QED
    BY <2>3, <2>4, <2>5 DEF NetNames
<1> QED
  BY <1>1, SpecCopy, PTL DEF FairSpec

\* A process that has the mutex finds an area that is not ready only after a
\* death or a mapping that failed: nobody sees an area of a creator at work.
THEOREM OnlyFaultsLeaveHalves == FairSpec => []NotReadyIsAFault
<1>1. IInv /\ CopyInv => NotReadyIsAFault
  <2> SUFFICES ASSUME IInv, CopyInv, faults["death"] + faults["mapping"] <= 0
               PROVE  \A p \in Procs : status[p] # "notReady"
    BY DEF NotReadyIsAFault, IInv, TypeOK, FaultKinds
  <2>1. Healthy
    BY DEF IInv, TypeOK, FaultKinds, Healthy
  <2> QED
    BY <2>1 DEF CopyInv, HalvesInv, NoHalves
<1> QED
  BY <1>1, SpecCopy, PTL DEF FairSpec
=============================================================================
