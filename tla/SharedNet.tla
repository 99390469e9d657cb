------------------------------ MODULE SharedNet ------------------------------
(***************************************************************************)
(* One copy of the network for all the processes of a machine              *)
(* (shared_net.h) and the load that uses it (load_net_impl of              *)
(* consilium_bridge.cpp).  On Windows a named area, created under a named  *)
(* mutex and gone with its last handle; on Linux a file in one of two      *)
(* directories, written under a temporary name and renamed, with a lock    *)
(* file and a second name made from the identity of the network file.      *)
(* A process may die at any step, and a mapping may fail.  The NUMA node,  *)
(* the size and PassedScale are part of every name, so different ones      *)
(* never meet: one value of each.                                          *)
(***************************************************************************)
EXTENDS Naturals

CONSTANTS
  Procs,       \* the processes
  Nets,        \* contents of networks (contentHash)
  MaxFile,     \* identities the network file may have: its replacements on disk are 2..MaxFile
  FileNet,     \* the network each identity holds
  Objs,        \* areas or inodes
  NoObj, Blank,
  MaxRounds,   \* waits of one second for the mutex (900 in the code)
  Bounds       \* of each platform: the processes that load, the identities the file
               \* gets, the loads of all processes, the faults

Files == 1..MaxFile
Platforms == {"windows", "linux"}
Dirs == 1..2            \* $TRIUMV_SHM_DIR or /dev/shm, then /tmp
NoLock == Blank

ASSUME NetsAssumption ==
  /\ MaxFile \in Nat \ {0} /\ MaxRounds \in Nat
  /\ Bounds \in [Platforms ->
       [procs : SUBSET Procs, files : Files, loads : Nat, faults : Nat]]
  /\ FileNet \in [Files -> Nets]
  /\ NoObj \notin Objs /\ Blank \notin Nets /\ Blank \notin Procs

\* The names an object can have; "area" is the name of a mapping on Windows.
Area(n) == <<"area", 1, n>>
Path(d, n) == <<"path", d, n>>
Alias(d, f) == <<"alias", d, f>>
Tmp(d, p) == <<"tmp", d, p>>
Names == {Area(n) : n \in Nets} \cup {Path(d, n) : d \in Dirs, n \in Nets}
         \cup {Alias(d, f) : d \in Dirs, f \in Files} \cup {Tmp(d, p) : d \in Dirs, p \in Procs}

VARIABLES
  platform,  \* which half of shared_net.h was compiled
  disk,      \* identity of the network file now
  pc, dir, rounds,
  ident,     \* identity the process got from its last stat
  src,       \* network in the process's own memory (g_cn), Blank for none
  held,      \* object the process opened or creates inside a call
  view,      \* current() and g_cn_view when it is shared, NoObj for none
  status,
  weights, header, ready,   \* of each object
  link,      \* object behind each name
  lock,      \* holder of the mutex or of the lock file, per directory and network
  loads,
  faults     \* how many of each kind there have been

vars == <<platform, disk, pc, dir, rounds, ident, src, held, view, status,
          weights, header, ready, link, lock, loads, faults>>

object == <<weights, header, ready>>
private == <<dir, rounds, ident, src, view, status>>
scene == <<platform, disk, loads>>
world == <<scene, faults>>

\* A process dies; an existing object cannot be mapped, for lack of memory or of
\* address space; the system refuses a new one, or its lock.
FaultKinds == {"death", "mapping", "refusal"}

Steps == {"idle", "stat", "openAlias", "load", "open", "lock", "recheck", "reserve",
          "weights", "header", "ready", "rename", "link", "unlock",
          "wait", "polling", "check", "createLarge", "mapLarge", "create", "map", "release"}

Statuses == {"none", "openedByFile", "shared", "noSharedFile",
             "mutexTimeout", "notReady", "cannotCreate"}

TypeOK ==
  /\ platform \in Platforms /\ disk \in Files
  /\ pc \in [Procs -> Steps] /\ dir \in [Procs -> Dirs]
  /\ rounds \in [Procs -> 0..MaxRounds]
  /\ ident \in [Procs -> Files] /\ src \in [Procs -> Nets \cup {Blank}]
  /\ held \in [Procs -> Objs \cup {NoObj}] /\ view \in [Procs -> Objs \cup {NoObj}]
  /\ status \in [Procs -> Statuses]
  /\ weights \in [Objs -> Nets \cup {Blank}] /\ header \in [Objs -> Nets \cup {Blank}]
  /\ ready \in [Objs -> BOOLEAN]
  /\ link \in [Names -> Objs \cup {NoObj}]
  /\ lock \in [Dirs \X Nets -> Procs \cup {NoLock}]
  /\ loads \in Nat /\ faults \in [FaultKinds -> Nat]

Init ==
  /\ platform \in Platforms /\ disk = 1
  /\ pc = [p \in Procs |-> "idle"] /\ dir = [p \in Procs |-> 1]
  /\ rounds = [p \in Procs |-> 0] /\ ident = [p \in Procs |-> 1]
  /\ src = [p \in Procs |-> Blank]
  /\ held = [p \in Procs |-> NoObj] /\ view = [p \in Procs |-> NoObj]
  /\ status = [p \in Procs |-> "none"]
  /\ weights = [o \in Objs |-> Blank] /\ header = [o \in Objs |-> Blank]
  /\ ready = [o \in Objs |-> FALSE]
  /\ link = [x \in Names |-> NoObj]
  /\ lock = [x \in Dirs \X Nets |-> NoLock]
  /\ loads = 0 /\ faults = [k \in FaultKinds |-> 0]

-----------------------------------------------------------------------------
Goto(p, from, to) == pc[p] = from /\ pc' = [pc EXCEPT ![p] = to]
Set(f, p, v) == [f EXCEPT ![p] = v]

InUse == {link[x] : x \in Names} \cup {held[p] : p \in Procs} \cup {view[p] : p \in Procs}

\* Faulty variants the properties must reject stand before what they replace:
\* the header is not checked.
Present(o, n) == o # NoObj

\* What open_ready and map_ready check of an object.
Ready(o, n) == o # NoObj /\ header[o] = n /\ ready[o]

Fault(k) ==
  /\ faults["death"] + faults["mapping"] + faults["refusal"]
       < Bounds[platform].faults
  /\ faults' = [faults EXCEPT ![k] = @ + 1]

\* A look that gives no object: it is not there, or it cannot be mapped.
Missed(there) == IF there THEN Fault("mapping") ELSE UNCHANGED faults

\* Where a new object may come from: the one left under the name, or any free
\* one (always the same: which does not matter).
Fresh(left) ==
  IF left # NoObj THEN {left}
  ELSE {o \in Objs : o \notin InUse /\ o = CHOOSE x \in Objs : x \notin InUse}

Blanked(o) ==
  /\ weights' = Set(weights, o, Blank) /\ header' = Set(header, o, Blank)
  /\ ready' = Set(ready, o, FALSE)

\* The links after p has closed all its handles: an area goes with its last one.
ClosedBy(p) ==
  [x \in Names |->
     IF x[1] = "area" /\ \A q \in Procs \ {p} : link[x] \notin {held[q], view[q]}
     THEN NoObj ELSE link[x]]

\* Variant: the lock is kept.
KeptLock(x) == lock

FreedLock(x) == Set(lock, x, NoLock)

\* The load is over with the private copy, for the reason st.
KeepLocal(p, st) ==
  /\ status' = Set(status, p, st)
  /\ UNCHANGED <<src, view>>

\* The load is over with the object o: the private copy is freed.
UseShared(p, o, st) ==
  /\ view' = Set(view, p, o) /\ src' = Set(src, p, Blank)
  /\ status' = Set(status, p, st)

-----------------------------------------------------------------------------
(* load_net_impl *)

\* Another file under the same name: a new identity (inode, size, time).
ReplaceFile ==
  /\ disk < Bounds[platform].files /\ disk' = disk + 1
  /\ UNCHANGED <<platform, pc, held, private, object, link, lock, loads, faults>>

\* A start of the engine, EvalFile or PassedScale.
BeginLoad(p) ==
  /\ p \in Bounds[platform].procs
  /\ loads < Bounds[platform].loads /\ loads' = loads + 1
  /\ Goto(p, "idle", IF platform = "linux" THEN "stat" ELSE "load")
  /\ dir' = Set(dir, p, 1) /\ status' = Set(status, p, "none")
  /\ UNCHANGED <<platform, disk, faults, rounds, ident, src, view,
                 held, object, link, lock>>

\* file_alias: the name comes from the file as it is now.
StatFile(p) ==
  /\ Goto(p, "stat", "openAlias")
  /\ ident' = Set(ident, p, disk)
  /\ UNCHANGED <<world, dir, rounds, src, view, status, held, object, link, lock>>

\* attach_by_file: any complete object under the alias is mapped, its hash is
\* not compared; else the second directory, else the file is loaded.
OpenAlias(p) ==
  LET o == link[Alias(dir[p], ident[p])]
      there == o # NoObj /\ ready[o] IN
  \/ /\ there
     /\ Goto(p, "openAlias", "idle")
     /\ UseShared(p, o, "openedByFile")
     /\ UNCHANGED <<world, dir, rounds, ident, held, object, link, lock>>
  \/ /\ Goto(p, "openAlias", IF dir[p] = 1 THEN "stat" ELSE "load")
     /\ Missed(there)
     /\ dir' = Set(dir, p, IF dir[p] = 1 THEN 2 ELSE 1)
     /\ UNCHANGED <<scene, rounds, ident, src, view, status, held, object, link, lock>>

\* The file is read into a private network; attach begins by releasing the view
\* of the load before.
LoadFile(p) ==
  /\ Goto(p, "load", IF platform = "linux" THEN "open" ELSE "wait")
  /\ src' = Set(src, p, FileNet[disk])
  /\ view' = Set(view, p, NoObj) /\ link' = ClosedBy(p)
  /\ rounds' = Set(rounds, p, 0)
  /\ UNCHANGED <<world, dir, ident, status, held, object, lock>>

\* A file that cannot be read or is no network: everything stays as it was.
LoadFails(p) ==
  /\ Goto(p, "load", "idle")
  /\ UNCHANGED <<world, private, held, object, link, lock>>

-----------------------------------------------------------------------------
(* attach, Linux *)

PathOf(p) == Path(dir[p], src[p])
LockOf(p) == <<dir[p], src[p]>>

\* The directory gives nothing: the next one, or the private copy.
NextDir(p) ==
  IF dir[p] = 1
  THEN /\ pc' = Set(pc, p, "open") /\ dir' = Set(dir, p, 2)
       /\ UNCHANGED <<status, src, view>>
  ELSE /\ pc' = Set(pc, p, "idle") /\ UNCHANGED dir
       /\ KeepLocal(p, "noSharedFile")

\* map_ready of the final name: the object is mapped, or the process goes on to next.
Look(p, found, next) ==
  /\ \/ found /\ pc' = Set(pc, p, "link") /\ held' = Set(held, p, link[PathOf(p)])
        /\ UNCHANGED faults
     \/ Missed(found) /\ pc' = Set(pc, p, next) /\ UNCHANGED held
  /\ UNCHANGED <<scene, private, object, link, lock>>

\* First look, without the lock.
OpenPath(p) == pc[p] = "open" /\ Look(p, Ready(link[PathOf(p)], src[p]), "lock")

\* open or flock of the lock file fails.
LockFails(p) ==
  /\ pc[p] = "lock" /\ NextDir(p) /\ Fault("refusal")
  /\ UNCHANGED <<scene, rounds, ident, held, object, link, lock>>

Flock(p) ==
  /\ Goto(p, "lock", "recheck")
  /\ lock[LockOf(p)] = NoLock /\ lock' = Set(lock, LockOf(p), p)
  /\ UNCHANGED <<world, private, held, object, link>>

\* Variant: no second look under the lock.
FoundNever(p) == FALSE

FoundUnderLock(p) == Ready(link[PathOf(p)], src[p])

Recheck(p) == pc[p] = "recheck" /\ Look(p, FoundUnderLock(p), "reserve")

\* The file to write, with its space.
Reserve(p) ==
  /\ Goto(p, "reserve", "weights")
  /\ \E o \in Fresh(link[Tmp(dir[p], p)]) :
       held' = Set(held, p, o) /\ link' = Set(link, Tmp(dir[p], p), o) /\ Blanked(o)
  /\ UNCHANGED <<world, private, lock>>

\* It cannot be opened, the directory is full, or the renaming fails: the
\* temporary name is removed, the lock released.
ReserveFails(p) ==
  /\ pc[p] \in {"reserve", "rename"} /\ NextDir(p) /\ Fault("refusal")
  /\ link' = Set(link, Tmp(dir[p], p), NoObj) /\ held' = Set(held, p, NoObj)
  /\ lock' = FreedLock(LockOf(p))
  /\ UNCHANGED <<scene, rounds, ident, object>>

Renamed(p) == [link EXCEPT ![Tmp(dir[p], p)] = NoObj, ![PathOf(p)] = held[p]]

Rename(p) ==
  /\ Goto(p, "rename", "link")
  /\ link' = Renamed(p)
  /\ UNCHANGED <<world, private, held, object, lock>>

\* The file has its name, but its creator cannot map it: the lock is released,
\* the file stays for the others.
RenamedUnmapped(p) ==
  /\ pc[p] = "rename" /\ NextDir(p) /\ Fault("mapping")
  /\ link' = Renamed(p) /\ held' = Set(held, p, NoObj)
  /\ lock' = FreedLock(LockOf(p))
  /\ UNCHANGED <<scene, rounds, ident, object>>

\* The alias of the file as it is now; an existing one stays.
Link(p) ==
  /\ Goto(p, "link", "unlock")
  /\ ident' = Set(ident, p, disk)
  /\ LET x == Alias(dir[p], disk) IN
     link' = IF link[x] = NoObj THEN Set(link, x, link[PathOf(p)]) ELSE link
  /\ UNCHANGED <<world, dir, rounds, src, view, status, held, object, lock>>

Unlock(p) ==
  /\ Goto(p, "unlock", "idle")
  /\ lock' = IF lock[LockOf(p)] = p THEN FreedLock(LockOf(p)) ELSE lock
  /\ UseShared(p, held[p], "shared") /\ held' = Set(held, p, NoObj)
  /\ UNCHANGED <<world, dir, rounds, ident, object, link>>

-----------------------------------------------------------------------------
(* Writing an object, the same on both platforms: the weights, the header,  *)
(* then ready.                                                              *)

WriteWeights(p) ==
  /\ Goto(p, "weights", "header")
  /\ weights' = Set(weights, held[p], src[p])
  /\ UNCHANGED <<world, private, held, header, ready, link, lock>>

WriteHeader(p) ==
  /\ Goto(p, "header", "ready")
  /\ header' = Set(header, held[p], src[p])
  /\ UNCHANGED <<world, private, held, weights, ready, link, lock>>

WriteReady(p) ==
  /\ Goto(p, "ready", IF platform = "linux" THEN "rename" ELSE "release")
  /\ ready' = Set(ready, held[p], TRUE)
  /\ UNCHANGED <<world, private, held, weights, header, link, lock>>

-----------------------------------------------------------------------------
(* attach, Windows *)

AreaOf(p) == Area(src[p])
MutexOf(p) == <<1, src[p]>>

\* Variant: a wait that timed out is taken for the mutex.
MutexAssumed(p) == TRUE

MutexFree(p) == lock[MutexOf(p)] = NoLock

\* WAIT_OBJECT_0 or, when the holder died, WAIT_ABANDONED: the same here.
WaitMutex(p) ==
  /\ Goto(p, "wait", "check")
  /\ MutexFree(p) /\ lock' = Set(lock, MutexOf(p), p)
  /\ UNCHANGED <<world, private, held, object, link>>

RoundsLeft(p) == rounds[p] < MaxRounds

\* One second is over: open_ready without the mutex.
WaitTimesOut(p) ==
  /\ Goto(p, "wait", "polling")
  /\ ~MutexFree(p) /\ RoundsLeft(p) /\ rounds' = Set(rounds, p, rounds[p] + 1)
  /\ held' = Set(held, p, link[AreaOf(p)])
  /\ UNCHANGED <<world, dir, ident, src, view, status, object, link, lock>>

\* The area it opened is ready and mapped, or it closes it and waits again.
Poll(p) ==
  /\ pc[p] = "polling" /\ held' = Set(held, p, NoObj)
  /\ LET there == Ready(held[p], src[p]) IN
     \/ /\ there /\ pc' = Set(pc, p, "idle") /\ UseShared(p, held[p], "shared")
        /\ UNCHANGED <<link, faults>>
     \/ /\ Missed(there) /\ pc' = Set(pc, p, "wait") /\ link' = ClosedBy(p)
        /\ UNCHANGED <<src, view, status>>
  /\ UNCHANGED <<scene, dir, rounds, ident, object, lock>>

GiveUp(p) ==
  /\ Goto(p, "wait", "idle")
  /\ ~RoundsLeft(p) /\ ~MutexFree(p) /\ KeepLocal(p, "mutexTimeout")
  /\ UNCHANGED <<world, dir, rounds, ident, held, object, link, lock>>

\* open_ready under the mutex.
CheckArea(p) ==
  /\ pc[p] = "check"
  /\ LET o == link[AreaOf(p)] IN
     \/ /\ o = NoObj /\ pc' = Set(pc, p, "createLarge")
        /\ UNCHANGED <<src, view, status, held, faults>>
     \/ /\ Ready(o, src[p]) /\ pc' = Set(pc, p, "release") /\ held' = Set(held, p, o)
        /\ UNCHANGED <<src, view, status, faults>>
     \/ /\ o # NoObj /\ Missed(Ready(o, src[p])) /\ pc' = Set(pc, p, "release")
        /\ KeepLocal(p, "notReady") /\ UNCHANGED held
  /\ UNCHANGED <<scene, dir, rounds, ident, object, link, lock>>

\* CreateFileMappingA, with large pages, then without: from here on the name
\* exists.  An area that a poller kept open after a failed mapping is opened as it is.
CreateArea(p) ==
  /\ \/ Goto(p, "createLarge", "mapLarge")
     \/ Goto(p, "create", "map")
  /\ LET left == link[AreaOf(p)] IN
     \/ left # NoObj /\ held' = Set(held, p, left) /\ UNCHANGED <<link, object>>
     \/ /\ left = NoObj
        /\ \E o \in Fresh(NoObj) :
             held' = Set(held, p, o) /\ link' = Set(link, AreaOf(p), o) /\ Blanked(o)
  /\ UNCHANGED <<world, private, lock>>

\* No large pages or no privilege for them: normal pages; no area: the private copy.
CreateFails(p) ==
  /\ \/ Goto(p, "createLarge", "create") /\ UNCHANGED <<src, view, status, faults>>
     \/ Goto(p, "create", "release") /\ KeepLocal(p, "cannotCreate") /\ Fault("refusal")
  /\ UNCHANGED <<scene, dir, rounds, ident, held, object, link, lock>>

MapArea(p) ==
  /\ Goto(p, "mapLarge", "weights") \/ Goto(p, "map", "weights")
  /\ UNCHANGED <<world, private, held, object, link, lock>>

\* MapViewOfFile fails: the handle is closed, and the name goes with it unless a
\* poller has one too; then normal pages or, after those, the private copy.
MapFails(p) ==
  /\ \/ Goto(p, "mapLarge", "create") /\ UNCHANGED <<src, view, status>>
     \/ Goto(p, "map", "release") /\ KeepLocal(p, "cannotCreate")
  /\ Fault("mapping") /\ held' = Set(held, p, NoObj) /\ link' = ClosedBy(p)
  /\ UNCHANGED <<scene, dir, rounds, ident, object, lock>>

Release(p) ==
  /\ Goto(p, "release", "idle")
  /\ lock' = FreedLock(MutexOf(p)) /\ held' = Set(held, p, NoObj)
  /\ IF held[p] # NoObj THEN UseShared(p, held[p], "shared")
     ELSE UNCHANGED <<src, view, status>>
  /\ UNCHANGED <<world, dir, rounds, ident, object, link>>

-----------------------------------------------------------------------------
\* The process ends, at any step; the system closes its handles and locks, its
\* files stay.  Another one may come with its number.
Die(p) ==
  /\ Fault("death")
  /\ pc' = Set(pc, p, "idle") /\ held' = Set(held, p, NoObj)
  /\ view' = Set(view, p, NoObj) /\ src' = Set(src, p, Blank)
  /\ status' = Set(status, p, "none") /\ link' = ClosedBy(p)
  /\ lock' = [x \in Dirs \X Nets |-> IF lock[x] = p THEN NoLock ELSE lock[x]]
  /\ UNCHANGED <<platform, disk, loads, dir, rounds, ident, object>>

FileStep(p) == StatFile(p) \/ OpenAlias(p) \/ LoadFile(p) \/ LoadFails(p)
LinuxStep(p) == \/ OpenPath(p) \/ Recheck(p) \/ Reserve(p) \/ ReserveFails(p)
                \/ Rename(p) \/ RenamedUnmapped(p) \/ Link(p) \/ Unlock(p)
WriteStep(p) == WriteWeights(p) \/ WriteHeader(p) \/ WriteReady(p)
WindowsStep(p) == \/ WaitTimesOut(p) \/ Poll(p) \/ GiveUp(p) \/ CheckArea(p)
                  \/ CreateArea(p) \/ CreateFails(p) \/ MapArea(p) \/ MapFails(p)
                  \/ Release(p)
Step(p) == FileStep(p) \/ LinuxStep(p) \/ WriteStep(p) \/ WindowsStep(p)

Next ==
  \/ ReplaceFile
  \/ \E p \in Procs :
       BeginLoad(p) \/ Step(p) \/ Flock(p) \/ LockFails(p) \/ WaitMutex(p) \/ Die(p)

Spec == Init /\ [][Next]_vars

\* A process in a load goes on whenever it can, a free lock included.  Nothing
\* else need happen: no load, no new file, no refusal of a lock, no death; and
\* which outcome a step has is left open.
FairSpec == Spec /\ \A p \in Procs : WF_vars(Step(p) \/ WaitMutex(p) \/ Flock(p))

-----------------------------------------------------------------------------
(* Properties *)

\* A process that evaluates with shared memory sees a whole network, from the
\* moment it maps it for as long as it does: whoever dies half-way leaves
\* nothing that another maps, and nobody writes what another has mapped.
AttachedIsWhole ==
  \A p \in Procs : view[p] # NoObj =>
    weights[view[p]] \in Nets /\ header[view[p]] = weights[view[p]]

\* What a process maps is what the name of its network stands for, in one of the
\* directories: nobody makes a second copy of what others have mapped, the point
\* of shared_net.h.  On Linux a process that cannot map the file it finds writes
\* it again and renames it over the first: one copy only while no mapping fails.
OneCopy ==
  platform = "windows" \/ faults["mapping"] = 0 =>
    \A p \in Procs : view[p] # NoObj =>
      LET n == weights[view[p]]
      IN view[p] \in {link[Area(n)]} \cup {link[Path(d, n)] : d \in Dirs}

\* On Windows a process that has the mutex keeps its private copy because of an
\* area that is not ready only when a creator died or a mapping failed: nobody
\* sees an area of a creator at work, whatever handles the others keep open.
NotReadyIsAFault ==
  (\E p \in Procs : status[p] = "notReady") => faults["death"] + faults["mapping"] > 0

\* A load ends, whatever the others do.
LoadEnds == \A p \in Procs : (pc[p] # "idle") ~> (pc[p] = "idle")

\* What file_alias says of itself: the name comes from the identity of the file,
\* so who maps through it has the weights of the file that has that identity.
AliasIsOfTheFile ==
  \A p \in Procs :
    status[p] = "openedByFile" /\ pc[p] = "idle"
    => weights[view[p]] = FileNet[ident[p]]
=============================================================================
