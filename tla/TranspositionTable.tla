-------------------------- MODULE TranspositionTable --------------------------
(***************************************************************************)
(* One bucket of the lockless transposition table (tt.h), shared by the    *)
(* search threads without any lock.                                        *)
(*                                                                         *)
(* An entry is two 64-bit words that are read and written one at a time:   *)
(* data, and kw = (tag << 16 | eval) XOR data.  A word is modelled as the  *)
(* set of the fields written into it, and XOR as symmetric difference: two *)
(* words cancel exactly where they agree.  What this leaves out is that    *)
(* two different contents of the 48 high bits may by chance XOR to a tag.  *)
(* The fields of the high 48 bits, which the tag check compares, are the   *)
(* tag, the depth, the "body" (score, bound, PV flag and age) and the      *)
(* "special" bits of the move (promotion, castling, ...).  The low 16 bits *)
(* hold the squares of the move ("from") in data, and the evaluation.      *)
(***************************************************************************)
EXTENDS Integers, FiniteSetsExt

CONSTANTS Threads,
          Ways,        \* TT_WAYS
          Keys,        \* positions of this bucket, with different tags
          Stores,      \* the calls of store_tt, as records (see StoreOps)
          MaxDepth,    \* the largest depth stored
          Ages,        \* number of ages (32: 5 bits)
          KeepMargin, KeepPv, AgeWeight,   \* TtKeepMargin, TtKeepPv, TtAgeWeight
          MaxStores    \* bound on the calls of store_tt in a behaviour

\* "none" marks an entry that holds an evaluation only.
Flags == {"exact", "alpha", "beta", "none"}

\* A call of store_tt; from = 0 stands for no move, eval = 0 for no evaluation.
StoreOps == [kind : {"store"}, key : Keys, from : Nat, special : Nat, score : Int,
             depth : 0..MaxDepth, flag : Flags, pv : BOOLEAN, eval : Nat]

ASSUME TableAssumption ==
  /\ Ways \in Nat \ {0} /\ MaxDepth \in Nat /\ Ages \in Nat \ {0}
  /\ KeepMargin \in Nat /\ KeepPv \in Nat /\ AgeWeight \in Nat
  /\ MaxStores \in Nat
  /\ Stores \subseteq StoreOps

\* The fields of an entry and the parameter TtAgeWeight: the value of a way that
\* is not empty stays between -496 and 255.
ASSUME RangeAssumption == MaxDepth \in 0..255 /\ Ages \in 1..32 /\ AgeWeight \in 1..16

VARIABLES
  mem,      \* way -> its two words
  age,      \* current_age
  call,     \* thread -> its call on the bucket:
            \*   at    where it is
            \*   op    the operation and its arguments
            \*   way   the way it looks at
            \*   todo  the words of that way still to be read, or written
            \*   seen  the words it has read
            \*   best  the victim so far: its value and its way
            \*   out   the words it is about to write
  given     \* history: the entries the callers of store_tt gave

vars == <<mem, age, call, given>>

Words == {"kw", "data"}
WayIds == 1..Ways
Empty == [w \in Words |-> {}]

Tag(k) == <<"tag", k>>
Xor(v, w) == SymDiff(v, w)
FieldsOf(w, names) == {f \in w : f[1] \in names}

Body(o) == [score |-> o.score, flag |-> o.flag, pv |-> o.pv, age |-> age]
MoveOf(o) == IF o.from = 0 THEN {} ELSE {<<"from", o.from>>, <<"special", o.special>>}
EvalOf(o) == IF o.eval = 0 THEN {} ELSE {<<"eval", o.eval>>}

\* pack_tt_data, with the current age.
Pack(move, o) == move \cup {<<"depth", o.depth>>, <<"body", Body(o)>>}

DepthOf(data) == LET d == FieldsOf(data, {"depth"}) IN
                 IF d = {} THEN 0 ELSE (CHOOSE f \in d : TRUE)[2]
AgeOf(data) == LET b == FieldsOf(data, {"body"}) IN
               IF b = {} THEN 0 ELSE (CHOOSE f \in b : TRUE)[2].age

Probe(k) == [kind |-> "probe", key |-> k]
Soften(k) == [kind |-> "soften", key |-> k]
NoOp == [kind |-> "none"]
Ops == Stores \cup {Probe(k) : k \in Keys} \cup {Soften(k) : k \in Keys}

Fields == {<<"tag", k>> : k \in Keys}
     \cup {<<"depth", d>> : d \in 0..MaxDepth}
     \cup {<<"body", [score |-> o.score, flag |-> o.flag, pv |-> o.pv, age |-> a]>> :
             o \in Stores, a \in 0..Ages - 1}
     \cup UNION {MoveOf(o) \cup EvalOf(o) : o \in Stores}

TypeOK ==
  /\ mem \in [WayIds -> [Words -> SUBSET Fields]]
  /\ age \in 0..Ages - 1
  /\ call \in [Threads -> [at : {"idle", "scan", "again", "write", "hit"},
                          op : Ops \cup {NoOp}, way : WayIds, todo : SUBSET Words,
                          seen : [Words -> SUBSET Fields],
                          best : [value : Int, way : WayIds],
                          out : [Words -> SUBSET Fields]]]
  /\ given \subseteq [key : Keys, data : SUBSET Fields, eval : SUBSET Fields]

NoBest == [value |-> 1073741824, way |-> 1]

Idle == [at |-> "idle", op |-> NoOp, way |-> 1, todo |-> {}, seen |-> Empty,
         best |-> NoBest, out |-> Empty]

Init ==
  /\ mem = [i \in WayIds |-> Empty]
  /\ age = 0
  /\ call = [t \in Threads |-> Idle]
  /\ given = {}

-----------------------------------------------------------------------------
(* A call reads the ways one after the other, a word at a time. *)

Becomes(t, c) == call' = [call EXCEPT ![t] = c]

\* A thread about to read the two words of way w.
Looking(step, o, w, b) == [at |-> step, op |-> o, way |-> w, todo |-> Words,
                           seen |-> Empty, best |-> b, out |-> Empty]

Begin(o) == Looking("scan", o, 1, NoBest)

\* probe_tt, hash_soften
BeginRead(t, o) ==
  /\ call[t].at = "idle"
  /\ Becomes(t, Begin(o))
  /\ UNCHANGED <<mem, age, given>>

\* store_tt
BeginStore(t, o) ==
  /\ call[t].at = "idle"
  /\ Cardinality(given) < MaxStores
  /\ Becomes(t, Begin(o))
  /\ given' = given \cup {[key |-> o.key, data |-> Pack(MoveOf(o), o), eval |-> EvalOf(o)]}
  /\ UNCHANGED <<mem, age>>

\* A thread that has read word x and found w.
HasRead(c, x, w) == [at |-> c.at, op |-> c.op, way |-> c.way, todo |-> c.todo \ {x},
                     seen |-> [c.seen EXCEPT ![x] = w], best |-> c.best, out |-> c.out]

\* The order of the two loads is the compiler's.
Read(t, x) ==
  /\ call[t].at \in {"scan", "again"} /\ x \in call[t].todo
  /\ Becomes(t, HasRead(call[t], x, mem[call[t].way][x]))
  /\ UNCHANGED <<mem, age, given>>

HighFields == {"tag", "body", "special", "depth"}

\* Variant: the tag is masked out of the comparison.
CheckAnyTag(w, k) == FieldsOf(w, {"body", "special", "depth"}) = {}

\* The 48 high bits of kw XOR data are the tag. (An empty way never passes.)
Check(w, k) == FieldsOf(w, HighFields) = {Tag(k)}

Word(c) == Xor(c.seen["kw"], c.seen["data"])

\* Variant: an entry of an older search is not recognised.
MatchesThisSearch(c) == Check(Word(c), c.op.key) /\ AgeOf(c.seen["data"]) = age

Matches(c) == Check(Word(c), c.op.key)

ReadAll(c, step) == c.at = step /\ c.todo = {}

\* A probe that returns what it has read.
Found(c) == [at |-> "hit", op |-> c.op, way |-> c.way, todo |-> {},
             seen |-> c.seen, best |-> NoBest, out |-> Empty]

ScanHit(t) ==
  /\ ReadAll(call[t], "scan") /\ Matches(call[t])
  /\ Becomes(t, IF call[t].op.kind = "probe" THEN Found(call[t])
                ELSE Looking("again", call[t].op, call[t].way, NoBest))
  /\ UNCHANGED <<mem, age, given>>

\* Variant: an old age counts for the entry instead of against it.
ValueYoungFirst(s) == IF s = Empty THEN -1048576
                      ELSE DepthOf(s["data"]) + AgeWeight * ((age - AgeOf(s["data"])) % Ages)

\* The lowest value is the victim; an empty way comes before all.
Value(s) == IF s = Empty THEN -1048576
            ELSE DepthOf(s["data"]) - AgeWeight * ((age - AgeOf(s["data"])) % Ages)

BestSoFar(c) == LET v == Value(c.seen) IN
  IF v < c.best.value THEN [value |-> v, way |-> c.way] ELSE c.best

ScanNext(t) ==
  /\ ReadAll(call[t], "scan") /\ ~Matches(call[t])
  /\ call[t].way < Ways
  /\ Becomes(t, Looking("scan", call[t].op, call[t].way + 1, BestSoFar(call[t])))
  /\ UNCHANGED <<mem, age, given>>

\* A thread about to write some of the two words of way w.
Writing(c, w, words, new) == [at |-> "write", op |-> c.op, way |-> w, todo |-> words,
                              seen |-> Empty, best |-> NoBest, out |-> new]

\* What store_tt writes: the tag and the evaluation bound to the data.
Entry(k, eval, data) == [kw |-> Xor({Tag(k)} \cup eval, data), data |-> data]

\* The position is in no way: a probe misses, store_tt overwrites the victim.
ScanMiss(t) ==
  LET o == call[t].op IN
  /\ ReadAll(call[t], "scan") /\ ~Matches(call[t])
  /\ call[t].way = Ways
  /\ Becomes(t, IF o.kind = "store"
                THEN Writing(call[t], BestSoFar(call[t]).way, Words,
                             Entry(o.key, EvalOf(o), Pack(MoveOf(o), o)))
                ELSE Idle)
  /\ UNCHANGED <<mem, age, given>>

Return(t) ==
  /\ call[t].at = "hit"
  /\ Becomes(t, Idle)
  /\ UNCHANGED <<mem, age, given>>

-----------------------------------------------------------------------------
(* store_tt and hash_soften read the way again before they change it *)

\* Variant: what the second reading finds is used without the check.
StillOursAssumed(c) == TRUE

\* The way may have been rewritten since the scan.
StillOurs(c) == Matches(c)

LowFields == {"from", "eval"}

\* Variant: the evaluation is taken from kw as it stands, still XORed with data.
KeptEvalBound(c) == IF StillOurs(c) /\ c.op.eval = 0
                    THEN FieldsOf(c.seen["kw"], LowFields) ELSE EvalOf(c.op)

\* A store without a move, or without an evaluation, keeps that of the entry.
KeptMove(c) == IF StillOurs(c) /\ c.op.from = 0
               THEN FieldsOf(c.seen["data"], {"from", "special"}) ELSE MoveOf(c.op)
KeptEval(c) == IF StillOurs(c) /\ c.op.eval = 0
               THEN FieldsOf(Word(c), LowFields) ELSE EvalOf(c.op)

Margin(o) == IF KeepMargin = 0 THEN 0 ELSE KeepMargin + (IF o.pv THEN KeepPv ELSE 0)

\* Variant: any entry of this search stays.
StaysShallow(c) == StillOurs(c) /\ AgeOf(c.seen["data"]) = age /\ c.op.flag # "exact"

\* A deeper entry of this search stays; only its missing evaluation is filled in.
Stays(c) ==
  /\ StillOurs(c)
  /\ AgeOf(c.seen["data"]) = age
  /\ DepthOf(c.seen["data"]) > c.op.depth + Margin(c.op)
  /\ c.op.flag # "exact"

StoreStays(t) ==
  LET c == call[t]
      new == Entry(c.op.key, KeptEval(c), c.seen["data"]) IN
  /\ ReadAll(c, "again") /\ c.op.kind = "store" /\ Stays(c)
  /\ Becomes(t, IF new["kw"] = c.seen["kw"] THEN Idle ELSE Writing(c, c.way, {"kw"}, new))
  /\ UNCHANGED <<mem, age, given>>

StoreReplaces(t) ==
  LET c == call[t] IN
  /\ ReadAll(c, "again") /\ c.op.kind = "store" /\ ~Stays(c)
  /\ Becomes(t, Writing(c, c.way, Words,
                        Entry(c.op.key, KeptEval(c), Pack(KeptMove(c), c.op))))
  /\ UNCHANGED <<mem, age, given>>

\* Variant: a softened entry gains a ply.
SofterRaised(d) == d + 1

Softer(d) == d - 1

\* hash_soften takes a ply off. It does not check its second reading: whatever
\* kw XOR data was, it is again after the two writes.
SoftenAgain(t) ==
  LET c == call[t]
      d == DepthOf(c.seen["data"])
      new == (c.seen["data"] \ {<<"depth", d>>}) \cup {<<"depth", Softer(d)>>} IN
  /\ ReadAll(c, "again") /\ c.op.kind = "soften"
  /\ Becomes(t, IF d = 0 THEN Idle
                ELSE Writing(c, c.way, Words, [kw |-> Xor(Word(c), new), data |-> new]))
  /\ UNCHANGED <<mem, age, given>>

Write(t, x) ==
  LET c == call[t] IN
  /\ c.at = "write" /\ x \in c.todo
  /\ mem' = [mem EXCEPT ![c.way][x] = c.out[x]]
  /\ Becomes(t, IF c.todo = {x} THEN Idle ELSE Writing(c, c.way, c.todo \ {x}, c.out))
  /\ UNCHANGED <<age, given>>

-----------------------------------------------------------------------------
(* Between searches, when no thread is in the table (see SearchControl) *)

AllIdle == \A t \in Threads : call[t].at = "idle"

\* new_search
NewSearch == /\ AllIdle
             /\ age' = (age + 1) % Ages
             /\ UNCHANGED <<mem, call, given>>

\* clear_hash_table
Clear == /\ AllIdle
         /\ mem' = [i \in WayIds |-> Empty] /\ age' = 0 /\ given' = {}
         /\ UNCHANGED call

Thread(t) ==
  \/ \E o \in Stores : BeginStore(t, o)
  \/ \E k \in Keys : BeginRead(t, Probe(k)) \/ BeginRead(t, Soften(k))
  \/ \E x \in Words : Read(t, x) \/ Write(t, x)
  \/ ScanHit(t) \/ ScanNext(t) \/ ScanMiss(t) \/ Return(t)
  \/ StoreStays(t) \/ StoreReplaces(t) \/ SoftenAgain(t)

Next == (\E t \in Threads : Thread(t)) \/ NewSearch \/ Clear

Spec == Init /\ [][Next]_vars

-----------------------------------------------------------------------------
(* Properties *)

GivenFor(k) == {g \in given : g.key = k}

\* The check does its work on what it covers: whatever the threads do to the
\* bucket meanwhile, the score, bound, PV flag, age and special move bits of a
\* hit were stored for the position asked for (the lockless scheme of tt.h).
HitIsOfTheKey ==
  \A t \in Threads : call[t].at = "hit" =>
    \A f \in FieldsOf(call[t].seen["data"], {"body", "special"}) :
      \E g \in GivenFor(call[t].op.key) : f \in g.data

\* "the eval sits INSIDE it, so it is protected by the same check" (tt.h): the
\* low 16 bits of a hit are no evaluation, or one stored for the position.
EvalIsOfTheKey ==
  \A t \in Threads : call[t].at = "hit" =>
    FieldsOf(Word(call[t]), LowFields) \in {{}} \cup {g.eval : g \in GivenFor(call[t].op.key)}

\* The squares of the move are among those stored for the position.
MoveIsOfTheKey ==
  \A t \in Threads : call[t].at = "hit" =>
    \A f \in FieldsOf(call[t].seen["data"], {"from"}) :
      \E g \in GivenFor(call[t].op.key) : f \in g.data

\* A hit claims no more depth than was searched for that score.
DepthIsNotRaised ==
  \A t \in Threads : call[t].at = "hit" =>
    \E g \in GivenFor(call[t].op.key) :
      /\ FieldsOf(g.data, {"body"}) = FieldsOf(call[t].seen["data"], {"body"})
      /\ DepthOf(call[t].seen["data"]) <= DepthOf(g.data)

InWay(i, k) == Check(Xor(mem[i]["kw"], mem[i]["data"]), k)

\* Between two calls a position is in one way at most.
OneWayPerKey ==
  AllIdle => \A k \in Keys : \A i, j \in WayIds : InWay(i, k) /\ InWay(j, k) => i = j

\* A store is found again by the next probe: as it was given, or as the deeper
\* entry of the same search that stays.
StoreIsFound ==
  [][\A t \in Threads, o \in Stores, k \in Keys :
       (call[t].op = o /\ o.key = k /\ call'[t].at = "idle") =>
         \E i \in WayIds :
           /\ InWay(i, k)'
           /\ \/ <<"body", Body(o)>> \in mem'[i]["data"]
              \/ DepthOf(mem'[i]["data"]) > o.depth + Margin(o)]_vars

RelativeAge(s) == (age - AgeOf(s["data"])) % Ages

\* Of two entries the one that is older and no deeper, or as old and shallower,
\* goes first, and no entry goes while a way is empty.
NoNeedlessEviction ==
  [][\A t \in Threads, v, j \in WayIds :
       (call[t].at = "scan" /\ call'[t].at = "write" /\ call'[t].way = v) =>
         \/ mem[v] = Empty
         \/ /\ mem[j] # Empty
            /\ RelativeAge(mem[j]) > RelativeAge(mem[v]) =>
                 DepthOf(mem[j]["data"]) > DepthOf(mem[v]["data"])
            /\ RelativeAge(mem[j]) = RelativeAge(mem[v]) =>
                 DepthOf(mem[j]["data"]) >= DepthOf(mem[v]["data"])]_vars
=============================================================================
