----------------------- MODULE TranspositionTableProofs -----------------------
(***************************************************************************)
(* Proofs about TranspositionTable, for every number of threads and ways   *)
(* and every set of positions and stores.                                  *)
(*                                                                         *)
(* HitIsOfTheKey rests on what every kw word is, in the table as in the    *)
(* hands of a thread: a word whose tag and whose protected fields belong   *)
(* together, that is, were stored together for the position of the tag     *)
(* (Bound).  A data word never holds a tag (Untagged).  So where kw XOR    *)
(* data leaves nothing but the tag, the protected fields of data are those *)
(* of kw, whichever store wrote data.  The depth is not protected: after   *)
(* hash_soften has read a torn entry, kw may be bound to two depths.       *)
(*                                                                         *)
(* The other properties are those of a table only one thread uses (Alone): *)
(* with two, tears break them.  They rest on OneInv: a way nobody writes   *)
(* is empty or one whole entry of one position, that position is in no     *)
(* other way, and the scan of a call has missed it in the ways it passed.  *)
(***************************************************************************)
EXTENDS TranspositionTable, TLAPS

Protected == {"body", "special"}

\* In all of these G is the history of what was given, and a the current age.
Vouched(k, f, G) == \E g \in G : g.key = k /\ f \in g.data

Bound(w, G) == \A k \in Keys : Tag(k) \in w => \A f \in FieldsOf(w, Protected) : Vouched(k, f, G)

Untagged(w) == \A f \in w : f[1] # "tag"

Fine(words, G) == Bound(words["kw"], G) /\ Untagged(words["data"])

\* The caller of store_tt gave the fields it is about to write.
Offered(o, G, a) ==
  /\ Vouched(o.key, <<"body", [score |-> o.score, flag |-> o.flag, pv |-> o.pv, age |-> a]>>, G)
  /\ \A f \in FieldsOf(MoveOf(o), {"special"}) : Vouched(o.key, f, G)

CallInv(c, G, a) ==
  /\ Fine(c.seen, G) /\ Fine(c.out, G)
  /\ c.at = "idle" => c = Idle
  /\ c.at # "idle" => c.op \in Ops
  /\ c.at \in {"scan", "again"} /\ c.op.kind = "store" => Offered(c.op, G, a)
  /\ c.at = "hit" => Matches(c)

IInv == /\ \A i \in WayIds : Fine(mem[i], given)
        /\ \A t \in Threads : CallInv(call[t], given, age)

-----------------------------------------------------------------------------
(* The words are made of fields *)

\* A call of store_tt carries fields of the right types.
LEMMA StoreFields ==
  ASSUME NEW o \in Stores
  PROVE  /\ o.kind = "store" /\ o.key \in Keys /\ o.depth \in 0..MaxDepth
         /\ MoveOf(o) \subseteq Fields /\ EvalOf(o) \subseteq Fields
         /\ \A f \in MoveOf(o) : f[1] \in {"from", "special"}
         /\ \A f \in EvalOf(o) : f[1] = "eval"
<1>1. o \in StoreOps
  BY TableAssumption
<1>2. o.kind = "store" /\ o.key \in Keys /\ o.depth \in 0..MaxDepth
  BY <1>1 DEF StoreOps
<1>3. MoveOf(o) \subseteq Fields /\ EvalOf(o) \subseteq Fields
  BY DEF Fields
<1>4. \A f \in MoveOf(o) : f[1] \in {"from", "special"}
  BY DEF MoveOf
<1>5. \A f \in EvalOf(o) : f[1] = "eval"
  BY DEF EvalOf
<1> QED
  BY <1>2, <1>3, <1>4, <1>5

\* What is packed is made of fields, and holds no tag.
LEMMA PackFields ==
  ASSUME NEW o \in Stores, age \in 0..Ages - 1,
         NEW m \in SUBSET Fields, Untagged(m)
  PROVE  Pack(m, o) \in SUBSET Fields /\ Untagged(Pack(m, o))
<1>1. <<"depth", o.depth>> \in Fields
  BY StoreFields DEF Fields
<1>2. <<"body", Body(o)>> \in Fields
  BY DEF Fields, Body
<1> QED
  BY <1>1, <1>2 DEF Pack, Untagged

\* The depth and the age read from a word are numbers of their range.
LEMMA DepthAndAge ==
  ASSUME NEW d \in SUBSET Fields
  PROVE  DepthOf(d) \in 0..MaxDepth /\ AgeOf(d) \in 0..Ages - 1
<1>1. \A f \in Fields : f[1] = "depth" => f[2] \in 0..MaxDepth
  <2>1. \A o \in Stores : \A f \in MoveOf(o) \cup EvalOf(o) : f[1] # "depth"
    BY StoreFields
  <2> QED
    BY <2>1 DEF Fields
<1>2. \A f \in Fields : f[1] = "body" => f[2].age \in 0..Ages - 1
  <2>1. \A o \in Stores : \A f \in MoveOf(o) \cup EvalOf(o) : f[1] # "body"
    BY StoreFields
  <2> QED
    BY <2>1 DEF Fields
<1>3. DepthOf(d) \in 0..MaxDepth
  <2>1. CASE FieldsOf(d, {"depth"}) = {}
    BY <2>1, TableAssumption DEF DepthOf
  <2>2. CASE FieldsOf(d, {"depth"}) # {}
    <3> DEFINE f == CHOOSE f \in FieldsOf(d, {"depth"}) : TRUE
    <3>1. f \in FieldsOf(d, {"depth"})
      BY <2>2
    <3>2. f \in Fields /\ f[1] = "depth"
      BY <3>1 DEF FieldsOf
    <3> QED
      BY <2>2, <3>2, <1>1 DEF DepthOf
  <2> QED
    BY <2>1, <2>2
<1>4. AgeOf(d) \in 0..Ages - 1
  <2>1. CASE FieldsOf(d, {"body"}) = {}
    BY <2>1, TableAssumption DEF AgeOf
  <2>2. CASE FieldsOf(d, {"body"}) # {}
    <3> DEFINE f == CHOOSE f \in FieldsOf(d, {"body"}) : TRUE
    <3>1. f \in FieldsOf(d, {"body"})
      BY <2>2
    <3>2. f \in Fields /\ f[1] = "body"
      BY <3>1 DEF FieldsOf
    <3> QED
      BY <2>2, <3>2, <1>2 DEF AgeOf
  <2> QED
    BY <2>1, <2>2
<1> QED
  BY <1>3, <1>4

\* The XOR of words made of fields is made of fields.
LEMMA XorFields ==
  ASSUME NEW v \in SUBSET Fields, NEW w \in SUBSET Fields
  PROVE  Xor(v, w) \in SUBSET Fields
BY DEF Xor, SymDiff

Call == [at : {"idle", "scan", "again", "write", "hit"},
         op : Ops \cup {NoOp}, way : WayIds, todo : SUBSET Words,
         seen : [Words -> SUBSET Fields],
         best : [value : Int, way : WayIds],
         out : [Words -> SUBSET Fields]]

\* The value of a way is a number.
LEMMA ValueType ==
  ASSUME NEW s \in [Words -> SUBSET Fields], age \in 0..Ages - 1
  PROVE  Value(s) \in Int
<1>1. DepthOf(s["data"]) \in 0..MaxDepth /\ AgeOf(s["data"]) \in 0..Ages - 1
  BY DepthAndAge DEF Words
<1>2. (age - AgeOf(s["data"])) % Ages \in Int
  BY <1>1, TableAssumption
<1>3. AgeWeight * ((age - AgeOf(s["data"])) % Ages) \in Int
  BY <1>2, TableAssumption
<1> QED
  BY <1>1, <1>3, TableAssumption DEF Value

\* The words about to be written are made of fields.
LEMMA EntryType ==
  ASSUME NEW k \in Keys, NEW e \in SUBSET Fields, NEW d \in SUBSET Fields
  PROVE  Entry(k, e, d) \in [Words -> SUBSET Fields]
<1>1. {Tag(k)} \cup e \in SUBSET Fields
  BY DEF Tag, Fields
<1>2. Xor({Tag(k)} \cup e, d) \in SUBSET Fields
  BY <1>1, XorFields
<1> QED
  BY <1>2 DEF Entry, Words

-----------------------------------------------------------------------------
(* Type correctness *)

\* An operation that is a store is one of the stores.
LEMMA OpKind ==
  ASSUME NEW o \in Ops \cup {NoOp}
  PROVE  /\ o.kind = "store" => o \in Stores /\ o.key \in Keys
         /\ o \in Ops => o.key \in Keys
<1>1. CASE o \in Stores
  BY <1>1, StoreFields
<1>2. CASE o \notin Stores
  BY <1>2 DEF Ops, Probe, Soften, NoOp
<1> QED
  BY <1>1, <1>2

\* The first way is one, and so is the way of the first victim.
LEMMA FirstWay == 1 \in WayIds /\ NoBest \in [value : Int, way : WayIds]
BY TableAssumption DEF WayIds, NoBest

\* The initial state is well typed.
LEMMA InitType == Init => TypeOK
<1> SUFFICES ASSUME Init PROVE TypeOK
  OBVIOUS
<1>1. Empty \in [Words -> SUBSET Fields]
  BY DEF Empty
<1>2. Idle \in Call
  BY <1>1, TableAssumption DEF Idle, Call, NoBest, WayIds
<1> QED
  BY <1>1, <1>2, TableAssumption DEF Init, TypeOK, Call

\* What the second reading keeps, and what is then written, is made of fields.
LEMMA KeptFields ==
  ASSUME TypeOK, NEW t \in Threads, NEW c, c = call[t], c.op.kind = "store"
  PROVE  /\ c.op \in Stores
         /\ KeptMove(c) \in SUBSET Fields /\ \A f \in KeptMove(c) : f[1] \in {"from", "special"}
         /\ KeptEval(c) \in SUBSET Fields /\ \A f \in KeptEval(c) : f[1] \in {"from", "eval"}
<1>1. c \in Call
  BY DEF TypeOK, Call
<1>2. c.op \in Stores
  BY <1>1, OpKind DEF Call
<1>3. c.seen["data"] \in SUBSET Fields /\ Word(c) \in SUBSET Fields
  BY <1>1, XorFields DEF Call, Word, Words
<1>4. /\ KeptMove(c) \in SUBSET Fields
      /\ \A f \in KeptMove(c) : f[1] \in {"from", "special"}
  BY <1>2, <1>3, StoreFields DEF KeptMove, FieldsOf
<1>5. /\ KeptEval(c) \in SUBSET Fields
      /\ \A f \in KeptEval(c) : f[1] \in {"from", "eval"}
  BY <1>2, <1>3, StoreFields DEF KeptEval, FieldsOf, LowFields
<1> QED
  BY <1>2, <1>4, <1>5

\* A thread about to write holds words made of fields.
LEMMA WritingType ==
  ASSUME NEW c \in Call, NEW w \in WayIds, NEW ws \in SUBSET Words,
         NEW new \in [Words -> SUBSET Fields]
  PROVE  Writing(c, w, ws, new) \in Call
BY FirstWay DEF Writing, Call, Empty

\* A thread about to read a way is well typed.
LEMMA LookingType ==
  ASSUME NEW o \in Ops \cup {NoOp}, NEW w \in WayIds, NEW step \in {"scan", "again"},
         NEW b \in [value : Int, way : WayIds]
  PROVE  Looking(step, o, w, b) \in Call
BY DEF Looking, Call, Empty

\* A call that begins is well typed.
LEMMA BeginType ==
  ASSUME NEW o \in Ops PROVE Begin(o) \in Call
BY LookingType, FirstWay DEF Begin

\* A thread between two calls is well typed.
LEMMA IdleType == Idle \in Call
BY FirstWay DEF Call, Idle, Empty

\* Each step of a thread leaves its call well typed.
LEMMA StepType ==
  ASSUME TypeOK, NEW t \in Threads, Thread(t)
  PROVE  /\ \E c \in Call : Becomes(t, c)
         /\ mem' \in [WayIds -> [Words -> SUBSET Fields]]
         /\ age' = age
         /\ given' \subseteq [key : Keys, data : SUBSET Fields, eval : SUBSET Fields]
<1> DEFINE c == call[t]
<1> USE DEF Becomes
<1>0. /\ c \in Call /\ age \in 0..Ages - 1
      /\ mem \in [WayIds -> [Words -> SUBSET Fields]]
      /\ given \subseteq [key : Keys, data : SUBSET Fields, eval : SUBSET Fields]
  BY DEF TypeOK, Call
<1>1. ASSUME NEW o \in Stores, BeginStore(t, o)
      PROVE  /\ \E d \in Call : Becomes(t, d)
             /\ given' \subseteq [key : Keys, data : SUBSET Fields, eval : SUBSET Fields]
  <2>1. Untagged(MoveOf(o)) /\ MoveOf(o) \in SUBSET Fields
    BY StoreFields DEF Untagged
  <2>2. Pack(MoveOf(o), o) \in SUBSET Fields
    BY <1>0, <2>1, PackFields
  <2>3. EvalOf(o) \in SUBSET Fields /\ o.key \in Keys
    BY StoreFields
  <2>4. Begin(o) \in Call
    BY BeginType DEF Ops
  <2>5. \E d \in Call : Becomes(t, d)
    BY <1>1, <2>4 DEF BeginStore
  <2>6. given' = given \cup
          {[key |-> o.key, data |-> Pack(MoveOf(o), o), eval |-> EvalOf(o)]}
    BY <1>1 DEF BeginStore
  <2>7. [key |-> o.key, data |-> Pack(MoveOf(o), o), eval |-> EvalOf(o)]
          \in [key : Keys, data : SUBSET Fields, eval : SUBSET Fields]
    BY <2>2, <2>3
  <2> QED
    BY <1>0, <2>5, <2>6, <2>7
<1>2. ASSUME NEW o \in Ops, BeginRead(t, o)
      PROVE  \E d \in Call : Becomes(t, d)
  BY <1>2, BeginType DEF BeginRead
<1>3. ASSUME NEW x \in Words, Read(t, x)
      PROVE  \E d \in Call : Becomes(t, d)
  <2>1. mem[c.way][x] \in SUBSET Fields
    BY <1>0 DEF Call
  <2>2. HasRead(c, x, mem[c.way][x]) \in Call
    BY <1>0, <2>1 DEF Call, HasRead
  <2> QED
    BY <1>3, <2>2 DEF Read
<1>4. ASSUME NEW x \in Words, Write(t, x)
      PROVE  /\ \E d \in Call : Becomes(t, d)
             /\ mem' \in [WayIds -> [Words -> SUBSET Fields]]
  <2>1. Writing(c, c.way, c.todo \ {x}, c.out) \in Call
    BY <1>0, WritingType DEF Call
  <2>2. (IF c.todo = {x} THEN Idle ELSE Writing(c, c.way, c.todo \ {x}, c.out)) \in Call
    BY <2>1, IdleType
  <2>3. c.way \in WayIds /\ c.out[x] \in SUBSET Fields
    BY <1>0 DEF Call
  <2>4. mem' = [mem EXCEPT ![c.way][x] = c.out[x]]
    BY <1>4 DEF Write
  <2>5. mem' \in [WayIds -> [Words -> SUBSET Fields]]
    BY <1>0, <2>3, <2>4
  <2> QED
    BY <1>4, <2>2, <2>5 DEF Write
<1>5. ASSUME ScanHit(t) PROVE \E d \in Call : Becomes(t, d)
  <2>1. c.op \in Ops \cup {NoOp} /\ c.way \in WayIds
    BY <1>0 DEF Call
  <2>2. Found(c) \in Call
    BY <1>0, FirstWay DEF Call, Found, Empty
  <2>3. Looking("again", c.op, c.way, NoBest) \in Call
    BY <2>1, LookingType, FirstWay
  <2> QED
    BY <1>5, <2>2, <2>3 DEF ScanHit
<1>6. BestSoFar(c) \in [value : Int, way : WayIds]
  <2>1. Value(c.seen) \in Int
    BY <1>0, ValueType DEF Call
  <2> QED
    BY <1>0, <2>1 DEF Call, BestSoFar
<1>7. ASSUME ScanNext(t) PROVE \E d \in Call : Becomes(t, d)
  <2>1. c.op \in Ops \cup {NoOp} /\ c.way + 1 \in WayIds
    BY <1>0, <1>7, TableAssumption DEF Call, ScanNext, WayIds
  <2>2. Looking("scan", c.op, c.way + 1, BestSoFar(c)) \in Call
    BY <1>6, <2>1, LookingType
  <2> QED
    BY <1>7, <2>2 DEF ScanNext
<1>8. ASSUME ScanMiss(t) PROVE \E d \in Call : Becomes(t, d)
  <2>1. CASE c.op.kind = "store"
    <3>1. c.op \in Stores /\ c.op.key \in Keys
      BY <1>0, <2>1, OpKind DEF Call
    <3>2. Pack(MoveOf(c.op), c.op) \in SUBSET Fields
      BY <1>0, <3>1, StoreFields, PackFields DEF Untagged
    <3>3. Entry(c.op.key, EvalOf(c.op), Pack(MoveOf(c.op), c.op))
            \in [Words -> SUBSET Fields]
      BY <3>1, <3>2, StoreFields, EntryType
    <3>4. Writing(c, BestSoFar(c).way, Words,
                  Entry(c.op.key, EvalOf(c.op), Pack(MoveOf(c.op), c.op))) \in Call
      BY <1>0, <1>6, <3>3, WritingType
    <3> QED
      BY <1>8, <2>1, <3>4 DEF ScanMiss
  <2>2. CASE c.op.kind # "store"
    BY <1>8, <2>2, IdleType DEF ScanMiss
  <2> QED
    BY <2>1, <2>2
<1>9. ASSUME Return(t) PROVE \E d \in Call : Becomes(t, d)
  BY <1>9, IdleType DEF Return
<1>10. ASSUME StoreStays(t) PROVE \E d \in Call : Becomes(t, d)
  <2> DEFINE new == Entry(c.op.key, KeptEval(c), c.seen["data"])
  <2>1. c.op \in Stores /\ KeptEval(c) \in SUBSET Fields
    BY <1>10, KeptFields DEF StoreStays
  <2>2. c.seen["data"] \in SUBSET Fields /\ c.way \in WayIds
    BY <1>0 DEF Call, Words
  <2>3. new \in [Words -> SUBSET Fields]
    BY <2>1, <2>2, StoreFields, EntryType
  <2>4. Writing(c, c.way, {"kw"}, new) \in Call
    BY <1>0, <2>2, <2>3, WritingType DEF Words
  <2> QED
    BY <1>10, <2>4, IdleType DEF StoreStays
<1>11. ASSUME StoreReplaces(t) PROVE \E d \in Call : Becomes(t, d)
  <2> DEFINE new == Entry(c.op.key, KeptEval(c), Pack(KeptMove(c), c.op))
  <2>1. /\ c.op \in Stores /\ KeptEval(c) \in SUBSET Fields
        /\ KeptMove(c) \in SUBSET Fields /\ Untagged(KeptMove(c))
    BY <1>11, KeptFields DEF StoreReplaces, Untagged
  <2>2. Pack(KeptMove(c), c.op) \in SUBSET Fields
    BY <1>0, <2>1, PackFields
  <2>3. new \in [Words -> SUBSET Fields]
    BY <2>1, <2>2, StoreFields, EntryType
  <2>4. Writing(c, c.way, Words, new) \in Call
    BY <1>0, <2>3, WritingType DEF Call
  <2> QED
    BY <1>11, <2>4 DEF StoreReplaces
<1>12. ASSUME SoftenAgain(t) PROVE \E d \in Call : Becomes(t, d)
  <2> DEFINE n == DepthOf(c.seen["data"])
             new == (c.seen["data"] \ {<<"depth", n>>}) \cup {<<"depth", Softer(n)>>}
             words == [kw |-> Xor(Word(c), new), data |-> new]
  <2>1. c.seen["data"] \in SUBSET Fields /\ Word(c) \in SUBSET Fields /\ c.way \in WayIds
    BY <1>0, XorFields DEF Call, Word, Words
  <2>2. n \in 0..MaxDepth
    BY <2>1, DepthAndAge
  <2>3. CASE n = 0
    BY <1>12, <2>3, IdleType DEF SoftenAgain
  <2>4. CASE n # 0
    <3>1. <<"depth", Softer(n)>> \in Fields
      <4>1. Softer(n) \in 0..MaxDepth
        BY <2>2, <2>4, TableAssumption DEF Softer
      <4> QED
        BY <4>1 DEF Fields
    <3>2. new \in SUBSET Fields
      BY <2>1, <3>1
    <3>3. words \in [Words -> SUBSET Fields]
      BY <2>1, <3>2, XorFields DEF Words
    <3>4. Writing(c, c.way, Words, words) \in Call
      BY <1>0, <2>1, <3>3, WritingType
    <3> QED
      BY <1>12, <2>4, <3>4 DEF SoftenAgain
  <2> QED
    BY <2>3, <2>4
<1>13. \A k \in Keys : Probe(k) \in Ops /\ Soften(k) \in Ops
  BY DEF Ops
<1>14. CASE \E o \in Stores : BeginStore(t, o)
  BY <1>0, <1>1, <1>14 DEF BeginStore
<1>15. CASE \E k \in Keys : BeginRead(t, Probe(k)) \/ BeginRead(t, Soften(k))
  BY <1>0, <1>2, <1>13, <1>15 DEF BeginRead
<1>16. CASE \E x \in Words : Read(t, x) \/ Write(t, x)
  BY <1>0, <1>3, <1>4, <1>16 DEF Read, Write
<1>17. CASE ScanHit(t) \/ ScanNext(t) \/ ScanMiss(t) \/ Return(t)
  BY <1>0, <1>5, <1>7, <1>8, <1>9, <1>17 DEF ScanHit, ScanNext, ScanMiss, Return
<1>18. CASE StoreStays(t) \/ StoreReplaces(t) \/ SoftenAgain(t)
  BY <1>0, <1>10, <1>11, <1>12, <1>18 DEF StoreStays, StoreReplaces, SoftenAgain
<1> QED
  BY <1>14, <1>15, <1>16, <1>17, <1>18 DEF Thread

\* Every step keeps the types.
LEMMA NextType == TypeOK /\ [Next]_vars => TypeOK'
<1> SUFFICES ASSUME TypeOK, [Next]_vars PROVE TypeOK'
  OBVIOUS
<1>1. ASSUME NEW t \in Threads, Thread(t) PROVE TypeOK'
  <2>1. PICK d \in Call : Becomes(t, d)
    BY <1>1, StepType
  <2>2. call \in [Threads -> Call]
    BY DEF TypeOK, Call
  <2>3. call' \in [Threads -> Call]
    BY <2>1, <2>2 DEF Becomes
  <2> QED
    BY <1>1, <2>3, StepType DEF TypeOK, Call
<1>2. ASSUME NewSearch PROVE TypeOK'
  BY <1>2, TableAssumption DEF NewSearch, TypeOK
<1>3. ASSUME Clear PROVE TypeOK'
  BY <1>3, TableAssumption DEF Clear, TypeOK, Empty
<1>4. ASSUME UNCHANGED vars PROVE TypeOK'
  BY <1>4 DEF vars, TypeOK
<1> QED
  BY <1>1, <1>2, <1>3, <1>4 DEF Next

\* The table and the calls on it are well typed.
THEOREM TypeCorrect == Spec => []TypeOK
<1> QED
  BY InitType, NextType, PTL DEF Spec

-----------------------------------------------------------------------------
(* HitIsOfTheKey *)

\* What the check proves: the protected fields of the data were bound to the tag.
LEMMA CheckVouches ==
  ASSUME NEW G, NEW words, Fine(words, G), NEW k \in Keys,
         Check(Xor(words["kw"], words["data"]), k)
  PROVE  \A f \in FieldsOf(words["data"], Protected) : Vouched(k, f, G)
<1> DEFINE kw == words["kw"]
           data == words["data"]
<1>1. Tag(k) \in kw
  <2>1. Tag(k) \in Xor(kw, data)
    BY DEF Check, FieldsOf
  <2>2. Tag(k) \notin data
    BY DEF Fine, Untagged, Tag
  <2> QED
    BY <2>1, <2>2 DEF Xor, SymDiff
<1>2. ASSUME NEW f \in FieldsOf(data, Protected) PROVE f \in FieldsOf(kw, Protected)
  <2>1. f \in data /\ f[1] \in Protected
    BY <1>2 DEF FieldsOf
  <2>2. f # Tag(k)
    BY <2>1 DEF Protected, Tag
  <2>3. f \notin Xor(kw, data)
    BY <2>1, <2>2 DEF Check, FieldsOf, HighFields, Protected
  <2> QED
    BY <2>1, <2>3 DEF Xor, SymDiff, FieldsOf
<1> QED
  BY <1>1, <1>2 DEF Fine, Bound

\* An entry written with its own tag is bound to it.
LEMMA EntryFine ==
  ASSUME NEW G, NEW k \in Keys, NEW e, \A f \in e : f[1] \in {"from", "eval"},
         NEW data, Untagged(data), \A f \in FieldsOf(data, Protected) : Vouched(k, f, G)
  PROVE  Fine(Entry(k, e, data), G)
<1> DEFINE kw == Xor({Tag(k)} \cup e, data)
<1>1. ASSUME NEW k2 \in Keys, Tag(k2) \in kw PROVE k2 = k
  <2>1. Tag(k2) \notin data /\ Tag(k2) \notin e
    BY DEF Untagged, Tag
  <2> QED
    BY <1>1, <2>1 DEF Xor, SymDiff, Tag
<1>2. ASSUME NEW f \in FieldsOf(kw, Protected) PROVE f \in FieldsOf(data, Protected)
  <2>1. f[1] \in Protected /\ f \in kw
    BY <1>2 DEF FieldsOf
  <2>2. f # Tag(k) /\ f \notin e
    BY <2>1 DEF Protected, Tag
  <2> QED
    BY <2>1, <2>2 DEF Xor, SymDiff, FieldsOf
<1> QED
  BY <1>1, <1>2 DEF Fine, Bound, Entry

\* The words of an empty way are fine.
LEMMA EmptyFine == ASSUME NEW G PROVE Fine(Empty, G)
BY DEF Fine, Empty, Words, Bound, Untagged

\* The protected fields of what store_tt packs.
LEMMA PackProtected ==
  ASSUME NEW o \in Stores, NEW G, Offered(o, G, age), NEW m,
         \A f \in FieldsOf(m, {"special"}) : Vouched(o.key, f, G),
         \A f \in m : f[1] \in {"from", "special"}
  PROVE  /\ Untagged(Pack(m, o))
         /\ \A f \in FieldsOf(Pack(m, o), Protected) : Vouched(o.key, f, G)
<1>1. Untagged(Pack(m, o))
  BY DEF Pack, Untagged
<1>2. ASSUME NEW f \in FieldsOf(Pack(m, o), Protected) PROVE Vouched(o.key, f, G)
  <2>1. f \in m \/ f = <<"depth", o.depth>> \/ f = <<"body", Body(o)>>
    BY <1>2 DEF FieldsOf, Pack
  <2>2. CASE f \in m
    BY <1>2, <2>2 DEF FieldsOf, Protected
  <2>3. CASE f = <<"depth", o.depth>>
    BY <1>2, <2>3 DEF FieldsOf, Protected
  <2>4. CASE f = <<"body", Body(o)>>
    BY <2>4 DEF Offered, Body
  <2> QED
    BY <2>1, <2>2, <2>3, <2>4
<1> QED
  BY <1>1, <1>2

\* A longer history vouches for more.
LEMMA Monotone ==
  ASSUME NEW G, NEW H, G \subseteq H
  PROVE  /\ \A k, f : Vouched(k, f, G) => Vouched(k, f, H)
         /\ \A words : Fine(words, G) => Fine(words, H)
         /\ \A c, a : CallInv(c, G, a) => CallInv(c, H, a)
<1>1. \A k, f : Vouched(k, f, G) => Vouched(k, f, H)
  BY DEF Vouched
<1>2. \A words : Fine(words, G) => Fine(words, H)
  BY <1>1 DEF Fine, Bound
<1>3. \A o, a : Offered(o, G, a) => Offered(o, H, a)
  BY <1>1 DEF Offered
<1> QED
  BY <1>1, <1>2, <1>3 DEF CallInv

\* The initial state.
LEMMA InitInv == Init => IInv
BY EmptyFine DEF Init, IInv, CallInv, Idle

\* A thread that has nothing yet, or nothing any more, is fine.
LEMMA FreshFine ==
  ASSUME NEW G, NEW a, NEW o \in Ops, NEW w, NEW b, NEW step \in {"scan", "again"},
         o.kind = "store" => Offered(o, G, a)
  PROVE  CallInv(Looking(step, o, w, b), G, a)
BY EmptyFine DEF CallInv, Looking

\* A thread about to write fine words is fine.
LEMMA WritingFine ==
  ASSUME NEW G, NEW a, NEW c, c.op \in Ops, NEW w, NEW ws, NEW new, Fine(new, G)
  PROVE  CallInv(Writing(c, w, ws, new), G, a)
BY EmptyFine DEF CallInv, Writing

\* An idle thread is fine.
LEMMA IdleFine == ASSUME NEW G, NEW a PROVE CallInv(Idle, G, a)
BY EmptyFine DEF CallInv, Idle

\* hash_soften rebinds kw to the new data: the protected fields cancel as before.
LEMMA SoftenFine ==
  ASSUME NEW G, NEW words, Fine(words, G), NEW d, NEW d2,
         NEW new, new = (words["data"] \ {<<"depth", d>>}) \cup {<<"depth", d2>>}
  PROVE  Fine([kw |-> Xor(Xor(words["kw"], words["data"]), new), data |-> new], G)
<1> DEFINE kw == words["kw"]
           data == words["data"]
           kw2 == Xor(Xor(kw, data), new)
<1>1. Untagged(new)
  BY DEF Fine, Untagged
<1>2. ASSUME NEW f, f[1] \in Protected \cup {"tag"}, f \in kw2 PROVE f \in kw
  <2>1. f # <<"depth", d>> /\ f # <<"depth", d2>>
    BY <1>2 DEF Protected
  <2>2. f \in new <=> f \in data
    BY <2>1
  <2> QED
    BY <1>2, <2>2 DEF Xor, SymDiff
<1>3. Bound(kw2, G)
  <2> SUFFICES ASSUME NEW k \in Keys, Tag(k) \in kw2, NEW f \in FieldsOf(kw2, Protected)
               PROVE  Vouched(k, f, G)
    BY DEF Bound
  <2>1. Tag(k) \in kw
    BY <1>2 DEF Tag
  <2>2. f \in FieldsOf(kw, Protected)
    BY <1>2 DEF FieldsOf
  <2> QED
    BY <2>1, <2>2 DEF Fine, Bound
<1> QED
  BY <1>1, <1>3 DEF Fine

\* Each step of a thread leaves the table and its call fine.
LEMMA StepInv ==
  ASSUME TypeOK, IInv, NEW t \in Threads, Thread(t)
  PROVE  /\ \E d : Becomes(t, d) /\ CallInv(d, given', age)
         /\ \A i \in WayIds : Fine(mem'[i], given')
         /\ given \subseteq given' /\ age' = age
<1> DEFINE c == call[t]
<1>0. /\ CallInv(c, given, age) /\ c \in Call
      /\ \A i \in WayIds : Fine(mem[i], given)
  BY DEF IInv, TypeOK, Call
<1>1. ASSUME NEW o \in Stores, BeginStore(t, o)
      PROVE  /\ given \subseteq given'
             /\ CallInv(Begin(o), given', age)
  <2> DEFINE g == [key |-> o.key, data |-> Pack(MoveOf(o), o), eval |-> EvalOf(o)]
  <2>1. g \in given' /\ given \subseteq given'
    BY <1>1 DEF BeginStore
  <2>2. \A f \in Pack(MoveOf(o), o) : Vouched(o.key, f, given')
    BY <2>1 DEF Vouched
  <2>3. Offered(o, given', age)
    BY <2>2 DEF Offered, Pack, Body, FieldsOf
  <2>4. o \in Ops
    BY DEF Ops
  <2> QED
    BY <2>1, <2>3, <2>4, FreshFine DEF Begin
<1>2. ASSUME NEW k \in Keys, NEW o \in {Probe(k), Soften(k)}, BeginRead(t, o)
      PROVE  CallInv(Begin(o), given, age)
  <2>1. o \in Ops /\ o.kind # "store"
    BY <1>2 DEF Ops, Probe, Soften
  <2> QED
    BY <2>1, FreshFine DEF Begin
<1>3. ASSUME NEW x \in Words, Read(t, x)
      PROVE  CallInv(HasRead(c, x, mem[c.way][x]), given, age)
  <2> DEFINE d == HasRead(c, x, mem[c.way][x])
  <2>1. Fine(mem[c.way], given) /\ Fine(c.seen, given) /\ Fine(c.out, given)
    BY <1>0 DEF CallInv, Call
  <2>2. d.seen = [c.seen EXCEPT ![x] = mem[c.way][x]]
    BY DEF HasRead
  <2>3. c.seen \in [Words -> SUBSET Fields]
    BY <1>0 DEF Call
  <2>4. Fine(d.seen, given)
    BY <2>1, <2>2, <2>3 DEF Fine, Words
  <2>5. d.at = c.at /\ d.op = c.op /\ d.out = c.out
    BY DEF HasRead
  <2>6. c.at \in {"scan", "again"}
    BY <1>3 DEF Read
  <2> QED
    BY <1>0, <2>1, <2>4, <2>5, <2>6 DEF CallInv
<1>4. ASSUME NEW x \in Words, Write(t, x)
      PROVE  /\ \A i \in WayIds : Fine(mem'[i], given)
             /\ CallInv(Idle, given, age)
             /\ CallInv(Writing(c, c.way, c.todo \ {x}, c.out), given, age)
  <2>1. Fine(c.out, given) /\ c.op \in Ops
    BY <1>0, <1>4 DEF CallInv, Write
  <2>2. mem' = [mem EXCEPT ![c.way][x] = c.out[x]]
    BY <1>4 DEF Write
  <2>3. mem \in [WayIds -> [Words -> SUBSET Fields]]
    BY DEF TypeOK
  <2>4. ASSUME NEW i \in WayIds PROVE Fine(mem'[i], given)
    <3>1. mem'[i] = IF i = c.way THEN [mem[i] EXCEPT ![x] = c.out[x]] ELSE mem[i]
      BY <2>2, <2>3
    <3> QED
      BY <1>0, <2>1, <2>3, <3>1 DEF Fine, Words
  <2> QED
    BY <2>1, <2>4, WritingFine, IdleFine
<1>5. ASSUME ScanHit(t), c.op.kind = "probe"
      PROVE  CallInv(Found(c), given, age)
  <2>1. Matches(Found(c))
    BY <1>5 DEF ScanHit, Matches, Word, Found
  <2>2. c.op \in Ops /\ Fine(c.seen, given)
    BY <1>0, <1>5 DEF ScanHit, ReadAll, CallInv
  <2> QED
    BY <2>1, <2>2, EmptyFine DEF CallInv, Found
<1>6. ASSUME c.at = "scan", NEW w, NEW b, NEW step \in {"scan", "again"}
      PROVE  CallInv(Looking(step, c.op, w, b), given, age)
  <2>1. c.op \in Ops /\ (c.op.kind = "store" => Offered(c.op, given, age))
    BY <1>0, <1>6 DEF CallInv
  <2> QED
    BY <2>1, FreshFine
<1>7. ASSUME ScanMiss(t), c.op.kind = "store"
      PROVE  Fine(Entry(c.op.key, EvalOf(c.op), Pack(MoveOf(c.op), c.op)), given)
  <2>1. c.op \in Stores /\ c.op.key \in Keys /\ Offered(c.op, given, age)
    BY <1>0, <1>7, OpKind DEF CallInv, ScanMiss, ReadAll, Call
  <2>2. \A f \in FieldsOf(MoveOf(c.op), {"special"}) : Vouched(c.op.key, f, given)
    BY <2>1 DEF Offered
  <2> QED
    BY <2>1, <2>2, StoreFields, PackProtected, EntryFine
<1>8. ASSUME c.at = "again", c.op.kind = "store"
      PROVE  /\ c.op \in Stores /\ c.op.key \in Keys /\ c.op \in Ops
             /\ Offered(c.op, given, age) /\ Fine(c.seen, given)
             /\ Matches(c) => \A f \in FieldsOf(c.seen["data"], Protected) :
                                Vouched(c.op.key, f, given)
  <2>1. /\ c.op \in Stores /\ c.op.key \in Keys /\ c.op \in Ops
        /\ Offered(c.op, given, age) /\ Fine(c.seen, given)
    BY <1>0, <1>8, OpKind DEF CallInv, Call
  <2>2. Matches(c) => Check(Xor(c.seen["kw"], c.seen["data"]), c.op.key)
    BY DEF Matches, Word
  <2> QED
    BY <2>1, <2>2, CheckVouches
<1>9. ASSUME StoreStays(t)
      PROVE  c.op \in Ops /\ Fine(Entry(c.op.key, KeptEval(c), c.seen["data"]), given)
  <2>1. c.at = "again" /\ c.op.kind = "store" /\ Matches(c)
    BY <1>9 DEF StoreStays, ReadAll, Stays, StillOurs
  <2>2. \A f \in KeptEval(c) : f[1] \in {"from", "eval"}
    BY <2>1, KeptFields
  <2>3. Untagged(c.seen["data"])
    BY <1>8, <2>1 DEF Fine
  <2> QED
    BY <1>8, <2>1, <2>2, <2>3, EntryFine
<1>10. ASSUME StoreReplaces(t)
       PROVE  /\ c.op \in Ops
              /\ Fine(Entry(c.op.key, KeptEval(c), Pack(KeptMove(c), c.op)), given)
  <2>1. c.at = "again" /\ c.op.kind = "store"
    BY <1>10 DEF StoreReplaces, ReadAll
  <2>2. \A f \in KeptEval(c) : f[1] \in {"from", "eval"}
    BY <2>1, KeptFields
  <2>3. \A f \in KeptMove(c) : f[1] \in {"from", "special"}
    BY <2>1, KeptFields
  <2>4. \A f \in FieldsOf(KeptMove(c), {"special"}) : Vouched(c.op.key, f, given)
    <3>1. CASE StillOurs(c) /\ c.op.from = 0
      BY <1>8, <2>1, <3>1 DEF KeptMove, StillOurs, FieldsOf, Protected
    <3>2. CASE ~(StillOurs(c) /\ c.op.from = 0)
      BY <1>8, <2>1, <3>2 DEF KeptMove, Offered
    <3> QED
      BY <3>1, <3>2
  <2>5. /\ Untagged(Pack(KeptMove(c), c.op))
        /\ \A f \in FieldsOf(Pack(KeptMove(c), c.op), Protected) : Vouched(c.op.key, f, given)
    BY <1>8, <2>1, <2>3, <2>4, PackProtected
  <2> QED
    BY <1>8, <2>1, <2>2, <2>5, EntryFine
<1> DEFINE n == DepthOf(c.seen["data"])
           new == (c.seen["data"] \ {<<"depth", n>>}) \cup {<<"depth", Softer(n)>>}
<1>11. ASSUME SoftenAgain(t)
       PROVE  c.op \in Ops /\ Fine([kw |-> Xor(Word(c), new), data |-> new], given)
  <2>1. c.op \in Ops /\ Fine(c.seen, given)
    BY <1>0, <1>11 DEF SoftenAgain, ReadAll, CallInv
  <2> QED
    BY <2>1, SoftenFine DEF Word
<1>12. ASSUME UNCHANGED <<mem, age, given>>, NEW d, Becomes(t, d), CallInv(d, given, age)
       PROVE  /\ \E e : Becomes(t, e) /\ CallInv(e, given', age)
              /\ \A i \in WayIds : Fine(mem'[i], given')
              /\ given \subseteq given' /\ age' = age
  BY <1>0, <1>12
<1>13. CallInv(Idle, given, age)
  BY IdleFine
<1>14. CASE \E o \in Stores : BeginStore(t, o)
  <2>1. PICK o \in Stores : BeginStore(t, o)
    BY <1>14
  <2>2. Becomes(t, Begin(o)) /\ mem' = mem /\ age' = age
    BY <2>1 DEF BeginStore
  <2>3. \A i \in WayIds : Fine(mem'[i], given')
    BY <1>0, <1>1, <2>1, <2>2, Monotone
  <2> QED
    BY <1>1, <2>1, <2>2, <2>3
<1>15. CASE \E k \in Keys : BeginRead(t, Probe(k)) \/ BeginRead(t, Soften(k))
  <2>1. PICK k \in Keys : BeginRead(t, Probe(k)) \/ BeginRead(t, Soften(k))
    BY <1>15
  <2>2. PICK o \in {Probe(k), Soften(k)} : BeginRead(t, o)
    BY <2>1
  <2> QED
    BY <1>2, <1>12, <2>2 DEF BeginRead
<1>16. CASE \E x \in Words : Read(t, x)
  BY <1>3, <1>12, <1>16 DEF Read
<1>17. CASE \E x \in Words : Write(t, x)
  <2>1. PICK x \in Words : Write(t, x)
    BY <1>17
  <2>2. /\ given' = given /\ age' = age
        /\ \/ Becomes(t, Idle)
           \/ Becomes(t, Writing(c, c.way, c.todo \ {x}, c.out))
    BY <2>1 DEF Write
  <2> QED
    BY <1>4, <2>1, <2>2
<1>18. CASE ScanHit(t)
  <2>1. c.at = "scan" /\ UNCHANGED <<mem, age, given>>
    BY <1>18 DEF ScanHit, ReadAll
  <2>2. CASE c.op.kind = "probe"
    BY <1>5, <1>12, <1>18, <2>1, <2>2 DEF ScanHit
  <2>3. CASE c.op.kind # "probe"
    <3>1. Becomes(t, Looking("again", c.op, c.way, NoBest))
      BY <1>18, <2>3 DEF ScanHit
    <3> QED
      BY <1>6, <1>12, <2>1, <3>1
  <2> QED
    BY <2>2, <2>3
<1>19. CASE ScanNext(t)
  <2>1. c.at = "scan" /\ UNCHANGED <<mem, age, given>>
    BY <1>19 DEF ScanNext, ReadAll
  <2>2. Becomes(t, Looking("scan", c.op, c.way + 1, BestSoFar(c)))
    BY <1>19 DEF ScanNext
  <2> QED
    BY <1>6, <1>12, <2>1, <2>2
<1>20. CASE ScanMiss(t)
  <2>1. c.op \in Ops /\ UNCHANGED <<mem, age, given>>
    BY <1>0, <1>20 DEF ScanMiss, ReadAll, CallInv
  <2>2. CASE c.op.kind = "store"
    <3> DEFINE e == Entry(c.op.key, EvalOf(c.op), Pack(MoveOf(c.op), c.op))
    <3>1. Becomes(t, Writing(c, BestSoFar(c).way, Words, e))
      BY <1>20, <2>2 DEF ScanMiss
    <3> QED
      BY <1>7, <1>12, <1>20, <2>1, <2>2, <3>1, WritingFine
  <2>3. CASE c.op.kind # "store"
    <3>1. Becomes(t, Idle)
      BY <1>20, <2>3 DEF ScanMiss
    <3> QED
      BY <1>12, <1>13, <2>1, <3>1
  <2> QED
    BY <2>2, <2>3
<1>21. CASE Return(t)
  BY <1>12, <1>13, <1>21 DEF Return
<1>22. CASE StoreStays(t)
  <2> DEFINE e == Entry(c.op.key, KeptEval(c), c.seen["data"])
  <2>1. /\ UNCHANGED <<mem, age, given>>
        /\ Becomes(t, Idle) \/ Becomes(t, Writing(c, c.way, {"kw"}, e))
    BY <1>22 DEF StoreStays
  <2> QED
    BY <1>9, <1>12, <1>13, <1>22, <2>1, WritingFine
<1>23. CASE StoreReplaces(t)
  <2> DEFINE e == Entry(c.op.key, KeptEval(c), Pack(KeptMove(c), c.op))
  <2>1. UNCHANGED <<mem, age, given>> /\ Becomes(t, Writing(c, c.way, Words, e))
    BY <1>23 DEF StoreReplaces
  <2> QED
    BY <1>10, <1>12, <1>23, <2>1, WritingFine
<1>24. CASE SoftenAgain(t)
  <2> DEFINE e == [kw |-> Xor(Word(c), new), data |-> new]
  <2>1. /\ UNCHANGED <<mem, age, given>>
        /\ Becomes(t, Idle) \/ Becomes(t, Writing(c, c.way, Words, e))
    BY <1>24 DEF SoftenAgain
  <2> QED
    BY <1>11, <1>12, <1>13, <1>24, <2>1, WritingFine
<1> QED
  BY <1>14, <1>15, <1>16, <1>17, <1>18, <1>19, <1>20, <1>21, <1>22, <1>23, <1>24
  DEF Thread

\* Every step keeps the words bound.
LEMMA NextInv == TypeOK /\ IInv /\ [Next]_vars => IInv'
<1> SUFFICES ASSUME TypeOK, IInv, [Next]_vars PROVE IInv'
  OBVIOUS
<1>1. ASSUME NEW t \in Threads, Thread(t) PROVE IInv'
  <2>1. PICK d : Becomes(t, d) /\ CallInv(d, given', age)
    BY <1>1, StepInv
  <2>2. /\ \A i \in WayIds : Fine(mem'[i], given')
        /\ given \subseteq given' /\ age' = age
    BY <1>1, StepInv
  <2>3. ASSUME NEW u \in Threads PROVE CallInv(call'[u], given', age')
    <3>1. call'[u] = IF u = t THEN d ELSE call[u]
      BY <2>1 DEF Becomes, TypeOK
    <3>2. CallInv(call[u], given', age)
      BY <2>2, Monotone DEF IInv
    <3> QED
      BY <2>1, <2>2, <3>1, <3>2
  <2> QED
    BY <2>2, <2>3 DEF IInv
<1>2. ASSUME AllIdle, call' = call, NEW G, NEW a PROVE \A t \in Threads : CallInv(call[t], G, a)
  BY <1>2, IdleFine DEF AllIdle, IInv, CallInv
<1>3. ASSUME NewSearch PROVE IInv'
  BY <1>2, <1>3 DEF NewSearch, IInv
<1>4. ASSUME Clear PROVE IInv'
  BY <1>2, <1>4, EmptyFine DEF Clear, IInv
<1>5. ASSUME UNCHANGED vars PROVE IInv'
  BY <1>5 DEF vars, IInv
<1> QED
  BY <1>1, <1>3, <1>4, <1>5 DEF Next

\* What a probe returns was stored for the position it asks for, but for the
\* depth and the low 16 bits.
THEOREM HitsAreOfTheKey == Spec => []HitIsOfTheKey
<1>1. TypeOK /\ IInv => HitIsOfTheKey
  <2> SUFFICES ASSUME TypeOK, IInv, NEW t \in Threads, call[t].at = "hit",
                      NEW f \in FieldsOf(call[t].seen["data"], {"body", "special"})
               PROVE  \E g \in GivenFor(call[t].op.key) : f \in g.data
    BY DEF HitIsOfTheKey
  <2> DEFINE c == call[t]
  <2>1. Fine(c.seen, given) /\ c.op \in Ops /\ Matches(c)
    BY DEF IInv, CallInv
  <2>2. Check(Xor(c.seen["kw"], c.seen["data"]), c.op.key) /\ c.op.key \in Keys
    BY <2>1, OpKind DEF Matches, Word
  <2>3. Vouched(c.op.key, f, given)
    BY <2>1, <2>2, CheckVouches DEF Protected
  <2> QED
    BY <2>3 DEF Vouched, GivenFor
<1> QED
  BY <1>1, InitType, NextType, InitInv, NextInv, PTL DEF Spec

-----------------------------------------------------------------------------
(***************************************************************************)
(* One thread alone                                                        *)
(*                                                                         *)
(* With one search thread (the option Threads is 1 unless it is set) no    *)
(* way is read or written by two calls at once, and a hit is a whole entry *)
(* of its position.  OneInv says why: every way nobody is writing is empty *)
(* or holds both words of one entry, what the thread has read so far is    *)
(* still there, and what it is about to write is an entry of a position    *)
(* that is in no other way.  With two threads EvalIsOfTheKey already fails *)
(* (run tt_torn): what a hit promises then is HitIsOfTheKey.               *)
(***************************************************************************)
Alone == \A t, u \in Threads : t = u

\* The data of an entry of k: a depth no deeper than that of the store its body
\* is of, and move fields given for k.
DataFor(data, k, G) ==
  LET depth == FieldsOf(data, {"depth"})
      body == FieldsOf(data, {"body"})
      move == FieldsOf(data, {"from", "special"}) IN
  /\ data = move \cup depth \cup body
  /\ \E n \in 0..MaxDepth : depth = {<<"depth", n>>}
  /\ \A f \in move : Vouched(k, f, G)
  /\ \E g \in G : /\ g.key = k /\ FieldsOf(g.data, {"body"}) = body
                  /\ DepthOf(data) <= DepthOf(g.data)

\* An evaluation given for k, or none.
EvalFor(e, k, G) ==
  /\ \A f \in e : f[1] = "eval"
  /\ e = {} \/ \E g \in G : g.key = k /\ g.eval = e

\* A whole entry of k, as store_tt and hash_soften leave it.
EntryFor(words, k, G) ==
  /\ DataFor(words["data"], k, G)
  /\ \E e : EvalFor(e, k, G) /\ words["kw"] = Xor({Tag(k)} \cup e, words["data"])

Whole(words, G) == words = Empty \/ \E k \in Keys : EntryFor(words, k, G)

\* Nobody writes the way i.
Settled(i) == \A t \in Threads : call[t].at = "write" => call[t].way # i

\* Every way nobody writes is whole, and no position is in two of them.
TableInv ==
  /\ \A i \in WayIds : Settled(i) => Whole(mem[i], given)
  /\ \A k \in Keys : \A i, j \in WayIds :
       Settled(i) /\ Settled(j) /\ InWay(i, k) /\ InWay(j, k) => i = j

\* What the caller of store_tt gave is in the history.
Given(o) == [key |-> o.key, data |-> Pack(MoveOf(o), o), eval |-> EvalOf(o)] \in given

\* The best of the ways before w is one of them, and none of them is worth less.
BestOf(b, w) ==
  IF w = 1 THEN b = NoBest
  ELSE /\ b.way \in 1..w - 1 /\ b.value = Value(mem[b.way])
       /\ \A j \in 1..w - 1 : b.value <= Value(mem[j])

\* The store has its effect: its own body, or a deeper entry.
Effective(data, o) ==
  <<"body", Body(o)>> \in data \/ DepthOf(data) > o.depth + Margin(o)

\* What the thread has read is what is there; a scan has passed the position by
\* nowhere; a write is of an entry of the position, which is nowhere else.
AloneInv(c) ==
  /\ c.at \in {"scan", "again"} => \A x \in Words \ c.todo : c.seen[x] = mem[c.way][x]
  /\ c.at = "hit" => c.op.kind = "probe" /\ \A x \in Words : c.seen[x] = mem[c.way][x]
  /\ c.at \in {"scan", "again"} /\ c.op.kind = "store" => Given(c.op)
  /\ c.at = "again" => c.op.kind # "probe" /\ InWay(c.way, c.op.key)
  /\ c.at = "scan" => BestOf(c.best, c.way) /\ \A j \in 1..c.way - 1 : ~InWay(j, c.op.key)
  /\ c.at = "write" =>
       /\ EntryFor(c.out, c.op.key, given)
       /\ c.op.kind = "store" => Effective(c.out["data"], c.op)
       /\ \A x \in Words \ c.todo : mem[c.way][x] = c.out[x]
       /\ \A j \in WayIds \ {c.way} : ~InWay(j, c.op.key)

\* The inductive invariant of one thread.
OneInv == TableInv /\ \A t \in Threads : AloneInv(call[t])

-----------------------------------------------------------------------------
\* XOR undoes itself.
LEMMA XorTwice == ASSUME NEW v, NEW w PROVE Xor(Xor(v, w), w) = v
BY DEF Xor, SymDiff

\* What the check sees of an entry: the tag on high, the evaluation below.
LEMMA EntryWord ==
  ASSUME NEW k \in Keys, NEW e, \A f \in e : f[1] = "eval", NEW w, w = {Tag(k)} \cup e
  PROVE  FieldsOf(w, HighFields) = {Tag(k)} /\ FieldsOf(w, LowFields) = e
BY DEF FieldsOf, HighFields, LowFields, Tag

\* An entry passes the check of its own position only.
LEMMA EntryChecks ==
  ASSUME NEW G, NEW k \in Keys, NEW words, EntryFor(words, k, G), NEW k2 \in Keys
  PROVE  Check(Xor(words["kw"], words["data"]), k2) <=> k2 = k
<1>1. PICK e : EvalFor(e, k, G) /\ words["kw"] = Xor({Tag(k)} \cup e, words["data"])
  BY DEF EntryFor
<1>2. Xor(words["kw"], words["data"]) = {Tag(k)} \cup e
  BY <1>1, XorTwice
<1>3. FieldsOf({Tag(k)} \cup e, HighFields) = {Tag(k)}
  BY <1>1, EntryWord DEF EvalFor
<1>4. Tag(k2) = Tag(k) <=> k2 = k
  BY DEF Tag
<1> QED
  BY <1>2, <1>3, <1>4 DEF Check

\* An empty way passes no check; so a way that passes holds an entry of the position.
LEMMA WholeChecks ==
  ASSUME NEW G, NEW words, Whole(words, G), NEW k \in Keys,
         Check(Xor(words["kw"], words["data"]), k)
  PROVE  EntryFor(words, k, G)
<1>1. words # Empty
  <2>1. Xor({}, {}) = {}
    BY DEF Xor, SymDiff
  <2>2. ~Check({}, k)
    BY DEF Check, FieldsOf
  <2> QED
    BY <2>1, <2>2 DEF Empty, Words
<1> QED
  BY <1>1, EntryChecks DEF Whole

\* The depth of data that has one.
LEMMA DepthIs ==
  ASSUME NEW data, NEW n, FieldsOf(data, {"depth"}) = {<<"depth", n>>}
  PROVE  DepthOf(data) = n
<1> DEFINE f == CHOOSE f \in FieldsOf(data, {"depth"}) : TRUE
<1>1. f \in FieldsOf(data, {"depth"})
  OBVIOUS
<1>2. f = <<"depth", n>>
  BY <1>1
<1> QED
  BY <1>2 DEF DepthOf

\* The parts of what pack_tt_data packs.
LEMMA PackParts ==
  ASSUME NEW o, NEW m, \A f \in m : f[1] \in {"from", "special"}
  PROVE  /\ FieldsOf(Pack(m, o), {"depth"}) = {<<"depth", o.depth>>}
         /\ FieldsOf(Pack(m, o), {"body"}) = {<<"body", Body(o)>>}
         /\ FieldsOf(Pack(m, o), {"from", "special"}) = m
         /\ DepthOf(Pack(m, o)) = o.depth
<1>1. /\ FieldsOf(Pack(m, o), {"depth"}) = {<<"depth", o.depth>>}
      /\ FieldsOf(Pack(m, o), {"body"}) = {<<"body", Body(o)>>}
      /\ FieldsOf(Pack(m, o), {"from", "special"}) = m
  BY DEF Pack, FieldsOf
<1> QED
  BY <1>1, DepthIs

\* What store_tt writes is an entry of its position, of the depth it was given.
LEMMA StoreEntry ==
  ASSUME NEW o \in Stores, Given(o),
         NEW m, \A f \in m : f[1] \in {"from", "special"} /\ Vouched(o.key, f, given),
         NEW e, EvalFor(e, o.key, given)
  PROVE  /\ EntryFor(Entry(o.key, e, Pack(m, o)), o.key, given)
         /\ Effective(Pack(m, o), o)
<1> DEFINE data == Pack(m, o)
           g == [key |-> o.key, data |-> Pack(MoveOf(o), o), eval |-> EvalOf(o)]
<1>1. \A f \in m : f[1] \in {"from", "special"}
  OBVIOUS
<1>2. /\ FieldsOf(data, {"depth"}) = {<<"depth", o.depth>>}
      /\ FieldsOf(data, {"body"}) = {<<"body", Body(o)>>}
      /\ FieldsOf(data, {"from", "special"}) = m
      /\ DepthOf(data) = o.depth
  BY <1>1, PackParts
<1>3. data = m \cup {<<"depth", o.depth>>} \cup {<<"body", Body(o)>>}
  BY DEF Pack
<1>4. FieldsOf(g.data, {"body"}) = {<<"body", Body(o)>>} /\ DepthOf(g.data) = o.depth
  BY PackParts, StoreFields
<1>5. o.depth \in 0..MaxDepth /\ o.key \in Keys
  BY StoreFields
<1>6. DataFor(data, o.key, given)
  <2>1. g \in given /\ g.key = o.key
    BY DEF Given
  <2>2. DepthOf(data) <= DepthOf(g.data)
    BY <1>2, <1>4, <1>5, TableAssumption
  <2> HIDE DEF g, data
  <2> QED
    BY <1>2, <1>3, <1>4, <1>5, <2>1, <2>2 DEF DataFor
<1>7. EntryFor(Entry(o.key, e, data), o.key, given)
  BY <1>6 DEF EntryFor, Entry
<1> QED
  BY <1>3, <1>7 DEF Effective

\* A ply less: still an entry of the position, no deeper than before.
LEMMA SoftenEntry ==
  ASSUME NEW k, NEW G, NEW data, DataFor(data, k, G), DepthOf(data) # 0,
         \A g \in G : DepthOf(g.data) \in 0..MaxDepth,
         NEW new, new = (data \ {<<"depth", DepthOf(data)>>})
                          \cup {<<"depth", Softer(DepthOf(data))>>}
  PROVE  DataFor(new, k, G)
<1> DEFINE depth == FieldsOf(data, {"depth"})
           body == FieldsOf(data, {"body"})
           move == FieldsOf(data, {"from", "special"})
<1>1. PICK n \in 0..MaxDepth : depth = {<<"depth", n>>}
  BY DEF DataFor
<1>2. DepthOf(data) = n
  BY <1>1, DepthIs
<1>3. n - 1 \in 0..MaxDepth /\ n - 1 <= n
  BY <1>2, TableAssumption
<1>4. data = move \cup depth \cup body
  BY DEF DataFor
<1>5. new = move \cup {<<"depth", n - 1>>} \cup body
  <2>1. new = (data \ {<<"depth", n>>}) \cup {<<"depth", n - 1>>}
    BY <1>2 DEF Softer
  <2>2. <<"depth", n>> \notin move /\ <<"depth", n>> \notin body
    BY DEF FieldsOf
  <2> HIDE DEF move, body, depth
  <2> QED
    BY <1>1, <1>4, <2>1, <2>2
<1>6. /\ FieldsOf(new, {"depth"}) = {<<"depth", n - 1>>}
      /\ FieldsOf(new, {"body"}) = body
      /\ FieldsOf(new, {"from", "special"}) = move
  BY <1>5 DEF FieldsOf
<1>7. DepthOf(new) = n - 1
  BY <1>6, DepthIs
<1>8. PICK g \in G : g.key = k /\ FieldsOf(g.data, {"body"}) = body /\ n <= DepthOf(g.data)
  BY <1>2 DEF DataFor
<1>9. DepthOf(new) <= DepthOf(g.data)
  BY <1>3, <1>7, <1>8, TableAssumption
<1> HIDE DEF move, body, depth
<1>10. \A f \in move : Vouched(k, f, G)
  BY DEF DataFor, move
<1> QED
  BY <1>3, <1>5, <1>6, <1>8, <1>9, <1>10 DEF DataFor

\* A longer history has more entries.
LEMMA MoreEntries ==
  ASSUME NEW G, NEW H, G \subseteq H
  PROVE  /\ \A words, k : EntryFor(words, k, G) => EntryFor(words, k, H)
         /\ \A words : Whole(words, G) => Whole(words, H)
<1>1. \A k, f : Vouched(k, f, G) => Vouched(k, f, H)
  BY DEF Vouched
<1>2. \A data, k : DataFor(data, k, G) => DataFor(data, k, H)
  BY <1>1 DEF DataFor
<1>3. \A e, k : EvalFor(e, k, G) => EvalFor(e, k, H)
  BY DEF EvalFor
<1>4. \A words, k : EntryFor(words, k, G) => EntryFor(words, k, H)
  BY <1>2, <1>3 DEF EntryFor
<1> QED
  BY <1>4 DEF Whole

\* The value of a way that is not empty; an empty one comes before all.
LEMMA ValueBounds ==
  ASSUME NEW s \in [Words -> SUBSET Fields], age \in 0..Ages - 1
  PROVE  /\ s = Empty => Value(s) = -1048576
         /\ s # Empty => /\ Value(s) = DepthOf(s["data"]) - AgeWeight * RelativeAge(s)
                         /\ Value(s) \in -496..255
         /\ RelativeAge(s) \in 0..31 /\ DepthOf(s["data"]) \in 0..255
<1> DEFINE r == RelativeAge(s)
           d == DepthOf(s["data"])
<1>1. d \in 0..255 /\ AgeOf(s["data"]) \in 0..Ages - 1
  BY DepthAndAge, RangeAssumption DEF Words
<1>2. r \in 0..31
  BY <1>1, RangeAssumption DEF RelativeAge
<1>3. s # Empty => Value(s) = d - AgeWeight * r
  BY DEF Value, RelativeAge
<1> HIDE DEF r, d
<1>4. AgeWeight * r \in 0..496
  BY <1>2, RangeAssumption
<1>5. s # Empty => Value(s) \in -496..255
  <2>1. \A x \in 0..255, y \in 0..496 : x - y \in -496..255
    OBVIOUS
  <2> QED
    BY <1>1, <1>3, <1>4, <2>1
<1> QED
  BY <1>1, <1>2, <1>3, <1>5 DEF Value, r, d

\* A thread that has read a whole way knows the best of the ways up to it.
LEMMA BestNext ==
  ASSUME TypeOK, NEW c \in Call, BestOf(c.best, c.way), c.seen = mem[c.way]
  PROVE  BestOf(BestSoFar(c), c.way + 1)
<1> DEFINE b == BestSoFar(c)
           v == Value(c.seen)
           w == c.way
<1>1. /\ age \in 0..Ages - 1 /\ w \in Nat \ {0} /\ c.best.value \in Int
      /\ \A j \in 1..w : mem[j] \in [Words -> SUBSET Fields]
  BY TableAssumption DEF TypeOK, Call, WayIds
<1>2. \A j \in 1..w : Value(mem[j]) \in Int /\ Value(mem[j]) < 1073741824
  BY <1>1, ValueBounds
<1>3. v = Value(mem[w]) /\ v \in Int /\ v < 1073741824
  BY <1>1, <1>2
<1>4. b = IF v < c.best.value THEN [value |-> v, way |-> w] ELSE c.best
  BY DEF BestSoFar
<1> HIDE DEF b, v
<1>5. CASE w = 1
  <2>1. c.best.value = 1073741824
    BY <1>5 DEF BestOf, NoBest
  <2>2. b.value = v /\ b.way = 1
    BY <1>3, <1>4, <1>5, <2>1
  <2>3. \A j \in 1..w + 1 - 1 : j = 1
    BY <1>5
  <2> QED
    BY <1>3, <1>5, <2>2, <2>3 DEF BestOf, b
<1>6. CASE w # 1
  <2>1. /\ c.best.way \in 1..w - 1 /\ c.best.value = Value(mem[c.best.way])
        /\ \A j \in 1..w - 1 : c.best.value <= Value(mem[j])
    BY <1>6 DEF BestOf
  <2>2. CASE v < c.best.value
    <3>1. b.value = v /\ b.way = w
      BY <1>4, <2>2
    <3>2. \A j \in 1..w : v <= Value(mem[j])
      BY <1>1, <1>2, <1>3, <2>1, <2>2
    <3> QED
      BY <1>1, <1>3, <3>1, <3>2 DEF BestOf, b
  <2>3. CASE ~(v < c.best.value)
    <3>1. b = c.best
      BY <1>4, <2>3
    <3>2. \A j \in 1..w : c.best.value <= Value(mem[j])
      BY <1>1, <1>2, <1>3, <2>1, <2>3
    <3> QED
      BY <1>1, <2>1, <3>1, <3>2 DEF BestOf, b
  <2> QED
    BY <2>2, <2>3
<1> QED
  BY <1>5, <1>6

\* What a second reading of an entry of the position gives to the store.
LEMMA KeptFor ==
  ASSUME NEW c, c.op \in Stores, Given(c.op), EntryFor(c.seen, c.op.key, given)
  PROVE  /\ EvalFor(KeptEval(c), c.op.key, given)
         /\ \A f \in KeptMove(c) : f[1] \in {"from", "special"} /\ Vouched(c.op.key, f, given)
<1> DEFINE o == c.op
<1>1. o.key \in Keys
  BY StoreFields
<1>2. PICK e : EvalFor(e, o.key, given) /\ c.seen["kw"] = Xor({Tag(o.key)} \cup e, c.seen["data"])
  BY DEF EntryFor
<1>3. Word(c) = {Tag(o.key)} \cup e
  BY <1>2, XorTwice DEF Word
<1>4. FieldsOf(Word(c), LowFields) = e
  BY <1>1, <1>2, <1>3, EntryWord DEF EvalFor
<1>5. EvalFor(EvalOf(o), o.key, given)
  BY StoreFields DEF EvalFor, Given
<1>6. EvalFor(KeptEval(c), o.key, given)
  BY <1>2, <1>4, <1>5 DEF KeptEval
<1>7. \A f \in MoveOf(o) : f[1] \in {"from", "special"} /\ Vouched(o.key, f, given)
  BY StoreFields DEF Given, Vouched, Pack
<1>8. \A f \in FieldsOf(c.seen["data"], {"from", "special"}) :
        f[1] \in {"from", "special"} /\ Vouched(o.key, f, given)
  BY DEF EntryFor, DataFor, FieldsOf
<1> QED
  BY <1>6, <1>7, <1>8 DEF KeptMove

\* A thread that has read the whole way has read what is there.
LEMMA SeenIsThere ==
  ASSUME TypeOK, OneInv, NEW t \in Threads, call[t].at = "hit" \/ call[t].todo = {},
         call[t].at \in {"scan", "again", "hit"}
  PROVE  /\ call[t].way \in WayIds /\ call[t].seen = mem[call[t].way]
         /\ Matches(call[t]) <=> InWay(call[t].way, call[t].op.key)
<1> DEFINE c == call[t]
<1>1. /\ c \in Call /\ AloneInv(c) /\ c.way \in WayIds
      /\ c.seen \in [Words -> SUBSET Fields] /\ mem[c.way] \in [Words -> SUBSET Fields]
  BY DEF TypeOK, Call, OneInv
<1>2. \A x \in Words : c.seen[x] = mem[c.way][x]
  BY <1>1 DEF AloneInv
<1>3. Matches(c) <=> InWay(c.way, c.op.key)
  BY <1>2 DEF Matches, Word, InWay, Words
<1> QED
  BY <1>1, <1>2, <1>3

\* The step of the only thread.
LEMMA AloneStep ==
  ASSUME Alone, TypeOK, IInv, OneInv, NEW t \in Threads, Thread(t)
  PROVE  OneInv'
<1> DEFINE c == call[t]
           Seen == \A x \in Words : c.seen[x] = mem[c.way][x]
<1>1. /\ c \in Call /\ AloneInv(c) /\ CallInv(c, given, age)
      /\ mem \in [WayIds -> [Words -> SUBSET Fields]]
      /\ given \subseteq [key : Keys, data : SUBSET Fields, eval : SUBSET Fields]
      /\ call \in [Threads -> Call] /\ \A u \in Threads : u = t
  BY DEF Alone, TypeOK, Call, IInv, OneInv
\* What is left to show of each step.
<1>2. ASSUME NEW d, Becomes(t, d) PROVE call'[t] = d
  BY <1>1, <1>2 DEF Becomes
<1>3. ASSUME TableInv', AloneInv(call[t])' PROVE OneInv'
  BY <1>1, <1>3 DEF OneInv
<1>4. ASSUME c.at # "write" PROVE \A i \in WayIds : Settled(i)
  BY <1>1, <1>4 DEF Settled
<1>5. ASSUME c.at # "write", UNCHANGED <<mem, given>> PROVE TableInv'
  BY <1>4, <1>5 DEF OneInv, TableInv, InWay
<1>6. ASSUME UNCHANGED <<mem, age>>
      PROVE  /\ \A i, k : InWay(i, k)' <=> InWay(i, k)
             /\ \A b, w : BestOf(b, w)' <=> BestOf(b, w)
             /\ \A m, o : Pack(m, o)' = Pack(m, o)
             /\ \A data, o : Effective(data, o)' <=> Effective(data, o)
  BY <1>6 DEF InWay, BestOf, Value, Pack, Body, Effective
<1>6a. ASSUME UNCHANGED <<mem, age, given>> PROVE \A o : Given(o)' <=> Given(o)
  BY <1>6, <1>6a DEF Given
\* A thread that has read the whole way.
<1>7. ASSUME c.at \in {"scan", "again"}, c.todo = {}
      PROVE  Seen /\ c.seen = mem[c.way] /\ (Matches(c) <=> InWay(c.way, c.op.key))
  BY <1>1, <1>7, SeenIsThere
<1>8. ASSUME c.at = "again", c.todo = {}
      PROVE  /\ EntryFor(c.seen, c.op.key, given) /\ c.op.key \in Keys
             /\ \A j \in WayIds \ {c.way} : ~InWay(j, c.op.key)
  <2>1. c.op.key \in Keys /\ c.way \in WayIds
    BY <1>1, <1>8, OpKind DEF Call, CallInv
  <2>2. InWay(c.way, c.op.key)
    BY <1>1, <1>8 DEF AloneInv
  <2>3. EntryFor(mem[c.way], c.op.key, given)
    BY <1>4, <1>8, <2>1, <2>2, WholeChecks DEF OneInv, TableInv, InWay
  <2> QED
    BY <1>4, <1>7, <1>8, <2>1, <2>2, <2>3 DEF OneInv, TableInv
<1>9. ASSUME NEW o \in Stores, BeginStore(t, o) PROVE OneInv'
  <2>1. /\ c.at = "idle" /\ given \subseteq given' /\ UNCHANGED <<mem, age>>
        /\ call'[t] = Begin(o)
        /\ [key |-> o.key, data |-> Pack(MoveOf(o), o), eval |-> EvalOf(o)] \in given'
    BY <1>2, <1>9 DEF BeginStore
  <2>2. TableInv'
    <3>1. \A i \in WayIds : Whole(mem[i], given')
      BY <1>4, <2>1, MoreEntries DEF OneInv, TableInv
    <3> QED
      BY <1>4, <1>6, <2>1, <3>1 DEF OneInv, TableInv
  <2>3. Given(o)'
    BY <1>6, <2>1 DEF Given
  <2>4. BestOf(NoBest, 1)'
    BY DEF BestOf
  <2>5. AloneInv(call[t])'
    BY <2>1, <2>3, <2>4 DEF AloneInv, Begin, Looking
  <2> QED
    BY <1>3, <2>2, <2>5
<1>10. ASSUME NEW k \in Keys, NEW o \in {Probe(k), Soften(k)}, BeginRead(t, o) PROVE OneInv'
  <2>1. c.at = "idle" /\ UNCHANGED <<mem, given, age>> /\ call'[t] = Begin(o)
    BY <1>2, <1>10 DEF BeginRead
  <2>2. BestOf(NoBest, 1)'
    BY DEF BestOf
  <2>3. AloneInv(call[t])'
    BY <1>10, <2>1, <2>2 DEF AloneInv, Begin, Looking, Probe, Soften
  <2> QED
    BY <1>3, <1>5, <2>1, <2>3
<1>11. ASSUME NEW x \in Words, Read(t, x) PROVE OneInv'
  <2> DEFINE d == HasRead(c, x, mem[c.way][x])
  <2>1. /\ c.at \in {"scan", "again"} /\ UNCHANGED <<mem, given, age>>
        /\ call'[t] = d
    BY <1>2, <1>11 DEF Read
  <2>2. /\ d.at = c.at /\ d.op = c.op /\ d.way = c.way /\ d.todo = c.todo \ {x}
        /\ d.best = c.best /\ d.seen = [c.seen EXCEPT ![x] = mem[c.way][x]]
    BY DEF HasRead
  <2>3. \A y \in Words \ d.todo : d.seen[y] = mem[d.way][y]
    BY <1>1, <2>1, <2>2 DEF AloneInv, Call
  <2>4. c.op.kind = "store" => Given(c.op)
    BY <1>1, <2>1 DEF AloneInv
  <2>4a. c.at = "again" => c.op.kind # "probe" /\ InWay(c.way, c.op.key)
    BY <1>1 DEF AloneInv
  <2>4b. c.at = "scan" => BestOf(c.best, c.way) /\ \A j \in 1..c.way - 1 : ~InWay(j, c.op.key)
    BY <1>1 DEF AloneInv
  <2>4c. \A y \in Words \ d.todo : d.seen[y] = mem'[d.way][y]
    BY <2>1, <2>3
  <2> HIDE DEF d
  <2>5. AloneInv(call[t])'
    BY <1>6, <1>6a, <2>1, <2>2, <2>4, <2>4a, <2>4b, <2>4c DEF AloneInv
  <2> QED
    BY <1>3, <1>5, <2>1, <2>5
<1>12. ASSUME ScanHit(t) PROVE OneInv'
  <2>1. c.at = "scan" /\ c.todo = {} /\ Matches(c) /\ UNCHANGED <<mem, given, age>>
    BY <1>12 DEF ScanHit, ReadAll
  <2>2. Seen /\ InWay(c.way, c.op.key)
    BY <1>7, <2>1
  <2>3. CASE c.op.kind = "probe"
    <3>1. call'[t] = Found(c)
      BY <1>2, <1>12, <2>3 DEF ScanHit
    <3>2. AloneInv(call[t])'
      BY <2>1, <2>2, <2>3, <3>1 DEF AloneInv, Found
    <3> QED
      BY <1>3, <1>5, <2>1, <3>2
  <2>4. CASE c.op.kind # "probe"
    <3>1. call'[t] = Looking("again", c.op, c.way, NoBest)
      BY <1>2, <1>12, <2>4 DEF ScanHit
    <3>2. c.op.kind = "store" => Given(c.op)
      BY <1>1, <2>1 DEF AloneInv
    <3>3. AloneInv(call[t])'
      BY <1>6, <1>6a, <2>1, <2>2, <2>4, <3>1, <3>2 DEF AloneInv, Looking
    <3> QED
      BY <1>3, <1>5, <2>1, <3>3
  <2> QED
    BY <2>3, <2>4
<1>13. ASSUME ScanNext(t) PROVE OneInv'
  <2>1. /\ c.at = "scan" /\ c.todo = {} /\ ~Matches(c) /\ UNCHANGED <<mem, given, age>>
        /\ call'[t] = Looking("scan", c.op, c.way + 1, BestSoFar(c))
    BY <1>2, <1>13 DEF ScanNext, ReadAll
  <2>2. \A j \in 1..c.way : ~InWay(j, c.op.key)
    <3>1. \A j \in 1..c.way : j \in 1..c.way - 1 \/ j = c.way
      BY <1>1, TableAssumption DEF Call, WayIds
    <3> QED
      BY <1>1, <1>7, <2>1, <3>1 DEF AloneInv
  <2>3. BestOf(BestSoFar(c), c.way + 1)
    BY <1>1, <1>7, <2>1, BestNext DEF AloneInv
  <2>4. c.op.kind = "store" => Given(c.op)
    BY <1>1, <2>1 DEF AloneInv
  <2> DEFINE d == Looking("scan", c.op, c.way + 1, BestSoFar(c))
  <2>5. /\ d.at = "scan" /\ d.op = c.op /\ d.way = c.way + 1 /\ d.todo = Words
        /\ d.best = BestSoFar(c)
    BY DEF Looking
  <2> HIDE DEF d
  <2>6. BestOf(d.best, d.way) /\ \A j \in 1..d.way - 1 : ~InWay(j, d.op.key)
    <3>1. d.way - 1 = c.way
      <4>1. c.way \in Int
        BY <1>1, TableAssumption DEF Call, WayIds
      <4> QED
        BY <2>5, <4>1
    <3>2. \A j \in 1..d.way - 1 : ~InWay(j, d.op.key)
      BY <2>2, <2>5, <3>1, Zenon
    <3>3. BestOf(d.best, d.way)
      BY <2>3, <2>5, Zenon
    <3> QED
      BY <3>2, <3>3
  <2>7. call'[t] = d
    BY <2>1 DEF d
  <2>8. AloneInv(call[t])'
    BY <1>6, <1>6a, <2>1, <2>4, <2>5, <2>6, <2>7 DEF AloneInv
  <2> QED
    BY <1>3, <1>5, <2>1, <2>8
<1>14. ASSUME c.at # "write", UNCHANGED <<mem, given, age>>, call'[t] = Idle PROVE OneInv'
  <2>1. AloneInv(call[t])'
    BY <1>14 DEF AloneInv, Idle
  <2> QED
    BY <1>3, <1>5, <1>14, <2>1
\* A thread that is going to write an entry of its position.
<1>15. ASSUME c.at # "write", UNCHANGED <<mem, given, age>>,
              NEW w, NEW ws, NEW new, call'[t] = Writing(c, w, ws, new),
              EntryFor(new, c.op.key, given),
              c.op.kind = "store" => Effective(new["data"], c.op),
              \A x \in Words \ ws : mem[w][x] = new[x],
              \A j \in WayIds \ {w} : ~InWay(j, c.op.key)
       PROVE  OneInv'
  <2>1. AloneInv(call[t])'
    BY <1>6, <1>15 DEF AloneInv, Writing
  <2> QED
    BY <1>3, <1>5, <1>15, <2>1
<1>16. ASSUME ScanMiss(t) PROVE OneInv'
  <2>1. /\ c.at = "scan" /\ c.todo = {} /\ ~Matches(c) /\ c.way = Ways
        /\ UNCHANGED <<mem, given, age>>
    BY <1>16 DEF ScanMiss, ReadAll
  <2>2. CASE c.op.kind = "store"
    <3> DEFINE o == c.op
               e == Entry(o.key, EvalOf(o), Pack(MoveOf(o), o))
    <3>1. o \in Stores /\ Given(o)
      BY <1>1, <2>1, <2>2, OpKind DEF AloneInv, CallInv, Call
    <3>2. EvalFor(EvalOf(o), o.key, given)
      BY <3>1, StoreFields DEF EvalFor, Given
    <3>3. \A f \in MoveOf(o) : f[1] \in {"from", "special"} /\ Vouched(o.key, f, given)
      BY <3>1, StoreFields DEF Given, Vouched, Pack
    <3>4. EntryFor(e, o.key, given) /\ Effective(e["data"], o)
      BY <3>1, <3>2, <3>3, StoreEntry DEF Entry
    <3>5. \A j \in WayIds : ~InWay(j, o.key)
      <4>1. \A j \in WayIds : j \in 1..c.way - 1 \/ j = c.way
        BY <1>1, <2>1, TableAssumption DEF WayIds
      <4> QED
        BY <1>1, <1>7, <2>1, <4>1 DEF AloneInv
    <3>6. call'[t] = Writing(c, BestSoFar(c).way, Words, e)
      BY <1>2, <1>16, <2>2 DEF ScanMiss
    <3> HIDE DEF e
    <3> QED
      BY <1>15, <2>1, <3>4, <3>5, <3>6
  <2>3. CASE c.op.kind # "store"
    <3>1. call'[t] = Idle
      BY <1>2, <1>16, <2>3 DEF ScanMiss
    <3> QED
      BY <1>14, <2>1, <3>1
  <2> QED
    BY <2>2, <2>3
<1>17. ASSUME Return(t) PROVE OneInv'
  <2>1. c.at # "write" /\ UNCHANGED <<mem, given, age>> /\ call'[t] = Idle
    BY <1>2, <1>17 DEF Return
  <2> QED
    BY <1>14, <2>1
<1>18. ASSUME StoreStays(t) PROVE OneInv'
  <2> DEFINE o == c.op
             e == Entry(o.key, KeptEval(c), c.seen["data"])
  <2>1. /\ c.at = "again" /\ c.todo = {} /\ o.kind = "store" /\ Stays(c)
        /\ UNCHANGED <<mem, given, age>>
    BY <1>18 DEF StoreStays, ReadAll
  <2>2. call'[t] = Idle \/ call'[t] = Writing(c, c.way, {"kw"}, e)
    BY <1>2, <1>18 DEF StoreStays
  <2>3. o \in Stores /\ Given(o)
    BY <1>1, <2>1, OpKind DEF AloneInv, CallInv, Call
  <2>4. EvalFor(KeptEval(c), o.key, given)
    BY <1>8, <2>1, <2>3, KeptFor
  <2>5. EntryFor(e, o.key, given)
    BY <1>8, <2>1, <2>4 DEF EntryFor, Entry
  <2>6. Effective(e["data"], o)
    BY <2>1 DEF Effective, Entry, Stays
  <2>7. \A x \in Words \ {"kw"} : mem[c.way][x] = e[x]
    BY <1>7, <2>1 DEF Words, Entry
  <2> HIDE DEF e
  <2> QED
    BY <1>8, <1>14, <1>15, <2>1, <2>2, <2>5, <2>6, <2>7
<1>19. ASSUME StoreReplaces(t) PROVE OneInv'
  <2> DEFINE o == c.op
             e == Entry(o.key, KeptEval(c), Pack(KeptMove(c), o))
  <2>1. /\ c.at = "again" /\ c.todo = {} /\ o.kind = "store" /\ UNCHANGED <<mem, given, age>>
        /\ call'[t] = Writing(c, c.way, Words, e)
    BY <1>2, <1>19 DEF StoreReplaces, ReadAll
  <2>2. o \in Stores /\ Given(o)
    BY <1>1, <2>1, OpKind DEF AloneInv, CallInv, Call
  <2>3. /\ EvalFor(KeptEval(c), o.key, given)
        /\ \A f \in KeptMove(c) : f[1] \in {"from", "special"} /\ Vouched(o.key, f, given)
    BY <1>8, <2>1, <2>2, KeptFor
  <2>4. EntryFor(e, o.key, given) /\ Effective(e["data"], o)
    BY <2>2, <2>3, StoreEntry DEF Entry
  <2> HIDE DEF e
  <2> QED
    BY <1>8, <1>15, <2>1, <2>4
<1>20. ASSUME SoftenAgain(t) PROVE OneInv'
  <2> DEFINE n == DepthOf(c.seen["data"])
             new == (c.seen["data"] \ {<<"depth", n>>}) \cup {<<"depth", Softer(n)>>}
             e == [kw |-> Xor(Word(c), new), data |-> new]
  <2>1. /\ c.at = "again" /\ c.todo = {} /\ c.op.kind = "soften" /\ UNCHANGED <<mem, given, age>>
        /\ IF n = 0 THEN call'[t] = Idle ELSE call'[t] = Writing(c, c.way, Words, e)
    BY <1>2, <1>20 DEF SoftenAgain, ReadAll
  <2>2. CASE n = 0
    BY <1>14, <2>1, <2>2
  <2>3. CASE n # 0
    <3>1. PICK v : /\ EvalFor(v, c.op.key, given)
                   /\ c.seen["kw"] = Xor({Tag(c.op.key)} \cup v, c.seen["data"])
      BY <1>8, <2>1 DEF EntryFor
    <3>2. Word(c) = {Tag(c.op.key)} \cup v
      BY <3>1, XorTwice DEF Word
    <3>3. \A g \in given : DepthOf(g.data) \in 0..MaxDepth
      BY <1>1, DepthAndAge
    <3>4. DataFor(new, c.op.key, given)
      BY <1>8, <2>1, <2>3, <3>3, SoftenEntry DEF EntryFor
    <3>5. EntryFor(e, c.op.key, given)
      BY <3>1, <3>2, <3>4 DEF EntryFor
    <3> HIDE DEF e
    <3> QED
      BY <1>8, <1>15, <2>1, <2>3, <3>5
  <2> QED
    BY <2>2, <2>3
<1>21. ASSUME NEW x \in Words, Write(t, x) PROVE OneInv'
  <2>1. /\ c.at = "write" /\ x \in c.todo /\ UNCHANGED <<age, given>>
        /\ mem' = [mem EXCEPT ![c.way][x] = c.out[x]]
        /\ \/ c.todo = {x} /\ call'[t] = Idle
           \/ c.todo # {x} /\ call'[t] = Writing(c, c.way, c.todo \ {x}, c.out)
    BY <1>2, <1>21 DEF Write
  <2>2. /\ c.way \in WayIds /\ c.out \in [Words -> SUBSET Fields] /\ c.op.key \in Keys
        /\ EntryFor(c.out, c.op.key, given)
        /\ c.op.kind = "store" => Effective(c.out["data"], c.op)
        /\ \A y \in Words \ c.todo : mem[c.way][y] = c.out[y]
        /\ \A j \in WayIds \ {c.way} : ~InWay(j, c.op.key)
    BY <1>1, <2>1, OpKind DEF Call, AloneInv, CallInv
  <2>2a. PICK w \in WayIds : w = c.way
    BY <2>2
  <2>3. /\ \A i \in WayIds \ {w} : mem'[i] = mem[i]
        /\ \A y \in Words : y # x => mem'[w][y] = mem[w][y]
        /\ mem'[w][x] = c.out[x]
    BY <1>1, <2>1, <2>2, <2>2a
  <2>4. \A i \in WayIds \ {w} : Settled(i) /\ Whole(mem[i], given)
    BY <1>1, <2>2a DEF Settled, OneInv, TableInv
  <2>5. \A i \in WayIds \ {w} : \A k : InWay(i, k)' <=> InWay(i, k)
    BY <2>3 DEF InWay
  <2>6. CASE c.todo = {x}
    <3>1. mem'[w]["kw"] = c.out["kw"] /\ mem'[w]["data"] = c.out["data"]
      BY <2>2, <2>2a, <2>3, <2>6 DEF Words
    <3>2. EntryFor(mem'[w], c.op.key, given)
      BY <2>2, <3>1 DEF EntryFor
    <3>3. \A k \in Keys : InWay(w, k)' => k = c.op.key
      <4> DEFINE ws == mem'[w]
      <4>1. \A k \in Keys : Check(Xor(ws["kw"], ws["data"]), k) <=> k = c.op.key
        <5> HIDE DEF ws
        <5> QED
          BY <2>2, <3>2, EntryChecks DEF ws
      <4> QED
        BY <4>1 DEF InWay
    <3>4. \A i \in WayIds : Whole(mem'[i], given')
      BY <2>1, <2>2, <2>3, <2>4, <3>2 DEF Whole
    <3>5. \A k \in Keys : \A i, j \in WayIds : InWay(i, k)' /\ InWay(j, k)' => i = j
      <4> SUFFICES ASSUME NEW k \in Keys, NEW i \in WayIds, NEW j \in WayIds,
                          InWay(i, k)', InWay(j, k)'
                   PROVE  i = j
        OBVIOUS
      <4>1. CASE i = w \/ j = w
        BY <2>2, <2>2a, <2>5, <3>3, <4>1
      <4>2. CASE i # w /\ j # w
        BY <2>4, <2>5, <4>2 DEF OneInv, TableInv
      <4> QED
        BY <4>1, <4>2
    <3>6. TableInv'
      BY <3>4, <3>5 DEF TableInv
    <3>7. AloneInv(call[t])'
      BY <2>1, <2>6 DEF AloneInv, Idle
    <3> QED
      BY <1>3, <3>6, <3>7
  <2>7. CASE c.todo # {x}
    <3> DEFINE d == Writing(c, c.way, c.todo \ {x}, c.out)
    <3>1. /\ call'[t] = d /\ d.at = "write" /\ d.way = w /\ d.op = c.op
          /\ d.out = c.out /\ d.todo = c.todo \ {x}
      BY <2>1, <2>2a, <2>7 DEF Writing
    <3> HIDE DEF d
    <3>2. ~Settled(w)'
      BY <3>1 DEF Settled
    <3>3. TableInv'
      <4>1. \A i \in WayIds : Settled(i)' => i # w
        BY <3>2
      <4>2. \A i \in WayIds : Settled(i)' => Whole(mem'[i], given')
        BY <2>1, <2>3, <2>4, <4>1
      <4>3. \A k \in Keys : \A i, j \in WayIds :
              Settled(i)' /\ Settled(j)' /\ InWay(i, k)' /\ InWay(j, k)' => i = j
        BY <2>4, <2>5, <4>1 DEF OneInv, TableInv
      <4> QED
        BY <4>2, <4>3 DEF TableInv
    <3>4. \A y \in Words \ d.todo : mem'[d.way][y] = d.out[y]
      BY <2>2, <2>2a, <2>3, <3>1
    <3>5. \A data, o : Effective(data, o)' <=> Effective(data, o)
      BY <2>1 DEF Effective, Body
    <3>6. AloneInv(call[t])'
      BY <2>1, <2>2, <2>2a, <2>5, <3>1, <3>4, <3>5 DEF AloneInv
    <3> QED
      BY <1>3, <3>3, <3>6
  <2> QED
    BY <2>6, <2>7
<1> QED
  BY <1>9, <1>10, <1>11, <1>12, <1>13, <1>16, <1>17, <1>18, <1>19, <1>20, <1>21 DEF Thread

\* The way is empty at first, and after clear_hash_table.
LEMMA EmptyTable ==
  ASSUME \A i \in WayIds : mem[i] = Empty
  PROVE  TableInv
<1>1. Xor({}, {}) = {}
  BY DEF Xor, SymDiff
<1>2. \A k : ~Check({}, k)
  BY DEF Check, FieldsOf
<1>3. \A i \in WayIds : \A k : ~InWay(i, k)
  BY <1>1, <1>2 DEF InWay, Empty, Words
<1>4. \A i \in WayIds : Whole(mem[i], given)
  BY DEF Whole
<1> QED
  BY <1>3, <1>4 DEF TableInv

\* It holds at the start, when nobody has called.
LEMMA AloneInit == Init => OneInv
<1> SUFFICES ASSUME Init PROVE OneInv
  OBVIOUS
<1>1. TableInv
  BY EmptyTable DEF Init
<1>2. \A t \in Threads : AloneInv(call[t])
  BY DEF Init, AloneInv, Idle
<1> QED
  BY <1>1, <1>2 DEF OneInv

\* Every step of one thread, and of the searches it takes part in, keeps its invariant.
LEMMA AloneNext ==
  ASSUME Alone, TypeOK, IInv, OneInv, [Next]_vars
  PROVE  OneInv'
<1>1. ASSUME AllIdle, UNCHANGED call PROVE (\A t \in Threads : AloneInv(call[t]))'
  BY <1>1 DEF AllIdle, AloneInv
<1>2. ASSUME UNCHANGED <<mem, call, given>> PROVE TableInv'
  BY <1>2 DEF OneInv, TableInv, Settled, InWay
<1>3. ASSUME NewSearch PROVE OneInv'
  BY <1>1, <1>2, <1>3 DEF NewSearch, OneInv
<1>4. ASSUME Clear PROVE OneInv'
  <2>1. TableInv'
    <3>1. (\A i \in WayIds : mem[i] = Empty)'
      BY <1>4 DEF Clear
    <3> QED
      BY <3>1, EmptyTable, PTL
  <2> QED
    BY <1>1, <1>4, <2>1 DEF Clear, OneInv
<1>5. ASSUME UNCHANGED vars PROVE OneInv'
  <2>1. \A c : AloneInv(c)' <=> AloneInv(c)
    BY <1>5 DEF vars, AloneInv, Given, Pack, Body, InWay, BestOf, Value, Effective
  <2> QED
    BY <1>2, <1>5, <2>1 DEF vars, OneInv
<1> QED
  BY <1>3, <1>4, <1>5, AloneStep DEF Next

\* The inductive invariants of one thread, together.
LEMMA SpecAlone == ASSUME Alone PROVE Spec => [](TypeOK /\ IInv /\ OneInv)
<1>1. TypeOK /\ IInv /\ OneInv /\ [Next]_vars => OneInv'
  BY AloneNext
<1> QED
  BY <1>1, InitType, NextType, InitInv, NextInv, AloneInit, PTL DEF Spec

\* What the only thread has hit is a whole entry of its position.
LEMMA HitIsWhole ==
  ASSUME Alone, TypeOK, IInv, OneInv, NEW t \in Threads, call[t].at = "hit"
  PROVE  EntryFor(call[t].seen, call[t].op.key, given) /\ call[t].op.key \in Keys
<1> DEFINE c == call[t]
<1>1. c \in Call /\ c.op.key \in Keys /\ Matches(c)
  BY OpKind DEF TypeOK, Call, IInv, CallInv
<1>2. c.way \in WayIds /\ c.seen = mem[c.way] /\ InWay(c.way, c.op.key)
  BY <1>1, SeenIsThere
<1>3. Settled(c.way)
  BY DEF Alone, Settled
<1>4. EntryFor(mem[c.way], c.op.key, given)
  <2>1. Whole(mem[c.way], given)
    BY <1>2, <1>3 DEF OneInv, TableInv
  <2> QED
    BY <1>1, <1>2, <2>1, WholeChecks DEF InWay
<1> QED
  BY <1>1, <1>2, <1>4

\* The evaluation in a hit was stored for the position. With two threads it may
\* not have been: the low 16 bits are outside the check (run tt_torn).
THEOREM EvalsOfOneThread == ASSUME Alone PROVE Spec => []EvalIsOfTheKey
<1>1. TypeOK /\ IInv /\ OneInv => EvalIsOfTheKey
  <2> SUFFICES ASSUME TypeOK, IInv, OneInv, NEW t \in Threads, call[t].at = "hit"
               PROVE  FieldsOf(Word(call[t]), LowFields)
                        \in {{}} \cup {g.eval : g \in GivenFor(call[t].op.key)}
    BY DEF EvalIsOfTheKey
  <2> DEFINE c == call[t]
  <2>1. EntryFor(c.seen, c.op.key, given) /\ c.op.key \in Keys
    BY HitIsWhole
  <2>2. PICK e : /\ EvalFor(e, c.op.key, given)
                 /\ c.seen["kw"] = Xor({Tag(c.op.key)} \cup e, c.seen["data"])
    BY <2>1 DEF EntryFor
  <2>3. Word(c) = {Tag(c.op.key)} \cup e
    BY <2>2, XorTwice DEF Word
  <2>4. FieldsOf(Word(c), LowFields) = e
    BY <2>1, <2>2, <2>3, EntryWord DEF EvalFor
  <2> QED
    BY <2>2, <2>4 DEF EvalFor, GivenFor
<1> QED
  BY <1>1, SpecAlone, PTL

\* The squares of the move in a hit were stored for the position.
THEOREM MovesOfOneThread == ASSUME Alone PROVE Spec => []MoveIsOfTheKey
<1>1. TypeOK /\ IInv /\ OneInv => MoveIsOfTheKey
  <2> SUFFICES ASSUME TypeOK, IInv, OneInv, NEW t \in Threads, call[t].at = "hit",
                      NEW f \in FieldsOf(call[t].seen["data"], {"from"})
               PROVE  \E g \in GivenFor(call[t].op.key) : f \in g.data
    BY DEF MoveIsOfTheKey
  <2>1. DataFor(call[t].seen["data"], call[t].op.key, given)
    BY HitIsWhole DEF EntryFor
  <2>2. f \in FieldsOf(call[t].seen["data"], {"from", "special"})
    BY DEF FieldsOf
  <2>3. Vouched(call[t].op.key, f, given)
    BY <2>1, <2>2 DEF DataFor
  <2> QED
    BY <2>3 DEF Vouched, GivenFor
<1> QED
  BY <1>1, SpecAlone, PTL

\* A hit claims no more depth than the store of its score did, softened or not.
THEOREM DepthsOfOneThread == ASSUME Alone PROVE Spec => []DepthIsNotRaised
<1>1. TypeOK /\ IInv /\ OneInv => DepthIsNotRaised
  <2> SUFFICES ASSUME TypeOK, IInv, OneInv, NEW t \in Threads, call[t].at = "hit"
               PROVE  \E g \in GivenFor(call[t].op.key) :
                        /\ FieldsOf(g.data, {"body"}) = FieldsOf(call[t].seen["data"], {"body"})
                        /\ DepthOf(call[t].seen["data"]) <= DepthOf(g.data)
    BY DEF DepthIsNotRaised
  <2>1. DataFor(call[t].seen["data"], call[t].op.key, given)
    BY HitIsWhole DEF EntryFor
  <2> QED
    BY <2>1 DEF DataFor, GivenFor
<1> QED
  BY <1>1, SpecAlone, PTL

\* Between two calls of one thread a position is in one way at most.
THEOREM OneWayOfOneThread == ASSUME Alone PROVE Spec => []OneWayPerKey
<1>1. TypeOK /\ IInv /\ OneInv => OneWayPerKey
  <2> SUFFICES ASSUME OneInv, AllIdle PROVE \A k \in Keys : \A i, j \in WayIds :
                                              InWay(i, k) /\ InWay(j, k) => i = j
    BY DEF OneWayPerKey
  <2>1. \A i \in WayIds : Settled(i)
    BY DEF AllIdle, Settled
  <2> QED
    BY <2>1 DEF OneInv, TableInv
<1> QED
  BY <1>1, SpecAlone, PTL

\* A store of the only thread ends with its entry, or a deeper one, in a way.
LEMMA StoreEnds ==
  ASSUME Alone, TypeOK, IInv, OneInv, [Next]_vars,
         NEW t \in Threads, NEW o \in Stores, call[t].op = o, call'[t].at = "idle"
  PROVE  \E i \in WayIds :
           /\ InWay(i, o.key)'
           /\ \/ <<"body", Body(o)>> \in mem'[i]["data"]
              \/ DepthOf(mem'[i]["data"]) > o.depth + Margin(o)
<1> DEFINE c == call[t]
<1>1. /\ c \in Call /\ AloneInv(c) /\ CallInv(c, given, age) /\ o.kind = "store"
      /\ o.key \in Keys /\ mem \in [WayIds -> [Words -> SUBSET Fields]]
      /\ call \in [Threads -> Call] /\ \A u \in Threads : u = t
  BY StoreFields DEF Alone, TypeOK, Call, IInv, OneInv
<1>2. c.at # "idle"
  BY <1>1 DEF CallInv, Idle, NoOp
<1>3. Thread(t)
  <2>1. ~UNCHANGED vars /\ ~AllIdle
    BY <1>2 DEF vars, AllIdle
  <2> QED
    BY <1>1, <2>1 DEF Next, NewSearch, Clear
<1>4. ASSUME NEW d, Becomes(t, d) PROVE d.at = "idle"
  BY <1>1, <1>4 DEF Becomes
<1>5. CASE StoreStays(t)
  <2>1. c.at = "again" /\ c.todo = {} /\ Stays(c) /\ UNCHANGED mem
    BY <1>5 DEF StoreStays, ReadAll
  <2>2. c.way \in WayIds /\ c.seen = mem[c.way] /\ InWay(c.way, o.key)
    BY <1>1, <2>1, SeenIsThere DEF AloneInv
  <2>3. DepthOf(mem[c.way]["data"]) > o.depth + Margin(o)
    BY <2>1, <2>2 DEF Stays
  <2>4. PICK w \in WayIds : w = c.way
    BY <2>2
  <2>5. InWay(w, o.key)' /\ mem'[w]["data"] = mem[w]["data"]
    BY <2>1, <2>2, <2>4 DEF InWay
  <2> QED
    BY <2>3, <2>4, <2>5
<1>6. CASE \E x \in Words : Write(t, x)
  <2> PICK x \in Words : Write(t, x)
    BY <1>6
  <2>1. c.at = "write" /\ c.todo = {x} /\ mem' = [mem EXCEPT ![c.way][x] = c.out[x]]
    BY <1>4 DEF Write, Writing
  <2>2. /\ c.way \in WayIds /\ EntryFor(c.out, o.key, given) /\ Effective(c.out["data"], o)
        /\ \A y \in Words \ {x} : mem[c.way][y] = c.out[y]
    BY <1>1, <2>1 DEF Call, AloneInv
  <2>3. PICK w \in WayIds : w = c.way
    BY <2>2
  <2>4. mem'[w]["kw"] = c.out["kw"] /\ mem'[w]["data"] = c.out["data"]
    BY <1>1, <2>1, <2>2, <2>3 DEF Words
  <2>5. Check(Xor(c.out["kw"], c.out["data"]), o.key)
    BY <1>1, <2>2, EntryChecks
  <2>6. InWay(w, o.key)'
    BY <2>4, <2>5 DEF InWay
  <2> QED
    BY <2>2, <2>4, <2>6 DEF Effective
<1>7. ~ \E p \in Stores : BeginStore(t, p)
  BY <1>2 DEF BeginStore
<1>8. ~ \E k \in Keys : BeginRead(t, Probe(k)) \/ BeginRead(t, Soften(k))
  BY <1>2 DEF BeginRead
<1>9. ~ \E x \in Words : Read(t, x)
  <2> SUFFICES ASSUME NEW x \in Words, Read(t, x) PROVE FALSE
    OBVIOUS
  <2> DEFINE d == HasRead(c, x, mem[c.way][x])
  <2>1. c.at \in {"scan", "again"} /\ Becomes(t, d)
    BY DEF Read
  <2>2. d.at = c.at
    BY DEF HasRead
  <2> HIDE DEF d
  <2> QED
    BY <1>4, <2>1, <2>2
<1>10. ~ScanHit(t)
  BY <1>1, <1>4 DEF ScanHit, Looking
<1>11. ~ScanNext(t)
  BY <1>4 DEF ScanNext, Looking
<1>12. ~ScanMiss(t)
  BY <1>1, <1>4 DEF ScanMiss, Writing
<1>13. ~Return(t)
  BY <1>1 DEF Return, AloneInv
<1>14. ~StoreReplaces(t)
  BY <1>4 DEF StoreReplaces, Writing
<1>15. ~SoftenAgain(t)
  BY <1>1 DEF SoftenAgain
<1> QED
  BY <1>3, <1>5, <1>6, <1>7, <1>8, <1>9, <1>10, <1>11, <1>12, <1>13, <1>14, <1>15 DEF Thread

\* A store of one thread is found by the next probe, whatever ways were taken.
THEOREM StoresOfOneThread == ASSUME Alone PROVE Spec => StoreIsFound
<1>1. TypeOK /\ IInv /\ OneInv /\ [Next]_vars =>
        [\A t \in Threads, o \in Stores, k \in Keys :
           (call[t].op = o /\ o.key = k /\ call'[t].at = "idle") =>
             \E i \in WayIds :
               /\ InWay(i, k)'
               /\ \/ <<"body", Body(o)>> \in mem'[i]["data"]
                  \/ DepthOf(mem'[i]["data"]) > o.depth + Margin(o)]_vars
  BY StoreEnds
<1> QED
  BY <1>1, SpecAlone, PTL DEF Spec, StoreIsFound

\* The arithmetic of the victim: by how much an age weighs more than a depth.
LEMMA VictimIsWorst ==
  ASSUME NEW p \in 0..255, NEW q \in 0..255, NEW r \in 0..31, NEW s \in 0..31,
         p - AgeWeight * r <= q - AgeWeight * s
  PROVE  (s > r => q > p) /\ (s = r => q >= p)
<1>1. AgeWeight \in Int /\ AgeWeight >= 1
  BY RangeAssumption
<1> DEFINE x == AgeWeight * r
           y == AgeWeight * s
<1>2. x \in Int /\ y \in Int
  BY <1>1
<1>3. s > r => y >= x + AgeWeight
  <2> SUFFICES ASSUME s > r PROVE y >= x + AgeWeight
    OBVIOUS
  <2> DEFINE n == s - r - 1
  <2>1. n \in Nat /\ s = r + 1 + n
    OBVIOUS
  <2> HIDE DEF n
  <2>2. y = x + AgeWeight + AgeWeight * n
    BY <1>1, <2>1
  <2>3. AgeWeight * n >= 0 /\ AgeWeight * n \in Int
    BY <1>1, <2>1
  <2> HIDE DEF x, y
  <2> QED
    BY <1>1, <1>2, <2>2, <2>3
<1>4. s = r => y = x
  OBVIOUS
<1>5. p - x <= q - y
  OBVIOUS
<1> HIDE DEF x, y
<1> QED
  BY <1>1, <1>2, <1>3, <1>4, <1>5

\* An empty way is worth less than every other.
LEMMA EmptyIsLowest == \A s : s = Empty => Value(s) \in Int /\ Value(s) < -496
BY SMT DEF Value

\* The victim of one thread is empty, or no other way is worth less.
LEMMA VictimIsBest ==
  ASSUME Alone, TypeOK, IInv, OneInv, [Next]_vars,
         NEW t \in Threads, call[t].at = "scan", call'[t].at = "write"
  PROVE  /\ call'[t].way \in WayIds
         /\ \A j \in WayIds : Value(mem[call'[t].way]) <= Value(mem[j])
<1> DEFINE c == call[t]
           b == BestSoFar(c)
<1>1. /\ c \in Call /\ AloneInv(c) /\ call \in [Threads -> Call] /\ \A u \in Threads : u = t
  BY DEF Alone, TypeOK, Call, OneInv
<1>2. Thread(t)
  <2>1. ~UNCHANGED vars /\ ~AllIdle
    BY DEF vars, AllIdle
  <2> QED
    BY <1>1, <2>1 DEF Next, NewSearch, Clear
<1>3. ASSUME NEW d, Becomes(t, d) PROVE call'[t] = d
  BY <1>1, <1>3 DEF Becomes
<1>4. ScanMiss(t)
  <2>1. ~ \E o \in Stores : BeginStore(t, o)
    BY DEF BeginStore
  <2>2. ~ \E k \in Keys : BeginRead(t, Probe(k)) \/ BeginRead(t, Soften(k))
    BY DEF BeginRead
  <2>3. ASSUME NEW x \in Words PROVE ~Read(t, x) /\ ~Write(t, x)
    <3> DEFINE d == HasRead(c, x, mem[c.way][x])
    <3>1. ~Write(t, x)
      BY DEF Write
    <3>2. d.at = c.at
      BY DEF HasRead
    <3>3. Read(t, x) => Becomes(t, d)
      BY DEF Read
    <3> HIDE DEF d
    <3>4. ~Read(t, x)
      BY <1>3, <3>2, <3>3
    <3> QED
      BY <3>1, <3>4
  <2>4. ~ScanHit(t) /\ ~ScanNext(t)
    BY <1>3 DEF ScanHit, ScanNext, Looking, Found
  <2>5. ~Return(t) /\ ~StoreStays(t) /\ ~StoreReplaces(t) /\ ~SoftenAgain(t)
    BY DEF Return, StoreStays, StoreReplaces, SoftenAgain, ReadAll
  <2> QED
    BY <1>2, <2>1, <2>2, <2>3, <2>4, <2>5 DEF Thread
<1>5. /\ c.todo = {} /\ c.way = Ways /\ call'[t].way = b.way
  BY <1>3, <1>4 DEF ScanMiss, ReadAll, Writing, Idle
<1>6. BestOf(b, c.way + 1)
  BY <1>1, <1>5, SeenIsThere, BestNext DEF AloneInv
<1> HIDE DEF b, c
<1>7. /\ b.way \in 1..Ways /\ b.value = Value(mem[b.way])
      /\ \A j \in 1..Ways : b.value <= Value(mem[j])
  <2>1. BestOf(b, Ways + 1)
    BY <1>5, <1>6, Zenon
  <2> DEFINE w == Ways + 1
  <2>3. w - 1 = Ways /\ w # 1
    BY TableAssumption
  <2>4. BestOf(b, w)
    BY <2>1, Zenon
  <2> HIDE DEF w
  <2> QED
    BY <2>3, <2>4 DEF BestOf
<1> QED
  BY <1>5, <1>7 DEF WayIds

\* One thread overwrites no entry while a way is empty, nor one that is both
\* younger and deeper than another.
THEOREM EvictionsOfOneThread == ASSUME Alone PROVE Spec => NoNeedlessEviction
<1>1. ASSUME TypeOK, IInv, OneInv, [Next]_vars,
             NEW t \in Threads, NEW v \in WayIds, NEW j \in WayIds,
             call[t].at = "scan", call'[t].at = "write", call'[t].way = v
      PROVE  \/ mem[v] = Empty
             \/ /\ mem[j] # Empty
                /\ RelativeAge(mem[j]) > RelativeAge(mem[v]) =>
                     DepthOf(mem[j]["data"]) > DepthOf(mem[v]["data"])
                /\ RelativeAge(mem[j]) = RelativeAge(mem[v]) =>
                     DepthOf(mem[j]["data"]) >= DepthOf(mem[v]["data"])
  <2> SUFFICES ASSUME mem[v] # Empty
               PROVE  /\ mem[j] # Empty
                      /\ RelativeAge(mem[j]) > RelativeAge(mem[v]) =>
                           DepthOf(mem[j]["data"]) > DepthOf(mem[v]["data"])
                      /\ RelativeAge(mem[j]) = RelativeAge(mem[v]) =>
                           DepthOf(mem[j]["data"]) >= DepthOf(mem[v]["data"])
    OBVIOUS
  <2> DEFINE p == DepthOf(mem[v]["data"])
             q == DepthOf(mem[j]["data"])
             r == RelativeAge(mem[v])
             s == RelativeAge(mem[j])
  <2>1. Value(mem[v]) <= Value(mem[j])
    BY <1>1, VictimIsBest
  <2>2. /\ mem[v] \in [Words -> SUBSET Fields] /\ mem[j] \in [Words -> SUBSET Fields]
        /\ age \in 0..Ages - 1
    BY <1>1 DEF TypeOK
  <2>3. /\ Value(mem[v]) = p - AgeWeight * r /\ Value(mem[v]) \in -496..255
        /\ r \in 0..31 /\ p \in 0..255
    BY <2>2, ValueBounds
  <2>4. /\ mem[j] = Empty => Value(mem[j]) < -496
        /\ mem[j] # Empty => Value(mem[j]) = q - AgeWeight * s
        /\ s \in 0..31 /\ q \in 0..255
    BY <2>2, ValueBounds, EmptyIsLowest
  <2>5. mem[j] # Empty
    BY <2>1, <2>2, <2>3, <2>4, EmptyIsLowest
  <2>6. p - AgeWeight * r <= q - AgeWeight * s
    BY <2>1, <2>3, <2>4, <2>5
  <2> HIDE DEF p, q, r, s
  <2>7. (s > r => q > p) /\ (s = r => q >= p)
    BY <2>3, <2>4, <2>6, VictimIsWorst
  <2> QED
    BY <2>5, <2>7 DEF p, q, r, s
<1>2. TypeOK /\ IInv /\ OneInv /\ [Next]_vars =>
        [\A t \in Threads, v, j \in WayIds :
           (call[t].at = "scan" /\ call'[t].at = "write" /\ call'[t].way = v) =>
             \/ mem[v] = Empty
             \/ /\ mem[j] # Empty
                /\ RelativeAge(mem[j]) > RelativeAge(mem[v]) =>
                     DepthOf(mem[j]["data"]) > DepthOf(mem[v]["data"])
                /\ RelativeAge(mem[j]) = RelativeAge(mem[v]) =>
                     DepthOf(mem[j]["data"]) >= DepthOf(mem[v]["data"])]_vars
  BY <1>1
<1> QED
  BY <1>2, SpecAlone, PTL DEF Spec, NoNeedlessEviction
=============================================================================
