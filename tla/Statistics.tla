------------------------------ MODULE Statistics ------------------------------
(***************************************************************************)
(* One entry of the statistics the search learns from (hist_learn of       *)
(* 09_history.inc), which every thread updates without a lock: an update   *)
(* reads the entry, and writes later what it has made of the value it      *)
(* read, so one of two that cross is lost.  Gravity is the 1024 of the     *)
(* release.                                                                *)
(***************************************************************************)
EXTENDS HashFields

CONSTANTS Thread, limit     \* limit: HistLimQuiet, HistLimCapt, HistLimFollow, ...

VARIABLES
  entry,     \* the value in the table
  learning,  \* the threads between their reading and their writing
  seen       \* what each of them has read

vars == <<entry, learning, seen>>

int_max == 2147483647
short_max == 32767
Magnitude(n) == IF n < 0 THEN - n ELSE n
Clamped(n, least, most) == IF n < least THEN least ELSE IF n > most THEN most ELSE n
Pull(v, b) == Trunc(v * Magnitude(b), limit)
Unclamped(v, b) == v + b - Pull(v, b)
Reward(bonus) == Clamped(bonus, - limit, limit)
hist_learn(v, bonus) == Clamped(Unclamped(v, Reward(bonus)), - short_max, short_max)

\* The same pull with the gravity multiplied in, as the other builds compute it.
LongPull(v, b) == Trunc(v * Magnitude(b) * 1024, limit * 1024)

Entries == (- limit)..limit

\* search_clear fills the table with a value of its limits.
Init ==
  /\ entry \in Entries
  /\ learning = {}
  /\ seen = [t \in Thread |-> 0]

Read(t) ==
  /\ t \notin learning
  /\ learning' = learning \cup {t}
  /\ seen' = [seen EXCEPT ![t] = entry]
  /\ UNCHANGED entry

Write(t, bonus) ==
  /\ t \in learning
  /\ entry' = hist_learn(seen[t], bonus)
  /\ learning' = learning \ {t}
  /\ UNCHANGED seen

\* The quiet statistics of a thread, which no other one updates, fade when it begins a search.
QuietHistDecay == 729
Decay ==
  /\ learning = {}
  /\ entry' = Trunc(entry * QuietHistDecay, 1024)
  /\ UNCHANGED <<learning, seen>>

Next == Decay \/ \E t \in Thread : Read(t) \/ \E bonus \in Int : Write(t, bonus)

Spec == Init /\ [][Next]_vars

TypeOK == entry \in Entries /\ learning \subseteq Thread /\ seen \in [Thread -> Entries]

\* Whatever updates cross, the entry stays within its limit.
InRange == entry \in Entries

\* The limits of the parameters (01_params.inc): with them everything fits the types of the code.
LimitAssumption == limit \in 1..32000
=============================================================================
