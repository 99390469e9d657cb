------------------------------ MODULE MCTbProbe ------------------------------
EXTENDS TbProbe

Take(kind, to) == [kind |-> kind, legal |-> TRUE, to |-> to]
Pinned(kind, to) == [kind |-> kind, legal |-> FALSE, to |-> to]

\* Positions of other tables: quiet, decided by a capture, by en passant alone, mate, and one whose table is missing.
Other(check, quiets, zeroing, rest) == [check |-> check, quiets |-> quiets, zeroing |-> zeroing, rest |-> rest, missing |-> FALSE]
Plain(v) == Other(FALSE, {0}, {}, v)
Taking(v) == Other(FALSE, {0}, {Take("capture", Plain(-v)), Pinned("capture", Plain(-2))}, -2)
Passing(v) == Other(FALSE, {}, {Take("ep", Plain(-v))}, 0)
Mated == Other(TRUE, {}, {}, 0)
Lost == [Plain(0) EXCEPT !.missing = TRUE]

Ends ==
  {{}, {Take("capture", Plain(2))}, {Take("capture", Taking(1)), Pinned("capture", Plain(-2))}, {Take("capture", Plain(-1))},
   {Take("pawn", Plain(-2))}, {Take("pawn", Passing(-1)), Take("capture", Taking(2))}, {Take("pawn", Mated)},
   {Take("capture", Plain(0)), Take("pawn", Plain(1))}, {Take("ep", Plain(0))}, {Take("ep", Plain(-2))},
   {Take("ep", Taking(2)), Take("capture", Plain(2))}, {Take("ep", Plain(1)), Take("pawn", Plain(2))}, {Take("pawn", Lost)}}

\* A chain of quiet moves down to node 1, with ways back and a way that is shorter; the middle may leave too.
Nodes == 1..6
Backs == {{}, {2}, {1, 3, 4}, {2, 3, 5}}
Shorts == {{}, {4}, {5, 6}}
Middles == {{}, {Take("capture", Plain(0))}, {Take("pawn", Plain(1)), Take("ep", Plain(-1))}}
Chain(low, middle, high, check, back, short) ==
  [n \in Nodes |-> [turn |-> n % 2 = 1, check |-> n = 1 /\ check, missing |-> FALSE, rest |-> 0,
                    quiets |-> {m \in Nodes : m = n - 1 \/ (n \in back /\ m = n + 1) \/ (n \in short /\ m = n - 3)},
                    zeroing |-> CASE n = 1 -> low [] n = 4 -> middle [] n = 6 -> high [] OTHER -> {}]]

MCGraphs ==
  {Chain(low, middle, high, FALSE, back, short) :
     low \in Ends, middle \in Middles, high \in {{}, {Take("capture", Plain(1))}, {Take("ep", Plain(-1))}},
     back \in Backs, short \in Shorts}
  \cup {Chain(low, {}, {}, TRUE, back, {}) : low \in {{}, {Take("ep", Plain(0))}, {Take("ep", Plain(2))}}, back \in Backs}
Files(exact, open, missing) == [stored |-> TRUE, exact |-> exact, open |-> open, dtz_missing |-> missing]
MCTables == {Files(TRUE, "low", FALSE), Files(FALSE, "other", FALSE), Files(TRUE, "other", TRUE)}
=============================================================================
