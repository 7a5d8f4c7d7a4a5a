--------------------------- MODULE MCPullThrough ---------------------------
(* Small instances of PullThrough for TLC. *)
EXTENDS PullThrough, TLC

CONSTANTS q1, q2, q3, c1, c2, x, y, a, b, d, Failures, Pushes, Crashes

\* x is a regular file, another one in each commit; y is an LFS file.
MCContentAt == [c \in Commits |-> [p \in Paths |->
                  IF p = y THEN b ELSE IF c = c1 THEN a ELSE d]]
MCIdentity == [c \in Commits |-> [p \in Paths |-> IF p = x THEN "sha1" ELSE "sha256"]]
\* c1's listing is complete; c2's has no blob details for x, and no y.
MCListed == [c \in Commits |-> [p \in Paths |->
               IF c = c1 THEN MCIdentity[c][p] ELSE IF p = x THEN "zero" ELSE "absent"]]

MCLimit == [w \in Limited |->
              CASE w = "failure" -> Failures
                [] w = "push" -> Pushes
                [] w = "crash" -> Crashes]

MCSymmetry == Permutations(Requests)
=============================================================================
