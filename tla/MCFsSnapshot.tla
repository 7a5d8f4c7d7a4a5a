--------------------------- MODULE MCFsSnapshot ---------------------------
(* Small instances of FsSnapshot for TLC. *)
EXTENDS FsSnapshot, TLC

CONSTANTS k1, k2, c1, c2, x, y, a, b, Puts, BlobPuts, Failures, Crashes

\* Both commits have x; c1's y is another file.
MCBlobAt == [c \in Commits |-> [p \in Paths |-> IF c = c1 /\ p = y THEN b ELSE a]]

\* c1 is listed before y has its key and again when it has; c2 has x only.
MCVersions == [c \in Commits |-> IF c = c1 THEN {{x}, {x, y}} ELSE {{x}}]

MCLimit == [w \in Limited |->
              CASE w = "put" -> Puts
                [] w = "blob" -> BlobPuts
                [] w = "failure" -> Failures
                [] w = "crash" -> Crashes]

MCSymmetry == Permutations(Callers)
=============================================================================
