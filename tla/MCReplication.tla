--------------------------- MODULE MCReplication ---------------------------
(* Small instances of Replication for TLC. *)
EXTENDS Replication

CONSTANTS r1, r2, t1, t2, init, c1, c2, b1, b2, Writes, Deletes, Failures, IOErrors, Crashes

OneReplica  == <<t1>>
TwoReplicas == <<t1, t2>>

\* The second commit shares a blob with the first and adds one.  One commit beside
\* the initial one, with two blobs, is enough where Writes allows no second.
MCCommits == {init, c1, c2}
OneCommit == {init, c2}
MCFilesOf == [c \in Commits |->
                CASE c = init -> {}
                  [] c = c1 -> {b1}
                  [] c = c2 -> {b1, b2}]

MCLimit == [w \in Limited |->
              CASE w = "write" -> Writes
                [] w = "delete" -> Deletes
                [] w = "failure" -> Failures
                [] w = "io" -> IOErrors
                [] w = "crash" -> Crashes]
=============================================================================
