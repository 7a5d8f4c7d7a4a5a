--------------------------- MODULE MCRelayWrite ---------------------------
(* Small instances of RelayWrite for TLC. *)
EXTENDS RelayWrite, TLC

CONSTANTS k1, k2, x, y, a, b, Creates, CommitCalls, Deletes, Uploads, Losses, Failures, Crashes

\* An inline file, an LFS file at another path, and a removal.
MCEdits == {[path |-> x, blob |-> a, via |-> "inline"],
            [path |-> y, blob |-> b, via |-> "lfs"],
            [path |-> x, blob |-> a, via |-> "remove"]}

MCLimit == [w \in Limited |->
              CASE w = "create" -> Creates
                [] w = "commit" -> CommitCalls
                [] w = "delete" -> Deletes
                [] w = "upload" -> Uploads
                [] w = "lost" -> Losses
                [] w = "failure" -> Failures
                [] w = "crash" -> Crashes]

\* Clients are interchangeable in every safety property.
MCSymmetry == Permutations(Clients)
=============================================================================
