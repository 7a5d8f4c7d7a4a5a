---------------------------- MODULE MCS3Backend ---------------------------
(* Small instances of S3Backend for TLC. *)
EXTENDS S3Backend, TLC

CONSTANTS k1, k2, r1, a, c1, Creates, Deletes, Puts, BlobPuts, Seeks, Failures

\* ".repo", "blobs/", "manifests/", "refs/"
MCOrder == <<Marker, a, c1, Ref>>

MCLimit == [w \in Limited |->
              CASE w = "create" -> Creates
                [] w = "delete" -> Deletes
                [] w = "put" -> Puts
                [] w = "blob" -> BlobPuts
                [] w = "seek" -> Seeks
                [] w = "failure" -> Failures]

MCSymmetry == Permutations(Callers)
=============================================================================
