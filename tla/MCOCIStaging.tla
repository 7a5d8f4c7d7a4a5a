--------------------------- MODULE MCOCIStaging ---------------------------
(* Small instances of OCIStaging for TLC. *)
EXTENDS OCIStaging

CONSTANTS p1, p2, c1, c2, main, b1, b2, Puts, BlobPuts, Deletes, Failures, Crashes

\* c1 is listed with an un-keyed file before it is listed in full; c2 shares a
\* blob with it.
MCVersions == [c \in Commits |-> IF c = c1 THEN {{Unkeyed, b2}, {b1, b2}} ELSE {{b2}}]

MCLimit == [w \in Limited |->
              CASE w = "put" -> Puts
                [] w = "blob" -> BlobPuts
                [] w = "delete" -> Deletes
                [] w = "failure" -> Failures
                [] w = "crash" -> Crashes]
=============================================================================
