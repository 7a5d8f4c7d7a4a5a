--------------------------- MODULE MCServerGate ---------------------------
(* Small instances of ServerGate for TLC. *)
EXTENDS ServerGate, TLC

CONSTANTS t1, Uploads, Downloads, Failures, Leaves, Revocations

MCSlots == [d \in Directions |-> IF d = "upload" THEN Uploads ELSE Downloads]
MCLimit == [w \in Limited |->
              CASE w = "failure" -> Failures
                [] w = "leave" -> Leaves
                [] w = "revoke" -> Revocations]
=============================================================================
