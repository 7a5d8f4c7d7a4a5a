------------------------------- MODULE MCXet ------------------------------
(* Small instances of Xet for TLC. *)
EXTENDS Xet, TLC

CONSTANTS c1, c2, ca, cb, cc, x1, x2, fa, fb, fe, s1, s2,
          XorbPuts, ShardPuts, Failures, Crashes

MCContent == [x \in Xorbs |-> IF x = x1 THEN <<ca, cb>> ELSE <<cb, cc, ca>>]
MCSize == [c \in Chunks |-> CASE c = ca -> 2 [] c = cb -> 1 [] c = cc -> 3]
MCPacked == [c \in Chunks |-> CASE c = ca -> 1 [] c = cb -> 1 [] c = cc -> 2]

MCFileChunks == [h \in Files |-> CASE h = fa -> <<ca, cb, cc>>
                                   [] h = fb -> <<cb, cc>>
                                   [] h = fe -> <<>>]

\* fa is described by two shards in different ways; fe is empty, fb comes without a sha256.
File(h, sha, terms) == [file |-> h, sha256 |-> sha, terms |-> terms]
MCShardFiles == [s \in Shards |->
    CASE s = s1 -> <<File(fe, TRUE, <<>>), File(fa, TRUE, <<Term(x1, 0, 2), Term(x2, 1, 2)>>)>>
      [] s = s2 -> <<File(fb, FALSE, <<Term(x2, 0, 1), Term(x2, 1, 2)>>),
                     File(fa, TRUE, <<Term(x2, 2, 3), Term(x2, 0, 2)>>)>>]
\* s2 declares no xorb and needs only x2.
MCShardXorbs == [s \in Shards |-> IF s = s1 THEN <<x1, x2>> ELSE <<>>]

MCLimit == [w \in Limited |->
              CASE w = "xorb" -> XorbPuts
                [] w = "shard" -> ShardPuts
                [] w = "failure" -> Failures
                [] w = "crash" -> Crashes]
=============================================================================
