----------------------------- MODULE XetRange -----------------------------
(***************************************************************************)
(* The arithmetic of the Xet service (internal/xet): the chunk layout of a *)
(* xorb, the record of a file and the answer to a reconstruction query.    *)
(*                                                                         *)
(* A chunk is a model value with a length and a serialized length, a xorb  *)
(* a sequence of chunks, a byte of a file a pair of a chunk and a          *)
(* position in it.  Hashes name what they are the hash of.  Chunk indexes  *)
(* and byte offsets start at 0, as in the code.                            *)
(***************************************************************************)
EXTENDS Integers, Sequences, SequencesExt

CONSTANTS
    Chunks,     \* chunk hashes
    Xorbs,      \* xorb hashes
    Content,    \* Content[x]: the chunks of xorb x
    Size,       \* Size[c]: unpacked length of chunk c
    Packed,     \* Packed[c]: length of c's payload in a xorb
    Absent      \* no number, no answer

ASSUME ContentAssumption == Content \in [Xorbs -> Seq(Chunks)]
ASSUME SizeAssumption == Size \in [Chunks -> Nat \ {0}] /\ Packed \in [Chunks -> Nat]
ASSUME AbsentAssumption ==
    /\ Absent \notin Nat
    /\ Absent \notin [offset: Nat, terms: Seq([xorb: Xorbs, url: Int \X Int])]

HeaderLen == 8      \* chunkHeaderLen

\* Sums[i] is the sum of the first i lengths.
Sums(lengths) ==
    LET sum[i \in 0..Len(lengths)] == IF i = 0 THEN 0 ELSE sum[i - 1] + lengths[i] IN sum

-----------------------------------------------------------------------------
(* Chunks and xorbs *)

\* The walk over a xorb's bytes: header, payload, header, payload ...
WalkChunks(x) ==
    LET cs == Content[x]
        off == Sums([i \in DOMAIN cs |-> HeaderLen + Packed[cs[i]]])
    IN [i \in DOMAIN cs |-> [start |-> off[i - 1], end |-> off[i], unpackedLen |-> Size[cs[i]]]]

\* DecodeChunk of one serialized chunk: its bytes.
DecodeChunk(c) == [j \in 1..Size[c] |-> <<c, j>>]

Bytes(cs) == FlattenSeq([i \in DOMAIN cs |-> DecodeChunk(cs[i])])

\* Chunks [start, end) of a xorb, or Absent when they are out of bounds.
DecodeChunkRange(x, start, end) ==
    IF start < 0 \/ end > Len(Content[x]) \/ start >= end
    THEN Absent
    ELSE Bytes(SubSeq(Content[x], start + 1, end))

-----------------------------------------------------------------------------
(* Records and byte ranges *)

Term(x, start, end) ==
    [xorb |-> x, chunkStart |-> start, chunkEnd |-> end,
     unpackedLen |-> Len(Bytes(SubSeq(Content[x], start + 1, end)))]

\* FileRecord: whether it has a sha256, the total length and the terms.
RecordFromShardFile(f) ==
    [sha256 |-> f.sha256, terms |-> f.terms,
     totalLen |-> Sums([i \in DOMAIN f.terms |-> f.terms[i].unpackedLen])[Len(f.terms)]]

\* A Range header has a first and a last byte; each may be missing.
Header(from, to) == [from |-> from, to |-> to]

ParseByteRange(header, total) ==
    LET end == IF header.to = Absent THEN total - 1 ELSE header.to IN
    IF \/ header.from = Absent
       \/ end < header.from
       \/ header.from >= total
    THEN Absent
    ELSE <<header.from, IF end < total - 1 THEN end ELSE total - 1>>

\* Mutant: the term that starts at the last byte asked for is left out.
SelectedShort(term, acc, start, end) == acc + term.unpackedLen > start /\ acc < end

\* The loop of HandleReconstruction keeps a term that ends after the first byte
\* asked for and does not start after the last.
Selected(term, acc, start, end) == acc + term.unpackedLen > start /\ acc <= end

\* The bytes of the xorb a term's chunks lie in, last one included.
UrlRange(term) ==
    LET layout == WalkChunks(term.xorb) IN
    <<layout[term.chunkStart + 1].start, layout[term.chunkEnd].end - 1>>

\* "term chunk range exceeds xorb"; an end of 0 or a start past the last chunk is not
\* looked for and panics, and net/http closes the connection.
Outside(term) ==
    LET n == Len(WalkChunks(term.xorb)) IN term.chunkEnd \notin 1..n \/ term.chunkStart >= n

\* The answer for bytes start..end of a record, given the xorbs whose layout is stored:
\* Absent stands for an error status or no answer.
Reconstruction(rec, stored, start, end) ==
    LET acc == Sums([i \in DOMAIN rec.terms |-> rec.terms[i].unpackedLen])
        picked == {i \in DOMAIN rec.terms : Selected(rec.terms[i], acc[i - 1], start, end)}
        first == Min(picked)
        last == Max(picked)
    IN IF \/ picked = {}                            \* "range beyond end of file"
          \/ \E i \in picked : rec.terms[i].xorb \notin stored \/ Outside(rec.terms[i])
       THEN Absent
       ELSE [offset |-> start - acc[first - 1],
             terms |-> [i \in 1..(last - first + 1) |->
                          [xorb |-> rec.terms[i + first - 1].xorb,
                           url |-> UrlRange(rec.terms[i + first - 1])]]]

-----------------------------------------------------------------------------
(* The client's side of the protocol *)

\* What a client decodes from a byte range of a xorb: the chunks that fill it, or
\* nothing when it does not end at chunk boundaries.
Fetched(x, url) ==
    LET layout == WalkChunks(x)
        cut == {r \in (DOMAIN layout) \X (DOMAIN layout) :
                  layout[r[1]].start = url[1] /\ layout[r[2]].end - 1 = url[2]}
    IN IF cut = {} THEN <<>>
       ELSE LET r == CHOOSE r \in cut : TRUE IN Bytes(SubSeq(Content[x], r[1], r[2]))

\* The bytes a client assembles from an answer: n of them after the offset.
Assembled(answer, n) ==
    LET all == FlattenSeq([i \in DOMAIN answer.terms |->
                             Fetched(answer.terms[i].xorb, answer.terms[i].url)])
    IN IF Len(all) < answer.offset + n THEN <<>>
       ELSE SubSeq(all, answer.offset + 1, answer.offset + n)
=============================================================================
