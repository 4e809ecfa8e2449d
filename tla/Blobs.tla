------------------------------- MODULE Blobs -------------------------------
(***************************************************************************)
(* Blobs as content (Blob.ts, blobGraph.ts): the fixed-size chunker, the   *)
(* nodes one put lays down in order, and the three reads of a manifest.    *)
(* Reads are functions of the resident nodes: a load of a resident address *)
(* answers its node.                                                       *)
(***************************************************************************)
EXTENDS Programs

CONSTANTS
    ChunkSize,     \* bytes of a full chunk
    MaxUint32,     \* largest leaf count, index and chunk length
    MaxUint64,     \* largest total
    MaxMaterialized \* largest answer one buffer may hold

ChunkTag    == 8
TreeTag     == 9
ManifestTag == 10
RecipeOne   == 1

LeastOf(a, b)    == IF a < b THEN a ELSE b
GreatestOf(a, b) == IF a > b THEN a ELSE b

----------------------------------------------------------------------------
(* Writing. *)

\* Largest power of two strictly below n, one below two.
RECURSIVE Pow2Below(_)
Pow2Below(n) == IF n <= 2 THEN 1 ELSE 2 * Pow2Below((n + 1) \div 2)

\* One part of the source, cut at the free space of the pending chunk.
RECURSIVE Feed(_, _)
Feed(st, part) ==
    IF part = <<>> THEN st
    ELSE LET take    == LeastOf(ChunkSize - Len(st.pending), Len(part))
             pending == st.pending \o SubSeq(part, 1, take)
             rest    == SubSeq(part, take + 1, Len(part))
         IN Feed(IF Len(pending) = ChunkSize
                 THEN [chunks |-> Append(st.chunks, pending), pending |-> <<>>]
                 ELSE [st EXCEPT !.pending = pending], rest)

\* The rest is a last, short chunk; an empty source is one empty chunk.
Chunks(source) ==
    LET st == FoldLeft(Feed, [chunks |-> <<>>, pending |-> <<>>], source)
    IN IF Len(st.pending) > 0 \/ st.chunks = <<>>
       THEN Append(st.chunks, st.pending) ELSE st.chunks

BytesBefore(chunks, k) == Len(FlattenSeq(SubSeq(chunks, 1, k - 1)))

\* admitBlobLeaf checks its limits before it puts either node.
LeafFits(chunks, k) ==
    /\ k - 1 < MaxUint32
    /\ Len(chunks[k]) <= MaxUint32
    /\ BytesBefore(chunks, k) + Len(chunks[k]) <= MaxUint64

ChunkNode(bytes) == NodeOf(0, ChunkTag, Payload(bytes, <<>>), <<>>)

LeafNode(index, bytes) ==
    NodeOf(0, TreeTag, Payload(<<index, Len(bytes)>>, <<>>), <<RefTo(ChunkNode(bytes), ChunkTag)>>)

ParentNode(left, right) ==
    NodeOf(0, TreeTag, Payload(<<>>, <<>>), <<RefTo(left, TreeTag), RefTo(right, TreeTag)>>)

ManifestNode(total, leafCount, root) ==
    NodeOf(0, ManifestTag, Payload(<<RecipeOne, total, leafCount>>, <<>>), <<RefTo(root, TreeTag)>>)

\* The parents over leaves base..base+count-1, in the order they are put.
RECURSIVE Parents(_, _, _)
Parents(leaves, base, count) ==
    IF count = 1 THEN <<>>
    ELSE LET split == Pow2Below(count)
             left  == Parents(leaves, base, split)
             right == Parents(leaves, base + split, count - split)
             root(ps, b) == IF ps = <<>> THEN leaves[b] ELSE Last(ps)
         IN left \o right \o <<ParentNode(root(left, base), root(right, base + split))>>

\* A put that meets no limit: chunk and leaf in turn, parents, manifest.
LeafPuts(chunks, n) ==
    FlattenSeq([k \in 1..n |-> <<ChunkNode(chunks[k]), LeafNode(k - 1, chunks[k])>>])

BlobPuts(source) ==
    LET chunks  == Chunks(source)
        leaves  == [k \in DOMAIN chunks |-> LeafNode(k - 1, chunks[k])]
        parents == Parents(leaves, 1, Len(leaves))
        root    == IF parents = <<>> THEN leaves[1] ELSE Last(parents)
        refused == {k \in DOMAIN chunks : ~LeafFits(chunks, k)}
    IN IF refused # {} THEN LeafPuts(chunks, Min(refused) - 1)
       ELSE LeafPuts(chunks, Len(chunks)) \o parents
            \o <<ManifestNode(Len(FlattenSeq(chunks)), Len(chunks), root)>>

\* A limit was met before the manifest.
BlobRefused(source) ==
    LET chunks == Chunks(source) IN \E k \in DOMAIN chunks : ~LeafFits(chunks, k)

----------------------------------------------------------------------------
(* Reading. *)

Bytes(b) == [ok |-> TRUE, bytes |-> b]
Refusal  == [ok |-> FALSE, bytes |-> <<>>]

\* Stream.concat: what the left half refuses is never followed.
Concat(left, right) == IF left.ok /\ right.ok THEN Bytes(left.bytes \o right.bytes) ELSE Refusal

Total(m)     == m.payload.nums[2]
LeafCount(m) == m.payload.nums[3]

ExpectedLeafCount(total) ==
    IF total = 0 THEN 1 ELSE (total + ChunkSize - 1) \div ChunkSize

\* loadPlan and requireRecipeOne.
Planned(resident, m) ==
    /\ m \in resident
    /\ m.tag = ManifestTag
    /\ Len(m.refs) = 1 /\ m.refs[1].expectedTag = TreeTag
    /\ Len(m.payload.nums) = 3 /\ m.payload.ids = <<>>
    /\ m.payload.nums[1] = RecipeOne
    /\ LeafCount(m) = ExpectedLeafCount(Total(m))

ExpectedChunkLength(m, index) ==
    IF Total(m) = 0 THEN 0
    ELSE IF index + 1 < LeafCount(m) THEN ChunkSize
    ELSE Total(m) - index * ChunkSize

LoadChunk(resident, m, id, index) ==
    IF /\ id \in resident
       /\ id.tag = TreeTag
       /\ Len(id.payload.nums) = 2 /\ id.payload.ids = <<>>
       /\ Len(id.refs) = 1 /\ id.refs[1].expectedTag = ChunkTag
       /\ id.payload.nums = <<index, ExpectedChunkLength(m, index)>>
       /\ id.refs[1].id \in resident
       /\ id.refs[1].id.tag = ChunkTag /\ id.refs[1].id.refs = <<>>
       /\ Len(id.refs[1].id.payload.nums) = ExpectedChunkLength(m, index)
    THEN Bytes(id.refs[1].id.payload.nums) ELSE Refusal

IsParent(resident, id) ==
    /\ id \in resident
    /\ id.tag = TreeTag
    /\ id.payload = Payload(<<>>, <<>>)
    /\ Len(id.refs) = 2
    /\ id.refs[1].expectedTag = TreeTag /\ id.refs[2].expectedTag = TreeTag

\* The bytes of one chunk that fall into from..to-1, both offsets in the blob.
Clip(chunk, start, from, to) ==
    SubSeq(chunk, GreatestOf(from, start) - start + 1,
                  LeastOf(to, start + Len(chunk)) - start)

\* Seeded fault: a range that takes one byte of a subtree passes it by.
OutsideShifted(m, base, count, from, to) ==
    LET start == base * ChunkSize IN to <= start + 1 \/ from >= start + count * ChunkSize

Outside(m, base, count, from, to) ==
    LET start == base * ChunkSize
        end   == IF base + count = LeafCount(m) THEN Total(m) ELSE (base + count) * ChunkSize
    IN to <= start \/ from >= end

RECURSIVE Walk(_, _, _, _, _, _, _)
Walk(resident, m, id, base, count, from, to) ==
    IF Outside(m, base, count, from, to) THEN Bytes(<<>>)
    ELSE IF count = 1 THEN
        LET chunk == LoadChunk(resident, m, id, base)
        IN IF chunk.ok THEN Bytes(Clip(chunk.bytes, base * ChunkSize, from, to)) ELSE Refusal
    ELSE IF ~IsParent(resident, id) THEN Refusal
    ELSE LET split == Pow2Below(count) IN
        Concat(Walk(resident, m, id.refs[1].id, base, split, from, to),
               Walk(resident, m, id.refs[2].id, base + split, count - split, from, to))

\* The walk without a selection visits every leaf, the empty chunk included.
RECURSIVE WalkAll(_, _, _, _, _)
WalkAll(resident, m, id, base, count) ==
    IF count = 1 THEN LoadChunk(resident, m, id, base)
    ELSE IF ~IsParent(resident, id) THEN Refusal
    ELSE LET split == Pow2Below(count) IN
        Concat(WalkAll(resident, m, id.refs[1].id, base, split),
               WalkAll(resident, m, id.refs[2].id, base + split, count - split))

GetBlob(resident, m) ==
    IF ~Planned(resident, m) \/ Total(m) > MaxMaterialized THEN Refusal
    ELSE WalkAll(resident, m, m.refs[1].id, 0, LeafCount(m))

ReadRange(resident, m, offset, length) ==
    IF \/ ~Planned(resident, m)
       \/ length > MaxMaterialized
       \/ offset < 0 \/ length < 0 \/ offset + length > Total(m)
    THEN Refusal
    ELSE IF length = 0 THEN Bytes(<<>>)
    ELSE Walk(resident, m, m.refs[1].id, 0, LeafCount(m), offset, offset + length)
=============================================================================
