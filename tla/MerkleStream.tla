---------------------------- MODULE MerkleStream ----------------------------
(***************************************************************************)
(* The documents of the remote plane: those of the cas-http/0 control      *)
(* plane (internal/wire.ts); openings, consistency proofs and proof        *)
(* streams, their closed codecs, the incremental framer and the decoder    *)
(* that emits verified chunks while the stream arrives.                    *)
(*                                                                         *)
(* A document is a sequence of cells.  A byte b is the cell <<b>>; the     *)
(* cells of a content address may also be the pieces of a symbolic hash,   *)
(* longer tuples, so that no byte is ever mistaken for one.  The four      *)
(* bytes of a number, the 32 of an address and the 256 values of a byte    *)
(* are constants.                                                          *)
(*                                                                         *)
(* A reader asks for the chunks lo..hi-1 of a tree whose root it knows,    *)
(* believes some number of chunks, and is sent a body in fragments.  Or it *)
(* judges one opening or one consistency proof, or is handed a document.   *)
(*                                                                         *)
(* Hashes are symbolic and injective: the address of a preimage is the     *)
(* AddressWidth pieces of it.                                              *)
(***************************************************************************)
EXTENDS Naturals, SequencesExt, FiniteSets

CONSTANTS Base,          \* values of a byte: 256
          NumberWidth,   \* bytes of a number: 4
          AddressWidth,  \* cells of an address: 32
          None,          \* what a decoder answers that refuses
          Trees,         \* the trees there are: sequences of chunks
          MaxDocument,   \* bound of the model: bytes of a document handed over
          MaxFragment    \* bound of the model: cells of a fragment

VARIABLES
    asked,     \* what the reader does, with its parameters
    framer,    \* the framer's state, and how much of the body it was fed
    decoder,   \* the decoder's state: frames and status
    taken,     \* frames the decoder was given
    decisions  \* what it decided so far

proofVars == <<asked, framer, decoder, taken, decisions>>

ASSUME WidthsAssumption ==
    /\ Base \in Nat \ {0, 1, 2}
    /\ NumberWidth \in Nat \ {0} /\ AddressWidth \in Nat \ {0}

-----------------------------------------------------------------------------
(* Documents of the control plane.                                         *)

Byte      == {<<b>> : b \in 0..Base - 1}
MaxNumber == Base ^ NumberWidth - 1

\* The cells from..to of a document, counted from zero, `to` excluded.
Slice(cells, from, to) == SubSeq(cells, from + 1, to)

\* The piece of a hash, read as a byte, is some byte: the largest stands for it.
Digit(cell) == IF Len(cell) = 1 THEN cell[1] ELSE Base - 1

Number(cells, offset) ==
    FoldLeft(LAMBDA n, cell : n * Base + Digit(cell), 0,
             Slice(cells, offset, offset + NumberWidth))

Spell(n) == [i \in 1..NumberWidth |-> <<(n \div Base ^ (NumberWidth - i)) % Base>>]

Addresses(cells) ==
    [i \in 1..Len(cells) \div AddressWidth |->
        Slice(cells, (i - 1) * AddressWidth, i * AddressWidth)]

-----------------------------------------------------------------------------
(* Capabilities: two numbers, exactly.                                     *)

EncodeCapabilities(limits) == Spell(limits.maxBatchKeys) \o Spell(limits.maxBlobBytes)

DecodeCapabilities(cells) ==
    LET limits == [maxBatchKeys |-> Number(cells, 0),
                   maxBlobBytes |-> Number(cells, NumberWidth)]
    IN  IF Len(cells) = 2 * NumberWidth /\ EncodeCapabilities(limits) = cells
        THEN limits ELSE None

-----------------------------------------------------------------------------
(* A list of keys: their number, then each of them.                        *)

KeyListLength(count) == NumberWidth + count * AddressWidth

EncodeKeyList(keys) == Spell(Len(keys)) \o FlattenSeq(keys)

DecodeKeyList(cells) ==
    LET keys == Addresses(Slice(cells, NumberWidth, Len(cells)))
    IN  IF /\ Len(cells) >= NumberWidth
           /\ Len(cells) = KeyListLength(Number(cells, 0))
           /\ EncodeKeyList(keys) = cells
        THEN keys ELSE None

-----------------------------------------------------------------------------
(* Presence: one status byte per requested key, in request order.          *)

Statuses == <<"missing", "present", "failed">>

StatusByte(status) == <<CHOOSE i \in 0..2 : Statuses[i + 1] = status>>

EncodePresence(statuses) == [i \in DOMAIN statuses |-> StatusByte(statuses[i])]

DecodePresence(keys, cells) ==
    LET status == [i \in DOMAIN cells |-> Statuses[cells[i][1] + 1]]
        Those(s) == FoldLeftDomain(LAMBDA those, i :
                        IF status[i] = s THEN Append(those, keys[i]) ELSE those, <<>>, keys)
    IN  IF Len(cells) = Len(keys) /\ Range(cells) \subseteq {<<0>>, <<1>>, <<2>>}
        THEN [present |-> Those("present"), missing |-> Those("missing"),
              failed |-> Those("failed"), statuses |-> status]
        ELSE None

-----------------------------------------------------------------------------
(* The tree (Effects/Merkle/Tree.lean; its mirror is not in the tree).     *)

Address(pre) == [i \in 1..AddressWidth |-> <<i, pre>>]

Leaf(index, bytes) == Address(<<"leaf", index, bytes>>)
Parent(left, right) == Address(<<"parent", left, right>>)

RECURSIVE Pow2Below(_)
Pow2Below(n) == IF n <= 2 THEN 1 ELSE 2 * Pow2Below((n + 1) \div 2)

First(chunks) == SubSeq(chunks, 1, Pow2Below(Len(chunks)))
Rest(chunks)  == SubSeq(chunks, Pow2Below(Len(chunks)) + 1, Len(chunks))

RECURSIVE Root(_, _)
Root(base, chunks) ==
    IF Len(chunks) <= 1
    THEN Leaf(base, IF chunks = <<>> THEN <<>> ELSE chunks[1])
    ELSE Parent(Root(base, First(chunks)),
                Root(base + Pow2Below(Len(chunks)), Rest(chunks)))

Skip            == [tag |-> "SkipNode"]
Chunk(bytes)    == [tag |-> "ChunkNode", bytes |-> bytes]
Node(left, right) == [tag |-> "ParentNode", left |-> left, right |-> right]

\* The pre-order stream of a range: subtrees beside it are skipped.
RECURSIVE GenStream(_, _, _, _)
GenStream(lo, hi, base, chunks) ==
    LET split == Pow2Below(Len(chunks))
    IN  IF base + Len(chunks) <= lo \/ hi <= base THEN <<Skip>>
        ELSE IF Len(chunks) <= 1
        THEN <<Chunk(IF chunks = <<>> THEN <<>> ELSE chunks[1])>>
        ELSE <<Node(Root(base, First(chunks)), Root(base + split, Rest(chunks)))>>
             \o GenStream(lo, hi, base, First(chunks))
             \o GenStream(lo, hi, base + split, Rest(chunks))

\* What a reader of the range is to be given.
RECURSIVE RangedEmissions(_, _, _, _)
RangedEmissions(lo, hi, base, chunks) ==
    IF base + Len(chunks) <= lo \/ hi <= base THEN <<>>
    ELSE IF Len(chunks) <= 1
    THEN <<<<base, IF chunks = <<>> THEN <<>> ELSE chunks[1]>>>>
    ELSE RangedEmissions(lo, hi, base, First(chunks))
         \o RangedEmissions(lo, hi, base + Pow2Below(Len(chunks)), Rest(chunks))

-----------------------------------------------------------------------------
(* Openings and consistency proofs.  Sides come from the sizes; the proof  *)
(* gives values only.  None is an ill-sized proof.                         *)

RECURSIVE BranchRoot(_, _, _, _, _)
BranchRoot(base, index, count, bytes, siblings) ==
    LET split == Pow2Below(count)
        left  == BranchRoot(base, index, split, bytes, Tail(siblings))
        right == BranchRoot(base + split, index - split, count - split, bytes, Tail(siblings))
    IN  IF count <= 1 THEN IF siblings = <<>> THEN Leaf(base, bytes) ELSE None
        ELSE IF siblings = <<>> THEN None
        ELSE IF index < split
        THEN IF left = None THEN None ELSE Parent(left, siblings[1])
        ELSE IF right = None THEN None ELSE Parent(siblings[1], right)

\* The siblings on the way to a chunk, from the top.
RECURSIVE Branch(_, _, _)
Branch(base, index, chunks) ==
    LET split == Pow2Below(Len(chunks))
    IN  IF Len(chunks) <= 1 THEN <<>>
        ELSE IF index < split
        THEN <<Root(base + split, Rest(chunks))>> \o Branch(base, index, First(chunks))
        ELSE <<Root(base, First(chunks))>> \o Branch(base + split, index - split, Rest(chunks))

\* Seeded fault: an index beyond the count is walked too.
VerifyUnbounded(index, count, bytes, siblings, expectedRoot) ==
    BranchRoot(0, index, count, bytes, siblings) = expectedRoot

VerifyInclusion(index, count, bytes, siblings, expectedRoot) ==
    index < count /\ BranchRoot(0, index, count, bytes, siblings) = expectedRoot

RECURSIVE ConsRebuild(_, _, _, _, _)
ConsRebuild(oldAnchor, oldSize, newSize, anchored, proof) ==
    LET split == Pow2Below(newSize)
        h     == proof[1]
        left  == ConsRebuild(oldAnchor, oldSize, split, anchored, Tail(proof))
        right == ConsRebuild(oldAnchor, oldSize - split, newSize - split, FALSE, Tail(proof))
    IN  IF newSize <= oldSize
        THEN IF anchored /\ proof = <<>> THEN <<oldAnchor, oldAnchor>>
             ELSE IF ~anchored /\ Len(proof) = 1 THEN <<h, h>> ELSE None
        ELSE IF newSize <= 1 \/ proof = <<>> THEN None
        ELSE IF oldSize <= split
        THEN IF left = None THEN None ELSE <<left[1], Parent(left[2], h)>>
        ELSE IF right = None THEN None ELSE <<Parent(h, right[1]), Parent(h, right[2])>>

\* The genuine proof that a tree extends the one of its first oldSize chunks.
RECURSIVE GenConsProof(_, _, _, _)
GenConsProof(base, oldSize, anchored, chunks) ==
    LET split == Pow2Below(Len(chunks))
    IN  IF Len(chunks) <= oldSize THEN IF anchored THEN <<>> ELSE <<Root(base, chunks)>>
        ELSE IF oldSize <= split
        THEN <<Root(base + split, Rest(chunks))>>
             \o GenConsProof(base, oldSize, anchored, First(chunks))
        ELSE <<Root(base, First(chunks))>>
             \o GenConsProof(base + split, oldSize - split, FALSE, Rest(chunks))

VerifyConsistency(oldSize, newSize, oldRoot, newRoot, proof) ==
    /\ 1 <= oldSize /\ oldSize < newSize
    /\ ConsRebuild(oldRoot, oldSize, newSize, TRUE, proof) = <<oldRoot, newRoot>>

-----------------------------------------------------------------------------
(* The closed codecs.                                                      *)

EncodeOpening(doc) ==
    Spell(doc.index) \o Spell(doc.total) \o Spell(Len(doc.leaf)) \o doc.leaf
    \o FlattenSeq(doc.siblings)

DecodeOpening(cells) ==
    LET start == 3 * NumberWidth
        end   == start + Number(cells, 2 * NumberWidth)
    IN  IF \/ Len(cells) < start \/ Len(cells) < end
           \/ (Len(cells) - end) % AddressWidth # 0
        THEN None
        ELSE [index |-> Number(cells, 0), total |-> Number(cells, NumberWidth),
              leaf |-> Slice(cells, start, end),
              siblings |-> Addresses(Slice(cells, end, Len(cells)))]

EncodeItem(item) ==
    CASE item.tag = "SkipNode"   -> <<<<0>>>>
      [] item.tag = "ChunkNode"  -> <<<<1>>>> \o Spell(Len(item.bytes)) \o item.bytes
      [] item.tag = "ParentNode" -> <<<<2>>>> \o item.left \o item.right

EncodeItems(items) == FlattenSeq([i \in DOMAIN items |-> EncodeItem(items[i])])

EncodeStream(doc) ==
    Spell(doc.total) \o Spell(doc.lo) \o Spell(doc.hi) \o EncodeItems(doc.items)

\* The first frame: an item with how many cells it took, "more" or "malformed".
NeedMore  == [state |-> "more"]
Malformed == [state |-> "malformed"]
Parsed(item, size) == [state |-> "parsed", item |-> item, size |-> size]

ParseFrame(cells) ==
    LET head == 1 + NumberWidth
        end  == head + Number(cells, 1)
    IN  IF cells = <<>> THEN NeedMore
        ELSE IF cells[1] = <<0>> THEN Parsed(Skip, 1)
        ELSE IF cells[1] = <<1>>
        THEN IF Len(cells) < head \/ Len(cells) < end THEN NeedMore
             ELSE Parsed(Chunk(Slice(cells, head, end)), end)
        ELSE IF cells[1] = <<2>>
        THEN IF Len(cells) < 1 + 2 * AddressWidth THEN NeedMore
             ELSE Parsed(Node(Slice(cells, 1, 1 + AddressWidth),
                              Slice(cells, 1 + AddressWidth, 1 + 2 * AddressWidth)),
                         1 + 2 * AddressWidth)
        ELSE Malformed

\* The codec of a whole document: the same items, or None when one is unknown
\* or cut off.
ItemAt(cells) ==
    LET head == 1 + NumberWidth
        end  == head + Number(cells, 1)
    IN  IF cells[1] = <<0>> THEN Parsed(Skip, 1)
        ELSE IF cells[1] = <<1>> /\ Len(cells) >= head /\ Len(cells) >= end
        THEN Parsed(Chunk(Slice(cells, head, end)), end)
        ELSE IF cells[1] = <<2>> /\ Len(cells) > 2 * AddressWidth
        THEN Parsed(Node(Slice(cells, 1, 1 + AddressWidth),
                         Slice(cells, 1 + AddressWidth, 1 + 2 * AddressWidth)),
                    1 + 2 * AddressWidth)
        ELSE None

RECURSIVE ReadItems(_)
ReadItems(cells) ==
    LET first == ItemAt(cells)
        after == ReadItems(Slice(cells, first.size, Len(cells)))
    IN  IF cells = <<>> THEN <<>>
        ELSE IF first = None \/ after = None THEN None
        ELSE <<first.item>> \o after

DecodeStream(cells) ==
    LET start == 3 * NumberWidth
        items == ReadItems(Slice(cells, start, Len(cells)))
    IN  IF Len(cells) < start \/ items = None THEN None
        ELSE [total |-> Number(cells, 0), lo |-> Number(cells, NumberWidth),
              hi |-> Number(cells, 2 * NumberWidth), items |-> items]

-----------------------------------------------------------------------------
(* The framer: the maximal complete prefix, what is left kept back.        *)

FreshFramer == [state |-> "parsed", items |-> <<>>, remainder |-> <<>>]

RECURSIVE Drain(_)
Drain(cells) ==
    LET frame == ParseFrame(cells)
        after == Drain(Slice(cells, frame.size, Len(cells)))
    IN  IF frame.state = "more" THEN [FreshFramer EXCEPT !.remainder = cells]
        ELSE IF frame.state = "malformed" \/ after = Malformed THEN Malformed
        ELSE [after EXCEPT !.items = <<frame.item>> \o @]

FeedFramer(state, fragment) ==
    LET next == Drain(state.remainder \o fragment)
    IN  IF state = Malformed \/ next = Malformed THEN Malformed
        ELSE [next EXCEPT !.items = state.items \o @]

-----------------------------------------------------------------------------
(* The decoder: one total step per frame of the stream.                    *)

Frame(expected, base, count) == [expected |-> expected, base |-> base, count |-> count]

InitState(claim) ==
    [stack |-> <<Frame(claim.root, 0, claim.total)>>, status |-> "active"]

Disjoint(claim, frame) ==
    frame.base + frame.count <= claim.lo \/ claim.hi <= frame.base

Popped(stack) ==
    [stack |-> Tail(stack), status |-> IF Len(stack) = 1 THEN "done" ELSE "active"]

\* Split: the frame on top gives way to those of its two subtrees.
Opened(stack, item) ==
    LET frame == Head(stack)
        split == Pow2Below(frame.count)
    IN  [stack |-> <<Frame(item.left, frame.base, split),
                     Frame(item.right, frame.base + split, frame.count - split)>>
                   \o Tail(stack),
         status |-> "active"]

Emitted(frame, bytes) == [tag |-> "Emitted", index |-> frame.base, bytes |-> bytes]
LengthValidated       == [tag |-> "LengthValidated"]
RejectedNode          == [tag |-> "RejectedNode"]

Step(state, said)   == [state |-> state, decisions |-> said]
RejectOut(state)    == Step([state EXCEPT !.status = "rejected"], <<RejectedNode>>)

\* Seeded fault: the length is vouched for with every chunk.
ValidateEarly(claim, frame, bytes) == <<Emitted(frame, bytes), LengthValidated>>

Emissions(claim, frame, bytes) ==
    <<Emitted(frame, bytes)>>
    \o IF frame.base + 1 = claim.total THEN <<LengthValidated>> ELSE <<>>

Dstep(claim, state, item) ==
    LET frame == Head(state.stack)
        skipped == Disjoint(claim, frame)
    IN  IF state.status # "active" THEN Step(state, <<>>)
        ELSE IF skipped /\ item = Skip THEN Step(Popped(state.stack), <<>>)
        ELSE IF /\ ~skipped /\ frame.count <= 1 /\ item.tag = "ChunkNode"
                /\ Leaf(frame.base, item.bytes) = frame.expected
        THEN Step(Popped(state.stack), Emissions(claim, frame, item.bytes))
        ELSE IF /\ ~skipped /\ frame.count > 1 /\ item.tag = "ParentNode"
                /\ Parent(item.left, item.right) = frame.expected
        THEN Step(Opened(state.stack, item), <<>>)
        ELSE RejectOut(state)

-----------------------------------------------------------------------------
(* What a reader may be asked, and the ways a body goes wrong.             *)

Nothing == [do |-> "nothing"]

Total(chunks) == Len(chunks)

Items(chunks, lo, hi) == GenStream(lo, hi, 0, chunks)

Body(chunks, lo, hi) == EncodeItems(Items(chunks, lo, hi))

\* One cell replaced, dropped, doubled or exchanged with the next, the end cut
\* off, or a byte more behind it.
Exchanged(body, i) == [body EXCEPT ![i] = body[i + 1], ![i + 1] = body[i]]
Damages(body) ==
    {[body EXCEPT ![i] = c] : i \in DOMAIN body, c \in Byte}
    \cup {RemoveAt(body, i) : i \in DOMAIN body}
    \cup {InsertAt(body, i, body[i]) : i \in DOMAIN body}
    \cup {Exchanged(body, i) : i \in 1..Len(body) - 1}
    \cup {SubSeq(body, 1, n) : n \in 0..Len(body) - 1}
    \cup {Append(body, b) : b \in Byte}

\* Roots of the subtrees, from which proofs are drawn, and the proofs made of
\* at most n of them.
Subtrees(chunks) ==
    {Root(from, SubSeq(chunks, from + 1, to)) :
        <<from, to>> \in {p \in (0..Len(chunks)) \X (0..Len(chunks)) : p[1] < p[2]}}

UpTo(n, S) == UNION {[1..k -> S] : k \in 0..n}

-----------------------------------------------------------------------------
(* Steps.                                                                  *)

\* A read of a tree: its reader believes any number of chunks, or the body it
\* is sent is damaged.
Reading(chunks, lo, hi, total, body) ==
    [do |-> "read", chunks |-> chunks, body |-> body, fed |-> 0,
     claim |-> [root |-> Root(0, chunks), total |-> total, lo |-> lo, hi |-> hi]]

ReadingsOf(chunks, lo, hi) ==
    LET body == Body(chunks, lo, hi)
    IN  {Reading(chunks, lo, hi, total, body) : total \in 0..Len(chunks) + 1}
        \cup {Reading(chunks, lo, hi, Len(chunks), bad) : bad \in Damages(body)}

Readings == UNION {UNION {ReadingsOf(chunks, lo, hi) :
    lo \in 0..Len(chunks), hi \in 0..Len(chunks) + 1} : chunks \in Trees}

\* Openings and consistency proofs, true and false ones, to be judged.
Openings == UNION {
    [do : {"opening"}, chunks : {chunks}, verdict : {None},
     doc : [index : 0..Len(chunks) + 1, total : 0..Len(chunks) + 1,
            leaf : Range(chunks) \cup {<<>>}, siblings : UpTo(2, Subtrees(chunks))]] :
    chunks \in Trees}

Consistencies == UNION {
    [do : {"consistency"}, chunks : {chunks}, verdict : {None},
     oldSize : 0..Len(chunks), newSize : {Len(chunks), Len(chunks) + 1},
     oldRoot : Subtrees(chunks), proof : UpTo(3, Subtrees(chunks))] :
    chunks \in Trees}

ProofInit ==
    /\ asked \in Readings \cup Openings \cup Consistencies
                  \cup {[do |-> "document", cells |-> <<>>]}
    /\ framer = FreshFramer /\ taken = 0 /\ decisions = <<>>
    /\ decoder = IF asked.do = "read" THEN InitState(asked.claim) ELSE Nothing

\* No reader.
Unread ==
    /\ asked = Nothing /\ framer = FreshFramer
    /\ decoder = Nothing /\ taken = 0 /\ decisions = <<>>

Feed ==
    /\ asked.do = "read"
    /\ \E n \in 1..MaxFragment :
        /\ asked.fed + n <= Len(asked.body)
        /\ framer' = FeedFramer(framer, Slice(asked.body, asked.fed, asked.fed + n))
        /\ asked' = [asked EXCEPT !.fed = @ + n]
    /\ UNCHANGED <<decoder, taken, decisions>>

Decode ==
    /\ asked.do = "read" /\ framer.state = "parsed" /\ taken < Len(framer.items)
    /\ LET step == Dstep(asked.claim, decoder, framer.items[taken + 1])
       IN  decoder' = step.state /\ decisions' = decisions \o step.decisions
    /\ taken' = taken + 1
    /\ UNCHANGED <<asked, framer>>

\* An opening arrives as a document and is judged against the known root.
JudgeOpening ==
    /\ asked.do = "opening" /\ asked.verdict = None
    /\ LET doc == DecodeOpening(EncodeOpening(asked.doc))
       IN  asked' = [asked EXCEPT !.doc = doc,
               !.verdict = doc # None /\ VerifyInclusion(doc.index, doc.total, doc.leaf,
                                                         doc.siblings, Root(0, asked.chunks))]
    /\ UNCHANGED <<framer, decoder, taken, decisions>>

\* A proof that a known tree extends an older root.
JudgeConsistency ==
    /\ asked.do = "consistency" /\ asked.verdict = None
    /\ asked' = [asked EXCEPT !.verdict =
           VerifyConsistency(asked.oldSize, asked.newSize, asked.oldRoot,
                             Root(0, asked.chunks), asked.proof)]
    /\ UNCHANGED <<framer, decoder, taken, decisions>>

\* A document, a byte longer each time.
HandOver ==
    /\ asked.do = "document" /\ Len(asked.cells) < MaxDocument
    /\ \E b \in Byte : asked' = [asked EXCEPT !.cells = Append(@, b)]
    /\ UNCHANGED <<framer, decoder, taken, decisions>>

\* Nothing is left to do: the body is used up, the claim judged.
StreamDone ==
    /\ \/ asked.do \in {"opening", "consistency"} /\ asked.verdict # None
       \/ asked.do = "document" /\ Len(asked.cells) = MaxDocument
       \/ /\ asked.do = "read" /\ asked.fed = Len(asked.body)
          /\ framer.state = "parsed" => taken = Len(framer.items)
    /\ UNCHANGED proofVars

ProofNext ==
    Feed \/ Decode \/ JudgeOpening \/ JudgeConsistency \/ HandOver \/ StreamDone

-----------------------------------------------------------------------------
(* Properties.                                                             *)

\* The empty tree and the tree of one empty chunk have one root: a reader that
\* believes in the second cannot know better.
Shown(chunks, total) == IF chunks = <<>> /\ total > 0 THEN <<<<>>>> ELSE chunks

Given  == LET given == SelectSeq(decisions, LAMBDA d : d.tag = "Emitted")
          IN  [i \in DOMAIN given |-> <<given[i].index, given[i].bytes>>]
Due    == RangedEmissions(asked.claim.lo, asked.claim.hi, 0,
                          Shown(asked.chunks, asked.claim.total))
Honest == /\ asked.claim.total = Len(asked.chunks)
          /\ asked.body = Body(asked.chunks, asked.claim.lo, asked.claim.hi)

\* However a proof stream is cut into fragments the framer makes the same frames
\* of it, those the closed codec finds in the whole body, and keeps the rest;
\* whatever was damaged and whatever length was believed, the decoder emits
\* chunks of the tree only, in order, none beside the range, has emitted them
\* all when it is done, and vouches for a length only when it is the tree's;
\* what was sent whole and believed rightly is never rejected and gets done.
StreamExact == asked.do = "read" =>
    LET whole == asked.fed = Len(asked.body)
    IN  /\ framer = Drain(Slice(asked.body, 0, asked.fed))
        /\ whole => ReadItems(asked.body) =
               IF framer # Malformed /\ framer.remainder = <<>> THEN framer.items ELSE None
        /\ IsPrefix(Given, Due)
        /\ decoder.status = "done" => Given = Due
        /\ LengthValidated \in Range(decisions) =>
               asked.claim.total = Len(Shown(asked.chunks, asked.claim.total))
        /\ Honest => /\ decoder.status # "rejected"
                     /\ whole /\ taken = Len(framer.items) => decoder.status = "done"

IsSubsequence(s, t) ==
    \E at \in [DOMAIN s -> DOMAIN t] :
        /\ \A i \in DOMAIN s : s[i] = t[at[i]]
        /\ \A i, j \in DOMAIN s : i < j => at[i] < at[j]

\* A presence document sorts the keys that were asked about, each at its own
\* position, and drops none.
PresenceSorted(keys, cells) ==
    LET presence == DecodePresence(keys, cells)
        lists    == <<presence.present, presence.missing, presence.failed>>
    IN  presence # None =>
            /\ EncodePresence(presence.statuses) = cells
            /\ \A i \in 1..3 : IsSubsequence(lists[i], keys)
            /\ Len(FlattenSeq(lists)) = Len(keys)

GenuineOpening(chunks, doc) ==
    /\ doc.index < Len(chunks) /\ doc.total = Len(chunks)
    /\ doc.leaf = chunks[doc.index + 1] /\ doc.siblings = Branch(0, doc.index, chunks)

GenuineConsistency(claim) ==
    /\ 1 <= claim.oldSize /\ claim.oldSize < claim.newSize /\ claim.newSize = Len(claim.chunks)
    /\ claim.oldRoot = Root(0, SubSeq(claim.chunks, 1, claim.oldSize))
    /\ claim.proof = GenConsProof(0, claim.oldSize, TRUE, claim.chunks)

\* Every decoder of a document is closed: what it accepts is spelled exactly as
\* its encoder would spell the answer, so no two documents say the same and no
\* byte goes unread.  An opening that is judged true names a chunk of the tree
\* at its index, and the genuine one is judged true; a consistency proof
\* that is judged true under the tree's size has the root of a prefix of it.
ProofsSound ==
    CASE asked.do = "document" ->
            LET cells == asked.cells
                limits == DecodeCapabilities(cells)
                listed == DecodeKeyList(cells)
                opening == DecodeOpening(cells)
                stream == DecodeStream(cells)
            IN  /\ limits # None => EncodeCapabilities(limits) = cells
                /\ listed # None => EncodeKeyList(listed) = cells
                /\ opening # None => EncodeOpening(opening) = cells
                /\ stream # None => EncodeStream(stream) = cells
                /\ PresenceSorted(<<"k1">>, cells) /\ PresenceSorted(<<"k1", "k2", "k1">>, cells)
      [] asked.do = "opening" /\ asked.verdict # None ->
            LET doc    == asked.doc
                chunks == Shown(asked.chunks, doc.total)
            IN  /\ doc # None
                /\ asked.verdict => /\ doc.index < Len(chunks)
                                    /\ doc.leaf = chunks[doc.index + 1]
                /\ GenuineOpening(asked.chunks, doc) => asked.verdict
      [] asked.do = "consistency" /\ asked.verdict # None ->
            LET prefix == SubSeq(asked.chunks, 1, asked.oldSize)
            IN  /\ asked.verdict /\ asked.newSize = Len(asked.chunks)
                       => asked.oldRoot = Root(0, prefix)
                /\ GenuineConsistency(asked) => asked.verdict
      [] OTHER -> TRUE
=============================================================================
