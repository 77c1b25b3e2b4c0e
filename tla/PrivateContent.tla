----------------------------- MODULE PrivateContent -----------------------------
(***************************************************************************)
(* The content of a private file (PrivateForestContent in                  *)
(* wnfs/src/private/file.rs): blocks of a fixed size, each encrypted and   *)
(* put under its own label in the forest, and the reads that find the      *)
(* blocks by index.  A label is the hash of a fresh key and the index, so  *)
(* that here it is the index.                                              *)
(***************************************************************************)
EXTENDS Integers, SequencesExt

CONSTANT MAX_BLOCK_CONTENT_SIZE

(* The value of len_limit that stands for None.                            *)
NoLimit == -1

LesserOf(m, n) == IF m <= n THEN m ELSE n

(* From index * MAX_BLOCK_CONTENT_SIZE, as far as there is content.        *)
BlockOf(content, index) ==
  SubSeq(content, index * MAX_BLOCK_CONTENT_SIZE + 1,
         LesserOf((index + 1) * MAX_BLOCK_CONTENT_SIZE, Len(content)))

Stored(content, block_count) ==
  [block_count |-> block_count,
   blocks |-> [index \in 0 .. block_count - 1 |-> BlockOf(content, index)]]

(* new: the number of blocks is rounded up, and is 0 for no content.       *)
New(content) ==
  Stored(content, (Len(content) + MAX_BLOCK_CONTENT_SIZE - 1) \div MAX_BLOCK_CONTENT_SIZE)

(* new_streaming: read_fully fills a block from as many reads as it takes, *)
(* and only a read of nothing tells it that it is done; content that ends  *)
(* with a full block gets an empty one after it.                           *)
NewStreaming(content) ==
  Stored(content, Len(content) \div MAX_BLOCK_CONTENT_SIZE + 1)

(* stream                                                                  *)
Chunks(c, block_index) ==
  [i \in 1 .. c.block_count - block_index |-> c.blocks[block_index + i - 1]]

GetContent(c) == FlattenSeq(Chunks(c, 0))

GetSizeUpperBound(c) == c.block_count * MAX_BLOCK_CONTENT_SIZE

(* Slip: the limit counts from the start of the file.                      *)
LastBlockFromStart(c, byte_offset, len_limit) ==
  IF len_limit = NoLimit THEN c.block_count
  ELSE len_limit \div MAX_BLOCK_CONTENT_SIZE

(* Without a limit no block is the last one to read.                       *)
LastBlock(c, byte_offset, len_limit) ==
  IF len_limit = NoLimit THEN c.block_count
  ELSE (byte_offset + len_limit) \div MAX_BLOCK_CONTENT_SIZE

(* What a read takes of the block at an index.                             *)
Slice(c, byte_offset, len_limit, index) ==
  LET chunk == c.blocks[index]
      within(position) ==
        LesserOf(position - index * MAX_BLOCK_CONTENT_SIZE, Len(chunk))
      from == IF index = byte_offset \div MAX_BLOCK_CONTENT_SIZE
              THEN within(byte_offset) ELSE 0
      to   == IF index = LastBlock(c, byte_offset, len_limit)
              THEN within(byte_offset + len_limit) ELSE Len(chunk)
  IN SubSeq(chunk, from + 1, to)

(* The offset is one that GetSizeUpperBound(c) - byte_offset allows.       *)
ReadAt(c, byte_offset, len_limit) ==
  LET first == byte_offset \div MAX_BLOCK_CONTENT_SIZE
      last  == LesserOf(LastBlock(c, byte_offset, len_limit), c.block_count - 1)
  IN IF byte_offset = GetSizeUpperBound(c) \/ len_limit = 0 THEN <<>>
     ELSE FlattenSeq([i \in 1 .. last - first + 1 |->
                        Slice(c, byte_offset, len_limit, first + i - 1)])

(* size, where there is a block: block_count - 1 wraps around otherwise.   *)
Size(c) ==
  LET without_last == (c.block_count - 1) * MAX_BLOCK_CONTENT_SIZE
  IN without_last + Len(ReadAt(c, without_last, NoLimit))

================================================================================
