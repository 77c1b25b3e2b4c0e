-------------------------------- MODULE MCFiles --------------------------------
(* The two ways there are to keep the content of a file, a tree of public  *)
(* blocks and private blocks under labels, on the same contents and sizes. *)
EXTENDS UnixFsFile

Private == INSTANCE PrivateContent WITH MAX_BLOCK_CONTENT_SIZE <- chunk_size

AtStart == file = Nothing /\ source = content

(* The bytes from an offset on that a limit allows.                        *)
BytesFrom(offset, limit) ==
  SubSeq(content, offset + 1, IF limit = Private!NoLimit THEN Len(content)
                              ELSE Private!LesserOf(offset + limit, Len(content)))

(* Whichever way the content of a private file was stored, and wherever    *)
(* the boundaries of its blocks are, what is read at an offset with or     *)
(* without a limit, what is streamed and what its size is said to be are   *)
(* those of the content (PrivateForestContent::new, new_streaming, stream, *)
(* read_at, size).  Left out are offsets beyond get_size_upper_bound and   *)
(* the size of what has no block, where unsigned numbers wrap around.      *)
PrivateReadsAreContent ==
  AtStart =>
    \A c \in {Private!New(content), Private!NewStreaming(content)} :
      /\ Private!GetContent(c) = content
      /\ \A offset \in 0 .. Private!GetSizeUpperBound(c),
            limit \in {Private!NoLimit} \cup 0 .. MaxSeek :
           Private!ReadAt(c, offset, limit) = BytesFrom(offset, limit)
      /\ c.block_count > 0 => Private!Size(c) = Len(content)
================================================================================
