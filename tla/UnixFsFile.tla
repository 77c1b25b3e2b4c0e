------------------------------- MODULE UnixFsFile -------------------------------
(***************************************************************************)
(* Files of public directories (wnfs-unixfs-file): a stream of bytes is    *)
(* cut into chunks of a fixed size, the chunks become the leaves of a tree *)
(* of bounded degree that is built while they come in, and a reader walks  *)
(* that tree, with seeks, reads of any size and loads that take time or    *)
(* fail.                                                                   *)
(*                                                                         *)
(* A block stands for its CID.  Byte n of the content is the number n.     *)
(***************************************************************************)
EXTENDS Integers, FiniteSets, SequencesExt

CONSTANTS
  Lengths,       \* lengths of the content
  ChunkSizes,    \* chunk sizes of the fixed chunker
  Degrees,       \* links a node may have
  Buffers,       \* sizes of the buffers reads are called with
  MaxSeek        \* bound: how far to seek

ASSUME UnixFsAssumption ==
  /\ Lengths \subseteq Nat
  /\ ChunkSizes \subseteq Nat \ {0}
  /\ Degrees \subseteq Nat \ {0, 1}
  /\ Buffers \subseteq Nat \ {0}
  /\ MaxSeek \in Nat

VARIABLES
  content, chunk_size, degree,
  source,     \* what is left to read
  buffer,     \* what the chunker holds
  layers,     \* links for the nodes on the most recent branch, from the leaves up
  file,       \* the root of the file, once it is built
  reader,     \* pos, the node being read, the stack of links to go
  call,       \* the read that is going on: the room in its buffer
  last        \* what the last call to read gave

buildVars  == <<source, buffer, layers>>
params     == <<content, chunk_size, degree>>
readerVars == <<reader, call, last>>
vars == <<params, buildVars, file, readerVars>>

Nothing == [type |-> "none"]

(* The sum of the first n sizes.                                           *)
SumTo(sizes, n) ==
  LET sum[i \in 0 .. n] == IF i = 0 THEN 0 ELSE sum[i - 1] + sizes[i]
  IN sum[n]

Raw(bytes) == [type |-> "raw", data |-> bytes, filesize |-> Len(bytes)]

Stem(links) ==
  LET sizes == [i \in DOMAIN links |-> links[i].filesize]
  IN [type |-> "node", links |-> links, blocksizes |-> sizes, filesize |-> SumTo(sizes, Len(sizes))]

--------------------------------------------------------------------------------
(* stream_balanced_tree                                                    *)

(* Slip: only the layer of the leaves is looked at.                        *)
LeavesFlushed(full) ==
  LET l == IF Len(full) = 1 THEN Append(full, <<>>) ELSE full
  IN IF Len(full[1]) < degree THEN full
     ELSE [l EXCEPT ![1] = <<>>, ![2] = Append(@, Stem(full[1]))]

(* A layer with all its links becomes a node in the layer above, unless    *)
(* one below it had room.                                                  *)
Flush(l, i) ==
  IF Len(l[i]) < degree \/ \E j \in 1 .. i - 1 : l[j] # <<>> THEN l
  ELSE [(IF i = Len(l) THEN Append(l, <<>>) ELSE l) EXCEPT
          ![i] = <<>>, ![i + 1] = Append(@, Stem(l[i]))]

Flushed(full) ==
  LET flushed[i \in 0 .. Len(full)] == IF i = 0 THEN full ELSE Flush(flushed[i - 1], i)
  IN flushed[Len(full)]

WithLeaf(l, bytes) == [Flushed(l) EXCEPT ![1] = Append(@, Raw(bytes))]

(* The rest of the nodes; a single chunk is the root itself.               *)
Root(l) ==
  IF Len(l) = 1 /\ Len(l[1]) = 1 THEN l[1][1]
  ELSE LET below[i \in 0 .. Len(l)] == IF i = 0 THEN <<>> ELSE <<Stem(l[i] \o below[i - 1])>>
       IN below[Len(l)][1]

--------------------------------------------------------------------------------
Start ==
  /\ source = content /\ buffer = <<>> /\ layers = << <<>> >>
  /\ file = Nothing /\ reader = Nothing /\ call = Nothing /\ last = Nothing

Init ==
  /\ \E n \in Lengths : content = [i \in 1 .. n |-> i]
  /\ chunk_size \in ChunkSizes
  /\ degree \in Degrees
  /\ Start

(* Fixed::chunks: what is cut off the buffer after a read.                 *)
NextChunk(bytes) == SubSeq(bytes, 1, chunk_size)

(* The source gives n bytes, 0 at its end.                                 *)
ReadSource(n) ==
  LET bytes == buffer \o SubSeq(source, 1, n)
  IN /\ file = Nothing
     /\ n = 0 => source = <<>>
     /\ n <= Len(source)
     /\ source' = SubSeq(source, n + 1, Len(source))
     /\ CASE Len(bytes) >= chunk_size ->
               /\ layers' = WithLeaf(layers, NextChunk(bytes))
               /\ buffer' = SubSeq(bytes, Len(NextChunk(bytes)) + 1, Len(bytes))
               /\ UNCHANGED file
          [] Len(bytes) < chunk_size /\ n > 0 ->
               buffer' = bytes /\ UNCHANGED <<layers, file>>
          [] OTHER ->
               /\ layers' = IF bytes = <<>> THEN layers ELSE WithLeaf(layers, bytes)
               /\ buffer' = <<>>
               /\ file' = Root(layers')
     /\ UNCHANGED <<params, readerVars>>

(* An error of the source or the blockstore: no root comes out, and the    *)
(* caller starts anew.                                                     *)
BuildFails ==
  /\ file = Nothing
  /\ source' = content /\ buffer' = <<>> /\ layers' = << <<>> >>
  /\ UNCHANGED <<params, file, readerVars>>

--------------------------------------------------------------------------------
(* The reader.  NoMax stands for no pos_max.                               *)
NoMax == -1

IsRaw == file.type = "raw"

Outer == [at |-> "outer"]
Requested(offset) == [at |-> "requested", offset |-> offset]
Loading(offset, node) == [at |-> "loading", offset |-> offset, node |-> node]
Loaded(offset, pos, node) ==
  [at |-> "loaded", offset |-> offset, node_pos |-> pos, node |-> node]

RootLinks == IF IsRaw THEN <<>> ELSE file.links

(* into_content_reader                                                     *)
Open(pos_max) ==
  /\ file # Nothing /\ reader = Nothing
  /\ reader' = [pos |-> 0, pos_max |-> pos_max, node |-> Outer,
                links |-> << RootLinks >>, failed |-> FALSE]
  /\ UNCHANGED <<params, buildVars, file, call, last>>

Idle == reader # Nothing /\ call = Nothing

(* Slip: goes on from the node that was being read.                        *)
SeekToKeepingNode(pos) ==
  /\ pos <= MaxSeek
  /\ reader' = [reader EXCEPT !.pos = pos, !.links = << RootLinks >>, !.failed = FALSE]
  /\ last' = Nothing
  /\ UNCHANGED <<params, buildVars, file, call>>

(* What every seek does: it starts over at the root.                       *)
SeekTo(pos) ==
  /\ pos <= MaxSeek
  /\ reader' = [reader EXCEPT !.pos = pos, !.node = Outer, !.links = << RootLinks >>,
                              !.failed = FALSE]
  /\ last' = Nothing
  /\ UNCHANGED <<params, buildVars, file, call>>

(* The size is only known of what is a single block.                       *)
Clamped(pos) ==
  IF RootLinks # <<>> THEN pos
  ELSE IF file.filesize = 0 THEN 0
  ELSE IF pos >= file.filesize THEN file.filesize - 1 ELSE pos

SeekStart(offset) == Idle /\ SeekTo(Clamped(offset))

SeekEnd(offset) ==
  /\ Idle
  /\ SeekTo(IF RootLinks # <<>> THEN reader.pos     \* an error
            ELSE IF file.filesize = 0 THEN 0
            ELSE (file.filesize + offset) % file.filesize)

SeekCurrent(offset) ==
  /\ Idle
  /\ SeekTo(Clamped(IF reader.pos + offset < 0 THEN 0 ELSE reader.pos + offset))

Read(room) ==
  /\ Idle
  /\ call' = [room |-> room]
  /\ last' = Nothing
  /\ UNCHANGED <<params, buildVars, file, reader>>

Returns(bytes) ==
  /\ call' = Nothing
  /\ last' = [from |-> reader.pos, bytes |-> bytes]

Smallest(S) == CHOOSE m \in S : \A n \in S : m <= n

(* read_data_to_buf.  pos_max - pos wraps around when it is negative.      *)
Taken(data) ==
  LET most == IF reader.pos_max = NoMax \/ reader.pos_max < reader.pos THEN Len(data)
              ELSE reader.pos_max - reader.pos
  IN SubSeq(data, 1, Smallest({most, call.room, Len(data)}))

Reading == call # Nothing
AtNode(at) == Reading /\ ~IsRaw /\ reader.node.at = at
Clipped == reader.pos_max # NoMax /\ reader.pos_max <= reader.pos

Stays == UNCHANGED <<params, buildVars, file>>

ReadRaw ==
  /\ Reading /\ IsRaw
  /\ LET bytes == Taken(SubSeq(file.data, reader.pos + 1, Len(file.data)))
     IN /\ Returns(bytes)
        /\ reader' = [reader EXCEPT !.pos = @ + Len(bytes)]
  /\ Stays

(* poll_read_file_at                                                       *)
StopAtMax ==
  /\ Reading /\ ~IsRaw /\ Clipped
  /\ Returns(<<>>) /\ UNCHANGED reader /\ Stays

(* The nodes built here have no data next to their links.                  *)
LeaveRoot ==
  /\ AtNode("outer") /\ ~Clipped
  /\ IF RootLinks = <<>> THEN Returns(<<>>) /\ UNCHANGED reader
     ELSE reader' = [reader EXCEPT !.node = Requested(0)] /\ UNCHANGED <<call, last>>
  /\ Stays

(* load_next_node: lists of links that are done are taken off the stack.   *)
LoadNextNode ==
  /\ AtNode("requested") /\ ~Clipped
  /\ LET more == {i \in DOMAIN reader.links : reader.links[i] # <<>>}
         top  == CHOOSE i \in more : \A j \in more : j <= i
     IN IF more = {}
        THEN /\ Returns(<<>>)
             /\ reader' = [reader EXCEPT !.links = <<>>]
        ELSE /\ reader' = [reader EXCEPT
                             !.node  = Loading(reader.node.offset, Head(reader.links[top])),
                             !.links = Append(SubSeq(@, 1, top - 1), Tail(@[top]))]
             /\ UNCHANGED <<call, last>>
  /\ Stays

Pending ==
  /\ AtNode("loading") /\ ~Clipped
  /\ call' = Nothing
  /\ UNCHANGED <<reader, last>> /\ Stays

(* Slip: the blocks that are skipped do not count.                         *)
FindBlockUncounted(node, offset) ==
  LET pivot(i) == offset + SumTo(node.blocksizes, i)
      before == {i \in DOMAIN node.blocksizes : pivot(i) <= reader.pos}
  IN [offset |-> offset, index |-> Cardinality(before)]

(* find_block: the blocks that end at or before the position are skipped.  *)
FindBlock(node, offset) ==
  LET pivot(i) == offset + SumTo(node.blocksizes, i)
      before == {i \in DOMAIN node.blocksizes : pivot(i) <= reader.pos}
  IN [offset |-> pivot(Cardinality(before)), index |-> Cardinality(before)]

NodeLoads ==
  /\ AtNode("loading") /\ ~Clipped
  /\ LET node   == reader.node.node
         offset == reader.node.offset
         found  == FindBlock(node, offset)
     IN reader' =
          IF node.type = "raw"
          THEN [reader EXCEPT !.node = Loaded(offset, reader.pos - offset, node)]
          ELSE [reader EXCEPT !.node  = Requested(found.offset),
                              !.links = Append(@, SubSeq(node.links, found.index + 1,
                                                         Len(node.links)))]
  /\ UNCHANGED <<call, last>> /\ Stays

(* The link was taken off the stack, and the next read goes on after it.   *)
LoadFails ==
  /\ AtNode("loading") /\ ~Clipped
  /\ call' = Nothing /\ last' = Nothing
  /\ reader' = [reader EXCEPT !.node = Requested(reader.node.offset), !.failed = TRUE]
  /\ Stays

ReadLeaf ==
  /\ AtNode("loaded") /\ ~Clipped
  /\ LET n     == reader.node
         bytes == Taken(SubSeq(n.node.data, n.node_pos + 1, Len(n.node.data)))
     IN IF n.offset + Len(n.node.data) <= reader.pos
        THEN /\ reader' = [reader EXCEPT !.node = Requested(n.offset + Len(n.node.data))]
             /\ UNCHANGED <<call, last>>
        ELSE /\ reader' = [reader EXCEPT !.pos = @ + Len(bytes),
                                         !.node.node_pos = @ + Len(bytes)]
             /\ Returns(bytes)
  /\ Stays

Next ==
  \/ \E n \in 0 .. Len(source) : ReadSource(n)
  \/ BuildFails
  \/ \E pos_max \in {NoMax} \cup Lengths : Open(pos_max)
  \/ \E offset \in 0 .. MaxSeek : SeekStart(offset)
  \/ \E offset \in -MaxSeek .. 0 : SeekEnd(offset)
  \/ \E offset \in {-1, 1} : SeekCurrent(offset)
  \/ \E room \in Buffers : Read(room)
  \/ ReadRaw \/ StopAtMax \/ LeaveRoot \/ LoadNextNode
  \/ Pending \/ NodeLoads \/ LoadFails \/ ReadLeaf

Spec == Init /\ [][Next]_vars

--------------------------------------------------------------------------------
(* The nodes one level down, and n levels down; a leaf stays where it is.  *)
Opened(nodes) ==
  FlattenSeq([i \in DOMAIN nodes |->
                IF nodes[i].type = "raw" THEN <<nodes[i]>> ELSE nodes[i].links])

Below(nodes, n) ==
  LET below[i \in 0 .. n] == IF i = 0 THEN nodes ELSE Opened(below[i - 1])
  IN below[n]

(* No branch is longer than there are layers.                              *)
Leaves(nodes) == Below(nodes, Len(layers))

DataOf(leaves) == FlattenSeq([i \in DOMAIN leaves |-> leaves[i].data])

(* The sizes a node names are those of what is below it, it has at most    *)
(* `degree` links, and all its leaves are at the same depth.               *)
IsWellMade(node) ==
  \A n \in 0 .. Len(layers) :
    LET nodes == Below(<<node>>, n)
    IN \A i \in DOMAIN nodes :
         /\ nodes[i].type = nodes[1].type
         /\ nodes[i].filesize = Len(DataOf(Leaves(<<nodes[i]>>)))
         /\ nodes[i].type = "node" =>
              /\ Len(nodes[i].links) <= degree
              /\ nodes[i].blocksizes =
                   [j \in DOMAIN nodes[i].links |-> nodes[i].links[j].filesize]

(* Lists of nodes one after the other, the last list first.                *)
FromLast(lists) ==
  LET upto[i \in 0 .. Len(lists)] == IF i = 0 THEN <<>> ELSE lists[i] \o upto[i - 1]
  IN upto[Len(lists)]

(* The nodes that have no parent yet, in the order of the content.         *)
Built == IF file = Nothing THEN FromLast(layers) ELSE << file >>

IsChunked(leaves) ==
  \A i \in DOMAIN leaves :
    /\ leaves[i].type = "raw"
    /\ IF i < Len(leaves) \/ file = Nothing THEN Len(leaves[i].data) = chunk_size
       ELSE Len(leaves[i].data) \in 1 .. chunk_size

--------------------------------------------------------------------------------
(* The positions a reader counts with are ones the code's unsigned numbers *)
(* can hold: a block is only read from where it starts or later            *)
(* (`*pos - *node_offset`), and node_pos keeps in step with the position.  *)
TypeOK ==
  /\ content \in Seq(Nat) /\ source \in Seq(Nat) /\ buffer \in Seq(Nat)
  /\ layers # <<>> /\ \A i \in DOMAIN layers : Len(layers[i]) <= degree
  /\ reader # Nothing =>
       /\ reader.pos \in Nat
       /\ reader.node # Outer => reader.node.offset \in 0 .. reader.pos
       /\ reader.node.at = "loaded" =>
            reader.node.node_pos = reader.pos - reader.node.offset

(* However the source cuts up its bytes, no byte is lost, doubled or out   *)
(* of order while a file is built (Fixed::chunks, stream_balanced_tree):   *)
(* the nodes made so far, then the buffer, then what was not read are the  *)
(* content.  Every leaf but the last is a full chunk, and every node knows *)
(* the sizes below it, keeps to the degree and is balanced.                *)
TreeHoldsContent ==
  /\ DataOf(Leaves(Built)) \o buffer \o source = content
  /\ IsChunked(Leaves(Built))
  /\ \A i \in DOMAIN Built : IsWellMade(Built[i])

(* Whatever was sought and read before, and however often a load made the  *)
(* caller wait, a read gives the bytes at the reader's position and no     *)
(* others, stops at pos_max, and gives none only at the end of the file or *)
(* at pos_max (poll_read).  Left out are reads after a load failed, up to  *)
(* the next seek, and those from beyond pos_max, where pos_max - pos wraps *)
(* around for a file of one block.                                         *)
ReadsAreContent ==
  last # Nothing /\ ~reader.failed =>
    LET end == IF reader.pos_max = NoMax THEN Len(content)
               ELSE Smallest({reader.pos_max, Len(content)})
        upto == last.from + Len(last.bytes)
    IN reader.pos_max = NoMax \/ last.from <= reader.pos_max =>
         /\ last.bytes = SubSeq(content, last.from + 1, upto)
         /\ last.bytes = <<>> \/ upto <= end
         /\ last.bytes = <<>> => last.from >= end
================================================================================
