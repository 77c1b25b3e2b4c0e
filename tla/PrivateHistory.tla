----------------------------- MODULE PrivateHistory -----------------------------
(***************************************************************************)
(* Iterators over the revisions of a private node                          *)
(* (wnfs/src/private/previous.rs): of one node, given its ratchet at some  *)
(* point in the past, and of the node at a path, given the root at two     *)
(* points in time.                                                         *)
(*                                                                         *)
(* An iterator owns a copy of the forest, so that its steps are functions  *)
(* of it.  Here both roots were stored, and nodes are given by their CIDs. *)
(* Functions return the set of what may come out: empty where the code     *)
(* returns an error, more than one thing where it depends on the order of  *)
(* ciphertexts.                                                            *)
(***************************************************************************)
EXTENDS PrivateTree

(* Slip: the past revision is not yet the end.                             *)
NodeHistoryBeyond(header, previous, past) ==
  IF past.id = header.id /\ past.rev <= header.rev
  THEN {[header |-> header, previous |-> previous,
         at |-> header.rev, until |-> past.rev - 1]}
  ELSE {}

(* PrivateNodeHistory: `at` and `until` are the PreviousIterator of the    *)
(* skip ratchet, which gives the ratchets before `at` down to `until`.     *)
(* from_header fails when they are not on one ratchet in this order.       *)
NodeHistory(header, previous, past) ==
  IF past.id = header.id /\ past.rev <= header.rev
  THEN {[header |-> header, previous |-> previous,
         at |-> header.rev, until |-> past.rev]}
  ELSE {}

HistoryOf(c, past) ==
  NodeHistory(blocks[c].header, blocks[c].previous, blocks[past].header)

(* get_previous_node: the history one step on, and the node, if any.       *)
PreviousNode(F, h) ==
  LET at  == h.at - 1
      one == {l \in h.previous : l.back = 1}
      opened == {l \in one : /\ l.key = <<h.header.id, at>>
                             /\ Ref(AtRevision(h.header, at), l.cid) \in F}
  IN CASE h.at = h.until -> {[history |-> h, got |-> {}]}
       [] h.at # h.until /\ one = {} ->
            {[history |-> [h EXCEPT !.at = at], got |-> {}]}
       [] OTHER ->
            {[history |-> [h EXCEPT !.at = at, !.header.rev = at,
                                    !.previous = blocks[l.cid].previous],
              got |-> {l.cid}] : l \in opened}

--------------------------------------------------------------------------------
(* PrivateNodeOnPathHistory: `path` has the directories above the node,    *)
(* with their histories and the name of the entry that is followed.        *)

(* lookup_node without search_latest, of an entry that is there.           *)
LookupNode(F, dir, name) ==
  LET b == blocks[dir]
  IN IF Loads(F, blocks, b.entries[name], b.header.name)
     THEN {b.entries[name].cid} ELSE {}

HasEntry(dir, name) == blocks[dir].type = "dir" /\ name \in DOMAIN blocks[dir].entries

(* get_path_nodes: the nodes down to p, the root first.                    *)
PathNodes(F, root, p) ==
  FoldLeft(LAMBDA S, name :
             UNION {IF HasEntry(Last(nodes), name)
                    THEN {Append(nodes, c) : c \in LookupNode(F, Last(nodes), name)}
                    ELSE {} : nodes \in S},
           {<<root>>}, p)

Segment(dir, history, name) == [dir |-> dir, history |-> history, name |-> name]

(* PrivateNodeOnPathHistory::of, for a path that is not empty.             *)
PathHistory(F, root, past, p, searchLatest) ==
  LET start(nodes, i) == IF i = 1 THEN HistoryOf(root, past)
                         ELSE HistoryOf(nodes[i], nodes[i])
      latest(c) == IF searchLatest THEN LatestNodes(F, blocks[c].header) ELSE {c}
  IN UNION {
       {[path   |-> [i \in 1 .. Len(p) |->
                       Segment(nodes[i], CHOOSE s \in start(nodes, i) : TRUE, p[i])],
         target |-> h] :
          h \in UNION {HistoryOf(c, Last(nodes)) : c \in latest(Last(nodes))}} :
       nodes \in {n \in PathNodes(F, root, p) : HistoryOf(root, past) # {}}}

(* find_and_step_segment_history: segments are popped until one has a      *)
(* previous revision.  The deepest one popped is the first in `popped`.    *)
SteppedSegment(F, path) ==
  LET steps == [i \in DOMAIN path |-> PreviousNode(F, path[i].history)]
      more  == {i \in DOMAIN path : \A s \in steps[i] : s.got # {}}
      i     == CHOOSE k \in more : \A j \in more : j <= k
  IN IF more = {} THEN {[path |-> <<>>, popped |-> path]}
     ELSE {[path   |-> Append(SubSeq(path, 1, i - 1),
                              Segment(CHOOSE c \in s.got : TRUE, s.history, path[i].name)),
            popped |-> Reverse(SubSeq(path, i + 1, Len(path)))] : s \in steps[i]}

(* Slip: the popped directory gets an empty history again.                 *)
RepopulatedEmpty(F, path, segment) ==
  {Append(path, Segment(segment.dir, h, segment.name)) :
     h \in HistoryOf(segment.dir, segment.dir)}

(* repopulate_segment_histories, of one popped segment: the revision       *)
(* before it in its own history, which ends at the directory the older     *)
(* ancestor has at this name.                                              *)
Repopulated(F, path, segment) ==
  LET above == Last(path)
      older == IF HasEntry(above.dir, above.name)
               THEN LookupNode(F, above.dir, above.name) ELSE {}
      steps == UNION {PreviousNode(F, h) :
                        h \in UNION {HistoryOf(segment.dir, c) :
                                       c \in {o \in older : blocks[o].type = "dir"}}}
  IN {Append(path, Segment(CHOOSE c \in s.got : TRUE, s.history, segment.name)) :
        s \in {r \in steps : r.got # {}}}

End(it) == [iter |-> it, got |-> {}]

(* get_previous: where a lookup finds nothing, or two nodes at one path    *)
(* are unrelated, the history ends.                                        *)
GetPrevious(F, it) ==
  LET inTarget == PreviousNode(F, it.target)
      stepped  == SteppedSegment(F, it.path)
      paths    == UNION {FoldLeft(LAMBDA S, segment :
                                    UNION {Repopulated(F, path, segment) : path \in S},
                                  {s.path}, s.popped) :
                           s \in {r \in stepped : r.path # <<>>}}
      targets(path) ==
        LET above == Last(path)
        IN IF ~HasEntry(above.dir, above.name) THEN {}
           ELSE UNION {NodeHistory(it.target.header, it.target.previous, blocks[c].header) :
                         c \in LookupNode(F, above.dir, above.name)}
      found == UNION {{[iter |-> [path |-> path, target |-> s.history], got |-> s.got] :
                         s \in UNION {PreviousNode(F, h) : h \in targets(path)}} :
                        path \in paths}
  IN IF \A s \in inTarget : s.got # {}
     THEN {[iter |-> [it EXCEPT !.target = s.history], got |-> s.got] : s \in inTarget}
     ELSE IF found = {} THEN {End(it)} ELSE found

(* The nodes an iterator gives until it gives none.                        *)
Walks(F, it) ==
  LET step(w) == IF w.ended THEN {w}
                 ELSE {[iter  |-> g.iter,
                        nodes |-> w.nodes \o SetToSeq(g.got),
                        ended |-> g.got = {}] : g \in GetPrevious(F, w.iter)}
  IN {w.nodes : w \in FoldLeft(LAMBDA S, i : UNION {step(w) : w \in S},
                               {[iter |-> it, nodes |-> <<>>, ended |-> FALSE]},
                               [i \in 1 .. Cardinality(DOMAIN blocks) |-> i])}

--------------------------------------------------------------------------------
Roots == {key.cid : key \in keys}

Since(c, past) == (Ancestry(c) \ {c}) \ (Ancestry(past) \ {past})

Unforked(c, past) == past \in Ancestry(c) /\ \A r \in Ancestry(c) : ~IsMerge(r)

(* The revisions an iterator gives go back one by one from where it starts, *)
(* each linked from the one before, and where nothing forked on the path to *)
(* them no further than the node the past root has there.  A fork of the    *)
(* root may carry an older revision than both: the code compares ratchets,  *)
(* which are the same on both sides of the fork.                            *)
HistoryStepsBack ==
  \A d \in Devices : \A root, past \in Roots : \A p \in Paths \ {<<>>} :
    \A searchLatest \in BOOLEAN :
      \A it \in PathHistory(forest[d], root, past, p, searchLatest) :
        \A nodes \in Walks(forest[d], it) : \A i \in DOMAIN nodes :
          /\ \E l \in (IF i = 1 THEN it.target.previous ELSE blocks[nodes[i - 1]].previous) :
                l.back = 1 /\ l.cid = nodes[i]
          /\ \A new \in PathNodes(forest[d], root, p), old \in PathNodes(forest[d], past, p) :
                /\ \A k \in DOMAIN new : Unforked(new[k], old[k])
                /\ blocks[Last(old)].header.id = blocks[nodes[i]].header.id
                => blocks[nodes[i]].header.rev >= blocks[Last(old)].header.rev

(* Each revision of a directory from c back to past has another revision   *)
(* of the entry than the one before it.                                    *)
EachChanges(c, past, name) ==
  \A r \in Ancestry(c) \ Ancestry(past) : \A l \in blocks[r].previous :
    /\ HasEntry(r, name) /\ HasEntry(l.cid, name)
    /\ LET e == blocks[r].entries[name]
           f == blocks[l.cid].entries[name]
       IN e.label.id = f.label.id /\ e.label.rev > f.label.rev

(* get_previous returns None when there are no more previous revisions:    *)
(* so all of them came, where nothing forked.  This takes that each        *)
(* revision of a directory on the path changes the entry that is followed; *)
(* the history ends at one that does not.  It also takes that there is at  *)
(* most one directory below the root: repopulate_segment_histories takes   *)
(* the popped ones from the deepest up, with the wrong ancestors.          *)
HistoryIsComplete ==
  \A d \in Devices : \A root, past \in Roots : \A p \in {q \in Paths : Len(q) \in 1 .. 2} :
    \A new \in PathNodes(forest[d], root, p), old \in PathNodes(forest[d], past, p) :
      /\ \A i \in DOMAIN new : Unforked(new[i], old[i])
      /\ \A i \in DOMAIN p : EachChanges(new[i], old[i], p[i])
      => \A it \in PathHistory(forest[d], root, past, p, FALSE) :
           \A nodes \in Walks(forest[d], it) :
             Range(nodes) = Since(Last(new), Last(old))
================================================================================
