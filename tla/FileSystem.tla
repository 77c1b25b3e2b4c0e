------------------------------- MODULE FileSystem -------------------------------
(***************************************************************************)
(* What a directory of WNFS promises: a tree of folders and files that is  *)
(* edited, saved and opened again, with nothing of how it is stored.       *)
(* PublicTree and PrivateTree implement it.                                *)
(***************************************************************************)
EXTENDS FiniteSets, SequencesExt

CONSTANTS
  Replicas,    \* processes with a tree of their own
  Paths,       \* paths in use, <<>> is the root
  Contents     \* contents of a file

VARIABLES
  fs,          \* replica |-> path |-> what is there
  saved        \* the trees that were saved and can be opened

fsVars == <<fs, saved>>

Nothing == [type |-> "absent"]
Folder  == [type |-> "dir"]
FileWith(content) == [type |-> "file", content |-> content]

Below(p, q) == IsStrictPrefix(p, q)

EmptyTree == [p \in Paths |-> IF p = <<>> THEN Folder ELSE Nothing]

IsFile(f, p) == f[p].type = "file"

(* Only folders have something below them, and the root is one.            *)
IsTree(f) ==
  /\ f[<<>>] = Folder
  /\ \A p, q \in Paths : Below(p, q) /\ f[q] # Nothing => f[p] = Folder

WithFoldersAbove(f, p) ==
  [q \in Paths |-> IF Below(q, p) THEN Folder ELSE f[q]]

Without(f, p) == [q \in Paths |-> IF IsPrefix(p, q) THEN Nothing ELSE f[q]]

(* f with the subtree that g has at `from` placed at `to`.                 *)
Suffix(p, q) == SubSeq(q, Len(p) + 1, Len(q))
At(g, p) == IF p \in Paths THEN g[p] ELSE Nothing
Grafted(f, g, from, to) ==
  [q \in Paths |-> IF IsPrefix(to, q) THEN At(g, from \o Suffix(to, q)) ELSE f[q]]

HasRoomAt(f, p) == f[Front(p)] = Folder /\ f[p] = Nothing

--------------------------------------------------------------------------------
(* What an operation makes of a tree f, where it can be done.              *)

TakesFile(f, p) ==
  f[p] # Folder /\ \A q \in Paths : Below(q, p) => ~IsFile(f, q)
WithFileAt(f, p, x) == [WithFoldersAbove(f, p) EXCEPT ![p] = FileWith(x)]

TakesFolder(f, p) == \A q \in Paths : IsPrefix(q, p) => ~IsFile(f, q)
WithFolderAt(f, p) == [WithFoldersAbove(f, p) EXCEPT ![p] = Folder]

CanMove(f, from, to) == f[from] # Nothing /\ HasRoomAt(Without(f, from), to)
WithMoved(f, from, to) == Grafted(Without(f, from), f, from, to)

Write(f, g) ==
  \E p \in Paths \ {<<>>}, x \in Contents : TakesFile(f, p) /\ g = WithFileAt(f, p, x)

MakeFolder(f, g) == \E p \in Paths : TakesFolder(f, p) /\ g = WithFolderAt(f, p)

Delete(f, g) == \E p \in Paths \ {<<>>} : g = Without(f, p)

Move(f, g) ==
  \E from, to \in Paths \ {<<>>} : CanMove(f, from, to) /\ g = WithMoved(f, from, to)

Copy(f, g) ==
  \E from, to \in Paths \ {<<>>} :
    /\ f[from] # Nothing
    /\ HasRoomAt(f, to)
    /\ g = Grafted(f, f, from, to)

Open(g) == g \in saved

(* Reconciling with a saved tree makes nothing up: each path has what it   *)
(* had on one of the sides, and folders hold the result together.          *)
Reconcile(f, g) ==
  /\ \E h \in saved : \A p \in Paths : g[p] \in {f[p], h[p]}
  /\ IsTree(g)

--------------------------------------------------------------------------------
Init == fs = [r \in Replicas |-> EmptyTree] /\ saved = {EmptyTree}

(* A replica edits its tree, or takes in a saved one, or saves its own;    *)
(* reconciling may save it on the way.                                     *)
Next ==
  \E r \in Replicas : \E f \in {fs[r]}, g \in {fs'[r]} :
    /\ \/ /\ \/ Write(f, g) \/ MakeFolder(f, g) \/ Delete(f, g)
             \/ Move(f, g) \/ Copy(f, g)
             \/ Open(g)
          /\ UNCHANGED saved
       \/ /\ g = f
          /\ saved' = saved \cup {f}
       \/ /\ Reconcile(f, g)
          /\ saved' \in {saved, saved \cup {f}}
    /\ fs' = [fs EXCEPT ![r] = g]

Spec == Init /\ [][Next]_fsVars
================================================================================
