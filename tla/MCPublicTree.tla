------------------------------ MODULE MCPublicTree ------------------------------
EXTENDS PublicTree

CONSTANTS x, y

(* Two entries of the root, each a file, or a directory with one entry.    *)
TwoFolders == {<<>>, <<x>>, <<y>>, <<x, x>>, <<y, x>>}

(* One directory with one entry.                                           *)
OneFolder == {<<>>, <<x>>, <<x, y>>}
================================================================================
