-------------------------- MODULE MCDirectoryFeed --------------------------
(* Model values for DirectoryFeed: the root and one directory below it.    *)
EXTENDS DirectoryFeed, TLC
CONSTANTS r, d
MCDir == {r, d}
=============================================================================
