---------------------------- MODULE MCDevDBFile ----------------------------
(***************************************************************************)
(* DevDBFile, the length of a text being that of its notes, up to a        *)
(* constant per record.                                                    *)
(***************************************************************************)
EXTENDS DevDBFile, Functions, TLC

MCLenOf(d) == 1 + FoldFunction(+, 0, d)

Unordered == Permutations(Savers) \union Permutations(Inodes)
=============================================================================
