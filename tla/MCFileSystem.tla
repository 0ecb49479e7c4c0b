--------------------------- MODULE MCFileSystem ---------------------------
\* FileSystem on small volumes; MCLookup checks how files are found.
EXTENDS FileSystem, MCLookup

CONSTANTS empty, full, h1, h2

(* One file without a cluster, one with a chain that is not in order, the   *)
(* second cluster left from a write that failed.                            *)
MCVolumes == {
  [fat |-> (2 :> FREE @@ 3 :> EOC @@ 4 :> 3 @@ 5 :> FREE),
   entry |-> (empty :> [first |-> NONE, size |-> 0] @@
              full :> [first |-> 4, size |-> 3])] }

\* The handles are alike.
Symmetry == Permutations({h1, h2})
=============================================================================
