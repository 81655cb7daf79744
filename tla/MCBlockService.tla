---------------------------- MODULE MCBlockService ----------------------------
(* Small instances of BlockService. *)
EXTENDS BlockService, TLC

MCAllOps == Checked \cup {"getAllKey", "closeBlock"}
\* One operation of each kind, of clients that never close a block.
MCNoClose == {"read", "removeBlock", "setBlockConfig", "getAllKey"}
\* Operations that open stores and close them.
MCTwoOps == {"read", "closeBlock"}
\* The one that does both by itself.
MCClose == {"closeBlock"}

MCSymmetry == Permutations(Ids) \cup Permutations(Blocks) \cup Permutations(Services)
=============================================================================
