----------------------------- MODULE MCMeshWalk -----------------------------
EXTENDS MeshWalk

(* All nodes, and the first row of numbers beyond the mesh. *)
MCDests == 0 .. K * K + K - 1
=============================================================================
