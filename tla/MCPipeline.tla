----------------------------- MODULE MCPipeline -----------------------------
(* Small instances of Pipeline for TLC.                                    *)
EXTENDS Pipeline, TLC

\* Nothing tells one peer from another.
Symmetric == Permutations(Peer)
=============================================================================
