------------------------------- MODULE MCYac -------------------------------
(* Small instances of Yac for TLC.                                         *)
EXTENDS Yac, TLC

CONSTANTS p1, p2, p3, p4, h1, h2

Order4 == <<p1, p2, p3, p4>>
Order2 == <<p1, p2>>

\* YacHashProviderImpl gives both hashes of a YacHash the hash of the block.
SameHash == [h \in Hash |-> h]

\* Every hash is a block of the same height.
OneHeight == [h \in Hash |-> 1]

\* Each peer signs its votes with its own key.
OwnKey == [p \in Peer |-> {p}]

\* The provider built into irohad leaves the signature of a vote unset.
AnyKey == [p \in Peer |-> Voter]

\* h1 is the block of height 1, h2 the block of height 2.
TwoHeights == [h \in Hash |-> IF h = h1 THEN 1 ELSE 2]

\* Peers that lead no round within the bound are interchangeable, and so are
\* blocks of one height.
Symmetric == Permutations(Peer \ {p1}) \cup Permutations(Hash)
=============================================================================
