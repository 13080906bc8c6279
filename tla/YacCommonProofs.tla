-------------------------- MODULE YacCommonProofs --------------------------
(* Supermajorities of a finite set of peers.                               *)
EXTENDS YacCommon, FiniteSetTheorems, TLAPS

\* The cardinality of a set of peers is a natural up to the number of peers.
LEMMA SubsetCardinality ==
    ASSUME NEW P, IsFiniteSet(P), NEW S \in SUBSET P
    PROVE  /\ IsFiniteSet(S)
           /\ Cardinality(S) \in Nat
           /\ Cardinality(P) \in Nat
           /\ Cardinality(S) <= Cardinality(P)
BY FS_Subset, FS_CardinalityType

\* Two supermajorities in the sense of hasSupermajority share more than a
\* third of the peers, for every number of peers: with 3f + 1 peers, f + 1.
THEOREM SupermajoritiesOverlap ==
    ASSUME NEW P, IsFiniteSet(P),
           NEW S \in SUBSET P, NEW T \in SUBSET P,
           hasSupermajority(Cardinality(S), Cardinality(P)),
           hasSupermajority(Cardinality(T), Cardinality(P))
    PROVE  3 * Cardinality(S \cap T) >= Cardinality(P) + 2
<1>1. /\ S \cup T \in SUBSET P
      /\ S \cap T \in SUBSET P
  OBVIOUS
<1>2. Cardinality(S \cup T) = Cardinality(S) + Cardinality(T) - Cardinality(S \cap T)
  BY SubsetCardinality, FS_Union
<1>3. Cardinality(S \cup T) <= Cardinality(P)
  BY <1>1, SubsetCardinality
<1>4. /\ Cardinality(S) \in Nat
      /\ Cardinality(T) \in Nat
      /\ Cardinality(S \cap T) \in Nat
      /\ Cardinality(P) \in Nat
  BY <1>1, SubsetCardinality
<1> QED
  BY <1>2, <1>3, <1>4 DEF hasSupermajority

\* A supermajority stays one when voters are added.
LEMMA SupermajorityGrows ==
    ASSUME NEW P, IsFiniteSet(P), NEW T \in SUBSET P, NEW S \in SUBSET T,
           hasSupermajority(Cardinality(S), Cardinality(P))
    PROVE  hasSupermajority(Cardinality(T), Cardinality(P))
<1>1. /\ IsFiniteSet(T)
      /\ Cardinality(T) \in Nat
      /\ Cardinality(P) \in Nat
      /\ Cardinality(T) <= Cardinality(P)
  BY SubsetCardinality
<1>2. Cardinality(S) \in Nat /\ Cardinality(S) <= Cardinality(T)
  BY <1>1, SubsetCardinality
<1> QED
  BY <1>1, <1>2 DEF hasSupermajority
=============================================================================
