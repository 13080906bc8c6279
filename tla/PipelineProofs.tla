--------------------------- MODULE PipelineProofs ---------------------------
(***************************************************************************)
(* Proofs about the way of a transaction to the ledgers, for every number  *)
(* of peers, of transactions and of proposals. One thread runs             *)
(* generateProposal: with two there may be two proposals of one height.    *)
(***************************************************************************)
EXTENDS Pipeline, YacCommonProofs, SequenceTheorems, WellFoundedInduction, TLAPS

OneThread == \A t, u \in Thread : t = u

\* One proposal is made at a time; heights are used once.
Ordered ==
    /\ \A m, n \in making : m = n
    /\ \A m \in making : m.height = proposal_height
    /\ \A m \in proposals : m.height < proposal_height
    /\ \A m, n \in proposals : m.to = n.to /\ m.height = n.height => m = n

\* A vote is for a block made of a proposal that was delivered.
Voted ==
    \A p \in Peer : \A h \in cast[p] :
        /\ Len(h) >= 1 /\ Len(h) + 1 < proposal_height
        /\ \A m \in proposals : m.to = p => m.height # Len(h) + 1

PipelineInv == TypeOK /\ Ordered /\ Voted /\ VotesOncePerHeight /\ LedgerIsVoted
-----------------------------------------------------------------------------
(* Facts about the stateful validation                                     *)

\* A set of natural numbers has a least one.
LEMMA Least ==
    ASSUME NEW T, T \subseteq Nat, T # {}
    PROVE  \E x \in T : \A y \in T : x <= y
<1> DEFINE R == OpToRel(<, Nat)
<1>1. IsWellFoundedOn(R, Nat)
  BY ZenonT(60), NatLessThanWellFounded
<1>2. \A x, y \in Nat : x < y => <<x, y>> \in R
  BY DEF OpToRel
<1> HIDE DEF R
<1>3. PICK x \in T : \A y \in T : ~ (<<y, x>> \in R)
  BY ZenonT(60), <1>1, WFMin
<1>4. \A y \in T : ~(y < x)
  BY ZenonT(60), <1>2, <1>3
<1>5. \A y \in T : x <= y
  BY <1>4
<1> QED
  BY <1>5

\* What the stateful validator makes of a proposal is a list of transactions.
LEMMA ValidateType ==
    ASSUME NEW txs \in Seq(Tx)
    PROVE  validate(txs) \in Seq(Tx)
<1> DEFINE n == Len(txs)
           Step(f, i) == IF i = 0 THEN <<>>
            ELSE IF txs[i] \in Valid THEN Append(f[i - 1], txs[i]) ELSE f[i - 1]
           Is(f, k) == f = [i \in 0 .. k |-> Step(f, i)]
           c == CHOOSE f : Is(f, n)
<1>1. validate(txs) = c[n]
  BY DEF validate
<1>2. n \in Nat /\ \A i \in 1 .. n : txs[i] \in Tx
  BY LenProperties
<1> HIDE DEF n
<1>3. \E f : Is(f, n)
  <2> DEFINE Bad == {k \in 0 .. n : ~ \E f : Is(f, k)}
  <2> HIDE DEF Is
  <2> SUFFICES ASSUME Bad # {} PROVE FALSE
    BY <1>2
  <2>0. Bad \subseteq Nat
    BY <1>2
  <2>1. PICK k \in Bad : \A j \in Bad : k <= j
    <3> HIDE DEF Bad
    <3> QED
      BY ZenonT(60), <2>0, Least
  <2>2. k \in 0 .. n /\ ~ \E f : Is(f, k)
    OBVIOUS
  <2>3. k # 0
    <3>1. Is([i \in 0 .. 0 |-> <<>>], 0)
      BY DEF Is
    <3> QED
      BY <2>2, <3>1
  <2>4. k - 1 \in 0 .. n /\ k - 1 \notin Bad
    BY <1>2, <2>1, <2>2, <2>3
  <2>5. PICK f : Is(f, k - 1)
    BY <2>4
  <2> DEFINE g == [i \in 0 .. k |-> IF i = k THEN Step(f, k) ELSE f[i]]
  <2>6. \A i \in 0 .. k : g[i] = Step(g, i)
    <3> HIDE DEF g, Step
    <3> SUFFICES ASSUME NEW i \in 0 .. k PROVE g[i] = Step(g, i)
      BY Zenon
    <3> USE DEF g, Step
    <3>1. i # 0 => g[i - 1] = f[i - 1]
      BY <1>2, <2>2
    <3>2. Step(g, i) = Step(f, i)
      BY <3>1
    <3> HIDE DEF Step
    <3>3. i # k => f[i] = Step(f, i)
      <4>1. i # k => i \in 0 .. k - 1
        BY <1>2, <2>2
      <4>2. \A j \in 0 .. k - 1 : f[j] = Step(f, j)
        <5>1. f = [j \in 0 .. k - 1 |-> Step(f, j)]
          BY <2>5 DEF Is
        <5> HIDE DEF g, Is
        <5> QED
          BY Zenon, <5>1
      <4> QED
        BY <4>1, <4>2
    <3> QED
      BY <3>2, <3>3
  <2>7. Is(g, k)
    <3> HIDE DEF Step
    <3>1. g = [i \in 0 .. k |-> g[i]]
      OBVIOUS
    <3> HIDE DEF g
    <3>2. [i \in 0 .. k |-> g[i]] = [i \in 0 .. k |-> Step(g, i)]
      BY <2>6
    <3> QED
      BY <3>1, <3>2 DEF Is
  <2> HIDE DEF g
  <2> QED
    BY <2>2, <2>7
<1>4. Is(c, n)
  <2> HIDE DEF Is
  <2> QED
  BY <1>3
<1> HIDE DEF c
<1>5. \A i \in 0 .. n : c[i] = Step(c, i)
  <2> HIDE DEF Step
  <2> QED
    BY ZenonT(60), <1>4
<1>6. c[n] \in Seq(Tx)
  <2> DEFINE Bad == {k \in 0 .. n : c[k] \notin Seq(Tx)}
  <2> SUFFICES ASSUME Bad # {} PROVE FALSE
    BY <1>2
  <2>0. Bad \subseteq Nat
    BY <1>2
  <2>1. PICK k \in Bad : \A j \in Bad : k <= j
    <3> HIDE DEF Bad
    <3> QED
      BY ZenonT(60), <2>0, Least
  <2>2. k \in 0 .. n /\ c[k] \notin Seq(Tx) /\ c[k] = Step(c, k)
    BY <1>5
  <2>3. k # 0
    BY <2>2, EmptySeq
  <2>4. k - 1 \in 0 .. n /\ c[k - 1] \in Seq(Tx)
    BY <1>2, <2>1, <2>2, <2>3
  <2>5. Append(c[k - 1], txs[k]) \in Seq(Tx)
    BY <1>2, <2>2, <2>3, <2>4, AppendProperties
  <2> QED
    BY <2>2, <2>3, <2>4, <2>5
<1> QED
  BY <1>1, <1>6
-----------------------------------------------------------------------------
(* Facts about majorities and about prefixes                               *)

Majority(S) == 3 * Cardinality(S) > 2 * N

\* More voters are a majority, too.
LEMMA MajorityGrows ==
    ASSUME NEW T \in SUBSET Peer, NEW S \in SUBSET T, Majority(S)
    PROVE  Majority(T)
<1>1. IsFiniteSet(T) /\ Cardinality(T) \in Nat /\ N \in Nat
  BY PipelineAssumption, SubsetCardinality DEF N
<1>2. Cardinality(S) \in Nat /\ Cardinality(S) <= Cardinality(T)
  BY <1>1, SubsetCardinality
<1> QED
  BY <1>1, <1>2 DEF Majority

\* Two majorities have a peer in common.
LEMMA MajoritiesMeet ==
    ASSUME NEW S \in SUBSET Peer, NEW T \in SUBSET Peer, Majority(S), Majority(T)
    PROVE  \E p \in Peer : p \in S /\ p \in T
<1>1. /\ IsFiniteSet(Peer) /\ N \in Nat
      /\ Cardinality(S) \in Nat /\ Cardinality(S) <= N
      /\ Cardinality(T) \in Nat /\ Cardinality(T) <= N
  BY PipelineAssumption, SubsetCardinality DEF N
<1>2. hasSupermajority(Cardinality(S), N) /\ hasSupermajority(Cardinality(T), N)
  BY <1>1 DEF Majority, hasSupermajority
<1>3. 3 * Cardinality(S \cap T) >= N + 2
  BY SMTT(40), <1>1, <1>2, SupermajoritiesOverlap DEF N
<1>4. S \cap T # {}
  <2> SUFFICES ASSUME S \cap T = {} PROVE FALSE
    OBVIOUS
  <2>1. Cardinality(S \cap T) = 0
    BY FS_EmptySet
  <2> HIDE DEF N
  <2> QED
    BY <1>1, <1>3, <2>1
<1> QED
  BY <1>4

\* The beginnings of a block are the ones of the blocks below it.
LEMMA Beginnings ==
    ASSUME NEW h \in Hash
    PROVE  /\ SubSeq(h, 1, Len(h)) = h
           /\ \A k \in 1 .. Len(h) : SubSeq(h, 1, k) \in Hash /\ Len(SubSeq(h, 1, k)) = k
           /\ \A k \in 1 .. Len(h) - 1 : SubSeq(Front(h), 1, k) = SubSeq(h, 1, k)
           /\ Len(h) >= 1 => Len(Front(h)) = Len(h) - 1
<1>1. Len(h) \in Nat /\ h \in [1 .. Len(h) -> Seq(Tx)]
  BY LenProperties DEF Hash
<1>2. SubSeq(h, 1, Len(h)) = h
  BY <1>1, SubSeqFull DEF Hash
<1>3. ASSUME NEW k \in 0 .. Len(h)
      PROVE  SubSeq(h, 1, k) = [i \in 1 .. k |-> h[i]] /\ SubSeq(h, 1, k) \in Hash
  BY <1>1, SubSeqProperties DEF Hash
<1>4. \A k \in 1 .. Len(h) : SubSeq(h, 1, k) \in Hash /\ Len(SubSeq(h, 1, k)) = k
  BY <1>1, <1>3
<1>5. \A k \in 1 .. Len(h) - 1 : SubSeq(Front(h), 1, k) = SubSeq(h, 1, k)
  BY <1>1, <1>3 DEF Front
<1>6. Len(h) >= 1 => Len(Front(h)) = Len(h) - 1
  BY <1>1, <1>3 DEF Front
<1> QED
  BY ZenonT(60), <1>2, <1>4, <1>5, <1>6
-----------------------------------------------------------------------------
(* The invariant is inductive                                              *)

LEMMA InitPipelineInv == Init => PipelineInv
<1> SUFFICES ASSUME Init PROVE PipelineInv
  OBVIOUS
<1>1. <<>> \in Seq(Tx) /\ <<>> \in Hash /\ Len(<<>>) = 0
  BY EmptySeq DEF Hash
<1>2. TypeOK
  BY <1>1 DEF Init, TypeOK
<1>3. Ordered /\ Voted /\ VotesOncePerHeight
  BY DEF Init, Ordered, Voted, VotesOncePerHeight
<1>4. LedgerIsVoted
  BY <1>1 DEF Init, LedgerIsVoted
<1> QED
  BY <1>2, <1>3, <1>4 DEF PipelineInv

\* What only reads ledgers and votes.
LEMMA SameVotes ==
    ASSUME PipelineInv, UNCHANGED <<ledger, cast>>
    PROVE  VotesOncePerHeight' /\ LedgerIsVoted'
BY DEF PipelineInv, VotesOncePerHeight, LedgerIsVoted, Gate!Voters

\* Taken and Left split the queue.
LEMMA QueueTypes ==
    ASSUME NEW q \in Seq(Tx)
    PROVE  Taken(q) \in Seq(Tx) /\ Left(q) \in Seq(Tx)
<1>1. Len(q) \in Nat /\ max_size \in Nat /\ \A i \in 1 .. Len(q) : q[i] \in Tx
  BY PipelineAssumption, LenProperties
<1>2. Taken(q) \in Seq(Tx)
  BY <1>1, SubSeqProperties DEF Taken
<1>3. Len(Taken(q)) \in Nat
  BY <1>2, LenProperties
<1>4. Left(q) \in Seq(Tx)
  BY <1>1, <1>3, SubSeqProperties DEF Left
<1> QED
  BY <1>2, <1>4

\* generateProposal begins.
LEMMA BeginInv ==
    ASSUME OneThread, PipelineInv, NEW t \in Thread, NEW q \in Seq(Tx), Begin(t, q),
           received' \in Seq(Tx), UNCHANGED <<proposal_height, proposals, ledger, gate>>
    PROVE  PipelineInv'
<1> DEFINE new == [thread |-> t, height |-> proposal_height, transactions |-> Taken(q)]
<1>1. TypeOK /\ Ordered /\ Voted
  BY DEF PipelineInv
<1>2. making = {} /\ making' = {new}
  <2>1. \A m \in making : m.thread = t
    BY <1>1 DEF TypeOK, OneThread
  <2> QED
    BY <2>1 DEF Begin
<1>3. queue' = Left(q) /\ queue' \in Seq(Tx) /\ Taken(q) \in Seq(Tx)
  BY QueueTypes DEF Begin
<1>4. TypeOK'
  BY <1>1, <1>2, <1>3 DEF TypeOK, gate
<1>5. Ordered'
  <2>1. new.height = proposal_height
    OBVIOUS
  <2> HIDE DEF new
  <2> QED
    BY <1>1, <1>2, <2>1 DEF Ordered
<1>6. Voted'
  BY <1>1 DEF Voted, gate
<1> QED
  BY <1>4, <1>5, <1>6, SameVotes DEF PipelineInv, gate

\* OrderingServiceImpl::SendTransaction
LEMMA SendTransactionInv ==
    ASSUME OneThread, PipelineInv, NEW tx \in Tx, NEW t \in Thread, SendTransaction(tx, t)
    PROVE  PipelineInv'
<1>1. TypeOK /\ Ordered /\ Voted
  BY DEF PipelineInv
<1>2. Append(queue, tx) \in Seq(Tx) /\ received' \in Seq(Tx)
  BY <1>1, AppendProperties DEF TypeOK, SendTransaction
<1>3. UNCHANGED <<proposal_height, proposals, ledger, gate>>
  BY DEF SendTransaction
<1>4. CASE Begin(t, Append(queue, tx))
  BY ZenonT(60), <1>2, <1>3, <1>4, BeginInv
<1>5. CASE queue' = Append(queue, tx) /\ UNCHANGED making
  <2>1. TypeOK'
    BY <1>1, <1>2, <1>3, <1>5 DEF TypeOK, gate
  <2>2. Ordered' /\ Voted'
    BY <1>1, <1>3, <1>5 DEF Ordered, Voted, gate
  <2> QED
    BY <1>3, <2>1, <2>2, SameVotes DEF PipelineInv, gate
<1> QED
  BY <1>4, <1>5 DEF SendTransaction

\* OrderingServiceImpl::publishProposal
LEMMA PublishProposalInv ==
    ASSUME PipelineInv, NEW m \in making, publishProposal(m)
    PROVE  PipelineInv'
<1> DEFINE To(p) == [to |-> p, height |-> m.height, transactions |-> m.transactions]
<1>1. TypeOK /\ Ordered /\ Voted
  BY DEF PipelineInv
<1>2. /\ proposal_height' = m.height + 1 /\ making' = making \ {m}
      /\ proposals' = proposals \cup {To(p) : p \in Peer}
      /\ UNCHANGED <<received, queue, ledger, gate>>
  BY DEF publishProposal
<1>3. m.height = proposal_height /\ proposal_height \in Nat /\ m.transactions \in Seq(Tx)
  BY <1>1 DEF Ordered, TypeOK
<1>4. making' = {}
  BY SMTT(40), <1>1, <1>2 DEF Ordered
<1>5. \A p \in Peer : /\ To(p) \in Proposal /\ To(p).to = p
                      /\ To(p).height = proposal_height
  BY <1>3 DEF Proposal
<1>6. \A n \in proposals : n.height \in Nat
  BY <1>1 DEF TypeOK, Proposal
<1> HIDE DEF To
<1>7. TypeOK'
  <2>1. proposals' \subseteq Proposal
    BY <1>1, <1>2, <1>5 DEF TypeOK
  <2>2. proposal_height' \in Nat
    BY <1>2, <1>3
  <2> QED
    BY SMTT(40), <1>1, <1>2, <1>4, <2>1, <2>2 DEF TypeOK, gate
<1>8. Ordered'
  <2>1. \A n \in proposals' : n.height < proposal_height'
    BY <1>1, <1>2, <1>3, <1>5, <1>6 DEF Ordered
  <2>2. ASSUME NEW x \in proposals', NEW y \in proposals', x.to = y.to, x.height = y.height
        PROVE  x = y
    <3>1. \A n \in proposals : n.height # proposal_height
      BY <1>1, <1>3, <1>6 DEF Ordered
    <3>2. CASE x \in proposals
      BY SMTT(40), <1>1, <1>2, <1>5, <2>2, <3>1, <3>2 DEF Ordered
    <3>3. CASE x \notin proposals
      BY <1>1, <1>2, <1>5, <2>2, <3>1, <3>3 DEF Ordered
    <3> QED
      BY <3>2, <3>3
  <2> QED
    BY <1>4, <2>1, <2>2 DEF Ordered
<1>9. Voted'
  <2> SUFFICES ASSUME NEW p \in Peer, NEW h \in cast[p]
               PROVE  /\ Len(h) >= 1 /\ Len(h) + 1 < proposal_height'
                      /\ \A n \in proposals' : n.to = p => n.height # Len(h) + 1
    BY <1>2 DEF Voted, gate
  <2>1. /\ Len(h) >= 1 /\ Len(h) + 1 < proposal_height
        /\ \A n \in proposals : n.to = p => n.height # Len(h) + 1
    BY <1>1 DEF Voted
  <2>2. Len(h) \in Nat
    BY <1>1, LenProperties DEF TypeOK, Hash
  <2> QED
    BY <1>2, <1>3, <1>5, <2>1, <2>2
<1> QED
  BY <1>2, <1>7, <1>8, <1>9, SameVotes DEF PipelineInv, gate

\* OrderingGateImpl::SendProposal, with the simulator and the vote
LEMMA SendProposalInv ==
    ASSUME PipelineInv, NEW m \in proposals, SendProposal(m)
    PROVE  PipelineInv'
<1> DEFINE r == m.to
           block == Append(ledger[r], validate(m.transactions))
<1>1. TypeOK /\ Ordered /\ Voted /\ VotesOncePerHeight /\ LedgerIsVoted
  BY DEF PipelineInv
<1>2. /\ proposals' = proposals \ {m}
      /\ UNCHANGED <<received, queue, proposal_height, making, ledger, decided, emitted>>
  BY DEF SendProposal, ordering
<1>3. \/ UNCHANGED <<current_block, cast>>
      \/ /\ m.height = Len(ledger[r]) + 2
         /\ current_block' = [current_block EXCEPT ![r] = block]
         /\ cast' = [cast EXCEPT ![r] = @ \cup {block}]
  BY DEF SendProposal, Expected
<1>4. r \in Peer /\ m.height \in Nat /\ m.transactions \in Seq(Tx)
  BY <1>1 DEF TypeOK, Proposal
<1>5. Ordered'
  BY <1>1, <1>2 DEF Ordered
<1>6. CASE UNCHANGED <<current_block, cast>>
  <2>1. TypeOK' /\ Voted'
    BY <1>1, <1>2, <1>6 DEF TypeOK, Voted
  <2> QED
    BY <1>2, <1>5, <1>6, <2>1, SameVotes DEF PipelineInv
<1>7. CASE /\ m.height = Len(ledger[r]) + 2
           /\ current_block' = [current_block EXCEPT ![r] = block]
           /\ cast' = [cast EXCEPT ![r] = @ \cup {block}]
  <2>1. block \in Hash /\ Len(block) + 1 = m.height /\ Len(block) \in Nat /\ Len(block) >= 1
    <3>1. ledger[r] \in Hash /\ validate(m.transactions) \in Seq(Tx)
      BY <1>1, <1>4, ValidateType DEF TypeOK
    <3>2. Len(ledger[r]) \in Nat
      BY <3>1, LenProperties DEF Hash
    <3>3. block \in Hash /\ Len(block) = Len(ledger[r]) + 1
      BY <3>1, AppendProperties DEF Hash
    <3> HIDE DEF block
    <3> QED
      BY <1>7, <3>2, <3>3
  <2> HIDE DEF block
  <2>2. \A p \in Peer : cast'[p] = IF p = r THEN cast[r] \cup {block} ELSE cast[p]
    BY <1>1, <1>4, <1>7 DEF TypeOK
  <2>3. TypeOK'
    BY SMTT(40), <1>1, <1>2, <1>4, <1>7, <2>1 DEF TypeOK
  <2>4. \A p \in Peer : \A h \in cast[p] : Len(h) \in Nat /\ height[h] = Len(h) + 1
    BY <1>1, LenProperties DEF TypeOK, Hash, height
  <2>5. height[block] = m.height
    BY <2>1 DEF height
  <2>6. \A h \in cast[r] : Len(h) + 1 # m.height
    BY <1>1, <1>4 DEF Voted
  <2>7. Voted'
    <3> SUFFICES ASSUME NEW p \in Peer, NEW h \in cast'[p]
                 PROVE  /\ Len(h) >= 1 /\ Len(h) + 1 < proposal_height
                        /\ \A n \in proposals' : n.to = p => n.height # Len(h) + 1
      BY <1>2 DEF Voted
    <3>1. CASE h \in cast[p]
      BY <1>1, <1>2, <3>1 DEF Voted
    <3>2. CASE h \notin cast[p]
      <4>1. p = r /\ h = block
        BY <2>2, <3>2
      <4>2. m.height < proposal_height
        BY <1>1 DEF Ordered
      <4>3. \A n \in proposals' : n.to = r => n.height # m.height
        BY <1>1, <1>2 DEF Ordered
      <4> QED
        BY <2>1, <4>1, <4>2, <4>3
    <3> QED
      BY <3>1, <3>2
  <2>8. VotesOncePerHeight'
    <3> SUFFICES ASSUME NEW p \in Peer, NEW h \in cast'[p], NEW g \in cast'[p],
                        height[h] = height[g]
                 PROVE  h = g
      BY DEF VotesOncePerHeight
    <3>1. h \in cast[p] \/ (p = r /\ h = block)
      BY <2>2
    <3>2. g \in cast[p] \/ (p = r /\ g = block)
      BY <2>2
    <3>3. CASE h \in cast[p] /\ g \in cast[p]
      BY <1>1, <3>3 DEF VotesOncePerHeight
    <3>4. \A f \in cast[r] : height[f] # height[block]
      BY <1>4, <2>4, <2>5, <2>6
    <3> QED
      BY <3>1, <3>2, <3>3, <3>4
  <2>9. LedgerIsVoted'
    <3> SUFFICES ASSUME NEW p \in Peer, NEW k \in 1 .. Len(ledger[p])
                 PROVE  Majority(Gate!Voters(SubSeq(ledger[p], 1, k))')
      BY <1>2 DEF LedgerIsVoted, Majority, N, Gate!Voters
    <3> DEFINE h == SubSeq(ledger[p], 1, k)
    <3>1. Majority(Gate!Voters(h))
      BY <1>1 DEF LedgerIsVoted, Majority
    <3>2. Gate!Voters(h)' = {q \in Peer : h \in cast'[q]}
      BY <1>2 DEF Gate!Voters
    <3>3. Gate!Voters(h) = {q \in Peer : h \in cast[q]}
      BY DEF Gate!Voters
    <3> HIDE DEF h
    <3>4. {q \in Peer : h \in cast[q]} \subseteq {q \in Peer : h \in cast'[q]}
      BY <2>2
    <3>5. Majority({q \in Peer : h \in cast'[q]})
      BY <3>1, <3>3, <3>4, MajorityGrows
    <3> QED
      BY ZenonT(60), <3>2, <3>5 DEF h
  <2> QED
    BY <1>5, <2>3, <2>7, <2>8, <2>9 DEF PipelineInv
<1> QED
  BY SMTT(40), <1>3, <1>6, <1>7

\* The HashGate counts as Pipeline does.
LEMMA GateCounts ==
    /\ \A S : Gate!Cardinality(S) = Cardinality(S)
    /\ Gate!N = N
<1>1. ASSUME NEW S
      PROVE  Gate!Cardinality(S) = Cardinality(S)
  BY DEF Gate!Cardinality, Cardinality
<1> QED
  BY <1>1 DEF Gate!N, N

\* YacGateImpl::on_commit and SynchronizerImpl::process_commit
LEMMA OnCommitInv ==
    ASSUME PipelineInv, NEW p \in Peer, NEW h \in Cast, on_commit(p, h)
    PROVE  PipelineInv'
<1> DEFINE block == committed_block(p, h)
<1>1. TypeOK /\ Ordered /\ Voted /\ VotesOncePerHeight /\ LedgerIsVoted
  BY DEF PipelineInv
<1>2. /\ Majority(Gate!Voters(h))
      /\ decided' = [decided EXCEPT ![p] = @ \cup {h}]
      /\ emitted' = [emitted EXCEPT ![p] = block]
      /\ ledger' = IF validateBlock(p, block) THEN [ledger EXCEPT ![p] = block] ELSE ledger
      /\ UNCHANGED <<received, queue, proposal_height, making, proposals, current_block, cast>>
  <2>1. Gate!on_commit(p, h)
    BY DEF on_commit
  <2>3. /\ Majority(Gate!Voters(h)) /\ UNCHANGED cast
        /\ decided' = [decided EXCEPT ![p] = @ \cup {h}]
    BY <2>1, GateCounts DEF Gate!on_commit, Majority
  <2>4. /\ emitted' = [emitted EXCEPT ![p] = block]
        /\ ledger' = IF validateBlock(p, block) THEN [ledger EXCEPT ![p] = block] ELSE ledger
        /\ UNCHANGED <<received, queue, proposal_height, making, proposals, current_block>>
    BY DEF on_commit, ordering
  <2> HIDE DEF block
  <2> QED
    BY <2>3, <2>4
<1>3. h \in Hash /\ Len(h) \in Nat /\ Len(h) >= 1
  <2>1. PICK q \in Peer : h \in cast[q]
    BY SMTT(40) DEF Cast
  <2> QED
    BY <1>1, <2>1, LenProperties DEF TypeOK, Voted, Hash
<1>4. block \in Hash \cup {NoBlock} /\ (block # NoBlock => block = h)
  BY <1>3 DEF committed_block
<1>5. validateBlock(p, block) => block = h /\ Front(h) = ledger[p]
  BY <1>4 DEF validateBlock
<1> HIDE DEF block
<1>6. TypeOK'
  BY SMTT(40), <1>1, <1>2, <1>3, <1>4, <1>5 DEF TypeOK
<1>7. Ordered' /\ Voted' /\ VotesOncePerHeight'
  BY SMTT(40), <1>1, <1>2 DEF Ordered, Voted, VotesOncePerHeight
<1>8. LedgerIsVoted'
  <2> SUFFICES ASSUME NEW q \in Peer, NEW k \in 1 .. Len(ledger'[q])
               PROVE  Majority(Gate!Voters(SubSeq(ledger'[q], 1, k)))
    BY SMTT(40), <1>2 DEF LedgerIsVoted, Majority, N, Gate!Voters
  <2>1. \A x \in 1 .. Len(ledger[q]) : Majority(Gate!Voters(SubSeq(ledger[q], 1, x)))
    BY <1>1 DEF LedgerIsVoted, Majority
  <2>2. CASE ledger'[q] = ledger[q]
    BY <2>1, <2>2
  <2>3. CASE ledger'[q] # ledger[q]
    <3>1. q = p /\ ledger'[q] = h /\ Front(h) = ledger[q]
      BY <1>1, <1>2, <1>5, <2>3 DEF TypeOK
    <3>2. CASE k = Len(h)
      <4>1. SubSeq(h, 1, k) = h
        BY <1>3, <3>2, Beginnings
      <4> QED
        BY ZenonT(60), <1>2, <3>1, <4>1
    <3>3. CASE k # Len(h)
      <4>1. k \in 1 .. Len(h) - 1
        BY <1>3, <3>1, <3>3
      <4>2. SubSeq(h, 1, k) = SubSeq(ledger[q], 1, k) /\ k \in 1 .. Len(ledger[q])
        BY SMTT(40), <1>3, <3>1, <4>1, Beginnings
      <4> QED
        BY ZenonT(60), <2>1, <3>1, <4>2
    <3> QED
      BY <3>2, <3>3
  <2> QED
    BY <2>2, <2>3
<1> QED
  BY <1>6, <1>7, <1>8 DEF PipelineInv

LEMMA NextPipelineInv == OneThread => (PipelineInv /\ [Next]_vars => PipelineInv')
<1> SUFFICES ASSUME OneThread, PipelineInv, [Next]_vars PROVE PipelineInv'
  OBVIOUS
<1>1. ASSUME NEW tx \in Tx, NEW t \in Thread, SendTransaction(tx, t) PROVE PipelineInv'
  BY <1>1, SendTransactionInv
<1>2. ASSUME NEW t \in Thread, TimerEvent(t) PROVE PipelineInv'
  <2>1. queue \in Seq(Tx) /\ received' \in Seq(Tx)
    BY <1>2 DEF PipelineInv, TypeOK, TimerEvent
  <2> QED
    BY <1>2, <2>1, BeginInv DEF TimerEvent
<1>3. ASSUME NEW m \in making, publishProposal(m) PROVE PipelineInv'
  BY <1>3, PublishProposalInv
<1>4. ASSUME NEW m \in proposals, SendProposal(m) PROVE PipelineInv'
  BY <1>4, SendProposalInv
<1>5. ASSUME NEW p \in Peer, NEW h \in Cast, on_commit(p, h) PROVE PipelineInv'
  BY <1>5, OnCommitInv
<1>6. CASE UNCHANGED vars
  <2>1. TypeOK'
    BY SMTT(40), <1>6 DEF PipelineInv, TypeOK, vars, ordering, gate
  <2>2. Ordered' /\ Voted'
    BY SMTT(40), <1>6 DEF PipelineInv, Ordered, Voted, vars, ordering, gate
  <2> QED
    BY <1>6, <2>1, <2>2, SameVotes DEF PipelineInv, vars, gate
<1> QED
  BY <1>1, <1>2, <1>3, <1>4, <1>5, <1>6 DEF Next
-----------------------------------------------------------------------------
(* The theorems                                                            *)

\* No peer votes for two blocks of one height, whatever proposals are delayed,
\* reordered or dropped: the gate is used as the consensus expects it (simulator.cpp,
\* yac_gate_impl.cpp).
THEOREM PipelineVotesOnce == OneThread => (Spec => []VotesOncePerHeight)
<1> SUFFICES ASSUME OneThread PROVE Spec => []VotesOncePerHeight
  OBVIOUS
<1>1. PipelineInv /\ [Next]_vars => PipelineInv'
  BY NextPipelineInv
<1>2. PipelineInv => VotesOncePerHeight
  BY DEF PipelineInv
<1> QED
  BY <1>1, <1>2, InitPipelineInv, PTL DEF Spec

\* Each block of each ledger has the votes of more than two thirds of the peers
\* (synchronizer_impl.cpp, chain_validator_impl.cpp).
THEOREM PipelineIsVoted == OneThread => (Spec => []LedgerIsVoted)
<1> SUFFICES ASSUME OneThread PROVE Spec => []LedgerIsVoted
  OBVIOUS
<1>1. PipelineInv /\ [Next]_vars => PipelineInv'
  BY NextPipelineInv
<1>2. PipelineInv => LedgerIsVoted
  BY DEF PipelineInv
<1> QED
  BY <1>1, <1>2, InitPipelineInv, PTL DEF Spec

\* Two blocks of one height on two ledgers have a voter in common, who voted once.
LEMMA AgreeAt ==
    ASSUME PipelineInv, NEW p \in Peer, NEW q \in Peer,
           NEW k \in 1 .. Len(ledger[p]), k \in 1 .. Len(ledger[q])
    PROVE  SubSeq(ledger[p], 1, k) = SubSeq(ledger[q], 1, k)
<1> DEFINE h == SubSeq(ledger[p], 1, k)
           g == SubSeq(ledger[q], 1, k)
<1>1. ledger[p] \in Hash /\ ledger[q] \in Hash
  BY DEF PipelineInv, TypeOK
<1>2. h \in Hash /\ g \in Hash /\ Len(h) = k /\ Len(g) = k
  BY <1>1, Beginnings
<1>3. Majority(Gate!Voters(h)) /\ Majority(Gate!Voters(g))
  BY DEF PipelineInv, LedgerIsVoted, Majority
<1> HIDE DEF h, g
<1>4. PICK r \in Peer : r \in Gate!Voters(h) /\ r \in Gate!Voters(g)
  <2>1. Gate!Voters(h) \in SUBSET Peer /\ Gate!Voters(g) \in SUBSET Peer
    BY DEF Gate!Voters
  <2> QED
    BY <1>3, <2>1, MajoritiesMeet
<1>5. h \in cast[r] /\ g \in cast[r]
  BY <1>4 DEF Gate!Voters
<1>6. height[h] = height[g]
  BY <1>2 DEF height
<1>7. h = g
  BY SMTT(40), <1>5, <1>6 DEF PipelineInv, VotesOncePerHeight
<1> QED
  BY <1>7 DEF h, g

\* The ledgers of any two peers agree as far as both go, for every number of peers,
\* transactions and proposals (the whole way from ordering_service_impl.cpp to
\* synchronizer_impl.cpp).
THEOREM PipelineLedgersAgree == OneThread => (Spec => []LedgersAgree)
<1> SUFFICES ASSUME OneThread PROVE Spec => []LedgersAgree
  OBVIOUS
<1>1. PipelineInv /\ [Next]_vars => PipelineInv'
  BY NextPipelineInv
<1>2. ASSUME PipelineInv, NEW p \in Peer, NEW q \in Peer, Len(ledger[p]) <= Len(ledger[q])
      PROVE  IsPrefix(ledger[p], ledger[q])
  <2>1. ledger[p] \in Hash /\ ledger[q] \in Hash
    BY <1>2 DEF PipelineInv, TypeOK
  <2>2. Len(ledger[p]) \in Nat /\ Len(ledger[q]) \in Nat
    BY <2>1, LenProperties DEF Hash
  <2>3. SubSeq(ledger[p], 1, Len(ledger[p])) = SubSeq(ledger[q], 1, Len(ledger[p]))
    <3>1. CASE Len(ledger[p]) = 0
      BY <3>1, SubSeqEmpty
    <3>2. CASE Len(ledger[p]) # 0
      BY <1>2, <2>2, <3>2, AgreeAt
    <3> QED
      BY <3>1, <3>2
  <2> QED
    BY <1>2, <2>3 DEF IsPrefix
<1>3. PipelineInv => LedgersAgree
  <2> SUFFICES ASSUME PipelineInv, NEW p \in Peer, NEW q \in Peer
               PROVE  IsPrefix(ledger[p], ledger[q]) \/ IsPrefix(ledger[q], ledger[p])
    BY DEF LedgersAgree
  <2>1. Len(ledger[p]) \in Nat /\ Len(ledger[q]) \in Nat
    BY LenProperties DEF PipelineInv, TypeOK, Hash
  <2>2. Len(ledger[p]) <= Len(ledger[q]) \/ Len(ledger[q]) <= Len(ledger[p])
    BY <2>1
  <2> QED
    BY <1>2, <2>2
<1> QED
  BY <1>1, <1>3, InitPipelineInv, PTL DEF Spec

\* What SendProposal does to the votes.
LEMMA SendProposalVotes ==
    ASSUME PipelineInv, NEW m \in proposals, SendProposal(m), cast' # cast
    PROVE  \E p \in Peer : \E h \in Hash :
              /\ \A g \in cast[p] : height[g] # height[h]
              /\ cast' = [cast EXCEPT ![p] = @ \cup {h}]
<1> DEFINE r == m.to
           block == Append(ledger[r], validate(m.transactions))
<1>1. r \in Peer /\ m.transactions \in Seq(Tx) /\ ledger[r] \in Hash
  BY DEF PipelineInv, TypeOK, Proposal
<1>2. m.height = Len(ledger[r]) + 2 /\ cast' = [cast EXCEPT ![r] = @ \cup {block}]
  BY DEF SendProposal, Expected
<1>3. block \in Hash /\ Len(block) = Len(ledger[r]) + 1 /\ Len(ledger[r]) \in Nat
  <2>1. validate(m.transactions) \in Seq(Tx) /\ Len(ledger[r]) \in Nat
    BY <1>1, ValidateType, LenProperties DEF Hash
  <2> QED
    BY <1>1, <2>1, AppendProperties DEF Hash
<1> HIDE DEF block
<1>4. height[block] = m.height
  BY SMTT(40), <1>2, <1>3 DEF height
<1>5. \A g \in cast[r] : height[g] = Len(g) + 1
  BY <1>1 DEF PipelineInv, TypeOK, height
<1>6. \A g \in cast[r] : height[g] # height[block]
  BY <1>1, <1>4, <1>5 DEF PipelineInv, Voted
<1> QED
  BY ZenonT(60), <1>1, <1>2, <1>3, <1>6

\* Simulator and gate are an environment that HashGate allows: together with the
\* consensus they implement the HashGate in which no peer votes twice at a height, from
\* which the Consistency of HashGate follows (yac_gate_impl.cpp).
THEOREM PipelineUsesGate == OneThread => (Spec => Gate!Spec)
<1> SUFFICES ASSUME OneThread PROVE Spec => Gate!Spec
  OBVIOUS
<1>1. PipelineInv /\ [Next]_vars => PipelineInv'
  BY NextPipelineInv
<1>2. Init => Gate!Init
  BY DEF Init, Gate!Init
<1>3. PipelineInv /\ [Next]_vars => [Gate!Next]_Gate!vars
  <2> SUFFICES ASSUME PipelineInv, [Next]_vars PROVE [Gate!Next]_Gate!vars
    OBVIOUS
  <2>1. ASSUME NEW m \in proposals, SendProposal(m) PROVE [Gate!Next]_Gate!vars
    <3>1. UNCHANGED decided
      BY <2>1 DEF SendProposal
    <3>2. CASE cast' = cast
      BY <3>1, <3>2 DEF Gate!vars
    <3>3. CASE cast' # cast
      <4>1. PICK p \in Peer, h \in Hash :
              /\ \A g \in cast[p] : height[g] # height[h]
              /\ cast' = [cast EXCEPT ![p] = @ \cup {h}]
        BY <2>1, <3>3, SendProposalVotes
      <4>2. Gate!vote(p, h)
        BY <3>1, <4>1 DEF Gate!vote
      <4> QED
        BY <4>2 DEF Gate!Next
    <3> QED
      BY <3>2, <3>3
  <2>2. ASSUME NEW p \in Peer, NEW h \in Cast, on_commit(p, h) PROVE [Gate!Next]_Gate!vars
    <3>1. h \in Hash
      BY DEF Cast, PipelineInv, TypeOK
    <3>2. Gate!on_commit(p, h)
      BY <2>2 DEF on_commit
    <3> QED
      BY <3>1, <3>2 DEF Gate!Next
  <2>3. CASE UNCHANGED <<cast, decided>>
    BY <2>3 DEF Gate!vars
  <2> QED
    BY SMTT(40), <2>1, <2>2, <2>3 DEF Next, SendTransaction, TimerEvent, publishProposal, vars, gate
<1> QED
  BY <1>1, <1>2, <1>3, InitPipelineInv, PTL DEF Spec, Gate!Spec
=============================================================================
