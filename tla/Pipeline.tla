------------------------------ MODULE Pipeline ------------------------------
(***************************************************************************)
(* From a transaction to a block of the ledger: the ordering service makes *)
(* proposals, the simulator of each peer makes a block of a proposal, the  *)
(* Yac gate votes for it, and the synchronizer puts a committed block on   *)
(* the ledger. The consensus in between is a HashGate, which Yac           *)
(* implements.                                                             *)
(*                                                                         *)
(* The hash of a block covers its transactions and the hash of the block   *)
(* before it, so a hash is the sequence of the transaction lists of the    *)
(* blocks from the one above the genesis block up to this one. A ledger is *)
(* the hash of its top block.                                              *)
(***************************************************************************)
EXTENDS Integers, Sequences, FiniteSets, SequencesExt

CONSTANTS Peer,      \* the peers of the ledger
          Tx,        \* transactions that clients send
          Valid,     \* transactions that pass the stateful validation
          max_size,  \* transactions in a proposal
          Thread,    \* threads that may run generateProposal at the same time
          NoBlock    \* the empty block

ASSUME PipelineAssumption ==
    /\ IsFiniteSet(Peer) /\ Peer # {}
    /\ Valid \subseteq Tx
    /\ max_size \in Nat \ {0}

N == Cardinality(Peer)

Hash == Seq(Seq(Tx))

height == [h \in Hash |-> Len(h) + 1]

VARIABLES
    received,         \* transactions the ordering service got, in order
    queue,            \* queue_ of the ordering service
    proposal_height,  \* the height of the next proposal
    making,           \* proposals that generateProposal has begun to make
    proposals,        \* proposals sent and not delivered
    ledger,           \* the ledger of each peer
    current_block,    \* current_block_ of the Yac gate of each peer
    cast,             \* the hashes each peer has voted for
    decided,          \* the hashes the consensus has reported to each peer
    emitted           \* the last block that the Yac gate of each peer emitted

ordering == <<received, queue, proposal_height, making>>
gate == <<current_block, cast, decided, emitted>>
vars == <<ordering, proposals, ledger, gate>>

Proposal == [to : Peer, height : Nat, transactions : Seq(Tx)]

Gate == INSTANCE HashGate WITH Revote <- FALSE

Init ==
    /\ received = <<>>
    /\ queue = <<>>
    /\ proposal_height = 2
    /\ making = {}
    /\ proposals = {}
    /\ ledger = [p \in Peer |-> <<>>]
    /\ current_block = [p \in Peer |-> NoBlock]
    /\ cast = [p \in Peer |-> {}]
    /\ decided = [p \in Peer |-> {}]
    /\ emitted = [p \in Peer |-> NoBlock]
-----------------------------------------------------------------------------
(* OrderingServiceImpl                                                     *)

\* The transactions that generateProposal pops from queue q.
Taken(q) == SubSeq(q, 1, IF Len(q) < max_size THEN Len(q) ELSE max_size)

\* Variant: the transactions are read and not popped.
Left_all(q) == q

\* The transactions that stay in the queue.
Left(q) == SubSeq(q, Len(Taken(q)) + 1, Len(q))

\* Thread t takes transactions from queue q and reads the height.
Begin(t, q) ==
    /\ \A m \in making : m.thread # t
    /\ making' = making \cup {[thread       |-> t,
                               height       |-> proposal_height,
                               transactions |-> Taken(q)]}
    /\ queue' = Left(q)

\* SendTransaction: the transaction is queued, and the event that this
\* publishes makes a proposal if there are enough of them.
SendTransaction(tx, t) ==
    /\ tx \notin ToSet(received)
    /\ received' = Append(received, tx)
    /\ IF Len(queue) + 1 >= max_size
       THEN Begin(t, Append(queue, tx))
       ELSE /\ queue' = Append(queue, tx)
            /\ UNCHANGED making
    /\ UNCHANGED <<proposal_height, proposals, ledger, gate>>

\* The handler of the timer, which is started again in any case.
TimerEvent(t) ==
    /\ queue # <<>>
    /\ Begin(t, queue)
    /\ UNCHANGED <<received, proposal_height, proposals, ledger, gate>>

\* Variant: the height is not incremented.
publishProposal_sameHeight(m) ==
    /\ proposals' = proposals \cup
          {[to |-> p, height |-> m.height, transactions |-> m.transactions] : p \in Peer}
    /\ making' = making \ {m}
    /\ UNCHANGED <<received, queue, proposal_height, ledger, gate>>

\* The rest of generateProposal, and publishProposal: the height that was read
\* is incremented, and the proposal goes to every peer.
publishProposal(m) ==
    /\ proposal_height' = m.height + 1
    /\ proposals' = proposals \cup
          {[to |-> p, height |-> m.height, transactions |-> m.transactions] : p \in Peer}
    /\ making' = making \ {m}
    /\ UNCHANGED <<received, queue, ledger, gate>>
-----------------------------------------------------------------------------
(* Simulator, YacGateImpl and SynchronizerImpl of peer p                   *)

\* StatefulValidatorImpl::validate: the proposal without the transactions that
\* fail.
validate(txs) ==
    LET verified[i \in 0 .. Len(txs)] ==
            IF i = 0 THEN <<>>
            ELSE IF txs[i] \in Valid THEN Append(verified[i - 1], txs[i]) ELSE verified[i - 1]
    IN  verified[Len(txs)]

\* Variant: a proposal of any later height is processed.
Expected_later(p, m) == m.height > Len(ledger[p]) + 1

\* process_proposal finds the block below the proposal on top of the ledger.
Expected(p, m) == m.height = Len(ledger[p]) + 2

\* OrderingGateImpl::SendProposal: the simulator drops the proposal or makes a
\* block of it, for which the gate votes.
SendProposal(m) ==
    LET p     == m.to
        block == Append(ledger[p], validate(m.transactions))
    IN
    /\ proposals' = proposals \ {m}
    /\ IF Expected(p, m)
       THEN /\ current_block' = [current_block EXCEPT ![p] = block]
            /\ cast' = [cast EXCEPT ![p] = @ \cup {block}]
       ELSE UNCHANGED <<current_block, cast>>
    /\ UNCHANGED <<ordering, ledger, decided, emitted>>

\* ChainValidatorImpl::validateBlock: the empty block has no signatures, the
\* current block those of the votes of the commit, which are a supermajority.
\* Its commands succeed on the ledger they were validated on.
validateBlock(p, block) == block # NoBlock /\ Front(block) = ledger[p]

\* Variant: the current block is emitted whatever was committed.
committed_block_any(p, h) == current_block[p]

\* YacGateImpl::on_commit: the current block if h is its hash, or an empty one.
committed_block(p, h) == IF h = current_block[p] THEN h ELSE NoBlock

\* The consensus reports hash h to p, and the gate emits a block, which goes to
\* SynchronizerImpl::process_commit. A block that is not valid changes nothing,
\* as no blocks can be loaded from other peers.
on_commit(p, h) ==
    LET block == committed_block(p, h)
    IN
    /\ Gate!on_commit(p, h)
    /\ emitted' = [emitted EXCEPT ![p] = block]
    /\ ledger' = IF validateBlock(p, block)
                 THEN [ledger EXCEPT ![p] = block]
                 ELSE ledger
    /\ UNCHANGED <<ordering, proposals, current_block>>

\* The hashes that peers voted for.
Cast == UNION {cast[p] : p \in Peer}

Next ==
    \/ \E tx \in Tx : \E t \in Thread : SendTransaction(tx, t)
    \/ \E t \in Thread : TimerEvent(t)
    \/ \E m \in making : publishProposal(m)
    \/ \E m \in proposals : SendProposal(m)
    \/ \E p \in Peer : \E h \in Cast : on_commit(p, h)

Spec == Init /\ [][Next]_vars
-----------------------------------------------------------------------------
\* The state is well typed.
TypeOK ==
    /\ received \in Seq(Tx)
    /\ queue \in Seq(Tx)
    /\ proposal_height \in Nat
    /\ making \subseteq [thread : Thread, height : Nat, transactions : Seq(Tx)]
    /\ proposals \subseteq Proposal
    /\ ledger \in [Peer -> Hash]
    /\ current_block \in [Peer -> Hash \cup {NoBlock}]
    /\ cast \in [Peer -> SUBSET Hash]
    /\ decided \in [Peer -> SUBSET Hash]
    /\ emitted \in [Peer -> Hash \cup {NoBlock}]

\* The pipeline uses the consensus as it is meant to be used: no peer ever votes
\* for two blocks of one height, whatever proposals are delayed or dropped.
VotesOncePerHeight ==
    \A p \in Peer : \A h, g \in cast[p] : height[h] = height[g] => h = g

\* The ledgers of any two peers agree as far as both go.
LedgersAgree ==
    \A p, q \in Peer : IsPrefix(ledger[p], ledger[q]) \/ IsPrefix(ledger[q], ledger[p])

\* Each block of a ledger has the votes of more than two thirds of the peers,
\* also the ones below the top.
LedgerIsVoted ==
    \A p \in Peer : \A k \in 1 .. Len(ledger[p]) :
        3 * Cardinality(Gate!Voters(SubSeq(ledger[p], 1, k))) > 2 * N

\* The transactions of a ledger are valid ones, each once, in the order in which
\* the ordering service got them.
LedgerKeepsOrder ==
    \A p \in Peer :
        LET txs == FlattenSeq(ledger[p])
        IN  \E f \in [DOMAIN txs -> DOMAIN received] :
               /\ \A i \in DOMAIN txs : txs[i] = received[f[i]] /\ txs[i] \in Valid
               /\ \A i, j \in DOMAIN txs : i < j => f[i] < f[j]

\* consensus_gate.hpp, on_commit, "Emit committed blocks": what the gate of p
\* emits is a block that the consensus has committed.
EmitsCommittedBlocks == \A p \in Peer : decided[p] # {} => emitted[p] \in decided[p]

\* ordering_service_impl.hpp, "Allows receiving transactions concurrently from
\* multiple peers": proposals of one height have the same transactions.
OneProposalPerHeight ==
    \A m, n \in proposals : m.height = n.height => m.transactions = n.transactions
=============================================================================
