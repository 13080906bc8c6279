------------------------------ MODULE Journey ------------------------------
(***************************************************************************)
(* The way of a proposal's transactions through the node, with every       *)
(* conversion on it: from the JSON texts of the client over Torii, the     *)
(* ordering gate and the ordering service, the proposal that comes back,   *)
(* the block of the simulator, the votes, the file of the block store, to  *)
(* the answer of a query. The other modules show what the parts do with    *)
(* transactions; this one shows that they are the same transactions.       *)
(***************************************************************************)
EXTENDS Queries

CONSTANTS
    Written,   \* the transactions that clients write: sequences of them
    Previous,  \* the last block of the ledger
    VoteSigs   \* the signatures of the votes of the commit message

ASSUME JourneyAssumption ==
    \A txs \in Written : \A i \in DOMAIN txs : IsTransaction(txs[i])

VARIABLES
    place,    \* where the transactions are
    cargo,    \* what is there
    written,  \* the transactions as they were written
    voted,    \* the hash that the peer voted for, or nullopt
    layout    \* the layout of each process on the way

journeyVars == <<place, cargo, written, voted, layout>>

\* The client, the peer, the ordering service, and the peer when it reads the block
\* back: the same process, or another one after a restart.
Processes == {"client", "peer", "service", "reader"}

Each(Op(_), s) == [i \in DOMAIN s |-> Op(s[i])]

\* The files of the client.
InitJourney ==
    /\ place = "files"
    /\ written \in Written
    /\ cargo = [texts |-> Each(LAMBDA tx : jsonToString(json_serializeTransaction(tx)),
                               written)]
    /\ voted = nullopt
    /\ layout \in [Processes -> Layouts]

\* What a process makes of messages with transactions.
Arrived(process, messages) ==
    Each(LAMBDA m : pb_deserializeTransaction(layout[process], m), messages)

\* One leg of the way.
Leg(from, to, arrives) ==
    /\ place = from /\ place' = to
    /\ cargo' = arrives
    /\ UNCHANGED <<written, layout>>

\* CliClient::sendTx
sendTx ==
    /\ Leg("files", "client",
           [messages |-> Each(LAMBDA text : pb_serializeTransaction(
                json_deserializeTransaction(stringToJson(text))), cargo.texts)])
    /\ UNCHANGED voted

\* CommandService::ToriiAsync
receiveTx ==
    /\ Leg("client", "torii", [txs |-> Arrived("peer", cargo.messages)])
    /\ UNCHANGED voted

\* OrderingGateImpl::propagate_transaction
propagate ==
    /\ Leg("torii", "gate", [messages |-> Each(pb_serializeTransaction, cargo.txs)])
    /\ UNCHANGED voted

\* OrderingServiceImpl::SendTransaction
orderTx ==
    /\ Leg("gate", "queue", [txs |-> Arrived("service", cargo.messages)])
    /\ UNCHANGED voted

\* OrderingServiceImpl::publishProposal
publish ==
    /\ Leg("queue", "published",
           [height |-> Previous.height + 1, messages |-> Each(pb_serializeTransaction, cargo.txs)])
    /\ UNCHANGED voted

\* OrderingGateImpl::SendProposal
receiveProposal ==
    /\ Leg("published", "proposal",
           [height |-> cargo.height, transactions |-> Arrived("peer", cargo.messages)])
    /\ UNCHANGED voted

\* Simulator::process_verified_proposal. One empty signature is added after the hash
\* is computed.
process_verified_proposal ==
    LET block == [height |-> cargo.height, prev_hash |-> Previous.hash,
                  transactions |-> cargo.transactions,
                  txs_number |-> Len(cargo.transactions) % ShortRange,
                  created_ts |-> 0, merkle_root |-> zero, hash |-> zero,
                  sigs |-> <<[pubkey |-> zero, signature |-> zero]>>]
    IN  /\ Leg("proposal", "block", [block EXCEPT !.hash = hashBlock(layout["peer"], block)])
        /\ UNCHANGED voted

\* YacHashProviderImpl::makeHash: both parts are the hash of the block.
makeHash(block) == [proposal_hash |-> block.hash, block_hash |-> block.hash]

\* YacGateImpl::vote
voteFor ==
    /\ Leg("block", "voting", cargo)
    /\ voted' = makeHash(cargo)

\* YacGateImpl::on_commit
takeVotes ==
    /\ Leg("voting", "committed", [cargo EXCEPT !.sigs = VoteSigs])
    /\ UNCHANGED voted

\* StorageImpl::commit
store ==
    /\ Leg("committed", "disk", [file |-> jsonToVector(json_serializeBlock(cargo))])
    /\ UNCHANGED voted

\* StorageImpl::getBlocks, for the simulator and for queries.
load ==
    /\ Leg("disk", "loaded", json_deserializeBlock(vectorToJson(cargo.file)))
    /\ UNCHANGED voted

\* The answer to GetAccountTransactions.
answer ==
    /\ Leg("loaded", "answer",
           pb_serializeResponse(TransactionsResponse(cargo.transactions)))
    /\ UNCHANGED voted

NextJourney ==
    \/ sendTx \/ receiveTx \/ propagate \/ orderTx \/ publish \/ receiveProposal
    \/ process_verified_proposal \/ voteFor \/ takeVotes \/ store \/ load \/ answer
-----------------------------------------------------------------------------
(* Properties                                                              *)

\* The process that has, or reads, the transactions in the place.
Reader ==
    CASE place \in {"files", "answer"} -> "client"
      [] place \in {"gate", "queue"} -> "service"
      [] place \in {"disk", "loaded"} -> "reader"
      [] OTHER -> "peer"

\* The transactions in the place, in the form of the model; the files and the
\* messages are read as their receivers do.
Transactions ==
    CASE place = "files" ->
            Each(LAMBDA text : json_deserializeTransaction(stringToJson(text)), cargo.texts)
      [] place \in {"client", "gate", "published"} -> Arrived(Reader, cargo.messages)
      [] place \in {"torii", "queue"} -> cargo.txs
      [] place \in {"proposal", "block", "voting", "committed", "loaded"} -> cargo.transactions
      [] place = "disk" -> json_deserializeBlock(vectorToJson(cargo.file)).transactions
      [] place = "answer" -> Arrived(Reader, cargo.transactions_response.transactions)

\* No leg loses or changes a part of a transaction, adds or drops one, or changes
\* their order: at every place the converters (pb_command_factory.cpp,
\* pb_transaction_factory.cpp, json_command_factory.cpp, json_transaction_factory.cpp,
\* json_block_factory.cpp) give back what the client wrote, but for the two losses
\* of AsRead and AfterPb, which happen once.
ContentKept ==
    /\ Len(Transactions) = Len(written)
    /\ \A i \in DOMAIN written :
          LET expected == [written[i] EXCEPT !.commands =
                              IF place = "files" THEN Each(AsRead, @) ELSE Each(AfterPb, @)]
          IN  /\ equalTransactions(Transactions[i], expected)
              /\ Transactions[i].creator_account_id = written[i].creator_account_id

\* No conversion changes a hash. Wherever a transaction carries one, it is the hash
\* that the process there computes for the transaction the client wrote; and its
\* signatures verify in the layout of any process exactly if those of the written one
\* do, so that they verify wherever the tables lie as they did for the signer, and
\* nowhere else. The block that is read back from the disk has the hash that the peer
\* voted for, though the file keeps no hashes of transactions; it is still the hash of
\* its content if the process that reads has its tables where the one that voted had
\* them.
HashKept ==
    /\ \A i \in DOMAIN written :
          /\ Transactions[i].tx_hash \in {zero, hashTransaction(layout[Reader], written[i])}
          /\ \A l \in Layouts :
                verifyTransaction(l, Transactions[i]) = verifyTransaction(l, written[i])
    /\ place \in {"torii", "queue", "proposal", "block", "voting", "committed"} =>
          \A i \in DOMAIN written : Transactions[i].tx_hash # zero
    /\ place = "loaded" =>
          /\ makeHash(cargo) = voted
          /\ layout["reader"] = layout["peer"] => hashBlock(layout["reader"], cargo) = cargo.hash
          /\ cargo.sigs = VoteSigs /\ cargo.prev_hash = Previous.hash
          /\ cargo.height = Previous.height + 1
=============================================================================
