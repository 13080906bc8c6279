------------------------------ MODULE Cluster ------------------------------
(***************************************************************************)
(* How a network comes up and grows. The command line tool sends a genesis *)
(* block to the servers that wait for it, or main of irohad takes it from  *)
(* a file. Irohad::run then reads the peers of the ledger once: it builds  *)
(* the network of the consensus and the channel to the ordering service    *)
(* from them. Blocks that add peers follow while the processes run, crash  *)
(* and start again, each at its own height.                                *)
(*                                                                         *)
(* What Yac decides is in Yac.tla; here it sends the messages it may send. *)
(***************************************************************************)
EXTENDS Commands, JsonConverters, SequencesExt

CONSTANTS
    Hosts,         \* the machines, by address
    Number,        \* the flag peer_number of irohad on each machine
    Files,         \* the commands that genesis.json may hold
    Confs,         \* the contents of target.conf, the configuration of the tool
    Documents,     \* what genesis.json may be instead of a good document
    Joins,         \* the commands of the blocks after the genesis block
    MaxWire,       \* bound: messages on the wire when another one is sent
    MaxStarts,     \* bound: starts of irohad
    MaxBootstraps  \* bound: runs of the tool

ASSUME ClusterAssumption ==
    /\ Number \in [Hosts -> Nat]
    /\ Files \subseteq Seq(Command) /\ Joins \in Seq(Seq(Command))
    /\ MaxWire \in Nat /\ MaxStarts \in Nat /\ MaxBootstraps \in Nat

VARIABLES
    file,      \* genesis.json
    applied,   \* the blocks that the world state view of a machine has executed
    node,      \* the process on a machine
    wire,      \* the messages of the consensus on their way
    starts,    \* the number of starts of irohad
    cli        \* the command line tool

clusterVars == <<file, applied, node, wire, starts, cli>>

Down == [phase |-> "off", network |-> nullopt, gate |-> nullopt, order |-> <<>>,
         voted |-> 0, since |-> <<>>, fault |-> nullopt]

InitCluster ==
    /\ file \in Files
    /\ applied = [p \in Hosts |-> <<>>]
    /\ node = [p \in Hosts |-> Down]
    /\ wire = {}
    /\ starts = 0
    /\ cli = [stage |-> "idle", at |-> 0, reply |-> nullopt, runs |-> 0,
              peers |-> <<>>, block |-> <<>>]
-----------------------------------------------------------------------------
(* The ledger                                                              *)

ExecuteAll(w, commands) ==
    FoldLeft(LAMBDA x, c : IF x = nullopt THEN nullopt ELSE execute(x, c), w, commands)

WsvOf(blocks) == FoldLeft(ExecuteAll, Tables, blocks)

\* A command that fails takes the block back.
apply(blocks, block) ==
    IF ExecuteAll(WsvOf(blocks), block) = nullopt THEN blocks ELSE Append(blocks, block)

applyToLedger(blocks, block) == apply(blocks, block)

getLedgerPeers(blocks) == getPeers(WsvOf(blocks))

getInitialOrdering(blocks) == getLedgerPeers(blocks)

getOrdering(blocks) == getLedgerPeers(blocks)
-----------------------------------------------------------------------------
(* The tool: BootstrapNetwork and the server of the genesis block          *)

isIpValid(address) == address \in Hosts

\* A document is nullopt if it cannot be opened or parsed; what has the wrong type
\* in it is nullopt too. Every assert_fatal that fails gives nullopt.
parse_trusted_peers(doc) ==
    LET Fails(peer) == \/ peer = nullopt
                       \/ ~ verifyRequiredMembers(peer, {"pubkey", "ip"})
                       \/ peer.pubkey = nullopt \/ peer.ip = nullopt
                       \/ ~ isIpValid(peer.ip)
    IN  IF doc = nullopt THEN nullopt
        ELSE IF ~ verifyRequiredMembers(doc, {"peers"}) THEN nullopt
        ELSE IF \E i \in DOMAIN doc.peers : Fails(doc.peers[i]) THEN nullopt
        ELSE [i \in DOMAIN doc.peers |-> [pubkey |-> hex2bytes(doc.peers[i].pubkey),
                                         address |-> doc.peers[i].ip]]

\* The commands of the block. A transaction that cannot be deserialized is noticed,
\* and its value is taken all the same, which throws.
parse_genesis_block(doc) ==
    LET txs == AllOrNothing([i \in DOMAIN doc.transactions |->
                                json_deserializeTransaction(doc.transactions[i])])
    IN  IF doc = nullopt THEN nullopt
        ELSE IF ~ verifyRequiredMembers(doc, {"transactions"}) \/ txs = nullopt THEN nullopt
        ELSE FlattenSeq([i \in DOMAIN txs |-> txs[i].commands])

merge_tx_add_trusted_peers(block, trusted_peers) ==
    [i \in DOMAIN trusted_peers |-> [type |-> "AddPeer", peer_key |-> trusted_peers[i].pubkey,
                                     address |-> trusted_peers[i].address]] \o block

\* Nothing is committed if the block is refused.
genesis_block_handle(blocks, block) ==
    LET now == apply(blocks, block) IN [blocks |-> now, success |-> now # blocks]

ServerOf == cli.peers[cli.at].address

\* genesis.json with the commands of the file, in one transaction.
GenesisJson ==
    [transactions |-> <<[creator_account_id |-> zero, tx_counter |-> 0, signatures |-> <<>>,
        created_ts |-> 0,
        commands |-> [i \in DOMAIN file |-> json_serializeAbstractCommand(file[i])]]>>]

\* main of the tool, up to run_network. What is wrong with a file ends it.
Bootstrap(conf, doc) ==
    LET peers == parse_trusted_peers(conf)
        block == parse_genesis_block(doc)
        parsed == peers # nullopt /\ block # nullopt
    IN  /\ cli.stage \in {"idle", "returned", "fatal"}
        /\ cli.runs < MaxBootstraps
        /\ cli' = [stage |-> IF parsed THEN "sending" ELSE "fatal", at |-> 1, reply |-> nullopt,
                   runs |-> cli.runs + 1, peers |-> IF parsed THEN peers ELSE <<>>,
                   block |-> IF parsed THEN merge_tx_add_trusted_peers(block, peers) ELSE <<>>]
        /\ UNCHANGED <<file, starts, applied, node, wire>>

GenesisBlockServerRunner_run(p) ==
    /\ node[p].phase \in {"off", "dead"}
    /\ node' = [node EXCEPT ![p] = [Down EXCEPT !.phase = "waiting"]]
    /\ UNCHANGED <<file, starts, applied, wire, cli>>

\* PbBlockFactory on the side of the tool, and on the side of the peer.
send_genesis_block(block) == [i \in DOMAIN block |-> pb_serializeAbstractCommand(block[i])]

receive_genesis_block(request) ==
    [i \in DOMAIN request |-> pb_deserializeAbstractCommand(request[i])]

\* The server stops two seconds after its answer.
SendGenesisBlock ==
    /\ cli.stage = "sending"
    /\ node[ServerOf].phase \in {"waiting", "leaving"}
    /\ LET iroha_block == receive_genesis_block(send_genesis_block(cli.block))
           result == genesis_block_handle(applied[ServerOf], iroha_block)
       IN
       /\ applied' = [applied EXCEPT ![ServerOf] = result.blocks]
       /\ cli' = [cli EXCEPT !.stage = "replied",
                  !.reply = IF result.success THEN "APPLY_SUCCESS" ELSE "APPLY_FAILURE"]
    /\ node' = [node EXCEPT ![ServerOf].phase = "leaving"]
    /\ UNCHANGED <<file, starts, wire>>

GenesisBlockServerRunner_shutdown(p) ==
    /\ node[p].phase = "leaving"
    /\ node' = [node EXCEPT ![p] = Down]
    /\ UNCHANGED <<file, starts, applied, wire, cli>>

\* No server listens, or the connection breaks before or after the block.
send_genesis_block_fails ==
    /\ \/ cli.stage = "sending"
       \/ cli.stage = "replied" /\ cli.reply # "not ok"
    /\ cli' = [cli EXCEPT !.stage = "replied", !.reply = "not ok"]
    /\ UNCHANGED <<file, starts, applied, node, wire>>

\* Variant: what the peer answers is not looked at.
run_network_statOnly ==
    /\ cli.stage = "replied"
    /\ cli' = IF cli.reply = "not ok" THEN [cli EXCEPT !.stage = "fatal"]
              ELSE IF cli.at = Len(cli.peers) THEN [cli EXCEPT !.stage = "returned"]
              ELSE [cli EXCEPT !.stage = "sending", !.at = @ + 1]
    /\ UNCHANGED <<file, starts, applied, node, wire>>

\* One round of the loop. abort_network calls a method that no server
\* implements: it changes nothing.
run_network ==
    /\ cli.stage = "replied"
    /\ cli' = IF cli.reply \in {"not ok", "APPLY_FAILURE"} THEN [cli EXCEPT !.stage = "fatal"]
              ELSE IF cli.at = Len(cli.peers) THEN [cli EXCEPT !.stage = "returned"]
              ELSE [cli EXCEPT !.stage = "sending", !.at = @ + 1]
    /\ UNCHANGED <<file, starts, applied, node, wire>>
-----------------------------------------------------------------------------
(* irohad: main and Irohad::run                                            *)

\* Variant: a peer makes no stub for itself.
NetworkImpl_others(address, peers) ==
    LET others == SelectSeq(peers, LAMBDA peer : peer.address # address) IN
    [address |-> address, peers |-> ToSet(others),
     peers_addresses |-> [a \in {peer.address : peer \in ToSet(peers)} |->
                            CHOOSE peer \in ToSet(peers) : peer.address = a]]

\* A stub for every peer, and every peer by its address.
NetworkImpl(address, peers) ==
    [address |-> address, peers |-> ToSet(peers),
     peers_addresses |-> [a \in {peer.address : peer \in ToSet(peers)} |->
                            CHOOSE peer \in ToSet(peers) : peer.address = a]]

createGate(network_address) == network_address

\* Variant: the gate connects to the peer that joined last.
initOrderingGate_back(peers) == createGate(Last(peers).address)

initOrderingGate(peers) == createGate(Head(peers).address)

\* What initConsensusGate makes: the network, and the order Yac starts with.
createYac(address, initial_order) ==
    [network |-> NetworkImpl(address, initial_order), order |-> initial_order]

\* Irohad::run: at throws if the ledger has too few peers; a server on the
\* address of another machine is not built, and then used.
run(p, blocks) ==
    LET peers == getLedgerPeers(blocks) IN
    IF Number[p] >= Len(peers) THEN [Down EXCEPT !.phase = "dead"]
    ELSE LET address == peers[Number[p] + 1].address
             yac     == createYac(address, getInitialOrdering(blocks))
         IN  IF address # p THEN [Down EXCEPT !.phase = "dead"]
             ELSE [phase |-> "running", network |-> yac.network,
                   gate |-> initOrderingGate(peers), order |-> yac.order,
                   voted |-> 0, since |-> peers, fault |-> nullopt]

\* The block in the file is tried at every start.
main(p) ==
    /\ node[p].phase \in {"off", "dead"}
    /\ starts < MaxStarts
    /\ applied' = [applied EXCEPT ![p] = applyToLedger(applied[p], file)]
    /\ node' = [node EXCEPT ![p] = run(p, applied'[p])]
    /\ starts' = starts + 1
    /\ UNCHANGED <<file, wire, cli>>

\* ~Irohad, or a crash. What is committed stays.
Stop(p) ==
    /\ node[p].phase = "running"
    /\ node' = [node EXCEPT ![p] = Down]
    /\ UNCHANGED <<file, starts, applied, wire, cli>>

\* The operator of a machine copies the storage of another one.
Provision(p, q) ==
    /\ node[p].phase \in {"off", "dead"} /\ applied[p] # applied[q]
    /\ IsPrefix(applied[p], applied[q]) /\ Len(applied[q]) > 1
    /\ applied' = [applied EXCEPT ![p] = applied[q]]
    /\ UNCHANGED <<file, starts, node, wire, cli>>
-----------------------------------------------------------------------------
(* The messages: the model on both sides, protobuf between                 *)

\* The mock that signs sets the hash and leaves the signature unset: "key" is what
\* its memory happens to hold, here another value in every vote.
getVote(hash, key) == [hash |-> hash, signature |-> [pubkey |-> key, signature |-> zero]]

HashOf(h) == [proposal_hash |-> h, block_hash |-> h]

Votes(hash, order) == [i \in DOMAIN order |-> getVote(hash, order[i].pubkey)]

pb_vote(vote) ==
    [hash |-> [block |-> vote.hash.block_hash, proposal |-> vote.hash.proposal_hash],
     signature |-> [signature |-> vote.signature.signature, pubkey |-> vote.signature.pubkey]]

read_vote(m) ==
    [hash |-> [proposal_hash |-> m.hash.proposal, block_hash |-> m.hash.block],
     signature |-> [signature |-> m.signature.signature, pubkey |-> m.signature.pubkey]]

\* A call of the network of p; "origin" is what was sent, and by whom.
Call(p, to, rpc, votes, request) ==
    [address |-> node[p].network.address, to |-> to.address, rpc |-> rpc,
     request |-> request, origin |-> <<p, votes>>]

send_vote(p, to, votes) == Call(p, to, "SendVote", votes, [vote |-> pb_vote(votes[1])])

send_commit(p, to, votes) ==
    Call(p, to, "SendCommit", votes, [votes |-> [i \in DOMAIN votes |-> pb_vote(votes[i])]])

send_reject(p, to, votes) ==
    Call(p, to, "SendReject", votes, [votes |-> [i \in DOMAIN votes |-> pb_vote(votes[i])]])

\* The votes that the handlers of the server make of a request.
SendVote(request) == <<read_vote(request.vote)>>

\* Variant: the vote is appended after the loop.
SendCommit_last(request) == <<read_vote(Last(request.votes))>>

SendCommit(request) == [i \in DOMAIN request.votes |-> read_vote(request.votes[i])]

SendReject(request) == [i \in DOMAIN request.votes |-> read_vote(request.votes[i])]

\* Calls to all the targets in their order, by a process that is then "after";
\* "left" is on the wire already.
\* peers_.at throws for a peer without stub: the calls before it are made.
SendAll(p, targets, make(_), after, left) ==
    LET strangers == {i \in DOMAIN targets : targets[i] \notin after.network.peers}
        first     == IF strangers = {} THEN Len(targets) + 1 ELSE Min(strangers)
    IN  /\ wire' = left \cup {make(targets[i]) : i \in 1 .. first - 1}
        /\ node' = [node EXCEPT ![p] =
                      IF strangers = {} THEN after
                      ELSE [Down EXCEPT !.phase = "dead", !.since = after.since,
                                        !.fault = targets[first].address]]

MaySend(p) == node[p].phase = "running" /\ Cardinality(wire) < MaxWire
-----------------------------------------------------------------------------
(* Yac                                                                     *)

\* YacGateImpl::vote and the first votingStep, for the block after the top.
vote(p) ==
    /\ MaySend(p)
    /\ Len(applied[p]) \in 1 .. Len(Joins) + 1 /\ node[p].voted # Len(applied[p]) + 1
    /\ LET h     == Len(applied[p]) + 1
           order == getOrdering(applied[p])
       IN  SendAll(p, <<order[1]>>,
                   LAMBDA to : send_vote(p, to, Votes(HashOf(h), <<order[Number[p] + 1]>>)),
                   [node[p] EXCEPT !.order = order, !.voted = h], wire)
    /\ UNCHANGED <<file, starts, applied, cli>>

\* The timer: the vote goes to another leader.
votingStep(p, i) ==
    /\ MaySend(p)
    /\ node[p].voted = Len(applied[p]) + 1
    /\ i \in 2 .. Len(node[p].order)
    /\ SendAll(p, <<node[p].order[i]>>,
               LAMBDA to : send_vote(p, to, Votes(HashOf(node[p].voted),
                                                  <<node[p].order[Number[p] + 1]>>)),
               node[p], wire)
    /\ UNCHANGED <<file, starts, applied, cli>>

\* The server finds no peer with the address in the metadata; a call to a
\* process that is gone is lost.
SendFails(m) ==
    LET p == m.to IN
    /\ wire' = wire \ {m}
    /\ node[p].phase = "running" => m.address \notin DOMAIN node[p].network.peers_addresses
    /\ node' = IF node[p].phase # "running" THEN node
               ELSE [node EXCEPT ![p] = [Down EXCEPT !.phase = "dead",
                       !.since = node[p].since, !.fault = m.address]]
    /\ UNCHANGED <<file, starts, applied, cli>>

Received(m, rpc) ==
    /\ m.rpc = rpc
    /\ node[m.to].phase = "running"
    /\ m.address \in DOMAIN node[m.to].network.peers_addresses

\* Yac::on_vote: nothing yet; or the votes decide, and commit or reject go to all
\* the peers; or they had decided before, and the answer goes to the voter. A
\* reject has votes for two hashes.
on_vote(m, answer) ==
    LET p     == m.to
        hash  == SendVote(m.request)[1].hash
        votes == Votes(hash, node[p].order) \o
                 (IF answer.rpc = "SendReject" THEN Votes(HashOf(0), <<node[p].order[1]>>) ELSE <<>>)
        voter == node[p].network.peers_addresses[m.address]
    IN  /\ Received(m, "SendVote")
        /\ SendAll(p, CASE answer.to = "none" -> <<>>
                        [] answer.to = "all" -> node[p].order
                        [] answer.to = "voter" -> <<voter>>,
                   LAMBDA to : IF answer.rpc = "SendCommit" THEN send_commit(p, to, votes)
                               ELSE send_reject(p, to, votes),
                   node[p], wire \ {m})
        /\ UNCHANGED <<file, starts, applied, cli>>

\* Yac::on_commit: the block voted for is applied to the ledger.
on_commit(m) ==
    LET p == m.to
        h == node[p].voted
    IN  /\ Received(m, "SendCommit")
        /\ wire' = wire \ {m}
        /\ applied' = IF /\ SendCommit(m.request)[1].hash = HashOf(h)
                         /\ h = Len(applied[p]) + 1 /\ h - 1 \in DOMAIN Joins
                      THEN [applied EXCEPT ![p] = apply(@, Joins[h - 1])] ELSE applied
        /\ UNCHANGED <<file, starts, node, cli>>

\* Yac::on_reject only stops the timer.
on_reject(m) ==
    /\ Received(m, "SendReject")
    /\ wire' = wire \ {m}
    /\ UNCHANGED <<file, starts, applied, node, cli>>
-----------------------------------------------------------------------------
Process(p) == main(p) \/ Stop(p)

\* A network comes up.
NextBootstrap ==
    \/ \E conf \in Confs, doc \in Documents \cup {GenesisJson} : Bootstrap(conf, doc)
    \/ SendGenesisBlock
    \/ send_genesis_block_fails
    \/ run_network
    \/ \E p \in Hosts : \/ GenesisBlockServerRunner_run(p)
                       \/ GenesisBlockServerRunner_shutdown(p)
                       \/ Process(p)

Answers == {[to |-> "none", rpc |-> "SendCommit"]} \cup
           [to : {"all", "voter"}, rpc : {"SendCommit", "SendReject"}]

\* A network grows.
NextCluster ==
    \/ \E p \in Hosts :
        \/ Process(p)
        \/ \E q \in Hosts : Provision(p, q)
        \/ vote(p)
        \/ \E i \in DOMAIN node[p].order : votingStep(p, i)
    \/ \E m \in wire :
        \/ SendFails(m)
        \/ \E answer \in Answers : on_vote(m, answer)
        \/ on_commit(m)
        \/ on_reject(m)
-----------------------------------------------------------------------------
(* Properties                                                              *)

\* When run_network returns, the world state view of every trusted peer has
\* executed the merged genesis block, each command as it is in the file but for the
\* flag set_permissions, which PbCommandFactory drops: the peers grant it to nobody.
\* And no machine ever executes the commands of the file twice, though the tool and
\* the servers may be run again after a failure in the middle, and main tries its
\* own file, in which the flag is kept, at every start.
BootstrapComplete ==
    LET merged == [i \in DOMAIN cli.block |-> AfterPb(cli.block[i])]
        times(p, blocks) == Cardinality({i \in DOMAIN applied[p] : applied[p][i] \in blocks})
    IN  /\ cli.stage = "returned" =>
              \A i \in DOMAIN cli.peers : times(cli.peers[i].address, {merged}) = 1
        /\ \A p \in Hosts : times(p, {merged, file}) <= 1

\* initOrderingGate connects to the first peer of the ledger: all the gates send
\* their transactions to one ordering service, whichever height their processes
\* started at.
OneOrderingService ==
    \A p, q \in Hosts :
        node[p].phase = "running" /\ node[q].phase = "running" => node[p].gate = node[q].gate

\* NetworkImpl ends its process, by an exception of peers_.at or
\* peers_addresses_.at, only because of a peer that the ledger did not have when
\* the process started.
OnlyStrangersKill ==
    \A p \in Hosts :
        node[p].fault # nullopt =>
            \A i \in DOMAIN node[p].since : node[p].since[i].address # node[p].fault

\* What the handlers of NetworkImpl give to Yac is what the peer they name had
\* given to send_vote, send_commit or send_reject.
HandedIsSent ==
    \A m \in wire :
        m.origin = <<m.address,
                     CASE m.rpc = "SendVote" -> SendVote(m.request)
                       [] m.rpc = "SendCommit" -> SendCommit(m.request)
                       [] m.rpc = "SendReject" -> SendReject(m.request)>>
=============================================================================
