------------------------------- MODULE MCNode -------------------------------
(***************************************************************************)
(* The parts of a node that share no state, checked side by side: Init     *)
(* chooses one of them, and only its variables change.                     *)
(***************************************************************************)
EXTENDS Ledger, Torii, Journey, Cluster, PeerService, RedisIndex, MapQueue, Time64,
        Lookup3

VARIABLE part   \* the part that runs

MCNames == {"adm", "bob", "dom", "usd"}
MCSize(name) == 3
MCAlnum(name) == TRUE

adm == <<"adm", "dom">>
bob == <<"bob", "dom">>
usd == <<"usd", "dom">>

\* An asset with 4 decimals: 10^4 overflows the ints of the instance to -16.
tiny == <<"adm", "dom">>

amount(i, f) == [int_part |-> i, frac_part |-> f]

MCGenesis ==
    <<[type |-> "AddPeer", peer_key |-> "k1", address |-> "a1"],
      [type |-> "CreateDomain", domain_name |-> "dom"],
      [type |-> "CreateAccount", account_name |-> "adm", domain_id |-> "dom", pubkey |-> "k1"],
      [type |-> "CreateAccount", account_name |-> "bob", domain_id |-> "dom", pubkey |-> "k2"],
      [type |-> "SetAccountPermissions", account_id |-> adm,
       new_permissions |-> Permission \ {"remove_signatory"}],
      [type |-> "CreateAsset", asset_name |-> "usd", domain_id |-> "dom", precision |-> 1],
      [type |-> "AddAssetQuantity", account_id |-> adm, asset_id |-> usd, amount |-> amount(3, 9)],
      [type |-> "CreateAsset", asset_name |-> "adm", domain_id |-> "dom", precision |-> 4],
      [type |-> "AddAssetQuantity", account_id |-> bob, asset_id |-> tiny, amount |-> amount(0, 30)]>>

MCSubmitted ==
    {[type |-> "AddPeer", peer_key |-> "k2", address |-> "a1"],
     [type |-> "AddPeer", peer_key |-> "k2", address |-> "a2"],
     [type |-> "CreateDomain", domain_name |-> "bob"],
     [type |-> "CreateAccount", account_name |-> "bob", domain_id |-> "bob", pubkey |-> "k3"],
     [type |-> "CreateAsset", asset_name |-> "bob", domain_id |-> "dom", precision |-> 0],
     [type |-> "AddSignatory", account_id |-> bob, pubkey |-> "k1"],
     [type |-> "AssignMasterKey", account_id |-> bob, pubkey |-> "k1"],
     [type |-> "RemoveSignatory", account_id |-> bob, pubkey |-> "k1"],
     [type |-> "RemoveSignatory", account_id |-> bob, pubkey |-> "k2"],
     [type |-> "SetAccountPermissions", account_id |-> adm, new_permissions |-> {}],
     [type |-> "SetAccountPermissions", account_id |-> bob, new_permissions |-> {"can_transfer"}],
     [type |-> "SetQuorum", account_id |-> bob, new_quorum |-> 2],
     [type |-> "AddAssetQuantity", account_id |-> adm, asset_id |-> usd, amount |-> amount(30, 9)],
     [type |-> "AddAssetQuantity", account_id |-> bob, asset_id |-> usd, amount |-> amount(1, 0)],
     [type |-> "AddAssetQuantity", account_id |-> bob, asset_id |-> tiny, amount |-> amount(1, 0)],
     [type |-> "TransferAsset", src_account_id |-> bob, dest_account_id |-> adm,
      asset_id |-> tiny, amount |-> amount(0, 9)],
     [type |-> "TransferAsset", src_account_id |-> adm, dest_account_id |-> bob,
      asset_id |-> usd, amount |-> amount(2, 5)],
     [type |-> "TransferAsset", src_account_id |-> bob, dest_account_id |-> adm,
      asset_id |-> usd, amount |-> amount(2, 0)],
     [type |-> "TransferAsset", src_account_id |-> adm, dest_account_id |-> adm,
      asset_id |-> usd, amount |-> amount(0, 5)]}

-----------------------------------------------------------------------------
(* Torii: bob reads the account of adm. A block takes bob's right away.    *)

MCvptr(tables, type) == <<tables, type>>

NewSignature(key) == [pubkey |-> key, signature |-> <<"ed25519", key, zero>>]

NewTransaction(counter, created, commands) ==
    [signatures |-> <<NewSignature("k1")>>, created_ts |-> created, tx_counter |-> counter,
     creator_account_id |-> adm, tx_hash |-> zero, commands |-> commands]

NewBlock(h, txs) ==
    [hash |-> zero, sigs |-> <<NewSignature("k1")>>, created_ts |-> 0, height |-> h,
     prev_hash |-> zero, txs_number |-> Len(txs), merkle_root |-> zero, transactions |-> txs]

Grant == [type |-> "SetAccountPermissions", account_id |-> bob,
          new_permissions |-> {"read_all_accounts"}]
Revoke == [type |-> "SetAccountPermissions", account_id |-> bob, new_permissions |-> {}]

MCHistory ==
    <<NewBlock(1, <<NewTransaction(1, 0, MCGenesis)>>),
      NewBlock(2, <<NewTransaction(2, 0, <<Grant>>),
                    [NewTransaction(4, 0, <<>>) EXCEPT !.creator_account_id = bob]>>),
      NewBlock(3, <<NewTransaction(3, 0, <<Revoke>>)>>)>>

TxText(who, counter, created) ==
    [kind |-> "tx", client |-> who,
     text |-> jsonToString(json_serializeTransaction(NewTransaction(counter, created, <<Revoke>>)))]

QueryText(type, counter, created) ==
    [kind |-> "query", client |-> "sync",
     text |-> jsonToString([signature |-> serializeSignature(NewSignature("k2")),
         creator_account_id |-> bob, created_ts |-> created, query_counter |-> counter,
         query_type |-> type, account_id |-> adm, asset_id |-> usd])]

\* Counters 1 and 3 are the same char.
MCTexts ==
    {TxText("sync", 1, 2), TxText("async", 3, 0),
     [kind |-> "tx", client |-> "sync", text |-> <<"noise">>],
     QueryText("GetAccount", 1, 2), QueryText("GetAccountSignatories", 3, 2),
     QueryText("GetAccountTransactions", 2, 0),
     QueryText("GetAccountAssetTransactions", 2, 2), QueryText("GetAccountAsset", 1, 3)}
-----------------------------------------------------------------------------
(* The journey: every command alone, and proposals of none and of two.     *)

Signed(tx, keys) ==
    [tx EXCEPT !.signatures = [i \in DOMAIN keys |-> sign(hashTransaction("l1", tx), keys[i])]]

MCCommands ==
    MCSubmitted \cup
    {[type |-> "SetAccountPermissions", account_id |-> bob, new_permissions |-> {p}] : p \in Permission}
    \cup {[type |-> "CreateAsset", asset_name |-> "usd", domain_id |-> "dom", precision |-> 9]}

MCWritten ==
    {<<NewTransaction(1, 2, <<c>>)>> : c \in MCCommands}
    \cup {<<Signed(NewTransaction(1, 2, <<c>>), <<"k1">>),
            Signed(NewTransaction(3, 5, <<Grant, c>>), <<"k1", "k2">>)>> : c \in MCCommands}
    \cup {<<>>, <<NewTransaction(5, 9, <<>>)>>}

MCPrevious == NewBlock(1, <<>>)
MCVoteSigs == <<NewSignature("k1"), NewSignature("k2")>>
-----------------------------------------------------------------------------
(* The network: two peers, and a third one that joins.                     *)

MCNumber == [p \in {"a1", "a2", "a3"} |-> CASE p = "a1" -> 0 [] p = "a2" -> 1 [] p = "a3" -> 2]

Joining(key, address) == [type |-> "AddPeer", peer_key |-> key, address |-> address]

TrustedPeer(key, address) == [pubkey |-> to_hexstring(key), ip |-> address]

\* One good configuration, and one for each thing that may be wrong.
MCConfs ==
    {[peers |-> <<TrustedPeer("k1", "a1"), TrustedPeer("k2", "a2")>>],
     nullopt, [addresses |-> <<>>], [peers |-> <<nullopt>>],
     [peers |-> <<TrustedPeer("k1", "a1"), [ip |-> "a2"]>>],
     [peers |-> <<[pubkey |-> nullopt, ip |-> "a1"]>>],
     [peers |-> <<[pubkey |-> to_hexstring("k1"), ip |-> nullopt]>>],
     [peers |-> <<TrustedPeer("k1", "noise")>>]}

MCDocuments ==
    {nullopt, [block |-> <<>>],
     [transactions |-> <<[json_serializeTransaction(NewTransaction(1, 2, <<>>)) EXCEPT
                            !.commands = <<[command_type |-> "Noise"]>>]>>]}

MCFiles == {<<[type |-> "CreateDomain", domain_name |-> "dom"],
              [type |-> "CreateAccount", account_name |-> "adm", domain_id |-> "dom", pubkey |-> "k1"],
              [type |-> "SetAccountPermissions", account_id |-> adm,
               new_permissions |-> {"can_transfer", "set_permissions"}]>>,
            <<Joining("k1", "a1"), Joining("k2", "a2")>>}

MCJoins == <<<<Joining("k3", "a3")>>>>
-----------------------------------------------------------------------------
(* The peer service: two peers of which one is set a higher state, may     *)
(* crash and be torn; two of which one cannot start; three that may tell   *)
(* of each other's states.                                                 *)

Heartbeat(p, h) == [gmroot |-> <<"", "m1", "m2", "m3">>[h + 1], height |-> h, pubkey |-> p]

MCClusters ==
    {"n1" :> Heartbeat("n1", 1) @@ "n2" :> Heartbeat("n2", 2),
     "n0" :> Heartbeat("n0", 0) @@ "n2" :> Heartbeat("n2", 2),
     "m1" :> Heartbeat("m1", 1) @@ "m2" :> Heartbeat("m2", 1) @@ "m3" :> Heartbeat("m3", 2)}

MCNews == {Heartbeat("n1", 3)}
-----------------------------------------------------------------------------
(* The index: two blocks, a transaction that is added again with other    *)
(* numbers, and two hashes of one public key.                              *)

MCAdditions ==
    {[call |-> "add_blockhash_blockid", hash |-> "adm", height |-> 1],
     [call |-> "add_blockhash_blockid", hash |-> "bob", height |-> 2],
     [call |-> "add_txhash_blockid_txid", txhash |-> "usd", height |-> 1, txid |-> 1],
     [call |-> "add_txhash_blockid_txid", txhash |-> "usd", height |-> 2, txid |-> 0],
     [call |-> "add_pubkey_txhash", pubkey |-> "k1", txhash |-> "usd"],
     [call |-> "add_pubkey_txhash", pubkey |-> "k1", txhash |-> "dom"]}
-----------------------------------------------------------------------------
(* Times: the ends of years and of February, in years where the calendar   *)
(* or the code has a special case.                                         *)

Midnight(y, m, d) ==
    [year |-> y - 1900, mon |-> m, mday |-> d, hour |-> 0, min |-> 0, sec |-> 0]

MCMktimeMin == Midnight(1901, 11, 13)
MCMktimeMax == Midnight(2038, 0, 18)
MCFirstDay == -24855

MCYears ==
    {-401, 0, 1, 100, 1200, 1201, 1599, 1601, 1700, 1701, 1800, 1900, 1902, 1970, 1972, 2000,
     2008, 2009, 2037, 2038, 2039, 2100, 2101, 2200, 2301, 2400, 2401, 2500, 2801}

MCStarts ==
    UNION {{DayNumber(y - 1900, 0) - 1, DayNumber(y - 1900, 58)} : y \in MCYears}

MCZones == {-3, 3}
-----------------------------------------------------------------------------
(* Keys to hash: less than a block, whole blocks, and a public key.        *)

Lengths == (0 .. 14) \cup {23, 24, 25, 32}

MCContents ==
    {Known} \cup {[i \in 1 .. n |-> 255] : n \in Lengths}
            \cup {[i \in 1 .. n |-> (37 * i + 200) % 256] : n \in Lengths}
-----------------------------------------------------------------------------
Parts == {"ledger", "torii", "journey", "bootstrap", "cluster", "peers", "index", "queue", "time",
          "hash"}

Init ==
    /\ part \in Parts
    /\ InitLedger /\ InitTorii /\ InitIndex
    /\ InitCluster /\ (part \notin {"bootstrap", "cluster"} => file = CHOOSE f \in Files : TRUE)
    /\ InitPeerService /\ (part # "peers" => mine = CHOOSE c \in Clusters : TRUE)
    /\ InitMapQueue /\ (part # "queue" => max_cache_size_ = CHOOSE n \in QueueSizes : TRUE)
    /\ IF part = "journey" THEN InitJourney
       ELSE /\ place = "files" /\ cargo = [texts |-> <<>>]
            /\ written = <<>> /\ voted = nullopt
            /\ layout = [process \in Processes |-> "l1"]
    /\ IF part = "time" THEN InitTime ELSE instant = 0 /\ zone = 0 /\ first = 0
    /\ IF part = "hash" THEN InitLookup3
       ELSE content = nullopt /\ memory = <<>> /\ location = 0 /\ cached = <<>>

Next ==
    /\ UNCHANGED part
    /\ \/ /\ part = "ledger" /\ NextLedger
          /\ UNCHANGED <<toriiVars, journeyVars, clusterVars, peerServiceVars, indexVars,
                         mapQueueVars, timeVars, lookup3Vars>>
       \/ /\ part = "torii" /\ NextTorii
          /\ UNCHANGED <<ledgerVars, journeyVars, clusterVars, peerServiceVars, indexVars,
                         mapQueueVars, timeVars, lookup3Vars>>
       \/ /\ part = "journey" /\ NextJourney
          /\ UNCHANGED <<ledgerVars, toriiVars, clusterVars, peerServiceVars, indexVars,
                         mapQueueVars, timeVars, lookup3Vars>>
       \/ /\ \/ part = "bootstrap" /\ NextBootstrap
             \/ part = "cluster" /\ NextCluster
          /\ UNCHANGED <<ledgerVars, toriiVars, journeyVars, peerServiceVars, indexVars,
                         mapQueueVars, timeVars, lookup3Vars>>
       \/ /\ part = "peers" /\ NextPeerService
          /\ UNCHANGED <<ledgerVars, toriiVars, journeyVars, clusterVars, indexVars,
                         mapQueueVars, timeVars, lookup3Vars>>
       \/ /\ part = "index" /\ NextIndex
          /\ UNCHANGED <<ledgerVars, toriiVars, journeyVars, clusterVars, peerServiceVars,
                         mapQueueVars, timeVars, lookup3Vars>>
       \/ /\ part = "queue" /\ NextMapQueue
          /\ UNCHANGED <<ledgerVars, toriiVars, journeyVars, clusterVars, peerServiceVars,
                         indexVars, timeVars, lookup3Vars>>
       \/ /\ part = "time" /\ NextTime
          /\ UNCHANGED <<ledgerVars, toriiVars, journeyVars, clusterVars, peerServiceVars,
                         indexVars, mapQueueVars, lookup3Vars>>
       \/ /\ part = "hash" /\ NextLookup3
          /\ UNCHANGED <<ledgerVars, toriiVars, journeyVars, clusterVars, peerServiceVars,
                         indexVars, mapQueueVars, timeVars>>

vars == <<part, ledgerVars, toriiVars, journeyVars, clusterVars, peerServiceVars, indexVars,
          mapQueueVars, timeVars, lookup3Vars>>

Spec == Init /\ [][Next]_vars /\ FairTorii
=============================================================================
