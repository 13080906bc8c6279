---------------------------- MODULE PbConverters ----------------------------
(***************************************************************************)
(* The protobuf factories of irohad/model/converters. A message is a       *)
(* record with the names of schema; a oneof is a record with the one field *)
(* that is set, so that "has_x()" is "x" \in DOMAIN m.                     *)
(***************************************************************************)
EXTENDS Hashes

CONSTANTS
    ByteRange,   \* the number of values of a uint8_t
    ShortRange   \* the number of values of a uint16_t

pb_amount(a) == [integer_part |-> a.int_part, fractial_part |-> a.frac_part]

fromPb_amount(m) == [int_part |-> m.integer_part, frac_part |-> m.fractial_part]

\* The flags of a message that nobody sets are false.
pb_permissions(set) == [p \in Permission |-> p \in set]

fromPb_permissions(m) == {p \in Permission : m[p]}
-----------------------------------------------------------------------------
(* PbCommandFactory                                                        *)

pb_serializeAddAssetQuantity(c) ==
    [account_id |-> c.account_id, asset_id |-> c.asset_id, amount |-> pb_amount(c.amount)]

pb_deserializeAddAssetQuantity(m) ==
    [type |-> "AddAssetQuantity", account_id |-> m.account_id, asset_id |-> m.asset_id,
     amount |-> fromPb_amount(m.amount)]

pb_serializeAddPeer(c) == [address |-> c.address, peer_key |-> c.peer_key]

pb_deserializeAddPeer(m) ==
    [type |-> "AddPeer", address |-> m.address, peer_key |-> m.peer_key]

pb_serializeAddSignatory(c) == [account_id |-> c.account_id, public_key |-> c.pubkey]

pb_deserializeAddSignatory(m) ==
    [type |-> "AddSignatory", account_id |-> m.account_id, pubkey |-> m.public_key]

pb_serializeAssignMasterKey(c) == [account_id |-> c.account_id, public_key |-> c.pubkey]

pb_deserializeAssignMasterKey(m) ==
    [type |-> "AssignMasterKey", account_id |-> m.account_id, pubkey |-> m.public_key]

pb_serializeCreateAsset(c) ==
    [asset_name |-> c.asset_name, domain_id |-> c.domain_id, precision |-> c.precision]

\* precision has 32 bits in the message and 8 in the model.
pb_deserializeCreateAsset(m) ==
    [type |-> "CreateAsset", asset_name |-> m.asset_name, domain_id |-> m.domain_id,
     precision |-> m.precision % ByteRange]

pb_serializeCreateAccount(c) ==
    [account_name |-> c.account_name, domain_id |-> c.domain_id, main_pubkey |-> c.pubkey]

pb_deserializeCreateAccount(m) ==
    [type |-> "CreateAccount", account_name |-> m.account_name, domain_id |-> m.domain_id,
     pubkey |-> m.main_pubkey]

pb_serializeCreateDomain(c) == [domain_name |-> c.domain_name]

pb_deserializeCreateDomain(m) == [type |-> "CreateDomain", domain_name |-> m.domain_name]

pb_serializeRemoveSignatory(c) == [account_id |-> c.account_id, public_key |-> c.pubkey]

pb_deserializeRemoveSignatory(m) ==
    [type |-> "RemoveSignatory", account_id |-> m.account_id, pubkey |-> m.public_key]

\* Variant: another flag is forgotten as well.
pb_serializeSetAccountPermissions_noTransfer(c) ==
    [account_id |-> c.account_id,
     permissions |-> pb_permissions(c.new_permissions \ {"set_permissions", "can_transfer"})]

\* set_permissions is the one flag that is not copied.
pb_serializeSetAccountPermissions(c) ==
    [account_id |-> c.account_id,
     permissions |-> pb_permissions(c.new_permissions \ {"set_permissions"})]

pb_deserializeSetAccountPermissions(m) ==
    [type |-> "SetAccountPermissions", account_id |-> m.account_id,
     new_permissions |-> fromPb_permissions(m.permissions)]

pb_serializeSetQuorum(c) == [account_id |-> c.account_id, quorum |-> c.new_quorum]

pb_deserializeSetQuorum(m) ==
    [type |-> "SetQuorum", account_id |-> m.account_id, new_quorum |-> m.quorum]

pb_serializeTransferAsset(c) ==
    [src_account_id |-> c.src_account_id, dest_account_id |-> c.dest_account_id,
     asset_id |-> c.asset_id, amount |-> pb_amount(c.amount)]

pb_deserializeTransferAsset(m) ==
    [type |-> "TransferAsset", src_account_id |-> m.src_account_id,
     dest_account_id |-> m.dest_account_id, asset_id |-> m.asset_id,
     amount |-> fromPb_amount(m.amount)]

pb_serializeAbstractCommand(c) ==
    CASE c.type = "AddAssetQuantity" -> [add_asset_quantity |-> pb_serializeAddAssetQuantity(c)]
      [] c.type = "AddPeer" -> [add_peer |-> pb_serializeAddPeer(c)]
      [] c.type = "AddSignatory" -> [add_signatory |-> pb_serializeAddSignatory(c)]
      [] c.type = "AssignMasterKey" -> [account_assign_mk |-> pb_serializeAssignMasterKey(c)]
      [] c.type = "CreateAccount" -> [create_account |-> pb_serializeCreateAccount(c)]
      [] c.type = "CreateAsset" -> [create_asset |-> pb_serializeCreateAsset(c)]
      [] c.type = "CreateDomain" -> [create_domain |-> pb_serializeCreateDomain(c)]
      [] c.type = "RemoveSignatory" -> [remove_sign |-> pb_serializeRemoveSignatory(c)]
      [] c.type = "SetAccountPermissions" ->
            [set_permission |-> pb_serializeSetAccountPermissions(c)]
      [] c.type = "SetQuorum" -> [set_quorum |-> pb_serializeSetQuorum(c)]
      [] c.type = "TransferAsset" -> [transfer_asset |-> pb_serializeTransferAsset(c)]

\* A message without a command gives a null pointer.
pb_deserializeAbstractCommand(m) ==
    LET has(field) == field \in DOMAIN m
    IN  CASE has("add_asset_quantity") -> pb_deserializeAddAssetQuantity(m.add_asset_quantity)
          [] has("add_peer") -> pb_deserializeAddPeer(m.add_peer)
          [] has("add_signatory") -> pb_deserializeAddSignatory(m.add_signatory)
          [] has("account_assign_mk") -> pb_deserializeAssignMasterKey(m.account_assign_mk)
          [] has("create_account") -> pb_deserializeCreateAccount(m.create_account)
          [] has("create_asset") -> pb_deserializeCreateAsset(m.create_asset)
          [] has("create_domain") -> pb_deserializeCreateDomain(m.create_domain)
          [] has("remove_sign") -> pb_deserializeRemoveSignatory(m.remove_sign)
          [] has("set_permission") -> pb_deserializeSetAccountPermissions(m.set_permission)
          [] has("set_quorum") -> pb_deserializeSetQuorum(m.set_quorum)
          [] has("transfer_asset") -> pb_deserializeTransferAsset(m.transfer_asset)
          [] OTHER -> nullopt
-----------------------------------------------------------------------------
(* PbTransactionFactory and PbBlockFactory                                 *)

\* The hash does not travel: the receiver computes it anew, in its own layout.
pb_serializeTransaction(tx) ==
    [header |-> [created_time |-> tx.created_ts, signatures |-> tx.signatures],
     meta |-> [creator_account_id |-> tx.creator_account_id, tx_counter |-> tx.tx_counter],
     body |-> [i \in DOMAIN tx.commands |-> pb_serializeAbstractCommand(tx.commands[i])]]

pb_deserializeTransaction(layout, m) ==
    LET tx == [created_ts |-> m.header.created_time, signatures |-> m.header.signatures,
               creator_account_id |-> m.meta.creator_account_id,
               tx_counter |-> m.meta.tx_counter,
               commands |-> [i \in DOMAIN m.body |-> pb_deserializeAbstractCommand(m.body[i])],
               tx_hash |-> zero]
    IN  [tx EXCEPT !.tx_hash = hashTransaction(layout, tx)]

pb_serializeBlock(block) ==
    [header |-> [created_time |-> block.created_ts, signatures |-> block.sigs],
     meta |-> [tx_number |-> block.txs_number, height |-> block.height,
               merkle_root |-> block.merkle_root, prev_block_hash |-> block.prev_hash],
     body |-> [i \in DOMAIN block.transactions |->
                   pb_serializeTransaction(block.transactions[i])]]

pb_deserializeBlock(layout, m) ==
    LET block == [created_ts |-> m.header.created_time, sigs |-> m.header.signatures,
                  txs_number |-> m.meta.tx_number % ShortRange, height |-> m.meta.height,
                  merkle_root |-> m.meta.merkle_root, prev_hash |-> m.meta.prev_block_hash,
                  transactions |-> [i \in DOMAIN m.body |->
                                       pb_deserializeTransaction(layout, m.body[i])],
                  hash |-> zero]
    IN  [block EXCEPT !.hash = hashBlock(layout, block)]
-----------------------------------------------------------------------------
(* PbQueryFactory and PbQueryResponseFactory                               *)

\* GetAccountAssetTransactions is not implemented: a null pointer.
pb_deserializeQuery(m) ==
    LET has(field) == field \in DOMAIN m.query
        fields == CASE has("get_account") ->
                          [type |-> "GetAccount", account_id |-> m.query.get_account.account_id]
                    [] has("get_account_assets") ->
                          [type |-> "GetAccountAssets",
                           account_id |-> m.query.get_account_assets.account_id,
                           asset_id |-> m.query.get_account_assets.asset_id]
                    [] has("get_account_signatories") ->
                          [type |-> "GetSignatories",
                           account_id |-> m.query.get_account_signatories.account_id]
                    [] has("get_account_transactions") ->
                          [type |-> "GetAccountTransactions",
                           account_id |-> m.query.get_account_transactions.account_id]
                    [] OTHER -> nullopt
        header == [query_counter |-> m.query_counter, signature |-> m.header.signature,
                   created_ts |-> m.header.created_time,
                   creator_account_id |-> m.creator_account_id]
        query == [f \in DOMAIN fields \cup DOMAIN header |->
                      IF f \in DOMAIN fields THEN fields[f] ELSE header[f]]
    IN  IF fields = nullopt THEN nullopt
        ELSE [f \in DOMAIN query \cup {"query_hash"} |->
                  IF f = "query_hash" THEN hashQuery(query) ELSE query[f]]

pb_serializeAccount(a) ==
    [quorum |-> a.quorum, account_id |-> a.account_id, domain_name |-> a.domain_name,
     permissions |-> pb_permissions(a.permissions), master_key |-> a.master_key]

pb_deserializeAccount(m) ==
    [account_id |-> m.account_id, quorum |-> m.quorum, domain_name |-> m.domain_name,
     permissions |-> fromPb_permissions(m.permissions), master_key |-> m.master_key]

pb_serializeAccountResponse(r) == [account |-> pb_serializeAccount(r.account)]
pb_deserializeAccountResponse(m) ==
    [type |-> "AccountResponse", account |-> pb_deserializeAccount(m.account)]

pb_serializeAccountAsset(a) ==
    [account_id |-> a.account_id, asset_id |-> a.asset_id, balance |-> a.balance]
pb_deserializeAccountAsset(m) ==
    [account_id |-> m.account_id, balance |-> m.balance, asset_id |-> m.asset_id]

\* These two do not use the two above, and do the same.
pb_serializeAccountAssetResponse(r) ==
    [account_asset |-> [asset_id |-> r.acct_asset.asset_id, balance |-> r.acct_asset.balance,
                        account_id |-> r.acct_asset.account_id]]
pb_deserializeAccountAssetResponse(m) ==
    [type |-> "AccountAssetResponse",
     acct_asset |-> [account_id |-> m.account_asset.account_id, balance |-> m.account_asset.balance,
                     asset_id |-> m.account_asset.asset_id]]

\* The rows of the signatories have no order: a set.
pb_serializeSignatoriesResponse(r) == [keys |-> r.keys]
pb_deserializeSignatoriesResponse(m) ==
    [type |-> "SignatoriesResponse", keys |-> m.keys]

pb_serializeTransactionsResponse(r) ==
    [transactions |-> [i \in DOMAIN r.transactions |-> pb_serializeTransaction(r.transactions[i])]]

\* Every reason has a value of the enumeration of its name.
pb_serializeErrorResponse(r) == [reason |-> r.reason]

\* The oneof of the answer. The hash of the query is in none of them.
pb_serializeResponse(r) ==
    CASE r.type = "ErrorResponse" -> [error_response |-> pb_serializeErrorResponse(r)]
      [] r.type = "AccountAssetResponse" ->
            [account_assets_response |-> pb_serializeAccountAssetResponse(r)]
      [] r.type = "AccountResponse" -> [account_response |-> pb_serializeAccountResponse(r)]
      [] r.type = "SignatoriesResponse" ->
            [signatories_response |-> pb_serializeSignatoriesResponse(r)]
      [] r.type = "TransactionsResponse" ->
            [transactions_response |-> pb_serializeTransactionsResponse(r)]
-----------------------------------------------------------------------------
\* What is lost of a command: the client reads a precision into 8 bits, and
\* PbCommandFactory does not write the flag set_permissions.
AsRead(c) == IF c.type = "CreateAsset" THEN [c EXCEPT !.precision = @ % ByteRange] ELSE c

AfterPb(c) ==
    IF c.type = "SetAccountPermissions"
    THEN [c EXCEPT !.new_permissions = @ \ {"set_permissions"}]
    ELSE AsRead(c)
=============================================================================
