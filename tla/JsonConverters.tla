--------------------------- MODULE JsonConverters ---------------------------
(***************************************************************************)
(* The JSON factories of irohad/model/converters: the form of a            *)
(* transaction in a file of the client, and of a block in the block store. *)
(* A document is a record of its members; the text of a document is        *)
(* <<"text", document>>, and any other text does not parse. Keys, hashes   *)
(* and signatures are written in hexadecimal.                              *)
(***************************************************************************)
EXTENDS PbConverters

\* blob_t::to_hexstring and hexstringToArray.
to_hexstring(blob) == <<"hex", blob>>

hex2bytes(hex) == hex[2]

hexstringToArray(string) == hex2bytes(string)

jsonToString(document) == <<"text", document>>

\* Document::Parse fails on what is not JSON.
stringToJson(string) == IF string[1] = "text" THEN string[2] ELSE nullopt

\* The text as bytes, which is what the block store keeps.
jsonToVector(document) == <<"bytes", jsonToString(document)>>

vectorToJson(vector) == stringToJson(vector[2])

verifyRequiredMembers(document, members) == members \subseteq DOMAIN document

serializeSignature(s) ==
    [pubkey |-> to_hexstring(s.pubkey), signature |-> to_hexstring(s.signature)]

deserializeSignature(document) ==
    IF ~ verifyRequiredMembers(document, {"pubkey", "signature"}) THEN nullopt
    ELSE [pubkey |-> hexstringToArray(document.pubkey),
          signature |-> hexstringToArray(document.signature)]
-----------------------------------------------------------------------------
(* JsonCommandFactory                                                      *)

json_serializeAddAssetQuantity(c) ==
    [command_type |-> "AddAssetQuantity", account_id |-> c.account_id,
     asset_id |-> c.asset_id, amount |-> c.amount]

json_deserializeAddAssetQuantity(d) ==
    [type |-> "AddAssetQuantity", account_id |-> d.account_id, asset_id |-> d.asset_id,
     amount |-> d.amount]

json_serializeAddPeer(c) ==
    [command_type |-> "AddPeer", address |-> c.address, peer_key |-> to_hexstring(c.peer_key)]

json_deserializeAddPeer(d) ==
    [type |-> "AddPeer", peer_key |-> hexstringToArray(d.peer_key), address |-> d.address]

json_serializeAddSignatory(c) ==
    [command_type |-> "AddSignatory", account_id |-> c.account_id,
     pubkey |-> to_hexstring(c.pubkey)]

json_deserializeAddSignatory(d) ==
    [type |-> "AddSignatory", account_id |-> d.account_id, pubkey |-> hexstringToArray(d.pubkey)]

json_serializeAssignMasterKey(c) ==
    [command_type |-> "AssignMasterKey", account_id |-> c.account_id,
     pubkey |-> to_hexstring(c.pubkey)]

json_deserializeAssignMasterKey(d) ==
    [type |-> "AssignMasterKey", account_id |-> d.account_id,
     pubkey |-> hexstringToArray(d.pubkey)]

json_serializeCreateAccount(c) ==
    [command_type |-> "CreateAccount", account_name |-> c.account_name,
     domain_id |-> c.domain_id, pubkey |-> to_hexstring(c.pubkey)]

json_deserializeCreateAccount(d) ==
    [type |-> "CreateAccount", account_name |-> d.account_name, domain_id |-> d.domain_id,
     pubkey |-> hexstringToArray(d.pubkey)]

json_serializeCreateAsset(c) ==
    [command_type |-> "CreateAsset", asset_name |-> c.asset_name, domain_id |-> c.domain_id,
     precision |-> c.precision]

\* GetUint() is assigned to a uint8_t.
json_deserializeCreateAsset(d) ==
    [type |-> "CreateAsset", asset_name |-> d.asset_name, domain_id |-> d.domain_id,
     precision |-> d.precision % ByteRange]

json_serializeCreateDomain(c) ==
    [command_type |-> "CreateDomain", domain_name |-> c.domain_name]

json_deserializeCreateDomain(d) == [type |-> "CreateDomain", domain_name |-> d.domain_name]

json_serializeRemoveSignatory(c) ==
    [command_type |-> "RemoveSignatory", account_id |-> c.account_id,
     pubkey |-> to_hexstring(c.pubkey)]

json_deserializeRemoveSignatory(d) ==
    [type |-> "RemoveSignatory", account_id |-> d.account_id,
     pubkey |-> hexstringToArray(d.pubkey)]

json_serializeSetAccountPermissions(c) ==
    [command_type |-> "SetAccountPermissions", account_id |-> c.account_id,
     new_permissions |-> [p \in Permission |-> p \in c.new_permissions]]

json_deserializeSetAccountPermissions(d) ==
    [type |-> "SetAccountPermissions", account_id |-> d.account_id,
     new_permissions |-> {p \in Permission : d.new_permissions[p]}]

json_serializeSetQuorum(c) ==
    [command_type |-> "SetQuorum", account_id |-> c.account_id, new_quorum |-> c.new_quorum]

json_deserializeSetQuorum(d) ==
    [type |-> "SetQuorum", account_id |-> d.account_id, new_quorum |-> d.new_quorum]

json_serializeTransferAsset(c) ==
    [command_type |-> "TransferAsset", src_account_id |-> c.src_account_id,
     dest_account_id |-> c.dest_account_id, asset_id |-> c.asset_id, amount |-> c.amount]

\* Variant: both accounts are read from the member of the source.
json_deserializeTransferAsset_sameAccount(d) ==
    [type |-> "TransferAsset", src_account_id |-> d.src_account_id,
     dest_account_id |-> d.src_account_id, asset_id |-> d.asset_id, amount |-> d.amount]

json_deserializeTransferAsset(d) ==
    [type |-> "TransferAsset", src_account_id |-> d.src_account_id,
     dest_account_id |-> d.dest_account_id, asset_id |-> d.asset_id, amount |-> d.amount]

\* The tables serializers_ and deserializers_, by type and by command_type.
json_serializeAbstractCommand(c) ==
    CASE c.type = "AddAssetQuantity" -> json_serializeAddAssetQuantity(c)
      [] c.type = "AddPeer" -> json_serializeAddPeer(c)
      [] c.type = "AddSignatory" -> json_serializeAddSignatory(c)
      [] c.type = "AssignMasterKey" -> json_serializeAssignMasterKey(c)
      [] c.type = "CreateAccount" -> json_serializeCreateAccount(c)
      [] c.type = "CreateAsset" -> json_serializeCreateAsset(c)
      [] c.type = "CreateDomain" -> json_serializeCreateDomain(c)
      [] c.type = "RemoveSignatory" -> json_serializeRemoveSignatory(c)
      [] c.type = "SetAccountPermissions" -> json_serializeSetAccountPermissions(c)
      [] c.type = "SetQuorum" -> json_serializeSetQuorum(c)
      [] c.type = "TransferAsset" -> json_serializeTransferAsset(c)

json_deserializeAbstractCommand(d) ==
    LET is(type) == d.command_type = type
    IN  CASE is("AddAssetQuantity") -> json_deserializeAddAssetQuantity(d)
          [] is("AddPeer") -> json_deserializeAddPeer(d)
          [] is("AddSignatory") -> json_deserializeAddSignatory(d)
          [] is("AssignMasterKey") -> json_deserializeAssignMasterKey(d)
          [] is("CreateAccount") -> json_deserializeCreateAccount(d)
          [] is("CreateAsset") -> json_deserializeCreateAsset(d)
          [] is("CreateDomain") -> json_deserializeCreateDomain(d)
          [] is("RemoveSignatory") -> json_deserializeRemoveSignatory(d)
          [] is("SetAccountPermissions") -> json_deserializeSetAccountPermissions(d)
          [] is("SetQuorum") -> json_deserializeSetQuorum(d)
          [] is("TransferAsset") -> json_deserializeTransferAsset(d)
          [] OTHER -> nullopt
-----------------------------------------------------------------------------
(* JsonTransactionFactory and JsonBlockFactory                             *)

\* A failure in one element is a failure of the whole.
AllOrNothing(s) == IF \E i \in DOMAIN s : s[i] = nullopt THEN nullopt ELSE s

json_serializeTransaction(tx) ==
    [signatures |-> [i \in DOMAIN tx.signatures |-> serializeSignature(tx.signatures[i])],
     created_ts |-> tx.created_ts, creator_account_id |-> tx.creator_account_id,
     tx_counter |-> tx.tx_counter,
     commands |-> [i \in DOMAIN tx.commands |-> json_serializeAbstractCommand(tx.commands[i])]]

\* The hash is neither stored nor computed.
json_deserializeTransaction(d) ==
    LET signatures == AllOrNothing([i \in DOMAIN d.signatures |->
                                        deserializeSignature(d.signatures[i])])
        commands == AllOrNothing([i \in DOMAIN d.commands |->
                                      json_deserializeAbstractCommand(d.commands[i])])
    IN  IF ~ verifyRequiredMembers(d, {"creator_account_id", "tx_counter", "commands",
                                       "signatures", "created_ts"})
        THEN nullopt
        ELSE IF signatures = nullopt \/ commands = nullopt THEN nullopt
        ELSE [signatures |-> signatures, created_ts |-> d.created_ts,
              creator_account_id |-> d.creator_account_id, tx_counter |-> d.tx_counter,
              tx_hash |-> zero, commands |-> commands]

json_serializeBlock(block) ==
    [signatures |-> [i \in DOMAIN block.sigs |-> serializeSignature(block.sigs[i])],
     created_ts |-> block.created_ts, hash |-> to_hexstring(block.hash),
     prev_hash |-> to_hexstring(block.prev_hash), height |-> block.height,
     txs_number |-> block.txs_number, merkle_root |-> to_hexstring(block.merkle_root),
     transactions |-> [i \in DOMAIN block.transactions |->
                           json_serializeTransaction(block.transactions[i])]]

\* The hash is the one of the document, and is not compared with the block.
json_deserializeBlock(d) ==
    LET sigs == AllOrNothing([i \in DOMAIN d.signatures |->
                                  deserializeSignature(d.signatures[i])])
        transactions == AllOrNothing([i \in DOMAIN d.transactions |->
                                          json_deserializeTransaction(d.transactions[i])])
    IN  IF ~ verifyRequiredMembers(d, {"hash", "signatures", "created_ts", "height",
                                       "prev_hash", "txs_number"})
        THEN nullopt
        ELSE IF sigs = nullopt \/ transactions = nullopt THEN nullopt
        ELSE [sigs |-> sigs, created_ts |-> d.created_ts, height |-> d.height,
              txs_number |-> d.txs_number % ShortRange, hash |-> hexstringToArray(d.hash),
              prev_hash |-> hexstringToArray(d.prev_hash),
              merkle_root |-> hexstringToArray(d.merkle_root), transactions |-> transactions]
-----------------------------------------------------------------------------
(* JsonQueryFactory: a document of the client becomes a protobuf message.  *)

json_GetAccount(d) ==
    IF ~ verifyRequiredMembers(d, {"account_id"}) THEN nullopt
    ELSE [get_account |-> [account_id |-> d.account_id]]

json_GetSignatories(d) ==
    IF ~ verifyRequiredMembers(d, {"account_id"}) THEN nullopt
    ELSE [get_account_signatories |-> [account_id |-> d.account_id]]

json_GetAccountTransactions(d) ==
    IF ~ verifyRequiredMembers(d, {"account_id"}) THEN nullopt
    ELSE [get_account_transactions |-> [account_id |-> d.account_id]]

json_GetAccountAssetTransactions(d) ==
    IF ~ verifyRequiredMembers(d, {"account_id", "asset_id"}) THEN nullopt
    ELSE [get_account_asset_transactions |->
             [account_id |-> d.account_id, asset_id |-> d.asset_id]]

json_GetAccountAssets(d) ==
    IF ~ verifyRequiredMembers(d, {"account_id", "asset_id"}) THEN nullopt
    ELSE [get_account_assets |-> [account_id |-> d.account_id, asset_id |-> d.asset_id]]

\* The key and the signature are copied as they are in the text.
json_deserializeQuery(string) ==
    LET d == stringToJson(string)
        is(type) == d.query_type = type
        query == CASE is("GetAccount") -> json_GetAccount(d)
                   [] is("GetAccountAsset") -> json_GetAccountAssets(d)
                   [] is("GetAccountAssetTransactions") -> json_GetAccountAssetTransactions(d)
                   [] is("GetAccountTransactions") -> json_GetAccountTransactions(d)
                   [] is("GetAccountSignatories") -> json_GetSignatories(d)
                   [] OTHER -> nullopt
    IN  IF d = nullopt THEN nullopt
        ELSE IF ~ /\ verifyRequiredMembers(d, {"signature", "creator_account_id",
                                               "created_ts", "query_counter", "query_type"})
                  /\ verifyRequiredMembers(d.signature, {"pubkey", "signature"})
        THEN nullopt
        ELSE IF query = nullopt THEN nullopt
        ELSE [header |-> [created_time |-> d.created_ts, signature |-> d.signature],
              creator_account_id |-> d.creator_account_id,
              query_counter |-> d.query_counter, query |-> query]
=============================================================================
