------------------------------- MODULE Model -------------------------------
(***************************************************************************)
(* The data model of the node: the structures of irohad/model that travel  *)
(* between its parts.  An identifier "name@domain" or "name#domain" is the *)
(* pair of its two names.  Keys, addresses, signatures and hashes are      *)
(* opaque values; the numbers range over small sets named by constants.    *)
(***************************************************************************)
EXTENDS Integers, Sequences, FiniteSets

CONSTANTS
  nullopt,      \* an empty optional, a null pointer, or a failed call
  Names,        \* names of accounts, domains and assets
  Keys,         \* public keys
  Addresses,    \* addresses of peers
  Numbers,      \* the integers that fields may hold
  zero          \* an array of zero bytes: a hash that nobody has computed

(***************************************************************************)
(* struct Amount: an integer and a fractional part, kept apart.            *)
(***************************************************************************)
Amount == [int_part : Numbers, frac_part : Numbers]

AccountId == Names \X Names
AssetId == Names \X Names

(***************************************************************************)
(* Account::Permissions has ten flags, all false in a new object.  A value *)
(* is the set of the flags that are true.                                  *)
(***************************************************************************)
Permission ==
  {"issue_assets", "create_assets", "create_accounts", "create_domains",
   "read_all_accounts", "add_signatory", "remove_signatory",
   "set_permissions", "set_quorum", "can_transfer"}

Account ==
  [account_id : AccountId, domain_name : Names, master_key : Keys,
   quorum : Numbers, permissions : SUBSET Permission]

Asset == [asset_id : AssetId, domain_id : Names, precision : Numbers]

AccountAsset == [asset_id : AssetId, account_id : AccountId, balance : Numbers]

Peer == [address : Addresses, pubkey : Keys]

(***************************************************************************)
(* The eleven commands.  The field "type" is the dynamic type of the       *)
(* object behind the pointer to Command.                                   *)
(***************************************************************************)
AddAssetQuantity ==
  [type : {"AddAssetQuantity"}, account_id : AccountId, asset_id : AssetId,
   amount : Amount]

AddPeer == [type : {"AddPeer"}, peer_key : Keys, address : Addresses]

AddSignatory ==
  [type : {"AddSignatory"}, account_id : AccountId, pubkey : Keys]

AssignMasterKey ==
  [type : {"AssignMasterKey"}, account_id : AccountId, pubkey : Keys]

CreateAccount ==
  [type : {"CreateAccount"}, account_name : Names, domain_id : Names,
   pubkey : Keys]

CreateAsset ==
  [type : {"CreateAsset"}, asset_name : Names, domain_id : Names,
   precision : Numbers]

CreateDomain == [type : {"CreateDomain"}, domain_name : Names]

RemoveSignatory ==
  [type : {"RemoveSignatory"}, account_id : AccountId, pubkey : Keys]

SetAccountPermissions ==
  [type : {"SetAccountPermissions"}, account_id : AccountId,
   new_permissions : SUBSET Permission]

SetQuorum ==
  [type : {"SetQuorum"}, account_id : AccountId, new_quorum : Numbers]

TransferAsset ==
  [type : {"TransferAsset"}, src_account_id : AccountId,
   dest_account_id : AccountId, asset_id : AssetId, amount : Amount]

(***************************************************************************)
(* struct Command: the abstract base of the eleven.                        *)
(***************************************************************************)
Command ==
  UNION {AddAssetQuantity, AddPeer, AddSignatory, AssignMasterKey,
         CreateAccount, CreateAsset, CreateDomain, RemoveSignatory,
         SetAccountPermissions, SetQuorum, TransferAsset}

(***************************************************************************)
(* Signed data.  A hash is whatever the hash provider makes of an object,  *)
(* and a signature what the crypto library makes of a hash.                *)
(***************************************************************************)
IsSignature(s) == DOMAIN s = {"signature", "pubkey"} /\ s.pubkey \in Keys

IsTransaction(tx) ==
  /\ DOMAIN tx = {"signatures", "created_ts", "creator_account_id",
                  "tx_counter", "tx_hash", "commands"}
  /\ tx.commands \in Seq(Command)
  /\ \A i \in DOMAIN tx.signatures : IsSignature(tx.signatures[i])
  /\ tx.creator_account_id \in AccountId
  /\ tx.created_ts \in Nat /\ tx.tx_counter \in Nat

IsBlock(block) ==
  /\ DOMAIN block = {"hash", "sigs", "created_ts", "height", "prev_hash",
                     "txs_number", "merkle_root", "transactions"}
  /\ \A i \in DOMAIN block.sigs : IsSignature(block.sigs[i])
  /\ block.created_ts \in Nat /\ block.height \in Nat /\ block.txs_number \in Nat
  /\ \A i \in DOMAIN block.transactions : IsTransaction(block.transactions[i])

(***************************************************************************)
(* Queries.  The base of the five has the header, each adds its fields.    *)
(***************************************************************************)
QueryHeader(q) ==
  /\ IsSignature(q.signature) /\ q.creator_account_id \in AccountId
  /\ q.created_ts \in Nat /\ q.query_counter \in Nat

GetAccount(q) == q.type = "GetAccount" /\ q.account_id \in AccountId

GetSignatories(q) == q.type = "GetSignatories" /\ q.account_id \in AccountId

GetAccountTransactions(q) ==
  q.type = "GetAccountTransactions" /\ q.account_id \in AccountId

GetAccountAssets(q) ==
  q.type = "GetAccountAssets" /\ q.account_id \in AccountId /\ q.asset_id \in AssetId

GetAccountAssetTransactions(q) ==
  /\ q.type = "GetAccountAssetTransactions"
  /\ q.account_id \in AccountId /\ q.asset_id \in AssetId

IsQuery(q) ==
  /\ QueryHeader(q)
  /\ \/ GetAccount(q) \/ GetSignatories(q) \/ GetAccountTransactions(q)
     \/ GetAccountAssets(q) \/ GetAccountAssetTransactions(q)

(***************************************************************************)
(* The answers to queries, and the reasons of an ErrorResponse.            *)
(***************************************************************************)
Reason ==
  {"STATELESS_INVALID", "STATEFUL_INVALID", "NO_ACCOUNT", "NO_ACCOUNT_ASSETS",
   "NO_SIGNATORIES", "NOT_SUPPORTED"}

AccountResponse(a) == [type |-> "AccountResponse", account |-> a]
AccountAssetResponse(a) == [type |-> "AccountAssetResponse", acct_asset |-> a]
SignatoriesResponse(keys) == [type |-> "SignatoriesResponse", keys |-> keys]
TransactionsResponse(txs) == [type |-> "TransactionsResponse", transactions |-> txs]
ErrorResponse(reason) == [type |-> "ErrorResponse", reason |-> reason]
=============================================================================
