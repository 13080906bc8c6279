------------------------------- MODULE Queries -------------------------------
(***************************************************************************)
(* QueryProcessingFactory (irohad/model/impl/query_execution.cpp): the     *)
(* answer to a query from the world state view w and the block store, a    *)
(* sequence of files.                                                      *)
(***************************************************************************)
EXTENDS Wsv, JsonConverters, SequencesExt

\* StorageImpl::getBlocks: the files from .. to, parsed when they are consumed.
getBlocks(store, from, to) ==
    [i \in 1 .. (IF to > Len(store) THEN Len(store) ELSE to) - from + 1 |->
        json_deserializeBlock(vectorToJson(store[from + i - 1]))]

\* The transactions of all blocks that the account has created, in their order.
getAccountTransactions(store, account_id) ==
    LET blocks == getBlocks(store, 1, Len(store))
    IN  SelectSeq(FlattenSeq([i \in DOMAIN blocks |-> blocks[i].transactions]),
                  LAMBDA tx : tx.creator_account_id = account_id)


\* The five overloads of validate: the creator exists, and asks for the own
\* account or may read all.
validateQuery(w, q) ==
    LET creator == getAccount(w, q.creator_account_id)
    IN  /\ creator # nullopt
        /\ \/ "read_all_accounts" \in creator.permissions
           \/ q.account_id = q.creator_account_id

executeGetAccount(w, q) ==
    LET acc == getAccount(w, q.account_id)
    IN  IF acc = nullopt THEN ErrorResponse("NO_ACCOUNT") ELSE AccountResponse(acc)

executeGetAccountAssets(w, q) ==
    LET acct_asset == getAccountAsset(w, q.account_id, q.asset_id)
    IN  IF acct_asset = nullopt THEN ErrorResponse("NO_ACCOUNT_ASSETS")
        ELSE AccountAssetResponse(acct_asset)

executeGetAccountAssetTransactions(q) == ErrorResponse("NOT_SUPPORTED")

executeGetAccountTransactions(store, q) ==
    TransactionsResponse(getAccountTransactions(store, q.account_id))

\* An account that does not exist has no signatories, which is no error.
executeGetSignatories(w, q) == SignatoriesResponse(getSignatories(w, q.account_id))

\* execute after "valid" is decided: another state may be read by then.
executeQuery(valid, w, store, q) ==
    IF ~ valid THEN ErrorResponse("STATEFUL_INVALID")
    ELSE CASE q.type = "GetAccount" -> executeGetAccount(w, q)
           [] q.type = "GetAccountAssets" -> executeGetAccountAssets(w, q)
           [] q.type = "GetSignatories" -> executeGetSignatories(w, q)
           [] q.type = "GetAccountTransactions" -> executeGetAccountTransactions(store, q)
           [] q.type = "GetAccountAssetTransactions" -> executeGetAccountAssetTransactions(q)
           [] OTHER -> ErrorResponse("NOT_SUPPORTED")
=============================================================================
