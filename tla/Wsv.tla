-------------------------------- MODULE Wsv --------------------------------
(***************************************************************************)
(* The world state view (irohad/ametsuchi): the tables of storage_impl.hpp *)
(* and the statements of PostgresWsvCommand and PostgresWsvQuery on them.  *)
(* A statement takes the tables and returns the changed tables, or nullopt *)
(* if PostgreSQL throws: a primary key is taken, a foreign key has no row, *)
(* or a number does not fit its column.                                    *)
(***************************************************************************)
EXTENDS Model

CONSTANT Word   \* the number of values of an unsigned 64 bit integer

ASSUME WordAssumption == Word \in Nat \ {0} /\ Word % 2 = 0

\* Quorums start with 1.
ASSUME NumbersAssumption == Numbers \subseteq Nat /\ 1 \in Numbers

\* The largest value of a column of type bigint, which is signed.
MaxBigint == Word \div 2 - 1

\* The functions from a part of D to R: a table with primary key in D.
Table(D, R) == UNION {[X -> R] : X \in SUBSET D}

\* The table f with the row v under key k.
Put(f, k, v) == [x \in DOMAIN f \cup {k} |-> IF x = k THEN v ELSE f[x]]

\* Variant: two columns are swapped.
PermissionBits_swapped ==
    <<"can_transfer", "add_signatory", "create_accounts", "create_assets",
      "create_domains", "issue_assets", "read_all_accounts",
      "remove_signatory", "set_permissions", "set_quorum">>

\* The permissions are written as a string of ten bits in this order.
PermissionBits ==
    <<"add_signatory", "can_transfer", "create_accounts", "create_assets",
      "create_domains", "issue_assets", "read_all_accounts",
      "remove_signatory", "set_permissions", "set_quorum">>

\* getAccount reads the bits back by position.
ReadBits ==
    <<"add_signatory", "can_transfer", "create_accounts", "create_assets",
      "create_domains", "issue_assets", "read_all_accounts",
      "remove_signatory", "set_permissions", "set_quorum">>

Bits == [1 .. 10 -> BOOLEAN]

\* The database right after init_ has created the tables.
Tables == [domain |-> {}, signatory |-> {}, account |-> <<>>,
           account_has_signatory |-> {}, peer |-> <<>>, asset |-> <<>>,
           account_has_asset |-> <<>>]

AccountRow ==
    [domain_id : Names, master_key : Keys, quorum : Numbers, permissions : Bits]

\* The values the tables can have by the schema.
Schema ==
    [domain : SUBSET Names,
     signatory : SUBSET Keys,
     account : Table(AccountId, AccountRow),
     account_has_signatory : SUBSET (AccountId \X Keys),
     peer : Seq(Peer),
     asset : Table(AssetId, [domain_id : Names, precision : Numbers]),
     account_has_asset : Table(AccountId \X AssetId, 0 .. MaxBigint)]

\* The outcome of exec: the new tables, or an exception.
exec(accepted, w) == IF accepted THEN w ELSE nullopt
-----------------------------------------------------------------------------
(* PostgresWsvCommand                                                      *)

\* The row of an account, as insertAccount and updateAccount write it.
Row(account) ==
    [domain_id |-> account.domain_name, master_key |-> account.master_key,
     quorum |-> account.quorum,
     permissions |-> [i \in 1 .. 10 |-> PermissionBits[i] \in account.permissions]]

insertAccount(w, account) ==
    exec(/\ account.account_id \notin DOMAIN w.account
         /\ account.domain_name \in w.domain
         /\ account.master_key \in w.signatory,
         [w EXCEPT !.account = Put(@, account.account_id, Row(account))])

insertAsset(w, asset) ==
    exec(asset.asset_id \notin DOMAIN w.asset /\ asset.domain_id \in w.domain,
         [w EXCEPT !.asset = Put(@, asset.asset_id,
            [domain_id |-> asset.domain_id, precision |-> asset.precision])])

\* Variant: the column is as wide as the balance.
upsertAccountAsset_unsigned(w, asset) ==
    exec(/\ asset.account_id \in DOMAIN w.account
         /\ asset.asset_id \in DOMAIN w.asset,
         [w EXCEPT !.account_has_asset =
            Put(@, <<asset.account_id, asset.asset_id>>, asset.balance)])

upsertAccountAsset(w, asset) ==
    exec(/\ asset.account_id \in DOMAIN w.account
         /\ asset.asset_id \in DOMAIN w.asset
         /\ asset.balance <= MaxBigint,
         [w EXCEPT !.account_has_asset =
            Put(@, <<asset.account_id, asset.asset_id>>, asset.balance)])

insertSignatory(w, key) ==
    exec(key \notin w.signatory, [w EXCEPT !.signatory = @ \cup {key}])

insertAccountSignatory(w, account_id, key) ==
    exec(/\ <<account_id, key>> \notin w.account_has_signatory
         /\ account_id \in DOMAIN w.account
         /\ key \in w.signatory,
         [w EXCEPT !.account_has_signatory = @ \cup {<<account_id, key>>}])

\* A DELETE that finds no row is no error.
deleteAccountSignatory(w, account_id, key) ==
    [w EXCEPT !.account_has_signatory = @ \ {<<account_id, key>>}]

\* Both the key and the address of a peer are unique. No statement changes or
\* deletes a row of this table, so the rows lie in the order of insertion.
insertPeer(w, peer) ==
    exec(\A i \in DOMAIN w.peer : /\ w.peer[i].pubkey # peer.pubkey
                                  /\ w.peer[i].address # peer.address,
         [w EXCEPT !.peer = Append(@, peer)])

insertDomain(w, domain_id) ==
    exec(domain_id \notin w.domain, [w EXCEPT !.domain = @ \cup {domain_id}])

\* An UPDATE sets neither the key nor the domain of the account, and one that
\* finds no row is no error.
updateAccount(w, account) ==
    exec(account.account_id \in DOMAIN w.account => account.master_key \in w.signatory,
         [w EXCEPT !.account = [a \in DOMAIN @ |->
            IF a = account.account_id
            THEN [Row(account) EXCEPT !.domain_id = w.account[a].domain_id]
            ELSE @[a]]])
-----------------------------------------------------------------------------
(* PostgresWsvQuery                                                        *)

getAccount(w, account_id) ==
    IF account_id \notin DOMAIN w.account THEN nullopt
    ELSE LET row == w.account[account_id]
         IN  [account_id |-> account_id, domain_name |-> row.domain_id,
              master_key |-> row.master_key, quorum |-> row.quorum,
              permissions |-> {ReadBits[i] : i \in {j \in 1 .. 10 : row.permissions[j]}}]

\* Never nullopt: an account that does not exist has no signatories.
getSignatories(w, account_id) ==
    {key \in Keys : <<account_id, key>> \in w.account_has_signatory}

getAsset(w, asset_id) ==
    IF asset_id \notin DOMAIN w.asset THEN nullopt
    ELSE [asset_id |-> asset_id, domain_id |-> w.asset[asset_id].domain_id,
          precision |-> w.asset[asset_id].precision]

getAccountAsset(w, account_id, asset_id) ==
    IF <<account_id, asset_id>> \notin DOMAIN w.account_has_asset THEN nullopt
    ELSE [account_id |-> account_id, asset_id |-> asset_id,
          balance |-> w.account_has_asset[<<account_id, asset_id>>]]

\* A SELECT without ORDER BY: PostgreSQL scans the table as it lies.
getPeers(w) == w.peer
=============================================================================
