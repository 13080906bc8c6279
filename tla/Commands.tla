------------------------------ MODULE Commands ------------------------------
(***************************************************************************)
(* What the commands do (irohad/model/impl): "validate" decides whether    *)
(* the creator of the transaction may give the command, "execute" changes  *)
(* the world state view or fails. Blocks that are committed are executed   *)
(* without being validated again.                                          *)
(***************************************************************************)
EXTENDS Wsv

CONSTANTS
    IntRange,  \* the number of values of an int, and of an unsigned 32 bit integer
    Size(_),   \* the length of a name
    Alnum(_)   \* all characters of a name are letters or digits

\* 32 and 64 bits.
ASSUME IntAssumption == IntRange \in Nat \ {0} /\ IntRange % 2 = 0 /\ Word = IntRange * IntRange

\* std::numeric_limits<uint32_t>::max()
MaxU32 == IntRange - 1

\* The number of decimal digits of the fractional part; zero has one.
get_frac_number(amount) ==
    CHOOSE n \in 1 .. 20 : /\ amount.frac_part < 10 ^ n
                           /\ n > 1 => amount.frac_part >= 10 ^ (n - 1)

\* A power computed with ints, which wrap around in the build: from a precision
\* of 10 on, the factor of an asset is another number, or negative.
ipow(base, exp) ==
    ((base ^ exp + IntRange \div 2) % IntRange) - IntRange \div 2

\* The amount in the smallest units of an asset, in unsigned 64 bit arithmetic.
get_joint_amount(amount, precision) ==
    (amount.int_part * ipow(10, precision) + amount.frac_part) % Word

NotZero(amount) == amount.int_part > 0 \/ amount.frac_part > 0

WellFormed(name, limit) == Size(name) > 0 /\ Size(name) < limit /\ Alnum(name)

\* The creator acts on the own account or has the permission.
OwnOr(creator, account_id, permission) ==
    creator.account_id = account_id \/ permission \in creator.permissions
-----------------------------------------------------------------------------
(* AddAssetQuantity                                                        *)

AddAssetQuantity_validate(w, c, creator) ==
    /\ NotZero(c.amount)
    /\ c.amount.int_part < MaxU32
    /\ "issue_assets" \in creator.permissions

AddAssetQuantity_execute(w, c) ==
    LET asset == getAsset(w, c.asset_id)
        wallet == getAccountAsset(w, c.account_id, c.asset_id)
        joint == get_joint_amount(c.amount, asset.precision)
    IN  IF \/ asset = nullopt
           \/ get_frac_number(c.amount) > asset.precision
           \/ getAccount(w, c.account_id) = nullopt
        THEN nullopt
        ELSE upsertAccountAsset(w,
               [account_id |-> c.account_id, asset_id |-> c.asset_id,
                balance |-> IF wallet = nullopt THEN joint
                            ELSE (wallet.balance + joint) % Word])
-----------------------------------------------------------------------------
(* AddPeer                                                                 *)

AddPeer_validate(w, c, creator) == TRUE

AddPeer_execute(w, c) ==
    insertPeer(w, [address |-> c.address, pubkey |-> c.peer_key])
-----------------------------------------------------------------------------
(* AddSignatory: the key has to be the key of some account already.        *)

AddSignatory_validate(w, c, creator) ==
    OwnOr(creator, c.account_id, "add_signatory")

AddSignatory_execute(w, c) == insertAccountSignatory(w, c.account_id, c.pubkey)
-----------------------------------------------------------------------------
(* AssignMasterKey                                                         *)

AssignMasterKey_validate(w, c, creator) ==
    LET account == getAccount(w, c.account_id)
    IN  /\ OwnOr(creator, c.account_id, "add_signatory")
        /\ account # nullopt
        /\ account.master_key # c.pubkey
        /\ c.pubkey \in getSignatories(w, c.account_id)

AssignMasterKey_execute(w, c) ==
    LET account == getAccount(w, c.account_id)
    IN  IF account = nullopt THEN nullopt
        ELSE updateAccount(w, [account EXCEPT !.master_key = c.pubkey])
-----------------------------------------------------------------------------
(* CreateAccount                                                           *)

CreateAccount_validate(w, c, creator) ==
    /\ "create_accounts" \in creator.permissions
    /\ WellFormed(c.account_name, 8)

CreateAccount_execute(w, c) ==
    LET account == [account_id |-> <<c.account_name, c.domain_id>>,
                    domain_name |-> c.domain_id, master_key |-> c.pubkey,
                    quorum |-> 1, permissions |-> {}]
        w1 == insertSignatory(w, c.pubkey)
        w2 == IF w1 = nullopt THEN nullopt ELSE insertAccount(w1, account)
    IN  IF w2 = nullopt THEN nullopt
        ELSE insertAccountSignatory(w2, account.account_id, c.pubkey)
-----------------------------------------------------------------------------
(* CreateAsset and CreateDomain                                            *)

CreateAsset_validate(w, c, creator) ==
    /\ "create_assets" \in creator.permissions
    /\ WellFormed(c.asset_name, 10)

CreateAsset_execute(w, c) ==
    insertAsset(w, [asset_id |-> <<c.asset_name, c.domain_id>>,
                    domain_id |-> c.domain_id, precision |-> c.precision])

CreateDomain_validate(w, c, creator) ==
    /\ "create_domains" \in creator.permissions
    /\ WellFormed(c.domain_name, 10)

CreateDomain_execute(w, c) == insertDomain(w, c.domain_name)
-----------------------------------------------------------------------------
(* RemoveSignatory                                                         *)

\* Variant: the master key may be removed.
RemoveSignatory_validate_anyKey(w, c, creator) ==
    /\ OwnOr(creator, c.account_id, "remove_signatory")
    /\ getAccount(w, c.account_id) # nullopt

RemoveSignatory_validate(w, c, creator) ==
    LET account == getAccount(w, c.account_id)
    IN  /\ OwnOr(creator, c.account_id, "remove_signatory")
        /\ account # nullopt
        /\ c.pubkey # account.master_key

RemoveSignatory_execute(w, c) == deleteAccountSignatory(w, c.account_id, c.pubkey)
-----------------------------------------------------------------------------
(* SetAccountPermissions and SetQuorum                                     *)

SetAccountPermissions_validate(w, c, creator) ==
    "set_permissions" \in creator.permissions

SetAccountPermissions_execute(w, c) ==
    LET account == getAccount(w, c.account_id)
    IN  IF account = nullopt THEN nullopt
        ELSE updateAccount(w, [account EXCEPT !.permissions = c.new_permissions])

SetQuorum_validate(w, c, creator) ==
    /\ c.new_quorum > 0 /\ c.new_quorum < 10
    /\ OwnOr(creator, c.account_id, "set_quorum")

SetQuorum_execute(w, c) ==
    LET account == getAccount(w, c.account_id)
    IN  IF account = nullopt THEN nullopt
        ELSE updateAccount(w, [account EXCEPT !.quorum = c.new_quorum])
-----------------------------------------------------------------------------
(* TransferAsset                                                           *)

TransferAsset_validate(w, c, creator) ==
    LET asset == getAsset(w, c.asset_id)
        wallet == getAccountAsset(w, c.src_account_id, c.asset_id)
    IN  /\ "can_transfer" \in creator.permissions
        /\ creator.account_id = c.src_account_id
        /\ NotZero(c.amount)
        /\ asset # nullopt
        /\ get_frac_number(c.amount) <= asset.precision
        /\ wallet # nullopt
        /\ getAccount(w, c.dest_account_id) # nullopt
        /\ wallet.balance >= get_joint_amount(c.amount, asset.precision)

\* Variant: the wallet of the source is not written.
TransferAsset_execute_destOnly(w, c) ==
    LET dest == getAccountAsset(w, c.dest_account_id, c.asset_id)
        asset == getAsset(w, c.asset_id)
        joint == get_joint_amount(c.amount, asset.precision)
    IN  IF asset = nullopt THEN nullopt
        ELSE upsertAccountAsset(w,
               [account_id |-> c.dest_account_id, asset_id |-> c.asset_id,
                balance |-> IF dest = nullopt THEN joint
                            ELSE (dest.balance + joint) % Word])

\* Both wallets are read first, then the one of the destination and the one of
\* the source are written: if they are the same, the second write wins.
TransferAsset_execute(w, c) ==
    LET src == getAccountAsset(w, c.src_account_id, c.asset_id)
        dest == getAccountAsset(w, c.dest_account_id, c.asset_id)
        asset == getAsset(w, c.asset_id)
        joint == get_joint_amount(c.amount, asset.precision)
        w1 == upsertAccountAsset(w,
                [account_id |-> c.dest_account_id, asset_id |-> c.asset_id,
                 balance |-> IF dest = nullopt THEN joint
                             ELSE (dest.balance + joint) % Word])
    IN  IF src = nullopt \/ asset = nullopt THEN nullopt
        ELSE IF get_frac_number(c.amount) > asset.precision THEN nullopt
        ELSE IF w1 = nullopt THEN nullopt
        ELSE upsertAccountAsset(w1,
               [src EXCEPT !.balance = (@ + Word - joint) % Word])
-----------------------------------------------------------------------------
(* The virtual functions of Command                                        *)

validate(w, c, creator) ==
    CASE c.type = "AddAssetQuantity" -> AddAssetQuantity_validate(w, c, creator)
      [] c.type = "AddPeer" -> AddPeer_validate(w, c, creator)
      [] c.type = "AddSignatory" -> AddSignatory_validate(w, c, creator)
      [] c.type = "AssignMasterKey" -> AssignMasterKey_validate(w, c, creator)
      [] c.type = "CreateAccount" -> CreateAccount_validate(w, c, creator)
      [] c.type = "CreateAsset" -> CreateAsset_validate(w, c, creator)
      [] c.type = "CreateDomain" -> CreateDomain_validate(w, c, creator)
      [] c.type = "RemoveSignatory" -> RemoveSignatory_validate(w, c, creator)
      [] c.type = "SetAccountPermissions" ->
            SetAccountPermissions_validate(w, c, creator)
      [] c.type = "SetQuorum" -> SetQuorum_validate(w, c, creator)
      [] c.type = "TransferAsset" -> TransferAsset_validate(w, c, creator)

execute(w, c) ==
    CASE c.type = "AddAssetQuantity" -> AddAssetQuantity_execute(w, c)
      [] c.type = "AddPeer" -> AddPeer_execute(w, c)
      [] c.type = "AddSignatory" -> AddSignatory_execute(w, c)
      [] c.type = "AssignMasterKey" -> AssignMasterKey_execute(w, c)
      [] c.type = "CreateAccount" -> CreateAccount_execute(w, c)
      [] c.type = "CreateAsset" -> CreateAsset_execute(w, c)
      [] c.type = "CreateDomain" -> CreateDomain_execute(w, c)
      [] c.type = "RemoveSignatory" -> RemoveSignatory_execute(w, c)
      [] c.type = "SetAccountPermissions" -> SetAccountPermissions_execute(w, c)
      [] c.type = "SetQuorum" -> SetQuorum_execute(w, c)
      [] c.type = "TransferAsset" -> TransferAsset_execute(w, c)
=============================================================================
