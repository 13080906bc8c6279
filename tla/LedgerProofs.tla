---------------------------- MODULE LedgerProofs ----------------------------
(***************************************************************************)
(* For all genesis blocks, commands and bounds: the databases fit the      *)
(* schema, a verified proposal replays as it was validated, and the master *)
(* key of an account is one of its signatories.                            *)
(***************************************************************************)
EXTENDS Ledger, TLAPS

-----------------------------------------------------------------------------
(* Tables                                                                  *)

\* A table is a function on a part of its keys.
LEMMA TableElim ==
    ASSUME NEW D, NEW R, NEW f \in Table(D, R)
    PROVE  /\ f \in [DOMAIN f -> R]
           /\ DOMAIN f \subseteq D
BY DEF Table

LEMMA TableIntro ==
    ASSUME NEW D, NEW R, NEW X \in SUBSET D, NEW f \in [X -> R]
    PROVE  f \in Table(D, R)
BY DEF Table

\* INSERT, or UPDATE of one row.
LEMMA PutOK ==
    ASSUME NEW D, NEW R, NEW f \in Table(D, R), NEW k \in D, NEW v \in R
    PROVE  Put(f, k, v) \in Table(D, R)
<1>1. f \in [DOMAIN f -> R] /\ DOMAIN f \subseteq D
  BY TableElim
<1>2. Put(f, k, v) \in [DOMAIN f \cup {k} -> R]
  BY <1>1 DEF Put
<1> QED
  BY ZenonT(60), <1>1, <1>2, TableIntro
-----------------------------------------------------------------------------
(* Statements                                                              *)

\* A database that fits the schema.
Good(w) == w \in Schema /\ Fits(w)

\* The tables of a database of the schema.
LEMMA SchemaElim ==
    ASSUME NEW w \in Schema
    PROVE  /\ w.domain \in SUBSET Names /\ w.signatory \in SUBSET Keys
           /\ w.account \in Table(AccountId, AccountRow)
           /\ w.account_has_signatory \in SUBSET (AccountId \X Keys)
           /\ w.peer \in Seq(Peer)
           /\ w.asset \in Table(AssetId, [domain_id : Names, precision : Numbers])
           /\ w.account_has_asset \in Table(AccountId \X AssetId, 0 .. MaxBigint)
BY DEF Schema

\* The tables after init_ are empty.
LEMMA TablesGood == Good(Tables) /\ KeysOK(Tables)
<1>1. \A D, R : <<>> \in Table(D, R)
  <2> TAKE D, R
  <2>1. <<>> \in [{} -> R]
    OBVIOUS
  <2> QED
    BY ZenonT(60), <2>1, TableIntro
<1>2. Tables \in Schema
  BY <1>1 DEF Tables, Schema
<1>3. DOMAIN <<>> = {}
  OBVIOUS
<1> QED
  BY <1>2, <1>3 DEF Good, Fits, KeysOK, Tables

\* The row that is written for an account.
LEMMA RowOK ==
    ASSUME NEW a \in Account
    PROVE  /\ Row(a) \in AccountRow
           /\ Row(a).domain_id = a.domain_name
           /\ Row(a).master_key = a.master_key
<1>1. [i \in 1 .. 10 |-> PermissionBits[i] \in a.permissions] \in Bits
  BY DEF Bits
<1> QED
  BY <1>1 DEF Row, AccountRow, Account

LEMMA insertAccountOK ==
    ASSUME NEW w, Good(w), NEW a \in Account, NEW r,
           r = insertAccount(w, a), r # nullopt
    PROVE  /\ Good(r)
           /\ r.account_has_signatory = w.account_has_signatory
           /\ a.account_id \notin DOMAIN w.account
           /\ DOMAIN r.account = DOMAIN w.account \cup {a.account_id}
           /\ r.account[a.account_id].master_key = a.master_key
           /\ \A x \in DOMAIN w.account : r.account[x] = w.account[x]
           /\ r.signatory = w.signatory
<1> DEFINE t == Put(w.account, a.account_id, Row(a))
<1>1. /\ a.account_id \notin DOMAIN w.account
      /\ a.domain_name \in w.domain
      /\ a.master_key \in w.signatory
      /\ r = [w EXCEPT !.account = t]
  BY DEF insertAccount, exec
<1>2. /\ a.account_id \in AccountId
      /\ w.account \in Table(AccountId, AccountRow)
      /\ Row(a) \in AccountRow
  BY RowOK, SchemaElim DEF Good, Account
<1>3. t \in Table(AccountId, AccountRow)
  BY <1>2, PutOK
<1>4. /\ DOMAIN t = DOMAIN w.account \cup {a.account_id}
      /\ t[a.account_id] = Row(a)
      /\ \A x \in DOMAIN w.account : x # a.account_id => t[x] = w.account[x]
  BY DEF Put
<1> HIDE DEF t
<1>5. /\ r \in Schema
      /\ r.account = t /\ r.domain = w.domain /\ r.signatory = w.signatory
      /\ r.account_has_signatory = w.account_has_signatory /\ r.peer = w.peer
      /\ r.asset = w.asset /\ r.account_has_asset = w.account_has_asset
  BY <1>1, <1>3 DEF Good, Schema
<1>6. Fits(r)
  BY <1>1, <1>4, <1>5, RowOK DEF Good, Fits
<1> QED
  BY <1>1, <1>4, <1>5, <1>6, RowOK DEF Good

LEMMA insertAssetOK ==
    ASSUME NEW w, Good(w), NEW a \in Asset, NEW r,
           r = insertAsset(w, a), r # nullopt
    PROVE  /\ Good(r)
           /\ r.account = w.account
           /\ r.account_has_signatory = w.account_has_signatory
<1> DEFINE row == [domain_id |-> a.domain_id, precision |-> a.precision]
           t == Put(w.asset, a.asset_id, row)
<1>1. r = [w EXCEPT !.asset = t]
  BY DEF insertAsset, exec
<1>2. /\ a.asset_id \in AssetId
      /\ w.asset \in Table(AssetId, [domain_id : Names, precision : Numbers])
      /\ row \in [domain_id : Names, precision : Numbers]
  BY ZenonT(60), SchemaElim DEF Good, Asset
<1>3. t \in Table(AssetId, [domain_id : Names, precision : Numbers])
  BY ZenonT(60), <1>2, PutOK
<1>4. DOMAIN w.asset \subseteq DOMAIN t
  BY DEF Put
<1> HIDE DEF t
<1>5. /\ r \in Schema
      /\ r.account = w.account /\ r.domain = w.domain /\ r.signatory = w.signatory
      /\ r.account_has_signatory = w.account_has_signatory /\ r.peer = w.peer
      /\ r.asset = t /\ r.account_has_asset = w.account_has_asset
  BY <1>1, <1>3 DEF Good, Schema
<1> QED
  BY <1>4, <1>5 DEF Good, Fits

\* The wallet has a balance that fits in 64 bits without sign.
LEMMA upsertAccountAssetOK ==
    ASSUME NEW w, Good(w), NEW a, a.account_id \in AccountId, a.asset_id \in AssetId,
           a.balance \in Nat, NEW r,
           r = upsertAccountAsset(w, a), r # nullopt
    PROVE  /\ Good(r)
           /\ r.account = w.account
           /\ r.asset = w.asset
           /\ r.account_has_signatory = w.account_has_signatory
<1> DEFINE k == <<a.account_id, a.asset_id>>
           t == Put(w.account_has_asset, k, a.balance)
<1>1. /\ a.account_id \in DOMAIN w.account
      /\ a.asset_id \in DOMAIN w.asset
      /\ a.balance <= MaxBigint
      /\ r = [w EXCEPT !.account_has_asset = t]
  BY DEF upsertAccountAsset, exec
<1>2. MaxBigint \in Int
  BY WordAssumption DEF MaxBigint
<1>3. /\ k \in AccountId \X AssetId
      /\ w.account_has_asset \in Table(AccountId \X AssetId, 0 .. MaxBigint)
      /\ a.balance \in 0 .. MaxBigint
  <2>1. w.account_has_asset \in Table(AccountId \X AssetId, 0 .. MaxBigint)
    BY ZenonT(60), SchemaElim DEF Good
  <2>2. a.balance \in 0 .. MaxBigint
    BY <1>1, <1>2
  <2> QED
    BY <2>1, <2>2
<1>4. t \in Table(AccountId \X AssetId, 0 .. MaxBigint)
  BY ZenonT(60), <1>3, PutOK
<1>5. /\ DOMAIN t = DOMAIN w.account_has_asset \cup {k}
      /\ t[k] = a.balance
      /\ \A x \in DOMAIN w.account_has_asset : x # k => t[x] = w.account_has_asset[x]
  BY DEF Put
<1> HIDE DEF t
<1>6. /\ r \in Schema
      /\ r.account = w.account /\ r.domain = w.domain /\ r.signatory = w.signatory
      /\ r.account_has_signatory = w.account_has_signatory /\ r.peer = w.peer
      /\ r.asset = w.asset /\ r.account_has_asset = t
  BY <1>1, <1>4 DEF Good, Schema
<1>7. k[1] = a.account_id /\ k[2] = a.asset_id
  OBVIOUS
<1> HIDE DEF k
<1>8. Fits(r)
  BY <1>1, <1>3, <1>5, <1>6, <1>7 DEF Good, Fits
<1> QED
  BY <1>6, <1>8 DEF Good

LEMMA insertSignatoryOK ==
    ASSUME NEW w, Good(w), NEW key \in Keys, NEW r,
           r = insertSignatory(w, key), r # nullopt
    PROVE  /\ Good(r)
           /\ r.account = w.account
           /\ r.account_has_signatory = w.account_has_signatory
           /\ r.signatory = w.signatory \cup {key}
<1>1. r = [w EXCEPT !.signatory = w.signatory \cup {key}]
  BY DEF insertSignatory, exec
<1>2. /\ r \in Schema
      /\ r.account = w.account /\ r.domain = w.domain
      /\ r.signatory = w.signatory \cup {key}
      /\ r.account_has_signatory = w.account_has_signatory /\ r.peer = w.peer
      /\ r.asset = w.asset /\ r.account_has_asset = w.account_has_asset
  BY <1>1 DEF Good, Schema
<1> QED
  BY <1>2 DEF Good, Fits

LEMMA insertAccountSignatoryOK ==
    ASSUME NEW w, Good(w), NEW account_id \in AccountId, NEW key \in Keys, NEW r,
           r = insertAccountSignatory(w, account_id, key), r # nullopt
    PROVE  /\ Good(r)
           /\ r.account = w.account
           /\ r.account_has_signatory = w.account_has_signatory \cup {<<account_id, key>>}
<1> DEFINE t == w.account_has_signatory \cup {<<account_id, key>>}
<1>1. /\ account_id \in DOMAIN w.account /\ key \in w.signatory
      /\ r = [w EXCEPT !.account_has_signatory = t]
  BY DEF insertAccountSignatory, exec
<1>2. t \in SUBSET (AccountId \X Keys)
  BY SchemaElim DEF Good
<1>3. \A x \in t : x \in w.account_has_signatory \/ (x[1] = account_id /\ x[2] = key)
  OBVIOUS
<1> HIDE DEF t
<1>4. /\ r \in Schema
      /\ r.account = w.account /\ r.domain = w.domain /\ r.signatory = w.signatory
      /\ r.account_has_signatory = t
      /\ r.peer = w.peer /\ r.asset = w.asset /\ r.account_has_asset = w.account_has_asset
  BY <1>1, <1>2 DEF Good, Schema
<1>5. Fits(r)
  BY <1>1, <1>3, <1>4 DEF Good, Fits
<1> QED
  BY <1>4, <1>5 DEF Good, t

LEMMA deleteAccountSignatoryOK ==
    ASSUME NEW w, Good(w), NEW account_id, NEW key, NEW r,
           r = deleteAccountSignatory(w, account_id, key)
    PROVE  /\ Good(r)
           /\ r.account = w.account
           /\ r.account_has_signatory = w.account_has_signatory \ {<<account_id, key>>}
<1>1. /\ r \in Schema
      /\ r.account = w.account /\ r.domain = w.domain /\ r.signatory = w.signatory
      /\ r.account_has_signatory = w.account_has_signatory \ {<<account_id, key>>}
      /\ r.peer = w.peer /\ r.asset = w.asset /\ r.account_has_asset = w.account_has_asset
  BY ZenonT(60) DEF deleteAccountSignatory, Good, Schema
<1> QED
  BY <1>1 DEF Good, Fits

LEMMA insertPeerOK ==
    ASSUME NEW w, Good(w), NEW peer \in Peer, NEW r, r = insertPeer(w, peer), r # nullopt
    PROVE  /\ Good(r)
           /\ r.account = w.account
           /\ r.account_has_signatory = w.account_has_signatory
<1>1. r = [w EXCEPT !.peer = Append(w.peer, peer)]
  BY DEF insertPeer, exec
<1>2. Append(w.peer, peer) \in Seq(Peer)
  BY SchemaElim DEF Good
<1>3. /\ r \in Schema
      /\ r.account = w.account /\ r.domain = w.domain /\ r.signatory = w.signatory
      /\ r.account_has_signatory = w.account_has_signatory
      /\ r.peer = Append(w.peer, peer)
      /\ r.asset = w.asset /\ r.account_has_asset = w.account_has_asset
  BY ZenonT(60), <1>1, <1>2 DEF Good, Schema
<1> QED
  BY <1>2, <1>3 DEF Good, Fits

LEMMA insertDomainOK ==
    ASSUME NEW w, Good(w), NEW domain_id \in Names, NEW r,
           r = insertDomain(w, domain_id), r # nullopt
    PROVE  /\ Good(r)
           /\ r.account = w.account
           /\ r.account_has_signatory = w.account_has_signatory
<1>1. r = [w EXCEPT !.domain = w.domain \cup {domain_id}]
  BY DEF insertDomain, exec
<1>2. /\ r \in Schema
      /\ r.account = w.account /\ r.domain = w.domain \cup {domain_id}
      /\ r.signatory = w.signatory
      /\ r.account_has_signatory = w.account_has_signatory /\ r.peer = w.peer
      /\ r.asset = w.asset /\ r.account_has_asset = w.account_has_asset
  BY <1>1 DEF Good, Schema
<1> QED
  BY <1>2 DEF Good, Fits

LEMMA updateAccountOK ==
    ASSUME NEW w, Good(w), NEW a \in Account, NEW r, r = updateAccount(w, a), r # nullopt
    PROVE  /\ Good(r)
           /\ r.account_has_signatory = w.account_has_signatory
           /\ DOMAIN r.account = DOMAIN w.account
           /\ \A x \in DOMAIN w.account :
                 r.account[x].master_key = IF x = a.account_id THEN a.master_key
                                           ELSE w.account[x].master_key
<1> DEFINE row(x) == [Row(a) EXCEPT !.domain_id = w.account[x].domain_id]
           t == [x \in DOMAIN w.account |-> IF x = a.account_id THEN row(x) ELSE w.account[x]]
<1>1. /\ a.account_id \in DOMAIN w.account => a.master_key \in w.signatory
      /\ r = [w EXCEPT !.account = t]
  BY DEF updateAccount, exec
<1>2. w.account \in [DOMAIN w.account -> AccountRow] /\ DOMAIN w.account \subseteq AccountId
  BY SchemaElim, TableElim DEF Good
<1>3. ASSUME NEW x \in DOMAIN w.account
      PROVE  /\ row(x) \in AccountRow
             /\ row(x).domain_id = w.account[x].domain_id
             /\ row(x).master_key = a.master_key
  <2>1. w.account[x] \in AccountRow
    BY <1>2
  <2>2. Row(a) \in AccountRow /\ Row(a).master_key = a.master_key
    BY RowOK
  <2> QED
    BY <2>1, <2>2 DEF AccountRow
<1> HIDE DEF row
<1>4. t \in [DOMAIN w.account -> AccountRow]
  BY <1>2, <1>3
<1>5. t \in Table(AccountId, AccountRow)
  <2> HIDE DEF t
  <2> QED
    BY Zenon, <1>2, <1>4, TableIntro
<1>6. /\ DOMAIN t = DOMAIN w.account
      /\ \A x \in DOMAIN t :
            /\ t[x].domain_id = w.account[x].domain_id
            /\ t[x].master_key = IF x = a.account_id THEN a.master_key
                                 ELSE w.account[x].master_key
  BY <1>3
<1> HIDE DEF t
<1>7. /\ r \in Schema
      /\ r.account = t /\ r.domain = w.domain /\ r.signatory = w.signatory
      /\ r.account_has_signatory = w.account_has_signatory /\ r.peer = w.peer
      /\ r.asset = w.asset /\ r.account_has_asset = w.account_has_asset
  BY <1>1, <1>5 DEF Good, Schema
<1>8. Fits(r)
  BY <1>1, <1>6, <1>7 DEF Good, Fits
<1> QED
  BY <1>6, <1>7, <1>8 DEF Good

LEMMA getAccountOK ==
    ASSUME NEW w, Good(w), NEW account_id \in AccountId,
           getAccount(w, account_id) # nullopt
    PROVE  /\ account_id \in DOMAIN w.account
           /\ getAccount(w, account_id) \in Account
           /\ getAccount(w, account_id).account_id = account_id
           /\ getAccount(w, account_id).master_key = w.account[account_id].master_key
<1> DEFINE row == w.account[account_id]
           bits == {ReadBits[i] : i \in {j \in 1 .. 10 : row.permissions[j]}}
<1>1. /\ account_id \in DOMAIN w.account
      /\ getAccount(w, account_id) =
            [account_id |-> account_id, domain_name |-> row.domain_id,
             master_key |-> row.master_key, quorum |-> row.quorum, permissions |-> bits]
  BY DEF getAccount
<1>2. row \in AccountRow
  BY <1>1, SchemaElim, TableElim DEF Good
<1>3. \A i \in 1 .. 10 : ReadBits[i] \in Permission
  BY DEF ReadBits, Permission
<1>4. bits \in SUBSET Permission
  BY <1>3
<1> HIDE DEF bits, row
<1>5. getAccount(w, account_id) \in Account
  BY <1>1, <1>2, <1>4 DEF Account, AccountRow
<1> QED
  BY <1>1, <1>5 DEF row
-----------------------------------------------------------------------------
(* Commands                                                                *)

\* The type tells which command it is.
LEMMA CommandCases ==
    ASSUME NEW c \in Command
    PROVE  \/ c.type = "AddAssetQuantity" /\ c \in AddAssetQuantity
           \/ c.type = "AddPeer" /\ c \in AddPeer
           \/ c.type = "AddSignatory" /\ c \in AddSignatory
           \/ c.type = "AssignMasterKey" /\ c \in AssignMasterKey
           \/ c.type = "CreateAccount" /\ c \in CreateAccount
           \/ c.type = "CreateAsset" /\ c \in CreateAsset
           \/ c.type = "CreateDomain" /\ c \in CreateDomain
           \/ c.type = "RemoveSignatory" /\ c \in RemoveSignatory
           \/ c.type = "SetAccountPermissions" /\ c \in SetAccountPermissions
           \/ c.type = "SetQuorum" /\ c \in SetQuorum
           \/ c.type = "TransferAsset" /\ c \in TransferAsset
BY DEF Command, AddAssetQuantity, AddPeer, AddSignatory, AssignMasterKey, CreateAccount,
       CreateAsset, CreateDomain, RemoveSignatory, SetAccountPermissions, SetQuorum,
       TransferAsset

\* Sums and differences are taken in 64 bits.
LEMMA JointAmount ==
    ASSUME NEW a \in Amount, NEW precision \in Numbers
    PROVE  get_joint_amount(a, precision) \in 0 .. Word - 1
<1>1. a.int_part \in Nat /\ a.frac_part \in Nat /\ precision \in Nat
  BY ZenonT(60), NumbersAssumption DEF Amount
<1>2. ipow(10, precision) \in Int
  <2>1. 10 ^ precision + IntRange \div 2 \in Int
    BY <1>1, IntAssumption
  <2>2. (10 ^ precision + IntRange \div 2) % IntRange \in Int
    BY <2>1, IntAssumption
  <2> QED
    BY <2>2, IntAssumption DEF ipow
<1>3. a.int_part * ipow(10, precision) + a.frac_part \in Int
  BY <1>1, <1>2
<1> QED
  BY <1>3, WordAssumption DEF get_joint_amount

LEMMA getAssetOK ==
    ASSUME NEW w, Good(w), NEW asset_id \in AssetId, getAsset(w, asset_id) # nullopt
    PROVE  getAsset(w, asset_id).precision \in Numbers
<1>1. /\ asset_id \in DOMAIN w.asset
      /\ getAsset(w, asset_id).precision = w.asset[asset_id].precision
  BY DEF getAsset
<1>2. w.asset[asset_id] \in [domain_id : Names, precision : Numbers]
  <2>1. w.asset \in Table(AssetId, [domain_id : Names, precision : Numbers])
    BY ZenonT(60), SchemaElim DEF Good
  <2>2. w.asset \in [DOMAIN w.asset -> [domain_id : Names, precision : Numbers]]
    BY ZenonT(60), <2>1, TableElim
  <2> QED
    BY <1>1, <2>2
<1> QED
  BY <1>1, <1>2

LEMMA getAccountAssetOK ==
    ASSUME NEW w, Good(w), NEW account_id, NEW asset_id,
           getAccountAsset(w, account_id, asset_id) # nullopt
    PROVE  /\ getAccountAsset(w, account_id, asset_id).balance \in Nat
           /\ getAccountAsset(w, account_id, asset_id) =
                [account_id |-> account_id, asset_id |-> asset_id,
                 balance |-> getAccountAsset(w, account_id, asset_id).balance]
<1> DEFINE k == <<account_id, asset_id>>
<1>1. /\ k \in DOMAIN w.account_has_asset
      /\ getAccountAsset(w, account_id, asset_id) =
            [account_id |-> account_id, asset_id |-> asset_id,
             balance |-> w.account_has_asset[k]]
  BY DEF getAccountAsset
<1>2. w.account_has_asset[k] \in Nat
  <2>1. w.account_has_asset[k] \in 0 .. MaxBigint
    BY <1>1, Zenon DEF Good, Fits
  <2>2. MaxBigint \in Int
    BY WordAssumption DEF MaxBigint
  <2> QED
    BY <2>1, <2>2
<1> HIDE DEF k
<1> QED
  BY <1>1, <1>2

\* What a command keeps that touches neither accounts nor signatories.
KeepsKeys(w, r) ==
    r.account = w.account /\ r.account_has_signatory = w.account_has_signatory

LEMMA AddAssetQuantityOK ==
    ASSUME NEW w, Good(w), NEW c \in AddAssetQuantity, NEW r,
           r = AddAssetQuantity_execute(w, c), r # nullopt
    PROVE  Good(r) /\ KeepsKeys(w, r)
<1> DEFINE asset == getAsset(w, c.asset_id)
           wallet == getAccountAsset(w, c.account_id, c.asset_id)
           joint == get_joint_amount(c.amount, asset.precision)
           balance == IF wallet = nullopt THEN joint ELSE (wallet.balance + joint) % Word
           a == [account_id |-> c.account_id, asset_id |-> c.asset_id, balance |-> balance]
<1>1. asset # nullopt /\ r = upsertAccountAsset(w, a)
  BY DEF AddAssetQuantity_execute
<1>2. /\ c.account_id \in AccountId /\ c.asset_id \in AssetId /\ c.amount \in Amount
  BY DEF AddAssetQuantity
<1>3. asset.precision \in Numbers
  BY <1>1, <1>2, getAssetOK
<1>4. joint \in 0 .. Word - 1
  BY <1>2, <1>3, JointAmount
<1>5. wallet # nullopt => wallet.balance \in Nat
  BY getAccountAssetOK
<1> HIDE DEF asset, wallet, joint
<1>6. balance \in Nat
  BY <1>4, <1>5, WordAssumption
<1>7. a.account_id \in AccountId /\ a.asset_id \in AssetId /\ a.balance \in Nat
  BY <1>2, <1>6
<1> HIDE DEF a
<1> QED
  BY <1>1, <1>7, upsertAccountAssetOK DEF KeepsKeys

LEMMA TransferAssetOK ==
    ASSUME NEW w, Good(w), NEW c \in TransferAsset, NEW r,
           r = TransferAsset_execute(w, c), r # nullopt
    PROVE  Good(r) /\ KeepsKeys(w, r)
<1> DEFINE src == getAccountAsset(w, c.src_account_id, c.asset_id)
           dest == getAccountAsset(w, c.dest_account_id, c.asset_id)
           asset == getAsset(w, c.asset_id)
           joint == get_joint_amount(c.amount, asset.precision)
           balance == IF dest = nullopt THEN joint ELSE (dest.balance + joint) % Word
           a == [account_id |-> c.dest_account_id, asset_id |-> c.asset_id,
                 balance |-> balance]
           w1 == upsertAccountAsset(w, a)
           b == [src EXCEPT !.balance = (src.balance + Word - joint) % Word]
<1>1. /\ src # nullopt /\ asset # nullopt /\ w1 # nullopt
      /\ r = upsertAccountAsset(w1, b)
  BY DEF TransferAsset_execute
<1>2. /\ c.src_account_id \in AccountId /\ c.dest_account_id \in AccountId
      /\ c.asset_id \in AssetId /\ c.amount \in Amount
  BY DEF TransferAsset
<1>3. asset.precision \in Numbers
  BY SMTT(40), <1>1, <1>2, getAssetOK
<1>4. joint \in 0 .. Word - 1
  BY <1>2, <1>3, JointAmount
<1>5. dest # nullopt => dest.balance \in Nat
  BY getAccountAssetOK
<1>6. /\ src.balance \in Nat
      /\ src = [account_id |-> c.src_account_id, asset_id |-> c.asset_id,
                balance |-> src.balance]
  BY SMTT(40), <1>1, getAccountAssetOK
<1> HIDE DEF asset, dest, src, joint
<1>7. balance \in Nat
  BY <1>4, <1>5, WordAssumption
<1>8. a.account_id \in AccountId /\ a.asset_id \in AssetId /\ a.balance \in Nat
  BY <1>2, <1>7
<1>9. (src.balance + Word - joint) % Word \in Nat
  BY <1>4, <1>6, WordAssumption
<1>10. b.account_id \in AccountId /\ b.asset_id \in AssetId /\ b.balance \in Nat
  BY <1>2, <1>6, <1>9
<1> HIDE DEF a, b
<1>11. Good(w1) /\ KeepsKeys(w, w1)
  BY <1>1, <1>8, upsertAccountAssetOK DEF KeepsKeys
<1> HIDE DEF w1
<1>12. Good(r) /\ KeepsKeys(w1, r)
  BY <1>1, <1>10, <1>11, upsertAccountAssetOK DEF KeepsKeys
<1> QED
  BY <1>11, <1>12 DEF KeepsKeys

\* The account is new and its key becomes a signatory of it in the same command.
LEMMA CreateAccountOK ==
    ASSUME NEW w, Good(w), NEW c \in CreateAccount, NEW r,
           r = CreateAccount_execute(w, c), r # nullopt
    PROVE  Good(r) /\ (KeysOK(w) => KeysOK(r))
<1> DEFINE a == [account_id |-> <<c.account_name, c.domain_id>>,
                 domain_name |-> c.domain_id, master_key |-> c.pubkey,
                 quorum |-> 1, permissions |-> {}]
           w1 == insertSignatory(w, c.pubkey)
           w2 == insertAccount(w1, a)
<1>1. /\ w1 # nullopt /\ w2 # nullopt
      /\ r = insertAccountSignatory(w2, a.account_id, c.pubkey)
  BY SMTT(40) DEF CreateAccount_execute
<1>2. c.account_name \in Names /\ c.domain_id \in Names /\ c.pubkey \in Keys
  BY DEF CreateAccount
<1>3. /\ a \in Account /\ a.account_id \in AccountId /\ a.master_key = c.pubkey
  BY <1>2, NumbersAssumption DEF Account, AccountId
<1> HIDE DEF a
<1>4. Good(w1) /\ KeepsKeys(w, w1)
  BY <1>1, <1>2, insertSignatoryOK DEF KeepsKeys
<1> HIDE DEF w1
<1>5. /\ Good(w2)
      /\ w2.account_has_signatory = w1.account_has_signatory
      /\ DOMAIN w2.account = DOMAIN w1.account \cup {a.account_id}
      /\ w2.account[a.account_id].master_key = a.master_key
      /\ \A x \in DOMAIN w1.account : w2.account[x] = w1.account[x]
  BY <1>1, <1>3, <1>4, insertAccountOK
<1> HIDE DEF w2
<1>6. /\ Good(r) /\ r.account = w2.account
      /\ r.account_has_signatory = w2.account_has_signatory \cup {<<a.account_id, c.pubkey>>}
  BY <1>1, <1>2, <1>3, <1>5, insertAccountSignatoryOK
<1>7. ASSUME KeysOK(w), NEW x \in DOMAIN r.account
      PROVE  <<x, r.account[x].master_key>> \in r.account_has_signatory
  <2>1. CASE x \in DOMAIN w.account
    BY <2>1, <1>4, <1>5, <1>6, <1>7 DEF KeysOK, KeepsKeys
  <2>2. CASE x = a.account_id
    BY <2>2, <1>3, <1>5, <1>6
  <2> QED
    BY <2>1, <2>2, <1>4, <1>5, <1>6 DEF KeepsKeys
<1> QED
  BY <1>6, <1>7 DEF KeysOK

\* A change of the permissions or of the quorum of an account.
LEMMA SameKeyOK ==
    ASSUME NEW w, Good(w), NEW account_id \in AccountId, NEW a \in Account, NEW r,
           getAccount(w, account_id) # nullopt,
           a.account_id = account_id,
           a.master_key = getAccount(w, account_id).master_key,
           r = updateAccount(w, a), r # nullopt
    PROVE  Good(r) /\ (KeysOK(w) => KeysOK(r))
<1>1. /\ Good(r)
      /\ r.account_has_signatory = w.account_has_signatory
      /\ DOMAIN r.account = DOMAIN w.account
      /\ \A x \in DOMAIN w.account :
            r.account[x].master_key = IF x = a.account_id THEN a.master_key
                                      ELSE w.account[x].master_key
  BY updateAccountOK
<1>2. getAccount(w, account_id).master_key = w.account[account_id].master_key
  BY getAccountOK
<1>3. \A x \in DOMAIN r.account : r.account[x].master_key = w.account[x].master_key
  BY <1>1, <1>2
<1> QED
  BY <1>1, <1>3 DEF KeysOK

LEMMA SetAccountPermissionsOK ==
    ASSUME NEW w, Good(w), NEW c \in SetAccountPermissions, NEW r,
           r = SetAccountPermissions_execute(w, c), r # nullopt
    PROVE  Good(r) /\ (KeysOK(w) => KeysOK(r))
<1> DEFINE old == getAccount(w, c.account_id)
           a == [old EXCEPT !.permissions = c.new_permissions]
<1>1. old # nullopt /\ r = updateAccount(w, a)
  BY DEF SetAccountPermissions_execute
<1>2. c.account_id \in AccountId /\ c.new_permissions \in SUBSET Permission
  BY DEF SetAccountPermissions
<1>3. old \in Account /\ old.account_id = c.account_id
  BY <1>1, <1>2, getAccountOK
<1>4. a \in Account /\ a.account_id = c.account_id /\ a.master_key = old.master_key
  BY <1>2, <1>3 DEF Account
<1> HIDE DEF a
<1> QED
  BY <1>1, <1>2, <1>4, SameKeyOK

LEMMA SetQuorumOK ==
    ASSUME NEW w, Good(w), NEW c \in SetQuorum, NEW r,
           r = SetQuorum_execute(w, c), r # nullopt
    PROVE  Good(r) /\ (KeysOK(w) => KeysOK(r))
<1> DEFINE old == getAccount(w, c.account_id)
           a == [old EXCEPT !.quorum = c.new_quorum]
<1>1. old # nullopt /\ r = updateAccount(w, a)
  BY DEF SetQuorum_execute
<1>2. c.account_id \in AccountId /\ c.new_quorum \in Numbers
  BY DEF SetQuorum
<1>3. old \in Account /\ old.account_id = c.account_id
  BY <1>1, <1>2, getAccountOK
<1>4. a \in Account /\ a.account_id = c.account_id /\ a.master_key = old.master_key
  BY <1>2, <1>3 DEF Account
<1> HIDE DEF a
<1> QED
  BY <1>1, <1>2, <1>4, SameKeyOK

\* The validation has found the new key among the signatories.
LEMMA AssignMasterKeyOK ==
    ASSUME NEW w, Good(w), NEW c \in AssignMasterKey, NEW r,
           r = AssignMasterKey_execute(w, c), r # nullopt
    PROVE  /\ Good(r)
           /\ KeysOK(w) /\ c.pubkey \in getSignatories(w, c.account_id) => KeysOK(r)
<1> DEFINE old == getAccount(w, c.account_id)
           a == [old EXCEPT !.master_key = c.pubkey]
<1>1. old # nullopt /\ r = updateAccount(w, a)
  BY DEF AssignMasterKey_execute
<1>2. c.account_id \in AccountId /\ c.pubkey \in Keys
  BY DEF AssignMasterKey
<1>3. old \in Account /\ old.account_id = c.account_id
  BY <1>1, <1>2, getAccountOK
<1>4. a \in Account /\ a.account_id = c.account_id /\ a.master_key = c.pubkey
  BY <1>2, <1>3 DEF Account
<1> HIDE DEF a
<1>5. /\ Good(r)
      /\ r.account_has_signatory = w.account_has_signatory
      /\ DOMAIN r.account = DOMAIN w.account
      /\ \A x \in DOMAIN w.account :
            r.account[x].master_key = IF x = a.account_id THEN a.master_key
                                      ELSE w.account[x].master_key
  BY SMTT(40), <1>1, <1>4, updateAccountOK
<1> QED
  BY <1>4, <1>5 DEF KeysOK, getSignatories

\* The validation has found that the key is not the master key.
LEMMA RemoveSignatoryOK ==
    ASSUME NEW w, Good(w), NEW c \in RemoveSignatory, NEW r,
           r = RemoveSignatory_execute(w, c)
    PROVE  /\ Good(r)
           /\ /\ KeysOK(w)
              /\ getAccount(w, c.account_id) # nullopt
              /\ c.pubkey # getAccount(w, c.account_id).master_key
              => KeysOK(r)
<1>1. /\ Good(r) /\ r.account = w.account
      /\ r.account_has_signatory = w.account_has_signatory \ {<<c.account_id, c.pubkey>>}
  BY deleteAccountSignatoryOK DEF RemoveSignatory_execute
<1>2. ASSUME KeysOK(w), getAccount(w, c.account_id) # nullopt,
             c.pubkey # getAccount(w, c.account_id).master_key
      PROVE  KeysOK(r)
  <2>1. c.account_id \in AccountId
    BY DEF RemoveSignatory
  <2>2. getAccount(w, c.account_id).master_key = w.account[c.account_id].master_key
    BY <1>2, <2>1, getAccountOK
  <2> QED
    BY SMTT(40), <1>1, <1>2, <2>2 DEF KeysOK
<1> QED
  BY <1>1, <1>2

\* A command that touches neither accounts nor signatories keeps the keys.
LEMMA KeepsKeysOK ==
    ASSUME NEW w, NEW r, KeepsKeys(w, r), KeysOK(w)
    PROVE  KeysOK(r)
BY DEF KeepsKeys, KeysOK

\* Every command keeps the constraints of the schema, validated or not.
LEMMA ExecuteGood ==
    ASSUME NEW w, Good(w), NEW c \in Command, NEW r, r = execute(w, c), r # nullopt
    PROVE  Good(r)
<1>1. CASE c.type = "AddAssetQuantity" /\ c \in AddAssetQuantity
  BY <1>1, AddAssetQuantityOK DEF execute
<1>2. CASE c.type = "AddPeer" /\ c \in AddPeer
  <2>1. [address |-> c.address, pubkey |-> c.peer_key] \in Peer
    BY <1>2 DEF AddPeer, Peer
  <2>2. r = insertPeer(w, [address |-> c.address, pubkey |-> c.peer_key])
    BY <1>2 DEF execute, AddPeer_execute
  <2> QED
    BY <2>1, <2>2, insertPeerOK
<1>3. CASE c.type = "AddSignatory" /\ c \in AddSignatory
  <2>1. c.account_id \in AccountId /\ c.pubkey \in Keys
    BY <1>3 DEF AddSignatory
  <2>2. r = insertAccountSignatory(w, c.account_id, c.pubkey)
    BY <1>3 DEF execute, AddSignatory_execute
  <2> QED
    BY <2>1, <2>2, insertAccountSignatoryOK
<1>4. CASE c.type = "AssignMasterKey" /\ c \in AssignMasterKey
  BY <1>4, AssignMasterKeyOK DEF execute
<1>5. CASE c.type = "CreateAccount" /\ c \in CreateAccount
  BY <1>5, CreateAccountOK DEF execute
<1>6. CASE c.type = "CreateAsset" /\ c \in CreateAsset
  <2> DEFINE a == [asset_id |-> <<c.asset_name, c.domain_id>>,
                   domain_id |-> c.domain_id, precision |-> c.precision]
  <2>1. a \in Asset
    BY <1>6 DEF CreateAsset, Asset, AssetId
  <2>2. r = insertAsset(w, a)
    BY <1>6 DEF execute, CreateAsset_execute
  <2> HIDE DEF a
  <2> QED
    BY <2>1, <2>2, insertAssetOK
<1>7. CASE c.type = "CreateDomain" /\ c \in CreateDomain
  <2>1. c.domain_name \in Names
    BY <1>7 DEF CreateDomain
  <2>2. r = insertDomain(w, c.domain_name)
    BY <1>7 DEF execute, CreateDomain_execute
  <2> QED
    BY <2>1, <2>2, insertDomainOK
<1>8. CASE c.type = "RemoveSignatory" /\ c \in RemoveSignatory
  BY <1>8, RemoveSignatoryOK DEF execute
<1>9. CASE c.type = "SetAccountPermissions" /\ c \in SetAccountPermissions
  BY <1>9, SetAccountPermissionsOK DEF execute
<1>10. CASE c.type = "SetQuorum" /\ c \in SetQuorum
  BY <1>10, SetQuorumOK DEF execute
<1>11. CASE c.type = "TransferAsset" /\ c \in TransferAsset
  BY <1>11, TransferAssetOK DEF execute
<1> QED
  BY <1>1, <1>2, <1>3, <1>4, <1>5, <1>6, <1>7, <1>8, <1>9, <1>10, <1>11, CommandCases

\* A command keeps the master keys among the signatories, if it was validated or is
\* none of the two that take a key away.
LEMMA ExecuteKeys ==
    ASSUME NEW w, Good(w), KeysOK(w), NEW c \in Command, NEW r,
           r = execute(w, c), r # nullopt,
           \/ c.type \notin {"RemoveSignatory", "AssignMasterKey"}
           \/ \E creator : validate(w, c, creator)
    PROVE  KeysOK(r)
<1>1. CASE c.type = "AddAssetQuantity" /\ c \in AddAssetQuantity
  BY <1>1, AddAssetQuantityOK, KeepsKeysOK DEF execute
<1>2. CASE c.type = "AddPeer" /\ c \in AddPeer
  <2>1. [address |-> c.address, pubkey |-> c.peer_key] \in Peer
    BY <1>2 DEF AddPeer, Peer
  <2>2. r = insertPeer(w, [address |-> c.address, pubkey |-> c.peer_key])
    BY <1>2 DEF execute, AddPeer_execute
  <2> QED
    BY <2>1, <2>2, insertPeerOK, KeepsKeysOK DEF KeepsKeys
<1>3. CASE c.type = "AddSignatory" /\ c \in AddSignatory
  <2>1. c.account_id \in AccountId /\ c.pubkey \in Keys
    BY <1>3 DEF AddSignatory
  <2>2. r = insertAccountSignatory(w, c.account_id, c.pubkey)
    BY <1>3 DEF execute, AddSignatory_execute
  <2>3. /\ r.account = w.account
        /\ w.account_has_signatory \subseteq r.account_has_signatory
    BY <2>1, <2>2, insertAccountSignatoryOK
  <2> QED
    BY <2>3 DEF KeysOK
<1>4. CASE c.type = "AssignMasterKey" /\ c \in AssignMasterKey
  <2>1. c.pubkey \in getSignatories(w, c.account_id)
    BY <1>4 DEF validate, AssignMasterKey_validate
  <2> QED
    BY <1>4, <2>1, AssignMasterKeyOK DEF execute
<1>5. CASE c.type = "CreateAccount" /\ c \in CreateAccount
  BY <1>5, CreateAccountOK DEF execute
<1>6. CASE c.type = "CreateAsset" /\ c \in CreateAsset
  <2> DEFINE a == [asset_id |-> <<c.asset_name, c.domain_id>>,
                   domain_id |-> c.domain_id, precision |-> c.precision]
  <2>1. a \in Asset
    BY <1>6 DEF CreateAsset, Asset, AssetId
  <2>2. r = insertAsset(w, a)
    BY <1>6 DEF execute, CreateAsset_execute
  <2> HIDE DEF a
  <2> QED
    BY <2>1, <2>2, insertAssetOK, KeepsKeysOK DEF KeepsKeys
<1>7. CASE c.type = "CreateDomain" /\ c \in CreateDomain
  <2>1. c.domain_name \in Names
    BY <1>7 DEF CreateDomain
  <2>2. r = insertDomain(w, c.domain_name)
    BY <1>7 DEF execute, CreateDomain_execute
  <2> QED
    BY <2>1, <2>2, insertDomainOK, KeepsKeysOK DEF KeepsKeys
<1>8. CASE c.type = "RemoveSignatory" /\ c \in RemoveSignatory
  <2>1. /\ getAccount(w, c.account_id) # nullopt
        /\ c.pubkey # getAccount(w, c.account_id).master_key
    BY <1>8 DEF validate, RemoveSignatory_validate
  <2> QED
    BY <1>8, <2>1, RemoveSignatoryOK DEF execute
<1>9. CASE c.type = "SetAccountPermissions" /\ c \in SetAccountPermissions
  BY <1>9, SetAccountPermissionsOK DEF execute
<1>10. CASE c.type = "SetQuorum" /\ c \in SetQuorum
  BY <1>10, SetQuorumOK DEF execute
<1>11. CASE c.type = "TransferAsset" /\ c \in TransferAsset
  BY <1>11, TransferAssetOK, KeepsKeysOK DEF execute
<1> QED
  BY <1>1, <1>2, <1>3, <1>4, <1>5, <1>6, <1>7, <1>8, <1>9, <1>10, <1>11, CommandCases
-----------------------------------------------------------------------------
(* The inductive invariant                                                 *)

Sound == {w \in Schema : Fits(w) /\ KeysOK(w)}

LEMMA ExecuteSound ==
    ASSUME NEW w \in Sound, NEW c \in Command, execute(w, c) # nullopt,
           \/ c.type \notin {"RemoveSignatory", "AssignMasterKey"}
           \/ \E creator : validate(w, c, creator)
    PROVE  execute(w, c) \in Sound
<1>1. Good(w) /\ KeysOK(w)
  BY DEF Sound, Good
<1>2. Good(execute(w, c))
  BY <1>1, ExecuteGood
<1>3. KeysOK(execute(w, c))
  BY <1>1, ExecuteKeys
<1> QED
  BY <1>2, <1>3 DEF Good, Sound

\* The log takes the committed state through the states of the trace.
Traced ==
    /\ Len(trace) = Len(log) + 1
    /\ trace[1] = wsv
    /\ \A i \in 1 .. Len(log) : trace[i + 1] = execute(trace[i], log[i])

LedgerInv ==
    /\ stage \in {"genesis", "idle", "proposal", "transaction", "block"}
    /\ height \in 0 .. MaxHeight
    /\ log \in Seq(Command) /\ trace \in Seq(Sound)
    /\ pos \in Nat /\ begin \in Nat
    /\ wsv \in Sound
    /\ stage = "genesis" =>
          tmp = nullopt /\ savepoint = nullopt /\ (mut = nullopt \/ mut \in Sound)
    /\ stage = "idle" =>
          tmp = nullopt /\ savepoint = nullopt /\ mut = nullopt /\ height <= MaxHeight
    /\ stage # "genesis" /\ stage # "idle" => Traced /\ height < MaxHeight
    /\ stage = "proposal" =>
          tmp = trace[Len(trace)] /\ savepoint = nullopt /\ mut = nullopt
    /\ stage = "transaction" =>
          /\ tmp = trace[Len(trace)] /\ mut = nullopt
          /\ begin <= Len(log) /\ savepoint = trace[begin + 1]
    /\ stage = "block" =>
          /\ tmp = nullopt /\ savepoint = nullopt
          /\ pos <= Len(log) /\ mut = trace[pos + 1]

LEMMA InitInv == InitLedger => LedgerInv
<1>1. Tables \in Sound
  BY TablesGood DEF Good, Sound
<1> QED
  BY <1>1, LedgerAssumption DEF InitLedger, LedgerInv

LEMMA ApplyGenesisInv == LedgerInv /\ ApplyGenesis => LedgerInv'
<1> SUFFICES ASSUME LedgerInv, ApplyGenesis PROVE LedgerInv'
  OBVIOUS
<1> DEFINE c == Genesis[pos + 1]
<1>1. pos + 1 \in DOMAIN Genesis /\ c \in Command
  BY LedgerAssumption DEF LedgerInv, ApplyGenesis
<1>2. c.type \notin {"RemoveSignatory", "AssignMasterKey"}
  BY <1>1, GenesisAssumption
<1>3. mut \in Sound /\ mut' = execute(mut, c)
  BY DEF LedgerInv, ApplyGenesis
<1> HIDE DEF c
<1>4. mut' = nullopt \/ mut' \in Sound
  BY <1>1, <1>2, <1>3, ExecuteSound
<1> QED
  BY SMTT(40), <1>4 DEF LedgerInv, ApplyGenesis, Traced

LEMMA RunCommandInv ==
    ASSUME LedgerInv, NEW c \in Submitted, RunCommand(c)
    PROVE  LedgerInv'
<1>1. c \in Command
  BY LedgerAssumption
<1>2. /\ trace \in Seq(Sound) /\ log \in Seq(Command)
      /\ Len(trace) = Len(log) + 1 /\ tmp = trace[Len(trace)]
  BY DEF LedgerInv, RunCommand, Traced
<1>3. tmp \in Sound
  BY <1>2
<1>4. tmp' = execute(tmp, c) /\ tmp' \in Sound
  BY <1>1, <1>3, ExecuteSound DEF RunCommand, Passes
<1>5. /\ log' = Append(log, c) /\ trace' = Append(trace, tmp')
      /\ UNCHANGED <<wsv, savepoint, begin, mut, pos, stage, height>>
      /\ stage = "transaction"
  BY DEF RunCommand
<1>6. log' \in Seq(Command) /\ trace' \in Seq(Sound) /\ Len(log') = Len(log) + 1
  BY <1>1, <1>2, <1>4, <1>5
<1>7. /\ \A i \in 1 .. Len(log) : log'[i] = log[i]
      /\ \A i \in 1 .. Len(trace) : trace'[i] = trace[i]
      /\ log'[Len(log) + 1] = c /\ trace'[Len(trace) + 1] = tmp'
      /\ Len(trace') = Len(trace) + 1
  BY <1>1, <1>2, <1>4, <1>5
<1>8. Traced'
  <2>1. Traced
    BY <1>5 DEF LedgerInv
  <2>2. Len(log) \in Nat
    BY <1>2
  <2>3. trace'[1] = wsv'
    BY <1>2, <1>5, <1>7, <2>1, <2>2 DEF Traced
  <2>4. ASSUME NEW i \in 1 .. Len(log')
        PROVE  trace'[i + 1] = execute(trace'[i], log'[i])
    <3>1. CASE i \in 1 .. Len(log)
      BY <1>2, <1>7, <2>1, <2>2, <3>1 DEF Traced
    <3>2. CASE i = Len(log) + 1
      BY <1>2, <1>4, <1>7, <2>2, <3>2
    <3> QED
      BY <1>6, <2>2, <3>1, <3>2
  <2> QED
    BY ZenonT(60), <1>2, <1>6, <1>7, <2>2, <2>3, <2>4 DEF Traced
<1>9. begin' <= Len(log') /\ savepoint' = trace'[begin' + 1] /\ tmp' = trace'[Len(trace')]
  BY SMTT(40), <1>2, <1>5, <1>6, <1>7 DEF LedgerInv
<1> QED
  BY SMTT(40), <1>5, <1>6, <1>8, <1>9 DEF LedgerInv

\* ROLLBACK TO SAVEPOINT takes the log and the trace back to the same point.
LEMMA FailCommandInv ==
    ASSUME LedgerInv, NEW c, FailCommand(c)
    PROVE  LedgerInv'
<1>1. /\ trace \in Seq(Sound) /\ log \in Seq(Command) /\ begin \in Nat
      /\ Len(trace) = Len(log) + 1 /\ begin <= Len(log) /\ savepoint = trace[begin + 1]
      /\ Traced
  BY DEF LedgerInv, FailCommand, Traced
<1>2. /\ log' = SubSeq(log, 1, begin) /\ trace' = SubSeq(trace, 1, begin + 1)
      /\ tmp' = savepoint /\ savepoint' = nullopt /\ begin' = 0 /\ stage' = "proposal"
      /\ UNCHANGED <<wsv, mut, pos, height>>
      /\ stage = "transaction"
  BY DEF FailCommand, Rollback
<1>3. /\ log' \in Seq(Command) /\ Len(log') = begin
      /\ \A i \in 1 .. begin : log'[i] = log[i]
  BY <1>1, <1>2
<1>4. /\ trace' \in Seq(Sound) /\ Len(trace') = begin + 1
      /\ \A i \in 1 .. begin + 1 : trace'[i] = trace[i]
  BY <1>1, <1>2
<1>5. Traced'
  BY SMTT(40), <1>1, <1>2, <1>3, <1>4 DEF Traced
<1>6. tmp' = trace'[Len(trace')]
  BY <1>1, <1>2, <1>4
<1> QED
  BY SMTT(40), <1>2, <1>3, <1>4, <1>5, <1>6 DEF LedgerInv

\* The block is executed without validation: the state it reaches is in the trace.
LEMMA ApplyBlockInv == LedgerInv /\ ApplyBlock => LedgerInv'
<1> SUFFICES ASSUME LedgerInv, ApplyBlock PROVE LedgerInv'
  OBVIOUS
<1>1. /\ Traced /\ pos < Len(log) /\ mut = trace[pos + 1]
      /\ log \in Seq(Command) /\ pos \in Nat
  BY DEF LedgerInv, ApplyBlock
<1>2. pos + 1 \in 1 .. Len(log)
  BY <1>1
<1>3. trace[(pos + 1) + 1] = execute(trace[pos + 1], log[pos + 1])
  BY <1>1, <1>2 DEF Traced
<1>4. mut' = trace[pos' + 1] /\ pos' \in Nat /\ pos' <= Len(log)
  BY <1>1, <1>3 DEF ApplyBlock
<1> QED
  BY SMTT(40), <1>4 DEF LedgerInv, ApplyBlock, Traced

LEMMA CommitBlockInv == LedgerInv /\ CommitBlock => LedgerInv'
<1> SUFFICES ASSUME LedgerInv, CommitBlock PROVE LedgerInv'
  OBVIOUS
<1>1. mut \in Sound
  <2>1. /\ trace \in Seq(Sound) /\ log \in Seq(Command) /\ Len(trace) = Len(log) + 1
        /\ mut = trace[pos + 1] /\ pos \in Nat /\ pos <= Len(log)
    BY DEF LedgerInv, CommitBlock, Traced
  <2>2. pos + 1 \in 1 .. Len(trace)
    BY <2>1
  <2> QED
    BY <2>1, <2>2
<1>2. wsv' \in Sound
  BY <1>1 DEF LedgerInv, CommitBlock
<1>3. /\ log' \in Seq(Command) /\ trace' \in Seq(Sound)
      /\ height' \in 0 .. MaxHeight /\ pos' = 0
  BY LedgerAssumption DEF LedgerInv, CommitBlock
<1> QED
  BY SMTT(40), <1>2, <1>3 DEF LedgerInv, CommitBlock, Traced

\* A step that leaves the log and the trace alone leaves them in line.
LEMMA TracedStays ==
    ASSUME Traced, wsv' = wsv, log' = log, trace' = trace
    PROVE  Traced'
BY DEF Traced

\* Every step keeps the invariant.
LEMMA NextInv == LedgerInv /\ [NextLedger]_ledgerVars => LedgerInv'
<1> SUFFICES ASSUME LedgerInv, [NextLedger]_ledgerVars PROVE LedgerInv'
  OBVIOUS
<1>1. CASE ApplyGenesis
  BY <1>1, ApplyGenesisInv
<1>2. CASE CommitGenesis
  <2>1. Tables \in Sound
    BY TablesGood DEF Good, Sound
  <2>2. wsv' \in Sound
    BY <1>2, <2>1 DEF LedgerInv, CommitGenesis
  <2> QED
    BY SMTT(40), <1>2, <2>2 DEF LedgerInv, CommitGenesis
<1>3. CASE CreateTemporaryWsv
  <2>1. /\ trace' \in Seq(Sound) /\ Len(trace') = 1 /\ trace'[1] = wsv'
        /\ log' \in Seq(Command) /\ Len(log') = 0
    BY <1>3 DEF LedgerInv, CreateTemporaryWsv
  <2>2. Traced'
    BY <2>1 DEF Traced
  <2> QED
    BY SMTT(40), <1>3, <2>1, <2>2 DEF LedgerInv, CreateTemporaryWsv
<1>4. ASSUME NEW creator, NEW signatures, BeginTransaction(creator, signatures)
      PROVE  LedgerInv'
  <2>0. Traced /\ log \in Seq(Command) /\ tmp = trace[Len(trace)]
    BY <1>4 DEF LedgerInv, BeginTransaction
  <2>1. Len(trace) = Len(log) + 1 /\ Len(log) \in Nat /\ tmp = trace[Len(trace)]
    BY <2>0 DEF Traced
  <2>2. begin' \in Nat /\ begin' <= Len(log) /\ savepoint' = trace[begin' + 1]
    BY <1>4, <2>1 DEF BeginTransaction
  <2>3. Traced'
    BY <1>4, TracedStays DEF LedgerInv, BeginTransaction
  <2> QED
    BY SMTT(40), <1>4, <2>2, <2>3 DEF LedgerInv, BeginTransaction
<1>5. ASSUME NEW c \in Submitted, RunCommand(c) \/ FailCommand(c)
      PROVE  LedgerInv'
  BY <1>5, RunCommandInv, FailCommandInv
<1>6. CASE EndTransaction
  <2>1. Traced'
    BY <1>6, TracedStays DEF LedgerInv, EndTransaction
  <2> QED
    BY SMTT(40), <1>6, <2>1 DEF LedgerInv, EndTransaction
<1>7. CASE BeginBlock
  <2>1. Len(log) \in Nat /\ trace[1] = wsv
    BY <1>7 DEF LedgerInv, BeginBlock, Traced
  <2>2. Traced'
    BY <1>7, TracedStays DEF LedgerInv, BeginBlock
  <2> QED
    BY SMTT(40), <1>7, <2>1, <2>2 DEF LedgerInv, BeginBlock
<1>8. CASE ApplyBlock
  BY <1>8, ApplyBlockInv
<1>9. CASE CommitBlock
  BY <1>9, CommitBlockInv
<1>10. CASE UNCHANGED ledgerVars
  <2>1. Traced => Traced'
    BY <1>10, TracedStays DEF ledgerVars
  <2> QED
    BY SMTT(40), <1>10, <2>1 DEF ledgerVars, LedgerInv
<1> QED
  BY <1>1, <1>2, <1>3, <1>4, <1>5, <1>6, <1>7, <1>8, <1>9, <1>10 DEF NextLedger
-----------------------------------------------------------------------------
(* The theorems                                                            *)

\* Every database that exists keeps the constraints of the schema, whatever commands
\* are submitted (postgres_wsv_command.cpp, command_execution.cpp).
THEOREM LedgerTypes == SpecLedger => []LedgerTypeOK
<1>1. LedgerInv => LedgerTypeOK
  <2> SUFFICES ASSUME LedgerInv PROVE LedgerTypeOK
    OBVIOUS
  <2>1. \A i \in DOMAIN trace : trace[i] \in Sound
    BY DEF LedgerInv
  <2>2. Traced => \A i \in 0 .. Len(log) : trace[i + 1] \in Sound
    BY <2>1 DEF LedgerInv, Traced
  <2>3. \A w \in {wsv, tmp, savepoint, mut} \ {nullopt} : w \in Sound
    BY SMTT(40), <2>2 DEF LedgerInv, Traced
  <2>4. \A w \in States : Fits(w)
    BY <2>1, <2>3 DEF States, Sound
  <2> QED
    BY <2>4 DEF LedgerInv, LedgerTypeOK
<1> QED
  BY InitInv, NextInv, <1>1, PTL DEF SpecLedger

\* The chain validator reaches, command by command, the states that the stateful
\* validator has seen, although it validates nothing and although transactions were
\* rolled back in between (stateful_validator_impl.cpp, chain_validator_impl.cpp).
THEOREM LedgerReplays == SpecLedger => []BlockReplays
<1>1. LedgerInv => BlockReplays
  BY DEF LedgerInv, BlockReplays
<1> QED
  BY InitInv, NextInv, <1>1, PTL DEF SpecLedger

\* No sequence of transactions takes the master key of an account from its
\* signatories (stateful_command_validation.cpp).
THEOREM LedgerKeys == SpecLedger => []MasterKeyIsSignatory
<1>1. LedgerInv => MasterKeyIsSignatory
  BY DEF LedgerInv, Sound, MasterKeyIsSignatory
<1> QED
  BY InitInv, NextInv, <1>1, PTL DEF SpecLedger
=============================================================================
