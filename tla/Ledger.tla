------------------------------- MODULE Ledger -------------------------------
(***************************************************************************)
(* How transactions change the world state view. main executes the genesis *)
(* block. Then, block after block, StatefulValidatorImpl::validate tries   *)
(* the transactions of a proposal on a temporary WSV, each under a         *)
(* savepoint, and the commands of those that pass are executed once more   *)
(* by the chain validator, this time without validation, on a mutable      *)
(* storage that is committed. One step is one command; the handlers run to *)
(* their end before another one starts.                                    *)
(*                                                                         *)
(* The state of PostgreSQL inside a transaction is a value of its own:     *)
(* "tmp" for the temporary WSV, "mut" for the mutable storage.             *)
(***************************************************************************)
EXTENDS Commands, FiniteSetsExt

CONSTANTS
    Genesis,       \* the commands of the genesis block, in their order
    Submitted,     \* the commands that clients submit
    MaxSignatures, \* bound: signatures of a transaction
    MaxCommands,   \* bound: commands of a block
    MaxHeight      \* bound: blocks after the genesis block

ASSUME LedgerAssumption ==
    /\ Genesis \in Seq(Command)
    /\ Submitted \subseteq Command
    /\ MaxSignatures \in Nat /\ MaxCommands \in Nat /\ MaxHeight \in Nat

\* No genesis block takes a key away from an account: the tool that makes it
\* and the one of the repository only create.
ASSUME GenesisAssumption ==
    \A i \in DOMAIN Genesis :
        Genesis[i].type \notin {"RemoveSignatory", "AssignMasterKey"}

VARIABLES
    wsv,        \* the committed world state view
    tmp,        \* the temporary WSV
    savepoint,  \* the temporary WSV at the start of the transaction
    account,    \* the creator of the transaction, read at its start
    begin,      \* the number of commands in "log" at the start of the transaction
    log,        \* the commands that passed, in their order
    trace,      \* history: the temporary WSV before and after each of them
    mut,        \* the WSV in the mutable storage
    pos,        \* the number of commands executed in the mutable storage
    stage,      \* which handler runs
    height      \* the number of blocks after the genesis block

ledgerVars == <<wsv, tmp, savepoint, account, begin, log, trace, mut, pos,
                stage, height>>

InitLedger ==
    /\ wsv = Tables
    /\ tmp = nullopt /\ savepoint = nullopt /\ account = nullopt
    /\ begin = 0 /\ log = <<>> /\ trace = <<>>
    /\ mut = Tables /\ pos = 0
    /\ stage = "genesis"
    /\ height = 0
-----------------------------------------------------------------------------
(* BlockInserter::applyToLedger                                            *)

\* A command that fails ends the function, and what is committed then is the
\* state before the block.
ApplyGenesis ==
    /\ stage = "genesis"
    /\ pos < Len(Genesis)
    /\ mut # nullopt
    /\ mut' = execute(mut, Genesis[pos + 1])
    /\ pos' = pos + 1
    /\ UNCHANGED <<wsv, tmp, savepoint, account, begin, log, trace, stage, height>>

CommitGenesis ==
    /\ stage = "genesis"
    /\ pos = Len(Genesis) \/ mut = nullopt
    /\ wsv' = IF mut = nullopt THEN Tables ELSE mut
    /\ mut' = nullopt /\ pos' = 0
    /\ stage' = "idle"
    /\ UNCHANGED <<tmp, savepoint, account, begin, log, trace, height>>
-----------------------------------------------------------------------------
(* Simulator::process_proposal and StatefulValidatorImpl::validate         *)

\* createTemporaryWsv opens a transaction of PostgreSQL.
CreateTemporaryWsv ==
    /\ stage = "idle"
    /\ height < MaxHeight
    /\ tmp' = wsv
    /\ log' = <<>> /\ trace' = <<wsv>>
    /\ stage' = "proposal"
    /\ UNCHANGED <<wsv, savepoint, account, begin, mut, pos, height>>

\* TemporaryWsvImpl::apply sets the savepoint. The transaction goes on if its
\* creator exists and it has as many signatures as the quorum of the creator;
\* else nothing has changed when it is rolled back.
BeginTransaction(creator, signatures) ==
    /\ stage = "proposal"
    /\ Len(log) < MaxCommands
    /\ getAccount(tmp, creator) # nullopt
    /\ signatures >= getAccount(tmp, creator).quorum
    /\ savepoint' = tmp
    /\ begin' = Len(log)
    /\ account' = getAccount(tmp, creator)
    /\ stage' = "transaction"
    /\ UNCHANGED <<wsv, tmp, log, trace, mut, pos, height>>

\* A command is validated with the account of the creator as it was at the start
\* of the transaction, and executed.
Passes(c) == validate(tmp, c, account) /\ execute(tmp, c) # nullopt

RunCommand(c) ==
    /\ stage = "transaction"
    /\ Len(log) < MaxCommands
    /\ Passes(c)
    /\ tmp' = execute(tmp, c)
    /\ log' = Append(log, c)
    /\ trace' = Append(trace, tmp')
    /\ UNCHANGED <<wsv, savepoint, account, begin, mut, pos, stage, height>>

\* Variant: the changes of a transaction that fails stay.
Rollback_kept == tmp' = tmp

\* ROLLBACK TO SAVEPOINT
Rollback == tmp' = savepoint

\* The first command that does not pass ends the transaction.
FailCommand(c) ==
    /\ stage = "transaction"
    /\ ~ Passes(c)
    /\ Rollback
    /\ log' = SubSeq(log, 1, begin)
    /\ trace' = SubSeq(trace, 1, begin + 1)
    /\ savepoint' = nullopt /\ account' = nullopt /\ begin' = 0
    /\ stage' = "proposal"
    /\ UNCHANGED <<wsv, mut, pos, height>>

\* RELEASE SAVEPOINT: the transaction is part of the verified proposal.
EndTransaction ==
    /\ stage = "transaction"
    /\ savepoint' = nullopt /\ account' = nullopt /\ begin' = 0
    /\ stage' = "proposal"
    /\ UNCHANGED <<wsv, tmp, log, trace, mut, pos, height>>
-----------------------------------------------------------------------------
(* ChainValidatorImpl::validateBlock and StorageImpl::commit               *)

\* The temporary WSV is gone, and the block with the verified transactions, on
\* which the consensus agreed, is applied. The other peers agree on a block of
\* the same state, so no other block comes in between.
BeginBlock ==
    /\ stage = "proposal"
    /\ tmp' = nullopt
    /\ mut' = wsv /\ pos' = 0
    /\ stage' = "block"
    /\ UNCHANGED <<wsv, savepoint, account, begin, log, trace, height>>

ApplyBlock ==
    /\ stage = "block"
    /\ pos < Len(log)
    /\ mut # nullopt
    /\ mut' = execute(mut, log[pos + 1])
    /\ pos' = pos + 1
    /\ UNCHANGED <<wsv, tmp, savepoint, account, begin, log, trace, stage, height>>

\* A block with a command that fails is not committed.
CommitBlock ==
    /\ stage = "block"
    /\ pos = Len(log) \/ mut = nullopt
    /\ wsv' = IF mut = nullopt THEN wsv ELSE mut
    /\ mut' = nullopt /\ pos' = 0
    /\ log' = <<>> /\ trace' = <<>>
    /\ height' = height + 1
    /\ stage' = "idle"
    /\ UNCHANGED <<tmp, savepoint, account, begin>>

NextLedger ==
    \/ ApplyGenesis
    \/ CommitGenesis
    \/ CreateTemporaryWsv
    \/ \E creator \in AccountId, signatures \in 1 .. MaxSignatures :
          BeginTransaction(creator, signatures)
    \/ \E c \in Submitted : RunCommand(c) \/ FailCommand(c)
    \/ EndTransaction
    \/ BeginBlock
    \/ ApplyBlock
    \/ CommitBlock

SpecLedger == InitLedger /\ [][NextLedger]_ledgerVars
-----------------------------------------------------------------------------
(* Properties                                                              *)

\* The databases that exist at the moment.
States == ({wsv, tmp, savepoint, mut} \ {nullopt}) \cup {trace[i] : i \in DOMAIN trace}

\* The rows keep the constraints of the schema: a balance never exceeds its column,
\* and nothing refers to a missing row.
Fits(w) ==
    /\ w.peer \in Seq(Peer)
    /\ \A a \in DOMAIN w.account : /\ w.account[a].domain_id \in w.domain
                                   /\ w.account[a].master_key \in w.signatory
    /\ \A r \in w.account_has_signatory : /\ r[1] \in DOMAIN w.account
                                          /\ r[2] \in w.signatory
    /\ \A r \in DOMAIN w.account_has_asset :
          /\ r[1] \in DOMAIN w.account /\ r[2] \in DOMAIN w.asset
          /\ w.account_has_asset[r] \in 0 .. MaxBigint

\* Every database that exists fits the schema (init_ of storage_impl.hpp), and the
\* log is made of commands.
LedgerTypeOK ==
    /\ \A w \in States : Fits(w)
    /\ log \in Seq(Command)
    /\ stage \in {"genesis", "idle", "proposal", "transaction", "block"}
    /\ height \in 0 .. MaxHeight

\* The master key of an account is one of its signatories: RemoveSignatory
\* refuses it, AssignMasterKey takes only a signatory, and CreateAccount makes
\* the key both.
KeysOK(w) == \A a \in DOMAIN w.account :
                 <<a, w.account[a].master_key>> \in w.account_has_signatory

MasterKeyIsSignatory == KeysOK(wsv)

\* Executing the verified transactions without validation gives the state that
\* the validation has seen: no command of the block fails, and after each one
\* the mutable storage is what the temporary WSV was. So a transaction that was
\* rolled back has left nothing behind.
BlockReplays == stage = "block" => mut = trace[pos + 1]

\* The sum of the balances of an asset.
Supply(w, asset_id) ==
    MapThenSumSet(LAMBDA r : w.account_has_asset[r],
                  {r \in DOMAIN w.account_has_asset : r[2] = asset_id})

\* Nobody bounds the precision of an asset. This one is small enough for ipow.
FactorFits(precision) == ipow(10, precision) = 10 ^ precision

\* Assets come into being only by AddAssetQuantity, in exactly the amount it names,
\* and are else conserved: no sum of balances wraps around in 64 bits, and a
\* transaction that is rolled back moves nothing. There are two exceptions. A
\* transfer of an account to itself destroys its amount. And AddAssetQuantity gives,
\* or takes, another amount if get_joint_amount overflows the factor of the asset;
\* transfers of such an asset conserve it too.
AssetsConserved ==
    stage \in {"proposal", "transaction"} =>
        \A asset_id \in DOMAIN tmp.asset :
            LET precision == tmp.asset[asset_id].precision
                added == {i \in DOMAIN log : /\ log[i].type = "AddAssetQuantity"
                                            /\ log[i].asset_id = asset_id}
                destroyed == {i \in DOMAIN log :
                                 /\ log[i].type = "TransferAsset" /\ log[i].asset_id = asset_id
                                 /\ log[i].src_account_id = log[i].dest_account_id}
            IN  FactorFits(precision) \/ added = {} =>
                    Supply(tmp, asset_id) =
                        Supply(wsv, asset_id)
                        + MapThenSumSet(LAMBDA i : log[i].amount.int_part * 10 ^ precision
                                                   + log[i].amount.frac_part, added)
                        - MapThenSumSet(LAMBDA i : get_joint_amount(log[i].amount, precision),
                                        destroyed)

\* A command of a transaction does only what its creator had the right to do when
\* the transaction began, whatever the commands before it changed: it makes
\* assets, accounts or domains and sets permissions only with the permission for
\* it, and adds a key to another account, takes one away, changes its master key or
\* its quorum only with the permission for it. A balance is lowered only for the
\* creator and with the right to transfer, or, where the factor of the asset
\* overflows, by AddAssetQuantity and with the right to issue.
RightsAtStart ==
    [][stage = "transaction" /\ stage' = "transaction" =>
         LET creator == account.account_id
             Held(permission) ==
                 permission \in getAccount(savepoint, creator).permissions
             Old == DOMAIN tmp.account
         IN  /\ tmp'.domain # tmp.domain => Held("create_domains")
             /\ DOMAIN tmp'.asset # DOMAIN tmp.asset => Held("create_assets")
             /\ DOMAIN tmp'.account # Old => Held("create_accounts")
             /\ \A asset_id \in DOMAIN tmp.asset :
                   Supply(tmp', asset_id) > Supply(tmp, asset_id) => Held("issue_assets")
             /\ \A a \in Old :
                   /\ tmp'.account[a].permissions # tmp.account[a].permissions
                         => Held("set_permissions")
                   /\ tmp'.account[a].quorum # tmp.account[a].quorum
                         => a = creator \/ Held("set_quorum")
                   /\ ~ getSignatories(tmp, a) \subseteq getSignatories(tmp', a)
                         => a = creator \/ Held("remove_signatory")
                   /\ \/ ~ getSignatories(tmp', a) \subseteq getSignatories(tmp, a)
                      \/ tmp'.account[a].master_key # tmp.account[a].master_key
                         => a = creator \/ Held("add_signatory")
             /\ \A r \in DOMAIN tmp.account_has_asset :
                   tmp'.account_has_asset[r] < tmp.account_has_asset[r]
                         => \/ r[1] = creator /\ Held("can_transfer")
                            \/ /\ ~ FactorFits(tmp.asset[r[2]].precision)
                               /\ Held("issue_assets")
      ]_ledgerVars
=============================================================================
