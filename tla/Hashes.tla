------------------------------- MODULE Hashes -------------------------------
(***************************************************************************)
(* What identifies an object of the model: the hash provider, the checks   *)
(* of signatures, and the operators == of irohad/model. A hash is the      *)
(* tuple of what is fed into SHA3, so two objects have the same hash       *)
(* exactly if these bytes are the same.                                    *)
(***************************************************************************)
EXTENDS Model

CONSTANTS
    CharRange,  \* the number of values of a char
    Layouts,    \* where a process may have its virtual tables: it depends on the
                \* program and on where the system has loaded it
    vptr(_, _)  \* the first word of an object: the address of the virtual table of
                \* its type in a layout

sha3_256(bytes) == <<"sha3_256", bytes>>

\* std::string += uint64_t appends one char.
char(n) == n % CharRange

\* sizeof(*command) is the size of the base: of a command, only the address of
\* the virtual table is hashed, which another process may have elsewhere.
\* Signatures and the time are left out.
hashTransaction(layout, tx) ==
    sha3_256(<<[i \in DOMAIN tx.commands |-> vptr(layout, tx.commands[i].type)],
               tx.creator_account_id, char(tx.tx_counter)>>)

\* Variant: the field tx_hash is used instead of a new hash.
hashBlock_field(layout, block) ==
    sha3_256(<<block.height, block.prev_hash, block.txs_number, block.merkle_root,
               [i \in DOMAIN block.transactions |-> block.transactions[i].tx_hash]>>)

hashBlock(layout, block) ==
    sha3_256(<<block.height, block.prev_hash, block.txs_number, block.merkle_root,
               [i \in DOMAIN block.transactions |->
                   hashTransaction(layout, block.transactions[i])]>>)

hashProposal(layout, proposal) ==
    sha3_256([i \in DOMAIN proposal.transactions |->
                  hashTransaction(layout, proposal.transactions[i])])

\* The type of a query is not hashed; GetAccountAssetTransactions adds only its
\* counter.
hashQuery(q) ==
    sha3_256(CASE q.type = "GetAccountAssets" ->
                    <<q.account_id, q.asset_id, q.creator_account_id, char(q.query_counter)>>
               [] q.type = "GetAccountAssetTransactions" -> <<char(q.query_counter)>>
               [] OTHER -> <<q.account_id, q.creator_account_id, char(q.query_counter)>>)
-----------------------------------------------------------------------------
(* ModelCryptoProviderImpl                                                 *)

\* The library: the signature of a hash with the key that belongs to pubkey.
sign(hash, pubkey) == [pubkey |-> pubkey, signature |-> <<"ed25519", pubkey, hash>>]

verified(hash, s) == s = sign(hash, s.pubkey)

\* An object needs at least one signature, and all of them have to be right.
AllVerified(hash, signatures) ==
    /\ Len(signatures) > 0
    /\ \A i \in DOMAIN signatures : verified(hash, signatures[i])

verifyTransaction(layout, tx) == AllVerified(hashTransaction(layout, tx), tx.signatures)

verifyQuery(q) == verified(hashQuery(q), q.signature)

verifyBlock(layout, block) == AllVerified(hashBlock(layout, block), block.sigs)
-----------------------------------------------------------------------------
(* The operators ==                                                        *)

\* Two commands are equal if they have the same type and the same fields.
equalCommands(c, d) == c = d

\* Neither the creator nor the hash is compared.
equalTransactions(t, u) ==
    /\ DOMAIN t.commands = DOMAIN u.commands
    /\ \A i \in DOMAIN t.commands : equalCommands(t.commands[i], u.commands[i])
    /\ t.tx_counter = u.tx_counter
    /\ t.signatures = u.signatures
    /\ t.created_ts = u.created_ts

equalBlocks(a, b) ==
    /\ a.hash = b.hash /\ a.height = b.height /\ a.prev_hash = b.prev_hash
    /\ a.txs_number = b.txs_number /\ a.merkle_root = b.merkle_root
    /\ a.sigs = b.sigs /\ a.created_ts = b.created_ts
    /\ DOMAIN a.transactions = DOMAIN b.transactions
    /\ \A i \in DOMAIN a.transactions :
          equalTransactions(a.transactions[i], b.transactions[i])
=============================================================================
