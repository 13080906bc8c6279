----------------------------- MODULE Ametsuchi -----------------------------
(***************************************************************************)
(* The storage of a peer (irohad/ametsuchi): the block store, the world    *)
(* state view (WSV) in PostgreSQL, and the mutable storage through which   *)
(* blocks get into both. Two clients use it: main inserts the genesis      *)
(* block at every start, and the synchronizer commits the blocks of the    *)
(* consensus. The process may crash between any two writes.                *)
(*                                                                         *)
(* The WSV is the sequence of blocks whose commands are committed in it.   *)
(* A hash stands for its block.                                            *)
(***************************************************************************)
EXTENDS FlatFile, Sequences

CONSTANTS Genesis,     \* the genesis block
          height,      \* the height of each block
          prev_hash,   \* the block before each block
          zero,        \* the zero hash
          Repeatable,  \* blocks whose commands can be executed twice
          MaxChain,    \* bound: blocks in one commit
          MaxCrash,    \* bound: crashes
          MaxFault,    \* bound: failures of fopen and of the connections
          nullptr      \* no hash, no file, no mutable storage

ASSUME BlockAssumption ==
    /\ Genesis \in Block
    /\ height \in [Block -> Id]
    /\ prev_hash \in [Block -> Block \cup {zero}]
    /\ Repeatable \subseteq Block \ {Genesis}
    /\ {absent, partial, nullptr, zero} \cap Block = {}
    /\ absent # partial
    /\ zero # nullptr

\* The simulator gives a block the height after the one of its predecessor.
ASSUME HeightAssumption ==
    /\ height[Genesis] = 1
    /\ prev_hash[Genesis] = zero
    /\ \A b \in Block : prev_hash[b] \in Block => height[b] = height[prev_hash[b]] + 1
    /\ \A b \in Block : prev_hash[b] = zero => b = Genesis

ASSUME BoundAssumption == /\ MaxId \in Nat \ {0}
                          /\ MaxChain \in Nat
                          /\ MaxCrash \in Nat
                          /\ MaxFault \in Nat

VARIABLES
    files,        \* the block store on disk
    current_id,   \* the last id of the block store in memory
    wsv,          \* the committed world state view
    transaction,  \* the WSV with the uncommitted transaction of the mutable storage
    block_store,  \* the blocks of the mutable storage that are left to be added
    pfile,        \* the block whose file is open
    pc,           \* where the process is
    crashes,      \* number of crashes
    faults        \* number of failed calls

vars == <<files, current_id, wsv, transaction, block_store, pfile, pc,
          crashes, faults>>

Init ==
    /\ files = [i \in Id |-> absent]
    /\ current_id = 0
    /\ wsv = <<>>
    /\ transaction = <<>>
    /\ block_store = {}
    /\ pfile = nullptr
    /\ pc = "down"
    /\ crashes = 0
    /\ faults = 0
-----------------------------------------------------------------------------
(* Operations of the storage                                               *)

Applied(w) == {w[i] : i \in DOMAIN w}

\* The commands of b succeed on the WSV w. They were validated on the state
\* they are for; most cannot be repeated because of the keys of the tables.
execute(b, w) == b \in Repeatable \/ b \notin Applied(w)

\* The hash of the top block that createMutableStorage reads, or nullptr if it
\* fails to read it.
top_hash ==
    IF current_id = 0 THEN zero
    ELSE IF get(files, current_id) \in Block THEN get(files, current_id)
    ELSE nullptr

\* Variant: the previous hash is not compared with the top of the ledger.
validateChain_anyTop(chain, top, w) ==
    \A k \in DOMAIN chain :
        /\ k > 1 => prev_hash[chain[k]] = chain[k - 1]
        /\ execute(chain[k], w \o SubSeq(chain, 1, k - 1))

\* validateChain(blocks, storage): validateBlock for one block after the other
\* on the storage that the ones before have changed.
validateChain(chain, top, w) ==
    \A k \in DOMAIN chain :
        /\ prev_hash[chain[k]] = IF k = 1 THEN top ELSE chain[k - 1]
        /\ execute(chain[k], w \o SubSeq(chain, 1, k - 1))
-----------------------------------------------------------------------------
(* Steps of the process                                                    *)

\* StorageImpl::create
Create ==
    /\ pc = "down"
    /\ files' = Checked(files)
    /\ current_id' = check_consistency(files)
    /\ pc' = "created"
    /\ UNCHANGED <<wsv, transaction, block_store, pfile, crashes, faults>>

\* Variant: the commands of the genesis block stay although one of them failed.
applyToLedger_noRollback ==
    /\ pc = "created"
    /\ IF top_hash = nullptr
       THEN /\ pc' = "dead"
            /\ UNCHANGED <<transaction, block_store>>
       ELSE /\ pc' = "commit"
            /\ transaction' = Append(wsv, Genesis)
            /\ block_store' = {Genesis}
    /\ UNCHANGED <<files, current_id, wsv, pfile, crashes, faults>>

\* BlockInserter::applyToLedger({genesis}): the previous hash is not looked at,
\* a block that fails is rolled back, and the storage is committed in both
\* cases. Without a mutable storage the process dies.
applyToLedger ==
    /\ pc = "created"
    /\ IF top_hash = nullptr
       THEN /\ pc' = "dead"
            /\ UNCHANGED <<transaction, block_store>>
       ELSE /\ pc' = "commit"
            /\ IF execute(Genesis, wsv)
               THEN /\ transaction' = Append(wsv, Genesis)
                    /\ block_store' = {Genesis}
               ELSE /\ transaction' = wsv
                    /\ block_store' = {}
    /\ UNCHANGED <<files, current_id, wsv, pfile, crashes, faults>>

\* createMutableStorage fails to connect; process_commit returns in this case.
ConnectFails ==
    /\ pc = "created"
    /\ faults < MaxFault
    /\ faults' = faults + 1
    /\ pc' = "dead"
    /\ UNCHANGED <<files, current_id, wsv, transaction, block_store, pfile, crashes>>

\* SynchronizerImpl::process_commit with the block of the consensus or with a
\* chain of blocks of another peer: nothing happens unless all are valid.
process_commit(chain) ==
    /\ pc = "run"
    /\ top_hash # nullptr
    /\ validateChain(chain, top_hash, wsv)
    /\ transaction' = wsv \o chain
    /\ block_store' = Applied(chain)
    /\ pc' = "commit"
    /\ UNCHANGED <<files, current_id, wsv, pfile, crashes, faults>>

\* FlatFile::add of a block whose file exists.
AddExisting(b) ==
    /\ pc = "commit"
    /\ pfile = nullptr
    /\ b \in block_store
    /\ files[height[b]] # absent
    /\ block_store' = block_store \ {b}
    /\ UNCHANGED <<files, current_id, wsv, transaction, pfile, pc, crashes, faults>>

\* FlatFile::add of a new block when fopen fails: it returns and nobody knows.
OpenFails(b) ==
    /\ pc = "commit"
    /\ pfile = nullptr
    /\ b \in block_store
    /\ files[height[b]] = absent
    /\ faults < MaxFault
    /\ faults' = faults + 1
    /\ block_store' = block_store \ {b}
    /\ UNCHANGED <<files, current_id, wsv, transaction, pfile, pc, crashes>>

\* Variant: a file that exists is truncated.
Open_any(b) ==
    /\ pc = "commit"
    /\ pfile = nullptr
    /\ b \in block_store
    /\ files' = [files EXCEPT ![height[b]] = partial]
    /\ pfile' = b
    /\ UNCHANGED <<current_id, wsv, transaction, block_store, pc, crashes, faults>>

\* FlatFile::add of a new block, until its file is open. The blocks come in
\* the order of an unordered map.
Open(b) ==
    /\ pc = "commit"
    /\ pfile = nullptr
    /\ b \in block_store
    /\ files[height[b]] = absent
    /\ files' = [files EXCEPT ![height[b]] = partial]
    /\ pfile' = b
    /\ UNCHANGED <<current_id, wsv, transaction, block_store, pc, crashes, faults>>

\* FlatFile::add of a new block, from there on.
Write ==
    /\ pfile # nullptr
    /\ files' = [files EXCEPT ![height[pfile]] = pfile]
    /\ current_id' = height[pfile]
    /\ block_store' = block_store \ {pfile}
    /\ pfile' = nullptr
    /\ UNCHANGED <<wsv, transaction, pc, crashes, faults>>

\* Variant: the transaction is committed before the blocks are written.
Commit_first ==
    /\ pc = "commit"
    /\ wsv' = transaction
    /\ pc' = IF block_store = {} THEN "run" ELSE "commit"
    /\ UNCHANGED <<files, current_id, transaction, block_store, pfile, crashes, faults>>

\* The end of StorageImpl::commit, once all blocks are added.
Commit ==
    /\ pc = "commit"
    /\ block_store = {}
    /\ wsv' = transaction
    /\ pc' = "run"
    /\ UNCHANGED <<files, current_id, transaction, block_store, pfile, crashes, faults>>

\* The process stops at any point and loses its memory.
Crash ==
    /\ pc # "down"
    /\ crashes < MaxCrash
    /\ crashes' = crashes + 1
    /\ pc' = "down"
    /\ current_id' = 0
    /\ transaction' = <<>>
    /\ block_store' = {}
    /\ pfile' = nullptr
    /\ UNCHANGED <<files, wsv, faults>>

Chains == UNION {[1 .. n -> Block] : n \in 1 .. MaxChain}

Next ==
    \/ Create
    \/ applyToLedger
    \/ ConnectFails
    \/ \E chain \in Chains : process_commit(chain)
    \/ \E b \in Block : AddExisting(b) \/ Open(b) \/ OpenFails(b)
    \/ Write
    \/ Commit
    \/ Crash

Spec == Init /\ [][Next]_vars
-----------------------------------------------------------------------------
\* The state is well typed.
TypeOK ==
    /\ files \in Files
    /\ current_id \in 0 .. MaxId
    /\ wsv \in Seq(Block)
    /\ transaction \in Seq(Block)
    /\ block_store \subseteq Block
    /\ pfile \in Block \cup {nullptr}
    /\ pc \in {"down", "created", "commit", "run", "dead"}
    /\ crashes \in 0 .. MaxCrash
    /\ faults \in 0 .. MaxFault

\* The blocks of the block store, up to the last id.
Stored == [i \in 1 .. current_id |-> get(files, i)]

\* mutable_factory.hpp, commit, "transforms Ametsuchi to the new state
\* consistent with MutableStorage": between commits the WSV is the result of
\* the blocks of the block store, in their order.
StoreAndWsvAgree == pc = "run" => wsv = Stored

\* The same as long as the process was never restarted and no file failed to
\* open.
AgreeUntilRestart == crashes = 0 /\ faults = 0 => StoreAndWsvAgree

\* Each complete file of the block store is chained to the one before it, at
\* every point of a commit and after every crash.
Chained ==
    \A i \in Id : files[i] \in Block =>
        /\ height[files[i]] = i
        /\ i > 1 => files[i - 1] = prev_hash[files[i]]

\* However often the process crashed while it inserted the genesis block, and
\* although it inserts it at every start, its commands take effect once before
\* the peer runs, and they are the first to do so.
GenesisOnce ==
    pc = "run" => \A i \in DOMAIN wsv : wsv[i] = Genesis <=> i = 1

\* A step that commits to the WSV finds all the blocks it adds complete on disk,
\* after any number of crashes, unless a file failed to open.
CommittedIsOnDisk ==
    [][faults = 0 => \A i \in DOMAIN wsv' \ DOMAIN wsv :
                       files[height[wsv'[i]]] = wsv'[i]]_vars

\* A complete block is never replaced, and only the check at the start removes
\* it, which leaves the genesis block.
NeverRewritten ==
    [][\A i \in Id : files[i] \in Block /\ files'[i] # files[i] =>
          pc = "down" /\ files'[i] = absent /\ i > 1]_vars
=============================================================================
