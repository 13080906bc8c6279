-------------------------- MODULE AmetsuchiProofs --------------------------
(***************************************************************************)
(* Proofs about the storage, for all blocks and for every number of        *)
(* crashes and failures. A commit is of one block: more would come from    *)
(* the block loader, which is a mock in this program.                      *)
(***************************************************************************)
EXTENDS Ametsuchi, SequenceTheorems, TLAPS

OneBlock == MaxChain = 1

\* Where there is a file, there is a complete one before it.
NoGap == \A i \in Id : i > 1 /\ files[i] # absent => files[i - 1] \in Block

\* Nothing is on disk above the last id but the file that is open.
NothingAbove ==
    pc \in {"created", "run", "commit"} =>
        \A i \in Id : i > current_id =>
            files[i] = absent \/ (pfile # nullptr /\ i = height[pfile])

\* The block to be added fits the last one on disk, or is there already.
Fitting(b) ==
    /\ height[b] > 1 => files[height[b] - 1] = prev_hash[b]
    /\ files[height[b]] = b \/ height[b] = current_id + 1

Adding ==
    /\ pc # "commit" => block_store = {} /\ pfile = nullptr
    /\ \A b, c \in block_store : b = c
    /\ \A b \in block_store : Fitting(b)
    /\ pfile # nullptr =>
          /\ pfile \in block_store
          /\ height[pfile] = current_id + 1
          /\ files[height[pfile]] = partial

\* After the start, the last id is the one of the genesis block.
Started == pc = "created" => current_id \in {0, 1}

\* The genesis block is the first that takes effect, and only that.
GenesisFirst(w) == w # <<>> /\ \A i \in DOMAIN w : w[i] = Genesis <=> i = 1

GenesisInv ==
    /\ wsv = <<>> \/ GenesisFirst(wsv)
    /\ pc = "run" => GenesisFirst(wsv)
    /\ pc = "commit" => GenesisFirst(transaction)

\* What is about to be committed is on disk or still to be added.
OnDisk ==
    pc = "commit" /\ faults = 0 =>
        \A i \in DOMAIN transaction \ DOMAIN wsv :
            \/ transaction[i] \in block_store
            \/ files[height[transaction[i]]] = transaction[i]

\* Without crashes and failures the WSV follows the block store.
Agreeing ==
    crashes = 0 /\ faults = 0 =>
        /\ pc \in {"down", "created"} => wsv = <<>> /\ \A i \in Id : files[i] = absent
        /\ pc = "created" => current_id = 0
        /\ pc = "run" => wsv = Stored
        /\ pc = "commit" /\ block_store = {} => transaction = Stored
        /\ pc = "commit" => \A b \in block_store :
               transaction = Append(Stored, b) /\ height[b] = current_id + 1

StorageInv ==
    /\ TypeOK
    /\ Chained /\ NoGap /\ NothingAbove /\ Adding /\ Started
    /\ GenesisInv /\ OnDisk /\ Agreeing
-----------------------------------------------------------------------------
(* Facts about the blocks and the check at the start                       *)

\* Only the genesis block has height 1.
LEMMA FirstIsGenesis == \A b \in Block : height[b] = 1 => b = Genesis
BY BlockAssumption, HeightAssumption, BoundAssumption DEF Id

\* check_consistency leaves the file of the genesis block and no other.
LEMMA OnlyFirstKept ==
    ASSUME NoGap, files \in Files
    PROVE  /\ kept(files) = {i \in {1} : i \in names(files)}
           /\ check_consistency(files) \in {0, 1}
           /\ check_consistency(files) = 0 <=> names(files) = {}
<1>0. 1 \in Id
  BY BoundAssumption DEF Id
<1>1. names(files) \subseteq Id /\ Id \subseteq Nat
  BY BoundAssumption DEF names, Id
<1>2. ASSUME NEW n \in kept(files) PROVE n = 1
  <2> SUFFICES ASSUME n # 1 PROVE FALSE
    OBVIOUS
  <2> DEFINE S == {m \in names(files) : m < n}
  <2>1. n \in Id /\ n > 1 /\ files[n] # absent
    BY <1>1 DEF kept, names, Id
  <2>2. n - 1 \in Id /\ files[n - 1] # absent
    BY <2>1, BlockAssumption, BoundAssumption DEF NoGap, Id
  <2>3. n - 1 \in S
    BY <2>1, <2>2 DEF names, Id
  <2>4. \A m \in S : n - 1 >= m
    BY <1>1, <2>1 DEF Id
  <2>5. Max(S) \in S
    BY <2>3, <2>4 DEF Max
  <2>6. Max(S) # n
    BY <1>1, <2>1, <2>5 DEF Id
  <2>7. tmp_id(names(files), n) = Max(S)
    BY <2>3 DEF tmp_id
  <2>8. n <= n
    BY <2>1 DEF Id
  <2> QED
    BY <2>6, <2>7, <2>8 DEF kept
<1>3. ASSUME 1 \in names(files) PROVE 1 \in kept(files)
  <2>1. \A m \in names(files) : m <= 1 => m = 1
    BY <1>1 DEF Id
  <2>2. tmp_id(names(files), 1) = 1
    BY <1>1 DEF tmp_id, Id
  <2> QED
    BY <1>3, <2>1, <2>2 DEF kept
<1>4. kept(files) = {i \in {1} : i \in names(files)}
  BY <1>2, <1>3 DEF kept
<1>5. kept(files) # {} => Max(kept(files)) = 1
  BY <1>4 DEF Max
<1> QED
  BY <1>4, <1>5 DEF check_consistency

\* A commit of the synchronizer is one block on top of the last one on disk.
LEMMA CommitsOne ==
    ASSUME OneBlock, NEW chain \in Chains, process_commit(chain), TypeOK
    PROVE  \E b \in Block :
              /\ prev_hash[b] = top_hash
              /\ execute(b, wsv)
              /\ transaction' = Append(wsv, b)
              /\ block_store' = {b}
<1>1. chain \in [1 .. 1 -> Block]
  <2>1. PICK n \in 1 .. MaxChain : chain \in [1 .. n -> Block]
    BY DEF Chains
  <2> QED
    BY <2>1 DEF OneBlock
<1>2. chain[1] \in Block /\ DOMAIN chain = {1}
  BY <1>1
<1>3. chain = <<chain[1]>>
  BY <1>1
<1>4. wsv \o SubSeq(chain, 1, 1 - 1) = wsv
  BY SubSeqEmpty, ConcatEmptySeq DEF TypeOK
<1>5. prev_hash[chain[1]] = top_hash /\ execute(chain[1], wsv)
  <2>1. 1 \in DOMAIN chain
    BY <1>2
  <2>2. prev_hash[chain[1]] = top_hash /\ execute(chain[1], wsv \o SubSeq(chain, 1, 1 - 1))
    BY <2>1 DEF process_commit, validateChain
  <2> QED
    BY ZenonT(60), <1>4, <2>2
<1>6. wsv \o chain = Append(wsv, chain[1])
  BY ZenonT(60), <1>2, <1>3, AppendIsConcat DEF TypeOK
<1>7. Applied(chain) = {chain[1]}
  BY <1>2 DEF Applied
<1> QED
  BY <1>2, <1>5, <1>6, <1>7 DEF process_commit
-----------------------------------------------------------------------------
(* The invariant is inductive                                              *)

LEMMA InitStorageInv == Init => StorageInv
<1> SUFFICES ASSUME Init PROVE StorageInv
  OBVIOUS
<1>1. TypeOK
  BY BoundAssumption, EmptySeq DEF Init, TypeOK, Files
<1>2. Chained /\ NoGap /\ NothingAbove /\ Adding /\ Started
  BY BlockAssumption DEF Init, Chained, NoGap, NothingAbove, Adding, Started, Id
<1>3. GenesisInv /\ OnDisk /\ Agreeing
  BY DEF Init, GenesisInv, OnDisk, Agreeing
<1> QED
  BY <1>1, <1>2, <1>3 DEF StorageInv

\* A block is not one of the marks of the model.
LEMMA Marks == \A b \in Block : b # absent /\ b # partial /\ b # nullptr /\ b # zero
BY BlockAssumption

\* The block before a block that is not the genesis block.
LEMMA HasPrevious ==
    ASSUME NEW b \in Block
    PROVE  /\ height[b] \in Id /\ height[b] \in Nat /\ height[b] >= 1
           /\ height[b] > 1 => /\ prev_hash[b] \in Block
                               /\ height[b] - 1 \in Id
BY BlockAssumption, HeightAssumption, BoundAssumption DEF Id

\* StorageImpl::create
LEMMA CreateInv == StorageInv /\ Create => StorageInv'
<1> SUFFICES ASSUME StorageInv, Create PROVE StorageInv'
  OBVIOUS
<1>1. TypeOK /\ NoGap /\ Chained /\ files \in Files /\ Adding
  BY DEF StorageInv, TypeOK
<1>2. /\ kept(files) = {i \in {1} : i \in names(files)}
      /\ check_consistency(files) \in {0, 1}
      /\ check_consistency(files) = 0 <=> names(files) = {}
  BY <1>1, OnlyFirstKept
<1>3. /\ files' = [i \in Id |-> IF i \in kept(files) THEN files[i] ELSE absent]
      /\ current_id' = check_consistency(files) /\ pc = "down" /\ pc' = "created"
      /\ UNCHANGED <<wsv, transaction, block_store, pfile, crashes, faults>>
  BY DEF Create, Checked
<1>4. \A i \in Id : files'[i] = (IF i = 1 THEN files[1] ELSE absent)
  BY <1>2, <1>3 DEF names
<1>5. TypeOK'
  BY <1>1, <1>2, <1>3, BoundAssumption DEF TypeOK, Files, Id
<1>6. Chained' /\ NoGap'
  BY <1>1, <1>4, Marks DEF Chained, NoGap, Id
<1>7. NothingAbove'
  <2>1. \A i \in Id : i > current_id' => files'[i] = absent
    BY <1>2, <1>3, <1>4, BoundAssumption DEF names, Id
  <2> QED
    BY <2>1 DEF NothingAbove
<1>8. Adding' /\ Started'
  BY <1>1, <1>2, <1>3 DEF Adding, Started
<1>9. GenesisInv' /\ OnDisk'
  BY <1>3 DEF StorageInv, GenesisInv, GenesisFirst, OnDisk
<1>10. Agreeing'
  <2> SUFFICES ASSUME crashes = 0, faults = 0
               PROVE  wsv = <<>> /\ current_id' = 0 /\ \A i \in Id : files'[i] = absent
    BY <1>3 DEF Agreeing
  <2>1. wsv = <<>> /\ \A i \in Id : files[i] = absent
    BY <1>3 DEF StorageInv, Agreeing
  <2> QED
    BY <1>2, <1>3, <1>4, <2>1 DEF names
<1> QED
  BY <1>5, <1>6, <1>7, <1>8, <1>9, <1>10 DEF StorageInv

\* BlockInserter::applyToLedger
LEMMA ApplyToLedgerInv == StorageInv /\ applyToLedger => StorageInv'
<1> SUFFICES ASSUME StorageInv, applyToLedger PROVE StorageInv'
  OBVIOUS
<1>1. /\ pc = "created"
      /\ UNCHANGED <<files, current_id, wsv, pfile, crashes, faults>>
  BY DEF applyToLedger
<1>2. /\ TypeOK /\ Chained /\ NoGap /\ NothingAbove /\ Adding /\ Started
      /\ GenesisInv /\ OnDisk /\ Agreeing
  BY DEF StorageInv
<1>3. pfile = nullptr /\ block_store = {} /\ current_id \in {0, 1}
  BY <1>1, <1>2 DEF Adding, Started
<1>4. Chained' /\ NoGap'
  BY <1>1, <1>2 DEF Chained, NoGap
<1>5. CASE top_hash = nullptr
  <2>1. pc' = "dead" /\ UNCHANGED <<transaction, block_store>>
    BY <1>5 DEF applyToLedger
  <2>2. TypeOK'
    BY <1>1, <1>2, <2>1 DEF TypeOK
  <2>3. NothingAbove' /\ Adding' /\ Started'
    BY <1>3, <1>1, <2>1 DEF NothingAbove, Adding, Started
  <2>4. GenesisInv' /\ OnDisk' /\ Agreeing'
    BY <1>1, <1>2, <2>1 DEF GenesisInv, GenesisFirst, OnDisk, Agreeing
  <2> QED
    BY <1>4, <2>2, <2>3, <2>4 DEF StorageInv
<1>6. CASE top_hash # nullptr
  <2>1. pc' = "commit"
    BY <1>6 DEF applyToLedger
  <2>2. \/ transaction' = Append(wsv, Genesis) /\ block_store' = {Genesis} /\ wsv = <<>>
        \/ transaction' = wsv /\ block_store' = {} /\ GenesisFirst(wsv)
    <3>1. CASE wsv = <<>>
      <4>1. execute(Genesis, wsv)
        BY <3>1 DEF execute, Applied
      <4> QED
        BY <1>6, <3>1, <4>1 DEF applyToLedger
    <3>2. CASE wsv # <<>>
      <4>1. GenesisFirst(wsv)
        BY <1>2, <3>2 DEF GenesisInv
      <4>2. 1 \in DOMAIN wsv
        BY <1>2, <3>2, EmptySeq, LenProperties DEF TypeOK
      <4>3. ~execute(Genesis, wsv)
        BY <4>1, <4>2, BlockAssumption DEF execute, Applied, GenesisFirst
      <4> QED
        BY <1>6, <4>1, <4>3 DEF applyToLedger
    <3> QED
      BY <3>1, <3>2
  <2>3. Genesis \in Block /\ height[Genesis] = 1 /\ 1 \in Id
    BY BlockAssumption, HeightAssumption, BoundAssumption DEF Id
  <2>4. transaction' \in Seq(Block) /\ GenesisFirst(transaction')
    <3>1. CASE transaction' = Append(wsv, Genesis) /\ wsv = <<>>
      <4>1. transaction' = <<Genesis>>
        BY <3>1
      <4> QED
        BY <2>3, <4>1 DEF GenesisFirst
    <3>2. CASE transaction' = wsv /\ GenesisFirst(wsv)
      BY <1>2, <3>2 DEF TypeOK
    <3> QED
      BY <2>2, <3>1, <3>2
  <2>5. TypeOK'
    BY <1>1, <1>2, <2>1, <2>2, <2>3, <2>4 DEF TypeOK
  <2>6. Fitting(Genesis)'
    <3>1. CASE current_id = 0
      BY <1>1, <2>3, <3>1 DEF Fitting
    <3>2. CASE current_id = 1
      <4>1. files[1] \in Block
        BY <1>6, <3>2 DEF top_hash, get
      <4>2. files[1] = Genesis
        BY <1>2, <2>3, <4>1, FirstIsGenesis DEF Chained
      <4> QED
        BY <1>1, <2>3, <4>2 DEF Fitting
    <3> QED
      BY <1>3, <3>1, <3>2
  <2>7. NothingAbove' /\ Adding' /\ Started'
    BY <1>1, <1>2, <1>3, <2>1, <2>2, <2>6 DEF NothingAbove, Adding, Started
  <2>8. GenesisInv'
    BY <1>1, <1>2, <2>1, <2>4 DEF GenesisInv, GenesisFirst
  <2>9. OnDisk'
    BY <1>1, <2>1, <2>2 DEF OnDisk
  <2>10. Agreeing'
    <3> SUFFICES ASSUME crashes = 0, faults = 0
                 PROVE  /\ block_store' = {Genesis}
                        /\ transaction' = Append(Stored', Genesis) /\ current_id' = 0
      BY SMTT(40), <1>1, <2>1, <2>3 DEF Agreeing
    <3>1. wsv = <<>> /\ current_id = 0
      BY <1>1, <1>2 DEF Agreeing
    <3>2. Stored' = <<>>
      BY <1>1, <3>1 DEF Stored
    <3> QED
      BY <1>1, <2>2, <3>1, <3>2 DEF GenesisFirst
  <2> QED
    BY <1>4, <2>5, <2>7, <2>8, <2>9, <2>10 DEF StorageInv
<1> QED
  BY <1>5, <1>6

\* createMutableStorage that does not connect
LEMMA ConnectFailsInv == StorageInv /\ ConnectFails => StorageInv'
<1> SUFFICES ASSUME StorageInv, ConnectFails PROVE StorageInv'
  OBVIOUS
<1>1. /\ TypeOK /\ Chained /\ NoGap /\ NothingAbove /\ Adding /\ Started
      /\ GenesisInv /\ OnDisk /\ Agreeing
  BY DEF StorageInv
<1>2. /\ pc = "created" /\ pc' = "dead" /\ faults < MaxFault /\ faults' = faults + 1
      /\ UNCHANGED <<files, current_id, wsv, transaction, block_store, pfile, crashes>>
  BY DEF ConnectFails
<1>3. TypeOK'
  BY <1>1, <1>2, BoundAssumption DEF TypeOK
<1>4. Chained' /\ NoGap' /\ NothingAbove' /\ Adding' /\ Started'
  BY <1>1, <1>2 DEF Chained, NoGap, NothingAbove, Adding, Fitting, Started
<1>5. GenesisInv' /\ OnDisk' /\ Agreeing'
  BY <1>1, <1>2 DEF GenesisInv, GenesisFirst, OnDisk, Agreeing
<1> QED
  BY <1>3, <1>4, <1>5 DEF StorageInv

\* The end of the process
LEMMA CrashInv == StorageInv /\ Crash => StorageInv'
<1> SUFFICES ASSUME StorageInv, Crash PROVE StorageInv'
  OBVIOUS
<1>1. TypeOK /\ Chained /\ NoGap /\ GenesisInv
  BY DEF StorageInv
<1>2. /\ pc' = "down" /\ crashes < MaxCrash /\ crashes' = crashes + 1
      /\ current_id' = 0 /\ transaction' = <<>> /\ block_store' = {} /\ pfile' = nullptr
      /\ UNCHANGED <<files, wsv, faults>>
  BY DEF Crash
<1>3. TypeOK'
  BY <1>1, <1>2, BoundAssumption, EmptySeq DEF TypeOK
<1>4. Chained' /\ NoGap' /\ NothingAbove' /\ Adding' /\ Started'
  BY <1>1, <1>2 DEF Chained, NoGap, NothingAbove, Adding, Started
<1>5. GenesisInv' /\ OnDisk'
  BY <1>1, <1>2 DEF GenesisInv, GenesisFirst, OnDisk
<1>6. Agreeing'
  BY <1>1, <1>2 DEF Agreeing, TypeOK
<1> QED
  BY <1>3, <1>4, <1>5, <1>6 DEF StorageInv

\* The end of StorageImpl::commit
LEMMA CommitInv == StorageInv /\ Commit => StorageInv'
<1> SUFFICES ASSUME StorageInv, Commit PROVE StorageInv'
  OBVIOUS
<1>1. /\ TypeOK /\ Chained /\ NoGap /\ NothingAbove /\ Adding
      /\ GenesisInv /\ Agreeing
  BY DEF StorageInv
<1>2. /\ pc = "commit" /\ block_store = {} /\ wsv' = transaction /\ pc' = "run"
      /\ UNCHANGED <<files, current_id, transaction, block_store, pfile, crashes, faults>>
  BY DEF Commit
<1>3. TypeOK'
  BY <1>1, <1>2 DEF TypeOK
<1>4. Chained' /\ NoGap' /\ NothingAbove' /\ Adding' /\ Started'
  BY <1>1, <1>2 DEF Chained, NoGap, NothingAbove, Adding, Started
<1>5. GenesisInv' /\ OnDisk'
  BY <1>1, <1>2 DEF GenesisInv, GenesisFirst, OnDisk
<1>6. Agreeing'
  BY <1>1, <1>2 DEF Agreeing, Stored, get
<1> QED
  BY <1>3, <1>4, <1>5, <1>6 DEF StorageInv

\* SynchronizerImpl::process_commit
LEMMA ProcessCommitInv ==
    ASSUME OneBlock, StorageInv, NEW chain \in Chains, process_commit(chain)
    PROVE  StorageInv'
<1>1. /\ TypeOK /\ Chained /\ NoGap /\ NothingAbove /\ Adding
      /\ GenesisInv /\ Agreeing
  BY DEF StorageInv
<1>2. /\ pc = "run" /\ pc' = "commit" /\ top_hash # nullptr
      /\ UNCHANGED <<files, current_id, wsv, pfile, crashes, faults>>
  BY DEF process_commit
<1>3. PICK b \in Block :
        /\ prev_hash[b] = top_hash /\ execute(b, wsv)
        /\ transaction' = Append(wsv, b) /\ block_store' = {b}
  BY <1>1, CommitsOne
<1>4. pfile = nullptr /\ GenesisFirst(wsv) /\ wsv \in Seq(Block)
  BY <1>1, <1>2 DEF Adding, GenesisInv, TypeOK
<1>5. b # Genesis
  <2>1. 1 \in DOMAIN wsv /\ wsv[1] = Genesis
    BY <1>4, EmptySeq, LenProperties DEF GenesisFirst
  <2> QED
    BY <1>3, <2>1, BlockAssumption DEF execute, Applied
<1>6. top_hash \in Block /\ current_id \in Id /\ files[current_id] = top_hash
  <2>1. top_hash # zero
    BY <1>3, <1>5, HeightAssumption
  <2> QED
    BY <1>1, <1>2, <2>1 DEF top_hash, get, TypeOK, Id
<1>7. height[b] = current_id + 1
  BY SMTT(40), <1>1, <1>3, <1>6, HeightAssumption DEF Chained
<1>8. Fitting(b)'
  BY <1>2, <1>3, <1>6, <1>7 DEF Fitting, Id
<1>9. TypeOK'
  BY <1>1, <1>2, <1>3, <1>4 DEF TypeOK
<1>10. Chained' /\ NoGap' /\ NothingAbove' /\ Adding' /\ Started'
  BY SMTT(40), <1>1, <1>2, <1>3, <1>4, <1>8 DEF Chained, NoGap, NothingAbove, Adding, Started
<1>11. GenesisInv'
  <2>1. GenesisFirst(Append(wsv, b))
    <3>1. /\ DOMAIN Append(wsv, b) = 1 .. Len(wsv) + 1 /\ Len(wsv) \in Nat
          /\ \A i \in 1 .. Len(wsv) : Append(wsv, b)[i] = wsv[i] /\ i \in DOMAIN wsv
          /\ Append(wsv, b)[Len(wsv) + 1] = b
      BY <1>4, <1>3, AppendProperties, LenProperties
    <3>2. Len(wsv) # 0
      BY <1>4, EmptySeq DEF GenesisFirst
    <3> QED
      BY <1>4, <1>5, <3>1, <3>2 DEF GenesisFirst
  <2> QED
    BY <1>1, <1>2, <1>3, <1>4, <2>1 DEF GenesisInv
<1>12. OnDisk'
  <2>1. \A i \in DOMAIN transaction' \ DOMAIN wsv : transaction'[i] = b
    BY <1>3, <1>4, AppendProperties, LenProperties
  <2> QED
    BY <1>2, <1>3, <2>1 DEF OnDisk
<1>13. Agreeing'
  <2>1. crashes = 0 /\ faults = 0 => transaction' = Append(Stored', b)
    BY ZenonT(60), <1>1, <1>2, <1>3 DEF Agreeing, Stored, get
  <2> QED
    BY <1>2, <1>3, <1>7, <2>1 DEF Agreeing
<1> QED
  BY <1>9, <1>10, <1>11, <1>12, <1>13 DEF StorageInv

\* FlatFile::add of a block whose file exists
LEMMA AddExistingInv ==
    ASSUME StorageInv, NEW b \in Block, AddExisting(b)
    PROVE  StorageInv'
<1>1. /\ TypeOK /\ Chained /\ NoGap /\ NothingAbove /\ Adding
      /\ GenesisInv /\ OnDisk /\ Agreeing
  BY DEF StorageInv
<1>2. /\ pc = "commit" /\ pfile = nullptr /\ b \in block_store
      /\ files[height[b]] # absent /\ block_store' = block_store \ {b}
      /\ UNCHANGED <<files, current_id, wsv, transaction, pfile, pc, crashes, faults>>
  BY DEF AddExisting
<1>3. block_store' = {} /\ Fitting(b) /\ height[b] \in Id /\ height[b] \in Nat
  BY <1>1, <1>2, HasPrevious DEF Adding
<1>4. height[b] # current_id + 1
  BY <1>1, <1>2, <1>3 DEF NothingAbove, TypeOK
<1>5. files[height[b]] = b
  BY <1>3, <1>4 DEF Fitting
<1>6. TypeOK'
  BY <1>1, <1>2 DEF TypeOK
<1>7. Chained' /\ NoGap' /\ NothingAbove' /\ Adding' /\ Started'
  BY <1>1, <1>2, <1>3 DEF Chained, NoGap, NothingAbove, Adding, Started
<1>8. GenesisInv'
  BY <1>1, <1>2 DEF GenesisInv, GenesisFirst
<1>9. OnDisk'
  <2>1. \A c \in block_store : c = b
    BY <1>1, <1>2 DEF Adding
  <2> QED
    BY <1>1, <1>2, <1>3, <1>5, <2>1 DEF OnDisk
<1>10. Agreeing'
  BY <1>1, <1>2, <1>4 DEF Agreeing
<1> QED
  BY <1>6, <1>7, <1>8, <1>9, <1>10 DEF StorageInv

\* FlatFile::add of a block whose file cannot be opened
LEMMA OpenFailsInv ==
    ASSUME StorageInv, NEW b \in Block, OpenFails(b)
    PROVE  StorageInv'
<1>1. TypeOK /\ Chained /\ NoGap /\ NothingAbove /\ Adding /\ GenesisInv
  BY DEF StorageInv
<1>2. /\ pc = "commit" /\ pfile = nullptr /\ b \in block_store
      /\ block_store' = block_store \ {b} /\ faults < MaxFault /\ faults' = faults + 1
      /\ UNCHANGED <<files, current_id, wsv, transaction, pfile, pc, crashes>>
  BY DEF OpenFails
<1>3. block_store' = {}
  BY <1>1, <1>2 DEF Adding
<1>4. faults' # 0
  BY <1>1, <1>2 DEF TypeOK
<1>5. TypeOK'
  BY <1>1, <1>2, BoundAssumption DEF TypeOK
<1>6. Chained' /\ NoGap' /\ NothingAbove' /\ Adding' /\ Started'
  BY <1>1, <1>2, <1>3 DEF Chained, NoGap, NothingAbove, Adding, Started
<1>7. GenesisInv'
  BY <1>1, <1>2 DEF GenesisInv, GenesisFirst
<1>8. OnDisk' /\ Agreeing'
  BY <1>4 DEF OnDisk, Agreeing
<1> QED
  BY <1>5, <1>6, <1>7, <1>8 DEF StorageInv

\* FlatFile::add of a new block, until its file is open
LEMMA OpenInv ==
    ASSUME StorageInv, NEW b \in Block, Open(b)
    PROVE  StorageInv'
<1>1. /\ TypeOK /\ Chained /\ NoGap /\ NothingAbove /\ Adding
      /\ GenesisInv /\ OnDisk /\ Agreeing
  BY DEF StorageInv
<1>2. /\ pc = "commit" /\ pfile = nullptr /\ b \in block_store
      /\ files[height[b]] = absent /\ pfile' = b
      /\ files' = [files EXCEPT ![height[b]] = partial]
      /\ UNCHANGED <<current_id, wsv, transaction, block_store, pc, crashes, faults>>
  BY DEF Open
<1>3. /\ height[b] \in Id /\ height[b] \in Nat /\ height[b] >= 1
      /\ height[b] > 1 => prev_hash[b] \in Block /\ height[b] - 1 \in Id
  BY HasPrevious
<1>4. height[b] = current_id + 1 /\ (height[b] > 1 => files[height[b] - 1] = prev_hash[b])
  BY <1>1, <1>2, Marks DEF Adding, Fitting
<1>5. \A i \in Id : files'[i] = IF i = height[b] THEN partial ELSE files[i]
  BY <1>1, <1>2, <1>3 DEF TypeOK, Files
<1>6. TypeOK'
  BY ZenonT(60), <1>1, <1>2 DEF TypeOK, Files
<1>7. Chained'
  <2> SUFFICES ASSUME NEW i \in Id, files'[i] \in Block
               PROVE  height[files'[i]] = i /\ (i > 1 => files'[i - 1] = prev_hash[files'[i]])
    BY DEF Chained
  <2>1. i # height[b] /\ files'[i] = files[i]
    BY <1>5, Marks
  <2>2. height[files[i]] = i /\ (i > 1 => files[i - 1] = prev_hash[files[i]])
    BY <1>1, <2>1 DEF Chained
  <2>3. i > 1 => i - 1 # height[b]
    <3> SUFFICES ASSUME i > 1, i - 1 = height[b] PROVE FALSE
      OBVIOUS
    <3>1. files[i - 1] \in Block
      BY <1>1, <2>1, Marks DEF NoGap
    <3> QED
      BY <1>2, <3>1, Marks
  <2>4. i > 1 => i - 1 \in Id
    BY BoundAssumption DEF Id
  <2> QED
    BY <1>5, <2>1, <2>2, <2>3, <2>4
<1>8. NoGap'
  <2> SUFFICES ASSUME NEW i \in Id, i > 1, files'[i] # absent
               PROVE  files'[i - 1] \in Block
    BY DEF NoGap
  <2>1. i - 1 \in Id /\ i \in Nat
    BY BoundAssumption DEF Id
  <2>2. CASE i = height[b]
    BY <1>3, <1>4, <1>5, <2>1, <2>2
  <2>3. CASE i # height[b]
    <3>1. files[i - 1] \in Block
      BY <1>1, <1>5, <2>3 DEF NoGap
    <3>2. i - 1 # height[b]
      BY <1>2, <3>1, Marks
    <3> QED
      BY <1>5, <2>1, <3>1, <3>2
  <2> QED
    BY <2>2, <2>3
<1>9. NothingAbove'
  <2> SUFFICES ASSUME NEW i \in Id, i > current_id
               PROVE  files'[i] = absent \/ (pfile' # nullptr /\ i = height[pfile'])
    BY <1>2 DEF NothingAbove
  <2> QED
    BY <1>1, <1>2, <1>5, Marks DEF NothingAbove
<1>10. Adding'
  <2>1. \A c \in block_store : c = b
    BY <1>1, <1>2 DEF Adding
  <2>2. Fitting(b)'
    BY <1>2, <1>3, <1>4, <1>5 DEF Fitting
  <2> QED
    BY SMTT(40), <1>2, <1>3, <1>4, <1>5, <2>1, <2>2 DEF Adding
<1>11. Started' /\ GenesisInv'
  BY <1>1, <1>2 DEF Started, GenesisInv, GenesisFirst
<1>12. OnDisk'
  <2> SUFFICES ASSUME faults = 0, NEW i \in DOMAIN transaction \ DOMAIN wsv
               PROVE  \/ transaction[i] \in block_store
                      \/ files'[height[transaction[i]]] = transaction[i]
    BY <1>2 DEF OnDisk
  <2>1. transaction[i] \in Block
    BY <1>1 DEF TypeOK
  <2>2. height[transaction[i]] \in Id
    BY <2>1, HasPrevious
  <2>3. \/ transaction[i] \in block_store
        \/ files[height[transaction[i]]] = transaction[i]
    BY <1>1, <1>2 DEF OnDisk
  <2> QED
    BY SMTT(40), <1>2, <1>5, <2>1, <2>2, <2>3, Marks
<1>13. Agreeing'
  <2>1. Stored' = Stored
    <3>1. \A i \in 1 .. current_id : files'[i] = files[i]
      BY SMTT(40), <1>1, <1>4, <1>5, BoundAssumption DEF TypeOK, Id
    <3> QED
      BY <1>2, <3>1 DEF Stored, get
  <2> QED
    BY <1>1, <1>2, <2>1 DEF Agreeing
<1> QED
  BY <1>6, <1>7, <1>8, <1>9, <1>10, <1>11, <1>12, <1>13 DEF StorageInv

\* FlatFile::add of a new block, once its file is open
LEMMA WriteInv == StorageInv /\ Write => StorageInv'
<1> SUFFICES ASSUME StorageInv, Write PROVE StorageInv'
  OBVIOUS
<1> DEFINE b == pfile
           h == height[pfile]
<1>1. /\ TypeOK /\ Chained /\ NoGap /\ NothingAbove /\ Adding
      /\ GenesisInv /\ OnDisk /\ Agreeing
  BY DEF StorageInv
<1>2. /\ b # nullptr /\ pfile' = nullptr /\ block_store' = block_store \ {b}
      /\ files' = [files EXCEPT ![h] = b] /\ current_id' = h
      /\ UNCHANGED <<wsv, transaction, pc, crashes, faults>>
  BY DEF Write
<1>3. /\ pc = "commit" /\ b \in Block /\ b \in block_store /\ Fitting(b)
      /\ h = current_id + 1 /\ files[h] = partial
      /\ \A c \in block_store : c = b
  BY <1>1, <1>2 DEF Adding, TypeOK
<1>4. h \in Id /\ h \in Nat /\ current_id \in Nat
  BY <1>1, <1>3, HasPrevious DEF TypeOK
<1>5. \A i \in Id : files'[i] = IF i = h THEN b ELSE files[i]
  BY <1>1, <1>2, <1>4 DEF TypeOK, Files
<1>6. TypeOK'
  BY <1>1, <1>2, <1>3, <1>4, BoundAssumption DEF TypeOK, Files, Id
<1>7. Chained'
  <2> SUFFICES ASSUME NEW i \in Id, files'[i] \in Block
               PROVE  height[files'[i]] = i /\ (i > 1 => files'[i - 1] = prev_hash[files'[i]])
    BY DEF Chained
  <2>1. i > 1 => i - 1 \in Id /\ i - 1 # i
    BY BoundAssumption DEF Id
  <2>2. CASE i = h
    <3>1. h > 1 => files[h - 1] = prev_hash[b]
      BY <1>3 DEF Fitting
    <3> QED
      BY <1>5, <2>1, <2>2, <3>1
  <2>3. CASE i # h
    <3>1. files'[i] = files[i] /\ files[i] \in Block
      BY <1>5, <2>3
    <3>2. height[files[i]] = i /\ (i > 1 => files[i - 1] = prev_hash[files[i]])
      BY <1>1, <3>1 DEF Chained
    <3>3. i > 1 => files[i - 1] \in Block
      BY <1>1, <3>1, Marks DEF NoGap
    <3>4. i > 1 => i - 1 # h
      BY <1>3, <3>3, Marks
    <3> HIDE DEF h, b
    <3> QED
      BY <1>5, <2>1, <3>1, <3>2, <3>4
  <2> QED
    BY <2>2, <2>3
<1>8. NoGap'
  <2> SUFFICES ASSUME NEW i \in Id, i > 1, files'[i] # absent
               PROVE  files'[i - 1] \in Block
    BY DEF NoGap
  <2>1. i - 1 \in Id
    BY BoundAssumption DEF Id
  <2>2. files[i] # absent
    BY <1>3, <1>5, BlockAssumption
  <2>3. files[i - 1] \in Block
    BY <1>1, <2>2 DEF NoGap
  <2> QED
    BY <1>3, <1>5, <2>1, <2>3
<1>9. NothingAbove'
  <2> SUFFICES ASSUME NEW i \in Id, i > h PROVE files'[i] = absent
    BY <1>2 DEF NothingAbove
  <2>1. i > current_id /\ i # h
    BY <1>3, <1>4 DEF Id
  <2>2. files[i] = absent
    BY <1>1, <1>3, <2>1 DEF NothingAbove
  <2> QED
    BY <1>5, <2>1, <2>2
<1>10. Adding'
  <2>1. block_store' = {}
    BY <1>2, <1>3
  <2> QED
    BY <1>2, <2>1 DEF Adding
<1>11. Started' /\ GenesisInv'
  BY <1>1, <1>2, <1>3 DEF Started, GenesisInv, GenesisFirst
<1>12. OnDisk'
  <2> SUFFICES ASSUME faults = 0, NEW i \in DOMAIN transaction \ DOMAIN wsv
               PROVE  files'[height[transaction[i]]] = transaction[i]
    BY <1>2 DEF OnDisk
  <2>1. transaction[i] \in Block
    BY <1>1 DEF TypeOK
  <2>2. height[transaction[i]] \in Id
    BY <2>1, HasPrevious
  <2>3. \/ transaction[i] = b
        \/ files[height[transaction[i]]] = transaction[i]
    BY <1>1, <1>3 DEF OnDisk
  <2>4. CASE transaction[i] = b
    BY <1>4, <1>5, <2>4
  <2>5. CASE transaction[i] # b
    <3>1. height[transaction[i]] # h
      BY <1>3, <2>1, <2>3, <2>5, Marks
    <3> QED
      BY <1>5, <2>2, <2>3, <2>5, <3>1
  <2> QED
    BY <2>4, <2>5
<1>13. Agreeing'
  <2>1. Stored' = Append(Stored, b)
    <3>1. \A i \in 1 .. current_id : files'[i] = files[i]
      BY <1>3, <1>4, <1>5, BoundAssumption DEF Id
    <3>2. files'[h] = b
      BY <1>4, <1>5
    <3>3. Stored' = [i \in 1 .. h |-> files'[i]] /\ Stored = [i \in 1 .. current_id |-> files[i]]
      BY <1>2 DEF Stored, get
    <3>4. Len(Stored) = current_id
      BY <1>4, <3>3
    <3>5. Append(Stored, b) =
             [i \in 1 .. current_id + 1 |-> IF i = current_id + 1 THEN b ELSE Stored[i]]
      BY <3>4, <3>3, <1>4
    <3> HIDE DEF h, b
    <3>6. \A i \in 1 .. h : files'[i] = IF i = current_id + 1 THEN b ELSE Stored[i]
      BY <1>3, <1>4, <3>1, <3>2, <3>3
    <3> QED
      BY ZenonT(60), <1>3, <3>3, <3>5, <3>6
  <2>2. crashes = 0 /\ faults = 0 => transaction = Append(Stored, b)
    BY <1>1, <1>3 DEF Agreeing
  <2>3. block_store' = {}
    BY <1>2, <1>3
  <2> HIDE DEF h, b
  <2> QED
    BY <1>2, <1>3, <2>1, <2>2, <2>3 DEF Agreeing
<1> QED
  BY <1>6, <1>7, <1>8, <1>9, <1>10, <1>11, <1>12, <1>13 DEF StorageInv

\* Only the end of a commit changes the WSV.
LEMMA OnlyCommitSetsWsv == Next => Commit \/ wsv' = wsv
<1> SUFFICES ASSUME Next, ~Commit PROVE wsv' = wsv
  OBVIOUS
<1>1. CASE Create
  BY <1>1 DEF Create
<1>2. CASE applyToLedger
  BY <1>2 DEF applyToLedger
<1>3. CASE ConnectFails
  BY <1>3 DEF ConnectFails
<1>4. ASSUME NEW chain \in Chains, process_commit(chain) PROVE wsv' = wsv
  BY <1>4 DEF process_commit
<1>5. ASSUME NEW b \in Block, AddExisting(b) \/ Open(b) \/ OpenFails(b) PROVE wsv' = wsv
  BY <1>5 DEF AddExisting, Open, OpenFails
<1>6. CASE Write
  BY <1>6 DEF Write
<1>7. CASE Crash
  BY <1>7 DEF Crash
<1> QED
  BY <1>1, <1>2, <1>3, <1>4, <1>5, <1>6, <1>7 DEF Next

\* Only the check at the start and FlatFile::add of a new block change the files.
LEMMA OnlyAddSetsFiles ==
    Next => Create \/ (\E b \in Block : Open(b)) \/ Write \/ files' = files
<1> SUFFICES ASSUME Next, ~Create, ~ \E b \in Block : Open(b), ~Write PROVE files' = files
  OBVIOUS
<1>1. CASE applyToLedger
  BY <1>1 DEF applyToLedger
<1>2. CASE ConnectFails
  BY <1>2 DEF ConnectFails
<1>3. ASSUME NEW chain \in Chains, process_commit(chain) PROVE files' = files
  BY <1>3 DEF process_commit
<1>4. ASSUME NEW b \in Block, AddExisting(b) \/ OpenFails(b) PROVE files' = files
  BY <1>4 DEF AddExisting, OpenFails
<1>5. CASE Commit
  BY <1>5 DEF Commit
<1>6. CASE Crash
  BY <1>6 DEF Crash
<1> QED
  BY <1>1, <1>2, <1>3, <1>4, <1>5, <1>6 DEF Next

LEMMA NextStorageInv == OneBlock => (StorageInv /\ [Next]_vars => StorageInv')
<1> SUFFICES ASSUME OneBlock, StorageInv, [Next]_vars PROVE StorageInv'
  OBVIOUS
<1>1. CASE Create
  BY <1>1, CreateInv
<1>2. CASE applyToLedger
  BY <1>2, ApplyToLedgerInv
<1>3. CASE ConnectFails
  BY <1>3, ConnectFailsInv
<1>4. ASSUME NEW chain \in Chains, process_commit(chain) PROVE StorageInv'
  BY <1>4, ProcessCommitInv
<1>5. ASSUME NEW b \in Block, AddExisting(b) \/ Open(b) \/ OpenFails(b) PROVE StorageInv'
  BY <1>5, AddExistingInv, OpenInv, OpenFailsInv
<1>6. CASE Write
  BY <1>6, WriteInv
<1>7. CASE Commit
  BY <1>7, CommitInv
<1>8. CASE Crash
  BY <1>8, CrashInv
<1>9. CASE UNCHANGED vars
  <2>0. /\ UNCHANGED <<files, current_id, wsv, transaction, block_store>>
        /\ UNCHANGED <<pfile, pc, crashes, faults>>
    BY <1>9 DEF vars
  <2>1. TypeOK'
    BY <2>0 DEF StorageInv, TypeOK
  <2>2. Chained' /\ NoGap' /\ NothingAbove'
    BY <2>0 DEF StorageInv, Chained, NoGap, NothingAbove
  <2>3. Adding'
    BY <2>0 DEF StorageInv, Adding, Fitting
  <2>4. Started' /\ GenesisInv'
    BY <2>0 DEF StorageInv, Started, GenesisInv, GenesisFirst
  <2>5. OnDisk'
    BY <2>0 DEF StorageInv, OnDisk
  <2>6. Agreeing'
    <3>1. Stored' = Stored
      BY <2>0 DEF Stored, get
    <3> QED
      BY <2>0, <3>1 DEF StorageInv, Agreeing
  <2> QED
    BY <2>1, <2>2, <2>3, <2>4, <2>5, <2>6 DEF StorageInv
<1> QED
  BY <1>1, <1>2, <1>3, <1>4, <1>5, <1>6, <1>7, <1>8, <1>9 DEF Next
-----------------------------------------------------------------------------
(* The theorems                                                            *)

\* The state stays well typed: no id beyond the bound is written or counted.
THEOREM StorageTypes == OneBlock => (Spec => []TypeOK)
<1> SUFFICES ASSUME OneBlock PROVE Spec => []TypeOK
  OBVIOUS
<1>1. StorageInv /\ [Next]_vars => StorageInv'
  BY NextStorageInv
<1>2. StorageInv => TypeOK
  BY DEF StorageInv
<1> QED
  BY <1>1, <1>2, InitStorageInv, PTL DEF Spec

\* Each complete file of the block store is chained to the one before it, at every
\* point of StorageImpl::commit and after any number of crashes and of failures of
\* fopen (flat_file.cpp, storage_impl.cpp).
THEOREM StorageChained == OneBlock => (Spec => []Chained)
<1> SUFFICES ASSUME OneBlock PROVE Spec => []Chained
  OBVIOUS
<1>1. StorageInv /\ [Next]_vars => StorageInv'
  BY NextStorageInv
<1>2. StorageInv => Chained
  BY DEF StorageInv
<1> QED
  BY <1>1, <1>2, InitStorageInv, PTL DEF Spec

\* The genesis block, which main inserts at every start, has taken effect exactly
\* once and first when the peer runs (raw_block_insertion.cpp).
THEOREM StorageGenesis == OneBlock => (Spec => []GenesisOnce)
<1> SUFFICES ASSUME OneBlock PROVE Spec => []GenesisOnce
  OBVIOUS
<1>1. StorageInv /\ [Next]_vars => StorageInv'
  BY NextStorageInv
<1>2. StorageInv => GenesisOnce
  BY DEF StorageInv, GenesisInv, GenesisFirst, GenesisOnce
<1> QED
  BY <1>1, <1>2, InitStorageInv, PTL DEF Spec

\* Until the first restart or failure the WSV is what the blocks on disk make of it
\* (StorageImpl::commit).
THEOREM StorageAgrees == OneBlock => (Spec => []AgreeUntilRestart)
<1> SUFFICES ASSUME OneBlock PROVE Spec => []AgreeUntilRestart
  OBVIOUS
<1>1. StorageInv /\ [Next]_vars => StorageInv'
  BY NextStorageInv
<1>2. StorageInv => AgreeUntilRestart
  BY DEF StorageInv, Agreeing, AgreeUntilRestart, StoreAndWsvAgree
<1> QED
  BY <1>1, <1>2, InitStorageInv, PTL DEF Spec

\* What a step commits to the WSV is complete on disk, after any number of crashes
\* (StorageImpl::commit adds the blocks before it ends the transaction).
THEOREM StorageOnDisk == OneBlock => (Spec => CommittedIsOnDisk)
<1> SUFFICES ASSUME OneBlock PROVE Spec => CommittedIsOnDisk
  OBVIOUS
<1> DEFINE A == faults = 0 => \A i \in DOMAIN wsv' \ DOMAIN wsv :
                                 files[height[wsv'[i]]] = wsv'[i]
<1>1. StorageInv /\ [Next]_vars => StorageInv'
  BY NextStorageInv
<1>2. StorageInv /\ [Next]_vars => [A]_vars
  <2> SUFFICES ASSUME StorageInv, Next PROVE A
    OBVIOUS
  <2>1. CASE Commit
    <3>1. pc = "commit" /\ wsv' = transaction /\ block_store = {}
      BY <2>1 DEF Commit
    <3>2. OnDisk
      BY DEF StorageInv
    <3> QED
      BY <3>1, <3>2 DEF OnDisk
  <2>2. CASE ~Commit
    <3>1. wsv' = wsv
      BY <2>2, OnlyCommitSetsWsv
    <3> QED
      BY <3>1
  <2> QED
    BY <2>1, <2>2
<1> QED
  BY <1>1, <1>2, InitStorageInv, PTL DEF Spec, CommittedIsOnDisk

\* A complete block is never replaced or truncated, and only check_consistency
\* removes it, at a start, and never the genesis block (flat_file.cpp).
THEOREM StorageNeverRewritten == OneBlock => (Spec => NeverRewritten)
<1> SUFFICES ASSUME OneBlock PROVE Spec => NeverRewritten
  OBVIOUS
<1> DEFINE A == \A i \in Id : files[i] \in Block /\ files'[i] # files[i] =>
                    pc = "down" /\ files'[i] = absent /\ i > 1
<1>1. StorageInv /\ [Next]_vars => StorageInv'
  BY NextStorageInv
<1>2. StorageInv /\ [Next]_vars => [A]_vars
  <2> SUFFICES ASSUME StorageInv, Next, NEW i \in Id, files[i] \in Block, files'[i] # files[i]
               PROVE  pc = "down" /\ files'[i] = absent /\ i > 1
    BY SMTT(40)
  <2>1. TypeOK /\ NoGap /\ Adding
    BY SMTT(40) DEF StorageInv
  <2>2. CASE Create
    <3>1. kept(files) = {n \in {1} : n \in names(files)}
      BY <2>1, OnlyFirstKept DEF TypeOK
    <3>2. files'[i] = IF i \in kept(files) THEN files[i] ELSE absent
      BY <2>2 DEF Create, Checked
    <3>3. i \in names(files) /\ i \notin kept(files)
      BY <3>2, Marks DEF names
    <3> QED
      BY <2>2, <3>1, <3>2, <3>3 DEF Create, Id
  <2>3. ASSUME NEW b \in Block, Open(b) PROVE FALSE
    <3>1. i # height[b]
      BY <2>3, Marks DEF Open
    <3> QED
      BY <2>1, <2>3, <3>1 DEF Open, TypeOK, Files
  <2>4. CASE Write
    <3>1. files[height[pfile]] = partial
      BY <2>1, <2>4 DEF Adding, Write
    <3>2. i # height[pfile]
      BY <3>1, Marks
    <3> QED
      BY <2>1, <2>4, <3>2 DEF Write, TypeOK, Files
  <2> QED
    BY <2>2, <2>3, <2>4, OnlyAddSetsFiles
<1> QED
  BY <1>1, <1>2, InitStorageInv, PTL DEF Spec, NeverRewritten
=============================================================================
