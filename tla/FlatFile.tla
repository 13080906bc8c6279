------------------------------ MODULE FlatFile ------------------------------
(***************************************************************************)
(* The block store (irohad/ametsuchi/impl/flat_file): a directory with one *)
(* file per block, named by the height of the block, and the id of the     *)
(* last block in memory.                                                   *)
(***************************************************************************)
EXTENDS Integers, FiniteSets, FiniteSetsExt

CONSTANTS Block,    \* the blocks that may be written
          MaxId,    \* bound on the ids of the files
          absent,   \* there is no file of this id
          partial   \* a file that was opened and not completely written

Id == 1 .. MaxId

Files == [Id -> Block \cup {absent, partial}]

\* The ids of the files that exist, as scandir lists them: the names are
\* padded, so their alphabetical order is the order of the ids.
names(files) == {i \in Id : files[i] # absent}

\* get(id) followed by the parsing of the blob: a file that was not completely
\* written is no block.
get(files, id) == files[id]

\* The value of tmp_id when check_consistency looks at the file n: it starts
\* with 1 and is set to the id of each file that is accepted.
tmp_id(ns, n) ==
    IF \E m \in ns : m < n THEN Max({m \in ns : m < n}) ELSE 1

\* The files that check_consistency leaves: it removes the first one whose
\* name is not the one of tmp_id, and all after it.
kept(files) ==
    {n \in names(files) :
        \A m \in names(files) : m <= n => tmp_id(names(files), m) = m}

\* What check_consistency leaves on disk, and the id that it returns.
Checked(files) == [i \in Id |-> IF i \in kept(files) THEN files[i] ELSE absent]

\* Variant: the number of entries of the directory, "." and ".." included.
check_consistency_status(files) ==
    IF names(files) = {} THEN 0 ELSE Cardinality(names(files)) + 2

check_consistency(files) ==
    IF names(files) = {} THEN 0
    ELSE IF kept(files) = {} THEN 1 ELSE Max(kept(files))
=============================================================================
