----------------------------- MODULE RedisIndex -----------------------------
(***************************************************************************)
(* The class Redis, the index of blocks and transactions, under every      *)
(* sequence of its calls; no part of the node makes them yet. Writes go    *)
(* over one connection, on which the class keeps a MULTI transaction open; *)
(* reads go over another one. The server executes the commands of a        *)
(* connection one by one; inside MULTI it queues them until EXEC, and it   *)
(* refuses EXEC if it could not queue one of them. The process may end at  *)
(* any time, which drops what is queued.                                   *)
(***************************************************************************)
EXTENDS Integers, SequencesExt, Model

CONSTANTS
    Additions,     \* the calls that add something to the index
    MaxIndexCalls, \* bound: calls
    MaxRefused,    \* bound: writes that the server cannot queue
    MaxEnds        \* bound: ends of the process

ASSUME RedisIndexAssumption ==
    /\ Additions \subseteq
         [call : {"add_blockhash_blockid"}, hash : Names, height : Nat]
         \cup [call : {"add_txhash_blockid_txid"}, txhash : Names, height : Nat, txid : Nat]
         \cup [call : {"add_pubkey_txhash"}, pubkey : Keys, txhash : Names]
    /\ MaxIndexCalls \in Nat /\ MaxRefused \in Nat /\ MaxEnds \in Nat

VARIABLES
    db,        \* the keys of the server
    multi,     \* the commands that MULTI has queued, nullopt outside of MULTI
    dirty,     \* one of them could not be queued
    client,    \* the commands of client_ that the server has not executed yet
    calling,   \* the call waits for the reply to EXEC or DISCARD
    res,       \* the reply was ok
    made,      \* the number of calls
    refused,   \* the number of writes that were refused
    ends,      \* the number of ends of the process
    pending,   \* history: the additions since the last EXEC, DISCARD or start
    executed,  \* history: the additions that were executed, in their order
    aborted    \* history: EXEC or DISCARD was refused

indexVars == <<db, multi, dirty, client, calling, res, made, refused, ends, pending, executed,
               aborted>>

\* The value of a key, nullopt for the reply nil.
Reply(key) == IF key \in DOMAIN db THEN db[key] ELSE nullopt

get_blockid_by_blockhash(hash) == Reply(<<"block", hash>>)
get_txid_by_txhash(txhash) == Reply(<<"tx", txhash, "txid">>)
get_blockid_by_txhash(txhash) == Reply(<<"tx", txhash, "blockid">>)

\* The reply is an array even where the key is missing.
get_txhashes_by_pubkey(pubkey) ==
    LET list == Reply(<<"account_pubkey", pubkey>>) IN IF list = nullopt THEN <<>> ELSE list

\* as_string throws on the reply nil.
get_last_blockid == Reply(<<"last_id">>)

put(key, value) == [name |-> "set", key |-> key, value |-> value]

add_blockhash_blockid(hash, height) == <<put(<<"block", hash>>, height), put(<<"last_id">>, height)>>

add_pubkey_txhash(pubkey, txhash) ==
    <<[name |-> "rpush", key |-> <<"account_pubkey", pubkey>>, value |-> txhash]>>

_add_txhash_blockid_txid(txhash, height, txid) ==
    <<put(<<"tx", txhash, "blockid">>, height), put(<<"tx", txhash, "txid">>, txid)>>

add_txhash_blockid_txid(txhash, height, txid) == _add_txhash_blockid_txid(txhash, height, txid)

start_multi == <<[name |-> "multi"]>>

\* The constructor opens the first transaction.
Redis == start_multi

InitIndex ==
    /\ db = <<>> /\ multi = nullopt /\ dirty = FALSE
    /\ client = Redis /\ calling = FALSE /\ res = FALSE
    /\ made = 0 /\ refused = 0 /\ ends = 0
    /\ pending = <<>> /\ executed = <<>> /\ aborted = FALSE
-----------------------------------------------------------------------------
(* The server                                                              *)

\* The keys after a write.
Write(keys, c) ==
    LET old == IF c.key \in DOMAIN keys THEN keys[c.key] ELSE <<>>
        new == IF c.name = "rpush" THEN Append(old, c.value) ELSE c.value
    IN  [k \in DOMAIN keys \cup {c.key} |-> IF k = c.key THEN new ELSE keys[k]]

Served == client # <<>> /\ client' = Tail(client)

\* SET, HSET and RPUSH are queued, outside of MULTI they are executed.
ServeWrite ==
    /\ Served /\ Head(client).name \in {"set", "rpush"}
    /\ multi' = IF multi = nullopt THEN nullopt ELSE Append(multi, Head(client))
    /\ db' = IF multi = nullopt THEN Write(db, Head(client)) ELSE db
    /\ UNCHANGED <<dirty, calling, res, made, refused, ends, pending, executed, aborted>>

\* The server is out of memory.
RefuseWrite ==
    /\ Served /\ Head(client).name \in {"set", "rpush"}
    /\ multi # nullopt /\ refused < MaxRefused
    /\ dirty' = TRUE /\ refused' = refused + 1
    /\ UNCHANGED <<db, multi, calling, res, made, ends, pending, executed, aborted>>

ServeMulti ==
    /\ Served /\ Head(client).name = "multi"
    /\ multi' = <<>> /\ dirty' = FALSE
    /\ UNCHANGED <<db, calling, res, made, refused, ends, pending, executed, aborted>>

\* Either ends the transaction. EXEC is refused if a command is missing in it, and
\* both are outside of MULTI.
ServeEnd(name) ==
    LET ok == multi # nullopt /\ (name = "exec" => ~ dirty)
        done == ok /\ name = "exec"
    IN  /\ Served /\ Head(client).name = name
        /\ multi' = nullopt /\ dirty' = FALSE
        /\ db' = IF done THEN FoldLeft(Write, db, multi) ELSE db
        /\ res' = ok
        /\ executed' = IF done THEN executed \o pending ELSE executed
        /\ pending' = <<>>
        /\ aborted' = (aborted \/ ~ ok)
        /\ UNCHANGED <<calling, made, refused, ends>>
-----------------------------------------------------------------------------
(* The process: every call waits for its replies in sync_commit.           *)

Idle == client = <<>> /\ ~ calling

MayCall == Idle /\ made < MaxIndexCalls /\ made' = made + 1

Add(c) ==
    /\ MayCall
    /\ client' = CASE c.call = "add_blockhash_blockid" -> add_blockhash_blockid(c.hash, c.height)
                   [] c.call = "add_txhash_blockid_txid" ->
                         add_txhash_blockid_txid(c.txhash, c.height, c.txid)
                   [] c.call = "add_pubkey_txhash" -> add_pubkey_txhash(c.pubkey, c.txhash)
    /\ pending' = Append(pending, c)
    /\ UNCHANGED <<db, multi, dirty, calling, res, refused, ends, executed, aborted>>

\* exec_multi and discard_multi up to the reply.
SendEnd(name) ==
    /\ MayCall
    /\ client' = <<[name |-> name]>> /\ calling' = TRUE
    /\ UNCHANGED <<db, multi, dirty, res, refused, ends, pending, executed, aborted>>

exec_multi == SendEnd("exec")
discard_multi == SendEnd("discard")

\* Variant: no transaction is opened for the next block.
Reopen_never ==
    /\ calling /\ client = <<>>
    /\ calling' = FALSE
    /\ UNCHANGED <<db, multi, dirty, client, res, made, refused, ends, pending, executed, aborted>>

\* The end of both: a new transaction is opened if the reply was ok.
Reopen ==
    /\ calling /\ client = <<>>
    /\ calling' = FALSE
    /\ client' = IF res THEN start_multi ELSE <<>>
    /\ UNCHANGED <<db, multi, dirty, res, made, refused, ends, pending, executed, aborted>>

\* The process ends, or its connection breaks, and the class is constructed again.
\* What it sent before is executed before that or never.
Restart ==
    /\ ends < MaxEnds /\ ends' = ends + 1
    /\ multi' = nullopt /\ dirty' = FALSE
    /\ client' = Redis /\ calling' = FALSE
    /\ pending' = <<>>
    /\ UNCHANGED <<db, res, made, refused, executed, aborted>>

NextIndex ==
    \/ ServeWrite \/ RefuseWrite \/ ServeMulti \/ ServeEnd("exec") \/ ServeEnd("discard")
    \/ (\E c \in Additions : Add(c)) \/ exec_multi \/ discard_multi \/ Reopen
    \/ Restart
-----------------------------------------------------------------------------
(* Properties                                                              *)

\* The executed additions of a kind that satisfy P, in their order.
Executed(call, P(_)) == SelectSeq(executed, LAMBDA c : c.call = call /\ P(c))

LastOr(s, field) == IF s = <<>> THEN nullopt ELSE Last(s)[field]

\* Readers see transactions whole: wherever a call is, and wherever the process ends,
\* the get functions over read_client_ give the values of the additions that exec_multi
\* has executed, the latest ones, and both numbers of a transaction from one addition;
\* the hashes of a public key are all there, in their order and once per addition.
\* Nothing shows that is queued, was discarded, or was left by a process that ended.
\* The exception is the time after EXEC or DISCARD was refused: MULTI is not opened
\* again then, and every write shows at once.
IndexIsExecuted ==
    ~ aborted =>
        /\ get_last_blockid = LastOr(Executed("add_blockhash_blockid", LAMBDA c : TRUE), "height")
        /\ \A name \in Names :
              LET block == Executed("add_blockhash_blockid", LAMBDA c : c.hash = name)
                  tx == Executed("add_txhash_blockid_txid", LAMBDA c : c.txhash = name)
              IN  /\ get_blockid_by_blockhash(name) = LastOr(block, "height")
                  /\ get_blockid_by_txhash(name) = LastOr(tx, "height")
                  /\ get_txid_by_txhash(name) = LastOr(tx, "txid")
        /\ \A key \in Keys :
              LET list == Executed("add_pubkey_txhash", LAMBDA c : c.pubkey = key)
              IN  get_txhashes_by_pubkey(key) = [i \in DOMAIN list |-> list[i].txhash]
=============================================================================
