-------------------------------- MODULE Torii --------------------------------
(***************************************************************************)
(* Torii, the door of a peer for its clients: iroha-cli and the clients of *)
(* irohad/torii send transactions and queries; one thread of ServerRunner  *)
(* takes the calls from the completion queue of gRPC, hands them to        *)
(* CommandService and QueryService and answers. Other threads commit       *)
(* blocks meanwhile: "at" is the height of the ledger, whose blocks are the  *)
(* constant History.                                                       *)
(*                                                                         *)
(* gRPC itself is external: it holds a request until a Call object waits   *)
(* for it, and brings an answer to the client unless the client is gone.   *)
(***************************************************************************)
EXTENDS Queries, Commands

CONSTANTS
    History,    \* the blocks of the ledger
    Top,        \* how many of them are committed before Torii starts
    Texts,      \* what clients hand to iroha-cli: [kind, client, text]
    Times,      \* the readings of the clock
    MAX_DELAY,  \* the oldest age of a request
    ToriiLayout,  \* the layout of the process
    MaxCalls    \* bound: calls

ASSUME ToriiAssumption ==
    /\ Top \in DOMAIN History /\ \A i \in DOMAIN History : IsBlock(History[i])
    /\ Times \subseteq 0 .. Word - 1 /\ MAX_DELAY \in 0 .. Word - 1
    /\ ToriiLayout \in Layouts /\ MaxCalls \in Nat

\* The world state view and the block store at each height.
Worlds ==
    LET commands(h) == FlattenSeq([i \in 1 .. Len(History[h].transactions) |->
                                       History[h].transactions[i].commands])
    IN  [h \in DOMAIN History |->
            [wsv |-> FoldLeft(execute, Tables, FlattenSeq([i \in 1 .. h |-> commands(i)])),
             store |-> [i \in 1 .. h |-> jsonToVector(json_serializeBlock(History[i]))]]]

VARIABLES
    calls,        \* the calls, in the order in which they were sent
    slots,        \* services with a Call object that waits for a request
    command_map,  \* handler_map_ of CommandService: the call of a hash
    query_map,    \* handler_map_ of QueryService: the call of a hash
    busy,         \* the query that the thread executes, or nullopt
    propagated,   \* what went to the ordering gate, with the call
    at,           \* the height of the ledger
    loop,         \* the thread of ServerRunner::run
    down,         \* shutdown(): "up", "closing" or "closed"
    waiter        \* the thread in waitForServersReady

toriiVars == <<calls, slots, command_map, query_map, busy, propagated, at, loop,
               down, waiter>>

InitTorii ==
    /\ calls = <<>> /\ slots = {}
    /\ command_map = <<>> /\ query_map = <<>>
    /\ busy = nullopt /\ propagated = <<>>
    /\ at = Top
    /\ loop = "building" /\ down = "up"
    /\ waiter = "testing"

\* The answer that a call starts with, and the ones that a client may get else.
Unset == [unset |-> TRUE]
SUCCESS == [validation |-> "STATELESS_VALIDATION_SUCCESS"]
FAILED == [validation |-> "STATELESS_VALIDATION_FAILED"]
RpcError == [status |-> "not ok"]
-----------------------------------------------------------------------------
(* The clients: CliClient::sendTx and sendQuery over the clients of Torii. *)

\* The protobuf message that a text becomes; nullopt has the wrong format.
TxRequest(text) ==
    LET doc == stringToJson(text)
        tx  == IF doc = nullopt THEN nullopt ELSE json_deserializeTransaction(doc)
    IN  IF tx = nullopt THEN nullopt ELSE pb_serializeTransaction(tx)

QueryRequest(text) == json_deserializeQuery(text)

Requests == [t \in Texts |-> IF t.kind = "tx" THEN TxRequest(t.text) ELSE QueryRequest(t.text)]

NewCall(t) ==
    [kind |-> t.kind, client |-> t.client, request |-> Requests[t], state |-> "sent",
     response |-> Unset, reply |-> nullopt, gone |-> FALSE, from |-> 0, until |-> 0,
     now |-> 0]

\* A text in the wrong format is not sent.
Send(t) ==
    /\ Len(calls) < MaxCalls
    /\ loop # "building"
    /\ Requests[t] # nullopt
    /\ calls' = Append(calls, NewCall(t))
    /\ UNCHANGED <<slots, command_map, query_map, busy, propagated, at, loop, down, waiter>>

\* The client of a call that is handled goes away before it has the answer.
GoAway(i) ==
    /\ calls[i].state \in {"received", "finished"}
    /\ calls[i].reply = nullopt /\ ~ calls[i].gone
    /\ calls' = [calls EXCEPT ![i].gone = TRUE]
    /\ UNCHANGED <<slots, command_map, query_map, busy, propagated, at, loop, down, waiter>>

\* The asynchronous client turns every status that is not ok into FAILED.
Lost(i) == IF calls[i].client = "async" THEN FAILED ELSE RpcError

\* gRPC brings the response that Finish has serialized.
Deliver(i) ==
    /\ calls[i].state \in {"finished", "deleted"}
    /\ calls[i].reply = nullopt /\ ~ calls[i].gone
    /\ calls' = [calls EXCEPT ![i].reply = calls[i].response]
    /\ UNCHANGED <<slots, command_map, query_map, busy, propagated, at, loop, down, waiter>>

\* The connection breaks: the process is gone, or the server shuts down before a
\* Call object has taken the request.
ClientFails(i) ==
    /\ loop = "crashed" \/ (down # "up" /\ calls[i].state = "sent")
    /\ calls[i].reply = nullopt /\ ~ calls[i].gone
    /\ calls' = [calls EXCEPT ![i].reply = Lost(i)]
    /\ UNCHANGED <<slots, command_map, query_map, busy, propagated, at, loop, down, waiter>>
-----------------------------------------------------------------------------
(* gRPC and the rest of the peer                                           *)

\* The request is matched with the Call object that waits.
Receive(i) ==
    /\ calls[i].state = "sent" /\ calls[i].kind \in slots
    /\ down = "up" /\ loop # "crashed"
    /\ calls' = [calls EXCEPT ![i].state = "received"]
    /\ slots' = slots \ {calls[i].kind}
    /\ UNCHANGED <<command_map, query_map, busy, propagated, at, loop, down, waiter>>

\* A block is committed.
CommitWorld ==
    /\ at < Len(Worlds)
    /\ calls # <<>>
    /\ at' = at + 1
    /\ UNCHANGED <<calls, slots, command_map, query_map, busy, propagated, loop, down, waiter>>
-----------------------------------------------------------------------------
(* The thread of ServerRunner                                              *)

\* serverInstance_ is set, without the mutex.
BuildAndStart ==
    /\ loop = "building"
    /\ loop' = "started"
    /\ UNCHANGED <<calls, slots, command_map, query_map, busy, propagated, at, down, waiter>>

\* Variant: nobody is woken.
NotifyOne_never ==
    /\ loop = "started"
    /\ loop' = "running"
    /\ slots' = {"tx", "query"}
    /\ UNCHANGED <<calls, command_map, query_map, busy, propagated, at, down, waiter>>

\* notify_one wakes a thread that waits at this moment. A thread between its test
\* and its wait ("tested") misses it for good. Then handleRpcs makes the first
\* Call object of each service.
NotifyOne ==
    /\ loop = "started"
    /\ loop' = "running"
    /\ slots' = {"tx", "query"}
    /\ waiter' = CASE waiter = "waiting" -> "testing"
                   [] waiter = "tested"  -> "missed"
                   [] OTHER              -> waiter
    /\ UNCHANGED <<calls, command_map, query_map, busy, propagated, at, down>>

\* waitForServersReady, which holds the mutex from the test to the wait.
TestInstance ==
    /\ waiter = "testing"
    /\ waiter' = IF loop = "building" THEN "tested" ELSE "ready"
    /\ UNCHANGED <<calls, slots, command_map, query_map, busy, propagated, at, loop, down>>

WaitForNotify ==
    /\ waiter = "tested"
    /\ waiter' = "waiting"
    /\ UNCHANGED <<calls, slots, command_map, query_map, busy, propagated, at, loop, down>>
-----------------------------------------------------------------------------
(* StatelessValidatorImpl                                                  *)

\* Signatures are not looked at: irohad gives a mock that accepts to the validator.
crypto_verify(x) == TRUE

\* The age is a difference of unsigned integers, which wraps around for a
\* request from the future.
validateStateless(x, now) ==
    /\ crypto_verify(x)
    /\ (now + Word - x.created_ts) % Word <= MAX_DELAY
    /\ now >= x.created_ts
-----------------------------------------------------------------------------
(* CommandService: the whole of ToriiHandler is one step.                  *)

\* Variant: no new Call object is made.
enqueueRequest_none(kind) == slots

\* Call::enqueueRequest: the next Call object of the service. isShutdown_ is
\* never set, but after a shutdown gRPC matches no request with it.
enqueueRequest(kind) == slots \cup {kind}

\* OrderingGateImpl::propagate_transaction, behind the peer communication service.
propagate_transaction(i, tx) ==
    propagated' = Append(propagated, [call |-> i, message |-> pb_serializeTransaction(tx)])

\* What the subscriber of CommandService writes into the response.
NotifyTx(passed) == IF passed THEN SUCCESS ELSE FAILED

\* A valid transaction is propagated, and the subscriber told. It answers before
\* transactionHandle returns, so the entry that it finds is the one of this call.
transactionHandle(i, tx, now) ==
    LET passed == validateStateless(tx, now)
    IN  /\ IF passed THEN propagate_transaction(i, tx) ELSE UNCHANGED propagated
        /\ calls' = [calls EXCEPT ![i].response = NotifyTx(passed),
                                  ![i].state = "finished", ![i].now = now]

\* Variant: a transaction is refused after it was propagated.
ToriiAsync_propagatesFirst(i, now) ==
    LET tx == pb_deserializeTransaction(ToriiLayout, calls[i].request)
        valid == validateStateless(tx, now)
        known == tx.tx_hash \in DOMAIN command_map
    IN  /\ IF valid THEN propagate_transaction(i, tx) ELSE UNCHANGED propagated
        /\ command_map' = IF known THEN command_map ELSE Put(command_map, tx.tx_hash, i)
        /\ calls' = [calls EXCEPT
               ![i].response = IF valid /\ ~ known THEN SUCCESS ELSE FAILED,
               ![i].state = "finished", ![i].now = now]

\* A hash that was there before is refused, whatever became of it. Entries stay
\* for ever.
ToriiAsync(i, now) ==
    LET tx == pb_deserializeTransaction(ToriiLayout, calls[i].request)
    IN  \/ /\ tx.tx_hash \in DOMAIN command_map
           /\ calls' = [calls EXCEPT ![i].response = FAILED, ![i].state = "finished",
                                     ![i].now = now]
           /\ UNCHANGED <<command_map, propagated>>
        \/ /\ tx.tx_hash \notin DOMAIN command_map
           /\ command_map' = Put(command_map, tx.tx_hash, i)
           /\ transactionHandle(i, tx, now)

\* ToriiAsync, sendResponse, and a new Call object.
ToriiHandler(i) ==
    /\ loop = "running" /\ busy = nullopt
    /\ calls[i].kind = "tx" /\ calls[i].state = "received"
    /\ \E now \in Times : ToriiAsync(i, now)
    /\ slots' = enqueueRequest("tx")
    /\ UNCHANGED <<query_map, busy, at, loop, down, waiter>>
-----------------------------------------------------------------------------
(* QueryService: QueryFindHandler reads the ledger twice, for the          *)
(* permissions of the creator and for the answer.                          *)

\* FindAsync up to the validation. insert keeps an entry that is there. A query
\* that the factory does not know is a null pointer, which is dereferenced.
FindAsync(i) ==
    /\ loop = "running" /\ busy = nullopt
    /\ calls[i].kind = "query" /\ calls[i].state = "received"
    /\ LET query == pb_deserializeQuery(calls[i].request)
       IN  IF query = nullopt
           THEN /\ loop' = "crashed"
                /\ UNCHANGED <<calls, query_map, busy>>
           ELSE \E now \in Times :
                /\ query_map' = IF query.query_hash \in DOMAIN query_map THEN query_map
                                ELSE Put(query_map, query.query_hash, i)
                /\ busy' = [call |-> i, query |-> query,
                            stateless |-> validateStateless(query, now),
                            valid |-> validateQuery(Worlds[at].wsv, query)]
                /\ calls' = [calls EXCEPT ![i].from = at, ![i].now = now]
                /\ UNCHANGED loop
    /\ UNCHANGED <<slots, command_map, propagated, at, down, waiter>>

\* queryHandle: what is given to the subscriber.
queryHandle(b) ==
    IF ~ b.stateless THEN ErrorResponse("STATELESS_INVALID")
    ELSE executeQuery(b.valid, Worlds[at].wsv, Worlds[at].store, b.query)

\* The subscriber writes the answer into the response of the call that the map
\* has for the hash. That call is this one, or an earlier one: a response that was
\* serialized (no effect), or the memory of a deleted Call, where the write ends in
\* nothing, in this call if it has got the same memory, or in a crash.
NotifyQuery(i, answer) ==
    LET entry == query_map[busy.query.query_hash]
    IN  \/ /\ entry = i \/ calls[entry].state = "deleted"
           /\ calls' = [calls EXCEPT ![i].response = answer, ![i].state = "finished",
                                     ![i].until = at]
           /\ UNCHANGED loop
        \/ /\ entry # i
           /\ calls' = [calls EXCEPT ![i].state = "finished", ![i].until = at]
           /\ UNCHANGED loop
        \/ /\ entry # i /\ calls[entry].state = "deleted"
           /\ loop' = "crashed"
           /\ UNCHANGED calls

\* The rest of QueryFindHandler: execute, the subscriber, sendResponse, and a new
\* Call object.
QueryFindHandler ==
    /\ loop = "running" /\ busy # nullopt
    /\ NotifyQuery(busy.call, pb_serializeResponse(queryHandle(busy)))
    /\ busy' = nullopt
    /\ slots' = enqueueRequest("query")
    /\ UNCHANGED <<command_map, query_map, propagated, at, down, waiter>>
-----------------------------------------------------------------------------
(* The rest of handleRpcs, and shutdown                                    *)

\* The event of Finish: responseSent deletes the Call object. If the client is gone
\* the event may be not ok, which ends the loop.
ResponseSent(i) ==
    /\ loop = "running" /\ busy = nullopt
    /\ calls[i].state = "finished"
    /\ \/ /\ calls[i].reply # nullopt \/ calls[i].gone
          /\ calls' = [calls EXCEPT ![i].state = "deleted"]
          /\ UNCHANGED loop
       \/ /\ calls[i].gone
          /\ loop' = "stopped"
          /\ UNCHANGED calls
    /\ UNCHANGED <<slots, command_map, query_map, busy, propagated, at, down, waiter>>

\* ~Irohad calls ServerRunner::shutdown once it has started.
Shutdown ==
    /\ down = "up" /\ waiter = "ready" /\ loop \in {"running", "stopped"}
    /\ calls # <<>>
    /\ down' = "closing"
    /\ UNCHANGED <<calls, slots, command_map, query_map, busy, propagated, at, loop, waiter>>

\* Server::Shutdown gives every Call object that waits an event that is not ok,
\* behind the requests that are in the queue. handleRpcs ends with the first one.
NotOk ==
    /\ loop = "running" /\ busy = nullopt
    /\ down = "closing"
    /\ \A i \in DOMAIN calls : calls[i].state # "received"
    /\ loop' = "stopped"
    /\ UNCHANGED <<calls, slots, command_map, query_map, busy, propagated, at, down, waiter>>

\* No thread waits in the server any more.
ShutdownReady ==
    /\ down = "closing" /\ loop = "stopped"
    /\ \A i \in DOMAIN calls : calls[i].state # "received"

\* Server::Shutdown waits for the calls that are open, and shutdown() for the flag
\* that handleRpcs sets when it ends.
ShutdownReturns ==
    /\ ShutdownReady
    /\ down' = "closed"
    /\ UNCHANGED <<calls, slots, command_map, query_map, busy, propagated, at, loop, waiter>>

\* The environment: clients, the ledger, and who ends the process.
Environment ==
    \/ \E t \in DOMAIN Requests : Send(t)
    \/ \E i \in DOMAIN calls : GoAway(i)
    \/ CommitWorld
    \/ Shutdown

Grpc == \E i \in DOMAIN calls : Receive(i) \/ Deliver(i) \/ ClientFails(i)

Run ==
    \/ BuildAndStart \/ NotifyOne
    \/ \E i \in DOMAIN calls : ToriiHandler(i) \/ FindAsync(i) \/ ResponseSent(i)
    \/ QueryFindHandler
    \/ NotOk

WaitForServersReady == TestInstance \/ WaitForNotify

NextTorii == Environment \/ Grpc \/ Run \/ WaitForServersReady \/ ShutdownReturns

\* ENABLED Run, Grpc, WaitForServersReady and ShutdownReturns, written out.
RunReady ==
    \/ loop \in {"building", "started"}
    \/ /\ loop = "running"
       /\ \/ busy # nullopt \/ down = "closing"
          \/ \E i \in DOMAIN calls :
                \/ calls[i].state = "received"
                \/ calls[i].state = "finished" /\ (calls[i].reply # nullopt \/ calls[i].gone)

GrpcReady ==
    \E i \in DOMAIN calls :
        \/ /\ calls[i].state = "sent" /\ calls[i].kind \in slots
           /\ down = "up" /\ loop # "crashed"
        \/ /\ calls[i].reply = nullopt /\ ~ calls[i].gone
           /\ \/ calls[i].state \in {"finished", "deleted"}
              \/ loop = "crashed"
              \/ down # "up" /\ calls[i].state = "sent"

WaitReady == waiter \in {"testing", "tested"}

\* Weak fairness of the threads and of gRPC, which brings what was sent. Each of the
\* four has finitely many steps, so that weak fairness is to be disabled again and
\* again. Nobody has to send, to go away or to shut down.
FairTorii ==
    /\ []<>~RunReady
    /\ []<>~GrpcReady
    /\ []<>~WaitReady
    /\ []<>~ShutdownReady
-----------------------------------------------------------------------------
(* Properties                                                              *)

\* A request is fresh: from the last MAX_DELAY, and not from the future.
Fresh(created, now) == created \in now - MAX_DELAY .. now

\* What CommandService tells a client is true (ToriiAsync and the notifier): SUCCESS
\* says that this call has given its transaction to the ordering gate, unchanged,
\* and that it was fresh; FAILED from the server says that it has not. No hash goes
\* to the ordering gate twice.
AnsweredTruly ==
    /\ \A i \in DOMAIN calls :
          LET mine == {p \in DOMAIN propagated : propagated[p].call = i}
          IN  /\ calls[i].response = SUCCESS =>
                    /\ \E p \in mine : propagated[p].message = calls[i].request
                    /\ Fresh(calls[i].request.header.created_time, calls[i].now)
              /\ calls[i].response # SUCCESS => mine = {}
    /\ \A p, q \in DOMAIN propagated :
          p # q => pb_deserializeTransaction(ToriiLayout, propagated[p].message).tx_hash
                     # pb_deserializeTransaction(ToriiLayout, propagated[q].message).tx_hash

\* The creator of the query m could ask for the account in state w: it is the own
\* one, or the row of the creator has the bit to read all.
MayRead(w, m, account_id) ==
    LET creator == m.creator_account_id
    IN  /\ creator \in DOMAIN w.account
        /\ \/ account_id = creator
           \/ \E k \in DOMAIN ReadBits : /\ ReadBits[k] = "read_all_accounts"
                                         /\ w.account[creator].permissions[k]

\* The account that the query of a message is about.
Target(m) == m.query[CHOOSE f \in DOMAIN m.query : TRUE].account_id

\* What account_id has written in the first k blocks, in its order. Answers are
\* protobuf, which loses what AfterPb does.
WrittenBy(account_id, k) ==
    LET txs == FlattenSeq([h \in 1 .. k |->
                   SelectSeq(History[h].transactions,
                             LAMBDA tx : tx.creator_account_id = account_id)])
    IN  [i \in DOMAIN txs |-> [txs[i] EXCEPT !.commands =
                                 [c \in DOMAIN @ |-> AfterPb(@[c])]]]

\* The answer r, as its receiver reads it, has what the query m asks for, all of it
\* and nothing else, from the ledger of height k.
Told(r, m, k) ==
    LET part  == CHOOSE f \in DOMAIN r : TRUE
        asked == m.query[CHOOSE f \in DOMAIN m.query : TRUE]
        w     == Worlds[k].wsv
    IN
    CASE part = "account_response" ->
            pb_deserializeAccountResponse(r[part]).account = getAccount(w, asked.account_id)
      [] part = "account_assets_response" ->
            pb_deserializeAccountAssetResponse(r[part]).acct_asset
                = getAccountAsset(w, asked.account_id, asked.asset_id)
      [] part = "signatories_response" ->
            pb_deserializeSignatoriesResponse(r[part]).keys = getSignatories(w, asked.account_id)
      [] part = "transactions_response" ->
            LET txs == [i \in DOMAIN r[part].transactions |->
                           pb_deserializeTransaction(ToriiLayout, r[part].transactions[i])]
                all == WrittenBy(asked.account_id, k)
            IN  /\ DOMAIN txs = DOMAIN all
                /\ \A i \in DOMAIN txs :
                      /\ equalTransactions(txs[i], all[i])
                      /\ txs[i].creator_account_id = asked.account_id


SomeoneGone == \E j \in DOMAIN calls : calls[j].gone

\* Every call ends: its client has an answer or an error, or is gone; and, unless the
\* process crashed, shutdown returns. The one exception is a client that went away,
\* whose event ends handleRpcs for all others. Calls are finitely many and keep their
\* answers, so that it is enough if all have one again and again.
CallsEnd ==
    []<>(\/ SomeoneGone
         \/ /\ \A i \in DOMAIN calls : calls[i].reply # nullopt
            /\ down = "closing" => loop = "crashed")

\* The thread that waits for the server goes on (ServerRunner::waitForServersReady)
\* once the server runs, unless notify_one came between its test and its wait, which
\* the mutex does not exclude because BuildAndStart and notify_one run without it.
WaiterReady == []<>(loop \in {"building", "started"} \/ waiter \in {"ready", "missed"})
=============================================================================
