---------------------------- MODULE PeerService ----------------------------
(***************************************************************************)
(* The peer service: every peer pings every other one with the latest      *)
(* state of the ledger it knows of, and takes over a higher one from the   *)
(* requests and the answers of the others. Pings run in the thread of the  *)
(* loop, requests are served in threads of gRPC, and setMyState is called  *)
(* from elsewhere. Nothing is locked: update_latest compares in one step   *)
(* and copies in a later one, and CopyFrom, which clears the message and   *)
(* sets one field after the other, may be under way from the one to the    *)
(* other. What reads the message or copies into it meanwhile may be torn:  *)
(* it gets, or leaves, the fields of different heartbeats. (The memory of  *)
(* a string may break as well, which ends the process: Crash.)             *)
(***************************************************************************)
EXTENDS Integers

CONSTANTS
    Clusters,  \* the clusters: the heartbeat that each peer is constructed with
    News,      \* the heartbeats that are set later
    Fragile,   \* bound: the peers that may crash, or whose message may be torn
    MaxFaults  \* bound: crashes and torn accesses

\* Peers have their own keys in their heartbeats, and only the ones at the start
\* may be without a root.
ASSUME PeerServiceAssumption ==
    /\ \A my \in Clusters :
          /\ "" \notin DOMAIN my
          /\ \A p \in DOMAIN my : my[p].height \in Nat /\ my[p].pubkey = p
    /\ \A hb \in News : hb.height \in Nat /\ hb.gmroot # ""
    /\ MaxFaults \in Nat

VARIABLES
    mine,         \* the cluster
    latestState,  \* the latest known state, at each peer
    timer,        \* the connections whose timer is active: pairs of a peer and another
    up,           \* "down", "up", or "thrown" by an exception
    phase,        \* how far the ping in the loop of each peer is
    ping,         \* whom it goes to, the request and the answer
    setter,       \* the heartbeat that setMyState copies: a set of none or one
    mixed,        \* the copies that ended while another one was under way
    known,        \* the news that happened
    crashes,      \* the number of crashes
    torn          \* the number of torn accesses

peerServiceVars == <<mine, latestState, timer, up, phase, ping, setter, mixed, known,
                     crashes, torn>>

\* The peers of the cluster, by public key.
Members == DOMAIN mine

\* A default message: no bytes, and height 0.
NoHeartbeat == [gmroot |-> "", height |-> 0, pubkey |-> ""]

NoPing == [to |-> "", request |-> NoHeartbeat, answer |-> NoHeartbeat]

\* The constructor takes over the state of the peer, if it is higher than nothing.
FirstState(p) == IF mine[p].height > 0 THEN mine[p] ELSE NoHeartbeat

MayFail(p) == p \in Fragile /\ crashes + torn < MaxFaults

InitPeerService ==
    /\ mine \in Clusters
    /\ latestState = [p \in Members |-> FirstState(p)]
    /\ timer = {}
    /\ up = [p \in Members |-> "down"]
    /\ phase = [p \in Members |-> "idle"]
    /\ ping = [p \in Members |-> NoPing]
    /\ setter = [p \in Members |-> {}]
    /\ mixed = [p \in Members |-> {}]
    /\ known = {} /\ crashes = 0 /\ torn = 0
-----------------------------------------------------------------------------
(* CopyFrom                                                                *)

\* The copies into the message of q that may be under way: each with its thread.
Copies(q) ==
    {<<"setter", hb>> : hb \in setter[q]}
    \cup {<<p, ping[p].answer>> : p \in {x \in {q} : phase[x] = "adopting"}}
    \cup {<<p, ping[p].request>> : p \in {x \in Members \ {q} : phase[x] = "copying" /\ ping[x].to = q}}

\* The fields of several heartbeats; the bytes of a root may be mixed too.
Mixtures(hbs) ==
    [gmroot : {hb.gmroot : hb \in hbs} \cup {"torn"},
     height : {hb.height : hb \in hbs}, pubkey : {hb.pubkey : hb \in hbs}]

\* What a thread may see of the message of q.
Seen(q) ==
    IF Copies(q) = {} \/ ~MayFail(q) THEN {latestState[q]}
    ELSE {latestState[q]} \cup
         Mixtures({latestState[q], NoHeartbeat} \cup {c[2] : c \in Copies(q)})

HeightSeen(q) == {hb.height : hb \in Seen(q)}

\* What the copy c may leave in the message of q.
Left(q, c) ==
    LET others == {d[2] : d \in Copies(q) \ {c}} IN
    IF others \cup mixed[q] = {} \/ ~MayFail(q) THEN {c[2]}
    ELSE {c[2]} \cup Mixtures({c[2], NoHeartbeat} \cup others \cup mixed[q])

\* An access with another outcome than it had alone is torn.
Torn(outcome, alone) == torn' = IF outcome = alone THEN torn ELSE torn + 1

Copy(q, c) ==
    /\ \E left \in Left(q, c) :
          /\ latestState' = [latestState EXCEPT ![q] = left]
          /\ Torn(left, c[2])
    /\ mixed' = [mixed EXCEPT ![q] = IF Copies(q) = {c} THEN {} ELSE @ \cup {c[2]}]
-----------------------------------------------------------------------------
(* The process                                                             *)

\* The timers that are active after one of them was started, or started again.
start_timer(p, q) == timer \cup {<<p, q>>}

\* The flag that it sets besides, only getOnlineNodes reads.
make_online(p, q) == timer' = start_timer(p, q)

\* The server is registered, and start sets a timer for every other peer.
start(p) ==
    /\ up[p] = "down"
    /\ IF latestState[p].gmroot = ""
       THEN /\ up' = [up EXCEPT ![p] = "thrown"] /\ UNCHANGED timer
       ELSE /\ up' = [up EXCEPT ![p] = "up"]
            /\ timer' = timer \cup {<<p, q>> : q \in Members \ {p}}
    /\ UNCHANGED <<mine, latestState, phase, ping, setter, mixed, known, crashes, torn>>

\* All that the process of p had is gone, and so are the calls it was serving.
Ends(p) ==
    /\ latestState' = [latestState EXCEPT ![p] = FirstState(p)]
    /\ timer' = {c \in timer : c[1] # p}
    /\ phase' = [r \in Members |->
                    IF r = p THEN "idle"
                    ELSE IF ping[r].to = p /\ phase[r] \in {"updating", "copying", "answering"}
                    THEN "failed" ELSE phase[r]]
    /\ ping' = [ping EXCEPT ![p] = NoPing]
    /\ setter' = [setter EXCEPT ![p] = {}]
    /\ mixed' = [mixed EXCEPT ![p] = {}]

\* It is constructed anew with the state it had at first.
Crash(p) ==
    /\ up[p] = "up" /\ MayFail(p)
    /\ crashes' = crashes + 1
    /\ up' = [up EXCEPT ![p] = "down"]
    /\ Ends(p)
    /\ UNCHANGED <<mine, known, torn>>
-----------------------------------------------------------------------------
(* setMyState                                                              *)

setMyState(p, hb) ==
    /\ up[p] = "up" /\ hb \notin known /\ hb.pubkey = p
    /\ setter[p] = {}
    /\ known' = known \cup {hb}
    /\ \E height \in HeightSeen(p) :
          /\ setter' = [setter EXCEPT ![p] = IF hb.height > height THEN {hb} ELSE {}]
          /\ Torn(height, latestState[p].height)
    /\ UNCHANGED <<mine, latestState, timer, up, phase, ping, mixed, crashes>>

setMyState_copies(p) ==
    /\ up[p] = "up"
    /\ \E hb \in setter[p] : Copy(p, <<"setter", hb>>)
    /\ setter' = [setter EXCEPT ![p] = {}]
    /\ UNCHANGED <<mine, timer, up, phase, ping, known, crashes>>
-----------------------------------------------------------------------------
(* ConnectionTo                                                            *)

\* The timer of a connection does not repeat. The message is read as it is sent.
timeout(p, q) ==
    /\ up[p] = "up" /\ phase[p] = "idle"
    /\ <<p, q>> \in timer
    /\ timer' = timer \ {<<p, q>>}
    /\ phase' = [phase EXCEPT ![p] = "sent"]
    /\ \E seen \in Seen(p) :
          /\ ping' = [ping EXCEPT ![p] = [to |-> q, request |-> seen, answer |-> NoHeartbeat]]
          /\ Torn(seen, latestState[p])
    /\ UNCHANGED <<mine, latestState, up, setter, mixed, known, crashes>>

\* The status is ok: the timer starts again before the answer is published.
ping_ok(p) ==
    /\ up[p] = "up" /\ phase[p] = "answered"
    /\ make_online(p, ping[p].to)
    /\ \E height \in HeightSeen(p) :
          /\ IF ping[p].answer.height > height
             THEN phase' = [phase EXCEPT ![p] = "adopting"] /\ UNCHANGED ping
             ELSE /\ phase' = [phase EXCEPT ![p] = "idle"]
                  /\ ping' = [ping EXCEPT ![p] = NoPing]
          /\ Torn(height, latestState[p].height)
    /\ UNCHANGED <<mine, latestState, up, setter, mixed, known, crashes>>

ping_adopts(p) ==
    /\ up[p] = "up" /\ phase[p] = "adopting"
    /\ Copy(p, <<p, ping[p].answer>>)
    /\ phase' = [phase EXCEPT ![p] = "idle"]
    /\ ping' = [ping EXCEPT ![p] = NoPing]
    /\ UNCHANGED <<mine, timer, up, setter, known, crashes>>

\* CANCELLED: the exception leaves the handler of the timer, and ends the process.
ping_throws(p) ==
    /\ up[p] = "up" /\ phase[p] = "cancelled"
    /\ up' = [up EXCEPT ![p] = "thrown"]
    /\ Ends(p)
    /\ UNCHANGED <<mine, known, crashes, torn>>

\* Variant: a connection that is offline gets no timer.
make_offline_forgets(p) ==
    /\ up[p] = "up" /\ phase[p] \in {"sent", "answered", "cancelled", "failed"}
    /\ phase' = [phase EXCEPT ![p] = "idle"]
    /\ ping' = [ping EXCEPT ![p] = NoPing]
    /\ UNCHANGED <<mine, latestState, timer, up, setter, mixed, known, crashes, torn>>

\* The call fails: no server is there, or the request or the answer is lost. The
\* connection is offline, and tried again much later.
make_offline(p) ==
    /\ up[p] = "up" /\ phase[p] \in {"sent", "answered", "cancelled", "failed"}
    /\ timer' = start_timer(p, ping[p].to)
    /\ phase' = [phase EXCEPT ![p] = "idle"]
    /\ ping' = [ping EXCEPT ![p] = NoPing]
    /\ UNCHANGED <<mine, latestState, up, setter, mixed, known, crashes, torn>>
-----------------------------------------------------------------------------
(* RequestHeartbeat, at the peer the ping goes to                          *)

Serves(p, at) == up[p] = "up" /\ phase[p] = at /\ up[ping[p].to] = "up"

\* A request under the key of the peer that serves it is only answered. One with
\* another key than those of the cluster, or without a root, is CANCELLED.
RequestHeartbeat(p) ==
    LET q == ping[p].to
        request == ping[p].request
        Goes(to) == phase' = [phase EXCEPT ![p] = to]
    IN  /\ Serves(p, "sent")
        /\ IF request.pubkey = q THEN Goes("answering") /\ UNCHANGED torn
           ELSE IF request.pubkey \notin Members \/ request.gmroot = ""
           THEN Goes("cancelled") /\ UNCHANGED torn
           ELSE \E height \in HeightSeen(q) :
                  /\ Goes(IF request.height > height THEN "updating" ELSE "answering")
                  /\ Torn(height, latestState[q].height)
        /\ UNCHANGED <<mine, latestState, timer, up, ping, setter, mixed, known, crashes>>

\* update_latest compares once more before it copies.
RequestHeartbeat_updates(p) ==
    LET q == ping[p].to IN
    /\ Serves(p, "updating")
    /\ \E height \in HeightSeen(q) :
          /\ phase' = [phase EXCEPT ![p] =
                         IF ping[p].request.height > height THEN "copying" ELSE "answering"]
          /\ Torn(height, latestState[q].height)
    /\ UNCHANGED <<mine, latestState, timer, up, ping, setter, mixed, known, crashes>>

\* Variant: the height is taken over and the sender's root is not.
RequestHeartbeat_copies_height(p) ==
    /\ Serves(p, "copying")
    /\ latestState' = [latestState EXCEPT ![ping[p].to].height = ping[p].request.height]
    /\ phase' = [phase EXCEPT ![p] = "answering"]
    /\ UNCHANGED <<mine, timer, up, ping, setter, mixed, known, crashes, torn>>

RequestHeartbeat_copies(p) ==
    /\ Serves(p, "copying")
    /\ Copy(ping[p].to, <<p, ping[p].request>>)
    /\ phase' = [phase EXCEPT ![p] = "answering"]
    /\ UNCHANGED <<mine, timer, up, ping, setter, known, crashes>>

\* make_online is for the peer whose key is in the request, which may be
\* another one than the peer that sent it.
RequestHeartbeat_answers(p) ==
    LET q == ping[p].to
        pub == ping[p].request.pubkey
    IN  /\ Serves(p, "answering")
        /\ \E seen \in Seen(q) :
              /\ ping' = [ping EXCEPT ![p] =
                            [to |-> q, request |-> ping[p].request, answer |-> seen]]
              /\ Torn(seen, latestState[q])
        /\ phase' = [phase EXCEPT ![p] = "answered"]
        /\ IF pub = q THEN UNCHANGED timer ELSE make_online(q, pub)
        /\ UNCHANGED <<mine, latestState, up, setter, mixed, known, crashes>>
-----------------------------------------------------------------------------
NextPeerService ==
    \E p \in Members :
        \/ start(p) \/ Crash(p)
        \/ (\E hb \in News : setMyState(p, hb)) \/ setMyState_copies(p)
        \/ \E q \in Members : timeout(p, q)
        \/ ping_ok(p) \/ ping_adopts(p) \/ ping_throws(p) \/ make_offline(p)
        \/ RequestHeartbeat(p) \/ RequestHeartbeat_updates(p)
        \/ RequestHeartbeat_copies(p) \/ RequestHeartbeat_answers(p)

SpecPeerService == InitPeerService /\ [][NextPeerService]_peerServiceVars
-----------------------------------------------------------------------------
(* Properties                                                              *)

\* The heartbeats that peers were constructed with or told by setMyState.
Original == {NoHeartbeat} \cup {mine[q] : q \in Members} \cup known

Heights == {hb.height : hb \in Original}

\* No peer takes the ledger for higher than some peer was told it is, whatever the
\* unlocked threads do: the height in latestState is one of an original heartbeat.
\* And it takes a torn access to spoil more. As long as CopyFrom and what reads or
\* copies beside it have not overlapped, however comparisons, copies and crashes
\* interleave, latestState is an original heartbeat as a whole, and no ping is
\* answered with CANCELLED, on which ping throws and ends its process.
OriginalUnlessTorn ==
    /\ \A p \in Members : latestState[p].height \in Heights
    /\ torn = 0 =>
          \A p \in Members : /\ latestState[p] \in Original
                             /\ up[p] = "thrown" => FirstState(p).gmroot = ""

\* The timers of the connections do not repeat, and threads of the server start
\* them too; no connection is ever left without: a peer that is up has an active
\* timer for every other peer, or is pinging it.
PingsGoOn ==
    \A p, q \in Members :
        up[p] = "up" /\ p # q =>
            <<p, q>> \in timer \/ (phase[p] # "idle" /\ ping[p].to = q)
=============================================================================
