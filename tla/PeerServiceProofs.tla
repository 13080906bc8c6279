------------------------- MODULE PeerServiceProofs -------------------------
(***************************************************************************)
(* What the unlocked threads of the peer service cannot spoil, for every   *)
(* cluster and every number of crashes and torn accesses.                  *)
(***************************************************************************)
EXTENDS PeerService, TLAPS

\* A heartbeat that RequestHeartbeat accepts.
Whole(hb) == hb \in Original /\ hb.gmroot # ""

PeerTypes ==
    /\ mine \in Clusters /\ known \subseteq News /\ torn \in Nat
    /\ \A hb \in known : hb.pubkey \in Members
    /\ DOMAIN latestState = Members /\ DOMAIN up = Members /\ DOMAIN phase = Members
    /\ DOMAIN ping = Members /\ DOMAIN setter = Members /\ DOMAIN mixed = Members
    /\ \A p \in Members : phase[p] # "idle" => up[p] = "up" /\ ping[p].to \in Members

\* Torn or not, no height is made up on the way.
HeightsAt(p) ==
    /\ latestState[p].height \in Heights
    /\ ping[p].request.height \in Heights /\ ping[p].answer.height \in Heights
    /\ \A hb \in setter[p] : hb.height \in Heights
    /\ \A hb \in mixed[p] : hb.height \in Heights

HeightsKept == \A p \in Members : HeightsAt(p)

\* As long as nothing was torn: whatever is on the way is whole, a process that is
\* down has its first state, and no request is refused.
WholeAt(p) ==
    /\ latestState[p] \in Original
    /\ up[p] = "up" => latestState[p].gmroot # ""
    /\ up[p] = "down" => latestState[p] = FirstState(p)
    /\ up[p] = "thrown" => FirstState(p).gmroot = ""
    /\ phase[p] # "idle" => Whole(ping[p].request)
    /\ phase[p] \in {"answered", "adopting"} => Whole(ping[p].answer)
    /\ phase[p] # "cancelled"
    /\ \A hb \in setter[p] : Whole(hb)

AllWhole == \A p \in Members : WholeAt(p)

\* A connection whose answer is adopted was marked online before, which has
\* started its timer; no other ping of the peer can use that timer up, because
\* the loop has one ping at a time.
Adopting ==
    \A p \in Members : phase[p] = "adopting" => <<p, ping[p].to>> \in timer

PeerInv ==
    /\ PeerTypes
    /\ HeightsKept
    /\ torn = 0 => AllWhole
    /\ Adopting
    /\ PingsGoOn

-----------------------------------------------------------------------------
(* Heartbeats                                                              *)

\* As long as nobody is told a new state, the heartbeats are the same.
LEMMA SameHeartbeats ==
    ASSUME mine' = mine, known' = known
    PROVE  Members' = Members /\ Original' = Original /\ Heights' = Heights
<1>1. Members' = Members
  BY DEF Members
<1>2. Original' = Original
  BY <1>1 DEF Original
<1> QED
  BY <1>1, <1>2 DEF Heights

\* A process starts with an original heartbeat.
LEMMA FirstIsOriginal ==
    ASSUME NEW p \in Members
    PROVE  FirstState(p) \in Original /\ FirstState(p).height \in Heights
BY DEF FirstState, Original, Heights

\* The default message is original too, and has no root.
LEMMA NoneIsOriginal ==
    /\ NoHeartbeat \in Original /\ NoHeartbeat.height \in Heights
    /\ NoHeartbeat.gmroot = ""
    /\ NoPing.request = NoHeartbeat /\ NoPing.answer = NoHeartbeat
<1>1. NoHeartbeat \in Original
  BY DEF Original
<1>2. NoHeartbeat.height \in Heights
  BY <1>1 DEF Heights
<1> QED
  BY <1>1, <1>2 DEF NoPing, NoHeartbeat

\* The key in a whole heartbeat is the one of a peer.
LEMMA WholeHasKey ==
    ASSUME PeerTypes, NEW hb, Whole(hb)
    PROVE  hb.pubkey \in Members
<1>1. hb \in {mine[q] : q \in Members} \cup known
  BY NoneIsOriginal DEF Whole, Original
<1>2. \A q \in Members : mine[q].pubkey = q
  BY PeerServiceAssumption DEF PeerTypes, Members
<1> QED
  BY <1>1, <1>2 DEF PeerTypes

\* The height of a mixture is that of a part.
LEMMA MixtureHeight ==
    ASSUME NEW S, NEW hb \in Mixtures(S)
    PROVE  \E x \in S : hb.height = x.height
BY DEF Mixtures

\* A copy that is under way has an original height.
LEMMA CopiesKept ==
    ASSUME HeightsKept, NEW q \in Members, NEW c \in Copies(q)
    PROVE  c[2].height \in Heights
<1>1. CASE c \in {<<"setter", hb>> : hb \in setter[q]}
  BY <1>1 DEF HeightsKept, HeightsAt
<1>2. CASE c \in {<<p, ping[p].answer>> : p \in {x \in {q} : phase[x] = "adopting"}}
  BY <1>2 DEF HeightsKept, HeightsAt
<1>3. CASE c \in {<<p, ping[p].request>> :
                    p \in {x \in Members \ {q} : phase[x] = "copying" /\ ping[x].to = q}}
  BY <1>3 DEF HeightsKept, HeightsAt
<1> QED
  BY <1>1, <1>2, <1>3 DEF Copies

\* Whatever a thread sees has an original height.
LEMMA SeenKept ==
    ASSUME HeightsKept, NEW q \in Members, NEW hb \in Seen(q)
    PROVE  hb.height \in Heights
<1> DEFINE S == {latestState[q], NoHeartbeat} \cup {c[2] : c \in Copies(q)}
<1>1. \A x \in S : x.height \in Heights
  BY CopiesKept, NoneIsOriginal DEF HeightsKept, HeightsAt
<1>2. CASE hb = latestState[q]
  BY <1>2 DEF HeightsKept, HeightsAt
<1>3. CASE hb \in Mixtures(S)
  <2>1. PICK x \in S : hb.height = x.height
    BY <1>3, MixtureHeight
  <2> QED
    BY <1>1, <2>1
<1> QED
  BY <1>2, <1>3 DEF Seen

\* Whatever a copy leaves has an original height.
LEMMA LeftKept ==
    ASSUME HeightsKept, NEW q \in Members, NEW c, c[2].height \in Heights, NEW hb \in Left(q, c)
    PROVE  hb.height \in Heights
<1> DEFINE others == {d[2] : d \in Copies(q) \ {c}}
           S == {c[2], NoHeartbeat} \cup others \cup mixed[q]
<1>1. \A x \in S : x.height \in Heights
  BY CopiesKept, NoneIsOriginal DEF HeightsKept, HeightsAt
<1>2. CASE hb = c[2]
  BY <1>2
<1>3. CASE hb \in Mixtures(S)
  <2>1. PICK x \in S : hb.height = x.height
    BY <1>3, MixtureHeight
  <2> QED
    BY <1>1, <2>1
<1> QED
  BY <1>2, <1>3 DEF Left

\* An access leaves the number of torn ones at 0 only with the outcome it has alone.
LEMMA TornOrAlone ==
    ASSUME torn \in Nat, NEW outcome, NEW alone, Torn(outcome, alone)
    PROVE  torn' \in Nat /\ (torn' = 0 => torn = 0 /\ outcome = alone)
BY DEF Torn

\* What a copy into the message of q does.
LEMMA CopyKeeps ==
    ASSUME PeerTypes, HeightsKept, NEW q \in Members, NEW c, c[2].height \in Heights, Copy(q, c)
    PROVE  /\ torn' \in Nat
           /\ DOMAIN latestState' = Members /\ DOMAIN mixed' = Members
           /\ latestState'[q].height \in Heights
           /\ \A hb \in mixed'[q] : hb.height \in Heights
           /\ \A p \in Members \ {q} : latestState'[p] = latestState[p] /\ mixed'[p] = mixed[p]
           /\ torn' = 0 => torn = 0 /\ latestState'[q] = c[2]
<1>1. PICK left \in Left(q, c) :
         latestState' = [latestState EXCEPT ![q] = left] /\ Torn(left, c[2])
  BY DEF Copy
<1>2. left.height \in Heights
  BY LeftKept
<1>3. torn' \in Nat /\ (torn' = 0 => torn = 0 /\ left = c[2])
  BY <1>1, TornOrAlone DEF PeerTypes
<1>4. mixed' = [mixed EXCEPT ![q] = IF Copies(q) = {c} THEN {} ELSE @ \cup {c[2]}]
  BY DEF Copy
<1>5. \A hb \in mixed'[q] : hb.height \in Heights
  BY <1>4 DEF PeerTypes, HeightsKept, HeightsAt
<1> QED
  BY <1>1, <1>2, <1>3, <1>4, <1>5 DEF PeerTypes

\* Where a step changes nothing of a peer, what holds of the peer goes on.
LEMMA SameAt ==
    ASSUME Original' = Original, Heights' = Heights, mine' = mine, NEW r,
           latestState'[r] = latestState[r], up'[r] = up[r], phase'[r] = phase[r],
           ping'[r] = ping[r], setter'[r] = setter[r], mixed'[r] = mixed[r]
    PROVE  (WholeAt(r) => WholeAt(r)') /\ (HeightsAt(r) => HeightsAt(r)')
<1>1. FirstState(r)' = FirstState(r)
  BY DEF FirstState
<1> QED
  BY <1>1 DEF WholeAt, HeightsAt, Whole

\* What is left to show of a step of peer p that tells no news.
LEMMA OneAt ==
    ASSUME PeerInv, mine' = mine, known' = known, NEW p \in Members,
           \A r \in Members \ {p} :
               /\ latestState'[r] = latestState[r] /\ up'[r] = up[r] /\ phase'[r] = phase[r]
               /\ ping'[r] = ping[r] /\ setter'[r] = setter[r] /\ mixed'[r] = mixed[r],
           torn' = 0 => torn = 0 /\ WholeAt(p)',
           HeightsAt(p)'
    PROVE  HeightsKept' /\ (torn' = 0 => AllWhole')
<1>0. Members' = Members /\ Original' = Original /\ Heights' = Heights
  BY SameHeartbeats
<1>1. ASSUME NEW r \in Members \ {p}
      PROVE  (WholeAt(r) => WholeAt(r)') /\ (HeightsAt(r) => HeightsAt(r)')
  BY <1>0, SameAt
<1> QED
  BY <1>0, <1>1 DEF PeerInv, HeightsKept, AllWhole

-----------------------------------------------------------------------------
(* The invariant                                                           *)

\* The invariant holds at the start.
LEMMA InitPeerInv == InitPeerService => PeerInv
<1> SUFFICES ASSUME InitPeerService PROVE PeerInv
  OBVIOUS
<1>1. PeerTypes
  BY DEF InitPeerService, PeerTypes
<1>2. \A p \in Members : /\ latestState[p] = FirstState(p) /\ ping[p] = NoPing
                         /\ setter[p] = {} /\ mixed[p] = {}
                         /\ up[p] = "down" /\ phase[p] = "idle"
  BY DEF InitPeerService
<1>3. HeightsKept
  BY <1>2, FirstIsOriginal, NoneIsOriginal DEF HeightsKept, HeightsAt
<1>4. AllWhole
  BY <1>2, FirstIsOriginal DEF AllWhole, WholeAt
<1> QED
  BY <1>1, <1>2, <1>3, <1>4 DEF PeerInv, Adopting, PingsGoOn

\* A process that ends takes nothing of the others along.
LEMMA EndsKeeps ==
    ASSUME PeerInv, mine' = mine, known' = known, torn' = torn, NEW p \in Members, Ends(p),
           DOMAIN up' = Members, up'[p] # "up", \A r \in Members \ {p} : up'[r] = up[r],
           torn = 0 /\ up'[p] = "thrown" => FirstState(p).gmroot = ""
    PROVE  PeerInv'
<1>0. Members' = Members /\ Original' = Original /\ Heights' = Heights
  BY SameHeartbeats
<1>1. PeerTypes /\ HeightsKept /\ Adopting /\ PingsGoOn /\ (torn = 0 => AllWhole)
  BY DEF PeerInv
<1>2. /\ latestState'[p] = FirstState(p) /\ phase'[p] = "idle" /\ ping'[p] = NoPing
      /\ setter'[p] = {} /\ mixed'[p] = {}
  BY <1>1 DEF Ends, PeerTypes
<1>3. \A r \in Members \ {p} :
         /\ latestState'[r] = latestState[r] /\ ping'[r] = ping[r]
         /\ setter'[r] = setter[r] /\ mixed'[r] = mixed[r]
         /\ phase'[r] = phase[r] \/ (phase[r] \in {"updating", "copying", "answering"}
                                     /\ phase'[r] = "failed")
  BY <1>1 DEF Ends, PeerTypes
<1>4. \A r \in Members \ {p} : \A q : <<r, q>> \in timer => <<r, q>> \in timer'
  BY DEF Ends
<1>5. PeerTypes'
  <2>1. /\ DOMAIN latestState' = Members /\ DOMAIN phase' = Members /\ DOMAIN ping' = Members
        /\ DOMAIN setter' = Members /\ DOMAIN mixed' = Members
    BY <1>1 DEF Ends, PeerTypes
  <2>2. \A r \in Members : phase'[r] # "idle" => up'[r] = "up" /\ ping'[r].to \in Members
    BY <1>1, <1>2, <1>3 DEF PeerTypes
  <2> QED
    BY <1>0, <1>1, <2>1, <2>2 DEF PeerTypes
<1>6. HeightsKept'
  <2>1. NoPing.request.height \in Heights /\ NoPing.answer.height \in Heights
    BY NoneIsOriginal
  <2>2. ASSUME NEW r \in Members \ {p} PROVE HeightsAt(r)'
    BY <1>0, <1>1, <1>3 DEF HeightsKept, HeightsAt
  <2>3. HeightsAt(p)'
    BY <1>0, <1>2, <2>1, FirstIsOriginal DEF HeightsAt
  <2> QED
    BY <1>0, <2>2, <2>3 DEF HeightsKept, HeightsAt
<1>7. ASSUME torn' = 0 PROVE AllWhole'
  <2>1. \A r \in Members : WholeAt(r)
    BY <1>1, <1>7 DEF AllWhole
  <2>2. \A r \in Members : FirstState(r)' = FirstState(r)
    BY DEF FirstState
  <2>3. ASSUME NEW r \in Members \ {p} PROVE WholeAt(r)'
    <3>1. /\ latestState'[r] = latestState[r] /\ ping'[r] = ping[r] /\ setter'[r] = setter[r]
          /\ up'[r] = up[r] /\ FirstState(r)' = FirstState(r) /\ WholeAt(r)
      BY <1>3, <2>1, <2>2
    <3>2. CASE phase'[r] = phase[r]
      BY <1>0, <3>1, <3>2 DEF WholeAt, Whole
    <3>3. CASE phase[r] \in {"updating", "copying", "answering"} /\ phase'[r] = "failed"
      BY <1>0, <3>1, <3>3 DEF WholeAt, Whole
    <3> QED
      BY <1>3, <3>2, <3>3
  <2>4. WholeAt(p)'
    BY <1>0, <1>2, <1>7, <2>2, FirstIsOriginal DEF WholeAt, Whole
  <2> QED
    BY <1>0, <2>3, <2>4 DEF AllWhole
<1>8. Adopting'
  BY <1>0, <1>1, <1>2, <1>3, <1>4 DEF Adopting
<1>9. PingsGoOn'
  <2> SUFFICES ASSUME NEW r \in Members, NEW q \in Members, up'[r] = "up", r # q
               PROVE  <<r, q>> \in timer' \/ (phase'[r] # "idle" /\ ping'[r].to = q)
    BY <1>0 DEF PingsGoOn
  <2>1. r # p /\ up[r] = "up"
    OBVIOUS
  <2>2. <<r, q>> \in timer \/ (phase[r] # "idle" /\ ping[r].to = q)
    BY <1>1, <2>1 DEF PingsGoOn
  <2> QED
    BY <1>3, <1>4, <2>1, <2>2
<1> QED
  BY <1>5, <1>6, <1>7, <1>8, <1>9 DEF PeerInv

\* A process that starts with a root is whole, and one that throws had none.
LEMMA StartKeeps ==
    ASSUME PeerInv, NEW p \in Members, start(p)
    PROVE  PeerInv'
<1>0. Members' = Members /\ Original' = Original /\ Heights' = Heights
  BY SameHeartbeats DEF start
<1>1. PeerTypes /\ HeightsKept /\ Adopting /\ PingsGoOn /\ (torn = 0 => AllWhole)
  BY DEF PeerInv
<1>2. HeightsAt(p) /\ (torn = 0 => WholeAt(p))
  BY <1>1 DEF HeightsKept, AllWhole
<1>3. /\ \A r \in Members \ {p} :
            /\ latestState'[r] = latestState[r] /\ up'[r] = up[r] /\ phase'[r] = phase[r]
            /\ ping'[r] = ping[r] /\ setter'[r] = setter[r] /\ mixed'[r] = mixed[r]
      /\ latestState'[p] = latestState[p] /\ phase'[p] = phase[p]
      /\ ping'[p] = ping[p] /\ setter'[p] = setter[p] /\ mixed'[p] = mixed[p]
      /\ up[p] = "down" /\ torn' = torn /\ mine' = mine /\ known' = known
      /\ up'[p] = IF latestState[p].gmroot = "" THEN "thrown" ELSE "up"
      /\ DOMAIN up' = Members
  BY <1>1 DEF start, PeerTypes
<1>4. PeerTypes'
  <2>1. \A r \in Members : phase'[r] # "idle" => up'[r] = "up" /\ ping'[r].to \in Members
    BY <1>1, <1>3 DEF PeerTypes
  <2>2. UNCHANGED <<mine, latestState, phase, ping, setter, mixed, known, torn>>
    BY DEF start
  <2> QED
    BY <1>0, <1>1, <1>3, <2>1, <2>2 DEF PeerTypes
<1>5. HeightsAt(p)'
  BY <1>0, <1>2, <1>3 DEF HeightsAt
<1>6. torn' = 0 => torn = 0 /\ WholeAt(p)'
  <2>1. FirstState(p)' = FirstState(p)
    BY <1>3 DEF FirstState
  <2> QED
    BY <1>0, <1>2, <1>3, <2>1 DEF WholeAt, Whole
<1>7. Adopting' /\ PingsGoOn'
  <2>1. timer \subseteq timer'
    BY DEF start
  <2>2. ASSUME NEW q \in Members, up'[p] = "up", p # q PROVE <<p, q>> \in timer'
    BY <1>3, <2>2 DEF start
  <2>3. Adopting'
    BY <1>0, <1>1, <1>3, <2>1 DEF Adopting
  <2>4. ASSUME NEW r \in Members, NEW q \in Members, up'[r] = "up", r # q
        PROVE  <<r, q>> \in timer' \/ (phase'[r] # "idle" /\ ping'[r].to = q)
    <3>1. CASE r = p
      BY <2>2, <2>4, <3>1
    <3>2. CASE r # p
      <4>1. up[r] = "up" /\ phase'[r] = phase[r] /\ ping'[r] = ping[r]
        BY <1>3, <2>4, <3>2
      <4> QED
        BY <1>1, <2>1, <2>4, <4>1 DEF PingsGoOn
    <3> QED
      BY <3>1, <3>2
  <2> QED
    BY <1>0, <2>3, <2>4 DEF PingsGoOn
<1>8. HeightsKept' /\ (torn' = 0 => AllWhole')
  BY <1>3, <1>5, <1>6, OneAt DEF start
<1> QED
  BY <1>4, <1>7, <1>8 DEF PeerInv

\* A request is what the timer handler sees of the message.
LEMMA TimeoutKeeps ==
    ASSUME PeerInv, NEW p \in Members, NEW q \in Members, timeout(p, q)
    PROVE  PeerInv'
<1>0. Members' = Members /\ Original' = Original /\ Heights' = Heights
  BY SameHeartbeats DEF timeout
<1>1. PeerTypes /\ HeightsKept /\ Adopting /\ PingsGoOn /\ (torn = 0 => AllWhole)
  BY DEF PeerInv
<1>2. HeightsAt(p) /\ (torn = 0 => WholeAt(p))
  BY <1>1 DEF HeightsKept, AllWhole
<1>3. \A r \in Members \ {p} :
         /\ latestState'[r] = latestState[r] /\ up'[r] = up[r] /\ phase'[r] = phase[r]
         /\ ping'[r] = ping[r] /\ setter'[r] = setter[r] /\ mixed'[r] = mixed[r]
  BY <1>1 DEF timeout, PeerTypes
<1>9. PICK seen \in Seen(p) :
         /\ ping' = [ping EXCEPT ![p] = [to |-> q, request |-> seen, answer |-> NoHeartbeat]]
         /\ torn' \in Nat /\ (torn' = 0 => torn = 0 /\ seen = latestState[p])
  <2>1. PICK seen \in Seen(p) :
           /\ ping' = [ping EXCEPT ![p] = [to |-> q, request |-> seen, answer |-> NoHeartbeat]]
           /\ Torn(seen, latestState[p])
    BY DEF timeout
  <2>2. torn \in Nat
    BY <1>1 DEF PeerTypes
  <2>3. torn' \in Nat /\ (torn' = 0 => torn = 0 /\ seen = latestState[p])
    BY <2>1, <2>2 DEF Torn
  <2> QED
    BY <2>1, <2>3
<1>4. PeerTypes'
  BY <1>0, <1>1, <1>9 DEF timeout, PeerTypes
<1>5. HeightsAt(p)'
  BY <1>0, <1>1, <1>2, <1>9, SeenKept, NoneIsOriginal DEF timeout, PeerTypes, HeightsAt
<1>6. torn' = 0 => torn = 0 /\ WholeAt(p)'
  <2>1. FirstState(p)' = FirstState(p)
    BY DEF timeout, FirstState
  <2>2. /\ ping'[p].request = seen /\ phase'[p] = "sent" /\ latestState'[p] = latestState[p]
        /\ up'[p] = "up" /\ up[p] = "up" /\ setter'[p] = setter[p]
    BY <1>1, <1>9 DEF timeout, PeerTypes
  <2>3. ASSUME torn' = 0 PROVE torn = 0 /\ WholeAt(p) /\ ping'[p].request = latestState[p]
    BY <1>2, <1>9, <2>2, <2>3
  <2>4. ASSUME torn' = 0 PROVE WholeAt(p)'
    BY <1>0, <2>1, <2>2, <2>3, <2>4 DEF WholeAt, Whole
  <2> QED
    BY <2>3, <2>4
<1>7. Adopting' /\ PingsGoOn'
  BY <1>0, <1>1, <1>9 DEF timeout, PeerTypes, Adopting, PingsGoOn
<1>8. HeightsKept' /\ (torn' = 0 => AllWhole')
  BY <1>3, <1>5, <1>6, OneAt DEF timeout
<1> QED
  BY <1>4, <1>7, <1>8 DEF PeerInv

\* A request that is served goes on; as long as nothing was torn, none is refused.
LEMMA PhaseKeeps ==
    ASSUME PeerInv, NEW p \in Members, NEW to \in {"updating", "copying", "answering", "cancelled"},
           UNCHANGED <<mine, latestState, timer, up, ping, setter, mixed, known>>,
           phase' = [phase EXCEPT ![p] = to], phase[p] \in {"sent", "updating"},
           torn' \in Nat, torn' = 0 => torn = 0 /\ to # "cancelled"
    PROVE  PeerInv'
<1>0. Members' = Members /\ Original' = Original /\ Heights' = Heights
  BY SameHeartbeats
<1>1. PeerTypes /\ HeightsKept /\ Adopting /\ PingsGoOn /\ (torn = 0 => AllWhole)
  BY DEF PeerInv
<1>2. HeightsAt(p) /\ (torn = 0 => WholeAt(p))
  BY <1>1 DEF HeightsKept, AllWhole
<1>3. phase'[p] = to /\ DOMAIN phase' = Members /\ \A r \in Members \ {p} : phase'[r] = phase[r]
  BY <1>1 DEF PeerTypes
<1>4. PeerTypes'
  <2>1. \A r \in Members : phase'[r] # "idle" => up'[r] = "up" /\ ping'[r].to \in Members
    BY <1>1, <1>3 DEF PeerTypes
  <2> QED
    BY <1>0, <1>1, <1>3, <2>1 DEF PeerTypes
<1>5. HeightsAt(p)'
  BY <1>0, <1>2 DEF HeightsAt
<1>6. ASSUME torn' = 0 PROVE torn = 0 /\ WholeAt(p)'
  <2>1. FirstState(p)' = FirstState(p)
    BY DEF FirstState
  <2>2. WholeAt(p)
    BY <1>2, <1>6
  <2> QED
    BY <1>0, <1>3, <1>6, <2>1, <2>2 DEF WholeAt, Whole
<1>7. Adopting' /\ PingsGoOn'
  <2>1. Adopting'
    BY <1>0, <1>1, <1>3 DEF Adopting
  <2>2. \A r \in Members : phase[r] # "idle" => phase'[r] # "idle"
    BY <1>3
  <2> QED
    BY <1>0, <1>1, <2>1, <2>2 DEF PingsGoOn
<1>8. HeightsKept' /\ (torn' = 0 => AllWhole')
  BY <1>3, <1>5, <1>6, OneAt
<1> QED
  BY <1>4, <1>7, <1>8 DEF PeerInv

\* A whole request has the key of a peer and a root, and is not refused.
LEMMA RequestKeeps ==
    ASSUME PeerInv, NEW p \in Members, RequestHeartbeat(p)
    PROVE  PeerInv'
<1> DEFINE request == ping[p].request
           q == ping[p].to
<1>1. torn \in Nat /\ phase[p] = "sent"
  BY DEF RequestHeartbeat, Serves, PeerInv, PeerTypes
<1>2. UNCHANGED <<mine, latestState, timer, up, ping, setter, mixed, known>>
  BY DEF RequestHeartbeat
<1>3. CASE phase' = [phase EXCEPT ![p] = "answering"] /\ torn' = torn
  BY <1>1, <1>2, <1>3, PhaseKeeps
<1>4. CASE /\ request.pubkey \notin Members \/ request.gmroot = ""
           /\ phase' = [phase EXCEPT ![p] = "cancelled"] /\ torn' = torn
  <2>1. ASSUME torn = 0 PROVE FALSE
    <3>1. WholeAt(p)
      BY <2>1 DEF PeerInv, AllWhole
    <3>2. Whole(request)
      BY <1>1, <3>1 DEF WholeAt
    <3>3. request.pubkey \in Members
      BY <3>2, WholeHasKey DEF PeerInv
    <3> QED
      BY <1>4, <3>2, <3>3 DEF Whole
  <2> QED
    BY <1>1, <1>2, <1>4, <2>1, PhaseKeeps
<1>5. ASSUME NEW height \in HeightSeen(q), Torn(height, latestState[q].height),
             phase' = [phase EXCEPT ![p] = IF request.height > height THEN "updating" ELSE "answering"]
      PROVE  PeerInv'
  <2>1. torn' \in Nat /\ (torn' = 0 => torn = 0)
    BY <1>1, <1>5 DEF Torn
  <2>2. PICK to \in {"updating", "answering"} : phase' = [phase EXCEPT ![p] = to]
    BY <1>5
  <2> QED
    BY <1>1, <1>2, <2>1, <2>2, PhaseKeeps
<1> QED
  BY <1>3, <1>4, <1>5 DEF RequestHeartbeat

\* Whatever the second comparison sees, the request goes on.
LEMMA UpdatesKeeps ==
    ASSUME PeerInv, NEW p \in Members, RequestHeartbeat_updates(p)
    PROVE  PeerInv'
<1> DEFINE q == ping[p].to
<1>1. torn \in Nat /\ phase[p] = "updating"
  BY DEF RequestHeartbeat_updates, Serves, PeerInv, PeerTypes
<1>2. UNCHANGED <<mine, latestState, timer, up, ping, setter, mixed, known>>
  BY DEF RequestHeartbeat_updates
<1>3. PICK height \in HeightSeen(q) :
         /\ Torn(height, latestState[q].height)
         /\ phase' = [phase EXCEPT ![p] =
                         IF ping[p].request.height > height THEN "copying" ELSE "answering"]
  BY DEF RequestHeartbeat_updates
<1>4. torn' \in Nat /\ (torn' = 0 => torn = 0)
  BY <1>1, <1>3 DEF Torn
<1>5. PICK to \in {"copying", "answering"} : phase' = [phase EXCEPT ![p] = to]
  BY <1>3
<1> QED
  BY <1>1, <1>2, <1>4, <1>5, PhaseKeeps

\* A ping that ends leaves the timer of its connection active.
LEMMA IdleKeeps ==
    ASSUME PeerInv, NEW p \in Members, phase[p] # "idle",
           UNCHANGED <<mine, known, up, setter>>,
           phase' = [phase EXCEPT ![p] = "idle"], ping' = [ping EXCEPT ![p] = NoPing],
           torn' \in Nat, torn' = 0 => torn = 0 /\ Whole(latestState'[p]),
           DOMAIN latestState' = Members, DOMAIN mixed' = Members,
           latestState'[p].height \in Heights, \A hb \in mixed'[p] : hb.height \in Heights,
           \A r \in Members \ {p} : latestState'[r] = latestState[r] /\ mixed'[r] = mixed[r],
           timer \subseteq timer', <<p, ping[p].to>> \in timer'
    PROVE  PeerInv'
<1>0. Members' = Members /\ Original' = Original /\ Heights' = Heights
  BY SameHeartbeats
<1>1. PeerTypes /\ HeightsKept /\ Adopting /\ PingsGoOn /\ (torn = 0 => AllWhole)
  BY DEF PeerInv
<1>2. HeightsAt(p) /\ (torn = 0 => WholeAt(p))
  BY <1>1 DEF HeightsKept, AllWhole
<1>3. /\ phase'[p] = "idle" /\ ping'[p] = NoPing /\ DOMAIN phase' = Members /\ DOMAIN ping' = Members
      /\ up[p] = "up" /\ \A r \in Members \ {p} : phase'[r] = phase[r] /\ ping'[r] = ping[r]
  BY <1>1 DEF PeerTypes
<1>4. PeerTypes'
  <2>1. \A r \in Members : phase'[r] # "idle" => up'[r] = "up" /\ ping'[r].to \in Members
    BY <1>1, <1>3 DEF PeerTypes
  <2> QED
    BY <1>0, <1>1, <1>3, <2>1 DEF PeerTypes
<1>5. HeightsAt(p)'
  BY <1>0, <1>2, <1>3, NoneIsOriginal DEF HeightsAt
<1>6. ASSUME torn' = 0 PROVE torn = 0 /\ WholeAt(p)'
  <2>1. FirstState(p)' = FirstState(p)
    BY DEF FirstState
  <2>2. WholeAt(p) /\ Whole(latestState'[p]) /\ up'[p] = "up"
    BY <1>2, <1>3, <1>6
  <2> QED
    BY <1>0, <1>3, <1>6, <2>1, <2>2 DEF WholeAt, Whole
<1>7. Adopting' /\ PingsGoOn'
  <2>1. Adopting'
    BY <1>0, <1>1, <1>3 DEF Adopting
  <2>2. ASSUME NEW r \in Members, NEW q \in Members, up'[r] = "up", r # q
        PROVE  <<r, q>> \in timer' \/ (phase'[r] # "idle" /\ ping'[r].to = q)
    <3>1. <<r, q>> \in timer \/ (phase[r] # "idle" /\ ping[r].to = q)
      BY <1>1, <2>2 DEF PingsGoOn
    <3> QED
      BY <1>3, <3>1
  <2> QED
    BY <1>0, <2>1, <2>2 DEF PingsGoOn
<1>8. HeightsKept' /\ (torn' = 0 => AllWhole')
  BY <1>3, <1>5, <1>6, OneAt
<1> QED
  BY <1>4, <1>7, <1>8 DEF PeerInv

\* The message of a peer that is up is whole as long as nothing was torn.
LEMMA UpIsWhole ==
    ASSUME PeerInv, NEW p \in Members, up[p] = "up"
    PROVE  /\ latestState[p].height \in Heights
           /\ \A hb \in mixed[p] : hb.height \in Heights
           /\ torn = 0 => Whole(latestState[p])
BY DEF PeerInv, HeightsKept, HeightsAt, AllWhole, WholeAt, Whole

\* A call that fails starts the timer of its connection again.
LEMMA OfflineKeeps ==
    ASSUME PeerInv, NEW p \in Members, make_offline(p)
    PROVE  PeerInv'
<1>1. torn \in Nat /\ DOMAIN latestState = Members /\ DOMAIN mixed = Members
  BY DEF PeerInv, PeerTypes
<1>2. /\ phase[p] # "idle" /\ up[p] = "up"
      /\ timer \subseteq timer' /\ <<p, ping[p].to>> \in timer'
  BY DEF make_offline, start_timer
<1>3. /\ UNCHANGED <<mine, known, up, setter, latestState, mixed, torn>>
      /\ phase' = [phase EXCEPT ![p] = "idle"] /\ ping' = [ping EXCEPT ![p] = NoPing]
  BY DEF make_offline
<1> QED
  BY <1>1, <1>2, <1>3, UpIsWhole, IdleKeeps

\* An answer that is copied was on its way.
LEMMA AdoptsKeeps ==
    ASSUME PeerInv, NEW p \in Members, ping_adopts(p)
    PROVE  PeerInv'
<1> DEFINE c == <<p, ping[p].answer>>
<1>1. PeerTypes /\ HeightsKept /\ Adopting /\ (torn = 0 => WholeAt(p)) /\ HeightsAt(p)
  BY DEF PeerInv, AllWhole, HeightsKept
<1>2. /\ phase[p] = "adopting" /\ UNCHANGED <<mine, known, up, setter, timer>> /\ Copy(p, c)
      /\ phase' = [phase EXCEPT ![p] = "idle"] /\ ping' = [ping EXCEPT ![p] = NoPing]
  BY DEF ping_adopts
<1>3. c[2].height \in Heights /\ (torn = 0 => Whole(c[2])) /\ <<p, ping[p].to>> \in timer
  BY <1>1, <1>2 DEF HeightsAt, WholeAt, Adopting
<1> HIDE DEF c
<1>4. /\ torn' \in Nat
      /\ DOMAIN latestState' = Members /\ DOMAIN mixed' = Members
      /\ latestState'[p].height \in Heights
      /\ \A hb \in mixed'[p] : hb.height \in Heights
      /\ \A r \in Members \ {p} : latestState'[r] = latestState[r] /\ mixed'[r] = mixed[r]
      /\ torn' = 0 => torn = 0 /\ latestState'[p] = c[2]
  BY <1>1, <1>2, <1>3, CopyKeeps
<1>5. torn' = 0 => torn = 0 /\ Whole(latestState'[p])
  BY <1>3, <1>4
<1> QED
  BY <1>2, <1>3, <1>4, <1>5, IdleKeeps

\* An answer starts the timer of its connection, whether it is newer or not.
LEMMA OkKeeps ==
    ASSUME PeerInv, NEW p \in Members, ping_ok(p)
    PROVE  PeerInv'
<1>0. Members' = Members /\ Original' = Original /\ Heights' = Heights
  BY SameHeartbeats DEF ping_ok
<1>1. PeerTypes /\ HeightsKept /\ Adopting /\ PingsGoOn /\ (torn = 0 => AllWhole)
  BY DEF PeerInv
<1>2. /\ up[p] = "up" /\ phase[p] = "answered"
      /\ UNCHANGED <<mine, latestState, up, setter, mixed, known>>
      /\ timer \subseteq timer' /\ <<p, ping[p].to>> \in timer'
  BY DEF ping_ok, make_online, start_timer
<1>3. PICK height \in HeightSeen(p) :
         /\ Torn(height, latestState[p].height)
         /\ IF ping[p].answer.height > height
            THEN phase' = [phase EXCEPT ![p] = "adopting"] /\ UNCHANGED ping
            ELSE /\ phase' = [phase EXCEPT ![p] = "idle"]
                 /\ ping' = [ping EXCEPT ![p] = NoPing]
  BY DEF ping_ok
<1>4. torn' \in Nat /\ (torn' = 0 => torn = 0)
  BY <1>1, <1>3 DEF Torn, PeerTypes
<1>5. CASE phase' = [phase EXCEPT ![p] = "idle"] /\ ping' = [ping EXCEPT ![p] = NoPing]
  <2>1. DOMAIN latestState' = Members /\ DOMAIN mixed' = Members
    BY <1>1, <1>2 DEF PeerTypes
  <2>2. torn' = 0 => torn = 0 /\ Whole(latestState'[p])
    BY <1>2, <1>4, UpIsWhole
  <2>3. /\ latestState'[p].height \in Heights /\ \A hb \in mixed'[p] : hb.height \in Heights
        /\ \A r \in Members \ {p} : latestState'[r] = latestState[r] /\ mixed'[r] = mixed[r]
    BY <1>2, UpIsWhole
  <2> QED
    BY <1>2, <1>4, <1>5, <2>1, <2>2, <2>3, IdleKeeps
<1>6. CASE phase' = [phase EXCEPT ![p] = "adopting"] /\ UNCHANGED ping
  <2>1. /\ phase'[p] = "adopting" /\ DOMAIN phase' = Members
        /\ \A r \in Members \ {p} : phase'[r] = phase[r]
    BY <1>1, <1>6 DEF PeerTypes
  <2>2. PeerTypes'
    <3>1. \A r \in Members : phase'[r] # "idle" => up'[r] = "up" /\ ping'[r].to \in Members
      BY <1>1, <1>2, <1>6, <2>1 DEF PeerTypes
    <3> QED
      BY <1>0, <1>1, <1>2, <1>4, <1>6, <2>1, <3>1 DEF PeerTypes
  <2>3. HeightsAt(p)'
    BY <1>0, <1>1, <1>2, <1>6 DEF HeightsKept, HeightsAt
  <2>4. ASSUME torn' = 0 PROVE torn = 0 /\ WholeAt(p)'
    <3>1. torn = 0 /\ WholeAt(p)
      BY <1>1, <1>4, <2>4 DEF AllWhole
    <3>2. FirstState(p)' = FirstState(p)
      BY <1>2 DEF FirstState
    <3> QED
      BY <1>0, <1>2, <1>6, <2>1, <3>1, <3>2 DEF WholeAt, Whole
  <2>5. Adopting'
    BY <1>0, <1>1, <1>2, <1>6, <2>1 DEF Adopting
  <2>6. PingsGoOn'
    <3>1. \A r \in Members : phase[r] # "idle" => phase'[r] # "idle"
      BY <2>1
    <3> QED
      BY <1>0, <1>1, <1>2, <1>6, <3>1 DEF PingsGoOn
  <2>7. HeightsKept' /\ (torn' = 0 => AllWhole')
    BY <1>2, <1>6, <2>1, <2>3, <2>4, OneAt
  <2> QED
    BY <2>2, <2>5, <2>6, <2>7 DEF PeerInv
<1> QED
  BY <1>3, <1>5, <1>6

\* A new state becomes an original heartbeat.
LEMMA SetKeeps ==
    ASSUME PeerInv, NEW p \in Members, NEW hb \in News, setMyState(p, hb)
    PROVE  PeerInv'
<1>0. /\ Members' = Members /\ Original \subseteq Original' /\ hb \in Original'
      /\ Heights \subseteq Heights' /\ hb.height \in Heights'
  <2>1. Members' = Members
    BY DEF setMyState, Members
  <2>2. Original' = Original \cup {hb}
    BY <2>1 DEF setMyState, Original
  <2> QED
    BY <2>1, <2>2 DEF Heights
<1>1. PeerTypes /\ HeightsKept /\ Adopting /\ PingsGoOn /\ (torn = 0 => AllWhole)
  BY DEF PeerInv
<1>2. /\ UNCHANGED <<mine, latestState, timer, up, phase, ping, mixed>>
      /\ known' = known \cup {hb} /\ hb.pubkey = p
  BY DEF setMyState
<1>3. PICK height \in HeightSeen(p) :
         /\ setter' = [setter EXCEPT ![p] = IF hb.height > height THEN {hb} ELSE {}]
         /\ Torn(height, latestState[p].height)
  BY DEF setMyState
<1>4. torn' \in Nat /\ (torn' = 0 => torn = 0)
  BY <1>1, <1>3 DEF Torn, PeerTypes
<1>5. /\ DOMAIN setter' = Members /\ \A x \in setter'[p] : x = hb
      /\ \A r \in Members \ {p} : setter'[r] = setter[r]
  BY <1>1, <1>3 DEF PeerTypes
<1>6. PeerTypes'
  BY <1>0, <1>1, <1>2, <1>4, <1>5 DEF PeerTypes
<1>7. HeightsKept'
  <2>1. ASSUME NEW r \in Members PROVE HeightsAt(r)'
    <3>1. HeightsAt(r)
      BY <1>1 DEF HeightsKept
    <3> QED
      BY <1>0, <1>2, <1>5, <3>1 DEF HeightsAt
  <2> QED
    BY <1>0, <2>1 DEF HeightsKept
<1>8. ASSUME torn' = 0 PROVE AllWhole'
  <2>1. hb.gmroot # ""
    BY PeerServiceAssumption
  <2>2. ASSUME NEW r \in Members PROVE WholeAt(r)'
    <3>1. WholeAt(r)
      BY <1>1, <1>4, <1>8 DEF AllWhole
    <3>2. FirstState(r)' = FirstState(r)
      BY <1>2 DEF FirstState
    <3>3. \A x \in setter'[r] : x \in Original' /\ x.gmroot # ""
      BY <1>0, <1>5, <2>1, <3>1 DEF WholeAt, Whole
    <3> QED
      BY <1>0, <1>2, <3>1, <3>2, <3>3 DEF WholeAt, Whole
  <2> QED
    BY <1>0, <2>2 DEF AllWhole
<1>9. Adopting' /\ PingsGoOn'
  BY <1>0, <1>1, <1>2 DEF Adopting, PingsGoOn
<1> QED
  BY <1>6, <1>7, <1>8, <1>9 DEF PeerInv

\* What setMyState copies is an original heartbeat.
LEMMA SetCopiesKeeps ==
    ASSUME PeerInv, NEW p \in Members, setMyState_copies(p)
    PROVE  PeerInv'
<1>0. Members' = Members /\ Original' = Original /\ Heights' = Heights
  BY SameHeartbeats DEF setMyState_copies
<1>1. PeerTypes /\ HeightsKept /\ Adopting /\ PingsGoOn /\ (torn = 0 => AllWhole)
  BY DEF PeerInv
<1>2. /\ up[p] = "up" /\ UNCHANGED <<mine, timer, up, phase, ping, known>>
      /\ setter' = [setter EXCEPT ![p] = {}]
  BY DEF setMyState_copies
<1>3. PICK hb \in setter[p] : Copy(p, <<"setter", hb>>)
  BY DEF setMyState_copies
<1> DEFINE c == <<"setter", hb>>
<1>4. c[2].height \in Heights /\ c[2] = hb /\ (torn = 0 => WholeAt(p) /\ Whole(hb)) /\ Copy(p, c)
  BY <1>1, <1>3 DEF HeightsKept, HeightsAt, AllWhole, WholeAt
<1> HIDE DEF c
<1>5. /\ torn' \in Nat
      /\ DOMAIN latestState' = Members /\ DOMAIN mixed' = Members
      /\ latestState'[p].height \in Heights
      /\ \A x \in mixed'[p] : x.height \in Heights
      /\ \A r \in Members \ {p} : latestState'[r] = latestState[r] /\ mixed'[r] = mixed[r]
      /\ torn' = 0 => torn = 0 /\ latestState'[p] = c[2]
  BY <1>1, <1>4, CopyKeeps
<1>6. DOMAIN setter' = Members /\ setter'[p] = {} /\ \A r \in Members \ {p} : setter'[r] = setter[r]
  BY <1>1, <1>2 DEF PeerTypes
<1>7. PeerTypes'
  BY <1>0, <1>1, <1>2, <1>5, <1>6 DEF PeerTypes
<1>8. HeightsAt(p)'
  BY <1>0, <1>1, <1>2, <1>5, <1>6 DEF HeightsKept, HeightsAt
<1>9. ASSUME torn' = 0 PROVE torn = 0 /\ WholeAt(p)'
  <2>1. torn = 0 /\ WholeAt(p) /\ Whole(hb) /\ latestState'[p] = hb
    BY <1>4, <1>5, <1>9
  <2> QED
    BY <1>0, <1>2, <1>6, <2>1 DEF WholeAt, Whole
<1>10. Adopting' /\ PingsGoOn'
  BY <1>0, <1>1, <1>2 DEF Adopting, PingsGoOn
<1>11. HeightsKept' /\ (torn' = 0 => AllWhole')
  BY <1>2, <1>5, <1>6, <1>8, <1>9, OneAt
<1> QED
  BY <1>7, <1>10, <1>11 DEF PeerInv

\* What RequestHeartbeat copies is the request, at the peer that serves it.
LEMMA CopiesKeeps ==
    ASSUME PeerInv, NEW p \in Members, RequestHeartbeat_copies(p)
    PROVE  PeerInv'
<1> DEFINE q == ping[p].to
           c == <<p, ping[p].request>>
<1>0. Members' = Members /\ Original' = Original /\ Heights' = Heights
  BY SameHeartbeats DEF RequestHeartbeat_copies
<1>1. PeerTypes /\ HeightsKept /\ Adopting /\ PingsGoOn /\ (torn = 0 => AllWhole)
  BY DEF PeerInv
<1>2. /\ up[p] = "up" /\ up[q] = "up" /\ phase[p] = "copying" /\ Copy(q, c)
      /\ UNCHANGED <<mine, timer, up, ping, setter, known>>
      /\ phase' = [phase EXCEPT ![p] = "answering"]
  BY DEF RequestHeartbeat_copies, Serves
<1>3. /\ q \in Members /\ c[2].height \in Heights /\ c[2] = ping[p].request
      /\ torn = 0 => Whole(c[2])
  BY <1>1, <1>2 DEF PeerTypes, HeightsKept, HeightsAt, AllWhole, WholeAt
<1> HIDE DEF c, q
<1>4. /\ torn' \in Nat
      /\ DOMAIN latestState' = Members /\ DOMAIN mixed' = Members
      /\ latestState'[q].height \in Heights
      /\ \A hb \in mixed'[q] : hb.height \in Heights
      /\ \A r \in Members \ {q} : latestState'[r] = latestState[r] /\ mixed'[r] = mixed[r]
      /\ torn' = 0 => torn = 0 /\ latestState'[q] = c[2]
  BY <1>1, <1>2, <1>3, CopyKeeps
<1>5. /\ phase'[p] = "answering" /\ DOMAIN phase' = Members
      /\ \A r \in Members \ {p} : phase'[r] = phase[r]
  BY <1>1, <1>2 DEF PeerTypes
<1>6. PeerTypes'
  <2>1. \A r \in Members : phase'[r] # "idle" => up'[r] = "up" /\ ping'[r].to \in Members
    BY <1>1, <1>2, <1>5 DEF PeerTypes
  <2> QED
    BY <1>0, <1>1, <1>2, <1>4, <1>5, <2>1 DEF PeerTypes
<1>7. HeightsKept'
  <2>1. ASSUME NEW r \in Members PROVE HeightsAt(r)'
    <3>1. HeightsAt(r)
      BY <1>1 DEF HeightsKept
    <3>2. /\ latestState'[r].height \in Heights
          /\ \A hb \in mixed'[r] : hb.height \in Heights
      BY <1>4, <3>1 DEF HeightsAt
    <3> QED
      BY <1>0, <1>2, <3>1, <3>2 DEF HeightsAt
  <2> QED
    BY <1>0, <2>1 DEF HeightsKept
<1>8. ASSUME torn' = 0 PROVE AllWhole'
  <2>1. torn = 0 /\ Whole(c[2]) /\ latestState'[q] = c[2]
    BY <1>3, <1>4, <1>8
  <2>2. ASSUME NEW r \in Members PROVE WholeAt(r)'
    <3>1. WholeAt(r) /\ FirstState(r)' = FirstState(r)
      BY <1>1, <1>2, <2>1 DEF AllWhole, FirstState
    <3>2. /\ latestState'[r] \in Original
          /\ up'[r] = "up" => latestState'[r].gmroot # ""
          /\ up'[r] = "down" => latestState'[r] = FirstState(r)
      <4>1. CASE r = q
        BY <1>2, <2>1, <4>1 DEF Whole
      <4>2. CASE r # q
        BY <1>2, <1>4, <3>1, <4>2 DEF WholeAt
      <4> QED
        BY <4>1, <4>2
    <3>3. /\ phase'[r] # "idle" => phase[r] # "idle"
          /\ phase'[r] \in {"answered", "adopting"} => phase[r] \in {"answered", "adopting"}
          /\ phase'[r] = "cancelled" => phase[r] = "cancelled"
      BY <1>2, <1>5
    <3> QED
      BY <1>0, <1>2, <3>1, <3>2, <3>3 DEF WholeAt, Whole
  <2> QED
    BY <1>0, <2>2 DEF AllWhole
<1>9. Adopting' /\ PingsGoOn'
  <2>1. Adopting'
    BY <1>0, <1>1, <1>2, <1>5 DEF Adopting
  <2>2. \A r \in Members : phase[r] # "idle" => phase'[r] # "idle"
    BY <1>5
  <2> QED
    BY <1>0, <1>1, <1>2, <2>1, <2>2 DEF PingsGoOn
<1> QED
  BY <1>6, <1>7, <1>8, <1>9 DEF PeerInv

\* An answer is what RequestHeartbeat sees of the message.
LEMMA AnswersKeeps ==
    ASSUME PeerInv, NEW p \in Members, RequestHeartbeat_answers(p)
    PROVE  PeerInv'
<1> DEFINE q == ping[p].to
<1>0. Members' = Members /\ Original' = Original /\ Heights' = Heights
  BY SameHeartbeats DEF RequestHeartbeat_answers
<1>1. PeerTypes /\ HeightsKept /\ Adopting /\ PingsGoOn /\ (torn = 0 => AllWhole)
  BY DEF PeerInv
<1>2. /\ up[p] = "up" /\ up[q] = "up" /\ phase[p] = "answering"
      /\ UNCHANGED <<mine, latestState, up, setter, mixed, known>>
      /\ phase' = [phase EXCEPT ![p] = "answered"]
      /\ timer \subseteq timer'
  BY DEF RequestHeartbeat_answers, Serves, make_online, start_timer
<1>3. q \in Members
  BY <1>1, <1>2 DEF PeerTypes
<1>4. PICK seen \in Seen(q) :
         /\ ping' = [ping EXCEPT ![p] = [to |-> q, request |-> ping[p].request, answer |-> seen]]
         /\ Torn(seen, latestState[q])
  BY DEF RequestHeartbeat_answers
<1>5. torn' \in Nat /\ (torn' = 0 => torn = 0 /\ seen = latestState[q])
  BY <1>1, <1>4 DEF Torn, PeerTypes
<1>6. seen.height \in Heights
  BY <1>1, <1>3, SeenKept
<1>7. /\ phase'[p] = "answered" /\ DOMAIN phase' = Members /\ DOMAIN ping' = Members
      /\ ping'[p].to = q /\ ping'[p].request = ping[p].request /\ ping'[p].answer = seen
      /\ \A r \in Members \ {p} : phase'[r] = phase[r] /\ ping'[r] = ping[r]
  BY <1>1, <1>2, <1>4 DEF PeerTypes
<1>8. PeerTypes'
  <2>1. \A r \in Members : phase'[r] # "idle" => up'[r] = "up" /\ ping'[r].to \in Members
    BY <1>1, <1>2, <1>3, <1>7 DEF PeerTypes
  <2> QED
    BY <1>0, <1>1, <1>2, <1>5, <1>7, <2>1 DEF PeerTypes
<1>9. HeightsAt(p)'
  BY <1>0, <1>1, <1>2, <1>6, <1>7 DEF HeightsKept, HeightsAt
<1>10. ASSUME torn' = 0 PROVE torn = 0 /\ WholeAt(p)'
  <2>1. torn = 0 /\ WholeAt(p) /\ Whole(seen) /\ FirstState(p)' = FirstState(p)
    BY <1>1, <1>2, <1>3, <1>5, <1>10, UpIsWhole DEF AllWhole, FirstState
  <2> QED
    BY <1>0, <1>2, <1>7, <2>1 DEF WholeAt, Whole
<1>11. Adopting' /\ PingsGoOn'
  <2>1. Adopting'
    BY <1>0, <1>1, <1>2, <1>7 DEF Adopting
  <2>2. \A r \in Members : /\ phase[r] # "idle" => phase'[r] # "idle"
                           /\ ping'[r].to = ping[r].to
    BY <1>7
  <2> QED
    BY <1>0, <1>1, <1>2, <2>1, <2>2 DEF PingsGoOn
<1>12. HeightsKept' /\ (torn' = 0 => AllWhole')
  BY <1>2, <1>7, <1>9, <1>10, OneAt
<1> QED
  BY <1>8, <1>11, <1>12 DEF PeerInv

\* A crash ends a process, and so does the exception of ping, which only a torn
\* access brings about.
LEMMA CrashKeeps ==
    ASSUME PeerInv, NEW p \in Members, Crash(p) \/ ping_throws(p)
    PROVE  PeerInv'
<1>1. PeerTypes
  BY DEF PeerInv
<1>2. mine' = mine /\ known' = known /\ torn' = torn /\ Ends(p)
  BY DEF Crash, ping_throws
<1>3. DOMAIN up' = Members /\ up'[p] # "up" /\ \A r \in Members \ {p} : up'[r] = up[r]
  BY <1>1 DEF Crash, ping_throws, PeerTypes
<1>4. torn = 0 => phase[p] # "cancelled"
  BY DEF PeerInv, AllWhole, WholeAt
<1>5. torn = 0 => up'[p] = "down"
  BY <1>1, <1>4 DEF Crash, ping_throws, PeerTypes
<1> QED
  BY <1>2, <1>3, <1>5, EndsKeeps

\* Every step of the peer service preserves the invariant.
LEMMA NextPeerInv == PeerInv /\ [NextPeerService]_peerServiceVars => PeerInv'
<1> SUFFICES ASSUME PeerInv, [NextPeerService]_peerServiceVars PROVE PeerInv'
  OBVIOUS
<1>1. CASE NextPeerService
  <2>1. PICK p \in Members :
           \/ start(p) \/ Crash(p)
           \/ (\E hb \in News : setMyState(p, hb)) \/ setMyState_copies(p)
           \/ \E q \in Members : timeout(p, q)
           \/ ping_ok(p) \/ ping_adopts(p) \/ ping_throws(p) \/ make_offline(p)
           \/ RequestHeartbeat(p) \/ RequestHeartbeat_updates(p)
           \/ RequestHeartbeat_copies(p) \/ RequestHeartbeat_answers(p)
    BY <1>1 DEF NextPeerService
  <2> QED
    BY <2>1, StartKeeps, CrashKeeps, SetKeeps, SetCopiesKeeps, TimeoutKeeps, OkKeeps, AdoptsKeeps,
       OfflineKeeps, RequestKeeps, UpdatesKeeps, CopiesKeeps, AnswersKeeps
<1>2. CASE UNCHANGED peerServiceVars
  <2>1. UNCHANGED <<mine, latestState, timer, up, phase, ping, setter, mixed, known, torn>>
    BY <1>2 DEF peerServiceVars
  <2>2. Members' = Members /\ Original' = Original /\ Heights' = Heights
    BY <2>1, SameHeartbeats
  <2>3. ASSUME NEW r \in Members
        PROVE  (WholeAt(r) => WholeAt(r)') /\ (HeightsAt(r) => HeightsAt(r)')
    BY <2>1, <2>2, SameAt
  <2>4. PeerTypes' /\ Adopting' /\ PingsGoOn'
    BY <2>1, <2>2 DEF PeerInv, PeerTypes, Adopting, PingsGoOn
  <2>5. HeightsKept' /\ (torn' = 0 => AllWhole')
    BY <2>1, <2>2, <2>3 DEF PeerInv, HeightsKept, AllWhole
  <2> QED
    BY <2>4, <2>5 DEF PeerInv
<1> QED
  BY <1>1, <1>2

-----------------------------------------------------------------------------
(* The theorems                                                            *)

\* Whatever the threads of the loop, of the server and of setMyState do at the same
\* time, no peer makes up a height of the ledger; and as long as no copy of the
\* message overlaps another access to it, no peer makes up a state, and no ping
\* ends its process.
THEOREM PeerOriginalUnlessTorn == SpecPeerService => []OriginalUnlessTorn
<1>1. PeerInv => OriginalUnlessTorn
  BY DEF PeerInv, HeightsKept, HeightsAt, AllWhole, WholeAt, OriginalUnlessTorn
<1> QED
  BY <1>1, InitPeerInv, NextPeerInv, PTL DEF SpecPeerService

\* No failed, lost, torn or racing call leaves a connection of a peer that is up
\* without a timer.
THEOREM PeerPingsGoOn == SpecPeerService => []PingsGoOn
<1>1. PeerInv => PingsGoOn
  BY DEF PeerInv
<1> QED
  BY <1>1, InitPeerInv, NextPeerInv, PTL DEF SpecPeerService
=============================================================================
