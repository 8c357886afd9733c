--------------------------- MODULE NoiseHandshake ---------------------------
(***************************************************************************)
(* The handshake engine of crypto/noise_protocol.rs: every node owns a    *)
(* NoiseEngine whose sessions DashMap holds at most one NoiseSession per  *)
(* remote peer.  start_handshake, process_handshake_message and            *)
(* cleanup_expired_sessions are the operations that change it; the        *)
(* environment carries the frames they return between the nodes over a    *)
(* link that may lose and duplicate them, and lets time pass so that a    *)
(* session becomes older than HANDSHAKE_TIMEOUT_SECS.                      *)
(*                                                                         *)
(* Each engine call other than the cleanup makes a single DashMap call     *)
(* and holds no await in between, so it is one atomic step.  The cleanup   *)
(* iterates, then removes the collected ids one remove call at a time.    *)
(***************************************************************************)
EXTENDS Naturals, FiniteSets, Bags

CONSTANTS
    Nodes,        \* engines, identified by their 8-byte peer ids
    Initiators,   \* nodes whose host calls start_handshake
    MaxStarts,    \* start_handshake calls per initiator
    MaxDups       \* frames the link duplicates

\* NoiseHandshakeState.
States == {"Uninitialized", "InitiatorSendingInit", "InitiatorWaitingResponse",
           "InitiatorSendingFinish", "ResponderWaitingInit",
           "ResponderSendingResponse", "ResponderWaitingFinish", "Complete", "Failed"}

\* The handshake frame types process_handshake_message matches on.
NoiseInit == 16
NoiseResponse == 17
NoiseFinish == 18
Frame == [from : Nodes, to : Nodes, type : {NoiseInit, NoiseResponse, NoiseFinish}]

\* A NoiseSession: its state and whether created_at is more than
\* HANDSHAKE_TIMEOUT_SECS in the past (is_expired).  peer_id is the key.
Session == [state : States, expired : BOOLEAN]

\* NoiseSession::new_initiator followed by initialize_handshake.
NewInitiator == [state |-> "InitiatorSendingInit", expired |-> FALSE]
\* NoiseSession::new_responder with the state process_handshake_message sets.
NewResponder == [state |-> "ResponderSendingResponse", expired |-> FALSE]

Put(f, k, v) == [x \in DOMAIN f \cup {k} |-> IF x = k THEN v ELSE f[x]]
Drop(f, k) == [x \in DOMAIN f \ {k} |-> f[x]]
Msg(from, to, type) == [from |-> from, to |-> to, type |-> type]

VARIABLES
    sessions,     \* sessions[n]: the DashMap of engine n, peer -> Session
    net,          \* bag of frames in flight
    starts,       \* start_handshake calls made by each node
    dups,         \* frames duplicated so far
    lost,         \* some frame was lost
    timedOut,     \* some session has aged past the handshake timeout
    cpc,          \* cleanup_expired_sessions of each node: "Idle" or "Remove"
    expiredPeers  \* the expired_peers vector the cleanup collected

vars == <<sessions, net, starts, dups, lost, timedOut, cpc, expiredPeers>>

Init ==
    /\ sessions = [n \in Nodes |-> [p \in {} |-> NewInitiator]]
    /\ net = EmptyBag
    /\ starts = [n \in Nodes |-> 0]
    /\ dups = 0
    /\ lost = FALSE
    /\ timedOut = FALSE
    /\ cpc = [n \in Nodes |-> "Idle"]
    /\ expiredPeers = [n \in Nodes |-> {}]

Send(m) == SetToBag({m})

-----------------------------------------------------------------------------
\* Mutant: the session is inserted under the engine's own id.
start_handshake_self(n, p) ==
    /\ n \in Initiators /\ starts[n] < MaxStarts
    /\ sessions' = [sessions EXCEPT ![n] = Put(@, n, NewInitiator)]
    /\ net' = net (+) Send(Msg(n, p, NoiseInit))
    /\ starts' = [starts EXCEPT ![n] = @ + 1]
    /\ UNCHANGED <<dups, lost, timedOut, cpc, expiredPeers>>

\* start_handshake: a fresh initiator session replaces whatever session the
\* map held for p; the NoiseInit it returns is sent to p.
start_handshake(n, p) ==
    /\ n \in Initiators /\ starts[n] < MaxStarts
    /\ sessions' = [sessions EXCEPT ![n] = Put(@, p, NewInitiator)]
    /\ net' = net (+) Send(Msg(n, p, NoiseInit))
    /\ starts' = [starts EXCEPT ![n] = @ + 1]
    /\ UNCHANGED <<dups, lost, timedOut, cpc, expiredPeers>>

\* The match of process_handshake_message on an existing session: the new
\* state, whatever the current one, and the frame type returned, if any.
AfterFrame(t) == CASE t = NoiseInit -> "ResponderSendingResponse"
                 []   t = NoiseResponse -> "InitiatorSendingFinish"
                 []   t = NoiseFinish -> "Complete"
Reply(t) == CASE t = NoiseInit -> {NoiseResponse}
             []   t = NoiseResponse -> {NoiseFinish}
             []   t = NoiseFinish -> {}

\* process_handshake_message at m.to for a peer it holds a session for.
ProcessExisting(m) ==
    LET n == m.to  p == m.from IN
    /\ p \in DOMAIN sessions[n]
    /\ sessions' = [sessions EXCEPT ![n][p].state = AfterFrame(m.type)]
    /\ net' = (net (-) Send(m)) (+) SetToBag({Msg(n, p, r) : r \in Reply(m.type)})
    /\ UNCHANGED <<starts, dups, lost, timedOut, cpc, expiredPeers>>

\* Mutant: the responder session is stored but its NoiseResponse is dropped.
ProcessNew_no_reply(m) ==
    LET n == m.to  p == m.from IN
    /\ p \notin DOMAIN sessions[n] /\ m.type = NoiseInit
    /\ sessions' = [sessions EXCEPT ![n] = Put(@, p, NewResponder)]
    /\ net' = net (-) Send(m)
    /\ UNCHANGED <<starts, dups, lost, timedOut, cpc, expiredPeers>>

\* process_handshake_message: a NoiseInit from a peer without a session
\* creates a responder session and answers.
ProcessNew(m) ==
    LET n == m.to  p == m.from IN
    /\ p \notin DOMAIN sessions[n] /\ m.type = NoiseInit
    /\ sessions' = [sessions EXCEPT ![n] = Put(@, p, NewResponder)]
    /\ net' = (net (-) Send(m)) (+) Send(Msg(n, p, NoiseResponse))
    /\ UNCHANGED <<starts, dups, lost, timedOut, cpc, expiredPeers>>

\* process_handshake_message returns "Invalid handshake state": a Response
\* or Finish from a peer without a session is consumed and nothing changes.
ProcessRejected(m) ==
    /\ m.from \notin DOMAIN sessions[m.to] /\ m.type # NoiseInit
    /\ net' = net (-) Send(m)
    /\ UNCHANGED <<sessions, starts, dups, lost, timedOut, cpc, expiredPeers>>

\* Time passes: created_at of a session falls more than 30 s behind.
Expire(n, p) ==
    /\ p \in DOMAIN sessions[n] /\ ~sessions[n][p].expired
    /\ sessions' = [sessions EXCEPT ![n][p].expired = TRUE]
    /\ timedOut' = TRUE
    /\ UNCHANGED <<net, starts, dups, lost, cpc, expiredPeers>>

\* cleanup_expired_sessions, first loop: collect the expired keys.
CleanupCollect(n) ==
    LET ids == {p \in DOMAIN sessions[n] : sessions[n][p].expired} IN
    /\ cpc[n] = "Idle" /\ ids # {}
    /\ expiredPeers' = [expiredPeers EXCEPT ![n] = ids]
    /\ cpc' = [cpc EXCEPT ![n] = "Remove"]
    /\ UNCHANGED <<sessions, net, starts, dups, lost, timedOut>>

\* Second loop: remove each collected key without looking at the entry.
CleanupRemove(n, p) ==
    /\ cpc[n] = "Remove" /\ p \in expiredPeers[n]
    /\ sessions' = [sessions EXCEPT ![n] = Drop(@, p)]
    /\ expiredPeers' = [expiredPeers EXCEPT ![n] = @ \ {p}]
    /\ cpc' = [cpc EXCEPT ![n] = IF expiredPeers[n] = {p} THEN "Idle" ELSE "Remove"]
    /\ UNCHANGED <<net, starts, dups, lost, timedOut>>

\* The link delivers a frame twice, or not at all.
Duplicate(m) ==
    /\ dups < MaxDups
    /\ net' = net (+) Send(m)
    /\ dups' = dups + 1
    /\ UNCHANGED <<sessions, starts, lost, timedOut, cpc, expiredPeers>>

Lose(m) ==
    /\ net' = net (-) Send(m)
    /\ lost' = TRUE
    /\ UNCHANGED <<sessions, starts, dups, timedOut, cpc, expiredPeers>>

Next ==
    \/ \E n \in Nodes : \E p \in Nodes \ {n} : start_handshake(n, p)
    \/ \E m \in BagToSet(net) :
          ProcessExisting(m) \/ ProcessNew(m) \/ ProcessRejected(m)
          \/ Duplicate(m) \/ Lose(m)
    \/ \E n, p \in Nodes : Expire(n, p) \/ CleanupRemove(n, p)
    \/ \E n \in Nodes : CleanupCollect(n)

Spec == Init /\ [][Next]_vars

-----------------------------------------------------------------------------
TypeOK ==
    /\ \A n \in Nodes : DOMAIN sessions[n] \subseteq Nodes \ {n}
                        /\ \A p \in DOMAIN sessions[n] : sessions[n][p] \in Session
    /\ IsABag(net) /\ BagToSet(net) \subseteq Frame
    /\ cpc \in [Nodes -> {"Idle", "Remove"}]
    /\ \A n \in Nodes : expiredPeers[n] \subseteq DOMAIN sessions[n]

\* The exchange has run its course: every frame sent has been processed,
\* none was lost and no session timed out.
Settled == net = EmptyBag /\ ~lost /\ ~timedOut

Established(n, p) == p \in DOMAIN sessions[n] /\ sessions[n][p].state = "Complete"

\* Once a handshake has settled, the peer that answered an initiator's
\* NoiseInit holds a Complete session for it, however the link duplicated
\* the frames and however often the initiator restarted: every NoiseInit
\* it processes is answered, and the NoiseFinish for that answer is
\* processed after it.
ResponderSettles ==
    Settled =>
        \A a \in Initiators : \A b \in Nodes \ {a} : starts[a] > 0 => Established(b, a)

\* Spec section 4.3 and scenario 1: once the handshake has settled, the
\* initiator holds a Complete session too, so both sides can encrypt.
InitiatorSettles ==
    Settled =>
        \A a \in Initiators : \A b \in Nodes \ {a} : starts[a] > 0 => Established(a, b)
\* Spec 4.3: once Established a session has no intrinsic lifetime; no step
\* removes a Complete session from the map.
EstablishedKept ==
    [][\A n \in Nodes : \A p \in DOMAIN sessions[n] :
          sessions[n][p].state = "Complete" => p \in DOMAIN sessions'[n]]_vars

\* cleanup_expired_sessions removes only sessions that are expired when
\* they are removed.
CleanupOnlyExpired ==
    [][\A n \in Nodes : \A p \in DOMAIN sessions[n] :
          p \notin DOMAIN sessions'[n] => sessions[n][p].expired]_vars
=============================================================================
