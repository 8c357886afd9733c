---------------------------- MODULE PeerManager ----------------------------
(***************************************************************************)
(* The peer directory of src/bitchat-tauri/src/bluetooth/peer_manager.rs   *)
(* and the tasks that use it concurrently.                                  *)
(*                                                                          *)
(* PeerManager keeps three DashMaps: peers (id -> PeerInfo), favorites and *)
(* blocked_peers.  Every DashMap call locks one shard for the duration of  *)
(* that call only, so a method that makes two calls can be interleaved     *)
(* between them.  Each method is therefore split into one action per       *)
(* DashMap call; the caller's progress is a program counter.               *)
(*                                                                          *)
(* Callers, all running on the tokio multi-threaded runtime:               *)
(*   Links   - one notification task per BLE connection; each handles     *)
(*             Announce frames (mesh_service.rs handle_announce_message): *)
(*             add_or_update_peer, then update_peer_connection_state.      *)
(*   host    - the block/unblock/favorite/unfavorite and rssi methods.     *)
(*   cleaner - the 60 s ticker running cleanup_offline_peers.               *)
(*   clock   - time passing: a peer's last_seen becomes older than         *)
(*             PEER_TIMEOUT.                                                *)
(*                                                                          *)
(* Data abstraction: nickname, rssi, fingerprint and message_count carry   *)
(* no control; last_seen is kept as the boolean "recent" (elapsed time     *)
(* below PEER_TIMEOUT).                                                     *)
(***************************************************************************)
EXTENDS FiniteSets

CONSTANTS
    Peers,      \* remote peer ids (8-byte ids abstracted to model values)
    OwnId,      \* our own id, the value initialize() stored
    Links       \* notification tasks, one per connected peripheral

ASSUME OwnId \notin Peers

Ids == Peers \cup {OwnId}   \* any sender id an Announce frame can carry

\* ConnectionState (peer_manager.rs:24-31)
States == {"Discovering", "Connecting", "Connected", "Authenticated",
           "Disconnected", "Failed"}

PeerInfo == [state : States, recent : BOOLEAN,
             is_favorite : BOOLEAN, is_blocked : BOOLEAN]

VARIABLES
    peers,      \* the peers DashMap, as a function on the known ids
    favorites,  \* keys of the favorites DashMap
    blocked,    \* keys of the blocked_peers DashMap
    lpc,        \* lpc[l]: step of link task l
    larg,       \* larg[l]: sender id of the Announce l is handling
    hpc,        \* step of the host caller
    harg,       \* peer the host call is about
    cpc,        \* step of the cleanup ticker
    toRemove    \* the to_remove vector of cleanup_offline_peers

pmVars == <<peers, favorites, blocked>>
vars == <<peers, favorites, blocked, lpc, larg, hpc, harg, cpc, toRemove>>

Known == DOMAIN peers

\* Map update helpers: insert-or-overwrite and remove one key.
Put(f, k, v) == [x \in DOMAIN f \cup {k} |-> IF x = k THEN v ELSE f[x]]
Drop(f, k) == [x \in DOMAIN f \ {k} |-> f[x]]

\* PeerInfo::new (peer_manager.rs:52-70)
NewPeerInfo == [state |-> "Discovering", recent |-> TRUE,
                is_favorite |-> FALSE, is_blocked |-> FALSE]

\* PeerInfo::is_online (peer_manager.rs:78-90)
IsOnline(info) == info.state \in {"Connected", "Authenticated"} \/ info.recent

\* Mutant: the elapsed-time comparison inverted.
Evictable_inverted(info) == ~info.is_favorite /\ info.recent /\ ~IsOnline(info)

\* The per-entry test of cleanup_offline_peers (peer_manager.rs:330-339)
Evictable(info) == ~info.is_favorite /\ ~info.recent /\ ~IsOnline(info)

TypeOK ==
    /\ Known \subseteq Peers
    /\ \A p \in Known : peers[p] \in PeerInfo
    /\ favorites \subseteq Ids /\ blocked \subseteq Ids
    /\ lpc \in [Links -> {"Idle", "AddLookup", "AddInsert", "SetConnected"}]
    /\ larg \in [Links -> Ids]
    /\ hpc \in {"Idle", "BlockMark", "UnblockMark", "FavMark", "UnfavMark"}
    /\ harg \in Ids
    /\ cpc \in {"Idle", "Remove"}
    /\ toRemove \subseteq Ids

Init ==
    /\ peers = <<>>                 \* DashMap::new(): no known peer
    /\ favorites = {} /\ blocked = {}
    /\ lpc = [l \in Links |-> "Idle"]
    /\ larg = [l \in Links |-> OwnId]
    /\ hpc = "Idle" /\ harg = OwnId
    /\ cpc = "Idle" /\ toRemove = {}

-----------------------------------------------------------------------------
(* Announce handling on link task l: handle_announce_message, then the two  *)
(* PeerManager calls it makes.                                              *)

\* Mutant: the own-id early return dropped.
add_or_update_peer_no_own_check(l, p) ==
    /\ lpc[l] = "Idle"
    /\ larg' = [larg EXCEPT ![l] = p]
    /\ lpc' = [lpc EXCEPT ![l] = IF p \in blocked THEN "SetConnected" ELSE "AddLookup"]
    /\ UNCHANGED <<pmVars, hpc, harg, cpc, toRemove>>

\* A decoded Announce from sender p arrives; add_or_update_peer runs its own-id
\* and blocked_peers checks.  Either early return is Ok(()), so the handler
\* goes on to update_peer_connection_state.
add_or_update_peer(l, p) ==
    /\ lpc[l] = "Idle"
    /\ larg' = [larg EXCEPT ![l] = p]
    /\ lpc' = [lpc EXCEPT ![l] = IF p = OwnId \/ p \in blocked
                                 THEN "SetConnected" ELSE "AddLookup"]
    /\ UNCHANGED <<pmVars, hpc, harg, cpc, toRemove>>

\* peers.get_mut: an existing entry is updated under its shard lock; a missing
\* one is inserted by a later, separate call.
AddLookup(l) ==
    LET p == larg[l] IN
    /\ lpc[l] = "AddLookup"
    /\ IF p \in Known
       THEN /\ peers' = [peers EXCEPT ![p].recent = TRUE]
            /\ lpc' = [lpc EXCEPT ![l] = "SetConnected"]
       ELSE /\ lpc' = [lpc EXCEPT ![l] = "AddInsert"]
            /\ UNCHANGED peers
    /\ UNCHANGED <<favorites, blocked, larg, hpc, harg, cpc, toRemove>>

\* peers.insert(peer_id, PeerInfo::new(..)), overwriting any entry inserted
\* since the lookup.
AddInsert(l) ==
    /\ lpc[l] = "AddInsert"
    /\ peers' = Put(peers, larg[l], NewPeerInfo)
    /\ lpc' = [lpc EXCEPT ![l] = "SetConnected"]
    /\ UNCHANGED <<favorites, blocked, larg, hpc, harg, cpc, toRemove>>

\* update_peer_connection_state(sender, Connected)
update_peer_connection_state(l) ==
    LET p == larg[l] IN
    /\ lpc[l] = "SetConnected"
    /\ peers' = IF p \in Known
                THEN [peers EXCEPT ![p].state = "Connected", ![p].recent = TRUE]
                ELSE peers
    /\ lpc' = [lpc EXCEPT ![l] = "Idle"]
    /\ UNCHANGED <<favorites, blocked, larg, hpc, harg, cpc, toRemove>>

-----------------------------------------------------------------------------
(* Host calls: each inserts into / removes from a side map, then patches the *)
(* PeerInfo in a second DashMap call.                                       *)

HostStart(p, step) ==
    /\ hpc = "Idle"
    /\ harg' = p /\ hpc' = step
    /\ UNCHANGED <<peers, lpc, larg, cpc, toRemove>>

block_peer(p) ==
    /\ HostStart(p, "BlockMark")
    /\ blocked' = blocked \cup {p} /\ UNCHANGED favorites

unblock_peer(p) ==
    /\ HostStart(p, "UnblockMark")
    /\ blocked' = blocked \ {p} /\ UNCHANGED favorites

add_favorite(p) ==
    /\ HostStart(p, "FavMark")
    /\ favorites' = favorites \cup {p} /\ UNCHANGED blocked

remove_favorite(p) ==
    /\ HostStart(p, "UnfavMark")
    /\ favorites' = favorites \ {p} /\ UNCHANGED blocked

\* The fields of a PeerInfo overwritten with those of the record fields.
Patched(info, fields) ==
    [k \in DOMAIN info |-> IF k \in DOMAIN fields THEN fields[k] ELSE info[k]]

\* The peers.get_mut half of each host call.
PatchPeer(step, fields) ==
    /\ hpc = step
    /\ peers' = IF harg \in Known
                THEN [peers EXCEPT ![harg] = Patched(@, fields)] ELSE peers
    /\ hpc' = "Idle"
    /\ UNCHANGED <<favorites, blocked, lpc, larg, harg, cpc, toRemove>>

BlockMark   == PatchPeer("BlockMark", [is_blocked |-> TRUE, state |-> "Disconnected"])
UnblockMark == PatchPeer("UnblockMark", [is_blocked |-> FALSE])
FavMark     == PatchPeer("FavMark",     [is_favorite |-> TRUE])
UnfavMark   == PatchPeer("UnfavMark",   [is_favorite |-> FALSE])

\* update_peer_rssi: one get_mut that stores the rssi and refreshes
\* last_seen; an unknown peer is ignored.  No caller reaches it yet.
update_peer_rssi(p) ==
    /\ p \in Known
    /\ peers' = [peers EXCEPT ![p].recent = TRUE]
    /\ UNCHANGED <<favorites, blocked, lpc, larg, hpc, harg, cpc, toRemove>>

-----------------------------------------------------------------------------
(* cleanup_offline_peers: collect the ids to remove while iterating, then   *)
(* remove them one by one without looking at the entries again.            *)

CleanupCollect ==
    /\ cpc = "Idle"
    /\ toRemove' = {p \in Known : Evictable(peers[p])}
    /\ cpc' = IF toRemove' = {} THEN "Idle" ELSE "Remove"
    /\ UNCHANGED <<pmVars, lpc, larg, hpc, harg>>

CleanupRemove(p) ==
    /\ cpc = "Remove" /\ p \in toRemove
    /\ peers' = Drop(peers, p)
    /\ toRemove' = toRemove \ {p}
    /\ cpc' = IF toRemove' = {} THEN "Idle" ELSE "Remove"
    /\ UNCHANGED <<favorites, blocked, lpc, larg, hpc, harg>>

\* Time passes: p's last_seen falls behind PEER_TIMEOUT.  The two PeerManager
\* calls of one announce are microseconds apart, so 90 s never pass between
\* them.
Age(p) ==
    /\ p \in Known /\ peers[p].recent
    /\ \A l \in Links : lpc[l] # "Idle" => larg[l] # p
    /\ peers' = [peers EXCEPT ![p].recent = FALSE]
    /\ UNCHANGED <<favorites, blocked, lpc, larg, hpc, harg, cpc, toRemove>>

-----------------------------------------------------------------------------
LinkStep(l) ==
    \/ \E p \in Ids : add_or_update_peer(l, p)
    \/ AddLookup(l) \/ AddInsert(l) \/ update_peer_connection_state(l)

HostStep ==
    \/ \E p \in Peers : block_peer(p) \/ unblock_peer(p)
                        \/ add_favorite(p) \/ remove_favorite(p)
                        \/ update_peer_rssi(p)
    \/ BlockMark \/ UnblockMark \/ FavMark \/ UnfavMark

CleanerStep == CleanupCollect \/ \E p \in Ids : CleanupRemove(p)

Next ==
    \/ \E l \in Links : LinkStep(l)
    \/ HostStep
    \/ CleanerStep
    \/ \E p \in Ids : Age(p)

\* The cleanup ticker fires every 60 s while the service runs.
Spec == Init /\ [][Next]_vars /\ WF_vars(CleanerStep)

-----------------------------------------------------------------------------
(* Properties                                                               *)

\* The converse of what block_peer's two calls establish: once
\* block_peer has flagged the entry, every known peer in blocked_peers
\* carries is_blocked.  An announce whose get_mut missed before the block
\* inserts PeerInfo::new (is_blocked false) afterwards; TLC finds this
\* violated in six steps, and no run checks it.
BlockedFlagged ==
    \A p \in blocked \cap Known :
        peers[p].is_blocked \/ (hpc = "BlockMark" /\ harg = p)

\* Not connected and not heard from within PEER_TIMEOUT.
Offline(p) ==
    peers[p].state \notin {"Connected", "Authenticated"} /\ ~peers[p].recent

\* Liveness of cleanup_offline_peers: a non-favorite entry that is offline
\* and has not been heard from for PEER_TIMEOUT is eventually removed, or
\* heard from again.
EvictionProgress ==
    \A p \in Peers :
        (p \in Known /\ Offline(p) /\ ~peers[p].is_favorite)
            ~> (p \notin Known \/ ~Offline(p) \/ peers[p].is_favorite)

\* Spec 4.5: blocked peers are refused.  Once block_peer has finished, a
\* blocked peer's entry is never in a connected state again.
BlockedNeverConnected ==
    \A p \in blocked \cap Known :
        \/ peers[p].state \notin {"Connected", "Authenticated"}
        \/ hpc = "BlockMark" /\ harg = p

\* Spec 4.5: favorites are kept as tombstones and never evicted from the
\* directory: no step removes the entry of a peer in favorites.
FavoriteNeverEvicted ==
    [][\A p \in favorites \cap Known : p \in DOMAIN peers']_vars

\* cleanup_offline_peers removes only entries that are offline (not connected
\* and not heard from within PEER_TIMEOUT) at the moment they are removed (spec 4.5: evict a Neighbor not heard for
\* more than PEER_TIMEOUT).
EvictOnlyOffline ==
    [][\A p \in Known \ DOMAIN peers' : Offline(p)]_vars

=============================================================================
