---------------------------- MODULE MessageRouter ----------------------------
(***************************************************************************)
(* MessageRouter (message/router.rs) over its MessageStorage.  Tauri runs   *)
(* every command as its own task, so several callers run the router's     *)
(* methods at once; a method is split at each await, because the          *)
(* message_cache, active_channels and routing_table RwLock guards and the *)
(* store's guard are each taken and released inside one step.             *)
(*                                                                         *)
(* The host commands send_message, send_private_message, join_channel and *)
(* leave_channel are wired in main.rs; process_incoming_message,          *)
(* cleanup_cache and update_routing_table are public methods that no      *)
(* caller reaches yet, and are modelled as the router's API.  The         *)
(* handle_* methods and consider_relay change no state but the            *)
(* last_activity of a channel, which is left out.                          *)
(***************************************************************************)
EXTENDS Naturals, Sequences, FiniteSets

CONSTANTS
    Callers,        \* concurrent command tasks
    InIds,          \* ids of messages arriving from the mesh
    Incoming,       \* Incoming[i]: the BitchatMessage with id i
    OwnIds,         \* the ids Uuid::new_v4 hands out to local messages
    Channels,       \* channel names
    Peers,          \* peer ids of routing_table entries
    Routes,         \* route_via vectors
    max_messages,   \* the store's size limit
    MaxReceipts     \* process_incoming_message calls per message id

NoChannel == "NoChannel"
NoMsg == [id |-> "none"]

\* The fields of a BitchatMessage the router reads.
Msg(id, type, ch, ttl, status) ==
    [id |-> id, message_type |-> type, channel |-> ch, ttl |-> ttl, status |-> status]

\* The constructors of message_types.rs.
NewBroadcast(id) == Msg(id, "Broadcast", NoChannel, 7, "Draft")
NewPrivate(id) == Msg(id, "Private", NoChannel, 7, "Draft")
NewChannel(id, ch) == Msg(id, "Channel", ch, 7, "Draft")
NewSystem(id) == Msg(id, "System", NoChannel, 1, "Sent")

\* BitchatMessage::should_relay.
should_relay(m) ==
    /\ m.ttl > 0
    /\ m.message_type \notin {"System", "DeliveryReceipt"}
    /\ m.status \notin {"Failed", "Expired"}

Local == {NewBroadcast(o) : o \in OwnIds} \cup {NewPrivate(o) : o \in OwnIds}
         \cup {NewChannel(o, ch) : o \in OwnIds, ch \in Channels}
         \cup {NewSystem(o) : o \in OwnIds}
AllMessages == Local \cup {Incoming[i] : i \in InIds}

VARIABLES
    messages,         \* the store's VecDeque
    message_cache,    \* ids of the message_cache HashMap
    active_channels,  \* names of the active_channels HashMap
    routing_table,    \* the routing_table HashMap
    pc,               \* where each caller is inside a router method
    cur,              \* the message each caller is handling
    used,             \* own ids already handed out
    aged,             \* ids whose timestamp is older than the cleanup cutoff
    received,         \* process_incoming_message calls per incoming id
    handled,          \* handle_* runs per incoming id
    relayed,          \* consider_relay calls per incoming id
    evicted           \* ids the store has evicted

vars == <<messages, message_cache, active_channels, routing_table, pc, cur,
          used, aged, received, handled, relayed, evicted>>

Store == INSTANCE MessageStore WITH Messages <- AllMessages

\* MessageRouter::new.
Init ==
    /\ Store!Init
    /\ message_cache = {}
    /\ active_channels = {}
    /\ routing_table = [p \in {} |-> {}]
    /\ pc = [c \in Callers |-> "Idle"]
    /\ cur = [c \in Callers |-> NoMsg]
    /\ used = {}
    /\ aged = {}
    /\ received = [i \in InIds |-> 0]
    /\ handled = [i \in InIds |-> 0]
    /\ relayed = [i \in InIds |-> 0]
    /\ evicted = {}

\* self.storage.store_message(&m).await, recording what the store evicted.
Stored(m) ==
    /\ Store!store_message(m)
    /\ evicted' = evicted \cup ((Store!MessageIds(messages) \cup {m.id})
                                \ Store!MessageIds(messages'))

Fresh == CHOOSE o \in OwnIds \ used : TRUE

\* A caller returns from its method.
Return(c) == /\ pc' = [pc EXCEPT ![c] = "Idle"] /\ cur' = [cur EXCEPT ![c] = NoMsg]
Goto(c, l, m) == /\ pc' = [pc EXCEPT ![c] = l] /\ cur' = [cur EXCEPT ![c] = m]

-----------------------------------------------------------------------------
\* send_message: build a broadcast or channel message and store it; the
\* next step caches it.
send_message(c, ch) ==
    LET m == IF ch = NoChannel THEN NewBroadcast(Fresh) ELSE NewChannel(Fresh, ch) IN
    /\ pc[c] = "Idle" /\ used # OwnIds
    /\ Stored(m)
    /\ used' = used \cup {m.id}
    /\ Goto(c, "SendCache", m)
    /\ UNCHANGED <<message_cache, active_channels, routing_table, aged, received, handled, relayed>>

\* send_private_message: the same with a private message.
send_private_message(c) ==
    /\ pc[c] = "Idle" /\ used # OwnIds
    /\ Stored(NewPrivate(Fresh))
    /\ used' = used \cup {Fresh}
    /\ Goto(c, "SendCache", NewPrivate(Fresh))
    /\ UNCHANGED <<message_cache, active_channels, routing_table, aged, received, handled, relayed>>

\* "Cache message for routing", then return the id.
SendCache(c) ==
    /\ pc[c] = "SendCache"
    /\ message_cache' = message_cache \cup {cur[c].id}
    /\ Return(c)
    /\ UNCHANGED <<messages, active_channels, routing_table, used, aged, received, handled, relayed, evicted>>

\* join_channel / leave_channel: update active_channels, then store a
\* system message about it.
join_channel(c, ch) ==
    /\ pc[c] = "Idle" /\ used # OwnIds
    /\ active_channels' = active_channels \cup {ch}
    /\ used' = used \cup {Fresh}
    /\ Goto(c, "SysStore", NewSystem(Fresh))
    /\ UNCHANGED <<messages, message_cache, routing_table, aged, received, handled, relayed, evicted>>

leave_channel(c, ch) ==
    /\ pc[c] = "Idle" /\ used # OwnIds
    /\ active_channels' = active_channels \ {ch}
    /\ used' = used \cup {Fresh}
    /\ Goto(c, "SysStore", NewSystem(Fresh))
    /\ UNCHANGED <<messages, message_cache, routing_table, aged, received, handled, relayed, evicted>>

SysStore(c) ==
    /\ pc[c] = "SysStore"
    /\ Stored(cur[c])
    /\ Return(c)
    /\ UNCHANGED <<message_cache, active_channels, routing_table, used, aged, received, handled, relayed>>

\* Mutant: the message is cached as seen before it is stored.
process_incoming_message_cache_first(c, i) ==
    /\ pc[c] = "Idle" /\ received[i] < MaxReceipts
    /\ received' = [received EXCEPT ![i] = @ + 1]
    /\ \/ /\ i \in message_cache
          /\ UNCHANGED <<pc, cur, message_cache>>
       \/ /\ i \notin message_cache
          /\ message_cache' = message_cache \cup {i}
          /\ Goto(c, "InStore", Incoming[i])
    /\ UNCHANGED <<messages, active_channels, routing_table, used, aged, handled, relayed, evicted>>

\* process_incoming_message: "already seen" is a read of message_cache;
\* a hit returns at once, a miss goes on to store the message.
process_incoming_message(c, i) ==
    /\ pc[c] = "Idle" /\ received[i] < MaxReceipts
    /\ received' = [received EXCEPT ![i] = @ + 1]
    /\ \/ /\ i \in message_cache
          /\ UNCHANGED <<pc, cur>>
       \/ /\ i \notin message_cache
          /\ Goto(c, "InStore", Incoming[i])
    /\ UNCHANGED <<messages, message_cache, active_channels, routing_table, used, aged, handled, relayed, evicted>>

InStore(c) ==
    /\ pc[c] = "InStore"
    /\ Stored(cur[c])
    /\ Goto(c, "InCache", cur[c])
    /\ UNCHANGED <<message_cache, active_channels, routing_table, used, aged, received, handled, relayed>>

InCache(c) ==
    /\ pc[c] = "InCache"
    /\ message_cache' = message_cache \cup {cur[c].id}
    /\ Goto(c, "Handle", cur[c])
    /\ UNCHANGED <<messages, active_channels, routing_table, used, aged, received, handled, relayed, evicted>>

\* The match on message_type (every handler leaves the modelled state
\* alone) and consider_relay when should_relay holds.
Handle(c) ==
    LET m == cur[c] IN
    /\ pc[c] = "Handle"
    /\ handled' = [handled EXCEPT ![m.id] = @ + 1]
    /\ relayed' = IF should_relay(m) THEN [relayed EXCEPT ![m.id] = @ + 1] ELSE relayed
    /\ Return(c)
    /\ UNCHANGED <<messages, message_cache, active_channels, routing_table, used, aged, received, evicted>>

\* Time passes: a cached message's timestamp falls behind the cutoff.
Age(i) ==
    /\ i \in message_cache \ aged
    /\ aged' = aged \cup {i}
    /\ UNCHANGED <<messages, message_cache, active_channels, routing_table, pc, cur, used, received, handled, relayed, evicted>>

\* cleanup_cache: one write guard over the collect and remove loops.
cleanup_cache ==
    /\ message_cache \cap aged # {}
    /\ message_cache' = message_cache \ aged
    /\ UNCHANGED <<messages, active_channels, routing_table, pc, cur, used, aged, received, handled, relayed, evicted>>

update_routing_table(p, r) ==
    /\ routing_table' = [q \in DOMAIN routing_table \cup {p} |-> IF q = p THEN r ELSE routing_table[q]]
    /\ UNCHANGED <<messages, message_cache, active_channels, pc, cur, used, aged, received, handled, relayed, evicted>>

Next ==
    \/ \E c \in Callers :
          \/ \E ch \in Channels \cup {NoChannel} : send_message(c, ch)
          \/ send_private_message(c)
          \/ \E ch \in Channels : join_channel(c, ch) \/ leave_channel(c, ch)
          \/ \E i \in InIds : process_incoming_message(c, i)
          \/ SendCache(c) \/ SysStore(c) \/ InStore(c) \/ InCache(c) \/ Handle(c)
    \/ \E i \in InIds : Age(i)
    \/ cleanup_cache
    \/ \E p \in Peers, r \in Routes : update_routing_table(p, r)

Spec == Init /\ [][Next]_vars

-----------------------------------------------------------------------------
TypeOK ==
    /\ messages \in Seq(AllMessages)
    /\ message_cache \subseteq InIds \cup OwnIds
    /\ active_channels \subseteq Channels
    /\ DOMAIN routing_table \subseteq Peers
    /\ pc \in [Callers -> {"Idle", "SendCache", "SysStore", "InStore", "InCache", "Handle"}]
    /\ \A c \in Callers : (pc[c] = "Idle") = (cur[c] = NoMsg)
    /\ received \in [InIds -> 0..MaxReceipts]

\* Spec section 3: the seen-set never holds an id that is neither in the
\* store nor evicted from it.  Every router path stores a message before
\* it caches its id, in separate awaits, while other callers store and
\* evict in between.
SeenInStore ==
    message_cache \subseteq Store!MessageIds(messages) \cup evicted

\* Spec section 9, dedup: a message id delivered any number of times is
\* handled once and relayed at most once.
HandledOnce ==
    \A i \in InIds : handled[i] <= 1 /\ relayed[i] <= 1
=============================================================================
