---------------------------- MODULE MessageStore ----------------------------
(***************************************************************************)
(* MessageStorage (message/storage.rs): a VecDeque of BitchatMessages     *)
(* behind a tokio RwLock.  store_message takes the write guard and holds  *)
(* it, with no await, for the duplicate check, the push and the eviction  *)
(* loop, so it is one atomic step.  A message is a record whose id is the *)
(* only field the store looks at.                                          *)
(*                                                                         *)
(* The router is the store's only user and it calls store_message and     *)
(* get_messages alone.  The status, delete and import methods, which no   *)
(* caller reaches, are added in MessageStorage.                            *)
(***************************************************************************)
EXTENDS Naturals, Sequences, SequencesExt

CONSTANTS
    max_messages,   \* the size limit (10000 in MessageStorage::new)
    Messages        \* the messages callers may store

VARIABLE messages

MessageIds(s) == {s[k].id : k \in DOMAIN s}

\* MessageStorage::new.
Init == messages = <<>>

RECURSIVE EnforceLimit(_)
\* "Enforce size limit": pop_front while the length exceeds max_messages.
EnforceLimit(s) == IF Len(s) > max_messages THEN EnforceLimit(Tail(s)) ELSE s

\* store_message: a message whose id is already stored is skipped (Ok);
\* otherwise it is pushed at the back and the oldest are evicted.
store_message(m) ==
    messages' = IF m.id \in MessageIds(messages) THEN messages
                ELSE EnforceLimit(Append(messages, m))

Next == \E m \in Messages : store_message(m)

Spec == Init /\ [][Next]_messages

\* The store seen as the abstract log of its ids.
Log == INSTANCE BoundedLog WITH
           Ids <- {m.id : m \in Messages},
           Bound <- max_messages,
           log <- [k \in DOMAIN messages |-> messages[k].id]
=============================================================================
