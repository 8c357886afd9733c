--------------------------- MODULE MessageStorage ---------------------------
(***************************************************************************)
(* The whole MessageStorage API (message/storage.rs) over the store of     *)
(* MessageStore.  Every method takes the RwLock write guard for its whole  *)
(* body, so each is one atomic step; import_messages is the exception: it *)
(* parses its batch and then calls store_message once per message, taking *)
(* the guard anew each time, so other calls run between its messages.     *)
(*                                                                         *)
(* A message is a record of the fields the methods and queries read: id,  *)
(* type, channel, sender, recipient, status, delivery status and a        *)
(* timestamp.  delete_old_messages is given the cutoff (now - max age)    *)
(* directly.  The JSON of an import is its list of messages, some of      *)
(* which may fail to parse (Malformed).                                    *)
(***************************************************************************)
EXTENDS MessageStore, FiniteSets

CONSTANTS
    None,         \* Option::None of the channel, recipient and delivery fields
    Malformed,    \* an element of an import's "messages" array that is no message
    Importers,    \* concurrent import_messages calls
    Batches,      \* the message arrays imports carry
    Statuses,     \* MessageStatus values update_message_status is given
    Deliveries,   \* DeliveryStatus values update_delivery_status is given
    Cutoffs,      \* cutoffs delete_old_messages computes
    Scopes,       \* channel arguments of get_messages (None: all messages)
    Peers,        \* sender and recipient ids
    Limits        \* limit arguments of the queries

VARIABLE ipc      \* the messages an import still has to store

svars == <<messages, ipc>>

\* The MessageStatus and DeliveryStatus enums.
MessageStatus == {"Draft", "Sending", "Sent", "Delivered", "Failed", "Expired"}
DeliveryStatus == {"Pending", "Delivered", "Read", "Failed"}

\* BitchatMessage::set_status and set_delivery_status.
set_status(m, st) == [m EXCEPT !.status = st]
set_delivery_status(m, d) == [m EXCEPT !.delivery = d]

\* The position of the first message with the given id, 0 if none.
Find(id) == SelectInSeq(messages, LAMBDA m : m.id = id)

StorageInit == Init /\ ipc = [c \in Importers |-> <<>>]

\* update_message_status: a missing id only logs a warning.
update_message_status(id, st) ==
    LET k == Find(id) IN
    /\ messages' = IF k = 0 THEN messages
                   ELSE [messages EXCEPT ![k] = set_status(@, st)]
    /\ UNCHANGED ipc

\* update_delivery_status: overwrites whatever status the message had.
update_delivery_status(id, d) ==
    LET k == Find(id) IN
    /\ messages' = IF k = 0 THEN messages
                   ELSE [messages EXCEPT ![k] = set_delivery_status(@, d)]
    /\ UNCHANGED ipc

\* Mutant: VecDeque::swap_remove_back instead of remove.
delete_message_swap(id) ==
    LET k == Find(id) IN
    /\ messages' = IF k = 0 THEN messages
                   ELSE SubSeq(ReplaceAt(messages, k, Last(messages)), 1, Len(messages) - 1)
    /\ UNCHANGED ipc

\* delete_message: remove the message at its position, if any.
delete_message(id) ==
    LET k == Find(id) IN
    /\ messages' = IF k = 0 THEN messages ELSE RemoveAt(messages, k)
    /\ UNCHANGED ipc

\* delete_old_messages: retain the messages with timestamp >= cutoff.
delete_old_messages(cutoff) ==
    /\ messages' = SelectSeq(messages, LAMBDA m : m.ts >= cutoff)
    /\ UNCHANGED ipc

clear_all_messages ==
    /\ messages' = <<>>
    /\ UNCHANGED ipc

\* import_messages: the JSON parsed, the loop over its array begins.
import_messages(c, batch) ==
    /\ ipc[c] = <<>>
    /\ ipc' = [ipc EXCEPT ![c] = batch]
    /\ UNCHANGED messages

\* Mutant: the loop skips stored ids itself and pushes, without the limit.
ImportNext_push(c) ==
    LET m == Head(ipc[c]) IN
    /\ ipc[c] # <<>>
    /\ IF m = Malformed \/ m.id \in MessageIds(messages) THEN UNCHANGED messages
       ELSE messages' = Append(messages, m)
    /\ ipc' = [ipc EXCEPT ![c] = Tail(@)]

\* One iteration of the loop: an element that does not parse is skipped
\* with a warning; a message is stored through store_message.
ImportNext(c) ==
    LET m == Head(ipc[c]) IN
    /\ ipc[c] # <<>>
    /\ IF m = Malformed THEN UNCHANGED messages ELSE store_message(m)
    /\ ipc' = [ipc EXCEPT ![c] = Tail(@)]

StorageNext ==
    \/ \E m \in Messages : store_message(m) /\ UNCHANGED ipc
    \/ \E m \in Messages :
          \/ \E st \in Statuses : update_message_status(m.id, st)
          \/ \E d \in Deliveries : update_delivery_status(m.id, d)
          \/ delete_message(m.id)
    \/ \E t \in Cutoffs : delete_old_messages(t)
    \/ clear_all_messages
    \/ \E c \in Importers : \/ \E b \in Batches : import_messages(c, b)
                            \/ ImportNext(c)

StorageSpec == StorageInit /\ [][StorageNext]_svars

-----------------------------------------------------------------------------
(* The history queries.                                                    *)

\* get_messages' filter: no channel argument selects everything; a message
\* without a channel belongs to "public" and "broadcast".
InScope(m, scope) ==
    \/ scope = None
    \/ m.ch # None /\ m.ch = scope
    \/ m.ch = None /\ scope \in {"public", "broadcast"}

\* get_messages: filter, .rev(), .take(limit).
get_messages(scope, limit) ==
    LET sel == Reverse(SelectSeq(messages, LAMBDA m : InScope(m, scope))) IN
    SubSeq(sel, 1, Min({limit, Len(sel)}))

\* get_messages_from_sender: the same pipeline filtered on sender_id.
get_messages_from_sender(sender, limit) ==
    LET sel == Reverse(SelectSeq(messages, LAMBDA m : m.sender = sender)) IN
    SubSeq(sel, 1, Min({limit, Len(sel)}))

Between(m, p1, p2) ==
    /\ m.type = "Private"
    /\ \/ m.sender = p1 /\ m.recipient = p2
       \/ m.sender = p2 /\ m.recipient = p1

\* get_private_messages: the same pipeline with the private-pair filter.
get_private_messages(p1, p2, limit) ==
    LET sel == Reverse(SelectSeq(messages, LAMBDA m : Between(m, p1, p2))) IN
    SubSeq(sel, 1, Min({limit, Len(sel)}))

-----------------------------------------------------------------------------
TypeOK ==
    /\ Len(messages) <= max_messages
    /\ \A x \in ToSet(messages) : /\ x.id \in {m.id : m \in Messages}
                                  /\ x.status \in MessageStatus
                                  /\ x.delivery \in DeliveryStatus \cup {None}
    /\ \A c \in Importers : ToSet(ipc[c]) \subseteq Messages \cup {Malformed}

\* Spec section 3: the store is a bounded sequence of distinct ids, newest
\* last, evicted oldest first; deletes keep the order of what remains and
\* status updates do not touch it.  Imports that interleave with deletes
\* and clears go through the same duplicate check and bound.
StorageRefinesLog == Log!Spec

\* Spec 4.7: a DeliveryAck for a message already Read is a no-op; the
\* delivery status of a stored message never leaves Read.
DeliveryNeverRegresses ==
    [][\A k \in DOMAIN messages :
          messages[k].delivery = "Read" =>
              \A j \in DOMAIN messages' :
                  messages'[j].id = messages[k].id => messages'[j].delivery = "Read"]_svars
=============================================================================
