----------------------------- MODULE BoundedLog -----------------------------
(***************************************************************************)
(* What the message store promises (spec section 3, "Store", and the       *)
(* invariant "a Message id appears in the Store at most once"): a bounded *)
(* ordered sequence of message ids, newest last.  Storing an id already    *)
(* held changes nothing; storing a new one appends it and, on overflow,    *)
(* drops the oldest entries until Bound remain.  Entries may also be       *)
(* discarded (the store's delete operations); the rest keep their order.  *)
(***************************************************************************)
EXTENDS Naturals, Sequences, SequencesExt

CONSTANTS Ids, Bound

VARIABLE log

Init == log = <<>>

\* The newest Bound entries of s.
Newest(s) == IF Len(s) > Bound THEN SubSeq(s, Len(s) - Bound + 1, Len(s)) ELSE s

Insert(i) ==
    /\ i \notin ToSet(log)
    /\ log' = Newest(Append(log, i))

\* Some held ids are removed; the others keep their relative order.
Discard(D) ==
    /\ D # {} /\ D \subseteq ToSet(log)
    /\ log' = SelectSeq(log, LAMBDA x : x \notin D)

Next == \/ \E i \in Ids : Insert(i)
        \/ \E D \in SUBSET Ids : Discard(D)

Spec == Init /\ [][Next]_log
=============================================================================
