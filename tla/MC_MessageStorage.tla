------------------------- MODULE MC_MessageStorage --------------------------
EXTENDS MessageStorage, TLC

CONSTANTS none, malformed, a, b, c1

Rec(id, type, ch, s, r, ts) ==
    [id |-> id, type |-> type, ch |-> ch, sender |-> s, recipient |-> r,
     status |-> "Sent", delivery |-> none, ts |-> ts]

\* A broadcast and a private message sent at time 1, two channel messages
\* at time 2: one more than the store holds.
m1 == Rec(1, "Broadcast", none, a, none, 1)
m2 == Rec(2, "Private", none, a, b, 1)
m3 == Rec(3, "Channel", "#t", b, none, 2)
m4 == Rec(4, "Channel", "#t", a, none, 2)

MCMessages == {m1, m2, m3, m4}

\* An import array with an element that fails to parse, and one that
\* repeats an id.
MCBatches == {<<m3, malformed, m1>>, <<m2, m2>>}

MCScopes == {none, "public", "#t"}
=============================================================================
