--------------------------- MODULE MC_Preferences ---------------------------
EXTENDS Preferences, TLC

CONSTANTS none, a

Nk(c, p, b) == [core |-> c, pad |-> p, bad |-> b]
Size(hi, lo) == [hi |-> hi, lo |-> lo]
App(t, f, s) == [theme |-> t, font_family |-> f, font_size |-> s]
NoFlags == [k \in {} |-> FALSE]

\* Adjective, noun and three digits: 10 to 17 bytes.
MCDefaultNicks == {Nk(10, 0, FALSE), Nk(17, 0, FALSE)}

\* Nicknames padded, with an invalid character, blank, one byte too long
\* only before trimming, and exactly 50 bytes; font sizes below, inside
\* and above the clamp, and one above 2^32.
MCJsons ==
    { [nickname |-> Nk(2, 2, FALSE), flags |-> ("auto_connect" :> FALSE), appearance |-> none],
      [nickname |-> Nk(3, 0, TRUE), flags |-> ("relay_messages" :> FALSE), appearance |-> none],
      [nickname |-> Nk(0, 3, FALSE), flags |-> NoFlags, appearance |-> App("light", none, Size(0, 30))],
      [nickname |-> Nk(49, 2, FALSE), flags |-> ("encryption_enabled" :> FALSE), appearance |-> none],
      [nickname |-> none, flags |-> ("relay_messages" :> FALSE) @@ ("encryption_enabled" :> TRUE),
       appearance |-> App("light", "serif", Size(1, 20))],
      [nickname |-> Nk(50, 0, FALSE), flags |-> ("relay_messages" :> TRUE),
       appearance |-> App(none, none, Size(0, 5))],
      [nickname |-> none, flags |-> ("auto_connect" :> TRUE) @@ ("sound_enabled" :> TRUE),
       appearance |-> App("dark", "monospace", Size(0, 16))],
      [nickname |-> Nk(5, 1, FALSE), flags |-> ("save_message_history" :> FALSE),
       appearance |-> App(none, "serif", none)] }
\* One peer suffices: every list method is idempotent per peer, so a
\* second peer adds no interleaving a property distinguishes.
MCPeerIds == {a}
MCChannelPrefs == {[name |-> "general", auto_join |-> TRUE],
                   [name |-> "general", auto_join |-> FALSE]}
MCShortcuts == {<<"search", "Enter">>}
\* Every security option on; and the defaults with a retention of 0 days.
MCPrivacyInputs ==
    {[data_retention_days |-> 30, rotate_peer_id |-> TRUE, block_unknown_peers |-> TRUE,
      require_encryption |-> TRUE, verify_fingerprints |-> TRUE, emergency_wipe_enabled |-> TRUE],
     [PrivacyDefault EXCEPT !.data_retention_days = 0]}
MCBatteryInputs == {[scan_interval_seconds |-> 0]}
=============================================================================
