----------------------------- MODULE Preferences -----------------------------
(***************************************************************************)
(* UserPreferences (ui_state/preferences.rs) as the host changes it: the  *)
(* update_preferences command (ui_state/mod.rs) takes the RwLock write     *)
(* guard and runs update_from_json under it, so each command is one step. *)
(* The other methods of UserPreferences (the peer lists, channel          *)
(* preferences, shortcuts, theme and font setters, the settings updates   *)
(* and reset_to_defaults) have no caller in the app yet; they are actions  *)
(* of the API, each one step under the same guard.                         *)
(*                                                                         *)
(* A nickname is abstracted to what set_nickname looks at: the number of  *)
(* bytes of its trimmed content (core), of the whitespace around it (pad) *)
(* and whether it contains '@', '#' or '/' (bad).  A JSON number given as  *)
(* font_size is a u64, split into its high and low 32-bit halves.          *)
(***************************************************************************)
EXTENDS Naturals, SequencesExt

CONSTANTS
    None,          \* a key absent from the JSON, or a value of another type
    Jsons,         \* the objects update_preferences is given
    DefaultNicks,  \* nicknames generate_default_nickname can return
    PeerIds,       \* peer ids given to the favorite and block methods
    ChannelPrefs,  \* ChannelPreference values given to set_channel_preference
    Shortcuts,     \* <<action, shortcut>> pairs given to set_keyboard_shortcut
    Themes,        \* themes given to set_theme
    FontSizes,     \* u32 sizes given to set_font
    PrivacyInputs, \* PrivacySettings given to update_privacy_settings
    BatteryInputs  \* BatterySettings given to update_battery_settings

\* The boolean settings update_from_json reads.
BoolKeys == {"auto_connect", "remember_channels", "save_message_history",
             "encryption_enabled", "enhanced_crypto_enabled",
             "discovery_enabled", "relay_messages"}

Nick == [core : 0..60, pad : 0..4, bad : BOOLEAN]

\* nickname.len(), in bytes, and nickname.trim().
ByteLen(nk) == nk.core + nk.pad
Trim(nk) == [nk EXCEPT !.pad = 0]

\* (font_size as u32): the cast keeps the low 32 bits.
AsU32(v) == v.lo

\* u32::clamp(10, 24).
Clamp(x) == IF x < 10 THEN 10 ELSE IF x > 24 THEN 24 ELSE x

VARIABLES
    prefs,   \* the UserPreferences behind the RwLock
    last     \* the last command: its JSON and whether it returned Ok

vars == <<prefs, last>>

\* The defaults of BatterySettings, PrivacySettings and AppearanceSettings
\* that the model reads.
BatteryDefault == [scan_interval_seconds |-> 5]
PrivacyDefault == [data_retention_days |-> 30, rotate_peer_id |-> TRUE,
                   block_unknown_peers |-> FALSE, require_encryption |-> TRUE,
                   verify_fingerprints |-> FALSE, emergency_wipe_enabled |-> TRUE]
AppearanceDefault == [theme |-> "dark", font_family |-> "monospace", font_size |-> 14]

\* default_keyboard_shortcuts, restricted to the actions the model rebinds.
ShortcutsDefault == ("send_message" :> "Enter") @@ ("search" :> "Ctrl+F")

\* UserPreferences::new, with a random default nickname.
NewPrefs(nk) ==
    [nickname |-> nk,
     flags |-> [k \in BoolKeys |-> k # "enhanced_crypto_enabled"],
     battery |-> BatteryDefault, privacy |-> PrivacyDefault,
     appearance |-> AppearanceDefault,
     keyboard_shortcuts |-> ShortcutsDefault,
     blocked_peers |-> <<>>, favorite_peers |-> <<>>, custom_channels |-> <<>>]

Init == /\ \E nk \in DefaultNicks : prefs = NewPrefs(nk)
        /\ last = [json |-> None, ok |-> TRUE]

\* Mutant: the nickname is stored as given, untrimmed.
set_nickname_untrimmed(p, nk) ==
    IF nk.core = 0 \/ ByteLen(nk) > 50 \/ nk.bad
    THEN [ok |-> FALSE, p |-> p]
    ELSE [ok |-> TRUE, p |-> [p EXCEPT !.nickname = nk]]

\* set_nickname: the three checks in order, then the trimmed nickname is
\* stored.  A result is the preferences after the call and whether it
\* returned Ok.
set_nickname(p, nk) ==
    IF nk.core = 0 \/ ByteLen(nk) > 50 \/ nk.bad
    THEN [ok |-> FALSE, p |-> p]
    ELSE [ok |-> TRUE, p |-> [p EXCEPT !.nickname = Trim(nk)]]

\* The boolean keys present in the JSON overwrite their settings; other
\* keys are not read.
ApplyFlags(p, j) ==
    [p EXCEPT !.flags = [k \in BoolKeys |->
                            IF k \in DOMAIN j.flags THEN j.flags[k] ELSE @[k]]]

\* The "appearance" object: theme, font_family and the clamped font_size.
ApplyAppearance(p, j) ==
    LET a == j.appearance IN
    IF a = None THEN p
    ELSE [p EXCEPT
            !.appearance.theme = IF a.theme = None THEN @ ELSE a.theme,
            !.appearance.font_family = IF a.font_family = None THEN @ ELSE a.font_family,
            !.appearance.font_size = IF a.font_size = None THEN @
                                     ELSE Clamp(AsU32(a.font_size))]

\* Mutant: the booleans are applied before the nickname is checked.
update_from_json_flags_first(p, j) ==
    LET q == ApplyFlags(p, j)
        r == IF j.nickname = None THEN [ok |-> TRUE, p |-> q] ELSE set_nickname(q, j.nickname)
    IN IF r.ok THEN [ok |-> TRUE, p |-> ApplyAppearance(r.p, j)] ELSE r

\* update_from_json: the nickname first, returning on its error with
\* nothing changed; then the booleans; then the appearance.
update_from_json(p, j) ==
    LET r == IF j.nickname = None THEN [ok |-> TRUE, p |-> p] ELSE set_nickname(p, j.nickname)
    IN IF r.ok THEN [ok |-> TRUE, p |-> ApplyAppearance(ApplyFlags(r.p, j), j)] ELSE r

\* BitchatState::update_preferences.
update_preferences(j) ==
    LET r == update_from_json(prefs, j) IN
    /\ prefs' = r.p
    /\ last' = [json |-> j, ok |-> r.ok]

-----------------------------------------------------------------------------
(* The API methods.  Each returns (), so the call is recorded as Ok.       *)

Returned == last' = [json |-> None, ok |-> TRUE]

\* Vec::retain on the peer lists (Vec::contains is Contains).
Without(s, x) == SelectSeq(s, LAMBDA y : y # x)

\* Mutant: the peer is pushed without the contains check.
add_favorite_peer_dup(peer) ==
    /\ prefs' = [prefs EXCEPT !.favorite_peers = Append(@, peer)]
    /\ Returned

add_favorite_peer(peer) ==
    /\ prefs' = [prefs EXCEPT !.favorite_peers = IF Contains(@, peer) THEN @ ELSE Append(@, peer)]
    /\ Returned

remove_favorite_peer(peer) ==
    /\ prefs' = [prefs EXCEPT !.favorite_peers = Without(@, peer)]
    /\ Returned

\* block_peer: pushed if absent, then removed from the favorites.
block_peer(peer) ==
    /\ prefs' = [prefs EXCEPT !.blocked_peers = IF Contains(@, peer) THEN @ ELSE Append(@, peer),
                                 !.favorite_peers = Without(@, peer)]
    /\ Returned

unblock_peer(peer) ==
    /\ prefs' = [prefs EXCEPT !.blocked_peers = Without(@, peer)]
    /\ Returned

\* set_channel_preference: replace the entry of that name, else push.
set_channel_preference(cp) ==
    LET k == SelectInSeq(prefs.custom_channels, LAMBDA c : c.name = cp.name) IN
    /\ prefs' = [prefs EXCEPT !.custom_channels = IF k = 0 THEN Append(@, cp) ELSE [@ EXCEPT ![k] = cp]]
    /\ Returned

remove_channel_preference(name) ==
    /\ prefs' = [prefs EXCEPT !.custom_channels = SelectSeq(@, LAMBDA c : c.name # name)]
    /\ Returned

set_keyboard_shortcut(action, shortcut) ==
    /\ prefs' = [prefs EXCEPT !.keyboard_shortcuts = (action :> shortcut) @@ @]
    /\ Returned

set_theme(theme) ==
    /\ prefs' = [prefs EXCEPT !.appearance.theme = theme]
    /\ Returned

\* set_font: the family and the size clamped to 10..24.
set_font(family, size) ==
    /\ prefs' = [prefs EXCEPT !.appearance.font_family = family,
                                 !.appearance.font_size = Clamp(size)]
    /\ Returned

set_enhanced_crypto(enabled) ==
    /\ prefs' = [prefs EXCEPT !.flags["enhanced_crypto_enabled"] = enabled]
    /\ Returned

update_privacy_settings(settings) == 
    /\ prefs' = [prefs EXCEPT !.privacy = settings]
    /\ Returned
update_battery_settings(settings) == 
    /\ prefs' = [prefs EXCEPT !.battery = settings]
    /\ Returned

\* reset_to_defaults: new(), keeping the nickname.
reset_to_defaults == 
    /\ prefs' = NewPrefs(prefs.nickname)
    /\ Returned

Next ==
    \/ \E j \in Jsons : update_preferences(j)
    \/ \E peer \in PeerIds : \/ add_favorite_peer(peer) \/ remove_favorite_peer(peer)
                            \/ block_peer(peer) \/ unblock_peer(peer)
    \/ \E cp \in ChannelPrefs : set_channel_preference(cp) \/ remove_channel_preference(cp.name)
    \/ \E sc \in Shortcuts : set_keyboard_shortcut(sc[1], sc[2])
    \/ \E t \in Themes : set_theme(t)
    \/ \E sz \in FontSizes : set_font("serif", sz)
    \/ \E b \in BOOLEAN : set_enhanced_crypto(b)
    \/ \E ps \in PrivacyInputs : update_privacy_settings(ps)
    \/ \E bs \in BatteryInputs : update_battery_settings(bs)
    \/ reset_to_defaults

Spec == Init /\ [][Next]_vars

\* get_security_level: the weighted score of the security options, then
\* the level of its range.
SecurityWeights == ("encryption_enabled" :> 20) @@ ("enhanced_crypto_enabled" :> 20)
    @@ ("require_encryption" :> 15) @@ ("verify_fingerprints" :> 15)
    @@ ("rotate_peer_id" :> 10) @@ ("block_unknown_peers" :> 10)
    @@ ("emergency_wipe_enabled" :> 10)

\* The options get_security_level reads, from the flags and privacy settings.
SecurityOptions(p) ==
    [k \in DOMAIN SecurityWeights |->
        IF k \in BoolKeys THEN p.flags[k] ELSE p.privacy[k]]

Score(opts) ==
    FoldFunctionOnSet(LAMBDA w, acc : w + acc, 0, SecurityWeights,
                      {k \in DOMAIN opts : opts[k]})

\* Mutant: the High range starts one point late.
Level_gap(score) ==
    CASE score \in 90..100 -> "Maximum"
      [] score \in 71..89 -> "High"
      [] score \in 50..69 -> "Medium"
      [] score \in 30..49 -> "Low"
      [] OTHER -> "Minimal"

\* The match on the score.
Level(score) ==
    CASE score \in 90..100 -> "Maximum"
      [] score \in 70..89 -> "High"
      [] score \in 50..69 -> "Medium"
      [] score \in 30..49 -> "Low"
      [] OTHER -> "Minimal"

get_security_level(p) == Level(Score(SecurityOptions(p)))

\* UserPreferences::validate.
validate(p) ==
    /\ p.nickname.core > 0
    /\ p.battery.scan_interval_seconds # 0
    /\ p.privacy.data_retention_days # 0

-----------------------------------------------------------------------------
TypeOK ==
    /\ prefs.nickname \in Nick
    /\ prefs.flags \in [BoolKeys -> BOOLEAN]
    /\ prefs.appearance.font_size \in Nat
    /\ prefs.favorite_peers \in Seq(PeerIds) /\ prefs.blocked_peers \in Seq(PeerIds)
    /\ ToSet(prefs.custom_channels) \subseteq ChannelPrefs
    /\ last.ok \in BOOLEAN

\* Whatever sequence of commands and API calls runs, the stored nickname
\* keeps set_nickname's rules (non-empty, trimmed, at most 50 bytes, none
\* of @ # /; reset_to_defaults keeps it) and the font size stays in
\* 10..24, through both update_from_json and set_font.
PreferencesValid ==
    /\ prefs.nickname.core > 0 /\ prefs.nickname.pad = 0
    /\ prefs.nickname.core <= 50 /\ ~prefs.nickname.bad
    /\ prefs.appearance.font_size \in 10..24

\* The favorites and the blocklist hold each peer at most once and the
\* custom channels each name at most once, whatever order the add, block,
\* unblock, set and remove calls come in.
PeerListsDistinct ==
    /\ IsInjective(prefs.favorite_peers)
    /\ IsInjective(prefs.blocked_peers)
    /\ IsInjective([k \in DOMAIN prefs.custom_channels |-> prefs.custom_channels[k].name])

\* From any preferences the calls reach, turning one more security option
\* on never lowers get_security_level: the match ranges of the score are
\* ordered and leave no gap.
Rank == ("Minimal" :> 0) @@ ("Low" :> 1) @@ ("Medium" :> 2) @@ ("High" :> 3) @@ ("Maximum" :> 4)
SecurityLevelMonotone ==
    LET x == SecurityOptions(prefs) IN
    \A k \in DOMAIN x :
        Rank[Level(Score(x))] <= Rank[Level(Score([x EXCEPT ![k] = TRUE]))]

\* block_peer's comment: a blocked peer is removed from the favorites; no
\* peer is both blocked and a favorite.
BlockedNotFavorite ==
    \A k \in DOMAIN prefs.blocked_peers : ~Contains(prefs.favorite_peers, prefs.blocked_peers[k])

\* The stored preferences pass validate().
ValidateHolds == validate(prefs)

\* A command that returns an error leaves every setting as it was: the
\* host is told the update failed, so none of it may have been applied.
RejectedUpdateChangesNothing ==
    [][~last'.ok => prefs' = prefs]_vars

\* The font size stored is the one asked for, clamped to 10..24.
FontSizeFollowsRequest ==
    [][last'.ok /\ last'.json # None /\ last'.json.appearance # None /\ last'.json.appearance.font_size # None =>
         prefs'.appearance.font_size =
             LET v == last'.json.appearance.font_size IN
             IF v.hi > 0 THEN 24 ELSE Clamp(v.lo)]_vars
=============================================================================
