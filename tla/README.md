# TLA+ models of bitchat-tauri

This directory models the Rust back end of bitchat-tauri
(`src/bitchat-tauri/src`) for the TLC model checker. Every module is
translated from the source. `PROJECT.json` maps each definition to the
lines it models, lists the runs, the mutants that show each checked
property can fail, the findings, and the hazards.

## The system

The app is a Tauri application. `main.rs` exposes commands that forward to
three services held in `AppState`:

* **BluetoothMeshService** (`bluetooth/mesh_service.rs`). `start()` finds
  an adapter and starts the scan. It then spawns four kinds of task:
  * an event loop that connects discovered devices
    (`attempt_connection`, `setup_peripheral_connection`) and drops
    disconnected ones;
  * a scan-restart task (every 30 s);
  * a message-processing task;
  * a peer-cleanup ticker (every 60 s).

  `stop()` clears the flags, disconnects every peer and stops the scan. A
  per-connection notification task decodes incoming frames
  (`handle_notification`). An Announce updates the peer directory.
* **PeerManager** (`bluetooth/peer_manager.rs`) is the peer directory:
  DashMaps of peers, blocked peers and favorites, and
  `cleanup_offline_peers`.
* **BitchatProtocol** (`bluetooth/protocol.rs`) is the binary frame codec.
* **MessageRouter / MessageStorage** (`message/*`) store local messages and
  process incoming ones. The send commands only store locally; the router
  is not connected to the mesh.
* **NoiseEngine** (`crypto/noise_protocol.rs`) is a handshake state
  machine. Only the fingerprint functions are called by the app.
* **ChannelCrypto** (`crypto/channel_crypto.rs`) holds channel keys derived
  from passwords, in two DashMaps.
* **BitchatState** (`ui_state/*`) holds the user preferences behind a
  RwLock; `update_preferences` applies a JSON object to them.

The services interact where the mesh service calls the peer directory (on
Announce and from the cleanup ticker) and the codec (on send and on
notification).

## Modules

| module | models | state | actions |
|---|---|---|---|
| `PeerManager` | `peer_manager.rs`, and its two callers in `mesh_service.rs` (announce handling, cleanup ticker) | `peers`, `blocked`, `favorites`, the program counters of the notification tasks, the host and the cleaner, and the cleaner's `toRemove` | each method is split at its DashMap calls: each call is atomic, the method is not; `update_peer_rssi`, one call, refreshes `last_seen` |
| `MeshService` | `mesh_service.rs` lifecycle, event loop, scan restart, cleanup ticker | `running`, `scanFlag`, `radio`, `conns`, `linked` (links open at the radio), `lock` (the adapter tokio Mutex), per-loop event queues, per-task program counters | one action per await-separated step |
| `WireCodec` | `protocol.rs` encode/decode/flags/constructors, `send_message_to_peer`, `handle_notification` | `msg`, `sent`, `refused`, `air` (bytes written by any peer), `delivered` | `Send`, `ForeignWrite` (a peer writes a truncated, extended or retyped copy), `handle_notification` |
| `NoiseHandshake` | `noise_protocol.rs` NoiseEngine and NoiseSession | `sessions` (per engine, peer -> state and expiry), `net` (a bag of frames), the cleanup's `cpc` and `expiredPeers` | `start_handshake`, the three outcomes of `process_handshake_message`, `Expire`, `CleanupCollect`/`CleanupRemove`, and the link's `Duplicate` and `Lose` |
| `BoundedLog` | spec section 3, the abstract store | `log` | `Insert` with FIFO eviction, `Discard` of a set of entries |
| `MessageStore` | `storage.rs` `store_message` | `messages` (the VecDeque) | `store_message`: dedup, push, evict |
| `MessageStorage` | the rest of `storage.rs` | `messages`, `ipc` (what an import still has to store) | status and delivery updates, `delete_message`, `delete_old_messages`, `clear_all_messages`, `import_messages` one element per step; `get_messages`, `get_private_messages` and `get_messages_from_sender` as operators |
| `MessageRouter` | `router.rs` | the store, `message_cache`, `active_channels`, `routing_table`, per-caller `pc` and `cur` | every method split at its awaits, run by two command tasks |
| `ChannelCrypto` | `channel_crypto.rs` | `channel_keys`, `password_cache`, per-caller `pc`/`arg`, the cleanup's `toRemove`, `sent` and `opened` ciphertexts | set/remove password (two DashMap calls each), encrypt, decrypt, `try_decrypt_with_password`, `import_channel_key`, key aging, cleanup |
| `Preferences` | `preferences.rs` and `BitchatState::update_preferences` | `prefs`, `last` (the last command and its result) | `update_preferences`, one step under the write guard; every other `UserPreferences` method (favourite and blocked peers, channel preferences, shortcuts, theme, font, crypto, privacy, battery, reset) as one API action each; `get_security_level` as an operator folding weights over the enabled options |

Composition and refinement:
* `MessageStore` instantiates `BoundedLog` (`Log == INSTANCE BoundedLog
  WITH ...`), mapping the stored messages to their ids.
* `MessageRouter` instantiates `MessageStore` over its own messages; its
  `SeenInStore` reads the store through that instance.
* `MessageStorage` extends `MessageStore`. Its property
  `StorageRefinesLog` shows that deletes, clears and interleaved imports
  still implement the abstract log. A delete is a `Discard` there.

Data is abstracted as follows:
* Peers, devices, links, callers, channels and passwords are model values.
* Time is a boolean ("heard recently", "expired", "aged"), or a small
  timestamp for `delete_old_messages`.
* In the codec, frames are real byte sequences; only the payload contents
  are abstracted, to a run of one byte.
* The channel cipher is the real XOR over bytes, with two-byte keys.
  `derive_key` (SHA-256) is a table from password to distinct keys.
* A nickname is its trimmed length, its padding and whether it holds
  `@`, `#` or `/`. A JSON font size is a u64 split into 32-bit halves.

## Runs

| run | result | what it shows |
|---|---|---|
| `pm` | pass | `TypeOK`, whose mutant drops the own-id check of `add_or_update_peer`. `EvictionProgress`: offline non-favorite peers are eventually evicted or heard again. |
| `pm_evict_online` | violation | `cleanup_offline_peers` removes a peer that became Connected between its two loops. |
| `ms` | pass | `TypeOK` (the adapter Mutex is held by exactly the loop inside `attempt_connection`), `NoDuplicateConnect`, `ConnectionsEventuallyPruned` with two host callers, whose concurrent `start()` calls each spawn an event loop, and a `stop()` racing a `start()`. `Setup` may insert a connection whose link dropped after `subscribe` (line 275), with its `DeviceDisconnected` already queued; the liveness property covers that case. |
| `ms_stopped` | violation | After `stop()` returns, the scan-restart task restarts the scan, and the un-cancelled event loop can still connect a device. |
| `ms_link_leak` | violation | `setup_peripheral_connection` failing after `connect()` leaves an open link that no map tracks. |
| `wc` | pass | `RoundTrip`: every constructible frame decodes from its encoding to itself, at payload lengths either side of the 512-byte ceiling. |
| `nh` | pass | `ResponderSettles`: with restarts, duplicates, losses and timeouts, a settled handshake leaves the responder Complete. |
| `mr` | pass | `SeenInStore`: with two tasks sending, joining, leaving and processing incoming messages, the seen-cache names only ids stored or evicted. The store's own refinement is the `st` run's. |
| `st` | pass | `TypeOK` (at most `max_messages` stored) and `StorageRefinesLog`: with imports interleaved with deletes and clears, the store stays the bounded log. The history queries (`get_messages` and its siblings) are operators that no run checks: filter, reverse, take holds of any sequence. |
| `cc` | pass | `CipherRoundTrip`: under two concurrent callers, decrypting with the key of the encryption returns the plaintext, for plaintexts shorter and longer than the key. |
| `cc_key_password` | violation | Two concurrent `set_channel_password` calls for one channel leave the key of one password beside the other password. |
| `pf` | pass | `PreferencesValid`: any sequence of `update_preferences` and API calls keeps nickname and font size valid. `PeerListsDistinct`: the favourite and blocked lists and the channel names hold no duplicate. `SecurityLevelMonotone`: enabling one more option never lowers the security level (the score bands leave no gap). `RejectedUpdateChangesNothing`: a command that returns an error changes nothing. |

The `pm`, `ms`, `nh`, `st` and `cc` runs also check the module's
`TypeOK`; the other modules' type invariants hold by construction and no
plausible code bug breaks them, so no run checks them. Each property of a
passing run has a mutant in `PROJECT.json`: a plausible bug in a mapped
definition, which TLC then finds violated. Each violation run checks one
property and has a finding.

Some properties are stated in the modules and fail in TLC, but no run
checks them. They are recorded as hazards, because the project keeps to
twelve runs and spends them on reachable code:
* `BlockedFlagged`, `BlockedNeverConnected` and `FavoriteNeverEvicted`
  (PeerManager): an announce whose lookup missed before `block_peer`
  inserts an unflagged entry for the blocked peer afterwards;
* `SweeperWhileRunning` and `NeighborBudget` (MeshService);
* `FitsMeansEncodes`, `StrictDecode` and `UserOnlyFromMessage` (WireCodec);
* `InitiatorSettles`: the initiator never reaches Complete;
* `EstablishedKept` and `CleanupOnlyExpired` (NoiseHandshake);
* `HandledOnce` (MessageRouter): two concurrent
  `process_incoming_message` calls for one id both handle it. Nothing in
  the app calls the method yet.
* `DeliveryNeverRegresses` (MessageStorage): Read goes back to Delivered.
* `WrongKeyRejected` (ChannelCrypto): a wrong password decrypts to garbage
  and replaces the key.
* `FontSizeFollowsRequest` (Preferences): a font size of 2^32 + 20 is
  truncated to 20 before the clamp.
* `BlockedNotFavorite` (Preferences): `block_peer` drops the peer from the
  favourites, but `add_favorite_peer` does not check the blocked list, so
  a blocked peer becomes a favourite again.
* `ValidateHolds` (Preferences): `update_privacy_settings` stores a
  retention of 0 days, which `validate()` rejects; no setter calls it.

Where a cfg file is named after one of these properties (such as
`PeerManager_BlockedFlagged.cfg`), it reproduces the violation.

## Bounds and why they are enough

* **PeerManager.** The pass run has one remote peer, our own id, and two
  notification tasks. Two tasks announcing the same peer race between the
  `get_mut` lookup and the insert, and each races the host's two-call
  methods and both phases of the cleaner. Two peers with two tasks take
  over four minutes. The violation run keeps two peers and two tasks.
* **MeshService.** The pass run has two host callers sharing
  `MaxCalls = 2` calls. Two concurrent `start()` calls both pass the
  `is_running` check, so two event loops share the adapter, and a `stop()`
  can race a `start()`. With three calls and two callers, the liveness
  check does not finish in minutes. `MaxQueue = 1` buffered event per
  loop. The pass run uses one device, since its properties are about one
  device seen by several loops. The violation runs use one caller with
  `MaxCalls = 3` (start, stop, start) and two devices.
* **WireCodec.** Payload lengths 2, 426, 427, 482 and 483, on each side of
  the ceiling for signed and for recipient frames. Every constructor is
  used, with and without a signature. Timestamps stay below 2^31, the TLC
  integer width. There are two distinct 8-byte ids.
* **NoiseHandshake.** Two engines, one initiator, `MaxStarts = 2` (a
  restart over a session in progress) and `MaxDups = 2` duplicated frames.
* **MessageRouter.** Two callers, two incoming and two own ids, one
  channel, `max_messages = 2`, so that eviction happens, and
  `MaxReceipts = 2`.
* **MessageStorage.** `max_messages = 3` with four messages, so eviction
  happens and a delete in the middle moves others. Other settings:
  * one importer, whose batch holds a malformed element and a duplicate;
  * two peers and private messages in both directions;
  * limits 1 and 2, below and at the number of matches.
* **ChannelCrypto.** Two callers, one channel, two passwords, and
  plaintexts of one and three bytes against two-byte keys, so the key
  wraps.
* **Preferences.** Eight JSON objects that cover the following cases:
  * a padded nickname, one with a forbidden character, a blank one, one
    too long only before trimming, and one of exactly 50 bytes;
  * an unknown key;
  * font sizes below, inside and above the clamp, and above 2^32.
  The API actions use one peer id (enough for duplicates and for
  block-then-favourite), one channel name with two settings, one
  shortcut, a font size above the clamp, and privacy inputs that turn
  every option on or set a retention of 0.

## Fairness

* PeerManager: the cleanup ticker is weakly fair. A
  `tokio::time::interval` fires forever while the task lives.
* MeshService: event loops and scan-restart tasks are strongly fair. Each
  competes for the adapter `tokio::sync::Mutex`, which is FIFO-fair.
* Host calls are never fair, because the user may never call again.
* The other modules check only safety and assume no fairness.
* `CHECK_DEADLOCK FALSE` is set only where a behaviour really stops:
  * MeshService: the host-call bound is used up and the radio is off;
  * NoiseHandshake: every frame is consumed and the start bound is used
    up.

## Not modelled

* `security/*`: it is not declared in `main.rs`, so it is not compiled.
* `enhanced_crypto.rs`: library wrappers that nothing calls.
* `ui_state/chat_state.rs`: `ChatState` has no caller (no command in
  `main.rs` reaches it) and shares no state with any other component; its
  setters are single assignments. It would need a run of its own for
  nothing a reviewer would argue about, beyond its `update_from_json`
  skipping the font clamp that `set_font_size` applies.
* The composition of MeshService with PeerManager. `handle_disconnection`
  never touches the peer directory, and the code has no binding from a
  device to a PeerId. A composed model would only restate what spec.md
  already says at line 282 (peer state is not updated on link-down).
* `main.rs`: one-line wrappers.
* The mention, search and unread readers (filters on message text or
  on one status), the statistics and export functions.
* Payload JSON parsing and SHA-256.
* btleplug's own behaviour, beyond the success or failure of each call.

## Plan

Left for the next sittings:
1. NoiseHandshake with both nodes initiators (simultaneous start, no
   tie-break), and a history variable for stale NoiseFinish frames
   (`noise_protocol.rs:195`).
2. An abstract channel keystore, with ChannelCrypto shown to refine it
   apart from the known race.
3. The mesh receive path end to end: WireCodec's `handle_notification`
   feeding the router, once the code connects them.
