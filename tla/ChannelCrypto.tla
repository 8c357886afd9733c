---------------------------- MODULE ChannelCrypto ----------------------------
(***************************************************************************)
(* ChannelCrypto (crypto/channel_crypto.rs): two DashMaps, channel_keys    *)
(* and password_cache, shared by concurrent callers.  Each DashMap call    *)
(* is atomic on its own; a method that makes two of them (insert the key, *)
(* then the password) is two steps, and another caller may run between.   *)
(*                                                                         *)
(* set_channel_password is reached from the host through CryptoEngine;    *)
(* the other methods are public API that no caller reaches yet.            *)
(*                                                                         *)
(* derive_key is SHA-256 over password and salt: Derive gives each pair   *)
(* its own key bytes (the hash is taken to be collision-free).  The       *)
(* cipher is the code's XOR with the key repeated, over real bytes.        *)
(***************************************************************************)
EXTENDS Naturals, Sequences, FiniteSets, Bitwise

CONSTANTS
    Callers,      \* concurrent tasks calling ChannelCrypto
    Channels,     \* channel names
    Passwords,    \* passwords callers supply
    ZeroSalt,     \* the salt from_password uses: [0u8; SALT_SIZE]
    Salts,        \* salts try_decrypt_with_password and import may be given
    Derive,       \* Derive[pw, salt]: the key bytes derive_key returns
    Plaintexts    \* byte sequences callers encrypt

Byte == 0..255

\* ChannelKey::derive_key.
derive_key(pw, salt) == Derive[pw, salt]

\* ChannelKey::from_password_and_salt: created_at = last_used = now, so the
\* key is recently used.
FromPasswordAndSalt(pw, salt) ==
    [pw |-> pw, salt |-> salt, key |-> derive_key(pw, salt), recent |-> TRUE]

\* ChannelKey::from_password: the simplified zero salt.
FromPassword(pw) == FromPasswordAndSalt(pw, ZeroSalt)

\* Mutant: bytes combined by addition instead of XOR.
EncryptBytes_added(data, key) ==
    [i \in 1..Len(data) |-> data[i] + key[((i - 1) % Len(key)) + 1]]

\* encrypt_channel_message's loop: byte i (0-based) ^ key[i % key.len()].
EncryptBytes(data, key) ==
    [i \in 1..Len(data) |-> data[i] ^^ key[((i - 1) % Len(key)) + 1]]

\* Mutant: the key index is one ahead of the byte index.
DecryptBytes_shifted(data, key) ==
    [i \in 1..Len(data) |-> data[i] ^^ key[(i % Len(key)) + 1]]

\* decrypt_channel_message's and try_decrypt_with_password's loop.
DecryptBytes(data, key) ==
    [i \in 1..Len(data) |-> data[i] ^^ key[((i - 1) % Len(key)) + 1]]

Put(f, k, v) == [x \in DOMAIN f \cup {k} |-> IF x = k THEN v ELSE f[x]]
Drop(f, k) == [x \in DOMAIN f \ {k} |-> f[x]]

VARIABLES
    channel_keys,    \* channel -> ChannelKey
    password_cache,  \* channel -> password
    pc,              \* where each caller is inside a two-call method
    arg,             \* the channel and password of the call in progress
    toRemove,        \* the to_remove vector of cleanup_unused_keys
    sent,            \* ciphertexts encrypt_channel_message returned
    opened           \* plaintexts the decrypt methods returned

vars == <<channel_keys, password_cache, pc, arg, toRemove, sent, opened>>

NoArg == [ch |-> "none", pw |-> "none"]

\* ChannelCrypto::new.
Init ==
    /\ channel_keys = [ch \in {} |-> FromPassword(CHOOSE p \in Passwords : TRUE)]
    /\ password_cache = [ch \in {} |-> CHOOSE p \in Passwords : TRUE]
    /\ pc = [c \in Callers |-> "Idle"]
    /\ arg = [c \in Callers |-> NoArg]
    /\ toRemove = [c \in Callers |-> {}]
    /\ sent = {}
    /\ opened = {}

Idle(c) == pc[c] = "Idle"

-----------------------------------------------------------------------------
\* set_channel_password: channel_keys.insert, then password_cache.insert.
set_channel_password(c, ch, pw) ==
    /\ Idle(c)
    /\ channel_keys' = Put(channel_keys, ch, FromPassword(pw))
    /\ pc' = [pc EXCEPT ![c] = "PutPassword"]
    /\ arg' = [arg EXCEPT ![c] = [ch |-> ch, pw |-> pw]]
    /\ UNCHANGED <<password_cache, toRemove, sent, opened>>

\* The password_cache.insert that ends set_channel_password,
\* try_decrypt_with_password and import_channel_key.
PutPassword(c) ==
    /\ pc[c] = "PutPassword"
    /\ password_cache' = Put(password_cache, arg[c].ch, arg[c].pw)
    /\ pc' = [pc EXCEPT ![c] = "Idle"]
    /\ arg' = [arg EXCEPT ![c] = NoArg]
    /\ UNCHANGED <<channel_keys, toRemove, sent, opened>>

\* remove_channel_password: channel_keys.remove, then password_cache.remove.
remove_channel_password(c, ch) ==
    /\ Idle(c)
    /\ channel_keys' = Drop(channel_keys, ch)
    /\ pc' = [pc EXCEPT ![c] = "RemovePassword"]
    /\ arg' = [arg EXCEPT ![c] = [ch |-> ch, pw |-> "none"]]
    /\ UNCHANGED <<password_cache, toRemove, sent, opened>>

RemovePassword(c) ==
    /\ pc[c] = "RemovePassword"
    /\ password_cache' = Drop(password_cache, arg[c].ch)
    /\ pc' = [pc EXCEPT ![c] = "Idle"]
    /\ arg' = [arg EXCEPT ![c] = NoArg]
    /\ UNCHANGED <<channel_keys, toRemove, sent, opened>>

\* encrypt_channel_message: under the get_mut guard, mark the key used and
\* XOR the plaintext with it.  Without a key it returns "Channel key not
\* found" and changes nothing.
encrypt_channel_message(ch, pt) ==
    LET k == channel_keys[ch].key IN
    /\ ch \in DOMAIN channel_keys
    /\ channel_keys' = [channel_keys EXCEPT ![ch].recent = TRUE]
    /\ sent' = sent \cup {[ch |-> ch, pt |-> pt, ct |-> EncryptBytes(pt, k), key |-> k]}
    /\ UNCHANGED <<password_cache, pc, arg, toRemove, opened>>

\* decrypt_channel_message of a ciphertext sent on the channel, with the
\* key the channel holds now.
decrypt_channel_message(ch, s) ==
    LET k == channel_keys[ch].key IN
    /\ ch \in DOMAIN channel_keys /\ s.ch = ch
    /\ channel_keys' = [channel_keys EXCEPT ![ch].recent = TRUE]
    /\ opened' = opened \cup {[pt |-> s.pt, ekey |-> s.key, dkey |-> k,
                               out |-> DecryptBytes(s.ct, k)]}
    /\ UNCHANGED <<password_cache, pc, arg, toRemove, sent>>

\* try_decrypt_with_password: decrypt with a temporary key, then cache that
\* key and the password, whatever the result.
try_decrypt_with_password(c, s, pw, salt) ==
    LET t == FromPasswordAndSalt(pw, salt) IN
    /\ Idle(c)
    /\ opened' = opened \cup {[pt |-> s.pt, ekey |-> s.key, dkey |-> t.key,
                               out |-> DecryptBytes(s.ct, t.key)]}
    /\ channel_keys' = Put(channel_keys, s.ch, t)
    /\ pc' = [pc EXCEPT ![c] = "PutPassword"]
    /\ arg' = [arg EXCEPT ![c] = [ch |-> s.ch, pw |-> pw]]
    /\ UNCHANGED <<password_cache, toRemove, sent>>

\* import_channel_key of an export with a well-formed salt (a malformed
\* one bails before any insert).
import_channel_key(c, ch, pw, salt) ==
    /\ Idle(c)
    /\ channel_keys' = Put(channel_keys, ch, FromPasswordAndSalt(pw, salt))
    /\ pc' = [pc EXCEPT ![c] = "PutPassword"]
    /\ arg' = [arg EXCEPT ![c] = [ch |-> ch, pw |-> pw]]
    /\ UNCHANGED <<password_cache, toRemove, sent, opened>>

\* Time passes: a key's last_used falls behind the cleanup cutoff.
Age(ch) ==
    /\ ch \in DOMAIN channel_keys /\ channel_keys[ch].recent
    /\ channel_keys' = [channel_keys EXCEPT ![ch].recent = FALSE]
    /\ UNCHANGED <<password_cache, pc, arg, toRemove, sent, opened>>

\* cleanup_unused_keys: collect the keys not used since the cutoff; if
\* there are none the method returns.
CleanupCollect(c) ==
    LET ids == {ch \in DOMAIN channel_keys : ~channel_keys[ch].recent} IN
    /\ Idle(c) /\ ids # {}
    /\ toRemove' = [toRemove EXCEPT ![c] = ids]
    /\ pc' = [pc EXCEPT ![c] = "CleanKey"]
    /\ UNCHANGED <<channel_keys, password_cache, arg, sent, opened>>

\* Then, per collected channel, remove the key, then the password.
CleanKey(c, ch) ==
    /\ pc[c] = "CleanKey" /\ ch \in toRemove[c]
    /\ channel_keys' = Drop(channel_keys, ch)
    /\ toRemove' = [toRemove EXCEPT ![c] = @ \ {ch}]
    /\ pc' = [pc EXCEPT ![c] = "CleanPassword"]
    /\ arg' = [arg EXCEPT ![c] = [ch |-> ch, pw |-> "none"]]
    /\ UNCHANGED <<password_cache, sent, opened>>

CleanPassword(c) ==
    /\ pc[c] = "CleanPassword"
    /\ password_cache' = Drop(password_cache, arg[c].ch)
    /\ pc' = [pc EXCEPT ![c] = IF toRemove[c] = {} THEN "Idle" ELSE "CleanKey"]
    /\ arg' = [arg EXCEPT ![c] = NoArg]
    /\ UNCHANGED <<channel_keys, toRemove, sent, opened>>

Next ==
    \/ \E c \in Callers :
          \/ \E ch \in Channels, pw \in Passwords : set_channel_password(c, ch, pw)
          \/ \E ch \in Channels : remove_channel_password(c, ch)
          \/ \E s \in sent, pw \in Passwords, salt \in Salts :
                try_decrypt_with_password(c, s, pw, salt)
          \/ \E ch \in Channels, pw \in Passwords, salt \in Salts :
                import_channel_key(c, ch, pw, salt)
          \/ CleanupCollect(c)
          \/ \E ch \in Channels : CleanKey(c, ch)
          \/ PutPassword(c) \/ RemovePassword(c) \/ CleanPassword(c)
    \/ \E ch \in Channels :
          \/ \E pt \in Plaintexts : encrypt_channel_message(ch, pt)
          \/ \E s \in sent : decrypt_channel_message(ch, s)
          \/ Age(ch)

Spec == Init /\ [][Next]_vars

-----------------------------------------------------------------------------
TypeOK ==
    /\ DOMAIN channel_keys \subseteq Channels
    /\ DOMAIN password_cache \subseteq Channels
    /\ \A ch \in DOMAIN password_cache : password_cache[ch] \in Passwords
    /\ pc \in [Callers -> {"Idle", "PutPassword", "RemovePassword", "CleanKey", "CleanPassword"}]
    /\ \A s \in sent : s.ct \in Seq(Byte) /\ Len(s.ct) = Len(s.pt)

\* The channel cipher round-trips: a ciphertext decrypted, by
\* decrypt_channel_message or try_decrypt_with_password, with the key it
\* was encrypted under gives back the plaintext, at every length,
\* including plaintexts longer than the key.  The encrypt and decrypt
\* loops are written separately in the code and must index the key alike.
CipherRoundTrip ==
    \A o \in opened : o.ekey = o.dkey => o.out = o.pt

\* Spec scenario 4: a decrypt with a key derived from another password
\* fails (WrongKey) instead of returning bytes.
WrongKeyRejected ==
    \A o \in opened : o.ekey = o.dkey

\* When no call is in progress, a protected channel's key is the one
\* derived from the password cached for it, so verify_channel_password
\* and export_channel_key describe the key in use.
KeyMatchesPassword ==
    (\A c \in Callers : Idle(c)) =>
        /\ DOMAIN channel_keys = DOMAIN password_cache
        /\ \A ch \in DOMAIN channel_keys : channel_keys[ch].pw = password_cache[ch]
=============================================================================
