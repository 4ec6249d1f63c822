----------------------------- MODULE Configuration -----------------------------
(***************************************************************************)
(* AppConfig::load, src/config.rs: three sources are merged, the later     *)
(* over the earlier, then every setting is deserialised.  The settings     *)
(* here are one of each kind: the others (names, secrets, URLs) have the   *)
(* type of one of them.                                                    *)
(***************************************************************************)
EXTENDS Integers, FiniteSetsExt

CONSTANTS
  Absent,   \* no such setting in the source, or no such source
  Missing,  \* a file that CPA_PORTAL_CONFIG names and that cannot be opened
  Garbled,  \* a file that is opened and does not parse
  Refused,  \* AppConfig::load has failed
  MaxI64,   \* stands for i64::MAX: the TTL is read as u64 and used as i64
  Inputs    \* bound: what the three sources may hold

VARIABLES
  inputs,   \* inputs[n]: source n, the weakest first
  config    \* the configuration: Absent before it is read, or Refused

\* config.* (Absent if it cannot be opened), the file named by CPA_PORTAL_CONFIG
\* (Absent if the variable is not set or blank), the environment CPA_PORTAL__*.
Sources == 1..3
Named == 2

(***************************************************************************)
(* The text of security.api_key_encryption_key, as far as its decoding     *)
(* depends on it: blanks around it or behind its prefix, the prefix        *)
(* "base64:", whether a letter of one alphabet only occurs (+ and /, or -  *)
(* and _), whether it is padded with =, and how many bytes it encodes.     *)
(***************************************************************************)
KeyText == {k \in [blanks : {"none", "around", "inside"}, prefix : BOOLEAN,
                   letters : {"common", "standard", "url"}, padded : BOOLEAN,
                   bytes : {31, 32, 33}] :
              k.padded => k.bytes % 3 # 0}

\* base64ct's Base64 wants the padding, its Base64UrlUnpadded refuses it.
Base64(k) == k.letters # "url" /\ k.padded = (k.bytes % 3 # 0)
Base64UrlUnpadded(k) == k.letters # "standard" /\ ~k.padded

\* EncryptionKey: trim, strip the prefix, decode either way, exactly 32 bytes.
EncryptionKeys ==
  {k \in KeyText : /\ k.blanks # "inside"
                   /\ Base64(k) \/ Base64UrlUnpadded(k)
                   /\ k.bytes = 32}

\* What each setting deserialises from: a SocketAddr, an HttpUrl, a NonZeroU64,
\* a SecretString (its length), an EncryptionKey.
Accepts == [listen   |-> {"address"},
            base_url |-> {"http", "https"},
            ttl      |-> Nat \ {0},
            token    |-> Nat,
            key      |-> EncryptionKeys]
Settings == DOMAIN Accepts

AppConfig == [listen : Accepts.listen, base_url : Accepts.base_url, ttl : Accepts.ttl,
              token : Accepts.token, key : Accepts.key]
ASSUME AppConfigAssumption ==
  Absent \notin AppConfig /\ Refused \notin AppConfig /\ Absent # Refused

\* The settings with a #[serde(default)].
Defaults == [s \in Settings |->
               IF s = "listen" THEN "address" ELSE IF s = "ttl" THEN 1 ELSE Absent]

-----------------------------------------------------------------------------
\* Source n gives setting s.
Gives(in, n, s) == in[n] \notin {Absent, Missing, Garbled} /\ in[n][s] # Absent

\* Faulty variant of the next: the first source that gives a setting wins.
MergedFirst(in, s) ==
  LET gives == {n \in Sources : Gives(in, n, s)}
  IN  IF gives = {} THEN Defaults[s] ELSE in[Min(gives)][s]

\* The value of setting s after the merge.
Merged(in, s) ==
  LET gives == {n \in Sources : Gives(in, n, s)}
  IN  IF gives = {} THEN Defaults[s] ELSE in[Max(gives)][s]

\* build(): required(true) for the named file only; but whatever file is there,
\* the weakest included, has to parse.
FilesRead(in) == in[Named] # Missing /\ \A n \in Sources : in[n] # Garbled

Loads(in) == FilesRead(in) /\ \A s \in Settings : Merged(in, s) \in Accepts[s]

\* A new process with inputs in has read nothing.
ConfigInit == inputs \in Inputs /\ config = Absent

\* AppConfig::load
Load ==
  /\ config = Absent
  /\ config' = IF Loads(inputs) THEN [s \in Settings |-> Merged(inputs, s)] ELSE Refused
  /\ UNCHANGED inputs

ConfigSpec == ConfigInit /\ [][Load]_<<inputs, config>>

-----------------------------------------------------------------------------
Loaded == config \notin {Absent, Refused}

\* Setting s is left to its default, or right in the strongest source giving it.
WellGiven(s) ==
  \/ Defaults[s] # Absent /\ \A n \in Sources : ~Gives(inputs, n, s)
  \/ \E n \in Sources :
       /\ Gives(inputs, n, s)
       /\ \A m \in Sources : Gives(inputs, m, s) => m <= n
       /\ inputs[n][s] \in Accepts[s]

\* No value of a weaker source shows through where a stronger one corrects it,
\* and it stops nothing, however wrong it is: a configuration is refused only
\* for a setting that no source gives rightly last, for a named file that is
\* not there, or for a file as a whole that does not parse.
StrongerSourcesRule ==
  /\ Loaded =>
       \A s \in Settings, n \in Sources :
         Gives(inputs, n, s) =>
           config[s] = inputs[n][s] \/ \E m \in Sources : m > n /\ Gives(inputs, m, s)
  /\ config = Refused =>
       \/ inputs[Named] = Missing
       \/ \E n \in Sources : inputs[n] = Garbled
       \/ \E s \in Settings : ~WellGiven(s)

\* README.md:72 and config.example.toml:31: the key is 32 bytes in Base64 or
\* Base64URL.  (RFC 4648 pads both; the padding of Base64URL may be left out.)
DocumentedKeys ==
  {k \in KeyText : /\ k.blanks = "none" /\ ~k.prefix /\ k.bytes = 32
                   /\ \/ k.letters # "url" /\ k.padded
                      \/ k.letters # "standard"}
DocumentedKeysLoad ==
  config = Refused /\ Merged(inputs, "key") \in DocumentedKeys
    => \/ inputs[Named] = Missing
       \/ \E n \in Sources : inputs[n] = Garbled
       \/ \E s \in Settings \ {"key"} : ~WellGiven(s)
=============================================================================
