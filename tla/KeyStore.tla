------------------------------ MODULE KeyStore ------------------------------
(* The key store of a node, with the envelopes that are sealed to its keys   *)
(* and the tokens it issues: crypto/keystore.py, envelope.py and tokens.py.  *)
(*                                                                           *)
(* A key is the number of the record it was made for; numbers grow, so the   *)
(* order of numbers is the insertion order of `_records`. No method awaits   *)
(* anything, so each is one step; what can happen inside it is that the      *)
(* write of the key file is refused or fails half way, or that the process   *)
(* dies there.                                                               *)
EXTENDS Integers, FiniteSets

CONSTANTS KeyTTL,       \* RETIRED_KEY_TTL
          EnvelopeTTL,  \* max_age_seconds of open_envelope
          FutureTTL,    \* how far in the future a timestamp may be
          TokenTTLs,    \* the ttl_seconds tokens are issued with
          TokenAge,     \* the age no token may exceed
          Skew,         \* how far the clock of a sender may be off
          MaxKeys,      \* bound on the keys ever made
          MaxTime       \* bound on the clock

ASSUME TimesAssumption ==
  /\ {KeyTTL, EnvelopeTTL, FutureTTL, TokenAge, Skew, MaxTime, MaxKeys} \subseteq Nat
  /\ TokenTTLs \subseteq Nat /\ IsFiniteSet(TokenTTLs)

VARIABLES clock,    \* time.time()
          made,     \* how many keys were ever made
          mem,      \* the CryptoKeyStore object
          file,     \* the key file
          card,     \* the static key others know
          envelope, \* one sealed to it
          token,    \* one issued
          revoked,  \* keys up to this one are revoked
          offDuty,  \* rotate_hmac_key() was called while the store did not run
          stale,    \* what memory has more than the file was refused to be written
          lost      \* and is gone for good, or start() made keys twice
vars == <<clock, made, mem, file, card, envelope, token, revoked, offDuty, stale, lost>>

NoKey  == 0
Active == -1    \* retired_at of a key that is not retired
Keys   == 1 .. MaxKeys
Nothing == [x \in {} |-> NoKey]

Record == [type : {"static", "hmac"}, retired : {Active} \cup 0 .. MaxTime]
Envelopes == [key : 0 .. MaxKeys, at : -Skew .. MaxTime + Skew]
Tokens    == [key : 0 .. MaxKeys, at : 0 .. MaxTime, exp : Nat]
Under(T)  == UNION {[S -> T] : S \in SUBSET Keys}   \* what is kept under ids

(* The object in memory: its records, the active static key, the retired     *)
(* static keys under their ids, the HMAC key. It is empty in a new process.  *)
Fresh == [records |-> Nothing, static |-> NoKey, retired |-> Nothing,
          hmac |-> NoKey, running |-> FALSE]

NoFile == [state |-> "none", records |-> Nothing, keys |-> Nothing]
Torn   == [NoFile EXCEPT !.state = "torn"]

Object == [records : Under(Record), static : 0 .. MaxKeys, retired : Under(Keys),
           hmac : 0 .. MaxKeys, running : BOOLEAN]
File   == [state : {"none", "torn", "saved"}, records : Under(Record), keys : Under(Keys)]

TypeOK ==
  /\ clock \in 0 .. MaxTime /\ made \in 0 .. MaxKeys
  /\ mem \in Object /\ file \in File
  /\ card \in 0 .. MaxKeys /\ revoked \in 0 .. MaxKeys
  /\ offDuty \in BOOLEAN /\ stale \in BOOLEAN /\ lost \in BOOLEAN
  /\ envelope \in Envelopes
  /\ token \in Tokens

Init ==
  /\ clock = 0 /\ made = 0 /\ mem = Fresh /\ file = NoFile /\ card = NoKey
  /\ envelope = [key |-> NoKey, at |-> 0]
  /\ token = [key |-> NoKey, at |-> 0, exp |-> 0]
  /\ revoked = 0 /\ offDuty = FALSE /\ stale = FALSE /\ lost = FALSE
-----------------------------------------------------------------------------
(* Records and the file.                                                     *)

\* next(r for r in records.values() if r.key_type == type and not r.is_retired)
FirstActive(records, type) ==
  LET S == {k \in DOMAIN records : records[k] = [type |-> type, retired |-> Active]}
  IN  IF S = {} THEN NoKey ELSE CHOOSE k \in S : \A j \in S : k <= j

Expired(record) == record.retired # Active /\ clock - record.retired > KeyTTL

With(f, x, y) == [k \in DOMAIN f \cup {x} |-> IF k = x THEN y ELSE f[k]]
Only(f, S) == [k \in DOMAIN f \cap S |-> f[k]]

Retire(records, k) == IF k = NoKey THEN records ELSE [records EXCEPT ![k].retired = clock]
Born(type) == [type |-> type, retired |-> Active]

(* Mutant of Saved: retired keys are not written.                            *)
SavedActive(m) ==
  LET s == FirstActive(m.records, "static")
      h == FirstActive(m.records, "hmac")
  IN  [state |-> "saved", records |-> m.records,
       keys  |-> [k \in {s, h} \ {NoKey} |-> IF k = s THEN m.static ELSE m.hmac]]

(* What _save writes: every key under the id of a record, the active ones    *)
(* under the first record of their type that is not retired.                 *)
Saved(m) ==
  LET s == IF m.static = NoKey THEN NoKey ELSE FirstActive(m.records, "static")
      h == IF m.hmac = NoKey THEN NoKey ELSE FirstActive(m.records, "hmac")
  IN  [state   |-> "saved",
       records |-> m.records,
       keys    |-> [k \in ({s, h} \ {NoKey}) \cup DOMAIN m.retired |->
                      CASE k \in DOMAIN m.retired -> m.retired[k]
                        [] k = s -> m.static
                        [] OTHER -> m.hmac]]

(* What _load makes of the file, into the object m. A retired key is loaded  *)
(* unless it has expired.                                                    *)
Loaded(f, m) ==
  LET s == FirstActive(f.records, "static")
      h == FirstActive(f.records, "hmac")
  IN  [m EXCEPT !.records = f.records,
                !.static  = IF s \in DOMAIN f.keys THEN f.keys[s] ELSE @,
                !.hmac    = IF h \in DOMAIN f.keys THEN f.keys[h] ELSE @,
                !.retired = Only(f.keys, {k \in DOMAIN f.records :
                              /\ f.records[k].type = "static"
                              /\ f.records[k].retired # Active
                              /\ ~Expired(f.records[k])})]

(* _generate_all: a new static and a new HMAC key. Records that are there    *)
(* stay as they are.                                                         *)
Generated(m) ==
  [m EXCEPT !.records = With(With(@, made + 1, Born("static")), made + 2, Born("hmac")),
            !.static  = made + 1,
            !.hmac    = made + 2]

(* A save of m inside an operation: the file is written and the operation    *)
(* goes on to `after`; or write_bytes raises, and the operation with it,     *)
(* because the file cannot be opened and stays as it is, or after it has     *)
(* been truncated; or the process dies there. What the operation has changed *)
(* in memory by then, it does not take back.                                 *)
Save(m, after, revokes) ==
  \/ file' = Saved(m) /\ mem' = after /\ revoked' = revokes /\ stale' = FALSE
  \/ mem' = m /\ stale' = (stale \/ m # mem) /\ UNCHANGED <<file, revoked>>
  \/ file' = Torn /\ mem' \in {m, Fresh} /\ stale' = FALSE /\ UNCHANGED revoked
-----------------------------------------------------------------------------
(* Operations of the store.                                                  *)

Environment == <<clock, card, envelope, token>>

\* start() with no file yet, or with a file that lacks a key. Records of an
\* attempt whose write was refused are still there.
Generate(m) ==
  /\ made + 2 <= MaxKeys
  /\ made' = made + 2
  /\ lost' = (lost \/ m.records # Nothing)
  /\ Save(Generated(m), [Generated(m) EXCEPT !.running = TRUE], revoked)

\* start(). A torn file makes it raise, without an effect.
Start ==
  /\ ~mem.running
  /\ \/ file.state = "none" /\ Generate(mem)
     \/ /\ file.state = "saved"
        /\ LET m == Loaded(file, mem) IN
             IF NoKey \in {m.static, m.hmac}
             THEN Generate(m)
             ELSE /\ mem' = [m EXCEPT !.running = TRUE] /\ stale' = FALSE
                  /\ UNCHANGED <<file, made, revoked, lost>>
  /\ UNCHANGED <<Environment, offDuty>>

\* stop()
Stop ==
  /\ mem.running
  /\ Save(mem, [mem EXCEPT !.static = NoKey, !.hmac = NoKey, !.retired = Nothing,
                           !.running = FALSE], revoked)
  /\ UNCHANGED <<made, Environment, offDuty, lost>>

Unexpired(records) == {k \in DOMAIN records : ~Expired(records[k])}

(* Mutant of RotateStatic: the key is replaced before the old one is kept.   *)
RotateStaticFirst ==
  /\ mem.running /\ made < MaxKeys
  /\ made' = made + 1
  /\ LET old     == FirstActive(mem.records, "static")
         records == With(Retire(mem.records, old), made + 1, Born("static"))
         m       == [mem EXCEPT !.records = records, !.static = made + 1,
                       !.retired = Only(With(@, old, made + 1), Unexpired(records))]
     IN  Save(m, m, revoked)
  /\ UNCHANGED <<Environment, offDuty, lost>>

\* rotate_x25519_static()
RotateStatic ==
  /\ mem.running /\ made < MaxKeys
  /\ made' = made + 1
  /\ LET old     == FirstActive(mem.records, "static")
         records == With(Retire(mem.records, old), made + 1, Born("static"))
         retired == IF old = NoKey THEN mem.retired ELSE With(mem.retired, old, mem.static)
         m       == [mem EXCEPT !.records = records, !.static = made + 1,
                                !.retired = Only(retired, Unexpired(records))]
     IN  Save(m, m, revoked)
  /\ UNCHANGED <<Environment, offDuty, lost>>

(* Mutant of RotateHmac: the new key is not saved.                           *)
RotateHmacUnsaved ==
  /\ made < MaxKeys
  /\ made' = made + 1 /\ revoked' = made
  /\ offDuty' = (offDuty \/ ~mem.running)
  /\ mem' = [mem EXCEPT !.hmac = made + 1,
               !.records = With(Retire(@, FirstActive(@, "hmac")), made + 1, Born("hmac"))]
  /\ UNCHANGED <<file, Environment, stale, lost>>

\* rotate_hmac_key(). It does not ask whether the store runs.
RotateHmac ==
  /\ made < MaxKeys
  /\ made' = made + 1
  /\ offDuty' = (offDuty \/ ~mem.running)
  /\ LET old == FirstActive(mem.records, "hmac")
         m   == [mem EXCEPT !.hmac = made + 1,
                   !.records = With(Retire(@, old), made + 1, Born("hmac"))]
     IN  Save(m, m, made)
  /\ UNCHANGED <<Environment, lost>>

\* the process ends without stop()
Crash ==
  /\ mem' = Fresh
  /\ stale' = FALSE /\ lost' = (lost \/ (stale /\ mem.running))
  /\ UNCHANGED <<made, file, Environment, revoked, offDuty>>
-----------------------------------------------------------------------------
(* Envelopes and tokens.                                                     *)

\* a sender learns the static key this node advertises
FetchCard ==
  /\ mem.running
  /\ card' = mem.static
  /\ UNCHANGED <<clock, made, mem, file, envelope, token, revoked, offDuty, stale, lost>>

\* seal_envelope() by a sender whose clock is off by s
Seal ==
  /\ card # NoKey
  /\ \E s \in -Skew .. Skew : envelope' = [key |-> card, at |-> clock + s]
  /\ UNCHANGED <<clock, made, mem, file, card, token, revoked, offDuty, stale, lost>>

\* the private key the store has for a public one: the active key, or get_retired_priv()
PrivateKey(k) ==
  IF k = mem.static THEN k
  ELSE IF k \in DOMAIN mem.retired THEN mem.retired[k] ELSE NoKey

InTime(e) == clock - e.at <= EnvelopeTTL /\ clock - e.at >= -FutureTTL

\* both sides derive one secret, from which comes the key of the cipher
Decrypts(e, priv) == priv = e.key

\* open_envelope() with that key gives the text and does not raise
Opens(e) == InTime(e) /\ Decrypts(e, PrivateKey(e.key))

\* issue_token()
Issue ==
  /\ mem.hmac # NoKey
  /\ \E ttl \in TokenTTLs : token' = [key |-> mem.hmac, at |-> clock, exp |-> clock + ttl]
  /\ UNCHANGED <<clock, made, mem, file, card, envelope, revoked, offDuty, stale, lost>>

\* verify_token() with the store's key returns the token and does not raise
Verifies(t) ==
  /\ mem.hmac # NoKey /\ t.key = mem.hmac
  /\ clock <= t.exp
  /\ clock - t.at <= TokenAge

Tick ==
  /\ clock < MaxTime
  /\ clock' = clock + 1
  /\ UNCHANGED <<made, mem, file, card, envelope, token, revoked, offDuty, stale, lost>>

Next == Start \/ Stop \/ RotateStatic \/ RotateHmac \/ Crash \/ FetchCard \/ Seal \/ Issue \/ Tick
Spec == Init /\ [][Next]_vars
-----------------------------------------------------------------------------
(* An envelope that is in time can be opened by a store that runs, through   *)
(* the id under which its key was advertised, as long as that key has not    *)
(* been retired for longer than KeyTTL: whatever was rotated, saved, loaded  *)
(* and lost in between, also while the file is behind memory after a write   *)
(* that was refused. What can break it is that the process ends before a     *)
(* later write makes up for that one, a start() that is tried again after    *)
(* its write was refused, and rotate_hmac_key() of a store that does not     *)
(* run, since it saves a file without the static keys.                       *)
InFlightOpens ==
  /\ mem.running /\ ~offDuty /\ ~lost
  /\ envelope.key # NoKey /\ InTime(envelope)
  /\ envelope.key \notin DOMAIN mem.records \ Unexpired(mem.records)
  => Opens(envelope)

(* While the store runs and its file is whole, a process that is killed and  *)
(* started again has the same active keys and every retired one that has not *)
(* expired: what _save looks up and what _load looks up agree. The exception *)
(* is a change whose write was refused, until a later write is done: the     *)
(* rotation raised, but its key is in use. After a rotate_hmac_key() that    *)
(* came before start(), a start() tried again may also leave the store with  *)
(* a static key that has no record and is never written.                     *)
RestartRestores ==
  mem.running /\ file.state = "saved" /\ ~stale /\ ~(offDuty /\ lost) =>
    LET m == Loaded(file, Fresh) IN
      /\ m.records = mem.records
      /\ m.static = mem.static /\ m.hmac = mem.hmac
      /\ m.retired = Only(mem.retired, Unexpired(mem.records))

(* Once rotate_hmac_key() has returned, no token issued before it verifies,  *)
(* also not after the process was killed and started again.                  *)
RevokedStaysRevoked == token.key <= revoked => ~Verifies(token)
=============================================================================
