---------------------------- MODULE KeyStore_proofs ----------------------------
(* Theorems about KeyStore and their proofs. *)
EXTENDS KeyStore, WellFoundedInduction, TLAPS

-----------------------------------------------------------------------------
(* The inductive invariant *)

ActiveIn(records, type) == {k \in DOMAIN records : records[k] = [type |-> type, retired |-> Active]}

\* Private keys are kept under ids of static records that are retired, an HMAC
\* key in use has a record, and a store that runs has both keys.
Sound(m) ==
  /\ \A k \in DOMAIN m.retired : /\ k \in DOMAIN m.records /\ m.records[k].type = "static"
                                 /\ m.records[k].retired # Active
  /\ m.hmac # NoKey => ActiveIn(m.records, "hmac") # {}
  /\ m.running => m.static # NoKey /\ m.hmac # NoKey

\* rotate_hmac_key() came before start(), and start() was tried again after its
\* write was refused.
Odd == offDuty /\ lost

\* But for that, a static key in use has a record.
Grounded(m) == m.static # NoKey => ActiveIn(m.records, "static") # {}

\* Only a file that is whole has anything in it.
Whole == file.state # "saved" => file.records = Nothing /\ file.keys = Nothing

\* What _load finds in a file for the keys of a type.
Found(f, type) == LET k == FirstActive(f.records, type)
                  IN  IF k \in DOMAIN f.keys THEN f.keys[k] ELSE NoKey

\* No number of a key is used twice.
Numbered ==
  /\ DOMAIN mem.records \subseteq 1 .. made /\ DOMAIN file.records \subseteq 1 .. made
  /\ revoked \in 0 .. made /\ mem.hmac \in 0 .. made
  /\ Found(file, "hmac") \in 0 .. made

Wanted(record) == record.type = "static" /\ record.retired # Active /\ ~Expired(record)

\* The file holds what the object holds.
Holds(f, m) ==
  /\ f.records = m.records
  /\ m.static # NoKey => Found(f, "static") = m.static
  /\ m.hmac # NoKey => Found(f, "hmac") = m.hmac
  /\ \A k \in DOMAIN f.records : Wanted(f.records[k]) =>
       /\ k \in DOMAIN f.keys <=> k \in DOMAIN m.retired
       /\ k \in DOMAIN m.retired => f.keys[k] = m.retired[k]

Synced == file.state = "saved" /\ ~stale /\ ~Odd /\ ~(mem.static = NoKey /\ mem.hmac = NoKey)
            => Holds(file, mem)

\* A static key that a store has which does not run is in the file.
Resting == file.state = "saved" /\ ~Odd /\ ~mem.running /\ mem.static # NoKey
             => Found(file, "static") = mem.static

\* A file that is whole has an HMAC key, and a static key unless rotate_hmac_key()
\* wrote it.
Complete == file.state = "saved" =>
  /\ Found(file, "hmac") # NoKey
  /\ ~offDuty => Found(file, "static") # NoKey

\* The HMAC key, in memory and in the file, is younger than every revoked one.
Younger ==
  /\ mem.hmac # NoKey => revoked < mem.hmac
  /\ Found(file, "hmac") # NoKey => revoked < Found(file, "hmac")

\* Every static key there is a record of can be found under its own id.
Kept(records, static, keys) == \A k \in DOMAIN records :
  /\ records[k].type = "static" /\ records[k].retired = Active => k = static
  /\ Wanted(records[k]) => k \in DOMAIN keys /\ keys[k] = k

\* What was advertised has a record.
Advertised(records) == \A k \in {card, envelope.key} \ {NoKey} :
  k \in DOMAIN records /\ records[k].type = "static"

\* With no file nothing was ever advertised.
Unknown(m) == m.retired = Nothing /\ ~m.running /\ card = NoKey /\ envelope.key = NoKey

\* What is advertised is in the file too, unless the file is behind memory.
OnDuty == ~offDuty /\ ~lost =>
  /\ file.state = "none" => Unknown(mem)
  /\ mem.running => /\ Kept(mem.records, mem.static, mem.retired)
                    /\ Advertised(mem.records)
  /\ file.state = "saved" => Kept(file.records, Found(file, "static"), file.keys)
  /\ file.state = "saved" /\ ~(stale /\ mem.running) => Advertised(file.records)

Inv == /\ TypeOK /\ Sound(mem) /\ (Odd \/ Grounded(mem)) /\ Numbered /\ Whole /\ Synced
       /\ Resting /\ Complete /\ Younger /\ OnDuty

-----------------------------------------------------------------------------
(* Records *)

LEMMA Smallest ==
  ASSUME NEW S, S \subseteq Nat, S # {}
  PROVE  \E k \in S : \A j \in S : k <= j
<1> DEFINE R == OpToRel(<, Nat)
<1>1. IsWellFoundedOn(R, Nat)
  BY NatLessThanWellFounded
<1>2. \A x, y \in Nat : <<y, x>> \in R <=> y < x
  BY DEF OpToRel
<1> HIDE DEF R
<1>3. PICK x \in S : \A y \in S : ~ (<<y, x>> \in R)
  BY <1>1, WFMin
<1>4. ASSUME NEW y \in S PROVE x <= y
  <2>1. x \in Nat /\ y \in Nat /\ <<y, x>> \notin R
    BY <1>3
  <2>2. ~(y < x)
    BY <1>2, <2>1
  <2> QED  BY <2>1, <2>2
<1> QED  BY <1>4

LEMMA UnderOps ==
  ASSUME NEW T, NEW f \in Under(T)
  PROVE  /\ DOMAIN f \subseteq Keys /\ f \in [DOMAIN f -> T]
         /\ \A S : Only(f, S) \in Under(T)
         /\ \A x \in Keys, y \in T : With(f, x, y) \in Under(T)
<1>1. DOMAIN f \subseteq Keys /\ f \in [DOMAIN f -> T]
  BY DEF Under
<1>2. \A g : DOMAIN g \subseteq Keys /\ g \in [DOMAIN g -> T] => g \in Under(T)
  BY DEF Under
<1>3. \A S : Only(f, S) \in Under(T)
  BY <1>1, <1>2 DEF Only
<1>4. ASSUME NEW x \in Keys, NEW y \in T PROVE With(f, x, y) \in Under(T)
  <2>1. /\ DOMAIN With(f, x, y) = DOMAIN f \cup {x}
        /\ \A k \in DOMAIN f \cup {x} : With(f, x, y)[k] \in T
        /\ With(f, x, y) \in [DOMAIN f \cup {x} -> T]
    BY <1>1 DEF With
  <2>2. DOMAIN f \cup {x} \in SUBSET Keys
    BY <1>1
  <2> QED  BY <2>1, <2>2 DEF Under
<1> QED  BY <1>1, <1>3, <1>4

LEMMA NothingUnder == \A T : Nothing \in Under(T) /\ DOMAIN Nothing = {}
  BY DEF Under, Nothing

\* FirstActive is an active record, if there is one.
LEMMA FirstActiveIn ==
  ASSUME NEW records \in Under(Record), NEW type
  PROVE  LET k == FirstActive(records, type) IN
         IF ActiveIn(records, type) = {} THEN k = NoKey
         ELSE k \in ActiveIn(records, type) /\ k \in Keys /\ k # NoKey
<1>1. ActiveIn(records, type) \subseteq Keys
  BY UnderOps DEF ActiveIn
<1>2. ActiveIn(records, type) \subseteq Nat
  BY <1>1, TimesAssumption DEF Keys
<1>3. ActiveIn(records, type) # {} =>
        \E k \in ActiveIn(records, type) : \A j \in ActiveIn(records, type) : k <= j
  BY <1>2, Smallest
<1> DEFINE S == ActiveIn(records, type)
<1>4. FirstActive(records, type) = IF S = {} THEN NoKey ELSE CHOOSE k \in S : \A j \in S : k <= j
  BY DEF FirstActive, ActiveIn
<1>5. \A k \in Keys : k # NoKey
  BY TimesAssumption DEF Keys, NoKey
<1> HIDE DEF S
<1> QED  BY <1>1, <1>3, <1>4, <1>5 DEF S

\* The file that _save writes holds the object, each key where _load looks for it.
LEMMA SavedFacts ==
  ASSUME NEW m \in Object, Sound(m)
  PROVE  /\ Saved(m) \in File /\ Saved(m).state = "saved" /\ Saved(m).records = m.records
         /\ Grounded(m) => Found(Saved(m), "static") = m.static
         /\ Found(Saved(m), "hmac") = m.hmac
         /\ \A k \in DOMAIN m.records : m.records[k].retired # Active =>
              /\ k \in DOMAIN Saved(m).keys <=> k \in DOMAIN m.retired
              /\ k \in DOMAIN m.retired => Saved(m).keys[k] = m.retired[k]
<1> DEFINE fs == FirstActive(m.records, "static")
           fh == FirstActive(m.records, "hmac")
           s  == IF m.static = NoKey THEN NoKey ELSE fs
           h  == IF m.hmac = NoKey THEN NoKey ELSE fh
           D  == ({s, h} \ {NoKey}) \cup DOMAIN m.retired
           keys == [k \in D |-> CASE k \in DOMAIN m.retired -> m.retired[k]
                                  [] k = s -> m.static
                                  [] OTHER -> m.hmac]
<1>1. Saved(m) = [state |-> "saved", records |-> m.records, keys |-> keys]
  BY DEF Saved
<1>2. /\ m.records \in Under(Record) /\ m.retired \in Under(Keys)
      /\ m.static \in 0 .. MaxKeys /\ m.hmac \in 0 .. MaxKeys
  BY DEF Object
<1>3. /\ DOMAIN m.retired \subseteq Keys /\ m.retired \in [DOMAIN m.retired -> Keys]
  BY <1>2, UnderOps
<1>4. /\ fs # NoKey => /\ fs \in Keys /\ fs \in DOMAIN m.records
                       /\ m.records[fs] = [type |-> "static", retired |-> Active]
      /\ fh # NoKey => /\ fh \in Keys /\ fh \in DOMAIN m.records
                       /\ m.records[fh] = [type |-> "hmac", retired |-> Active]
      /\ Grounded(m) /\ m.static # NoKey => fs # NoKey
      /\ m.hmac # NoKey => fh # NoKey
  BY <1>2, FirstActiveIn DEF Sound, Grounded, ActiveIn
<1>5. \A k : [type |-> "static", retired |-> Active] # [type |-> "hmac", retired |-> Active]
  OBVIOUS
<1>6. fs # NoKey => fs # fh
  BY <1>4, <1>5
<1>7. \A k \in DOMAIN m.retired : m.records[k].retired # Active
  BY DEF Sound
<1>8. (fs # NoKey => fs \notin DOMAIN m.retired) /\ (fh # NoKey => fh \notin DOMAIN m.retired)
  BY <1>4, <1>7
<1>9. \A k \in Keys : k \in 1 .. MaxKeys /\ k # NoKey
  BY TimesAssumption DEF Keys, NoKey
<1> HIDE DEF fs, fh
<1>10. keys \in Under(Keys)
  <2>1. D \subseteq Keys
    BY <1>3, <1>4
  <2>2. \A k \in D : keys[k] \in Keys
    BY <1>2, <1>3, <1>4, TimesAssumption DEF Keys, NoKey
  <2> HIDE DEF D
  <2>3. keys \in [D -> Keys]
    BY <2>2
  <2> QED  BY <2>1, <2>3 DEF Under
<1>11. /\ Saved(m).state = "saved" /\ Saved(m).records = m.records /\ Saved(m).keys = keys
       /\ DOMAIN keys = D
  BY <1>1
<1>12. Saved(m) \in File
  <2> HIDE DEF keys
  <2> QED  BY <1>1, <1>2, <1>10 DEF File
<1>13. ASSUME Grounded(m) PROVE Found(Saved(m), "static") = m.static
  <2>1. Found(Saved(m), "static") = IF fs \in D THEN keys[fs] ELSE NoKey
    BY <1>11 DEF Found, fs
  <2>2. NoKey \notin DOMAIN m.retired
    BY <1>3, <1>9
  <2>3. CASE m.static = NoKey
    BY <1>4, <1>6, <1>8, <2>1, <2>2, <2>3
  <2>4. CASE m.static # NoKey
    BY <1>4, <1>8, <1>13, <2>1, <2>4
  <2> QED  BY <2>3, <2>4
<1>14. Found(Saved(m), "hmac") = m.hmac
  <2>1. Found(Saved(m), "hmac") = IF fh \in D THEN keys[fh] ELSE NoKey
    BY <1>11 DEF Found, fh
  <2>2. NoKey \notin DOMAIN m.retired
    BY <1>3, <1>9
  <2>3. CASE m.hmac = NoKey
    BY <1>4, <1>6, <1>8, <2>1, <2>2, <2>3
  <2>4. CASE m.hmac # NoKey
    BY <1>4, <1>6, <1>8, <2>1, <2>4
  <2> QED  BY <2>3, <2>4
<1>15. \A k \in DOMAIN m.records : m.records[k].retired # Active => k # fs /\ k # fh
  <2> SUFFICES ASSUME NEW k \in DOMAIN m.records, m.records[k].retired # Active PROVE k # fs /\ k # fh
    OBVIOUS
  <2>1. k # NoKey
    BY <1>2, <1>9, UnderOps
  <2> QED  BY <1>4, <2>1
<1>16. \A k \in DOMAIN m.records : m.records[k].retired # Active =>
         /\ k \in D <=> k \in DOMAIN m.retired
         /\ k \in DOMAIN m.retired => keys[k] = m.retired[k]
  <2>1. \A k \in DOMAIN m.records : k # NoKey
    BY <1>2, <1>9, UnderOps
  <2> QED  BY <1>15, <2>1
<1> QED  BY <1>11, <1>12, <1>13, <1>14, <1>16

LEMMA EmptyObjects ==
  /\ Fresh \in Object /\ Sound(Fresh) /\ NoFile \in File /\ Torn \in File
  /\ \A type : Found(NoFile, type) = NoKey /\ Found(Torn, type) = NoKey
<1>1. Torn = [state |-> "torn", records |-> Nothing, keys |-> Nothing]
  BY DEF Torn, NoFile
<1> QED
  BY <1>1, NothingUnder, TimesAssumption DEF Fresh, Object, Sound, NoFile, File, Found, NoKey

-----------------------------------------------------------------------------
(* Steps *)

LEMMA InitInv == ASSUME Init PROVE Inv
<1>1. TypeOK
  <2>1. /\ 0 \in 0 .. MaxTime /\ 0 \in 0 .. MaxKeys /\ 0 \in -Skew .. MaxTime + Skew
    BY TimesAssumption
  <2>2. envelope \in Envelopes /\ token \in Tokens
    BY <2>1 DEF Init, Envelopes, Tokens, NoKey
  <2>3. offDuty \in BOOLEAN /\ stale \in BOOLEAN /\ lost \in BOOLEAN
    BY DEF Init
  <2>4. mem \in Object /\ file \in File
    BY EmptyObjects DEF Init
  <2> QED  BY <2>1, <2>2, <2>3, <2>4 DEF Init, TypeOK, NoKey
<1>2. Sound(mem) /\ Grounded(mem) /\ Whole /\ Synced /\ Resting /\ Complete
  BY EmptyObjects DEF Init, Whole, Synced, Resting, Complete, Grounded, Fresh, NoFile
<1>3. Numbered
  BY NothingUnder, EmptyObjects DEF Init, Numbered, Fresh, NoFile, NoKey
<1>4. Younger
  BY EmptyObjects DEF Init, Younger, Fresh
<1>5. OnDuty
  BY DEF Init, OnDuty, Unknown, Fresh, NoFile
<1> QED  BY <1>1, <1>2, <1>3, <1>4, <1>5 DEF Inv

\* A save of m, after which the object is m, or m without its keys.
LEMMA SaveInv ==
  ASSUME Inv, NEW m \in Object, NEW after \in Object, NEW r,
         Save(m, after, r), UNCHANGED Environment,
         Sound(m), Sound(after), after.records = m.records,
         \/ after.static = m.static /\ after.hmac = m.hmac /\ after.retired = m.retired
         \/ after.static = NoKey /\ after.hmac = NoKey /\ after.retired = Nothing,
         made' \in made .. MaxKeys, DOMAIN m.records \subseteq 1 .. made', m.hmac \in 0 .. made',
         r \in revoked .. made', m.hmac # NoKey, r < m.hmac,
         offDuty' \in BOOLEAN, offDuty => offDuty', lost' \in BOOLEAN, lost => lost',
         Odd' \/ (Grounded(m) /\ Grounded(after)),
         ~offDuty' => m.static # NoKey,
         ~offDuty' /\ ~lost' => /\ Kept(m.records, m.static, m.retired) /\ Advertised(m.records)
                                /\ file.state = "none" => Unknown(m),
         file.state = "saved" /\ ~Odd' /\ ~m.running /\ m.static # NoKey
           => Found(file, "static") = m.static,
         file.state = "saved" /\ ~m.running => offDuty',
         after.running => after.static # NoKey
  PROVE  Inv'
<1>1. UNCHANGED <<clock, card, envelope, token>>
  BY DEF Environment
<1>2. /\ made' \in 0 .. MaxKeys /\ r \in 0 .. MaxKeys /\ r \in 0 .. made' /\ 0 \in 0 .. made'
      /\ revoked \in 0 .. made' /\ revoked \in 0 .. MaxKeys /\ revoked <= r /\ 1 .. made \subseteq 1 .. made'
      /\ 0 .. made \subseteq 0 .. made'
  <2>1. made \in 0 .. MaxKeys /\ revoked \in 0 .. made /\ MaxKeys \in Nat
    BY TimesAssumption DEF Inv, TypeOK, Numbered
  <2>2. made' \in made .. MaxKeys /\ r \in revoked .. made'
    OBVIOUS
  <2>3. made \in Nat /\ revoked \in Nat
    BY <2>1
  <2>4. made' \in Nat /\ r \in Nat
    BY <2>2, <2>3
  <2> QED  BY <2>1, <2>2, <2>3, <2>4
<1> DEFINE f == Saved(m)
<1>3. /\ f \in File /\ f.state = "saved" /\ f.records = m.records
      /\ Grounded(m) => Found(f, "static") = m.static
      /\ Found(f, "hmac") = m.hmac
      /\ \A k \in DOMAIN m.records : m.records[k].retired # Active =>
           /\ k \in DOMAIN f.keys <=> k \in DOMAIN m.retired
           /\ k \in DOMAIN m.retired => f.keys[k] = m.retired[k]
  BY SavedFacts
<1> HIDE DEF f
<1>4. \A rec : Wanted(rec)' <=> Wanted(rec)
  BY <1>1 DEF Wanted, Expired
<1>5. \A rs, s, ks : Kept(rs, s, ks)' <=> Kept(rs, s, ks)
  BY <1>4 DEF Kept
<1>6. \A rs : Advertised(rs)' <=> Advertised(rs)
  BY <1>1 DEF Advertised
<1>7. Odd' \/ Holds(f, m)
  BY <1>3 DEF Holds, Wanted
<1>8. clock' \in 0 .. MaxTime /\ card' \in 0 .. MaxKeys /\ envelope' \in Envelopes /\ token' \in Tokens
  BY <1>1 DEF Inv, TypeOK
<1>9. m.hmac \in Nat /\ r \in Nat /\ revoked \in Nat /\ revoked < m.hmac
  <2>1. m.hmac \in Nat /\ r \in Nat /\ revoked \in Nat
    BY <1>2, TimesAssumption DEF Object
  <2> QED  BY <1>2, <2>1
<1> SUFFICES /\ TypeOK' /\ Sound(mem') /\ (Odd' \/ Grounded(mem')) /\ Numbered' /\ Whole' /\ Synced'
             /\ Resting' /\ Complete' /\ Younger' /\ OnDuty'
  BY DEF Inv, Sound, Grounded
<1>10. CASE file' = Saved(m) /\ mem' = after /\ revoked' = r /\ stale' = FALSE
  <2>1. file' = f /\ mem' = after /\ revoked' = r /\ stale' = FALSE
    BY <1>10 DEF f
  <2>2. TypeOK'
    BY <1>2, <1>3, <1>8, <2>1 DEF TypeOK
  <2>3. Sound(mem') /\ (Odd' \/ Grounded(mem'))
    BY <2>1
  <2>4. Numbered'
    BY <1>2, <1>3, <2>1 DEF Numbered, NoKey
  <2>5. Whole' /\ Synced'
    <3>1. file'.state = "saved" /\ file' = f
      BY <1>3, <2>1
    <3>2. Odd' \/ (~(after.static = NoKey /\ after.hmac = NoKey) => Holds(f, after))
      BY <1>7 DEF Holds
    <3>3. Holds(f, after) => Holds(file, mem)'
      BY <1>4, <2>1 DEF Holds
    <3> QED  BY <2>1, <3>1, <3>2, <3>3 DEF Whole, Synced
  <2>6. Younger' /\ Complete'
    BY <1>3, <2>1 DEF Younger, Complete, Odd
  <2>7. Resting'
    BY <1>3, <2>1 DEF Resting
  <2>8. OnDuty'
    <3> SUFFICES ASSUME ~offDuty', ~lost'
                 PROVE  /\ after.running => Kept(after.records, after.static, after.retired)
                        /\ Kept(f.records, Found(f, "static"), f.keys)
                        /\ Advertised(f.records) /\ Advertised(after.records)
      <4>1. Found(file, "static")' = Found(f, "static")
        BY <2>1 DEF Found
      <4> QED  BY <1>3, <1>5, <1>6, <2>1, <4>1 DEF OnDuty
    <3>1. after.running => Kept(after.records, after.static, after.retired)
      OBVIOUS
    <3>2. Kept(f.records, Found(f, "static"), f.keys)
      BY <1>3 DEF Kept, Wanted, Odd
    <3> QED  BY <1>3, <3>1, <3>2
  <2> QED  BY <2>2, <2>3, <2>4, <2>5, <2>6, <2>7, <2>8
<1>11. CASE mem' = m /\ stale' = (stale \/ m # mem) /\ UNCHANGED <<file, revoked>>
  <2>1. mem' = m /\ file' = file /\ revoked' = revoked /\ stale' \in BOOLEAN
        /\ (~stale' => ~stale /\ m = mem)
    BY <1>11 DEF Inv, TypeOK
  <2>2. TypeOK'
    BY <1>2, <1>8, <2>1 DEF Inv, TypeOK
  <2>3. Sound(mem') /\ (Odd' \/ Grounded(mem')) /\ Whole'
    BY <2>1 DEF Inv, Whole
  <2>4. \A type : Found(file, type)' = Found(file, type)
    BY <2>1 DEF Found
  <2>5. Numbered'
    BY <1>2, <2>1, <2>4 DEF Inv, Numbered
  <2>6. Synced'
    <3>1. ~Odd' => ~Odd
      BY DEF Odd
    <3>2. Holds(file, mem) /\ mem' = mem => Holds(file, mem)'
      BY <1>4, <2>1, <2>4 DEF Holds
    <3> QED  BY <2>1, <3>1, <3>2 DEF Inv, Synced
  <2>7. Resting' /\ Complete' /\ Younger'
    BY <1>9, <2>1, <2>4 DEF Inv, Resting, Complete, Younger
  <2>8. OnDuty'
    <3> SUFFICES ASSUME ~offDuty', ~lost'
                 PROVE  /\ file.state = "none" => Unknown(m)
                        /\ file.state = "saved" => Kept(file.records, Found(file, "static"), file.keys)
                        /\ file.state = "saved" /\ ~(stale' /\ m.running) => Advertised(file.records)
      <4>1. Unknown(mem)' <=> Unknown(m)
        BY <1>1, <2>1 DEF Unknown
      <4> QED  BY <1>5, <1>6, <2>1, <2>4, <4>1 DEF OnDuty
    <3> QED  BY <2>1 DEF Inv, OnDuty
  <2> QED  BY <2>2, <2>3, <2>5, <2>6, <2>7, <2>8
<1>12. CASE file' = Torn /\ mem' \in {m, Fresh} /\ stale' = FALSE /\ UNCHANGED revoked
  <2>1. file' = Torn /\ mem' \in {m, Fresh} /\ revoked' = revoked /\ stale' = FALSE
    BY <1>12
  <2>2. /\ Torn \in File /\ Torn.state = "torn" /\ Torn.records = Nothing /\ Torn.keys = Nothing
        /\ Found(Torn, "hmac") = NoKey /\ DOMAIN Nothing = {}
    BY EmptyObjects, NothingUnder DEF Torn, NoFile
  <2>3. /\ Fresh \in Object /\ Sound(Fresh) /\ Fresh.records = Nothing /\ Fresh.hmac = NoKey
        /\ ~Fresh.running /\ Grounded(Fresh)
    BY EmptyObjects DEF Fresh, Grounded
  <2>4. TypeOK'
    BY <1>2, <1>8, <2>1, <2>2, <2>3 DEF TypeOK
  <2>5. Sound(mem') /\ (Odd' \/ Grounded(mem')) /\ Whole' /\ Synced' /\ Resting' /\ Complete'
    BY <2>1, <2>2, <2>3 DEF Whole, Synced, Resting, Complete
  <2>6. Numbered'
    BY <1>2, <2>1, <2>2, <2>3 DEF Numbered, NoKey
  <2>7. Younger'
    BY <1>9, <2>1, <2>2, <2>3 DEF Younger
  <2>8. OnDuty'
    <3>1. ~offDuty' /\ ~lost' /\ mem'.running
            => Kept(mem.records, mem.static, mem.retired)' /\ Advertised(mem.records)'
      BY <1>5, <1>6, <2>1, <2>3
    <3> QED  BY <2>1, <2>2, <3>1 DEF OnDuty
  <2> QED  BY <2>4, <2>5, <2>6, <2>7, <2>8
<1> QED  BY <1>10, <1>11, <1>12 DEF Save

\* What one more record does, and the removal of some.
LEMMA WithFacts ==
  ASSUME NEW f, NEW x, NEW y
  PROVE  /\ DOMAIN With(f, x, y) = DOMAIN f \cup {x} /\ With(f, x, y)[x] = y
         /\ \A k \in DOMAIN f \ {x} : With(f, x, y)[k] = f[k]
         /\ \A S : DOMAIN Only(f, S) = DOMAIN f \cap S /\ \A k \in DOMAIN f \cap S : Only(f, S)[k] = f[k]
BY DEF With, Only

LEMMA Numbers ==
  ASSUME Inv
  PROVE  /\ made \in Nat /\ MaxKeys \in Nat /\ revoked \in Nat /\ revoked <= made /\ made <= MaxKeys
         /\ clock \in Nat /\ clock \in 0 .. MaxTime /\ clock # Active
         /\ mem \in Object /\ mem.records \in Under(Record) /\ mem.retired \in Under(Keys)
         /\ mem.static \in 0 .. MaxKeys /\ mem.hmac \in 0 .. MaxKeys /\ mem.hmac \in 0 .. made
         /\ file.records \in Under(Record) /\ file.keys \in Under(Keys)
         /\ \A type \in {"static", "hmac"} : Born(type) \in Record
<1>1. made \in 0 .. MaxKeys /\ revoked \in 0 .. made /\ MaxKeys \in Nat /\ clock \in 0 .. MaxTime /\ MaxTime \in Nat
  BY TimesAssumption DEF Inv, TypeOK, Numbered
<1>2. mem \in Object /\ file \in File /\ mem.hmac \in 0 .. made
  BY DEF Inv, TypeOK, Numbered
<1>3. /\ mem.records \in Under(Record) /\ mem.retired \in Under(Keys)
      /\ mem.static \in 0 .. MaxKeys /\ mem.hmac \in 0 .. MaxKeys
      /\ file.records \in Under(Record) /\ file.keys \in Under(Keys)
  BY <1>2 DEF Object, File
<1>4. \A type \in {"static", "hmac"} : Born(type) \in Record
  BY DEF Born, Record
<1> QED  BY <1>1, <1>2, <1>3, <1>4 DEF Active

\* A new pair of keys is saved with the store m that start() has at that point.
LEMMA GenerateInv ==
  ASSUME Inv, NEW m \in Object, Sound(m), ~m.running, DOMAIN m.records \subseteq 1 .. made,
         \/ offDuty /\ m.records # Nothing
         \/ file.state = "none" /\ (~offDuty /\ ~lost => Unknown(m)),
         Generate(m), UNCHANGED Environment, UNCHANGED offDuty
  PROVE  Inv'
<1> DEFINE r1 == With(m.records, made + 1, Born("static"))
           r2 == With(r1, made + 2, Born("hmac"))
           g  == Generated(m)
           a  == [g EXCEPT !.running = TRUE]
<1>2. /\ made' = made + 2 /\ made + 2 <= MaxKeys /\ Save(g, a, revoked)
      /\ lost' = (lost \/ m.records # Nothing)
  BY DEF Generate
<1>3. /\ made + 1 \in Keys /\ made + 2 \in Keys /\ made + 1 \in 0 .. MaxKeys /\ made + 2 \in 0 .. MaxKeys
      /\ made' \in made .. MaxKeys /\ made + 2 \in 0 .. made' /\ revoked \in revoked .. made'
      /\ revoked < made + 2 /\ made + 1 # made + 2 /\ made + 1 # NoKey /\ made + 2 # NoKey
      /\ 1 .. made \subseteq 1 .. made' /\ made + 1 \in 1 .. made' /\ made + 2 \in 1 .. made'
      /\ made + 1 \notin 1 .. made /\ made + 2 \notin 1 .. made
  BY <1>2, Numbers DEF Keys, NoKey
<1>4. r2 \in Under(Record)
  <2>1. m.records \in Under(Record)
    BY DEF Object
  <2>2. r1 \in Under(Record)
    BY <1>3, <2>1, Numbers, UnderOps
  <2> HIDE DEF r1
  <2> QED  BY <1>3, <2>2, Numbers, UnderOps
<1>5. /\ DOMAIN r2 = DOMAIN m.records \cup {made + 1, made + 2}
      /\ r2[made + 1] = Born("static") /\ r2[made + 2] = Born("hmac")
      /\ \A k \in DOMAIN m.records : r2[k] = m.records[k]
  BY <1>3 DEF With
<1> HIDE DEF r2
<1>6. /\ g \in Object /\ g.records = r2 /\ g.static = made + 1 /\ g.hmac = made + 2
      /\ g.retired = m.retired /\ g.running = m.running
  BY <1>3, <1>4 DEF Generated, Object, r2
<1> HIDE DEF g
<1>61. /\ a \in Object /\ a.records = g.records /\ a.static = g.static /\ a.retired = g.retired
       /\ a.hmac = g.hmac
  BY <1>6 DEF Object
<1> HIDE DEF a
<1>7. ActiveIn(r2, "static") # {} /\ ActiveIn(r2, "hmac") # {}
  BY <1>5 DEF ActiveIn, Born
<1>8. Sound(g) /\ Sound(a) /\ Grounded(g) /\ Grounded(a)
  BY <1>3, <1>5, <1>6, <1>61, <1>7 DEF Sound, Grounded
<1>9. DOMAIN g.records \subseteq 1 .. made'
  BY <1>3, <1>5, <1>6
<1>10. ~offDuty' /\ ~lost' => /\ Kept(g.records, g.static, g.retired) /\ Advertised(g.records)
                              /\ file.state = "none" => Unknown(g)
  <2> SUFFICES ASSUME ~offDuty, ~lost, m.records = Nothing, Unknown(m)
               PROVE  Kept(r2, made + 1, m.retired) /\ Advertised(r2) /\ Unknown(g)
    BY <1>2, <1>6
  <2>1. DOMAIN r2 = {made + 1, made + 2} /\ Advertised(r2)
    BY <1>5, NothingUnder DEF Advertised, Unknown
  <2>2. r2[made + 2].type # "static" /\ r2[made + 1].retired = Active
    BY <1>5 DEF Born
  <2>3. Unknown(g)
    BY <1>6 DEF Unknown
  <2> QED  BY <2>1, <2>2, <2>3 DEF Kept, Wanted
<1>11. offDuty' = offDuty /\ offDuty' \in BOOLEAN /\ lost' \in BOOLEAN /\ (lost => lost')
  BY <1>2 DEF Inv, TypeOK
<1>12. file.state = "saved" => offDuty' /\ Odd'
  <2>1. file.state = "saved" => offDuty /\ m.records # Nothing
    OBVIOUS
  <2>2. m.records # Nothing => lost'
    BY <1>2
  <2>3. offDuty => offDuty'
    BY <1>11
  <2> QED  BY <2>1, <2>2, <2>3 DEF Odd
<1> QED  BY <1>2, <1>3, <1>6, <1>61, <1>8, <1>9, <1>10, <1>11, <1>12, SaveInv

\* What start() finds in a file.
LEMMA LoadedFacts ==
  ASSUME Inv, file.state = "saved", ~mem.running
  PROVE  LET m == Loaded(file, mem) IN
         /\ m \in Object /\ m.running = mem.running /\ m.records = file.records
         /\ ~Odd => m.static = Found(file, "static")
         /\ Found(file, "static") # NoKey => m.static = Found(file, "static")
         /\ m.hmac = Found(file, "hmac")
         /\ \A k \in DOMAIN m.retired : /\ k \in DOMAIN file.records /\ Wanted(file.records[k])
                                        /\ k \in DOMAIN file.keys /\ m.retired[k] = file.keys[k]
         /\ \A k \in DOMAIN file.keys \cap DOMAIN file.records :
              Wanted(file.records[k]) => k \in DOMAIN m.retired
         /\ Odd \/ Grounded(m)
         /\ ActiveIn(m.records, "hmac") # {} /\ m.hmac # NoKey /\ m.records # Nothing
<1> DEFINE W == {k \in DOMAIN file.records : /\ file.records[k].type = "static"
                                             /\ file.records[k].retired # Active
                                             /\ ~Expired(file.records[k])}
           m == Loaded(file, mem)
           s == FirstActive(file.records, "static")
           h == FirstActive(file.records, "hmac")
           sk == IF s \in DOMAIN file.keys THEN file.keys[s] ELSE mem.static
           hk == IF h \in DOMAIN file.keys THEN file.keys[h] ELSE mem.hmac
<1>1. /\ ~Odd => sk = Found(file, "static")
      /\ Found(file, "static") # NoKey => sk = Found(file, "static")
      /\ hk = Found(file, "hmac") /\ hk # NoKey
  BY DEF Inv, Resting, Complete, Found
<1>2. W = {k \in DOMAIN file.records : Wanted(file.records[k])}
  BY DEF Wanted
<1>3. m = [mem EXCEPT !.records = file.records, !.static = sk, !.hmac = hk,
                      !.retired = Only(file.keys, W)]
  BY DEF Loaded
<1>5. Only(file.keys, W) \in Under(Keys) /\ DOMAIN file.keys \subseteq Keys /\ file.keys \in [DOMAIN file.keys -> Keys]
  BY Numbers, UnderOps
<1>6. Found(file, "static") \in 0 .. MaxKeys /\ Found(file, "hmac") \in 0 .. MaxKeys
  <2>1. Keys \subseteq 0 .. MaxKeys /\ 0 \in 0 .. MaxKeys
    BY Numbers DEF Keys
  <2> QED  BY <1>5, <2>1 DEF Found, NoKey
<1>61. sk \in 0 .. MaxKeys
  <2>1. Keys \subseteq 0 .. MaxKeys
    BY Numbers DEF Keys
  <2> QED  BY <1>5, <2>1, Numbers
<1>7. /\ m \in Object /\ m.running = mem.running /\ m.records = file.records
      /\ m.static = sk /\ m.hmac = hk
      /\ m.retired = Only(file.keys, W)
  <2> DEFINE t == Only(file.keys, W)
             x == [mem EXCEPT !.records = file.records, !.static = sk, !.hmac = hk, !.retired = t]
  <2>1. /\ mem \in Object /\ file.records \in Under(Record) /\ sk \in 0 .. MaxKeys
        /\ hk \in 0 .. MaxKeys /\ t \in Under(Keys)
    BY <1>1, <1>5, <1>6, <1>61, Numbers
  <2>2. m = x
    BY <1>3
  <2> HIDE DEF sk, hk, m, t
  <2>3. /\ x \in Object /\ x.running = mem.running /\ x.records = file.records
        /\ x.static = sk /\ x.hmac = hk /\ x.retired = t
    BY <2>1 DEF Object
  <2> HIDE DEF x
  <2> QED  BY <2>2, <2>3 DEF t
<1> HIDE DEF m, sk, hk
<1>8. \A type : Found(file, type) # NoKey => ActiveIn(file.records, type) # {}
  <2>1. NoKey \notin DOMAIN file.keys
    BY <1>5, Numbers DEF Keys, NoKey
  <2> QED  BY <2>1, Numbers, FirstActiveIn DEF Found
<1>9. /\ \A k \in DOMAIN m.retired : /\ k \in DOMAIN file.records /\ Wanted(file.records[k])
                                     /\ k \in DOMAIN file.keys /\ m.retired[k] = file.keys[k]
      /\ \A k \in DOMAIN file.keys \cap DOMAIN file.records :
           Wanted(file.records[k]) => k \in DOMAIN m.retired
  <2> HIDE DEF W
  <2>1. DOMAIN m.retired = DOMAIN file.keys \cap W /\ \A k \in DOMAIN m.retired : m.retired[k] = file.keys[k]
    BY <1>7 DEF Only
  <2> QED  BY <1>2, <2>1
<1>10. /\ Odd \/ Grounded(m)
       /\ ActiveIn(m.records, "hmac") # {} /\ m.hmac # NoKey /\ m.records # Nothing
  <2>1. ActiveIn(m.records, "hmac") # {} /\ m.hmac # NoKey
    BY <1>1, <1>7, <1>8
  <2>2. m.records # Nothing
    BY <2>1, NothingUnder DEF ActiveIn
  <2> QED  BY <1>1, <1>7, <1>8, <2>1, <2>2 DEF Grounded
<1>11. /\ m \in Object /\ m.running = mem.running /\ m.records = file.records
       /\ ~Odd => m.static = Found(file, "static")
       /\ Found(file, "static") # NoKey => m.static = Found(file, "static")
       /\ m.hmac = Found(file, "hmac")
  BY <1>1, <1>7
<1> QED  BY <1>9, <1>10, <1>11 DEF m

LEMMA StartInv == ASSUME Inv, Start PROVE Inv'
<1>1. ~mem.running /\ UNCHANGED Environment /\ UNCHANGED offDuty
  BY DEF Start
<1>2. CASE file.state = "none" /\ Generate(mem)
  <2>1. Sound(mem) /\ DOMAIN mem.records \subseteq 1 .. made
    BY DEF Inv, Numbered
  <2>2. ~offDuty /\ ~lost => Unknown(mem)
    BY <1>2 DEF Inv, OnDuty
  <2> QED  BY <1>1, <1>2, <2>1, <2>2, Numbers, GenerateInv
<1>3. CASE file.state = "saved"
  <2> DEFINE m == Loaded(file, mem)
             a == [m EXCEPT !.running = TRUE]
  <2>1. /\ m \in Object /\ m.running = mem.running /\ m.records = file.records
        /\ ~Odd => m.static = Found(file, "static")
        /\ Found(file, "static") # NoKey => m.static = Found(file, "static")
        /\ m.hmac = Found(file, "hmac")
        /\ \A k \in DOMAIN m.retired : /\ k \in DOMAIN file.records /\ Wanted(file.records[k])
                                       /\ k \in DOMAIN file.keys /\ m.retired[k] = file.keys[k]
        /\ \A k \in DOMAIN file.keys \cap DOMAIN file.records :
             Wanted(file.records[k]) => k \in DOMAIN m.retired
        /\ Odd \/ Grounded(m)
        /\ ActiveIn(m.records, "hmac") # {} /\ m.hmac # NoKey /\ m.records # Nothing
    BY <1>1, <1>3, LoadedFacts
  <2>2. IF NoKey \in {m.static, m.hmac} THEN Generate(m)
        ELSE mem' = a /\ stale' = FALSE /\ UNCHANGED <<file, made, revoked, lost>>
    BY <1>3 DEF Start
  <2>3. /\ a \in Object /\ a.running /\ a.records = m.records /\ a.static = m.static
        /\ a.hmac = m.hmac /\ a.retired = m.retired
    <3> HIDE DEF m
    <3> QED  BY <2>1 DEF Object
  <2> HIDE DEF m, a
  <2>4. CASE NoKey \in {m.static, m.hmac}
    <3>1. offDuty
      BY <1>3, <2>1, <2>4 DEF Inv, Complete
    <3>2. Sound(m) /\ DOMAIN m.records \subseteq 1 .. made
      BY <1>1, <2>1 DEF Sound, Inv, Numbered, Wanted
    <3> QED  BY <1>1, <2>1, <2>2, <2>4, <3>1, <3>2, GenerateInv
  <2>5. CASE NoKey \notin {m.static, m.hmac}
    <3>1. mem' = a /\ stale' = FALSE /\ UNCHANGED <<clock, made, file, card, envelope, token, revoked, offDuty, lost>>
      BY <1>1, <2>2, <2>5 DEF Environment
    <3>2. \A rec : Wanted(rec)' <=> Wanted(rec)
      BY <3>1 DEF Wanted, Expired
    <3>3. TypeOK' /\ Whole'
      BY <2>3, <3>1 DEF Inv, TypeOK, Whole
    <3>4. Sound(mem') /\ (Odd' \/ Grounded(mem'))
      BY <2>1, <2>3, <2>5, <3>1 DEF Sound, Grounded, Odd, Wanted
    <3>5. Found(file, "hmac")' = Found(file, "hmac") /\ Found(file, "static")' = Found(file, "static")
      BY <3>1 DEF Found
    <3>6. Younger'
      BY <2>1, <2>3, <3>1, <3>5 DEF Inv, Younger
    <3>7. Numbered'
      BY <2>1, <2>3, <3>1, <3>5 DEF Inv, Numbered
    <3>8. Synced'
      <4>1. Odd \/ Holds(file, a)
        BY <2>1, <2>3 DEF Holds
      <4>2. Odd' \/ Holds(file, mem)'
        BY <3>1, <3>2, <3>5, <4>1 DEF Holds, Odd
      <4> QED  BY <4>2 DEF Synced
    <3>10. Resting' /\ Complete'
      BY <2>3, <3>1, <3>5 DEF Inv, Resting, Complete
    <3>9. OnDuty'
      <4>1. ~offDuty /\ ~lost => Kept(a.records, a.static, a.retired) /\ Advertised(a.records)
        BY <1>1, <1>3, <2>1, <2>3 DEF Inv, OnDuty, Kept, Odd
      <4>2. ~offDuty /\ ~lost => Kept(mem.records, mem.static, mem.retired)' /\ Advertised(mem.records)'
        BY <3>1, <3>2, <4>1 DEF Kept, Advertised
      <4>3. ~offDuty /\ ~lost => /\ Kept(file.records, Found(file, "static"), file.keys)'
                                 /\ Advertised(file.records)'
        BY <1>1, <1>3, <3>1, <3>2, <3>5 DEF Inv, OnDuty, Kept, Advertised
      <4> QED  BY <1>3, <3>1, <4>2, <4>3 DEF OnDuty
    <3> QED  BY <3>3, <3>4, <3>6, <3>7, <3>8, <3>9, <3>10 DEF Inv, Sound, Grounded
  <2> QED  BY <2>4, <2>5
<1> QED  BY <1>2, <1>3 DEF Start

LEMMA StopInv == ASSUME Inv, Stop PROVE Inv'
<1> DEFINE a == [mem EXCEPT !.static = NoKey, !.hmac = NoKey, !.retired = Nothing, !.running = FALSE]
<1>1. mem.running /\ Save(mem, a, revoked) /\ UNCHANGED Environment /\ made' = made /\ offDuty' = offDuty
      /\ lost' = lost
  BY DEF Stop
<1>2. /\ a \in Object /\ a.records = mem.records /\ a.static = NoKey /\ a.hmac = NoKey
      /\ a.retired = Nothing /\ ~a.running
  <2>1. mem \in Object /\ 0 \in 0 .. MaxKeys /\ Nothing \in Under(Keys)
    BY Numbers, NothingUnder
  <2> QED  BY <2>1 DEF Object, NoKey
<1> HIDE DEF a
<1>3. Sound(mem) /\ Sound(a) /\ (Odd' \/ (Grounded(mem) /\ Grounded(a)))
  BY <1>1, <1>2, NothingUnder DEF Inv, Sound, Grounded, Odd
<1>4. /\ made' \in made .. MaxKeys /\ DOMAIN mem.records \subseteq 1 .. made' /\ mem.hmac \in 0 .. made'
      /\ revoked \in revoked .. made' /\ offDuty' \in BOOLEAN /\ lost' \in BOOLEAN
  <2>1. made' \in made .. MaxKeys /\ mem.hmac \in 0 .. made' /\ revoked \in revoked .. made'
    BY <1>1, Numbers
  <2> QED  BY <1>1, <2>1 DEF Inv, TypeOK, Numbered
<1>5. mem.static # NoKey /\ mem.hmac # NoKey /\ revoked < mem.hmac
  BY <1>1 DEF Inv, Younger, Sound
<1>6. ~offDuty' /\ ~lost' => /\ Kept(mem.records, mem.static, mem.retired) /\ Advertised(mem.records)
                             /\ file.state # "none"
  BY <1>1 DEF Inv, OnDuty, Unknown
<1> QED  BY <1>1, <1>2, <1>3, <1>4, <1>5, <1>6, Numbers, SaveInv

LEMMA CrashInv == ASSUME Inv, Crash PROVE Inv'
<1>1. /\ mem' = Fresh /\ UNCHANGED <<clock, made, file, card, envelope, token, revoked, offDuty>>
      /\ stale' = FALSE /\ lost' = (lost \/ (stale /\ mem.running))
  BY DEF Crash, Environment
<1>2. /\ Fresh.records = Nothing /\ Fresh.retired = Nothing /\ ~Fresh.running /\ Fresh.hmac = NoKey
      /\ Fresh.static = NoKey /\ DOMAIN Nothing = {}
  BY NothingUnder DEF Fresh
<1>3. TypeOK' /\ Sound(mem') /\ Grounded(mem') /\ Whole' /\ Synced' /\ Resting'
  BY <1>1, <1>2, EmptyObjects DEF Inv, TypeOK, Grounded, Whole, Synced, Resting
<1>4. Numbered'
  BY <1>1, <1>2, Numbers DEF Inv, Numbered, NoKey
<1>5. Found(file, "hmac")' = Found(file, "hmac") /\ Found(file, "static")' = Found(file, "static")
  BY <1>1 DEF Found
<1>6. Younger' /\ Complete'
  BY <1>1, <1>2, <1>5 DEF Inv, Younger, Complete
<1>7. \A rec : Wanted(rec)' <=> Wanted(rec)
  BY <1>1 DEF Wanted, Expired
<1>8. OnDuty'
  <2>1. ~offDuty /\ ~lost' /\ file.state = "saved" =>
          /\ Kept(file.records, Found(file, "static"), file.keys)' /\ Advertised(file.records)'
    BY <1>1, <1>5, <1>7 DEF Inv, OnDuty, Kept, Advertised
  <2> QED  BY <1>1, <1>2, <2>1 DEF Inv, OnDuty, Unknown
<1> QED  BY <1>3, <1>4, <1>6, <1>8 DEF Inv, Sound, Grounded

\* The records after one key of a type was retired and a new one made.
LEMMA RotatedFacts ==
  ASSUME Inv, made < MaxKeys, NEW type \in {"static", "hmac"}
  PROVE  LET old == FirstActive(mem.records, type)
             rs  == With(Retire(mem.records, old), made + 1, Born(type))
         IN  /\ rs \in Under(Record) /\ DOMAIN rs = DOMAIN mem.records \cup {made + 1}
             /\ made + 1 \notin DOMAIN mem.records /\ rs[made + 1] = Born(type)
             /\ \A k \in DOMAIN mem.records : k # old => rs[k] = mem.records[k]
             /\ old # NoKey => /\ old \in Keys /\ old \in DOMAIN mem.records
                               /\ mem.records[old] = Born(type)
                               /\ rs[old] = [type |-> type, retired |-> clock]
<1> DEFINE old == FirstActive(mem.records, type)
           ret == Retire(mem.records, old)
           rs  == With(ret, made + 1, Born(type))
<1>1. made + 1 \in Keys /\ made + 1 \notin 1 .. made /\ DOMAIN mem.records \subseteq 1 .. made
  BY Numbers DEF Inv, Numbered, Keys
<1>2. /\ mem.records \in Under(Record) /\ mem.records \in [DOMAIN mem.records -> Record]
      /\ DOMAIN mem.records \subseteq Keys
  BY Numbers, UnderOps
<1>3. old # NoKey => /\ old \in Keys /\ old \in DOMAIN mem.records /\ mem.records[old] = Born(type)
  BY <1>2, FirstActiveIn DEF ActiveIn, Born
<1> HIDE DEF old
<1>4. /\ ret \in [DOMAIN mem.records -> Record]
      /\ \A k \in DOMAIN mem.records : k # old => ret[k] = mem.records[k]
      /\ old # NoKey => ret[old] = [type |-> type, retired |-> clock]
  <2>1. CASE old = NoKey
    BY <1>2, <2>1 DEF Retire
  <2>2. CASE old # NoKey
    <3>1. ret = [mem.records EXCEPT ![old] = [@ EXCEPT !.retired = clock]]
      BY <2>2 DEF Retire
    <3>2. [mem.records[old] EXCEPT !.retired = clock] = [type |-> type, retired |-> clock]
      BY <1>3, <2>2 DEF Born
    <3>3. [type |-> type, retired |-> clock] \in Record
      BY Numbers DEF Record
    <3> QED  BY <1>2, <1>3, <2>2, <3>1, <3>2, <3>3
  <2> QED  BY <2>1, <2>2
<1> HIDE DEF ret
<1>5. ret \in Under(Record)
  BY <1>2, <1>4 DEF Under
<1>6. rs \in Under(Record)
  BY <1>1, <1>5, Numbers, UnderOps
<1>7. /\ DOMAIN rs = DOMAIN mem.records \cup {made + 1} /\ rs[made + 1] = Born(type)
      /\ \A k \in DOMAIN mem.records : rs[k] = ret[k]
  BY <1>1, <1>4 DEF With
<1> HIDE DEF rs
<1>8. made + 1 \notin DOMAIN mem.records
  BY <1>1
<1>9. \A k \in DOMAIN mem.records : k # old => rs[k] = mem.records[k]
  BY <1>4, <1>7
<1>10. old # NoKey => rs[old] = [type |-> type, retired |-> clock]
  BY <1>3, <1>4, <1>7
<1> QED  BY <1>3, <1>6, <1>7, <1>8, <1>9, <1>10 DEF old, ret, rs

LEMMA RotateStaticInv == ASSUME Inv, RotateStatic PROVE Inv'
<1> DEFINE old == FirstActive(mem.records, "static")
           rs  == With(Retire(mem.records, old), made + 1, Born("static"))
           kept == IF old = NoKey THEN mem.retired ELSE With(mem.retired, old, mem.static)
           ret == Only(kept, Unexpired(rs))
           m   == [mem EXCEPT !.records = rs, !.static = made + 1, !.retired = ret]
<1>1. /\ mem.running /\ made < MaxKeys /\ made' = made + 1 /\ Save(m, m, revoked)
      /\ UNCHANGED Environment /\ offDuty' = offDuty /\ lost' = lost
  BY DEF RotateStatic
<1>2. /\ rs \in Under(Record) /\ DOMAIN rs = DOMAIN mem.records \cup {made + 1}
      /\ made + 1 \notin DOMAIN mem.records /\ rs[made + 1] = Born("static")
      /\ \A k \in DOMAIN mem.records : k # old => rs[k] = mem.records[k]
      /\ old # NoKey => /\ old \in Keys /\ old \in DOMAIN mem.records
                        /\ mem.records[old] = Born("static")
                        /\ rs[old] = [type |-> "static", retired |-> clock]
  BY <1>1, RotatedFacts
<1>3. /\ made' \in made .. MaxKeys /\ made + 1 \in Keys /\ made + 1 \in 0 .. MaxKeys /\ mem.hmac \in 0 .. made'
      /\ revoked \in revoked .. made' /\ made + 1 # NoKey /\ 1 .. made \subseteq 1 .. made'
      /\ made + 1 \in 1 .. made' /\ mem.static \in 0 .. MaxKeys
  BY <1>1, Numbers DEF Keys, NoKey
<1>4. Sound(mem) /\ mem.static # NoKey /\ mem.hmac # NoKey /\ mem.static \in Keys
  <2>1. Sound(mem) /\ mem.static # NoKey /\ mem.hmac # NoKey
    BY <1>1 DEF Inv, Sound
  <2> QED  BY <1>3, <2>1, Numbers DEF Keys, NoKey
<1>5. Odd \/ old # NoKey
  BY <1>4, Numbers, FirstActiveIn DEF Inv, Grounded
<1>50. NoKey \notin DOMAIN mem.records /\ NoKey \notin DOMAIN mem.retired
  BY Numbers, UnderOps DEF Keys, NoKey
<1> DEFINE live == Unexpired(rs)
<1> HIDE DEF old, rs
<1>6. /\ kept \in Under(Keys) /\ DOMAIN kept = DOMAIN mem.retired \cup ({old} \ {NoKey})
      /\ old # NoKey => kept[old] = mem.static
      /\ \A k \in DOMAIN mem.retired \ {old} : kept[k] = mem.retired[k]
  <2>1. CASE old = NoKey
    BY <2>1, Numbers
  <2>2. CASE old # NoKey
    <3>1. kept = With(mem.retired, old, mem.static)
      BY <2>2
    <3>2. With(mem.retired, old, mem.static) \in Under(Keys)
      BY <1>2, <1>4, <2>2, Numbers, UnderOps
    <3> QED  BY <2>2, <3>1, <3>2 DEF With
  <2> QED  BY <2>1, <2>2
<1> HIDE DEF kept, live
<1>7. /\ ret \in Under(Keys) /\ DOMAIN ret = DOMAIN kept \cap live
      /\ \A k \in DOMAIN ret : ret[k] = kept[k]
  <2>1. ret = Only(kept, live)
    BY DEF live
  <2>2. Only(kept, live) \in Under(Keys)
    BY <1>6, UnderOps
  <2> QED  BY <2>1, <2>2 DEF Only
<1> HIDE DEF ret
<1>8. /\ m \in Object /\ m.records = rs /\ m.static = made + 1 /\ m.retired = ret
      /\ m.hmac = mem.hmac /\ m.running = mem.running
  <2>1. mem \in Object
    BY Numbers
  <2> QED  BY <1>2, <1>3, <1>7, <2>1 DEF Object
<1> HIDE DEF m
<1>9. \A k \in DOMAIN mem.records : rs[k].type = mem.records[k].type
  BY <1>2, <1>50 DEF Born
<1>10. Sound(m) /\ Grounded(m)
  <2>1. \A k \in DOMAIN ret : k \in DOMAIN rs /\ rs[k].type = "static" /\ rs[k].retired # Active
    BY <1>2, <1>4, <1>50, <1>6, <1>7, Numbers DEF Sound
  <2>2. made + 1 \in ActiveIn(rs, "static")
    BY <1>2 DEF ActiveIn, Born
  <2>3. PICK k \in DOMAIN mem.records : mem.records[k] = [type |-> "hmac", retired |-> Active]
    BY <1>4 DEF Sound, ActiveIn
  <2>4. k # old
    BY <1>2, <1>50, <2>3 DEF Born
  <2>5. k \in ActiveIn(rs, "hmac")
    BY <1>2, <2>3, <2>4 DEF ActiveIn
  <2> QED  BY <1>3, <1>4, <1>8, <2>1, <2>2, <2>5 DEF Sound, Grounded
<1>11. ~offDuty' /\ ~lost' => /\ Kept(m.records, m.static, m.retired) /\ Advertised(m.records)
                              /\ file.state # "none"
  <2> SUFFICES ASSUME ~offDuty, ~lost
               PROVE  Kept(rs, made + 1, ret) /\ Advertised(rs) /\ file.state # "none"
    BY <1>1, <1>8
  <2>1. Kept(mem.records, mem.static, mem.retired) /\ Advertised(mem.records) /\ file.state # "none"
    BY <1>1 DEF Inv, OnDuty, Unknown
  <2>0. old # NoKey
    BY <1>5 DEF Odd
  <2>2. Advertised(rs)
    BY <1>2, <1>9, <2>1 DEF Advertised
  <2>3. old = mem.static
    BY <1>2, <2>0, <2>1 DEF Kept, Born
  <2>4. ASSUME NEW k \in DOMAIN rs, rs[k].type = "static", rs[k].retired = Active PROVE k = made + 1
    BY <1>2, <2>0, <2>1, <2>3, <2>4, Numbers DEF Kept
  <2>5. ASSUME NEW k \in DOMAIN rs, Wanted(rs[k]) PROVE k \in DOMAIN ret /\ ret[k] = k
    <3>1. k # made + 1 /\ k \in DOMAIN mem.records
      BY <1>2, <2>5 DEF Wanted, Born
    <3>2. k \in live
      BY <2>5 DEF live, Unexpired, Wanted
    <3>3. CASE k = old
      BY <1>6, <1>7, <2>0, <2>3, <3>2, <3>3
    <3>4. CASE k # old
      <4>1. Wanted(mem.records[k])
        BY <1>2, <2>5, <3>1, <3>4
      <4> QED  BY <1>6, <1>7, <2>1, <3>1, <3>2, <3>4, <4>1 DEF Kept
    <3> QED  BY <3>3, <3>4
  <2> QED  BY <2>1, <2>2, <2>4, <2>5 DEF Kept
<1>12. /\ DOMAIN m.records \subseteq 1 .. made' /\ offDuty' \in BOOLEAN /\ lost' \in BOOLEAN /\ m.static # NoKey
       /\ m.hmac # NoKey /\ revoked < m.hmac /\ m.hmac \in 0 .. made'
  BY <1>1, <1>2, <1>3, <1>4, <1>8 DEF Inv, Numbered, TypeOK, Younger
<1> QED  BY <1>1, <1>3, <1>4, <1>8, <1>10, <1>11, <1>12, SaveInv

LEMMA RotateHmacInv == ASSUME Inv, RotateHmac PROVE Inv'
<1> DEFINE old == FirstActive(mem.records, "hmac")
           rs  == With(Retire(mem.records, old), made + 1, Born("hmac"))
           m   == [mem EXCEPT !.hmac = made + 1, !.records = rs]
<1>1. /\ made < MaxKeys /\ made' = made + 1 /\ UNCHANGED Environment
      /\ offDuty' = (offDuty \/ ~mem.running) /\ Save(m, m, made) /\ lost' = lost
  <2>1. [mem EXCEPT !.hmac = made + 1,
                    !.records = With(Retire(mem.records, old), made + 1, Born("hmac"))] = m
    OBVIOUS
  <2> QED  BY <2>1 DEF RotateHmac
<1>2. /\ rs \in Under(Record) /\ DOMAIN rs = DOMAIN mem.records \cup {made + 1}
      /\ made + 1 \notin DOMAIN mem.records /\ rs[made + 1] = Born("hmac")
      /\ \A k \in DOMAIN mem.records : k # old => rs[k] = mem.records[k]
      /\ old # NoKey => /\ old \in Keys /\ old \in DOMAIN mem.records
                        /\ mem.records[old] = Born("hmac")
                        /\ rs[old] = [type |-> "hmac", retired |-> clock]
  BY <1>1, RotatedFacts
<1>3. /\ made' \in made .. MaxKeys /\ made + 1 \in 0 .. MaxKeys /\ made + 1 \in 0 .. made'
      /\ made \in revoked .. made' /\ made + 1 # NoKey /\ 1 .. made \subseteq 1 .. made'
      /\ made + 1 \in 1 .. made' /\ made < made + 1 /\ revoked < made + 1 /\ revoked \in 0 .. made'
      /\ made' \in 0 .. MaxKeys /\ 0 .. made \subseteq 0 .. made'
  BY <1>1, Numbers DEF NoKey
<1> HIDE DEF old, rs
<1>4. /\ m \in Object /\ m.records = rs /\ m.static = mem.static /\ m.retired = mem.retired
      /\ m.hmac = made + 1 /\ m.running = mem.running
  <2>1. mem \in Object
    BY Numbers
  <2> QED  BY <1>2, <1>3, <2>1 DEF Object
<1> HIDE DEF m
<1>5. NoKey \notin DOMAIN mem.records
  BY Numbers, UnderOps DEF Keys, NoKey
<1>6. /\ \A k \in DOMAIN mem.records : rs[k].type = mem.records[k].type
      /\ \A k \in DOMAIN mem.records : mem.records[k].type = "static" => rs[k] = mem.records[k]
  BY <1>2, <1>5 DEF Born
<1>7. Sound(m) /\ (Odd' \/ Grounded(m))
  <2>1. Sound(mem) /\ (Odd' \/ Grounded(mem))
    BY <1>1 DEF Inv, Odd
  <2>2. \A k \in DOMAIN m.retired : k \in DOMAIN rs /\ rs[k].type = "static" /\ rs[k].retired # Active
    BY <1>2, <1>4, <1>6, <2>1 DEF Sound
  <2>3. made + 1 \in ActiveIn(rs, "hmac")
    BY <1>2 DEF ActiveIn, Born
  <2>4. ActiveIn(mem.records, "static") \subseteq ActiveIn(rs, "static")
    BY <1>2, <1>6 DEF ActiveIn
  <2> QED  BY <1>3, <1>4, <2>1, <2>2, <2>3, <2>4 DEF Sound, Grounded
<1>8. ~offDuty' /\ ~lost' => /\ Kept(m.records, m.static, m.retired) /\ Advertised(m.records)
                             /\ file.state # "none"
  <2> SUFFICES ASSUME ~offDuty, ~lost, mem.running
               PROVE  /\ Kept(rs, mem.static, mem.retired) /\ Advertised(rs) /\ file.state # "none"
    BY <1>1, <1>3, <1>4
  <2>1. /\ Kept(mem.records, mem.static, mem.retired) /\ Advertised(mem.records)
        /\ file.state # "none"
    BY DEF Inv, OnDuty, Unknown
  <2>2. \A k \in DOMAIN rs : rs[k].type = "static" => k \in DOMAIN mem.records /\ rs[k] = mem.records[k]
    BY <1>2, <1>6 DEF Born
  <2>3. Kept(rs, mem.static, mem.retired)
    BY <2>1, <2>2 DEF Kept, Wanted
  <2>4. Advertised(rs)
    BY <1>2, <1>6, <2>1 DEF Advertised
  <2> QED  BY <2>1, <2>3, <2>4
<1>9. DOMAIN m.records \subseteq 1 .. made' /\ offDuty' \in BOOLEAN /\ lost' \in BOOLEAN /\ (offDuty => offDuty')
  <2>1. DOMAIN m.records \subseteq 1 .. made'
    BY <1>2, <1>3, <1>4 DEF Inv, Numbered
  <2>2. offDuty' \in BOOLEAN /\ lost' \in BOOLEAN /\ (offDuty => offDuty')
    BY <1>1 DEF Inv, TypeOK
  <2> QED  BY <2>1, <2>2
<1>10. /\ m.hmac \in 0 .. made' /\ made < m.hmac /\ made \in revoked .. made' /\ m.hmac # NoKey
       /\ made' \in made .. MaxKeys
  BY <1>3, <1>4
<1>11. (m.running => m.static # NoKey) /\ (~offDuty' => m.static # NoKey) /\ (~m.running => offDuty')
  <2>1. m.running => m.static # NoKey
    BY <1>7 DEF Sound
  <2> QED  BY <1>1, <1>4, <2>1
<1>12. file.state = "saved" /\ ~Odd' /\ ~m.running /\ m.static # NoKey => Found(file, "static") = m.static
  BY <1>1, <1>4 DEF Inv, Resting, Odd
<1> QED  BY <1>1, <1>4, <1>7, <1>8, <1>9, <1>10, <1>11, <1>12, SaveInv

\* A step that leaves the object and the file alone; the clock may move on.
LEMMA QuietInv ==
  ASSUME Inv, UNCHANGED <<made, mem, file, revoked, offDuty, stale, lost>>,
         clock' \in clock .. MaxTime, card' \in 0 .. MaxKeys, envelope' \in Envelopes, token' \in Tokens,
         ~offDuty /\ ~lost =>
            /\ mem.running => Advertised(mem.records)'
            /\ file.state = "saved" /\ ~(stale /\ mem.running) => Advertised(file.records)'
            /\ file.state = "none" => card' = NoKey /\ envelope'.key = NoKey
  PROVE  Inv'
<1>1. clock' \in 0 .. MaxTime
  <2>1. clock \in Nat /\ MaxTime \in Nat /\ clock' \in clock .. MaxTime
    BY Numbers, TimesAssumption
  <2> QED  BY <2>1
<1>2. TypeOK' /\ Sound(mem') /\ (Odd' \/ Grounded(mem')) /\ Whole'
  BY <1>1 DEF Inv, TypeOK, Whole, Odd
<1>3. \A f, type : Found(f, type)' = Found(f, type)
  BY DEF Found
<1>4. Numbered'
  <2>1. Found(file, "hmac")' = Found(file, "hmac")
    BY DEF Found
  <2> QED  BY <2>1 DEF Inv, Numbered
<1>5. Younger' /\ Complete' /\ Resting'
  <2>1. Found(file, "hmac")' = Found(file, "hmac") /\ Found(file, "static")' = Found(file, "static")
    BY DEF Found
  <2> QED  BY <2>1 DEF Inv, Younger, Complete, Resting, Odd
<1>6. \A rec \in Record : Wanted(rec)' => Wanted(rec)
  <2> SUFFICES ASSUME NEW rec \in Record, rec.retired # Active, Expired(rec) PROVE Expired(rec)'
    BY DEF Wanted
  <2>1. rec.retired \in Nat /\ clock \in Nat /\ clock' \in Nat /\ clock <= clock' /\ KeyTTL \in Nat
    BY <1>1, Numbers, TimesAssumption DEF Record, Active
  <2> QED  BY <2>1 DEF Expired
<1>7. /\ \A k \in DOMAIN mem.records : mem.records[k] \in Record
      /\ \A k \in DOMAIN file.records : file.records[k] \in Record
  BY Numbers, UnderOps
<1>8. Synced'
  <2>1. Holds(file, mem) => Holds(file, mem)'
    BY <1>3, <1>6, <1>7 DEF Holds, Found
  <2> QED  BY <2>1 DEF Inv, Synced, Odd
<1>9. OnDuty'
  <2>1. Kept(mem.records, mem.static, mem.retired) => Kept(mem.records, mem.static, mem.retired)'
    BY <1>6, <1>7 DEF Kept
  <2>2. Kept(file.records, Found(file, "static"), file.keys)
          => Kept(file.records, Found(file, "static"), file.keys)'
    BY <1>6, <1>7 DEF Kept, Found
  <2>3. Found(file, "hmac")' = Found(file, "hmac") /\ Found(file, "static")' = Found(file, "static")
    BY DEF Found
  <2> QED  BY <2>1, <2>2, <2>3 DEF Inv, OnDuty, Unknown
<1> QED  BY <1>2, <1>4, <1>5, <1>8, <1>9 DEF Inv, Sound, Grounded

LEMMA FetchCardInv == ASSUME Inv, FetchCard PROVE Inv'
<1>1. /\ mem.running /\ card' = mem.static
      /\ UNCHANGED <<clock, made, mem, file, envelope, token, revoked, offDuty, stale, lost>>
  BY DEF FetchCard
<1>2. /\ clock' \in clock .. MaxTime /\ card' \in 0 .. MaxKeys /\ envelope' \in Envelopes
      /\ token' \in Tokens
  <2>1. clock' \in clock .. MaxTime
    BY <1>1, Numbers
  <2> QED  BY <1>1, <2>1, Numbers DEF Inv, TypeOK
<1>3. ASSUME ~offDuty, ~lost
      PROVE  /\ Advertised(mem.records)'
             /\ file.state = "saved" /\ ~stale => Advertised(file.records)'
             /\ file.state # "none"
  <2>1. file.state # "none"
    BY <1>1, <1>3 DEF Inv, OnDuty, Unknown
  <2>2. Kept(mem.records, mem.static, mem.retired) /\ Advertised(mem.records) /\ mem.static # NoKey
    BY <1>1, <1>3 DEF Inv, OnDuty, Sound
  <2>3. mem.static \in DOMAIN mem.records /\ mem.records[mem.static].type = "static"
    <3>1. PICK k \in ActiveIn(mem.records, "static") : TRUE
      BY <1>3, <2>2 DEF Inv, Grounded, Odd
    <3> QED  BY <2>2, <3>1 DEF ActiveIn, Kept
  <2>4. Advertised(mem.records)'
    BY <1>1, <2>2, <2>3 DEF Advertised
  <2>5. file.state = "saved" /\ ~stale => file.records = mem.records
    BY <1>3, <2>2 DEF Inv, Synced, Holds, Odd
  <2>6. file.state = "saved" /\ ~stale => Advertised(file.records)'
    BY <1>1, <2>4, <2>5 DEF Advertised
  <2> QED  BY <2>1, <2>4, <2>6
<1> QED  BY <1>1, <1>2, <1>3, QuietInv

LEMMA EnvelopeInv == ASSUME Inv, Seal PROVE Inv'
<1>1. PICK s \in -Skew .. Skew : envelope' = [key |-> card, at |-> clock + s]
  BY DEF Seal
<1>2. UNCHANGED <<clock, made, mem, file, card, token, revoked, offDuty, stale, lost>> /\ card # NoKey
  BY DEF Seal
<1>3. clock' \in clock .. MaxTime /\ clock + s \in -Skew .. MaxTime + Skew
  BY <1>2, Numbers, TimesAssumption
<1>4. card' \in 0 .. MaxKeys /\ envelope' \in Envelopes /\ token' \in Tokens
  BY <1>1, <1>2, <1>3 DEF Inv, TypeOK, Envelopes
<1>5. /\ Advertised(mem.records) => Advertised(mem.records)'
      /\ Advertised(file.records) => Advertised(file.records)'
  BY <1>1, <1>2 DEF Advertised
<1> QED  BY <1>2, <1>3, <1>4, <1>5, QuietInv DEF Inv, OnDuty, Unknown

LEMMA IssueInv == ASSUME Inv, Issue PROVE Inv'
<1>1. PICK ttl \in TokenTTLs : token' = [key |-> mem.hmac, at |-> clock, exp |-> clock + ttl]
  BY DEF Issue
<1>2. UNCHANGED <<clock, made, mem, file, card, envelope, revoked, offDuty, stale, lost>>
  BY DEF Issue
<1>3. clock' \in clock .. MaxTime /\ clock + ttl \in Nat
  BY <1>2, Numbers, TimesAssumption
<1>4. card' \in 0 .. MaxKeys /\ envelope' \in Envelopes /\ token' \in Tokens
  BY <1>1, <1>2, <1>3, Numbers DEF Inv, TypeOK, Tokens
<1>5. /\ Advertised(mem.records) => Advertised(mem.records)'
      /\ Advertised(file.records) => Advertised(file.records)'
  BY <1>2 DEF Advertised
<1> QED  BY <1>2, <1>3, <1>4, <1>5, QuietInv DEF Inv, OnDuty, Unknown

LEMMA TickInv == ASSUME Inv, Tick PROVE Inv'
<1>1. clock < MaxTime /\ clock' = clock + 1
  BY DEF Tick
<1>2. UNCHANGED <<made, mem, file, card, envelope, token, revoked, offDuty, stale, lost>>
  BY DEF Tick
<1>3. clock' \in clock .. MaxTime
  BY <1>1, Numbers, TimesAssumption
<1>4. card' \in 0 .. MaxKeys /\ envelope' \in Envelopes /\ token' \in Tokens
  BY <1>2 DEF Inv, TypeOK
<1>5. /\ Advertised(mem.records) => Advertised(mem.records)'
      /\ Advertised(file.records) => Advertised(file.records)'
  BY <1>2 DEF Advertised
<1> QED  BY <1>2, <1>3, <1>4, <1>5, QuietInv DEF Inv, OnDuty, Unknown

LEMMA StutterInv == ASSUME Inv, UNCHANGED vars PROVE Inv'
<1>1. UNCHANGED <<clock, made, mem, file, card, envelope, token, revoked, offDuty, stale, lost>>
  BY DEF vars
<1>2. clock' \in clock .. MaxTime
  BY <1>1, Numbers, TimesAssumption
<1>3. card' \in 0 .. MaxKeys /\ envelope' \in Envelopes /\ token' \in Tokens
  BY <1>1 DEF Inv, TypeOK
<1>4. /\ Advertised(mem.records) => Advertised(mem.records)'
      /\ Advertised(file.records) => Advertised(file.records)'
  BY <1>1 DEF Advertised
<1> QED  BY <1>1, <1>2, <1>3, <1>4, QuietInv DEF Inv, OnDuty, Unknown

\* The invariant is inductive.
LEMMA AlwaysInv == Spec => []Inv
<1>1. Init => Inv
  BY InitInv
<1>2. Inv /\ [Next]_vars => Inv'
  BY StartInv, StopInv, RotateStaticInv, RotateHmacInv, CrashInv, FetchCardInv, EnvelopeInv,
     IssueInv, TickInv, StutterInv DEF Next
<1> QED  BY <1>1, <1>2, PTL DEF Spec

-----------------------------------------------------------------------------
(* Theorems *)

\* Every variable keeps its type: no operation keeps a key under an id it has no
\* place for, however often keys are rotated, saved, lost and loaded.
THEOREM TypeCorrect == Spec => []TypeOK
<1>1. Inv => TypeOK
  BY DEF Inv
<1> QED  BY <1>1, AlwaysInv, PTL

\* rotate_hmac_key() revokes for good: no token issued before it returned
\* verifies afterwards, over every restart, crash and torn file.
THEOREM RevokedForever == Spec => []RevokedStaysRevoked
<1>1. ASSUME Inv PROVE RevokedStaysRevoked
  <2>1. revoked \in Nat /\ mem.hmac \in Nat /\ token.key \in Nat
    BY <1>1, Numbers, TimesAssumption DEF Inv, TypeOK, Tokens
  <2>2. mem.hmac # NoKey => revoked < mem.hmac
    BY <1>1 DEF Inv, Younger
  <2> QED  BY <2>1, <2>2 DEF RevokedStaysRevoked, Verifies
<1> QED  BY <1>1, AlwaysInv, PTL

\* A store that runs holds what a restart would load from its whole file, unless
\* the last write was refused.
THEOREM RestartIsFaithful == Spec => []RestartRestores
<1>1. ASSUME Inv, mem.running, file.state = "saved", ~stale, ~(offDuty /\ lost)
      PROVE  LET m == Loaded(file, Fresh) IN
             /\ m.records = mem.records
             /\ m.static = mem.static /\ m.hmac = mem.hmac
             /\ m.retired = Only(mem.retired, Unexpired(mem.records))
  <2> DEFINE W == {k \in DOMAIN file.records : /\ file.records[k].type = "static"
                                               /\ file.records[k].retired # Active
                                               /\ ~Expired(file.records[k])}
             s == FirstActive(file.records, "static")
             h == FirstActive(file.records, "hmac")
             sk == IF s \in DOMAIN file.keys THEN file.keys[s] ELSE NoKey
             hk == IF h \in DOMAIN file.keys THEN file.keys[h] ELSE NoKey
             t  == Only(file.keys, W)
             x  == [Fresh EXCEPT !.records = file.records, !.static = sk, !.hmac = hk, !.retired = t]
  <2>1. Sound(mem) /\ mem.static # NoKey /\ mem.hmac # NoKey /\ Holds(file, mem)
    BY <1>1 DEF Inv, Sound, Synced, Odd
  <2>2. sk = mem.static /\ hk = mem.hmac
    BY <2>1 DEF Holds, Found
  <2>3. Loaded(file, Fresh) = x
    BY DEF Loaded, Fresh
  <2>4. W = {k \in DOMAIN mem.records : Wanted(mem.records[k])}
    BY <2>1 DEF Holds, Wanted
  <2> DEFINE kept == Only(mem.retired, Unexpired(mem.records))
  <2>5. t = kept
    <3> HIDE DEF W
    <3>1. DOMAIN t = DOMAIN file.keys \cap W /\ \A k \in DOMAIN t : t[k] = file.keys[k]
      BY DEF Only
    <3>2. /\ DOMAIN kept = DOMAIN mem.retired \cap Unexpired(mem.records)
          /\ \A k \in DOMAIN kept : kept[k] = mem.retired[k]
      BY DEF Only
    <3>3. DOMAIN t = DOMAIN kept /\ \A k \in DOMAIN t : t[k] = kept[k]
      BY <2>1, <2>4, <3>1, <3>2 DEF Holds, Sound, Wanted, Unexpired
    <3>4. t = [k \in DOMAIN t |-> t[k]] /\ kept = [k \in DOMAIN kept |-> kept[k]]
      BY DEF Only
    <3> HIDE DEF t, kept
    <3> QED  BY <3>3, <3>4
  <2> HIDE DEF sk, hk, t, kept
  <2>6. x.records = file.records /\ x.static = sk /\ x.hmac = hk /\ x.retired = t
    BY DEF Fresh
  <2>7. file.records = mem.records
    BY <2>1 DEF Holds
  <2> HIDE DEF x
  <2> QED  BY <2>2, <2>3, <2>5, <2>6, <2>7 DEF kept
<1>2. Inv => RestartRestores
  BY <1>1 DEF RestartRestores
<1> QED  BY <1>2, AlwaysInv, PTL

\* What was sealed to an advertised key is opened, whatever happened meanwhile,
\* until the key has been retired for longer than KeyTTL; a key whose write was
\* refused can be lost only with the process.
THEOREM AdvertisedOpens == Spec => []InFlightOpens
<1>1. ASSUME Inv, mem.running, ~offDuty, ~lost, envelope.key # NoKey, InTime(envelope),
             envelope.key \notin DOMAIN mem.records \ Unexpired(mem.records)
      PROVE  Opens(envelope)
  <2> DEFINE k == envelope.key
  <2>1. Kept(mem.records, mem.static, mem.retired) /\ Advertised(mem.records)
    BY <1>1 DEF Inv, OnDuty
  <2>2. k \in DOMAIN mem.records /\ mem.records[k].type = "static" /\ ~Expired(mem.records[k])
    BY <1>1, <2>1 DEF Advertised, Unexpired
  <2>3. k = mem.static \/ (k \in DOMAIN mem.retired /\ mem.retired[k] = k)
    BY <2>1, <2>2 DEF Kept, Wanted
  <2> QED  BY <1>1, <2>3 DEF Opens, Decrypts, PrivateKey
<1>2. Inv => InFlightOpens
  BY <1>1 DEF InFlightOpens
<1> QED  BY <1>2, AlwaysInv, PTL
=============================================================================
