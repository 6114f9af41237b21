------------------------ MODULE InferenceEngine_proofs ------------------------
(* Theorems about InferenceEngine and their proofs. *)
EXTENDS InferenceEngine, FiniteSetTheorems, SequenceTheorems, TLAPS

-----------------------------------------------------------------------------
(* The inductive invariant *)

Distinct(q) == \A i, j \in DOMAIN q : q[i] = q[j] => i = j

\* Each call is in the place its frame names, and there once.
PlacesOK ==
  /\ Distinct(waiting) /\ Distinct(queue)
  /\ \A i \in DOMAIN queue : queue[i] \in Calls => call[queue[i]].at = "queued"
  /\ job \in Calls => call[job].at \in {"running", "cancelled"}

\* A load is in one place too, so that its model is new when it is done.
LoadsOK ==
  /\ \A i \in DOMAIN queue : queue[i] \in Loads => load[queue[i]] = "queued"
  /\ job \in Loads => load[job] = "running"
  /\ \A l \in Loads : load[l] \in {"queued", "running", "ran"} => llama
  /\ model # None => llama
  /\ model # None => load[model] = "done" /\ name = FileOf[model]

\* What has a text was made by a model, which has its name or never comes back.
MadeOK == \A c \in Calls :
  /\ call[c].used # None => load[call[c].used] = "done"
  /\ call[c].at \in {"ran", "returned"} /\ call[c].out = "text" => call[c].used # None
  /\ call[c].at = "returned" /\ call[c].out = "text" /\ call[c].used = model =>
       call[c].name = FileOf[model]

Inv == TypeOK /\ PlacesOK /\ LoadsOK /\ MadeOK /\ PermitsExact

-----------------------------------------------------------------------------
(* Sequences without repetitions *)

LEMMA AppendDistinct ==
  ASSUME NEW S, NEW q \in Seq(S), Distinct(q), NEW e \in S, \A i \in DOMAIN q : q[i] # e
  PROVE  /\ Append(q, e) \in Seq(S) /\ Distinct(Append(q, e))
         /\ \A i \in DOMAIN Append(q, e) :
              \/ Append(q, e)[i] = e
              \/ Append(q, e)[i] # e /\ \E j \in DOMAIN q : Append(q, e)[i] = q[j]
  BY DEF Distinct

LEMMA TailDistinct ==
  ASSUME NEW S, NEW q \in Seq(S), Distinct(q), q # <<>>
  PROVE  /\ Head(q) \in S /\ Tail(q) \in Seq(S) /\ Distinct(Tail(q))
         /\ \E i \in DOMAIN q : Head(q) = q[i]
         /\ \A i \in DOMAIN Tail(q) : Tail(q)[i] # Head(q) /\ \E j \in DOMAIN q : Tail(q)[i] = q[j]
<1>1. /\ Len(q) \in Nat /\ Len(q) > 0 /\ DOMAIN q = 1 .. Len(q) /\ Head(q) = q[1]
      /\ Tail(q) \in Seq(S) /\ DOMAIN Tail(q) = 1 .. (Len(q) - 1)
      /\ \A i \in 1 .. (Len(q) - 1) : Tail(q)[i] = q[i + 1]
  OBVIOUS
<1>2. \A i \in 1 .. (Len(q) - 1) : i + 1 \in DOMAIN q /\ i + 1 # 1
  BY <1>1
<1>3. Distinct(Tail(q))
  BY <1>1, <1>2 DEF Distinct
<1>4. \A i \in DOMAIN Tail(q) : Tail(q)[i] # Head(q)
  BY <1>1, <1>2 DEF Distinct
<1> QED  BY <1>1, <1>2, <1>3, <1>4

LEMMA RemoveDistinct ==
  ASSUME NEW S, NEW q \in Seq(S), Distinct(q), NEW e
  PROVE  /\ RemoveFirst(q, e) \in Seq(S) /\ Distinct(RemoveFirst(q, e))
         /\ \A i \in DOMAIN RemoveFirst(q, e) : \E j \in DOMAIN q :
              RemoveFirst(q, e)[i] = q[j] /\ q[j] # e
<1>1. CASE ~ \E i \in 1 .. Len(q) : q[i] = e
  BY <1>1 DEF RemoveFirst
<1>2. CASE \E i \in 1 .. Len(q) : q[i] = e
  <2>1. PICK k \in 1 .. Len(q) : q[k] = e
    BY <1>2
  <2>2. {i \in 1 .. Len(q) : q[i] = e} = {k}
    BY <2>1 DEF Distinct
  <2>3. SelectInSeq(q, LAMBDA v : v = e) = k
    BY <2>2 DEF SelectInSeq, Min
  <2>4. RemoveFirst(q, e) = RemoveAt(q, k)
    BY <1>2, <2>3 DEF RemoveFirst
  <2> DEFINE r == RemoveAt(q, k)
             n == Len(q)
             At(i) == IF i < k THEN i ELSE i + 1
  <2>5. /\ r \in Seq(S) /\ Len(r) = n - 1
        /\ \A i \in 1 .. (n - 1) : r[i] = q[At(i)]
    <3> DEFINE a == SubSeq(q, 1, k - 1)
               b == SubSeq(q, k + 1, n)
    <3>1. a \in Seq(S) /\ Len(a) = k - 1 /\ \A i \in 1 .. (k - 1) : a[i] = q[i]
      BY SubSeqProperties
    <3>2. b \in Seq(S) /\ Len(b) = n - k /\ \A i \in 1 .. (n - k) : b[i] = q[k + i]
      BY SubSeqProperties
    <3>3. r = a \o b
      BY DEF RemoveAt
    <3>4. k - 1 \in Nat /\ n - k \in Nat /\ (k - 1) + (n - k) = n - 1 /\ k \in Int /\ n \in Int
      OBVIOUS
    <3> HIDE DEF a, b, r, n
    <3>5. r \in Seq(S) /\ Len(r) = n - 1
      <4>1. a \o b \in Seq(S) /\ Len(a \o b) = Len(a) + Len(b)
        BY <3>1, <3>2, ConcatProperties
      <4> QED  BY <3>1, <3>2, <3>3, <3>4, <4>1
    <3>6. \A i \in 1 .. (n - 1) : r[i] = IF i <= k - 1 THEN a[i] ELSE b[i - (k - 1)]
      BY <3>1, <3>2, <3>3, <3>4
    <3>7. ASSUME NEW i \in 1 .. (n - 1) PROVE r[i] = q[At(i)]
      <4>1. CASE i < k
        BY <3>1, <3>4, <3>6, <4>1
      <4>2. CASE ~(i < k)
        <5>1. i - (k - 1) \in 1 .. (n - k) /\ k + (i - (k - 1)) = i + 1  BY <3>4, <4>2
        <5> QED  BY <3>2, <3>4, <3>6, <4>2, <5>1
      <4> QED  BY <4>1, <4>2
    <3> QED  BY <3>5, <3>7 DEF r, n
  <2>6. \A i \in 1 .. (n - 1) : At(i) \in 1 .. n /\ At(i) # k
    OBVIOUS
  <2>7. \A i, j \in 1 .. (n - 1) : At(i) = At(j) => i = j
    OBVIOUS
  <2>8. n \in Nat /\ DOMAIN q = 1 .. n /\ DOMAIN r = 1 .. (n - 1)
    BY <2>5
  <2> HIDE DEF r, n, At
  <2>9. Distinct(r)
    BY <2>5, <2>6, <2>7, <2>8 DEF Distinct
  <2>10. \A i \in DOMAIN r : q[At(i)] # e
    BY <2>1, <2>6, <2>8 DEF Distinct, n
  <2> QED  BY <2>4, <2>5, <2>6, <2>8, <2>9, <2>10 DEF r
<1> QED  BY <1>1, <1>2

-----------------------------------------------------------------------------
(* Permits *)

LEMMA HoldersFinite == TypeOK => IsFiniteSet(Holders) /\ Cardinality(Holders) \in Nat
  BY EngineAssumption, FS_Subset, FS_CardinalityType DEF Holders

\* A call that takes a permit was without, one that gives it back had one.
LEMMA PermitMoves ==
  ASSUME Inv, NEW c \in Calls, call' \in [Calls -> Frame],
         \A d \in Calls : d # c => call'[d].at = call[d].at
  PROVE  /\ c \notin Holders /\ c \in Holders' => Cardinality(Holders') = Cardinality(Holders) + 1
         /\ c \in Holders /\ c \notin Holders' => Cardinality(Holders') = Cardinality(Holders) - 1
         /\ (c \in Holders <=> c \in Holders') => Holders' = Holders
<1>1. \A d \in Calls : d # c => (d \in Holders <=> d \in Holders')
  BY DEF Holders
<1>2. Holders \subseteq Calls /\ Holders' \subseteq Calls
  BY DEF Holders
<1>3. IsFiniteSet(Holders)
  BY HoldersFinite DEF Inv
<1>4. CASE c \notin Holders /\ c \in Holders'
  <2>1. Holders' = Holders \cup {c}
    BY <1>1, <1>2, <1>4
  <2> QED  BY <1>3, <1>4, <2>1, FS_AddElement
<1>5. CASE c \in Holders /\ c \notin Holders'
  <2>1. Holders' = Holders \ {c}
    BY <1>1, <1>2, <1>5
  <2> QED  BY <1>3, <1>5, <2>1, FS_RemoveElement
<1>6. CASE c \in Holders <=> c \in Holders'
  BY <1>1, <1>2, <1>6
<1> QED  BY <1>4, <1>5, <1>6

-----------------------------------------------------------------------------
(* Steps *)

LEMMA InitInv == ASSUME Init PROVE Inv
<1>1. Holders = {}
  BY DEF Init, Holders
<1>2. PermitsExact
  BY <1>1, FS_EmptySet, EngineAssumption DEF Init, PermitsExact
<1>3. llama \in BOOLEAN /\ loaded \in BOOLEAN
  BY DEF Init
<1>4. /\ waiting = <<>> /\ queue = <<>> /\ DOMAIN waiting = {} /\ DOMAIN queue = {}
      /\ waiting \in Seq(Calls) /\ queue \in Seq(Calls \cup Loads)
  BY DEF Init
<1>5. TypeOK
  BY <1>3, <1>4, EngineAssumption DEF Init, TypeOK, Frame, Results, Names
<1>6. PlacesOK /\ LoadsOK /\ MadeOK
  BY <1>4, EngineAssumption DEF Init, PlacesOK, LoadsOK, MadeOK, Distinct
<1> QED  BY <1>2, <1>5, <1>6 DEF Inv

LEMMA LoadInv == ASSUME Inv, NEW l \in Loads, Load(l) PROVE Inv'
<1>1. UNCHANGED <<llama, model, free, waiting, job, call>> /\ load[l] = "new"
  BY DEF Load
<1>2. Holders' = Holders
  BY <1>1 DEF Holders
<1>3. PermitsExact'
  BY <1>1, <1>2 DEF Inv, PermitsExact
<1>4. /\ load' \in [Loads -> {"new", "queued", "running", "ran", "broken", "done", "failed"}]
      /\ \A k \in Loads : k # l => load'[k] = load[k]
      /\ load'[l] \in {"done", "queued", "failed"}
  BY DEF Load, Inv, TypeOK
<1>5. loaded' \in BOOLEAN /\ name' \in Names
  BY DEF Load, Inv, TypeOK, Names
<1>6. model # None => llama /\ load[model] = "done" /\ name = FileOf[model] /\ model \in Loads
  BY DEF Inv, LoadsOK, TypeOK
<1>7. model # None => name' = name
  BY <1>6 DEF Load
<1>8. load'[l] = "queued" => llama
  BY <1>4 DEF Load
<1>9. /\ queue' \in Seq(Calls \cup Loads) /\ Distinct(queue')
      /\ \A i \in DOMAIN queue' : \/ queue'[i] = l /\ load'[l] = "queued"
                                  \/ \E j \in DOMAIN queue : queue'[i] = queue[j]
  <2>1. queue \in Seq(Calls \cup Loads) /\ Distinct(queue)
    BY DEF Inv, TypeOK, PlacesOK
  <2>2. \A i \in DOMAIN queue : queue[i] # l
    BY <1>1 DEF Inv, LoadsOK
  <2>3. CASE queue' = queue
    BY <2>1, <2>3
  <2>4. CASE queue' = Append(queue, l) /\ load'[l] = "queued"
    BY <2>1, <2>2, <2>4, AppendDistinct
  <2> QED  BY <2>3, <2>4 DEF Load, Inv, TypeOK
<1>10. TypeOK'
  BY <1>1, <1>4, <1>5, <1>9 DEF Inv, TypeOK
<1>11. PlacesOK'
  BY <1>1, <1>9, EngineAssumption DEF Inv, PlacesOK
<1>12. LoadsOK'
  <2>1. \A i \in DOMAIN queue' : queue'[i] \in Loads => load'[queue'[i]] = "queued"
    BY <1>1, <1>4, <1>9 DEF Inv, LoadsOK
  <2>2. job' \in Loads => load'[job'] = "running"
    BY <1>1, <1>4 DEF Inv, LoadsOK
  <2>3. \A k \in Loads : load'[k] \in {"queued", "running", "ran"} => llama'
    <3> SUFFICES ASSUME NEW k \in Loads, load'[k] \in {"queued", "running", "ran"} PROVE llama
      BY <1>1
    <3>1. CASE k = l
      <4>1. load'[l] = "queued"  BY <1>4, <3>1
      <4> QED  BY <1>8, <4>1
    <3>2. CASE k # l  BY <1>4, <3>2 DEF Inv, LoadsOK
    <3> QED  BY <3>1, <3>2
  <2> QED  BY <1>1, <1>4, <1>6, <1>7, <2>1, <2>2, <2>3 DEF LoadsOK
<1>13. MadeOK'
  BY <1>1, <1>4 DEF Inv, MadeOK, TypeOK, Frame
<1> QED  BY <1>3, <1>10, <1>11, <1>12, <1>13 DEF Inv

LEMMA LoadedInv == ASSUME Inv, NEW l \in Loads, Loaded(l) PROVE Inv'
<1>1. UNCHANGED <<llama, free, waiting, queue, job, call>> /\ load[l] \in {"ran", "broken"}
  BY DEF Loaded
<1>2. Holders' = Holders
  BY <1>1 DEF Holders
<1>3. PermitsExact'
  BY <1>1, <1>2 DEF Inv, PermitsExact
<1>4. /\ load' \in [Loads -> {"new", "queued", "running", "ran", "broken", "done", "failed"}]
      /\ \A k \in Loads : k # l => load'[k] = load[k]
      /\ load'[l] \in {"done", "failed"}
  BY DEF Loaded, Inv, TypeOK
<1>5. loaded' \in BOOLEAN /\ name' \in Names /\ model' \in Loads \cup {None}
  BY DEF Loaded, Inv, TypeOK, Names
<1>6. TypeOK'
  BY <1>1, <1>4, <1>5 DEF Inv, TypeOK
<1>7. PlacesOK'
  BY <1>1 DEF Inv, PlacesOK
<1>8. LoadsOK'
  BY <1>1, <1>4 DEF Loaded, Inv, LoadsOK, TypeOK
<1>9. MadeOK'
  <2>1. \A c \in Calls : call[c].used # None => call[c].used \in Loads
    BY DEF Inv, TypeOK, Frame
  <2>2. \A c \in Calls : call[c].used # None => call[c].used # l /\ load'[call[c].used] = "done"
    BY <1>1, <1>4, <2>1 DEF Inv, MadeOK
  <2>3. model' = l \/ model' = model
    BY DEF Loaded
  <2>4. l # None
    BY EngineAssumption
  <2> QED  BY <1>1, <2>2, <2>3, <2>4 DEF Inv, MadeOK
<1> QED  BY <1>3, <1>6, <1>7, <1>8, <1>9 DEF Inv

LEMMA UnloadInv == ASSUME Inv, Unload PROVE Inv'
<1>1. UNCHANGED <<llama, free, waiting, queue, job, call, load>> /\ model' = None /\ name' = Unnamed
      /\ loaded' \in BOOLEAN
  BY DEF Unload
<1>2. Holders' = Holders
  BY <1>1 DEF Holders
<1>3. TypeOK' /\ PlacesOK' /\ LoadsOK' /\ MadeOK' /\ PermitsExact'
  BY <1>1, <1>2 DEF Inv, TypeOK, PlacesOK, LoadsOK, MadeOK, PermitsExact, Names
<1> QED  BY <1>3 DEF Inv

\* The frame of call c changes, and c is nowhere but where its frame says.
LEMMA CallInv ==
  ASSUME Inv, NEW c \in Calls, UNCHANGED <<engine, load>>,
         call' \in [Calls -> Frame], \A d \in Calls : d # c => call'[d] = call[d],
         \/ c \notin Holders /\ c \in Holders' /\ free > 0 /\ free' = free - 1
         \/ c \in Holders /\ c \notin Holders' /\ free' = free + 1
         \/ (c \in Holders <=> c \in Holders') /\ free' = free,
         waiting' \in Seq(Calls), Distinct(waiting'),
         \A i \in DOMAIN waiting' : \/ waiting'[i] = c /\ call'[c].at = "waiting"
                                    \/ waiting'[i] # c /\ \E j \in DOMAIN waiting : waiting'[i] = waiting[j],
         queue' \in Seq(Calls \cup Loads), Distinct(queue'),
         \A i \in DOMAIN queue' : \/ queue'[i] = c /\ call'[c].at = "queued"
                                  \/ queue'[i] # c /\ \E j \in DOMAIN queue : queue'[i] = queue[j],
         job' \in {job, c, None}, job' = c => call'[c].at \in {"running", "cancelled"},
         call'[c].used # None => load[call'[c].used] = "done",
         call'[c].at \in {"ran", "returned"} /\ call'[c].out = "text" => call'[c].used # None,
         call'[c].at = "returned" /\ call'[c].out = "text" /\ call'[c].used = model =>
           call'[c].name = FileOf[model]
  PROVE  Inv'
<1>1. UNCHANGED <<llama, model, name, loaded, load>>
  BY DEF engine
<1>2. \A d \in Calls : d # c => call'[d].at = call[d].at
  OBVIOUS
<1>3. free \in 0 .. Permits /\ Cardinality(Holders) \in Nat /\ free + Cardinality(Holders) = Permits
      /\ Permits \in Nat
  BY HoldersFinite, EngineAssumption DEF Inv, TypeOK, PermitsExact
<1>4. IsFiniteSet(Holders') /\ Cardinality(Holders') \in Nat
  BY EngineAssumption, FS_Subset, FS_CardinalityType DEF Holders
<1>5. free' + Cardinality(Holders') = Permits /\ free' \in Int /\ free' >= 0
  <2>1. /\ c \notin Holders /\ c \in Holders' => Cardinality(Holders') = Cardinality(Holders) + 1
        /\ c \in Holders /\ c \notin Holders' => Cardinality(Holders') = Cardinality(Holders) - 1
        /\ (c \in Holders <=> c \in Holders') => Holders' = Holders
    BY <1>2, PermitMoves
  <2>2. CASE c \notin Holders /\ c \in Holders' /\ free > 0 /\ free' = free - 1
    BY <1>3, <2>1, <2>2
  <2>3. CASE c \in Holders /\ c \notin Holders' /\ free' = free + 1
    BY <1>3, <2>1, <2>3
  <2>4. CASE (c \in Holders <=> c \in Holders') /\ free' = free
    BY <1>3, <2>1, <2>4
  <2> QED  BY <2>2, <2>3, <2>4
<1>6. free' \in 0 .. Permits
  BY <1>3, <1>4, <1>5
<1>7. \A i \in DOMAIN waiting' : call'[waiting'[i]].at = "waiting"
  <2>1. \A j \in DOMAIN waiting : waiting[j] \in Calls /\ call[waiting[j]].at = "waiting"
    BY DEF Inv, TypeOK
  <2> QED  BY <2>1
<1>8. job' \in Calls \cup Loads \cup {None}
  BY DEF Inv, TypeOK
<1>9. TypeOK'
  BY <1>1, <1>6, <1>7, <1>8 DEF Inv, TypeOK
<1>10. c \notin Loads /\ None \notin Calls /\ None \notin Loads
  BY EngineAssumption
<1>11. PlacesOK'
  <2>1. \A i \in DOMAIN queue' : queue'[i] \in Calls => call'[queue'[i]].at = "queued"
    BY DEF Inv, PlacesOK
  <2>2. job' \in Calls => call'[job'].at \in {"running", "cancelled"}
    BY <1>10 DEF Inv, PlacesOK
  <2> QED  BY <2>1, <2>2 DEF PlacesOK
<1>12. LoadsOK'
  <2>1. \A i \in DOMAIN queue' : queue'[i] \in Loads => load[queue'[i]] = "queued"
    BY <1>10 DEF Inv, LoadsOK
  <2>2. job' \in Loads => load[job'] = "running"
    BY <1>10 DEF Inv, LoadsOK
  <2> QED  BY <1>1, <2>1, <2>2 DEF Inv, LoadsOK
<1>13. MadeOK'
  BY <1>1 DEF Inv, MadeOK
<1> QED  BY <1>5, <1>9, <1>11, <1>12, <1>13 DEF Inv, PermitsExact

\* What the facts about sequences need.
LEMMA Waiters ==
  ASSUME Inv
  PROVE  /\ waiting \in Seq(Calls) /\ Distinct(waiting)
         /\ queue \in Seq(Calls \cup Loads) /\ Distinct(queue)
         /\ \A i \in DOMAIN waiting : waiting[i] \in Calls /\ call[waiting[i]].at = "waiting"
         /\ \A i \in DOMAIN queue : queue[i] \in Calls => call[queue[i]].at = "queued"
         /\ call \in [Calls -> Frame] /\ name \in Names
  BY DEF Inv, TypeOK, PlacesOK

\* The frame of a call that returns.
LEMMA ReturnsFrame ==
  ASSUME Inv, NEW c \in Calls, NEW o \in Results, Returns(c, o)
  PROVE  /\ call' \in [Calls -> Frame] /\ \A d \in Calls : d # c => call'[d] = call[d]
         /\ call'[c].at = "returned" /\ call'[c].out = o /\ call'[c].used = call[c].used
         /\ o # "not loaded" => call'[c].name = name
<1> DEFINE n == IF o = "not loaded" THEN Unnamed ELSE name
<1>1. call' = [call EXCEPT ![c].at = "returned", ![c].out = o, ![c].name = n]
  BY DEF Returns
<1>2. n \in Names /\ call \in [Calls -> Frame]
  BY Waiters DEF Names
<1>3. call[c] \in Frame
  BY <1>2
<1> HIDE DEF n
<1>4. /\ call'[c] = [call[c] EXCEPT !.at = "returned", !.out = o, !.name = n]
      /\ \A d \in Calls : d # c => call'[d] = call[d]
      /\ call' = [call EXCEPT ![c] = [call[c] EXCEPT !.at = "returned", !.out = o, !.name = n]]
  BY <1>1, <1>2
<1>5. /\ call'[c] \in Frame /\ call'[c].at = "returned" /\ call'[c].out = o
      /\ call'[c].used = call[c].used /\ call'[c].name = n
  BY <1>2, <1>3, <1>4 DEF Frame
<1>6. call' \in [Calls -> Frame]
  BY <1>2, <1>4, <1>5
<1> QED  BY <1>4, <1>5, <1>6 DEF n

LEMMA RefuseInv == ASSUME Inv, NEW c \in Calls, Refuse(c) PROVE Inv'
<1>1. PICK o \in {"not loaded", "stub"} : Returns(c, o) /\ o \in Results
  BY DEF Refuse, Results
<1>2. call[c].at = "new" /\ UNCHANGED <<engine, free, waiting, queue, job, load>>
  BY DEF Refuse
<1>3. /\ call' \in [Calls -> Frame] /\ \A d \in Calls : d # c => call'[d] = call[d]
      /\ call'[c].at = "returned" /\ call'[c].out = o /\ call'[c].used = call[c].used
  BY <1>1, ReturnsFrame
<1>4. c \notin Holders /\ c \notin Holders'
  BY <1>2, <1>3 DEF Holders
<1>5. job # c
  BY <1>2 DEF Inv, PlacesOK
<1>6. /\ \A i \in DOMAIN waiting : waiting[i] # c
      /\ \A i \in DOMAIN queue : queue[i] # c
  BY <1>2, Waiters
<1>7. call[c].used # None => load[call[c].used] = "done"
  BY DEF Inv, MadeOK
<1> QED  BY <1>2, <1>3, <1>4, <1>5, <1>6, <1>7, Waiters, CallInv

\* A call whose frame only moves on.
LEMMA MoveFrame ==
  ASSUME Inv, NEW c \in Calls, NEW a \in {"waiting", "queued", "cancelled"},
         call' = [call EXCEPT ![c].at = a]
  PROVE  /\ call' \in [Calls -> Frame] /\ \A d \in Calls : d # c => call'[d] = call[d]
         /\ call'[c].at = a /\ call'[c].out = call[c].out /\ call'[c].used = call[c].used
         /\ call'[c].used # None => load[call'[c].used] = "done"
<1>1. call[c] \in Frame /\ call \in [Calls -> Frame]
  BY Waiters
<1>2. /\ call'[c] = [call[c] EXCEPT !.at = a] /\ \A d \in Calls : d # c => call'[d] = call[d]
      /\ call' = [call EXCEPT ![c] = [call[c] EXCEPT !.at = a]]
  BY <1>1
<1>3. /\ call'[c] \in Frame /\ call'[c].at = a
      /\ call'[c].out = call[c].out /\ call'[c].used = call[c].used
  BY <1>1, <1>2 DEF Frame
<1>4. call' \in [Calls -> Frame]
  BY <1>1, <1>2, <1>3
<1>5. call[c].used # None => load[call[c].used] = "done"
  BY DEF Inv, MadeOK
<1> QED  BY <1>2, <1>3, <1>4, <1>5

\* A call that is in neither queue and has no job takes a permit.
LEMMA SubmitInv ==
  ASSUME Inv, NEW c \in Calls, Submit(c), free > 0, UNCHANGED <<engine, job, load>>,
         call[c].at \in {"new", "waiting"}, waiting' \in Seq(Calls), Distinct(waiting'),
         \A i \in DOMAIN waiting' : waiting'[i] # c /\ \E j \in DOMAIN waiting : waiting'[i] = waiting[j]
  PROVE  Inv'
<1>1. free' = free - 1 /\ queue' = Append(queue, c) /\ call' = [call EXCEPT ![c].at = "queued"]
  BY DEF Submit
<1>2. /\ call' \in [Calls -> Frame] /\ \A d \in Calls : d # c => call'[d] = call[d]
      /\ call'[c].at = "queued" /\ call'[c].used = call[c].used
      /\ call'[c].used # None => load[call'[c].used] = "done"
  BY <1>1, MoveFrame
<1>3. c \notin Holders /\ c \in Holders'
  BY <1>2 DEF Holders
<1>4. job # c
  BY DEF Inv, PlacesOK
<1>5. \A i \in DOMAIN queue : queue[i] # c
  BY Waiters
<1>7. /\ queue' \in Seq(Calls \cup Loads) /\ Distinct(queue')
      /\ \A i \in DOMAIN queue' : \/ queue'[i] = c
                                  \/ queue'[i] # c /\ \E j \in DOMAIN queue : queue'[i] = queue[j]
  <2>1. queue \in Seq(Calls \cup Loads) /\ Distinct(queue) /\ c \in Calls \cup Loads
    BY Waiters
  <2>2. /\ Append(queue, c) \in Seq(Calls \cup Loads) /\ Distinct(Append(queue, c))
        /\ \A i \in DOMAIN Append(queue, c) :
             \/ Append(queue, c)[i] = c
             \/ Append(queue, c)[i] # c /\ \E j \in DOMAIN queue : Append(queue, c)[i] = queue[j]
    BY <1>5, <2>1, AppendDistinct
  <2>3. queue' = Append(queue, c)
    BY <1>1
  <2> QED  BY <2>2, <2>3
<1>8. \A i \in DOMAIN queue' : \/ queue'[i] = c /\ call'[c].at = "queued"
                               \/ queue'[i] # c /\ \E j \in DOMAIN queue : queue'[i] = queue[j]
  BY <1>2, <1>7
<1> QED  BY <1>1, <1>2, <1>3, <1>4, <1>7, <1>8, CallInv

LEMMA CompleteInv == ASSUME Inv, NEW c \in Calls, Complete(c) PROVE Inv'
<1>1. call[c].at = "new" /\ UNCHANGED <<engine, job, load>>
  BY DEF Complete
<1>2. /\ \A i \in DOMAIN waiting : waiting[i] # c
      /\ \A i \in DOMAIN queue : queue[i] # c
      /\ job # c
  BY <1>1, Waiters DEF Inv, PlacesOK
<1>3. CASE free > 0 /\ Submit(c) /\ UNCHANGED waiting
  BY <1>1, <1>2, <1>3, Waiters, SubmitInv
<1>4. CASE /\ waiting' = Append(waiting, c) /\ call' = [call EXCEPT ![c].at = "waiting"]
           /\ UNCHANGED <<free, queue>>
  <2>1. /\ call' \in [Calls -> Frame] /\ \A d \in Calls : d # c => call'[d] = call[d]
        /\ call'[c].at = "waiting" /\ call'[c].used = call[c].used
        /\ call'[c].used # None => load[call'[c].used] = "done"
    BY <1>4, MoveFrame
  <2>2. c \notin Holders /\ c \notin Holders'
    BY <1>1, <2>1 DEF Holders
  <2>4. /\ waiting' \in Seq(Calls) /\ Distinct(waiting')
        /\ \A i \in DOMAIN waiting' : \/ waiting'[i] = c
                                      \/ waiting'[i] # c /\ \E j \in DOMAIN waiting : waiting'[i] = waiting[j]
    <3>1. waiting \in Seq(Calls) /\ Distinct(waiting)
      BY Waiters
    <3>2. /\ Append(waiting, c) \in Seq(Calls) /\ Distinct(Append(waiting, c))
          /\ \A i \in DOMAIN Append(waiting, c) :
               \/ Append(waiting, c)[i] = c
               \/ Append(waiting, c)[i] # c /\ \E j \in DOMAIN waiting : Append(waiting, c)[i] = waiting[j]
      BY <1>2, <3>1, AppendDistinct
    <3>3. waiting' = Append(waiting, c)
      BY <1>4
    <3> QED  BY <3>2, <3>3
  <2>5. \A i \in DOMAIN waiting' : \/ waiting'[i] = c /\ call'[c].at = "waiting"
                                   \/ waiting'[i] # c /\ \E j \in DOMAIN waiting : waiting'[i] = waiting[j]
    BY <2>1, <2>4
  <2>6. \A i \in DOMAIN queue' : queue'[i] # c /\ \E j \in DOMAIN queue : queue'[i] = queue[j]
    BY <1>2, <1>4
  <2> QED  BY <1>1, <1>2, <1>4, <2>1, <2>2, <2>4, <2>5, <2>6, Waiters, CallInv
<1> QED  BY <1>3, <1>4 DEF Complete

LEMMA AcquireInv == ASSUME Inv, Acquire PROVE Inv'
<1>1. /\ waiting # <<>> /\ free > 0 /\ waiting' = Tail(waiting) /\ Submit(Head(waiting))
      /\ UNCHANGED <<engine, job, load>>
  BY DEF Acquire
<1>2. /\ Head(waiting) \in Calls /\ waiting' \in Seq(Calls) /\ Distinct(waiting')
      /\ call[Head(waiting)].at = "waiting"
      /\ \A i \in DOMAIN waiting' : /\ waiting'[i] # Head(waiting)
                                    /\ \E j \in DOMAIN waiting : waiting'[i] = waiting[j]
  BY <1>1, Waiters, TailDistinct
<1> QED  BY <1>1, <1>2, SubmitInv

LEMMA ReturnInv == ASSUME Inv, NEW c \in Calls, Return(c) PROVE Inv'
<1>1. /\ call[c].at = "ran" /\ Returns(c, call[c].out) /\ free' = free + 1
      /\ UNCHANGED <<engine, waiting, queue, job, load>>
  BY DEF Return
<1>2. call[c] \in Frame
  BY Waiters
<1>3. /\ call' \in [Calls -> Frame] /\ \A d \in Calls : d # c => call'[d] = call[d]
      /\ call'[c].at = "returned" /\ call'[c].out = call[c].out /\ call'[c].used = call[c].used
      /\ call[c].out # "not loaded" => call'[c].name = name
  BY <1>1, <1>2, ReturnsFrame DEF Frame
<1>4. c \in Holders /\ c \notin Holders'
  BY <1>1, <1>3 DEF Holders
<1>5. /\ job # c
      /\ \A i \in DOMAIN waiting : waiting[i] # c
      /\ \A i \in DOMAIN queue : queue[i] # c
  BY <1>1, Waiters DEF Inv, PlacesOK
<1>6. (call[c].used # None => load[call[c].used] = "done") /\ (call[c].out = "text" => call[c].used # None)
  BY <1>1 DEF Inv, MadeOK
<1>7. model # None => name = FileOf[model]
  BY DEF Inv, LoadsOK
<1>8. call'[c].out = "text" /\ call'[c].used = model => call'[c].name = FileOf[model]
  BY <1>3, <1>6, <1>7
<1> QED  BY <1>1, <1>3, <1>4, <1>5, <1>6, <1>8, Waiters, CallInv

LEMMA CancelInv == ASSUME Inv, NEW c \in Calls, Cancel(c) PROVE Inv'
<1>1. /\ call[c].at \in {"waiting", "queued", "running", "ran"}
      /\ call' = [call EXCEPT ![c].at = "cancelled"]
      /\ waiting' = RemoveFirst(waiting, c) /\ queue' = RemoveFirst(queue, c)
      /\ free' = IF c \in Holders THEN free + 1 ELSE free
      /\ UNCHANGED <<engine, job, load>>
  BY DEF Cancel
<1>2. /\ call' \in [Calls -> Frame] /\ \A d \in Calls : d # c => call'[d] = call[d]
      /\ call'[c].at = "cancelled" /\ call'[c].used = call[c].used
      /\ call'[c].used # None => load[call'[c].used] = "done"
  BY <1>1, MoveFrame
<1>3. c \notin Holders'
  BY <1>2 DEF Holders
<1>4. /\ waiting' \in Seq(Calls) /\ Distinct(waiting')
      /\ \A i \in DOMAIN waiting' : \E j \in DOMAIN waiting : waiting'[i] = waiting[j] /\ waiting[j] # c
  BY <1>1, Waiters, RemoveDistinct
<1>5. /\ queue' \in Seq(Calls \cup Loads) /\ Distinct(queue')
      /\ \A i \in DOMAIN queue' : \E j \in DOMAIN queue : queue'[i] = queue[j] /\ queue[j] # c
  BY <1>1, Waiters, RemoveDistinct
<1>6. CASE c \in Holders
  BY <1>1, <1>2, <1>3, <1>4, <1>5, <1>6, CallInv
<1>7. CASE c \notin Holders
  BY <1>1, <1>2, <1>3, <1>4, <1>5, <1>7, CallInv
<1> QED  BY <1>6, <1>7

\* The job of load l begins or ends.
LEMMA LoadMovesInv ==
  ASSUME Inv, NEW l \in Loads, NEW a \in {"running", "ran", "broken"},
         load' = [load EXCEPT ![l] = a], load[l] \in {"queued", "running"},
         UNCHANGED <<engine, free, waiting, call>>,
         job' \in {l, None}, job' = l => a = "running",
         queue' \in Seq(Calls \cup Loads), Distinct(queue'),
         \A i \in DOMAIN queue' : queue'[i] # l /\ \E j \in DOMAIN queue : queue'[i] = queue[j]
  PROVE  Inv'
<1>1. UNCHANGED <<llama, model, name, loaded, free, waiting, call>>
  BY DEF engine
<1>2. Holders' = Holders
  BY DEF Holders
<1>3. PermitsExact'
  BY <1>2 DEF Inv, PermitsExact
<1>4. /\ load' \in [Loads -> {"new", "queued", "running", "ran", "broken", "done", "failed"}]
      /\ load'[l] = a /\ \A k \in Loads : k # l => load'[k] = load[k]
  BY DEF Inv, TypeOK
<1>5. llama
  BY DEF Inv, LoadsOK
<1>6. TypeOK'
  BY <1>1, <1>4 DEF Inv, TypeOK
<1>7. PlacesOK'
  BY <1>1, EngineAssumption DEF Inv, PlacesOK
<1>8. LoadsOK'
  <2>1. \A i \in DOMAIN queue' : queue'[i] \in Loads => load'[queue'[i]] = "queued"
    BY <1>4 DEF Inv, LoadsOK
  <2>2. job' \in Loads => load'[job'] = "running"
    BY <1>4, EngineAssumption
  <2>3. model # None => load'[model] = "done" /\ name' = FileOf[model]
    BY <1>1, <1>4 DEF Inv, LoadsOK, TypeOK
  <2>4. llama'
    BY <1>1, <1>5
  <2> QED  BY <1>1, <2>1, <2>2, <2>3, <2>4 DEF LoadsOK
<1>9. MadeOK'
  BY <1>1, <1>4 DEF Inv, MadeOK, TypeOK, Frame
<1> QED  BY <1>3, <1>6, <1>7, <1>8, <1>9 DEF Inv

LEMMA JobBeginsInv == ASSUME Inv, JobBegins PROVE Inv'
<1> DEFINE h == Head(queue)
<1>1. /\ job = None /\ queue # <<>> /\ job' = h /\ queue' = Tail(queue)
      /\ UNCHANGED <<engine, free, waiting>>
  BY DEF JobBegins
<1>2. queue \in Seq(Calls \cup Loads) /\ Distinct(queue)
  BY Waiters
<1>3. /\ h \in Calls \cup Loads /\ queue' \in Seq(Calls \cup Loads) /\ Distinct(queue')
      /\ \E i \in DOMAIN queue : h = queue[i]
      /\ \A i \in DOMAIN queue' : queue'[i] # h /\ \E j \in DOMAIN queue : queue'[i] = queue[j]
  BY <1>1, <1>2, TailDistinct
<1> HIDE DEF h
<1>4. CASE h \in Calls
  <2>1. call' = [call EXCEPT ![h].at = "running", ![h].used = model] /\ UNCHANGED load
    BY <1>1, <1>4 DEF JobBegins
  <2>2. call[h] \in Frame /\ call \in [Calls -> Frame] /\ model \in Loads \cup {None}
    BY <1>4, Waiters DEF Inv, TypeOK
  <2>3. /\ call'[h] = [call[h] EXCEPT !.at = "running", !.used = model]
        /\ \A d \in Calls : d # h => call'[d] = call[d]
        /\ call' = [call EXCEPT ![h] = [call[h] EXCEPT !.at = "running", !.used = model]]
    BY <1>4, <2>1, <2>2
  <2>4. call'[h] \in Frame /\ call'[h].at = "running" /\ call'[h].used = model
    <3>1. call'[h] = [at |-> "running", used |-> model, out |-> call[h].out, name |-> call[h].name]
      BY <2>2, <2>3 DEF Frame
    <3>2. call[h].out \in Results /\ call[h].name \in Names
      BY <2>2 DEF Frame
    <3> QED  BY <2>2, <3>1, <3>2 DEF Frame
  <2>5. call' \in [Calls -> Frame]
    BY <1>4, <2>2, <2>3, <2>4
  <2>6. call[h].at = "queued" /\ h \in Holders /\ h \in Holders'
    BY <1>3, <1>4, <2>4, Waiters DEF Holders
  <2>7. model # None => load[model] = "done"
    BY DEF Inv, LoadsOK
  <2>8. \A i \in DOMAIN waiting : waiting[i] # h
    BY <2>6, Waiters
  <2>9. /\ waiting' \in Seq(Calls) /\ Distinct(waiting')
        /\ \A i \in DOMAIN waiting' : waiting'[i] # h /\ \E j \in DOMAIN waiting : waiting'[i] = waiting[j]
    BY <1>1, <2>8, Waiters
  <2>10. call'[h].used # None => load[call'[h].used] = "done"
    BY <2>4, <2>7
  <2>11. call'[h].at \notin {"ran", "returned"}
    BY <2>4
  <2>12. UNCHANGED <<engine, load>> /\ free' = free /\ job' \in {job, h, None}
    BY <1>1, <2>1
  <2> QED
    BY <1>3, <1>4, <2>3, <2>4, <2>5, <2>6, <2>9, <2>10, <2>11, <2>12, CallInv
<1>5. CASE h \notin Calls
  <2>1. load' = [load EXCEPT ![h] = "running"] /\ UNCHANGED call /\ h \in Loads
    BY <1>1, <1>3, <1>5 DEF JobBegins
  <2>2. load[h] = "queued"
    BY <1>3, <2>1 DEF Inv, LoadsOK
  <2> QED  BY <1>1, <1>3, <1>5, <2>1, <2>2, LoadMovesInv
<1> QED  BY <1>4, <1>5

\* The job ends, with an error or a text; nobody may await it any more.
LEMMA JobDoneInv == ASSUME Inv, JobFails \/ JobEnds PROVE Inv'
<1>1. /\ job # None /\ job' = None /\ job \in Calls \cup Loads
      /\ UNCHANGED <<engine, free, waiting, queue>>
  BY DEF JobFails, JobEnds, Inv, TypeOK
<1>2. CASE job \in Loads
  <2>1. PICK a \in {"ran", "broken"} : load' = [load EXCEPT ![job] = a]
    BY <1>2 DEF JobFails, JobEnds
  <2>2. UNCHANGED call
    BY <1>2 DEF JobFails, JobEnds
  <2>3. load[job] = "running" /\ job' # job
    BY <1>1, <1>2 DEF Inv, LoadsOK
  <2>4. \A i \in DOMAIN queue : queue[i] # job
    BY <1>2, <2>3 DEF Inv, LoadsOK
  <2> QED  BY <1>1, <1>2, <2>1, <2>2, <2>3, <2>4, Waiters, LoadMovesInv
<1>3. CASE job \notin Loads
  <2>1. job \in Calls /\ UNCHANGED load
    BY <1>1, <1>3 DEF JobFails, JobEnds
  <2>2. PICK o \in {"error", "text"} :
          /\ call' = IF call[job].at = "running"
                     THEN [call EXCEPT ![job].at = "ran", ![job].out = o] ELSE call
          /\ o = "text" => call[job].used # None
    BY <1>3 DEF JobFails, JobEnds
  <2>3. call[job].at \in {"running", "cancelled"}
    BY <2>1 DEF Inv, PlacesOK
  <2>4. call[job].used # None => load[call[job].used] = "done"
    BY <2>1 DEF Inv, MadeOK
  <2>5. /\ \A i \in DOMAIN waiting : waiting[i] # job
        /\ \A i \in DOMAIN queue : queue[i] # job
    BY <2>1, <2>3, Waiters
  <2>6. /\ call' \in [Calls -> Frame] /\ \A d \in Calls : d # job => call'[d] = call[d]
        /\ call'[job].used = call[job].used
        /\ \/ call[job].at = "running" /\ call'[job].at = "ran" /\ call'[job].out = o
           \/ call[job].at = "cancelled" /\ call'[job].at = "cancelled"
    <3>1. call \in [Calls -> Frame] /\ call[job] \in Frame
      BY <2>1, Waiters
    <3>2. CASE call[job].at = "running"
      <4>1. /\ call'[job] = [call[job] EXCEPT !.at = "ran", !.out = o]
            /\ call' = [call EXCEPT ![job] = [call[job] EXCEPT !.at = "ran", !.out = o]]
        BY <2>1, <2>2, <3>1, <3>2
      <4>2. /\ call'[job] \in Frame /\ call'[job].at = "ran" /\ call'[job].out = o
            /\ call'[job].used = call[job].used
          <5>1. call'[job] = [at |-> "ran", used |-> call[job].used, out |-> o, name |-> call[job].name]
            BY <3>1, <4>1 DEF Frame
          <5>2. o \in Results /\ call[job].used \in Loads \cup {None} /\ call[job].name \in Names
            BY <3>1 DEF Frame, Results
          <5> QED  BY <5>1, <5>2 DEF Frame
      <4> QED  BY <2>1, <3>1, <3>2, <4>1, <4>2
    <3>3. CASE call[job].at = "cancelled"
      BY <2>2, <3>1, <3>3
    <3> QED  BY <2>3, <3>2, <3>3
  <2>7. job \in Holders <=> job \in Holders'
    BY <2>1, <2>6 DEF Holders
  <2> QED  BY <1>1, <2>1, <2>2, <2>4, <2>5, <2>6, <2>7, Waiters, CallInv
<1> QED  BY <1>2, <1>3

LEMMA StepInv == ASSUME Inv, [Next]_vars PROVE Inv'
<1>1. CASE UNCHANGED vars
  <2>1. Holders' = Holders
    BY <1>1 DEF vars, Holders
  <2> QED
    BY <1>1, <2>1 DEF vars, Inv, TypeOK, PlacesOK, LoadsOK, MadeOK, PermitsExact
<1>2. CASE \E l \in Loads : Load(l) \/ Loaded(l)
  BY <1>2, LoadInv, LoadedInv
<1>3. CASE Unload
  BY <1>3, UnloadInv
<1>4. CASE \E c \in Calls : Refuse(c) \/ Complete(c) \/ Return(c) \/ Cancel(c)
  BY <1>4, RefuseInv, CompleteInv, ReturnInv, CancelInv
<1>5. CASE Acquire
  BY <1>5, AcquireInv
<1>6. CASE JobBegins \/ JobFails \/ JobEnds
  BY <1>6, JobBeginsInv, JobDoneInv
<1> QED  BY <1>1, <1>2, <1>3, <1>4, <1>5, <1>6 DEF Next

LEMMA AlwaysInv == Spec => []Inv
<1>1. Init => Inv  BY InitInv
<1>2. Inv /\ [Next]_vars => Inv'  BY StepInv
<1> QED  BY <1>1, <1>2, PTL DEF Spec

-----------------------------------------------------------------------------
(* The state of an engine with any number of calls, loads and permits has    *)
(* its type; in particular those in the queue of the semaphore wait.         *)
THEOREM TypeCorrect == Spec => []TypeOK
<1>1. Inv => TypeOK  BY DEF Inv
<1> QED  BY <1>1, AlwaysInv, PTL

(* No order of calls that end, fail or are cancelled, before their job has   *)
(* begun or after, loses a permit of the semaphore or makes one.             *)
THEOREM PermitsKept == Spec => []PermitsExact
<1>1. Inv => PermitsExact  BY DEF Inv
<1> QED  BY <1>1, AlwaysInv, PTL

(* While the model that made a text is still the engine's, the result has    *)
(* that model's name, whatever was loaded, unloaded or failed in between.    *)
THEOREM NamesCorrect == Spec => []NamesItsModel
<1>1. Inv => NamesItsModel  BY DEF Inv, MadeOK, NamesItsModel
<1> QED  BY <1>1, AlwaysInv, PTL
=============================================================================
