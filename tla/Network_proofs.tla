--------------------------- MODULE Network_proofs ---------------------------
(* Theorems about the network and their proofs: one connection, from end to    *)
(* end (Session), and the connections of all nodes (Discovery).               *)
EXTENDS Session, Discovery, SequenceTheorems, TLAPS

-----------------------------------------------------------------------------
(* The inductive invariant: what is in the stream of an end is what the other *)
(* end has written and this one has not read yet.                             *)

\* The pieces of the handshake that an end in state s has read, and written.
Got(e, s) == IF s = "up" THEN (IF e = "dialer" THEN 1 ELSE 2)
             ELSE IF s = "answered" THEN 2 ELSE IF s = "hello" THEN 1 ELSE 0
Put(e, s) == IF s = "up" THEN (IF e = "dialer" THEN 2 ELSE 1)
             ELSE IF s = "waiting" THEN 2 ELSE IF s \in {"magic", "answered"} THEN 1 ELSE 0

Read(e)  == Got(e, state[e]) + Len(received[e])
Wrote(e) == Put(e, state[e]) + Len(sent[e])

\* The pieces of the handshake of e that come before its frames, and the i-th
\* piece e writes.
Prelude(e) == IF e = "dialer" THEN 2 ELSE 1
Written(e, i) ==
  IF i <= Prelude(e)
  THEN IF e = "dialer" /\ i = 1 THEN Magic ELSE Hello(e)
  ELSE [type |-> "frame", nonce |-> i - Prelude(e) - 1, key |-> Ends, text |-> sent[e][i - Prelude(e)]]

\* The i-th piece in the stream of e was written by p, or is the end of it.
InOrder(e, p, i) == /\ Read(e) + i <= Prelude(p) + Len(sent[p])
                    /\ stream[e][i] = Written(p, Read(e) + i)
AtEnd(e, p, i) == /\ i = Len(stream[e])
                  /\ \/ stream[e][i] = Eof /\ state[p] \in Quiet
                     \/ stream[e][i] = Junk /\ state[p] = "gone"

Intact(e) == LET p == Peer(e) IN
  /\ state[e] \notin Over =>
       /\ \A i \in 1 .. Len(stream[e]) : InOrder(e, p, i) \/ AtEnd(e, p, i)
       /\ state[p] \notin Over /\ ~reset => Read(e) + Len(stream[e]) = Wrote(p)
  /\ state[e] \in Over \/ reset => stream[e] = <<>>

\* An end that has no session yet has sent and received nothing; one that has,
\* counts what it sends and receives.
Counted(e) ==
  /\ state[e] \in Shaking => sent[e] = <<>> /\ received[e] = <<>>
  /\ sendNonce[e] = Len(sent[e]) /\ recvNonce[e] = Len(received[e])
  /\ \A i \in 1 .. Len(sent[e]) : SizeOf[sent[e][i]] <= MaxMessage
  /\ state[e] = "up" => key[e] = Ends

Roles == state["dialer"] \notin {"hello", "answered"} /\ state["acceptor"] \notin {"magic", "waiting"}

Inv == TypeOK /\ Roles /\ (\A e \in Ends : Counted(e) /\ Intact(e)) /\ OnlyLossFails

-----------------------------------------------------------------------------
LEMMA Peers ==
  ASSUME NEW e \in Ends
  PROVE  /\ Peer(e) \in Ends /\ Peer(e) # e /\ Peer(Peer(e)) = e /\ Ends = {e, Peer(e)}
         /\ \A x \in Ends : x # e => x = Peer(e)
         /\ SessionKey(e, Peer(e)) = Ends
BY DEF Ends, Peer, SessionKey

LEMMA Frame ==
  ASSUME TypeOK, NEW e \in Ends
  PROVE  /\ stream[e] \in Seq(Pieces) /\ Len(stream[e]) \in Nat
         /\ sent[e] \in Seq(Messages) /\ Len(sent[e]) \in Nat
         /\ received[e] \in Seq(Messages) /\ Len(received[e]) \in Nat
         /\ Got(e, state[e]) \in Nat /\ Put(e, state[e]) \in Nat /\ Prelude(e) \in {1, 2}
         /\ Read(e) \in Nat /\ Wrote(e) \in Nat
         /\ reset \in BOOLEAN
BY DEF TypeOK, Got, Put, Prelude, Read, Wrote

LEMMA MovesFacts ==
  ASSUME TypeOK, NEW e \in Ends, NEW to, NEW n \in {0, 1}, n <= Len(stream[e]),
         NEW w \in Seq(Pieces), Moves(e, to, n, w)
  PROVE  /\ state'[e] = to /\ state'[Peer(e)] = state[Peer(e)]
         /\ to \in Shaking \cup {"up"} \cup Over => state' \in [Ends -> Shaking \cup {"up"} \cup Over]
         /\ stream' \in [Ends -> Seq(Pieces)]
         /\ to \in Over => stream'[e] = <<>>
         /\ to \notin Over => /\ Len(stream'[e]) = Len(stream[e]) - n
                              /\ \A i \in 1 .. Len(stream[e]) - n : stream'[e][i] = stream[e][i + n]
         /\ stream'[Peer(e)] = IF Lost(e) THEN stream[Peer(e)] ELSE stream[Peer(e)] \o w
<1> DEFINE p == Peer(e)
           mine == IF to \in Over THEN <<>> ELSE SubSeq(stream[e], n + 1, Len(stream[e]))
           yours == IF Lost(e) THEN stream[p] ELSE stream[p] \o w
<1>1. stream[e] \in Seq(Pieces) /\ stream[p] \in Seq(Pieces) /\ p \in Ends /\ p # e
  BY Peers DEF TypeOK
<1>2. Len(stream[e]) \in Nat /\ n + 1 \in 1 .. Len(stream[e]) + 1
  BY <1>1
<1>3. LET s == SubSeq(stream[e], n + 1, Len(stream[e])) IN
      /\ s \in Seq(Pieces) /\ Len(s) = Len(stream[e]) - n
      /\ \A i \in 1 .. Len(stream[e]) - n : s[i] = stream[e][i + n]
  BY <1>1, <1>2
<1>4. mine \in Seq(Pieces)
  BY <1>3
<1>5. yours \in Seq(Pieces)
  BY <1>1, ConcatProperties
<1>6. stream' = [stream EXCEPT ![e] = mine, ![p] = yours]
  BY <1>1 DEF Moves
<1>7. stream \in [Ends -> Seq(Pieces)] /\ state \in [Ends -> Shaking \cup {"up"} \cup Over]
  BY DEF TypeOK
<1> HIDE DEF mine, yours, p
<1>8. /\ stream' \in [Ends -> Seq(Pieces)] /\ stream'[e] = mine /\ stream'[p] = yours
  BY <1>1, <1>4, <1>5, <1>6, <1>7
<1>9. state' = [state EXCEPT ![e] = to]
  BY DEF Moves
<1>10. /\ state'[e] = to /\ state'[p] = state[p]
       /\ to \in Shaking \cup {"up"} \cup Over => state' \in [Ends -> Shaking \cup {"up"} \cup Over]
  BY <1>1, <1>7, <1>9
<1> QED  BY <1>3, <1>8, <1>10 DEF mine, yours, p

-----------------------------------------------------------------------------
\* The stream of the end that moves: it has read n pieces.
LEMMA ReaderSide ==
  ASSUME Inv, NEW e \in Ends, NEW to \in Shaking \cup {"up"} \cup Over, NEW n \in {0, 1},
         n <= Len(stream[e]), NEW w \in Seq(Pieces), Moves(e, to, n, w),
         state[e] \notin Over,
         to \notin Over => Got(e, to) + Len(received'[e]) = Read(e) + n,
         sent'[Peer(e)] = sent[Peer(e)], reset' = reset
  PROVE  Intact(e)'
<1> DEFINE p == Peer(e)
<1>0. TypeOK
  BY DEF Inv
<1>1. /\ state'[e] = to /\ state'[p] = state[p]
      /\ to \in Over => stream'[e] = <<>>
      /\ to \notin Over => /\ Len(stream'[e]) = Len(stream[e]) - n
                           /\ \A i \in 1 .. Len(stream[e]) - n : stream'[e][i] = stream[e][i + n]
      /\ stream' \in [Ends -> Seq(Pieces)]
  BY <1>0, MovesFacts
<1>2. /\ Len(stream[e]) \in Nat /\ Read(e) \in Nat /\ Wrote(p) \in Nat /\ Prelude(p) \in {1, 2}
      /\ Len(sent[p]) \in Nat /\ p \in Ends /\ reset \in BOOLEAN
  BY Frame, Peers DEF Inv
<1>3. Intact(e)
  BY DEF Inv
<1>4. CASE to \in Over
  BY <1>1, <1>4 DEF Intact
<1>5. CASE to \notin Over
  <2>1. Read(e)' = Read(e) + n /\ Wrote(p)' = Wrote(p) /\ Prelude(p)' = Prelude(p)
    BY <1>1, <1>5 DEF Read, Wrote
  <2>2. \A i : Written(p, i)' = Written(p, i)
    BY DEF Written
  <2>3. Peer(e)' = p
    OBVIOUS
  <2>4. ASSUME NEW i \in 1 .. Len(stream'[e])
        PROVE  InOrder(e, p, i)' \/ AtEnd(e, p, i)'
    <3>1. /\ i \in Nat /\ i + n \in 1 .. Len(stream[e]) /\ stream'[e][i] = stream[e][i + n]
          /\ i = Len(stream'[e]) <=> i + n = Len(stream[e])
      <4>1. PICK l \in Nat : l = Len(stream[e]) /\ Len(stream'[e]) = l - n
        BY <1>1, <1>2, <1>5
      <4>2. i \in Nat /\ i \in 1 .. l - n /\ i + n \in 1 .. l /\ (i = l - n <=> i + n = l)
        BY <4>1
      <4>3. stream'[e][i] = stream[e][i + n]
        BY <1>1, <1>5, <4>1, <4>2
      <4> QED  BY <4>1, <4>2, <4>3
    <3>2. InOrder(e, p, i + n) \/ AtEnd(e, p, i + n)
      BY <1>3, <3>1 DEF Intact
    <3>3. CASE InOrder(e, p, i + n)
      <4>1. Read(e)' + i = Read(e) + (i + n)
        BY <1>2, <2>1, <3>1
      <4> QED  BY <2>1, <2>2, <3>1, <3>3, <4>1 DEF InOrder
    <3>4. CASE AtEnd(e, p, i + n)
      BY <1>1, <3>1, <3>4 DEF AtEnd
    <3> QED  BY <3>2, <3>3, <3>4
  <2>5. state'[p] \notin Over /\ ~reset' => Read(e)' + Len(stream'[e]) = Wrote(p)'
    <3>1. state[p] \notin Over /\ ~reset => Read(e) + Len(stream[e]) = Wrote(p)
      BY <1>3 DEF Intact
    <3> QED  BY <1>1, <1>2, <1>5, <2>1, <3>1
  <2>6. reset' => stream'[e] = <<>>
    <3>1. reset => Len(stream[e]) = 0
      BY <1>3 DEF Intact
    <3>2. reset => Len(stream'[e]) = 0 /\ stream'[e] \in Seq(Pieces)
      BY <1>1, <1>2, <1>5, <3>1
    <3> QED  BY <3>2
  <2> QED  BY <1>1, <1>5, <2>4, <2>5, <2>6 DEF Intact
<1> QED  BY <1>4, <1>5

\* The stream of the other end: e has written what comes next, or ended it.
LEMMA WriterSide ==
  ASSUME Inv, NEW e \in Ends, NEW to \in Shaking \cup {"up"} \cup Over, NEW n \in {0, 1},
         n <= Len(stream[e]), NEW w \in Seq(Pieces), Moves(e, to, n, w),
         state[e] \notin Over,
         received'[Peer(e)] = received[Peer(e)], reset' = reset, NEW k \in Nat, k = Wrote(e) + 1,
         sent'[e] \in Seq(Messages), Len(sent[e]) <= Len(sent'[e]),
         \A i \in 1 .. Len(sent[e]) : sent'[e][i] = sent[e][i],
         \/ w = <<>> /\ (to \notin Over => Put(e, to) + Len(sent'[e]) = Wrote(e))
         \/ /\ w = <<Written(e, k)'>> /\ to \notin Over
            /\ Put(e, to) + Len(sent'[e]) = k /\ k <= Prelude(e) + Len(sent'[e])
         \/ w = <<Eof>> /\ to \in Quiet
         \/ w = <<Junk>> /\ to = "gone"
  PROVE  Intact(Peer(e))'
<1> DEFINE p == Peer(e)
<1>0. TypeOK
  BY DEF Inv
<1>1. state'[e] = to /\ state'[p] = state[p] /\ stream' \in [Ends -> Seq(Pieces)]
  BY <1>0, MovesFacts
<1>2. stream'[p] = IF Lost(e) THEN stream[p] ELSE stream[p] \o w
  BY <1>0, MovesFacts
<1>3. p \in Ends /\ Peer(p) = e /\ p # e
  BY Peers
<1>a. PICK L \in Nat : L = Len(stream[p])
  BY <1>0, Peers, Frame
<1>4. /\ stream[p] \in Seq(Pieces) /\ L = Len(stream[p]) /\ Read(p) \in Nat /\ Wrote(e) \in Nat /\ Prelude(e) \in {1, 2}
      /\ Len(sent[e]) \in Nat /\ Len(sent'[e]) \in Nat /\ reset \in BOOLEAN
  BY <1>0, <1>3, <1>a, Frame
<1>5. Intact(p)
  BY <1>3 DEF Inv
<1>6. Read(p)' = Read(p)
  BY <1>1 DEF Read
<1>7. CASE state[p] \in Over
  <2>1. stream'[p] = stream[p] /\ stream[p] = <<>>
    BY <1>2, <1>5, <1>7 DEF Lost, Intact
  <2> QED  BY <1>1, <1>7, <2>1 DEF Intact
<1>8. CASE state[p] \notin Over /\ reset
  <2>1. stream'[p] = stream[p] /\ stream[p] = <<>> /\ reset'
    BY <1>2, <1>5, <1>8 DEF Lost, Intact
  <2> QED  BY <1>1, <1>8, <2>1 DEF Intact
<1>9. CASE state[p] \notin Over /\ ~reset
  <2>1. stream'[p] = stream[p] \o w /\ ~Lost(e)
    BY <1>2, <1>9 DEF Lost
  <2>2. Read(p) + L = Wrote(e) /\ \A i \in 1 .. L : InOrder(p, e, i)
    BY <1>3, <1>4, <1>5, <1>9 DEF Intact, AtEnd, Over, Quiet
  <2>3. ASSUME NEW i \in Nat, i <= Prelude(e) + Len(sent[e])
        PROVE  i <= Prelude(e) + Len(sent'[e]) /\ Written(e, i)' = Written(e, i)
    <3>1. i <= Prelude(e) + Len(sent'[e])
      BY <1>4, <2>3
    <3>2. i > Prelude(e) => i - Prelude(e) \in 1 .. Len(sent[e])
      BY <1>4, <2>3
    <3>3. CASE i <= Prelude(e)
      BY <3>1, <3>3 DEF Written
    <3>4. CASE ~(i <= Prelude(e))
      <4>1. sent'[e][i - Prelude(e)] = sent[e][i - Prelude(e)]
        BY <1>4, <3>2, <3>4
      <4> QED  BY <3>1, <3>4, <4>1 DEF Written
    <3> QED  BY <3>3, <3>4
  <2>4. ASSUME NEW i \in 1 .. L, stream'[p][i] = stream[p][i] PROVE InOrder(p, e, i)'
    <3>1. PICK j \in Nat : j = Read(p) + i
      BY <1>4
    <3>2. j <= Prelude(e) + Len(sent[e]) /\ stream[p][i] = Written(e, j)
      BY <2>2, <3>1 DEF InOrder
    <3>3. j <= Prelude(e) + Len(sent'[e]) /\ Written(e, j)' = Written(e, j)
      BY <2>3, <3>2
    <3>4. Read(p)' + i = j
      BY <1>6, <3>1
    <3>5. stream'[p][i] = Written(e, j)'
      BY <2>4, <3>2, <3>3
    <3> QED  BY <3>3, <3>4, <3>5 DEF InOrder, Written, Prelude
  <2>5. ASSUME NEW x \in Pieces, w = <<x>>
        PROVE  /\ Len(stream'[p]) = L + 1 /\ stream'[p][L + 1] = x
               /\ \A i \in 1 .. L : stream'[p][i] = stream[p][i]
    BY <1>4, <2>1, <2>5
  <2>6. CASE w = <<>> /\ (to \notin Over => Put(e, to) + Len(sent'[e]) = Wrote(e))
    <3>1. stream'[p] = stream[p]
      BY <1>4, <2>1, <2>6
    <3>2. to \notin Over => Read(p)' + Len(stream'[p]) = Wrote(e)'
      BY <1>1, <1>4, <1>6, <2>2, <2>6, <3>1 DEF Wrote
    <3>3. Len(stream'[p]) = L /\ \A i \in 1 .. Len(stream'[p]) : InOrder(p, e, i)'
      BY <1>4, <2>4, <3>1
    <3> QED  BY <1>1, <1>3, <1>9, <3>2, <3>3 DEF Intact
  <2>7. CASE /\ w = <<Written(e, k)'>> /\ to \notin Over
             /\ Put(e, to) + Len(sent'[e]) = k /\ k <= Prelude(e) + Len(sent'[e])
    <3> DEFINE x == Written(e, k)'
    <3>1. x \in Pieces
      BY <2>7
    <3> HIDE DEF x
    <3>2. /\ Len(stream'[p]) = L + 1 /\ stream'[p][L + 1] = x
          /\ \A i \in 1 .. L : stream'[p][i] = stream[p][i]
      BY <2>5, <2>7, <3>1 DEF x
    <3>3. InOrder(p, e, L + 1)'
      <4>1. Read(p)' + (L + 1) = k
        BY <1>4, <1>6, <2>2
      <4>2. k <= Prelude(e) + Len(sent'[e]) /\ stream'[p][L + 1] = Written(e, k)'
        BY <2>7, <3>2 DEF x
      <4> QED  BY <4>1, <4>2 DEF InOrder, Written, Prelude
    <3>4. Read(p)' + Len(stream'[p]) = Wrote(e)'
      BY <1>1, <1>4, <1>6, <2>2, <2>7, <3>2 DEF Wrote
    <3>5. \A i \in 1 .. Len(stream'[p]) : InOrder(p, e, i)'
      <4>1. 1 .. Len(stream'[p]) = (1 .. L) \cup {L + 1}
        BY <1>4, <3>2
      <4> QED  BY <2>4, <3>2, <3>3, <4>1
    <3> QED  BY <1>1, <1>3, <1>9, <3>4, <3>5 DEF Intact
  <2>8. CASE (w = <<Eof>> /\ to \in Quiet) \/ (w = <<Junk>> /\ to = "gone")
    <3>1. PICK x \in {Eof, Junk} : w = <<x>> /\ (x = Eof => to \in Quiet) /\ (x = Junk => to = "gone")
      BY <2>8 DEF Eof, Junk
    <3>2. x \in Pieces /\ to \in Over
      BY <2>8 DEF Pieces, Quiet, Over
    <3>3. /\ Len(stream'[p]) = L + 1 /\ stream'[p][L + 1] = x
          /\ \A i \in 1 .. L : stream'[p][i] = stream[p][i]
      BY <2>5, <3>1, <3>2
    <3>4. AtEnd(p, e, L + 1)'
      BY <1>1, <3>1, <3>3 DEF AtEnd
    <3>5. \A i \in 1 .. Len(stream'[p]) : InOrder(p, e, i)' \/ AtEnd(p, e, i)'
      <4>1. 1 .. Len(stream'[p]) = (1 .. L) \cup {L + 1}
        BY <1>4, <3>3
      <4> QED  BY <2>4, <3>3, <3>4, <4>1
    <3> QED  BY <1>1, <1>3, <1>9, <3>2, <3>5 DEF Intact
  <2> QED  BY <2>6, <2>7, <2>8
<1> QED  BY <1>4, <1>7, <1>8, <1>9

-----------------------------------------------------------------------------
(* Steps *)

LEMMA InitInv == ASSUME Init PROVE Inv
<1>1. TypeOK
  <2>1. \A e \in Ends : state[e] = "start"
    BY DEF Init
  <2>2. /\ state \in [Ends -> Shaking \cup {"up"} \cup Over] /\ key \in [Ends -> SUBSET Ends]
        /\ sendNonce \in [Ends -> Nat] /\ recvNonce \in [Ends -> Nat]
    BY DEF Init, Shaking, NoSession
  <2>3. stream \in [Ends -> Seq(Pieces)] /\ sent \in [Ends -> Seq(Messages)] /\ received \in [Ends -> Seq(Messages)]
    BY DEF Init
  <2>4. reset \in BOOLEAN
    BY DEF Init
  <2> QED  BY <2>1, <2>2, <2>3, <2>4 DEF TypeOK
<1>2. Roles /\ OnlyLossFails
  BY DEF Init, Roles, OnlyLossFails, Ends
<1>3. ASSUME NEW e \in Ends PROVE Counted(e) /\ Intact(e)
  <2>1. /\ state[e] = "start" /\ state[Peer(e)] = "start" /\ stream[e] = <<>>
        /\ sent[e] = <<>> /\ sent[Peer(e)] = <<>> /\ received[e] = <<>>
        /\ sendNonce[e] = 0 /\ recvNonce[e] = 0
    BY Peers DEF Init
  <2>2. Counted(e)
    BY <2>1 DEF Counted
  <2>3. Intact(e)
    BY <2>1 DEF Intact, Read, Wrote, Got, Put
  <2> QED  BY <2>2, <2>3
<1> QED  BY <1>1, <1>2, <1>3 DEF Inv

\* A step of one end that sends and receives no message.
QuietStep(e, to, n, w) ==
  /\ state[e] \notin Over /\ UNCHANGED <<counters, reset, history>>
  /\ to \in Shaking \cup {"up"} \cup Over /\ n \in {0, 1} /\ n <= Len(stream[e]) /\ w \in Seq(Pieces)
  /\ Moves(e, to, n, w)
  /\ to \notin Over => Got(e, to) = Got(e, state[e]) + n
  /\ to \in Shaking \cup {"up"} => state[e] \in Shaking
  /\ e = "dialer" => to \notin {"hello", "answered"}
  /\ e = "acceptor" => to \notin {"magic", "waiting"}
  /\ key' \in [Ends -> SUBSET Ends] /\ key'[Peer(e)] = key[Peer(e)] /\ (to = "up" => key'[e] = Ends)
  /\ to = "failed" => reset \/ state[Peer(e)] \in Quiet
  /\ \/ w = <<>> /\ (to \notin Over => Put(e, to) = Put(e, state[e]))
     \/ /\ to \notin Over /\ Put(e, to) = Put(e, state[e]) + 1 /\ Put(e, to) <= Prelude(e)
        /\ w = <<IF e = "dialer" /\ Put(e, to) = 1 THEN Magic ELSE Hello(e)>>
     \/ w = <<Eof>> /\ to \in Quiet
     \/ w = <<Junk>> /\ to = "gone"

LEMMA QuietMoves ==
  ASSUME Inv, NEW e \in Ends, NEW to, NEW n, NEW w, QuietStep(e, to, n, w)
  PROVE  Inv'
<1> DEFINE p == Peer(e)
<1>0. TypeOK /\ Counted(e) /\ Counted(p)
  BY Peers DEF Inv
<1>1. /\ UNCHANGED <<sendNonce, recvNonce, reset, sent, received>>
      /\ to \in Shaking \cup {"up"} \cup Over /\ n \in {0, 1} /\ n <= Len(stream[e])
      /\ w \in Seq(Pieces) /\ Moves(e, to, n, w) /\ state[e] \notin Over
  BY DEF counters, history, QuietStep
<1>2. /\ p \in Ends /\ p # e /\ Ends = {e, p} /\ Peer(p) = e
      /\ \A x \in Ends : x = e \/ x = p
  BY Peers
<1>3. /\ state'[e] = to /\ state'[p] = state[p] /\ stream' \in [Ends -> Seq(Pieces)]
      /\ state' \in [Ends -> Shaking \cup {"up"} \cup Over]
  <2>1. state' = [state EXCEPT ![e] = to]
    BY <1>1 DEF Moves
  <2>2. state' \in [Ends -> Shaking \cup {"up"} \cup Over] /\ state'[e] = to /\ state'[p] = state[p]
    BY <1>0, <1>1, <1>2, <2>1 DEF TypeOK
  <2>3. stream' \in [Ends -> Seq(Pieces)]
    BY <1>0, <1>1, MovesFacts
  <2> QED  BY <2>2, <2>3
<1>4. /\ Len(sent[e]) \in Nat /\ Len(received[e]) \in Nat /\ Got(e, state[e]) \in Nat
      /\ Put(e, state[e]) \in Nat /\ Wrote(e) \in Nat /\ Prelude(e) \in {1, 2} /\ sent[e] \in Seq(Messages)
  BY <1>0, Frame
<1>5. to \notin Over => Got(e, to) + Len(received'[e]) = Read(e) + n
  BY <1>1, <1>4 DEF Read, QuietStep
<1>6. Intact(e)'
  BY <1>1, <1>5, ReaderSide
<1>7. PICK k \in Nat : k = Wrote(e) + 1
  BY <1>4
<1>8. to \notin Over => Len(sent[e]) = 0
  <2>1. to \notin Over => state[e] \in Shaking
    BY <1>1 DEF QuietStep
  <2> QED  BY <1>0, <2>1 DEF Counted
<1>9. \/ w = <<>> /\ (to \notin Over => Put(e, to) + Len(sent'[e]) = Wrote(e))
      \/ /\ w = <<Written(e, k)'>> /\ to \notin Over
         /\ Put(e, to) + Len(sent'[e]) = k /\ k <= Prelude(e) + Len(sent'[e])
      \/ w = <<Eof>> /\ to \in Quiet
      \/ w = <<Junk>> /\ to = "gone"
  <2>1. CASE w = <<>> /\ (to \notin Over => Put(e, to) = Put(e, state[e]))
    BY <1>1, <2>1 DEF Wrote
  <2>2. CASE /\ to \notin Over /\ Put(e, to) = Put(e, state[e]) + 1 /\ Put(e, to) <= Prelude(e)
             /\ w = <<IF e = "dialer" /\ Put(e, to) = 1 THEN Magic ELSE Hello(e)>>
    <3>1. k = Put(e, to) /\ k <= Prelude(e)
      BY <1>4, <1>7, <1>8, <2>2 DEF Wrote
    <3>2. Written(e, k)' = IF e = "dialer" /\ k = 1 THEN Magic ELSE Hello(e)
      BY <3>1 DEF Written, Prelude
    <3>3. Put(e, to) + Len(sent'[e]) = k /\ k <= Prelude(e) + Len(sent'[e])
      BY <1>1, <1>4, <1>8, <2>2, <3>1
    <3> QED  BY <2>2, <3>1, <3>2, <3>3
  <2> QED  BY <2>1, <2>2 DEF QuietStep
<1>10. /\ sent'[e] \in Seq(Messages) /\ Len(sent[e]) <= Len(sent'[e])
       /\ \A i \in 1 .. Len(sent[e]) : sent'[e][i] = sent[e][i]
       /\ received'[p] = received[p]
  BY <1>1, <1>4
<1>11. Intact(p)'
  BY <1>1, <1>7, <1>9, <1>10, WriterSide
<1>12. Counted(e)' /\ Counted(p)'
  <2>1. Counted(p)'
    BY <1>0, <1>1, <1>3 DEF Counted, QuietStep
  <2>2. Counted(e)'
    BY <1>0, <1>1, <1>3, <1>8 DEF Counted, QuietStep
  <2> QED  BY <2>1, <2>2
<1>13. TypeOK'
  <2>1. \A x \in Ends : state'[x] = "up" => key'[x] # NoSession
    <3>1. state'[p] = "up" => key'[p] # NoSession
      BY <1>0, <1>2, <1>3 DEF TypeOK, QuietStep
    <3>2. state'[e] = "up" => key'[e] # NoSession
      BY <1>2, <1>3 DEF NoSession, QuietStep
    <3> QED  BY <1>2, <3>1, <3>2
  <2>2. key' \in [Ends -> SUBSET Ends]
    BY DEF QuietStep
  <2> QED  BY <1>0, <1>1, <1>3, <2>1, <2>2 DEF TypeOK
<1>14. Roles'
  BY <1>2, <1>3 DEF Inv, Roles, Ends, QuietStep
<1>15. OnlyLossFails'
  <2>1. state'[e] = "failed" => reset' \/ state'[p] \in Quiet
    BY <1>1, <1>3 DEF QuietStep
  <2>2. state'[p] = "failed" => reset' \/ state'[e] \in Quiet
    <3>1. state[p] = "failed" => reset \/ state[e] \in Quiet
      BY <1>2 DEF Inv, OnlyLossFails
    <3>2. state[e] \notin Quiet
      BY <1>1 DEF Quiet, Over
    <3> QED  BY <1>1, <1>3, <3>1, <3>2
  <2>3. ASSUME NEW x \in Ends PROVE state'[x] = "failed" => reset' \/ state'[Peer(x)] \in Quiet
    BY <1>2, <2>1, <2>2
  <2> QED  BY <2>3 DEF OnlyLossFails
<1> QED
  <2>1. \A x \in Ends : Counted(x)' /\ Intact(x)'
    BY <1>2, <1>6, <1>11, <1>12
  <2> QED  BY <1>13, <1>14, <1>15, <2>1 DEF Inv

LEMMA HandshakeInv == ASSUME Inv, Handshake PROVE Inv'
<1>0. /\ TypeOK /\ Roles /\ "dialer" \in Ends /\ "acceptor" \in Ends
      /\ Peer("dialer") = "acceptor" /\ Peer("acceptor") = "dialer"
  BY DEF Inv, Ends, Peer
<1>1. /\ \A e \in Ends : <<>> \in Seq(Pieces) /\ <<Hello(e)>> \in Seq(Pieces) /\ <<Magic>> \in Seq(Pieces)
      /\ \A e \in Ends : Len(stream[e]) \in Nat /\ (stream[e] # <<>> => 1 <= Len(stream[e])) /\ 0 <= Len(stream[e])
  <2>1. \A e \in Ends : Hello(e) \in Pieces /\ Magic \in Pieces
    BY DEF Pieces
  <2>2. \A e \in Ends : stream[e] \in Seq(Pieces)
    BY <1>0 DEF TypeOK
  <2> HIDE DEF Pieces
  <2> QED  BY <2>1, <2>2
<1>2. key \in [Ends -> SUBSET Ends]
  BY <1>0 DEF TypeOK
<1>3. ASSUME SendMagic PROVE Inv'
  <2>1. /\ state["dialer"] = "start" /\ Moves("dialer", "magic", 0, <<Magic>>)
        /\ UNCHANGED <<counters, reset, history>> /\ key' = key
    BY <1>3 DEF SendMagic
  <2>2. /\ Got("dialer", "magic") = 0 /\ Got("dialer", "start") = 0 /\ Put("dialer", "magic") = 1
        /\ Put("dialer", "start") = 0 /\ Prelude("dialer") = 2
    BY DEF Got, Put, Prelude
  <2>3. "magic" \in Shaking /\ "start" \in Shaking /\ "magic" \notin Over /\ "start" \notin Over
    BY DEF Shaking, Over
  <2>9. QuietStep("dialer", "magic", 0, <<Magic>>)
    BY <1>0, <1>1, <1>2, <2>1, <2>2, <2>3 DEF QuietStep
  <2> QED  BY <1>0, <2>9, QuietMoves
<1>4. ASSUME SendHello PROVE Inv'
  <2>1. /\ state["dialer"] = "magic" /\ Moves("dialer", "waiting", 0, <<Hello("dialer")>>)
        /\ UNCHANGED <<counters, reset, history>> /\ key' = key
    BY <1>4 DEF SendHello
  <2>2. /\ Got("dialer", "waiting") = 0 /\ Got("dialer", "magic") = 0 /\ Put("dialer", "waiting") = 2
        /\ Put("dialer", "magic") = 1 /\ Prelude("dialer") = 2
    BY DEF Got, Put, Prelude
  <2>3. "magic" \in Shaking /\ "waiting" \in Shaking /\ "magic" \notin Over /\ "waiting" \notin Over
    BY DEF Shaking, Over
  <2>9. QuietStep("dialer", "waiting", 0, <<Hello("dialer")>>)
    BY <1>0, <1>1, <1>2, <2>1, <2>2, <2>3 DEF QuietStep
  <2> QED  BY <1>0, <2>9, QuietMoves
<1>5. ASSUME ReadMagic PROVE Inv'
  <2>1. /\ state["acceptor"] = "start" /\ Moves("acceptor", "hello", 1, <<>>) /\ stream["acceptor"] # <<>>
        /\ UNCHANGED <<counters, reset, history>> /\ key' = key
    BY <1>5 DEF ReadMagic, Reads
  <2>2. /\ Got("acceptor", "hello") = 1 /\ Got("acceptor", "start") = 0 /\ Put("acceptor", "hello") = 0
        /\ Put("acceptor", "start") = 0
    BY DEF Got, Put
  <2>3. "hello" \in Shaking /\ "start" \in Shaking /\ "hello" \notin Over /\ "start" \notin Over
    BY DEF Shaking, Over
  <2>9. QuietStep("acceptor", "hello", 1, <<>>)
    BY <1>0, <1>1, <1>2, <2>1, <2>2, <2>3 DEF QuietStep
  <2> QED  BY <1>0, <2>9, QuietMoves
<1>6. ASSUME AnswerHello PROVE Inv'
  <2>1. /\ state["acceptor"] = "hello" /\ Moves("acceptor", "answered", 1, <<Hello("acceptor")>>)
        /\ stream["acceptor"] # <<>> /\ UNCHANGED <<counters, reset, history>> /\ key' = key
    BY <1>6 DEF AnswerHello, Reads
  <2>2. /\ Got("acceptor", "hello") = 1 /\ Got("acceptor", "answered") = 2 /\ Put("acceptor", "hello") = 0
        /\ Put("acceptor", "answered") = 1 /\ Prelude("acceptor") = 1
    BY DEF Got, Put, Prelude
  <2>3. "hello" \in Shaking /\ "answered" \in Shaking /\ "hello" \notin Over /\ "answered" \notin Over
    BY DEF Shaking, Over
  <2>9. QuietStep("acceptor", "answered", 1, <<Hello("acceptor")>>)
    BY <1>0, <1>1, <1>2, <2>1, <2>2, <2>3 DEF QuietStep
  <2> QED  BY <1>0, <2>9, QuietMoves
<1>7. ASSUME AcceptorUp PROVE Inv'
  <2>1. /\ state["acceptor"] = "answered" /\ Moves("acceptor", "up", 0, <<>>)
        /\ UNCHANGED <<counters, reset, history>> /\ key' = [key EXCEPT !["acceptor"] = Ends]
    BY <1>0, <1>7, Peers DEF AcceptorUp
  <2>2. /\ Got("acceptor", "up") = 2 /\ Got("acceptor", "answered") = 2 /\ Put("acceptor", "up") = 1
        /\ Put("acceptor", "answered") = 1
    BY DEF Got, Put
  <2>3. "answered" \in Shaking /\ "up" \notin Over /\ "answered" \notin Over
    BY DEF Shaking, Over
  <2>4. key' \in [Ends -> SUBSET Ends] /\ key'["acceptor"] = Ends /\ key'["dialer"] = key["dialer"]
    BY <1>0, <1>2, <2>1
  <2>9. QuietStep("acceptor", "up", 0, <<>>)
    BY <1>0, <1>1, <2>1, <2>2, <2>3, <2>4 DEF QuietStep
  <2> QED  BY <1>0, <2>9, QuietMoves
<1>8. ASSUME DialerUp PROVE Inv'
  <2>1. /\ state["dialer"] = "waiting" /\ Moves("dialer", "up", 1, <<>>) /\ stream["dialer"] # <<>>
        /\ UNCHANGED <<counters, reset, history>> /\ key' = [key EXCEPT !["dialer"] = Ends]
    BY <1>0, <1>8, Peers DEF DialerUp, Reads
  <2>2. /\ Got("dialer", "up") = 1 /\ Got("dialer", "waiting") = 0 /\ Put("dialer", "up") = 2
        /\ Put("dialer", "waiting") = 2
    BY DEF Got, Put
  <2>3. "waiting" \in Shaking /\ "up" \notin Over /\ "waiting" \notin Over
    BY DEF Shaking, Over
  <2>4. key' \in [Ends -> SUBSET Ends] /\ key'["dialer"] = Ends /\ key'["acceptor"] = key["acceptor"]
    BY <1>0, <1>2, <2>1
  <2>9. QuietStep("dialer", "up", 1, <<>>)
    BY <1>0, <1>1, <2>1, <2>2, <2>3, <2>4 DEF QuietStep
  <2> QED  BY <1>0, <2>9, QuietMoves
<1> QED  BY <1>3, <1>4, <1>5, <1>6, <1>7, <1>8 DEF Handshake

\* A piece that is not the end of the stream is accepted, and is the next message sent.
LEMMA NextIsValid ==
  ASSUME Inv, NEW e \in Ends, state[e] = "up", stream[e] # <<>>,
         state[Peer(e)] \notin Quiet \/ Head(stream[e]).type = "frame"
  PROVE  /\ Valid(e, Head(stream[e]))
         /\ recvNonce[e] < Len(sent[Peer(e)])
         /\ Head(stream[e]).text = sent[Peer(e)][recvNonce[e] + 1]
<1> DEFINE p == Peer(e)
           h == Head(stream[e])
<1>0. TypeOK /\ Counted(e) /\ Counted(p) /\ Intact(e) /\ p \in Ends
  BY Peers DEF Inv
<1>1. /\ stream[e] \in Seq(Pieces) /\ Len(stream[e]) \in Nat /\ Len(sent[p]) \in Nat
      /\ recvNonce[e] = Len(received[e]) /\ Len(received[e]) \in Nat /\ sent[p] \in Seq(Messages)
  BY <1>0, Frame DEF Counted
<1>2. 1 \in 1 .. Len(stream[e]) /\ h = stream[e][1]
  BY <1>1
<1>3. InOrder(e, p, 1)
  <2>1. "up" \notin Over /\ "gone" \in Quiet /\ Eof.type # "frame" /\ Junk.type # "frame"
    BY DEF Over, Quiet, Eof, Junk
  <2> QED  BY <1>0, <1>2, <2>1 DEF Intact, AtEnd
<1>4. Read(e) = Prelude(p) + recvNonce[e] /\ Prelude(p) \in {1, 2}
  BY <1>1 DEF Read, Got, Prelude, Peer, Ends
<1>5. PICK j \in Nat : j = Read(e) + 1
  BY <1>1, <1>4
<1>6. j <= Prelude(p) + Len(sent[p]) /\ h = Written(p, j) /\ j = Prelude(p) + recvNonce[e] + 1
  BY <1>2, <1>3, <1>4, <1>5 DEF InOrder
<1>7. /\ recvNonce[e] + 1 \in 1 .. Len(sent[p]) /\ ~(j <= Prelude(p)) /\ j - Prelude(p) = recvNonce[e] + 1
      /\ j - Prelude(p) - 1 = recvNonce[e]
  <2>1. PICK r \in Nat, q \in {1, 2}, n \in Nat : r = recvNonce[e] /\ q = Prelude(p) /\ n = Len(sent[p])
    BY <1>1, <1>4
  <2>2. j <= q + n /\ j = q + r + 1
    BY <1>6, <2>1
  <2>3. r + 1 \in 1 .. n /\ ~(j <= q) /\ j - q = r + 1 /\ j - q - 1 = r
    BY <2>2
  <2> QED  BY <2>1, <2>3
<1>8. h = [type |-> "frame", nonce |-> recvNonce[e], key |-> Ends, text |-> sent[p][recvNonce[e] + 1]]
  BY <1>6, <1>7 DEF Written
<1>9. SizeOf[h.text] <= MaxMessage /\ SizeOf[h.text] \in Nat
  <2>1. h.text = sent[p][recvNonce[e] + 1] /\ h.text \in Messages
    BY <1>1, <1>7, <1>8
  <2> QED  BY <1>0, <1>7, <2>1, SizesAssumption DEF Counted
<1>10. SizeOf[h.text] + Overhead <= MaxMessage + Overhead
  BY <1>9, SizesAssumption
<1>11. Valid(e, h)
  BY <1>0, <1>8, <1>10 DEF Valid, Counted
<1> QED  BY <1>1, <1>7, <1>8, <1>11

\* The steps that end a handshake or a connection.
LEMMA EndInv ==
  ASSUME Inv, NEW e \in Ends,
         Stranger(e) \/ GiveUp(e) \/ Reject(e) \/ FailReset(e) \/ FailSend(e) \/ Close(e)
  PROVE  Inv'
<1>0. TypeOK /\ Peer(e) \in Ends
  BY Peers DEF Inv
<1>1. /\ <<>> \in Seq(Pieces) /\ <<Eof>> \in Seq(Pieces) /\ <<Junk>> \in Seq(Pieces)
      /\ Len(stream[e]) \in Nat /\ 0 <= Len(stream[e])
  <2>1. Eof \in Pieces /\ Junk \in Pieces /\ stream[e] \in Seq(Pieces)
    BY <1>0 DEF Pieces, TypeOK
  <2> HIDE DEF Pieces
  <2> QED  BY <2>1
<1>2. key \in [Ends -> SUBSET Ends]
  BY <1>0 DEF TypeOK
<1>3. /\ "failed" \in Over \ Quiet /\ "gone" \in Quiet /\ "closed" \in Quiet /\ Quiet \subseteq Over
      /\ "start" \in Shaking /\ "up" \notin Over /\ "up" \notin Shaking
      /\ \A s \in Shaking : s \notin Over /\ s # "up"
  BY DEF Over, Quiet, Shaking
<1>4. "failed" \notin Shaking /\ "gone" \notin Shaking /\ "closed" \notin Shaking
  BY DEF Shaking
<1>5. CASE Stranger(e)
  <2>1. QuietStep(e, "gone", 0, <<Junk>>)
    BY <1>0, <1>1, <1>2, <1>3, <1>4, <1>5 DEF QuietStep, Stranger
  <2> QED  BY <2>1, QuietMoves
<1>6. CASE GiveUp(e)
  <2>1. QuietStep(e, "gone", 0, <<Eof>>)
    BY <1>0, <1>1, <1>2, <1>3, <1>4, <1>6 DEF QuietStep, GiveUp
  <2> QED  BY <2>1, QuietMoves
<1>7. CASE Close(e)
  <2>1. QuietStep(e, "closed", 0, <<Eof>>)
    BY <1>0, <1>1, <1>2, <1>3, <1>4, <1>7 DEF QuietStep, Close
  <2> QED  BY <2>1, QuietMoves
<1>8. CASE Reject(e) \/ FailReset(e) \/ FailSend(e)
  <2>1. /\ state[e] = "up" /\ Moves(e, "failed", 0, <<>>) /\ UNCHANGED <<key, counters, reset, history>>
    BY <1>8 DEF Reject, FailReset, FailSend
  <2>2. reset \/ state[Peer(e)] \in Quiet
    BY <1>8, NextIsValid DEF Reject, FailReset, FailSend
  <2>3. QuietStep(e, "failed", 0, <<>>)
    BY <1>0, <1>1, <1>2, <1>3, <1>4, <2>1, <2>2 DEF QuietStep
  <2> QED  BY <2>3, QuietMoves
<1> QED  BY <1>5, <1>6, <1>7, <1>8

LEMMA SendInv ==
  ASSUME Inv, NEW e \in Ends, NEW m \in Messages, Send(e, m)
  PROVE  Inv'
<1> DEFINE p == Peer(e)
           w == <<Encrypted(e, m)>>
<1>0. TypeOK /\ Roles /\ OnlyLossFails /\ Counted(e) /\ Counted(p) /\ p \in Ends /\ p # e /\ Peer(p) = e
  BY Peers DEF Inv
<1>1. /\ state[e] = "up" /\ SizeOf[m] <= MaxMessage /\ Moves(e, "up", 0, w)
      /\ sendNonce' = [sendNonce EXCEPT ![e] = @ + 1] /\ sent' = [sent EXCEPT ![e] = Append(@, m)]
      /\ UNCHANGED <<key, recvNonce, reset, received>>
  BY DEF Send
<1>2. /\ sent[e] \in Seq(Messages) /\ Len(sent[e]) \in Nat /\ Len(received[e]) \in Nat
      /\ Prelude(e) \in {1, 2} /\ Wrote(e) \in Nat /\ Len(stream[e]) \in Nat /\ sendNonce[e] = Len(sent[e])
      /\ Read(e) \in Nat
  BY <1>0, Frame DEF Counted
<1>3. /\ "up" \notin Over /\ "up" \notin Shaking /\ state[e] \notin Over /\ 0 <= Len(stream[e])
      /\ "up" \in Shaking \cup {"up"} \cup Over /\ 0 \in {0, 1}
  BY <1>1, <1>2 DEF Over, Shaking
<1>4. /\ sent'[e] = Append(sent[e], m) /\ sent'[p] = sent[p] /\ sent' \in [Ends -> Seq(Messages)]
      /\ sendNonce'[e] = sendNonce[e] + 1 /\ sendNonce'[p] = sendNonce[p] /\ sendNonce' \in [Ends -> Nat]
  <2>1. sendNonce \in [Ends -> Nat] /\ sent \in [Ends -> Seq(Messages)]
    BY <1>0 DEF TypeOK
  <2>2. sendNonce'[e] = sendNonce[e] + 1 /\ sendNonce'[p] = sendNonce[p] /\ sendNonce' \in [Ends -> Nat]
    BY <1>0, <1>1, <2>1
  <2> DEFINE more == Append(sent[e], m)
  <2>3. more \in Seq(Messages) /\ sent' = [sent EXCEPT ![e] = more]
    BY <1>1, <1>2
  <2> HIDE DEF more, p
  <2>4. sent'[e] = more /\ sent'[p] = sent[p] /\ sent' \in [Ends -> Seq(Messages)]
    BY <1>0, <2>1, <2>3
  <2> QED  BY <2>2, <2>4 DEF more
<1>5. /\ Len(sent'[e]) = Len(sent[e]) + 1 /\ sent'[e][Len(sent[e]) + 1] = m
      /\ \A i \in 1 .. Len(sent[e]) : sent'[e][i] = sent[e][i]
  BY <1>2, <1>4
<1>6. w \in Seq(Pieces)
  <2>1. Encrypted(e, m) \in Frames
    BY <1>0 DEF Encrypted, Frames, TypeOK
  <2>2. Encrypted(e, m) \in Pieces
    BY <2>1 DEF Pieces
  <2> QED  BY <2>2
<1>7. PICK k \in Nat : k = Wrote(e) + 1
  BY <1>2
<1>8. Prelude(e) = Put(e, "up")
  BY <1>0 DEF Prelude, Put
<1>9. PICK q \in {1, 2}, n \in Nat : q = Prelude(e) /\ n = Len(sent[e])
  BY <1>2
<1>10. k = q + n + 1 /\ ~(k <= q) /\ k - q = n + 1 /\ k - q - 1 = n
  <2>1. Wrote(e) = q + n
    BY <1>1, <1>8, <1>9 DEF Wrote
  <2> QED  BY <1>7, <1>9, <2>1
<1>11. w = <<Written(e, k)'>>
  <2>1. Written(e, k)' = [type |-> "frame", nonce |-> k - q - 1, key |-> Ends, text |-> sent'[e][k - q]]
    BY <1>9, <1>10 DEF Written, Prelude
  <2>2. sent'[e][k - q] = m /\ sendNonce[e] = k - q - 1 /\ key[e] = Ends
    BY <1>0, <1>1, <1>2, <1>5, <1>9, <1>10 DEF Counted
  <2> QED  BY <2>1, <2>2 DEF Encrypted
<1> HIDE DEF w
<1>12. state'[e] = "up" /\ state'[p] = state[p] /\ state' \in [Ends -> Shaking \cup {"up"} \cup Over]
  BY <1>0, <1>1 DEF Moves, TypeOK
<1>13. stream' \in [Ends -> Seq(Pieces)]
  BY <1>0, <1>1, <1>3, <1>6, MovesFacts
<1>14. Intact(e)'
  <2>1. Got(e, "up") + Len(received'[e]) = Read(e) + 0
    BY <1>1, <1>2 DEF Read, Got
  <2> QED  BY <1>1, <1>2, <1>3, <1>4, <1>6, <2>1, ReaderSide
<1>15. Intact(p)'
  <2>1. Put(e, "up") + Len(sent'[e]) = k /\ k <= Prelude(e) + Len(sent'[e])
    BY <1>5, <1>8, <1>9, <1>10
  <2>2. sent'[e] \in Seq(Messages) /\ Len(sent[e]) <= Len(sent'[e]) /\ received'[p] = received[p]
    BY <1>0, <1>1, <1>2, <1>4, <1>5
  <2>3. /\ w = <<Written(e, k)'>> /\ "up" \notin Over
        /\ Put(e, "up") + Len(sent'[e]) = k /\ k <= Prelude(e) + Len(sent'[e])
    BY <1>3, <1>11, <2>1
  <2>4. Moves(e, "up", 0, w) /\ reset' = reset
    BY <1>1
  <2> QED  BY <1>3, <1>5, <1>6, <1>7, <2>2, <2>3, <2>4, WriterSide
<1>16. Counted(p)'
  BY <1>0, <1>1, <1>4, <1>12 DEF Counted
<1>17. Counted(e)'
  <2>1. \A i \in 1 .. Len(sent'[e]) : SizeOf[sent'[e][i]] <= MaxMessage
    <3>1. 1 .. Len(sent'[e]) = (1 .. Len(sent[e])) \cup {Len(sent[e]) + 1}
      BY <1>2, <1>5
    <3> QED  BY <1>0, <1>1, <1>5, <3>1 DEF Counted
  <2> QED  BY <1>0, <1>1, <1>2, <1>3, <1>4, <1>5, <1>12, <2>1 DEF Counted
<1>18. TypeOK'
  <2>1. \A x \in Ends : state'[x] = "up" => key'[x] # NoSession
    BY <1>0, <1>1, <1>12, Peers DEF TypeOK
  <2> QED  BY <1>0, <1>1, <1>4, <1>12, <1>13, <2>1 DEF TypeOK
<1>19. Roles' /\ OnlyLossFails'
  <2>1. Roles'
    BY <1>0, <1>12 DEF Roles, Ends
  <2>2. ASSUME NEW x \in Ends PROVE state'[x] = "failed" => reset' \/ state'[Peer(x)] \in Quiet
    <3>1. x = e \/ x = p
      BY Peers
    <3>2. "up" \notin Quiet
      BY DEF Quiet
    <3> QED  BY <1>0, <1>1, <1>12, <3>1, <3>2 DEF OnlyLossFails
  <2> QED  BY <2>1, <2>2 DEF OnlyLossFails
<1> QED
  <2>1. \A x \in Ends : x = e \/ x = p
    BY Peers
  <2> QED  BY <1>14, <1>15, <1>16, <1>17, <1>18, <1>19, <2>1 DEF Inv

LEMMA FrameOf == \A f \in Pieces : f.type = "frame" => f \in Frames
  BY DEF Pieces, Magic, Junk, Eof, Hello

LEMMA ReceiveInv ==
  ASSUME Inv, NEW e \in Ends, Receive(e)
  PROVE  Inv'
<1> DEFINE p == Peer(e)
           text == Head(stream[e]).text
<1>0. TypeOK /\ Roles /\ OnlyLossFails /\ Counted(e) /\ Counted(p) /\ p \in Ends /\ p # e /\ Peer(p) = e
  BY Peers DEF Inv
<1>1. /\ state[e] = "up" /\ stream[e] # <<>> /\ Moves(e, "up", 1, <<>>)
      /\ recvNonce' = [recvNonce EXCEPT ![e] = @ + 1] /\ received' = [received EXCEPT ![e] = Append(@, text)]
      /\ UNCHANGED <<key, sendNonce, reset, sent>> /\ Valid(e, Head(stream[e]))
  BY DEF Receive
<1>2. /\ stream[e] \in Seq(Pieces) /\ Len(stream[e]) \in Nat /\ received[e] \in Seq(Messages)
      /\ Len(received[e]) \in Nat /\ Len(sent[e]) \in Nat /\ sent[e] \in Seq(Messages) /\ Wrote(e) \in Nat
      /\ Read(e) \in Nat
  BY <1>0, Frame
<1>3. text \in Messages
  <2>1. Head(stream[e]) \in Pieces
    BY <1>1, <1>2
  <2>2. Head(stream[e]) \in Frames
    BY <1>1, <2>1, FrameOf DEF Valid
  <2> QED  BY <2>2 DEF Frames
<1> HIDE DEF text
<1>4. /\ "up" \notin Over /\ "up" \notin Shaking /\ state[e] \notin Over /\ 1 <= Len(stream[e])
      /\ "up" \in Shaking \cup {"up"} \cup Over /\ 1 \in {0, 1} /\ <<>> \in Seq(Pieces)
  BY <1>1, <1>2 DEF Over, Shaking
<1>5. /\ received'[e] = Append(received[e], text) /\ received'[p] = received[p]
      /\ received' \in [Ends -> Seq(Messages)]
      /\ recvNonce'[e] = recvNonce[e] + 1 /\ recvNonce'[p] = recvNonce[p] /\ recvNonce' \in [Ends -> Nat]
  <2>1. recvNonce \in [Ends -> Nat] /\ received \in [Ends -> Seq(Messages)]
    BY <1>0 DEF TypeOK
  <2>2. recvNonce'[e] = recvNonce[e] + 1 /\ recvNonce'[p] = recvNonce[p] /\ recvNonce' \in [Ends -> Nat]
    BY <1>0, <1>1, <2>1
  <2> DEFINE more == Append(received[e], text)
  <2>3. more \in Seq(Messages) /\ received' = [received EXCEPT ![e] = more]
    BY <1>1, <1>2, <1>3
  <2> HIDE DEF more, p
  <2>4. received'[e] = more /\ received'[p] = received[p] /\ received' \in [Ends -> Seq(Messages)]
    BY <1>0, <2>1, <2>3
  <2> QED  BY <2>2, <2>4 DEF more
<1>6. Len(received'[e]) = Len(received[e]) + 1
  BY <1>2, <1>3, <1>5
<1>7. state'[e] = "up" /\ state'[p] = state[p] /\ state' \in [Ends -> Shaking \cup {"up"} \cup Over]
  BY <1>0, <1>1 DEF Moves, TypeOK
<1>8. Moves(e, "up", 1, <<>>) /\ reset' = reset
  BY <1>1
<1>9. stream' \in [Ends -> Seq(Pieces)]
  BY <1>0, <1>4, <1>8, MovesFacts
<1>10. Intact(e)'
  <2>1. Got(e, "up") + Len(received'[e]) = Read(e) + 1
    <3>1. Got(e, "up") \in {1, 2} /\ Read(e) = Got(e, "up") + Len(received[e])
      BY <1>1 DEF Read, Got
    <3> QED  BY <1>2, <1>6, <3>1
  <2>2. sent'[p] = sent[p]
    BY <1>1
  <2> QED  BY <1>4, <1>8, <2>1, <2>2, ReaderSide
<1>11. Intact(p)'
  <2>1. PICK k \in Nat : k = Wrote(e) + 1
    BY <1>2
  <2>2. Put(e, "up") + Len(sent'[e]) = Wrote(e)
    BY <1>1 DEF Wrote
  <2>3. /\ sent'[e] \in Seq(Messages) /\ Len(sent[e]) <= Len(sent'[e])
        /\ \A i \in 1 .. Len(sent[e]) : sent'[e][i] = sent[e][i]
    BY <1>1, <1>2
  <2> QED  BY <1>4, <1>5, <1>8, <2>1, <2>2, <2>3, WriterSide
<1>12. Counted(e)' /\ Counted(p)'
  <2>1. Counted(p)'
    BY <1>0, <1>1, <1>5, <1>7 DEF Counted
  <2>2. Counted(e)'
    BY <1>0, <1>1, <1>2, <1>4, <1>5, <1>6, <1>7 DEF Counted
  <2> QED  BY <2>1, <2>2
<1>13. TypeOK'
  <2>1. \A x \in Ends : state'[x] = "up" => key'[x] # NoSession
    BY <1>0, <1>1, <1>7, Peers DEF TypeOK
  <2> QED  BY <1>0, <1>1, <1>5, <1>7, <1>9, <2>1 DEF TypeOK
<1>14. Roles' /\ OnlyLossFails'
  <2>1. Roles'
    BY <1>0, <1>7 DEF Roles, Ends
  <2>2. ASSUME NEW x \in Ends PROVE state'[x] = "failed" => reset' \/ state'[Peer(x)] \in Quiet
    <3>1. x = e \/ x = p
      BY Peers
    <3>2. "up" \notin Quiet
      BY DEF Quiet
    <3> QED  BY <1>0, <1>1, <1>7, <3>1, <3>2 DEF OnlyLossFails
  <2> QED  BY <2>1, <2>2 DEF OnlyLossFails
<1> QED
  <2>1. \A x \in Ends : x = e \/ x = p
    BY Peers
  <2> QED  BY <1>10, <1>11, <1>12, <1>13, <1>14, <2>1 DEF Inv

LEMMA ResetInv == ASSUME Inv, Reset PROVE Inv'
<1>1. /\ reset' /\ reset' \in BOOLEAN /\ stream' = [e \in Ends |-> <<>>]
      /\ UNCHANGED <<state, key, sendNonce, recvNonce, sent, received>>
  BY DEF Reset, counters, history
<1>2. TypeOK'
  BY <1>1 DEF Inv, TypeOK
<1>3. Roles' /\ OnlyLossFails'
  BY <1>1 DEF Inv, Roles, OnlyLossFails
<1>4. ASSUME NEW e \in Ends PROVE Counted(e)' /\ Intact(e)'
  BY <1>1 DEF Inv, Counted, Intact
<1> QED  BY <1>2, <1>3, <1>4 DEF Inv

LEMMA DieInv == ASSUME Inv, NEW e \in Ends, Die(e) PROVE Inv'
<1> DEFINE p == Peer(e)
<1>0. /\ TypeOK /\ Roles /\ OnlyLossFails /\ Counted(e) /\ Counted(p) /\ Intact(p)
      /\ p \in Ends /\ p # e /\ Peer(p) = e
  BY Peers DEF Inv
<1>1. /\ state[e] # "gone" /\ state' = [state EXCEPT ![e] = "gone"]
      /\ UNCHANGED <<key, sendNonce, recvNonce, reset, sent, received>>
  BY DEF Die, counters, history
<1>2. PICK n \in 0 .. Len(stream[p]) :
        stream' = [stream EXCEPT ![e] = <<>>, ![p] = IF Lost(e) THEN @ ELSE EndingAt(@, n)]
  BY DEF Die
<1>3. /\ stream[p] \in Seq(Pieces) /\ Len(stream[p]) \in Nat /\ Len(sent[e]) \in Nat /\ Read(p) \in Nat
      /\ reset \in BOOLEAN /\ n \in Nat /\ n <= Len(stream[p])
  BY <1>0, <1>2, Frame
<1>4. "gone" \in Over /\ "gone" \in Quiet /\ "gone" \notin Shaking /\ "gone" # "failed" /\ "gone" # "up"
  BY DEF Over, Quiet, Shaking
<1>5. state'[e] = "gone" /\ state'[p] = state[p] /\ state' \in [Ends -> Shaking \cup {"up"} \cup Over]
  BY <1>0, <1>1, <1>4 DEF TypeOK
<1> DEFINE w  == IF Lost(e) THEN stream[p] ELSE EndingAt(stream[p], n)
           sq == Append(SubSeq(stream[p], 1, n), Eof)
<1>6. /\ sq \in Seq(Pieces) /\ Len(sq) = n + 1 /\ sq[n + 1] = Eof
      /\ \A i \in 1 .. n : sq[i] = stream[p][i]
  <2>1. LET s == SubSeq(stream[p], 1, n) IN
        s \in Seq(Pieces) /\ Len(s) = n /\ \A i \in 1 .. n : s[i] = stream[p][i]
    BY <1>3
  <2>2. Eof \in Pieces
    BY DEF Pieces
  <2> HIDE DEF Pieces
  <2> QED  BY <1>3, <2>1, <2>2
<1>7. w \in Seq(Pieces)
  BY <1>3, <1>6 DEF EndingAt
<1>8. stream'[e] = <<>> /\ stream'[p] = w /\ stream' \in [Ends -> Seq(Pieces)]
  <2>1. stream' = [stream EXCEPT ![e] = <<>>, ![p] = w]
    BY <1>0, <1>2
  <2>2. <<>> \in Seq(Pieces) /\ stream \in [Ends -> Seq(Pieces)]
    BY <1>0 DEF TypeOK
  <2> HIDE DEF w, p
  <2> QED  BY <1>0, <1>7, <2>1, <2>2
<1>9. Intact(e)'
  BY <1>4, <1>5, <1>8 DEF Intact
<1>10. Intact(p)'
  <2>1. CASE Lost(e)
    <3>1. stream'[p] = stream[p] /\ (state[p] \in Over \/ reset)
      BY <1>8, <2>1 DEF Lost
    <3>2. stream'[p] = <<>>
      BY <1>0, <3>1 DEF Intact
    <3>3. 1 .. Len(stream'[p]) = {}
      BY <3>2
    <3> QED  BY <1>0, <1>4, <1>5, <3>2, <3>3 DEF Intact
  <2>2. CASE ~Lost(e)
    <3>1. state[p] \notin Over /\ ~reset /\ w = EndingAt(stream[p], n)
      BY <1>3, <2>2 DEF Lost
    <3>2. \A i \in 1 .. Len(stream[p]) : InOrder(p, e, i) \/ AtEnd(p, e, i)
      BY <1>0, <3>1 DEF Intact
    <3>3. \A i : Written(e, i)' = Written(e, i)
      BY <1>1 DEF Written
    <3>4. Read(p)' = Read(p) /\ Prelude(e)' = Prelude(e) /\ sent' = sent
      BY <1>1, <1>5 DEF Read, Prelude
    <3>5. CASE n > 0 /\ stream[p][n] = Eof
      <4>1. stream'[p] = stream[p]
        BY <1>8, <3>1, <3>5 DEF EndingAt
      <4>2. ASSUME NEW i \in 1 .. Len(stream[p]) PROVE InOrder(p, e, i)' \/ AtEnd(p, e, i)'
        <5>1. CASE InOrder(p, e, i)
          BY <3>3, <3>4, <4>1, <5>1 DEF InOrder
        <5>2. CASE AtEnd(p, e, i)
          BY <1>4, <1>5, <4>1, <5>2 DEF AtEnd
        <5> QED  BY <3>2, <5>1, <5>2
      <4> QED  BY <1>0, <1>1, <1>4, <1>5, <3>1, <4>1, <4>2 DEF Intact
    <3>6. CASE ~(n > 0 /\ stream[p][n] = Eof)
      <4>1. stream'[p] = sq
        BY <1>8, <3>1, <3>6 DEF EndingAt
      <4> HIDE DEF sq, w
      <4>2. ASSUME NEW i \in 1 .. n PROVE InOrder(p, e, i)'
        <5>1. i \in 1 .. Len(stream[p]) /\ stream'[p][i] = stream[p][i]
          BY <1>3, <1>6, <4>1
        <5>2. ~AtEnd(p, e, i)
          <6>1. i = Len(stream[p]) => i = n /\ n > 0
            BY <1>3
          <6> QED  BY <1>1, <3>6, <6>1 DEF AtEnd
        <5>3. InOrder(p, e, i)
          BY <3>2, <5>1, <5>2
        <5> QED  BY <3>3, <3>4, <5>1, <5>3 DEF InOrder
      <4>3. AtEnd(p, e, n + 1)'
        BY <1>4, <1>5, <1>6, <4>1 DEF AtEnd
      <4>4. 1 .. Len(stream'[p]) = (1 .. n) \cup {n + 1}
        BY <1>3, <1>6, <4>1
      <4> QED  BY <1>0, <1>1, <1>4, <1>5, <3>1, <4>2, <4>3, <4>4 DEF Intact
    <3> QED  BY <3>5, <3>6
  <2> QED  BY <2>1, <2>2
<1>11. Counted(e)' /\ Counted(p)'
  BY <1>0, <1>1, <1>4, <1>5 DEF Counted
<1>12. TypeOK'
  <2>1. \A x \in Ends : state'[x] = "up" => key'[x] # NoSession
    BY <1>0, <1>1, <1>4, <1>5, Peers DEF TypeOK
  <2> QED  BY <1>0, <1>1, <1>5, <1>8, <2>1 DEF TypeOK
<1>13. Roles' /\ OnlyLossFails'
  <2>1. Roles'
    BY <1>0, <1>5 DEF Roles, Ends
  <2>2. ASSUME NEW x \in Ends PROVE state'[x] = "failed" => reset' \/ state'[Peer(x)] \in Quiet
    <3>1. x = e \/ x = p
      BY Peers
    <3> QED  BY <1>0, <1>1, <1>4, <1>5, <3>1
  <2> QED  BY <2>1, <2>2 DEF OnlyLossFails
<1> QED
  <2>1. \A x \in Ends : x = e \/ x = p
    BY Peers
  <2> QED  BY <1>9, <1>10, <1>11, <1>12, <1>13, <2>1 DEF Inv

LEMMA StutterInv == ASSUME Inv, UNCHANGED vars PROVE Inv'
<1>1. UNCHANGED <<state, stream, key, sendNonce, recvNonce, reset, sent, received>>
  BY DEF vars
<1>2. TypeOK' /\ Roles' /\ OnlyLossFails'
  BY <1>1 DEF Inv, TypeOK, Roles, OnlyLossFails
<1>3. ASSUME NEW e \in Ends PROVE Counted(e)' /\ Intact(e)'
  <2>1. Counted(e)'
    BY <1>1 DEF Inv, Counted
  <2>2. \A i : Written(Peer(e), i)' = Written(Peer(e), i)
    BY <1>1 DEF Written
  <2>3. Intact(e)'
    BY <1>1, <2>2 DEF Inv, Intact, InOrder, AtEnd, Read, Wrote
  <2> QED  BY <2>1, <2>3
<1> QED  BY <1>2, <1>3 DEF Inv

LEMMA AlwaysInv == Spec => []Inv
<1>1. Init => Inv
  BY InitInv
<1>2. ASSUME Inv, [Next]_vars PROVE Inv'
  <2>1. CASE Handshake
    BY <1>2, <2>1, HandshakeInv
  <2>2. CASE Reset
    BY <1>2, <2>2, ResetInv
  <2>3. CASE UNCHANGED vars
    BY <1>2, <2>3, StutterInv
  <2>4. ASSUME NEW e \in Ends,
               \/ Stranger(e) \/ GiveUp(e) \/ Receive(e) \/ Reject(e) \/ FailReset(e) \/ FailSend(e)
               \/ Close(e) \/ Die(e)
               \/ \E m \in Messages : Send(e, m)
        PROVE  Inv'
    BY <1>2, <2>4, EndInv, ReceiveInv, DieInv, SendInv
  <2> QED  BY <1>2, <2>1, <2>2, <2>3, <2>4 DEF Next
<1> QED  BY <1>1, <1>2, PTL DEF Spec

-----------------------------------------------------------------------------
(* Theorems *)

\* Every variable keeps its type; what is received is always a message, and an
\* end whose connection is established has a session key.
THEOREM TypeCorrect == Spec => []TypeOK
<1>1. Inv => TypeOK
  BY DEF Inv
<1> QED  BY <1>1, AlwaysInv, PTL

\* An established connection fails only by a loss, never because the nonces,
\* the keys or the limits of its two ends disagree.
THEOREM FailsOnlyByLoss == Spec => []OnlyLossFails
<1>1. Inv => OnlyLossFails
  BY DEF Inv
<1> QED  BY <1>1, AlwaysInv, PTL

-----------------------------------------------------------------------------
(* The refinement of SecureChannel: its safety *)

Closed == {e \in Ends : state[e] \in Over}

LEMMA OtherIsPeer == ASSUME NEW e \in Ends PROVE Channel!Other(e) = Peer(e)
<1>1. /\ Peer(e) \in Ends /\ Peer(e) # e
      /\ \A x \in Ends : x # e => x = Peer(e)
  BY Peers
<1> QED  BY <1>1 DEF Channel!Other

\* A step that leaves what was sent and received alone, and ends at most one end.
LEMMA EndsAtMostOne ==
  ASSUME TypeOK, NEW e \in Ends, NEW to, state' = [state EXCEPT ![e] = to],
         state[e] \in Over => to \in Over, UNCHANGED history
  PROVE  [Channel!Next]_(Channel!vars)
<1>1. UNCHANGED <<sent, received>>
  BY DEF history
<1>2. /\ state'[e] = to
      /\ \A x \in Ends : x # e => state'[x] = state[x]
  BY DEF TypeOK
<1>3. CASE e \in Closed \/ to \notin Over
  <2>1. Closed' = Closed
    BY <1>2, <1>3 DEF Closed
  <2> QED  BY <1>1, <2>1 DEF Channel!vars, Closed
<1>4. CASE e \notin Closed /\ to \in Over
  <2>1. Closed' = Closed \cup {e}
    BY <1>2, <1>4 DEF Closed
  <2>2. Channel!End(e)
    BY <1>1, <1>4, <2>1 DEF Channel!End, Closed
  <2> QED  BY <2>2 DEF Channel!Next
<1> QED  BY <1>3, <1>4 DEF Closed

LEMMA ChannelStep == ASSUME Inv, [Next]_vars PROVE [Channel!Next]_(Channel!vars)
<1>0. TypeOK
  BY DEF Inv
<1>1. CASE Handshake
  <2>1. \E e \in Ends : \E to :
          state' = [state EXCEPT ![e] = to] /\ state[e] \notin Over /\ UNCHANGED history
    BY <1>1 DEF Handshake, SendMagic, SendHello, ReadMagic, AnswerHello, AcceptorUp, DialerUp, Moves,
                Ends, Over, Shaking
  <2> QED  BY <1>0, <2>1, EndsAtMostOne
<1>2. CASE Reset \/ UNCHANGED vars
  BY <1>2 DEF Reset, vars, history, Channel!vars
<1>3. ASSUME NEW e \in Ends,
             \/ Stranger(e) \/ GiveUp(e) \/ Reject(e) \/ FailReset(e) \/ FailSend(e)
             \/ Close(e) \/ Die(e)
      PROVE  [Channel!Next]_(Channel!vars)
  <2>1. \E to \in Over : state' = [state EXCEPT ![e] = to] /\ UNCHANGED history
    BY <1>3 DEF Stranger, GiveUp, Reject, FailReset, FailSend, Close, Die, Moves, Over
  <2> QED  BY <1>0, <2>1, EndsAtMostOne
<1>4. ASSUME NEW e \in Ends, NEW m \in Messages, Send(e, m)
      PROVE  [Channel!Next]_(Channel!vars)
  <2>1. /\ state[e] = "up" /\ state' = [state EXCEPT ![e] = "up"]
        /\ sent' = [sent EXCEPT ![e] = Append(@, m)] /\ received' = received
    BY <1>4 DEF Send, Moves
  <2>2. state' = state
    BY <1>0, <2>1 DEF TypeOK
  <2>3. e \notin Closed
    BY <2>1 DEF Closed, Over
  <2>4. Channel!Submit(e, m)
    BY <2>1, <2>2, <2>3 DEF Channel!Submit, Closed
  <2> QED  BY <2>4 DEF Channel!Next
<1>5. ASSUME NEW e \in Ends, Receive(e)
      PROVE  [Channel!Next]_(Channel!vars)
  <2> DEFINE p == Peer(e)
             text == Head(stream[e]).text
  <2>1. /\ state[e] = "up" /\ state' = [state EXCEPT ![e] = "up"] /\ stream[e] # <<>>
        /\ received' = [received EXCEPT ![e] = Append(@, text)] /\ sent' = sent
        /\ Valid(e, Head(stream[e]))
    BY <1>5 DEF Receive, Moves
  <2>2. state' = state
    BY <1>0, <2>1 DEF TypeOK
  <2>3. e \notin Closed
    BY <2>1 DEF Closed, Over
  <2>4. recvNonce[e] = Len(received[e])
    BY DEF Inv, Counted
  <2>5. Len(received[e]) < Len(sent[p]) /\ text = sent[p][Len(received[e]) + 1]
    BY <2>1, <2>4, NextIsValid DEF Valid
  <2>6. Channel!Deliver(e)
    BY <2>1, <2>2, <2>3, <2>5, OtherIsPeer DEF Channel!Deliver, Closed
  <2> QED  BY <2>6 DEF Channel!Next
<1> QED  BY <1>1, <1>2, <1>3, <1>4, <1>5 DEF Next

\* Every behaviour of a connection is one of the channel, up to the channel's
\* fairness: each end receives what the other sent, once and in order.
THEOREM StepsOfTheChannel == Spec => Channel!Init /\ [][Channel!Next]_(Channel!vars)
<1>1. Init => Channel!Init
  BY DEF Init, Channel!Init, Over
<1>2. Inv /\ [Next]_vars => [Channel!Next]_(Channel!vars)
  BY ChannelStep
<1> QED  BY <1>1, <1>2, AlwaysInv, PTL DEF Spec
-----------------------------------------------------------------------------
(* Discovery: which connections the tables and the dials of the nodes have.   *)

\* Connections, the ends of which belong to two nodes.
Pair  == [by : Nodes, to : Nodes, d : {"dialing", "up", "over"}, a : {"accepted", "up", "closed", "over"}]
Wires == {w \in [Links -> Pair \cup {Free}] : \A k \in Links : w[k].by # w[k].to \/ w[k] = Free}

\* Connection k of n and p is up at n.
Stands(w, n, p, k) ==
  /\ w[k] # Free /\ {n, p} = {w[k].by, w[k].to}
  /\ IF w[k].by = n THEN w[k].d = "up" ELSE w[k].a = "up"

\* n dials by connection k, and has not read the answer.
Dials(w, n, k) == w[k].by = n /\ w[k].d = "dialing"

\* None of the addresses s is that of n.
Others(n, s) == \A i \in DOMAIN s : s[i] # n

NetShape ==
  /\ up \subseteq Nodes /\ boot \in [Nodes -> Nat \ {0}] /\ seen \in [Nodes -> SUBSET Nodes]
  /\ scheduled \in [Nodes -> SUBSET Announcement]
  /\ dial \in [Nodes -> [Keys -> [addrs : Seq(Addresses), link : Links \cup {None}]]]
  /\ link \in Wires
  /\ table \in [Nodes -> [Nodes -> Links \cup {None}]]
  /\ verified \in [Nodes -> SUBSET Nodes]
  /\ known \in [Nodes -> [Nodes -> Seq(Addresses)]]
  /\ faults \in 0 .. MaxFaults

\* No node is told its own address: what is known of a peer is its address.
Foreign ==
  /\ \A n \in Nodes : \A t \in scheduled[n] : Others(n, t.addrs)
  /\ \A n, p \in Nodes : \A i \in DOMAIN known[n][p] : known[n][p][i] \in {p, Nowhere}

\* A dial that is under way has an address left and a connection of its own.
DialOK(n, x) ==
  /\ dial[n][x] # Idle => dial[n][x].addrs # <<>>
  /\ Others(n, dial[n][x].addrs)
  /\ dial[n][x].link # None =>
       /\ Dials(link, n, dial[n][x].link)
       /\ \A y \in Keys \ {x} : dial[n][y].link # dial[n][x].link

DialsOK == \A n \in Nodes : \A x \in Keys : DialOK(n, x)

\* What a table has is up at this end.
EntriesOK == \A n, p \in Nodes : table[n][p] # None => Stands(link, n, p, table[n][p])

NetInv == NetShape /\ Foreign /\ DialsOK /\ EntriesOK

\* A connection that is not free has two ends, of different nodes.
LEMMA PairIs ==
  ASSUME NEW w \in Wires, NEW k \in Links, w[k] # Free
  PROVE  w[k] \in Pair /\ w[k].by # w[k].to /\ None \notin {w[k].by, w[k].to}
BY DiscoveryAssumption DEF Wires, Pair

\* An end that goes on to s leaves the other end, and all other connections, as
\* they are; the connection is free when both are over.
LEMMA EndedIs ==
  ASSUME NEW w \in Wires, NEW n \in Nodes, NEW k \in Links, w[k] # Free, n \in {w[k].by, w[k].to},
         NEW s \in {"up", "closed", "over"}, s = "closed" => n = w[k].to
  PROVE  /\ Ended(w, n, k, s) \in Wires
         /\ \A i \in Links \ {k} : Ended(w, n, k, s)[i] = w[i]
         /\ \A m, p \in Nodes : \A i \in Links :
              Stands(w, m, p, i) /\ ~(m = n /\ i = k) => Stands(Ended(w, n, k, s), m, p, i)
         /\ \A m \in Nodes : \A i \in Links :
              Dials(w, m, i) /\ ~(m = n /\ i = k) => Dials(Ended(w, n, k, s), m, i)
         /\ s = "up" => \A p \in Nodes \ {n} :
              p \in {w[k].by, w[k].to} => Stands(Ended(w, n, k, s), n, p, k)
<1> DEFINE l == IF w[k].by = n THEN [w[k] EXCEPT !.d = s] ELSE [w[k] EXCEPT !.a = s]
           r == IF l.d = "over" /\ l.a \in {"closed", "over"} THEN Free ELSE l
           v == Ended(w, n, k, s)
<1>1. w[k] \in Pair /\ w[k].by # w[k].to /\ None \notin {w[k].by, w[k].to}
  BY PairIs
<1>2. /\ l \in Pair /\ l.by = w[k].by /\ l.to = w[k].to
      /\ w[k].by = n => l.d = s /\ l.a = w[k].a
      /\ w[k].by # n => l.a = s /\ l.d = w[k].d
  BY <1>1 DEF Pair
<1>3. l # Free
  BY <1>1, <1>2 DEF Free
<1>4. r \in Pair \cup {Free} /\ (r # Free => r = l)
  BY <1>2, <1>3
<1>5. v = [w EXCEPT ![k] = r]
  BY DEF Ended
<1>6. w \in [Links -> Pair \cup {Free}]
  BY DEF Wires
<1> HIDE DEF l, v
<1>7. v[k] = r /\ \A i \in Links \ {k} : v[i] = w[i]
  BY <1>5, <1>6
<1>8. v \in Wires
  BY <1>1, <1>2, <1>4, <1>5, <1>6, <1>7 DEF Wires
<1>9. ASSUME NEW m \in Nodes, m # n, NEW p \in Nodes, Stands(w, m, p, k)
      PROVE  Stands(v, m, p, k)
  BY <1>1, <1>2, <1>3, <1>7, <1>9 DEF Stands
<1>10. ASSUME NEW m \in Nodes, m # n, Dials(w, m, k)
       PROVE  Dials(v, m, k)
  BY <1>1, <1>2, <1>7, <1>10 DEF Dials
<1>11. ASSUME s = "up", NEW p \in Nodes \ {n}, p \in {w[k].by, w[k].to}
       PROVE  Stands(v, n, p, k)
  BY <1>1, <1>2, <1>3, <1>7, <1>11 DEF Stands
<1>12. \A m, p \in Nodes : \A i \in Links : Stands(w, m, p, i) /\ ~(m = n /\ i = k) => Stands(v, m, p, i)
  BY <1>7, <1>9 DEF Stands
<1>13. \A m \in Nodes : \A i \in Links : Dials(w, m, i) /\ ~(m = n /\ i = k) => Dials(v, m, i)
  BY <1>7, <1>10 DEF Dials
<1> QED  BY <1>7, <1>8, <1>11, <1>12, <1>13 DEF v

\* An end that is let go is over, or closed if it has accepted.
LEMMA LetGoIs ==
  ASSUME NEW n \in Nodes, NEW k \in Links, link \in Wires, link[k] # Free, n \in {link[k].by, link[k].to}
  PROVE  LetGo(n, k) \in {"closed", "over"} /\ (LetGo(n, k) = "closed" => n = link[k].to)
BY DEF LetGo

\* The other node of a connection.
LEMMA OtherIs ==
  ASSUME NEW n \in Nodes, NEW k \in Links, link \in Wires, link[k] # Free, n \in {link[k].by, link[k].to}
  PROVE  /\ Other(n, k) \in Nodes \ {n} /\ Other(n, k) \in {link[k].by, link[k].to}
         /\ {n, Other(n, k)} = {link[k].by, link[k].to}
BY PairIs DEF Other, Pair

LEMMA DialsStay ==
  ASSUME NetShape, DialsOK, UNCHANGED dial,
         \A m \in Nodes : \A i \in Links : Dials(link, m, i) => Dials(link', m, i)
  PROVE  DialsOK'
<1> SUFFICES ASSUME NEW n \in Nodes, NEW x \in Keys PROVE DialOK(n, x)'
  BY DEF DialsOK
<1>1. DialOK(n, x) /\ dial[n][x].link \in Links \cup {None}
  BY DEF DialsOK, NetShape
<1> QED  BY <1>1 DEF DialOK

LEMMA AppendIs ==
  ASSUME NEW p \in Nodes, NEW s \in Seq(Addresses), NEW x \in {p, Nowhere},
         \A i \in DOMAIN s : s[i] \in {p, Nowhere}
  PROVE  Append1(s, x) \in Seq(Addresses) /\ \A i \in DOMAIN Append1(s, x) : Append1(s, x)[i] \in {p, Nowhere}
BY DEF Append1, Addresses

\* A connection is registered for its two nodes, or refused.
LEMMA Registers ==
  ASSUME NetInv, NEW n \in Nodes, NEW k \in Links, link[k] # Free, n \in {link[k].by, link[k].to},
         End(n, k) # "up", NEW closed \in {"closed", "over"}, closed = "closed" => n = link[k].to,
         NEW addr \in {Other(n, k), Nowhere}, Register(n, k, addr, closed)
  PROVE  /\ link' \in Wires
         /\ table' \in [Nodes -> [Nodes -> Links \cup {None}]]
         /\ known' \in [Nodes -> [Nodes -> Seq(Addresses)]]
         /\ \A m, q \in Nodes : \A i \in DOMAIN known'[m][q] : known'[m][q][i] \in {q, Nowhere}
         /\ EntriesOK'
         /\ \A m \in Nodes : \A i \in Links : Dials(link, m, i) /\ ~(m = n /\ i = k) => Dials(link', m, i)
<1> DEFINE p == Other(n, k)
<1>1. /\ link \in Wires /\ table \in [Nodes -> [Nodes -> Links \cup {None}]]
      /\ known \in [Nodes -> [Nodes -> Seq(Addresses)]]
      /\ \A m, q \in Nodes : \A i \in DOMAIN known[m][q] : known[m][q][i] \in {q, Nowhere}
      /\ \A m, q \in Nodes : table[m][q] # None => Stands(link, m, q, table[m][q])
  BY DEF NetInv, NetShape, Foreign, EntriesOK
<1>2. p \in Nodes \ {n} /\ p \in {link[k].by, link[k].to}
  BY <1>1, OtherIs
<1>3. \A q \in Nodes : ~Stands(link, n, q, k)
  BY DEF Stands, End
<1>4. \A m, q \in Nodes : table[m][q] # None => table[m][q] \in Links /\ ~(m = n /\ table[m][q] = k)
  BY <1>1, <1>3
<1> HIDE DEF p
<1>5. CASE /\ table' = [table EXCEPT ![n][p] = k]
           /\ known' = [known EXCEPT ![n][p] = Append1(@, addr)]
           /\ link' = Ended(link, n, k, "up")
  <2>1. /\ link' \in Wires /\ Stands(link', n, p, k)
        /\ \A m, q \in Nodes : \A i \in Links : Stands(link, m, q, i) /\ ~(m = n /\ i = k) => Stands(link', m, q, i)
        /\ \A m \in Nodes : \A i \in Links : Dials(link, m, i) /\ ~(m = n /\ i = k) => Dials(link', m, i)
    BY <1>1, <1>2, <1>5, EndedIs
  <2>2. table' \in [Nodes -> [Nodes -> Links \cup {None}]]
    BY <1>1, <1>2, <1>5
  <2>3. \A m, q \in Nodes : table'[m][q] = IF m = n /\ q = p THEN k ELSE table[m][q]
    BY <1>1, <1>2, <1>5
  <2>4. EntriesOK'
    <3> SUFFICES ASSUME NEW m \in Nodes, NEW q \in Nodes, table'[m][q] # None
                 PROVE  Stands(link', m, q, table'[m][q])
      BY DEF EntriesOK
    <3>1. CASE m = n /\ q = p
      BY <2>1, <2>3, <3>1
    <3>2. CASE ~(m = n /\ q = p)
      BY <1>1, <1>4, <2>1, <2>3, <3>2
    <3> QED  BY <3>1, <3>2
  <2>5. \A m, q \in Nodes : known'[m][q] = IF m = n /\ q = p THEN Append1(known[n][p], addr) ELSE known[m][q]
    BY <1>1, <1>2, <1>5
  <2>6. /\ Append1(known[n][p], addr) \in Seq(Addresses)
        /\ \A i \in DOMAIN Append1(known[n][p], addr) : Append1(known[n][p], addr)[i] \in {p, Nowhere}
    BY <1>1, <1>2, AppendIs DEF p
  <2>7. known' \in [Nodes -> [Nodes -> Seq(Addresses)]]
    BY <1>1, <1>2, <1>5, <2>6
  <2>8. \A m, q \in Nodes : \A i \in DOMAIN known'[m][q] : known'[m][q][i] \in {q, Nowhere}
    <3> SUFFICES ASSUME NEW m \in Nodes, NEW q \in Nodes
                 PROVE  \A i \in DOMAIN known'[m][q] : known'[m][q][i] \in {q, Nowhere}
      OBVIOUS
    <3>1. CASE m = n /\ q = p
      BY <2>5, <2>6, <3>1
    <3>2. CASE ~(m = n /\ q = p)
      BY <1>1, <2>5, <3>2
    <3> QED  BY <3>1, <3>2
  <2> QED  BY <2>1, <2>2, <2>4, <2>7, <2>8
<1>6. CASE link' = Ended(link, n, k, closed) /\ UNCHANGED <<table, known>>
  <2>1. /\ link' \in Wires
        /\ \A m, q \in Nodes : \A i \in Links : Stands(link, m, q, i) /\ ~(m = n /\ i = k) => Stands(link', m, q, i)
        /\ \A m \in Nodes : \A i \in Links : Dials(link, m, i) /\ ~(m = n /\ i = k) => Dials(link', m, i)
    BY <1>1, <1>6, EndedIs
  <2>2. EntriesOK'
    BY <1>1, <1>4, <1>6, <2>1 DEF EntriesOK
  <2> QED  BY <1>1, <1>6, <2>1, <2>2
<1> QED  BY <1>5, <1>6 DEF Register, p

LEMMA FaultsAre ==
  ASSUME NetShape, NEW n, NEW must \in BOOLEAN, Costs(n, must)
  PROVE  faults' \in 0 .. MaxFaults
BY DiscoveryAssumption DEF NetShape, Costs

\* A connection that is not free.
LEMMA Taken ==
  ASSUME NetInv, NEW k \in Links, link[k].a \in {"accepted", "up", "closed"} \/ link[k].d \in {"dialing", "up"}
  PROVE  /\ link \in Wires /\ link[k] # Free /\ link[k] \in Pair
         /\ link[k].by # link[k].to /\ None \notin {link[k].by, link[k].to}
<1>1. link \in Wires /\ link[k] # Free
  BY DEF NetInv, NetShape, Free
<1> QED  BY <1>1, PairIs

LEMMA NetAnswer ==
  ASSUME NetInv, NEW k \in Links, Answer(k)
  PROVE  NetInv'
<1> DEFINE n == link[k].to
<1>1. link \in Wires /\ link[k] # Free /\ n \in Nodes /\ End(n, k) # "up" /\ link[k].by # n
  BY Taken DEF Answer, End, Pair
<1>2. Register(n, k, Nowhere, "closed")
  BY DEF Answer
<1> HIDE DEF n
<1>3. /\ link' \in Wires
      /\ table' \in [Nodes -> [Nodes -> Links \cup {None}]]
      /\ known' \in [Nodes -> [Nodes -> Seq(Addresses)]]
      /\ \A m, q \in Nodes : \A i \in DOMAIN known'[m][q] : known'[m][q][i] \in {q, Nowhere}
      /\ EntriesOK'
      /\ \A m \in Nodes : \A i \in Links : Dials(link, m, i) /\ ~(m = n /\ i = k) => Dials(link', m, i)
  BY <1>1, <1>2, Registers DEF n
<1>4. ~Dials(link, n, k)
  BY <1>1 DEF Dials
<1>5. NetShape'
  BY <1>3 DEF NetInv, NetShape, Answer, engine
<1>6. DialsOK'
  BY <1>3, <1>4, DialsStay DEF NetInv, Answer
<1>7. Foreign'
  BY <1>3 DEF NetInv, Foreign, Answer
<1> QED  BY <1>3, <1>5, <1>6, <1>7 DEF NetInv

LEMMA NetAcceptFails ==
  ASSUME NetInv, NEW k \in Links, AcceptFails(k)
  PROVE  NetInv'
<1> DEFINE n == link[k].to
<1>1. /\ link \in Wires /\ link[k] # Free /\ n \in Nodes /\ link[k].by # n
      /\ ~Dials(link, n, k) /\ \A q \in Nodes : ~Stands(link, n, q, k)
  BY Taken DEF AcceptFails, Pair, Dials, Stands
<1>2. link' = Ended(link, n, k, "over") /\ faults' \in 0 .. MaxFaults
  BY FaultsAre DEF AcceptFails, NetInv
<1> HIDE DEF n
<1>3. /\ link' \in Wires
      /\ \A m, q \in Nodes : \A i \in Links : Stands(link, m, q, i) => Stands(link', m, q, i)
      /\ \A m \in Nodes : \A i \in Links : Dials(link, m, i) => Dials(link', m, i)
  BY <1>1, <1>2, EndedIs DEF n
<1>4. NetShape'
  BY <1>2, <1>3 DEF NetInv, NetShape, AcceptFails, engine, peers
<1>5. DialsOK'
  BY <1>3, DialsStay DEF NetInv, AcceptFails
<1>6. Foreign'
  BY DEF NetInv, Foreign, AcceptFails, peers
<1>7. EntriesOK'
  BY <1>3 DEF NetInv, NetShape, EntriesOK, AcceptFails, peers
<1> QED  BY <1>4, <1>5, <1>6, <1>7 DEF NetInv

LEMMA NetLoses ==
  ASSUME NetInv, NEW n \in Nodes, NEW k \in Links, Loses(n, k)
  PROVE  NetInv'
<1> DEFINE p == Other(n, k)
           j == table[n][p]
           w == Ended(link, n, k, LetGo(n, k))
<1>1. /\ link \in Wires /\ link[k] # Free /\ n \in {link[k].by, link[k].to} /\ End(n, k) = "up"
      /\ table \in [Nodes -> [Nodes -> Links \cup {None}]]
  BY Taken DEF Loses, End, NetInv, NetShape
<1>2. p \in Nodes \ {n} /\ {n, p} = {link[k].by, link[k].to}
  BY <1>1, OtherIs
<1>3. /\ w \in Wires /\ \A i \in Links \ {k} : w[i] = link[i]
      /\ \A m, q \in Nodes : \A i \in Links : Stands(link, m, q, i) /\ ~(m = n /\ i = k) => Stands(w, m, q, i)
      /\ \A m \in Nodes : \A i \in Links : Dials(link, m, i) /\ ~(m = n /\ i = k) => Dials(w, m, i)
  BY <1>1, LetGoIs, EndedIs
<1>4. ~Dials(link, n, k)
  BY <1>1 DEF Dials, End
<1>5. \A q \in Nodes : Stands(link, n, q, k) => q = p
  BY <1>2 DEF Stands
<1>6. j \in Links => Stands(link, n, p, j)
  BY <1>1, <1>2, DiscoveryAssumption DEF NetInv, EntriesOK
<1>7. ~Dials(link, n, j) \/ j \notin Links
  BY <1>6 DEF Dials, Stands
<1>8. j \in Links /\ j # k =>
        /\ w[j] # Free /\ n \in {w[j].by, w[j].to}
        /\ LetGo(n, j) \in {"closed", "over"} /\ (LetGo(n, j) = "closed" => n = w[j].to)
  <2> SUFFICES ASSUME j \in Links, j # k
               PROVE  /\ w[j] # Free /\ n \in {w[j].by, w[j].to}
                      /\ LetGo(n, j) \in {"closed", "over"} /\ (LetGo(n, j) = "closed" => n = w[j].to)
    OBVIOUS
  <2>1. w[j] = link[j] /\ link[j] # Free /\ n \in {link[j].by, link[j].to}
    BY <1>3, <1>6 DEF Stands
  <2> HIDE DEF w
  <2> QED  BY <1>1, <2>1, LetGoIs
<1>9. link' = IF j \in {k, None} THEN w ELSE Ended(w, n, j, LetGo(n, j))
  BY DEF Loses
<1>10. table' = [table EXCEPT ![n][p] = None] /\ verified' = [verified EXCEPT ![n] = @ \ {p}]
  BY DEF Loses
<1>11. j \in Links \cup {None}
  BY <1>1, <1>2
<1> HIDE DEF w, j, p
<1>12. /\ link' \in Wires
       /\ \A m, q \in Nodes : \A i \in Links :
            Stands(link, m, q, i) /\ ~(m = n /\ i \in {j, k}) => Stands(link', m, q, i)
       /\ \A m \in Nodes : \A i \in Links : Dials(link, m, i) => Dials(link', m, i)
  <2>1. CASE j \in {k, None}
    BY <1>3, <1>4, <1>9, <2>1
  <2>2. CASE j \notin {k, None}
    <3>1. j \in Links /\ j # k
      BY <1>11, <2>2
    <3>2. /\ link' \in Wires
          /\ \A m, q \in Nodes : \A i \in Links : Stands(w, m, q, i) /\ ~(m = n /\ i = j) => Stands(link', m, q, i)
          /\ \A m \in Nodes : \A i \in Links : Dials(w, m, i) /\ ~(m = n /\ i = j) => Dials(link', m, i)
      BY <1>3, <1>8, <1>9, <2>2, <3>1, EndedIs
    <3> QED  BY <1>3, <1>4, <1>7, <3>1, <3>2
  <2> QED  BY <2>1, <2>2
<1>13. \A m, q \in Nodes : table'[m][q] = IF m = n /\ q = p THEN None ELSE table[m][q]
  BY <1>1, <1>2, <1>10
<1>14. EntriesOK'
  <2> SUFFICES ASSUME NEW m \in Nodes, NEW q \in Nodes, table'[m][q] # None
               PROVE  Stands(link', m, q, table'[m][q])
    BY DEF EntriesOK
  <2>1. /\ ~(m = n /\ q = p) /\ table'[m][q] = table[m][q] /\ table[m][q] \in Links
        /\ Stands(link, m, q, table[m][q])
    BY <1>1, <1>13 DEF NetInv, EntriesOK
  <2>2. m = n => table[m][q] # k
    BY <1>5, <2>1
  <2>3. m = n => table[m][q] # j
    BY <1>2, <1>6, <2>1 DEF Stands
  <2> QED  BY <1>12, <2>1, <2>2, <2>3
<1>15. NetShape'
  <2>1. table' \in [Nodes -> [Nodes -> Links \cup {None}]]
    BY <1>1, <1>2, <1>10
  <2>2. verified' \in [Nodes -> SUBSET Nodes]
    BY <1>10 DEF NetInv, NetShape
  <2> QED  BY <1>12, <2>1, <2>2 DEF NetInv, NetShape, Loses, engine
<1>16. DialsOK'
  BY <1>12, DialsStay DEF NetInv, Loses
<1>17. Foreign'
  BY DEF NetInv, Foreign, Loses
<1> QED  BY <1>14, <1>15, <1>16, <1>17 DEF NetInv

LEMMA NetForget ==
  ASSUME NetInv, NEW n \in Nodes, NEW p \in Nodes, Forget(n, p)
  PROVE  NetInv'
BY DEF NetInv, NetShape, Foreign, DialsOK, DialOK, EntriesOK, Forget, peers

LEMMA NetStart ==
  ASSUME NetInv, NEW n \in Nodes, Start(n)
  PROVE  NetInv'
BY DEF NetInv, NetShape, Foreign, DialsOK, DialOK, EntriesOK, Start, engine, peers

\* What is discovered is an announcement of others.
LEMMA DiscoveredIs ==
  ASSUME NetShape, Foreign, UNCHANGED known, NEW n \in Nodes, NEW name \in Keys, NEW addrs \in Seq(Addresses),
         name # n => Others(n, addrs), Discovered(n, name, addrs)
  PROVE  scheduled' \in [Nodes -> SUBSET Announcement] /\ Foreign'
<1> DEFINE t == [key |-> name, addrs |-> addrs]
<1>1. t \in Announcement /\ t.addrs = addrs
  BY DEF Announcement
<1>2. /\ scheduled \in [Nodes -> SUBSET Announcement]
      /\ scheduled' = [scheduled EXCEPT ![n] =
           IF name \in Connected(n) \cup verified[n] \cup {n} THEN scheduled[n] ELSE scheduled[n] \cup {t}]
  BY DEF NetShape, Discovered
<1> HIDE DEF t
<1>3. scheduled' \in [Nodes -> SUBSET Announcement]
  BY <1>1, <1>2
<1>4. \A m \in Nodes : \A u \in scheduled'[m] : u \in scheduled[m] \/ (m = n /\ name # n /\ u = t)
  BY <1>2
<1>5. Foreign'
  BY <1>1, <1>4 DEF Foreign
<1> QED  BY <1>3, <1>5

LEMMA NetBootstrap ==
  ASSUME NetInv, NEW n \in Nodes, Bootstrap(n)
  PROVE  NetInv'
<1> DEFINE e == BootstrapOf[n][boot[n]]
<1>1. /\ BootstrapOf[n] \in Seq([key : Keys, addrs : Seq(Nodes)])
      /\ \A i \in DOMAIN BootstrapOf[n] : Others(n, BootstrapOf[n][i].addrs)
  BY DiscoveryAssumption DEF Others
<1>2. boot \in [Nodes -> Nat \ {0}] /\ boot[n] \in 1 .. Len(BootstrapOf[n])
  <2>1. boot \in [Nodes -> Nat \ {0}] /\ boot[n] <= Len(BootstrapOf[n])
    BY DEF Bootstrap, NetInv, NetShape
  <2> QED  BY <1>1, <2>1
<1>3. e \in [key : Keys, addrs : Seq(Nodes)] /\ Others(n, e.addrs)
  <2>1. e \in [key : Keys, addrs : Seq(Nodes)]
    BY <1>1, <1>2, ElementOfSeq
  <2>2. boot[n] \in DOMAIN BootstrapOf[n]
    BY <1>1, <1>2
  <2> QED  BY <1>1, <2>1, <2>2
<1>4. e.key \in Keys /\ e.addrs \in Seq(Addresses)
  BY <1>3 DEF Addresses
<1>5. Discovered(n, e.key, e.addrs)
  BY DEF Bootstrap
<1> HIDE DEF e
<1>6. scheduled' \in [Nodes -> SUBSET Announcement] /\ Foreign'
  BY <1>3, <1>4, <1>5, DiscoveredIs DEF NetInv, Bootstrap, peers
<1>7. boot' \in [Nodes -> Nat \ {0}]
  <2>1. boot' = [boot EXCEPT ![n] = boot[n] + 1] /\ boot[n] + 1 \in Nat \ {0}
    BY <1>2 DEF Bootstrap
  <2> QED  BY <1>2, <2>1
<1> QED  BY <1>6, <1>7 DEF NetInv, NetShape, DialsOK, DialOK, EntriesOK, Bootstrap, peers

LEMMA NetHear ==
  ASSUME NetInv, NEW n \in Nodes, NEW p \in Nodes, Hear(n, p)
  PROVE  NetInv'
<1>1. p \in Keys /\ <<p>> \in Seq(Addresses) /\ (p # n => Others(n, <<p>>))
  BY DEF Keys, Addresses, Others
<1>2. Discovered(n, p, <<p>>)
  BY DEF Hear, Probe
<1>3. scheduled' \in [Nodes -> SUBSET Announcement] /\ Foreign'
  BY <1>1, <1>2, DiscoveredIs DEF NetInv, Hear, peers
<1>4. seen' \in [Nodes -> SUBSET Nodes]
  BY DEF Hear, NetInv, NetShape
<1> QED  BY <1>3, <1>4 DEF NetInv, NetShape, DialsOK, DialOK, EntriesOK, Hear, peers

LEMMA NetConnectPeer ==
  ASSUME NetInv, NEW n \in Nodes, NEW p \in Nodes, ConnectPeer(n, p)
  PROVE  NetInv'
<1>1. <<n, p>> \in Wishes
  BY DEF ConnectPeer
<1>2. n # p
  BY <1>1, DiscoveryAssumption
<1>3. Unnamed \in Keys /\ <<p>> \in Seq(Addresses) /\ Others(n, <<p>>)
  BY <1>2 DEF Keys, Addresses, Others
<1>4. Discovered(n, Unnamed, <<p>>)
  BY DEF ConnectPeer, Given
<1>5. scheduled' \in [Nodes -> SUBSET Announcement] /\ Foreign'
  BY <1>3, <1>4, DiscoveredIs DEF NetInv, ConnectPeer, peers
<1>6. faults' \in 0 .. MaxFaults
  BY DiscoveryAssumption DEF ConnectPeer, NetInv, NetShape
<1> QED  BY <1>5, <1>6 DEF NetInv, NetShape, DialsOK, DialOK, EntriesOK, ConnectPeer, engine, peers

LEMMA NetIntroduce ==
  ASSUME NetInv, NEW n \in Nodes, NEW k \in Links, Introduce(n, k)
  PROVE  NetInv'
<1> DEFINE p == Other(n, k)
           told == {[key |-> q, addrs |-> known[n][q]] :
                      q \in {q \in verified[n] \ ({p} \cup Connected(p)) : known[n][q] # <<>>}}
<1>1. link \in Wires /\ link[k] # Free /\ n \in {link[k].by, link[k].to}
  BY Taken DEF Introduce, End
<1>2. p \in Nodes
  BY <1>1, OtherIs
<1>3. /\ verified \in [Nodes -> SUBSET Nodes] /\ known \in [Nodes -> [Nodes -> Seq(Addresses)]]
      /\ scheduled \in [Nodes -> SUBSET Announcement]
      /\ \A q \in Nodes : \A i \in DOMAIN known[n][q] : known[n][q][i] \in {q, Nowhere}
  BY DEF NetInv, NetShape, Foreign
<1>4. verified' = [verified EXCEPT ![n] = @ \cup {p}]
  BY DEF Introduce
<1>5. scheduled' = [scheduled EXCEPT ![p] = IF Full(p) THEN @ ELSE @ \cup told]
  BY DEF Introduce
<1>6. told \subseteq Announcement
  BY <1>3 DEF Keys, Announcement
<1>7. \A t \in told : Others(p, t.addrs)
  BY <1>2, <1>3, DiscoveryAssumption DEF Others
<1> HIDE DEF p, told
<1>8. verified' \in [Nodes -> SUBSET Nodes]
  BY <1>2, <1>3, <1>4
<1>9. scheduled' \in [Nodes -> SUBSET Announcement]
  BY <1>2, <1>3, <1>5, <1>6
<1>10. \A m \in Nodes : \A t \in scheduled'[m] : t \in scheduled[m] \/ (m = p /\ t \in told)
  BY <1>2, <1>3, <1>5
<1>11. Foreign'
  BY <1>7, <1>10 DEF NetInv, Foreign, Introduce
<1> QED  BY <1>8, <1>9, <1>11 DEF NetInv, NetShape, DialsOK, DialOK, EntriesOK, Introduce, engine

\* The table and the dials of n, with the connections w, are in order, those
\* of the dial under x left aside.
Aside(w, n, x) ==
  /\ \A m, q \in Nodes : table[m][q] # None => Stands(w, m, q, table[m][q])
  /\ \A m \in Nodes : \A y \in Keys : ~(m = n /\ y = x) =>
       /\ dial[m][y] # Idle => dial[m][y].addrs # <<>>
       /\ Others(m, dial[m][y].addrs)
       /\ dial[m][y].link # None =>
            /\ Dials(w, m, dial[m][y].link)
            /\ \A z \in Keys \ {y} : ~(m = n /\ z = x) => dial[m][z].link # dial[m][y].link

\* A dial goes on to its first address by a connection that is free.
LEMMA Attempts ==
  ASSUME NetInv, NEW n \in Nodes, NEW x \in Keys, NEW s \in Seq(Addresses), Others(n, s),
         NEW w \in Wires, Aside(w, n, x), Attempt(n, x, s, w), UNCHANGED table
  PROVE  /\ link' \in Wires
         /\ dial' \in [Nodes -> [Keys -> [addrs : Seq(Addresses), link : Links \cup {None}]]]
         /\ DialsOK' /\ EntriesOK'
<1> DEFINE D == [addrs : Seq(Addresses), link : Links \cup {None}]
<1>1. dial \in [Nodes -> [Keys -> D]] /\ up \subseteq Nodes
      /\ table \in [Nodes -> [Nodes -> Links \cup {None}]]
  BY DEF NetInv, NetShape
<1>2. ASSUME NEW d \in D, dial' = [dial EXCEPT ![n][x] = d], link' \in Wires,
             d # Idle => d.addrs # <<>>, Others(n, d.addrs),
             d.link # None => /\ Dials(link', n, d.link)
                              /\ \A y \in Keys \ {x} : dial[n][y].link # d.link,
             \A m, q \in Nodes : \A i \in Links : Stands(w, m, q, i) => Stands(link', m, q, i),
             \A m \in Nodes : \A i \in Links : Dials(w, m, i) => Dials(link', m, i)
      PROVE  /\ link' \in Wires /\ dial' \in [Nodes -> [Keys -> D]]
             /\ DialsOK' /\ EntriesOK'
  <2>1. \A m \in Nodes : \A y \in Keys : dial'[m][y] = IF m = n /\ y = x THEN d ELSE dial[m][y]
    BY <1>1, <1>2
  <2>2. dial' \in [Nodes -> [Keys -> D]]
    BY <1>1, <1>2
  <2>3. ASSUME NEW m \in Nodes, NEW y \in Keys
        PROVE  DialOK(m, y)'
    <3>1. CASE m = n /\ y = x
      BY <1>2, <2>1, <3>1 DEF DialOK
    <3>2. CASE ~(m = n /\ y = x)
      <4>1. dial'[m][y] = dial[m][y] /\ dial[m][y].link \in Links \cup {None}
        BY <1>1, <2>1, <3>2
      <4>2. /\ dial[m][y] # Idle => dial[m][y].addrs # <<>>
            /\ Others(m, dial[m][y].addrs)
            /\ dial[m][y].link # None =>
                 /\ Dials(link', m, dial[m][y].link)
                 /\ \A z \in Keys \ {y} : ~(m = n /\ z = x) => dial[m][z].link # dial[m][y].link
        BY <1>2, <3>2, <4>1 DEF Aside
      <4>3. dial[m][y].link # None => \A z \in Keys \ {y} : dial'[m][z].link # dial[m][y].link
        <5> SUFFICES ASSUME dial[m][y].link # None, NEW z \in Keys \ {y}
                     PROVE  dial'[m][z].link # dial[m][y].link
          OBVIOUS
        <5>1. CASE m = n /\ z = x
          <6>1. dial'[m][z] = d /\ y \in Keys \ {x} /\ dial[n][y].link # None
            BY <2>1, <5>1
          <6> QED  BY <1>2, <5>1, <6>1
        <5>2. CASE ~(m = n /\ z = x)
          BY <2>1, <4>2, <5>2
        <5> QED  BY <5>1, <5>2
      <4> QED  BY <4>1, <4>2, <4>3 DEF DialOK
    <3> QED  BY <3>1, <3>2
  <2>4. EntriesOK'
    BY <1>1, <1>2 DEF EntriesOK, Aside
  <2> QED  BY <1>2, <2>2, <2>3, <2>4 DEF DialsOK
<1>3. CASE s = <<>> \/ Full(n)
  <2>1. dial' = [dial EXCEPT ![n][x] = Idle] /\ link' = w
    BY <1>3 DEF Attempt
  <2>2. Idle \in D /\ Others(n, Idle.addrs) /\ Idle.link = None
    BY DEF Idle, Others
  <2> QED  BY <1>2, <2>1, <2>2
<1>4. CASE ~(s = <<>> \/ Full(n)) /\ s[1] \notin up
  <2> DEFINE d == [addrs |-> s, link |-> None]
  <2>1. dial' = [dial EXCEPT ![n][x] = d] /\ link' = w
    BY <1>4 DEF Attempt
  <2>2. d \in D /\ Others(n, d.addrs) /\ d.link = None /\ d.addrs # <<>>
    BY <1>4
  <2> HIDE DEF d
  <2> QED  BY <1>2, <2>1, <2>2
<1>5. CASE ~(s = <<>> \/ Full(n)) /\ s[1] \in up
  <2> DEFINE free == {k \in Links : w[k] = Free}
             k == CHOOSE k \in free : TRUE
             d == [addrs |-> s, link |-> k]
             l == [by |-> n, to |-> s[1], d |-> "dialing", a |-> Inbound(s[1])]
  <2>1. free # {} /\ dial' = [dial EXCEPT ![n][x] = d] /\ link' = [w EXCEPT ![k] = l]
    BY <1>5 DEF Attempt
  <2>2. k \in Links /\ w[k] = Free /\ k # None
    BY <2>1, DiscoveryAssumption
  <2>3. s[1] \in Nodes \ {n}
    BY <1>1, <1>5 DEF Others
  <2>4. l \in Pair /\ l.by = n /\ l.to # n /\ l.d = "dialing"
    BY <2>3 DEF Pair, Inbound
  <2>5. d \in D /\ Others(n, d.addrs) /\ d.link = k /\ d.addrs # <<>>
    BY <1>5, <2>2
  <2>6. w \in [Links -> Pair \cup {Free}]
    BY DEF Wires
  <2> HIDE DEF k, d, l
  <2>7. link'[k] = l /\ \A i \in Links \ {k} : link'[i] = w[i]
    BY <2>1, <2>2, <2>6
  <2>8. link' \in Wires
    <3>1. link' \in [Links -> Pair \cup {Free}]
      BY <2>1, <2>2, <2>4, <2>6
    <3> QED  BY <2>4, <2>7, <3>1 DEF Wires
  <2>9. \A m \in Nodes : \A q : ~Stands(w, m, q, k) /\ ~Dials(w, m, k)
    BY <2>2, DiscoveryAssumption DEF Stands, Dials, Free
  <2>10. \A m, q \in Nodes : \A i \in Links : Stands(w, m, q, i) => Stands(link', m, q, i)
    BY <2>7, <2>9 DEF Stands
  <2>11. \A m \in Nodes : \A i \in Links : Dials(w, m, i) => Dials(link', m, i)
    BY <2>7, <2>9 DEF Dials
  <2>12. Dials(link', n, k)
    BY <2>4, <2>7 DEF Dials
  <2>13. \A y \in Keys \ {x} : dial[n][y].link # k
    BY <2>2, <2>9 DEF Aside
  <2> QED  BY <1>2, <2>1, <2>5, <2>8, <2>10, <2>11, <2>12, <2>13
<1> QED  BY <1>3, <1>4, <1>5

LEMMA NowAside ==
  ASSUME NetInv, NEW n \in Nodes, NEW x \in Keys
  PROVE  Aside(link, n, x)
BY DEF NetInv, DialsOK, DialOK, EntriesOK, Aside

LEMMA NetDial ==
  ASSUME NetInv, NEW n \in Nodes, NEW t \in scheduled[n], Dial(n, t)
  PROVE  NetInv'
<1>1. t \in Announcement /\ Others(n, t.addrs)
  BY DEF NetInv, NetShape, Foreign
<1>2. t.key \in Keys /\ t.addrs \in Seq(Addresses)
  BY <1>1 DEF Announcement
<1>3. scheduled' = [scheduled EXCEPT ![n] = @ \ {t}] /\ UNCHANGED <<up, boot, seen, table, verified, known, faults>>
  BY DEF Dial, engine, peers
<1>4. /\ link' \in Wires
      /\ dial' \in [Nodes -> [Keys -> [addrs : Seq(Addresses), link : Links \cup {None}]]]
      /\ DialsOK' /\ EntriesOK'
  <2>1. CASE dial[n][t.key] # Idle
    <3>1. UNCHANGED <<dial, link>>
      BY <2>1 DEF Dial
    <3> QED  BY <1>3, <3>1 DEF NetInv, NetShape, DialsOK, DialOK, EntriesOK
  <2>2. CASE dial[n][t.key] = Idle
    <3>1. Attempt(n, t.key, t.addrs, link) /\ link \in Wires
      BY <2>2 DEF Dial, NetInv, NetShape
    <3> QED  BY <1>1, <1>2, <1>3, <3>1, NowAside, Attempts
  <2> QED  BY <2>1, <2>2
<1>5. scheduled' \in [Nodes -> SUBSET Announcement] /\ Foreign'
  BY <1>3 DEF NetInv, NetShape, Foreign
<1> QED  BY <1>3, <1>4, <1>5 DEF NetInv, NetShape

LEMMA NetDialFails ==
  ASSUME NetInv, NEW n \in Nodes, NEW x \in Keys, DialFails(n, x)
  PROVE  NetInv'
<1> DEFINE k == dial[n][x].link
           s == dial[n][x].addrs
           w == IF k = None THEN link ELSE Ended(link, n, k, "over")
<1>1. /\ dial[n][x] # Idle /\ Attempt(n, x, Tail(s), w)
      /\ UNCHANGED <<up, boot, seen, scheduled, table, verified, known>>
      /\ Costs(n, k = None \/ (k # None /\ link[k].a = "over"))
  BY DEF DialFails, engine, peers
<1>2. /\ k \in Links \cup {None} /\ s \in Seq(Addresses) /\ s # <<>> /\ Others(n, s)
      /\ k # None => Dials(link, n, k) /\ \A y \in Keys \ {x} : dial[n][y].link # k
      /\ link \in Wires
  BY <1>1 DEF NetInv, NetShape, DialsOK, DialOK
<1>3. Tail(s) \in Seq(Addresses) /\ Others(n, Tail(s))
  BY <1>2 DEF Others
<1>4. w \in Wires /\ Aside(w, n, x)
  <2>1. CASE k = None
    BY <1>2, <2>1, NowAside
  <2>2. CASE k # None
    <3>1. k \in Links /\ Dials(link, n, k)
      BY <1>2, <2>2
    <3>2. link[k] # Free /\ n = link[k].by /\ link[k].d = "dialing"
      BY <3>1, DiscoveryAssumption DEF Dials, Free
    <3>3. w = Ended(link, n, k, "over")
      BY <2>2
    <3> HIDE DEF k, w
    <3>4. /\ w \in Wires
          /\ \A m, q \in Nodes : \A i \in Links : Stands(link, m, q, i) /\ ~(m = n /\ i = k) => Stands(w, m, q, i)
          /\ \A m \in Nodes : \A i \in Links : Dials(link, m, i) /\ ~(m = n /\ i = k) => Dials(w, m, i)
      BY <1>2, <3>1, <3>2, <3>3, EndedIs
    <3>5. \A q \in Nodes : ~Stands(link, n, q, k)
      BY <3>2 DEF Stands
    <3>6. \A m \in Nodes : \A y \in Keys : ~(m = n /\ y = x) => ~(m = n /\ dial[m][y].link = k)
      BY <1>2, <2>2
    <3>7. /\ table \in [Nodes -> [Nodes -> Links \cup {None}]]
          /\ \A m \in Nodes : \A y \in Keys : dial[m][y].link \in Links \cup {None}
      BY DEF NetInv, NetShape
    <3>8. Aside(link, n, x)
      BY NowAside
    <3> QED  BY <3>4, <3>5, <3>6, <3>7, <3>8 DEF Aside
  <2> QED  BY <2>1, <2>2
<1>5. faults' \in 0 .. MaxFaults
  BY <1>1, FaultsAre DEF NetInv
<1> HIDE DEF k, s, w
<1>6. /\ link' \in Wires
      /\ dial' \in [Nodes -> [Keys -> [addrs : Seq(Addresses), link : Links \cup {None}]]]
      /\ DialsOK' /\ EntriesOK'
  BY <1>1, <1>3, <1>4, Attempts
<1> QED  BY <1>1, <1>5, <1>6 DEF NetInv, NetShape, Foreign

LEMMA NetDialDone ==
  ASSUME NetInv, NEW n \in Nodes, NEW x \in Keys, DialDone(n, x)
  PROVE  NetInv'
<1> DEFINE k == dial[n][x].link
<1>1. /\ k # None /\ Register(n, k, link[k].to, "over")
      /\ dial' = [dial EXCEPT ![n][x] = Idle] /\ UNCHANGED <<up, boot, seen, scheduled, verified, faults>>
  BY DEF DialDone, engine
<1>2. /\ k \in Links /\ Dials(link, n, k) /\ \A y \in Keys \ {x} : dial[n][y].link # k
      /\ link \in Wires
  BY <1>1 DEF NetInv, NetShape, DialsOK, DialOK
<1> HIDE DEF k
<1>3. link[k] # Free /\ n = link[k].by /\ End(n, k) # "up" /\ link[k].to = Other(n, k)
  BY <1>2, DiscoveryAssumption DEF Dials, Free, End, Other
<1>4. /\ link' \in Wires
      /\ table' \in [Nodes -> [Nodes -> Links \cup {None}]]
      /\ known' \in [Nodes -> [Nodes -> Seq(Addresses)]]
      /\ \A m, q \in Nodes : \A i \in DOMAIN known'[m][q] : known'[m][q][i] \in {q, Nowhere}
      /\ EntriesOK'
      /\ \A m \in Nodes : \A i \in Links : Dials(link, m, i) /\ ~(m = n /\ i = k) => Dials(link', m, i)
  BY <1>1, <1>2, <1>3, Registers
<1>5. dial \in [Nodes -> [Keys -> [addrs : Seq(Addresses), link : Links \cup {None}]]]
  BY DEF NetInv, NetShape
<1>6. /\ dial' \in [Nodes -> [Keys -> [addrs : Seq(Addresses), link : Links \cup {None}]]]
      /\ \A m \in Nodes : \A y \in Keys : dial'[m][y] = IF m = n /\ y = x THEN Idle ELSE dial[m][y]
  BY <1>1, <1>5 DEF Idle
<1>7. ASSUME NEW m \in Nodes, NEW y \in Keys
      PROVE  DialOK(m, y)'
  <2>1. CASE m = n /\ y = x
    BY <1>6, <2>1 DEF DialOK, Idle, Others
  <2>2. CASE ~(m = n /\ y = x)
    <3>1. dial'[m][y] = dial[m][y] /\ dial[m][y].link \in Links \cup {None} /\ DialOK(m, y)
      BY <1>5, <1>6, <2>2 DEF NetInv, DialsOK
    <3>2. ~(m = n /\ dial[m][y].link = k)
      <4>1. m = n => y \in Keys \ {x}
        BY <2>2
      <4> QED  BY <1>2, <4>1
    <3>3. dial[m][y].link # None => Dials(link', m, dial[m][y].link)
      <4>1. dial[m][y].link # None => dial[m][y].link \in Links /\ Dials(link, m, dial[m][y].link)
        BY <3>1 DEF DialOK
      <4> QED  BY <1>4, <3>2, <4>1
    <3>4. dial[m][y].link # None => \A z \in Keys \ {y} : dial'[m][z].link # dial[m][y].link
      <4>1. \A z \in Keys : dial'[m][z] = Idle \/ dial'[m][z] = dial[m][z]
        BY <1>6
      <4> QED  BY <3>1, <4>1 DEF DialOK, Idle
    <3> QED  BY <3>1, <3>3, <3>4 DEF DialOK
  <2> QED  BY <2>1, <2>2
<1>8. DialsOK'
  BY <1>7 DEF DialsOK
<1> QED  BY <1>1, <1>4, <1>6, <1>8 DEF NetInv, NetShape, Foreign

LEMMA NetCrash ==
  ASSUME NetInv, NEW n \in Nodes, Crash(n)
  PROVE  NetInv'
<1> DEFINE after(k) == IF n \notin {link[k].by, link[k].to} THEN link[k] ELSE Ended(link, n, k, LetGo(n, k))[k]
<1>1. link \in Wires /\ link' = [k \in Links |-> after(k)]
  BY DEF Crash, NetInv, NetShape
<1> HIDE DEF after
<1>2. ASSUME NEW k \in Links
      PROVE  /\ link'[k] = after(k) /\ after(k) \in Pair \cup {Free}
             /\ after(k).by # after(k).to \/ after(k) = Free
             /\ \A m, q \in Nodes : m # n /\ Stands(link, m, q, k) => Stands(link', m, q, k)
             /\ \A m \in Nodes : m # n /\ Dials(link, m, k) => Dials(link', m, k)
  <2>1. link'[k] = after(k)
    BY <1>1
  <2>2. CASE n \notin {link[k].by, link[k].to}
    <3>1. after(k) = link[k]
      BY <2>2 DEF after
    <3> QED  BY <1>1, <2>1, <3>1 DEF Wires, Stands, Dials
  <2>3. CASE n \in {link[k].by, link[k].to}
    <3> DEFINE v == Ended(link, n, k, LetGo(n, k))
    <3>1. link[k] # Free
      BY <2>3, DiscoveryAssumption DEF Free
    <3>2. after(k) = v[k]
      BY <2>3 DEF after
    <3>3. /\ v \in Wires
          /\ \A m, q \in Nodes : \A i \in Links : Stands(link, m, q, i) /\ ~(m = n /\ i = k) => Stands(v, m, q, i)
          /\ \A m \in Nodes : \A i \in Links : Dials(link, m, i) /\ ~(m = n /\ i = k) => Dials(v, m, i)
      BY <1>1, <2>3, <3>1, LetGoIs, EndedIs
    <3> HIDE DEF v
    <3>4. \A m, q \in Nodes : Stands(v, m, q, k) => Stands(link', m, q, k)
      BY <2>1, <3>2 DEF Stands
    <3>5. \A m \in Nodes : Dials(v, m, k) => Dials(link', m, k)
      BY <2>1, <3>2 DEF Dials
    <3>6. after(k) \in Pair \cup {Free} /\ (after(k).by # after(k).to \/ after(k) = Free)
      BY <3>2, <3>3 DEF Wires
    <3> QED  BY <2>1, <3>3, <3>4, <3>5, <3>6
  <2> QED  BY <2>2, <2>3
<1>3. link' \in Wires
  <2>1. link' \in [Links -> Pair \cup {Free}]
    BY <1>1, <1>2
  <2> QED  BY <1>2, <2>1 DEF Wires
<1>4. /\ up' = up \ {n} /\ faults' = faults + 1 /\ faults < MaxFaults
      /\ boot' = [boot EXCEPT ![n] = 1] /\ seen' = [seen EXCEPT ![n] = {}]
      /\ scheduled' = [scheduled EXCEPT ![n] = {}] /\ dial' = [dial EXCEPT ![n] = NoDials]
      /\ table' = [table EXCEPT ![n] = Nobody] /\ verified' = [verified EXCEPT ![n] = {}]
      /\ known' = [known EXCEPT ![n] = NoAddress]
  BY DEF Crash
<1>5. /\ Nobody \in [Nodes -> Links \cup {None}] /\ NoAddress \in [Nodes -> Seq(Addresses)]
      /\ NoDials \in [Keys -> [addrs : Seq(Addresses), link : Links \cup {None}]]
  BY DEF Nobody, NoAddress, NoDials, Idle
<1>6. NetShape'
  <2>1. up' \subseteq Nodes /\ boot' \in [Nodes -> Nat \ {0}] /\ seen' \in [Nodes -> SUBSET Nodes]
    BY <1>4 DEF NetInv, NetShape
  <2>2. scheduled' \in [Nodes -> SUBSET Announcement] /\ verified' \in [Nodes -> SUBSET Nodes]
    BY <1>4 DEF NetInv, NetShape
  <2>3. dial' \in [Nodes -> [Keys -> [addrs : Seq(Addresses), link : Links \cup {None}]]]
    BY <1>4, <1>5 DEF NetInv, NetShape
  <2>4. table' \in [Nodes -> [Nodes -> Links \cup {None}]] /\ known' \in [Nodes -> [Nodes -> Seq(Addresses)]]
    BY <1>4, <1>5 DEF NetInv, NetShape
  <2>5. faults' \in 0 .. MaxFaults
    BY <1>4, DiscoveryAssumption DEF NetInv, NetShape
  <2> QED  BY <1>3, <2>1, <2>2, <2>3, <2>4, <2>5 DEF NetShape
<1>7. Foreign'
  <2>1. \A m \in Nodes : scheduled'[m] = IF m = n THEN {} ELSE scheduled[m]
    BY <1>4 DEF NetInv, NetShape
  <2>2. \A m, q \in Nodes : known'[m][q] = IF m = n THEN <<>> ELSE known[m][q]
    BY <1>4 DEF NetInv, NetShape, NoAddress
  <2> QED  BY <2>1, <2>2 DEF NetInv, Foreign
<1>8. DialsOK'
  <2>1. \A m \in Nodes : \A y \in Keys : dial'[m][y] = IF m = n THEN Idle ELSE dial[m][y]
    BY <1>4 DEF NetInv, NetShape, NoDials
  <2>2. \A m \in Nodes : \A y \in Keys : DialOK(m, y) /\ dial[m][y].link \in Links \cup {None}
    BY DEF NetInv, NetShape, DialsOK
  <2> SUFFICES ASSUME NEW m \in Nodes, NEW x \in Keys
               PROVE  DialOK(m, x)'
    BY DEF DialsOK
  <2>3. CASE m = n
    BY <2>1, <2>3 DEF DialOK, Idle, Others
  <2>4. CASE m # n
    BY <1>2, <2>1, <2>2, <2>4 DEF DialOK
  <2> QED  BY <2>3, <2>4
<1>9. EntriesOK'
  <2>1. \A m, q \in Nodes : table'[m][q] = IF m = n THEN None ELSE table[m][q]
    BY <1>4 DEF NetInv, NetShape, Nobody
  <2>2. \A m, q \in Nodes : table[m][q] \in Links \cup {None}
    BY DEF NetInv, NetShape
  <2> QED  BY <1>2, <2>1, <2>2 DEF NetInv, EntriesOK
<1> QED  BY <1>6, <1>7, <1>8, <1>9 DEF NetInv

LEMMA NetStarts == NetworkInit => NetInv
<1> SUFFICES ASSUME NetworkInit PROVE NetInv
  OBVIOUS
<1>1. NetShape
  <2>1. link \in Wires
    BY DEF NetworkInit, Wires
  <2>2. /\ Nobody \in [Nodes -> Links \cup {None}] /\ NoAddress \in [Nodes -> Seq(Addresses)]
        /\ NoDials \in [Keys -> [addrs : Seq(Addresses), link : Links \cup {None}]]
    BY DEF Nobody, NoAddress, NoDials, Idle
  <2> QED  BY <2>1, <2>2, DiscoveryAssumption DEF NetworkInit, NetShape
<1>2. Foreign
  BY DEF NetworkInit, Foreign, NoAddress
<1>3. DialsOK
  BY DEF NetworkInit, DialsOK, DialOK, NoDials, Idle, Others
<1>4. EntriesOK
  BY DEF NetworkInit, EntriesOK, Nobody
<1> QED  BY <1>1, <1>2, <1>3, <1>4 DEF NetInv

LEMMA NetStep == NetInv /\ [NetworkNext]_networkVars => NetInv'
<1> SUFFICES ASSUME NetInv, [NetworkNext]_networkVars PROVE NetInv'
  OBVIOUS
<1>1. CASE UNCHANGED networkVars
  BY <1>1 DEF networkVars, NetInv, NetShape, Foreign, DialsOK, DialOK, EntriesOK
<1>2. ASSUME NEW n \in Nodes, Bootstrap(n) \/ Crash(n) \/ Start(n)
      PROVE  NetInv'
  BY <1>2, NetBootstrap, NetCrash, NetStart
<1>3. ASSUME NEW n \in Nodes, NEW p \in Nodes, Hear(n, p) \/ Forget(n, p) \/ ConnectPeer(n, p)
      PROVE  NetInv'
  BY <1>3, NetHear, NetForget, NetConnectPeer
<1>4. ASSUME NEW n \in Nodes, NEW t \in scheduled[n], Dial(n, t)
      PROVE  NetInv'
  BY <1>4, NetDial
<1>5. ASSUME NEW n \in Nodes, NEW x \in Keys, DialFails(n, x) \/ DialDone(n, x)
      PROVE  NetInv'
  BY <1>5, NetDialFails, NetDialDone
<1>6. ASSUME NEW n \in Nodes, NEW k \in Links, Loses(n, k) \/ Introduce(n, k)
      PROVE  NetInv'
  BY <1>6, NetLoses, NetIntroduce
<1>7. ASSUME NEW k \in Links, AcceptFails(k) \/ Answer(k)
      PROVE  NetInv'
  BY <1>7, NetAcceptFails, NetAnswer
<1> QED  BY <1>1, <1>2, <1>3, <1>4, <1>5, <1>6, <1>7 DEF NetworkNext

\* The state of the network has its type.
THEOREM NetworkTyped == NetworkSpec => []NetworkTypeOK
<1>1. NetInv => NetworkTypeOK
  BY DEF NetInv, NetShape, NetworkTypeOK, Wires, Pair
<1>2. NetworkSpec => []NetInv
  BY NetStarts, NetStep, PTL DEF NetworkSpec
<1> QED  BY <1>1, <1>2, PTL

\* For any nodes, connections, bootstrap addresses and faults: what a table has
\* under a peer is a connection of the two that its own node has not closed, and
\* no dial loses the connection it is about or shares it with another.
THEOREM TablesStand == NetworkSpec => []EntriesStand
<1>1. NetInv => EntriesStand
  <2> SUFFICES ASSUME NetInv PROVE EntriesStand
    OBVIOUS
  <2>1. \A n, p \in Nodes : table[n][p] # None =>
          /\ {n, p} = {link[table[n][p]].by, link[table[n][p]].to}
          /\ End(n, table[n][p]) = "up"
    BY DEF NetInv, EntriesOK, Stands, End
  <2>2. \A n \in Nodes : \A x \in Keys : DialOK(n, x)
    BY DEF NetInv, DialsOK
  <2> QED  BY <2>1, <2>2 DEF EntriesStand, DialOK, Dials
<1>2. NetworkSpec => []NetInv
  BY NetStarts, NetStep, PTL DEF NetworkSpec
<1> QED  BY <1>1, <1>2, PTL
=============================================================================
