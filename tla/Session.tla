------------------------------- MODULE Session -------------------------------
(* One TCP connection between two nodes, from the handshake to its end:      *)
(* node/mesh/transport.py, with the two callers of dial() and accept() in    *)
(* host.py. What is written goes into the stream of the other end, which     *)
(* keeps the order and may be cut off, but never loses a piece of itself.    *)
EXTENDS Integers, Sequences

CONSTANTS Messages,    \* plaintexts
          SizeOf,      \* their lengths
          MaxMessage,  \* MAX_MESSAGE_SIZE
          Overhead,    \* NONCE_SIZE + GCM_TAG_SIZE
          MaxSends     \* bound on the messages an end sends

ASSUME SizesAssumption ==
  /\ SizeOf \in [Messages -> Nat]
  /\ MaxMessage \in Nat /\ Overhead \in Nat /\ MaxSends \in Nat

VARIABLES state, stream, key, sendNonce, recvNonce, reset, sent, received
vars == <<state, stream, key, sendNonce, recvNonce, reset, sent, received>>
counters == <<sendNonce, recvNonce>>
history  == <<sent, received>>

Ends == {"dialer", "acceptor"}
Peer(e) == IF e = "dialer" THEN "acceptor" ELSE "dialer"

(* How far an end is. "magic" and "waiting" are awaits of the initiator,     *)
(* "hello" and "answered" of the responder, "up" is a PeerConnection. It is  *)
(* "closed" by close(), which flushes and closes the socket; it has "failed" *)
(* when send() or recv() flagged it, and then the socket is left open. An    *)
(* end is "gone" when its handshake did not succeed or its process ended.    *)
Shaking == {"start", "magic", "waiting", "hello", "answered"}
Over    == {"failed", "closed", "gone"}
Quiet   == {"closed", "gone"}

Magic == [type |-> "magic"]
Junk  == [type |-> "junk"]
Eof   == [type |-> "eof"]
Hello(e) == [type |-> "hello", from |-> e]
Frames == [type : {"frame"}, nonce : Nat, key : SUBSET Ends, text : Messages]
Pieces == {Magic, Junk, Eof} \cup {Hello(e) : e \in Ends} \cup Frames

NoSession == {}

TypeOK ==
  /\ state \in [Ends -> Shaking \cup {"up"} \cup Over]
  /\ stream \in [Ends -> Seq(Pieces)]
  /\ key \in [Ends -> SUBSET Ends]
  /\ \A e \in Ends : state[e] = "up" => key[e] # NoSession
  /\ sendNonce \in [Ends -> Nat] /\ recvNonce \in [Ends -> Nat]
  /\ reset \in BOOLEAN
  /\ sent \in [Ends -> Seq(Messages)] /\ received \in [Ends -> Seq(Messages)]

Init ==
  /\ state = [e \in Ends |-> "start"]
  /\ stream = [e \in Ends |-> <<>>]
  /\ key = [e \in Ends |-> NoSession]
  /\ sendNonce = [e \in Ends |-> 0] /\ recvNonce = [e \in Ends |-> 0]
  /\ reset = FALSE
  /\ sent = [e \in Ends |-> <<>>] /\ received = [e \in Ends |-> <<>>]
-----------------------------------------------------------------------------
(* The stream.                                                               *)

Lost(e) == reset \/ state[Peer(e)] \in Over

(* e moves to `to`, having taken n pieces from its stream and written w.     *)
(* Nobody reads the stream of an end that is over, or a connection that was  *)
(* reset: what goes there is dropped.                                        *)
Moves(e, to, n, w) ==
  /\ state' = [state EXCEPT ![e] = to]
  /\ stream' = [stream EXCEPT
       ![e] = IF to \in Over THEN <<>> ELSE SubSeq(@, n + 1, Len(@)),
       ![Peer(e)] = IF Lost(e) THEN @ ELSE @ \o w]

\* the first n pieces of the stream w and then its end
EndingAt(w, n) == IF n > 0 /\ w[n] = Eof THEN w ELSE Append(SubSeq(w, 1, n), Eof)

Reads(e, piece) == stream[e] # <<>> /\ Head(stream[e]) = piece

(* The session key: derived from both ephemeral keys by Diffie-Hellman and   *)
(* from both static keys, sorted.                                            *)
SessionKey(e, from) == {e, from}
-----------------------------------------------------------------------------
(* The handshake.                                                            *)

\* what connects to the port, or answers at it, is not a node
Stranger(e) ==
  /\ state[e] = "start"
  /\ Moves(e, "gone", 0, <<Junk>>)
  /\ UNCHANGED <<key, counters, reset, history>>

SendMagic ==
  /\ state["dialer"] = "start"
  /\ Moves("dialer", "magic", 0, <<Magic>>)
  /\ UNCHANGED <<key, counters, reset, history>>

SendHello ==
  /\ state["dialer"] = "magic"
  /\ Moves("dialer", "waiting", 0, <<Hello("dialer")>>)
  /\ UNCHANGED <<key, counters, reset, history>>

ReadMagic ==
  /\ state["acceptor"] = "start"
  /\ Reads("acceptor", Magic)
  /\ Moves("acceptor", "hello", 1, <<>>)
  /\ UNCHANGED <<key, counters, reset, history>>

AnswerHello ==
  /\ state["acceptor"] = "hello"
  /\ Reads("acceptor", Hello("dialer"))
  /\ Moves("acceptor", "answered", 1, <<Hello("acceptor")>>)
  /\ UNCHANGED <<key, counters, reset, history>>

\* the drain() after the responder's hello returns
AcceptorUp ==
  /\ state["acceptor"] = "answered"
  /\ Moves("acceptor", "up", 0, <<>>)
  /\ key' = [key EXCEPT !["acceptor"] = SessionKey("acceptor", "dialer")]
  /\ UNCHANGED <<counters, reset, history>>

DialerUp ==
  /\ state["dialer"] = "waiting"
  /\ Reads("dialer", Hello("acceptor"))
  /\ Moves("dialer", "up", 1, <<>>)
  /\ key' = [key EXCEPT !["dialer"] = SessionKey("dialer", "acceptor")]
  /\ UNCHANGED <<counters, reset, history>>

(* Mutant of GiveUp: dial() leaves the socket open after a timeout.          *)
GiveUpOpen(e) ==
  /\ state[e] \in Shaking
  /\ Moves(e, "gone", 0, IF e = "dialer" THEN <<>> ELSE <<Eof>>)
  /\ UNCHANGED <<key, counters, reset, history>>

(* A handshake fails: it times out, which it may at each of its awaits, the  *)
(* stream ends, or the piece that was read is not the one expected. dial()   *)
(* closes the socket, for accept() its caller does.                          *)
GiveUp(e) ==
  /\ state[e] \in Shaking
  /\ Moves(e, "gone", 0, <<Eof>>)
  /\ UNCHANGED <<key, counters, reset, history>>
-----------------------------------------------------------------------------
(* An established connection.                                                *)

\* Session.encrypt: the nonce counter is read and incremented
Encrypted(e, m) == [type |-> "frame", nonce |-> sendNonce[e], key |-> key[e], text |-> m]

(* Mutant of Send: a message that is too large has used up a nonce.          *)
SendCounted(e, m) ==
  /\ state[e] = "up" /\ Len(sent[e]) < MaxSends
  /\ sendNonce' = [sendNonce EXCEPT ![e] = @ + 1]
  /\ IF SizeOf[m] <= MaxMessage
     THEN Moves(e, "up", 0, <<Encrypted(e, m)>>) /\ sent' = [sent EXCEPT ![e] = Append(@, m)]
     ELSE UNCHANGED <<state, stream, sent>>
  /\ UNCHANGED <<key, recvNonce, reset, received>>

(* send(): a message that is too large is refused without an effect. The     *)
(* frame is encrypted and written in one step; callers then wait in drain(), *)
(* any number of them; that may raise, see FailReset and FailSend.            *)
Send(e, m) ==
  /\ state[e] = "up" /\ Len(sent[e]) < MaxSends
  /\ SizeOf[m] <= MaxMessage
  /\ Moves(e, "up", 0, <<Encrypted(e, m)>>)
  /\ sendNonce' = [sendNonce EXCEPT ![e] = @ + 1]
  /\ sent' = [sent EXCEPT ![e] = Append(@, m)]
  /\ UNCHANGED <<key, recvNonce, reset, received>>

\* what recv_frame and Session.decrypt require of the next piece
Valid(e, f) ==
  /\ f.type = "frame"
  /\ SizeOf[f.text] + Overhead <= MaxMessage + Overhead
  /\ f.nonce = recvNonce[e]
  /\ f.key = key[e]

\* recv() returns a message
Receive(e) ==
  /\ state[e] = "up" /\ stream[e] # <<>>
  /\ Valid(e, Head(stream[e]))
  /\ Moves(e, "up", 1, <<>>)
  /\ recvNonce' = [recvNonce EXCEPT ![e] = @ + 1]
  /\ received' = [received EXCEPT ![e] = Append(@, Head(stream[e]).text)]
  /\ UNCHANGED <<key, sendNonce, reset, sent>>

\* recv() raises: the stream is at its end, or what comes is not valid
Reject(e) ==
  /\ state[e] = "up" /\ stream[e] # <<>>
  /\ ~Valid(e, Head(stream[e]))
  /\ Moves(e, "failed", 0, <<>>)
  /\ UNCHANGED <<key, counters, reset, history>>

\* recv(), or the drain() of a send(), raises on a connection that was reset
FailReset(e) ==
  /\ state[e] = "up" /\ reset
  /\ Moves(e, "failed", 0, <<>>)
  /\ UNCHANGED <<key, counters, reset, history>>

\* what a send() writes is refused: the socket at the other end is closed
FailSend(e) ==
  /\ state[e] = "up" /\ state[Peer(e)] \in Quiet
  /\ Moves(e, "failed", 0, <<>>)
  /\ UNCHANGED <<key, counters, reset, history>>

\* close(). On a connection that has failed it does nothing.
Close(e) ==
  /\ state[e] = "up"
  /\ Moves(e, "closed", 0, <<Eof>>)
  /\ UNCHANGED <<key, counters, reset, history>>
-----------------------------------------------------------------------------
(* The network, and the processes.                                           *)

\* The connection breaks: what is under way is lost and both ends are told.
Reset ==
  /\ ~reset /\ reset' = TRUE
  /\ stream' = [e \in Ends |-> <<>>]
  /\ UNCHANGED <<state, key, counters, history>>

\* The process of e ends; what it had written arrives up to some point.
Die(e) ==
  /\ state[e] # "gone"
  /\ state' = [state EXCEPT ![e] = "gone"]
  /\ \E n \in 0 .. Len(stream[Peer(e)]) :
       stream' = [stream EXCEPT ![e] = <<>>,
                    ![Peer(e)] = IF Lost(e) THEN @ ELSE EndingAt(@, n)]
  /\ UNCHANGED <<key, counters, reset, history>>

Handshake == SendMagic \/ SendHello \/ ReadMagic \/ AnswerHello \/ AcceptorUp \/ DialerUp

Next ==
  \/ Handshake \/ Reset
  \/ \E e \in Ends :
       \/ Stranger(e) \/ GiveUp(e) \/ Receive(e) \/ Reject(e)
       \/ FailReset(e) \/ FailSend(e)
       \/ Close(e) \/ Die(e)
       \/ \E m \in Messages : Send(e, m)

Spec == Init /\ [][Next]_vars

(* Every handshake has a time limit, a connection has its receive loop, and  *)
(* a read of a connection that was reset raises.                             *)
FairSpec ==
  Spec /\ \A e \in Ends : /\ WF_vars(GiveUp(e)) /\ WF_vars(FailReset(e))
                          /\ WF_vars(Receive(e) \/ Reject(e))
-----------------------------------------------------------------------------
(* An established connection fails only because of a loss: the connection    *)
(* was reset, or the other node closed it or ended. The nonce counters, the  *)
(* limits on both sides and the keys never make an end reject what the other *)
(* has written, whatever is sent while the other is still in its handshake.  *)
OnlyLossFails ==
  \A e \in Ends : state[e] = "failed" => reset \/ state[Peer(e)] \in Quiet

Channel == INSTANCE SecureChannel WITH over <- {e \in Ends : state[e] \in Over}

(* The connection implements the channel: what is received was sent, once    *)
(* and in order; it is received if both live; and when one end is over,      *)
(* whether it closed, died, or gave up its handshake after the other had     *)
(* finished, then so is the other after a while.                             *)
ImplementsChannel == Channel!Spec
=============================================================================
