---------------------------- MODULE SecureChannel ----------------------------
(* What a connection between two nodes promises those who send and receive   *)
(* on it: each end gets what the other sent, once and in order, as long as   *)
(* it lives; and when one end is over, the other will be.                    *)
EXTENDS Naturals, Sequences

CONSTANTS Ends, Messages

VARIABLES sent, received, over
vars == <<sent, received, over>>

Other(e) == CHOOSE x \in Ends : x # e

Init ==
  /\ sent = [e \in Ends |-> <<>>]
  /\ received = [e \in Ends |-> <<>>]
  /\ over = {}

Submit(e, m) ==
  /\ e \notin over
  /\ sent' = [sent EXCEPT ![e] = Append(@, m)]
  /\ UNCHANGED <<received, over>>

Deliver(e) ==
  /\ e \notin over
  /\ Len(received[e]) < Len(sent[Other(e)])
  /\ received' = [received EXCEPT ![e] = Append(@, sent[Other(e)][Len(@) + 1])]
  /\ UNCHANGED <<sent, over>>

End(e) ==
  /\ e \notin over
  /\ over' = over \cup {e}
  /\ UNCHANGED <<sent, received>>

Follow(e) == Other(e) \in over /\ End(e)

Next == \E e \in Ends : Deliver(e) \/ End(e) \/ \E m \in Messages : Submit(e, m)

Spec == Init /\ [][Next]_vars /\ \A e \in Ends : WF_vars(Deliver(e)) /\ WF_vars(Follow(e))
=============================================================================
