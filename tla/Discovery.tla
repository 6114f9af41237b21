------------------------------ MODULE Discovery ------------------------------
(* How nodes find and connect to each other: mesh/discovery.py, and what     *)
(* mesh/host.py does with what is found. The nodes of a network, each with   *)
(* its discovery engine, its dials and its table of connections.             *)
(*                                                                           *)
(* MeshHost models what happens inside one node in detail, Session models    *)
(* one connection. Here a handshake is two steps and a lost connection is    *)
(* taken out of the table and marked in one, as when recv() has failed.      *)
EXTENDS Integers, Sequences, FiniteSets

CONSTANTS Nodes,
          Links,       \* identities of connections, used again when both ends are over
          MaxPeers,    \* max_peers
          BootstrapOf, \* the bootstrap addresses of each node, its own not among them
          Lan,         \* <<p, n>>: n can hear the probes of p
          Wishes,      \* <<n, p>>: n may be told over its API to connect to p, another node
          Fragile,     \* nodes that may die or lose time
          MaxFaults,   \* bound on the processes that die, the handshakes that time out and the connects
          Unnamed,     \* the key of a dial whose announcement has no node_id
          Nowhere,     \* an address nobody listens at: the port of a connection that was accepted
          None

Keys      == Nodes \cup {Unnamed}
Addresses == Nodes \cup {Nowhere}
Announcement == [key : Keys, addrs : Seq(Addresses)]

ASSUME DiscoveryAssumption ==
  /\ Nodes \cap {Unnamed, Nowhere, None} = {} /\ None \notin Links
  /\ MaxPeers \in Nat \ {0} /\ MaxFaults \in Nat
  /\ BootstrapOf \in [Nodes -> Seq([key : Keys, addrs : Seq(Nodes)])]
  /\ \A n \in Nodes : \A i \in DOMAIN BootstrapOf[n] :
       \A j \in DOMAIN BootstrapOf[n][i].addrs : BootstrapOf[n][i].addrs[j] # n
  /\ Lan \subseteq Nodes \X Nodes /\ Wishes \subseteq {w \in Nodes \X Nodes : w[1] # w[2]}

VARIABLES up,        \* nodes whose process runs
          boot,      \* the next bootstrap address
          seen,      \* _seen_node_ids, each with a timer that takes it out
          scheduled, \* tasks of _dial_announcement that have not begun
          dial,      \* _dialing: by key, the addresses left and the connection
          link,      \* the connections: who dialed whom, and both ends
          table,     \* connections of the host
          verified,  \* peers whose status is VERIFIED
          known,     \* addresses of each peer
          faults
networkVars == <<up, boot, seen, scheduled, dial, link, table, verified, known, faults>>
engine == <<boot, seen>>
peers  == <<table, verified, known>>

\* an acceptor that answered the hello and closed then is "closed", one that
\* did not answer is "over"
Free == [by |-> None, to |-> None, d |-> "over", a |-> "over"]
Idle == [addrs |-> <<>>, link |-> None]

NetworkTypeOK ==
  /\ up \subseteq Nodes
  /\ boot \in [Nodes -> Nat \ {0}]
  /\ seen \in [Nodes -> SUBSET Nodes]
  /\ \A n \in Nodes : scheduled[n] \subseteq Announcement
  /\ dial \in [Nodes -> [Keys -> [addrs : Seq(Addresses), link : Links \cup {None}]]]
  /\ \A k \in Links : link[k] = Free \/ link[k] \in
       [by : Nodes, to : Nodes, d : {"dialing", "up", "over"}, a : {"accepted", "up", "closed", "over"}]
  /\ table \in [Nodes -> [Nodes -> Links \cup {None}]]
  /\ verified \in [Nodes -> SUBSET Nodes]
  /\ known \in [Nodes -> [Nodes -> Seq(Addresses)]]
  /\ faults \in 0 .. MaxFaults

Nobody == [p \in Nodes |-> None]
NoAddress == [p \in Nodes |-> <<>>]
NoDials == [name \in Keys |-> Idle]

NetworkInit ==
  /\ up = Nodes
  /\ boot = [n \in Nodes |-> 1] /\ seen = [n \in Nodes |-> {}]
  /\ scheduled = [n \in Nodes |-> {}] /\ dial = [n \in Nodes |-> NoDials]
  /\ link = [k \in Links |-> Free]
  /\ table = [n \in Nodes |-> Nobody] /\ verified = [n \in Nodes |-> {}]
  /\ known = [n \in Nodes |-> NoAddress]
  /\ faults = 0
-----------------------------------------------------------------------------
(* Connections.                                                              *)

Connected(n) == {p \in Nodes : table[n][p] # None}
Full(n)      == Cardinality(Connected(n)) >= MaxPeers

End(n, k)   == IF link[k].by = n THEN link[k].d ELSE link[k].a
Other(n, k) == IF link[k].by = n THEN link[k].to ELSE link[k].by
IsOver(n, k)  == End(n, k) \in {"over", "closed"}

\* the connections w with the end of n at k in state s
Ended(w, n, k, s) == [w EXCEPT ![k] =
  LET l == IF w[k].by = n THEN [w[k] EXCEPT !.d = s] ELSE [w[k] EXCEPT !.a = s]
  IN IF l.d = "over" /\ l.a \in {"closed", "over"} THEN Free ELSE l]

\* how an end that is let go is left
LetGo(n, k) == IF link[k].by # n /\ link[k].a = "up" THEN "closed" ELSE "over"

Append1(s, x) == IF \E i \in DOMAIN s : s[i] = x THEN s ELSE Append(s, x)

(* _register_connection(): a connection is kept unless there is one that is  *)
(* alive. One whose other end is over may still look alive.                  *)
(* Mutant of Register: the duplicate is not closed.                          *)
RegisterOpen(n, k, addr, closed) ==
  LET p == Other(n, k)
      j == table[n][p]
  IN /\ link' = Ended(link, n, k, "up")
     /\ IF j = None \/ (j # None /\ IsOver(p, j))
        THEN table' = [table EXCEPT ![n][p] = k] /\ known' = [known EXCEPT ![n][p] = Append1(@, addr)]
        ELSE UNCHANGED <<table, known>>

Register(n, k, addr, closed) ==
  LET p == Other(n, k)
      j == table[n][p]
  IN \/ /\ j # None => IsOver(p, j)
        /\ table' = [table EXCEPT ![n][p] = k]
        /\ known' = [known EXCEPT ![n][p] = Append1(@, addr)]
        /\ link' = Ended(link, n, k, "up")
     \/ /\ j # None
        /\ link' = Ended(link, n, k, closed)
        /\ UNCHANGED <<table, known>>

\* what may happen at any time is a fault, what has to happen is none
Costs(n, must) ==
  IF must THEN UNCHANGED faults
  ELSE n \in Fragile /\ faults < MaxFaults /\ faults' = faults + 1

\* accept() fails: it times out, or the dialer has gone
AcceptFails(k) ==
  /\ link[k].a = "accepted" /\ Costs(link[k].to, link[k].d = "over")
  /\ link' = Ended(link, link[k].to, k, "over")
  /\ UNCHANGED <<up, engine, scheduled, dial, peers>>

\* the acceptor answers the hello, and has its connection
Answer(k) ==
  /\ link[k].a = "accepted" /\ link[k].d = "dialing"
  /\ Register(link[k].to, k, Nowhere, "closed")
  /\ UNCHANGED <<up, engine, scheduled, dial, verified, faults>>

(* Mutant of Loses: the entry goes only if it is the loop's own connection.  *)
LosesOwn(n, k) ==
  LET p == Other(n, k)
      j == table[n][p]
      w == Ended(link, n, k, LetGo(n, k))
  IN /\ n \in {link[k].by, link[k].to} /\ End(n, k) = "up" /\ IsOver(p, k)
     /\ link' = IF j \in {k, None} THEN w ELSE Ended(w, n, j, LetGo(n, j))
     /\ table' = [table EXCEPT ![n][p] = IF @ = k THEN None ELSE @]
     /\ verified' = [verified EXCEPT ![n] = @ \ {p}]
     /\ UNCHANGED <<up, engine, scheduled, dial, known, faults>>

(* The receive loop of k finds that the other end is over. It takes out      *)
(* whatever connection with that peer is registered, and closes it.          *)
Loses(n, k) ==
  LET p == Other(n, k)
      j == table[n][p]
      w == Ended(link, n, k, LetGo(n, k))
  IN /\ n \in {link[k].by, link[k].to} /\ End(n, k) = "up" /\ IsOver(p, k)
     /\ link' = IF j \in {k, None} THEN w ELSE Ended(w, n, j, LetGo(n, j))
     /\ table' = [table EXCEPT ![n][p] = None]
     /\ verified' = [verified EXCEPT ![n] = @ \ {p}]
     /\ UNCHANGED <<up, engine, scheduled, dial, known, faults>>
-----------------------------------------------------------------------------
(* Discovery.                                                                *)

\* _on_peer_discovered(): a task for a peer that is neither connected nor VERIFIED
Discovered(n, name, addrs) ==
  scheduled' = [scheduled EXCEPT ![n] =
    IF name \in Connected(n) \cup verified[n] \cup {n} THEN @
    ELSE @ \cup {[key |-> name, addrs |-> addrs]}]

\* _announce_bootstrap_peers(): one address after another, each once
Bootstrap(n) ==
  /\ n \in up /\ boot[n] <= Len(BootstrapOf[n])
  /\ boot' = [boot EXCEPT ![n] = @ + 1]
  /\ LET e == BootstrapOf[n][boot[n]] IN Discovered(n, e.key, e.addrs)
  /\ UNCHANGED <<up, seen, dial, link, peers, faults>>

\* what the probe of p tells: its node_id, and the port at the address it is from
Probe(p) == [key |-> p, addrs |-> <<p>>]

\* a node whose receiver socket could not be opened hears nobody, though its
\* own probes are heard
Reaches(p, n) == {n, p} \subseteq up /\ <<p, n>> \in Lan

\* _mdns_announce_loop() of p and _mdns_receive_loop() of n, if the probe is
\* not lost
Hear(n, p) ==
  /\ Reaches(p, n) /\ p \notin seen[n]
  /\ seen' = [seen EXCEPT ![n] = @ \cup {p}]
  /\ Discovered(n, Probe(p).key, Probe(p).addrs)
  /\ UNCHANGED <<up, boot, dial, link, peers, faults>>

\* from_multiaddr(): what is given is an address without a node_id
Given(p) == [key |-> Unnamed, addrs |-> <<p>>]

\* connect_peer(): POST /api/peers/connect with the address of another node
ConnectPeer(n, p) ==
  /\ n \in up /\ <<n, p>> \in Wishes /\ faults < MaxFaults /\ faults' = faults + 1
  /\ Discovered(n, Given(p).key, Given(p).addrs)
  /\ UNCHANGED <<up, engine, dial, link, peers>>

(* The 30 seconds of the timer are longer than a task waits for its turn and *)
(* an end needs to see that the other one is over. A dial may take longer.   *)
Settled(n, p) ==
  /\ \A t \in scheduled[n] : t.key # p
  /\ \A k \in Links : {link[k].by, link[k].to} = {n, p} => ~IsOver(n, k) /\ ~IsOver(p, k)

(* Mutant of Forget: the timer is not set.                                   *)
ForgetNever(n, p) ==
  /\ p \in seen[n] /\ n \notin up
  /\ seen' = [seen EXCEPT ![n] = @ \ {p}]
  /\ UNCHANGED <<up, boot, scheduled, dial, link, peers, faults>>

Forget(n, p) ==
  /\ p \in seen[n] /\ Settled(n, p)
  /\ seen' = [seen EXCEPT ![n] = @ \ {p}]
  /\ UNCHANGED <<up, boot, scheduled, dial, link, peers, faults>>

(* _handle_peer_card() of n for the card its peer sent on k: the peer is     *)
(* VERIFIED, and gets the list of the others that are, with the addresses    *)
(* they have here; _handle_peer_list() dials those it is not connected to.   *)
Introduce(n, k) ==
  LET p == Other(n, k)
      news == {q \in verified[n] \ ({p} \cup Connected(p)) : known[n][q] # <<>>}
  IN /\ n \in {link[k].by, link[k].to} /\ End(n, k) = "up" /\ End(p, k) = "up" /\ p \notin verified[n]
     /\ verified' = [verified EXCEPT ![n] = @ \cup {p}]
     /\ scheduled' = [scheduled EXCEPT ![p] =
          IF Full(p) THEN @ ELSE @ \cup {[key |-> q, addrs |-> known[n][q]] : q \in news}]
     /\ UNCHANGED <<up, engine, dial, link, table, known, faults>>
-----------------------------------------------------------------------------
(* Dials.                                                                    *)

\* _handle_inbound() of the node that is dialed: over the limit, it closes
Inbound(n) == IF Full(n) THEN "over" ELSE "accepted"

(* The dial under `name` goes on to the first of addrs, with the connections *)
(* w: it is over if there is none left, or too many peers are connected.     *)
Attempt(n, name, addrs, w) ==
  IF addrs = <<>> \/ Full(n) THEN dial' = [dial EXCEPT ![n][name] = Idle] /\ link' = w
  ELSE IF addrs[1] \notin up THEN dial' = [dial EXCEPT ![n][name] = [addrs |-> addrs, link |-> None]] /\ link' = w
  ELSE LET free == {k \in Links : w[k] = Free}
           k    == CHOOSE k \in free : TRUE
       IN /\ free # {}
          /\ dial' = [dial EXCEPT ![n][name] = [addrs |-> addrs, link |-> k]]
          /\ link' = [w EXCEPT ![k] = [by |-> n, to |-> addrs[1], d |-> "dialing", a |-> Inbound(addrs[1])]]

(* _dial_announcement(): not while a dial under the same key is under way.   *)
Dial(n, t) ==
  /\ t \in scheduled[n]
  /\ scheduled' = [scheduled EXCEPT ![n] = @ \ {t}]
  /\ IF dial[n][t.key] # Idle THEN UNCHANGED <<dial, link>> ELSE Attempt(n, t.key, t.addrs, link)
  /\ UNCHANGED <<up, engine, peers, faults>>

\* dial() fails: it times out, is refused, or the acceptor closes the socket
DialFails(n, name) ==
  LET k == dial[n][name].link IN
  /\ dial[n][name] # Idle /\ Costs(n, k = None \/ (k # None /\ link[k].a = "over"))
  /\ Attempt(n, name, Tail(dial[n][name].addrs),
       IF k = None THEN link
       ELSE Ended(link, n, k, "over"))
  /\ UNCHANGED <<up, engine, scheduled, peers>>

\* the dialer reads the answer, and has its connection
DialDone(n, name) ==
  LET k == dial[n][name].link IN
  /\ k # None /\ link[k].a \in {"up", "closed"}
  /\ Register(n, k, link[k].to, "over")
  /\ dial' = [dial EXCEPT ![n][name] = Idle]
  /\ UNCHANGED <<up, engine, scheduled, verified, faults>>
-----------------------------------------------------------------------------
(* Processes.                                                                *)

Crash(n) ==
  /\ n \in up \cap Fragile /\ faults < MaxFaults
  /\ up' = up \ {n} /\ faults' = faults + 1
  /\ boot' = [boot EXCEPT ![n] = 1] /\ seen' = [seen EXCEPT ![n] = {}]
  /\ scheduled' = [scheduled EXCEPT ![n] = {}] /\ dial' = [dial EXCEPT ![n] = NoDials]
  /\ link' = [k \in Links |->
       IF n \notin {link[k].by, link[k].to} THEN link[k]
       ELSE Ended(link, n, k, LetGo(n, k))[k]]
  /\ table' = [table EXCEPT ![n] = Nobody] /\ verified' = [verified EXCEPT ![n] = {}]
  /\ known' = [known EXCEPT ![n] = NoAddress]

\* start() of the host, which is new
Start(n) ==
  /\ n \notin up
  /\ up' = up \cup {n}
  /\ UNCHANGED <<engine, scheduled, dial, link, peers, faults>>

NetworkNext ==
  \/ \E n \in Nodes :
       \/ Bootstrap(n) \/ Crash(n) \/ Start(n)
       \/ \E p \in Nodes : Hear(n, p) \/ Forget(n, p) \/ ConnectPeer(n, p)
       \/ \E t \in scheduled[n] : Dial(n, t)
       \/ \E name \in Keys : DialFails(n, name) \/ DialDone(n, name)
       \/ \E k \in Links : Loses(n, k) \/ Introduce(n, k)
  \/ \E k \in Links : AcceptFails(k) \/ Answer(k)

NetworkSpec == NetworkInit /\ [][NetworkNext]_networkVars

(* Tasks run, timers fire, probes are sent again until one is heard, what    *)
(* waits goes on, and nodes are started again.                               *)
FairNetworkSpec ==
  /\ NetworkSpec
  /\ \A n \in Nodes :
       /\ WF_networkVars(Start(n)) /\ WF_networkVars(\E t \in scheduled[n] : Dial(n, t))
       /\ \A p \in Nodes : WF_networkVars(Forget(n, p)) /\ WF_networkVars(Hear(n, p))
       /\ \A name \in Keys : WF_networkVars(DialFails(n, name)) /\ WF_networkVars(DialDone(n, name))
  /\ \A k \in Links :
       /\ WF_networkVars(Answer(k)) /\ WF_networkVars(AcceptFails(k))
       /\ \A n \in Nodes : WF_networkVars(Loses(n, k))
-----------------------------------------------------------------------------
(* Whatever nodes dial each other at once, refuse duplicates, close what     *)
(* another coroutine registered, time out or die: what a table has under a   *)
(* peer is a connection between the two that this node has not closed (the   *)
(* peer would not be dialed otherwise); and a dial under way has its         *)
(* connection for itself and still dialing, though a node may dial one peer  *)
(* under two keys at once.                                                   *)
EntriesStand ==
  /\ \A n, p \in Nodes : table[n][p] # None =>
       /\ {n, p} = {link[table[n][p]].by, link[table[n][p]].to}
       /\ End(n, table[n][p]) = "up"
  /\ \A n \in Nodes : \A x \in Keys : dial[n][x].link # None =>
       /\ link[dial[n][x].link].by = n /\ link[dial[n][x].link].d = "dialing"
       /\ \A y \in Keys \ {x} : dial[n][y].link # dial[n][x].link

Joined(n, p) == table[n][p] # None /\ table[n][p] = table[p][n]

(* A node that hears the probes of another which does not hear its own is    *)
(* connected with it again and again, whatever probes are lost, handshakes   *)
(* time out, processes die and other peers come and go.                      *)
Meet == \A n, p \in Nodes : <<p, n>> \in Lan /\ <<n, p>> \notin Lan => []<>Joined(n, p)

(* What a node takes for a connection is one for its peer too: their tables  *)
(* all agree again and again, even where two dial each other at once.        *)
TablesAgree == []<>(\A n, p \in Nodes : table[n][p] = table[p][n])
=============================================================================
