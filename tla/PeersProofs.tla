----------------------------- MODULE PeersProofs -----------------------------
(***************************************************************************)
(* The connections between any number of nodes implement the lossy         *)
(* channel, and a lost connection is not made up for.                      *)
(***************************************************************************)
EXTENDS Peers, TLAPS

Back(p) == <<p[2], p[1]>>

\* A map holds a connection of the right pair, and so does an accept loop.
Senders(i, j) == {None, Dead} \cup {c \in Pairs : c = <<i, j>> \/ c = <<j, i>>}
Accepts(j) == {Idle} \cup {x \in [peer : Nodes, conn : {Dead} \cup Pairs] :
                              x.conn \in Senders(j, x.peer)}

PeersTypeOK ==
    /\ connector \in [Pairs -> {"try", "wait", "insert", "done"}]
    /\ wire \in [Pairs -> {"none", "hello", "replied", "up"}]
    /\ acceptor = [j \in Nodes |-> acceptor[j]] /\ \A j \in Nodes : acceptor[j] \in Accepts(j)
    /\ peers = [i \in Nodes |-> [j \in Nodes |-> peers[i][j]]]
    /\ \A i, j \in Nodes : peers[i][j] \in Senders(i, j)
    /\ ghosts \subseteq Pairs /\ lost \subseteq Pairs

\* A hello that was not answered, from this process or a dead one, is of a thread
\* that has not connected yet.
HelloInv ==
    \A c \in Pairs :
        /\ wire[c] = "hello" => connector[c] = "wait"
        /\ wire[c] = "replied" => connector[c] = "wait"
        /\ c \in ghosts => connector[c] \in {"try", "wait"} /\ wire[c] \in {"none", "hello"}

\* An entry that is lost leads nowhere, and no thread is left to change it.
LostInv ==
    \A p \in lost :
        /\ peers[p[1]][p[2]] = Dead
        /\ connector[p] = "done" /\ connector[Back(p)] = "done"
        /\ acceptor[p[1]].peer # p[2]

-----------------------------------------------------------------------------
\* The messages on their way from one node to another, a and b on the two
\* connections and g those received, are different ones of the n sent.
Within(q, n) == \A k \in 1 .. Len(q) : q[k] \in 1 .. n
Different(q) == \A k, l \in 1 .. Len(q) : q[k] = q[l] => k = l
Apart(q, r) == \A k \in 1 .. Len(q), l \in 1 .. Len(r) : q[k] # r[l]

Fresh(a, b, g, n) ==
    /\ Within(a, n) /\ Within(b, n) /\ Within(g, n)
    /\ Different(a) /\ Different(b)
    /\ Apart(a, b) /\ Apart(a, g) /\ Apart(b, g)

MessageInv ==
    /\ queue \in [Pairs -> [Nodes -> Seq(Nat)]]
    /\ sent \in [Nodes -> Nat]
    /\ got \in [Nodes -> [Nodes -> Seq(Nat)]]
    /\ \A p \in Pairs :
          Fresh(queue[p][p[2]], queue[Back(p)][p[2]], got[p[2]][p[1]], sent[p[1]])

-----------------------------------------------------------------------------
\* The two ends of a connection, and the connection the other way.
LEMMA PairType ==
    ASSUME NEW p \in Pairs
    PROVE  /\ p[1] \in Nodes /\ p[2] \in Nodes /\ p[1] # p[2] /\ p = <<p[1], p[2]>>
           /\ Back(p) \in Pairs /\ Back(p)[1] = p[2] /\ Back(p)[2] = p[1] /\ Back(p) # p
           /\ Back(Back(p)) = p
           /\ p \notin {None, Dead} /\ Ends(p) = {p[1], p[2]}
  BY PeersAssumption DEF Pairs, Back, Ends

\* A connection is known by its ends.
LEMMA PairEqual ==
    ASSUME NEW p \in Pairs, NEW c \in Pairs
    PROVE  /\ p[1] = c[1] /\ p[2] = c[2] => p = c
           /\ p[1] = c[2] /\ p[2] = c[1] => c = Back(p)
  BY DEF Pairs, Back

\* Closing connections turns senders into dead ones and nothing else.
LEMMA StaleType ==
    ASSUME NEW cs \in SUBSET Pairs, NEW i \in Nodes, NEW j \in Nodes
    PROVE  /\ \A x \in Senders(i, j) : Stale(cs, x) \in Senders(i, j)
           /\ Stale(cs, Dead) = Dead /\ Stale(cs, None) = None
           /\ \A x \in Accepts(j) : /\ [x EXCEPT !.conn = Stale(cs, @)] \in Accepts(j)
                                    /\ [x EXCEPT !.conn = Stale(cs, @)].peer = x.peer
  <1>1. Dead \notin cs /\ None \notin cs
    BY PairType, Zenon
  <1>2. \A k \in Nodes : \A x \in Senders(j, k) : Stale(cs, x) \in Senders(j, k)
    BY Zenon DEF Stale, Senders
  <1>3. \A x \in Senders(i, j) : Stale(cs, x) \in Senders(i, j)
    BY Zenon DEF Stale, Senders
  <1>4. [Idle EXCEPT !.conn = Stale(cs, @)] = Idle
    BY <1>1 DEF Stale, Idle
  <1>5. ASSUME NEW x \in Accepts(j), x # Idle
        PROVE  /\ [x EXCEPT !.conn = Stale(cs, @)] \in Accepts(j)
               /\ [x EXCEPT !.conn = Stale(cs, @)].peer = x.peer
    <2> DEFINE y == [x EXCEPT !.conn = Stale(cs, @)]
    <2>1. x \in [peer : Nodes, conn : {Dead} \cup Pairs] /\ x.conn \in Senders(j, x.peer)
      BY <1>5, Zenon DEF Accepts
    <2>2. Stale(cs, x.conn) \in {Dead} \cup Pairs
      BY <2>1, Zenon DEF Stale
    <2>3. y \in [peer : Nodes, conn : {Dead} \cup Pairs] /\ y.peer = x.peer
          /\ y.conn = Stale(cs, x.conn)
      BY <2>1, <2>2
    <2> HIDE DEF y
    <2>4. y \in Accepts(j)
      BY <1>2, <2>1, <2>3, Zenon DEF Accepts
    <2> QED BY <2>3, <2>4 DEF y
  <1>6. Stale(cs, Dead) = Dead /\ Stale(cs, None) = None
    BY <1>1, Zenon DEF Stale
  <1>7. Idle \in Accepts(j)
    BY Zenon DEF Accepts
  <1> QED BY <1>3, <1>4, <1>5, <1>6, <1>7, Zenon

\* What closing connections does to maps and accept loops is well-formed.
LEMMA ClosedType ==
    ASSUME PeersTypeOK, NEW cs \in SUBSET Pairs
    PROVE  \A i, j \in Nodes :
              /\ Stale(cs, peers[i][j]) \in Senders(i, j)
              /\ [acceptor[j] EXCEPT !.conn = Stale(cs, @)] \in Accepts(j)
              /\ [acceptor[j] EXCEPT !.conn = Stale(cs, @)].peer = acceptor[j].peer
  BY StaleType, ZenonT(40) DEF PeersTypeOK

\* Every step of every thread keeps the types.
LEMMA TypeStep == PeersTypeOK /\ [Next]_vars => PeersTypeOK'
  <1> SUFFICES ASSUME PeersTypeOK, [Next]_vars PROVE PeersTypeOK'
    OBVIOUS
  <1>1. ASSUME NEW c \in Pairs, Connect(c) PROVE PeersTypeOK'
    BY <1>1, Zenon DEF PeersTypeOK, Connect
  <1>2. ASSUME NEW c \in Pairs, AcceptHello(c) PROVE PeersTypeOK'
    <2>1. [peer |-> c[1], conn |-> c] \in Accepts(c[2])
      <3>1. [peer |-> c[1], conn |-> c] \in [peer : Nodes, conn : {Dead} \cup Pairs]
        BY PairType
      <3>2. c \in Senders(c[2], c[1])
        BY PairType, Zenon DEF Senders
      <3> QED BY <3>1, <3>2, Zenon DEF Accepts
    <2>2. c[2] \in Nodes
      BY PairType
    <2> QED BY <1>2, <2>1, <2>2, Zenon DEF PeersTypeOK, AcceptHello
  <1>3. ASSUME NEW c \in Pairs, AcceptGhost(c) PROVE PeersTypeOK'
    <2>1. [peer |-> c[1], conn |-> Dead] \in Accepts(c[2])
      <3>1. [peer |-> c[1], conn |-> Dead] \in [peer : Nodes, conn : {Dead} \cup Pairs]
        BY PairType
      <3>2. Dead \in Senders(c[2], c[1])
        BY Zenon DEF Senders
      <3> QED BY <3>1, <3>2, Zenon DEF Accepts
    <2>2. c[2] \in Nodes
      BY PairType
    <2> QED BY <1>3, <2>1, <2>2, Zenon DEF PeersTypeOK, AcceptGhost
  <1>4. ASSUME NEW j \in Nodes, AcceptInsert(j) PROVE PeersTypeOK'
    <2>1. acceptor[j].peer \in Nodes /\ acceptor[j].conn \in Senders(j, acceptor[j].peer)
      BY <1>4, Zenon DEF AcceptInsert, PeersTypeOK, Accepts
    <2>2. Idle \in Accepts(j)
      BY Zenon DEF Accepts
    <2>3. /\ peers' = [i \in Nodes |-> [k \in Nodes |-> peers'[i][k]]]
          /\ \A i, k \in Nodes : peers'[i][k] \in Senders(i, k)
      BY <1>4, <2>1, Zenon DEF AcceptInsert, PeersTypeOK
    <2>4. /\ acceptor' = [i \in Nodes |-> acceptor'[i]]
          /\ \A i \in Nodes : acceptor'[i] \in Accepts(i)
      BY <1>4, <2>2, Zenon DEF AcceptInsert, PeersTypeOK
    <2> QED BY <1>4, <2>3, <2>4, Zenon DEF AcceptInsert, PeersTypeOK
  <1>5. ASSUME NEW c \in Pairs, ReadReply(c) PROVE PeersTypeOK'
    BY <1>5, Zenon DEF PeersTypeOK, ReadReply
  <1>6. ASSUME NEW c \in Pairs, RetryConnect(c) PROVE PeersTypeOK'
    BY <1>6, Zenon DEF PeersTypeOK, RetryConnect
  <1>7. ASSUME NEW c \in Pairs, ConnectInsert(c) PROVE PeersTypeOK'
    <2>1. c[1] \in Nodes /\ c[2] \in Nodes /\ {c, Dead} \subseteq Senders(c[1], c[2])
      BY PairType, Zenon DEF Senders
    <2>2. /\ peers' = [i \in Nodes |-> [k \in Nodes |-> peers'[i][k]]]
          /\ \A i, k \in Nodes : peers'[i][k] \in Senders(i, k)
      BY <1>7, <2>1, ZenonT(40) DEF ConnectInsert, PeersTypeOK
    <2> QED BY <1>7, <2>2, Zenon DEF ConnectInsert, PeersTypeOK
  <1>8. ASSUME NEW c \in Pairs, Break(c) PROVE PeersTypeOK'
    <2>1. {c} \in SUBSET Pairs /\ Settled(c) \subseteq Pairs
      BY Zenon DEF Settled
    <2> QED BY <1>8, <2>1, ClosedType, Zenon DEF Break, CloseAll, PeersTypeOK
  <1>9. ASSUME NEW i \in Nodes, Restart(i) PROVE PeersTypeOK'
    <2> DEFINE cs == {c \in Pairs : i \in Ends(c)}
    <2>1. cs \in SUBSET Pairs
      OBVIOUS
    <2>2. \A j \in Nodes : Idle \in Accepts(j) /\ None \in Senders(i, j)
      BY Zenon DEF Accepts, Senders
    <2>3. \A k, j \in Nodes : /\ Stale(cs, peers[k][j]) \in Senders(k, j)
                              /\ [acceptor[j] EXCEPT !.conn = Stale(cs, @)] \in Accepts(j)
      BY <2>1, ClosedType, Zenon
    <2> HIDE DEF cs
    <2>4. /\ peers' = [k \in Nodes |-> [j \in Nodes |-> peers'[k][j]]]
          /\ \A k, j \in Nodes : peers'[k][j] \in Senders(k, j)
      BY <1>9, <2>2, <2>3, Zenon DEF Restart, cs
    <2>5. /\ acceptor' = [k \in Nodes |-> acceptor'[k]]
          /\ \A k \in Nodes : acceptor'[k] \in Accepts(k)
      BY <1>9, <2>2, <2>3, Zenon DEF Restart, cs
    <2>6. ghosts' \subseteq Pairs /\ lost' \subseteq Pairs
      BY <1>9, Zenon DEF Restart, PeersTypeOK
    <2> QED BY <1>9, <2>4, <2>5, <2>6, Zenon DEF Restart, CloseAll, PeersTypeOK
  <1>10. ASSUME NEW i \in Nodes, Broadcast(i) PROVE PeersTypeOK'
    BY <1>10, Zenon DEF PeersTypeOK, Broadcast
  <1>11. ASSUME NEW c \in Pairs, NEW j \in Ends(c), Deliver(c, j) PROVE PeersTypeOK'
    BY <1>11, Zenon DEF PeersTypeOK, Deliver
  <1>12. CASE UNCHANGED vars
    BY <1>12, Zenon DEF PeersTypeOK, vars
  <1> QED BY <1>1, <1>2, <1>3, <1>4, <1>5, <1>6, <1>7, <1>8, <1>9, <1>10, <1>11, <1>12, Zenon
          DEF Next

\* A thread of connect_peers is past its handshake only after the accept loop has
\* taken its own hello, and with it all that came before.
LEMMA HelloStep == PeersTypeOK /\ HelloInv /\ [Next]_vars => HelloInv'
  <1> SUFFICES ASSUME PeersTypeOK, HelloInv, [Next]_vars PROVE HelloInv'
    OBVIOUS
  <1>1. ASSUME NEW c \in Pairs, Connect(c) PROVE HelloInv'
    BY <1>1, Zenon DEF PeersTypeOK, HelloInv, Connect
  <1>2. ASSUME NEW c \in Pairs, AcceptHello(c) PROVE HelloInv'
    BY <1>2, Zenon DEF PeersTypeOK, HelloInv, AcceptHello
  <1>3. ASSUME NEW c \in Pairs, AcceptGhost(c) PROVE HelloInv'
    BY <1>3, Zenon DEF PeersTypeOK, HelloInv, AcceptGhost
  <1>4. ASSUME NEW j \in Nodes, AcceptInsert(j) PROVE HelloInv'
    BY <1>4, Zenon DEF HelloInv, AcceptInsert
  <1>5. ASSUME NEW c \in Pairs, ReadReply(c) PROVE HelloInv'
    BY <1>5, Zenon DEF PeersTypeOK, HelloInv, ReadReply
  <1>6. ASSUME NEW c \in Pairs, RetryConnect(c) PROVE HelloInv'
    BY <1>6, Zenon DEF PeersTypeOK, HelloInv, RetryConnect
  <1>7. ASSUME NEW c \in Pairs, ConnectInsert(c) PROVE HelloInv'
    BY <1>7, Zenon DEF PeersTypeOK, HelloInv, ConnectInsert
  <1>8. ASSUME NEW c \in Pairs, Break(c) PROVE HelloInv'
    BY <1>8, Zenon DEF HelloInv, Break, CloseAll
  <1>9. ASSUME NEW i \in Nodes, Restart(i) PROVE HelloInv'
    <2>1. \A c \in Pairs : c[1] = i \/ c[2] = i => wire'[c] = "none"
      BY <1>9, PairType, Zenon DEF Restart, CloseAll, Ends
    <2>2. \A c \in Pairs : c[1] = i => connector'[c] = "try"
      BY <1>9, Zenon DEF Restart
    <2>3. \A c \in Pairs : c[1] # i /\ c[2] # i =>
              wire'[c] = wire[c] /\ connector'[c] = connector[c] /\ (c \in ghosts' => c \in ghosts)
      BY <1>9, PairType, Zenon DEF Restart, CloseAll, Ends
    <2>4. \A c \in Pairs : c[2] = i => c \notin ghosts'
      BY <1>9, PairType, Zenon DEF Restart
    <2> QED BY <2>1, <2>2, <2>3, <2>4, Zenon DEF HelloInv
  <1>10. ASSUME NEW i \in Nodes, Broadcast(i) PROVE HelloInv'
    BY <1>10, Zenon DEF HelloInv, Broadcast
  <1>11. ASSUME NEW c \in Pairs, NEW j \in Ends(c), Deliver(c, j) PROVE HelloInv'
    BY <1>11, Zenon DEF HelloInv, Deliver
  <1>12. CASE UNCHANGED vars
    BY <1>12, Zenon DEF HelloInv, vars
  <1> QED BY <1>1, <1>2, <1>3, <1>4, <1>5, <1>6, <1>7, <1>8, <1>9, <1>10, <1>11, <1>12, Zenon
          DEF Next

\* No thread touches an entry that is lost.
LEMMA LostStep == PeersTypeOK /\ HelloInv /\ LostInv /\ [Next]_vars => LostInv'
  <1> SUFFICES ASSUME PeersTypeOK, HelloInv, LostInv, [Next]_vars PROVE LostInv'
    OBVIOUS
  <1>0. \A p \in lost : p \in Pairs /\ Back(p) \in Pairs /\ p[1] \in Nodes /\ p[2] \in Nodes
    BY PairType, Zenon DEF PeersTypeOK
  <1>1. ASSUME NEW c \in Pairs, Connect(c) PROVE LostInv'
    BY <1>0, <1>1, Zenon DEF PeersTypeOK, LostInv, Connect
  <1>a. ASSUME NEW c \in Pairs, connector[c] # "done" PROVE \A p \in lost : c # p /\ c # Back(p)
    BY <1>a, Zenon DEF LostInv
  <1>b. ASSUME NEW c \in Pairs, connector[c] # "done", lost' = lost, peers' = peers,
               connector' = connector, NEW x, x.peer = c[1],
               acceptor' = [acceptor EXCEPT ![c[2]] = x]
        PROVE  LostInv'
    <2> SUFFICES ASSUME NEW p \in lost PROVE acceptor'[p[1]].peer # p[2]
      BY <1>b, Zenon DEF LostInv
    <2>1. CASE p[1] # c[2]
      BY <1>0, <1>b, <2>1, Zenon DEF PeersTypeOK, LostInv
    <2>2. CASE p[1] = c[2]
      <3>1. p[2] # c[1]
        <4>1. p \in Pairs /\ c # Back(p)
          BY <1>0, <1>a, <1>b, Zenon
        <4> QED BY <2>2, <4>1, PairEqual
      <3> QED BY <1>0, <1>b, <2>2, <3>1, Zenon DEF PeersTypeOK
    <2> QED BY <2>1, <2>2, Zenon
  <1>2. ASSUME NEW c \in Pairs, AcceptHello(c) PROVE LostInv'
    <2>1. connector[c] # "done" /\ [peer |-> c[1], conn |-> c].peer = c[1]
      BY <1>2 DEF AcceptHello, HelloInv
    <2> QED BY <1>2, <1>b, <2>1, Zenon DEF AcceptHello
  <1>3. ASSUME NEW c \in Pairs, AcceptGhost(c) PROVE LostInv'
    <2>1. connector[c] # "done" /\ [peer |-> c[1], conn |-> Dead].peer = c[1]
      BY <1>3 DEF AcceptGhost, HelloInv
    <2> QED BY <1>3, <1>b, <2>1, Zenon DEF AcceptGhost
  <1>4. ASSUME NEW j \in Nodes, AcceptInsert(j) PROVE LostInv'
    <2>1. Idle.peer = None /\ \A p \in lost : None # p[2]
      BY <1>0, PeersAssumption DEF Idle
    <2>2. \A p \in lost : acceptor'[p[1]].peer # p[2]
      BY <1>0, <1>4, <2>1, Zenon DEF PeersTypeOK, LostInv, AcceptInsert
    <2>3. \A p \in lost : peers'[p[1]][p[2]] = Dead
      BY <1>0, <1>4, Zenon DEF PeersTypeOK, LostInv, AcceptInsert
    <2> QED BY <1>4, <2>2, <2>3, Zenon DEF LostInv, AcceptInsert
  <1>5. ASSUME NEW c \in Pairs, ReadReply(c) PROVE LostInv'
    BY <1>0, <1>5, Zenon DEF PeersTypeOK, LostInv, ReadReply
  <1>6. ASSUME NEW c \in Pairs, RetryConnect(c) PROVE LostInv'
    BY <1>0, <1>6, Zenon DEF PeersTypeOK, LostInv, RetryConnect
  <1>7. ASSUME NEW c \in Pairs, ConnectInsert(c) PROVE LostInv'
    <2>1. \A p \in lost : c # p /\ c # Back(p)
      BY <1>a, <1>7, Zenon DEF ConnectInsert
    <2>2. \A p \in lost : ~(p[1] = c[1] /\ p[2] = c[2])
      BY <1>0, <2>1, PairEqual, Zenon
    <2>3. \A p \in lost : peers'[p[1]][p[2]] = Dead
      BY <1>0, <1>7, <2>2, Zenon DEF PeersTypeOK, LostInv, ConnectInsert
    <2> QED BY <1>0, <1>7, <2>1, <2>3, Zenon DEF PeersTypeOK, LostInv, ConnectInsert
  <1>8. ASSUME NEW c \in Pairs, Break(c) PROVE LostInv'
    <2>0. {c} \in SUBSET Pairs
      OBVIOUS
    <2>1. \A i, j \in Nodes : /\ peers'[i][j] = Stale({c}, peers[i][j])
                              /\ acceptor'[j].peer = acceptor[j].peer
      BY <1>8, <2>0, ClosedType, Zenon DEF Break
    <2>2. connector' = connector /\ lost' = lost \cup Settled(c)
      BY <1>8, Zenon DEF Break
    <2>3. Stale({c}, Dead) = Dead /\ Stale({c}, c) = Dead
      BY PairType, Zenon DEF Stale
    <2>4. ASSUME NEW p \in lost
          PROVE  /\ peers'[p[1]][p[2]] = Dead
                 /\ connector'[p] = "done" /\ connector'[Back(p)] = "done"
                 /\ acceptor'[p[1]].peer # p[2]
      BY <1>0, <2>1, <2>2, <2>3, ZenonT(40) DEF LostInv
    <2>5. ASSUME NEW p \in Settled(c)
          PROVE  /\ peers'[p[1]][p[2]] = Dead
                 /\ connector'[p] = "done" /\ connector'[Back(p)] = "done"
                 /\ acceptor'[p[1]].peer # p[2]
      <3>1. p \in Pairs /\ p[1] \in Nodes /\ p[2] \in Nodes
        BY PairType, Zenon DEF Settled
      <3> QED BY <2>1, <2>2, <2>3, <3>1, Zenon DEF Settled, Back
    <2> QED BY <2>2, <2>4, <2>5, Zenon DEF LostInv
  <1>9. ASSUME NEW i \in Nodes, Restart(i) PROVE LostInv'
    <2> DEFINE cs == {c \in Pairs : i \in Ends(c)}
    <2>0. cs \in SUBSET Pairs
      OBVIOUS
    <2> SUFFICES ASSUME NEW p \in lost'
                 PROVE  /\ peers'[p[1]][p[2]] = Dead
                        /\ connector'[p] = "done" /\ connector'[Back(p)] = "done"
                        /\ acceptor'[p[1]].peer # p[2]
      BY Zenon DEF LostInv
    <2>1. p \in lost /\ p[1] # i /\ p[2] # i
      BY <1>9, Zenon DEF Restart, Ends
    <2>2. p \in Pairs /\ Back(p) \in Pairs /\ p[1] \in Nodes /\ p[2] \in Nodes /\ Back(p)[1] = p[2]
      BY <1>0, <2>1, PairType, Zenon
    <2>3. [acceptor[p[1]] EXCEPT !.conn = Stale(cs, @)].peer = acceptor[p[1]].peer
      BY <2>0, <2>2, ClosedType, Zenon
    <2>4. Stale(cs, Dead) = Dead
      BY <2>0, <2>2, StaleType, Zenon
    <2> HIDE DEF cs
    <2>5. peers'[p[1]][p[2]] = Dead
      BY <1>9, <2>1, <2>2, <2>4, Zenon DEF Restart, LostInv, cs
    <2>6. acceptor'[p[1]].peer # p[2]
      BY <1>9, <2>1, <2>2, <2>3, Zenon DEF Restart, LostInv, cs
    <2>7. connector'[p] = "done" /\ connector'[Back(p)] = "done"
      BY <1>9, <2>1, <2>2, Zenon DEF Restart, LostInv
    <2> QED BY <2>5, <2>6, <2>7, Zenon
  <1>10. ASSUME NEW i \in Nodes, Broadcast(i) PROVE LostInv'
    BY <1>10, Zenon DEF LostInv, Broadcast
  <1>11. ASSUME NEW c \in Pairs, NEW j \in Ends(c), Deliver(c, j) PROVE LostInv'
    BY <1>11, Zenon DEF LostInv, Deliver
  <1>12. CASE UNCHANGED vars
    BY <1>12, Zenon DEF LostInv, vars
  <1> QED BY <1>1, <1>2, <1>3, <1>4, <1>5, <1>6, <1>7, <1>8, <1>9, <1>10, <1>11, <1>12, Zenon
          DEF Next

-----------------------------------------------------------------------------
\* Nodes that have just started.
LEMMA PeersInit == Init => PeersTypeOK /\ HelloInv /\ LostInv
  <1> SUFFICES ASSUME Init PROVE PeersTypeOK /\ HelloInv /\ LostInv
    OBVIOUS
  <1>1. \A i, j \in Nodes : Idle \in Accepts(j) /\ None \in Senders(i, j)
    BY Zenon DEF Accepts, Senders
  <1>2. PeersTypeOK
    BY <1>1, Zenon DEF Init, PeersTypeOK
  <1>3. HelloInv /\ LostInv
    BY Zenon DEF Init, HelloInv, LostInv
  <1> QED BY <1>2, <1>3

\* Between any number of nodes, through any number of lost connections and
\* restarts: an entry of a map that held a lost connection leads nowhere until a
\* process of the pair restarts (connect_peers, spawn_peer).
THEOREM LostTheorem == Spec => []LostForGood
  <1>1. LostInv => LostForGood
    BY Zenon DEF LostInv, LostForGood
  <1> QED BY <1>1, PeersInit, TypeStep, HelloStep, LostStep, PTL DEF Spec

-----------------------------------------------------------------------------
(* The lossy channel. *)

\* A message more is sent, on one connection or on none.
LEMMA FreshSend ==
    ASSUME NEW a \in Seq(Nat), NEW b \in Seq(Nat), NEW g \in Seq(Nat), NEW n \in Nat,
           Fresh(a, b, g, n)
    PROVE  /\ Fresh(a, b, g, n + 1)
           /\ Fresh(Append(a, n + 1), b, g, n + 1)
           /\ Fresh(a, Append(b, n + 1), g, n + 1)
  <1>1. ASSUME NEW q \in Seq(Nat), Within(q, n)
        PROVE  Within(q, n + 1) /\ Within(Append(q, n + 1), n + 1)
    BY <1>1, SMTT(40) DEF Within
  <1>2. ASSUME NEW q \in Seq(Nat), Within(q, n), Different(q) PROVE Different(Append(q, n + 1))
    BY <1>2, SMTT(40) DEF Within, Different
  <1>3. ASSUME NEW q \in Seq(Nat), NEW r \in Seq(Nat), Within(r, n), Apart(q, r)
        PROVE  Apart(Append(q, n + 1), r)
    BY <1>3, SMTT(40) DEF Within, Apart
  <1>4. \A q, r : Apart(q, r) <=> Apart(r, q)
    BY Zenon DEF Apart
  <1> QED BY <1>1, <1>2, <1>3, <1>4, Zenon DEF Fresh

\* The first message of a connection is received; or the connection is closed.
LEMMA FreshTake ==
    ASSUME NEW a \in Seq(Nat), NEW b \in Seq(Nat), NEW g \in Seq(Nat), NEW n \in Nat,
           Fresh(a, b, g, n)
    PROVE  /\ Fresh(b, a, g, n)
           /\ Fresh(<<>>, b, g, n)
           /\ a # <<>> => /\ Fresh(Tail(a), b, Append(g, Head(a)), n)
                          /\ Head(a) \in 1 .. n
                          /\ \A k \in DOMAIN g : g[k] # Head(a)
  <1>1. Fresh(b, a, g, n)
    BY Zenon DEF Fresh, Apart
  <1>2. Fresh(<<>>, b, g, n)
    BY DEF Fresh, Within, Different, Apart
  <1>3. ASSUME a # <<>>
        PROVE  /\ Fresh(Tail(a), b, Append(g, Head(a)), n)
               /\ Head(a) \in 1 .. n
               /\ \A k \in DOMAIN g : g[k] # Head(a)
    <2>1. /\ Head(a) = a[1] /\ Len(a) \in Nat \ {0} /\ a[1] \in Nat
          /\ Tail(a) \in Seq(Nat) /\ Len(Tail(a)) = Len(a) - 1
          /\ \A k \in 1 .. Len(a) - 1 : Tail(a)[k] = a[k + 1]
      BY <1>3
    <2>2. Within(Tail(a), n) /\ Different(Tail(a)) /\ Apart(Tail(a), b) /\ Apart(Tail(a), g)
      <3>1. \A k \in 1 .. Len(Tail(a)) : k + 1 \in 1 .. Len(a) /\ Tail(a)[k] = a[k + 1]
        BY <2>1
      <3>2. Within(Tail(a), n)
        BY <3>1, Zenon DEF Fresh, Within
      <3>3. Different(Tail(a))
        BY <2>1, <3>1 DEF Fresh, Different
      <3>4. Apart(Tail(a), b) /\ Apart(Tail(a), g)
        BY <3>1, Zenon DEF Fresh, Apart
      <3> QED BY <3>2, <3>3, <3>4
    <2>3. a[1] \in 1 .. n /\ \A k \in 1 .. Len(g) : g[k] # a[1]
      BY <2>1 DEF Fresh, Within, Apart
    <2>4. Within(Append(g, a[1]), n)
      BY <2>1, <2>3 DEF Fresh, Within
    <2>5. ASSUME NEW q \in Seq(Nat), Apart(q, g), \A k \in 1 .. Len(q) : q[k] # a[1]
          PROVE  Apart(q, Append(g, a[1]))
      BY <2>1, <2>5, SMTT(40) DEF Apart
    <2>6. /\ \A k \in 1 .. Len(Tail(a)) : Tail(a)[k] # a[1]
          /\ \A k \in 1 .. Len(b) : b[k] # a[1]
      BY <2>1 DEF Fresh, Different, Apart
    <2>7. Apart(Tail(a), Append(g, a[1])) /\ Apart(b, Append(g, a[1]))
      BY <2>1, <2>2, <2>5, <2>6, Zenon DEF Fresh
    <2>8. DOMAIN g = 1 .. Len(g)
      OBVIOUS
    <2> QED BY <2>1, <2>2, <2>3, <2>4, <2>7, <2>8, Zenon DEF Fresh
  <1> QED BY <1>1, <1>2, <1>3

\* Nothing is on its way before the first broadcast.
LEMMA MessageInit == Init => MessageInv /\ Channel!LcInit
  <1> SUFFICES ASSUME Init PROVE MessageInv /\ Channel!LcInit
    OBVIOUS
  <1>1. <<>> \in Seq(Nat) /\ 0 \in Nat /\ Fresh(<<>>, <<>>, <<>>, 0)
    BY DEF Fresh, Within, Different, Apart
  <1>2. MessageInv
    <2>1. \A p \in Pairs : p[1] \in Nodes /\ p[2] \in Nodes /\ Back(p) \in Pairs
      BY PairType, Zenon
    <2> QED BY <1>1, <2>1, Zenon DEF Init, MessageInv
  <1> QED BY <1>2, Zenon DEF Init, Channel!LcInit

\* The types of the three kinds of messages from one end of a pair to the other.
LEMMA MessageTypes ==
    ASSUME MessageInv, NEW p \in Pairs
    PROVE  /\ queue[p][p[2]] \in Seq(Nat) /\ queue[Back(p)][p[2]] \in Seq(Nat)
           /\ got[p[2]][p[1]] \in Seq(Nat) /\ sent[p[1]] \in Nat
           /\ Fresh(queue[p][p[2]], queue[Back(p)][p[2]], got[p[2]][p[1]], sent[p[1]])
  <1>1. p[1] \in Nodes /\ p[2] \in Nodes /\ Back(p) \in Pairs
    BY PairType, Zenon
  <1> QED BY <1>1, Zenon DEF MessageInv

\* Closing connections loses what is on them, and nothing arrives.
LEMMA CloseStep ==
    ASSUME MessageInv, NEW cs, CloseAll(cs), UNCHANGED <<sent, got>>
    PROVE  MessageInv'
  <1>1. <<>> \in Seq(Nat)
    OBVIOUS
  <1>2. queue' \in [Pairs -> [Nodes -> Seq(Nat)]]
    BY <1>1, Zenon DEF MessageInv, CloseAll
  <1>3. ASSUME NEW p \in Pairs
        PROVE  Fresh(queue'[p][p[2]], queue'[Back(p)][p[2]], got[p[2]][p[1]], sent[p[1]])
    <2> DEFINE a == queue[p][p[2]]
               b == queue[Back(p)][p[2]]
               g == got[p[2]][p[1]]
               n == sent[p[1]]
    <2>1. /\ a \in Seq(Nat) /\ b \in Seq(Nat) /\ g \in Seq(Nat) /\ n \in Nat
          /\ Fresh(a, b, g, n)
      BY MessageTypes, Zenon
    <2>2. queue'[p][p[2]] \in {a, <<>>} /\ queue'[Back(p)][p[2]] \in {b, <<>>}
      BY PairType, Zenon DEF CloseAll
    <2> HIDE DEF a, b, g, n
    <2>3. Fresh(<<>>, b, g, n) /\ Fresh(b, a, g, n)
      BY <2>1, FreshTake, Zenon
    <2>4. Fresh(<<>>, a, g, n) /\ Fresh(b, <<>>, g, n) /\ Fresh(<<>>, <<>>, g, n)
      BY <1>1, <2>1, <2>3, FreshTake, Zenon
    <2>5. Fresh(a, <<>>, g, n)
      BY <1>1, <2>1, <2>4, FreshTake, Zenon
    <2>6. Fresh(queue'[p][p[2]], queue'[Back(p)][p[2]], g, n)
      BY <2>1, <2>2, <2>3, <2>4, <2>5, Zenon
    <2> QED BY <2>6, Zenon DEF g, n
  <1> QED BY <1>2, <1>3, Zenon DEF MessageInv

\* A broadcast gives its number to one connection of each pair at most.
LEMMA BroadcastStep ==
    ASSUME PeersTypeOK, MessageInv, NEW i \in Nodes, Broadcast(i)
    PROVE  MessageInv' /\ Channel!LcSend(i)
  <1>1. Channel!LcSend(i)
    BY Zenon DEF Broadcast, Channel!LcSend
  <1>2. sent[i] \in Nat /\ sent[i] + 1 \in Nat
    BY DEF MessageInv
  <1>3. sent' \in [Nodes -> Nat] /\ got' = got
    BY <1>2, Zenon DEF MessageInv, Broadcast
  <1>4. \A q \in Seq(Nat) : Append(q, sent[i] + 1) \in Seq(Nat)
    BY <1>2
  <1>5. queue' \in [Pairs -> [Nodes -> Seq(Nat)]]
    BY <1>4, Zenon DEF MessageInv, Broadcast
  <1>6. ASSUME NEW p \in Pairs
        PROVE  Fresh(queue'[p][p[2]], queue'[Back(p)][p[2]], got[p[2]][p[1]], sent'[p[1]])
    <2> DEFINE a == queue[p][p[2]]
               b == queue[Back(p)][p[2]]
               g == got[p[2]][p[1]]
               n == sent[p[1]]
    <2>0. p[1] \in Nodes /\ p[2] \in Nodes /\ Back(p) \in Pairs /\ Back(p) # p /\ p[1] # p[2]
      BY PairType, Zenon
    <2>1. /\ a \in Seq(Nat) /\ b \in Seq(Nat) /\ g \in Seq(Nat) /\ n \in Nat
          /\ Fresh(a, b, g, n)
      BY MessageTypes, Zenon
    <2>2. CASE p[1] # i
      \* The map of i holds no connection of another pair under p[2].
      <3>1. peers[i][p[2]] \in Senders(i, p[2])
        BY <2>0, Zenon DEF PeersTypeOK
      <3>2. peers[i][p[2]] # p /\ peers[i][p[2]] # Back(p)
        <4>1. {p, Back(p)} \cap {None, Dead} = {}
          BY <2>0, PairType, Zenon
        <4>2. p # <<i, p[2]>> /\ p # <<p[2], i>> /\ Back(p) # <<i, p[2]>> /\ Back(p) # <<p[2], i>>
          BY <2>0, <2>2, PairType DEF Back
        <4> QED BY <3>1, <4>1, <4>2, Zenon DEF Senders
      <3>3. queue'[p][p[2]] = a /\ queue'[Back(p)][p[2]] = b /\ sent'[p[1]] = n
        BY <2>0, <2>2, <3>2, Zenon DEF Broadcast, MessageInv
      <3> QED BY <2>1, <3>3, Zenon
    <2>3. CASE p[1] = i
      <3>1. sent'[p[1]] = n + 1
        BY <2>0, <2>3, Zenon DEF Broadcast, MessageInv
      <3>2. /\ queue'[p][p[2]] = IF peers[i][p[2]] = p THEN Append(a, n + 1) ELSE a
            /\ queue'[Back(p)][p[2]] = IF peers[i][p[2]] = Back(p) THEN Append(b, n + 1) ELSE b
        BY <2>0, <2>3, Zenon DEF Broadcast
      <3> DEFINE x == queue'[p][p[2]]
                 y == queue'[Back(p)][p[2]]
      <3>3. <<x, y>> \in {<<a, b>>, <<Append(a, n + 1), b>>, <<a, Append(b, n + 1)>>}
        BY <2>0, <3>2, Zenon
      <3> HIDE DEF a, b, g, n, x, y
      <3>4. /\ Fresh(a, b, g, n + 1) /\ Fresh(Append(a, n + 1), b, g, n + 1)
            /\ Fresh(a, Append(b, n + 1), g, n + 1)
        BY <2>1, FreshSend, Zenon
      <3>5. Fresh(x, y, g, n + 1)
        BY <3>3, <3>4, Zenon
      <3> QED BY <3>1, <3>5, Zenon DEF x, y, g
    <2> QED BY <2>2, <2>3, Zenon
  <1> QED BY <1>1, <1>3, <1>5, <1>6, Zenon DEF MessageInv

\* A delivery moves the first message of a connection to those received.
LEMMA DeliverStep ==
    ASSUME MessageInv, NEW c \in Pairs, NEW j \in Ends(c), Deliver(c, j)
    PROVE  MessageInv' /\ Channel!LcNext
  <1> DEFINE p == IF j = c[1] THEN Back(c) ELSE c
             q == queue[c][j]
             r == queue[Back(c)][j]
             g == got[p[2]][p[1]]
             n == sent[p[1]]
  <1>1. /\ p \in Pairs /\ p[1] \in Nodes /\ p[2] = j /\ j \in Nodes /\ p[1] # j
        /\ p[1] = IF j = c[1] THEN c[2] ELSE c[1]
    BY PairType, Zenon DEF Ends
  <1>2. /\ q # <<>> /\ sent' = sent
        /\ got' = [got EXCEPT ![j][p[1]] = Append(@, Head(q))]
        /\ queue' = [queue EXCEPT ![c][j] = Tail(@)]
    <2>1. (IF j = c[1] THEN c[2] ELSE c[1]) = p[1]
      BY <1>1, Zenon
    <2> QED BY <2>1, Zenon DEF Deliver
  <1>3. /\ Back(c) \in Pairs /\ Back(c) # c
        /\ p = c \/ (p = Back(c) /\ Back(p) = c)
    BY PairType, Zenon
  <1>4. /\ q \in Seq(Nat) /\ r \in Seq(Nat) /\ g \in Seq(Nat) /\ n \in Nat
        /\ Fresh(q, r, g, n)
    <2>1. /\ queue[p][j] \in Seq(Nat) /\ queue[Back(p)][j] \in Seq(Nat) /\ g \in Seq(Nat)
          /\ n \in Nat /\ Fresh(queue[p][j], queue[Back(p)][j], g, n)
      BY <1>1, MessageTypes, Zenon
    <2>2. CASE p = c
      BY <2>1, <2>2, Zenon
    <2>3. CASE p = Back(c) /\ Back(p) = c
      <3>1. r \in Seq(Nat) /\ q \in Seq(Nat) /\ g \in Seq(Nat) /\ n \in Nat /\ Fresh(r, q, g, n)
        BY <2>1, <2>3, Zenon
      <3> HIDE DEF p, q, r, g, n
      <3> QED BY <3>1, FreshTake, Zenon
    <2> QED BY <1>3, <2>2, <2>3, Zenon
  <1>5. /\ Fresh(Tail(q), r, Append(g, Head(q)), n)
        /\ Head(q) \in 1 .. n /\ \A k \in DOMAIN g : g[k] # Head(q)
        /\ Head(q) \in Nat /\ Tail(q) \in Seq(Nat) /\ Append(g, Head(q)) \in Seq(Nat)
    <2> HIDE DEF p, q, r, g, n
    <2>1. /\ Fresh(Tail(q), r, Append(g, Head(q)), n)
          /\ Head(q) \in 1 .. n /\ \A k \in DOMAIN g : g[k] # Head(q)
      BY <1>2, <1>4, FreshTake, Zenon
    <2>2. Head(q) \in Nat /\ Tail(q) \in Seq(Nat) /\ Append(g, Head(q)) \in Seq(Nat)
      BY <1>2, <1>4
    <2> QED BY <2>1, <2>2
  <1>6. Fresh(r, Tail(q), Append(g, Head(q)), n)
    <2> HIDE DEF p, q, r, g, n
    <2> QED BY <1>4, <1>5, FreshTake, Zenon
  <1>7. Channel!LcReceive(p[1], j, Head(q))
    BY <1>1, <1>2, <1>5, Zenon DEF Channel!LcReceive
  <1>8. Channel!LcNext
    BY <1>1, <1>5, <1>7, Zenon DEF Channel!LcNext
  <1>9. /\ queue' \in [Pairs -> [Nodes -> Seq(Nat)]]
        /\ got' \in [Nodes -> [Nodes -> Seq(Nat)]]
    <2>1. queue' \in [Pairs -> [Nodes -> Seq(Nat)]]
      BY <1>1, <1>2, <1>5, Zenon DEF MessageInv
    <2>2. got' \in [Nodes -> [Nodes -> Seq(Nat)]]
      BY <1>1, <1>2, <1>5, Zenon DEF MessageInv
    <2> QED BY <2>1, <2>2
  <1>10. /\ queue'[c][j] = Tail(q) /\ queue'[Back(c)][j] = r
         /\ got'[j][p[1]] = Append(g, Head(q))
    BY <1>1, <1>2, <1>3, Zenon DEF MessageInv
  <1>11. ASSUME NEW s \in Pairs
         PROVE  Fresh(queue'[s][s[2]], queue'[Back(s)][s[2]], got'[s[2]][s[1]], sent'[s[1]])
    <2>1. CASE s = p
      <3>1. CASE p = c
        BY <1>1, <1>2, <1>5, <1>10, <2>1, <3>1, Zenon
      <3>2. CASE p = Back(c) /\ Back(p) = c
        BY <1>1, <1>2, <1>6, <1>10, <2>1, <3>2, Zenon
      <3> QED BY <1>3, <3>1, <3>2, Zenon
    <2>2. CASE s # p
      <3>1. s[1] \in Nodes /\ s[2] \in Nodes /\ Back(s) \in Pairs
        BY PairType, Zenon
      <3>2. ~(s[2] = j /\ s[1] = p[1])
        BY <1>1, <2>2, PairEqual, Zenon
      <3>3. ~(s = c /\ s[2] = j) /\ ~(Back(s) = c /\ s[2] = j)
        <4>1. ~(s = c /\ s[2] = j)
          BY <2>2, PairType, Zenon
        <4>2. ~(Back(s) = c /\ s[2] = j)
          BY <2>2, PairType, Zenon
        <4> QED BY <4>1, <4>2
      <3>4. /\ queue'[s][s[2]] = queue[s][s[2]]
            /\ queue'[Back(s)][s[2]] = queue[Back(s)][s[2]]
        BY <1>2, <3>1, <3>3, Zenon DEF MessageInv
      <3>5. got'[s[2]][s[1]] = got[s[2]][s[1]]
        BY <1>1, <1>2, <3>1, <3>2, Zenon DEF MessageInv
      <3> QED BY <1>2, <3>4, <3>5, MessageTypes, Zenon
    <2> QED BY <2>1, <2>2
  <1> QED BY <1>2, <1>8, <1>9, <1>11, Zenon DEF MessageInv

\* Every step of the connections is a step of the channel, or none.
LEMMA ChannelStep ==
    PeersTypeOK /\ MessageInv /\ [Next]_vars => MessageInv' /\ [Channel!LcNext]_<<sent, got>>
  <1> SUFFICES ASSUME PeersTypeOK, MessageInv, [Next]_vars
               PROVE  MessageInv' /\ [Channel!LcNext]_<<sent, got>>
    OBVIOUS
  <1>1. CASE UNCHANGED <<queue, sent, got>>
    BY <1>1, Zenon DEF MessageInv
  <1>2. ASSUME NEW c \in Pairs, Break(c) PROVE MessageInv' /\ UNCHANGED <<sent, got>>
    BY <1>2, CloseStep, Zenon DEF Break
  <1>3. ASSUME NEW i \in Nodes, Restart(i) PROVE MessageInv' /\ UNCHANGED <<sent, got>>
    BY <1>3, CloseStep, Zenon DEF Restart
  <1>4. ASSUME NEW i \in Nodes, Broadcast(i) PROVE MessageInv' /\ Channel!LcNext
    BY <1>4, BroadcastStep, Zenon DEF Channel!LcNext
  <1>5. ASSUME NEW c \in Pairs, NEW j \in Ends(c), Deliver(c, j)
        PROVE  MessageInv' /\ Channel!LcNext
    BY <1>5, DeliverStep, Zenon
  <1>6. ASSUME NEW c \in Pairs,
               Connect(c) \/ AcceptHello(c) \/ AcceptGhost(c) \/ ReadReply(c)
               \/ RetryConnect(c) \/ ConnectInsert(c)
        PROVE  UNCHANGED <<queue, sent, got>>
    BY <1>6, Zenon DEF Connect, AcceptHello, AcceptGhost, ReadReply, RetryConnect, ConnectInsert
  <1>7. ASSUME NEW j \in Nodes, AcceptInsert(j) PROVE UNCHANGED <<queue, sent, got>>
    BY <1>7, Zenon DEF AcceptInsert
  <1>8. CASE UNCHANGED vars
    BY <1>1, <1>8, Zenon DEF vars
  <1> QED BY <1>1, <1>2, <1>3, <1>4, <1>5, <1>6, <1>7, <1>8, Zenon DEF Next

\* Between any number of nodes, with two connections for each pair, both of them
\* read, and through lost connections and restarts: what broadcast and the threads
\* of spawn_peer do implements the lossy channel, in which nothing arrives that
\* was not sent and nothing arrives twice.
THEOREM ChannelTheorem == Spec => ImplementsChannel
  BY PeersInit, MessageInit, TypeStep, ChannelStep, PTL
  DEF Spec, ImplementsChannel, Channel!LcSpec
==============================================================================
