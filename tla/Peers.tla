-------------------------------- MODULE Peers --------------------------------
(***************************************************************************)
(* The connections between nodes (Network in bft/node.rs).  Every node     *)
(* connects to every other one and accepts their connections, so that a    *)
(* pair has two; the map of peers holds the one that was inserted last,    *)
(* and all of them are read.  A connection may break, and a process may    *)
(* crash and be started again.                                             *)
(*                                                                         *)
(* <<i, j>> is the connection that i opens to j.  At most one of them is   *)
(* alive: the thread of i opens the next when the last one failed.         *)
(***************************************************************************)
EXTENDS Integers, Sequences

CONSTANTS
    Nodes,
    None,          \* no entry in a map
    Dead,          \* the sender of a connection that is closed
    MaxMessages,   \* bound on the broadcasts of a node
    MaxBreaks,     \* bound on broken connections
    MaxRestarts    \* bound on restarts

ASSUME PeersAssumption ==
    /\ None # Dead /\ None \notin Nodes
    /\ \A i, j \in Nodes : <<i, j>> \notin {None, Dead}
    /\ MaxMessages \in Nat /\ MaxBreaks \in Nat /\ MaxRestarts \in Nat

VARIABLES
    connector,   \* the thread of connect_peers for each pair: try, wait, insert, done
    acceptor,    \* the accept loop of each node: idle, or whom it has yet to insert
    wire,        \* each connection: none, hello, replied, up
    ghosts,      \* closed connections that an accept loop has yet to take
    queue,       \* queue[c][j]: messages under way to j on connection c
    peers,       \* peers[i][j]: a connection, Dead or None
    sent, got,   \* the messages broadcast and received
    breaks, restarts,
    lost,        \* history: the entries of maps that a lost connection has made useless
    stale        \* history: a thread of connect_peers inserted a closed connection

vars == <<connector, acceptor, wire, ghosts, queue, peers, sent, got, breaks, restarts, lost, stale>>

Pairs == {p \in Nodes \X Nodes : p[1] # p[2]}
Ends(c) == {c[1], c[2]}
Idle == [peer |-> None, conn |-> None]

Init ==
    /\ connector = [c \in Pairs |-> "try"]
    /\ acceptor = [i \in Nodes |-> Idle]
    /\ wire = [c \in Pairs |-> "none"]
    /\ ghosts = {}
    /\ queue = [c \in Pairs |-> [j \in Nodes |-> <<>>]]
    /\ peers = [i \in Nodes |-> [j \in Nodes |-> None]]
    /\ sent = [i \in Nodes |-> 0]
    /\ got = [j \in Nodes |-> [i \in Nodes |-> <<>>]]
    /\ breaks = 0 /\ restarts = 0
    /\ lost = {} /\ stale = FALSE

-----------------------------------------------------------------------------
\* make_client_stream and the first half of handshake_connect.
Connect(c) ==
    /\ connector[c] = "try"
    /\ connector' = [connector EXCEPT ![c] = "wait"]
    /\ wire' = [wire EXCEPT ![c] = "hello"]
    /\ UNCHANGED <<ghosts, acceptor, queue, peers, sent, got, breaks, restarts, lost, stale>>

\* The accept loop serves one connection at a time: handshake_accept answers the
\* hello, and spawn_peer starts to read and write.
AcceptHello(c) ==
    /\ wire[c] = "hello" /\ c \notin ghosts
    /\ acceptor[c[2]] = Idle
    /\ wire' = [wire EXCEPT ![c] = "replied"]
    /\ acceptor' = [acceptor EXCEPT ![c[2]] = [peer |-> c[1], conn |-> c]]
    /\ UNCHANGED <<ghosts, connector, queue, peers, sent, got, breaks, restarts, lost, stale>>

\* A process that ended after its hello left it to be read: the loop accepts the
\* connection, which leads nowhere, before the next one of that node.
AcceptGhost(c) ==
    /\ c \in ghosts
    /\ acceptor[c[2]] = Idle
    /\ ghosts' = ghosts \ {c}
    /\ acceptor' = [acceptor EXCEPT ![c[2]] = [peer |-> c[1], conn |-> Dead]]
    /\ UNCHANGED <<connector, wire, queue, peers, sent, got, breaks, restarts, lost, stale>>

\* Then the loop takes the lock and inserts the sender.
AcceptInsert(j) ==
    /\ acceptor[j] # Idle
    /\ peers' = [peers EXCEPT ![j][acceptor[j].peer] = acceptor[j].conn]
    /\ acceptor' = [acceptor EXCEPT ![j] = Idle]
    /\ UNCHANGED <<connector, wire, ghosts, queue, sent, got, breaks, restarts, lost, stale>>

\* handshake_connect reads the answer, and spawn_peer starts.
ReadReply(c) ==
    /\ connector[c] = "wait" /\ wire[c] = "replied"
    /\ connector' = [connector EXCEPT ![c] = "insert"]
    /\ wire' = [wire EXCEPT ![c] = "up"]
    /\ UNCHANGED <<ghosts, acceptor, queue, peers, sent, got, breaks, restarts, lost, stale>>

\* The handshake failed: the thread sleeps and tries again.
RetryConnect(c) ==
    /\ connector[c] = "wait" /\ wire[c] = "none"
    /\ connector' = [connector EXCEPT ![c] = "try"]
    /\ UNCHANGED <<ghosts, acceptor, wire, queue, peers, sent, got, breaks, restarts, lost, stale>>

\* Defective ConnectInsert: the connection it replaces is closed.
ReplaceAndClose(c) ==
    LET old == {d \in Pairs : d # c /\ peers[c[1]][c[2]] = d}
    IN  /\ connector[c] = "insert"
        /\ peers' = [i \in Nodes |-> [j \in Nodes |->
                        IF <<i, j>> = c THEN IF wire[c] = "up" THEN c ELSE Dead
                        ELSE IF peers[i][j] \in old THEN Dead ELSE peers[i][j]]]
        /\ connector' = [connector EXCEPT ![c] = "done"]
        /\ wire' = [d \in Pairs |-> IF d \in old THEN "none" ELSE wire[d]]
        /\ queue' = [d \in Pairs |-> [j \in Nodes |->
                        IF d \in old THEN <<>> ELSE queue[d][j]]]
        /\ stale' = (stale \/ wire[c] # "up")
        /\ UNCHANGED <<ghosts, acceptor, sent, got, breaks, restarts, lost>>

\* The thread inserts the sender and ends.
ConnectInsert(c) ==
    /\ connector[c] = "insert"
    /\ peers' = [peers EXCEPT ![c[1]][c[2]] = IF wire[c] = "up" THEN c ELSE Dead]
    /\ connector' = [connector EXCEPT ![c] = "done"]
    /\ stale' = (stale \/ wire[c] # "up")
    /\ UNCHANGED <<ghosts, acceptor, wire, queue, sent, got, breaks, restarts, lost>>

\* Defective Broadcast: every connection of a pair is used.
BroadcastOnAll(i) ==
    /\ sent[i] < MaxMessages
    /\ sent' = [sent EXCEPT ![i] = @ + 1]
    /\ queue' = [c \in Pairs |-> [j \in Nodes |->
                    IF i \in Ends(c) /\ j \in Ends(c) \ {i} /\ wire[c] = "up"
                    THEN Append(queue[c][j], sent[i] + 1) ELSE queue[c][j]]]
    /\ UNCHANGED <<ghosts, connector, acceptor, wire, peers, got, breaks, restarts, lost, stale>>

\* broadcast: one channel for each peer in the map; an error is ignored.
Broadcast(i) ==
    /\ sent[i] < MaxMessages
    /\ sent' = [sent EXCEPT ![i] = @ + 1]
    /\ queue' = [c \in Pairs |-> [j \in Nodes |->
                    IF peers[i][j] = c THEN Append(queue[c][j], sent[i] + 1) ELSE queue[c][j]]]
    /\ UNCHANGED <<ghosts, connector, acceptor, wire, peers, got, breaks, restarts, lost, stale>>

\* The loop of spawn_peer at both ends: whole messages, in the order of the
\* stream, whether or not the map still holds the connection.
Deliver(c, j) ==
    /\ queue[c][j] # <<>>
    /\ wire[c] = "up" \/ (wire[c] = "replied" /\ j = c[2])
    /\ LET i == IF j = c[1] THEN c[2] ELSE c[1]
       IN  got' = [got EXCEPT ![j][i] = Append(@, Head(queue[c][j]))]
    /\ queue' = [queue EXCEPT ![c][j] = Tail(@)]
    /\ UNCHANGED <<ghosts, connector, acceptor, wire, peers, sent, breaks, restarts, lost, stale>>

-----------------------------------------------------------------------------
\* Closing connections: the threads of spawn_peer return and their channels are
\* gone; the maps, and inserts yet to come, keep senders that lead nowhere.
CloseAll(cs) ==
    /\ wire' = [c \in Pairs |-> IF c \in cs THEN "none" ELSE wire[c]]
    /\ queue' = [c \in Pairs |-> [j \in Nodes |-> IF c \in cs THEN <<>> ELSE queue[c][j]]]

Stale(cs, sender) == IF sender \in cs THEN Dead ELSE sender

\* The entries that hold the connection in maps that no thread is about to change.
Settled(c) ==
    {p \in Pairs : /\ peers[p[1]][p[2]] = c
                   /\ connector[p] = "done" /\ connector[<<p[2], p[1]>>] = "done"
                   /\ acceptor[p[1]].peer # p[2]}

\* Defective Break: the thread connects again.
BreakAndReconnect(c) ==
    /\ breaks < MaxBreaks /\ wire[c] # "none"
    /\ breaks' = breaks + 1
    /\ CloseAll({c})
    /\ peers' = [i \in Nodes |-> [j \in Nodes |-> Stale({c}, peers[i][j])]]
    /\ acceptor' = [i \in Nodes |-> [acceptor[i] EXCEPT !.conn = Stale({c}, @)]]
    /\ connector' = [connector EXCEPT ![c] = "try"]
    /\ lost' = lost \cup Settled(c)
    /\ UNCHANGED <<ghosts, sent, got, restarts, stale>>

\* A connection is lost.  Nobody opens it again once its thread is done.
Break(c) ==
    /\ breaks < MaxBreaks /\ wire[c] # "none"
    /\ breaks' = breaks + 1
    /\ CloseAll({c})
    /\ peers' = [i \in Nodes |-> [j \in Nodes |-> Stale({c}, peers[i][j])]]
    /\ acceptor' = [i \in Nodes |-> [acceptor[i] EXCEPT !.conn = Stale({c}, @)]]
    /\ lost' = lost \cup Settled(c)
    /\ UNCHANGED <<ghosts, connector, sent, got, restarts, stale>>

\* Defective Restart: the process does not call connect_peers.
RestartWithoutConnect(i) ==
    LET cs == {c \in Pairs : i \in Ends(c)}
    IN  /\ restarts < MaxRestarts
        /\ restarts' = restarts + 1
        /\ CloseAll(cs)
        /\ peers' = [k \in Nodes |-> [j \in Nodes |->
                        IF k = i THEN None ELSE Stale(cs, peers[k][j])]]
        /\ acceptor' = [k \in Nodes |->
                        IF k = i THEN Idle ELSE [acceptor[k] EXCEPT !.conn = Stale(cs, @)]]
        /\ connector' = [c \in Pairs |-> IF c[1] = i THEN "done" ELSE connector[c]]
        /\ ghosts' = {c \in ghosts : c[2] # i} \cup {c \in cs : c[1] = i /\ wire[c] = "hello"}
        /\ lost' = {p \in lost : i \notin Ends(p)}
        /\ UNCHANGED <<sent, got, breaks, stale>>

\* A process ends, which closes its connections, and is started again:
\* Network::start and connect_peers.
Restart(i) ==
    LET cs == {c \in Pairs : i \in Ends(c)}
    IN  /\ restarts < MaxRestarts
        /\ restarts' = restarts + 1
        /\ CloseAll(cs)
        /\ peers' = [k \in Nodes |-> [j \in Nodes |->
                        IF k = i THEN None ELSE Stale(cs, peers[k][j])]]
        /\ acceptor' = [k \in Nodes |->
                        IF k = i THEN Idle ELSE [acceptor[k] EXCEPT !.conn = Stale(cs, @)]]
        /\ connector' = [c \in Pairs |-> IF c[1] = i THEN "try" ELSE connector[c]]
        /\ ghosts' = {c \in ghosts : c[2] # i} \cup {c \in cs : c[1] = i /\ wire[c] = "hello"}
        /\ lost' = {p \in lost : i \notin Ends(p)}
        /\ UNCHANGED <<sent, got, breaks, stale>>

Next ==
    \/ \E c \in Pairs : \/ Connect(c) \/ AcceptHello(c) \/ AcceptGhost(c) \/ ReadReply(c)
                        \/ RetryConnect(c) \/ ConnectInsert(c) \/ Break(c)
    \/ \E i \in Nodes : AcceptInsert(i) \/ Broadcast(i) \/ Restart(i)
    \/ \E c \in Pairs : \E j \in Ends(c) : Deliver(c, j)

\* The threads keep running; connections need not break, nor nodes broadcast.
Fairness ==
    /\ \A c \in Pairs : /\ WF_vars(Connect(c)) /\ WF_vars(AcceptHello(c)) /\ WF_vars(AcceptGhost(c))
                        /\ WF_vars(ReadReply(c)) /\ WF_vars(RetryConnect(c))
                        /\ WF_vars(ConnectInsert(c))
    /\ \A i \in Nodes : WF_vars(AcceptInsert(i))
    /\ \A c \in Pairs : \A j \in Ends(c) : WF_vars(Deliver(c, j))

Spec == Init /\ [][Next]_vars /\ Fairness

-----------------------------------------------------------------------------
\* The connections implement the lossy channel: though a pair has two of them
\* and both are read, no message arrives twice.
Channel == INSTANCE LossyChannel
ImplementsChannel == Channel!LcSpec

Live(i, j) == peers[i][j] \notin {None, Dead}

\* Nodes that start at different times, crash and start again end up with a live
\* connection in every map, unless a connection was lost or a thread inserted
\* one that was closed by then, over a newer one (connect_peers, accept loop).
EveryoneConnects ==
    <>(breaks > 0 \/ stale) \/ <>[](\A c \in Pairs : Live(c[1], c[2]))

Holds(messages, m) == \E k \in DOMAIN messages : messages[k] = m

\* A message handed to a live connection is received, even when another
\* connection takes its place in the map, unless one is lost or a process ends
\* (the thread of spawn_peer lives on after its sender is dropped).
QueuedArrives ==
    \A c \in Pairs : \A j \in Ends(c) : \A m \in 1 .. MaxMessages :
        Holds(queue[c][j], m) ~>
            \/ \E i \in Ends(c) \ {j} : Holds(got[j][i], m)
            \/ breaks + restarts > 0

\* A lost connection is not made up for: an entry that held it leads nowhere until
\* a process of the pair restarts, even when the other connection of the pair is
\* up (the threads of connect_peers end with their first success).
LostForGood == \A p \in lost : peers[p[1]][p[2]] = Dead
=============================================================================
