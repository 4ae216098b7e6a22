---------------------------------- MODULE Bus ----------------------------------
(***************************************************************************)
(* The message bus and its MQTT connections (rustnative-sync, bus.rs and   *)
(* mqtt.rs): the broker's session of one client, the broker's task for     *)
(* each of the client's connections, the client, and a network that breaks *)
(* connections.                                                            *)
(*                                                                         *)
(* Sessions of different clients share nothing but retained values, so one *)
(* client is modelled, publishing and subscribing over MQTT, besides other *)
(* publishers in the broker's process (LocalBus).  There is one topic: a   *)
(* filter matches it or is not there.  Each call of a Broker method is one *)
(* step (it holds the broker's lock), and each packet read or written.     *)
(* Wills go to another topic, which the client does not follow.            *)
(***************************************************************************)
EXTENDS Integers, Sequences, FiniteSetsExt, SequencesExt

CONSTANTS
    Qos,        \* the QoS level of each message, in the order they are published
    Retain,     \* the messages with the retain flag
    Grants,     \* QoS levels the client subscribes with
    Clean,      \* clean_session flags the client connects with
    NumConns,   \* connections that exist at once; a closed one is used again
    MaxBreaks   \* bound: connections the client leaves or the keep-alive ends

ASSUME BusAssumption ==
    /\ Qos \in Seq(0..2) /\ Retain \subseteq DOMAIN Qos
    /\ Grants \subseteq 0..2 /\ Clean \subseteq BOOLEAN
    /\ {NumConns, MaxBreaks} \subseteq Nat

VARIABLES
    session,         \* the broker's Session of the client
    retained,        \* the topic's retained message
    delivered_once,  \* packet ids of the client's exactly-once publications
    conns,           \* connections: the broker's task, the socket, the client's end
    current,         \* the client's connection
    published,       \* messages published so far
    breaks,
    got,             \* history: messages the client's application received
    owed,            \* history: messages the session has promised to deliver
    acked,           \* history: deliveries whose last acknowledgement the broker read
    lost             \* history: messages dropped on the ways named at Drop and ReadPublish

vars == <<session, retained, delivered_once, conns, current, published, breaks,
          got, owed, acked, lost>>

Messages == DOMAIN Qos
Conns == 1..NumConns
None == 0

NoSession == [exists |-> FALSE, subscription |-> -1, queued |-> <<>>, online |-> None,
              clean |-> FALSE]
FreeConn == [at |-> "free", clean |-> FALSE, gone |-> FALSE, up |-> <<>>, down |-> <<>>,
             deliveries |-> <<>>, inflight |-> <<>>, next_id |-> 0, client_id |-> 0,
             seen |-> {}]

\* A delivery: the message and the QoS it is delivered with.
Delivery == Messages \X (0..2)

TypeOK ==
    /\ session.exists \/ session = NoSession
    /\ session.subscription \in -1..2 /\ session.queued \in Seq(Delivery)
    /\ session.online # None => conns[session.online].at \in {"open", "requeue", "drop"}
    /\ retained \in Messages \union {None} /\ published \in 0..Len(Qos)
    /\ \A c \in Conns :
           /\ conns[c].at \in {"free", "hello", "open", "requeue", "drop", "closed"}
           /\ conns[c].at = "free" => conns[c] = FreeConn
           /\ conns[c].gone <=> conns[c].at # "free" /\ current # c
           /\ conns[c].deliveries \in Seq(Delivery)
           /\ \A f \in ToSet(conns[c].inflight) : f.id \in 1..conns[c].next_id /\ f.qos > 0
    /\ (owed \union acked \union lost) \subseteq 1..published

Init ==
    /\ session = NoSession /\ retained = None /\ delivered_once = {}
    /\ conns = [c \in Conns |-> FreeConn] /\ current = None
    /\ published = 0 /\ breaks = 0
    /\ got = {} /\ owed = {} /\ acked = {} /\ lost = {}

-----------------------------------------------------------------------------
(* The broker's operations, on the session and the connections. *)

\* What a publication does to the session, <<session, connections>>: to the
\* connection if there is one, else to the queue of a persistent session.
Queues(qos) == ~session.clean /\ qos # 0

Delivered(m) ==
    LET qos == Min({Qos[m], session.subscription})
        c   == session.online
    IN  IF session.subscription = -1 THEN <<session, conns>>
        ELSE IF c # None THEN <<session, [conns EXCEPT ![c].deliveries = Append(@, <<m, qos>>)]>>
        ELSE IF Queues(qos) THEN <<[session EXCEPT !.queued = Append(@, <<m, qos>>)], conns>>
        ELSE <<session, conns>>

\* A persistent session with a subscription owes its client the message.
Owes(m) ==
    IF ~session.clean /\ session.subscription # -1 /\ Min({Qos[m], session.subscription}) > 0
      THEN owed \union {m} ELSE owed

Kept(m) == IF m \in Retain THEN m ELSE retained

\* The next message, published by another client of the broker.
LocalPublish ==
    LET m == published + 1  after == Delivered(m) IN
    /\ published < Len(Qos)
    /\ published' = m
    /\ session' = after[1] /\ conns' = after[2]
    /\ retained' = Kept(m)
    /\ owed' = Owes(m)
    /\ UNCHANGED <<delivered_once, current, breaks, got, acked, lost>>

\* Broker::connect: a clean session starts anew, a persistent one hands over
\* what was queued.
MutDrained(c) == <<>>
Drained(c) == IF conns[c].clean THEN <<>> ELSE session.queued

Accept(c) ==
    /\ conns[c].at = "hello"
    /\ conns' = [conns EXCEPT ![c].at = "open", ![c].deliveries = Drained(c)]
    /\ session' = [exists |-> TRUE, queued |-> <<>>, online |-> c, clean |-> conns[c].clean,
                   subscription |-> IF conns[c].clean THEN -1 ELSE session.subscription]
    /\ owed' = IF conns[c].clean THEN {} ELSE owed
    /\ UNCHANGED <<retained, delivered_once, current, published, breaks, got, acked, lost>>

-----------------------------------------------------------------------------
(* A connection's task in the broker. *)

To(c, packet) == IF conns[c].gone THEN conns[c].down ELSE Append(conns[c].down, packet)

\* The next delivery is written, and kept until it is acknowledged.
Deliver(c) ==
    LET d == Head(conns[c].deliveries)
        id == IF d[2] = 0 THEN conns[c].next_id ELSE conns[c].next_id + 1
        packet == [type |-> "publish", message |-> d[1], qos |-> d[2], id |-> id]
    IN  /\ conns[c].at = "open" /\ conns[c].deliveries # <<>>
        /\ conns' = [conns EXCEPT ![c].deliveries = Tail(@), ![c].next_id = id,
               ![c].inflight = IF d[2] = 0 THEN @ ELSE Append(@, packet),
               ![c].down = To(c, packet)]
        /\ UNCHANGED <<session, retained, delivered_once, current, published, breaks,
                       got, owed, acked, lost>>

\* PUBLISH from the client: an exactly-once packet id seen before is taken
\* for a retransmission, also when it is from an earlier connection.
Repeated(c, packet) == packet.qos = 2 /\ packet.id \in delivered_once

ReadPublish(c) ==
    LET packet == Head(conns[c].up)
        m      == packet.message
        after  == IF Repeated(c, packet) THEN <<session, conns>> ELSE Delivered(m)
        reply  == [type |-> IF packet.qos = 2 THEN "pubrec" ELSE "puback", id |-> packet.id]
    IN  /\ conns[c].at = "open" /\ conns[c].up # <<>> /\ packet.type = "publish"
        /\ session' = after[1]
        /\ conns' = [after[2] EXCEPT ![c].up = Tail(@),
                                     ![c].down = IF packet.qos = 0 THEN @ ELSE To(c, reply)]
        /\ delivered_once' = IF packet.qos = 2 THEN delivered_once \union {packet.id}
                                               ELSE delivered_once
        /\ retained' = IF Repeated(c, packet) THEN retained ELSE Kept(m)
        /\ owed' = Owes(m)
        /\ lost' = IF Repeated(c, packet) THEN lost \union {m} ELSE lost
        /\ UNCHANGED <<current, published, breaks, got, acked>>

\* PUBACK and PUBCOMP end a delivery: its id is removed from the map.
Without(inflight, id) ==
    LET at == {k \in DOMAIN inflight : inflight[k].id = id}
    IN  IF at = {} THEN inflight ELSE RemoveAt(inflight, CHOOSE k \in at : TRUE)

MutFinished(c, id) == IF Head(conns[c].up).type = "puback" THEN Without(conns[c].inflight, id)
                                                            ELSE conns[c].inflight
Finished(c, id) == Without(conns[c].inflight, id)

ReadAck(c) ==
    LET packet == Head(conns[c].up) IN
    /\ conns[c].at = "open" /\ conns[c].up # <<>> /\ packet.type \in {"puback", "pubcomp"}
    /\ conns' = [conns EXCEPT ![c].up = Tail(@), ![c].inflight = Finished(c, packet.id)]
    /\ acked' = acked \union {f.message : f \in {f \in ToSet(conns[c].inflight) : f.id = packet.id}}
    /\ UNCHANGED <<session, retained, delivered_once, current, published, breaks,
                   got, owed, lost>>

\* PUBREC is answered with PUBREL, and PUBREL with PUBCOMP.
Answer == [pubrec |-> "pubrel", pubrel |-> "pubcomp"]

ReadStep(c) ==
    LET packet == Head(conns[c].up) IN
    /\ conns[c].at = "open" /\ conns[c].up # <<>> /\ packet.type \in DOMAIN Answer
    /\ conns' = [conns EXCEPT ![c].up = Tail(@),
                              ![c].down = To(c, [type |-> Answer[packet.type], id |-> packet.id])]
    /\ UNCHANGED <<session, retained, delivered_once, current, published, breaks,
                   got, owed, acked, lost>>

\* Broker::subscribe: the retained value is delivered at once to the
\* session's connection, which may be a newer one.
ReadSubscribe(c) ==
    LET packet == Head(conns[c].up)  o == session.online IN
    /\ conns[c].at = "open" /\ conns[c].up # <<>> /\ packet.type = "subscribe"
    /\ session' = IF session.exists THEN [session EXCEPT !.subscription = packet.qos] ELSE session
    /\ conns' = LET read == [conns EXCEPT ![c].up = Tail(@)] IN
                IF o # None /\ retained # None
                  THEN [read EXCEPT ![o].deliveries =
                           Append(@, <<retained, Min({Qos[retained], packet.qos})>>)]
                  ELSE read
    /\ UNCHANGED <<retained, delivered_once, current, published, breaks,
                   got, owed, acked, lost>>

\* DISCONNECT, a broken socket, the keep-alive of a connection where nothing
\* is on its way, or a sender dropped by a newer connection end the loop.
Goodbye(c) == conns[c].up # <<>> /\ Head(conns[c].up).type = "disconnect"
SilentFor(c) == conns[c].up = <<>> /\ conns[c].down = <<>> /\ conns[c].deliveries = <<>>
Replaced(c) == session.online # c /\ conns[c].deliveries = <<>>

End(c) ==
    /\ conns[c].at = "open"
    /\ \/ (Goodbye(c) \/ conns[c].gone \/ Replaced(c)) /\ UNCHANGED breaks
       \/ SilentFor(c) /\ breaks < MaxBreaks /\ breaks' = breaks + 1
    /\ conns' = [conns EXCEPT ![c].at = "requeue", ![c].up = <<>>]
    /\ UNCHANGED <<session, retained, delivered_once, current, published,
                   got, owed, acked, lost>>

\* Broker::requeue.
MutRequeued(c) == <<>>
Requeued(c) == [k \in DOMAIN conns[c].inflight |->
                    <<conns[c].inflight[k].message, conns[c].inflight[k].qos>>]

Requeue(c) ==
    /\ conns[c].at = "requeue"
    /\ conns' = [conns EXCEPT ![c].at = "drop", ![c].inflight = <<>>]
    /\ session' = IF session.exists /\ ~session.clean
                    THEN [session EXCEPT !.queued = @ \o Requeued(c)] ELSE session
    /\ UNCHANGED <<retained, delivered_once, current, published, breaks,
                   got, owed, acked, lost>>

\* Broker::disconnect or lost takes the session offline, whichever connection
\* it has; what is still in this connection's channel is dropped with it.
Offline == [session EXCEPT !.online = None]

Drop(c) ==
    /\ conns[c].at = "drop"
    /\ session' = IF session.clean \/ ~session.exists THEN NoSession
                  ELSE Offline
    /\ lost' = lost \union {conns[c].deliveries[k][1] : k \in DOMAIN conns[c].deliveries}
    /\ conns' = [conns EXCEPT ![c] =
           IF conns[c].gone THEN FreeConn
           ELSE [FreeConn EXCEPT !.at = "closed", !.down = conns[c].down, !.seen = conns[c].seen]]
    /\ UNCHANGED <<retained, delivered_once, current, published, breaks, got, owed, acked>>

-----------------------------------------------------------------------------
(* The client, MqttClient: its application connects again when its           *)
(* connection has ended.                                                     *)

Connect ==
    /\ current = None
    /\ \E c \in Conns, clean \in Clean :
           /\ conns[c].at = "free" /\ \A d \in 1..(c - 1) : conns[d].at # "free"
           /\ current' = c
           /\ conns' = [conns EXCEPT ![c] = [FreeConn EXCEPT !.at = "hello", !.clean = clean]]
    /\ UNCHANGED <<session, retained, delivered_once, published, breaks, got, owed, acked, lost>>

\* Past the handshake, the application may write.
Connected == current # None /\ conns[current].at \notin {"hello", "closed"}
Write(packet) == [conns EXCEPT ![current].up = Append(@, packet),
                               ![current].client_id = packet.id]

ClientPublish ==
    LET m == published + 1
        id == IF Qos[m] = 0 THEN conns[current].client_id ELSE conns[current].client_id + 1
    IN  /\ published < Len(Qos) /\ Connected
        /\ published' = m
        /\ conns' = Write([type |-> "publish", message |-> m, qos |-> Qos[m], id |-> id])
        /\ UNCHANGED <<session, retained, delivered_once, current, breaks, got, owed, acked, lost>>

\* The application subscribes at most once on a connection, and then before
\* it publishes what takes a packet id.
ClientSubscribe ==
    /\ Connected /\ conns[current].client_id = 0
    /\ \E qos \in Grants :
           conns' = Write([type |-> "subscribe", qos |-> qos, id |-> 1])
    /\ UNCHANGED <<session, retained, delivered_once, current, published, breaks,
                   got, owed, acked, lost>>

\* The reader task: a message is handed to the application, then answered.
Reply(packet) ==
    CASE packet.type = "publish" /\ packet.qos = 1 -> <<[type |-> "puback", id |-> packet.id]>>
      [] packet.type = "publish" /\ packet.qos = 2 -> <<[type |-> "pubrec", id |-> packet.id]>>
      [] packet.type \in DOMAIN Answer -> <<[type |-> Answer[packet.type], id |-> packet.id]>>
      [] OTHER -> <<>>

Handed(c, packet) == packet.type = "publish" /\ ~(packet.qos = 2 /\ packet.id \in conns[c].seen)

ClientRead ==
    LET c == current  packet == Head(conns[c].down) IN
    /\ c # None /\ conns[c].down # <<>>
    /\ got' = IF Handed(c, packet) THEN got \union {packet.message} ELSE got
    /\ conns' = [conns EXCEPT
           ![c].down = Tail(@),
           ![c].up = IF conns[c].at \in {"requeue", "drop", "closed"} THEN @ ELSE @ \o Reply(packet),
           ![c].seen = CASE packet.type = "publish" /\ packet.qos = 2 -> @ \union {packet.id}
                         [] packet.type = "pubrel" -> @ \ {packet.id}
                         [] OTHER -> @]
    /\ UNCHANGED <<session, retained, delivered_once, current, published, breaks,
                   owed, acked, lost>>

\* The client leaves: the connection breaks, or it says goodbye first, or it
\* finds its connection closed.
Leave(up) ==
    /\ current' = None
    /\ conns' = [conns EXCEPT ![current] =
           IF conns[current].at = "closed" THEN FreeConn
           ELSE [conns[current] EXCEPT !.gone = TRUE, !.down = <<>>, !.up = @ \o up, !.seen = {}]]
    /\ UNCHANGED <<session, retained, delivered_once, published, got, owed, acked, lost>>

Break == /\ current # None /\ breaks < MaxBreaks /\ breaks' = breaks + 1
         /\ Leave(<<>>)
Disconnect == /\ Connected /\ breaks < MaxBreaks /\ breaks' = breaks + 1
              /\ Leave(<<[type |-> "disconnect", id |-> 0]>>)
Closed == /\ current # None /\ conns[current].at = "closed" /\ conns[current].down = <<>>
          /\ Leave(<<>>) /\ UNCHANGED breaks

-----------------------------------------------------------------------------

Task(c) ==
    \/ Accept(c) \/ Deliver(c) \/ ReadPublish(c) \/ ReadAck(c) \/ ReadStep(c)
    \/ ReadSubscribe(c) \/ End(c) \/ Requeue(c) \/ Drop(c)

Client == Connect \/ ClientRead \/ Closed

Next ==
    \/ LocalPublish \/ ClientPublish \/ ClientSubscribe \/ Break \/ Disconnect
    \/ Client
    \/ \E c \in Conns : Task(c)

\* The broker's tasks and the client's reader run, and the client's
\* application connects again.
Fairness == WF_vars(Client) /\ \A c \in Conns : WF_vars(Task(c))

Spec == Init /\ [][Next]_vars /\ Fairness

-----------------------------------------------------------------------------
(* Properties. *)

\* What the broker still holds for the client.
HeldBy(c) == {d[1] : d \in ToSet(conns[c].deliveries)}
               \union {f.message : f \in ToSet(conns[c].inflight)}
Held == {d[1] : d \in ToSet(session.queued)} \union UNION {HeldBy(c) : c \in Conns}

\* At least once: what a persistent session owes its client has been received
\* or is held for it, over broken connections, takeovers and returns; except
\* what was in the channel of a connection that ended, and an exactly-once
\* publication whose packet id an earlier connection had used.
NothingLost == owed \subseteq (got \union lost \union Held)

\* A delivery the client has acknowledged to the end is not delivered again,
\* on this connection or on a later one.  (A retained value is, to each
\* subscription.)
AckedIsFinished == (acked \ Retain) \intersect Held = {}

\* What is owed is received in the end, if the application keeps connecting.
Received ==
    \A m \in Messages : m \in owed ~> (m \in (got \union lost) \/ m \notin owed)
=============================================================================
