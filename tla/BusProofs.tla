------------------------------- MODULE BusProofs -------------------------------
(***************************************************************************)
(* Theorems about Bus, for any messages, subscriptions and connections:    *)
(* what a persistent session owes is received or held, and what was        *)
(* acknowledged is not held any more.                                      *)
(*                                                                         *)
(* The first argument is about each connection by itself: packet ids are   *)
(* used once, so that an answer the broker reads is about the delivery it  *)
(* keeps under that id, and the client answers only what its application   *)
(* has.  The second is about all of them and the queue: a message that is  *)
(* not retained is in one place, so that when its delivery is acknowledged *)
(* and forgotten there is no other.                                        *)
(***************************************************************************)
EXTENDS Bus, SequenceTheorems, TLAPS

-----------------------------------------------------------------------------
(* Sequences, and the sets of their elements. *)

LEMMA SetEmpty == ToSet(<<>>) = {} /\ \A S : <<>> \in Seq(S)
BY DEF ToSet

LEMMA SetAppend ==
    ASSUME NEW S, NEW s \in Seq(S), NEW x \in S
    PROVE  Append(s, x) \in Seq(S) /\ ToSet(Append(s, x)) = ToSet(s) \union {x}
<1>1. /\ Append(s, x) \in Seq(S) /\ DOMAIN Append(s, x) = 1..(Len(s) + 1)
      /\ \A i \in 1..Len(s) : Append(s, x)[i] = s[i]
      /\ Append(s, x)[Len(s) + 1] = x /\ DOMAIN s = 1..Len(s) /\ Len(s) \in Nat
  BY AppendProperties, LenProperties
<1>2. DOMAIN Append(s, x) = DOMAIN s \union {Len(s) + 1}
  BY <1>1
<1> DEFINE t == Append(s, x)
<1>3. \A i \in DOMAIN s : t[i] = s[i]
  BY <1>1
<1>4. t[Len(s) + 1] = x /\ DOMAIN t = DOMAIN s \union {Len(s) + 1} /\ t \in Seq(S)
  BY <1>1, <1>2
<1> HIDE DEF t
<1>5. ToSet(t) = ToSet(s) \union {x}
  <2>1. \A y \in ToSet(t) : y \in ToSet(s) \union {x}
    BY <1>3, <1>4 DEF ToSet
  <2>2. \A y \in ToSet(s) \union {x} : y \in ToSet(t)
    BY <1>3, <1>4 DEF ToSet
  <2> QED  BY <2>1, <2>2
<1> QED  BY <1>4, <1>5 DEF t

LEMMA SetTail ==
    ASSUME NEW S, NEW s \in Seq(S), s # <<>>
    PROVE  /\ Head(s) \in S /\ Tail(s) \in Seq(S)
           /\ ToSet(s) = {Head(s)} \union ToSet(Tail(s))
<1>1. /\ Head(s) = s[1] /\ Head(s) \in S /\ Tail(s) \in Seq(S) /\ DOMAIN s = 1..Len(s)
      /\ Len(s) \in Nat \ {0} /\ DOMAIN Tail(s) = 1..(Len(s) - 1)
      /\ \A i \in 1..(Len(s) - 1) : Tail(s)[i] = s[i + 1]
  BY HeadTailProperties, LenProperties, EmptySeq
<1>2. ASSUME NEW x \in ToSet(s) PROVE x = Head(s) \/ x \in ToSet(Tail(s))
  <2>1. PICK i \in DOMAIN s : x = s[i]
    BY <1>2 DEF ToSet
  <2>2. CASE i = 1
    BY <1>1, <2>1, <2>2
  <2>3. CASE i # 1
    <3>1. i - 1 \in 1..(Len(s) - 1) /\ (i - 1) + 1 = i
      BY <1>1, <2>1, <2>3
    <3> QED  BY <1>1, <2>1, <3>1 DEF ToSet
  <2> QED  BY <2>2, <2>3
<1>3. ASSUME NEW x \in ToSet(Tail(s)) PROVE x \in ToSet(s)
  <2>1. PICK i \in 1..(Len(s) - 1) : x = s[i + 1]
    BY <1>1, <1>3 DEF ToSet
  <2> QED  BY <1>1, <2>1 DEF ToSet
<1>4. Head(s) \in ToSet(s)
  BY <1>1 DEF ToSet
<1> QED  BY <1>1, <1>2, <1>3, <1>4

LEMMA SetConcat ==
    ASSUME NEW S, NEW s \in Seq(S), NEW t \in Seq(S)
    PROVE  s \o t \in Seq(S) /\ ToSet(s \o t) = ToSet(s) \union ToSet(t)
<1>1. /\ s \o t \in Seq(S) /\ DOMAIN (s \o t) = 1..(Len(s) + Len(t))
      /\ \A i \in 1..(Len(s) + Len(t)) :
             (s \o t)[i] = IF i <= Len(s) THEN s[i] ELSE t[i - Len(s)]
      /\ DOMAIN s = 1..Len(s) /\ DOMAIN t = 1..Len(t) /\ Len(s) \in Nat /\ Len(t) \in Nat
  BY ConcatProperties, LenProperties
<1>2. \A i \in DOMAIN s : i \in DOMAIN (s \o t) /\ (s \o t)[i] = s[i]
  BY <1>1
<1>3. \A i \in DOMAIN t : Len(s) + i \in DOMAIN (s \o t) /\ (s \o t)[Len(s) + i] = t[i]
  BY <1>1
<1>4. \A i \in DOMAIN (s \o t) :
          (i \in DOMAIN s /\ (s \o t)[i] = s[i])
            \/ (i - Len(s) \in DOMAIN t /\ (s \o t)[i] = t[i - Len(s)])
  BY <1>1
<1> DEFINE u == s \o t
<1>5. \A y \in ToSet(u) : y \in ToSet(s) \union ToSet(t)
  BY <1>4 DEF ToSet
<1>6. \A y \in ToSet(s) \union ToSet(t) : y \in ToSet(u)
  BY <1>2, <1>3 DEF ToSet
<1> QED  BY <1>1, <1>5, <1>6

LEMMA SetTyped ==
    ASSUME NEW S, NEW s \in Seq(S)
    PROVE  ToSet(s) \subseteq S
BY LenProperties DEF ToSet

\* Removal of an id keeps what has other ids.
LEMMA SetWithout ==
    ASSUME NEW S, NEW s \in Seq(S), NEW id
    PROVE  /\ Without(s, id) \in Seq(S)
           /\ ToSet(Without(s, id)) \subseteq ToSet(s)
           /\ \A f \in ToSet(s) : f.id # id => f \in ToSet(Without(s, id))
<1> DEFINE at == {k \in DOMAIN s : s[k].id = id}
<1>1. CASE at = {}
  BY <1>1 DEF Without
<1>2. CASE at # {}
  <2>1. PICK k \in DOMAIN s : s[k].id = id /\ Without(s, id) = RemoveAt(s, k)
    <3>1. (CHOOSE k \in at : TRUE) \in at
      BY <1>2
    <3> QED  BY <1>2, <3>1 DEF Without
  <2> DEFINE l == SubSeq(s, 1, k - 1)
             r == SubSeq(s, k + 1, Len(s))
  <2>2. Len(s) \in Nat /\ DOMAIN s = 1..Len(s) /\ k \in 1..Len(s)
    BY <2>1, LenProperties
  <2>3. /\ l \in Seq(S) /\ Len(l) = k - 1 /\ DOMAIN l = 1..(k - 1)
        /\ \A i \in 1..(k - 1) : l[i] = s[i]
    BY <2>2, SubSeqProperties, LenProperties
  <2>4. /\ r \in Seq(S) /\ Len(r) = Len(s) - k /\ DOMAIN r = 1..(Len(s) - k)
        /\ \A i \in 1..(Len(s) - k) : r[i] = s[k + i]
    BY <2>2, SubSeqProperties, LenProperties
  <2>5. ToSet(l) \subseteq ToSet(s) /\ \A i \in 1..(k - 1) : s[i] \in ToSet(l)
    BY <2>2, <2>3 DEF ToSet
  <2>6. ToSet(r) \subseteq ToSet(s)
    BY <2>2, <2>4 DEF ToSet
  <2>7. ASSUME NEW i \in DOMAIN s, i > k PROVE s[i] \in ToSet(r)
    <3>1. i - k \in 1..(Len(s) - k) /\ k + (i - k) = i
      BY <2>2, <2>7
    <3> QED  BY <2>4, <3>1 DEF ToSet
  <2>8. Without(s, id) \in Seq(S) /\ ToSet(Without(s, id)) = ToSet(l) \union ToSet(r)
    <3>1. Without(s, id) = l \o r
      BY <2>1 DEF RemoveAt
    <3> HIDE DEF l, r
    <3> QED  BY <2>3, <2>4, <3>1, SetConcat
  <2>9. ASSUME NEW f \in ToSet(s), f.id # id PROVE f \in ToSet(l) \union ToSet(r)
    <3>1. PICK i \in DOMAIN s : f = s[i]
      BY DEF ToSet
    <3>2. i # k
      BY <2>1, <2>9, <3>1
    <3> QED  BY <2>2, <2>5, <2>7, <3>1, <3>2
  <2> QED  BY <2>5, <2>6, <2>8, <2>9
<1> QED  BY <1>1, <1>2

LEMMA MinTwo ==
    ASSUME NEW a \in Int, NEW b \in Int
    PROVE  Min({a, b}) = IF a <= b THEN a ELSE b
BY DEF Min

-----------------------------------------------------------------------------
(* The inductive invariant. *)

Packets ==
    [type : {"publish"}, message : Messages, qos : 0..2, id : Nat]
      \union [type : {"subscribe"}, qos : 0..2, id : Nat]
      \union [type : {"puback", "pubrec", "pubrel", "pubcomp", "disconnect"}, id : Nat]

Unacknowledged == [type : {"publish"}, message : Messages, qos : 1..2, id : Nat]

Conn ==
    [at : {"free", "hello", "open", "requeue", "drop", "closed"}, clean : BOOLEAN, gone : BOOLEAN,
     up : Seq(Packets), down : Seq(Packets), deliveries : Seq(Delivery),
     inflight : Seq(Unacknowledged), next_id : Nat, client_id : Nat, seen : SUBSET Nat]

Session ==
    [exists : BOOLEAN, subscription : -1..2, queued : Seq(Delivery),
     online : Conns \union {None}, clean : BOOLEAN]

Typed ==
    /\ session \in Session /\ conns \in [Conns -> Conn]
    /\ current \in Conns \union {None} /\ retained \in Messages \union {None}
    /\ published \in 0..Len(Qos) /\ delivered_once \subseteq Nat
    /\ got \union owed \union acked \union lost \subseteq Messages

Serving == {"open", "requeue", "drop"}

Linked ==
    /\ current # None => conns[current].at # "free" /\ ~conns[current].gone
    /\ session.online # None => conns[session.online].at \in Serving
    /\ ~session.exists => session = NoSession
    /\ session.clean \/ ~session.exists => owed = {}

\* A connection k has nothing before its task has accepted it, nothing to be
\* delivered outside of the task's loop and its cleanup, and nothing
\* unacknowledged once that is put back.
Emptied(k) ==
    /\ k.at \in {"free", "hello"} => k.up = <<>> /\ k.down = <<>> /\ k.seen = {}
    /\ k.at \notin Serving => k.deliveries = <<>>
    /\ k.at \notin {"open", "requeue"} => k.inflight = <<>>

\* The packets about the broker's deliveries, going up and down.
Answers(k) == {f \in ToSet(k.up) : f.type \in {"puback", "pubrec", "pubcomp"}}
Releases(k) == {f \in ToSet(k.down) : f.type = "pubrel"}
Pushed(k) == {f \in ToSet(k.down) : f.type = "publish" /\ f.qos > 0}

\* The client has had the publication with this id.
Had(k, id) == id \in k.seen \/ \E f \in Answers(k) \union Releases(k) : f.id = id

\* While a connection's task runs: its packet ids are used once, a publication
\* on its way is the one kept under its id, and an answer to it is sent only
\* when the application has the message.
Answered(k, has) ==
    k.at = "open" =>
      /\ \A f \in ToSet(k.inflight) : f.id <= k.next_id
      /\ \A f \in Answers(k) \union Releases(k) \union Pushed(k) : f.id <= k.next_id
      /\ \A id \in k.seen : id <= k.next_id
      /\ \A f \in ToSet(k.inflight) : /\ \A g \in Pushed(k) : g.id = f.id => g.message = f.message
                                      /\ Had(k, f.id) => f.message \in has

Local == \A c \in Conns : Emptied(conns[c]) /\ Answered(conns[c], got)

\* The broker holds m to be delivered at least once.
Firmly(k, m) ==
    \/ \E d \in ToSet(k.deliveries) : d[1] = m /\ d[2] > 0
    \/ \E f \in ToSet(k.inflight) : f.message = m

Firm(s, all, m) ==
    \/ \E d \in ToSet(s.queued) : d[1] = m /\ d[2] > 0
    \/ \E c \in Conns : Firmly(all[c], m)

Owing == \A m \in owed : m \in got \union lost \/ Firm(session, conns, m)

BusInv == Typed /\ Linked /\ Local /\ Owing

LEMMA BusTypes ==
    /\ Messages = 1..Len(Qos) /\ Len(Qos) \in Nat /\ \A m \in Messages : Qos[m] \in 0..2
    /\ Conns \subseteq Nat \ {0} /\ None \notin Conns /\ None \notin Messages
    /\ \A m \in Messages : m \in Nat \ {0}
<1>1. Len(Qos) \in Nat /\ DOMAIN Qos = 1..Len(Qos) /\ Qos \in [1..Len(Qos) -> 0..2]
  BY BusAssumption, LenProperties
<1> QED  BY <1>1, BusAssumption DEF Messages, Conns, None

LEMMA FreeConnTyped == FreeConn \in Conn /\ Emptied(FreeConn) /\ \A H : Answered(FreeConn, H)
BY DEF FreeConn, Conn, Emptied, Answered

LEMMA BusInitially == Init => BusInv
<1> SUFFICES ASSUME Init PROVE BusInv
  OBVIOUS
<1>1. session \in Session /\ conns \in [Conns -> Conn]
  BY FreeConnTyped DEF Init, NoSession, Session
<1>2. Typed /\ Linked
  BY <1>1, BusTypes DEF Init, Typed, Linked, NoSession
<1>3. Local /\ Owing
  BY FreeConnTyped DEF Init, Local, Owing
<1> QED  BY <1>2, <1>3 DEF BusInv

-----------------------------------------------------------------------------
(* Connections. *)

\* r is k with deliveries added to its channel, or k.
Fuller(k, r) ==
    r = k \/ (/\ k.at \in Serving
              /\ \E ds \in Seq(Delivery) : /\ r = [k EXCEPT !.deliveries = ds]
                                           /\ ToSet(k.deliveries) \subseteq ToSet(ds))

LEMMA MoreHeard ==
    ASSUME NEW k, NEW G, NEW H, G \subseteq H, Answered(k, G)
    PROVE  Answered(k, H)
BY DEF Answered

LEMMA FullerKeeps ==
    ASSUME NEW k \in Conn, NEW H, Emptied(k), Answered(k, H), NEW r, Fuller(k, r)
    PROVE  /\ r \in Conn /\ Emptied(r) /\ Answered(r, H)
           /\ r.at = k.at /\ r.gone = k.gone /\ r.up = k.up /\ r.down = k.down
           /\ \A m : Firmly(k, m) => Firmly(r, m)
<1> SUFFICES ASSUME r # k PROVE /\ r \in Conn /\ Emptied(r) /\ Answered(r, H)
                              /\ r.at = k.at /\ r.gone = k.gone /\ r.up = k.up /\ r.down = k.down
                              /\ \A m : Firmly(k, m) => Firmly(r, m)
  OBVIOUS
<1> PICK ds \in Seq(Delivery) : /\ k.at \in Serving /\ r = [k EXCEPT !.deliveries = ds]
                               /\ ToSet(k.deliveries) \subseteq ToSet(ds)
  BY DEF Fuller
<1>1. r \in Conn
  BY DEF Conn
<1>2. /\ r.at = k.at /\ r.gone = k.gone /\ r.up = k.up /\ r.down = k.down /\ r.seen = k.seen
      /\ r.inflight = k.inflight /\ r.next_id = k.next_id /\ r.deliveries = ds
  BY DEF Conn
<1>3. Emptied(r)
  BY <1>2 DEF Emptied, Serving
<1>4. Answered(r, H)
  BY <1>2 DEF Answered, Answers, Releases, Pushed, Had
<1> QED  BY <1>1, <1>2, <1>3, <1>4 DEF Firmly

\* r is k but for the packets on their way.
SameBut(k, r) ==
    /\ r.at = k.at /\ r.gone = k.gone /\ r.seen = k.seen /\ r.next_id = k.next_id
    /\ r.inflight = k.inflight /\ r.deliveries = k.deliveries

\* The task has read a packet: what it writes, if anything, is about a
\* publication of the client, or the release of a delivery it was told is there.
LEMMA PacketRead ==
    ASSUME NEW k \in Conn, NEW H, Emptied(k), Answered(k, H), k.at = "open", k.up # <<>>,
           NEW dn \in Seq(Packets), NEW q \in Packets, ToSet(dn) \subseteq ToSet(k.down) \union {q},
           q.type # "publish",
           q.type = "pubrel" => Head(k.up).type = "pubrec" /\ q.id = Head(k.up).id,
           NEW r \in Conn, r.up = Tail(k.up), r.down = dn, SameBut(k, r)
    PROVE  Emptied(r) /\ Answered(r, H) /\ \A m : Firmly(k, m) => Firmly(r, m)
<1>1. k.up \in Seq(Packets)
  BY DEF Conn
<1>2. /\ Tail(k.up) \in Seq(Packets) /\ Head(k.up) \in ToSet(k.up)
      /\ ToSet(Tail(k.up)) \subseteq ToSet(k.up)
  BY <1>1, SetTail
<1>4. /\ r.at = k.at /\ r.seen = k.seen
      /\ r.inflight = k.inflight /\ r.next_id = k.next_id /\ r.deliveries = k.deliveries
  BY DEF SameBut
<1>5. Answers(r) \subseteq Answers(k) /\ Pushed(r) \subseteq Pushed(k)
  BY <1>2, <1>4 DEF Answers, Pushed
<1>6. \A f \in Releases(r) : f \in Releases(k) \/ \E g \in Answers(k) : g.id = f.id
  BY <1>2, <1>4 DEF Releases, Answers
<1>7. \A id : Had(r, id) => Had(k, id)
  BY <1>4, <1>5, <1>6 DEF Had
<1>8. Answered(r, H)
  <2>1. \A f \in Answers(r) \union Releases(r) \union Pushed(r) : f.id <= k.next_id
    BY <1>5, <1>6 DEF Answered
  <2> QED  BY <1>4, <1>5, <1>7, <2>1 DEF Answered
<1> QED  BY <1>4, <1>8 DEF Emptied, Firmly, Serving

\* A step on one connection that leaves the session alone.
LEMMA OneConnection ==
    ASSUME BusInv, NEW c \in Conns, NEW r \in Conn, conns' = [conns EXCEPT ![c] = r],
           UNCHANGED <<session, owed>>, got \subseteq got', lost \subseteq lost',
           Emptied(r), Answered(r, got'),
           \A m : Firmly(conns[c], m) => Firmly(r, m) \/ m \in got' \union lost'
    PROVE  /\ conns' \in [Conns -> Conn] /\ conns'[c] = r
           /\ \A d \in Conns : d # c => conns'[d] = conns[d]
           /\ Local' /\ Owing'
<1>1. /\ conns' \in [Conns -> Conn] /\ conns'[c] = r
      /\ \A d \in Conns : d # c => conns'[d] = conns[d]
  BY DEF BusInv, Typed
<1>2. Local'
  BY <1>1, MoreHeard DEF BusInv, Local
<1>3. Owing'
  BY <1>1 DEF BusInv, Owing, Firm
<1> QED  BY <1>1, <1>2, <1>3

-----------------------------------------------------------------------------
(* Publications. *)

\* What a publication does: a delivery more, in the channel of the session's
\* connection or in its queue; the session owes only what is there.
LEMMA DeliveredEffect ==
    ASSUME BusInv, NEW m \in Messages, NEW s, NEW all, Delivered(m) = <<s, all>>
    PROVE  /\ s \in Session /\ s = [session EXCEPT !.queued = s.queued]
           /\ all \in [Conns -> Conn]
           /\ \A d \in Conns : Fuller(conns[d], all[d])
           /\ \A n \in Messages : Firm(session, conns, n) => Firm(s, all, n)
           /\ owed \subseteq Owes(m) /\ Owes(m) \subseteq owed \union {m}
           /\ m \in Owes(m) => m \in owed \/ Firm(s, all, m)
           /\ session.clean \/ ~session.exists => Owes(m) = owed
<1> DEFINE qos == Min({Qos[m], session.subscription})
           c == session.online
<1>1. /\ session \in Session /\ conns \in [Conns -> Conn] /\ Qos[m] \in 0..2
      /\ session.subscription \in -1..2 /\ session.queued \in Seq(Delivery)
      /\ c \in Conns \union {None}
      /\ c # None => conns[c].at \in Serving
  BY BusTypes DEF BusInv, Typed, Linked, Session
<1>2. session.subscription # -1 => qos \in 0..2 /\ <<m, qos>> \in Delivery
  <2>1. qos = IF Qos[m] <= session.subscription THEN Qos[m] ELSE session.subscription
    BY <1>1, MinTwo
  <2> HIDE DEF qos
  <2>2. session.subscription # -1 => qos \in 0..2
    BY <1>1, <2>1
  <2> QED  BY <2>2 DEF Delivery
<1>3. /\ owed \subseteq Owes(m) /\ Owes(m) \subseteq owed \union {m}
      /\ m \in Owes(m) => m \in owed
           \/ (~session.clean /\ session.subscription # -1 /\ qos > 0)
      /\ session.clean \/ ~session.exists => Owes(m) = owed
  BY DEF Owes, BusInv, Linked, NoSession
<1> HIDE DEF qos, c
<1>4. CASE session.subscription = -1
  <2>1. s = session /\ all = conns
    BY <1>4 DEF Delivered
  <2> QED  BY <1>1, <1>3, <1>4, <2>1 DEF Session, Fuller
<1>5. CASE session.subscription # -1 /\ c # None
  <2> DEFINE ds == Append(conns[c].deliveries, <<m, qos>>)
  <2>1. s = session /\ all = [conns EXCEPT ![c].deliveries = ds]
    BY <1>5 DEF Delivered, qos, c
  <2>2. conns[c].deliveries \in Seq(Delivery) /\ c \in Conns
    <3>1. c \in Conns /\ conns[c] \in Conn
      BY <1>1, <1>5
    <3> QED  BY <3>1 DEF Conn
  <2>3. ds \in Seq(Delivery) /\ ToSet(ds) = ToSet(conns[c].deliveries) \union {<<m, qos>>}
    BY <1>2, <1>5, <2>2, SetAppend
  <2> HIDE DEF ds
  <2>4. all = [conns EXCEPT ![c] = [conns[c] EXCEPT !.deliveries = ds]]
    BY <2>1
  <2>5. /\ [conns[c] EXCEPT !.deliveries = ds] \in Conn
        /\ all \in [Conns -> Conn] /\ all[c].deliveries = ds /\ all[c].inflight = conns[c].inflight
        /\ all[c] = [conns[c] EXCEPT !.deliveries = ds]
        /\ \A d \in Conns : d # c => all[d] = conns[d]
    <3>1. conns \in [Conns -> Conn] /\ conns[c] \in Conn
      BY <1>1, <2>2
    <3>2. [conns[c] EXCEPT !.deliveries = ds] \in Conn
      BY <2>3, <3>1 DEF Conn
    <3>3. all[c] = [conns[c] EXCEPT !.deliveries = ds] /\ \A d \in Conns : d # c => all[d] = conns[d]
      BY <2>2, <2>4, <3>1
    <3>4. all \in [Conns -> Conn]
      BY <2>2, <2>4, <3>1, <3>2
    <3>5. all[c].deliveries = ds /\ all[c].inflight = conns[c].inflight
      BY <3>1, <3>3 DEF Conn
    <3> QED  BY <3>2, <3>3, <3>4, <3>5
  <2>6. \A n \in Messages, d \in Conns : Firmly(conns[d], n) => Firmly(all[d], n)
    BY <2>3, <2>5 DEF Firmly
  <2>7. qos > 0 => Firmly(all[c], m)
    <3>1. <<m, qos>> \in ToSet(all[c].deliveries) /\ <<m, qos>>[1] = m /\ <<m, qos>>[2] = qos
      BY <2>3, <2>5
    <3> QED  BY <3>1 DEF Firmly
  <2> QED  BY <1>1, <1>3, <1>5, <2>1, <2>2, <2>3, <2>5, <2>6, <2>7 DEF Firm, Session, Fuller
<1>6. CASE session.subscription # -1 /\ c = None /\ Queues(qos)
  <2> DEFINE ds == Append(session.queued, <<m, qos>>)
  <2>1. s = [session EXCEPT !.queued = ds] /\ all = conns
    BY <1>6 DEF Delivered, qos, c
  <2>2. ds \in Seq(Delivery) /\ ToSet(ds) = ToSet(session.queued) \union {<<m, qos>>}
    BY <1>1, <1>2, <1>6, SetAppend
  <2> HIDE DEF ds
  <2>3. s \in Session /\ s.queued = ds /\ s = [session EXCEPT !.queued = s.queued]
    BY <1>1, <2>1, <2>2 DEF Session
  <2>4. qos > 0 => Firm(s, all, m)
    <3>1. <<m, qos>> \in ToSet(s.queued) /\ <<m, qos>>[1] = m /\ <<m, qos>>[2] = qos
      BY <2>2, <2>3
    <3> QED  BY <3>1 DEF Firm
  <2>5. \A n \in Messages : Firm(session, conns, n) => Firm(s, all, n)
    BY <2>1, <2>2, <2>3 DEF Firm
  <2> QED  BY <1>1, <1>3, <2>1, <2>3, <2>4, <2>5 DEF Fuller
<1>7. CASE session.subscription # -1 /\ c = None /\ ~Queues(qos)
  <2>1. s = session /\ all = conns
    BY <1>7 DEF Delivered, qos, c
  <2>2. ~(~session.clean /\ qos > 0)
    BY <1>2, <1>7 DEF Queues
  <2> QED  BY <1>1, <1>3, <2>1, <2>2 DEF Session, Fuller
<1> QED  BY <1>4, <1>5, <1>6, <1>7

LEMMA DeliveredPair ==
    ASSUME NEW m PROVE Delivered(m) = <<Delivered(m)[1], Delivered(m)[2]>>
BY DEF Delivered

\* Deliveries more keep what is said of connections one by one.
LEMMA DeliveredLocal ==
    ASSUME BusInv, NEW m \in Messages, NEW s, NEW all, Delivered(m) = <<s, all>>, NEW d \in Conns
    PROVE  /\ Emptied(all[d]) /\ Answered(all[d], got) /\ all[d] \in Conn
           /\ all[d].at = conns[d].at /\ all[d].gone = conns[d].gone /\ all[d].up = conns[d].up
           /\ all[d].down = conns[d].down
<1>1. Emptied(conns[d]) /\ Answered(conns[d], got) /\ conns[d] \in Conn
  BY DEF BusInv, Local, Typed
<1>2. Fuller(conns[d], all[d])
  BY DeliveredEffect
<1> QED  BY <1>1, <1>2, FullerKeeps

LEMMA LocalPublishKeeps ==
    ASSUME BusInv, LocalPublish
    PROVE  BusInv'
<1> DEFINE m == published + 1
<1>1. m \in Messages /\ m \in 0..Len(Qos)
  BY BusTypes DEF LocalPublish, BusInv, Typed
<1>2. /\ Delivered(m) = <<session', conns'>> /\ owed' = Owes(m) /\ published' = m
      /\ retained' = Kept(m)
      /\ UNCHANGED <<delivered_once, current, breaks, got, acked, lost>>
  BY DeliveredPair DEF LocalPublish
<1> HIDE DEF m
<1>3. Typed'
  BY <1>1, <1>2, DeliveredEffect DEF BusInv, Typed, Kept
<1>4. /\ session'.exists = session.exists /\ session'.online = session.online
      /\ session'.clean = session.clean
      /\ ~session.exists => session' = session
      /\ \A d \in Conns : conns'[d].at = conns[d].at /\ conns'[d].gone = conns[d].gone
  <2>1. session' = [session EXCEPT !.queued = session'.queued] /\ session \in Session
    BY <1>1, <1>2, DeliveredEffect DEF BusInv, Typed
  <2>2. ~session.exists => session' = session
    BY <1>2 DEF Delivered, BusInv, Linked, NoSession
  <2> QED  BY <1>1, <1>2, <2>1, <2>2, DeliveredLocal DEF Session
<1>5. Linked'
  BY <1>1, <1>2, <1>4, DeliveredEffect DEF BusInv, Typed, Linked, Session
<1>6. Local'
  BY <1>1, <1>2, DeliveredLocal DEF Local
<1>7. Owing'
  BY <1>1, <1>2, DeliveredEffect DEF BusInv, Owing, Typed
<1> QED  BY <1>3, <1>5, <1>6, <1>7 DEF BusInv

LEMMA ReadPublishKeeps ==
    ASSUME BusInv, NEW c \in Conns, ReadPublish(c)
    PROVE  BusInv'
<1> DEFINE packet == Head(conns[c].up)
           m == packet.message
           s == IF Repeated(c, packet) THEN session ELSE Delivered(m)[1]
           all == IF Repeated(c, packet) THEN conns ELSE Delivered(m)[2]
           reply == [type |-> IF packet.qos = 2 THEN "pubrec" ELSE "puback", id |-> packet.id]
           dn == IF packet.qos = 0 THEN conns[c].down ELSE To(c, reply)
           r == [all[c] EXCEPT !.up = Tail(@), !.down = dn]
<1>1. /\ conns[c].at = "open" /\ conns[c].up # <<>> /\ packet.type = "publish"
      /\ session' = s /\ owed' = Owes(m)
      /\ conns' = [all EXCEPT ![c].up = Tail(@), ![c].down = IF packet.qos = 0 THEN @ ELSE To(c, reply)]
      /\ delivered_once' = IF packet.qos = 2 THEN delivered_once \union {packet.id} ELSE delivered_once
      /\ retained' = IF Repeated(c, packet) THEN retained ELSE Kept(m)
      /\ lost' = IF Repeated(c, packet) THEN lost \union {m} ELSE lost
      /\ UNCHANGED <<current, published, breaks, got, acked>>
  BY DEF ReadPublish
<1>2. conns[c] \in Conn /\ conns[c].up \in Seq(Packets) /\ conns[c].down \in Seq(Packets)
  BY DEF BusInv, Typed, Conn
<1>3. packet \in Packets /\ m \in Messages /\ packet.qos \in 0..2 /\ packet.id \in Nat
  <2>1. packet \in Packets
    BY <1>1, <1>2, SetTail
  <2> QED  BY <1>1, <2>1 DEF Packets
<1>4. reply \in Packets /\ reply.type # "publish" /\ reply.type # "pubrel"
  BY <1>3 DEF Packets
<1>5. dn \in Seq(Packets) /\ ToSet(dn) \subseteq ToSet(conns[c].down) \union {reply}
  BY <1>2, <1>4, SetAppend DEF To
<1>6. /\ s \in Session /\ all \in [Conns -> Conn]
      /\ s.exists = session.exists /\ s.online = session.online /\ s.clean = session.clean
      /\ ~session.exists => s = session
      /\ \A n \in Messages : Firm(session, conns, n) => Firm(s, all, n)
      /\ owed \subseteq Owes(m) /\ Owes(m) \subseteq owed \union {m}
      /\ m \in Owes(m) => m \in owed \/ m \in lost' \/ Firm(s, all, m)
      /\ session.clean \/ ~session.exists => Owes(m) = owed
      /\ \A d \in Conns : /\ Emptied(all[d]) /\ Answered(all[d], got)
                          /\ all[d].at = conns[d].at /\ all[d].gone = conns[d].gone
                          /\ all[d].up = conns[d].up /\ all[d].down = conns[d].down
  <2> HIDE DEF packet, m
  <2>1. CASE Repeated(c, packet)
    <3>1. s = session /\ all = conns /\ m \in lost'
      BY <1>1, <2>1
    <3>2. owed \subseteq Owes(m) /\ Owes(m) \subseteq owed \union {m}
          /\ (session.clean \/ ~session.exists => Owes(m) = owed)
      BY DEF Owes, BusInv, Linked, NoSession
    <3> QED  BY <3>1, <3>2 DEF BusInv, Typed, Local
  <2>2. CASE ~Repeated(c, packet)
    <3>1. Delivered(m) = <<s, all>>
      BY <2>2, DeliveredPair
    <3> HIDE DEF s, all
    <3>2. s = [session EXCEPT !.queued = s.queued] /\ session \in Session
      BY <1>3, <3>1, DeliveredEffect DEF BusInv, Typed
    <3>3. ~session.exists => s = session
      BY <3>1 DEF Delivered, BusInv, Linked, NoSession
    <3> QED  BY <1>3, <3>1, <3>2, <3>3, DeliveredEffect, DeliveredLocal DEF Session
  <2> QED  BY <2>1, <2>2
<1>7. conns' = [all EXCEPT ![c] = r]
  <2>1. all[c].down = conns[c].down /\ all \in [Conns -> Conn]
    BY <1>6
  <2> HIDE DEF all, packet, m, reply
  <2> QED  BY <1>1, <2>1 DEF Conn
<1> HIDE DEF packet, m, s, all, reply, dn
<1>8. /\ r \in Conn /\ Emptied(r) /\ Answered(r, got) /\ r.at = all[c].at /\ r.gone = all[c].gone
      /\ \A n : Firmly(all[c], n) => Firmly(r, n)
  <2>1. /\ all[c] \in Conn /\ all[c].up # <<>> /\ all[c].at = "open" /\ all[c].down = conns[c].down
        /\ Emptied(all[c]) /\ Answered(all[c], got) /\ all[c].up = conns[c].up
    BY <1>1, <1>6
  <2>2. Tail(all[c].up) \in Seq(Packets)
    BY <1>2, <2>1, SetTail
  <2>3. r \in Conn /\ r.up = Tail(all[c].up) /\ r.down = dn /\ SameBut(all[c], r)
    BY <1>5, <2>1, <2>2 DEF Conn, SameBut
  <2> HIDE DEF r
  <2> QED  BY <1>4, <1>5, <2>1, <2>3, PacketRead DEF SameBut
<1> HIDE DEF r
<1>9. /\ conns' \in [Conns -> Conn] /\ conns'[c] = r
      /\ \A d \in Conns : d # c => conns'[d] = all[d]
      /\ \A d \in Conns : conns'[d].at = conns[d].at /\ conns'[d].gone = conns[d].gone
  BY <1>6, <1>7, <1>8
<1>10. Typed'
  BY <1>1, <1>3, <1>6, <1>9 DEF BusInv, Typed, Kept
<1>11. Linked'
  BY <1>1, <1>6, <1>9 DEF BusInv, Typed, Linked, Session
<1>12. Local'
  BY <1>1, <1>6, <1>8, <1>9 DEF Local
<1>13. Owing'
  <2>1. \A n \in Messages : Firm(s, all, n) => Firm(session', conns', n)
    BY <1>1, <1>8, <1>9 DEF Firm
  <2>2. lost \subseteq lost' /\ owed \subseteq Messages
    BY <1>1 DEF BusInv, Typed
  <2> QED  BY <1>1, <1>3, <1>6, <2>1, <2>2 DEF BusInv, Owing
<1> QED  BY <1>10, <1>11, <1>12, <1>13 DEF BusInv

-----------------------------------------------------------------------------
(* The broker's task of a connection. *)

LEMMA AcceptKeeps ==
    ASSUME BusInv, NEW c \in Conns, Accept(c)
    PROVE  BusInv'
<1> DEFINE k == conns[c]
           ds == Drained(c)
           r == [k EXCEPT !.at = "open", !.deliveries = ds]
<1>1. k \in Conn /\ k.at = "hello" /\ Emptied(k) /\ session \in Session
  BY DEF BusInv, Typed, Local, Accept
<1>2. ds \in Seq(Delivery) /\ (~k.clean => ds = session.queued)
  BY <1>1, SetEmpty DEF Drained, Session
<1>3. /\ conns' = [conns EXCEPT ![c] = r]
      /\ session' = [exists |-> TRUE, queued |-> <<>>, online |-> c, clean |-> k.clean,
                     subscription |-> IF k.clean THEN -1 ELSE session.subscription]
      /\ owed' = IF k.clean THEN {} ELSE owed
      /\ UNCHANGED <<retained, delivered_once, current, published, breaks, got, acked, lost>>
  BY DEF Accept
<1> HIDE DEF ds
<1>4. /\ r \in Conn /\ r.at = "open" /\ r.gone = k.gone /\ r.up = k.up /\ r.down = k.down
      /\ r.seen = k.seen /\ r.inflight = k.inflight /\ r.deliveries = ds
  BY <1>1, <1>2 DEF Conn
<1>5. r.up = <<>> /\ r.down = <<>> /\ r.seen = {} /\ r.inflight = <<>>
  BY <1>1, <1>4 DEF Emptied, Serving
<1>6. Emptied(r) /\ Answered(r, got)
  BY <1>4, <1>5, SetEmpty DEF Emptied, Answered, Answers, Releases, Pushed, Serving
<1> HIDE DEF r, k
<1>7. /\ conns' \in [Conns -> Conn] /\ conns'[c] = r
      /\ \A d \in Conns : d # c => conns'[d] = conns[d]
  BY <1>3, <1>4 DEF BusInv, Typed
<1>8. Typed'
  <2>1. session' \in Session
    BY <1>1, <1>3, SetEmpty DEF Session, k, Conn
  <2> QED  BY <1>3, <1>7, <2>1 DEF BusInv, Typed
<1>9. Linked'
  BY <1>1, <1>3, <1>4, <1>7 DEF BusInv, Typed, Linked, Serving, k, Session
<1>10. Local'
  BY <1>3, <1>6, <1>7 DEF BusInv, Local
<1>11. Owing'
  \* What was queued is in the channel now.
  <2>1. ASSUME NEW m, ~k.clean, Firm(session, conns, m) PROVE Firm(session', conns', m)
    <3>1. CASE \E d \in ToSet(session.queued) : d[1] = m /\ d[2] > 0
      BY <1>2, <1>4, <1>7, <2>1, <3>1 DEF Firm, Firmly
    <3>2. CASE \E d \in Conns : Firmly(conns[d], m)
      <4>1. ~Firmly(k, m)
        BY <1>1, SetEmpty DEF Emptied, Firmly, Serving
      <4> QED  BY <1>7, <3>2, <4>1 DEF Firm, k
    <3> QED  BY <2>1, <3>1, <3>2 DEF Firm
  <2> QED  BY <1>3, <2>1 DEF BusInv, Owing
<1> QED  BY <1>8, <1>9, <1>10, <1>11 DEF BusInv

\* A step of the task of c that leaves all but its connection alone.
LEMMA TaskOnly ==
    ASSUME BusInv, NEW c \in Conns, NEW r \in Conn, conns' = [conns EXCEPT ![c] = r],
           UNCHANGED <<session, retained, delivered_once, current, published, got, owed, lost>>,
           acked' \subseteq Messages,
           Emptied(r), Answered(r, got), r.gone = conns[c].gone,
           r.at = conns[c].at \/ (conns[c].at \in Serving /\ r.at \in Serving),
           \A m : Firmly(conns[c], m) => Firmly(r, m) \/ m \in got
    PROVE  BusInv'
<1>1. /\ conns' \in [Conns -> Conn] /\ conns'[c] = r
      /\ \A d \in Conns : d # c => conns'[d] = conns[d]
      /\ Local' /\ Owing'
  BY OneConnection
<1>2. Typed'
  BY <1>1 DEF BusInv, Typed
<1>3. Linked'
  BY <1>1 DEF BusInv, Typed, Linked, Session, Serving
<1> QED  BY <1>1, <1>2, <1>3 DEF BusInv

LEMMA DeliverKeeps ==
    ASSUME BusInv, NEW c \in Conns, Deliver(c)
    PROVE  BusInv'
<1> DEFINE k == conns[c]
           d == Head(k.deliveries)
           id == IF d[2] = 0 THEN k.next_id ELSE k.next_id + 1
           packet == [type |-> "publish", message |-> d[1], qos |-> d[2], id |-> id]
           fl == IF d[2] = 0 THEN k.inflight ELSE Append(k.inflight, packet)
           dn == To(c, packet)
           r == [k EXCEPT !.deliveries = Tail(k.deliveries), !.next_id = id,
                          !.inflight = fl, !.down = dn]
<1>1. /\ k \in Conn /\ k.at = "open" /\ k.deliveries # <<>> /\ Emptied(k) /\ Answered(k, got)
      /\ k.deliveries \in Seq(Delivery) /\ k.next_id \in Nat
      /\ k.inflight \in Seq(Unacknowledged) /\ k.down \in Seq(Packets)
  BY DEF BusInv, Typed, Local, Deliver, Conn
<1>2. /\ d \in Delivery /\ Tail(k.deliveries) \in Seq(Delivery)
      /\ ToSet(k.deliveries) = {d} \union ToSet(Tail(k.deliveries))
  BY <1>1, SetTail
<1>3. d[1] \in Messages /\ d[2] \in 0..2 /\ id \in Nat
  BY <1>1, <1>2 DEF Delivery
<1>4. /\ packet \in Packets
      /\ d[2] # 0 => packet \in Unacknowledged
      /\ packet.type = "publish" /\ packet.message = d[1] /\ packet.qos = d[2] /\ packet.id = id
  BY <1>3 DEF Packets, Unacknowledged
<1>5. /\ conns' = [conns EXCEPT ![c].deliveries = Tail(@), ![c].next_id = id,
             ![c].inflight = IF d[2] = 0 THEN @ ELSE Append(@, packet), ![c].down = dn]
      /\ UNCHANGED <<session, retained, delivered_once, current, published, got, owed, acked, lost>>
  BY DEF Deliver
<1>6. conns' = [conns EXCEPT ![c] = r]
  BY <1>1, <1>5 DEF Conn
<1> HIDE DEF packet
<1>7. /\ fl \in Seq(Unacknowledged)
      /\ ToSet(fl) = ToSet(k.inflight) \union (IF d[2] = 0 THEN {} ELSE {packet})
  <2> HIDE DEF d
  <2>1. CASE d[2] = 0
    BY <1>1, <2>1
  <2>2. CASE d[2] # 0
    BY <1>1, <1>4, <2>2, SetAppend
  <2> QED  BY <2>1, <2>2
<1>8. dn \in Seq(Packets) /\ ToSet(dn) \subseteq ToSet(k.down) \union {packet}
  BY <1>1, <1>4, SetAppend DEF To
<1> HIDE DEF fl, dn, id
<1>9. /\ r \in Conn /\ r.at = "open" /\ r.gone = k.gone /\ r.up = k.up /\ r.down = dn
      /\ r.seen = k.seen /\ r.inflight = fl /\ r.next_id = id
      /\ r.deliveries = Tail(k.deliveries)
  BY <1>1, <1>2, <1>3, <1>7, <1>8 DEF Conn
<1> HIDE DEF r
<1>10. Emptied(r)
  BY <1>9 DEF Emptied, Serving
<1>11. Answered(r, got)
  <2>1. /\ Answers(r) = Answers(k) /\ Releases(r) \subseteq Releases(k)
        /\ Pushed(r) \subseteq Pushed(k) \union (IF d[2] = 0 THEN {} ELSE {packet})
    BY <1>3, <1>4, <1>8, <1>9 DEF Answers, Releases, Pushed
  <2>2. \A i : Had(r, i) => Had(k, i)
    BY <1>9, <2>1 DEF Had
  <2>3. k.next_id <= id /\ (d[2] # 0 => id = k.next_id + 1)
    BY <1>1 DEF id
  <2>4. \A i \in Nat : Had(k, i) => i <= k.next_id
    BY <1>1 DEF Had, Answered
  <2>5. /\ \A f \in ToSet(k.inflight) \union Answers(k) \union Releases(k) \union Pushed(k) :
               f.id \in Nat /\ f.id <= k.next_id
        /\ \A i \in k.seen : i \in Nat /\ i <= k.next_id
    <3>1. ToSet(k.inflight) \subseteq Unacknowledged /\ ToSet(k.up) \subseteq Packets
          /\ ToSet(k.down) \subseteq Packets /\ k.seen \subseteq Nat
      BY <1>1, SetTyped DEF Conn
    <3>2. /\ \A f \in Unacknowledged : f.id \in Nat
          /\ \A f \in Packets : f.id \in Nat
      BY DEF Unacknowledged, Packets
    <3> QED  BY <1>1, <3>1, <3>2 DEF Answered, Answers, Releases, Pushed
  <2>6. \A f \in ToSet(fl) : /\ f.id <= id /\ \A g \in Pushed(r) : g.id = f.id => g.message = f.message
                             /\ Had(r, f.id) => f.message \in got
    <3>1. ASSUME NEW f \in ToSet(k.inflight)
          PROVE  /\ f.id <= id /\ \A g \in Pushed(r) : g.id = f.id => g.message = f.message
                 /\ Had(r, f.id) => f.message \in got
      BY <1>1, <1>3, <1>4, <2>1, <2>2, <2>3, <2>5 DEF Answered
    <3>2. ASSUME d[2] # 0
          PROVE  /\ packet.id <= id /\ \A g \in Pushed(r) : g.id = packet.id => g.message = packet.message
                 /\ Had(r, packet.id) => packet.message \in got
      BY <1>1, <1>3, <1>4, <2>1, <2>2, <2>3, <2>4, <2>5, <3>2
    <3> QED  BY <1>7, <3>1, <3>2
  <2>7. /\ \A f \in Answers(r) \union Releases(r) \union Pushed(r) : f.id <= id
        /\ \A i \in r.seen : i <= id
    BY <1>1, <1>3, <1>4, <1>9, <2>1, <2>3, <2>5
  <2> QED  BY <1>9, <2>6, <2>7 DEF Answered
<1>12. ASSUME NEW m, Firmly(k, m) PROVE Firmly(r, m)
  <2>1. d[2] > 0 => packet \in ToSet(fl) /\ packet.message = d[1]
    BY <1>3, <1>4, <1>7
  <2> QED  BY <1>2, <1>7, <1>9, <1>12, <2>1 DEF Firmly
<1> HIDE DEF k, d
<1>13. conns[c].gone = r.gone /\ conns[c].at = r.at /\ acked' \subseteq Messages
  BY <1>1, <1>5, <1>9 DEF k, BusInv, Typed
<1> QED  BY <1>5, <1>6, <1>9, <1>10, <1>11, <1>12, <1>13, TaskOnly DEF k

LEMMA ReadAckKeeps ==
    ASSUME BusInv, NEW c \in Conns, ReadAck(c)
    PROVE  BusInv'
<1> DEFINE k == conns[c]
           packet == Head(k.up)
           fl == Without(k.inflight, packet.id)
           r == [k EXCEPT !.up = Tail(k.up), !.inflight = fl]
<1>1. /\ k \in Conn /\ k.at = "open" /\ k.up # <<>> /\ packet.type \in {"puback", "pubcomp"}
      /\ Emptied(k) /\ Answered(k, got) /\ k.up \in Seq(Packets) /\ k.inflight \in Seq(Unacknowledged)
  BY DEF BusInv, Typed, Local, ReadAck, Conn
<1>2. /\ conns' = [conns EXCEPT ![c].up = Tail(@), ![c].inflight = fl]
      /\ acked' = acked \union {f.message : f \in {f \in ToSet(k.inflight) : f.id = packet.id}}
      /\ UNCHANGED <<session, retained, delivered_once, current, published, got, owed, lost>>
  BY DEF ReadAck, Finished
<1>3. conns' = [conns EXCEPT ![c] = r]
  BY <1>1, <1>2 DEF Conn
<1>4. /\ Tail(k.up) \in Seq(Packets) /\ packet \in ToSet(k.up)
      /\ ToSet(Tail(k.up)) \subseteq ToSet(k.up)
  BY <1>1, SetTail
<1>5. /\ fl \in Seq(Unacknowledged) /\ ToSet(fl) \subseteq ToSet(k.inflight)
      /\ \A f \in ToSet(k.inflight) : f.id # packet.id => f \in ToSet(fl)
  BY <1>1, SetWithout
<1> HIDE DEF fl
<1>6. /\ r \in Conn /\ r.at = k.at /\ r.gone = k.gone /\ r.up = Tail(k.up) /\ r.down = k.down
      /\ r.seen = k.seen /\ r.inflight = fl /\ r.next_id = k.next_id /\ r.deliveries = k.deliveries
  BY <1>1, <1>4, <1>5 DEF Conn
<1> HIDE DEF r
<1>7. Emptied(r)
  BY <1>1, <1>6 DEF Emptied, Serving
<1>8. Answered(r, got)
  <2>1. Answers(r) \subseteq Answers(k) /\ Releases(r) = Releases(k) /\ Pushed(r) = Pushed(k)
    BY <1>4, <1>6 DEF Answers, Releases, Pushed
  <2>2. \A i : Had(r, i) => Had(k, i)
    BY <1>6, <2>1 DEF Had
  <2> QED  BY <1>1, <1>5, <1>6, <2>1, <2>2 DEF Answered
<1>9. ASSUME NEW m, Firmly(k, m) PROVE Firmly(r, m) \/ m \in got
  \* The client has what it has acknowledged.
  <2>1. Had(k, packet.id)
    BY <1>1, <1>4 DEF Had, Answers
  <2>2. \A f \in ToSet(k.inflight) : f.id = packet.id => f.message \in got
    BY <1>1, <2>1 DEF Answered
  <2> QED  BY <1>5, <1>6, <1>9, <2>2 DEF Firmly
<1>10. acked' \subseteq Messages
  <2>1. ToSet(k.inflight) \subseteq Unacknowledged
    BY <1>1, SetTyped
  <2> QED  BY <1>2, <2>1 DEF BusInv, Typed, Unacknowledged
<1> HIDE DEF packet
<1> QED  BY <1>1, <1>2, <1>3, <1>6, <1>7, <1>8, <1>9, <1>10, TaskOnly

LEMMA ReadStepKeeps ==
    ASSUME BusInv, NEW c \in Conns, ReadStep(c)
    PROVE  BusInv'
<1> DEFINE k == conns[c]
           packet == Head(k.up)
           q == [type |-> Answer[packet.type], id |-> packet.id]
           dn == To(c, q)
           r == [k EXCEPT !.up = Tail(k.up), !.down = dn]
<1>1. /\ k \in Conn /\ k.at = "open" /\ k.up # <<>> /\ packet.type \in {"pubrec", "pubrel"}
      /\ Emptied(k) /\ Answered(k, got) /\ k.up \in Seq(Packets) /\ k.down \in Seq(Packets)
  BY DEF BusInv, Typed, Local, ReadStep, Conn, Answer
<1>2. /\ conns' = [conns EXCEPT ![c].up = Tail(@), ![c].down = dn]
      /\ UNCHANGED <<session, retained, delivered_once, current, published, got, owed, acked, lost>>
  BY DEF ReadStep
<1>3. conns' = [conns EXCEPT ![c] = r]
  BY <1>1, <1>2 DEF Conn
<1>4. Tail(k.up) \in Seq(Packets) /\ packet \in Packets
  BY <1>1, SetTail
<1>5. /\ q \in Packets /\ q.type # "publish" /\ q.id = packet.id
      /\ q.type = "pubrel" => packet.type = "pubrec"
  BY <1>1, <1>4 DEF Packets, Answer
<1>6. dn \in Seq(Packets) /\ ToSet(dn) \subseteq ToSet(k.down) \union {q}
  BY <1>1, <1>5, SetAppend DEF To
<1> HIDE DEF dn, q
<1>7. r \in Conn /\ r.up = Tail(k.up) /\ r.down = dn /\ SameBut(k, r)
  BY <1>1, <1>4, <1>6 DEF Conn, SameBut
<1> HIDE DEF r
<1>8. Emptied(r) /\ Answered(r, got) /\ \A m : Firmly(k, m) => Firmly(r, m)
  BY <1>1, <1>5, <1>6, <1>7, PacketRead
<1>9. acked' \subseteq Messages
  BY <1>2 DEF BusInv, Typed
<1> QED  BY <1>2, <1>3, <1>7, <1>8, <1>9, TaskOnly DEF SameBut

\* The retained value is one delivery more, in the session's connection.
LEMMA ReadSubscribeKeeps ==
    ASSUME BusInv, NEW c \in Conns, ReadSubscribe(c)
    PROVE  BusInv'
<1> DEFINE packet == Head(conns[c].up)
           o == session.online
           k == conns[c]
           r == [k EXCEPT !.up = Tail(k.up)]
           more == o # None /\ retained # None
           d == <<retained, Min({Qos[retained], packet.qos})>>
           read == [conns EXCEPT ![c] = r]
<1>1. /\ k.at = "open" /\ k.up # <<>> /\ packet.type = "subscribe"
      /\ session' = IF session.exists THEN [session EXCEPT !.subscription = packet.qos] ELSE session
      /\ conns' = LET read1 == [conns EXCEPT ![c].up = Tail(@)] IN
                  IF more THEN [read1 EXCEPT ![o].deliveries = Append(@, d)] ELSE read1
      /\ UNCHANGED <<retained, delivered_once, current, published, breaks, got, owed, acked, lost>>
  BY DEF ReadSubscribe
<1>2. /\ k \in Conn /\ Emptied(k) /\ Answered(k, got) /\ k.up \in Seq(Packets)
      /\ k.down \in Seq(Packets) /\ session \in Session /\ conns \in [Conns -> Conn]
  BY DEF BusInv, Typed, Local, Conn
<1>3. packet \in Packets /\ Tail(k.up) \in Seq(Packets) /\ packet.qos \in 0..2
  <2>1. packet \in Packets /\ Tail(k.up) \in Seq(Packets)
    BY <1>1, <1>2, SetTail
  <2> QED  BY <1>1, <2>1 DEF Packets
<1>4. more => d \in Delivery
  <2>1. more => retained \in Messages /\ Qos[retained] \in 0..2
    BY BusTypes DEF BusInv, Typed
  <2> QED  BY <1>3, <2>1, MinTwo DEF Delivery
<1>5. /\ r \in Conn /\ r.up = Tail(k.up) /\ r.down = k.down /\ SameBut(k, r)
      /\ [conns EXCEPT ![c].up = Tail(@)] = read
  BY <1>2, <1>3 DEF Conn, SameBut
<1>6. Emptied(r) /\ Answered(r, got) /\ \A m : Firmly(k, m) => Firmly(r, m)
  <2> DEFINE q == [type |-> "puback", id |-> 0]
  <2>1. q \in Packets /\ q.type # "publish" /\ q.type # "pubrel"
    BY DEF Packets
  <2> HIDE DEF q, r
  <2> QED  BY <1>1, <1>2, <1>5, <2>1, PacketRead
<1>7. /\ read \in [Conns -> Conn] /\ read[c] = r /\ \A e \in Conns : e # c => read[e] = conns[e]
      /\ \A e \in Conns : /\ Emptied(read[e]) /\ Answered(read[e], got)
                          /\ read[e].at = conns[e].at /\ read[e].gone = conns[e].gone
                          /\ \A m : Firmly(conns[e], m) => Firmly(read[e], m)
  <2> HIDE DEF r
  <2>1. read \in [Conns -> Conn] /\ read[c] = r /\ \A e \in Conns : e # c => read[e] = conns[e]
    BY <1>2, <1>5
  <2> QED  BY <1>5, <1>6, <2>1 DEF BusInv, Local, SameBut
<1> HIDE DEF read, r, d
<1>8. conns' = [e \in Conns |-> conns'[e]] /\ \A e \in Conns : Fuller(read[e], conns'[e])
  <2>1. CASE ~more
    BY <1>1, <1>5, <1>7, <2>1 DEF Fuller
  <2>2. CASE more
    <3> DEFINE ds == Append(read[o].deliveries, d)
    <3>1. o \in Conns /\ conns[o].at \in Serving
      BY <1>2, <2>2 DEF BusInv, Linked, Session
    <3>2. read[o] \in Conn /\ read[o].deliveries \in Seq(Delivery) /\ read[o].at \in Serving
      <4>1. read[o] \in Conn
        BY <1>7, <3>1
      <4> QED  BY <1>7, <3>1, <4>1 DEF Conn
    <3>3. ds \in Seq(Delivery) /\ ToSet(read[o].deliveries) \subseteq ToSet(ds)
      BY <1>4, <2>2, <3>2, SetAppend
    <3>4. conns' = [read EXCEPT ![o].deliveries = ds]
      BY <1>1, <1>5, <2>2
    <3> HIDE DEF ds
    <3>5. conns'[o] = [read[o] EXCEPT !.deliveries = ds] /\ \A e \in Conns : e # o => conns'[e] = read[e]
      BY <1>7, <3>1, <3>4
    <3>6. conns' = [e \in Conns |-> conns'[e]]
      BY <1>7, <3>4
    <3> QED  BY <3>2, <3>3, <3>5, <3>6 DEF Fuller
  <2> QED  BY <2>1, <2>2
<1>9. \A e \in Conns : /\ conns'[e] \in Conn /\ Emptied(conns'[e]) /\ Answered(conns'[e], got)
                       /\ conns'[e].at = conns[e].at /\ conns'[e].gone = conns[e].gone
                       /\ \A m : Firmly(conns[e], m) => Firmly(conns'[e], m)
  <2>1. \A e \in Conns : read[e] \in Conn
    BY <1>7
  <2> QED  BY <1>7, <1>8, <2>1, FullerKeeps
<1>10. conns' \in [Conns -> Conn]
  BY <1>8, <1>9
<1>11. /\ session' \in Session /\ session'.queued = session.queued /\ session'.online = session.online
       /\ session'.exists = session.exists /\ session'.clean = session.clean
       /\ ~session.exists => session' = session
  <2> HIDE DEF packet
  <2>1. packet.qos \in -1..2
    BY <1>3
  <2>2. session' = session \/ session' = [session EXCEPT !.subscription = packet.qos]
    BY <1>1
  <2> QED  BY <1>1, <1>2, <2>1, <2>2 DEF Session
<1>12. Typed'
  BY <1>1, <1>10, <1>11 DEF BusInv, Typed
<1>13. Linked'
  <2>1. session'.online # None => session'.online \in Conns
    BY <1>11 DEF Session
  <2>2. current # None => current \in Conns
    BY DEF BusInv, Typed
  <2> QED  BY <1>1, <1>9, <1>11, <2>1, <2>2 DEF BusInv, Linked
<1>14. Local'
  BY <1>1, <1>9 DEF Local
<1>15. Owing'
  BY <1>1, <1>9, <1>11 DEF BusInv, Owing, Firm
<1> QED  BY <1>12, <1>13, <1>14, <1>15 DEF BusInv

LEMMA EndKeeps ==
    ASSUME BusInv, NEW c \in Conns, End(c)
    PROVE  BusInv'
<1> DEFINE k == conns[c]
           r == [k EXCEPT !.at = "requeue", !.up = <<>>]
<1>1. /\ k \in Conn /\ k.at = "open" /\ Emptied(k)
      /\ UNCHANGED <<session, retained, delivered_once, current, published, got, owed, acked, lost>>
      /\ conns' = [conns EXCEPT ![c] = r]
  BY DEF BusInv, Typed, Local, End
<1>2. /\ r \in Conn /\ r.at = "requeue" /\ r.gone = k.gone
      /\ r.deliveries = k.deliveries /\ r.inflight = k.inflight
  BY <1>1, SetEmpty DEF Conn
<1> HIDE DEF r
<1>3. Emptied(r) /\ Answered(r, got) /\ (\A m : Firmly(k, m) => Firmly(r, m)) /\ acked' \subseteq Messages
  BY <1>1, <1>2 DEF Emptied, Answered, Firmly, Serving, BusInv, Typed
<1> QED  BY <1>1, <1>2, <1>3, TaskOnly DEF Serving

\* What was not acknowledged is queued, if the session owes anything.
LEMMA RequeueKeeps ==
    ASSUME BusInv, NEW c \in Conns, Requeue(c)
    PROVE  BusInv'
<1> DEFINE k == conns[c]
           r == [k EXCEPT !.at = "drop", !.inflight = <<>>]
           again == Requeued(c)
           keeps == session.exists /\ ~session.clean
<1>1. /\ k \in Conn /\ k.at = "requeue" /\ Emptied(k) /\ session \in Session
      /\ k.inflight \in Seq(Unacknowledged) /\ session.queued \in Seq(Delivery)
      /\ conns' = [conns EXCEPT ![c] = r]
      /\ session' = IF keeps THEN [session EXCEPT !.queued = @ \o again] ELSE session
      /\ UNCHANGED <<retained, delivered_once, current, published, breaks, got, owed, acked, lost>>
  BY DEF BusInv, Typed, Local, Requeue, Conn, Session
<1>2. /\ again \in Seq(Delivery)
      /\ \A f \in ToSet(k.inflight) : \E d \in ToSet(again) : d[1] = f.message /\ d[2] > 0
  <2>1. /\ k.inflight \in [1..Len(k.inflight) -> Unacknowledged] /\ Len(k.inflight) \in Nat
        /\ DOMAIN k.inflight = 1..Len(k.inflight)
    BY <1>1, LenProperties
  <2>2. again = [i \in 1..Len(k.inflight) |-> <<k.inflight[i].message, k.inflight[i].qos>>]
    BY <2>1 DEF Requeued
  <2>3. \A i \in 1..Len(k.inflight) : /\ k.inflight[i].message \in Messages
                                     /\ k.inflight[i].qos \in 1..2
    BY <2>1 DEF Unacknowledged
  <2>4. again \in [1..Len(k.inflight) -> Delivery]
    BY <2>2, <2>3 DEF Delivery
  <2>5. \A i \in 1..Len(k.inflight) : again[i][1] = k.inflight[i].message /\ again[i][2] = k.inflight[i].qos
    BY <2>2
  <2>6. DOMAIN again = 1..Len(k.inflight)
    BY <2>2
  <2>7. again \in Seq(Delivery)
    BY <2>1, <2>4
  <2> HIDE DEF again
  <2> QED  BY <2>1, <2>3, <2>5, <2>6, <2>7 DEF ToSet
<1> HIDE DEF again
<1>3. session.queued \o again \in Seq(Delivery)
      /\ ToSet(session.queued \o again) = ToSet(session.queued) \union ToSet(again)
  BY <1>1, <1>2, SetConcat
<1>4. /\ session' \in Session /\ session'.exists = session.exists /\ session'.clean = session.clean
      /\ session'.online = session.online
      /\ keeps => ToSet(session'.queued) = ToSet(session.queued) \union ToSet(again)
      /\ ~keeps => session' = session
  BY <1>1, <1>3 DEF Session
<1>5. /\ r \in Conn /\ r.at = "drop" /\ r.gone = k.gone /\ r.up = k.up /\ r.down = k.down
      /\ r.seen = k.seen /\ r.deliveries = k.deliveries /\ r.inflight = <<>>
  BY <1>1, SetEmpty DEF Conn
<1> HIDE DEF r
<1>6. Emptied(r) /\ Answered(r, got)
  BY <1>1, <1>5 DEF Emptied, Answered, Serving
<1>7. /\ conns' \in [Conns -> Conn] /\ conns'[c] = r
      /\ \A d \in Conns : d # c => conns'[d] = conns[d]
  BY <1>1, <1>5 DEF BusInv, Typed
<1>8. Typed'
  BY <1>1, <1>4, <1>7 DEF BusInv, Typed
<1>9. Linked'
  BY <1>1, <1>4, <1>5, <1>7 DEF BusInv, Typed, Linked, Serving, Session
<1>10. Local'
  BY <1>1, <1>6, <1>7 DEF BusInv, Local
<1>11. Owing'
  <2>1. ASSUME NEW m, keeps, Firm(session, conns, m) PROVE Firm(session', conns', m)
    <3>1. CASE \E d \in ToSet(session.queued) : d[1] = m /\ d[2] > 0
      BY <1>4, <2>1, <3>1 DEF Firm
    <3>2. CASE \E f \in ToSet(k.inflight) : f.message = m
      BY <1>2, <1>4, <2>1, <3>2 DEF Firm
    <3>3. ASSUME NEW d \in Conns, Firmly(conns[d], m), d # c \/ ~\E f \in ToSet(k.inflight) : f.message = m
          PROVE  Firmly(conns'[d], m)
      BY <1>5, <1>7, <3>3 DEF Firmly
    <3> QED  BY <2>1, <3>1, <3>2, <3>3 DEF Firm
  <2>2. ~keeps => owed = {}
    BY DEF BusInv, Linked
  <2> QED  BY <1>1, <2>1, <2>2 DEF BusInv, Owing
<1> QED  BY <1>8, <1>9, <1>10, <1>11 DEF BusInv

\* What is dropped with the channel is recorded as lost.
LEMMA DropKeeps ==
    ASSUME BusInv, NEW c \in Conns, Drop(c)
    PROVE  BusInv'
<1> DEFINE k == conns[c]
           r == IF k.gone THEN FreeConn
                ELSE [FreeConn EXCEPT !.at = "closed", !.down = k.down, !.seen = k.seen]
<1>1. /\ k \in Conn /\ k.at = "drop" /\ Emptied(k) /\ session \in Session
      /\ k.deliveries \in Seq(Delivery)
      /\ session' = IF session.clean \/ ~session.exists THEN NoSession
                    ELSE [session EXCEPT !.online = None]
      /\ lost' = lost \union {k.deliveries[i][1] : i \in DOMAIN k.deliveries}
      /\ conns' = [conns EXCEPT ![c] = r]
      /\ UNCHANGED <<retained, delivered_once, current, published, breaks, got, owed, acked>>
  BY DEF BusInv, Typed, Local, Drop, Offline, Conn
<1>2. /\ r \in Conn /\ Emptied(r) /\ Answered(r, got) /\ ~r.gone
      /\ r.at = IF k.gone THEN "free" ELSE "closed"
  <2>1. CASE k.gone
    BY <2>1, FreeConnTyped DEF FreeConn
  <2>2. CASE ~k.gone
    <3>1. /\ r.at = "closed" /\ r.up = <<>> /\ r.deliveries = <<>> /\ r.inflight = <<>> /\ ~r.gone
          /\ r \in Conn
      BY <1>1, <2>2, SetEmpty DEF FreeConn, Conn
    <3> QED  BY <2>2, <3>1 DEF Emptied, Answered, Serving
  <2> QED  BY <2>1, <2>2
<1> HIDE DEF r
<1>3. /\ conns' \in [Conns -> Conn] /\ conns'[c] = r
      /\ \A d \in Conns : d # c => conns'[d] = conns[d]
  BY <1>1, <1>2 DEF BusInv, Typed
<1>4. /\ \A d \in ToSet(k.deliveries) : d[1] \in lost'
      /\ lost \subseteq lost' /\ lost' \subseteq Messages
  <2>1. \A i \in DOMAIN k.deliveries : k.deliveries[i] \in Delivery
    BY <1>1, LenProperties
  <2> QED  BY <1>1, <2>1 DEF ToSet, Delivery, BusInv, Typed
<1>5. /\ session' \in Session /\ session'.online = None
      /\ session.clean \/ ~session.exists => session' = NoSession
      /\ ~(session.clean \/ ~session.exists) =>
             session'.queued = session.queued /\ session'.exists /\ ~session'.clean
  BY <1>1, SetEmpty DEF Session, NoSession
<1>6. Typed'
  BY <1>1, <1>3, <1>4, <1>5 DEF BusInv, Typed
<1>7. Linked'
  <2>1. current = c => ~k.gone
    BY BusTypes DEF BusInv, Linked
  <2> QED  BY <1>1, <1>2, <1>3, <1>5, <2>1 DEF BusInv, Typed, Linked, NoSession
<1>8. Local'
  BY <1>1, <1>2, <1>3 DEF BusInv, Local
<1>9. Owing'
  <2>1. ASSUME NEW m \in owed, m \notin got, m \notin lost' PROVE Firm(session', conns', m)
    <3>1. session'.queued = session.queued /\ Firm(session, conns, m)
      BY <1>4, <1>5, <2>1 DEF BusInv, Owing, Linked
    <3>2. ~Firmly(k, m)
      BY <1>1, <1>4, <2>1, SetEmpty DEF Firmly, Emptied
    <3> QED  BY <1>3, <3>1, <3>2 DEF Firm, k
  <2> QED  BY <1>1, <2>1 DEF Owing
<1> QED  BY <1>6, <1>7, <1>8, <1>9 DEF BusInv

-----------------------------------------------------------------------------
(* The client. *)

\* A step of the client on its connection, which serves it as before.
LEMMA ClientOnly ==
    ASSUME BusInv, current \in Conns, NEW r \in Conn, conns' = [conns EXCEPT ![current] = r],
           UNCHANGED <<session, retained, delivered_once, current, owed, acked, lost>>,
           published' \in 0..Len(Qos), got \subseteq got', got' \subseteq Messages,
           Emptied(r), Answered(r, got'), r.gone = conns[current].gone, r.at = conns[current].at,
           \A m : Firmly(conns[current], m) => Firmly(r, m)
    PROVE  BusInv'
<1>1. /\ conns' \in [Conns -> Conn] /\ conns'[current] = r
      /\ \A d \in Conns : d # current => conns'[d] = conns[d]
      /\ Local' /\ Owing'
  BY OneConnection
<1>2. Typed'
  BY <1>1 DEF BusInv, Typed
<1>3. Linked'
  BY <1>1 DEF BusInv, Typed, Linked, Session
<1> QED  BY <1>1, <1>2, <1>3 DEF BusInv

LEMMA ConnectKeeps ==
    ASSUME BusInv, Connect
    PROVE  BusInv'
<1> PICK c \in Conns, clean \in Clean :
        /\ conns[c].at = "free"
        /\ current' = c
        /\ conns' = [conns EXCEPT ![c] = [FreeConn EXCEPT !.at = "hello", !.clean = clean]]
  BY DEF Connect
<1> DEFINE r == [FreeConn EXCEPT !.at = "hello", !.clean = clean]
<1>1. UNCHANGED <<session, retained, delivered_once, published, got, owed, acked, lost>>
  BY DEF Connect
<1>2. /\ r \in Conn /\ r.at = "hello" /\ ~r.gone /\ Emptied(r) /\ Answered(r, got)
  <2>1. /\ r.at = "hello" /\ ~r.gone /\ r.up = <<>> /\ r.down = <<>> /\ r.seen = {}
        /\ r.deliveries = <<>> /\ r.inflight = <<>>
    BY DEF FreeConn
  <2>2. r \in Conn
    BY BusAssumption, SetEmpty DEF FreeConn, Conn
  <2> HIDE DEF r
  <2> QED  BY <2>1, <2>2 DEF Emptied, Answered, Serving
<1>3. \A m : Firmly(conns[c], m) => Firmly(r, m)
  BY SetEmpty DEF BusInv, Local, Emptied, Firmly, Serving
<1> HIDE DEF r
<1>4. conns' = [conns EXCEPT ![c] = r]
  BY DEF r
<1>5. /\ conns' \in [Conns -> Conn] /\ conns'[c] = r
      /\ \A d \in Conns : d # c => conns'[d] = conns[d]
      /\ Local' /\ Owing'
  BY <1>1, <1>2, <1>3, <1>4, OneConnection
<1>6. Typed'
  BY <1>1, <1>5 DEF BusInv, Typed
<1>7. Linked'
  BY <1>1, <1>2, <1>5 DEF BusInv, Typed, Linked, Serving, Session
<1> QED  BY <1>5, <1>6, <1>7 DEF BusInv

\* What the client writes are no answers.
LEMMA WriteKeeps ==
    ASSUME BusInv, Connected, NEW packet \in Packets, packet.type \in {"publish", "subscribe"},
           conns' = Write(packet), published' \in 0..Len(Qos),
           UNCHANGED <<session, retained, delivered_once, current, got, owed, acked, lost>>
    PROVE  BusInv'
<1> DEFINE k == conns[current]
           r == [k EXCEPT !.up = Append(k.up, packet), !.client_id = packet.id]
<1>1. /\ current \in Conns /\ k \in Conn /\ Emptied(k) /\ Answered(k, got) /\ k.up \in Seq(Packets)
      /\ k.at \notin {"free", "hello", "closed"} /\ packet.id \in Nat
  BY DEF BusInv, Typed, Linked, Local, Connected, Conn, Packets
<1>2. conns' = [conns EXCEPT ![current] = r]
  BY DEF Write
<1>3. /\ Append(k.up, packet) \in Seq(Packets)
      /\ ToSet(Append(k.up, packet)) = ToSet(k.up) \union {packet}
  BY <1>1, SetAppend
<1>4. /\ r \in Conn /\ r.at = k.at /\ r.gone = k.gone /\ r.up = Append(k.up, packet)
      /\ r.down = k.down /\ r.seen = k.seen /\ r.inflight = k.inflight
      /\ r.next_id = k.next_id /\ r.deliveries = k.deliveries
  BY <1>1, <1>3 DEF Conn
<1> HIDE DEF r
<1>5. Emptied(r)
  BY <1>1, <1>4 DEF Emptied
<1>6. Answered(r, got)
  <2>1. Answers(r) = Answers(k) /\ Releases(r) = Releases(k) /\ Pushed(r) = Pushed(k)
    BY <1>3, <1>4 DEF Answers, Releases, Pushed
  <2> QED  BY <1>1, <1>4, <2>1 DEF Answered, Had
<1>7. \A m : Firmly(k, m) => Firmly(r, m)
  BY <1>4 DEF Firmly
<1>8. got \subseteq got' /\ got' \subseteq Messages
  BY DEF BusInv, Typed
<1> QED  BY <1>1, <1>2, <1>4, <1>5, <1>6, <1>7, <1>8, ClientOnly

LEMMA ClientWriteKeeps ==
    ASSUME BusInv, ClientPublish \/ ClientSubscribe
    PROVE  BusInv'
<1>1. CASE ClientPublish
  <2> DEFINE m == published + 1
             id == IF Qos[m] = 0 THEN conns[current].client_id ELSE conns[current].client_id + 1
             packet == [type |-> "publish", message |-> m, qos |-> Qos[m], id |-> id]
  <2>1. /\ Connected /\ published' = m /\ conns' = Write(packet) /\ published < Len(Qos)
        /\ UNCHANGED <<session, retained, delivered_once, current, got, owed, acked, lost>>
    BY <1>1 DEF ClientPublish
  <2>2. conns[current].client_id \in Nat /\ published \in 0..Len(Qos)
    BY <2>1 DEF BusInv, Typed, Connected, Conn
  <2>3. m \in Messages /\ Qos[m] \in 0..2 /\ id \in Nat /\ published' \in 0..Len(Qos)
    BY <2>1, <2>2, BusTypes
  <2>4. packet \in Packets /\ packet.type = "publish"
    BY <2>3 DEF Packets
  <2> HIDE DEF packet, m
  <2> QED  BY <2>1, <2>3, <2>4, WriteKeeps
<1>2. CASE ClientSubscribe
  <2>1. PICK qos \in Grants : conns' = Write([type |-> "subscribe", qos |-> qos, id |-> 1])
    BY <1>2 DEF ClientSubscribe
  <2> DEFINE packet == [type |-> "subscribe", qos |-> qos, id |-> 1]
  <2>2. packet \in Packets /\ packet.type = "subscribe"
    BY BusAssumption DEF Packets
  <2>3. /\ Connected /\ conns' = Write(packet) /\ published' \in 0..Len(Qos)
        /\ UNCHANGED <<session, retained, delivered_once, current, got, owed, acked, lost>>
    BY <1>2, <2>1 DEF ClientSubscribe, BusInv, Typed
  <2> HIDE DEF packet
  <2> QED  BY <2>2, <2>3, WriteKeeps
<1> QED  BY <1>1, <1>2

\* The application has a message before it is answered.
LEMMA ClientReadKeeps ==
    ASSUME BusInv, ClientRead
    PROVE  BusInv'
<1> DEFINE c == current
           k == conns[c]
           packet == Head(k.down)
           reply == Reply(packet)
           upper == IF k.at \in {"requeue", "drop", "closed"} THEN k.up ELSE k.up \o reply
           ids == CASE packet.type = "publish" /\ packet.qos = 2 -> k.seen \union {packet.id}
                    [] packet.type = "pubrel" -> k.seen \ {packet.id}
                    [] OTHER -> k.seen
           r == [k EXCEPT !.down = Tail(k.down), !.up = upper, !.seen = ids]
<1>1. /\ c \in Conns /\ k \in Conn /\ k.down # <<>> /\ Emptied(k) /\ Answered(k, got)
      /\ k.up \in Seq(Packets) /\ k.down \in Seq(Packets) /\ k.seen \subseteq Nat
  BY DEF BusInv, Typed, Linked, Local, ClientRead, Conn
<1>2. /\ got' = IF Handed(c, packet) THEN got \union {packet.message} ELSE got
      /\ conns' = [conns EXCEPT ![c].down = Tail(@),
             ![c].up = IF k.at \in {"requeue", "drop", "closed"} THEN @ ELSE @ \o reply,
             ![c].seen = CASE packet.type = "publish" /\ packet.qos = 2 -> @ \union {packet.id}
                           [] packet.type = "pubrel" -> @ \ {packet.id}
                           [] OTHER -> @]
      /\ UNCHANGED <<session, retained, delivered_once, current, published, breaks, owed, acked, lost>>
  BY DEF ClientRead
<1>3. /\ packet \in Packets /\ Tail(k.down) \in Seq(Packets)
      /\ ToSet(k.down) = {packet} \union ToSet(Tail(k.down))
  BY <1>1, SetTail
<1>4. /\ packet.id \in Nat
      /\ packet.type = "publish" => packet.message \in Messages /\ packet.qos \in 0..2
  BY <1>3 DEF Packets
<1> HIDE DEF packet
<1>5. /\ reply \in Seq(Packets)
      /\ \A a \in ToSet(reply) :
             /\ a.id = packet.id
             /\ a.type \in {"puback", "pubrec"} =>
                    packet.type = "publish" /\ packet.qos > 0
             /\ a.type = "pubcomp" => packet.type = "pubrel"
             /\ a.type \in {"puback", "pubrec", "pubcomp", "pubrel"}
  <2>1. ASSUME NEW a \in Packets PROVE <<a>> \in Seq(Packets) /\ ToSet(<<a>>) = {a}
    BY DEF ToSet
  <2>2. CASE packet.type = "publish" /\ packet.qos = 1
    <3>1. reply = <<[type |-> "puback", id |-> packet.id]>> /\ [type |-> "puback", id |-> packet.id] \in Packets
      BY <1>4, <2>2 DEF Reply, Packets, Answer
    <3> QED  BY <2>1, <2>2, <3>1
  <2>3. CASE packet.type = "publish" /\ packet.qos = 2
    <3>1. reply = <<[type |-> "pubrec", id |-> packet.id]>> /\ [type |-> "pubrec", id |-> packet.id] \in Packets
      BY <1>4, <2>3 DEF Reply, Packets, Answer
    <3> QED  BY <2>1, <2>3, <3>1
  <2>4. CASE packet.type = "pubrec"
    <3>1. reply = <<[type |-> "pubrel", id |-> packet.id]>> /\ [type |-> "pubrel", id |-> packet.id] \in Packets
      BY <1>4, <2>4 DEF Reply, Packets, Answer
    <3> QED  BY <2>1, <2>4, <3>1
  <2>5. CASE packet.type = "pubrel"
    <3>1. reply = <<[type |-> "pubcomp", id |-> packet.id]>> /\ [type |-> "pubcomp", id |-> packet.id] \in Packets
      BY <1>4, <2>5 DEF Reply, Packets, Answer
    <3> QED  BY <2>1, <2>5, <3>1
  <2>6. CASE /\ ~(packet.type = "publish" /\ packet.qos \in {1, 2})
             /\ packet.type \notin {"pubrec", "pubrel"}
    <3>1. reply = <<>>
      BY <1>4, <2>6 DEF Reply, Answer
    <3> QED  BY <3>1, SetEmpty
  <2> QED  BY <2>2, <2>3, <2>4, <2>5, <2>6
<1> HIDE DEF reply
<1>6. upper \in Seq(Packets) /\ ToSet(upper) \subseteq ToSet(k.up) \union ToSet(reply)
  BY <1>1, <1>5, SetConcat
<1>7. ids \subseteq Nat /\ \A i \in ids : i \in k.seen \/ (i = packet.id /\ packet.type = "publish" /\ packet.qos = 2)
  BY <1>1, <1>4
<1>8. conns' = [conns EXCEPT ![c] = r]
  BY <1>1, <1>2 DEF Conn
<1> HIDE DEF upper, ids
<1>9. /\ r \in Conn /\ r.at = k.at /\ r.gone = k.gone /\ r.up = upper
      /\ r.down = Tail(k.down) /\ r.seen = ids /\ r.inflight = k.inflight
      /\ r.next_id = k.next_id /\ r.deliveries = k.deliveries
  BY <1>1, <1>3, <1>6, <1>7 DEF Conn
<1> HIDE DEF r
<1>10. Emptied(r)
  BY <1>1, <1>9 DEF Emptied, Serving
<1>11. got \subseteq got' /\ got' \subseteq Messages
  BY <1>2, <1>4 DEF Handed, BusInv, Typed
<1>12. Answered(r, got')
  <2> SUFFICES ASSUME k.at = "open" PROVE Answered(r, got')
    BY <1>9 DEF Answered
  <2>1. packet.type = "publish" /\ packet.qos > 0 => packet \in Pushed(k)
    BY <1>3 DEF Pushed
  <2>2. packet.type = "pubrel" => packet \in Releases(k)
    BY <1>3 DEF Releases
  <2>3. Releases(r) \subseteq Releases(k) /\ Pushed(r) \subseteq Pushed(k)
    BY <1>3, <1>9 DEF Releases, Pushed
  <2>4. \A a \in Answers(r) : \/ a \in Answers(k)
                              \/ a.id = packet.id /\ (packet \in Pushed(k) \/ packet \in Releases(k))
    BY <1>5, <1>6, <1>9, <2>1, <2>2 DEF Answers
  <2>5. \A i \in r.seen : i \in k.seen \/ (i = packet.id /\ packet \in Pushed(k))
    <3> SUFFICES ASSUME NEW i \in ids, i \notin k.seen PROVE i = packet.id /\ packet \in Pushed(k)
      BY <1>9
    <3>1. i = packet.id /\ packet.type = "publish" /\ packet.qos = 2
      BY <1>7
    <3> QED  BY <2>1, <3>1
  <2>6. \A i : Had(r, i) => Had(k, i) \/ (i = packet.id /\ packet \in Pushed(k))
    BY <2>3, <2>4, <2>5 DEF Had
  \* What the packet brings is in the application's hands now, or was before.
  <2>7. ASSUME NEW f \in ToSet(k.inflight), packet \in Pushed(k), f.id = packet.id
        PROVE  f.message \in got'
    <3>1. f.message = packet.message /\ (Had(k, f.id) => f.message \in got)
      BY <1>1, <2>7 DEF Answered
    <3>2. packet.type = "publish" /\ (~Handed(c, packet) => packet.id \in k.seen)
      BY <2>7 DEF Handed, Pushed
    <3> QED  BY <1>2, <1>11, <2>7, <3>1, <3>2 DEF Had
  <2>8. \A f \in Answers(r) \union Releases(r) \union Pushed(r) : f.id <= k.next_id
    BY <1>1, <2>3, <2>4 DEF Answered
  <2>9. \A i \in r.seen : i <= k.next_id
    BY <1>1, <2>5 DEF Answered
  <2>10. \A f \in ToSet(k.inflight) : /\ f.id <= k.next_id
                                      /\ \A g \in Pushed(r) : g.id = f.id => g.message = f.message
                                      /\ Had(r, f.id) => f.message \in got'
    BY <1>1, <1>11, <2>3, <2>6, <2>7 DEF Answered
  <2> QED  BY <1>9, <2>8, <2>9, <2>10 DEF Answered
<1>13. \A m : Firmly(k, m) => Firmly(r, m)
  BY <1>9 DEF Firmly
<1>14. published' \in 0..Len(Qos)
  BY <1>2 DEF BusInv, Typed
<1> QED  BY <1>1, <1>2, <1>8, <1>9, <1>10, <1>11, <1>12, <1>13, <1>14, ClientOnly

LEMMA LeaveKeeps ==
    ASSUME BusInv, current # None, NEW bye \in Seq(Packets), Leave(bye),
           ToSet(bye) \intersect {f \in Packets : f.type # "disconnect"} = {},
           bye # <<>> => Connected
    PROVE  BusInv'
<1> DEFINE k == conns[current]
           r == IF k.at = "closed" THEN FreeConn
                ELSE [k EXCEPT !.gone = TRUE, !.down = <<>>, !.up = @ \o bye, !.seen = {}]
<1>1. /\ current \in Conns /\ k \in Conn /\ Emptied(k) /\ Answered(k, got) /\ k.up \in Seq(Packets)
      /\ current' = None /\ conns' = [conns EXCEPT ![current] = r]
      /\ UNCHANGED <<session, retained, delivered_once, published, got, owed, acked, lost>>
  BY DEF BusInv, Typed, Local, Leave, Conn
<1>2. /\ k.up \o bye \in Seq(Packets) /\ ToSet(k.up \o bye) = ToSet(k.up) \union ToSet(bye)
      /\ ToSet(bye) \subseteq Packets
      /\ bye = <<>> => k.up \o bye = k.up
  BY <1>1, SetConcat, SetTyped, ConcatEmptySeq
<1>3. CASE k.at = "closed"
  <2>1. r = FreeConn /\ current # session.online
    BY <1>3 DEF BusInv, Linked, Serving
  <2>2. r \in Conn /\ Emptied(r) /\ Answered(r, got)
    BY <2>1, FreeConnTyped
  <2>3. \A m : ~Firmly(k, m)
    BY <1>1, <1>3, SetEmpty DEF Emptied, Firmly, Serving
  <2> HIDE DEF r
  <2>4. /\ conns' \in [Conns -> Conn] /\ conns'[current] = r
        /\ \A d \in Conns : d # current => conns'[d] = conns[d]
        /\ Local' /\ Owing'
    BY <1>1, <2>2, <2>3, OneConnection
  <2>5. Typed'
    BY <1>1, <2>4 DEF BusInv, Typed
  <2>6. Linked'
    BY <1>1, <2>1, <2>4 DEF BusInv, Typed, Linked, Session
  <2> QED  BY <2>4, <2>5, <2>6 DEF BusInv
<1>4. CASE k.at # "closed"
  <2>1. /\ r \in Conn /\ r.at = k.at /\ r.gone /\ r.up = k.up \o bye /\ r.down = <<>> /\ r.seen = {}
        /\ r.inflight = k.inflight /\ r.next_id = k.next_id /\ r.deliveries = k.deliveries
    BY <1>1, <1>2, <1>4, SetEmpty DEF Conn
  <2> HIDE DEF r
  <2>2. Emptied(r)
    <3>1. k.at \in {"free", "hello"} => k.up \o bye = <<>>
      BY <1>1, <1>2 DEF Emptied, Connected, BusInv, Linked
    <3> QED  BY <1>1, <2>1, <3>1 DEF Emptied, Serving
  <2>3. Answered(r, got)
    <3>1. Answers(r) \subseteq Answers(k) /\ Releases(r) = {} /\ Pushed(r) = {}
      BY <1>2, <2>1, SetEmpty DEF Answers, Releases, Pushed
    <3> QED  BY <1>1, <2>1, <3>1 DEF Answered, Had
  <2>4. \A m : Firmly(k, m) => Firmly(r, m)
    BY <2>1 DEF Firmly
  <2>5. /\ conns' \in [Conns -> Conn] /\ conns'[current] = r
        /\ \A d \in Conns : d # current => conns'[d] = conns[d]
        /\ Local' /\ Owing'
    BY <1>1, <2>1, <2>2, <2>3, <2>4, OneConnection
  <2>6. Typed'
    BY <1>1, <2>5 DEF BusInv, Typed
  <2>7. Linked'
    BY <1>1, <2>1, <2>5 DEF BusInv, Typed, Linked, Session
  <2> QED  BY <2>5, <2>6, <2>7 DEF BusInv
<1> QED  BY <1>3, <1>4

LEMMA ClientLeavesKeeps ==
    ASSUME BusInv, Break \/ Disconnect \/ Closed
    PROVE  BusInv'
<1>1. CASE Break \/ Closed
  <2>1. current # None /\ Leave(<<>>) /\ <<>> \in Seq(Packets) /\ ToSet(<<>>) = {}
    BY <1>1, SetEmpty DEF Break, Closed
  <2> QED  BY <2>1, LeaveKeeps
<1>2. CASE Disconnect
  <2> DEFINE packet == [type |-> "disconnect", id |-> 0]
  <2>1. packet \in Packets /\ packet.type = "disconnect"
    BY DEF Packets
  <2>2. <<packet>> \in Seq(Packets) /\ ToSet(<<packet>>) = {packet}
    BY <2>1 DEF ToSet
  <2>3. current # None /\ Connected /\ Leave(<<packet>>)
    BY <1>2 DEF Disconnect, Connected
  <2> HIDE DEF packet
  <2> QED  BY <2>1, <2>2, <2>3, LeaveKeeps
<1> QED  BY <1>1, <1>2

-----------------------------------------------------------------------------
(* The bus. *)

LEMMA BusKeeps == BusInv /\ [Next]_vars => BusInv'
<1> SUFFICES ASSUME BusInv, [Next]_vars PROVE BusInv'
  OBVIOUS
<1>1. CASE UNCHANGED vars
  BY <1>1 DEF vars, BusInv, Typed, Linked, Local, Owing, Firm
<1>2. CASE LocalPublish
  BY <1>2, LocalPublishKeeps
<1>3. CASE ClientPublish \/ ClientSubscribe
  BY <1>3, ClientWriteKeeps
<1>4. CASE Break \/ Disconnect \/ Closed
  BY <1>4, ClientLeavesKeeps
<1>5. CASE Connect \/ ClientRead
  BY <1>5, ConnectKeeps, ClientReadKeeps
<1>6. ASSUME NEW c \in Conns, Task(c) PROVE BusInv'
  BY <1>6, AcceptKeeps, DeliverKeeps, ReadPublishKeeps, ReadAckKeeps, ReadStepKeeps,
     ReadSubscribeKeeps, EndKeeps, RequeueKeeps, DropKeeps DEF Task
<1> QED  BY <1>1, <1>2, <1>3, <1>4, <1>5, <1>6 DEF Next, Client

\* A message a persistent session owes its client at least once is received
\* or held, over broken connections, takeovers and returns in any order; but
\* for what was in the channel of a connection that ended, and a publication
\* whose packet id an earlier connection had used.
THEOREM AtLeastOnce == Spec => []NothingLost
<1>1. BusInv => NothingLost
  <2> SUFFICES ASSUME BusInv, NEW m \in owed, m \notin got \union lost PROVE m \in Held
    BY DEF NothingLost
  <2>1. Firm(session, conns, m)
    BY DEF BusInv, Owing
  <2>2. CASE \E d \in ToSet(session.queued) : d[1] = m
    BY <2>2 DEF Held
  <2>3. ASSUME NEW c \in Conns, Firmly(conns[c], m) PROVE m \in Held
    <3>1. m \in HeldBy(c)
      BY <2>3 DEF Firmly, HeldBy
    <3> QED  BY <3>1 DEF Held
  <2> QED  BY <2>1, <2>2, <2>3 DEF Firm
<1> QED  BY <1>1, BusInitially, BusKeeps, PTL DEF Spec
-----------------------------------------------------------------------------
(* A second invariant: a message that is not retained has one place.         *)

Tracked == Messages \ Retain

\* What identifies an element of each of the sequences; what is no publication
\* carries no message.
MessageOf == [d \in Delivery |-> d[1]]
KeptOf == [f \in Unacknowledged |-> f.message]
IdOf == [f \in Unacknowledged |-> f.id]
SentOf == [f \in Packets |-> IF f.type = "publish" THEN f.message ELSE None]

\* No two elements of s have the same g, if that is in T.
Once(s, g, T) == \A i, j \in DOMAIN s : g[s[i]] = g[s[j]] /\ g[s[i]] \in T => i = j
In(s, g, x) == \E i \in DOMAIN s : g[s[i]] = x

InChannel(k, m) == In(k.deliveries, MessageOf, m)
InFlight(k, m) == In(k.inflight, KeptOf, m)
OnItsWay(k, m) == In(k.up, SentOf, m)
Has(k, m) == InChannel(k, m) \/ InFlight(k, m) \/ OnItsWay(k, m)
Queued(s, m) == In(s.queued, MessageOf, m)

\* Packet ids are used once, and a message has one place in the connection.
Alone(k) ==
    /\ Once(k.deliveries, MessageOf, Tracked) /\ Once(k.inflight, KeptOf, Tracked)
    /\ Once(k.up, SentOf, Tracked) /\ Once(k.inflight, IdOf, Nat)
    /\ \A m \in Tracked : /\ ~(InChannel(k, m) /\ InFlight(k, m))
                          /\ ~(InChannel(k, m) /\ OnItsWay(k, m))
                          /\ ~(InFlight(k, m) /\ OnItsWay(k, m))

\* In a session s with the connections all, where done are acknowledged and n
\* published: a message is in one place, and in none when it is acknowledged.
Spread(s, all, done, n) ==
    /\ Once(s.queued, MessageOf, Tracked)
    /\ \A c \in Conns : Alone(all[c])
    /\ \A m \in Tracked :
           /\ m \in done \/ Queued(s, m) => m <= n /\ ~(m \in done /\ Queued(s, m))
           /\ \A c \in Conns : Has(all[c], m) => /\ m <= n /\ m \notin done /\ ~Queued(s, m)
                                                 /\ \A d \in Conns : Has(all[d], m) => d = c

Placed == Spread(session, conns, acked, published)

\* What is retained for the topic has the flag.
RetainedOnly == retained \in Retain \union {None}

LEMMA TrackedTypes == None \notin Tracked /\ \A m \in Tracked : m \in Messages /\ m \in Nat
BY BusTypes DEF Tracked

-----------------------------------------------------------------------------
(* Sequences without repetition. *)

LEMMA OnceEmpty == \A g, T, x : Once(<<>>, g, T) /\ ~In(<<>>, g, x)
BY DEF Once, In

LEMMA InSet ==
    ASSUME NEW s, NEW g, NEW x
    PROVE  In(s, g, x) <=> \E e \in ToSet(s) : g[e] = x
BY DEF In, ToSet

LEMMA OnceAppend ==
    ASSUME NEW S, NEW s \in Seq(S), NEW e \in S, NEW g, NEW T, Once(s, g, T),
           g[e] \in T => ~In(s, g, g[e])
    PROVE  /\ Once(Append(s, e), g, T)
           /\ \A x : In(Append(s, e), g, x) <=> In(s, g, x) \/ g[e] = x
<1> DEFINE t == Append(s, e)
           n == Len(s) + 1
<1>1. /\ DOMAIN t = 1..(Len(s) + 1) /\ DOMAIN s = 1..Len(s) /\ Len(s) \in Nat
      /\ \A i \in 1..Len(s) : t[i] = s[i]
      /\ t[Len(s) + 1] = e
  BY AppendProperties, LenProperties
<1>2. DOMAIN t = DOMAIN s \union {n} /\ n \notin DOMAIN s /\ t[n] = e
      /\ \A i \in DOMAIN s : t[i] = s[i]
  BY <1>1
<1> HIDE DEF t, n
<1>3. Once(t, g, T)
  BY <1>2 DEF Once, In
<1>4. \A x : In(t, g, x) <=> In(s, g, x) \/ g[e] = x
  BY <1>2 DEF In
<1> QED  BY <1>3, <1>4 DEF t

LEMMA OnceTail ==
    ASSUME NEW S, NEW s \in Seq(S), s # <<>>, NEW g, NEW T, Once(s, g, T)
    PROVE  /\ Once(Tail(s), g, T)
           /\ \A x : In(Tail(s), g, x) => In(s, g, x)
           /\ In(s, g, g[Head(s)])
           /\ g[Head(s)] \in T => ~In(Tail(s), g, g[Head(s)])
<1>1. /\ Head(s) = s[1] /\ DOMAIN s = 1..Len(s) /\ Len(s) \in Nat \ {0}
      /\ DOMAIN Tail(s) = 1..(Len(s) - 1)
      /\ \A i \in 1..(Len(s) - 1) : Tail(s)[i] = s[i + 1]
  BY HeadTailProperties, LenProperties, EmptySeq
<1>2. /\ 1 \in DOMAIN s
      /\ \A i \in DOMAIN Tail(s) : i + 1 \in DOMAIN s /\ i + 1 # 1 /\ Tail(s)[i] = s[i + 1]
      /\ \A i, j \in DOMAIN Tail(s) : i + 1 = j + 1 => i = j
  BY <1>1
<1>3. Once(Tail(s), g, T)
  BY <1>2 DEF Once
<1>4. \A x : In(Tail(s), g, x) => In(s, g, x)
  BY <1>2 DEF In
<1>5. In(s, g, g[Head(s)]) /\ (g[Head(s)] \in T => ~In(Tail(s), g, g[Head(s)]))
  BY <1>1, <1>2 DEF In, Once
<1> QED  BY <1>3, <1>4, <1>5

LEMMA OnceConcat ==
    ASSUME NEW S, NEW s \in Seq(S), NEW t \in Seq(S), NEW g, NEW T, Once(s, g, T), Once(t, g, T),
           \A x \in T : ~(In(s, g, x) /\ In(t, g, x))
    PROVE  /\ Once(s \o t, g, T)
           /\ \A x : In(s \o t, g, x) <=> In(s, g, x) \/ In(t, g, x)
<1>1. /\ DOMAIN (s \o t) = 1..(Len(s) + Len(t))
      /\ \A i \in 1..(Len(s) + Len(t)) :
             (s \o t)[i] = IF i <= Len(s) THEN s[i] ELSE t[i - Len(s)]
      /\ DOMAIN s = 1..Len(s) /\ DOMAIN t = 1..Len(t) /\ Len(s) \in Nat /\ Len(t) \in Nat
  BY ConcatProperties, LenProperties
<1> DEFINE u == s \o t
           n == Len(s)
<1>2. /\ \A i \in DOMAIN u : (i \in DOMAIN s /\ u[i] = s[i]) \/ (i - n \in DOMAIN t /\ u[i] = t[i - n])
      /\ \A i, j \in DOMAIN u : i - n = j - n => i = j
      /\ \A i \in DOMAIN s : i \in DOMAIN u /\ u[i] = s[i]
      /\ \A i \in DOMAIN t : i + n \in DOMAIN u /\ u[i + n] = t[i]
  BY <1>1
<1> HIDE DEF u, n
<1>3. Once(u, g, T)
  <2> SUFFICES ASSUME NEW i \in DOMAIN u, NEW j \in DOMAIN u, g[u[i]] = g[u[j]], g[u[i]] \in T
               PROVE  i = j
    BY DEF Once
  <2>1. CASE i \in DOMAIN s /\ u[i] = s[i] /\ j \in DOMAIN s /\ u[j] = s[j]
    BY <2>1 DEF Once
  <2>2. CASE i - n \in DOMAIN t /\ u[i] = t[i - n] /\ j - n \in DOMAIN t /\ u[j] = t[j - n]
    <3>1. i - n = j - n
      BY <2>2 DEF Once
    <3> QED  BY <1>2, <3>1
  <2>3. CASE i \in DOMAIN s /\ u[i] = s[i] /\ j - n \in DOMAIN t /\ u[j] = t[j - n]
    BY <2>3 DEF In
  <2>4. CASE j \in DOMAIN s /\ u[j] = s[j] /\ i - n \in DOMAIN t /\ u[i] = t[i - n]
    BY <2>4 DEF In
  <2> QED  BY <1>2, <2>1, <2>2, <2>3, <2>4
<1>4. \A x : In(u, g, x) <=> In(s, g, x) \/ In(t, g, x)
  BY <1>2 DEF In
<1> QED  BY <1>3, <1>4 DEF u

\* What is appended has nothing in T.
LEMMA OnceUntracked ==
    ASSUME NEW S, NEW s \in Seq(S), NEW t \in Seq(S), NEW g, NEW T, Once(s, g, T),
           \A e \in ToSet(t) : g[e] \notin T
    PROVE  Once(s \o t, g, T) /\ \A x \in T : In(s \o t, g, x) <=> In(s, g, x)
<1>1. \A x \in T : ~In(t, g, x)
  BY InSet
<1>2. Once(t, g, T)
  BY DEF Once, ToSet
<1> QED  BY <1>1, <1>2, OnceConcat

LEMMA OnceWithout ==
    ASSUME NEW s \in Seq(Unacknowledged), NEW id \in Nat, Once(s, KeptOf, Tracked), Once(s, IdOf, Nat)
    PROVE  /\ Once(Without(s, id), KeptOf, Tracked) /\ Once(Without(s, id), IdOf, Nat)
           /\ \A f \in ToSet(Without(s, id)) : f \in ToSet(s) /\ f.id # id
<1> DEFINE at == {k \in DOMAIN s : s[k].id = id}
<1>1. CASE at = {}
  <2>1. Without(s, id) = s
    BY <1>1 DEF Without
  <2> QED  BY <1>1, <2>1 DEF ToSet
<1>2. CASE at # {}
  <2>1. PICK k \in DOMAIN s : s[k].id = id /\ Without(s, id) = RemoveAt(s, k)
    <3>1. (CHOOSE k \in at : TRUE) \in at
      BY <1>2
    <3> QED  BY <1>2, <3>1 DEF Without
  <2> DEFINE l == SubSeq(s, 1, k - 1)
             r == SubSeq(s, k + 1, Len(s))
             u == Without(s, id)
  <2>2. Len(s) \in Nat /\ DOMAIN s = 1..Len(s) /\ k \in 1..Len(s)
    BY <2>1, LenProperties
  <2>3. /\ l \in Seq(Unacknowledged) /\ Len(l) = k - 1 /\ DOMAIN l = 1..(k - 1)
        /\ \A i \in 1..(k - 1) : l[i] = s[i]
    BY <2>2, SubSeqProperties, LenProperties
  <2>4. /\ r \in Seq(Unacknowledged) /\ Len(r) = Len(s) - k /\ DOMAIN r = 1..(Len(s) - k)
        /\ \A i \in 1..(Len(s) - k) : r[i] = s[k + i]
    BY <2>2, SubSeqProperties, LenProperties
  <2>5. /\ DOMAIN u = 1..(Len(s) - 1)
        /\ \A i \in 1..(Len(s) - 1) : u[i] = IF i <= k - 1 THEN l[i] ELSE r[i - (k - 1)]
    <3>1. /\ u = l \o r /\ DOMAIN (l \o r) = 1..(Len(l) + Len(r))
          /\ \A i \in 1..(Len(l) + Len(r)) :
                 (l \o r)[i] = IF i <= Len(l) THEN l[i] ELSE r[i - Len(l)]
      <4>1. u = l \o r
        BY <2>1 DEF RemoveAt
      <4>2. l \in Seq(Unacknowledged) /\ r \in Seq(Unacknowledged)
        BY <2>3, <2>4
      <4> HIDE DEF l, r, u
      <4> QED  BY <4>1, <4>2, ConcatProperties
    <3>2. Len(l) + Len(r) = Len(s) - 1 /\ Len(l) = k - 1
      BY <2>2, <2>3, <2>4
    <3> QED  BY <3>1, <3>2
  <2> DEFINE at2(i) == IF i < k THEN i ELSE i + 1
  <2>6. \A i \in DOMAIN u : at2(i) \in DOMAIN s /\ at2(i) # k /\ u[i] = s[at2(i)]
    <3> HIDE DEF l, r, u
    <3> SUFFICES ASSUME NEW i \in 1..(Len(s) - 1)
                 PROVE  at2(i) \in DOMAIN s /\ at2(i) # k /\ u[i] = s[at2(i)]
      BY <2>5
    <3>1. CASE i < k
      BY <2>2, <2>3, <2>5, <3>1
    <3>2. CASE ~(i < k)
      <4>1. i - (k - 1) \in 1..(Len(s) - k) /\ k + (i - (k - 1)) = i + 1 /\ ~(i <= k - 1)
        BY <2>2, <3>2
      <4>2. u[i] = s[i + 1]
        BY <2>4, <2>5, <4>1
      <4> QED  BY <2>2, <3>2, <4>2
    <3> QED  BY <3>1, <3>2
  <2>7. \A i, j \in DOMAIN u : at2(i) = at2(j) => i = j
    <3>1. DOMAIN u \subseteq Int
      BY <2>2, <2>5
    <3> QED  BY <2>2, <3>1
  <2> HIDE DEF u, at2, l, r
  <2>8. Once(u, KeptOf, Tracked) /\ Once(u, IdOf, Nat)
    BY <2>6, <2>7 DEF Once
  <2>9. ASSUME NEW i \in DOMAIN u PROVE u[i] \in ToSet(s) /\ u[i].id # id
    <3>1. at2(i) \in DOMAIN s /\ at2(i) # k /\ u[i] = s[at2(i)]
      BY <2>6
    <3>2. s[at2(i)] \in Unacknowledged /\ s[k] \in Unacknowledged
      BY <2>1, <3>1, LenProperties
    <3>3. IdOf[s[at2(i)]] = s[at2(i)].id /\ IdOf[s[k]] = id
      BY <2>1, <3>2 DEF IdOf
    <3> QED  BY <2>1, <3>1, <3>3 DEF Once, ToSet
  <2> QED  BY <2>8, <2>9 DEF u, ToSet
<1> QED  BY <1>1, <1>2

-----------------------------------------------------------------------------
(* Moves of messages from place to place. *)

LEMMA Identified ==
    /\ \A d \in Delivery : MessageOf[d] = d[1] /\ d[1] \in Messages
    /\ \A f \in Unacknowledged : KeptOf[f] = f.message /\ IdOf[f] = f.id /\ f.id \in Nat
    /\ \A f \in Packets : SentOf[f] = IF f.type = "publish" THEN f.message ELSE None
BY DEF MessageOf, KeptOf, IdOf, SentOf, Delivery, Unacknowledged

LEMMA ConnTyped ==
    ASSUME BusInv, NEW c \in Conns
    PROVE  /\ conns[c] \in Conn /\ conns[c].up \in Seq(Packets) /\ conns[c].down \in Seq(Packets)
           /\ conns[c].deliveries \in Seq(Delivery) /\ conns[c].inflight \in Seq(Unacknowledged)
           /\ conns[c].next_id \in Nat /\ Emptied(conns[c]) /\ Answered(conns[c], got)
           /\ session \in Session /\ session.queued \in Seq(Delivery) /\ published \in Nat
<1>1. conns[c] \in Conn /\ session \in Session /\ published \in Nat
  BY BusTypes DEF BusInv, Typed
<1>2. Emptied(conns[c]) /\ Answered(conns[c], got)
  BY DEF BusInv, Local
<1> QED  BY <1>1, <1>2 DEF Conn, Session

\* r holds what k does.
Same(k, r) == r.up = k.up /\ r.deliveries = k.deliveries /\ r.inflight = k.inflight

LEMMA SameHolds ==
    ASSUME NEW k, NEW r, Same(k, r)
    PROVE  (Alone(k) <=> Alone(r)) /\ \A m : Has(k, m) <=> Has(r, m)
BY DEF Same, Alone, Has, InChannel, InFlight, OnItsWay

\* Only what is on its way changes.
LEMMA UpOnly ==
    ASSUME NEW k, NEW r, Alone(k), r.deliveries = k.deliveries, r.inflight = k.inflight,
           Once(r.up, SentOf, Tracked),
           \A m \in Tracked : In(r.up, SentOf, m) => In(k.up, SentOf, m)
    PROVE  Alone(r) /\ \A m \in Tracked : Has(r, m) => Has(k, m)
BY DEF Alone, Has, InChannel, InFlight, OnItsWay

LEMMA NothingThere ==
    ASSUME NEW r, r.up = <<>>, r.deliveries = <<>>, r.inflight = <<>>
    PROVE  Alone(r) /\ \A m : ~Has(r, m)
BY OnceEmpty DEF Alone, Has, InChannel, InFlight, OnItsWay

\* Messages move between one connection and the queue, are published, or are
\* acknowledged and gone.
LEMMA Moved ==
    ASSUME NEW s, NEW all, NEW done, NEW n \in Nat, Spread(s, all, done, n),
           NEW s2, NEW all2, NEW done2, NEW n2 \in Nat, n <= n2,
           NEW c \in Conns, \A d \in Conns : d # c => Same(all[d], all2[d]),
           Alone(all2[c]), Once(s2.queued, MessageOf, Tracked),
           \A m \in Tracked :
               /\ Has(all2[c], m) \/ Queued(s2, m) =>
                      Has(all[c], m) \/ Queued(s, m) \/ (n < m /\ m <= n2)
               /\ ~(Has(all2[c], m) /\ Queued(s2, m))
               /\ m \in done2 =>
                      m \in done \/ (Has(all[c], m) /\ ~Has(all2[c], m) /\ ~Queued(s2, m))
    PROVE  Spread(s2, all2, done2, n2)
<1>1. \A d \in Conns : d # c => Alone(all2[d]) /\ \A m : Has(all[d], m) <=> Has(all2[d], m)
  BY SameHolds DEF Spread
<1>2. ASSUME NEW m \in Tracked
      PROVE  /\ m \in done2 \/ Queued(s2, m) => m <= n2 /\ ~(m \in done2 /\ Queued(s2, m))
             /\ \A d \in Conns : Has(all2[d], m) => /\ m <= n2 /\ m \notin done2 /\ ~Queued(s2, m)
                                                    /\ \A e \in Conns : Has(all2[e], m) => e = d
  <2>0. m \in Nat
    BY TrackedTypes
  <2>1. /\ m \in done \/ Queued(s, m) => m <= n /\ ~(m \in done /\ Queued(s, m))
        /\ \A d \in Conns : Has(all[d], m) => /\ m <= n /\ m \notin done /\ ~Queued(s, m)
                                              /\ \A e \in Conns : Has(all[e], m) => e = d
    BY DEF Spread
  <2>2. m <= n => m <= n2 /\ ~(n < m)
    BY <2>0
  <2>3. /\ m \in done2 \/ Queued(s2, m) => m <= n2
        /\ ~(m \in done2 /\ Queued(s2, m))
    BY <2>1, <2>2
  <2>4. ASSUME NEW d \in Conns, d # c, Has(all2[d], m)
        PROVE  /\ m <= n2 /\ m \notin done2 /\ ~Queued(s2, m) /\ ~Has(all2[c], m)
               /\ \A e \in Conns : Has(all2[e], m) => e = d
    <3>1. Has(all[d], m) /\ m <= n /\ m \notin done /\ ~Queued(s, m) /\ ~Has(all[c], m)
      BY <1>1, <2>1, <2>4
    <3>2. ~Queued(s2, m) /\ ~Has(all2[c], m) /\ m \notin done2
      BY <2>2, <3>1
    <3> QED  BY <1>1, <2>1, <2>2, <2>4, <3>1, <3>2
  <2>5. Has(all2[c], m) => /\ m <= n2 /\ m \notin done2 /\ ~Queued(s2, m)
                           /\ \A e \in Conns : Has(all2[e], m) => e = c
    BY <2>1, <2>2, <2>4
  <2> QED  BY <2>3, <2>4, <2>5
<1> QED  BY <1>1, <1>2 DEF Spread

\* On one connection messages stay, move or go, and the queue is kept or emptied.
LEMMA OneMoves ==
    ASSUME BusInv, Placed, NEW c \in Conns, \A d \in Conns : d # c => Same(conns[d], conns'[d]),
           session'.queued \in {session.queued, <<>>}, UNCHANGED <<acked, published>>,
           Alone(conns'[c]), \A m \in Tracked : Has(conns'[c], m) => Has(conns[c], m)
    PROVE  Placed'
<1>1. Once(session'.queued, MessageOf, Tracked) /\ \A m : Queued(session', m) => Queued(session, m)
  BY OnceEmpty DEF Placed, Spread, Queued
<1>2. published \in Nat /\ \A m \in Tracked : ~(Has(conns[c], m) /\ Queued(session, m))
  BY ConnTyped DEF Placed, Spread
<1>3. Spread(session', conns', acked', published')
  BY <1>1, <1>2, Moved DEF Placed
<1> QED  BY <1>3 DEF Placed

\* One delivery of m more, in the queue or in a channel, or none.
Gives(s, all, m, s2, all2) ==
    \/ s2.queued = s.queued /\ \A d \in Conns : Same(all[d], all2[d])
    \/ /\ \E q \in 0..2 : s2.queued = Append(s.queued, <<m, q>>)
       /\ \A d \in Conns : Same(all[d], all2[d])
    \/ /\ s2.queued = s.queued
       /\ \E o \in Conns, q \in 0..2 :
              /\ all2[o].deliveries = Append(all[o].deliveries, <<m, q>>)
              /\ all2[o].up = all[o].up /\ all2[o].inflight = all[o].inflight
              /\ \A d \in Conns : d # o => Same(all[d], all2[d])

LEMMA Given ==
    ASSUME NEW s, NEW all, NEW done, NEW n \in Nat, Spread(s, all, done, n),
           s.queued \in Seq(Delivery), \A d \in Conns : all[d].deliveries \in Seq(Delivery),
           NEW m \in Messages, NEW s2, NEW all2, Gives(s, all, m, s2, all2),
           NEW n2 \in Nat, n <= n2,
           m \in Tracked => /\ m <= n2 /\ m \notin done /\ ~Queued(s, m)
                            /\ \A d \in Conns : ~Has(all[d], m)
    PROVE  Spread(s2, all2, done, n2)
<1>0. \A x \in Tracked : x \in Nat
  BY TrackedTypes
<1>1. CASE s2.queued = s.queued /\ \A d \in Conns : Same(all[d], all2[d])
  BY <1>0, <1>1, SameHolds DEF Spread, Queued
<1>2. ASSUME NEW q \in 0..2, s2.queued = Append(s.queued, <<m, q>>),
             \A d \in Conns : Same(all[d], all2[d])
      PROVE  Spread(s2, all2, done, n2)
  <2>1. <<m, q>> \in Delivery /\ MessageOf[<<m, q>>] = m
    BY Identified DEF Delivery
  <2>2. Once(s.queued, MessageOf, Tracked) /\ (m \in Tracked => ~In(s.queued, MessageOf, m))
    BY DEF Spread, Queued
  <2>3. /\ Once(s2.queued, MessageOf, Tracked)
        /\ \A x : In(s2.queued, MessageOf, x) <=> In(s.queued, MessageOf, x) \/ m = x
    BY <1>2, <2>1, <2>2, OnceAppend
  <2>4. \A x : Queued(s2, x) <=> Queued(s, x) \/ m = x
    BY <2>3 DEF Queued
  <2> QED  BY <1>0, <1>2, <2>3, <2>4, SameHolds DEF Spread
<1>3. ASSUME NEW o \in Conns, NEW q \in 0..2, s2.queued = s.queued,
             all2[o].deliveries = Append(all[o].deliveries, <<m, q>>),
             all2[o].up = all[o].up, all2[o].inflight = all[o].inflight,
             \A d \in Conns : d # o => Same(all[d], all2[d])
      PROVE  Spread(s2, all2, done, n2)
  <2>1. <<m, q>> \in Delivery /\ MessageOf[<<m, q>>] = m
    BY Identified DEF Delivery
  <2>2. Alone(all[o]) /\ Once(all[o].deliveries, MessageOf, Tracked)
    BY DEF Spread, Alone
  <2>3. m \in Tracked => ~In(all[o].deliveries, MessageOf, m) /\ ~InFlight(all[o], m) /\ ~OnItsWay(all[o], m)
    BY DEF Has, InChannel
  <2>4. /\ Once(all2[o].deliveries, MessageOf, Tracked)
        /\ \A x : In(all2[o].deliveries, MessageOf, x) <=> In(all[o].deliveries, MessageOf, x) \/ m = x
    BY <1>3, <2>1, <2>2, <2>3, OnceAppend
  <2>5. /\ \A x : InChannel(all2[o], x) <=> InChannel(all[o], x) \/ m = x
        /\ \A x : (InFlight(all2[o], x) <=> InFlight(all[o], x)) /\ (OnItsWay(all2[o], x) <=> OnItsWay(all[o], x))
    BY <1>3, <2>4 DEF InChannel, InFlight, OnItsWay
  <2>6. Alone(all2[o])
    BY <1>3, <2>2, <2>3, <2>4, <2>5 DEF Alone
  <2>7. \A x : Has(all2[o], x) <=> Has(all[o], x) \/ m = x
    BY <2>5 DEF Has
  <2>8. \A d \in Conns : d # o => Alone(all2[d]) /\ \A x : Has(all2[d], x) <=> Has(all[d], x)
    BY <1>3, SameHolds DEF Spread
  <2>9. \A x : Queued(s2, x) <=> Queued(s, x)
    BY <1>3 DEF Queued
  <2>10. \A d \in Conns : \A x : Has(all2[d], x) <=> Has(all[d], x) \/ (d = o /\ m = x)
    BY <2>7, <2>8
  <2>11. \A d \in Conns : Alone(all2[d])
    BY <2>6, <2>8
  <2>12. ASSUME NEW x \in Tracked
         PROVE  /\ x \in done \/ Queued(s2, x) => x <= n2 /\ ~(x \in done /\ Queued(s2, x))
                /\ \A d \in Conns : Has(all2[d], x) => /\ x <= n2 /\ x \notin done /\ ~Queued(s2, x)
                                                       /\ \A e \in Conns : Has(all2[e], x) => e = d
    <3>1. x <= n => x <= n2
      BY <1>0
    <3>2. CASE x = m
      BY <2>9, <2>10, <3>1, <3>2
    <3>3. CASE x # m
      BY <2>9, <2>10, <3>1, <3>3 DEF Spread
    <3> QED  BY <3>2, <3>3
  <2>13. Once(s2.queued, MessageOf, Tracked)
    BY <1>3 DEF Spread
  <2> QED  BY <2>11, <2>12, <2>13 DEF Spread
<1> QED  BY <1>1, <1>2, <1>3 DEF Gives

\* What Delivered gives.
LEMMA DeliveredGives ==
    ASSUME BusInv, NEW m \in Messages, NEW s, NEW all, Delivered(m) = <<s, all>>
    PROVE  Gives(session, conns, m, s, all)
<1> DEFINE q == Min({Qos[m], session.subscription})
           c == session.online
<1>1. /\ conns \in [Conns -> Conn] /\ c \in Conns \union {None} /\ session \in Session
      /\ session.subscription # -1 => q \in 0..2
  <2>1. conns \in [Conns -> Conn] /\ session \in Session /\ Qos[m] \in 0..2
    BY BusTypes DEF BusInv, Typed
  <2>2. session.subscription \in -1..2 /\ c \in Conns \union {None}
    BY <2>1 DEF Session
  <2> QED  BY <2>1, <2>2, MinTwo
<1> HIDE DEF q, c
<1>2. CASE s = session /\ all = conns
  BY <1>2 DEF Gives, Same
<1>3. CASE session.subscription # -1 /\ c # None
  <2>1. s = session /\ all = [conns EXCEPT ![c].deliveries = Append(@, <<m, q>>)]
    BY <1>3 DEF Delivered, q, c
  <2>2. c \in Conns /\ conns[c] \in Conn
    BY <1>1, <1>3
  <2>3. /\ all[c].deliveries = Append(conns[c].deliveries, <<m, q>>)
        /\ all[c].up = conns[c].up /\ all[c].inflight = conns[c].inflight
        /\ \A d \in Conns : d # c => all[d] = conns[d]
    BY <1>1, <2>1, <2>2 DEF Conn
  <2> QED  BY <1>1, <1>3, <2>1, <2>2, <2>3 DEF Gives, Same
<1>4. CASE session.subscription # -1 /\ c = None /\ Queues(q)
  <2>1. s = [session EXCEPT !.queued = Append(@, <<m, q>>)] /\ all = conns
    BY <1>4 DEF Delivered, q, c
  <2>2. s.queued = Append(session.queued, <<m, q>>)
    BY <1>1, <2>1 DEF Session
  <2> QED  BY <1>1, <1>4, <2>1, <2>2 DEF Gives, Same
<1>5. \/ session.subscription # -1 /\ c # None
      \/ session.subscription # -1 /\ c = None /\ Queues(q)
      \/ s = session /\ all = conns
  BY DEF Delivered, q, c
<1> QED  BY <1>2, <1>3, <1>4, <1>5

-----------------------------------------------------------------------------
(* Each step leaves a message in one place. *)

LEMMA PlacedInitially == Init => Placed
<1> SUFFICES ASSUME Init PROVE Placed
  OBVIOUS
<1>1. session.queued = <<>> /\ acked = {}
  BY DEF Init, NoSession
<1>2. ASSUME NEW c \in Conns
      PROVE  Alone(conns[c]) /\ \A m : ~Has(conns[c], m)
  <2>1. conns[c].up = <<>> /\ conns[c].deliveries = <<>> /\ conns[c].inflight = <<>>
    BY DEF Init, FreeConn
  <2> QED  BY <2>1, NothingThere
<1>3. Once(session.queued, MessageOf, Tracked) /\ \A m : ~Queued(session, m)
  BY <1>1, OnceEmpty DEF Queued
<1> QED  BY <1>1, <1>2, <1>3 DEF Placed, Spread

\* What is published now has no place yet.
LEMMA Fresh ==
    ASSUME BusInv, Placed, published < Len(Qos)
    PROVE  /\ published + 1 \in Messages /\ published + 1 \in Nat
           /\ published + 1 \in Tracked =>
                  /\ published + 1 \notin acked /\ ~Queued(session, published + 1)
                  /\ \A d \in Conns : ~Has(conns[d], published + 1)
<1>1. published \in 0..Len(Qos) /\ published \in Nat
  BY BusTypes DEF BusInv, Typed
<1>2. ~(published + 1 <= published) /\ published + 1 \in Messages
  BY <1>1, BusTypes
<1> QED  BY <1>1, <1>2 DEF Placed, Spread

LEMMA LocalPublishPlaced ==
    ASSUME BusInv, Placed, LocalPublish
    PROVE  Placed'
<1> DEFINE m == published + 1
<1>1. /\ Delivered(m) = <<session', conns'>> /\ published' = m /\ published < Len(Qos)
      /\ UNCHANGED acked
  <2>1. Delivered(m) = <<session', conns'>>
    <3>1. session' = Delivered(m)[1] /\ conns' = Delivered(m)[2]
      BY DEF LocalPublish
    <3> HIDE DEF m
    <3> QED  BY <3>1, DeliveredPair
  <2> QED  BY <2>1 DEF LocalPublish
<1>2. /\ m \in Messages /\ m \in Nat /\ published \in Nat /\ published <= m /\ m <= m
      /\ m \in Tracked => /\ m \notin acked /\ ~Queued(session, m)
                          /\ \A d \in Conns : ~Has(conns[d], m)
  <2>1. published \in Nat
    BY BusTypes DEF BusInv, Typed
  <2> QED  BY <1>1, <2>1, Fresh
<1> HIDE DEF m
<1>3. Gives(session, conns, m, session', conns')
  BY <1>1, <1>2, DeliveredGives
<1>4. session.queued \in Seq(Delivery) /\ \A d \in Conns : conns[d].deliveries \in Seq(Delivery)
  BY DEF BusInv, Typed, Session, Conn
<1>5. Spread(session', conns', acked, m)
  BY <1>2, <1>3, <1>4, Given DEF Placed
<1> QED  BY <1>1, <1>5 DEF Placed

LEMMA AcceptPlaced ==
    ASSUME BusInv, Placed, NEW c \in Conns, Accept(c)
    PROVE  Placed'
<1> DEFINE k == conns[c]
           r == conns'[c]
<1>1. k \in Conn /\ k.at = "hello" /\ Emptied(k) /\ session.queued \in Seq(Delivery) /\ published \in Nat
  BY ConnTyped DEF Accept
<1>2. /\ r.up = k.up /\ r.inflight = k.inflight /\ r.deliveries = Drained(c)
      /\ \A d \in Conns : d # c => conns'[d] = conns[d]
      /\ session'.queued = <<>> /\ UNCHANGED <<acked, published>>
  BY <1>1 DEF Accept, BusInv, Typed, Conn
<1>3. r.up = <<>> /\ r.inflight = <<>>
  BY <1>1, <1>2 DEF Emptied, Serving
<1>4. /\ Once(r.deliveries, MessageOf, Tracked)
      /\ \A m : In(r.deliveries, MessageOf, m) => Queued(session, m)
  BY <1>2, OnceEmpty DEF Drained, Placed, Spread, Queued
<1> HIDE DEF r, k
<1>5. Alone(r) /\ \A m : Has(r, m) => Queued(session, m)
  BY <1>3, <1>4, OnceEmpty DEF Alone, Has, InChannel, InFlight, OnItsWay
<1>6. Once(session'.queued, MessageOf, Tracked) /\ \A m : ~Queued(session', m)
  BY <1>2, OnceEmpty DEF Queued
<1>7. Spread(session', conns', acked', published')
  BY <1>1, <1>2, <1>5, <1>6, Moved DEF Placed, Same, r
<1> QED  BY <1>7 DEF Placed

LEMMA DeliverPlaced ==
    ASSUME BusInv, Placed, NEW c \in Conns, Deliver(c)
    PROVE  Placed'
<1> DEFINE k == conns[c]
           d == Head(k.deliveries)
           id == IF d[2] = 0 THEN k.next_id ELSE k.next_id + 1
           packet == [type |-> "publish", message |-> d[1], qos |-> d[2], id |-> id]
           r == conns'[c]
<1>1. /\ k \in Conn /\ k.at = "open" /\ k.deliveries # <<>> /\ Answered(k, got) /\ Alone(k)
      /\ k.deliveries \in Seq(Delivery) /\ k.next_id \in Nat /\ k.inflight \in Seq(Unacknowledged)
  BY ConnTyped DEF Deliver, Placed, Spread
<1>2. /\ r.up = k.up /\ r.deliveries = Tail(k.deliveries)
      /\ r.inflight = IF d[2] = 0 THEN k.inflight ELSE Append(k.inflight, packet)
      /\ \A e \in Conns : e # c => conns'[e] = conns[e]
      /\ UNCHANGED <<session, acked, published>>
  BY <1>1 DEF Deliver, BusInv, Typed, Conn
<1>3. d \in Delivery /\ d[1] \in Messages /\ d[2] \in 0..2 /\ id \in Nat /\ MessageOf[d] = d[1]
  <2>1. d \in Delivery
    BY <1>1, SetTail
  <2> QED  BY <1>1, <2>1, Identified DEF Delivery
<1>4. d[2] # 0 => packet \in Unacknowledged /\ KeptOf[packet] = d[1] /\ IdOf[packet] = id
  <2>1. d[2] # 0 => packet \in Unacknowledged
    BY <1>3 DEF Unacknowledged
  <2> QED  BY <2>1, Identified
\* Its id is new.
<1>5. d[2] # 0 => ~In(k.inflight, IdOf, id)
  <2> SUFFICES ASSUME d[2] # 0, NEW f \in ToSet(k.inflight), IdOf[f] = id PROVE FALSE
    BY InSet
  <2>1. f \in Unacknowledged /\ f.id <= k.next_id
    BY <1>1, SetTyped DEF Answered
  <2> QED  BY <1>1, <2>1, Identified
<1> HIDE DEF packet, id, d, k, r
<1>6. /\ Once(Tail(k.deliveries), MessageOf, Tracked)
      /\ \A m : In(Tail(k.deliveries), MessageOf, m) => InChannel(k, m)
      /\ InChannel(k, d[1]) /\ (d[1] \in Tracked => ~In(Tail(k.deliveries), MessageOf, d[1]))
  BY <1>1, <1>3, OnceTail DEF Alone, InChannel, d
<1>7. /\ Once(r.inflight, KeptOf, Tracked) /\ Once(r.inflight, IdOf, Nat)
      /\ \A m : In(r.inflight, KeptOf, m) => InFlight(k, m) \/ m = d[1]
  <2>1. CASE d[2] = 0
    BY <1>1, <1>2, <2>1 DEF Alone, InFlight
  <2>2. CASE d[2] # 0
    <3>1. d[1] \in Tracked => ~In(k.inflight, KeptOf, d[1])
      BY <1>1, <1>6 DEF Alone, InFlight
    <3>2. Once(k.inflight, KeptOf, Tracked) /\ Once(k.inflight, IdOf, Nat)
      BY <1>1 DEF Alone
    <3>3. /\ Once(Append(k.inflight, packet), KeptOf, Tracked)
          /\ \A m : In(Append(k.inflight, packet), KeptOf, m) <=> In(k.inflight, KeptOf, m) \/ d[1] = m
      BY <1>1, <1>4, <2>2, <3>1, <3>2, OnceAppend
    <3>4. Once(Append(k.inflight, packet), IdOf, Nat)
      BY <1>1, <1>4, <1>5, <2>2, <3>2, OnceAppend
    <3> QED  BY <1>2, <2>2, <3>3, <3>4 DEF InFlight
  <2> QED  BY <2>1, <2>2
<1>8. /\ \A m : InFlight(r, m) => InFlight(k, m) \/ m = d[1]
      /\ \A m : InChannel(r, m) => InChannel(k, m)
      /\ \A m : OnItsWay(r, m) <=> OnItsWay(k, m)
      /\ d[1] \in Tracked => ~InChannel(r, d[1])
  BY <1>2, <1>6, <1>7 DEF InFlight, InChannel, OnItsWay
<1>9. Alone(r)
  BY <1>1, <1>2, <1>6, <1>7, <1>8 DEF Alone
<1>10. \A m : Has(r, m) => Has(k, m)
  BY <1>6, <1>8 DEF Has
<1> QED  BY <1>2, <1>9, <1>10, OneMoves DEF Same, k, r

\* A packet that is no publication is read.
LEMMA UpTail ==
    ASSUME BusInv, Placed, NEW c \in Conns, conns[c].up # <<>>,
           NEW r, Same([conns[c] EXCEPT !.up = Tail(conns[c].up)], r)
    PROVE  /\ Alone(r) /\ \A m \in Tracked : Has(r, m) => Has(conns[c], m)
           /\ LET p == Head(conns[c].up) IN
              p.type = "publish" /\ p.message \in Tracked =>
                  Has(conns[c], p.message) /\ ~Has(r, p.message)
<1> DEFINE k == conns[c]
           p == Head(k.up)
<1>1. k \in Conn /\ k.up \in Seq(Packets) /\ k.up # <<>> /\ Alone(k)
  BY ConnTyped DEF Placed, Spread
<1>2. r.up = Tail(k.up) /\ r.deliveries = k.deliveries /\ r.inflight = k.inflight
  BY <1>1 DEF Same, Conn
<1>3. p.type = "publish" => SentOf[p] = p.message
  BY <1>1, SetTail, Identified
<1> HIDE DEF k, p
<1>4. /\ Once(r.up, SentOf, Tracked) /\ \A x : In(r.up, SentOf, x) => In(k.up, SentOf, x)
      /\ In(k.up, SentOf, SentOf[p]) /\ (SentOf[p] \in Tracked => ~In(r.up, SentOf, SentOf[p]))
  BY <1>1, <1>2, OnceTail DEF Alone, p
<1>5. Alone(r) /\ \A m \in Tracked : Has(r, m) => Has(k, m)
  BY <1>1, <1>2, <1>4, UpOnly
<1>6. ASSUME p.type = "publish", p.message \in Tracked
      PROVE  Has(k, p.message) /\ ~Has(r, p.message)
  <2>1. OnItsWay(k, p.message) /\ ~OnItsWay(r, p.message)
    BY <1>3, <1>4, <1>6 DEF OnItsWay
  <2>2. ~InChannel(k, p.message) /\ ~InFlight(k, p.message)
    BY <1>1, <1>6, <2>1 DEF Alone
  <2> QED  BY <1>2, <2>1, <2>2 DEF Has, InChannel, InFlight
<1> QED  BY <1>5, <1>6 DEF k, p

LEMMA ReadPublishPlaced ==
    ASSUME BusInv, Placed, NEW c \in Conns, ReadPublish(c)
    PROVE  Placed'
<1> DEFINE k == conns[c]
           packet == Head(k.up)
           m == packet.message
           r == [k EXCEPT !.up = Tail(k.up)]
           read == [conns EXCEPT ![c] = r]
           s == IF Repeated(c, packet) THEN session ELSE Delivered(m)[1]
           all == IF Repeated(c, packet) THEN conns ELSE Delivered(m)[2]
<1>1. /\ k.up # <<>> /\ packet.type = "publish" /\ session' = s
      /\ \E dn : conns' = [all EXCEPT ![c].up = Tail(@), ![c].down = dn]
      /\ UNCHANGED <<acked, published>>
  BY DEF ReadPublish
<1>2. /\ k \in Conn /\ k.up \in Seq(Packets) /\ published \in Nat /\ conns \in [Conns -> Conn]
      /\ session.queued \in Seq(Delivery)
  BY ConnTyped DEF BusInv, Typed
<1>3. packet \in Packets /\ m \in Messages /\ r.deliveries = k.deliveries /\ r.inflight = k.inflight
      /\ r.up = Tail(k.up)
  <2>1. packet \in Packets
    BY <1>1, <1>2, SetTail
  <2> QED  BY <1>1, <1>2, <2>1 DEF Packets, Conn
<1>4. /\ read[c] = r /\ \A d \in Conns : d # c => read[d] = conns[d]
      /\ \A d \in Conns : read[d].deliveries = conns[d].deliveries /\ read[d].inflight = conns[d].inflight
  BY <1>2, <1>3
<1>5. Same(r, read[c])
  BY <1>4 DEF Same
<1>6. /\ Alone(r) /\ \A x \in Tracked : Has(r, x) => Has(k, x)
      /\ m \in Tracked => Has(k, m) /\ ~Has(r, m)
  BY <1>1, UpTail DEF Same
<1>7. Gives(session, conns, m, s, all) /\ all \in [Conns -> Conn] /\ \A d \in Conns : all[d].up = conns[d].up
  <2>1. CASE Repeated(c, packet)
    BY <1>2, <2>1 DEF Gives, Same
  <2>2. CASE ~Repeated(c, packet)
    <3>1. Delivered(m) = <<s, all>>
      BY <2>2, DeliveredPair
    <3> HIDE DEF s, all, m
    <3> QED  BY <1>3, <3>1, DeliveredGives, DeliveredEffect, DeliveredLocal
  <2> QED  BY <2>1, <2>2
<1> HIDE DEF m, packet, r, read, s, all, k
\* The step, as two: the packet is read, then the publication is given.
<1>8. Spread(session, read, acked, published)
  <2>1. Once(session.queued, MessageOf, Tracked) /\ \A x \in Tracked : ~(Has(k, x) /\ Queued(session, x))
    BY DEF Placed, Spread, k
  <2>2. \A d \in Conns : d # c => Same(conns[d], read[d])
    BY <1>4 DEF Same
  <2>3. published <= published
    BY <1>2
  <2> QED  BY <1>2, <1>4, <1>6, <2>1, <2>2, <2>3, Moved DEF Placed, k
<1>9. /\ \A d \in Conns : /\ conns'[d].deliveries = all[d].deliveries
                          /\ conns'[d].inflight = all[d].inflight
                          /\ conns'[d].up = IF d = c THEN Tail(all[c].up) ELSE all[d].up
  <2>1. \A d \in Conns : all[d] \in Conn
    BY <1>7
  <2> QED  BY <1>1, <1>7, <2>1 DEF Conn
<1>10. \A d \in Conns : read[d].up = conns'[d].up
  BY <1>3, <1>4, <1>7, <1>9 DEF k
<1>11. Gives(session, read, m, session', conns')
  <2>1. \A d \in Conns : Same(conns[d], all[d]) => Same(read[d], conns'[d])
    BY <1>4, <1>9, <1>10 DEF Same
  <2>2. CASE s.queued = session.queued /\ \A d \in Conns : Same(conns[d], all[d])
    BY <1>1, <2>1, <2>2 DEF Gives
  <2>3. CASE /\ \E q \in 0..2 : s.queued = Append(session.queued, <<m, q>>)
             /\ \A d \in Conns : Same(conns[d], all[d])
    BY <1>1, <2>1, <2>3 DEF Gives
  <2>4. ASSUME s.queued = session.queued, NEW o \in Conns, NEW q \in 0..2,
               all[o].deliveries = Append(conns[o].deliveries, <<m, q>>),
               all[o].up = conns[o].up, all[o].inflight = conns[o].inflight,
               \A d \in Conns : d # o => Same(conns[d], all[d])
        PROVE  Gives(session, read, m, session', conns')
    <3>1. /\ conns'[o].deliveries = Append(read[o].deliveries, <<m, q>>)
          /\ conns'[o].up = read[o].up /\ conns'[o].inflight = read[o].inflight
      BY <1>4, <1>9, <1>10, <2>4
    <3> QED  BY <1>1, <2>1, <2>4, <3>1 DEF Gives
  <2> QED  BY <1>7, <2>2, <2>3, <2>4 DEF Gives
<1>12. m \in Tracked => /\ m <= published /\ m \notin acked /\ ~Queued(session, m)
                        /\ \A d \in Conns : ~Has(read[d], m)
  BY <1>4, <1>6 DEF Placed, Spread, k
<1>13. Spread(session', conns', acked, published)
  <2>1. \A d \in Conns : read[d].deliveries \in Seq(Delivery)
    BY <1>4, ConnTyped
  <2>2. published <= published
    BY <1>2
  <2> QED  BY <1>2, <1>3, <1>8, <1>11, <1>12, <2>1, <2>2, Given
<1> QED  BY <1>1, <1>13 DEF Placed

LEMMA ReadSubscribePlaced ==
    ASSUME BusInv, Placed, NEW c \in Conns, ReadSubscribe(c), RetainedOnly
    PROVE  Placed'
<1> DEFINE k == conns[c]
           q == Min({Qos[retained], Head(k.up).qos})
           o == session.online
           r == [k EXCEPT !.up = Tail(k.up)]
           read == [conns EXCEPT ![c] = r]
           more == o # None /\ retained # None
<1>1. /\ k.up # <<>> /\ Head(k.up).type = "subscribe" /\ session'.queued = session.queued
      /\ UNCHANGED <<acked, published>>
  <2>1. session \in Session
    BY DEF BusInv, Typed
  <2> QED  BY <2>1 DEF ReadSubscribe, Session
<1>2. /\ k \in Conn /\ k.up \in Seq(Packets) /\ published \in Nat /\ conns \in [Conns -> Conn]
      /\ session.queued \in Seq(Delivery)
  BY ConnTyped DEF BusInv, Typed
<1>3. r.deliveries = k.deliveries /\ r.inflight = k.inflight /\ r.up = Tail(k.up) /\ r \in Conn
  BY <1>1, <1>2, SetTail DEF Conn
<1>4. /\ read[c] = r /\ \A d \in Conns : d # c => read[d] = conns[d]
      /\ read \in [Conns -> Conn]
  BY <1>2, <1>3
<1>5. conns' = IF more THEN [read EXCEPT ![o].deliveries = Append(@, <<retained, q>>)] ELSE read
  <2>1. [conns EXCEPT ![c].up = Tail(@)] = read
    BY <1>2
  <2> QED  BY <2>1 DEF ReadSubscribe
<1>6. /\ Alone(r) /\ \A x \in Tracked : Has(r, x) => Has(k, x)
  BY <1>1, UpTail DEF Same
<1>7. more => q \in 0..2 /\ retained \in Messages /\ retained \notin Tracked /\ o \in Conns
  <2>1. more => retained \in Messages /\ o \in Conns /\ Qos[retained] \in 0..2 /\ retained \notin Tracked
    BY BusTypes DEF BusInv, Typed, Session, RetainedOnly, Tracked
  <2>2. Head(k.up).qos \in 0..2
    BY <1>1, <1>2, SetTail DEF Packets
  <2> QED  BY <2>1, <2>2, MinTwo
<1> HIDE DEF q, o, r, read, k
<1>8. Spread(session, read, acked, published)
  <2>1. Once(session.queued, MessageOf, Tracked) /\ \A x \in Tracked : ~(Has(k, x) /\ Queued(session, x))
    BY DEF Placed, Spread, k
  <2>2. \A d \in Conns : d # c => Same(conns[d], read[d])
    BY <1>4 DEF Same
  <2>3. published <= published
    BY <1>2
  <2> QED  BY <1>2, <1>4, <1>6, <2>1, <2>2, <2>3, Moved DEF Placed, k
<1>9. CASE ~more
  BY <1>1, <1>5, <1>8, <1>9 DEF Placed, Spread, Queued
<1>10. CASE more
  <2>1. read[o] \in Conn
    BY <1>4, <1>7, <1>10
  <2>2. /\ conns'[o].deliveries = Append(read[o].deliveries, <<retained, q>>)
        /\ conns'[o].up = read[o].up /\ conns'[o].inflight = read[o].inflight
        /\ \A d \in Conns : d # o => conns'[d] = read[d]
    BY <1>4, <1>5, <1>7, <1>10, <2>1 DEF Conn
  <2>3. Gives(session, read, retained, session', conns')
    BY <1>1, <1>7, <1>10, <2>2 DEF Gives, Same
  <2>4. \A d \in Conns : read[d].deliveries \in Seq(Delivery)
    BY <1>4 DEF Conn
  <2>5. published <= published
    BY <1>2
  <2>6. Spread(session', conns', acked, published)
    BY <1>2, <1>7, <1>8, <1>10, <2>3, <2>4, <2>5, Given
  <2> QED  BY <1>1, <2>6 DEF Placed
<1> QED  BY <1>9, <1>10

\* What is acknowledged is kept no longer.
LEMMA ReadAckPlaced ==
    ASSUME BusInv, Placed, NEW c \in Conns, ReadAck(c)
    PROVE  Placed'
<1> DEFINE k == conns[c]
           packet == Head(k.up)
           fl == Without(k.inflight, packet.id)
           r == conns'[c]
<1>1. /\ k \in Conn /\ k.up # <<>> /\ packet.type # "publish" /\ k.up \in Seq(Packets)
      /\ k.inflight \in Seq(Unacknowledged) /\ Alone(k) /\ published \in Nat
  BY ConnTyped DEF ReadAck, Placed, Spread
<1>2. /\ r.up = Tail(k.up) /\ r.deliveries = k.deliveries /\ r.inflight = fl
      /\ \A d \in Conns : d # c => conns'[d] = conns[d]
      /\ UNCHANGED <<session, published>>
      /\ acked' = acked \union {f.message : f \in {f \in ToSet(k.inflight) : f.id = packet.id}}
  BY <1>1 DEF ReadAck, Finished, BusInv, Typed, Conn
<1>3. packet.id \in Nat
  <2>1. packet \in Packets
    BY <1>1, SetTail
  <2> QED  BY <2>1 DEF Packets
<1> HIDE DEF packet
<1>4. /\ Once(fl, KeptOf, Tracked) /\ Once(fl, IdOf, Nat)
      /\ \A f \in ToSet(fl) : f \in ToSet(k.inflight) /\ f.id # packet.id
  BY <1>1, <1>3, OnceWithout DEF Alone
<1> HIDE DEF k, fl, r
<1>5. Once(r.up, SentOf, Tracked) /\ \A x : In(r.up, SentOf, x) => In(k.up, SentOf, x)
  BY <1>1, <1>2, OnceTail DEF Alone
<1>6. \A m : In(fl, KeptOf, m) => In(k.inflight, KeptOf, m)
  BY <1>4, InSet
<1>7. /\ \A m : InChannel(r, m) <=> InChannel(k, m)
      /\ \A m : InFlight(r, m) => InFlight(k, m)
      /\ \A m : OnItsWay(r, m) => OnItsWay(k, m)
  BY <1>2, <1>5, <1>6 DEF InChannel, InFlight, OnItsWay
<1>8. Alone(r) /\ \A m : Has(r, m) => Has(k, m)
  BY <1>1, <1>2, <1>4, <1>5, <1>7 DEF Alone, Has
<1>9. ASSUME NEW m \in Tracked, m \in acked', m \notin acked
      PROVE  Has(k, m) /\ ~Has(r, m) /\ ~Queued(session, m)
  <2>1. PICK f \in ToSet(k.inflight) : f.id = packet.id /\ f.message = m
    BY <1>2, <1>9
  <2>2. f \in Unacknowledged /\ KeptOf[f] = m
    BY <1>1, <2>1, SetTyped, Identified
  <2>3. InFlight(k, m) /\ Has(k, m)
    BY <2>2, InSet DEF InFlight, Has
  <2>4. ~InChannel(r, m) /\ ~OnItsWay(r, m)
    BY <1>1, <1>7, <2>3 DEF Alone
  \* Another with the same message would be the same element.
  <2>5. ASSUME InFlight(r, m) PROVE FALSE
    <3>1. PICK g \in ToSet(fl) : KeptOf[g] = m
      BY <1>2, <2>5, InSet DEF InFlight
    <3>2. g \in ToSet(k.inflight) /\ g.id # packet.id
      BY <1>4, <3>1
    <3>3. f = g
      BY <1>1, <2>1, <2>2, <3>1, <3>2 DEF Alone, Once, ToSet
    <3> QED  BY <2>1, <3>2, <3>3
  <2>6. ~Queued(session, m)
    BY <2>3 DEF Placed, Spread, k
  <2> QED  BY <2>3, <2>4, <2>5, <2>6 DEF Has
<1>10. Once(session'.queued, MessageOf, Tracked) /\ \A m \in Tracked : ~(Has(k, m) /\ Queued(session, m))
  BY <1>2 DEF Placed, Spread, k
<1>11. published <= published'
  BY <1>1, <1>2
<1>12. \A d \in Conns : d # c => Same(conns[d], conns'[d])
  BY <1>2 DEF Same
<1>13. Spread(session', conns', acked', published')
  BY <1>1, <1>2, <1>8, <1>9, <1>10, <1>11, <1>12, Moved DEF Placed, k, r
<1> QED  BY <1>13 DEF Placed

LEMMA ReadStepPlaced ==
    ASSUME BusInv, Placed, NEW c \in Conns, ReadStep(c)
    PROVE  Placed'
<1>1. conns[c] \in Conn /\ conns[c].up # <<>>
  BY ConnTyped DEF ReadStep
<1>2. /\ \A d \in Conns : d # c => conns'[d] = conns[d]
      /\ conns'[c].up = Tail(conns[c].up) /\ conns'[c].deliveries = conns[c].deliveries
      /\ conns'[c].inflight = conns[c].inflight
      /\ UNCHANGED <<session, acked, published>>
  BY <1>1 DEF ReadStep, BusInv, Typed, Conn
<1>3. Same([conns[c] EXCEPT !.up = Tail(conns[c].up)], conns'[c])
  BY <1>1, <1>2 DEF Same, Conn
<1>4. Alone(conns'[c]) /\ \A m \in Tracked : Has(conns'[c], m) => Has(conns[c], m)
  BY <1>1, <1>3, UpTail
<1> QED  BY <1>2, <1>4, OneMoves DEF Same

LEMMA EndPlaced ==
    ASSUME BusInv, Placed, NEW c \in Conns, End(c)
    PROVE  Placed'
<1>1. conns[c] \in Conn /\ Alone(conns[c])
  BY ConnTyped DEF Placed, Spread
<1>2. /\ \A d \in Conns : d # c => conns'[d] = conns[d]
      /\ conns'[c].up = <<>> /\ conns'[c].deliveries = conns[c].deliveries
      /\ conns'[c].inflight = conns[c].inflight
      /\ UNCHANGED <<session, acked, published>>
  BY <1>1 DEF End, BusInv, Typed, Conn
<1>3. Alone(conns'[c]) /\ \A m \in Tracked : Has(conns'[c], m) => Has(conns[c], m)
  BY <1>1, <1>2, OnceEmpty, UpOnly
<1> QED  BY <1>2, <1>3, OneMoves DEF Same

\* What was not acknowledged is queued again, in the same order.
LEMMA RequeuePlaced ==
    ASSUME BusInv, Placed, NEW c \in Conns, Requeue(c)
    PROVE  Placed'
<1> DEFINE k == conns[c]
           r == conns'[c]
           again == Requeued(c)
           keeps == session.exists /\ ~session.clean
<1>1. /\ k \in Conn /\ Alone(k) /\ k.inflight \in Seq(Unacknowledged) /\ published \in Nat
      /\ session \in Session /\ session.queued \in Seq(Delivery)
  BY ConnTyped DEF Placed, Spread
<1>2. /\ r.up = k.up /\ r.deliveries = k.deliveries /\ r.inflight = <<>>
      /\ \A d \in Conns : d # c => conns'[d] = conns[d]
      /\ session'.queued = IF keeps THEN session.queued \o again ELSE session.queued
      /\ UNCHANGED <<acked, published>>
  BY <1>1 DEF Requeue, BusInv, Typed, Conn, Session
<1>3. /\ again \in Seq(Delivery) /\ Once(again, MessageOf, Tracked)
      /\ \A m : In(again, MessageOf, m) => InFlight(k, m)
  <2>1. /\ k.inflight \in [1..Len(k.inflight) -> Unacknowledged] /\ Len(k.inflight) \in Nat
        /\ DOMAIN k.inflight = 1..Len(k.inflight)
    BY <1>1, LenProperties
  <2>2. again = [i \in 1..Len(k.inflight) |-> <<k.inflight[i].message, k.inflight[i].qos>>]
    BY <2>1 DEF Requeued
  <2> DEFINE n == Len(k.inflight)
             g == [i \in 1..n |-> <<k.inflight[i].message, k.inflight[i].qos>>]
  <2>3. \A i \in 1..n : g[i] \in Delivery /\ g[i][1] = k.inflight[i].message
    BY <2>1 DEF Unacknowledged, Delivery
  <2>4. g \in [1..n -> Delivery]
    BY <2>3
  <2>5. \A i \in 1..n : MessageOf[g[i]] = KeptOf[k.inflight[i]]
    BY <2>1, <2>3, Identified
  <2>6. g \in Seq(Delivery)
    BY <2>1, <2>4, SeqDef
  <2> HIDE DEF g
  <2>7. DOMAIN g = DOMAIN k.inflight /\ again = g
    BY <2>1, <2>2, <2>4 DEF g
  <2> QED  BY <1>1, <2>1, <2>5, <2>6, <2>7 DEF Once, In, Alone, InFlight
<1> HIDE DEF again, k, r
<1>4. /\ \A m : InChannel(r, m) <=> InChannel(k, m)
      /\ \A m : OnItsWay(r, m) <=> OnItsWay(k, m)
      /\ \A m : ~InFlight(r, m)
  BY <1>2, OnceEmpty DEF InChannel, InFlight, OnItsWay
<1>5. Alone(r)
  BY <1>1, <1>2, <1>4, OnceEmpty DEF Alone
<1>6. Once(session.queued, MessageOf, Tracked) /\ \A m \in Tracked : ~(Has(k, m) /\ Queued(session, m))
  BY DEF Placed, Spread, k
<1>7. \A m \in Tracked : ~(In(session.queued, MessageOf, m) /\ In(again, MessageOf, m))
  BY <1>3, <1>6 DEF Has, Queued
<1>8. /\ Once(session'.queued, MessageOf, Tracked)
      /\ \A m : Queued(session', m) => Queued(session, m) \/ InFlight(k, m)
  <2>1. CASE keeps
    <3>1. /\ Once(session.queued \o again, MessageOf, Tracked)
          /\ \A x : In(session.queued \o again, MessageOf, x)
                      <=> In(session.queued, MessageOf, x) \/ In(again, MessageOf, x)
      BY <1>1, <1>3, <1>6, <1>7, OnceConcat
    <3> QED  BY <1>2, <1>3, <2>1, <3>1 DEF Queued
  <2>2. CASE ~keeps
    BY <1>2, <1>6, <2>2 DEF Queued
  <2> QED  BY <2>1, <2>2
<1>9. ASSUME NEW m \in Tracked
      PROVE  /\ Has(r, m) \/ Queued(session', m) => Has(k, m) \/ Queued(session, m)
             /\ ~(Has(r, m) /\ Queued(session', m))
  BY <1>1, <1>4, <1>6, <1>8 DEF Has, Alone
<1>10. published <= published' /\ \A d \in Conns : d # c => Same(conns[d], conns'[d])
  BY <1>1, <1>2 DEF Same
<1>11. Spread(session', conns', acked', published')
  BY <1>1, <1>2, <1>5, <1>8, <1>9, <1>10, Moved DEF Placed, k, r
<1> QED  BY <1>11 DEF Placed

LEMMA DropPlaced ==
    ASSUME BusInv, Placed, NEW c \in Conns, Drop(c)
    PROVE  Placed'
<1>1. conns[c] \in Conn /\ conns \in [Conns -> Conn] /\ session \in Session
  BY ConnTyped DEF BusInv, Typed
<1>2. /\ \A d \in Conns : d # c => conns'[d] = conns[d]
      /\ conns'[c].up = <<>> /\ conns'[c].deliveries = <<>> /\ conns'[c].inflight = <<>>
      /\ UNCHANGED <<acked, published>>
  BY <1>1 DEF Drop, FreeConn
<1>3. session'.queued \in {session.queued, <<>>}
  BY <1>1 DEF Drop, NoSession, Offline, Session
<1>4. Alone(conns'[c]) /\ \A m \in Tracked : ~Has(conns'[c], m)
  BY <1>2, NothingThere
<1> QED  BY <1>2, <1>3, <1>4, OneMoves DEF Same

LEMMA ConnectPlaced ==
    ASSUME BusInv, Placed, Connect
    PROVE  Placed'
<1> PICK c \in Conns, clean \in Clean :
        conns' = [conns EXCEPT ![c] = [FreeConn EXCEPT !.at = "hello", !.clean = clean]]
  BY DEF Connect
<1>1. /\ \A d \in Conns : d # c => conns'[d] = conns[d]
      /\ conns'[c].up = <<>> /\ conns'[c].deliveries = <<>> /\ conns'[c].inflight = <<>>
      /\ UNCHANGED <<session, acked, published>>
  BY DEF Connect, FreeConn, BusInv, Typed
<1>2. Alone(conns'[c]) /\ \A m \in Tracked : ~Has(conns'[c], m)
  BY <1>1, NothingThere
<1> QED  BY <1>1, <1>2, OneMoves DEF Same

LEMMA ClientPublishPlaced ==
    ASSUME BusInv, Placed, ClientPublish
    PROVE  Placed'
<1> DEFINE m == published + 1
           c == current
           k == conns[c]
           r == conns'[c]
           id == IF Qos[m] = 0 THEN k.client_id ELSE k.client_id + 1
           packet == [type |-> "publish", message |-> m, qos |-> Qos[m], id |-> id]
<1>1. c \in Conns /\ k \in Conn /\ k.up \in Seq(Packets) /\ Alone(k) /\ published \in Nat
  <2>1. c \in Conns
    BY DEF ClientPublish, Connected, BusInv, Typed
  <2> QED  BY <2>1, ConnTyped DEF Placed, Spread
<1>2. /\ m \in Messages /\ m \in Nat
      /\ m \in Tracked => ~Queued(session, m) /\ \A d \in Conns : ~Has(conns[d], m)
  BY Fresh DEF ClientPublish
<1>3. /\ r.up = Append(k.up, packet) /\ r.deliveries = k.deliveries /\ r.inflight = k.inflight
      /\ \A d \in Conns : d # c => conns'[d] = conns[d]
      /\ published' = m /\ UNCHANGED <<session, acked>>
  BY <1>1 DEF ClientPublish, Write, BusInv, Typed, Conn
<1>4. packet \in Packets /\ SentOf[packet] = m
  <2>1. id \in Nat /\ Qos[m] \in 0..2
    BY <1>1, <1>2, BusTypes DEF Conn
  <2>2. packet \in Packets
    BY <1>2, <2>1 DEF Packets
  <2> QED  BY <2>2, Identified
<1>5. /\ published <= m
      /\ \A x \in Tracked : x = m => published < x /\ x <= m
  BY <1>1
<1> HIDE DEF packet, m, r, k, c
<1>6. m \in Tracked => ~In(k.up, SentOf, m) /\ ~InChannel(k, m) /\ ~InFlight(k, m)
  BY <1>1, <1>2 DEF Has, OnItsWay, k
<1>7. /\ Once(r.up, SentOf, Tracked)
      /\ \A x : In(r.up, SentOf, x) <=> In(k.up, SentOf, x) \/ m = x
  BY <1>1, <1>3, <1>4, <1>6, OnceAppend DEF Alone
<1>8. /\ \A x : InChannel(r, x) <=> InChannel(k, x)
      /\ \A x : InFlight(r, x) <=> InFlight(k, x)
      /\ \A x : OnItsWay(r, x) <=> OnItsWay(k, x) \/ m = x
  BY <1>3, <1>7 DEF InChannel, InFlight, OnItsWay
<1>9. Alone(r) /\ \A x : Has(r, x) <=> Has(k, x) \/ m = x
  BY <1>1, <1>3, <1>6, <1>7, <1>8 DEF Alone, Has
<1>10. /\ Once(session.queued, MessageOf, Tracked)
       /\ \A x \in Tracked : ~(Has(k, x) /\ Queued(session, x))
  BY <1>1 DEF Placed, Spread, k
<1>11. \A d \in Conns : d # c => Same(conns[d], conns'[d])
  BY <1>3 DEF Same
<1>12. Spread(session', conns', acked', published')
  BY <1>1, <1>2, <1>3, <1>5, <1>9, <1>10, <1>11, Moved DEF Placed, k, r
<1> QED  BY <1>12 DEF Placed

LEMMA ClientSubscribePlaced ==
    ASSUME BusInv, Placed, ClientSubscribe
    PROVE  Placed'
<1> PICK qos \in Grants : conns' = Write([type |-> "subscribe", qos |-> qos, id |-> 1])
  BY DEF ClientSubscribe
<1> DEFINE c == current
           k == conns[c]
           packet == [type |-> "subscribe", qos |-> qos, id |-> 1]
<1>1. c \in Conns /\ k \in Conn /\ k.up \in Seq(Packets) /\ Alone(k)
  <2>1. c \in Conns
    BY DEF ClientSubscribe, Connected, BusInv, Typed
  <2> QED  BY <2>1, ConnTyped DEF Placed, Spread
<1>2. packet \in Packets /\ SentOf[packet] \notin Tracked
  <2>1. packet \in Packets /\ packet.type # "publish"
    BY BusAssumption DEF Packets
  <2> QED  BY <2>1, Identified, TrackedTypes
<1>3. /\ conns'[c].up = Append(k.up, packet) /\ conns'[c].deliveries = k.deliveries
      /\ conns'[c].inflight = k.inflight
      /\ \A d \in Conns : d # c => conns'[d] = conns[d]
      /\ UNCHANGED <<session, acked, published>>
  BY <1>1 DEF ClientSubscribe, Write, BusInv, Typed, Conn
<1> HIDE DEF packet
<1>4. Once(Append(k.up, packet), SentOf, Tracked)
      /\ \A x \in Tracked : In(Append(k.up, packet), SentOf, x) => In(k.up, SentOf, x)
  BY <1>1, <1>2, OnceAppend DEF Alone
<1>5. Alone(conns'[c]) /\ \A m \in Tracked : Has(conns'[c], m) => Has(k, m)
  BY <1>1, <1>3, <1>4, UpOnly
<1> QED  BY <1>1, <1>3, <1>5, OneMoves DEF Same

LEMMA ReplyIsAnswer ==
    ASSUME NEW packet \in Packets
    PROVE  Reply(packet) \in Seq(Packets) /\ \A f \in ToSet(Reply(packet)) : SentOf[f] \notin Tracked
<1>1. ASSUME NEW t \in {"puback", "pubrec", "pubrel", "pubcomp"}
      PROVE  LET a == <<[type |-> t, id |-> packet.id]>> IN
             a \in Seq(Packets) /\ \A f \in ToSet(a) : SentOf[f] \notin Tracked
  <2> DEFINE f == [type |-> t, id |-> packet.id]
  <2>1. f \in Packets /\ f.type # "publish"
    <3>1. packet.id \in Nat
      BY DEF Packets
    <3> QED  BY <3>1 DEF Packets
  <2>2. SentOf[f] \notin Tracked
    BY <2>1, Identified, TrackedTypes
  <2> HIDE DEF f
  <2>3. <<f>> \in Seq(Packets) /\ ToSet(<<f>>) = {f}
    BY <2>1 DEF ToSet
  <2> QED  BY <2>2, <2>3 DEF f
<1>2. <<>> \in Seq(Packets) /\ \A f \in ToSet(<<>>) : SentOf[f] \notin Tracked
  BY SetEmpty
<1>3. \/ Reply(packet) = <<>>
      \/ \E t \in {"puback", "pubrec", "pubrel", "pubcomp"} :
             Reply(packet) = <<[type |-> t, id |-> packet.id]>>
  BY DEF Reply, Answer
<1> QED  BY <1>1, <1>2, <1>3

LEMMA ClientReadPlaced ==
    ASSUME BusInv, Placed, ClientRead
    PROVE  Placed'
<1> DEFINE c == current
           k == conns[c]
           reply == Reply(Head(k.down))
<1>1. c \in Conns /\ k \in Conn /\ k.up \in Seq(Packets) /\ k.down \in Seq(Packets) /\ Alone(k)
      /\ k.down # <<>>
  <2>1. c \in Conns
    BY DEF ClientRead, BusInv, Typed
  <2> QED  BY <2>1, ConnTyped DEF Placed, Spread, ClientRead
<1>2. reply \in Seq(Packets) /\ \A f \in ToSet(reply) : SentOf[f] \notin Tracked
  <2>1. Head(k.down) \in Packets
    BY <1>1, SetTail
  <2> QED  BY <2>1, ReplyIsAnswer
<1>3. /\ conns'[c].up = k.up \/ conns'[c].up = k.up \o reply
      /\ conns'[c].deliveries = k.deliveries /\ conns'[c].inflight = k.inflight
      /\ \A d \in Conns : d # c => conns'[d] = conns[d]
      /\ UNCHANGED <<session, acked, published>>
  BY <1>1 DEF ClientRead, BusInv, Typed, Conn
<1> HIDE DEF reply
<1>4. Once(conns'[c].up, SentOf, Tracked)
      /\ \A x \in Tracked : In(conns'[c].up, SentOf, x) => In(k.up, SentOf, x)
  <2>1. Once(k.up, SentOf, Tracked)
    BY <1>1 DEF Alone
  <2>2. /\ Once(k.up \o reply, SentOf, Tracked)
        /\ \A x \in Tracked : In(k.up \o reply, SentOf, x) <=> In(k.up, SentOf, x)
    BY <1>1, <1>2, <2>1, OnceUntracked
  <2> QED  BY <1>3, <2>1, <2>2
<1>5. Alone(conns'[c]) /\ \A m \in Tracked : Has(conns'[c], m) => Has(k, m)
  BY <1>1, <1>3, <1>4, UpOnly
<1> QED  BY <1>1, <1>3, <1>5, OneMoves DEF Same

LEMMA LeavePlaced ==
    ASSUME BusInv, Placed, current # None, NEW bye \in Seq(Packets), Leave(bye),
           \A f \in ToSet(bye) : SentOf[f] \notin Tracked
    PROVE  Placed'
<1> DEFINE c == current
           k == conns[c]
<1>1. c \in Conns /\ k \in Conn /\ k.up \in Seq(Packets) /\ Alone(k)
  <2>1. c \in Conns
    BY DEF BusInv, Typed
  <2> QED  BY <2>1, ConnTyped DEF Placed, Spread
<1>2. (\A d \in Conns : d # c => conns'[d] = conns[d]) /\ UNCHANGED <<session, acked, published>>
  BY <1>1 DEF Leave, BusInv, Typed
<1>3. CASE k.at = "closed"
  <2>1. conns'[c] = FreeConn
    BY <1>1, <1>3 DEF Leave, BusInv, Typed
  <2>2. Alone(conns'[c]) /\ \A m \in Tracked : ~Has(conns'[c], m)
    BY <2>1, NothingThere DEF FreeConn
  <2> QED  BY <1>1, <1>2, <2>2, OneMoves DEF Same
<1>4. CASE k.at # "closed"
  <2>1. /\ conns'[c].up = k.up \o bye /\ conns'[c].deliveries = k.deliveries
        /\ conns'[c].inflight = k.inflight
    BY <1>1, <1>4 DEF Leave, BusInv, Typed, Conn
  <2>2. Once(conns'[c].up, SentOf, Tracked)
        /\ \A x \in Tracked : In(conns'[c].up, SentOf, x) => In(k.up, SentOf, x)
    BY <1>1, <2>1, OnceUntracked DEF Alone
  <2>3. Alone(conns'[c]) /\ \A m \in Tracked : Has(conns'[c], m) => Has(k, m)
    BY <1>1, <2>1, <2>2, UpOnly
  <2> QED  BY <1>1, <1>2, <2>3, OneMoves DEF Same
<1> QED  BY <1>3, <1>4

LEMMA ClientLeavesPlaced ==
    ASSUME BusInv, Placed, Break \/ Disconnect \/ Closed
    PROVE  Placed'
<1>1. CASE Break \/ Closed
  <2>1. current # None /\ Leave(<<>>) /\ <<>> \in Seq(Packets) /\ ToSet(<<>>) = {}
    BY <1>1, SetEmpty DEF Break, Closed
  <2> QED  BY <2>1, LeavePlaced
<1>2. CASE Disconnect
  <2> DEFINE packet == [type |-> "disconnect", id |-> 0]
  <2>1. packet \in Packets /\ packet.type # "publish"
    BY DEF Packets
  <2>2. SentOf[packet] \notin Tracked
    BY <2>1, Identified, TrackedTypes
  <2>3. <<packet>> \in Seq(Packets) /\ ToSet(<<packet>>) = {packet}
    BY <2>1 DEF ToSet
  <2>4. current # None /\ Leave(<<packet>>)
    BY <1>2 DEF Disconnect, Connected
  <2> HIDE DEF packet
  <2> QED  BY <2>2, <2>3, <2>4, LeavePlaced
<1> QED  BY <1>1, <1>2

\* The topic's retained value is always a message with the flag.
LEMMA RetainedKept == BusInv /\ RetainedOnly /\ [Next]_vars => RetainedOnly'
<1> SUFFICES ASSUME BusInv, RetainedOnly, [Next]_vars, retained' # retained PROVE RetainedOnly'
  BY DEF RetainedOnly
<1>1. CASE LocalPublish
  BY <1>1 DEF LocalPublish, Kept, RetainedOnly
<1>2. ASSUME NEW c \in Conns, Task(c) PROVE RetainedOnly'
  BY <1>2 DEF Task, Accept, Deliver, ReadPublish, ReadAck, ReadStep, ReadSubscribe, End,
     Requeue, Drop, Kept, RetainedOnly
<1>3. ~(ClientPublish \/ ClientSubscribe \/ Break \/ Disconnect \/ Client)
  BY DEF ClientPublish, ClientSubscribe, Break, Disconnect, Client, Connect, ClientRead, Closed, Leave
<1> QED  BY <1>1, <1>2, <1>3 DEF Next, vars

LEMMA PlacedKeeps == BusInv /\ RetainedOnly /\ Placed /\ [Next]_vars => Placed'
<1> SUFFICES ASSUME BusInv, RetainedOnly, Placed, [Next]_vars PROVE Placed'
  OBVIOUS
<1>1. CASE UNCHANGED vars
  <2>1. session' = session /\ conns' = conns /\ acked' = acked /\ published' = published
    BY <1>1 DEF vars
  <2> QED  BY <2>1 DEF Placed
<1>2. CASE LocalPublish \/ ClientPublish \/ ClientSubscribe
  BY <1>2, LocalPublishPlaced, ClientPublishPlaced, ClientSubscribePlaced
<1>3. CASE Break \/ Disconnect \/ Closed
  BY <1>3, ClientLeavesPlaced
<1>4. CASE Connect \/ ClientRead
  BY <1>4, ConnectPlaced, ClientReadPlaced
<1>5. ASSUME NEW c \in Conns, Task(c) PROVE Placed'
  BY <1>5, AcceptPlaced, DeliverPlaced, ReadPublishPlaced, ReadAckPlaced, ReadStepPlaced,
     ReadSubscribePlaced, EndPlaced, RequeuePlaced, DropPlaced DEF Task
<1> QED  BY <1>1, <1>2, <1>3, <1>4, <1>5 DEF Next, Client

\* A delivery acknowledged to the end is in no queue, channel or connection
\* any more, and never comes back to one, whatever breaks and returns; except
\* a retained value, which each subscription delivers again.
THEOREM AcknowledgedIsGone == Spec => []AckedIsFinished
<1>1. BusInv /\ Placed => AckedIsFinished
  <2> SUFFICES ASSUME BusInv, Placed, NEW m \in acked, m \notin Retain, m \in Held PROVE FALSE
    BY DEF AckedIsFinished
  <2>1. m \in Tracked
    BY DEF Tracked, BusInv, Typed
  <2>2. ~Queued(session, m) /\ \A c \in Conns : ~Has(conns[c], m)
    BY <2>1 DEF Placed, Spread
  <2>3. m \notin {d[1] : d \in ToSet(session.queued)}
    <3>1. ASSUME NEW d \in ToSet(session.queued), d[1] = m PROVE FALSE
      <4>1. d \in Delivery
        BY SetTyped DEF BusInv, Typed, Session
      <4> QED  BY <2>2, <3>1, <4>1, Identified, InSet DEF Queued
    <3> QED  BY <3>1
  <2>4. PICK c \in Conns : m \in HeldBy(c)
    BY <2>3 DEF Held
  <2>5. ToSet(conns[c].deliveries) \subseteq Delivery /\ ToSet(conns[c].inflight) \subseteq Unacknowledged
    BY ConnTyped, SetTyped
  <2>6. CASE \E d \in ToSet(conns[c].deliveries) : d[1] = m
    BY <2>2, <2>5, <2>6, Identified, InSet DEF Has, InChannel
  <2>7. CASE \E f \in ToSet(conns[c].inflight) : f.message = m
    BY <2>2, <2>5, <2>7, Identified, InSet DEF Has, InFlight
  <2> QED  BY <2>4, <2>6, <2>7 DEF HeldBy
<1>2. Init => RetainedOnly
  BY DEF Init, RetainedOnly
<1> QED  BY <1>1, <1>2, BusInitially, BusKeeps, PlacedInitially, PlacedKeeps, RetainedKept, PTL DEF Spec
=============================================================================
