------------------------------- MODULE LiveProofs -------------------------------
(***************************************************************************)
(* Theorems about Live, for any events, instances, connections, sessions   *)
(* and faults: its types, that no session's thread is leaked, that an      *)
(* event is applied twice only when it was sent once more, and that the    *)
(* protocol implements LiveDelivery.                                       *)
(*                                                                         *)
(* What is said of events applied twice needs no order of messages: what   *)
(* the client has acknowledged only grows, a state somewhere in the system *)
(* has only events the client or its sender knows to be reflected, and an  *)
(* event on its way to a session is new to it or was sent again.           *)
(*                                                                         *)
(* The refinement does: every state is one of a prefix of the events, as   *)
(* an event on its way to a session comes next to, or is one of, those the *)
(* session will have by then, and snapshots on their way never go back.    *)
(***************************************************************************)
EXTENDS Live, SequenceTheorems, FiniteSetTheorems, FunctionTheorems, TLAPS

-----------------------------------------------------------------------------
(* Sequences. *)

LEMMA Appended ==
    ASSUME NEW S, NEW s \in Seq(S), NEW x \in S
    PROVE  /\ Append(s, x) \in Seq(S) /\ Append(s, x) # <<>>
           /\ \A i \in DOMAIN Append(s, x) :
                  (i \in DOMAIN s /\ Append(s, x)[i] = s[i]) \/ (i \notin DOMAIN s /\ Append(s, x)[i] = x)
           /\ \A i, j \in DOMAIN Append(s, x) : i < j => i \in DOMAIN s
           /\ \A i \in DOMAIN s : i \in DOMAIN Append(s, x) /\ Append(s, x)[i] = s[i]
           /\ \E i \in DOMAIN Append(s, x) : Append(s, x)[i] = x
<1>1. /\ Append(s, x) \in Seq(S) /\ DOMAIN Append(s, x) = 1..(Len(s) + 1)
      /\ \A i \in 1..Len(s) : Append(s, x)[i] = s[i]
      /\ Append(s, x)[Len(s) + 1] = x /\ DOMAIN s = 1..Len(s) /\ Len(s) \in Nat
      /\ Append(s, x) # <<>>
  BY AppendProperties, LenProperties
<1> DEFINE t == Append(s, x)
           n == Len(s) + 1
<1>2. /\ \A i \in DOMAIN t : (i \in DOMAIN s /\ t[i] = s[i]) \/ (i \notin DOMAIN s /\ t[i] = x)
      /\ \A i, j \in DOMAIN t : i < j => i \in DOMAIN s
      /\ \A i \in DOMAIN s : i \in DOMAIN t /\ t[i] = s[i]
      /\ n \in DOMAIN t /\ t[n] = x
  <2> HIDE DEF t
  <2> QED  BY <1>1 DEF t
<1> QED  BY <1>1, <1>2

LEMMA Tailed ==
    ASSUME NEW S, NEW s \in Seq(S), s # <<>>
    PROVE  /\ Head(s) \in S /\ Tail(s) \in Seq(S) /\ 1 \in DOMAIN s /\ Head(s) = s[1]
           /\ \A i \in DOMAIN Tail(s) : i + 1 \in DOMAIN s /\ Tail(s)[i] = s[i + 1]
           /\ \A i \in DOMAIN s : i = 1 \/ (i - 1 \in DOMAIN Tail(s) /\ Tail(s)[i - 1] = s[i])
           /\ DOMAIN s \subseteq Nat
<1>1. /\ Head(s) = s[1] /\ Head(s) \in S /\ Tail(s) \in Seq(S) /\ DOMAIN s = 1..Len(s)
      /\ Len(s) \in Nat \ {0} /\ DOMAIN Tail(s) = 1..(Len(s) - 1)
      /\ \A i \in 1..(Len(s) - 1) : Tail(s)[i] = s[i + 1]
  BY HeadTailProperties, LenProperties, EmptySeq
<1>2. \A i \in DOMAIN s : i = 1 \/ (i - 1 \in DOMAIN Tail(s) /\ (i - 1) + 1 = i)
  BY <1>1
<1> QED  BY <1>1, <1>2

LEMMA Prepended ==
    ASSUME NEW S, NEW T, NEW x \in S, NEW t \in Seq(T), T \subseteq S
    PROVE  /\ <<x>> \o t \in Seq(S) /\ <<x>> \o t # <<>>
           /\ Head(<<x>> \o t) = x /\ Tail(<<x>> \o t) = t
<1>1. t \in Seq(S) /\ <<x>> \in Seq(S) /\ <<x>> # <<>> /\ Head(<<x>>) = x /\ Tail(<<x>>) = <<>>
  BY SeqMonotonic
<1> DEFINE u == <<x>> \o t
<1>2. /\ u \in Seq(S) /\ Len(u) = 1 + Len(t) /\ Len(t) \in Nat /\ DOMAIN t = 1..Len(t)
      /\ \A i \in 1..(1 + Len(t)) : u[i] = IF i <= 1 THEN x ELSE t[i - 1]
  <2>1. Len(<<x>>) = 1 /\ <<x>>[1] = x
    OBVIOUS
  <2> QED  BY <1>1, <2>1, ConcatProperties, LenProperties
<1>3. u # <<>>
  BY <1>2
<1>4. Head(u) = u[1] /\ Head(u) = x
  BY <1>2, <1>3, HeadTailProperties
<1>5. Tail(u) = t
  <2>1. /\ Tail(u) \in Seq(S) /\ Len(Tail(u)) = Len(u) - 1
        /\ \A i \in 1..Len(Tail(u)) : Tail(u)[i] = u[i + 1]
    BY <1>2, <1>3, HeadTailProperties
  <2>2. Len(Tail(u)) = Len(t)
    BY <1>2, <2>1
  <2>3. \A i \in 1..Len(t) : Tail(u)[i] = t[i]
    <3> SUFFICES ASSUME NEW i \in 1..Len(t) PROVE Tail(u)[i] = t[i]
      OBVIOUS
    <3>1. i + 1 \in 1..(1 + Len(t)) /\ ~(i + 1 <= 1) /\ (i + 1) - 1 = i
      BY <1>2
    <3> HIDE DEF u
    <3> QED  BY <1>2, <2>1, <2>2, <3>1
  <2> HIDE DEF u
  <2> QED  BY <1>1, <2>1, <2>2, <2>3, SeqEqual
<1> QED  BY <1>2, <1>3, <1>4, <1>5

LEMMA EmptyTyped == (\A S : <<>> \in Seq(S)) /\ DOMAIN <<>> = {}
OBVIOUS

LEMMA MaxTwo ==
    ASSUME NEW a \in Int, NEW b \in Int
    PROVE  Max({a, b}) = IF a >= b THEN a ELSE b
BY DEF Max

-----------------------------------------------------------------------------
(* The types.  No frame, command or state refers to an event not yet sent.   *)

Sent == 1..sent

Hellos == [frame : {"hello"}, session : Ids \union {None}, snapshot : States]
EventFrames == [frame : {"event"}, sequence : Sent]
Upward == Hellos \union EventFrames

Welcomes == [frame : {"welcome"}, session : Ids]
Trees == [frame : {"tree", "drain"}, snapshot : States, acknowledged : 0..sent]
Downward == Welcomes \union Trees

Commanding ==
    ({"event"} \X Sent) \union ({"attach"} \X (Conns \union {Closed}))
      \union {<<"detach">>, <<"stop">>, <<"drain">>}

Views == {NoView} \union {View(state) : state \in States}

Conn ==
    [at : {"free", "hello", "lookup", "attach", "open", "mark", "done"}, inst : Instances,
     up : Seq(Upward), frames : Seq(Downward), session : Ids \union {None},
     snapshot : States, gone : BOOLEAN]

Session ==
    [home : Instances, mapped : BOOLEAN, detached_at : BOOLEAN, alive : BOOLEAN,
     commands : Seq(Commanding), applied : States, acknowledged : 0..sent,
     outbound : Conns \union {None, Closed}, last : Views]

ClientState ==
    [acknowledged : 0..sent, snapshot : States, session : Ids \union {None}, url : Instances,
     conn : Conns \union {None}, outbound : Seq(Sent), unacknowledged : Seq(Sent)]

\* What waits to be acknowledged is the rest of what was sent, in order.
Contiguous(state, n) ==
    /\ Len(state.unacknowledged) = n - state.acknowledged
    /\ \A i \in DOMAIN state.unacknowledged : state.unacknowledged[i] = state.acknowledged + i

\* A hello comes first, and only first; a handler past the lookup serves a session.
Serving == {"attach", "open", "mark"}

Shaped(k) ==
    /\ k.at = "hello" => k.up # <<>> /\ Head(k.up) \in Hellos /\ Tail(k.up) \in Seq(EventFrames)
    /\ k.at # "hello" => k.up \in Seq(EventFrames)
    /\ k.at \in Serving => k.session \in Ids

Typed ==
    /\ sent \in 0..MaxEvents /\ client \in ClientState /\ Contiguous(client, sent)
    /\ conns \in [Conns -> Conn] /\ sessions \in [Ids -> Session]
    /\ draining \in [Instances -> {"no", "flag", "done"}]
    /\ stale \subseteq Events
    /\ \A c \in Conns : Shaped(conns[c])

-----------------------------------------------------------------------------
(* No session is leaked. *)

Ends == {<<"stop">>, <<"drain">>}

\* A handler serves a session of its own instance, while that runs; a session
\* that runs is accounted for.
Homed(all, ses) ==
    \A c \in Conns :
        all[c].at \in Serving => (ses[all[c].session].alive => ses[all[c].session].home = all[c].inst)

Served(all, s) == \E c \in Conns : all[c].session = s /\ all[c].at \in Serving

Kept(k, all, unmet, s) ==
    k.alive => IF k.mapped THEN k.detached_at \/ Served(all, s) \/ s \in unmet
               ELSE \E i \in DOMAIN k.commands : k.commands[i] \in Ends

Accounted ==
    /\ Homed(conns, sessions)
    /\ \A s \in Ids : Kept(sessions[s], conns, unwelcomed, s)


-----------------------------------------------------------------------------
(* Events are applied once.  Of a state x, an acknowledgement a, sessions ses *)
(* and stale events S.                                                        *)

\* The events of x are among the first a or the first b, and those in it
\* twice are in S.
Known(x, a, b, S) ==
    /\ \A i \in DOMAIN x : x[i] <= a \/ x[i] <= b
    /\ \A i, j \in DOMAIN x : i < j /\ x[i] = x[j] => x[i] \in S

\* e may come to a session k: it is sent once more, k ignores it, or has not
\* applied it.
Fits(e, k, S) == e \in S \/ e <= k.acknowledged \/ \A i \in DOMAIN k.applied : k.applied[i] # e

Applied(k, a, S) ==
    /\ Known(k.applied, k.acknowledged, a, S)
    /\ \A i \in DOMAIN k.commands : k.commands[i][1] = "event" => Fits(k.commands[i][2], k, S)

\* e may come behind a hello, to its session or to a new one.
Follows(e, session, snapshot, ses, S) ==
    /\ e \in S \/ \A i \in DOMAIN snapshot : snapshot[i] # e
    /\ session \in Ids => Fits(e, ses[session], S)

Reflects(f, a, S) == f.frame # "welcome" => Known(f.snapshot, f.acknowledged, a, S)

Carries(k, ses, a, S) ==
    /\ \A i \in DOMAIN k.frames : Reflects(k.frames[i], a, S)
    /\ Known(k.snapshot, 0, a, S)
    /\ k.at = "hello" =>
           LET hello == Head(k.up) IN
           /\ Known(hello.snapshot, 0, a, S)
           /\ \A i \in DOMAIN Tail(k.up) :
                  Follows(Tail(k.up)[i].sequence, hello.session, hello.snapshot, ses, S)
    /\ k.at # "hello" =>
           \A i \in DOMAIN k.up :
               Follows(k.up[i].sequence, k.session, IF k.at = "lookup" THEN k.snapshot ELSE <<>>, ses, S)

Once ==
    /\ Known(client.snapshot, 0, client.acknowledged, stale)
    /\ \A s \in Ids : Applied(sessions[s], client.acknowledged, stale)
    /\ \A c \in Conns : Carries(conns[c], sessions, client.acknowledged, stale)

LiveInv == Typed /\ Accounted /\ Once
LEMMA LiveTypes ==
    /\ MaxEvents \in Nat /\ Events \subseteq Nat \ {0} /\ Events \subseteq Int
    /\ Conns \subseteq Nat \ {0} /\ None \notin Conns /\ Closed \notin Conns /\ Closed # None
    /\ Ids \subseteq Nat \ {0} /\ None \notin Ids /\ First \in Instances /\ To \in Instances
    /\ Sent \subseteq Int
BY LiveAssumption DEF Events, Conns, Ids, None, Closed, Sent

LEMMA FreeTyped == sent \in Nat => FreeConn \in Conn /\ Shaped(FreeConn) /\ NoSession \in Session
<1> SUFFICES ASSUME sent \in Nat PROVE FreeConn \in Conn /\ Shaped(FreeConn) /\ NoSession \in Session
  OBVIOUS
<1>1. FreeConn \in Conn /\ Shaped(FreeConn)
  BY LiveTypes, EmptyTyped DEF FreeConn, Conn, Shaped, States, Serving
<1>2. NoSession \in Session
  BY LiveTypes, EmptyTyped DEF NoSession, Session, States, Views
<1> QED  BY <1>1, <1>2

LEMMA TypedParts ==
    ASSUME Typed
    PROVE  /\ client \in ClientState /\ client.unacknowledged \in Seq(Sent)
           /\ client.outbound \in Seq(Sent) /\ client.snapshot \in Seq(Events)
           /\ client.acknowledged \in Nat /\ sent \in Nat /\ Sent \subseteq Events
           /\ \A c \in Conns : /\ conns[c] \in Conn /\ conns[c].up \in Seq(Upward)
                               /\ conns[c].frames \in Seq(Downward)
                               /\ conns[c].snapshot \in Seq(Events) /\ Shaped(conns[c])
           /\ \A s \in Ids : /\ sessions[s] \in Session /\ sessions[s].commands \in Seq(Commanding)
                             /\ sessions[s].applied \in Seq(Events)
                             /\ sessions[s].acknowledged \in Nat
<1>1. client \in ClientState /\ sent \in Nat
  BY LiveTypes DEF Typed
<1>2. \A c \in Conns : conns[c] \in Conn /\ Shaped(conns[c])
  BY DEF Typed
<1>3. \A s \in Ids : sessions[s] \in Session
  BY DEF Typed
<1>4. 0..sent \subseteq Nat /\ Sent \subseteq Events
  BY LiveTypes DEF Typed, Sent, Events
<1>5. /\ client.unacknowledged \in Seq(Sent) /\ client.outbound \in Seq(Sent)
      /\ client.snapshot \in Seq(Events) /\ client.acknowledged \in Nat
  BY <1>1, <1>4 DEF ClientState, States
<1>6. \A c \in Conns : conns[c].up \in Seq(Upward) /\ conns[c].frames \in Seq(Downward)
                       /\ conns[c].snapshot \in Seq(Events)
  BY <1>2 DEF Conn, States
<1>7. \A s \in Ids : sessions[s].commands \in Seq(Commanding) /\ sessions[s].applied \in Seq(Events)
                     /\ sessions[s].acknowledged \in Nat
  BY <1>3, <1>4 DEF Session, States
<1> QED  BY <1>1, <1>2, <1>3, <1>4, <1>5, <1>6, <1>7

\* One connection changes, or one session.
LEMMA OneConn ==
    ASSUME Typed, NEW c \in Conns, NEW r, r \in Conn, Shaped(r), conns' = [conns EXCEPT ![c] = r]
    PROVE  /\ conns' \in [Conns -> Conn] /\ \A d \in Conns : Shaped(conns'[d])
           /\ conns'[c] = r /\ \A d \in Conns : d # c => conns'[d] = conns[d]
BY DEF Typed

LEMMA OneSession ==
    ASSUME Typed, NEW s \in Ids, NEW k, k \in Session, sessions' = [sessions EXCEPT ![s] = k]
    PROVE  /\ sessions' \in [Ids -> Session]
           /\ sessions'[s] = k /\ \A q \in Ids : q # s => sessions'[q] = sessions[q]
BY DEF Typed

LEMMA LeftTyped ==
    ASSUME Typed, NEW c \in Conns
    PROVE  Left(c) \in Conn /\ Shaped(Left(c))
<1>1. CASE conns[c].at = "done"
  BY <1>1, FreeTyped, TypedParts DEF Left
<1>2. CASE conns[c].at # "done"
  <2>1. Left(c) = [conns[c] EXCEPT !.gone = TRUE, !.frames = <<>>]
    BY <1>2 DEF Left
  <2>2. conns[c] \in Conn /\ Shaped(conns[c])
    BY TypedParts
  <2>3. <<>> \in Seq(Downward)
    BY EmptyTyped
  <2>4. Left(c) \in Conn
    BY <2>1, <2>2, <2>3 DEF Conn
  <2>5. Left(c).at = conns[c].at /\ Left(c).up = conns[c].up /\ Left(c).session = conns[c].session
    BY <2>1, <2>2 DEF Conn
  <2>6. Shaped(Left(c))
    BY <2>2, <2>5 DEF Shaped
  <2> QED  BY <2>4, <2>6
<1> QED  BY <1>1, <1>2

LEMMA EndedTyped ==
    ASSUME Typed, NEW c \in Conns
    PROVE  /\ Ended(c) \in Conn /\ Shaped(Ended(c)) /\ Ended(c).up = <<>>
           /\ Ended(c).at \in {"free", "done"} /\ Ended(c).session = None /\ Ended(c).snapshot = <<>>
           /\ Ended(c).frames \in {<<>>, conns[c].frames} /\ Ended(c).inst \in Instances
<1>1. CASE conns[c].gone
  <2>1. Ended(c) = FreeConn
    BY <1>1 DEF Ended
  <2> QED  BY <2>1, FreeTyped, TypedParts, LiveTypes DEF FreeConn
<1>2. CASE ~conns[c].gone
  <2>1. Ended(c) = [conns[c] EXCEPT !.at = "done", !.up = <<>>, !.session = None, !.snapshot = <<>>]
    BY <1>2 DEF Ended
  <2>2. conns[c] \in Conn
    BY TypedParts
  <2>3. /\ Ended(c).up = <<>> /\ Ended(c).at = "done" /\ Ended(c).session = None
        /\ Ended(c).snapshot = <<>> /\ Ended(c).frames = conns[c].frames /\ Ended(c).inst = conns[c].inst
    BY <2>1, <2>2 DEF Conn
  <2>4. Ended(c) \in Conn
    <3>1. <<>> \in Seq(Upward) /\ <<>> \in States
      BY EmptyTyped DEF States
    <3> QED  BY <2>1, <2>2, <3>1 DEF Conn
  <2> QED  BY <2>2, <2>3, <2>4, EmptyTyped DEF Shaped, Serving, Conn
<1> QED  BY <1>1, <1>2

\* What a command does to its session.
LEMMA CommandedIs ==
    ASSUME Typed, NEW s \in Ids, NEW command \in Commanding
    PROVE  LET k == Commanded(s, command) IN
           /\ k \in Session /\ k.home = sessions[s].home /\ k.mapped = sessions[s].mapped
           /\ k.detached_at = sessions[s].detached_at /\ k.alive = sessions[s].alive
           /\ k.applied = sessions[s].applied /\ k.acknowledged = sessions[s].acknowledged
           /\ k.commands = IF sessions[s].alive THEN Append(sessions[s].commands, command)
                                                ELSE sessions[s].commands
<1>1. sessions[s] \in Session /\ sessions[s].commands \in Seq(Commanding)
  BY TypedParts
<1>2. Append(sessions[s].commands, command) \in Seq(Commanding)
  BY <1>1, Appended
<1> QED  BY <1>1, <1>2 DEF Commanded, Session

LEMMA CommandTypes ==
    /\ <<"detach">> \in Commanding /\ <<"stop">> \in Commanding /\ <<"drain">> \in Commanding
    /\ \A c \in Conns \union {Closed} : <<"attach", c>> \in Commanding
    /\ \A e \in Sent : <<"event", e>> \in Commanding
BY DEF Commanding

\* The sender of a handler's frames that is dropped: nothing else changes.
LEMMA ReceiverDroppedIs ==
    ASSUME NEW c \in Conns, NEW all \in [Ids -> Session]
    PROVE  LET after == ReceiverDropped(c, all) IN
           /\ after \in [Ids -> Session]
           /\ \A s \in Ids :
                  /\ after[s].home = all[s].home /\ after[s].mapped = all[s].mapped
                  /\ after[s].detached_at = all[s].detached_at /\ after[s].alive = all[s].alive
                  /\ after[s].applied = all[s].applied /\ after[s].acknowledged = all[s].acknowledged
                  /\ DOMAIN after[s].commands = DOMAIN all[s].commands
                  /\ \A i \in DOMAIN all[s].commands :
                         \/ after[s].commands[i] = all[s].commands[i]
                         \/ all[s].commands[i] = <<"attach", c>> /\ after[s].commands[i] = <<"attach", Closed>>
<1> DEFINE after == ReceiverDropped(c, all)
<1>1. ASSUME NEW s \in Ids
      PROVE  /\ after[s] \in Session
             /\ after[s].home = all[s].home /\ after[s].mapped = all[s].mapped
             /\ after[s].detached_at = all[s].detached_at /\ after[s].alive = all[s].alive
             /\ after[s].applied = all[s].applied /\ after[s].acknowledged = all[s].acknowledged
             /\ DOMAIN after[s].commands = DOMAIN all[s].commands
             /\ \A i \in DOMAIN all[s].commands :
                    \/ after[s].commands[i] = all[s].commands[i]
                    \/ all[s].commands[i] = <<"attach", c>> /\ after[s].commands[i] = <<"attach", Closed>>
  <2> DEFINE k == all[s]
             out == IF k.outbound = c THEN Closed ELSE k.outbound
             cs == [i \in DOMAIN k.commands |->
                       IF k.commands[i] = <<"attach", c>> THEN <<"attach", Closed>> ELSE k.commands[i]]
  <2>1. k \in Session /\ k.commands \in Seq(Commanding)
    <3>1. k \in Session
      OBVIOUS
    <3> QED  BY <3>1 DEF Session
  <2>2. after[s] = [k EXCEPT !.outbound = out, !.commands = cs]
    BY DEF ReceiverDropped
  <2>3. cs \in Seq(Commanding)
    <3>1. DOMAIN k.commands = 1..Len(k.commands) /\ Len(k.commands) \in Nat
          /\ \A i \in DOMAIN k.commands : k.commands[i] \in Commanding
      BY <2>1, LenProperties
    <3>2. \A i \in DOMAIN k.commands : cs[i] \in Commanding
      BY <3>1, CommandTypes
    <3>3. cs \in [1..Len(k.commands) -> Commanding]
      BY <3>1, <3>2
    <3> QED  BY <3>1, <3>3, SeqDef
  <2>4. DOMAIN cs = DOMAIN k.commands
        /\ \A i \in DOMAIN cs : cs[i] = k.commands[i] \/ (k.commands[i] = <<"attach", c>> /\ cs[i] = <<"attach", Closed>>)
    OBVIOUS
  <2> HIDE DEF cs, out, k, after
  <2>5. out \in Conns \union {None, Closed}
    BY <2>1 DEF out, Session
  <2> QED  BY <2>1, <2>2, <2>3, <2>4, <2>5 DEF Session, k
<1>2. after = [s \in Ids |-> after[s]]
  BY DEF ReceiverDropped
<1> HIDE DEF after
<1>3. after \in [Ids -> Session]
  BY <1>1, <1>2
<1> QED  BY <1>1, <1>3 DEF after

LEMMA LiveInitially == Init => Typed
<1> SUFFICES ASSUME Init PROVE Typed
  OBVIOUS
<1>1. sent \in 0..MaxEvents /\ sent \in Nat
  BY LiveTypes DEF Init
<1>2. client \in ClientState /\ Contiguous(client, sent)
  BY LiveTypes, EmptyTyped DEF Init, ClientState, States, Contiguous
<1> QED  BY <1>1, <1>2, LiveTypes, FreeTyped DEF Init, Typed

\* Nothing is sent: the types are the same.
LEMMA TypedNext ==
    ASSUME Typed, sent' = sent, client' \in ClientState, Contiguous(client', sent),
           conns' \in [Conns -> Conn], sessions' \in [Ids -> Session],
           draining' \in [Instances -> {"no", "flag", "done"}], stale' \subseteq Events,
           \A c \in Conns : Shaped(conns'[c])
    PROVE  Typed'
BY DEF Typed, Conn, Session, ClientState, Shaped, Upward, Downward, Hellos, EventFrames, Trees,
       Commanding, Sent


-----------------------------------------------------------------------------
(* What the client sends and takes. *)

\* What is sent again, as frames.
Resent == [k \in DOMAIN Resend |-> Event(Resend[k])]

LEMMA ResentTyped ==
    ASSUME Typed
    PROVE  /\ Resent \in Seq(EventFrames) /\ DOMAIN Resent = DOMAIN client.unacknowledged
           /\ \A i \in DOMAIN Resent : /\ Resent[i].sequence = client.unacknowledged[i]
                                       /\ Resent[i].sequence > client.acknowledged
<1> DEFINE u == client.unacknowledged
<1>1. /\ u \in Seq(Sent) /\ DOMAIN u = 1..Len(u) /\ Len(u) \in Nat
      /\ \A i \in DOMAIN u : u[i] \in Sent
  BY TypedParts, LenProperties
<1>2. Resent = [k \in DOMAIN u |-> Event(u[k])]
  BY DEF Resent, Resend
<1>3. \A i \in DOMAIN u : u[i] > client.acknowledged
  BY <1>1, TypedParts DEF Typed, Contiguous
<1> HIDE DEF u
<1>4. \A e \in Sent : Event(e) \in EventFrames /\ Event(e).sequence = e
  BY DEF Event, EventFrames
<1>5. Resent \in [1..Len(u) -> EventFrames]
  BY <1>1, <1>2, <1>4
<1>6. Resent \in Seq(EventFrames)
  BY <1>1, <1>5, SeqDef
<1>7. DOMAIN Resent = DOMAIN u /\ \A i \in DOMAIN u : Resent[i].sequence = u[i]
  BY <1>1, <1>2, <1>4
<1> QED  BY <1>3, <1>6, <1>7 DEF u

LEMMA HelloTyped ==
    ASSUME Typed
    PROVE  /\ Hello \in Hellos /\ Hello \in Upward
           /\ Hello.session = client.session /\ Hello.snapshot = client.snapshot
BY TypedParts DEF Hello, Hellos, ClientState, States, Upward

\* What is left of a run of numbers after the first ones.
LEMMA LaterOnes ==
    ASSUME NEW n \in Nat, NEW a \in 0..n, NEW done \in a..n, NEW u \in Seq(1..n),
           Len(u) = n - a, \A i \in DOMAIN u : u[i] = a + i
    PROVE  LET later == {k \in DOMAIN u : u[k] > done}
               v == IF later = {} THEN <<>> ELSE SubSeq(u, Min(later), Len(u))
           IN  v \in Seq(1..n) /\ Len(v) = n - done /\ \A i \in DOMAIN v : v[i] = done + i
<1> DEFINE later == {k \in DOMAIN u : u[k] > done}
           m == (done - a) + 1
           v == IF later = {} THEN <<>> ELSE SubSeq(u, Min(later), Len(u))
<1>1. DOMAIN u = 1..(n - a) /\ done \in Int /\ a \in Int /\ a <= done /\ done <= n
  BY LenProperties
<1>2. later = m..(n - a)
  BY <1>1
<1>3. m \in Int /\ m >= 1 /\ m + a = done + 1
  BY <1>1
<1> HIDE DEF later, m
<1>4. v \in Seq(1..n) /\ Len(v) = n - done /\ \A i \in DOMAIN v : v[i] = done + i
  <2>1. CASE later = {}
    <3>1. ~(m <= n - a)
      BY <1>1, <1>2, <1>3, <2>1
    <3>2. done = n
      BY <1>1, <1>3, <3>1
    <3>3. v = <<>>
      BY <2>1
    <3> HIDE DEF v
    <3> QED  BY <3>2, <3>3, EmptyTyped
  <2>2. CASE later # {}
    <3>1. m <= n - a
      BY <1>1, <1>2, <1>3, <2>2
    <3>2. Min(later) = m
      <4>1. m \in later /\ \A k \in later : m <= k /\ k \in Int
        BY <1>1, <1>2, <1>3, <3>1
      <4>2. \E x \in later : \A y \in later : x <= y
        BY <4>1
      <4>3. Min(later) \in later /\ \A y \in later : Min(later) <= y
        BY ONLY <4>2, Zenon DEF Min
      <4>4. PICK x \in later : Min(later) = x /\ \A y \in later : x <= y
        BY <4>3
      <4>5. x <= m /\ m <= x /\ x \in Int
        BY <4>1, <4>4
      <4>6. x = m
        BY <1>3, <4>5
      <4> QED  BY <4>4, <4>6
    <3>3. v = SubSeq(u, m, Len(u))
      BY <2>2, <3>2
    <3>4. /\ SubSeq(u, m, Len(u)) \in Seq(1..n) /\ Len(SubSeq(u, m, Len(u))) = Len(u) - m + 1
          /\ \A i \in 1..(Len(u) - m + 1) : SubSeq(u, m, Len(u))[i] = u[m + i - 1]
      <4>1. m \in Int /\ Len(u) \in Int /\ m <= Len(u) /\ \A i \in m..Len(u) : u[i] \in 1..n
        BY <1>1, <1>3, <3>1
      <4> QED  BY <4>1, SubSeqProperties
    <3> HIDE DEF v
    <3>5. Len(v) = n - done /\ v \in Seq(1..n) /\ DOMAIN v = 1..(n - done)
      BY <1>1, <1>3, <3>3, <3>4, LenProperties
    <3>6. ASSUME NEW i \in 1..(n - done) PROVE v[i] = done + i
      <4>1. i \in 1..(Len(u) - m + 1) /\ m + i - 1 \in 1..(n - a) /\ a + (m + i - 1) = done + i
        BY <1>1, <1>3, <3>1
      <4>2. v[i] = u[m + i - 1]
        BY <3>3, <3>4, <4>1
      <4> QED  BY <1>1, <4>1, <4>2
    <3> QED  BY <3>5, <3>6
  <2> QED  BY <2>1, <2>2
<1> QED  BY <1>4 DEF later

LEMMA AcknowledgeTyped ==
    ASSUME NEW n \in Nat, NEW state, NEW ack \in 0..n,
           state \in [acknowledged : 0..n, snapshot : States, session : Ids \union {None},
                      url : Instances, conn : Conns \union {None}, outbound : Seq(1..n),
                      unacknowledged : Seq(1..n)],
           Contiguous(state, n)
    PROVE  LET after == Acknowledge(state, ack) IN
           /\ after \in [acknowledged : 0..n, snapshot : States, session : Ids \union {None},
                         url : Instances, conn : Conns \union {None}, outbound : Seq(1..n),
                         unacknowledged : Seq(1..n)]
           /\ Contiguous(after, n) /\ after.snapshot = state.snapshot
           /\ after.acknowledged = IF state.acknowledged >= ack THEN state.acknowledged ELSE ack
<1> DEFINE u == state.unacknowledged
           a == state.acknowledged
           done == Max({a, ack})
           later == {k \in DOMAIN u : u[k] > done}
           v == IF later = {} THEN <<>> ELSE SubSeq(u, Min(later), Len(u))
<1>1. u \in Seq(1..n) /\ a \in 0..n
  OBVIOUS
<1>2. done = IF a >= ack THEN a ELSE ack
  BY <1>1, MaxTwo
<1>3. Acknowledge(state, ack) = [state EXCEPT !.acknowledged = done, !.unacknowledged = v]
  BY DEF Acknowledge
<1>4. Len(u) = n - a /\ \A i \in DOMAIN u : u[i] = a + i
  BY DEF Contiguous
<1>5. done \in a..n /\ done \in 0..n
  BY <1>1, <1>2
<1>6. v \in Seq(1..n) /\ Len(v) = n - done /\ \A i \in DOMAIN v : v[i] = done + i
  <2> HIDE DEF u, a, done
  <2> QED  BY <1>1, <1>4, <1>5, LaterOnes
<1> HIDE DEF done, v
<1> QED  BY <1>1, <1>2, <1>3, <1>5, <1>6 DEF Contiguous

-----------------------------------------------------------------------------
(* What keeps sessions accounted for. *)

\* A handler goes on serving its session, or neither of the two serves one.
Serves(k, l) ==
    /\ l.at \in Serving <=> k.at \in Serving
    /\ l.at \in Serving => l.session = k.session /\ l.inst = k.inst

ToldToEnd(k) == \E i \in DOMAIN k.commands : k.commands[i] \in Ends

\* A session stays what it is, is told to end as it leaves the map, or ends.
Continues(k, l) ==
    l.alive =>
        /\ k.alive /\ l.home = k.home
        /\ \/ /\ l.mapped = k.mapped /\ (k.detached_at => l.detached_at)
              /\ ToldToEnd(k) => ToldToEnd(l)
           \/ ~l.mapped /\ ToldToEnd(l)

LEMMA KeptOn ==
    ASSUME NEW k, NEW l, NEW all, NEW new, NEW unmet, NEW met, NEW s,
           k.alive \in BOOLEAN, k.mapped \in BOOLEAN, l.mapped \in BOOLEAN,
           Kept(k, all, unmet, s), Continues(k, l),
           Served(all, s) => Served(new, s), s \in unmet => s \in met
    PROVE  Kept(l, new, met, s)
BY DEF Kept, Continues, ToldToEnd

LEMMA ServedOn ==
    ASSUME NEW all, NEW new, NEW s,
           \A c \in Conns : all[c].at \in Serving /\ all[c].session = s =>
                                new[c].at \in Serving /\ new[c].session = s,
           Served(all, s)
    PROVE  Served(new, s)
BY DEF Served

LEMMA HomedOn ==
    ASSUME Typed, Accounted, NEW c \in Conns, Serves(conns[c], conns'[c]),
           \A s \in Ids : s = conns[c].session => Continues(sessions[s], sessions'[s]),
           conns'[c].at \in Serving, sessions'[conns'[c].session].alive
    PROVE  sessions'[conns'[c].session].home = conns'[c].inst
<1>1. conns[c].at \in Serving /\ conns'[c].session = conns[c].session /\ conns'[c].inst = conns[c].inst
  BY DEF Serves
<1>2. conns[c].session \in Ids
  BY <1>1 DEF Shaped, Typed
<1>3. Continues(sessions[conns[c].session], sessions'[conns[c].session])
  BY <1>2
<1>4. Homed(conns, sessions)
  BY DEF Accounted
<1> QED  BY <1>1, <1>3, <1>4 DEF Continues, Homed

LEMMA AccountedOn ==
    ASSUME Typed, Typed', Accounted, unwelcomed' = unwelcomed,
           \A c \in Conns : Serves(conns[c], conns'[c]),
           \A s \in Ids : Continues(sessions[s], sessions'[s])
    PROVE  Accounted'
<1>1. ASSUME NEW c \in Conns, conns'[c].at \in Serving, sessions'[conns'[c].session].alive
      PROVE  sessions'[conns'[c].session].home = conns'[c].inst
  BY <1>1, HomedOn
<1>2. ASSUME NEW s \in Ids
      PROVE  Kept(sessions'[s], conns', unwelcomed', s)
  <2>1. sessions[s] \in Session /\ sessions'[s].mapped \in BOOLEAN
    BY DEF Typed, Session
  <2>2. sessions[s].alive \in BOOLEAN /\ sessions[s].mapped \in BOOLEAN
    BY <2>1 DEF Session
  <2>3. Kept(sessions[s], conns, unwelcomed, s)
    BY DEF Accounted
  <2>4. Served(conns, s) => Served(conns', s)
    <3>1. \A c \in Conns : Serves(conns[c], conns'[c])
      OBVIOUS
    <3> QED  BY <3>1 DEF Served, Serves
  <2>5. Continues(sessions[s], sessions'[s])
    OBVIOUS
  <2> QED  BY <2>1, <2>2, <2>3, <2>4, <2>5, KeptOn
<1>3. Homed(conns', sessions')
  BY <1>1 DEF Homed
<1> QED  BY <1>2, <1>3 DEF Accounted

-----------------------------------------------------------------------------
(* What keeps events from being applied twice. *)

LEMMA KnownOn ==
    ASSUME NEW x \in Seq(Events), NEW a \in Nat, NEW b \in Nat, NEW c \in Nat, NEW d \in Nat,
           NEW S, NEW T, S \subseteq T, a <= c \/ a <= d, b <= c \/ b <= d, Known(x, a, b, S)
    PROVE  Known(x, c, d, T)
<1>1. \A i \in DOMAIN x : x[i] \in Int
  <2>1. DOMAIN x = 1..Len(x) /\ \A i \in 1..Len(x) : x[i] \in Events
    BY LenProperties
  <2> QED  BY <2>1, LiveTypes
<1>2. ASSUME NEW i \in DOMAIN x PROVE x[i] <= c \/ x[i] <= d
  BY <1>1 DEF Known
<1> QED  BY <1>2 DEF Known

LEMMA NothingKnown ==
    \A a, b, S : Known(<<>>, a, b, S)
BY DEF Known

\* An event that fits the one fits the other.
Fit(k, l, S, T) == \A e \in Events : Fits(e, k, S) => Fits(e, l, T)

\* A session without further events to apply.
Stays(k, l) ==
    /\ l.applied = k.applied /\ l.acknowledged = k.acknowledged
    /\ \A i \in DOMAIN l.commands :
           l.commands[i][1] = "event" => \E j \in DOMAIN k.commands : k.commands[j] = l.commands[i]

Nothing(l) == l.applied = <<>> /\ l.commands = <<>> /\ l.acknowledged = 0

LEMMA StaysFit ==
    ASSUME NEW k, NEW l, NEW S, NEW T, S \subseteq T, Stays(k, l) \/ Nothing(l)
    PROVE  Fit(k, l, S, T)
BY DEF Fit, Fits, Stays, Nothing

LEMMA StaysApplied ==
    ASSUME NEW k, NEW l, NEW a \in Nat, NEW b \in Nat, NEW S, NEW T, S \subseteq T, a <= b,
           Stays(k, l) \/ Nothing(l), k.applied \in Seq(Events), k.acknowledged \in Nat,
           Applied(k, a, S)
    PROVE  Applied(l, b, T)
<1>1. CASE Nothing(l)
  BY <1>1, NothingKnown DEF Nothing, Applied
<1>2. CASE Stays(k, l)
  <2>1. Known(k.applied, k.acknowledged, b, T)
    <3>1. Known(k.applied, k.acknowledged, a, S) /\ k.acknowledged <= k.acknowledged
      BY DEF Applied
    <3> QED  BY <3>1, KnownOn
  <2>2. \A i \in DOMAIN l.commands : l.commands[i][1] = "event" => Fits(l.commands[i][2], l, T)
    BY <1>2 DEF Applied, Stays, Fits
  <2> QED  BY <1>2, <2>1, <2>2 DEF Applied, Stays
<1> QED  BY <1>1, <1>2

\* No frame on its way up to k or to be sent by it names s.
Unnamed(k, s) == k.session # s /\ (k.at = "hello" => Head(k.up).session # s)

LEMMA FollowsOn ==
    ASSUME NEW e \in Events, NEW session, NEW snapshot, NEW ses, NEW all, NEW S, NEW T, S \subseteq T,
           \A s \in Ids : s # session \/ Fit(ses[s], all[s], S, T),
           Follows(e, session, snapshot, ses, S)
    PROVE  Follows(e, session, snapshot, all, T)
BY DEF Follows, Fit

LEMMA ReflectsOn ==
    ASSUME NEW f, f.frame # "welcome" => f.snapshot \in Seq(Events) /\ f.acknowledged \in Nat,
           NEW a \in Nat, NEW b \in Nat, NEW S, NEW T, S \subseteq T, a <= b, Reflects(f, a, S)
    PROVE  Reflects(f, b, T)
BY KnownOn DEF Reflects

LEMMA CarriesOn ==
    ASSUME Typed, NEW k \in Conn, Shaped(k), NEW ses, NEW all, NEW a \in Nat, NEW b \in Nat,
           NEW S, NEW T, S \subseteq T, a <= b,
           \A s \in Ids : Unnamed(k, s) \/ Fit(ses[s], all[s], S, T),
           Carries(k, ses, a, S)
    PROVE  Carries(k, all, b, T)
<1>1. /\ k.up \in Seq(Upward) /\ k.frames \in Seq(Downward) /\ k.snapshot \in Seq(Events)
      /\ Sent \subseteq Events /\ 0..sent \subseteq Nat
  BY TypedParts DEF Conn, States
<1>2. \A i \in DOMAIN k.frames : Reflects(k.frames[i], b, T)
  <2> SUFFICES ASSUME NEW i \in DOMAIN k.frames PROVE Reflects(k.frames[i], b, T)
    OBVIOUS
  <2>1. k.frames[i] \in Downward
    BY <1>1, LenProperties
  <2>2. k.frames[i].frame # "welcome" => k.frames[i].snapshot \in Seq(Events) /\ k.frames[i].acknowledged \in Nat
    BY <1>1, <2>1 DEF Downward, Welcomes, Trees, States
  <2>3. Reflects(k.frames[i], a, S)
    BY DEF Carries
  <2> QED  BY <2>2, <2>3, ReflectsOn
<1>3. Known(k.snapshot, 0, b, T)
  <2>1. Known(k.snapshot, 0, a, S) /\ 0 <= 0
    BY DEF Carries
  <2> QED  BY <1>1, <2>1, KnownOn
<1>4. ASSUME k.at = "hello"
      PROVE  LET hello == Head(k.up) IN
             /\ Known(hello.snapshot, 0, b, T)
             /\ \A i \in DOMAIN Tail(k.up) :
                    Follows(Tail(k.up)[i].sequence, hello.session, hello.snapshot, all, T)
  <2> DEFINE hello == Head(k.up)
             rest == Tail(k.up)
  <2>1. hello \in Hellos /\ rest \in Seq(EventFrames)
    BY <1>4 DEF Shaped
  <2>2. Known(hello.snapshot, 0, a, S) /\ 0 <= 0
    BY <1>4 DEF Carries
  <2>3. hello.snapshot \in Seq(Events)
    BY <2>1 DEF Hellos, States
  <2>4. ASSUME NEW i \in DOMAIN rest PROVE Follows(rest[i].sequence, hello.session, hello.snapshot, all, T)
    <3>1. rest[i] \in EventFrames
      BY <2>1, LenProperties
    <3>2. rest[i].sequence \in Events
      BY <1>1, <3>1 DEF EventFrames
    <3>3. Follows(rest[i].sequence, hello.session, hello.snapshot, ses, S)
      BY <1>4 DEF Carries
    <3>4. \A s \in Ids : s # hello.session \/ Fit(ses[s], all[s], S, T)
      BY <1>4 DEF Unnamed
    <3> HIDE DEF hello, rest
    <3> QED  BY <3>2, <3>3, <3>4, FollowsOn
  <2> HIDE DEF hello, rest
  <2>5. Known(hello.snapshot, 0, b, T)
    BY <2>2, <2>3, KnownOn
  <2> QED  BY <2>4, <2>5 DEF hello, rest
<1>5. ASSUME k.at # "hello", NEW i \in DOMAIN k.up
      PROVE  Follows(k.up[i].sequence, k.session, IF k.at = "lookup" THEN k.snapshot ELSE <<>>, all, T)
  <2>1. k.up \in Seq(EventFrames)
    BY <1>5 DEF Shaped
  <2>2. k.up[i] \in EventFrames
    BY <1>5, <2>1, LenProperties
  <2>3. k.up[i].sequence \in Events
    BY <1>1, <2>2 DEF EventFrames
  <2>4. Follows(k.up[i].sequence, k.session, IF k.at = "lookup" THEN k.snapshot ELSE <<>>, ses, S)
    BY <1>5 DEF Carries
  <2>5. \A s \in Ids : s # k.session \/ Fit(ses[s], all[s], S, T)
    BY DEF Unnamed
  <2> QED  BY <2>3, <2>4, <2>5, FollowsOn
<1> QED  BY <1>2, <1>3, <1>4, <1>5 DEF Carries

\* Only the frames differ.
LEMMA CarriesFrames ==
    ASSUME NEW k, NEW l, NEW ses, NEW a, NEW S, Carries(k, ses, a, S),
           l.at = k.at, l.up = k.up, l.session = k.session, l.snapshot = k.snapshot,
           \A i \in DOMAIN l.frames : Reflects(l.frames[i], a, S)
    PROVE  Carries(l, ses, a, S)
BY DEF Carries

\* A handler past the lookup, whose events are to its session.
LEMMA CarriesEvents ==
    ASSUME NEW l, NEW ses, NEW a, NEW S, l.at \notin {"hello", "lookup"}, l.snapshot = <<>>,
           \A i \in DOMAIN l.frames : Reflects(l.frames[i], a, S),
           \A i \in DOMAIN l.up : l.session \in Ids => Fits(l.up[i].sequence, ses[l.session], S)
    PROVE  Carries(l, ses, a, S)
BY NothingKnown DEF Carries, Follows

LEMMA CarriesNothing ==
    ASSUME NEW l, NEW ses, NEW a, NEW S, l.at \notin {"hello", "lookup"}, l.snapshot = <<>>,
           \A i \in DOMAIN l.frames : Reflects(l.frames[i], a, S), l.up = <<>>
    PROVE  Carries(l, ses, a, S)
BY CarriesEvents

LEMMA CarriesEnded ==
    ASSUME Typed, NEW c \in Conns, NEW ses, NEW a, NEW S, Carries(conns[c], ses, a, S)
    PROVE  Carries(Ended(c), ses, a, S)
<1>1. \A i \in DOMAIN Ended(c).frames : Reflects(Ended(c).frames[i], a, S)
  BY EndedTyped DEF Carries
<1> QED  BY <1>1, EndedTyped, CarriesNothing

LEMMA CarriesLeft ==
    ASSUME Typed, NEW c \in Conns, NEW ses, NEW a, NEW S, Carries(conns[c], ses, a, S)
    PROVE  Carries(Left(c), ses, a, S)
<1>1. CASE conns[c].at = "done"
  <2>1. Left(c) = FreeConn
    BY <1>1 DEF Left
  <2>2. FreeConn.at = "free" /\ FreeConn.snapshot = <<>> /\ FreeConn.frames = <<>> /\ FreeConn.up = <<>>
    BY DEF FreeConn
  <2> QED  BY <2>1, <2>2, CarriesNothing
<1>2. CASE conns[c].at # "done"
  <2>1. conns[c] \in Conn
    BY TypedParts
  <2>2. /\ Left(c).at = conns[c].at /\ Left(c).up = conns[c].up /\ Left(c).session = conns[c].session
        /\ Left(c).snapshot = conns[c].snapshot /\ Left(c).frames = <<>>
    BY <1>2, <2>1 DEF Left, Conn
  <2> QED  BY <2>2, CarriesFrames
<1> QED  BY <1>1, <1>2

LEMMA OnceOn ==
    ASSUME Typed, Typed', Once, client.acknowledged <= client'.acknowledged, stale \subseteq stale',
           Known(client'.snapshot, 0, client'.acknowledged, stale'),
           \A s \in Ids : /\ Applied(sessions'[s], client'.acknowledged, stale')
                          /\ \/ Fit(sessions[s], sessions'[s], stale, stale')
                             \/ \A c \in Conns : Unnamed(conns[c], s),
           \A c \in Conns : conns'[c] = conns[c] \/ Carries(conns'[c], sessions', client'.acknowledged, stale')
    PROVE  Once'
<1>1. client.acknowledged \in Nat /\ client'.acknowledged \in Nat
  <2>1. client'.acknowledged \in Nat
    BY LiveTypes DEF Typed, ClientState
  <2> QED  BY <2>1, TypedParts
<1>2. ASSUME NEW c \in Conns PROVE Carries(conns'[c], sessions', client'.acknowledged, stale')
  <2>1. conns[c] \in Conn /\ Shaped(conns[c]) /\ Carries(conns[c], sessions, client.acknowledged, stale)
    BY TypedParts DEF Once
  <2>2. Carries(conns[c], sessions', client'.acknowledged, stale')
    BY <1>1, <2>1, CarriesOn
  <2> QED  BY <2>2
<1> QED  BY <1>2 DEF Once

\* Sessions that go on as they are.
LEMMA OnceStays ==
    ASSUME Typed, Typed', Once, client.acknowledged <= client'.acknowledged, stale \subseteq stale',
           Known(client'.snapshot, 0, client'.acknowledged, stale'),
           \A s \in Ids : Stays(sessions[s], sessions'[s]) \/ Nothing(sessions'[s]),
           \A c \in Conns : conns'[c] = conns[c] \/ Carries(conns'[c], sessions', client'.acknowledged, stale')
    PROVE  Once'
<1>1. client.acknowledged \in Nat /\ client'.acknowledged \in Nat
  <2>1. client'.acknowledged \in Nat
    BY LiveTypes DEF Typed, ClientState
  <2> QED  BY <2>1, TypedParts
<1>2. ASSUME NEW s \in Ids
      PROVE  /\ Fit(sessions[s], sessions'[s], stale, stale')
             /\ Applied(sessions'[s], client'.acknowledged, stale')
  <2>1. Applied(sessions[s], client.acknowledged, stale)
        /\ sessions[s].applied \in Seq(Events) /\ sessions[s].acknowledged \in Nat
    BY TypedParts DEF Once
  <2>2. Stays(sessions[s], sessions'[s]) \/ Nothing(sessions'[s])
    OBVIOUS
  <2> QED  BY <1>1, <2>1, <2>2, StaysFit, StaysApplied
<1> QED  BY <1>2, OnceOn

\* What is carried to sessions that only go on may be carried still.
LEMMA CarriesStill ==
    ASSUME Typed, Typed', Once, client.acknowledged <= client'.acknowledged, stale \subseteq stale',
           \A s \in Ids : Stays(sessions[s], sessions'[s]) \/ Nothing(sessions'[s]),
           NEW c \in Conns
    PROVE  Carries(conns[c], sessions', client'.acknowledged, stale')
<1>1. client.acknowledged \in Nat /\ client'.acknowledged \in Nat
  <2>1. client'.acknowledged \in Nat
    BY LiveTypes DEF Typed, ClientState
  <2> QED  BY <2>1, TypedParts
<1>2. \A s \in Ids : Fit(sessions[s], sessions'[s], stale, stale')
  BY StaysFit
<1>3. conns[c] \in Conn /\ Shaped(conns[c]) /\ Carries(conns[c], sessions, client.acknowledged, stale)
  BY TypedParts DEF Once
<1> QED  BY <1>1, <1>2, <1>3, CarriesOn

LEMMA SelfStays == \A k : Stays(k, k) /\ Continues(k, k)
BY DEF Stays, Continues

LEMMA FreeEmpty == FreeConn.at = "free" /\ FreeConn.up = <<>> /\ FreeConn.frames = <<>>
                   /\ FreeConn.snapshot = <<>> /\ FreeConn.session = None
BY DEF FreeConn

\* A connection that is let go of.
LEMMA LeftServes ==
    ASSUME Typed, NEW c \in Conns
    PROVE  Serves(conns[c], Left(c))
<1>1. conns[c] \in Conn
  BY TypedParts
<1>2. CASE conns[c].at = "done"
  BY <1>1, <1>2, FreeEmpty DEF Left, Serves, Serving
<1>3. CASE conns[c].at # "done"
  BY <1>1, <1>3 DEF Left, Serves, Conn
<1> QED  BY <1>2, <1>3

LEMMA SelfServes == \A k : Serves(k, k)
BY DEF Serves

-----------------------------------------------------------------------------
(* The client. *)

\* The types of a longer run of events hold those of a shorter one.
LEMMA TypesGrow ==
    ASSUME sent \in Nat, sent' = sent + 1
    PROVE  /\ Sent \subseteq Sent' /\ Seq(Sent) \subseteq Seq(Sent')
           /\ Conn \subseteq Conn' /\ Session \subseteq Session'
           /\ \A k : Shaped(k) => Shaped(k)'
<1>1. Sent \subseteq Sent' /\ 0..sent \subseteq 0..sent' /\ sent + 1 \in Sent'
  BY DEF Sent
<1>2. EventFrames \subseteq EventFrames' /\ Trees \subseteq Trees' /\ Commanding \subseteq Commanding'
  BY <1>1 DEF EventFrames, Trees, Commanding
<1>3. Upward \subseteq Upward' /\ Downward \subseteq Downward'
  BY <1>2 DEF Upward, Downward, Hellos, Welcomes
<1>4. /\ Seq(Sent) \subseteq Seq(Sent') /\ Seq(EventFrames) \subseteq Seq(EventFrames')
      /\ Seq(Upward) \subseteq Seq(Upward') /\ Seq(Downward) \subseteq Seq(Downward')
      /\ Seq(Commanding) \subseteq Seq(Commanding')
  BY <1>1, <1>2, <1>3, SeqMonotonic
<1>5. Conn \subseteq Conn'
  BY <1>4 DEF Conn
<1>6. Session \subseteq Session'
  BY <1>1, <1>4 DEF Session, Views
<1>7. ASSUME NEW k, Shaped(k) PROVE Shaped(k)'
  BY <1>4, <1>7 DEF Shaped, Hellos
<1> QED  BY <1>1, <1>4, <1>5, <1>6, <1>7

LEMMA SendKeeps == LiveInv /\ Send => LiveInv'
<1> SUFFICES ASSUME LiveInv, Send PROVE LiveInv'
  OBVIOUS
<1> DEFINE u == client.unacknowledged
           o == client.outbound
<1>1. Typed /\ Accounted /\ Once
  BY DEF LiveInv
<1>2. /\ sent \in Nat /\ sent' \in 0..MaxEvents /\ sent' = sent + 1 /\ sent' \in Sent'
      /\ conns' = conns /\ sessions' = sessions /\ draining' = draining /\ stale' = stale
      /\ unwelcomed' = unwelcomed
  BY <1>1, TypedParts, LiveTypes DEF Send, Sent, Typed
<1>3. client' = [client EXCEPT !.unacknowledged = Append(u, sent'), !.outbound = Append(o, sent')]
  BY <1>2 DEF Send
<1>4. /\ u \in Seq(Sent') /\ o \in Seq(Sent') /\ client \in ClientState
  BY <1>1, <1>2, TypedParts, TypesGrow
<1>5. Append(u, sent') \in Seq(Sent') /\ Append(o, sent') \in Seq(Sent')
      /\ Len(Append(u, sent')) = Len(u) + 1 /\ DOMAIN Append(u, sent') = 1..(Len(u) + 1)
      /\ DOMAIN u = 1..Len(u) /\ Len(u) \in Nat
      /\ \A i \in 1..Len(u) : Append(u, sent')[i] = u[i]
      /\ Append(u, sent')[Len(u) + 1] = sent'
  BY <1>2, <1>4, AppendProperties, LenProperties
<1>6. /\ client'.acknowledged = client.acknowledged /\ client'.snapshot = client.snapshot
      /\ client'.unacknowledged = Append(u, sent')
  BY <1>3, <1>4 DEF ClientState
<1>7. Contiguous(client', sent')
  <2>1. Len(u) = sent - client.acknowledged /\ client.acknowledged \in Nat
        /\ \A i \in 1..Len(u) : u[i] = client.acknowledged + i
    BY <1>1, <1>5, TypedParts DEF Typed, Contiguous
  <2> DEFINE a == client.acknowledged
             v == Append(u, sent')
  <2>2. Len(v) = sent' - a
    BY <1>2, <1>5, <2>1
  <2>3. ASSUME NEW i \in 1..(Len(u) + 1) PROVE v[i] = a + i
    <3>1. CASE i = Len(u) + 1
      BY <1>2, <1>5, <2>1, <3>1
    <3>2. CASE i # Len(u) + 1
      <4>1. i \in 1..Len(u)
        BY <1>5, <3>2
      <4> QED  BY <1>5, <2>1, <4>1
    <3> QED  BY <3>1, <3>2
  <2> HIDE DEF u, v, a
  <2>4. client'.unacknowledged = v /\ DOMAIN v = 1..(Len(u) + 1) /\ client'.acknowledged = a
    BY <1>5, <1>6 DEF v, a
  <2> QED  BY <2>2, <2>3, <2>4 DEF Contiguous
<1>8. client' \in ClientState'
  <2>1. 0..sent \subseteq 0..sent'
    BY <1>2
  <2> HIDE DEF u, o
  <2> QED  BY <1>3, <1>4, <1>5, <2>1 DEF ClientState
<1>9. Typed'
  <2>1. conns' \in [Conns -> Conn'] /\ \A c \in Conns : Shaped(conns[c])'
    BY <1>1, <1>2, TypesGrow DEF Typed
  <2>2. sessions' \in [Ids -> Session']
    BY <1>1, <1>2, TypesGrow DEF Typed
  <2> QED  BY <1>1, <1>2, <1>7, <1>8, <2>1, <2>2 DEF Typed
<1>10. Accounted'
  BY <1>1, <1>2 DEF Accounted
<1>11. Once'
  BY <1>1, <1>2, <1>6 DEF Once
<1> QED  BY <1>9, <1>10, <1>11 DEF LiveInv

\* A state in which all events are acknowledged does not have a later one.
LEMMA NewUnknown ==
    ASSUME NEW e \in Events, NEW a \in Nat, NEW b \in Nat, e > a, e > b, NEW x \in Seq(Events), NEW S,
           Known(x, b, a, S)
    PROVE  \A i \in DOMAIN x : x[i] # e
<1>1. \A i \in DOMAIN x : x[i] \in Int /\ (x[i] <= a \/ x[i] <= b)
  <2>1. DOMAIN x = 1..Len(x) /\ \A i \in 1..Len(x) : x[i] \in Events
    BY LenProperties
  <2> QED  BY <2>1, LiveTypes DEF Known
<1>2. e \in Int
  BY LiveTypes
<1> QED  BY <1>1, <1>2

\* An event that is not acknowledged may come anywhere.
LEMMA NewFollows ==
    ASSUME Typed, Once, NEW e \in Sent, e > client.acknowledged, NEW session, NEW snapshot \in Seq(Events),
           Known(snapshot, 0, client.acknowledged, stale)
    PROVE  Follows(e, session, snapshot, sessions, stale)
<1>1. e \in Events /\ client.acknowledged \in Nat /\ e \in Nat
  BY TypedParts, LiveTypes
<1>2. \A i \in DOMAIN snapshot : snapshot[i] # e
  BY <1>1, NewUnknown
<1>3. ASSUME session \in Ids PROVE Fits(e, sessions[session], stale)
  <2> DEFINE k == sessions[session]
  <2>1. k.applied \in Seq(Events) /\ k.acknowledged \in Nat
    BY <1>3, TypedParts
  <2>2. Known(k.applied, k.acknowledged, client.acknowledged, stale)
    BY <1>3 DEF Once, Applied
  <2>3. CASE e <= k.acknowledged
    BY <2>3 DEF Fits
  <2>4. CASE ~(e <= k.acknowledged)
    <3>1. e > k.acknowledged
      BY <1>1, <2>1, <2>4
    <3>2. \A i \in DOMAIN k.applied : k.applied[i] # e
      BY <1>1, <2>1, <2>2, <3>1, NewUnknown
    <3> QED  BY <3>2 DEF Fits
  <2> QED  BY <2>3, <2>4
<1> QED  BY <1>2, <1>3 DEF Follows

LEMMA ConnectKeeps == LiveInv /\ Connect => LiveInv'
<1> SUFFICES ASSUME LiveInv, Connect PROVE LiveInv'
  OBVIOUS
<1>1. Typed /\ Accounted /\ Once
  BY DEF LiveInv
<1>2. PICK c \in Conns :
          /\ conns[c].at = "free" /\ client' = [client EXCEPT !.conn = c]
          /\ conns' = [conns EXCEPT ![c] = [FreeConn EXCEPT
                 !.at = "hello", !.inst = client.url, !.up = <<Hello>> \o Resent]]
  BY DEF Connect, Resent
<1>3. /\ sent' = sent /\ sessions' = sessions /\ draining' = draining /\ stale' = stale
      /\ unwelcomed' = unwelcomed
  BY DEF Connect
<1> DEFINE up == <<Hello>> \o Resent
           r == [FreeConn EXCEPT !.at = "hello", !.inst = client.url, !.up = up]
<1>4. /\ up \in Seq(Upward) /\ up # <<>> /\ Head(up) = Hello /\ Tail(up) = Resent
      /\ Resent \in Seq(EventFrames)
  <2>1. EventFrames \subseteq Upward
    BY DEF Upward
  <2> QED  BY <1>1, <2>1, ResentTyped, HelloTyped, Prepended
<1> HIDE DEF up
<1>5. client \in ClientState /\ client.url \in Instances /\ FreeConn \in Conn
  BY <1>1, TypedParts, FreeTyped DEF ClientState
<1>6. /\ r.at = "hello" /\ r.inst = client.url /\ r.up = up /\ r.frames = <<>> /\ r.session = None
      /\ r.snapshot = <<>> /\ r \in Conn
  BY <1>4, <1>5, FreeEmpty DEF Conn
<1> HIDE DEF r
<1>7. Shaped(r)
  BY <1>1, <1>4, <1>6, HelloTyped DEF Shaped, Serving
<1>8. conns' = [conns EXCEPT ![c] = r]
  BY <1>2 DEF r, up
<1>9. /\ conns' \in [Conns -> Conn] /\ \A d \in Conns : Shaped(conns'[d])
      /\ conns'[c] = r /\ \A d \in Conns : d # c => conns'[d] = conns[d]
  BY <1>1, <1>6, <1>7, <1>8, OneConn
<1>10. /\ client' \in ClientState /\ Contiguous(client', sent) /\ client'.acknowledged = client.acknowledged
       /\ client'.snapshot = client.snapshot
  BY <1>1, <1>2, <1>5 DEF ClientState, Contiguous, Typed
<1>11. Typed'
  BY <1>1, <1>3, <1>9, <1>10, TypedNext DEF Typed
<1>12. Accounted'
  <2>1. \A d \in Conns : Serves(conns[d], conns'[d])
    BY <1>2, <1>6, <1>9, SelfServes DEF Serves, Serving
  <2> QED  BY <1>1, <1>3, <1>11, <2>1, SelfStays, AccountedOn
<1>13. Once'
  <2> DEFINE a == client.acknowledged
  <2>1. Known(client.snapshot, 0, a, stale) /\ a \in Nat
    BY <1>1, TypedParts DEF Once
  <2>2. ASSUME NEW i \in DOMAIN Resent
        PROVE  Follows(Resent[i].sequence, Hello.session, Hello.snapshot, sessions, stale)
    <3>1. Resent[i].sequence > a /\ Resent[i].sequence \in Sent
      <4>1. Resent[i] \in EventFrames
        BY <1>4, LenProperties
      <4> QED  BY <1>1, <4>1, ResentTyped DEF EventFrames
    <3> QED  BY <1>1, <3>1, NewFollows, HelloTyped, TypedParts DEF Once
  <2>3. Carries(r, sessions, a, stale)
    BY <1>1, <1>4, <1>6, <2>1, <2>2, NothingKnown, HelloTyped DEF Carries
  <2> QED  BY <1>1, <1>3, <1>9, <1>10, <1>11, <2>1, <2>3, SelfStays, OnceStays
<1> QED  BY <1>11, <1>12, <1>13 DEF LiveInv

LEMMA SendOutboundKeeps == LiveInv /\ SendOutbound => LiveInv'
<1> SUFFICES ASSUME LiveInv, SendOutbound PROVE LiveInv'
  OBVIOUS
<1> DEFINE c == client.conn
           e == Head(client.outbound)
           a == client.acknowledged
<1>1. Typed /\ Accounted /\ Once
  BY DEF LiveInv
<1>2. /\ c # None /\ client.outbound # <<>>
      /\ client' = [client EXCEPT !.outbound = Tail(client.outbound)]
      /\ conns' = IF conns[c].at = "done" THEN conns
                  ELSE [conns EXCEPT ![c].up = Append(conns[c].up, Event(e))]
      /\ stale' = IF e <= a THEN stale \union {e} ELSE stale
      /\ sent' = sent /\ sessions' = sessions /\ draining' = draining /\ unwelcomed' = unwelcomed
  BY DEF SendOutbound
<1>3. /\ client \in ClientState /\ c \in Conns /\ client.outbound \in Seq(Sent) /\ a \in Nat /\ Sent \subseteq Events
      /\ client.snapshot \in Seq(Events)
  BY <1>1, <1>2, TypedParts DEF ClientState
<1>4. e \in Sent /\ e \in Events /\ Tail(client.outbound) \in Seq(Sent)
  BY <1>2, <1>3, Tailed
<1>5. /\ client' \in ClientState /\ Contiguous(client', sent) /\ client'.acknowledged = a
      /\ client'.snapshot = client.snapshot
  BY <1>1, <1>2, <1>3, <1>4 DEF ClientState, Contiguous, Typed
<1>6. stale' \subseteq Events /\ stale \subseteq stale'
  BY <1>1, <1>2, <1>4 DEF Typed
<1>7. e \in stale' \/ e > a
  BY <1>2, <1>3, <1>4, LiveTypes
<1>8. Known(client'.snapshot, 0, a, stale') /\ a <= a
  <2>1. Known(client.snapshot, 0, a, stale)
    BY <1>1 DEF Once
  <2> QED  BY <1>3, <1>5, <1>6, <2>1, KnownOn
<1> HIDE DEF e
<1>9. CASE conns[c].at = "done"
  <2>1. conns' = conns
    BY <1>2, <1>9
  <2>2. Typed'
    BY <1>1, <1>2, <1>5, <1>6, <2>1, TypedNext DEF Typed
  <2>3. Accounted'
    BY <1>1, <1>2, <2>1, <2>2, SelfStays, SelfServes, AccountedOn
  <2>4. Once'
    BY <1>1, <1>2, <1>5, <1>6, <1>8, <2>1, <2>2, SelfStays, OnceStays
  <2> QED  BY <2>2, <2>3, <2>4 DEF LiveInv
<1>10. CASE conns[c].at # "done"
  <2> DEFINE k == conns[c]
             up == Append(k.up, Event(e))
             r == [k EXCEPT !.up = up]
  <2>1. k \in Conn /\ Shaped(k) /\ k.up \in Seq(Upward)
    BY <1>1, <1>3, TypedParts
  <2>2. Event(e) \in EventFrames /\ Event(e).sequence = e /\ Event(e) \in Upward
    BY <1>4 DEF Event, EventFrames, Upward
  <2>3. up \in Seq(Upward) /\ up # <<>>
    BY <2>1, <2>2, Appended
  <2>4. k.at # "hello" => up \in Seq(EventFrames)
    BY <2>1, <2>2, Appended DEF Shaped
  <2>5. ASSUME k.at = "hello"
        PROVE  Head(up) = Head(k.up) /\ Tail(up) = Append(Tail(k.up), Event(e))
    <3>1. k.up \in Seq(Upward) /\ k.up # <<>>
      BY <2>1, <2>5 DEF Shaped
    <3> QED  BY <2>2, <3>1, HeadTailAppend
  <2>6. k.at = "hello" => up # <<>> /\ Head(up) \in Hellos /\ Tail(up) \in Seq(EventFrames)
    BY <2>1, <2>2, <2>3, <2>5, Appended DEF Shaped
  <2> HIDE DEF up
  <2>7. /\ r.at = k.at /\ r.inst = k.inst /\ r.up = up /\ r.frames = k.frames /\ r.session = k.session
        /\ r.snapshot = k.snapshot /\ r \in Conn
    BY <2>1, <2>3 DEF Conn
  <2>8. conns' = [conns EXCEPT ![c] = r]
    BY <1>2, <1>10 DEF up
  <2> HIDE DEF r
  <2>9. Shaped(r)
    BY <2>1, <2>4, <2>6, <2>7 DEF Shaped
  <2>10. /\ conns' \in [Conns -> Conn] /\ \A d \in Conns : Shaped(conns'[d])
         /\ conns'[c] = r /\ \A d \in Conns : d # c => conns'[d] = conns[d]
    BY <1>1, <1>3, <2>7, <2>8, <2>9, OneConn
  <2>11. Typed'
    BY <1>1, <1>2, <1>5, <1>6, <2>10, TypedNext DEF Typed
  <2>12. Accounted'
    <3>1. \A d \in Conns : Serves(conns[d], conns'[d])
      BY <2>7, <2>10 DEF Serves
    <3> QED  BY <1>1, <1>2, <2>11, <3>1, SelfStays, AccountedOn
  <2>13. Once'
    <3>1. Carries(k, sessions, a, stale')
      <4>1. \A s \in Ids : Stays(sessions[s], sessions'[s])
        BY <1>2, SelfStays
      <4>2. a <= client'.acknowledged
        BY <1>3, <1>5
      <4>3. Carries(conns[c], sessions', client'.acknowledged, stale')
        <5> HIDE DEF c
        <5> QED  BY <1>1, <1>3, <1>6, <2>11, <4>1, <4>2, CarriesStill
      <4> QED  BY <1>2, <1>5, <4>3
    <3>2. ASSUME NEW session, NEW snapshot \in Seq(Events), Known(snapshot, 0, a, stale)
          PROVE  Follows(e, session, snapshot, sessions, stale')
      <4>1. CASE e \in stale'
        BY <4>1 DEF Follows, Fits
      <4>2. CASE e \notin stale'
        <5>1. stale' = stale /\ e > a
          BY <1>2, <1>7, <4>2
        <5> QED  BY <1>1, <1>4, <3>2, <5>1, NewFollows
      <4> QED  BY <4>1, <4>2
    <3>3. /\ Known(k.snapshot, 0, a, stale) /\ k.snapshot \in Seq(Events)
          /\ k.at = "hello" => /\ Known(Head(k.up).snapshot, 0, a, stale)
                               /\ Head(k.up).snapshot \in Seq(Events)
      <4>1. Carries(k, sessions, a, stale) /\ k.snapshot \in Seq(Events)
        BY <1>1, <1>3, TypedParts DEF Once
      <4> QED  BY <2>1, <4>1 DEF Carries, Shaped, Hellos, States
    <3>4. ASSUME k.at = "hello"
          PROVE  \A i \in DOMAIN Tail(up) :
                     Follows(Tail(up)[i].sequence, Head(up).session, Head(up).snapshot, sessions, stale')
      <4>1. Head(up) = Head(k.up) /\ Tail(up) = Append(Tail(k.up), Event(e)) /\ Tail(k.up) \in Seq(EventFrames)
        BY <2>1, <2>5, <3>4 DEF up, Shaped
      <4>2. Follows(e, Head(k.up).session, Head(k.up).snapshot, sessions, stale')
        BY <3>2, <3>3, <3>4
      <4>3. \A i \in DOMAIN Tail(k.up) :
                Follows(Tail(k.up)[i].sequence, Head(k.up).session, Head(k.up).snapshot, sessions, stale')
        BY <3>1, <3>4 DEF Carries
      <4>4. \A i \in DOMAIN Append(Tail(k.up), Event(e)) :
                \/ i \in DOMAIN Tail(k.up) /\ Append(Tail(k.up), Event(e))[i] = Tail(k.up)[i]
                \/ Append(Tail(k.up), Event(e))[i] = Event(e)
        BY <2>2, <4>1, Appended
      <4> HIDE DEF k
      <4> QED  BY <2>2, <4>1, <4>2, <4>3, <4>4
    <3>5. ASSUME k.at # "hello"
          PROVE  \A i \in DOMAIN up :
                     Follows(up[i].sequence, k.session, IF k.at = "lookup" THEN k.snapshot ELSE <<>>, sessions, stale')
      <4>1. Follows(e, k.session, IF k.at = "lookup" THEN k.snapshot ELSE <<>>, sessions, stale')
        BY <3>2, <3>3, NothingKnown, EmptyTyped
      <4>2. \A i \in DOMAIN k.up :
                Follows(k.up[i].sequence, k.session, IF k.at = "lookup" THEN k.snapshot ELSE <<>>, sessions, stale')
        BY <3>1, <3>5 DEF Carries
      <4>3. \A i \in DOMAIN up : (i \in DOMAIN k.up /\ up[i] = k.up[i]) \/ up[i] = Event(e)
        BY <2>1, <2>2, Appended DEF up
      <4> HIDE DEF k
      <4> QED  BY <2>2, <4>1, <4>2, <4>3
    <3>6. Carries(r, sessions, a, stale')
      <4>1. /\ \A i \in DOMAIN r.frames : Reflects(r.frames[i], a, stale')
            /\ Known(r.snapshot, 0, a, stale')
            /\ k.at = "hello" => Known(Head(up).snapshot, 0, a, stale')
        BY <2>5, <2>7, <3>1 DEF Carries, up
      <4> HIDE DEF k
      <4> QED  BY <2>7, <3>4, <3>5, <4>1 DEF Carries
    <3> QED  BY <1>1, <1>2, <1>5, <1>6, <1>8, <2>10, <2>11, <3>6, SelfStays, OnceStays
  <2> QED  BY <2>11, <2>12, <2>13 DEF LiveInv
<1> QED  BY <1>9, <1>10

\* A frame taken off a connection.
LEMMA FrameTaken ==
    ASSUME Typed, NEW c \in Conns, conns[c].frames # <<>>, conns' = [conns EXCEPT ![c].frames = Tail(conns[c].frames)]
    PROVE  /\ conns' \in [Conns -> Conn] /\ \A d \in Conns : Shaped(conns'[d])
           /\ \A d \in Conns : Serves(conns[d], conns'[d]) /\ (d # c => conns'[d] = conns[d])
           /\ \A ses, a, S : Carries(conns[c], ses, a, S) => Carries(conns'[c], ses, a, S)
<1> DEFINE k == conns[c]
           frames == Tail(k.frames)
           r == [k EXCEPT !.frames = frames]
<1>1. k \in Conn /\ Shaped(k) /\ k.frames \in Seq(Downward)
  BY TypedParts
<1>2. /\ frames \in Seq(Downward)
      /\ \A i \in DOMAIN frames : i + 1 \in DOMAIN k.frames /\ frames[i] = k.frames[i + 1]
  BY <1>1, Tailed
<1> HIDE DEF frames
<1>3. /\ r.at = k.at /\ r.inst = k.inst /\ r.up = k.up /\ r.frames = frames /\ r.session = k.session
      /\ r.snapshot = k.snapshot /\ r \in Conn
  BY <1>1, <1>2 DEF Conn
<1>4. conns' = [conns EXCEPT ![c] = r]
  BY DEF frames
<1> HIDE DEF r
<1>5. Shaped(r)
  BY <1>1, <1>3 DEF Shaped
<1>6. /\ conns' \in [Conns -> Conn] /\ \A d \in Conns : Shaped(conns'[d])
      /\ conns'[c] = r /\ \A d \in Conns : d # c => conns'[d] = conns[d]
  BY <1>3, <1>4, <1>5, OneConn
<1>7. \A d \in Conns : Serves(conns[d], conns'[d])
  BY <1>3, <1>6 DEF Serves
<1>8. ASSUME NEW ses, NEW a, NEW S, Carries(k, ses, a, S) PROVE Carries(r, ses, a, S)
  <2>1. \A i \in DOMAIN r.frames : Reflects(r.frames[i], a, S)
    <3>1. \A i \in DOMAIN k.frames : Reflects(k.frames[i], a, S)
      BY <1>8 DEF Carries
    <3> HIDE DEF k
    <3> QED  BY <1>2, <1>3, <3>1
  <2> QED  BY <1>3, <1>8, <2>1, CarriesFrames
<1> QED  BY <1>6, <1>7, <1>8

\* A connection let go of.
LEMMA ConnLeft ==
    ASSUME Typed, NEW c \in Conns, conns' = [conns EXCEPT ![c] = Left(c)]
    PROVE  /\ conns' \in [Conns -> Conn] /\ \A d \in Conns : Shaped(conns'[d])
           /\ \A d \in Conns : Serves(conns[d], conns'[d]) /\ (d # c => conns'[d] = conns[d])
           /\ \A ses, a, S : Carries(conns[c], ses, a, S) => Carries(conns'[c], ses, a, S)
<1>1. /\ conns' \in [Conns -> Conn] /\ \A d \in Conns : Shaped(conns'[d])
      /\ conns'[c] = Left(c) /\ \A d \in Conns : d # c => conns'[d] = conns[d]
  BY LeftTyped, OneConn
<1> QED  BY <1>1, LeftServes, SelfServes, CarriesLeft

\* The client takes a step of its own, and a connection changes with it.
LEMMA ClientKeeps ==
    ASSUME LiveInv, NEW c \in Conns, sent' = sent, sessions' = sessions, draining' = draining, stale' = stale,
           unwelcomed' = unwelcomed, client' \in ClientState, Contiguous(client', sent),
           client.acknowledged <= client'.acknowledged,
           Known(client'.snapshot, 0, client'.acknowledged, stale),
           conns' \in [Conns -> Conn], \A d \in Conns : Shaped(conns'[d]),
           \A d \in Conns : Serves(conns[d], conns'[d]) /\ (d # c => conns'[d] = conns[d]),
           \A ses, a, S : Carries(conns[c], ses, a, S) => Carries(conns'[c], ses, a, S)
    PROVE  LiveInv'
<1>1. Typed /\ Accounted /\ Once
  BY DEF LiveInv
<1>2. Typed'
  BY <1>1, TypedNext DEF Typed
<1>3. Accounted'
  BY <1>1, <1>2, SelfStays, AccountedOn
<1>4. Once'
  <2>1. Carries(conns[c], sessions', client'.acknowledged, stale')
    BY <1>1, <1>2, SelfStays, CarriesStill
  <2> QED  BY <1>1, <1>2, <2>1, SelfStays, OnceStays
<1> QED  BY <1>2, <1>3, <1>4 DEF LiveInv

\* What a tree, or a drain, tells the client.
LEMMA TreeTaken ==
    ASSUME LiveInv, NEW f \in Trees, Reflects(f, client.acknowledged, stale), NEW state \in ClientState,
           state.acknowledged = client.acknowledged, state.unacknowledged = client.unacknowledged,
           state.snapshot = f.snapshot, client' = Acknowledge(state, f.acknowledged)
    PROVE  /\ client' \in ClientState /\ Contiguous(client', sent)
           /\ client.acknowledged <= client'.acknowledged
           /\ Known(client'.snapshot, 0, client'.acknowledged, stale)
<1>1. Typed /\ client.acknowledged \in Nat /\ sent \in Nat /\ Contiguous(client, sent)
  BY TypedParts DEF LiveInv, Typed
<1>2. f.acknowledged \in 0..sent /\ f.snapshot \in Seq(Events) /\ f.frame # "welcome"
  BY DEF Trees, States
<1>3. Contiguous(state, sent)
  BY <1>1 DEF Contiguous
<1>4. /\ client' \in ClientState /\ Contiguous(client', sent) /\ client'.snapshot = f.snapshot
      /\ client'.acknowledged = IF state.acknowledged >= f.acknowledged THEN state.acknowledged ELSE f.acknowledged
  BY <1>1, <1>2, <1>3, AcknowledgeTyped DEF ClientState, Sent
<1>5. /\ client.acknowledged <= client'.acknowledged /\ f.acknowledged <= client'.acknowledged
      /\ client'.acknowledged \in Nat /\ f.acknowledged \in Nat
  BY <1>1, <1>2, <1>4
<1>6. Known(f.snapshot, f.acknowledged, client.acknowledged, stale)
  BY <1>2 DEF Reflects
<1>7. Known(f.snapshot, 0, client'.acknowledged, stale)
  BY <1>1, <1>2, <1>5, <1>6, KnownOn
<1> QED  BY <1>4, <1>5, <1>7

LEMMA ReceiveKeeps == LiveInv /\ Receive => LiveInv'
<1> SUFFICES ASSUME LiveInv, Receive PROVE LiveInv'
  OBVIOUS
<1> DEFINE c == client.conn
           f == Head(conns[c].frames)
<1>1. Typed /\ client \in ClientState /\ Contiguous(client, sent) /\ client.acknowledged \in Nat
  BY TypedParts DEF LiveInv, Typed
<1>2. /\ c \in Conns /\ conns[c].frames # <<>> /\ conns[c].frames \in Seq(Downward)
      /\ sent' = sent /\ sessions' = sessions /\ draining' = draining /\ stale' = stale
      /\ unwelcomed' = unwelcomed
  BY <1>1, TypedParts DEF Receive, ClientState
<1>3. f \in Downward /\ Reflects(f, client.acknowledged, stale)
  <2>1. Carries(conns[c], sessions, client.acknowledged, stale)
    BY <1>2 DEF LiveInv, Once
  <2>2. f \in Downward /\ 1 \in DOMAIN conns[c].frames /\ f = conns[c].frames[1]
    BY <1>2, Tailed
  <2> QED  BY <2>1, <2>2 DEF Carries
<1>4. CASE f.frame = "welcome"
  <2>1. f \in Welcomes
    BY <1>3, <1>4 DEF Downward, Welcomes, Trees
  <2>2. client' = [client EXCEPT !.session = f.session] /\ f.session \in Ids
        /\ conns' = [conns EXCEPT ![c].frames = Tail(conns[c].frames)]
    BY <1>4, <2>1 DEF Receive, Welcomes
  <2> HIDE DEF f
  <2>3. /\ client' \in ClientState /\ client'.acknowledged = client.acknowledged
        /\ client'.snapshot = client.snapshot /\ client'.unacknowledged = client.unacknowledged
    BY <1>1, <2>2 DEF ClientState
  <2>4. /\ Contiguous(client', sent) /\ client.acknowledged <= client'.acknowledged
        /\ Known(client'.snapshot, 0, client'.acknowledged, stale)
    BY <1>1, <2>3 DEF Contiguous, LiveInv, Once
  <2>5. /\ conns' \in [Conns -> Conn] /\ \A d \in Conns : Shaped(conns'[d])
        /\ \A d \in Conns : Serves(conns[d], conns'[d]) /\ (d # c => conns'[d] = conns[d])
        /\ \A ses, a, S : Carries(conns[c], ses, a, S) => Carries(conns'[c], ses, a, S)
    BY <1>1, <1>2, <2>2, FrameTaken
  <2> QED  BY <1>2, <2>3, <2>4, <2>5, ClientKeeps
<1>5. CASE f.frame = "tree"
  <2> DEFINE state == [client EXCEPT !.snapshot = f.snapshot]
  <2>1. f \in Trees
    BY <1>3, <1>5 DEF Downward, Welcomes
  <2>2. client' = Acknowledge(state, f.acknowledged)
        /\ conns' = [conns EXCEPT ![c].frames = Tail(conns[c].frames)]
    BY <1>5 DEF Receive
  <2>3. /\ state \in ClientState /\ state.snapshot = f.snapshot /\ state.acknowledged = client.acknowledged
        /\ state.unacknowledged = client.unacknowledged
    BY <1>1, <2>1 DEF ClientState, Trees
  <2> HIDE DEF f, state
  <2>4. /\ client' \in ClientState /\ Contiguous(client', sent) /\ client.acknowledged <= client'.acknowledged
        /\ Known(client'.snapshot, 0, client'.acknowledged, stale)
    BY <1>3, <2>1, <2>2, <2>3, TreeTaken
  <2>5. /\ conns' \in [Conns -> Conn] /\ \A d \in Conns : Shaped(conns'[d])
        /\ \A d \in Conns : Serves(conns[d], conns'[d]) /\ (d # c => conns'[d] = conns[d])
        /\ \A ses, a, S : Carries(conns[c], ses, a, S) => Carries(conns'[c], ses, a, S)
    BY <1>1, <1>2, <2>2, FrameTaken
  <2> QED  BY <1>2, <2>4, <2>5, ClientKeeps
<1>6. CASE f.frame = "drain"
  <2> DEFINE state == [client EXCEPT !.snapshot = f.snapshot, !.session = None, !.conn = None, !.url = To]
  <2>1. f \in Trees
    BY <1>3, <1>6 DEF Downward, Welcomes
  <2>2. client' = Acknowledge(state, f.acknowledged) /\ conns' = [conns EXCEPT ![c] = Left(c)]
    BY <1>6 DEF Receive
  <2>3. /\ state \in ClientState /\ state.snapshot = f.snapshot /\ state.acknowledged = client.acknowledged
        /\ state.unacknowledged = client.unacknowledged
    BY <1>1, <2>1, LiveTypes DEF ClientState, Trees
  <2> HIDE DEF f, state
  <2>4. /\ client' \in ClientState /\ Contiguous(client', sent) /\ client.acknowledged <= client'.acknowledged
        /\ Known(client'.snapshot, 0, client'.acknowledged, stale)
    BY <1>3, <2>1, <2>2, <2>3, TreeTaken
  <2>5. /\ conns' \in [Conns -> Conn] /\ \A d \in Conns : Shaped(conns'[d])
        /\ \A d \in Conns : Serves(conns[d], conns'[d]) /\ (d # c => conns'[d] = conns[d])
        /\ \A ses, a, S : Carries(conns[c], ses, a, S) => Carries(conns'[c], ses, a, S)
    BY <1>1, <1>2, <2>2, ConnLeft
  <2> QED  BY <1>2, <2>4, <2>5, ClientKeeps
<1>7. f.frame \in {"welcome", "tree", "drain"}
  BY <1>3 DEF Downward, Welcomes, Trees
<1> QED  BY <1>4, <1>5, <1>6, <1>7

LEMMA DisconnectKeeps == LiveInv /\ (Disconnected \/ Break) => LiveInv'
<1> SUFFICES ASSUME LiveInv, Disconnected \/ Break PROVE LiveInv'
  OBVIOUS
<1> DEFINE c == client.conn
<1>1. Typed /\ client \in ClientState /\ Contiguous(client, sent) /\ client.acknowledged \in Nat
  BY TypedParts DEF LiveInv, Typed
<1>2. /\ c \in Conns /\ client' = [client EXCEPT !.conn = None]
      /\ conns' = [conns EXCEPT ![c] = Left(c)]
      /\ sent' = sent /\ sessions' = sessions /\ draining' = draining /\ stale' = stale
      /\ unwelcomed' = unwelcomed
  BY <1>1 DEF Disconnected, Break, ClientState
<1>3. /\ client' \in ClientState /\ client'.acknowledged = client.acknowledged
      /\ client'.snapshot = client.snapshot /\ client'.unacknowledged = client.unacknowledged
  BY <1>1, <1>2 DEF ClientState
<1>4. /\ Contiguous(client', sent) /\ client.acknowledged <= client'.acknowledged
      /\ Known(client'.snapshot, 0, client'.acknowledged, stale)
  BY <1>1, <1>3 DEF Contiguous, LiveInv, Once
<1>5. /\ conns' \in [Conns -> Conn] /\ \A d \in Conns : Shaped(conns'[d])
      /\ \A d \in Conns : Serves(conns[d], conns'[d]) /\ (d # c => conns'[d] = conns[d])
      /\ \A ses, a, S : Carries(conns[c], ses, a, S) => Carries(conns'[c], ses, a, S)
  BY <1>1, <1>2, ConnLeft
<1> QED  BY <1>2, <1>3, <1>4, <1>5, ClientKeeps

-----------------------------------------------------------------------------
(* Commands to sessions. *)

LEMMA AppendedCommand ==
    ASSUME Typed, NEW s \in Ids, NEW command \in Commanding
    PROVE  LET cs == Append(sessions[s].commands, command) IN
           /\ \A i \in DOMAIN sessions[s].commands : i \in DOMAIN cs /\ cs[i] = sessions[s].commands[i]
           /\ \A i \in DOMAIN cs : cs[i] = command \/ \E j \in DOMAIN sessions[s].commands : sessions[s].commands[j] = cs[i]
           /\ \E i \in DOMAIN cs : cs[i] = command
<1>1. sessions[s].commands \in Seq(Commanding)
  BY TypedParts
<1> DEFINE k == sessions[s].commands
           cs == Append(k, command)
<1>2. /\ \A i \in DOMAIN cs : (i \in DOMAIN k /\ cs[i] = k[i]) \/ (i \notin DOMAIN k /\ cs[i] = command)
      /\ \A i \in DOMAIN k : i \in DOMAIN cs /\ cs[i] = k[i]
      /\ \E i \in DOMAIN cs : cs[i] = command
  BY <1>1, Appended
<1> HIDE DEF k, cs
<1>3. \A i \in DOMAIN cs : cs[i] = command \/ \E j \in DOMAIN k : k[j] = cs[i]
  BY <1>2
<1> QED  BY <1>2, <1>3 DEF k, cs

LEMMA CommandedGoesOn ==
    ASSUME Typed, NEW s \in Ids, NEW command \in Commanding
    PROVE  /\ Continues(sessions[s], Commanded(s, command))
           /\ command[1] # "event" => Stays(sessions[s], Commanded(s, command))
<1> DEFINE k == sessions[s]
           l == Commanded(s, command)
<1>1. /\ l.home = k.home /\ l.mapped = k.mapped /\ l.detached_at = k.detached_at /\ l.alive = k.alive
      /\ l.applied = k.applied /\ l.acknowledged = k.acknowledged
      /\ l.commands = k.commands \/ l.commands = Append(k.commands, command)
  BY CommandedIs
<1>2. \A i \in DOMAIN k.commands : i \in DOMAIN l.commands /\ l.commands[i] = k.commands[i]
  BY <1>1, AppendedCommand
<1>3. \A i \in DOMAIN l.commands : l.commands[i] = command \/ \E j \in DOMAIN k.commands : k.commands[j] = l.commands[i]
  BY <1>1, AppendedCommand
<1> HIDE DEF k, l
<1>4. ToldToEnd(k) => ToldToEnd(l)
  BY <1>2 DEF ToldToEnd
<1>5. Continues(k, l)
  BY <1>1, <1>4 DEF Continues
<1>6. command[1] # "event" => Stays(k, l)
  BY <1>1, <1>3 DEF Stays
<1> QED  BY <1>5, <1>6 DEF k, l

\* Told to end, and out of the map.
LEMMA Dismissed ==
    ASSUME Typed, NEW s \in Ids, NEW command \in Ends
    PROVE  LET l == [Commanded(s, command) EXCEPT !.mapped = FALSE, !.detached_at = FALSE] IN
           l \in Session /\ Continues(sessions[s], l) /\ Stays(sessions[s], l)
<1> DEFINE k == sessions[s]
           m == Commanded(s, command)
           l == [m EXCEPT !.mapped = FALSE, !.detached_at = FALSE]
<1>1. command \in Commanding /\ command[1] # "event"
  BY CommandTypes DEF Ends
<1>2. /\ m \in Session /\ m.home = k.home /\ m.alive = k.alive
      /\ m.commands = IF k.alive THEN Append(k.commands, command) ELSE k.commands
  BY <1>1, CommandedIs
<1>3. Stays(k, m)
  BY <1>1, CommandedGoesOn
<1>4. k.alive => ToldToEnd(m)
  BY <1>1, <1>2, AppendedCommand DEF ToldToEnd
<1> HIDE DEF m, k
<1>5. /\ l \in Session /\ l.home = m.home /\ l.alive = m.alive /\ l.commands = m.commands
      /\ l.applied = m.applied /\ l.acknowledged = m.acknowledged /\ l.mapped = FALSE
  BY <1>2 DEF Session
<1> HIDE DEF l
<1>6. Continues(k, l)
  BY <1>2, <1>4, <1>5 DEF Continues, ToldToEnd
<1>7. Stays(k, l)
  BY <1>3, <1>5 DEF Stays
<1> QED  BY <1>5, <1>6, <1>7 DEF k, l, m

\* The server takes a step: the client stays as it is.
LEMMA ServerKeeps ==
    ASSUME LiveInv, sent' = sent, client' = client, stale' = stale, unwelcomed' = unwelcomed,
           draining' \in [Instances -> {"no", "flag", "done"}],
           conns' \in [Conns -> Conn], \A d \in Conns : Shaped(conns'[d]), sessions' \in [Ids -> Session],
           \A d \in Conns : Serves(conns[d], conns'[d]),
           \A s \in Ids : Continues(sessions[s], sessions'[s])
                          /\ (Stays(sessions[s], sessions'[s]) \/ Nothing(sessions'[s])),
           \A d \in Conns : Carries(conns[d], sessions', client.acknowledged, stale)
                              => Carries(conns'[d], sessions', client.acknowledged, stale)
    PROVE  LiveInv'
<1>1. Typed /\ Accounted /\ Once
  BY DEF LiveInv
<1>2. Typed'
  BY <1>1, TypedNext DEF Typed
<1>3. Accounted'
  BY <1>1, <1>2, AccountedOn
<1>4. client.acknowledged <= client'.acknowledged /\ Known(client'.snapshot, 0, client'.acknowledged, stale')
  BY <1>1, TypedParts DEF Once
<1>5. ASSUME NEW d \in Conns PROVE Carries(conns'[d], sessions', client'.acknowledged, stale')
  <2>1. Carries(conns[d], sessions', client'.acknowledged, stale')
    BY <1>1, <1>2, <1>4, CarriesStill
  <2> QED  BY <2>1
<1>6. Once'
  BY <1>1, <1>2, <1>4, <1>5, OnceStays
<1> QED  BY <1>2, <1>3, <1>6 DEF LiveInv

-----------------------------------------------------------------------------
(* The handlers. *)

LEMMA NoHelloKeeps == \A c \in Conns : LiveInv /\ NoHello(c) => LiveInv'
<1> SUFFICES ASSUME NEW c \in Conns, LiveInv, NoHello(c) PROVE LiveInv'
  OBVIOUS
<1>1. Typed
  BY DEF LiveInv
<1>2. /\ conns' = [conns EXCEPT ![c] = Ended(c)] /\ conns[c].at = "hello"
      /\ sent' = sent /\ client' = client /\ sessions' = sessions /\ draining' = draining /\ stale' = stale
      /\ unwelcomed' = unwelcomed
  BY DEF NoHello
<1>3. /\ conns' \in [Conns -> Conn] /\ \A d \in Conns : Shaped(conns'[d])
      /\ conns'[c] = Ended(c) /\ \A d \in Conns : d # c => conns'[d] = conns[d]
  BY <1>1, <1>2, EndedTyped, OneConn
<1>4. \A d \in Conns : Serves(conns[d], conns'[d])
  BY <1>1, <1>2, <1>3, EndedTyped, SelfServes DEF Serves, Serving
<1>5. \A d \in Conns : Carries(conns[d], sessions', client.acknowledged, stale)
                         => Carries(conns'[d], sessions', client.acknowledged, stale)
  BY <1>1, <1>3, CarriesEnded
<1> QED  BY <1>1, <1>2, <1>3, <1>4, <1>5, SelfStays, ServerKeeps DEF Typed

\* The sessions reap stops go on, out of the map; the others stay.
LEMMA ReapedStays ==
    ASSUME Typed, NEW expired \in SUBSET Ids, sessions' = Reaped(expired)
    PROVE  /\ sessions' \in [Ids -> Session]
           /\ \A s \in Ids : Continues(sessions[s], sessions'[s]) /\ Stays(sessions[s], sessions'[s])
<1>1. ASSUME NEW s \in Ids
      PROVE  /\ sessions'[s] \in Session /\ Continues(sessions[s], sessions'[s])
             /\ Stays(sessions[s], sessions'[s])
  <2>1. CASE s \in expired
    <3>1. sessions'[s] = [Commanded(s, <<"stop">>) EXCEPT !.mapped = FALSE, !.detached_at = FALSE]
      BY <2>1 DEF Reaped
    <3> QED  BY <3>1, Dismissed DEF Ends
  <2>2. CASE s \notin expired
    <3>1. sessions'[s] = sessions[s]
      BY <2>2 DEF Reaped
    <3> QED  BY <3>1, SelfStays, TypedParts
  <2> QED  BY <2>1, <2>2
<1>2. sessions' \in [Ids -> Session]
  BY <1>1 DEF Reaped
<1> QED  BY <1>1, <1>2

LEMMA ReapKeeps == \A i \in Instances : LiveInv /\ Reap(i) => LiveInv'
<1> SUFFICES ASSUME NEW i \in Instances, LiveInv, Reap(i) PROVE LiveInv'
  OBVIOUS
<1>1. Typed
  BY DEF LiveInv
<1>2. PICK expired \in SUBSET Ids : sessions' = Reaped(expired)
  BY DEF Reap, Reapable
<1>3. /\ sent' = sent /\ client' = client /\ conns' = conns /\ stale' = stale /\ unwelcomed' = unwelcomed
      /\ draining' = draining
  BY DEF Reap
<1> QED  BY <1>1, <1>2, <1>3, ReapedStays, SelfServes, ServerKeeps DEF Typed

LEMMA GreetKeeps == \A c \in Conns : LiveInv /\ Greet(c) => LiveInv'
<1> SUFFICES ASSUME NEW c \in Conns, LiveInv, Greet(c) PROVE LiveInv'
  OBVIOUS
<1> DEFINE k == conns[c]
           hello == Head(k.up)
           rest == Tail(k.up)
           on == [k EXCEPT !.at = "lookup", !.up = rest, !.session = hello.session, !.snapshot = hello.snapshot]
           told == <<DrainFrame(hello.snapshot, 0)>>
           away == IF k.gone THEN Ended(c) ELSE [Ended(c) EXCEPT !.frames = told]
           r == IF draining[k.inst] = "no" THEN on ELSE away
<1>1. Typed /\ sent \in Nat
  BY TypedParts DEF LiveInv
<1>2. k.at = "hello"
  BY DEF Greet
<1>3. PICK expired \in SUBSET Ids : sessions' = Reaped(expired)
  BY DEF Greet, Reapable
<1>4. /\ conns' = [conns EXCEPT ![c] = r]
      /\ sent' = sent /\ client' = client /\ draining' = draining /\ stale' = stale
      /\ unwelcomed' = unwelcomed
  <2>1. /\ sent' = sent /\ client' = client /\ draining' = draining /\ stale' = stale
        /\ unwelcomed' = unwelcomed
    BY DEF Greet
  <2>2. conns' = [conns EXCEPT ![c] = r]
    BY DEF Greet
  <2> QED  BY <2>1, <2>2
<1>5. \A s \in Ids : Continues(sessions[s], sessions'[s]) /\ Stays(sessions[s], sessions'[s])
  BY <1>1, <1>3, ReapedStays
<1>6. sessions' \in [Ids -> Session]
  BY <1>1, <1>3, ReapedStays
<1>7. k \in Conn /\ hello \in Hellos /\ rest \in Seq(EventFrames) /\ rest \in Seq(Upward)
  <2>1. k \in Conn /\ hello \in Hellos /\ rest \in Seq(EventFrames)
    BY <1>1, <1>2, TypedParts DEF Shaped
  <2> QED  BY <2>1, SeqMonotonic DEF Upward
<1> HIDE DEF hello, rest
<1>8. /\ on \in Conn /\ on.at = "lookup" /\ on.up = rest /\ on.session = hello.session
      /\ on.snapshot = hello.snapshot /\ on.frames = k.frames
  BY <1>7 DEF Conn, Hellos
<1>9. /\ told \in Seq(Downward) /\ DOMAIN told = {1}
      /\ told[1].frame = "drain" /\ told[1].snapshot = hello.snapshot /\ told[1].acknowledged = 0
  BY <1>1, <1>7 DEF DrainFrame, Downward, Trees, Hellos
<1> HIDE DEF on, told
<1>10. /\ away \in Conn /\ away.at \in {"free", "done"} /\ away.up = <<>> /\ away.session = None
       /\ away.snapshot = <<>> /\ away.frames \in {<<>>, k.frames, told}
  BY <1>1, <1>9, EndedTyped DEF Conn
<1> HIDE DEF away
<1>11. r \in Conn /\ Shaped(r) /\ Serves(k, r)
  BY <1>2, <1>7, <1>8, <1>10, EmptyTyped DEF Shaped, Serves, Serving
<1>12. ASSUME NEW a, Carries(k, sessions', a, stale) PROVE Carries(r, sessions', a, stale)
  <2>1. /\ Known(hello.snapshot, 0, a, stale)
        /\ \A i \in DOMAIN rest : Follows(rest[i].sequence, hello.session, hello.snapshot, sessions', stale)
        /\ \A i \in DOMAIN k.frames : Reflects(k.frames[i], a, stale)
    BY <1>2, <1>12 DEF Carries, hello, rest
  <2>2. \A i \in DOMAIN told : Reflects(told[i], a, stale)
    BY <1>9, <2>1 DEF Reflects
  <2>3. Carries(on, sessions', a, stale)
    <3> HIDE DEF k
    <3> QED  BY <1>8, <2>1 DEF Carries
  <2>4. Carries(away, sessions', a, stale)
    <3>1. \A i \in DOMAIN away.frames : Reflects(away.frames[i], a, stale)
      BY <1>10, <2>1, <2>2
    <3> QED  BY <1>10, <3>1, CarriesNothing
  <2> QED  BY <2>3, <2>4
<1> HIDE DEF r, k
<1>13. /\ conns' \in [Conns -> Conn] /\ \A d \in Conns : Shaped(conns'[d])
       /\ conns'[c] = r /\ \A d \in Conns : d # c => conns'[d] = conns[d]
  BY <1>1, <1>4, <1>11, OneConn
<1>14. \A d \in Conns : Serves(conns[d], conns'[d])
  BY <1>11, <1>13, SelfServes DEF k
<1>15. \A d \in Conns : Carries(conns[d], sessions', client.acknowledged, stale)
                          => Carries(conns'[d], sessions', client.acknowledged, stale)
  BY <1>12, <1>13 DEF k
<1> QED  BY <1>1, <1>4, <1>5, <1>6, <1>13, <1>14, <1>15, ServerKeeps DEF Typed

\* A session nobody refers to is not named by what travels.
LEMMA ForgottenUnnamed ==
    ASSUME Typed, NEW n \in Ids, Forgotten(n), NEW c \in Conns
    PROVE  Unnamed(conns[c], n)
<1>1. ASSUME conns[c].at = "hello" PROVE Head(conns[c].up).session # n
  <2>1. conns[c].up \in Seq(Upward) /\ conns[c].up # <<>> /\ Head(conns[c].up) \in Hellos
    BY <1>1, TypedParts DEF Shaped
  <2>2. 1 \in DOMAIN conns[c].up /\ Head(conns[c].up) = conns[c].up[1]
    BY <2>1, Tailed
  <2>3. conns[c].up[1].frame = "hello"
    BY <2>1, <2>2 DEF Hellos
  <2> QED  BY <2>2, <2>3 DEF Forgotten
<1> QED  BY <1>1 DEF Forgotten, Unnamed

LEMMA LookupKeeps == \A c \in Conns : LiveInv /\ Lookup(c) => LiveInv'
<1> SUFFICES ASSUME NEW c \in Conns, LiveInv, Lookup(c) PROVE LiveInv'
  OBVIOUS
<1> DEFINE k == conns[c]
           a == client.acknowledged
<1>1. Typed /\ Accounted /\ Once
  BY DEF LiveInv
<1>2. /\ k.at = "lookup" /\ sent' = sent /\ client' = client /\ draining' = draining /\ stale' = stale
  BY DEF Lookup
<1>3. k \in Conn /\ k.snapshot \in Seq(Events) /\ a \in Nat /\ sent \in Nat /\ k.up \in Seq(EventFrames)
  BY <1>1, <1>2, TypedParts DEF Shaped
<1>4. /\ \A i \in DOMAIN k.frames : Reflects(k.frames[i], a, stale)
      /\ Known(k.snapshot, 0, a, stale)
      /\ \A i \in DOMAIN k.up : Follows(k.up[i].sequence, k.session, k.snapshot, sessions, stale)
  BY <1>1, <1>2 DEF Once, Carries
<1>5. Known(client'.snapshot, 0, client'.acknowledged, stale') /\ client.acknowledged <= client'.acknowledged
      /\ client' \in ClientState /\ Contiguous(client', sent)
  BY <1>1, <1>2, <1>3 DEF Once, Typed
<1>6. CASE k.session # None /\ sessions[k.session].mapped /\ sessions[k.session].home = k.inst
  <2> DEFINE r == [k EXCEPT !.at = "attach", !.snapshot = <<>>]
  <2>1. conns' = [conns EXCEPT ![c] = r] /\ sessions' = sessions /\ unwelcomed' = unwelcomed
    BY <1>6 DEF Lookup
  <2>2. /\ r \in Conn /\ r.at = "attach" /\ r.snapshot = <<>> /\ r.up = k.up /\ r.frames = k.frames
        /\ r.session = k.session /\ r.inst = k.inst /\ k.session \in Ids
    BY <1>3, <1>6, EmptyTyped DEF Conn, States
  <2> HIDE DEF r
  <2>3. Shaped(r)
    BY <1>3, <2>2 DEF Shaped
  <2>4. /\ conns' \in [Conns -> Conn] /\ \A d \in Conns : Shaped(conns'[d])
        /\ conns'[c] = r /\ \A d \in Conns : d # c => conns'[d] = conns[d]
    BY <1>1, <2>1, <2>2, <2>3, OneConn
  <2>5. Typed'
    BY <1>1, <1>2, <1>5, <2>1, <2>4, TypedNext DEF Typed
  <2>6. Accounted'
    <3>1. ASSUME NEW d \in Conns, conns'[d].at \in Serving, sessions'[conns'[d].session].alive
          PROVE  sessions'[conns'[d].session].home = conns'[d].inst
      <4>1. CASE d = c
        BY <1>6, <2>1, <2>2, <2>4, <4>1
      <4>2. CASE d # c
        BY <1>1, <2>1, <2>4, <3>1, <4>2, SelfServes, SelfStays, HomedOn
      <4> QED  BY <4>1, <4>2
    <3>2. ASSUME NEW s \in Ids PROVE Kept(sessions'[s], conns', unwelcomed', s)
      <4>1. Served(conns, s) => Served(conns', s)
        <5>1. \A d \in Conns : conns[d].at \in Serving => conns'[d] = conns[d]
          BY <1>2, <2>4 DEF Serving
        <5> QED  BY <5>1, ServedOn
      <4>2. Kept(sessions[s], conns, unwelcomed, s)
        BY <1>1 DEF Accounted
      <4> QED  BY <2>1, <4>1, <4>2 DEF Kept
    <3> QED  BY <3>1, <3>2 DEF Accounted, Homed
  <2>7. Once'
    <3>1. Carries(r, sessions, a, stale)
      <4>1. \A i \in DOMAIN r.up : Fits(r.up[i].sequence, sessions[r.session], stale)
        <5> HIDE DEF k
        <5> QED  BY <1>4, <2>2 DEF Follows
      <4> QED  BY <1>4, <2>2, <4>1, CarriesEvents
    <3> QED  BY <1>1, <1>2, <1>5, <2>1, <2>4, <2>5, <3>1, SelfStays, OnceStays
  <2> QED  BY <2>5, <2>6, <2>7 DEF LiveInv
<1>7. CASE ~(k.session # None /\ sessions[k.session].mapped /\ sessions[k.session].home = k.inst)
  <2> DEFINE q == [NoSession EXCEPT !.home = k.inst, !.mapped = TRUE, !.alive = TRUE, !.applied = k.snapshot]
  <2>1. PICK n \in Ids :
            /\ Forgotten(n) /\ sessions' = [sessions EXCEPT ![n] = q]
            /\ conns' = [conns EXCEPT ![c].at = "attach", ![c].session = n, ![c].snapshot = <<>>]
            /\ unwelcomed' = unwelcomed \ {n}
    BY <1>7 DEF Lookup
  <2> DEFINE r == [k EXCEPT !.at = "attach", !.session = n, !.snapshot = <<>>]
  <2>2. conns' = [conns EXCEPT ![c] = r]
    BY <2>1
  <2>3. /\ r \in Conn /\ r.at = "attach" /\ r.snapshot = <<>> /\ r.up = k.up /\ r.frames = k.frames
        /\ r.session = n /\ r.inst = k.inst
    BY <1>3, EmptyTyped DEF Conn, States
  <2>4. /\ q \in Session /\ q.home = k.inst /\ q.applied = k.snapshot /\ q.acknowledged = 0
        /\ q.commands = <<>>
    <3>1. NoSession \in Session /\ k.inst \in Instances /\ NoSession.acknowledged = 0 /\ NoSession.commands = <<>>
      BY <1>3, FreeTyped DEF NoSession, Conn
    <3> QED  BY <1>3, <3>1 DEF Session, States
  <2> HIDE DEF r, q
  <2>5. Shaped(r)
    BY <1>3, <2>3 DEF Shaped
  <2>6. /\ conns' \in [Conns -> Conn] /\ \A d \in Conns : Shaped(conns'[d])
        /\ conns'[c] = r /\ \A d \in Conns : d # c => conns'[d] = conns[d]
    BY <1>1, <2>2, <2>3, <2>5, OneConn
  <2>7. /\ sessions' \in [Ids -> Session]
        /\ sessions'[n] = q /\ \A s \in Ids : s # n => sessions'[s] = sessions[s]
    BY <1>1, <2>1, <2>4, OneSession
  <2>8. Typed'
    BY <1>1, <1>2, <1>5, <2>6, <2>7, TypedNext DEF Typed
  <2>9. \A d \in Conns : Unnamed(conns[d], n)
    BY <1>1, <2>1, ForgottenUnnamed
  <2>10. Accounted'
    <3>1. ASSUME NEW d \in Conns, conns'[d].at \in Serving, sessions'[conns'[d].session].alive
          PROVE  sessions'[conns'[d].session].home = conns'[d].inst
      <4>1. CASE d = c
        BY <2>3, <2>4, <2>6, <2>7, <4>1
      <4>2. CASE d # c
        <5>1. conns'[d] = conns[d] /\ conns[d].session # n
          BY <2>6, <2>9, <4>2 DEF Unnamed
        <5> QED  BY <1>1, <2>7, <3>1, <5>1, SelfServes, SelfStays, HomedOn
      <4> QED  BY <4>1, <4>2
    <3>2. ASSUME NEW s \in Ids PROVE Kept(sessions'[s], conns', unwelcomed', s)
      <4>1. CASE s = n
        <5>1. Served(conns', s) /\ q.mapped = TRUE
          BY <2>3, <2>6, <4>1 DEF Served, Serving, q, NoSession
        <5> QED  BY <2>7, <4>1, <5>1 DEF Kept
      <4>2. CASE s # n
        <5>1. Served(conns, s) => Served(conns', s)
          <6>1. \A d \in Conns : conns[d].at \in Serving => conns'[d] = conns[d]
            BY <1>2, <2>6 DEF Serving
          <6> QED  BY <6>1, ServedOn
        <5>2. Kept(sessions[s], conns, unwelcomed, s)
          BY <1>1 DEF Accounted
        <5> QED  BY <2>1, <2>7, <4>2, <5>1, <5>2 DEF Kept
      <4> QED  BY <4>1, <4>2
    <3> QED  BY <3>1, <3>2 DEF Accounted, Homed
  <2>11. Once'
    <3>1. Carries(r, sessions', a, stale)
      <4>1. \A i \in DOMAIN r.up : Fits(r.up[i].sequence, q, stale)
        <5> HIDE DEF k
        <5> QED  BY <1>4, <2>3, <2>4 DEF Follows, Fits
      <4> QED  BY <1>4, <2>3, <2>7, <4>1, CarriesEvents
    <3>2. ASSUME NEW s \in Ids
          PROVE  /\ Applied(sessions'[s], a, stale)
                 /\ Fit(sessions[s], sessions'[s], stale, stale) \/ \A d \in Conns : Unnamed(conns[d], s)
      <4>1. CASE s = n
        BY <1>4, <2>4, <2>7, <2>9, <4>1 DEF Applied
      <4>2. CASE s # n
        BY <1>1, <2>7, <4>2 DEF Once, Fit
      <4> QED  BY <4>1, <4>2
    <3> QED  BY <1>1, <1>2, <1>5, <2>6, <2>8, <3>1, <3>2, OnceOn
  <2> QED  BY <2>8, <2>10, <2>11 DEF LiveInv
<1> QED  BY <1>6, <1>7

\* The frames a handler is to send, with one more.
LEMMA FramesMore ==
    ASSUME Typed, NEW c \in Conns, NEW f \in Downward
    PROVE  LET fs == IF conns[c].gone THEN conns[c].frames ELSE Append(conns[c].frames, f) IN
           /\ fs \in Seq(Downward)
           /\ \A a, S : Reflects(f, a, S) /\ (\A i \in DOMAIN conns[c].frames : Reflects(conns[c].frames[i], a, S))
                            => \A i \in DOMAIN fs : Reflects(fs[i], a, S)
<1> DEFINE frames == conns[c].frames
           more == Append(frames, f)
<1>1. frames \in Seq(Downward)
  BY TypedParts
<1>2. /\ more \in Seq(Downward)
      /\ \A i \in DOMAIN more : (i \in DOMAIN frames /\ more[i] = frames[i]) \/ more[i] = f
  BY <1>1, Appended
<1> HIDE DEF more
<1>3. \A a, S : Reflects(f, a, S) /\ (\A i \in DOMAIN frames : Reflects(frames[i], a, S))
                    => \A i \in DOMAIN more : Reflects(more[i], a, S)
  BY <1>2
<1> QED  BY <1>1, <1>2, <1>3 DEF more

LEMMA AttachKeeps == \A c \in Conns : LiveInv /\ Attach(c) => LiveInv'
<1> SUFFICES ASSUME NEW c \in Conns, LiveInv, Attach(c) PROVE LiveInv'
  OBVIOUS
<1> DEFINE k == conns[c]
           a == client.acknowledged
           s == k.session
           l(frames) == [Commanded(s, <<"attach", frames>>) EXCEPT !.detached_at = FALSE]
           fs == IF k.gone THEN k.frames ELSE Append(k.frames, Welcome(s))
           open == [k EXCEPT !.at = "open", !.frames = fs]
<1>1. Typed /\ Accounted /\ Once
  BY DEF LiveInv
<1>2. /\ k.at = "attach" /\ sent' = sent /\ client' = client /\ draining' = draining /\ stale' = stale
  BY DEF Attach
<1>3. k \in Conn /\ a \in Nat /\ sent \in Nat /\ k.up \in Seq(EventFrames) /\ s \in Ids
  BY <1>1, <1>2, TypedParts DEF Shaped, Serving
<1>4. PICK frames \in {c, Closed} :
          /\ sessions' = [sessions EXCEPT ![s] = l(frames)]
          /\ \/ conns' = [conns EXCEPT ![c] = open] /\ unwelcomed' = unwelcomed
             \/ conns' = [conns EXCEPT ![c] = Ended(c)] /\ unwelcomed' = unwelcomed \union {s}
  <2>1. CASE /\ conns' = [conns EXCEPT ![c].at = "open",
                                       ![c].frames = IF conns[c].gone THEN conns[c].frames
                                                     ELSE Append(conns[c].frames, Welcome(s))]
             /\ sessions' = [sessions EXCEPT ![s] = l(c)] /\ unwelcomed' = unwelcomed
    <3>1. conns' = [conns EXCEPT ![c] = open]
      BY <2>1
    <3> HIDE DEF open, l
    <3> QED  BY <2>1, <3>1
  <2>2. CASE /\ conns' = [conns EXCEPT ![c] = Ended(c)]
             /\ sessions' = [sessions EXCEPT ![s] = l(Closed)] /\ unwelcomed' = unwelcomed \union {s}
    <3> HIDE DEF open, l
    <3> QED  BY <2>2
  <2> QED  BY <2>1, <2>2 DEF Attach
<1> DEFINE m == Commanded(s, <<"attach", frames>>)
           q == l(frames)
<1>5. /\ m \in Session /\ m.home = sessions[s].home /\ m.mapped = sessions[s].mapped
      /\ m.alive = sessions[s].alive /\ m.applied = sessions[s].applied
      /\ m.acknowledged = sessions[s].acknowledged
      /\ Continues(sessions[s], m) /\ Stays(sessions[s], m)
  <2>1. <<"attach", frames>> \in Commanding /\ <<"attach", frames>>[1] # "event"
    BY CommandTypes
  <2> QED  BY <1>1, <1>3, <2>1, CommandedIs, CommandedGoesOn
<1> HIDE DEF m
<1>6. /\ q \in Session /\ q.home = m.home /\ q.mapped = m.mapped /\ q.alive = m.alive
      /\ q.applied = m.applied /\ q.acknowledged = m.acknowledged /\ q.commands = m.commands
  BY <1>5 DEF Session, m
<1> HIDE DEF q, l
<1>7. Stays(sessions[s], q) /\ (sessions[s].alive /\ ToldToEnd(sessions[s]) => ToldToEnd(q) \/ m.mapped # sessions[s].mapped)
  <2>1. Stays(sessions[s], q)
    BY <1>5, <1>6 DEF Stays
  <2>2. sessions[s].alive /\ ToldToEnd(sessions[s]) => ToldToEnd(m)
    BY <1>5 DEF Continues
  <2> QED  BY <1>6, <2>1, <2>2 DEF ToldToEnd
<1>8. sessions' \in [Ids -> Session] /\ sessions'[s] = q /\ \A x \in Ids : x # s => sessions'[x] = sessions[x]
  BY <1>1, <1>3, <1>4, <1>6, OneSession DEF q
<1>9. /\ Welcome(s) \in Downward /\ \A S : Reflects(Welcome(s), a, S)
  BY <1>3 DEF Welcome, Downward, Welcomes, Reflects
<1>10. /\ fs \in Seq(Downward)
       /\ (\A i \in DOMAIN k.frames : Reflects(k.frames[i], a, stale)) => \A i \in DOMAIN fs : Reflects(fs[i], a, stale)
  BY <1>1, <1>9, FramesMore
<1> HIDE DEF fs
<1>11. /\ open \in Conn /\ open.at = "open" /\ open.up = k.up /\ open.session = s /\ open.inst = k.inst
       /\ open.snapshot = k.snapshot /\ open.frames = fs
  BY <1>3, <1>10 DEF Conn
<1> HIDE DEF open
<1>12. Shaped(open)
  BY <1>3, <1>11 DEF Shaped
<1>13. PICK r \in {open, Ended(c)} :
           /\ conns' = [conns EXCEPT ![c] = r]
           /\ r = open \/ s \in unwelcomed'
           /\ unwelcomed \subseteq unwelcomed'
  <2> HIDE DEF k, s
  <2> QED  BY <1>4
<1>14. /\ conns' \in [Conns -> Conn] /\ \A d \in Conns : Shaped(conns'[d])
       /\ conns'[c] = r /\ \A d \in Conns : d # c => conns'[d] = conns[d]
  BY <1>1, <1>11, <1>12, <1>13, EndedTyped, OneConn
<1>15. Typed'
  BY <1>1, <1>2, <1>8, <1>14, TypedNext DEF Typed
<1>16. Accounted'
  <2>1. ASSUME NEW d \in Conns, conns'[d].at \in Serving, sessions'[conns'[d].session].alive
        PROVE  sessions'[conns'[d].session].home = conns'[d].inst
    <3>1. conns[d].at \in Serving /\ conns[d].session = conns'[d].session /\ conns[d].inst = conns'[d].inst
          /\ conns[d].session \in Ids
      <4>1. CASE d = c
        BY <1>1, <1>2, <1>3, <1>11, <1>13, <1>14, <2>1, <4>1, EndedTyped DEF Serving
      <4>2. CASE d # c
        BY <1>1, <1>14, <2>1, <4>2 DEF Typed, Shaped
      <4> QED  BY <4>1, <4>2
    <3>2. sessions[conns[d].session].alive /\ sessions'[conns[d].session].home = sessions[conns[d].session].home
      BY <1>5, <1>6, <1>8, <2>1, <3>1
    <3> QED  BY <1>1, <3>1, <3>2 DEF Accounted, Homed
  <2>2. ASSUME NEW x \in Ids PROVE Kept(sessions'[x], conns', unwelcomed', x)
    <3>1. Kept(sessions[x], conns, unwelcomed, x)
      BY <1>1 DEF Accounted
    <3>2. CASE x = s
      <4>1. Served(conns', s) \/ s \in unwelcomed'
        BY <1>11, <1>13, <1>14 DEF Served, Serving
      <4> HIDE DEF k, s
      <4> QED  BY <1>5, <1>6, <1>7, <1>8, <3>1, <3>2, <4>1 DEF Kept, ToldToEnd
    <3>3. CASE x # s
      <4>1. Served(conns, x) => Served(conns', x)
        <5>1. \A d \in Conns : conns[d].session = x => conns'[d] = conns[d]
          BY <1>14, <3>3
        <5> QED  BY <5>1, ServedOn
      <4> QED  BY <1>8, <1>13, <3>1, <3>3, <4>1 DEF Kept
    <3> QED  BY <3>2, <3>3
  <2> QED  BY <2>1, <2>2 DEF Accounted, Homed
<1>17. Once'
  <2>1. \A x \in Ids : Stays(sessions[x], sessions'[x])
    BY <1>7, <1>8, SelfStays
  <2>2. client.acknowledged <= client'.acknowledged /\ Known(client'.snapshot, 0, client'.acknowledged, stale')
    BY <1>1, <1>2, <1>3 DEF Once
  <2>3. Carries(conns[c], sessions', client'.acknowledged, stale')
    BY <1>1, <1>2, <1>15, <2>1, <2>2, CarriesStill
  <2>4. Carries(k, sessions', a, stale)
    BY <1>2, <2>3
  <2>5. Carries(open, sessions', a, stale)
    <3>1. \A i \in DOMAIN open.frames : Reflects(open.frames[i], a, stale)
      BY <1>10, <1>11, <2>4 DEF Carries
    <3>2. open.at # "hello" /\ k.at # "hello" /\ open.at # "lookup" /\ k.at # "lookup"
      BY <1>2, <1>11
    <3> HIDE DEF k
    <3> QED  BY <1>11, <2>4, <3>1, <3>2 DEF Carries, s
  <2>6. Carries(r, sessions', a, stale)
    BY <1>1, <1>13, <2>4, <2>5, CarriesEnded
  <2> QED  BY <1>1, <1>2, <1>14, <1>15, <2>1, <2>2, <2>6, OnceStays
<1> QED  BY <1>15, <1>16, <1>17 DEF LiveInv

LEMMA ForwardKeeps == \A c \in Conns : LiveInv /\ Forward(c) => LiveInv'
<1> SUFFICES ASSUME NEW c \in Conns, LiveInv, Forward(c) PROVE LiveInv'
  OBVIOUS
<1> DEFINE k == conns[c]
           a == client.acknowledged
           s == k.session
           e == Head(k.up).sequence
           rest == Tail(k.up)
           q == Commanded(s, <<"event", e>>)
           r == [k EXCEPT !.up = rest]
<1>1. Typed /\ Accounted /\ Once
  BY DEF LiveInv
<1>2. /\ k.at = "open" /\ k.up # <<>> /\ conns' = [conns EXCEPT ![c] = r] /\ sessions' = [sessions EXCEPT ![s] = q]
      /\ sent' = sent /\ client' = client /\ draining' = draining /\ stale' = stale /\ unwelcomed' = unwelcomed
  BY DEF Forward
<1>3. k \in Conn /\ a \in Nat /\ sent \in Nat /\ k.up \in Seq(EventFrames) /\ s \in Ids
  BY <1>1, <1>2, TypedParts DEF Shaped, Serving
<1>4. /\ Head(k.up) \in EventFrames /\ rest \in Seq(EventFrames) /\ 1 \in DOMAIN k.up /\ Head(k.up) = k.up[1]
      /\ \A i \in DOMAIN rest : i + 1 \in DOMAIN k.up /\ rest[i] = k.up[i + 1]
  BY <1>2, <1>3, Tailed
<1>5. e \in Sent /\ rest \in Seq(Upward)
  <2>1. e \in Sent
    BY <1>4 DEF EventFrames
  <2>2. EventFrames \subseteq Upward
    BY DEF Upward
  <2> QED  BY <1>4, <2>1, <2>2, SeqMonotonic
<1>6. /\ \A i \in DOMAIN k.frames : Reflects(k.frames[i], a, stale)
      /\ Known(k.snapshot, 0, a, stale)
      /\ \A i \in DOMAIN k.up : Follows(k.up[i].sequence, s, <<>>, sessions, stale)
  BY <1>1, <1>2 DEF Once, Carries
<1>7. /\ Fits(e, sessions[s], stale)
      /\ \A i \in DOMAIN rest : Follows(rest[i].sequence, s, <<>>, sessions, stale)
  <2> HIDE DEF k, rest, s
  <2> QED  BY <1>3, <1>4, <1>6 DEF Follows
<1>8. /\ q \in Session /\ q.applied = sessions[s].applied /\ q.acknowledged = sessions[s].acknowledged
      /\ Continues(sessions[s], q) /\ Fit(sessions[s], q, stale, stale) /\ Applied(q, a, stale)
  <2> DEFINE cs == Append(sessions[s].commands, <<"event", e>>)
  <2>1. <<"event", e>> \in Commanding
    BY <1>5, CommandTypes
  <2>2. /\ q \in Session /\ q.applied = sessions[s].applied /\ q.acknowledged = sessions[s].acknowledged
        /\ q.commands = IF sessions[s].alive THEN cs ELSE sessions[s].commands
        /\ Continues(sessions[s], q)
    BY <1>1, <1>3, <2>1, CommandedIs, CommandedGoesOn
  <2>3. \A i \in DOMAIN cs : cs[i] = <<"event", e>> \/ \E j \in DOMAIN sessions[s].commands : sessions[s].commands[j] = cs[i]
    BY <1>1, <1>3, <2>1, AppendedCommand
  <2>4. Applied(sessions[s], a, stale)
    BY <1>1, <1>3 DEF Once
  <2> HIDE DEF q, cs, e, s
  <2>5. Applied(q, a, stale)
    BY <1>7, <2>2, <2>3, <2>4 DEF Applied, Fits
  <2> QED  BY <2>2, <2>5 DEF Fit, Fits
<1>9. sessions' \in [Ids -> Session] /\ sessions'[s] = q /\ \A x \in Ids : x # s => sessions'[x] = sessions[x]
  BY <1>1, <1>2, <1>3, <1>8, OneSession
<1> HIDE DEF e, rest, q
<1>10. /\ r \in Conn /\ r.at = "open" /\ r.up = rest /\ r.session = s /\ r.inst = k.inst
       /\ r.snapshot = k.snapshot /\ r.frames = k.frames
  BY <1>2, <1>3, <1>5 DEF Conn
<1> HIDE DEF r
<1>11. Shaped(r)
  BY <1>3, <1>4, <1>10 DEF Shaped
<1>12. /\ conns' \in [Conns -> Conn] /\ \A d \in Conns : Shaped(conns'[d])
       /\ conns'[c] = r /\ \A d \in Conns : d # c => conns'[d] = conns[d]
  BY <1>1, <1>2, <1>10, <1>11, OneConn
<1>13. Typed'
  BY <1>1, <1>2, <1>9, <1>12, TypedNext DEF Typed
<1>14. Accounted'
  <2>1. \A d \in Conns : Serves(conns[d], conns'[d])
    BY <1>2, <1>10, <1>12 DEF Serves
  <2>2. \A x \in Ids : Continues(sessions[x], sessions'[x])
    BY <1>8, <1>9, SelfStays
  <2> QED  BY <1>1, <1>2, <1>13, <2>1, <2>2, AccountedOn
<1>15. Once'
  <2>1. client.acknowledged <= client'.acknowledged /\ Known(client'.snapshot, 0, client'.acknowledged, stale')
    BY <1>1, <1>2, <1>3 DEF Once
  <2>2. \A x \in Ids : Applied(sessions'[x], a, stale) /\ Fit(sessions[x], sessions'[x], stale, stale)
    BY <1>1, <1>8, <1>9 DEF Once, Fit
  <2>3. \A i \in DOMAIN rest : Follows(rest[i].sequence, s, <<>>, sessions', stale)
    <3> HIDE DEF s
    <3> QED  BY <1>3, <1>7, <1>8, <1>9 DEF Follows, Fits
  <2>4. Carries(r, sessions', a, stale)
    <3> HIDE DEF k
    <3> QED  BY <1>6, <1>10, <2>3 DEF Carries
  <2> QED  BY <1>1, <1>2, <1>12, <1>13, <2>1, <2>2, <2>4, OnceOn
<1> QED  BY <1>13, <1>14, <1>15 DEF LiveInv

LEMMA CloseKeeps == \A c \in Conns : LiveInv /\ Close(c) => LiveInv'
<1> SUFFICES ASSUME NEW c \in Conns, LiveInv, Close(c) PROVE LiveInv'
  OBVIOUS
<1> DEFINE k == conns[c]
           s == k.session
           q == Commanded(s, <<"detach">>)
           r == [k EXCEPT !.at = "mark"]
<1>1. Typed
  BY DEF LiveInv
<1>2. /\ k.at = "open" /\ conns' = [conns EXCEPT ![c] = r] /\ sessions' = [sessions EXCEPT ![s] = q]
      /\ sent' = sent /\ client' = client /\ draining' = draining /\ stale' = stale /\ unwelcomed' = unwelcomed
  BY DEF Close
<1>3. k \in Conn /\ k.up \in Seq(EventFrames) /\ s \in Ids
  BY <1>1, <1>2, TypedParts DEF Shaped, Serving
<1>4. q \in Session /\ Continues(sessions[s], q) /\ Stays(sessions[s], q)
  <2>1. <<"detach">> \in Commanding /\ <<"detach">>[1] # "event"
    BY CommandTypes
  <2> QED  BY <1>1, <1>3, <2>1, CommandedIs, CommandedGoesOn
<1>5. sessions' \in [Ids -> Session] /\ sessions'[s] = q /\ \A x \in Ids : x # s => sessions'[x] = sessions[x]
  BY <1>1, <1>2, <1>3, <1>4, OneSession
<1>6. /\ r \in Conn /\ r.at = "mark" /\ r.up = k.up /\ r.session = s /\ r.inst = k.inst
      /\ r.snapshot = k.snapshot /\ r.frames = k.frames
  BY <1>3 DEF Conn
<1> HIDE DEF r, q
<1>7. Shaped(r)
  BY <1>3, <1>6 DEF Shaped
<1>8. /\ conns' \in [Conns -> Conn] /\ \A d \in Conns : Shaped(conns'[d])
      /\ conns'[c] = r /\ \A d \in Conns : d # c => conns'[d] = conns[d]
  BY <1>1, <1>2, <1>6, <1>7, OneConn
<1>9. \A d \in Conns : Serves(conns[d], conns'[d])
  BY <1>2, <1>6, <1>8, SelfServes DEF Serves, Serving
<1>10. \A x \in Ids : Continues(sessions[x], sessions'[x]) /\ Stays(sessions[x], sessions'[x])
  BY <1>4, <1>5, SelfStays
<1>11. \A ses, a, S : Carries(k, ses, a, S) => Carries(r, ses, a, S)
  <2>1. k.at # "hello" /\ r.at # "hello" /\ k.at # "lookup" /\ r.at # "lookup"
    BY <1>2, <1>6
  <2> SUFFICES ASSUME NEW ses, NEW a, NEW S, Carries(k, ses, a, S) PROVE Carries(r, ses, a, S)
    OBVIOUS
  <2> HIDE DEF k
  <2> QED  BY <1>6, <2>1 DEF Carries, s
<1>12. \A d \in Conns : Carries(conns[d], sessions', client.acknowledged, stale)
                          => Carries(conns'[d], sessions', client.acknowledged, stale)
  BY <1>8, <1>11
<1> QED  BY <1>1, <1>2, <1>5, <1>8, <1>9, <1>10, <1>12, ServerKeeps DEF Typed

LEMMA MarkDetachedKeeps == \A c \in Conns : LiveInv /\ MarkDetached(c) => LiveInv'
<1> SUFFICES ASSUME NEW c \in Conns, LiveInv, MarkDetached(c) PROVE LiveInv'
  OBVIOUS
<1> DEFINE k == conns[c]
           a == client.acknowledged
           s == k.session
           all == IF Marks(s) THEN [sessions EXCEPT ![s].detached_at = TRUE] ELSE sessions
<1>1. Typed /\ Accounted /\ Once
  BY DEF LiveInv
<1>2. /\ k.at = "mark" /\ conns' = [conns EXCEPT ![c] = Ended(c)] /\ sessions' = ReceiverDropped(c, all)
      /\ sent' = sent /\ client' = client /\ draining' = draining /\ stale' = stale /\ unwelcomed' = unwelcomed
  BY DEF MarkDetached
<1>3. k \in Conn /\ s \in Ids /\ a \in Nat
  BY <1>1, <1>2, TypedParts DEF Shaped, Serving
<1>4. /\ all \in [Ids -> Session] /\ all[s].mapped = sessions[s].mapped
      /\ sessions[s].mapped => all[s].detached_at
      /\ \A x \in Ids : /\ all[x].home = sessions[x].home /\ all[x].mapped = sessions[x].mapped
                        /\ all[x].alive = sessions[x].alive /\ all[x].applied = sessions[x].applied
                        /\ all[x].acknowledged = sessions[x].acknowledged
                        /\ all[x].commands = sessions[x].commands
                        /\ sessions[x].detached_at => all[x].detached_at
  <2>1. \A x \in Ids : sessions[x] \in Session
    BY <1>1, TypedParts
  <2>2. sessions \in [Ids -> Session]
    BY <1>1 DEF Typed
  <2>3. CASE ~sessions[s].mapped
    BY <1>3, <2>2, <2>3 DEF Marks
  <2>4. CASE sessions[s].mapped
    <3> DEFINE q == [sessions[s] EXCEPT !.detached_at = TRUE]
    <3>1. /\ q \in Session /\ q.home = sessions[s].home /\ q.mapped = sessions[s].mapped
          /\ q.alive = sessions[s].alive /\ q.applied = sessions[s].applied
          /\ q.acknowledged = sessions[s].acknowledged /\ q.commands = sessions[s].commands
          /\ q.detached_at
      BY <1>3, <2>1 DEF Session
    <3>2. all = [sessions EXCEPT ![s] = q]
      BY <2>4 DEF Marks
    <3> HIDE DEF q, all, s
    <3>3. all \in [Ids -> Session] /\ all[s] = q /\ \A x \in Ids : x # s => all[x] = sessions[x]
      BY <1>3, <2>2, <3>1, <3>2
    <3> QED  BY <3>1, <3>3
  <2> QED  BY <2>3, <2>4
<1> HIDE DEF all
<1>5. /\ sessions' \in [Ids -> Session]
      /\ \A x \in Ids :
             /\ sessions'[x].home = all[x].home /\ sessions'[x].mapped = all[x].mapped
             /\ sessions'[x].detached_at = all[x].detached_at /\ sessions'[x].alive = all[x].alive
             /\ sessions'[x].applied = all[x].applied /\ sessions'[x].acknowledged = all[x].acknowledged
             /\ DOMAIN sessions'[x].commands = DOMAIN all[x].commands
             /\ \A i \in DOMAIN all[x].commands :
                    \/ sessions'[x].commands[i] = all[x].commands[i]
                    \/ all[x].commands[i] = <<"attach", c>> /\ sessions'[x].commands[i] = <<"attach", Closed>>
  BY <1>2, <1>4, ReceiverDroppedIs
<1>6. ASSUME NEW x \in Ids PROVE Continues(sessions[x], sessions'[x]) /\ Stays(sessions[x], sessions'[x])
  <2> DEFINE p == sessions[x]
             q == sessions'[x]
  <2>1. /\ q.home = p.home /\ q.mapped = p.mapped /\ q.alive = p.alive /\ (p.detached_at => q.detached_at)
        /\ q.applied = p.applied /\ q.acknowledged = p.acknowledged
        /\ DOMAIN q.commands = DOMAIN p.commands
        /\ \A i \in DOMAIN p.commands :
               \/ q.commands[i] = p.commands[i]
               \/ p.commands[i] = <<"attach", c>> /\ q.commands[i] = <<"attach", Closed>>
    BY <1>4, <1>5
  <2>2. <<"attach", c>> \notin Ends /\ <<"attach", Closed>>[1] # "event"
    BY DEF Ends
  <2> HIDE DEF p, q
  <2>3. ToldToEnd(p) => ToldToEnd(q)
    BY <2>1, <2>2 DEF ToldToEnd
  <2>4. Stays(p, q)
    BY <2>1, <2>2 DEF Stays
  <2> QED  BY <2>1, <2>3, <2>4 DEF Continues, p, q
<1>7. /\ conns' \in [Conns -> Conn] /\ \A d \in Conns : Shaped(conns'[d])
      /\ conns'[c] = Ended(c) /\ \A d \in Conns : d # c => conns'[d] = conns[d]
  BY <1>1, <1>2, EndedTyped, OneConn
<1>8. Typed'
  BY <1>1, <1>2, <1>5, <1>7, TypedNext DEF Typed
<1>9. Accounted'
  <2>1. ASSUME NEW d \in Conns, conns'[d].at \in Serving, sessions'[conns'[d].session].alive
        PROVE  sessions'[conns'[d].session].home = conns'[d].inst
    <3>1. d # c
      BY <1>1, <1>7, <2>1, EndedTyped DEF Serving
    <3> QED  BY <1>1, <1>6, <1>7, <2>1, <3>1, SelfServes, HomedOn
  <2>2. ASSUME NEW x \in Ids PROVE Kept(sessions'[x], conns', unwelcomed', x)
    <3>1. Kept(sessions[x], conns, unwelcomed, x) /\ Continues(sessions[x], sessions'[x])
          /\ sessions'[x].mapped = sessions[x].mapped
      BY <1>1, <1>4, <1>5, <1>6 DEF Accounted
    <3>2. CASE x = s
      <4>1. sessions'[x].mapped => sessions'[x].detached_at
        BY <1>4, <1>5, <3>2
      <4> QED  BY <3>1, <4>1 DEF Kept, Continues, ToldToEnd
    <3>3. CASE x # s
      <4>1. Served(conns, x) => Served(conns', x)
        <5>1. \A d \in Conns : conns[d].session = x => conns'[d] = conns[d]
          BY <1>7, <3>3
        <5> QED  BY <5>1, ServedOn
      <4>2. sessions[x] \in Session /\ sessions'[x] \in Session
        BY <1>1, <1>5, TypedParts
      <4>3. sessions[x].alive \in BOOLEAN /\ sessions[x].mapped \in BOOLEAN /\ sessions'[x].mapped \in BOOLEAN
        BY <4>2 DEF Session
      <4> QED  BY <1>2, <3>1, <4>1, <4>3, KeptOn
    <3> QED  BY <3>2, <3>3
  <2> QED  BY <2>1, <2>2 DEF Accounted, Homed
<1>10. Once'
  <2>1. client.acknowledged <= client'.acknowledged /\ Known(client'.snapshot, 0, client'.acknowledged, stale')
    BY <1>1, <1>2, <1>3 DEF Once
  <2>2. Carries(conns[c], sessions', client'.acknowledged, stale')
    BY <1>1, <1>2, <1>6, <1>8, <2>1, CarriesStill
  <2>3. Carries(Ended(c), sessions', client'.acknowledged, stale')
    BY <1>1, <2>2, CarriesEnded
  <2> QED  BY <1>1, <1>2, <1>6, <1>7, <1>8, <2>1, <2>3, OnceStays
<1> QED  BY <1>8, <1>9, <1>10 DEF LiveInv

-----------------------------------------------------------------------------
(* The sessions. *)

\* A session sends a frame.
LEMMA FrameSent ==
    ASSUME Typed, NEW c \in Conns, NEW f \in Downward,
           conns' = [conns EXCEPT ![c].frames = IF conns[c].gone THEN conns[c].frames
                                                ELSE Append(conns[c].frames, f)]
    PROVE  /\ conns' \in [Conns -> Conn] /\ \A d \in Conns : Shaped(conns'[d])
           /\ \A d \in Conns : Serves(conns[d], conns'[d])
           /\ \A ses, a, S : Reflects(f, a, S) =>
                  \A d \in Conns : Carries(conns[d], ses, a, S) => Carries(conns'[d], ses, a, S)
<1> DEFINE k == conns[c]
           fs == IF k.gone THEN k.frames ELSE Append(k.frames, f)
           r == [k EXCEPT !.frames = fs]
<1>1. k \in Conn /\ Shaped(k)
  BY TypedParts
<1>2. /\ fs \in Seq(Downward)
      /\ \A a, S : Reflects(f, a, S) /\ (\A i \in DOMAIN k.frames : Reflects(k.frames[i], a, S))
                       => \A i \in DOMAIN fs : Reflects(fs[i], a, S)
  BY FramesMore
<1> HIDE DEF fs
<1>3. /\ r \in Conn /\ r.at = k.at /\ r.up = k.up /\ r.session = k.session /\ r.inst = k.inst
      /\ r.snapshot = k.snapshot /\ r.frames = fs
  BY <1>1, <1>2 DEF Conn
<1>4. conns' = [conns EXCEPT ![c] = r]
  BY DEF fs
<1> HIDE DEF r
<1>5. Shaped(r)
  BY <1>1, <1>3 DEF Shaped
<1>6. /\ conns' \in [Conns -> Conn] /\ \A d \in Conns : Shaped(conns'[d])
      /\ conns'[c] = r /\ \A d \in Conns : d # c => conns'[d] = conns[d]
  BY <1>3, <1>4, <1>5, OneConn
<1>7. \A d \in Conns : Serves(conns[d], conns'[d])
  BY <1>3, <1>6 DEF Serves
<1>8. ASSUME NEW ses, NEW a, NEW S, Reflects(f, a, S), Carries(k, ses, a, S) PROVE Carries(r, ses, a, S)
  <2>1. \A i \in DOMAIN r.frames : Reflects(r.frames[i], a, S)
    BY <1>2, <1>3, <1>8 DEF Carries
  <2> HIDE DEF k
  <2> QED  BY <1>3, <1>8, <2>1, CarriesFrames
<1> QED  BY <1>6, <1>7, <1>8

\* What a command is.
LEMMA CommandForms ==
    ASSUME NEW command \in Commanding
    PROVE  /\ command[1] \in {"event", "attach", "detach", "stop", "drain"}
           /\ command[1] = "event" => command[2] \in Sent
           /\ command[1] = "attach" => command[2] \in Conns \union {Closed}
           /\ command[1] \notin {"drain", "stop"} => command \notin Ends
BY DEF Commanding, Ends

LEMMA AfterCommandIs ==
    ASSUME Typed, NEW s \in Ids, sessions[s].alive, sessions[s].commands # <<>>,
           Head(sessions[s].commands)[1] \notin {"drain", "stop"}
    PROVE  LET k == sessions[s]  command == Head(k.commands)  next == AfterCommand(s) IN
           /\ next \in Session /\ next.home = k.home /\ next.mapped = k.mapped
           /\ next.detached_at = k.detached_at /\ next.alive = k.alive /\ next.commands = Tail(k.commands)
           /\ \/ next.applied = k.applied /\ next.acknowledged = k.acknowledged
              \/ /\ command[1] = "event" /\ command[2] > k.acknowledged /\ command[2] \in Sent
                 /\ next.applied = Append(k.applied, command[2]) /\ next.acknowledged = command[2]
<1> DEFINE k == sessions[s]
           command == Head(k.commands)
           next == AfterCommand(s)
           rest == [k EXCEPT !.commands = Tail(k.commands)]
<1>1. k \in Session /\ k.commands \in Seq(Commanding) /\ k.applied \in Seq(Events) /\ sent \in Nat /\ Sent \subseteq Events
  BY TypedParts
<1>2. command \in Commanding /\ Tail(k.commands) \in Seq(Commanding)
  BY <1>1, Tailed
<1>3. /\ command[1] \in {"event", "attach", "detach"}
      /\ command[1] = "event" => command[2] \in Sent
      /\ command[1] = "attach" => command[2] \in Conns \union {Closed}
  BY <1>2, CommandForms
<1>4. /\ rest \in Session /\ rest.home = k.home /\ rest.mapped = k.mapped
      /\ rest.detached_at = k.detached_at /\ rest.alive = k.alive /\ rest.commands = Tail(k.commands)
      /\ rest.applied = k.applied /\ rest.acknowledged = k.acknowledged
  BY <1>1, <1>2 DEF Session
<1>5. CASE command[1] = "event" /\ command[2] > k.acknowledged
  <2> DEFINE more == Append(k.applied, command[2])
  <2>1. next = [rest EXCEPT !.applied = Append(rest.applied, command[2]), !.acknowledged = command[2]]
    BY <1>5 DEF AfterCommand, Fresh
  <2>2. more \in Seq(Events) /\ command[2] \in Sent /\ command[2] \in 0..sent
    <3>1. command[2] \in Sent /\ command[2] \in Events
      BY <1>1, <1>3, <1>5
    <3> HIDE DEF k, command
    <3>2. Append(k.applied, command[2]) \in Seq(Events)
      BY <1>1, <3>1, Appended
    <3> QED  BY <1>1, <3>1, <3>2 DEF Sent
  <2> HIDE DEF rest, next, command, more
  <2>3. /\ next \in Session /\ next.home = rest.home /\ next.mapped = rest.mapped
        /\ next.detached_at = rest.detached_at /\ next.alive = rest.alive /\ next.commands = rest.commands
        /\ next.applied = more /\ next.acknowledged = command[2]
    BY <1>4, <2>1, <2>2 DEF Session, States, more
  <2> QED  BY <1>4, <1>5, <2>2, <2>3 DEF rest, next, command, more
<1>6. CASE command[1] = "event" /\ ~(command[2] > k.acknowledged)
  <2>1. next = rest
    BY <1>6 DEF AfterCommand, Fresh
  <2> HIDE DEF rest, next
  <2> QED  BY <1>4, <2>1 DEF next
<1>7. CASE command[1] = "attach"
  <2>1. next = [rest EXCEPT !.outbound = command[2], !.last = NoView] /\ command[2] \in Conns \union {Closed}
    BY <1>3, <1>7 DEF AfterCommand
  <2> HIDE DEF rest, next, command
  <2>2. /\ next \in Session /\ next.home = rest.home /\ next.mapped = rest.mapped
        /\ next.detached_at = rest.detached_at /\ next.alive = rest.alive /\ next.commands = rest.commands
        /\ next.applied = rest.applied /\ next.acknowledged = rest.acknowledged
    BY <1>4, <2>1 DEF Session, Views
  <2> QED  BY <1>4, <2>2 DEF next
<1>8. CASE command[1] = "detach"
  <2>1. next = [rest EXCEPT !.outbound = None]
    BY <1>8 DEF AfterCommand
  <2> HIDE DEF rest, next, command
  <2>2. /\ next \in Session /\ next.home = rest.home /\ next.mapped = rest.mapped
        /\ next.detached_at = rest.detached_at /\ next.alive = rest.alive /\ next.commands = rest.commands
        /\ next.applied = rest.applied /\ next.acknowledged = rest.acknowledged
    BY <1>4, <2>1 DEF Session
  <2> QED  BY <1>4, <2>2 DEF next
<1> QED  BY <1>3, <1>5, <1>6, <1>7, <1>8

\* A new event is applied, once.
LEMMA NewApplied ==
    ASSUME NEW k, NEW q, NEW e \in Events, NEW a \in Nat, NEW S, k.applied \in Seq(Events), k.acknowledged \in Nat,
           e > k.acknowledged, Fits(e, k, S), Known(k.applied, k.acknowledged, a, S),
           q.applied = Append(k.applied, e), q.acknowledged = e
    PROVE  Fit(k, q, S, S) /\ Known(q.applied, q.acknowledged, a, S)
<1> DEFINE x == k.applied
           y == Append(x, e)
<1>1. e \in Nat
  BY LiveTypes
<1>2. /\ \A i \in DOMAIN y : (i \in DOMAIN x /\ y[i] = x[i]) \/ (i \notin DOMAIN x /\ y[i] = e)
      /\ \A i, j \in DOMAIN y : i < j => i \in DOMAIN x
  BY Appended
<1>3. \A i \in DOMAIN x : x[i] \in Nat
  <2>1. DOMAIN x = 1..Len(x) /\ \A i \in 1..Len(x) : x[i] \in Events
    BY LenProperties
  <2> QED  BY <2>1, LiveTypes
<1> HIDE DEF y, x
<1>4. Fit(k, q, S, S)
  <2> SUFFICES ASSUME NEW f \in Events, Fits(f, k, S) PROVE Fits(f, q, S)
    BY DEF Fit
  <2>1. f \in Nat
    BY LiveTypes
  <2>2. CASE f \in S
    BY <2>2 DEF Fits
  <2>3. CASE f <= k.acknowledged
    BY <1>1, <2>1, <2>3 DEF Fits
  <2>4. CASE \A i \in DOMAIN x : x[i] # f
    <3>1. CASE f = e
      BY <1>1, <3>1 DEF Fits
    <3>2. CASE f # e
      BY <1>2, <2>4, <3>2 DEF Fits, y, x
    <3> QED  BY <3>1, <3>2
  <2> QED  BY <2>2, <2>3, <2>4 DEF Fits, x
<1>5. Known(y, e, a, S)
  <2>1. \A i \in DOMAIN x : x[i] <= k.acknowledged \/ x[i] <= a
    BY DEF Known, x
  <2>2. ASSUME NEW i \in DOMAIN y PROVE y[i] <= e \/ y[i] <= a
    BY <1>1, <1>2, <1>3, <2>1
  <2>3. ASSUME NEW i \in DOMAIN y, NEW j \in DOMAIN y, i < j, y[i] = y[j] PROVE y[i] \in S
    <3>1. i \in DOMAIN x /\ y[i] = x[i]
      BY <1>2, <2>3
    <3>2. CASE j \in DOMAIN x
      BY <1>2, <2>3, <3>1, <3>2 DEF Known, x
    <3>3. CASE j \notin DOMAIN x
      <4>1. x[i] = e
        BY <1>2, <2>3, <3>1, <3>3
      <4>2. ~(e <= k.acknowledged)
        BY <1>1
      <4> QED  BY <3>1, <4>1, <4>2 DEF Fits, x
    <3> QED  BY <3>2, <3>3
  <2> QED  BY <2>2, <2>3 DEF Known
<1> QED  BY <1>4, <1>5 DEF y, x

LEMMA TurnKeeps == \A s \in Ids : LiveInv /\ Turn(s) => LiveInv'
<1> SUFFICES ASSUME NEW s \in Ids, LiveInv, Turn(s) PROVE LiveInv'
  OBVIOUS
<1> DEFINE a == client.acknowledged
           k == sessions[s]
           command == Head(k.commands)
           rest == Tail(k.commands)
           next == AfterCommand(s)
           changed == next.last # View(next.applied)
           out == IF changed /\ next.outbound = Closed THEN None ELSE next.outbound
           last == IF changed /\ out # None THEN View(next.applied) ELSE next.last
           q == [next EXCEPT !.outbound = out, !.last = last]
           tree == Tree(next.applied, next.acknowledged)
<1>1. Typed /\ Accounted /\ Once
  BY DEF LiveInv
<1>2. /\ k.alive /\ k.commands # <<>> /\ command[1] \notin {"drain", "stop"}
      /\ sessions' = [sessions EXCEPT ![s] = q]
      /\ sent' = sent /\ client' = client /\ draining' = draining /\ stale' = stale /\ unwelcomed' = unwelcomed
  BY DEF Turn, Commands
<1>3. conns' = IF changed /\ out \in Conns
                 THEN [conns EXCEPT ![out].frames = IF conns[out].gone THEN conns[out].frames
                                                    ELSE Append(conns[out].frames, tree)]
                 ELSE conns
  BY DEF Turn
<1>4. /\ k \in Session /\ k.commands \in Seq(Commanding) /\ k.applied \in Seq(Events) /\ k.acknowledged \in Nat
      /\ a \in Nat /\ sent \in Nat /\ Sent \subseteq Events
  BY <1>1, TypedParts
<1>5. /\ command \in Commanding /\ 1 \in DOMAIN k.commands /\ command = k.commands[1]
      /\ \A i \in DOMAIN rest : i + 1 \in DOMAIN k.commands /\ rest[i] = k.commands[i + 1]
      /\ \A i \in DOMAIN k.commands : i = 1 \/ (i - 1 \in DOMAIN rest /\ rest[i - 1] = k.commands[i])
  BY <1>2, <1>4, Tailed
<1>6. /\ next \in Session /\ next.home = k.home /\ next.mapped = k.mapped
      /\ next.detached_at = k.detached_at /\ next.alive = k.alive /\ next.commands = rest
      /\ \/ next.applied = k.applied /\ next.acknowledged = k.acknowledged
         \/ /\ command[1] = "event" /\ command[2] > k.acknowledged /\ command[2] \in Sent
            /\ next.applied = Append(k.applied, command[2]) /\ next.acknowledged = command[2]
  BY <1>1, <1>2, AfterCommandIs
<1>7. command \notin Ends
  BY <1>2, <1>5, CommandForms
<1> HIDE DEF next
<1>8. /\ out \in Conns \union {None, Closed} /\ last \in Views
      /\ next.applied \in States /\ next.acknowledged \in 0..sent
  BY <1>6 DEF Session, Views
<1>9. tree \in Downward /\ tree.frame # "welcome" /\ tree.snapshot = next.applied /\ tree.acknowledged = next.acknowledged
  BY <1>8 DEF Tree, Downward, Trees
<1> HIDE DEF out, last, changed, tree
<1>10. /\ q \in Session /\ q.home = next.home /\ q.mapped = next.mapped /\ q.detached_at = next.detached_at
       /\ q.alive = next.alive /\ q.commands = next.commands /\ q.applied = next.applied
       /\ q.acknowledged = next.acknowledged
  BY <1>6, <1>8 DEF Session
<1>11. sessions' \in [Ids -> Session] /\ sessions'[s] = q /\ \A x \in Ids : x # s => sessions'[x] = sessions[x]
  BY <1>1, <1>2, <1>10, OneSession
<1> HIDE DEF q
<1>12. Continues(k, q)
  <2> HIDE DEF k, rest, command
  <2>1. ToldToEnd(k) => ToldToEnd(q)
    BY <1>5, <1>6, <1>7, <1>10 DEF ToldToEnd
  <2> QED  BY <1>6, <1>10, <2>1 DEF Continues
<1>13. Applied(k, a, stale)
  BY <1>1 DEF Once
<1>14. Fits(command[2], k, stale) \/ command[1] # "event"
  <2> HIDE DEF k, rest, command
  <2> QED  BY <1>5, <1>13 DEF Applied
<1>15. Fit(k, q, stale, stale) /\ Known(q.applied, q.acknowledged, a, stale)
  <2>1. CASE next.applied = k.applied /\ next.acknowledged = k.acknowledged
    <3> HIDE DEF k
    <3> QED  BY <1>10, <1>13, <2>1 DEF Fit, Fits, Applied
  <2>2. CASE /\ command[1] = "event" /\ command[2] > k.acknowledged /\ command[2] \in Sent
             /\ next.applied = Append(k.applied, command[2]) /\ next.acknowledged = command[2]
    <3>1. Known(k.applied, k.acknowledged, a, stale)
      BY <1>13 DEF Applied
    <3> HIDE DEF k, command
    <3> QED  BY <1>4, <1>10, <1>14, <2>2, <3>1, NewApplied
  <2> QED  BY <1>6, <2>1, <2>2
<1>16. Applied(q, a, stale)
  <2>1. ASSUME NEW i \in DOMAIN q.commands, q.commands[i][1] = "event"
        PROVE  Fits(q.commands[i][2], q, stale)
    <3> DEFINE j == i + 1
    <3>1. j \in DOMAIN k.commands /\ q.commands[i] = k.commands[j]
      BY <1>5, <1>6, <1>10, <2>1
    <3>2. k.commands[j] \in Commanding
      BY <1>4, <3>1, LenProperties
    <3>3. k.commands[j][2] \in Events /\ k.commands[j][1] = "event"
      BY <1>4, <2>1, <3>1, <3>2, CommandForms
    <3> HIDE DEF k, j
    <3>4. Fits(k.commands[j][2], k, stale)
      BY <1>13, <3>1, <3>3 DEF Applied
    <3> QED  BY <1>15, <3>1, <3>3, <3>4 DEF Fit
  <2> QED  BY <1>15, <2>1 DEF Applied
<1>17. Reflects(tree, a, stale)
  BY <1>9, <1>10, <1>15 DEF Reflects
<1>18. /\ conns' \in [Conns -> Conn] /\ \A d \in Conns : Shaped(conns'[d])
       /\ \A d \in Conns : Serves(conns[d], conns'[d])
       /\ \A ses : \A d \in Conns : Carries(conns[d], ses, a, stale) => Carries(conns'[d], ses, a, stale)
  <2>1. CASE changed /\ out \in Conns
    BY <1>1, <1>3, <1>9, <1>17, <2>1, FrameSent
  <2>2. CASE ~(changed /\ out \in Conns)
    BY <1>1, <1>3, <2>2, SelfServes DEF Typed
  <2> QED  BY <2>1, <2>2
<1>19. Typed'
  BY <1>1, <1>2, <1>11, <1>18, TypedNext DEF Typed
<1>20. Accounted'
  <2>1. \A x \in Ids : Continues(sessions[x], sessions'[x])
    BY <1>11, <1>12, SelfStays
  <2> QED  BY <1>1, <1>2, <1>18, <1>19, <2>1, AccountedOn
<1>21. Once'
  <2>1. client.acknowledged <= client'.acknowledged /\ Known(client'.snapshot, 0, client'.acknowledged, stale')
    BY <1>1, <1>2, <1>4 DEF Once
  <2>2. \A x \in Ids : Applied(sessions'[x], a, stale) /\ Fit(sessions[x], sessions'[x], stale, stale)
    BY <1>1, <1>11, <1>15, <1>16 DEF Once, Fit
  <2>3. \A d \in Conns : Carries(conns'[d], sessions', a, stale)
    <3> SUFFICES ASSUME NEW d \in Conns PROVE Carries(conns'[d], sessions', a, stale)
      OBVIOUS
    <3>1. conns[d] \in Conn /\ Shaped(conns[d]) /\ Carries(conns[d], sessions, a, stale)
      BY <1>1, TypedParts DEF Once
    <3>2. Carries(conns[d], sessions', a, stale)
      BY <1>1, <1>4, <2>2, <3>1, CarriesOn
    <3> QED  BY <1>18, <3>2
  <2> QED  BY <1>1, <1>2, <1>19, <2>1, <2>2, <2>3, OnceOn
<1> QED  BY <1>19, <1>20, <1>21 DEF LiveInv

\* A session that is no more.
LEMMA EndedSession ==
    sent \in Nat => /\ NoSession \in Session /\ Nothing(NoSession) /\ \A k : Continues(k, NoSession)
BY FreeTyped DEF NoSession, Nothing, Continues

LEMMA ExitKeeps == \A s \in Ids : LiveInv /\ Exit(s) => LiveInv'
<1> SUFFICES ASSUME NEW s \in Ids, LiveInv, Exit(s) PROVE LiveInv'
  OBVIOUS
<1> DEFINE a == client.acknowledged
           k == sessions[s]
           drains == Head(k.commands)[1] = "drain"
           out == k.outbound
           told == DrainFrame(k.applied, k.acknowledged)
<1>1. Typed /\ Once
  BY DEF LiveInv
<1>2. /\ sessions' = [sessions EXCEPT ![s] = NoSession]
      /\ sent' = sent /\ client' = client /\ draining' = draining /\ stale' = stale /\ unwelcomed' = unwelcomed
  BY DEF Exit
<1>3. conns' = IF drains /\ out \in Conns
                 THEN [conns EXCEPT ![out].frames = IF conns[out].gone THEN conns[out].frames
                                                    ELSE Append(conns[out].frames, told)]
                 ELSE conns
  BY DEF Exit
<1>4. k \in Session /\ sent \in Nat
  BY <1>1, TypedParts
<1>5. told \in Downward
  BY <1>4 DEF DrainFrame, Downward, Trees, Session
<1>6. Reflects(told, a, stale)
  <2>1. Known(k.applied, k.acknowledged, a, stale)
    BY <1>1 DEF Once, Applied
  <2> HIDE DEF k
  <2> QED  BY <2>1 DEF Reflects, DrainFrame
<1> HIDE DEF drains, out, told
<1>7. /\ conns' \in [Conns -> Conn] /\ \A d \in Conns : Shaped(conns'[d])
      /\ \A d \in Conns : Serves(conns[d], conns'[d])
      /\ \A ses : \A d \in Conns : Carries(conns[d], ses, a, stale) => Carries(conns'[d], ses, a, stale)
  <2>1. CASE drains /\ out \in Conns
    BY <1>1, <1>3, <1>5, <1>6, <2>1, FrameSent
  <2>2. CASE ~(drains /\ out \in Conns)
    BY <1>1, <1>3, <2>2, SelfServes DEF Typed
  <2> QED  BY <2>1, <2>2
<1>8. /\ sessions' \in [Ids -> Session] /\ sessions'[s] = NoSession
      /\ \A x \in Ids : x # s => sessions'[x] = sessions[x]
  BY <1>1, <1>2, <1>4, EndedSession, OneSession
<1>9. \A x \in Ids : Continues(sessions[x], sessions'[x])
                     /\ (Stays(sessions[x], sessions'[x]) \/ Nothing(sessions'[x]))
  BY <1>4, <1>8, EndedSession, SelfStays
<1> QED  BY <1>1, <1>2, <1>7, <1>8, <1>9, ServerKeeps DEF Typed

-----------------------------------------------------------------------------
(* The operator. *)

LEMMA StartDrainKeeps == LiveInv /\ StartDrain => LiveInv'
<1> SUFFICES ASSUME LiveInv, StartDrain PROVE LiveInv'
  OBVIOUS
<1>1. Typed
  BY DEF LiveInv
<1>2. draining' \in [Instances -> {"no", "flag", "done"}]
  BY <1>1 DEF StartDrain, Typed
<1> QED  BY <1>1, <1>2, SelfStays, SelfServes, ServerKeeps DEF StartDrain, Typed

LEMMA DrainSessionsKeeps == \A i \in Instances : LiveInv /\ DrainSessions(i) => LiveInv'
<1> SUFFICES ASSUME NEW i \in Instances, LiveInv, DrainSessions(i) PROVE LiveInv'
  OBVIOUS
<1>1. Typed
  BY DEF LiveInv
<1>2. draining' \in [Instances -> {"no", "flag", "done"}]
  BY <1>1 DEF DrainSessions, Typed
<1>3. ASSUME NEW s \in Ids
      PROVE  /\ sessions'[s] \in Session /\ Continues(sessions[s], sessions'[s])
             /\ Stays(sessions[s], sessions'[s])
  <2>1. CASE sessions[s].mapped /\ sessions[s].home = i
    <3>1. sessions'[s] = [Commanded(s, <<"drain">>) EXCEPT !.mapped = FALSE, !.detached_at = FALSE]
      BY <2>1 DEF DrainSessions
    <3> QED  BY <1>1, <3>1, Dismissed DEF Ends
  <2>2. CASE ~(sessions[s].mapped /\ sessions[s].home = i)
    <3>1. sessions'[s] = sessions[s]
      BY <2>2 DEF DrainSessions
    <3> QED  BY <1>1, <3>1, SelfStays, TypedParts
  <2> QED  BY <2>1, <2>2
<1>4. sessions' \in [Ids -> Session]
  <2>1. sessions' = [s \in Ids |-> sessions'[s]]
    BY DEF DrainSessions
  <2> QED  BY <1>3, <2>1
<1>5. /\ sent' = sent /\ client' = client /\ conns' = conns /\ stale' = stale /\ unwelcomed' = unwelcomed
  BY DEF DrainSessions
<1> QED  BY <1>1, <1>2, <1>3, <1>4, <1>5, SelfServes, ServerKeeps DEF Typed

LEMMA DropConnectionsKeeps == \A i \in Instances : LiveInv /\ DropConnections(i) => LiveInv'
<1> SUFFICES ASSUME NEW i \in Instances, LiveInv, DropConnections(i) PROVE LiveInv'
  OBVIOUS
<1>1. Typed
  BY DEF LiveInv
<1>2. <<"detach">> \in Commanding /\ <<"detach">>[1] # "event"
  BY CommandTypes
<1>3. ASSUME NEW s \in Ids
      PROVE  /\ sessions'[s] \in Session /\ Continues(sessions[s], sessions'[s])
             /\ Stays(sessions[s], sessions'[s])
  <2>1. CASE sessions[s].mapped /\ sessions[s].home = i
    <3>1. sessions'[s] = Commanded(s, <<"detach">>)
      BY <2>1 DEF DropConnections
    <3> QED  BY <1>1, <1>2, <3>1, CommandedIs, CommandedGoesOn
  <2>2. CASE ~(sessions[s].mapped /\ sessions[s].home = i)
    <3>1. sessions'[s] = sessions[s]
      BY <2>2 DEF DropConnections
    <3> QED  BY <1>1, <3>1, SelfStays, TypedParts
  <2> QED  BY <2>1, <2>2
<1>4. sessions' \in [Ids -> Session]
  <2>1. sessions' = [s \in Ids |-> sessions'[s]]
    BY DEF DropConnections
  <2> QED  BY <1>3, <2>1
<1>5. /\ sent' = sent /\ client' = client /\ conns' = conns /\ stale' = stale /\ unwelcomed' = unwelcomed
      /\ draining' = draining
  BY DEF DropConnections
<1> QED  BY <1>1, <1>3, <1>4, <1>5, SelfServes, ServerKeeps DEF Typed

LEMMA CrashKeeps == \A i \in Instances : LiveInv /\ Crash(i) => LiveInv'
<1> SUFFICES ASSUME NEW i \in Instances, LiveInv, Crash(i) PROVE LiveInv'
  OBVIOUS
<1>1. Typed /\ Accounted /\ Once
  BY DEF LiveInv
<1>2. /\ sent' = sent /\ client' = client /\ draining' = draining /\ stale' = stale
      /\ sessions' = [s \in Ids |-> IF sessions[s].home = i THEN NoSession ELSE sessions[s]]
      /\ conns' = [c \in Conns |-> IF conns[c].inst = i /\ conns[c].at # "free" THEN Ended(c) ELSE conns[c]]
      /\ unwelcomed' = {s \in unwelcomed : sessions[s].home # i}
  BY DEF Crash
<1>3. sent \in Nat /\ client.acknowledged \in Nat
  BY <1>1, TypedParts
<1>4. ASSUME NEW s \in Ids
      PROVE  /\ sessions'[s] \in Session /\ Continues(sessions[s], sessions'[s])
             /\ Stays(sessions[s], sessions'[s]) \/ Nothing(sessions'[s])
             /\ sessions'[s].alive => sessions[s].home # i /\ sessions'[s] = sessions[s]
  <2>1. CASE sessions[s].home = i
    <3>1. sessions'[s] = NoSession /\ ~NoSession.alive
      BY <1>2, <2>1 DEF NoSession
    <3> QED  BY <1>3, <3>1, EndedSession
  <2>2. CASE sessions[s].home # i
    BY <1>1, <1>2, <2>2, SelfStays, TypedParts
  <2> QED  BY <2>1, <2>2
<1>5. sessions' \in [Ids -> Session]
  BY <1>2, <1>4
<1>6. ASSUME NEW c \in Conns
      PROVE  /\ conns'[c] \in Conn /\ Shaped(conns'[c])
             /\ conns'[c] = conns[c] \/ (conns'[c] = Ended(c) /\ conns[c].inst = i)
  BY <1>1, <1>2, EndedTyped, TypedParts
<1>7. conns' \in [Conns -> Conn]
  BY <1>2, <1>6
<1>8. Typed'
  BY <1>1, <1>2, <1>5, <1>6, <1>7, TypedNext DEF Typed
<1>9. Accounted'
  <2>1. ASSUME NEW d \in Conns, conns'[d].at \in Serving, sessions'[conns'[d].session].alive
        PROVE  sessions'[conns'[d].session].home = conns'[d].inst
    <3>1. conns'[d] = conns[d]
      BY <1>1, <1>6, <2>1, EndedTyped DEF Serving
    <3> QED  BY <1>1, <1>4, <2>1, <3>1, SelfServes, HomedOn
  <2>2. ASSUME NEW s \in Ids PROVE Kept(sessions'[s], conns', unwelcomed', s)
    <3>1. CASE ~sessions'[s].alive
      BY <3>1 DEF Kept
    <3>2. CASE sessions'[s].alive
      <4>1. sessions[s].home # i /\ sessions'[s] = sessions[s]
        BY <1>4, <3>2
      <4>2. Served(conns, s) => Served(conns', s)
        <5>1. ASSUME NEW d \in Conns, conns[d].at \in Serving, conns[d].session = s
              PROVE  conns'[d] = conns[d]
          BY <1>1, <1>6, <3>2, <4>1, <5>1 DEF Accounted, Homed
        <5> QED  BY <5>1, ServedOn
      <4>3. Kept(sessions[s], conns, unwelcomed, s)
        BY <1>1 DEF Accounted
      <4> QED  BY <1>2, <4>1, <4>2, <4>3 DEF Kept
    <3> QED  BY <3>1, <3>2
  <2> QED  BY <2>1, <2>2 DEF Accounted, Homed
<1>10. Once'
  <2>1. client.acknowledged <= client'.acknowledged /\ Known(client'.snapshot, 0, client'.acknowledged, stale')
    BY <1>1, <1>2, <1>3 DEF Once
  <2>2. \A c \in Conns : conns'[c] = conns[c] \/ Carries(conns'[c], sessions', client'.acknowledged, stale')
    <3> SUFFICES ASSUME NEW c \in Conns, conns'[c] = Ended(c)
                 PROVE  Carries(Ended(c), sessions', client'.acknowledged, stale')
      BY <1>6
    <3>1. Carries(conns[c], sessions', client'.acknowledged, stale')
      BY <1>1, <1>2, <1>4, <1>8, <2>1, CarriesStill
    <3> QED  BY <1>1, <3>1, CarriesEnded
  <2> QED  BY <1>1, <1>2, <1>4, <1>8, <2>1, <2>2, OnceStays
<1> QED  BY <1>8, <1>9, <1>10 DEF LiveInv

-----------------------------------------------------------------------------
(* The theorems. *)

LEMMA LiveInvInitially == Init => LiveInv
<1> SUFFICES ASSUME Init PROVE LiveInv
  OBVIOUS
<1>1. Typed
  BY LiveInitially
<1>2. /\ \A c \in Conns : conns[c] = FreeConn
      /\ \A s \in Ids : sessions[s] = NoSession
      /\ client.snapshot = <<>>
  BY DEF Init
<1>3. Accounted
  <2>1. ~NoSession.alive /\ FreeConn.at \notin Serving
    BY DEF NoSession, FreeConn, Serving
  <2> QED  BY <1>2, <2>1 DEF Accounted, Homed, Kept
<1>4. Once
  <2>1. \A a, S : Applied(NoSession, a, S)
    BY NothingKnown DEF NoSession, Applied
  <2>2. \A ses, a, S : Carries(FreeConn, ses, a, S)
    BY CarriesNothing, FreeEmpty
  <2> QED  BY <1>2, <2>1, <2>2, NothingKnown DEF Once
<1> QED  BY <1>1, <1>3, <1>4 DEF LiveInv

LEMMA LiveInvNext == LiveInv /\ [Next]_vars => LiveInv'
<1> SUFFICES ASSUME LiveInv, [Next]_vars PROVE LiveInv'
  OBVIOUS
<1>1. CASE Send \/ SendOutbound \/ Receive \/ ClientStep \/ Break
  BY <1>1, SendKeeps, ConnectKeeps, SendOutboundKeeps, ReceiveKeeps, DisconnectKeeps DEF ClientStep
<1>2. ASSUME NEW c \in Conns, HandlerStep(c) \/ Forward(c) PROVE LiveInv'
  BY <1>2, NoHelloKeeps, GreetKeeps, LookupKeeps, AttachKeeps, ForwardKeeps, CloseKeeps, MarkDetachedKeeps
     DEF HandlerStep
<1>3. ASSUME NEW s \in Ids, SessionStep(s) PROVE LiveInv'
  BY <1>3, TurnKeeps, ExitKeeps DEF SessionStep
<1>4. CASE StartDrain
  BY <1>4, StartDrainKeeps
<1>5. ASSUME NEW i \in Instances, DrainSessions(i) \/ DropConnections(i) \/ Crash(i) \/ Reap(i) PROVE LiveInv'
  BY <1>5, DrainSessionsKeeps, DropConnectionsKeeps, CrashKeeps, ReapKeeps
<1>6. CASE UNCHANGED vars
  BY <1>6 DEF vars, LiveInv, Typed, Accounted, Once, Conn, Session, ClientState, Shaped, Upward, Downward,
              Hellos, EventFrames, Trees, Commanding, Sent
<1> QED  BY <1>1, <1>2, <1>3, <1>4, <1>5, <1>6 DEF Next

LEMMA LiveInvariant == Spec => []LiveInv
BY LiveInvInitially, LiveInvNext, PTL DEF Spec

\* No session's thread is leaked: one that runs and is in the map belongs to a
\* handler of its instance, is marked for reap, or its Welcome could not be
\* sent; one that is not in the map has been told to end.
THEOREM NoSessionLeaked == Spec => []SessionsAccounted
<1>1. LiveInv => SessionsAccounted
  <2> SUFFICES ASSUME LiveInv, NEW s \in Ids, sessions[s].alive
               PROVE  IF sessions[s].mapped
                        THEN \/ sessions[s].detached_at
                             \/ \E c \in Conns : conns[c].session = s /\ conns[c].at # "lookup"
                             \/ s \in unwelcomed
                        ELSE \E k \in DOMAIN sessions[s].commands :
                                 sessions[s].commands[k] \in {<<"stop">>, <<"drain">>}
    BY DEF SessionsAccounted
  <2>1. Kept(sessions[s], conns, unwelcomed, s)
    BY DEF LiveInv, Accounted
  <2> QED  BY <2>1 DEF Kept, Served, Serving, Ends
<1> QED  BY <1>1, LiveInvariant, PTL

\* A session applies an event twice only if the client sent it once more,
\* from its queue, after it was acknowledged: whatever is resent on
\* connecting, reordered by broken connections or carried over by a drain.
THEOREM AppliedOnce == Spec => []DoubledOnlyIfStale
<1>1. LiveInv => DoubledOnlyIfStale
  BY DEF LiveInv, Once, Applied, Known, DoubledOnlyIfStale
<1> QED  BY <1>1, LiveInvariant, PTL

-----------------------------------------------------------------------------
(* Prefixes.  A state x in which event e, or all that of a state y are:      *)

Reaches(x, e) == e = 0 \/ \E i \in DOMAIN x : x[i] = e
Within(y, x) == \A i \in DOMAIN y : Reaches(x, y[i])

\* x is a state of the first n events: each has its first occurrence behind
\* those of smaller ones only.
Extent(x, n) ==
    /\ \A i \in DOMAIN x : x[i] \in 1..n
    /\ \A e \in 1..n : \E i \in DOMAIN x : x[i] = e /\ \A j \in 1..(i - 1) : x[j] < e

\* Of at most the first n.
Prefix(x, n) == \E m \in 0..n : Extent(x, m)

LEMMA NothingReached ==
    /\ Extent(<<>>, 0) /\ \A n \in Nat : Prefix(<<>>, n)
    /\ \A x : Within(<<>>, x) /\ Reaches(x, 0)
<1>1. Extent(<<>>, 0)
  BY EmptyTyped DEF Extent
<1> QED  BY <1>1, EmptyTyped DEF Prefix, Within, Reaches

LEMMA PrefixGrows ==
    ASSUME NEW x, NEW n \in Nat, NEW m \in Nat, n <= m, Prefix(x, n)
    PROVE  Prefix(x, m)
BY DEF Prefix

LEMMA WithinOn ==
    /\ \A x : Within(x, x)
    /\ \A x, y, z : Within(x, y) /\ Within(y, z) => Within(x, z)
    /\ \A x, y, e : Reaches(x, e) /\ Within(x, y) => Reaches(y, e)
BY DEF Within, Reaches

\* What a prefix has reached is behind what came before.
LEMMA ReachesDown ==
    ASSUME NEW x, NEW n \in Nat, Prefix(x, n), NEW e \in Nat, Reaches(x, e), NEW d \in 0..e
    PROVE  Reaches(x, d)
<1>1. PICK m \in 0..n : Extent(x, m)
  BY DEF Prefix
<1>2. CASE d = 0
  BY <1>2 DEF Reaches
<1>3. CASE d # 0
  <2>1. e \in 1..m
    BY <1>1, <1>3 DEF Reaches, Extent
  <2>2. d \in 1..m
    BY <1>1, <1>3, <2>1
  <2> QED  BY <1>1, <2>2 DEF Extent, Reaches
<1> QED  BY <1>2, <1>3

LEMMA PrefixAppend ==
    ASSUME NEW n \in Nat, NEW x \in Seq(Events), Prefix(x, n), NEW e \in 1..n, e \in Events, Reaches(x, e - 1)
    PROVE  /\ Prefix(Append(x, e), n) /\ Within(x, Append(x, e)) /\ Reaches(Append(x, e), e)
<1> DEFINE y == Append(x, e)
           l == Len(x) + 1
<1>1. /\ DOMAIN y = 1..l /\ y[l] = e /\ DOMAIN x = 1..(l - 1) /\ l \in Nat \ {0}
      /\ \A i \in 1..(l - 1) : y[i] = x[i]
  BY AppendProperties, LenProperties
<1> HIDE DEF y, l
<1>2. PICK m \in 0..n : Extent(x, m)
  BY DEF Prefix
<1>3. e - 1 <= m
  BY <1>2 DEF Reaches, Extent
<1>4. Within(x, y) /\ Reaches(y, e)
  <2>1. \A i \in DOMAIN x : i \in DOMAIN y /\ y[i] = x[i]
    BY <1>1
  <2>2. l \in DOMAIN y
    BY <1>1
  <2> QED  BY <1>1, <2>1, <2>2 DEF Within, Reaches
<1>5. ASSUME NEW d \in 1..m
      PROVE  \E i \in DOMAIN y : y[i] = d /\ \A j \in 1..(i - 1) : y[j] < d
  <2>1. PICK i \in DOMAIN x : x[i] = d /\ \A j \in 1..(i - 1) : x[j] < d
    BY <1>2 DEF Extent
  <2>2. i \in DOMAIN y /\ y[i] = d
    BY <1>1, <2>1
  <2>3. ASSUME NEW j \in 1..(i - 1) PROVE y[j] < d
    <3>1. j \in 1..(l - 1)
      BY <1>1, <2>1
    <3>2. y[j] = x[j]
      BY <1>1, <3>1
    <3> QED  BY <2>1, <3>2
  <2> QED  BY <2>2, <2>3
<1>6. CASE e <= m
  <2>1. \A i \in DOMAIN y : y[i] = e \/ (i \in DOMAIN x /\ y[i] = x[i])
    BY <1>1
  <2>2. e \in 1..m /\ \A i \in DOMAIN x : x[i] \in 1..m
    BY <1>2, <1>6 DEF Extent
  <2>3. \A i \in DOMAIN y : y[i] \in 1..m
    BY <2>1, <2>2
  <2>4. Extent(y, m)
    BY <1>5, <2>3 DEF Extent
  <2>5. Prefix(y, n)
    BY <2>4 DEF Prefix
  <2> QED  BY <1>4, <2>5 DEF y
<1>7. CASE e = m + 1
  <2>1. \A i \in DOMAIN y : y[i] \in 1..e
    BY <1>1, <1>2, <1>7 DEF Extent
  <2>2. ASSUME NEW j \in 1..(l - 1) PROVE y[j] < e
    <3>1. y[j] = x[j] /\ x[j] \in 1..m
      BY <1>1, <1>2 DEF Extent
    <3> QED  BY <1>7, <3>1
  <2>3. \E i \in DOMAIN y : y[i] = e /\ \A j \in 1..(i - 1) : y[j] < e
    <3>1. l \in DOMAIN y
      BY <1>1
    <3> QED  BY <1>1, <2>2, <3>1
  <2>4. \A d \in 1..e : d = e \/ d \in 1..m
    BY <1>2, <1>7
  <2>5. Extent(y, e)
    BY <1>5, <2>1, <2>3, <2>4 DEF Extent
  <2> QED  BY <1>4, <2>5 DEF Prefix, y
<1> QED  BY <1>2, <1>3, <1>6, <1>7

LEMMA ExtentGrows ==
    ASSUME NEW x, NEW y, NEW m \in Nat, NEW n \in Nat, Extent(x, m), Extent(y, n), Within(x, y)
    PROVE  m <= n
<1>1. CASE m = 0
  BY <1>1
<1>2. CASE m # 0
  <2>1. PICK i \in DOMAIN x : x[i] = m
    BY <1>2 DEF Extent
  <2>2. Reaches(y, m)
    BY <2>1 DEF Within
  <2> QED  BY <1>2, <2>2 DEF Reaches, Extent
<1> QED  BY <1>1, <1>2

\* The first occurrences of a state of the first n events are 1, 2, ..., n.
LEMMA FirstsOfExtent ==
    ASSUME NEW x \in Seq(Events), NEW n \in Nat, Extent(x, n)
    PROVE  Firsts(x) = [i \in 1..n |-> i]
<1> DEFINE first == {k \in DOMAIN x : \A j \in 1..(k - 1) : x[j] # x[k]}
           Before(k) == {j \in first : j <= k}
<1>1. DOMAIN x \subseteq Nat \ {0} /\ \A i \in DOMAIN x : \A j \in 1..i : j \in DOMAIN x
  BY LenProperties
<1>2. ASSUME NEW e \in 1..n
      PROVE  \E k \in first : x[k] = e /\ \A j \in 1..(k - 1) : x[j] < e
  <2>1. PICK k \in DOMAIN x : x[k] = e /\ \A j \in 1..(k - 1) : x[j] < e
    BY DEF Extent
  <2>2. \A j \in 1..(k - 1) : x[j] # x[k]
    <3>1. \A j \in 1..(k - 1) : x[j] < e /\ e \in Int
      BY <2>1
    <3>2. \A j \in 1..(k - 1) : x[j] \in Int
      <4>1. \A j \in 1..(k - 1) : j \in DOMAIN x
        BY <1>1, <2>1
      <4> QED  BY <4>1 DEF Extent
    <3> QED  BY <2>1, <3>1, <3>2
  <2> QED  BY <2>1, <2>2
<1>3. \A k \in first : x[k] \in 1..n /\ k \in Nat \ {0} /\ k \in DOMAIN x
  BY <1>1 DEF Extent
<1>4. ASSUME NEW k \in first, NEW l \in first, x[k] = x[l]
      PROVE  k = l
  <2>1. ~(k < l) /\ ~(l < k)
    <3>1. k < l => k \in 1..(l - 1)
      BY <1>3
    <3>2. l < k => l \in 1..(k - 1)
      BY <1>3
    <3> QED  BY <1>4, <3>1, <3>2
  <2> QED  BY <1>3, <2>1
<1>5. ASSUME NEW k \in first, NEW l \in first, l <= k
      PROVE  x[l] <= x[k]
  <2>1. PICK h \in first : x[h] = x[k] /\ \A j \in 1..(h - 1) : x[j] < x[k]
    BY <1>2, <1>3
  <2>2. h = k
    BY <1>4, <2>1
  <2>3. l = k \/ l \in 1..(k - 1)
    BY <1>3, <1>5
  <2> QED  BY <1>3, <2>1, <2>2, <2>3
<1>6. ASSUME NEW k \in first, NEW l \in first, x[l] <= x[k]
      PROVE  l <= k
  <2>1. CASE k < l
    <3>0. k <= l
      BY <1>3, <2>1
    <3>1. x[k] <= x[l]
      BY <1>5, <3>0
    <3>2. x[k] = x[l]
      BY <1>3, <1>6, <3>1
    <3> QED  BY <1>3, <1>4, <2>1, <3>2
  <2> QED  BY <1>3, <2>1
<1> HIDE DEF first
<1>7. ASSUME NEW S \in SUBSET first, NEW m \in 0..n,
             \A e \in 1..m : \E k \in S : x[k] = e, \A k \in S : x[k] \in 1..m
      PROVE  Cardinality(S) = m
  <2> DEFINE g == [k \in S |-> x[k]]
  <2>1. g \in Bijection(S, 1..m)
    <3>1. g \in [S -> 1..m] /\ DOMAIN g = S /\ \A k \in S : g[k] = x[k]
      BY <1>7
    <3>2. \A e \in 1..m : \E k \in S : g[k] = e
      BY <1>7
    <3>3. \A k, l \in S : g[k] = g[l] => k = l
      BY <1>4
    <3> HIDE DEF g
    <3>4. g \in Injection(S, 1..m)
      BY <3>1, <3>3 DEF Injection, IsInjective
    <3>5. g \in Surjection(S, 1..m)
      BY <3>1, <3>2 DEF Surjection
    <3> QED  BY <3>4, <3>5 DEF Bijection
  <2>2. ExistsBijection(1..m, S)
    <3>1. ExistsBijection(S, 1..m)
      BY <2>1 DEF ExistsBijection
    <3> QED  BY <3>1, Fun_ExistsBijSymmetric
  <2>3. IsFiniteSet(1..m) /\ Cardinality(1..m) = m
    BY FS_Interval
  <2> QED  BY <2>2, <2>3, FS_Bijection
<1>8. Cardinality(first) = n
  <2>1. \A e \in 1..n : \E k \in first : x[k] = e
    BY <1>2
  <2> QED  BY <1>3, <1>7, <2>1
<1>9. ASSUME NEW k \in first
      PROVE  Cardinality(Before(k)) = x[k]
  <2>1. \A e \in 1..x[k] : \E l \in Before(k) : x[l] = e
    <3> SUFFICES ASSUME NEW e \in 1..x[k] PROVE \E l \in Before(k) : x[l] = e
      OBVIOUS
    <3>1. e \in 1..n /\ e <= x[k]
      BY <1>3
    <3>2. PICK l \in first : x[l] = e
      BY <1>2, <3>1
    <3> QED  BY <1>6, <3>1, <3>2
  <2>2. \A l \in Before(k) : x[l] \in 1..x[k]
    BY <1>3, <1>5
  <2>3. x[k] \in 0..n /\ Before(k) \in SUBSET first
    BY <1>3
  <2> HIDE DEF Before
  <2> QED  BY <1>7, <2>1, <2>2, <2>3
<1> HIDE DEF Before
<1>10. ASSUME NEW i \in 1..n
       PROVE  x[CHOOSE k \in first : Cardinality(Before(k)) = i] = i
  <2>1. PICK k \in first : x[k] = i
    BY <1>2
  <2>2. Cardinality(Before(k)) = i
    BY <1>9, <2>1
  <2> DEFINE h == CHOOSE q \in first : Cardinality(Before(q)) = i
  <2>3. h \in first /\ Cardinality(Before(h)) = i
    BY <2>2
  <2> QED  BY <1>9, <2>3
<1>11. Firsts(x) = [i \in 1..Cardinality(first) |-> x[CHOOSE k \in first : Cardinality(Before(k)) = i]]
  BY DEF Firsts, first, Before
<1> QED  BY <1>8, <1>10, <1>11

-----------------------------------------------------------------------------
(* Events come in order.  A session's state is a prefix, and each event on   *)
(* its way to it is next to one that it has or that comes before.            *)

\* e is in the state of session k or told to it.
Holds(k, e) == Reaches(k.applied, e) \/ \E i \in DOMAIN k.commands : k.commands[i] = <<"event", e>>

Sound(k, n) ==
    /\ Prefix(k.applied, n) /\ Reaches(k.applied, k.acknowledged)
    /\ \A i \in DOMAIN k.commands : k.commands[i][1] = "event" =>
           \/ Reaches(k.applied, k.commands[i][2] - 1)
           \/ \E j \in 1..(i - 1) : k.commands[j] = <<"event", k.commands[i][2] - 1>>
    /\ ~k.alive => k.commands = <<>> /\ k.outbound = None

\* Of a connection k: the events on their way, what says where they start, and
\* an event that is in the state they are for.
Coming(k) == IF k.at = "hello" THEN Tail(k.up) ELSE k.up
Start(k) == IF k.at = "hello" THEN Head(k.up) ELSE k
Based(k, ses, e) ==
    /\ k.at \in {"hello", "lookup"} => Reaches(Start(k).snapshot, e)
    /\ k.at \in Serving /\ ses[k.session].alive => Holds(ses[k.session], e)
Came(k, ses, e) == Based(k, ses, e) \/ \E i \in DOMAIN Coming(k) : Coming(k)[i].sequence = e

\* Session s, if it is one that runs, has all of x.
Behind(x, ses, s) == s \in Ids /\ ses[s].alive => Within(x, ses[s].applied)

Gapless(k, ses, n) ==
    /\ k.at \in {"hello", "lookup"} =>
         Prefix(Start(k).snapshot, n) /\ Behind(Start(k).snapshot, ses, Start(k).session)
    /\ k.at \notin {"free", "done"} =>
         \A i \in DOMAIN Coming(k) :
             \/ Based(k, ses, Coming(k)[i].sequence - 1)
             \/ \E j \in 1..(i - 1) : Coming(k)[j].sequence = Coming(k)[i].sequence - 1

\* Only the session a handler serves sends to it.
Feeds(k, c) == k.outbound = c \/ \E i \in DOMAIN k.commands : k.commands[i] = <<"attach", c>>
Linked(all, ses) ==
    \A s \in Ids, c \in Conns : Feeds(ses[s], c) => all[c].at \in {"open", "mark"} /\ all[c].session = s

\* Of the client cl's connection k: the session it will know, and the states
\* on their way, which never go back and which that session has.
Greeted(k) == k.frames # <<>> /\ Head(k.frames).frame = "welcome"
Reader(cl, k) == IF Greeted(k) THEN Head(k.frames).session ELSE cl.session
Shows(k) == {i \in DOMAIN k.frames : k.frames[i].frame # "welcome"}
Framed(cl, k, ses, n) ==
    /\ \A i \in DOMAIN k.frames : i = 1 \/ i \in Shows(k)
    /\ \A i \in Shows(k) :
           /\ Prefix(k.frames[i].snapshot, n)
           /\ Reaches(k.frames[i].snapshot, k.frames[i].acknowledged)
           /\ Within(cl.snapshot, k.frames[i].snapshot)
           /\ \A j \in Shows(k) : i < j => Within(k.frames[i].snapshot, k.frames[j].snapshot)
           /\ Behind(k.frames[i].snapshot, ses, Reader(cl, k))
    /\ Behind(cl.snapshot, ses, Reader(cl, k))
Reading(cl, k, ses, n) ==
    /\ ~k.gone /\ Framed(cl, k, ses, n)
    /\ k.at \in {"hello", "lookup", "attach"} => k.frames = <<>>
    /\ k.at \in {"hello", "lookup"} => Start(k).session = cl.session /\ Start(k).snapshot = cl.snapshot
    /\ k.at = "attach" => Behind(cl.snapshot, ses, k.session)
    /\ k.at \in {"open", "mark"} => Reader(cl, k) = k.session

\* What waits in the client's queue comes next.
Handed == sent - Len(client.outbound)

Following(cl, n) ==
    /\ Len(cl.outbound) <= n
    /\ \A i \in DOMAIN cl.outbound : cl.outbound[i] = (n - Len(cl.outbound)) + i

Ordered ==
    /\ \A s \in Ids : Sound(sessions[s], sent)
    /\ \A c \in Conns : Gapless(conns[c], sessions, sent)
    /\ Linked(conns, sessions)
    /\ Prefix(client.snapshot, sent) /\ Reaches(client.snapshot, client.acknowledged)
    /\ Following(client, sent)
    /\ Behind(client.snapshot, sessions, client.session)
    /\ client.conn \in Conns =>
         /\ Came(conns[client.conn], sessions, Handed)
         /\ Reading(client, conns[client.conn], sessions, sent)

-----------------------------------------------------------------------------
(* Sessions that grow. *)

\* Whatever session k has or was told, l has or was told.
Grows(k, l) ==
    l.alive =>
        /\ k.alive /\ Within(k.applied, l.applied)
        /\ \A i \in DOMAIN k.commands : k.commands[i][1] = "event" => Holds(l, k.commands[i][2])

LEMMA GrowsHolds ==
    ASSUME NEW k, NEW l, NEW e, Grows(k, l), l.alive, Holds(k, e)
    PROVE  Holds(l, e)
<1>1. CASE Reaches(k.applied, e)
  BY <1>1, WithinOn DEF Grows, Holds
<1>2. ASSUME NEW i \in DOMAIN k.commands, k.commands[i] = <<"event", e>> PROVE Holds(l, e)
  <2>1. k.commands[i][1] = "event" /\ k.commands[i][2] = e
    BY <1>2
  <2> QED  BY <2>1 DEF Grows
<1> QED  BY <1>1, <1>2 DEF Holds

LEMMA BehindOn ==
    ASSUME NEW x, NEW ses, NEW all, NEW s, s \in Ids => Grows(ses[s], all[s]), Behind(x, ses, s)
    PROVE  Behind(x, all, s)
BY WithinOn DEF Behind, Grows

\* The sessions k names.
Named(k, s) == k.session = s \/ (k.at = "hello" /\ Head(k.up).session = s)

LEMMA BasedOn ==
    ASSUME NEW k, NEW ses, NEW all, NEW e,
           k.at \in Serving => k.session \in Ids,
           \A s \in Ids : Named(k, s) => Grows(ses[s], all[s]),
           Based(k, ses, e)
    PROVE  Based(k, all, e)
<1>1. ASSUME k.at \in Serving, all[k.session].alive PROVE Holds(all[k.session], e)
  <2>1. Grows(ses[k.session], all[k.session]) /\ ses[k.session].alive
    BY <1>1 DEF Named, Grows
  <2>2. Holds(ses[k.session], e)
    BY <1>1, <2>1 DEF Based
  <2> QED  BY <1>1, <2>1, <2>2, GrowsHolds
<1> QED  BY <1>1 DEF Based

LEMMA GaplessOn ==
    ASSUME NEW k, NEW ses, NEW all, NEW n,
           k.at \in Serving => k.session \in Ids,
           \A s \in Ids : Named(k, s) => Grows(ses[s], all[s]),
           Gapless(k, ses, n)
    PROVE  Gapless(k, all, n)
<1>1. ASSUME k.at \in {"hello", "lookup"}
      PROVE  Prefix(Start(k).snapshot, n) /\ Behind(Start(k).snapshot, all, Start(k).session)
  <2>1. Named(k, Start(k).session)
    BY DEF Start, Named
  <2>2. Behind(Start(k).snapshot, ses, Start(k).session) /\ Prefix(Start(k).snapshot, n)
    BY <1>1 DEF Gapless
  <2> QED  BY <2>1, <2>2, BehindOn
<1>2. \A e : Based(k, ses, e) => Based(k, all, e)
  BY BasedOn
<1> QED  BY <1>1, <1>2 DEF Gapless

LEMMA CameOn ==
    ASSUME NEW k, NEW ses, NEW all, NEW e,
           k.at \in Serving => k.session \in Ids,
           \A s \in Ids : Named(k, s) => Grows(ses[s], all[s]),
           Came(k, ses, e)
    PROVE  Came(k, all, e)
BY BasedOn DEF Came

LEMMA FramedOn ==
    ASSUME NEW cl, NEW k, NEW ses, NEW all, NEW n,
           Reader(cl, k) \in Ids => Grows(ses[Reader(cl, k)], all[Reader(cl, k)]),
           Framed(cl, k, ses, n)
    PROVE  Framed(cl, k, all, n)
<1>1. \A x : Behind(x, ses, Reader(cl, k)) => Behind(x, all, Reader(cl, k))
  BY BehindOn
<1> QED  BY <1>1 DEF Framed

LEMMA ReadingOn ==
    ASSUME NEW cl, NEW k, NEW ses, NEW all, NEW n,
           \A s \in Ids : Named(k, s) \/ Reader(cl, k) = s => Grows(ses[s], all[s]),
           Reading(cl, k, ses, n)
    PROVE  Reading(cl, k, all, n)
<1>1. Framed(cl, k, all, n)
  BY FramedOn DEF Reading
<1>2. Behind(cl.snapshot, ses, k.session) => Behind(cl.snapshot, all, k.session)
  BY BehindOn DEF Named
<1> QED  BY <1>1, <1>2 DEF Reading

\* A session nothing refers to.
Unused(s) == client.session # s /\ \A c \in Conns : ~Named(conns[c], s) /\ Reader(client, conns[c]) # s

\* The server's steps: sessions grow, and each connection that changes is seen to.
LEMMA OrderedOn ==
    ASSUME Typed, Ordered, client' = client, sent' = sent,
           \A s \in Ids : /\ Sound(sessions'[s], sent)
                          /\ Grows(sessions[s], sessions'[s]) \/ Unused(s),
           Linked(conns', sessions'),
           \A c \in Conns :
               \/ conns'[c] = conns[c]
               \/ /\ Gapless(conns'[c], sessions', sent)
                  /\ client.conn = c => /\ Came(conns'[c], sessions', Handed)
                                        /\ Reading(client, conns'[c], sessions', sent)
    PROVE  Ordered'
<1>1. ASSUME NEW c \in Conns, conns'[c] = conns[c]
      PROVE  /\ Gapless(conns'[c], sessions', sent)
             /\ client.conn = c => /\ Came(conns'[c], sessions', Handed)
                                   /\ Reading(client, conns'[c], sessions', sent)
  <2>1. \A s \in Ids : Named(conns[c], s) \/ Reader(client, conns[c]) = s => Grows(sessions[s], sessions'[s])
    BY DEF Unused
  <2>2. conns[c].at \in Serving => conns[c].session \in Ids
    BY DEF Typed, Shaped
  <2>3. /\ Gapless(conns[c], sessions, sent)
        /\ client.conn = c => Came(conns[c], sessions, Handed) /\ Reading(client, conns[c], sessions, sent)
    BY DEF Ordered
  <2> QED  BY <1>1, <2>1, <2>2, <2>3, GaplessOn, CameOn, ReadingOn
<1>2. Behind(client.snapshot, sessions', client.session)
  <2>1. client.session \in Ids => Grows(sessions[client.session], sessions'[client.session])
    BY DEF Unused
  <2>2. Behind(client.snapshot, sessions, client.session)
    BY DEF Ordered
  <2> QED  BY <2>1, <2>2, BehindOn
<1>3. Handed' = Handed
  BY DEF Handed
<1>4. \A c \in Conns :
          /\ Gapless(conns'[c], sessions', sent)
          /\ client.conn = c => /\ Came(conns'[c], sessions', Handed)
                                /\ Reading(client, conns'[c], sessions', sent)
  BY <1>1
<1> QED  BY <1>2, <1>3, <1>4 DEF Ordered

-----------------------------------------------------------------------------
(* What commands do. *)

\* Sessions alike in what matters here.
Alike(k, l) ==
    /\ l.applied = k.applied /\ l.acknowledged = k.acknowledged /\ l.commands = k.commands
    /\ l.alive = k.alive /\ l.outbound = k.outbound

LEMMA AlikeKeeps ==
    ASSUME NEW k, NEW l, Alike(k, l)
    PROVE  /\ \A n : Sound(k, n) => Sound(l, n)
           /\ \A x : Grows(x, k) => Grows(x, l)
           /\ \A c : Feeds(l, c) => Feeds(k, c)
BY DEF Alike, Sound, Grows, Feeds, Holds

LEMMA CommandIs ==
    ASSUME NEW command \in Commanding
    PROVE  /\ command[1] = "event" => command[2] \in Sent /\ command = <<"event", command[2]>>
           /\ command[1] = "attach" => command = <<"attach", command[2]>>
           /\ command[1] \notin {"event", "attach"} => command \in {<<"detach">>, <<"stop">>, <<"drain">>}
<1>1. CASE command \in {"event"} \X Sent
  BY <1>1
<1>2. CASE command \in {"attach"} \X (Conns \union {Closed})
  BY <1>2
<1>3. CASE command \in {<<"detach">>, <<"stop">>, <<"drain">>}
  BY <1>3
<1> QED  BY <1>1, <1>2, <1>3 DEF Commanding

LEMMA SelfGrows ==
    ASSUME NEW k, k.commands \in Seq(Commanding)
    PROVE  Grows(k, k) /\ Alike(k, k)
<1>1. ASSUME NEW i \in DOMAIN k.commands, k.commands[i][1] = "event"
      PROVE  Holds(k, k.commands[i][2])
  <2>1. k.commands[i] \in Commanding
    BY LenProperties
  <2>2. k.commands[i] = <<"event", k.commands[i][2]>>
    BY <1>1, <2>1, CommandIs
  <2> QED  BY <2>2 DEF Holds
<1> QED  BY <1>1, WithinOn DEF Grows, Alike

LEMMA EndedSound ==
    /\ \A n \in Nat : Sound(NoSession, n)
    /\ \A k : Grows(k, NoSession)
    /\ \A c \in Conns : ~Feeds(NoSession, c)
<1>1. /\ NoSession.applied = <<>> /\ NoSession.commands = <<>> /\ NoSession.acknowledged = 0
      /\ ~NoSession.alive /\ NoSession.outbound = None
  BY DEF NoSession
<1> QED  BY <1>1, NothingReached, EmptyTyped, LiveTypes DEF Sound, Grows, Feeds

LEMMA CommandKept ==
    ASSUME Typed, Ordered, NEW s \in Ids, NEW command \in Commanding, NEW l,
           Alike(Commanded(s, command), l),
           sessions[s].alive /\ command[1] = "event" => Holds(sessions[s], command[2] - 1)
    PROVE  /\ Sound(l, sent) /\ Grows(sessions[s], l)
           /\ \A c \in Conns : Feeds(l, c) => Feeds(sessions[s], c) \/ command = <<"attach", c>>
           /\ l.alive => \A e : command = <<"event", e>> => Holds(l, e)
<1> DEFINE k == sessions[s]
           m == Commanded(s, command)
<1>1. k.commands \in Seq(Commanding) /\ Sound(k, sent) /\ k \in Session
  BY TypedParts DEF Ordered
<1>2. CASE ~k.alive
  <2>1. m = k
    BY <1>2 DEF Commanded
  <2>2. l.alive = k.alive
    BY <2>1 DEF Alike
  <2> QED  BY <1>1, <1>2, <2>1, <2>2, AlikeKeeps, SelfGrows
<1>3. CASE k.alive
  <2>1. /\ m.applied = k.applied /\ m.acknowledged = k.acknowledged /\ m.alive = k.alive
        /\ m.outbound = k.outbound /\ m.commands = Append(k.commands, command)
    BY <1>1, <1>3 DEF Commanded, Session
  <2> DEFINE z == Len(k.commands) + 1
  <2>2. /\ DOMAIN m.commands = 1..z /\ m.commands[z] = command /\ z \in Nat \ {0}
        /\ DOMAIN k.commands = 1..(z - 1) /\ \A i \in 1..(z - 1) : m.commands[i] = k.commands[i]
    BY <1>1, <2>1, AppendProperties, LenProperties
  <2> HIDE DEF m, z, k
  <2>3. \A i \in DOMAIN m.commands : i = z \/ i \in DOMAIN k.commands
    BY <2>2
  <2>4. \A i \in DOMAIN k.commands : i \in DOMAIN m.commands /\ m.commands[i] = k.commands[i]
    BY <2>2
  <2>5. Sound(m, sent)
    <3>1. ASSUME NEW i \in DOMAIN m.commands, m.commands[i][1] = "event"
          PROVE  \/ Reaches(m.applied, m.commands[i][2] - 1)
                 \/ \E j \in 1..(i - 1) : m.commands[j] = <<"event", m.commands[i][2] - 1>>
      <4>1. CASE i = z
        <5>1. Holds(k, m.commands[i][2] - 1)
          BY <1>3, <2>2, <3>1, <4>1 DEF k
        <5>2. \A j \in DOMAIN k.commands : j \in 1..(i - 1) /\ m.commands[j] = k.commands[j]
          BY <2>2, <4>1
        <5> QED  BY <2>1, <5>1, <5>2 DEF Holds
      <4>2. CASE i \in DOMAIN k.commands
        <5>1. \/ Reaches(k.applied, k.commands[i][2] - 1)
              \/ \E j \in 1..(i - 1) : k.commands[j] = <<"event", k.commands[i][2] - 1>>
          BY <1>1, <2>4, <3>1, <4>2 DEF Sound
        <5>2. \A j \in 1..(i - 1) : m.commands[j] = k.commands[j]
          BY <2>2, <4>2
        <5> QED  BY <2>1, <2>4, <4>2, <5>1, <5>2
      <4> QED  BY <2>3, <4>1, <4>2
    <3> QED  BY <1>1, <1>3, <2>1, <3>1 DEF Sound
  <2>6. Grows(k, m)
    <3>1. ASSUME NEW i \in DOMAIN k.commands, k.commands[i][1] = "event" PROVE Holds(m, k.commands[i][2])
      <4>1. k.commands[i] \in Commanding
        BY <1>1, LenProperties
      <4>2. k.commands[i] = <<"event", k.commands[i][2]>>
        BY <3>1, <4>1, CommandIs
      <4> QED  BY <2>4, <4>2 DEF Holds
    <3> QED  BY <1>3, <2>1, <3>1, WithinOn DEF Grows
  <2>7. \A c \in Conns : Feeds(m, c) => Feeds(k, c) \/ command = <<"attach", c>>
    BY <2>1, <2>2, <2>3, <2>4 DEF Feeds
  <2>8. \A e : command = <<"event", e>> => Holds(m, e)
    <3>1. z \in DOMAIN m.commands
      BY <2>2
    <3> QED  BY <2>2, <3>1 DEF Holds
  <2>9. l.applied = m.applied /\ l.commands = m.commands
    BY DEF Alike, m
  <2> QED  BY <2>5, <2>6, <2>7, <2>8, <2>9, AlikeKeeps DEF m, k, Holds
<1> QED  BY <1>2, <1>3

\* A command that is neither an event nor an attachment, or none.
LEMMA Told ==
    ASSUME Typed, Ordered, NEW s \in Ids, NEW l,
           \/ Alike(sessions[s], l)
           \/ \E command \in Ends \union {<<"detach">>} : Alike(Commanded(s, command), l)
    PROVE  /\ Sound(l, sent) /\ Grows(sessions[s], l)
           /\ \A c \in Conns : Feeds(l, c) => Feeds(sessions[s], c)
<1>1. CASE Alike(sessions[s], l)
  <2>1. sessions[s].commands \in Seq(Commanding) /\ Sound(sessions[s], sent)
    BY TypedParts DEF Ordered
  <2> QED  BY <1>1, <2>1, AlikeKeeps, SelfGrows
<1>2. ASSUME NEW command \in Ends \union {<<"detach">>}, Alike(Commanded(s, command), l)
      PROVE  /\ Sound(l, sent) /\ Grows(sessions[s], l)
             /\ \A c \in Conns : Feeds(l, c) => Feeds(sessions[s], c)
  <2>1. command \in Commanding /\ command[1] \notin {"event", "attach"}
    BY CommandTypes DEF Ends
  <2>2. \A c : command # <<"attach", c>>
    BY <2>1
  <2> QED  BY <1>2, <2>1, <2>2, CommandKept
<1> QED  BY <1>1, <1>2

-----------------------------------------------------------------------------
(* Frames. *)

LEMMA FramedEmpty ==
    ASSUME NEW cl, NEW k, NEW ses, NEW n, k.frames = <<>>, Behind(cl.snapshot, ses, cl.session)
    PROVE  Framed(cl, k, ses, n) /\ Reader(cl, k) = cl.session
BY EmptyTyped DEF Framed, Reader, Greeted, Shows

LEMMA FramedSame ==
    ASSUME NEW cl, NEW k, NEW l, l.frames = k.frames
    PROVE  /\ Reader(cl, l) = Reader(cl, k)
           /\ \A ses, n : Framed(cl, k, ses, n) => Framed(cl, l, ses, n)
BY DEF Framed, Reader, Greeted, Shows

LEMMA FramedWelcome ==
    ASSUME NEW cl, NEW k, NEW ses, NEW n, NEW s \in Ids, k.frames = Append(<<>>, Welcome(s)),
           Behind(cl.snapshot, ses, s)
    PROVE  Framed(cl, k, ses, n) /\ Reader(cl, k) = s
<1>1. k.frames = <<Welcome(s)>> /\ DOMAIN k.frames = {1} /\ k.frames # <<>>
  OBVIOUS
<1>2. Head(k.frames) = Welcome(s) /\ k.frames[1] = Welcome(s)
  BY <1>1
<1>3. Welcome(s).frame = "welcome" /\ Welcome(s).session = s
  BY DEF Welcome
<1>4. Reader(cl, k) = s /\ Shows(k) = {}
  BY <1>1, <1>2, <1>3 DEF Reader, Greeted, Shows
<1> QED  BY <1>1, <1>4 DEF Framed

\* A state that the session and the client's frames are behind.
LEMMA FramedAppend ==
    ASSUME NEW cl, NEW k, NEW l, NEW ses, NEW n, NEW T, k.frames \in Seq(T), NEW f \in T,
           l.frames = Append(k.frames, f), f.frame # "welcome", Framed(cl, k, ses, n),
           Prefix(f.snapshot, n), Reaches(f.snapshot, f.acknowledged),
           Within(cl.snapshot, f.snapshot),
           \A i \in Shows(k) : Within(k.frames[i].snapshot, f.snapshot),
           Behind(f.snapshot, ses, Reader(cl, k))
    PROVE  Framed(cl, l, ses, n) /\ Reader(cl, l) = Reader(cl, k)
<1> DEFINE z == Len(k.frames) + 1
<1>1. /\ DOMAIN l.frames = 1..z /\ l.frames[z] = f /\ DOMAIN k.frames = 1..(z - 1) /\ z \in Nat \ {0}
      /\ \A i \in 1..(z - 1) : l.frames[i] = k.frames[i]
      /\ l.frames \in Seq(T) /\ l.frames # <<>>
  BY AppendProperties, LenProperties
<1>2. Head(l.frames) = l.frames[1] /\ (k.frames # <<>> => Head(k.frames) = k.frames[1] /\ z # 1)
  <2>1. Head(l.frames) = l.frames[1]
    BY <1>1, HeadTailProperties
  <2>2. ASSUME k.frames # <<>> PROVE Head(k.frames) = k.frames[1] /\ z # 1
    BY <2>2, HeadTailProperties, EmptySeq, LenProperties
  <2> QED  BY <2>1, <2>2
<1>3. k.frames = <<>> => z = 1
  OBVIOUS
<1> HIDE DEF z
<1>4. \A i \in DOMAIN l.frames : i = z \/ (i \in DOMAIN k.frames /\ l.frames[i] = k.frames[i])
  BY <1>1
<1>5. \A i \in DOMAIN k.frames : i \in DOMAIN l.frames /\ l.frames[i] = k.frames[i] /\ i < z
  BY <1>1
<1>6. z \in DOMAIN l.frames /\ \A i \in DOMAIN l.frames : ~(z < i)
  BY <1>1
<1>7. Shows(l) = Shows(k) \union {z}
  BY <1>1, <1>4, <1>5, <1>6 DEF Shows
<1>8. Reader(cl, l) = Reader(cl, k)
  <2>1. CASE k.frames = <<>>
    BY <1>1, <1>2, <1>3, <2>1 DEF Reader, Greeted
  <2>2. CASE k.frames # <<>>
    <3>1. 1 \in DOMAIN k.frames
      BY <1>1, <1>2, <2>2
    <3> QED  BY <1>1, <1>2, <1>5, <2>2, <3>1 DEF Reader, Greeted
  <2> QED  BY <2>1, <2>2
<1>9. \A i \in Shows(k) : i \in DOMAIN k.frames
  BY DEF Shows
<1>10. ASSUME NEW i \in Shows(l)
       PROVE  /\ Prefix(l.frames[i].snapshot, n)
              /\ Reaches(l.frames[i].snapshot, l.frames[i].acknowledged)
              /\ Within(cl.snapshot, l.frames[i].snapshot)
              /\ \A j \in Shows(l) : i < j => Within(l.frames[i].snapshot, l.frames[j].snapshot)
              /\ Behind(l.frames[i].snapshot, ses, Reader(cl, l))
  <2>1. CASE i = z
    <3>1. \A j \in Shows(l) : ~(i < j)
      BY <1>5, <1>6, <1>7, <1>9, <2>1 DEF Shows
    <3> QED  BY <1>1, <1>8, <2>1, <3>1
  <2>2. CASE i \in Shows(k)
    BY <1>1, <1>5, <1>7, <1>8, <1>9, <2>2 DEF Framed
  <2> QED  BY <1>7, <2>1, <2>2
<1>11. \A i \in DOMAIN l.frames : i = 1 \/ i \in Shows(l)
  BY <1>4, <1>7 DEF Framed
<1> QED  BY <1>8, <1>10, <1>11 DEF Framed

-----------------------------------------------------------------------------
(* Connections. *)

LEMMA DoneKept ==
    ASSUME NEW k, k.at \in {"free", "done"}
    PROVE  /\ \A ses, n : Gapless(k, ses, n)
           /\ \A ses, e : Came(k, ses, e)
           /\ \A cl, ses, n : Framed(cl, k, ses, n) /\ ~k.gone => Reading(cl, k, ses, n)
<1>1. k.at \notin {"hello", "lookup", "attach", "open", "mark"}
  OBVIOUS
<1> QED  BY <1>1 DEF Gapless, Came, Based, Reading, Serving

\* Events and their start are the same.
LEMMA ComingSame ==
    ASSUME NEW k, NEW l, l.at = k.at, l.up = k.up, l.session = k.session, l.snapshot = k.snapshot
    PROVE  \A ses : /\ \A n : Gapless(k, ses, n) => Gapless(l, ses, n)
                    /\ \A e : Came(k, ses, e) => Came(l, ses, e)
<1>1. Coming(l) = Coming(k) /\ Start(l).session = Start(k).session /\ Start(l).snapshot = Start(k).snapshot
  BY DEF Coming, Start
<1>2. \A ses, e : Based(k, ses, e) => Based(l, ses, e)
  BY <1>1 DEF Based
<1> QED  BY <1>1, <1>2 DEF Gapless, Came

\* A handler that ends.
LEMMA EndedKept ==
    ASSUME Typed, Ordered, NEW c \in Conns, NEW ses, \A s \in Ids : Grows(sessions[s], ses[s])
    PROVE  /\ Gapless(Ended(c), ses, sent)
           /\ client.conn = c => Came(Ended(c), ses, Handed) /\ Reading(client, Ended(c), ses, sent)
<1>1. Ended(c).at \in {"free", "done"} /\ Ended(c).frames \in {<<>>, conns[c].frames}
  BY EndedTyped
<1>2. ASSUME client.conn = c PROVE Framed(client, Ended(c), ses, sent) /\ ~Ended(c).gone
  <2>1. Framed(client, conns[c], sessions, sent) /\ Behind(client.snapshot, sessions, client.session)
        /\ ~conns[c].gone
    BY <1>2 DEF Ordered, Reading
  <2>2. Framed(client, conns[c], ses, sent)
    BY <2>1, FramedOn
  <2>3. Behind(client.snapshot, ses, client.session)
    BY <2>1, BehindOn
  <2>4. conns[c] \in Conn
    BY TypedParts
  <2>5. ~Ended(c).gone
    BY <2>1, <2>4 DEF Ended, Conn
  <2> QED  BY <1>1, <2>2, <2>3, <2>5, FramedEmpty, FramedSame
<1> QED  BY <1>1, <1>2, DoneKept

LEMMA LinkedOn ==
    ASSUME Ordered, NEW all, NEW ses,
           \A s \in Ids, c \in Conns : Feeds(ses[s], c) => Feeds(sessions[s], c),
           \A c \in Conns : conns[c].at \in {"open", "mark"} =>
               all[c].at \in {"open", "mark"} /\ all[c].session = conns[c].session
    PROVE  Linked(all, ses)
BY DEF Ordered, Linked

\* Sessions that are told nothing, or to detach or to end.
LEMMA ToldKeeps ==
    ASSUME Typed, Ordered, client' = client, sent' = sent,
           \A s \in Ids :
               \/ Alike(sessions[s], sessions'[s])
               \/ \E command \in Ends \union {<<"detach">>} : Alike(Commanded(s, command), sessions'[s]),
           \A c \in Conns :
               \/ conns'[c] = conns[c]
               \/ /\ Gapless(conns'[c], sessions', sent)
                  /\ client.conn = c => /\ Came(conns'[c], sessions', Handed)
                                        /\ Reading(client, conns'[c], sessions', sent)
                  /\ conns[c].at \in {"open", "mark"} =>
                       conns'[c].at \in {"open", "mark"} /\ conns'[c].session = conns[c].session
    PROVE  Ordered' /\ \A s \in Ids : Grows(sessions[s], sessions'[s])
<1>1. \A s \in Ids : /\ Sound(sessions'[s], sent) /\ Grows(sessions[s], sessions'[s])
                     /\ \A c \in Conns : Feeds(sessions'[s], c) => Feeds(sessions[s], c)
  BY Told
<1>2. Linked(conns', sessions')
  BY <1>1, LinkedOn
<1> QED  BY <1>1, <1>2, OrderedOn

LEMMA ToldGrows ==
    ASSUME Typed, Ordered,
           \A s \in Ids :
               \/ Alike(sessions[s], sessions'[s])
               \/ \E command \in Ends \union {<<"detach">>} : Alike(Commanded(s, command), sessions'[s])
    PROVE  \A s \in Ids : Grows(sessions[s], sessions'[s])
BY Told

LEMMA DismissedAlike ==
    ASSUME Typed, NEW s \in Ids, NEW command \in Commanding
    PROVE  /\ Alike(Commanded(s, command), Commanded(s, command))
           /\ Alike(Commanded(s, command), [Commanded(s, command) EXCEPT !.mapped = FALSE, !.detached_at = FALSE])
           /\ Alike(Commanded(s, command), [Commanded(s, command) EXCEPT !.detached_at = FALSE])
<1>1. Commanded(s, command) \in Session
  BY CommandedIs
<1> QED  BY <1>1 DEF Alike, Session

-----------------------------------------------------------------------------
(* The server's steps. *)

LEMMA NoHelloOrdered == \A c \in Conns : LiveInv /\ Ordered /\ NoHello(c) => Ordered'
<1> SUFFICES ASSUME NEW c \in Conns, LiveInv, Ordered, NoHello(c) PROVE Ordered'
  OBVIOUS
<1>1. Typed /\ conns \in [Conns -> Conn] /\ conns[c].at = "hello"
  BY DEF LiveInv, Typed, NoHello
<1>2. /\ sent' = sent /\ client' = client /\ sessions' = sessions
      /\ conns'[c] = Ended(c) /\ \A d \in Conns : d # c => conns'[d] = conns[d]
  BY <1>1 DEF NoHello
<1>3. \A s \in Ids : Alike(sessions[s], sessions'[s])
  BY <1>2 DEF Alike
<1>4. \A s \in Ids : Grows(sessions[s], sessions'[s])
  BY <1>1, <1>3, ToldGrows
<1> QED  BY <1>1, <1>2, <1>3, <1>4, EndedKept, ToldKeeps

\* To the others the sessions reap stops are alike, up to the command.
LEMMA ReapedAlike ==
    ASSUME Typed, NEW expired \in SUBSET Ids, sessions' = Reaped(expired)
    PROVE  \A s \in Ids :
               \/ Alike(sessions[s], sessions'[s])
               \/ \E command \in Ends \union {<<"detach">>} : Alike(Commanded(s, command), sessions'[s])
<1> SUFFICES ASSUME NEW s \in Ids
             PROVE  \/ Alike(sessions[s], sessions'[s])
                    \/ Alike(Commanded(s, <<"stop">>), sessions'[s])
  BY DEF Ends
<1>1. CASE s \in expired
  <2>1. sessions'[s] = [Commanded(s, <<"stop">>) EXCEPT !.mapped = FALSE, !.detached_at = FALSE]
    BY <1>1 DEF Reaped
  <2> QED  BY <2>1, DismissedAlike, CommandTypes
<1>2. CASE s \notin expired
  BY <1>2 DEF Alike, Reaped
<1> QED  BY <1>1, <1>2

LEMMA ReapOrdered == \A i \in Instances : LiveInv /\ Ordered /\ Reap(i) => Ordered'
<1> SUFFICES ASSUME NEW i \in Instances, LiveInv, Ordered, Reap(i) PROVE Ordered'
  OBVIOUS
<1>1. Typed /\ sent' = sent /\ client' = client /\ conns' = conns
  BY DEF LiveInv, Reap
<1>2. PICK expired \in SUBSET Ids : sessions' = Reaped(expired)
  BY DEF Reap, Reapable
<1> QED  BY <1>1, <1>2, ReapedAlike, ToldKeeps

LEMMA GreetOrdered == \A c \in Conns : LiveInv /\ Ordered /\ Greet(c) => Ordered'
<1> SUFFICES ASSUME NEW c \in Conns, LiveInv, Ordered, Greet(c) PROVE Ordered'
  OBVIOUS
<1> DEFINE k == conns[c]
           hello == Head(k.up)
           rest == Tail(k.up)
           on == [k EXCEPT !.at = "lookup", !.up = rest, !.session = hello.session, !.snapshot = hello.snapshot]
           told == <<DrainFrame(hello.snapshot, 0)>>
           away == IF k.gone THEN Ended(c) ELSE [Ended(c) EXCEPT !.frames = told]
           r == IF draining[k.inst] = "no" THEN on ELSE away
<1>1. Typed /\ k.at = "hello" /\ k \in Conn /\ sent \in Nat
  BY TypedParts DEF LiveInv, Greet
<1>2. PICK expired \in SUBSET Ids : sessions' = Reaped(expired)
  BY DEF Greet, Reapable
<1>3. conns' = [conns EXCEPT ![c] = r] /\ sent' = sent /\ client' = client
  BY DEF Greet
<1>4. conns'[c] = r /\ \A d \in Conns : d # c => conns'[d] = conns[d]
  <2> HIDE DEF r
  <2> QED  BY <1>1, <1>3 DEF Typed
<1>5. \A s \in Ids :
          \/ Alike(sessions[s], sessions'[s])
          \/ \E command \in Ends \union {<<"detach">>} : Alike(Commanded(s, command), sessions'[s])
  BY <1>1, <1>2, ReapedAlike
<1>6. \A s \in Ids : Grows(sessions[s], sessions'[s])
  BY <1>1, <1>5, ToldGrows
<1>7. Gapless(k, sessions', sent)
      /\ (client.conn = c => Came(k, sessions', Handed) /\ Reading(client, k, sessions', sent))
  <2>1. k.at \in Serving => k.session \in Ids
    BY <1>1 DEF Serving
  <2> QED  BY <1>6, <2>1, GaplessOn, CameOn, ReadingOn DEF Ordered
<1>8. /\ on.at = "lookup" /\ on.up = rest /\ on.session = hello.session /\ on.snapshot = hello.snapshot
      /\ on.frames = k.frames /\ on.gone = k.gone
  BY <1>1 DEF Conn
<1>9. Gapless(on, sessions', sent) /\ (client.conn = c => Came(on, sessions', Handed) /\ Reading(client, on, sessions', sent))
  <2> HIDE DEF on
  <2>1. /\ Coming(on) = Coming(k) /\ Start(on).snapshot = Start(k).snapshot
        /\ Start(on).session = Start(k).session
    BY <1>1, <1>8 DEF Coming, Start
  <2>2. \A e : Based(k, sessions', e) => Based(on, sessions', e)
    BY <1>1, <1>8, <2>1 DEF Based, Serving
  <2>3. Gapless(on, sessions', sent)
    BY <1>1, <1>7, <2>1, <2>2 DEF Gapless
  <2>4. ASSUME client.conn = c PROVE Came(on, sessions', Handed) /\ Reading(client, on, sessions', sent)
    <3>1. Came(on, sessions', Handed)
      BY <1>7, <2>1, <2>2, <2>4 DEF Came
    <3>2. Reading(client, k, sessions', sent)
      BY <1>7, <2>4
    <3>3. Framed(client, on, sessions', sent)
      BY <1>8, <3>2, FramedSame DEF Reading
    <3> QED  BY <1>1, <1>8, <2>1, <3>1, <3>2, <3>3 DEF Reading
  <2> QED  BY <2>3, <2>4
<1>10. /\ Gapless(away, sessions', sent)
       /\ client.conn = c => Came(away, sessions', Handed) /\ Reading(client, away, sessions', sent)
  <2>1. CASE k.gone
    BY <1>1, <1>6, <2>1, EndedKept
  <2>2. CASE ~k.gone
    <3>1. Ended(c) \in Conn /\ Ended(c).at \in {"free", "done"}
      BY <1>1, EndedTyped
    <3>2. away.at \in {"free", "done"} /\ away.frames = told /\ away.gone = Ended(c).gone
      BY <2>2, <3>1 DEF Conn
    <3>3. ASSUME client.conn = c PROVE Framed(client, away, sessions', sent) /\ ~away.gone
      <4> DEFINE f == DrainFrame(hello.snapshot, 0)
      <4>1. /\ Framed(client, k, sessions', sent) /\ k.frames = <<>> /\ hello.snapshot = client.snapshot
            /\ hello.session = client.session
        BY <1>1, <1>7, <3>3 DEF Reading, Start
      <4>2. ~Ended(c).gone
        BY <1>1, <1>6, <3>3, EndedKept DEF Reading
      <4>3. Prefix(client.snapshot, sent) /\ Behind(client.snapshot, sessions', client.session)
        <5>1. Reader(client, k) = client.session
          BY <4>1 DEF Reader, Greeted
        <5> QED  BY <4>1, <5>1 DEF Ordered, Framed
      <4>4. f.frame = "drain" /\ f.snapshot = client.snapshot /\ f.acknowledged = 0
        BY <4>1 DEF DrainFrame
      <4> HIDE DEF f
      <4>5. told = Append(k.frames, f)
        <5>1. told = <<f>>
          BY DEF f
        <5> HIDE DEF told
        <5> QED  BY <4>1, <5>1
      <4>6. Reader(client, k) = client.session /\ Shows(k) = {}
        BY <4>1, EmptyTyped DEF Reader, Greeted, Shows
      <4>7. k.frames \in Seq({f}) /\ f \in {f}
        BY <4>1, EmptyTyped
      <4> HIDE DEF away, told, k, hello
      <4>8. /\ Prefix(f.snapshot, sent) /\ Reaches(f.snapshot, f.acknowledged) /\ f.frame # "welcome"
            /\ Within(client.snapshot, f.snapshot) /\ Behind(f.snapshot, sessions', Reader(client, k))
            /\ \A i \in Shows(k) : Within(k.frames[i].snapshot, f.snapshot)
        BY <4>3, <4>4, <4>6, WithinOn, NothingReached
      <4>9. away.frames = Append(k.frames, f)
        BY <3>2, <4>5
      <4>10. Framed(client, away, sessions', sent)
        BY <4>1, <4>7, <4>8, <4>9, FramedAppend
      <4> QED  BY <3>2, <4>2, <4>10
    <3> HIDE DEF away
    <3> QED  BY <3>2, <3>3, DoneKept
  <2> QED  BY <2>1, <2>2
<1> HIDE DEF on, away
<1> QED  BY <1>1, <1>3, <1>4, <1>5, <1>9, <1>10, ToldKeeps

LEMMA CloseOrdered == \A c \in Conns : LiveInv /\ Ordered /\ Close(c) => Ordered'
<1> SUFFICES ASSUME NEW c \in Conns, LiveInv, Ordered, Close(c) PROVE Ordered'
  OBVIOUS
<1> DEFINE k == conns[c]
           s == k.session
           r == [k EXCEPT !.at = "mark"]
<1>1. Typed /\ k.at = "open" /\ k \in Conn /\ s \in Ids
  BY TypedParts DEF LiveInv, Close, Shaped, Serving
<1>2. /\ sent' = sent /\ client' = client /\ conns' = [conns EXCEPT ![c] = r]
      /\ sessions' = [sessions EXCEPT ![s] = Commanded(s, <<"detach">>)]
  BY DEF Close
<1>3. /\ r.at = "mark" /\ r.up = k.up /\ r.session = k.session /\ r.snapshot = k.snapshot
      /\ r.frames = k.frames /\ r.gone = k.gone
  BY <1>1 DEF Conn
<1> HIDE DEF r
<1>4. conns'[c] = r /\ \A d \in Conns : d # c => conns'[d] = conns[d]
  BY <1>1, <1>2 DEF Typed
<1>5. \A q \in Ids :
          \/ Alike(sessions[q], sessions'[q])
          \/ \E command \in Ends \union {<<"detach">>} : Alike(Commanded(q, command), sessions'[q])
  <2>1. sessions'[s] = Commanded(s, <<"detach">>) /\ \A q \in Ids : q # s => sessions'[q] = sessions[q]
    BY <1>1, <1>2 DEF Typed
  <2> QED  BY <2>1, SelfGrows DEF Alike
<1>6. \A q \in Ids : Grows(sessions[q], sessions'[q])
  BY <1>1, <1>5, ToldGrows
<1>7. Gapless(k, sessions', sent)
      /\ (client.conn = c => Came(k, sessions', Handed) /\ Reading(client, k, sessions', sent))
  BY <1>1, <1>6, GaplessOn, CameOn, ReadingOn DEF Ordered
<1>8. Coming(r) = Coming(k) /\ \A e : Based(k, sessions', e) => Based(r, sessions', e)
  BY <1>1, <1>3 DEF Coming, Based, Serving
<1>9. Gapless(r, sessions', sent)
  BY <1>1, <1>3, <1>7, <1>8 DEF Gapless
<1>10. ASSUME client.conn = c PROVE Came(r, sessions', Handed) /\ Reading(client, r, sessions', sent)
  <2>1. Came(r, sessions', Handed)
    BY <1>7, <1>8, <1>10 DEF Came
  <2>2. Reading(client, k, sessions', sent)
    BY <1>7, <1>10
  <2>3. Framed(client, r, sessions', sent) /\ Reader(client, r) = Reader(client, k)
    BY <1>3, <2>2, FramedSame DEF Reading
  <2> QED  BY <1>1, <1>3, <2>1, <2>2, <2>3 DEF Reading
<1> QED  BY <1>1, <1>2, <1>3, <1>4, <1>5, <1>9, <1>10, ToldKeeps

LEMMA StartDrainOrdered == LiveInv /\ Ordered /\ StartDrain => Ordered'
<1> SUFFICES ASSUME LiveInv, Ordered, StartDrain PROVE Ordered'
  OBVIOUS
<1>1. sent' = sent /\ client' = client /\ conns' = conns /\ sessions' = sessions
  BY DEF StartDrain
<1> QED  BY <1>1, ToldKeeps DEF LiveInv, Alike

LEMMA DrainSessionsOrdered == \A i \in Instances : LiveInv /\ Ordered /\ DrainSessions(i) => Ordered'
<1> SUFFICES ASSUME NEW i \in Instances, LiveInv, Ordered, DrainSessions(i) PROVE Ordered'
  OBVIOUS
<1>1. /\ sent' = sent /\ client' = client /\ conns' = conns /\ Typed
      /\ sessions' = [s \in Ids |-> IF sessions[s].mapped /\ sessions[s].home = i
                                      THEN [Commanded(s, <<"drain">>) EXCEPT !.mapped = FALSE, !.detached_at = FALSE]
                                      ELSE sessions[s]]
  BY DEF DrainSessions, LiveInv
<1>2. \A s \in Ids : \/ Alike(sessions[s], sessions'[s])
                     \/ Alike(Commanded(s, <<"drain">>), sessions'[s])
  <2> SUFFICES ASSUME NEW s \in Ids
               PROVE  Alike(sessions[s], sessions'[s]) \/ Alike(Commanded(s, <<"drain">>), sessions'[s])
    OBVIOUS
  <2>1. CASE sessions[s].mapped /\ sessions[s].home = i
    BY <1>1, <2>1, DismissedAlike, CommandTypes
  <2>2. CASE ~(sessions[s].mapped /\ sessions[s].home = i)
    BY <1>1, <2>2 DEF Alike
  <2> QED  BY <2>1, <2>2
<1> QED  BY <1>1, <1>2, ToldKeeps DEF Ends

LEMMA DropConnectionsOrdered == \A i \in Instances : LiveInv /\ Ordered /\ DropConnections(i) => Ordered'
<1> SUFFICES ASSUME NEW i \in Instances, LiveInv, Ordered, DropConnections(i) PROVE Ordered'
  OBVIOUS
<1>1. /\ sent' = sent /\ client' = client /\ conns' = conns /\ Typed
      /\ sessions' = [s \in Ids |-> IF sessions[s].mapped /\ sessions[s].home = i
                                      THEN Commanded(s, <<"detach">>) ELSE sessions[s]]
  BY DEF DropConnections, LiveInv
<1>2. \A s \in Ids : Alike(sessions[s], sessions'[s]) \/ Alike(Commanded(s, <<"detach">>), sessions'[s])
  BY <1>1 DEF Alike
<1> QED  BY <1>1, <1>2, ToldKeeps

\* One session is told something, the others nothing.
LEMMA OneTold ==
    ASSUME Typed, Ordered, NEW s \in Ids, NEW l, Sound(l, sent), Grows(sessions[s], l),
           sessions' = [sessions EXCEPT ![s] = l]
    PROVE  /\ sessions'[s] = l /\ \A q \in Ids : q # s => sessions'[q] = sessions[q]
           /\ \A q \in Ids : Sound(sessions'[q], sent) /\ Grows(sessions[q], sessions'[q])
<1>1. sessions'[s] = l /\ \A q \in Ids : q # s => sessions'[q] = sessions[q]
  BY DEF Typed
<1>2. \A q \in Ids : Sound(sessions[q], sent) /\ Grows(sessions[q], sessions[q])
  BY TypedParts, SelfGrows DEF Ordered
<1> QED  BY <1>1, <1>2

\* What holds of a connection while sessions grow.
LEMMA ConnOn ==
    ASSUME Typed, Ordered, NEW c \in Conns, \A s \in Ids : Grows(sessions[s], sessions'[s])
    PROVE  /\ Gapless(conns[c], sessions', sent)
           /\ client.conn = c => Came(conns[c], sessions', Handed) /\ Reading(client, conns[c], sessions', sent)
<1>1. conns[c].at \in Serving => conns[c].session \in Ids
  BY DEF Typed, Shaped
<1> QED  BY <1>1, GaplessOn, CameOn, ReadingOn DEF Ordered

LEMMA AttachOrdered == \A c \in Conns : LiveInv /\ Ordered /\ Attach(c) => Ordered'
<1> SUFFICES ASSUME NEW c \in Conns, LiveInv, Ordered, Attach(c) PROVE Ordered'
  OBVIOUS
<1> DEFINE k == conns[c]
           s == k.session
           l(frames) == [Commanded(s, <<"attach", frames>>) EXCEPT !.detached_at = FALSE]
           fs == IF k.gone THEN k.frames ELSE Append(k.frames, Welcome(s))
           open == [k EXCEPT !.at = "open", !.frames = fs]
<1>1. Typed /\ k.at = "attach" /\ sent' = sent /\ client' = client
  BY DEF LiveInv, Attach
<1>2. k \in Conn /\ s \in Ids
  BY <1>1, TypedParts DEF Shaped, Serving
<1>3. PICK frames \in {c, Closed} :
          /\ sessions' = [sessions EXCEPT ![s] = l(frames)]
          /\ \/ conns' = [conns EXCEPT ![c] = open]
             \/ conns' = [conns EXCEPT ![c] = Ended(c)] /\ frames = Closed
  <2>1. CASE /\ conns' = [conns EXCEPT ![c].at = "open",
                                       ![c].frames = IF conns[c].gone THEN conns[c].frames
                                                     ELSE Append(conns[c].frames, Welcome(s))]
             /\ sessions' = [sessions EXCEPT ![s] = l(c)]
    <3>1. conns' = [conns EXCEPT ![c] = open]
      BY <2>1
    <3> HIDE DEF open, l
    <3> QED  BY <2>1, <3>1
  <2>2. CASE /\ conns' = [conns EXCEPT ![c] = Ended(c)]
             /\ sessions' = [sessions EXCEPT ![s] = l(Closed)]
    <3> HIDE DEF open, l
    <3> QED  BY <2>2
  <2> QED  BY <2>1, <2>2 DEF Attach
<1> DEFINE command == <<"attach", frames>>
           q == l(frames)
<1>4. command \in Commanding /\ command[1] # "event"
  BY CommandTypes
<1>5. Alike(Commanded(s, command), q)
  BY <1>1, <1>2, <1>4, DismissedAlike
<1> HIDE DEF q, l, command
<1>6. /\ Sound(q, sent) /\ Grows(sessions[s], q)
      /\ \A d \in Conns : Feeds(q, d) => Feeds(sessions[s], d) \/ command = <<"attach", d>>
  BY <1>1, <1>2, <1>4, <1>5, CommandKept
<1>7. /\ sessions'[s] = q /\ \A x \in Ids : x # s => sessions'[x] = sessions[x]
      /\ \A x \in Ids : Sound(sessions'[x], sent) /\ Grows(sessions[x], sessions'[x])
  BY <1>1, <1>2, <1>3, <1>6, OneTold DEF q
<1>8. /\ Gapless(k, sessions', sent)
      /\ client.conn = c => Came(k, sessions', Handed) /\ Reading(client, k, sessions', sent)
  BY <1>1, <1>7, ConnOn
<1>9. \A x \in Ids, d \in Conns : Feeds(sessions'[x], d) =>
          \/ d # c /\ conns[d].at \in {"open", "mark"} /\ conns[d].session = x
          \/ d = c /\ x = s /\ frames = c
  <2> SUFFICES ASSUME NEW x \in Ids, NEW d \in Conns, Feeds(sessions'[x], d)
               PROVE  \/ d # c /\ conns[d].at \in {"open", "mark"} /\ conns[d].session = x
                      \/ d = c /\ x = s /\ frames = c
    OBVIOUS
  <2>1. Feeds(sessions[x], d) \/ (x = s /\ command = <<"attach", d>>)
    BY <1>6, <1>7
  <2>2. CASE Feeds(sessions[x], d)
    BY <1>1, <2>2 DEF Ordered, Linked
  <2>3. CASE x = s /\ command = <<"attach", d>>
    <3>1. frames = d
      BY <2>3 DEF command
    <3> QED  BY <1>3, <2>3, <3>1, LiveTypes
  <2> QED  BY <2>1, <2>2, <2>3
<1>10. fs = k.frames \/ fs = Append(k.frames, Welcome(s))
  OBVIOUS
<1>11. CASE conns' = [conns EXCEPT ![c] = open]
  <2>1. /\ open.at = "open" /\ open.up = k.up /\ open.session = k.session /\ open.snapshot = k.snapshot
        /\ open.frames = fs /\ open.gone = k.gone
    <3> HIDE DEF fs
    <3> QED  BY <1>2 DEF Conn
  <2> HIDE DEF open
  <2>2. conns'[c] = open /\ \A d \in Conns : d # c => conns'[d] = conns[d]
    BY <1>1, <1>11 DEF Typed
  <2>3. Linked(conns', sessions')
    BY <1>9, <2>1, <2>2 DEF Linked
  <2>4. Coming(open) = Coming(k) /\ \A e : Based(k, sessions', e) => Based(open, sessions', e)
    BY <1>1, <2>1 DEF Coming, Based, Serving
  <2>5. Gapless(open, sessions', sent)
    BY <1>1, <1>8, <2>1, <2>4 DEF Gapless
  <2>6. ASSUME client.conn = c PROVE Came(open, sessions', Handed) /\ Reading(client, open, sessions', sent)
    <3>1. Came(open, sessions', Handed)
      BY <1>8, <2>4, <2>6 DEF Came
    <3>2. k.frames = <<>> /\ ~k.gone /\ Behind(client.snapshot, sessions', s)
      BY <1>1, <1>8, <2>6 DEF Reading
    <3>3. open.frames = Append(<<>>, Welcome(s))
      BY <2>1, <3>2
    <3>4. Framed(client, open, sessions', sent) /\ Reader(client, open) = s
      <4> HIDE DEF s, k
      <4> QED  BY <1>2, <3>2, <3>3, FramedWelcome
    <3> QED  BY <2>1, <3>1, <3>2, <3>4 DEF Reading
  <2> HIDE DEF k
  <2> QED  BY <1>1, <1>7, <2>2, <2>3, <2>5, <2>6, OrderedOn
<1>12. CASE conns' = [conns EXCEPT ![c] = Ended(c)] /\ frames = Closed
  <2>1. conns'[c] = Ended(c) /\ \A d \in Conns : d # c => conns'[d] = conns[d]
    BY <1>1, <1>12 DEF Typed
  <2>2. Linked(conns', sessions')
    BY <1>9, <1>12, <2>1, LiveTypes DEF Linked
  <2> HIDE DEF k
  <2> QED  BY <1>1, <1>7, <2>1, <2>2, EndedKept, OrderedOn
<1> QED  BY <1>3, <1>11, <1>12

LEMMA ForwardOrdered == \A c \in Conns : LiveInv /\ Ordered /\ Forward(c) => Ordered'
<1> SUFFICES ASSUME NEW c \in Conns, LiveInv, Ordered, Forward(c) PROVE Ordered'
  OBVIOUS
<1> DEFINE k == conns[c]
           s == k.session
           e == Head(k.up).sequence
           rest == Tail(k.up)
           q == Commanded(s, <<"event", e>>)
           r == [k EXCEPT !.up = rest]
<1>1. /\ Typed /\ k.at = "open" /\ k.up # <<>> /\ conns' = [conns EXCEPT ![c] = r]
      /\ sessions' = [sessions EXCEPT ![s] = q] /\ sent' = sent /\ client' = client
  BY DEF LiveInv, Forward
<1>2. k \in Conn /\ k.up \in Seq(EventFrames) /\ s \in Ids
  BY <1>1, TypedParts DEF Shaped, Serving
<1>3. /\ Head(k.up) \in EventFrames /\ 1 \in DOMAIN k.up /\ Head(k.up) = k.up[1]
      /\ \A i \in DOMAIN rest : i + 1 \in DOMAIN k.up /\ rest[i] = k.up[i + 1]
      /\ \A i \in DOMAIN k.up : i = 1 \/ (i - 1 \in DOMAIN rest /\ rest[i - 1] = k.up[i])
      /\ DOMAIN k.up \subseteq Nat
  BY <1>1, <1>2, Tailed
<1>4. e \in Sent /\ DOMAIN rest \subseteq Nat
  <2>1. e \in Sent
    BY <1>3 DEF EventFrames
  <2>2. rest \in Seq(EventFrames)
    BY <1>1, <1>2, Tailed
  <2> HIDE DEF rest
  <2> QED  BY <2>1, <2>2, LenProperties
<1>5. Coming(k) = k.up /\ k.at \in Serving
  BY <1>1 DEF Coming, Serving
<1>6. sessions[s].alive => Holds(sessions[s], e - 1)
  <2>1. Gapless(k, sessions, sent)
    BY DEF Ordered
  <2>2. Based(k, sessions, k.up[1].sequence - 1)
    <3> HIDE DEF k
    <3> QED  BY <1>1, <1>3, <1>5, <2>1 DEF Gapless
  <2> QED  BY <1>3, <1>5, <2>2 DEF Based
<1>7. /\ Sound(q, sent) /\ Grows(sessions[s], q)
      /\ \A d \in Conns : Feeds(q, d) => Feeds(sessions[s], d)
      /\ q.alive => Holds(q, e)
  <2> DEFINE command == <<"event", e>>
  <2>1. command \in Commanding /\ command[2] = e /\ \A d : command # <<"attach", d>>
    BY <1>4, CommandTypes
  <2>2. Alike(Commanded(s, command), q)
    BY DEF Alike
  <2> HIDE DEF e, s, q, command
  <2>3. sessions[s].alive /\ command[1] = "event" => Holds(sessions[s], command[2] - 1)
    BY <1>6, <2>1
  <2>4. command = <<"event", e>>
    BY DEF command
  <2> QED  BY <1>1, <1>2, <2>1, <2>2, <2>3, <2>4, CommandKept
<1> HIDE DEF e, rest, q
<1>8. /\ sessions'[s] = q /\ \A x \in Ids : x # s => sessions'[x] = sessions[x]
      /\ \A x \in Ids : Sound(sessions'[x], sent) /\ Grows(sessions[x], sessions'[x])
  BY <1>1, <1>2, <1>7, OneTold
<1>9. /\ Gapless(k, sessions', sent)
      /\ client.conn = c => Came(k, sessions', Handed) /\ Reading(client, k, sessions', sent)
  BY <1>1, <1>8, ConnOn
<1>10. /\ r.at = k.at /\ r.up = rest /\ r.session = k.session /\ r.snapshot = k.snapshot
       /\ r.frames = k.frames /\ r.gone = k.gone
  BY <1>2 DEF Conn
<1> HIDE DEF r
<1>11. conns'[c] = r /\ \A d \in Conns : d # c => conns'[d] = conns[d]
  BY <1>1 DEF Typed
<1>12. Linked(conns', sessions')
  <2>1. \A x \in Ids, d \in Conns : Feeds(sessions'[x], d) => Feeds(sessions[x], d)
    BY <1>7, <1>8
  <2>2. \A d \in Conns : conns[d].at \in {"open", "mark"} =>
            conns'[d].at \in {"open", "mark"} /\ conns'[d].session = conns[d].session
    BY <1>10, <1>11
  <2> QED  BY <2>1, <2>2, LinkedOn
<1>13. Coming(r) = rest /\ (\A f : Based(k, sessions', f) => Based(r, sessions', f)) /\ Based(r, sessions', e)
  <2>1. Coming(r) = rest
    BY <1>1, <1>10 DEF Coming
  <2>2. \A f : Based(r, sessions', f) <=> (q.alive => Holds(q, f))
    BY <1>1, <1>5, <1>8, <1>10 DEF Based
  <2>3. \A f : Based(k, sessions', f) <=> (q.alive => Holds(q, f))
    BY <1>1, <1>5, <1>8 DEF Based
  <2> QED  BY <1>7, <2>1, <2>2, <2>3
<1> HIDE DEF k
<1>14. Gapless(r, sessions', sent)
  <2>1. ASSUME NEW i \in DOMAIN rest
        PROVE  \/ Based(r, sessions', rest[i].sequence - 1)
               \/ \E j \in 1..(i - 1) : rest[j].sequence = rest[i].sequence - 1
    <3>1. i + 1 \in DOMAIN k.up /\ rest[i] = k.up[i + 1] /\ i \in Nat
      BY <1>3, <1>4
    <3>2. CASE Based(k, sessions', rest[i].sequence - 1)
      BY <1>13, <3>2
    <3>3. ASSUME NEW j \in 1..((i + 1) - 1), k.up[j].sequence = rest[i].sequence - 1
          PROVE  \/ Based(r, sessions', rest[i].sequence - 1)
                 \/ \E h \in 1..(i - 1) : rest[h].sequence = rest[i].sequence - 1
      <4>1. CASE j = 1
        <5>1. rest[i].sequence - 1 = e
          BY <1>3, <3>3, <4>1 DEF e
        <5> QED  BY <1>13, <5>1
      <4>2. CASE j # 1
        <5>1. j - 1 \in 1..(i - 1)
          BY <3>1, <4>2
        <5>2. (j - 1) \in 1..(i - 1) /\ rest[j - 1] = k.up[j]
          <6>1. k.up \in Seq(EventFrames)
            BY <1>2
          <6>2. DOMAIN k.up = 1..Len(k.up) /\ Len(k.up) \in Nat
            BY <6>1, LenProperties
          <6>3. j \in DOMAIN k.up
            BY <3>1, <6>2
          <6> QED  BY <1>3, <4>2, <5>1, <6>3
        <5> QED  BY <3>3, <5>2
      <4> QED  BY <4>1, <4>2
    <3>4. \/ Based(k, sessions', k.up[i + 1].sequence - 1)
          \/ \E j \in 1..((i + 1) - 1) : k.up[j].sequence = k.up[i + 1].sequence - 1
      BY <1>1, <1>5, <1>9, <3>1 DEF Gapless
    <3> QED  BY <3>1, <3>2, <3>3, <3>4
  <2>2. r.at \notin {"hello", "lookup"}
    BY <1>1, <1>10
  <2> QED  BY <1>13, <2>1, <2>2 DEF Gapless
<1>15. ASSUME client.conn = c PROVE Came(r, sessions', Handed) /\ Reading(client, r, sessions', sent)
  <2>1. Came(k, sessions', Handed) /\ Reading(client, k, sessions', sent)
    BY <1>9, <1>15
  <2>2. ASSUME NEW i \in DOMAIN k.up, k.up[i].sequence = Handed PROVE Came(r, sessions', Handed)
    <3>1. CASE i = 1
      <4>1. Handed = e
        BY <1>3, <2>2, <3>1 DEF e
      <4> QED  BY <1>13, <4>1 DEF Came
    <3>2. CASE i # 1
      <4>1. i - 1 \in DOMAIN rest /\ rest[i - 1].sequence = Handed
        BY <1>3, <2>2, <3>2
      <4> QED  BY <1>13, <4>1 DEF Came
    <3> QED  BY <3>1, <3>2
  <2>3. Came(r, sessions', Handed)
    BY <1>5, <1>13, <2>1, <2>2 DEF Came
  <2>4. Framed(client, r, sessions', sent) /\ Reader(client, r) = Reader(client, k)
    BY <1>10, <2>1, FramedSame DEF Reading
  <2>5. r.at = "open" /\ k.at = "open"
    BY <1>1, <1>10
  <2> QED  BY <1>10, <2>1, <2>3, <2>4, <2>5 DEF Reading
<1> QED  BY <1>1, <1>8, <1>11, <1>12, <1>14, <1>15, OrderedOn

LEMMA MarkDetachedOrdered == \A c \in Conns : LiveInv /\ Ordered /\ MarkDetached(c) => Ordered'
<1> SUFFICES ASSUME NEW c \in Conns, LiveInv, Ordered, MarkDetached(c) PROVE Ordered'
  OBVIOUS
<1> DEFINE s == conns[c].session
           all == IF Marks(s) THEN [sessions EXCEPT ![s].detached_at = TRUE] ELSE sessions
<1>1. /\ Typed /\ sent' = sent /\ client' = client /\ conns[c].at = "mark"
      /\ conns' = [conns EXCEPT ![c] = Ended(c)] /\ sessions' = ReceiverDropped(c, all)
  BY DEF LiveInv, MarkDetached
<1>2. s \in Ids /\ sessions \in [Ids -> Session]
  BY <1>1, TypedParts DEF Shaped, Serving, Typed
<1>3. all \in [Ids -> Session] /\ \A x \in Ids : Alike(sessions[x], all[x])
  <2>1. CASE ~sessions[s].mapped
    BY <1>2, <2>1 DEF Marks, Alike
  <2>2. CASE sessions[s].mapped
    <3> DEFINE q == [sessions[s] EXCEPT !.detached_at = TRUE]
    <3>1. q \in Session /\ Alike(sessions[s], q)
      <4>1. sessions[s] \in Session
        BY <1>2
      <4> QED  BY <4>1 DEF Session, Alike
    <3>2. all = [sessions EXCEPT ![s] = q]
      BY <2>2 DEF Marks
    <3> HIDE DEF q, all, s
    <3>3. all \in [Ids -> Session] /\ all[s] = q /\ \A x \in Ids : x # s => all[x] = sessions[x]
      BY <1>2, <3>1, <3>2
    <3> QED  BY <3>1, <3>3 DEF Alike
  <2> QED  BY <2>1, <2>2
<1> HIDE DEF all
<1>4. /\ sessions' \in [Ids -> Session]
      /\ \A x \in Ids :
             /\ sessions'[x].alive = all[x].alive
             /\ sessions'[x].applied = all[x].applied /\ sessions'[x].acknowledged = all[x].acknowledged
             /\ DOMAIN sessions'[x].commands = DOMAIN all[x].commands
             /\ \A i \in DOMAIN all[x].commands :
                    \/ sessions'[x].commands[i] = all[x].commands[i]
                    \/ all[x].commands[i] = <<"attach", c>> /\ sessions'[x].commands[i] = <<"attach", Closed>>
  BY <1>1, <1>3, ReceiverDroppedIs
<1>5. ASSUME NEW x \in Ids
      PROVE  /\ sessions'[x].outbound = IF all[x].outbound = c THEN Closed ELSE all[x].outbound
             /\ \A i \in DOMAIN all[x].commands : sessions'[x].commands[i] # <<"attach", c>>
  <2> DEFINE cs == [i \in DOMAIN all[x].commands |->
                       IF all[x].commands[i] = <<"attach", c>> THEN <<"attach", Closed>> ELSE all[x].commands[i]]
             out == IF all[x].outbound = c THEN Closed ELSE all[x].outbound
  <2>1. sessions'[x] = [all[x] EXCEPT !.outbound = out, !.commands = cs]
    BY <1>1 DEF ReceiverDropped
  <2>2. \A i \in DOMAIN all[x].commands : cs[i] # <<"attach", c>>
    <3>1. <<"attach", Closed>> # <<"attach", c>>
      BY LiveTypes
    <3> QED  BY <3>1
  <2>3. all[x] \in Session
    BY <1>3
  <2> HIDE DEF cs, out
  <2>4. sessions'[x].outbound = out /\ sessions'[x].commands = cs
    BY <2>1, <2>3 DEF Session
  <2> QED  BY <2>2, <2>4 DEF out
<1>6. ASSUME NEW x \in Ids
      PROVE  /\ Sound(sessions'[x], sent) /\ Grows(sessions[x], sessions'[x])
             /\ ~Feeds(sessions'[x], c)
             /\ \A d \in Conns : Feeds(sessions'[x], d) => Feeds(sessions[x], d)
  <2> DEFINE p == sessions[x]
             q == sessions'[x]
  <2>1. /\ Sound(p, sent) /\ p.commands \in Seq(Commanding)
    BY <1>1, TypedParts DEF Ordered
  <2>2. /\ q.alive = p.alive /\ q.applied = p.applied /\ q.acknowledged = p.acknowledged
        /\ DOMAIN q.commands = DOMAIN p.commands
        /\ \A i \in DOMAIN p.commands :
               \/ q.commands[i] = p.commands[i]
               \/ p.commands[i] = <<"attach", c>> /\ q.commands[i] = <<"attach", Closed>>
        /\ q.outbound = IF p.outbound = c THEN Closed ELSE p.outbound
        /\ \A i \in DOMAIN p.commands : q.commands[i] # <<"attach", c>>
    BY <1>3, <1>4, <1>5 DEF Alike
  <2>3. c # None /\ c # Closed /\ \A d \in Conns : d # Closed
    BY LiveTypes
  <2> HIDE DEF p, q
  <2>4. ~p.alive => p.commands = <<>> /\ p.outbound = None
    BY <2>1 DEF Sound
  <2>5. ~q.alive => q.commands = <<>> /\ q.outbound = None
    <3>1. q.commands \in Seq(Commanding)
      BY <1>4 DEF Session, q
    <3>2. DOMAIN q.commands = {} => q.commands = <<>>
      <4> HIDE DEF q
      <4>1. DOMAIN q.commands = 1..Len(q.commands) /\ Len(q.commands) \in Nat
        BY <3>1, LenProperties
      <4>2. DOMAIN q.commands = {} => Len(q.commands) = 0
        <5>1. Len(q.commands) # 0 => 1 \in DOMAIN q.commands
          BY <4>1
        <5> QED  BY <5>1
      <4> QED  BY <3>1, <4>2, EmptySeq
    <3> QED  BY <2>2, <2>3, <2>4, <3>2, EmptyTyped
  <2>6. \A i \in DOMAIN q.commands : q.commands[i][1] = "event" => q.commands[i] = p.commands[i]
    BY <2>2
  <2>7. \A i \in DOMAIN q.commands : \A f : p.commands[i] = <<"event", f>> => q.commands[i] = <<"event", f>>
    BY <2>2
  <2>8. Sound(q, sent)
    <3>1. ASSUME NEW i \in DOMAIN q.commands, q.commands[i][1] = "event"
          PROVE  \/ Reaches(q.applied, q.commands[i][2] - 1)
                 \/ \E j \in 1..(i - 1) : q.commands[j] = <<"event", q.commands[i][2] - 1>>
      <4>1. \/ Reaches(p.applied, p.commands[i][2] - 1)
            \/ \E j \in 1..(i - 1) : p.commands[j] = <<"event", p.commands[i][2] - 1>>
        BY <2>1, <2>2, <2>6, <3>1 DEF Sound
      <4>2. \A j \in 1..(i - 1) : j \in DOMAIN q.commands
        <5>1. DOMAIN p.commands = 1..Len(p.commands) /\ Len(p.commands) \in Nat
          BY <2>1, LenProperties
        <5> QED  BY <2>2, <5>1
      <4> QED  BY <2>2, <2>6, <2>7, <3>1, <4>1, <4>2
    <3> QED  BY <2>1, <2>2, <2>5, <3>1 DEF Sound
  <2>9. Grows(p, q)
    <3>1. ASSUME NEW i \in DOMAIN p.commands, p.commands[i][1] = "event" PROVE Holds(q, p.commands[i][2])
      <4>1. p.commands[i] = <<"event", p.commands[i][2]>>
        <5>1. p.commands[i] \in Commanding
          BY <2>1, LenProperties
        <5> QED  BY <3>1, <5>1, CommandIs
      <4> QED  BY <2>2, <2>7, <4>1 DEF Holds
    <3> QED  BY <2>2, <3>1, WithinOn DEF Grows
  <2>10. ~Feeds(q, c) /\ \A d \in Conns : Feeds(q, d) => Feeds(p, d)
    <3>1. \A d \in Conns : <<"attach", Closed>> # <<"attach", d>>
      BY <2>3
    <3> QED  BY <2>2, <2>3, <3>1 DEF Feeds
  <2> QED  BY <2>8, <2>9, <2>10 DEF p, q
<1>7. conns'[c] = Ended(c) /\ \A d \in Conns : d # c => conns'[d] = conns[d]
  BY <1>1 DEF Typed
<1>8. Linked(conns', sessions')
  <2>1. \A x \in Ids, d \in Conns : Feeds(sessions'[x], d) =>
            d # c /\ conns[d].at \in {"open", "mark"} /\ conns[d].session = x
    BY <1>6 DEF Ordered, Linked
  <2> QED  BY <1>7, <2>1 DEF Linked
<1> QED  BY <1>1, <1>6, <1>7, <1>8, EndedKept, OrderedOn

LEMMA LookupOrdered == \A c \in Conns : LiveInv /\ Ordered /\ Lookup(c) => Ordered'
<1> SUFFICES ASSUME NEW c \in Conns, LiveInv, Ordered, Lookup(c) PROVE Ordered'
  OBVIOUS
<1> DEFINE k == conns[c]
<1>1. Typed /\ k.at = "lookup" /\ sent' = sent /\ client' = client
  BY DEF LiveInv, Lookup
<1>2. k \in Conn /\ k.snapshot \in Seq(Events) /\ sent \in Nat
  BY <1>1, TypedParts
<1>3. /\ Coming(k) = k.up /\ Start(k) = k /\ \A ses, e : Based(k, ses, e) <=> Reaches(k.snapshot, e)
  BY <1>1 DEF Coming, Start, Based, Serving
<1>4. /\ Prefix(k.snapshot, sent) /\ Behind(k.snapshot, sessions, k.session)
      /\ Gapless(k, sessions, sent)
      /\ client.conn = c => Came(k, sessions, Handed) /\ Reading(client, k, sessions, sent)
  BY <1>1, <1>3 DEF Ordered, Gapless
<1>5. ASSUME NEW s \in Ids, NEW r, NEW ses,
             r.at = "attach", r.up = k.up, r.session = s, r.frames = k.frames, r.gone = k.gone,
             ses[s].alive => Within(k.snapshot, ses[s].applied),
             Behind(client.snapshot, ses, client.session)
      PROVE  /\ Gapless(r, ses, sent)
             /\ client.conn = c => Came(r, ses, Handed) /\ Reading(client, r, ses, sent)
  <2>1. Coming(r) = Coming(k) /\ \A e : Based(k, sessions, e) => Based(r, ses, e)
    BY <1>3, <1>5, WithinOn DEF Coming, Based, Serving, Holds
  <2>2. Gapless(r, ses, sent)
    BY <1>1, <1>4, <1>5, <2>1 DEF Gapless
  <2>3. ASSUME client.conn = c PROVE Came(r, ses, Handed) /\ Reading(client, r, ses, sent)
    <3>1. Came(r, ses, Handed)
      BY <1>4, <2>1, <2>3 DEF Came
    <3>2. /\ k.frames = <<>> /\ ~k.gone /\ k.snapshot = client.snapshot /\ k.session = client.session
      BY <1>1, <1>3, <1>4, <2>3 DEF Reading
    <3>3. Framed(client, r, ses, sent)
      BY <1>5, <3>2, FramedEmpty
    <3>4. Behind(client.snapshot, ses, r.session)
      BY <1>5, <3>2 DEF Behind
    <3> QED  BY <1>5, <3>1, <3>2, <3>3, <3>4 DEF Reading
  <2> QED  BY <2>2, <2>3
<1>6. CASE k.session # None /\ sessions[k.session].mapped /\ sessions[k.session].home = k.inst
  <2> DEFINE r == [k EXCEPT !.at = "attach", !.snapshot = <<>>]
  <2>1. conns' = [conns EXCEPT ![c] = r] /\ sessions' = sessions
    BY <1>6 DEF Lookup
  <2>2. /\ r.at = "attach" /\ r.up = k.up /\ r.session = k.session /\ r.frames = k.frames /\ r.gone = k.gone
        /\ k.session \in Ids
    BY <1>2, <1>6 DEF Conn
  <2> HIDE DEF r
  <2>3. conns'[c] = r /\ \A d \in Conns : d # c => conns'[d] = conns[d]
    BY <1>1, <2>1 DEF Typed
  <2>4. /\ Gapless(r, sessions, sent)
        /\ client.conn = c => Came(r, sessions, Handed) /\ Reading(client, r, sessions, sent)
    <3>1. sessions[k.session].alive => Within(k.snapshot, sessions[k.session].applied)
      BY <1>4, <2>2 DEF Behind
    <3>2. Behind(client.snapshot, sessions, client.session)
      BY DEF Ordered
    <3> HIDE DEF k
    <3> QED  BY <1>5, <2>2, <3>1, <3>2
  <2>5. \A s \in Ids : Alike(sessions[s], sessions'[s])
    BY <2>1 DEF Alike
  <2> HIDE DEF k
  <2> QED  BY <1>1, <2>1, <2>3, <2>4, <2>5, ToldKeeps DEF k
<1>7. CASE ~(k.session # None /\ sessions[k.session].mapped /\ sessions[k.session].home = k.inst)
  <2> DEFINE q == [NoSession EXCEPT !.home = k.inst, !.mapped = TRUE, !.alive = TRUE, !.applied = k.snapshot]
  <2>1. PICK n \in Ids :
            /\ Forgotten(n) /\ sessions' = [sessions EXCEPT ![n] = q]
            /\ conns' = [conns EXCEPT ![c].at = "attach", ![c].session = n, ![c].snapshot = <<>>]
    BY <1>7 DEF Lookup
  <2> DEFINE r == [k EXCEPT !.at = "attach", !.session = n, !.snapshot = <<>>]
  <2>2. conns' = [conns EXCEPT ![c] = r]
    BY <2>1
  <2>3. r.at = "attach" /\ r.up = k.up /\ r.session = n /\ r.frames = k.frames /\ r.gone = k.gone
    BY <1>2 DEF Conn
  <2>4. /\ q.applied = k.snapshot /\ q.acknowledged = 0 /\ q.commands = <<>> /\ q.outbound = None /\ q.alive
    BY DEF NoSession
  <2> HIDE DEF r, q
  <2>5. conns'[c] = r /\ \A d \in Conns : d # c => conns'[d] = conns[d]
    BY <1>1, <2>2 DEF Typed
  <2>6. sessions'[n] = q /\ \A s \in Ids : s # n => sessions'[s] = sessions[s]
    BY <1>1, <2>1 DEF Typed
  <2>7. Sound(q, sent) /\ \A d \in Conns : ~Feeds(q, d)
    BY <1>4, <2>4, NothingReached, EmptyTyped, LiveTypes DEF Sound, Feeds
  <2>8. Unused(n)
    <3>1. ASSUME NEW d \in Conns PROVE ~Named(conns[d], n) /\ Reader(client, conns[d]) # n
      <4>1. ~Named(conns[d], n)
        BY <1>1, <2>1, ForgottenUnnamed DEF Unnamed, Named
      <4>2. ASSUME Greeted(conns[d]) PROVE Head(conns[d].frames).session # n
        <5>1. conns[d].frames \in Seq(Downward)
          BY <1>1, TypedParts
        <5>2. 1 \in DOMAIN conns[d].frames /\ Head(conns[d].frames) = conns[d].frames[1]
          BY <4>2, <5>1, Tailed DEF Greeted
        <5> QED  BY <2>1, <4>2, <5>2 DEF Forgotten, Greeted
      <4> QED  BY <2>1, <4>1, <4>2 DEF Reader, Forgotten
    <3> QED  BY <2>1, <3>1 DEF Unused, Forgotten
  <2>9. \A s \in Ids : Sound(sessions'[s], sent) /\ (Grows(sessions[s], sessions'[s]) \/ Unused(s))
    <3>1. \A s \in Ids : Sound(sessions[s], sent) /\ Grows(sessions[s], sessions[s])
      BY <1>1, TypedParts, SelfGrows DEF Ordered
    <3> QED  BY <2>6, <2>7, <2>8, <3>1
  <2>10. Linked(conns', sessions')
    <3>1. \A s \in Ids, d \in Conns : Feeds(sessions'[s], d) => Feeds(sessions[s], d)
      BY <2>6, <2>7
    <3>2. \A d \in Conns : conns[d].at \in {"open", "mark"} => conns'[d] = conns[d]
      BY <1>1, <2>5
    <3> QED  BY <3>1, <3>2, LinkedOn
  <2>11. /\ Gapless(r, sessions', sent)
         /\ client.conn = c => Came(r, sessions', Handed) /\ Reading(client, r, sessions', sent)
    <3>1. sessions'[n].alive => Within(k.snapshot, sessions'[n].applied)
      BY <2>4, <2>6, WithinOn
    <3>2. Behind(client.snapshot, sessions', client.session)
      BY <2>1, <2>6 DEF Ordered, Behind, Forgotten
    <3> HIDE DEF k
    <3> QED  BY <1>5, <2>3, <3>1, <3>2
  <2> HIDE DEF k
  <2> QED  BY <1>1, <2>5, <2>9, <2>10, <2>11, OrderedOn
<1> QED  BY <1>6, <1>7

\* A session sends a frame to the handler that serves it, of a state behind
\* which it does not go back.
LEMMA FrameOrdered ==
    ASSUME Typed, Ordered, NEW s \in Ids, sessions[s].alive,
           \A q \in Ids : Grows(sessions[q], sessions'[q]),
           NEW c \in Conns, Feeds(sessions[s], c), NEW f \in Downward, f.frame # "welcome",
           Prefix(f.snapshot, sent), Reaches(f.snapshot, f.acknowledged),
           Within(sessions[s].applied, f.snapshot),
           sessions'[s].alive => Within(f.snapshot, sessions'[s].applied),
           conns' = [conns EXCEPT ![c].frames = IF conns[c].gone THEN conns[c].frames
                                                ELSE Append(conns[c].frames, f)]
    PROVE  /\ \A d \in Conns :
                  \/ conns'[d] = conns[d]
                  \/ /\ Gapless(conns'[d], sessions', sent)
                     /\ client.conn = d => Came(conns'[d], sessions', Handed) /\ Reading(client, conns'[d], sessions', sent)
           /\ \A d \in Conns : conns'[d].at = conns[d].at /\ conns'[d].session = conns[d].session
<1> DEFINE k == conns[c]
           fs == IF k.gone THEN k.frames ELSE Append(k.frames, f)
           r == [k EXCEPT !.frames = fs]
<1>1. k \in Conn /\ k.frames \in Seq(Downward) /\ k.at \in {"open", "mark"} /\ k.session = s
  BY TypedParts DEF Ordered, Linked
<1>2. conns' = [conns EXCEPT ![c] = r]
  OBVIOUS
<1> HIDE DEF fs
<1>3. /\ r.at = k.at /\ r.up = k.up /\ r.session = k.session /\ r.snapshot = k.snapshot
      /\ r.frames = fs /\ r.gone = k.gone
  BY <1>1 DEF Conn
<1> HIDE DEF r
<1>4. conns'[c] = r /\ \A d \in Conns : d # c => conns'[d] = conns[d]
  BY <1>2 DEF Typed
<1>5. /\ Gapless(k, sessions', sent)
      /\ client.conn = c => Came(k, sessions', Handed) /\ Reading(client, k, sessions', sent)
  BY ConnOn
<1>6. Gapless(r, sessions', sent) /\ (client.conn = c => Came(r, sessions', Handed))
  <2> HIDE DEF k
  <2> QED  BY <1>3, <1>5, ComingSame
<1>7. ASSUME client.conn = c PROVE Reading(client, r, sessions', sent)
  <2>1. Reading(client, k, sessions, sent) /\ Reading(client, k, sessions', sent)
    BY <1>5, <1>7 DEF Ordered
  <2>2. Reader(client, k) = s /\ ~k.gone
    BY <1>1, <2>1 DEF Reading
  <2>3. r.frames = Append(k.frames, f)
    BY <1>3, <2>2 DEF fs
  <2>4. \A x : Behind(x, sessions, s) => Within(x, f.snapshot)
    BY WithinOn DEF Behind
  <2>5. Framed(client, r, sessions', sent) /\ Reader(client, r) = Reader(client, k)
    <3>1. Within(client.snapshot, f.snapshot) /\ \A i \in Shows(k) : Within(k.frames[i].snapshot, f.snapshot)
      <4> HIDE DEF k
      <4> QED  BY <2>1, <2>2, <2>4 DEF Reading, Framed
    <3>2. Behind(f.snapshot, sessions', Reader(client, k))
      BY <2>2 DEF Behind
    <3>3. Framed(client, k, sessions', sent)
      BY <2>1 DEF Reading
    <3> HIDE DEF k
    <3> QED  BY <1>1, <2>3, <3>1, <3>2, <3>3, FramedAppend
  <2> QED  BY <1>1, <1>3, <2>1, <2>2, <2>5 DEF Reading
<1> HIDE DEF k
<1> QED  BY <1>3, <1>4, <1>6, <1>7 DEF k

\* What a command does to the events a session has, and whom it sends to.
LEMMA AfterEvents ==
    ASSUME Typed, Ordered, NEW s \in Ids, sessions[s].alive, sessions[s].commands # <<>>,
           Head(sessions[s].commands)[1] \notin {"drain", "stop"}
    PROVE  LET k == sessions[s]  command == Head(k.commands)  next == AfterCommand(s) IN
           /\ Prefix(next.applied, sent) /\ Within(k.applied, next.applied)
           /\ Reaches(next.applied, next.acknowledged)
           /\ command[1] = "event" => Reaches(next.applied, command[2])
           /\ next.outbound \in {k.outbound, None} \/ command = <<"attach", next.outbound>>
<1> DEFINE k == sessions[s]
           command == Head(k.commands)
           next == AfterCommand(s)
           rest == [k EXCEPT !.commands = Tail(k.commands)]
<1>1. /\ k \in Session /\ k.commands \in Seq(Commanding) /\ k.applied \in Seq(Events)
      /\ sent \in Nat /\ Sent \subseteq Events /\ k.acknowledged \in Nat
  BY TypedParts
<1>2. command \in Commanding /\ 1 \in DOMAIN k.commands /\ command = k.commands[1]
  BY <1>1, Tailed
<1>3. Sound(k, sent)
  BY DEF Ordered
<1>4. command[1] = "event" => Reaches(k.applied, command[2] - 1) /\ command[2] \in Sent
  <2> HIDE DEF k, command
  <2>1. command[1] = "event" =>
          \/ Reaches(k.applied, command[2] - 1)
          \/ \E j \in 1..(1 - 1) : k.commands[j] = <<"event", command[2] - 1>>
    BY <1>2, <1>3 DEF Sound
  <2> QED  BY <1>2, <2>1, CommandIs
<1>5. /\ next \in Session
      /\ \/ next.applied = k.applied /\ next.acknowledged = k.acknowledged
         \/ /\ command[1] = "event" /\ command[2] > k.acknowledged /\ command[2] \in Sent
            /\ next.applied = Append(k.applied, command[2]) /\ next.acknowledged = command[2]
  BY AfterCommandIs
<1>6. /\ rest.outbound = k.outbound /\ rest \in Session
  <2>1. Tail(k.commands) \in Seq(Commanding)
    BY <1>1, Tailed
  <2> QED  BY <1>1, <2>1 DEF Session
<1>7. \/ command[1] = "event" /\ next.outbound = k.outbound
         /\ (command[2] > k.acknowledged => next.acknowledged = command[2])
      \/ command[1] = "attach" /\ next.outbound = command[2]
      \/ command[1] = "detach" /\ next.outbound = None
  <2>1. command[1] \in {"event", "attach", "detach"}
    BY <1>2, CommandForms
  <2>2. CASE command[1] = "event"
    <3>1. next = IF command[2] > k.acknowledged
                   THEN [rest EXCEPT !.applied = Append(rest.applied, command[2]), !.acknowledged = command[2]]
                   ELSE rest
      BY <2>2 DEF AfterCommand, Fresh
    <3> HIDE DEF next, rest, k, command
    <3> QED  BY <1>6, <2>2, <3>1 DEF Session
  <2>3. CASE command[1] = "attach"
    <3>1. next = [rest EXCEPT !.outbound = command[2], !.last = NoView]
      BY <2>3 DEF AfterCommand
    <3> HIDE DEF next, rest, k, command
    <3> QED  BY <1>6, <2>3, <3>1 DEF Session
  <2>4. CASE command[1] = "detach"
    <3>1. next = [rest EXCEPT !.outbound = None]
      BY <2>4 DEF AfterCommand
    <3> HIDE DEF next, rest, k, command
    <3> QED  BY <1>6, <2>4, <3>1 DEF Session
  <2> QED  BY <2>1, <2>2, <2>3, <2>4
<1> HIDE DEF next, rest, k, command
<1>8. next.outbound \in {k.outbound, None} \/ command = <<"attach", next.outbound>>
  BY <1>2, <1>7, CommandIs
<1>9. CASE command[1] = "event" /\ command[2] > k.acknowledged /\ command[2] \in Sent
           /\ next.applied = Append(k.applied, command[2]) /\ next.acknowledged = command[2]
  <2>1. command[2] \in 1..sent /\ command[2] \in Events /\ Prefix(k.applied, sent)
    BY <1>1, <1>3, <1>9 DEF Sent, Sound
  <2>2. /\ Prefix(next.applied, sent) /\ Within(k.applied, next.applied)
        /\ Reaches(next.applied, command[2])
    BY <1>1, <1>4, <1>9, <2>1, PrefixAppend
  <2> QED  BY <1>8, <1>9, <2>2 DEF next, k, command
<1>10. CASE next.applied = k.applied /\ next.acknowledged = k.acknowledged
  <2>1. Prefix(k.applied, sent) /\ Reaches(k.applied, k.acknowledged)
    BY <1>3 DEF Sound
  <2>2. ASSUME command[1] = "event" PROVE Reaches(k.applied, command[2])
    <3>1. command[2] \in Nat
      BY <1>4, <2>2 DEF Sent
    <3>2. ~(command[2] > k.acknowledged)
      BY <1>1, <1>7, <1>10, <2>2, <3>1
    <3>3. command[2] \in 0..k.acknowledged
      BY <1>1, <3>1, <3>2
    <3> QED  BY <1>1, <2>1, <3>3, ReachesDown
  <2> QED  BY <1>8, <1>10, <2>1, <2>2, WithinOn DEF next, k, command
<1> QED  BY <1>5, <1>9, <1>10

LEMMA TurnOrdered == \A s \in Ids : LiveInv /\ Ordered /\ Turn(s) => Ordered'
<1> SUFFICES ASSUME NEW s \in Ids, LiveInv, Ordered, Turn(s) PROVE Ordered'
  OBVIOUS
<1> DEFINE k == sessions[s]
           command == Head(k.commands)
           rest == Tail(k.commands)
           next == AfterCommand(s)
           changed == next.last # View(next.applied)
           out == IF changed /\ next.outbound = Closed THEN None ELSE next.outbound
           last == IF changed /\ out # None THEN View(next.applied) ELSE next.last
           q == [next EXCEPT !.outbound = out, !.last = last]
           tree == Tree(next.applied, next.acknowledged)
<1>1. /\ Typed /\ k.alive /\ k.commands # <<>> /\ command[1] \notin {"drain", "stop"}
      /\ sessions' = [sessions EXCEPT ![s] = q] /\ sent' = sent /\ client' = client
  BY DEF LiveInv, Turn, Commands
<1>2. conns' = IF changed /\ out \in Conns
                 THEN [conns EXCEPT ![out].frames = IF conns[out].gone THEN conns[out].frames
                                                    ELSE Append(conns[out].frames, tree)]
                 ELSE conns
  BY DEF Turn
<1>3. k.commands \in Seq(Commanding) /\ Sound(k, sent)
  BY <1>1, TypedParts DEF Ordered
<1>4. /\ 1 \in DOMAIN k.commands /\ command = k.commands[1]
      /\ \A i \in DOMAIN rest : i + 1 \in DOMAIN k.commands /\ rest[i] = k.commands[i + 1]
      /\ \A i \in DOMAIN k.commands : i = 1 \/ (i - 1 \in DOMAIN rest /\ rest[i - 1] = k.commands[i])
      /\ \A i \in DOMAIN rest : i \in Nat
      /\ \A i \in DOMAIN k.commands : \A j \in 1..i : j \in DOMAIN k.commands
  <2>1. rest \in Seq(Commanding)
    BY <1>1, <1>3, Tailed
  <2>2. DOMAIN rest = 1..Len(rest) /\ DOMAIN k.commands = 1..Len(k.commands) /\ Len(k.commands) \in Nat
    BY <1>3, <2>1, LenProperties
  <2> HIDE DEF rest, k
  <2>3. /\ \A i \in DOMAIN rest : i \in Nat
        /\ \A i \in DOMAIN k.commands : \A j \in 1..i : j \in DOMAIN k.commands
    BY <2>2
  <2> QED  BY <1>1, <1>3, <2>3, Tailed DEF rest, command
<1>5. /\ Prefix(next.applied, sent) /\ Within(k.applied, next.applied)
      /\ Reaches(next.applied, next.acknowledged)
      /\ command[1] = "event" => Reaches(next.applied, command[2])
      /\ next.outbound \in {k.outbound, None} \/ command = <<"attach", next.outbound>>
  BY <1>1, AfterEvents
<1>6. next \in Session /\ next.alive = k.alive /\ next.commands = rest
  BY <1>1, AfterCommandIs
<1> HIDE DEF next
<1>7. out \in {next.outbound, None} /\ tree \in Downward /\ tree.frame # "welcome" /\ tree.snapshot = next.applied
      /\ tree.acknowledged = next.acknowledged
  BY <1>6 DEF Session, Tree, Downward, Trees
<1> HIDE DEF out, last, changed, tree
<1>8. /\ q.alive = k.alive /\ q.commands = rest /\ q.applied = next.applied
      /\ q.acknowledged = next.acknowledged /\ q.outbound = out
  BY <1>6 DEF Session
<1> HIDE DEF q
<1>9. ASSUME NEW i \in DOMAIN k.commands, NEW e, k.commands[i] = <<"event", e>>
      PROVE  Reaches(q.applied, e) \/ (i - 1 \in DOMAIN rest /\ rest[i - 1] = <<"event", e>>)
  <2>1. CASE i = 1
    <3>1. command[1] = "event" /\ command[2] = e
      BY <1>4, <1>9, <2>1
    <3> QED  BY <1>5, <1>8, <3>1
  <2>2. CASE i # 1
    BY <1>4, <1>9, <2>2
  <2> QED  BY <2>1, <2>2
<1>10. Sound(q, sent)
  <2>1. ASSUME NEW i \in DOMAIN rest, rest[i][1] = "event"
        PROVE  \/ Reaches(q.applied, rest[i][2] - 1)
               \/ \E j \in 1..(i - 1) : rest[j] = <<"event", rest[i][2] - 1>>
    <3> DEFINE e == rest[i][2] - 1
    <3>1. i + 1 \in DOMAIN k.commands /\ rest[i] = k.commands[i + 1] /\ i \in Nat
      BY <1>4
    <3>2. Reaches(k.applied, e) \/ \E j \in 1..((i + 1) - 1) : k.commands[j] = <<"event", e>>
      <4> HIDE DEF k, rest
      <4> QED  BY <1>3, <2>1, <3>1 DEF Sound
    <3> HIDE DEF e, k, rest
    <3>3. Reaches(k.applied, e) => Reaches(q.applied, e)
      BY <1>5, <1>8, WithinOn
    <3>4. ASSUME NEW j \in 1..((i + 1) - 1), k.commands[j] = <<"event", e>>
          PROVE  Reaches(q.applied, e) \/ \E h \in 1..(i - 1) : rest[h] = <<"event", e>>
      <4>1. j \in DOMAIN k.commands
        <5>1. j \in 1..(i + 1)
          BY <3>1
        <5> QED  BY <1>4, <3>1, <5>1
      <4>2. Reaches(q.applied, e) \/ (j # 1 /\ rest[j - 1] = <<"event", e>>)
        BY <1>4, <1>5, <1>8, <1>9, <3>4, <4>1
      <4>3. j # 1 => j - 1 \in 1..(i - 1)
        BY <3>1
      <4> QED  BY <4>2, <4>3
    <3> QED  BY <3>2, <3>3, <3>4 DEF e
  <2> HIDE DEF k, rest
  <2> QED  BY <1>1, <1>5, <1>8, <2>1 DEF Sound
<1>11. Grows(k, q)
  <2>1. ASSUME NEW i \in DOMAIN k.commands, k.commands[i][1] = "event" PROVE Holds(q, k.commands[i][2])
    <3>1. k.commands[i] = <<"event", k.commands[i][2]>>
      <4>1. k.commands[i] \in Commanding
        BY <1>3, LenProperties
      <4> QED  BY <2>1, <4>1, CommandIs
    <3> HIDE DEF k, rest
    <3> QED  BY <1>8, <1>9, <3>1 DEF Holds
  <2> HIDE DEF k, rest
  <2> QED  BY <1>1, <1>5, <1>8, <2>1 DEF Grows
<1>12. \A d \in Conns : Feeds(q, d) => Feeds(k, d)
  <2> HIDE DEF k, rest, command
  <2>1. \A d \in Conns : d # None
    BY LiveTypes
  <2> QED  BY <1>4, <1>5, <1>7, <1>8, <2>1 DEF Feeds
<1>13. /\ sessions'[s] = q /\ \A x \in Ids : x # s => sessions'[x] = sessions[x]
       /\ \A x \in Ids : Sound(sessions'[x], sent) /\ Grows(sessions[x], sessions'[x])
  BY <1>1, <1>10, <1>11, OneTold
<1>14. /\ \A d \in Conns :
              \/ conns'[d] = conns[d]
              \/ /\ Gapless(conns'[d], sessions', sent)
                 /\ client.conn = d => Came(conns'[d], sessions', Handed) /\ Reading(client, conns'[d], sessions', sent)
       /\ \A d \in Conns : conns'[d].at = conns[d].at /\ conns'[d].session = conns[d].session
  <2>1. CASE changed /\ out \in Conns
    <3>1. Feeds(k, out)
      <4>1. Feeds(q, out)
        BY <1>8 DEF Feeds
      <4> QED  BY <1>12, <2>1, <4>1
    <3>2. sessions'[s].alive => Within(tree.snapshot, sessions'[s].applied)
      BY <1>7, <1>8, <1>13, WithinOn
    <3>3. Prefix(tree.snapshot, sent) /\ Reaches(tree.snapshot, tree.acknowledged) /\ Within(k.applied, tree.snapshot)
      BY <1>5, <1>7
    <3> QED  BY <1>1, <1>2, <1>7, <1>13, <2>1, <3>1, <3>2, <3>3, FrameOrdered
  <2>2. CASE ~(changed /\ out \in Conns)
    BY <1>2, <2>2
  <2> QED  BY <2>1, <2>2
<1>15. Linked(conns', sessions')
  <2>1. \A x \in Ids, d \in Conns : Feeds(sessions'[x], d) => Feeds(sessions[x], d)
    BY <1>12, <1>13
  <2> QED  BY <1>14, <2>1, LinkedOn
<1> QED  BY <1>1, <1>13, <1>14, <1>15, OrderedOn

LEMMA ExitOrdered == \A s \in Ids : LiveInv /\ Ordered /\ Exit(s) => Ordered'
<1> SUFFICES ASSUME NEW s \in Ids, LiveInv, Ordered, Exit(s) PROVE Ordered'
  OBVIOUS
<1> DEFINE k == sessions[s]
           drains == Head(k.commands)[1] = "drain"
           out == k.outbound
           told == DrainFrame(k.applied, k.acknowledged)
<1>1. /\ Typed /\ k.alive /\ sessions' = [sessions EXCEPT ![s] = NoSession]
      /\ sent' = sent /\ client' = client
  BY DEF LiveInv, Exit
<1>2. conns' = IF drains /\ out \in Conns
                 THEN [conns EXCEPT ![out].frames = IF conns[out].gone THEN conns[out].frames
                                                    ELSE Append(conns[out].frames, told)]
                 ELSE conns
  BY DEF Exit
<1>3. k \in Session /\ sent \in Nat /\ Sound(k, sent)
  BY <1>1, TypedParts DEF Ordered
<1>4. told \in Downward /\ told.frame # "welcome" /\ told.snapshot = k.applied /\ told.acknowledged = k.acknowledged
  BY <1>3 DEF DrainFrame, Downward, Trees, Session
<1>5. Feeds(k, out)
  BY DEF Feeds
<1> HIDE DEF drains, out, told
<1>6. /\ sessions'[s] = NoSession /\ \A x \in Ids : x # s => sessions'[x] = sessions[x]
      /\ \A x \in Ids : Sound(sessions'[x], sent) /\ Grows(sessions[x], sessions'[x])
  BY <1>1, <1>3, EndedSound, OneTold
<1>7. ~sessions'[s].alive /\ \A x \in Ids, d \in Conns : Feeds(sessions'[x], d) => Feeds(sessions[x], d)
  <2>1. ~NoSession.alive
    BY DEF NoSession
  <2> QED  BY <1>6, <2>1, EndedSound
<1>8. /\ \A d \in Conns :
             \/ conns'[d] = conns[d]
             \/ /\ Gapless(conns'[d], sessions', sent)
                /\ client.conn = d => Came(conns'[d], sessions', Handed) /\ Reading(client, conns'[d], sessions', sent)
      /\ \A d \in Conns : conns'[d].at = conns[d].at /\ conns'[d].session = conns[d].session
  <2>1. CASE drains /\ out \in Conns
    <3>1. Prefix(told.snapshot, sent) /\ Reaches(told.snapshot, told.acknowledged) /\ Within(k.applied, told.snapshot)
      BY <1>3, <1>4, WithinOn DEF Sound
    <3> QED  BY <1>1, <1>2, <1>4, <1>5, <1>6, <1>7, <2>1, <3>1, FrameOrdered
  <2>2. CASE ~(drains /\ out \in Conns)
    BY <1>2, <2>2
  <2> QED  BY <2>1, <2>2
<1>9. Linked(conns', sessions')
  BY <1>7, <1>8, LinkedOn
<1> QED  BY <1>1, <1>6, <1>8, <1>9, OrderedOn

LEMMA CrashOrdered == \A i \in Instances : LiveInv /\ Ordered /\ Crash(i) => Ordered'
<1> SUFFICES ASSUME NEW i \in Instances, LiveInv, Ordered, Crash(i) PROVE Ordered'
  OBVIOUS
<1>1. /\ Typed /\ Homed(conns, sessions) /\ sent' = sent /\ client' = client
      /\ sessions' = [s \in Ids |-> IF sessions[s].home = i THEN NoSession ELSE sessions[s]]
      /\ conns' = [c \in Conns |-> IF conns[c].inst = i /\ conns[c].at # "free" THEN Ended(c) ELSE conns[c]]
  BY DEF LiveInv, Accounted, Crash
<1>2. \A s \in Ids : Sound(sessions[s], sent) /\ Grows(sessions[s], sessions[s]) /\ sent \in Nat
  BY <1>1, TypedParts, SelfGrows DEF Ordered
<1>3. \A s \in Ids : Sound(sessions'[s], sent) /\ Grows(sessions[s], sessions'[s])
  BY <1>1, <1>2, EndedSound
<1>4. Linked(conns', sessions')
  <2> SUFFICES ASSUME NEW s \in Ids, NEW c \in Conns, Feeds(sessions'[s], c)
               PROVE  conns'[c].at \in {"open", "mark"} /\ conns'[c].session = s
    BY DEF Linked
  <2>1. sessions[s].home # i /\ sessions'[s] = sessions[s]
    BY <1>1, EndedSound
  <2>2. sessions[s].alive
    BY <1>2, <2>1, EmptyTyped, LiveTypes DEF Sound, Feeds
  <2>3. conns[c].at \in {"open", "mark"} /\ conns[c].session = s
    BY <2>1 DEF Ordered, Linked
  <2>4. conns[c].inst # i
    BY <1>1, <2>1, <2>2, <2>3 DEF Homed, Serving
  <2> QED  BY <1>1, <2>3, <2>4
<1>5. \A c \in Conns : conns'[c] = conns[c] \/ conns'[c] = Ended(c)
  BY <1>1
<1> QED  BY <1>1, <1>3, <1>4, <1>5, EndedKept, OrderedOn

-----------------------------------------------------------------------------
(* The client's steps. *)

LEMMA OrderedGrows ==
    ASSUME NEW n \in Nat, NEW m \in Nat, n <= m, NEW cl, NEW dl,
           dl.snapshot = cl.snapshot, dl.session = cl.session
    PROVE  /\ \A k : Sound(k, n) => Sound(k, m)
           /\ \A k, ses : Gapless(k, ses, n) => Gapless(k, ses, m)
           /\ \A k : Reader(dl, k) = Reader(cl, k)
           /\ \A k, ses : Framed(cl, k, ses, n) => Framed(dl, k, ses, m)
           /\ \A k, ses : Reading(cl, k, ses, n) => Reading(dl, k, ses, m)
<1>1. \A x : Prefix(x, n) => Prefix(x, m)
  BY PrefixGrows
<1>2. \A k : Reader(dl, k) = Reader(cl, k)
  BY DEF Reader
<1>3. \A k, ses : Framed(cl, k, ses, n) => Framed(dl, k, ses, m)
  BY <1>1, <1>2 DEF Framed
<1>4. \A k : Sound(k, n) => Sound(k, m)
  BY <1>1 DEF Sound
<1>5. \A k, ses : Gapless(k, ses, n) => Gapless(k, ses, m)
  BY <1>1 DEF Gapless
<1> QED  BY <1>2, <1>3, <1>4, <1>5 DEF Reading

\* The client and one connection change.
LEMMA OrderedClient ==
    ASSUME Typed, Ordered, sent' = sent, sessions' = sessions, NEW c \in Conns, NEW r,
           conns'[c] = r, \A d \in Conns : d # c => conns'[d] = conns[d],
           conns[c].at \in {"open", "mark"} => r.at = conns[c].at /\ r.session = conns[c].session,
           Gapless(r, sessions, sent),
           Prefix(client'.snapshot, sent), Reaches(client'.snapshot, client'.acknowledged),
           Following(client', sent), Behind(client'.snapshot, sessions, client'.session),
           client'.conn \in {c, None},
           client'.conn = c => /\ Came(r, sessions, sent - Len(client'.outbound))
                               /\ Reading(client', r, sessions, sent)
    PROVE  Ordered'
<1>1. \A d \in Conns : Gapless(conns'[d], sessions', sent')
  BY DEF Ordered
<1>2. Linked(conns', sessions')
  <2>1. \A d \in Conns : conns[d].at \in {"open", "mark"} =>
            conns'[d].at \in {"open", "mark"} /\ conns'[d].session = conns[d].session
    OBVIOUS
  <2>2. \A s \in Ids, d \in Conns : Feeds(sessions'[s], d) => Feeds(sessions[s], d)
    OBVIOUS
  <2> QED  BY <2>1, <2>2, LinkedOn
<1>3. client'.conn \in Conns => client'.conn = c
  BY LiveTypes
<1>4. Handed' = sent - Len(client'.outbound)
  BY DEF Handed
<1> QED  BY <1>1, <1>2, <1>3, <1>4 DEF Ordered

LEMMA SendOrdered == LiveInv /\ Ordered /\ Send => Ordered'
<1> SUFFICES ASSUME LiveInv, Ordered, Send PROVE Ordered'
  OBVIOUS
<1> DEFINE o == client.outbound
           next == sent + 1
           p == Append(o, next)
<1>1. Typed /\ client \in ClientState /\ o \in Seq(Sent) /\ sent \in Nat
  BY TypedParts DEF LiveInv
<1>2. /\ sent' = next /\ conns' = conns /\ sessions' = sessions
      /\ client' = [client EXCEPT !.unacknowledged = Append(client.unacknowledged, next), !.outbound = p]
  BY DEF Send
<1>3. /\ Len(p) = Len(o) + 1 /\ Len(o) \in Nat /\ DOMAIN p = 1..(Len(o) + 1) /\ DOMAIN o = 1..Len(o)
      /\ \A i \in 1..Len(o) : p[i] = o[i]
      /\ p[Len(o) + 1] = next
  <2>1. o \in Seq(Nat) /\ next \in Nat
    <3>1. Sent \subseteq Nat
      BY <1>1 DEF Sent
    <3>2. o \in Seq(Nat)
      <4> HIDE DEF o
      <4> QED  BY <1>1, <3>1, SeqMonotonic
    <3> QED  BY <1>1, <3>2
  <2> HIDE DEF o, next
  <2> QED  BY <2>1, AppendProperties, LenProperties
<1>4. /\ client'.outbound = p /\ client'.snapshot = client.snapshot /\ client'.session = client.session
      /\ client'.acknowledged = client.acknowledged /\ client'.conn = client.conn
  BY <1>1, <1>2 DEF ClientState
<1> HIDE DEF p
<1>5. Following(client', next)
  <2>1. Len(o) <= sent /\ \A i \in DOMAIN o : o[i] = (sent - Len(o)) + i
    BY DEF Ordered, Following
  <2> HIDE DEF o
  <2>2. ASSUME NEW i \in DOMAIN p PROVE p[i] = (next - Len(p)) + i
    <3>1. i \in 1..Len(o) \/ i = Len(o) + 1
      BY <1>3
    <3>2. next - Len(p) = sent - Len(o)
      BY <1>1, <1>3
    <3>3. CASE i \in 1..Len(o)
      BY <1>3, <2>1, <3>2, <3>3
    <3>4. CASE i = Len(o) + 1
      BY <1>1, <1>3, <3>2, <3>4
    <3> QED  BY <3>1, <3>3, <3>4
  <2>3. Len(p) <= next
    BY <1>1, <1>3, <2>1
  <2> HIDE DEF next
  <2> QED  BY <1>4, <2>2, <2>3 DEF Following
<1>6. Handed' = Handed
  BY <1>1, <1>2, <1>3, <1>4 DEF Handed
<1>7. next \in Nat /\ sent <= next
  BY <1>1
<1> HIDE DEF next, o
<1>8. /\ \A s \in Ids : Sound(sessions[s], next)
      /\ \A c \in Conns : Gapless(conns[c], sessions, next)
      /\ Prefix(client.snapshot, next)
      /\ client.conn \in Conns => Reading(client', conns[client.conn], sessions, next)
  <2> DEFINE dl == client'
  <2>1. dl.snapshot = client.snapshot /\ dl.session = client.session
    BY <1>4
  <2> HIDE DEF dl
  <2>2. /\ \A k : Sound(k, sent) => Sound(k, next)
        /\ \A k, ses : Gapless(k, ses, sent) => Gapless(k, ses, next)
        /\ \A k, ses : Reading(client, k, ses, sent) => Reading(dl, k, ses, next)
    BY <1>1, <1>7, <2>1, OrderedGrows
  <2>3. Prefix(client.snapshot, next)
    BY <1>1, <1>7, PrefixGrows DEF Ordered
  <2> QED  BY <2>2, <2>3 DEF Ordered, dl
<1>9. client.conn \in Conns => Came(conns[client.conn], sessions, Handed)
  BY DEF Ordered
<1>10. Linked(conns, sessions) /\ Reaches(client.snapshot, client.acknowledged)
       /\ Behind(client.snapshot, sessions, client.session)
  BY DEF Ordered
<1> QED  BY <1>2, <1>4, <1>5, <1>6, <1>8, <1>9, <1>10 DEF Ordered

LEMMA ConnectOrdered == LiveInv /\ Ordered /\ Connect => Ordered'
<1> SUFFICES ASSUME LiveInv, Ordered, Connect PROVE Ordered'
  OBVIOUS
<1>1. Typed /\ client \in ClientState /\ sent \in Nat /\ client.acknowledged \in Nat /\ sent' = sent
      /\ sessions' = sessions /\ client.outbound \in Seq(Sent)
  BY TypedParts DEF LiveInv, Connect
<1>2. PICK c \in Conns :
          /\ conns[c].at = "free" /\ client' = [client EXCEPT !.conn = c]
          /\ conns' = [conns EXCEPT ![c] = [FreeConn EXCEPT
                 !.at = "hello", !.inst = client.url, !.up = <<Hello>> \o Resent]]
  BY DEF Connect, Resent
<1> DEFINE up == <<Hello>> \o Resent
           r == [FreeConn EXCEPT !.at = "hello", !.inst = client.url, !.up = up]
<1>3. Head(up) = Hello /\ Tail(up) = Resent /\ Resent \in Seq(EventFrames)
  <2>1. EventFrames \subseteq Upward
    BY DEF Upward
  <2> QED  BY <1>1, <2>1, ResentTyped, HelloTyped, Prepended
<1> HIDE DEF up
<1>4. r.at = "hello" /\ r.up = up /\ r.frames = <<>> /\ ~r.gone
  BY DEF FreeConn
<1> HIDE DEF r
<1>5. conns'[c] = r /\ \A d \in Conns : d # c => conns'[d] = conns[d]
  BY <1>1, <1>2 DEF Typed, r, up
<1>6. /\ client'.snapshot = client.snapshot /\ client'.session = client.session /\ client'.conn = c
      /\ client'.acknowledged = client.acknowledged /\ client'.outbound = client.outbound
  BY <1>1, <1>2 DEF ClientState
<1>7. /\ Coming(r) = Resent /\ Start(r) = Hello /\ Hello.session = client.session
      /\ Hello.snapshot = client.snapshot
  BY <1>1, <1>3, <1>4, HelloTyped DEF Coming, Start
<1>8. \A ses, e : Based(r, ses, e) <=> Reaches(client.snapshot, e)
  BY <1>4, <1>7 DEF Based, Serving
<1>9. /\ Prefix(client.snapshot, sent) /\ Reaches(client.snapshot, client.acknowledged)
      /\ Behind(client.snapshot, sessions, client.session) /\ Following(client, sent)
  BY DEF Ordered
<1> DEFINE a == client.acknowledged
<1>10. /\ DOMAIN Resent = 1..(sent - a) /\ \A i \in DOMAIN Resent : Resent[i].sequence = a + i
  <2> DEFINE u == client.unacknowledged
  <2>1. DOMAIN u = 1..Len(u) /\ Len(u) = sent - a /\ \A i \in DOMAIN u : u[i] = a + i
    <3>1. u \in Seq(Sent)
      BY <1>1, TypedParts
    <3> QED  BY <1>1, <3>1, LenProperties DEF Typed, Contiguous
  <2> HIDE DEF u
  <2>2. DOMAIN Resent = DOMAIN u /\ \A i \in DOMAIN Resent : Resent[i].sequence = u[i]
    BY <1>1, ResentTyped DEF u
  <2> QED  BY <2>1, <2>2
<1> HIDE DEF a
<1>11. a \in Nat /\ Reaches(client.snapshot, a)
  BY <1>1, <1>9 DEF a
<1>12. Gapless(r, sessions, sent)
  <2>1. ASSUME NEW i \in DOMAIN Resent
        PROVE  \/ Based(r, sessions, Resent[i].sequence - 1)
               \/ \E j \in 1..(i - 1) : Resent[j].sequence = Resent[i].sequence - 1
    <3>1. i \in 1..(sent - a) /\ Resent[i].sequence = a + i
      BY <1>10
    <3>2. CASE i = 1
      <4>1. Resent[i].sequence - 1 = a
        BY <1>11, <3>1, <3>2
      <4> QED  BY <1>8, <1>11, <4>1
    <3>3. CASE i # 1
      <4>1. i - 1 \in 1..(i - 1) /\ i - 1 \in 1..(sent - a)
        BY <1>1, <1>11, <3>1, <3>3
      <4>2. Resent[i - 1].sequence = a + (i - 1)
        BY <1>10, <4>1
      <4>3. a + (i - 1) = Resent[i].sequence - 1
        BY <1>11, <3>1
      <4> QED  BY <4>1, <4>2, <4>3
    <3> QED  BY <3>2, <3>3
  <2> QED  BY <1>4, <1>7, <1>9, <2>1 DEF Gapless
<1>13. Came(r, sessions, Handed)
  <2>1. Handed \in 0..sent
    <3>1. Len(client.outbound) \in Nat
      BY <1>1, LenProperties
    <3> QED  BY <1>1, <1>9, <3>1 DEF Handed, Following
  <2>2. CASE Handed <= a
    <3>1. Handed \in 0..a
      BY <1>11, <2>1, <2>2
    <3> QED  BY <1>1, <1>8, <1>9, <1>11, <3>1, ReachesDown DEF Came
  <2>3. CASE ~(Handed <= a)
    <3>1. Handed - a \in 1..(sent - a) /\ a + (Handed - a) = Handed
      BY <1>1, <1>11, <2>1, <2>3
    <3> QED  BY <1>7, <1>10, <3>1 DEF Came
  <2> QED  BY <2>2, <2>3
<1>14. Reading(client', r, sessions, sent)
  <2> DEFINE cl == client'
  <2>1. cl.snapshot = client.snapshot /\ cl.session = client.session
    BY <1>6
  <2> HIDE DEF cl
  <2>2. Framed(cl, r, sessions, sent)
    BY <1>4, <1>9, <2>1, FramedEmpty
  <2>3. Reading(cl, r, sessions, sent)
    BY <1>4, <1>7, <2>1, <2>2 DEF Reading
  <2> QED  BY <2>3 DEF cl
<1>15. Following(client', sent)
  BY <1>6, <1>9 DEF Following
<1>16. sent - Len(client'.outbound) = Handed
  BY <1>6 DEF Handed
<1> QED  BY <1>1, <1>2, <1>5, <1>6, <1>9, <1>12, <1>13, <1>14, <1>15, <1>16, OrderedClient

\* An event that comes after the others.
LEMMA ComingMore ==
    ASSUME NEW k, NEW r, NEW ses, NEW n, NEW e \in Sent, Gapless(k, ses, n), Came(k, ses, e - 1),
           Coming(k) \in Seq(EventFrames), Coming(r) = Append(Coming(k), Event(e)),
           r.at = k.at, r.session = k.session, Start(r).session = Start(k).session,
           Start(r).snapshot = Start(k).snapshot
    PROVE  Gapless(r, ses, n) /\ Came(r, ses, e)
<1> DEFINE x == Coming(k)
           y == Append(x, Event(e))
           z == Len(x) + 1
<1>1. Event(e) \in EventFrames /\ Event(e).sequence = e
  BY DEF Event, EventFrames
<1>2. /\ DOMAIN y = 1..z /\ y[z] = Event(e) /\ DOMAIN x = 1..(z - 1) /\ z \in Nat \ {0}
      /\ \A i \in 1..(z - 1) : y[i] = x[i]
  <2> HIDE DEF x
  <2> QED  BY <1>1, AppendProperties, LenProperties DEF x
<1> HIDE DEF x, y, z
<1>3. Coming(r) = y /\ \A d : Based(k, ses, d) => Based(r, ses, d)
  BY DEF Based, y, x
<1>4. z \in DOMAIN y /\ y[z].sequence = e
  BY <1>1, <1>2
<1>5. Came(r, ses, e)
  BY <1>3, <1>4 DEF Came
<1>6. Gapless(r, ses, n)
  <2>1. ASSUME r.at \notin {"free", "done"}, NEW i \in DOMAIN y
        PROVE  \/ Based(r, ses, y[i].sequence - 1)
               \/ \E j \in 1..(i - 1) : y[j].sequence = y[i].sequence - 1
    <3>1. CASE i = z
      <4>1. Based(k, ses, e - 1) \/ \E j \in DOMAIN x : x[j].sequence = e - 1
        BY DEF Came, x
      <4>2. \A j \in DOMAIN x : j \in 1..(i - 1) /\ y[j] = x[j]
        BY <1>2, <3>1
      <4> QED  BY <1>3, <1>4, <3>1, <4>1, <4>2
    <3>2. CASE i # z
      <4>1. i \in DOMAIN x /\ y[i] = x[i] /\ \A j \in 1..(i - 1) : y[j] = x[j]
        BY <1>2, <2>1, <3>2
      <4>2. \/ Based(k, ses, x[i].sequence - 1)
            \/ \E j \in 1..(i - 1) : x[j].sequence = x[i].sequence - 1
        BY <2>1, <4>1 DEF Gapless, x
      <4> QED  BY <1>3, <4>1, <4>2
    <3> QED  BY <3>1, <3>2
  <2>2. Coming(r) = y
    BY <1>3
  <2> QED  BY <2>1, <2>2 DEF Gapless
<1> QED  BY <1>5, <1>6

LEMMA SendOutboundOrdered == LiveInv /\ Ordered /\ SendOutbound => Ordered'
<1> SUFFICES ASSUME LiveInv, Ordered, SendOutbound PROVE Ordered'
  OBVIOUS
<1> DEFINE c == client.conn
           o == client.outbound
           e == Head(o)
           p == Tail(o)
           k == conns[c]
           up == Append(k.up, Event(e))
           more == [k EXCEPT !.up = up]
           r == IF k.at = "done" THEN k ELSE more
<1>1. Typed /\ client \in ClientState /\ sent \in Nat /\ o \in Seq(Sent) /\ sent' = sent
      /\ sessions' = sessions /\ o # <<>>
  BY TypedParts DEF LiveInv, SendOutbound
<1>2. c \in Conns /\ client' = [client EXCEPT !.outbound = p]
      /\ conns' = IF k.at = "done" THEN conns ELSE [conns EXCEPT ![c].up = up]
  BY <1>1 DEF SendOutbound, ClientState
<1>3. /\ Head(o) = o[1] /\ 1 \in DOMAIN o /\ e \in Sent /\ Len(o) \in Nat \ {0} /\ Len(p) = Len(o) - 1
      /\ DOMAIN p = 1..(Len(o) - 1) /\ DOMAIN o = 1..Len(o) /\ \A i \in 1..(Len(o) - 1) : p[i] = o[i + 1]
  <2>1. Len(o) \in Nat \ {0}
    BY <1>1, EmptySeq
  <2> HIDE DEF o
  <2> QED  BY <1>1, <2>1, HeadTailProperties, LenProperties, Tailed
<1>4. /\ client'.outbound = p /\ client'.snapshot = client.snapshot /\ client'.session = client.session
      /\ client'.acknowledged = client.acknowledged /\ client'.conn = c
  BY <1>1, <1>2 DEF ClientState
<1>5. Len(o) <= sent /\ \A i \in DOMAIN o : o[i] = (sent - Len(o)) + i
  BY DEF Ordered, Following
<1>6. Following(client', sent) /\ e - 1 = Handed /\ sent - Len(p) = e
  <2>1. Handed = sent - Len(o)
    BY DEF Handed
  <2> HIDE DEF o, p, e
  <2>2. ASSUME NEW i \in DOMAIN p PROVE p[i] = (sent - Len(p)) + i
    <3>1. i \in 1..(Len(o) - 1) /\ i + 1 \in DOMAIN o /\ i \in Int
      BY <1>3
    <3>2. p[i] = (sent - Len(o)) + (i + 1)
      BY <1>3, <1>5, <3>1
    <3>3. (sent - Len(o)) + (i + 1) = (sent - (Len(o) - 1)) + i
      BY <1>1, <1>3, <3>1
    <3> QED  BY <1>3, <3>2, <3>3
  <2>3. e = (sent - Len(o)) + 1
    BY <1>3, <1>5 DEF e
  <2>4. Len(p) <= sent
    BY <1>1, <1>3, <1>5
  <2> QED  BY <1>1, <1>3, <1>4, <2>1, <2>2, <2>3, <2>4 DEF Following
<1> HIDE DEF e, p, o
<1>7. /\ Gapless(k, sessions, sent) /\ Came(k, sessions, e - 1) /\ Reading(client, k, sessions, sent)
      /\ Prefix(client.snapshot, sent) /\ Reaches(client.snapshot, client.acknowledged)
      /\ Behind(client.snapshot, sessions, client.session)
  BY <1>2, <1>6 DEF Ordered
<1>8. k \in Conn /\ Shaped(k) /\ k.up \in Seq(Upward) /\ k.up \in Seq(Upward) /\ Event(e) \in Upward
      /\ Event(e) \in EventFrames
  BY <1>1, <1>2, <1>3, TypedParts DEF Event, EventFrames, Upward
<1>9. ASSUME k.at = "hello"
      PROVE  Head(up) = Head(k.up) /\ Tail(up) = Append(Tail(k.up), Event(e))
  <2>1. k.up \in Seq(Upward) /\ k.up # <<>>
    BY <1>8, <1>9 DEF Shaped
  <2> QED  BY <1>8, <2>1, HeadTailAppend
<1> HIDE DEF up
<1>10. /\ more.at = k.at /\ more.up = up /\ more.session = k.session /\ more.snapshot = k.snapshot
       /\ more.frames = k.frames /\ more.gone = k.gone
  BY <1>8 DEF Conn
<1>11. conns' = [conns EXCEPT ![c] = more] \/ (k.at = "done" /\ conns' = conns)
  BY <1>2 DEF up
<1> HIDE DEF more
<1>12. conns'[c] = r /\ \A d \in Conns : d # c => conns'[d] = conns[d]
  BY <1>1, <1>2, <1>11 DEF Typed, up, more
<1>13. /\ Gapless(more, sessions, sent) /\ Came(more, sessions, e)
       /\ Start(more).session = Start(k).session /\ Start(more).snapshot = Start(k).snapshot
  <2>1. /\ Coming(k) \in Seq(EventFrames) /\ Coming(more) = Append(Coming(k), Event(e))
        /\ Start(more).session = Start(k).session /\ Start(more).snapshot = Start(k).snapshot
    <3>1. CASE k.at = "hello"
      BY <1>8, <1>9, <1>10, <3>1 DEF Coming, Start, Shaped
    <3>2. CASE k.at # "hello"
      BY <1>8, <1>10, <3>2 DEF Coming, Start, Shaped, up
    <3> QED  BY <3>1, <3>2
  <2> HIDE DEF k
  <2> QED  BY <1>3, <1>7, <1>10, <2>1, ComingMore
<1>14. Reading(client, more, sessions, sent)
  <2>1. Framed(client, more, sessions, sent) /\ Reader(client, more) = Reader(client, k)
    <3> HIDE DEF k
    <3> QED  BY <1>7, <1>10, FramedSame DEF Reading
  <2> HIDE DEF k
  <2> QED  BY <1>7, <1>10, <1>13, <2>1 DEF Reading
<1>15. Gapless(r, sessions, sent) /\ Came(r, sessions, e) /\ Reading(client, r, sessions, sent)
  <2>1. k.at = "done" => Came(k, sessions, e)
    <3> HIDE DEF k
    <3> QED  BY DoneKept
  <2> HIDE DEF k
  <2> QED  BY <1>7, <1>13, <1>14, <2>1
<1>16. r.at = k.at /\ r.session = k.session
  BY <1>10
<1> HIDE DEF r
<1>17. Reading(client', r, sessions, sent)
  <2> DEFINE dl == client'
  <2>1. dl.snapshot = client.snapshot /\ dl.session = client.session
    BY <1>4
  <2> HIDE DEF dl
  <2>2. Reading(dl, r, sessions, sent)
    BY <1>1, <1>15, <2>1, OrderedGrows
  <2> QED  BY <2>2 DEF dl
<1>18. Came(r, sessions, sent - Len(client'.outbound))
  BY <1>4, <1>6, <1>15
<1> HIDE DEF c
<1> QED  BY <1>1, <1>2, <1>4, <1>6, <1>7, <1>12, <1>15, <1>16, <1>17, <1>18, OrderedClient DEF k

\* A frame is taken off connection k by client cl, who then is dl.
LEMMA FramedTail ==
    ASSUME NEW cl, NEW dl, NEW k, NEW r, NEW ses, NEW n, k.frames \in Seq(Downward), k.frames # <<>>,
           r.frames = Tail(k.frames), Reading(cl, k, ses, n),
           r.at = k.at, r.session = k.session, r.gone = k.gone,
           dl.session = Reader(cl, k), Behind(dl.snapshot, ses, Reader(cl, k)),
           \A i \in Shows(k) : i # 1 => Within(dl.snapshot, k.frames[i].snapshot)
    PROVE  Reading(dl, r, ses, n)
<1>1. /\ \A i \in DOMAIN r.frames : i + 1 \in DOMAIN k.frames /\ r.frames[i] = k.frames[i + 1] /\ i \in Nat \ {0}
      /\ r.frames # <<>> => 1 \in DOMAIN r.frames /\ Head(r.frames) = r.frames[1]
  <2>1. r.frames \in Seq(Downward) /\ \A i \in DOMAIN r.frames : i + 1 \in DOMAIN k.frames /\ r.frames[i] = k.frames[i + 1]
    BY Tailed
  <2>2. r.frames # <<>> => 1 \in DOMAIN r.frames /\ Head(r.frames) = r.frames[1]
    BY <2>1, Tailed
  <2>3. DOMAIN r.frames \subseteq Nat \ {0}
    <3>1. DOMAIN r.frames = 1..Len(r.frames)
      BY <2>1, LenProperties
    <3> QED  BY <3>1
  <2> QED  BY <2>1, <2>2, <2>3
<1>2. Framed(cl, k, ses, n)
  BY DEF Reading
<1>3. \A i \in DOMAIN r.frames : i + 1 \in Shows(k) /\ i + 1 # 1 /\ i \in Shows(r)
  <2> SUFFICES ASSUME NEW i \in DOMAIN r.frames PROVE i + 1 \in Shows(k) /\ i + 1 # 1 /\ i \in Shows(r)
    OBVIOUS
  <2>1. i + 1 # 1
    BY <1>1
  <2>2. i + 1 \in Shows(k)
    BY <1>1, <1>2, <2>1 DEF Framed
  <2> QED  BY <1>1, <2>1, <2>2 DEF Shows
<1>4. ~Greeted(r)
  BY <1>1, <1>3 DEF Greeted, Shows
<1>5. Reader(dl, r) = Reader(cl, k)
  BY <1>4 DEF Reader
<1>6. Framed(dl, r, ses, n)
  <2>1. ASSUME NEW i \in Shows(r)
        PROVE  /\ Prefix(r.frames[i].snapshot, n)
               /\ Reaches(r.frames[i].snapshot, r.frames[i].acknowledged)
               /\ Within(dl.snapshot, r.frames[i].snapshot)
               /\ \A j \in Shows(r) : i < j => Within(r.frames[i].snapshot, r.frames[j].snapshot)
               /\ Behind(r.frames[i].snapshot, ses, Reader(dl, r))
    <3>1. i \in DOMAIN r.frames /\ \A j \in Shows(r) : j \in DOMAIN r.frames
      BY DEF Shows
    <3>2. i + 1 \in Shows(k) /\ i + 1 # 1 /\ r.frames[i] = k.frames[i + 1]
      BY <1>1, <1>3, <3>1
    <3>3. ASSUME NEW j \in Shows(r), i < j
          PROVE  Within(r.frames[i].snapshot, r.frames[j].snapshot)
      <4>1. j + 1 \in Shows(k) /\ r.frames[j] = k.frames[j + 1] /\ i + 1 < j + 1
        BY <1>1, <1>3, <3>1, <3>3
      <4> QED  BY <1>2, <3>2, <4>1 DEF Framed
    <3> QED  BY <1>2, <1>5, <3>2, <3>3 DEF Framed
  <2> QED  BY <1>3, <1>5, <2>1 DEF Framed
<1>7. k.at \notin {"hello", "lookup", "attach"}
  BY DEF Reading
<1> QED  BY <1>5, <1>6, <1>7 DEF Reading

LEMMA AcknowledgeKeeps ==
    ASSUME NEW state \in ClientState, NEW ack
    PROVE  LET after == Acknowledge(state, ack) IN
           /\ after.session = state.session /\ after.conn = state.conn /\ after.outbound = state.outbound
<1> DEFINE done == Max({state.acknowledged, ack})
           later == {k \in DOMAIN state.unacknowledged : state.unacknowledged[k] > done}
           v == IF later = {} THEN <<>>
                ELSE SubSeq(state.unacknowledged, Min(later), Len(state.unacknowledged))
<1>1. Acknowledge(state, ack) = [state EXCEPT !.acknowledged = done, !.unacknowledged = v]
  BY DEF Acknowledge
<1> HIDE DEF done, v
<1> QED  BY <1>1 DEF ClientState

\* The client lets go of its connection.
LEMMA LeaveOrdered ==
    ASSUME LiveInv, Ordered, NEW c \in Conns, sent' = sent, sessions' = sessions,
           conns' = [conns EXCEPT ![c] = Left(c)], client'.conn = None,
           client'.outbound = client.outbound,
           Prefix(client'.snapshot, sent), Reaches(client'.snapshot, client'.acknowledged),
           Behind(client'.snapshot, sessions, client'.session)
    PROVE  Ordered'
<1> DEFINE k == conns[c]
           r == Left(c)
<1>1. Typed /\ k \in Conn /\ Gapless(k, sessions, sent) /\ Following(client, sent)
  BY TypedParts DEF LiveInv, Ordered
<1>2. conns'[c] = r /\ \A d \in Conns : d # c => conns'[d] = conns[d]
  <2> HIDE DEF r
  <2> QED  BY <1>1 DEF Typed, r
<1>3. Gapless(r, sessions, sent) /\ (k.at \in {"open", "mark"} => r.at = k.at /\ r.session = k.session)
  <2>1. CASE k.at = "done"
    <3>1. r = FreeConn /\ FreeConn.at = "free"
      BY <2>1, FreeEmpty DEF Left
    <3> HIDE DEF r, k
    <3> QED  BY <2>1, <3>1, DoneKept
  <2>2. CASE k.at # "done"
    <3>1. r = [k EXCEPT !.gone = TRUE, !.frames = <<>>]
      BY <2>2 DEF Left
    <3> HIDE DEF r
    <3>2. r.at = k.at /\ r.up = k.up /\ r.session = k.session /\ r.snapshot = k.snapshot
      BY <1>1, <3>1 DEF Conn
    <3> HIDE DEF k
    <3> QED  BY <1>1, <3>2, ComingSame
  <2> QED  BY <2>1, <2>2
<1>4. Following(client', sent) /\ client'.conn # c
  BY <1>1, LiveTypes DEF Following
<1> HIDE DEF r
<1> QED  BY <1>1, <1>2, <1>3, <1>4, OrderedClient DEF k

LEMMA ReceiveOrdered == LiveInv /\ Ordered /\ Receive => Ordered'
<1> SUFFICES ASSUME LiveInv, Ordered, Receive PROVE Ordered'
  OBVIOUS
<1> DEFINE c == client.conn
           k == conns[c]
           f == Head(k.frames)
           r == [k EXCEPT !.frames = Tail(k.frames)]
<1>1. /\ Typed /\ client \in ClientState /\ client.acknowledged \in Nat /\ sent \in Nat
      /\ Contiguous(client, sent)
  BY TypedParts DEF LiveInv, Typed
<1>2. /\ c \in Conns /\ k.frames # <<>> /\ k.frames \in Seq(Downward) /\ k \in Conn
      /\ sent' = sent /\ sessions' = sessions
  BY <1>1, TypedParts DEF Receive, ClientState
<1>3. f \in Downward /\ 1 \in DOMAIN k.frames /\ f = k.frames[1]
  BY <1>2, Tailed
<1>4. /\ Gapless(k, sessions, sent) /\ Came(k, sessions, Handed) /\ Reading(client, k, sessions, sent)
      /\ Prefix(client.snapshot, sent) /\ Reaches(client.snapshot, client.acknowledged)
      /\ Following(client, sent)
  BY <1>2 DEF Ordered
<1>5. /\ r.at = k.at /\ r.up = k.up /\ r.session = k.session /\ r.snapshot = k.snapshot
      /\ r.frames = Tail(k.frames) /\ r.gone = k.gone
  BY <1>2 DEF Conn
<1>6. Gapless(r, sessions, sent) /\ Came(r, sessions, Handed)
  <2> HIDE DEF k, r
  <2> QED  BY <1>4, <1>5, ComingSame
<1>7. Framed(client, k, sessions, sent)
  BY <1>4 DEF Reading
<1>8. (f.frame = "welcome" => Reader(client, k) = f.session)
      /\ (f.frame # "welcome" => Reader(client, k) = client.session)
  BY <1>2 DEF Reader, Greeted
<1> HIDE DEF r, f, k
<1>9. ASSUME conns' = [conns EXCEPT ![c] = r], client'.conn = c, client'.outbound = client.outbound,
             Reading(client', r, sessions, sent),
             Prefix(client'.snapshot, sent), Reaches(client'.snapshot, client'.acknowledged),
             Behind(client'.snapshot, sessions, client'.session)
      PROVE  Ordered'
  <2>1. conns'[c] = r /\ \A d \in Conns : d # c => conns'[d] = conns[d]
    BY <1>1, <1>2, <1>9 DEF Typed
  <2>2. Following(client', sent) /\ sent - Len(client'.outbound) = Handed
    BY <1>4, <1>9 DEF Following, Handed
  <2> QED  BY <1>1, <1>2, <1>5, <1>6, <1>9, <2>1, <2>2, OrderedClient DEF k
<1>10. CASE f.frame = "welcome"
  <2>1. client' = [client EXCEPT !.session = f.session] /\ conns' = [conns EXCEPT ![c] = r]
    BY <1>10 DEF Receive, f, r, k
  <2>2. /\ client'.session = f.session /\ client'.snapshot = client.snapshot
        /\ client'.acknowledged = client.acknowledged /\ client'.conn = c /\ client'.outbound = client.outbound
    BY <1>1, <2>1 DEF ClientState
  <2>3. /\ \A i \in Shows(k) : Within(client.snapshot, k.frames[i].snapshot)
        /\ Behind(client.snapshot, sessions, Reader(client, k))
    BY <1>7 DEF Framed
  <2> DEFINE dl == client'
  <2>4. dl.session = Reader(client, k) /\ dl.snapshot = client.snapshot
    BY <1>8, <1>10, <2>2
  <2> HIDE DEF dl, c
  <2>5. Reading(dl, r, sessions, sent)
    BY <1>2, <1>4, <1>5, <2>3, <2>4, FramedTail
  <2>6. Behind(client'.snapshot, sessions, client'.session)
    BY <2>3, <2>4 DEF dl
  <2> QED  BY <1>4, <1>9, <2>1, <2>2, <2>5, <2>6 DEF dl
<1>11. ASSUME f.frame # "welcome", NEW state \in ClientState, state.snapshot = f.snapshot,
              state.acknowledged = client.acknowledged, state.unacknowledged = client.unacknowledged,
              state.outbound = client.outbound, client' = Acknowledge(state, f.acknowledged)
       PROVE  /\ client'.snapshot = f.snapshot /\ client'.session = state.session /\ client'.conn = state.conn
              /\ client'.outbound = client.outbound /\ Prefix(f.snapshot, sent)
              /\ Reaches(f.snapshot, client'.acknowledged) /\ Behind(f.snapshot, sessions, client.session)
              /\ \A i \in Shows(k) : i # 1 => Within(f.snapshot, k.frames[i].snapshot)
  <2>1. f.acknowledged \in 0..sent /\ f.acknowledged \in Nat
    BY <1>1, <1>3, <1>11 DEF Downward, Welcomes, Trees
  <2>2. Contiguous(state, sent)
    BY <1>1, <1>11 DEF Contiguous
  <2>3. /\ client'.snapshot = f.snapshot
        /\ client'.acknowledged = IF client.acknowledged >= f.acknowledged THEN client.acknowledged ELSE f.acknowledged
    BY <1>1, <1>11, <2>1, <2>2, AcknowledgeTyped DEF ClientState, Sent
  <2>4. client'.session = state.session /\ client'.conn = state.conn /\ client'.outbound = state.outbound
    BY <1>11, AcknowledgeKeeps
  <2>5. 1 \in Shows(k)
    BY <1>3, <1>11 DEF Shows
  <2>6. /\ Prefix(f.snapshot, sent) /\ Reaches(f.snapshot, f.acknowledged) /\ Within(client.snapshot, f.snapshot)
        /\ \A i \in Shows(k) : 1 < i => Within(f.snapshot, k.frames[i].snapshot)
        /\ Behind(f.snapshot, sessions, client.session)
    BY <1>3, <1>7, <1>8, <1>11, <2>5 DEF Framed
  <2>7. \A i \in Shows(k) : i # 1 => 1 < i
    <3>1. DOMAIN k.frames = 1..Len(k.frames)
      BY <1>2, LenProperties
    <3> QED  BY <3>1 DEF Shows
  <2>8. Reaches(f.snapshot, client'.acknowledged)
    BY <1>4, <2>3, <2>6, WithinOn
  <2> QED  BY <1>11, <2>3, <2>4, <2>6, <2>7, <2>8
<1>12. CASE f.frame = "tree"
  <2> DEFINE state == [client EXCEPT !.snapshot = f.snapshot]
  <2>1. f \in Trees
    BY <1>3, <1>12 DEF Downward, Welcomes
  <2>2. client' = Acknowledge(state, f.acknowledged) /\ conns' = [conns EXCEPT ![c] = r]
    BY <1>12 DEF Receive, f, r, k
  <2>3. /\ state \in ClientState /\ state.snapshot = f.snapshot /\ state.acknowledged = client.acknowledged
        /\ state.unacknowledged = client.unacknowledged /\ state.outbound = client.outbound
        /\ state.session = client.session /\ state.conn = c
    BY <1>1, <2>1 DEF ClientState, Trees
  <2> HIDE DEF state
  <2>4. /\ client'.snapshot = f.snapshot /\ client'.session = client.session /\ client'.conn = c
        /\ client'.outbound = client.outbound /\ Prefix(f.snapshot, sent)
        /\ Reaches(f.snapshot, client'.acknowledged) /\ Behind(f.snapshot, sessions, client.session)
        /\ \A i \in Shows(k) : i # 1 => Within(f.snapshot, k.frames[i].snapshot)
    BY <1>11, <1>12, <2>2, <2>3
  <2> DEFINE dl == client'
  <2>5. dl.session = Reader(client, k) /\ dl.snapshot = f.snapshot /\ Reader(client, k) = client.session
    BY <1>8, <1>12, <2>4
  <2> HIDE DEF dl, c
  <2>6. Reading(dl, r, sessions, sent)
    BY <1>2, <1>4, <1>5, <2>4, <2>5, FramedTail
  <2> QED  BY <1>9, <2>2, <2>4, <2>6 DEF dl
<1>13. CASE f.frame = "drain"
  <2> DEFINE state == [client EXCEPT !.snapshot = f.snapshot, !.session = None, !.conn = None, !.url = To]
  <2>1. f \in Trees
    BY <1>3, <1>13 DEF Downward, Welcomes
  <2>2. client' = Acknowledge(state, f.acknowledged) /\ conns' = [conns EXCEPT ![c] = Left(c)]
    BY <1>13 DEF Receive, f, k
  <2>3. /\ state \in ClientState /\ state.snapshot = f.snapshot /\ state.acknowledged = client.acknowledged
        /\ state.unacknowledged = client.unacknowledged /\ state.outbound = client.outbound
        /\ state.session = None /\ state.conn = None
    BY <1>1, <2>1, LiveTypes DEF ClientState, Trees
  <2> HIDE DEF state
  <2>4. /\ client'.snapshot = f.snapshot /\ client'.session = None /\ client'.conn = None
        /\ client'.outbound = client.outbound /\ Prefix(f.snapshot, sent)
        /\ Reaches(f.snapshot, client'.acknowledged)
    BY <1>11, <1>13, <2>2, <2>3
  <2>5. Behind(client'.snapshot, sessions, client'.session)
    BY <2>4, LiveTypes DEF Behind
  <2> HIDE DEF c
  <2> QED  BY <1>2, <2>2, <2>4, <2>5, LeaveOrdered
<1>14. f.frame \in {"welcome", "tree", "drain"}
  BY <1>3 DEF Downward, Welcomes, Trees
<1> QED  BY <1>10, <1>12, <1>13, <1>14

LEMMA DisconnectOrdered == LiveInv /\ Ordered /\ (Disconnected \/ Break) => Ordered'
<1> SUFFICES ASSUME LiveInv, Ordered, Disconnected \/ Break PROVE Ordered'
  OBVIOUS
<1> DEFINE c == client.conn
<1>1. client \in ClientState
  BY TypedParts DEF LiveInv
<1>2. /\ c \in Conns /\ client' = [client EXCEPT !.conn = None]
      /\ conns' = [conns EXCEPT ![c] = Left(c)] /\ sent' = sent /\ sessions' = sessions
  BY <1>1 DEF Disconnected, Break, ClientState
<1>3. /\ client'.snapshot = client.snapshot /\ client'.session = client.session /\ client'.conn = None
      /\ client'.acknowledged = client.acknowledged /\ client'.outbound = client.outbound
  BY <1>1, <1>2 DEF ClientState
<1>4. /\ Prefix(client.snapshot, sent) /\ Reaches(client.snapshot, client.acknowledged)
      /\ Behind(client.snapshot, sessions, client.session)
  BY DEF Ordered
<1> HIDE DEF c
<1> QED  BY <1>2, <1>3, <1>4, LeaveOrdered

-----------------------------------------------------------------------------
(* LiveDelivery is implemented. *)

LEMMA OrderedInitially == Init => Ordered
<1> SUFFICES ASSUME Init PROVE Ordered
  OBVIOUS
<1>1. /\ sent = 0 /\ client.snapshot = <<>> /\ client.acknowledged = 0 /\ client.session = None
      /\ client.conn = None /\ client.outbound = <<>>
      /\ \A c \in Conns : conns[c] = FreeConn
      /\ \A s \in Ids : sessions[s] = NoSession
  BY DEF Init
<1>2. \A s \in Ids : Sound(sessions[s], sent) /\ \A c \in Conns : ~Feeds(sessions[s], c)
  BY <1>1, EndedSound
<1>3. \A c \in Conns : Gapless(conns[c], sessions, sent)
  <2>1. FreeConn.at = "free"
    BY FreeEmpty
  <2> QED  BY <1>1, <2>1, DoneKept
<1>4. Linked(conns, sessions)
  BY <1>2 DEF Linked
<1>5. Prefix(client.snapshot, sent) /\ Reaches(client.snapshot, client.acknowledged)
  BY <1>1, NothingReached
<1>6. Following(client, sent)
  BY <1>1 DEF Following
<1>7. client.conn \notin Conns /\ Behind(client.snapshot, sessions, client.session)
  BY <1>1, LiveTypes DEF Behind
<1> QED  BY <1>2, <1>3, <1>4, <1>5, <1>6, <1>7 DEF Ordered

LEMMA OrderedNext == LiveInv /\ Ordered /\ [Next]_vars => Ordered'
<1> SUFFICES ASSUME LiveInv, Ordered, [Next]_vars PROVE Ordered'
  OBVIOUS
<1>1. CASE Send \/ SendOutbound \/ Receive \/ ClientStep \/ Break
  BY <1>1, SendOrdered, ConnectOrdered, SendOutboundOrdered, ReceiveOrdered, DisconnectOrdered DEF ClientStep
<1>2. ASSUME NEW c \in Conns, HandlerStep(c) \/ Forward(c) PROVE Ordered'
  BY <1>2, NoHelloOrdered, GreetOrdered, LookupOrdered, AttachOrdered, ForwardOrdered, CloseOrdered,
     MarkDetachedOrdered DEF HandlerStep
<1>3. ASSUME NEW s \in Ids, SessionStep(s) PROVE Ordered'
  BY <1>3, TurnOrdered, ExitOrdered DEF SessionStep
<1>4. CASE StartDrain
  BY <1>4, StartDrainOrdered
<1>5. ASSUME NEW i \in Instances, DrainSessions(i) \/ DropConnections(i) \/ Crash(i) \/ Reap(i) PROVE Ordered'
  BY <1>5, DrainSessionsOrdered, DropConnectionsOrdered, CrashOrdered, ReapOrdered
<1>6. CASE UNCHANGED vars
  <2>1. sent' = sent /\ client' = client /\ conns' = conns /\ sessions' = sessions
    BY <1>6 DEF vars
  <2> QED  BY <2>1, ToldKeeps DEF LiveInv, Alike
<1> QED  BY <1>1, <1>2, <1>3, <1>4, <1>5, <1>6 DEF Next

\* What the client shows never goes back.
LEMMA NeverBack == LiveInv /\ Ordered /\ [Next]_vars =>
                     client'.snapshot = client.snapshot \/ (sent' = sent /\ Within(client.snapshot, client'.snapshot))
<1> SUFFICES ASSUME LiveInv, Ordered, [Next]_vars
             PROVE  client'.snapshot = client.snapshot \/ (sent' = sent /\ Within(client.snapshot, client'.snapshot))
  OBVIOUS
<1>1. client \in ClientState
  BY TypedParts DEF LiveInv
<1>2. CASE Receive
  <2> DEFINE c == client.conn
             k == conns[c]
             f == Head(k.frames)
  <2>1. c \in Conns /\ k.frames # <<>> /\ k.frames \in Seq(Downward) /\ sent' = sent
    BY <1>1, <1>2, TypedParts DEF Receive, ClientState, LiveInv
  <2>2. f = k.frames[1] /\ 1 \in DOMAIN k.frames
    BY <2>1, Tailed
  <2>3. CASE f.frame = "welcome"
    <3>1. client' = [client EXCEPT !.session = f.session]
      BY <1>2, <2>3 DEF Receive
    <3> QED  BY <1>1, <3>1 DEF ClientState
  <2>4. CASE f.frame # "welcome"
    <3>1. PICK state : state \in {[client EXCEPT !.snapshot = f.snapshot],
                                  [client EXCEPT !.snapshot = f.snapshot, !.session = None, !.conn = None, !.url = To]}
                       /\ client' = Acknowledge(state, f.acknowledged)
      <4>1. f \in Downward
        BY <2>1, Tailed
      <4>2. f.frame = "tree" \/ f.frame = "drain"
        BY <2>4, <4>1 DEF Downward, Welcomes, Trees
      <4> QED  BY <1>2, <4>2 DEF Receive
    <3>2. state.snapshot = f.snapshot
      BY <1>1, <3>1 DEF ClientState
    <3>3. client'.snapshot = f.snapshot
      <4>1. f \in Trees /\ sent \in Nat
        BY <2>1, <2>4, Tailed, TypedParts DEF Downward, Welcomes, Trees, LiveInv
      <4>2. state \in ClientState /\ Contiguous(state, sent)
        <5>1. Contiguous(client, sent)
          BY DEF LiveInv, Typed
        <5>2. state.acknowledged = client.acknowledged /\ state.unacknowledged = client.unacknowledged
          BY <1>1, <3>1 DEF ClientState
        <5> QED  BY <1>1, <3>1, <4>1, <5>1, <5>2, LiveTypes DEF ClientState, Trees, Contiguous
      <4>3. f.acknowledged \in 0..sent
        BY <4>1 DEF Trees
      <4> QED  BY <3>1, <3>2, <4>1, <4>2, <4>3, AcknowledgeTyped DEF ClientState, Sent
    <3>4. Within(client.snapshot, f.snapshot)
      <4>1. Framed(client, k, sessions, sent)
        BY <2>1 DEF Ordered, Reading
      <4>2. 1 \in Shows(k)
        BY <2>2, <2>4 DEF Shows
      <4> HIDE DEF k
      <4> QED  BY <2>2, <4>1, <4>2 DEF Framed
    <3> QED  BY <2>1, <3>3, <3>4
  <2> QED  BY <2>3, <2>4
<1>3. CASE Send \/ SendOutbound \/ ClientStep \/ Break
  BY <1>1, <1>3 DEF Send, SendOutbound, ClientStep, Connect, Disconnected, Break, ClientState
<1>4. ASSUME client' = client PROVE client'.snapshot = client.snapshot
  BY <1>4
<1>5. ASSUME NEW c \in Conns, HandlerStep(c) \/ Forward(c) PROVE client' = client
  BY <1>5 DEF HandlerStep, NoHello, Greet, Lookup, Attach, Close, MarkDetached, Forward
<1>6. ASSUME NEW s \in Ids, SessionStep(s) PROVE client' = client
  BY <1>6 DEF SessionStep, Turn, Exit
<1>7. ASSUME NEW i \in Instances, DrainSessions(i) \/ DropConnections(i) \/ Crash(i) \/ Reap(i) PROVE client' = client
  BY <1>7 DEF DrainSessions, DropConnections, Crash, Reap
<1> QED  BY <1>2, <1>3, <1>4, <1>5, <1>6, <1>7 DEF Next, StartDrain, vars

LEMMA SentNext == LiveInv /\ [Next]_vars => sent' = sent \/ Send
<1>1. \A c \in Conns : HandlerStep(c) \/ Forward(c) => sent' = sent
  BY DEF HandlerStep, NoHello, Greet, Lookup, Attach, Close, MarkDetached, Forward
<1>2. \A s \in Ids : SessionStep(s) => sent' = sent
  BY DEF SessionStep, Turn, Exit
<1>3. \A i \in Instances : DrainSessions(i) \/ DropConnections(i) \/ Crash(i) \/ Reap(i) => sent' = sent
  BY DEF DrainSessions, DropConnections, Crash, Reap
<1>4. SendOutbound \/ Receive \/ ClientStep \/ Break \/ StartDrain \/ UNCHANGED vars => sent' = sent
  BY DEF SendOutbound, Receive, ClientStep, Connect, Disconnected, Break, StartDrain, vars
<1> QED  BY <1>1, <1>2, <1>3, <1>4 DEF Next

LEMMA DeliveryNext ==
    LiveInv /\ Ordered /\ LiveInv' /\ Ordered' /\ [Next]_vars
        => [Delivery!Send \/ Delivery!Show]_<<sent, Firsts(client.snapshot)>>
<1> SUFFICES ASSUME LiveInv, Ordered, LiveInv', Ordered', [Next]_vars
             PROVE  [Delivery!Send \/ Delivery!Show]_<<sent, Firsts(client.snapshot)>>
  OBVIOUS
<1> DEFINE x == client.snapshot
           y == client'.snapshot
<1>1. x \in Seq(Events) /\ y \in Seq(Events) /\ sent \in Nat /\ sent' \in Nat
  <2>1. Typed /\ Typed'
    BY DEF LiveInv
  <2>2. sent' \in Nat /\ client' \in ClientState'
    BY <2>1, LiveTypes DEF Typed
  <2>3. y \in States
    BY <2>2 DEF ClientState
  <2> QED  BY <2>1, <2>2, <2>3, TypedParts DEF States
<1>2. y = x \/ (sent' = sent /\ Within(x, y))
  BY NeverBack
<1>3. CASE y = x
  <2>1. Firsts(client.snapshot)' = Firsts(client.snapshot)
    <3>1. Firsts(client.snapshot)' = Firsts(y)
      BY DEF Firsts
    <3> QED  BY <1>3, <3>1
  <2>2. sent' = sent \/ sent' = sent + 1
    BY SentNext DEF Send
  <2> QED  BY <2>1, <2>2 DEF Delivery!Send
<1>4. CASE sent' = sent /\ Within(x, y)
  <2>1. PICK m \in 0..sent : Extent(x, m)
    BY DEF Ordered, Prefix
  <2>2. PICK n \in 0..sent : Extent(y, n)
    <3>1. Prefix(y, sent)
      BY <1>4 DEF Ordered
    <3> QED  BY <3>1 DEF Prefix
  <2>3. m \in Nat /\ n \in Nat
    BY <1>1, <2>1, <2>2
  <2> HIDE DEF x, y
  <2>4. m <= n
    BY <1>1, <1>4, <2>1, <2>2, <2>3, ExtentGrows
  <2>5. Firsts(x) = [i \in 1..m |-> i] /\ Firsts(y) = [i \in 1..n |-> i]
    BY <1>1, <2>1, <2>2, <2>3, FirstsOfExtent
  <2>6. Len(Firsts(x)) = m
    BY <2>3, <2>5
  <2>7. Firsts(client.snapshot)' = Firsts(y)
    BY DEF Firsts, y
  <2>8. n \in Len(Firsts(x))..sent
    BY <1>1, <2>2, <2>4, <2>6
  <2>9. Firsts(client.snapshot)' = [i \in 1..n |-> i]
    BY <2>5, <2>7
  <2> QED  BY <1>4, <2>8, <2>9 DEF Delivery!Show, x
<1> QED  BY <1>2, <1>3, <1>4

\* The detailed protocol implements LiveDelivery: over resent events, broken
\* connections, drains and crashes, the screen only ever shows the state of a
\* growing prefix of the events sent, in order.
THEOREM PrefixShown == Spec => InOrder
<1>1. Init => Delivery!Init
  <2> SUFFICES ASSUME Init PROVE Delivery!Init
    OBVIOUS
  <2>1. sent = 0 /\ client.snapshot = <<>>
    BY DEF Init
  <2>2. Firsts(<<>>) = [i \in 1..0 |-> i]
    BY NothingReached, EmptyTyped, FirstsOfExtent
  <2>3. [i \in 1..0 |-> i] = <<>>
    OBVIOUS
  <2> QED  BY <2>1, <2>2, <2>3 DEF Delivery!Init
<1> QED  BY <1>1, LiveInvInitially, LiveInvNext, OrderedInitially, OrderedNext, DeliveryNext, PTL
         DEF Spec, InOrder, Delivery!Spec
=============================================================================
