--------------------------------- MODULE Live ---------------------------------
(***************************************************************************)
(* Server-interactive mode (rustnative-sync, live.rs): one LiveClient and  *)
(* the LiveServer instances it is sent between, with their sessions, the   *)
(* connections' handlers, and a network that breaks connections.           *)
(*                                                                         *)
(* Actors: the client's maintain task and its user; a handler per          *)
(* connection (accept); a thread per session (run_session); drain; the     *)
(* network; the processes, which may die and be started again.  Each       *)
(* command to a session and each access to the session map is one step.    *)
(* The frames channel of a handler and the socket it forwards to are one   *)
(* queue.  The application's state is the sequence of events it has        *)
(* applied; the tree shows all of them but the silent ones.                *)
(***************************************************************************)
EXTENDS Integers, Sequences, FiniteSetsExt, SequencesExt

CONSTANTS
    MaxEvents,    \* bound: events the user sends
    Silent,       \* events that change the state and not the tree
    Instances,    \* LiveServer instances
    First, To,    \* the instance connected to first, and where drain points
    NumConns,     \* connections that exist at once; a closed one is used again
    NumSessions,  \* sessions that exist at once; a forgotten one is used again
    MaxFaults     \* bound: connections broken or dropped, drains and crashes

ASSUME LiveAssumption ==
    /\ {MaxEvents, NumConns, NumSessions, MaxFaults} \subseteq Nat
    /\ Silent \subseteq 1..MaxEvents
    /\ {First, To} \subseteq Instances

VARIABLES
    sent,       \* LiveClient.sequence
    client,     \* ClientState, the outbound queue, the url and connection of maintain
    conns,      \* connections with their handlers
    sessions,   \* session threads and their entries in the instances' maps
    draining,   \* drain not called, past its flag, or done, per instance
    faults,
    stale,      \* history: events sent from outbound after they were acknowledged
    unwelcomed  \* history: sessions whose Welcome could not be sent

vars == <<sent, client, conns, sessions, draining, faults, stale, unwelcomed>>

Events == 1..MaxEvents
Conns == 1..NumConns
Ids == 1..NumSessions
None == 0
Closed == -1      \* an outbound channel whose receiver is gone
NoView == <<0>>   \* last = None

FreeConn == [at |-> "free", inst |-> First, up |-> <<>>, frames |-> <<>>,
             session |-> None, snapshot |-> <<>>, gone |-> FALSE]
NoSession == [home |-> First, mapped |-> FALSE, detached_at |-> FALSE, alive |-> FALSE,
              commands |-> <<>>, applied |-> <<>>, acknowledged |-> 0,
              outbound |-> None, last |-> NoView]

Event(e) == [frame |-> "event", sequence |-> e]
Hello == [frame |-> "hello", session |-> client.session, snapshot |-> client.snapshot]
Welcome(s) == [frame |-> "welcome", session |-> s]
Tree(state, ack) == [frame |-> "tree", snapshot |-> state, acknowledged |-> ack]
DrainFrame(state, ack) == [frame |-> "drain", snapshot |-> state, acknowledged |-> ack]

States == Seq(Events)

TypeOK ==
    /\ sent \in 0..MaxEvents
    /\ client.acknowledged \in 0..sent /\ client.snapshot \in States
    /\ client.session \in Ids \union {None} /\ client.conn \in Conns \union {None}
    /\ client.url \in Instances /\ client.outbound \in States
    /\ client.unacknowledged = [i \in 1..(sent - client.acknowledged) |-> client.acknowledged + i]
    /\ \A c \in Conns :
           /\ conns[c].at \in {"free", "hello", "lookup", "attach", "open", "mark", "done"}
           /\ conns[c].inst \in Instances
           /\ conns[c].session \in Ids \union {None}
           /\ conns[c].at = "free" => conns[c] = FreeConn /\ client.conn # c
           /\ conns[c].gone <=> conns[c].at # "free" /\ client.conn # c
    /\ \A s \in Ids :
           /\ sessions[s].outbound \in Conns \union {None, Closed}
           /\ sessions[s].applied \in States /\ sessions[s].acknowledged \in 0..sent
           /\ ~sessions[s].alive => sessions[s].commands = <<>> /\ sessions[s].outbound = None
    /\ draining \in [Instances -> {"no", "flag", "done"}]

Init ==
    /\ sent = 0
    /\ client = [acknowledged |-> 0, snapshot |-> <<>>, session |-> None, url |-> First,
                 conn |-> None, outbound |-> <<>>, unacknowledged |-> <<>>]
    /\ conns = [c \in Conns |-> FreeConn]
    /\ sessions = [s \in Ids |-> NoSession]
    /\ draining = [i \in Instances |-> "no"]
    /\ faults = 0
    /\ stale = {} /\ unwelcomed = {}

-----------------------------------------------------------------------------
(* Helpers. *)

View(state) == SelectSeq(state, LAMBDA e : e \notin Silent)

\* The client lets go of connection c; a handler that is done leaves it free.
Left(c) == IF conns[c].at = "done" THEN FreeConn
           ELSE [conns[c] EXCEPT !.gone = TRUE, !.frames = <<>>]

\* A handler ends: its socket closes and its frames receiver is dropped.
Ended(c) == IF conns[c].gone THEN FreeConn
            ELSE [conns[c] EXCEPT !.at = "done", !.up = <<>>, !.session = None, !.snapshot = <<>>]

ReceiverDropped(c, all) ==
    [s \in Ids |->
        [all[s] EXCEPT !.outbound = IF @ = c THEN Closed ELSE @,
                       !.commands = [k \in DOMAIN @ |->
                           IF @[k] = <<"attach", c>> THEN <<"attach", Closed>> ELSE @[k]]]]

\* Sending to a session whose thread has ended does nothing.
Commanded(s, command) ==
    IF sessions[s].alive THEN [sessions[s] EXCEPT !.commands = Append(@, command)]
                         ELSE sessions[s]

\* Every sender of c's frames has been dropped.
SendersGone(c) ==
    \A s \in Ids : sessions[s].outbound # c /\ <<"attach", c>> \notin ToSet(sessions[s].commands)

\* ClientState::acknowledge: retain keeps the later events, which are in order.
Acknowledge(state, ack) ==
    LET done  == Max({state.acknowledged, ack})
        later == {k \in DOMAIN state.unacknowledged : state.unacknowledged[k] > done}
    IN  [state EXCEPT !.acknowledged = done,
                      !.unacknowledged = IF later = {} THEN <<>> ELSE SubSeq(@, Min(later), Len(@))]

-----------------------------------------------------------------------------
(* The client: the user's send, and maintain. *)

\* One thread sends: the number is drawn and the event queued in one step.
Send ==
    /\ sent < MaxEvents
    /\ sent' = sent + 1
    /\ client' = [client EXCEPT !.unacknowledged = Append(@, sent + 1),
                                !.outbound = Append(@, sent + 1)]
    /\ UNCHANGED <<conns, sessions, draining, faults, stale, unwelcomed>>

\* Hello, then what the server has not reflected yet goes (again) first.
MutResend == <<>>
Resend == client.unacknowledged

Connect ==
    /\ client.conn = None
    /\ \E c \in Conns :
           /\ conns[c].at = "free" /\ \A d \in 1..(c - 1) : conns[d].at # "free"
           /\ client' = [client EXCEPT !.conn = c]
           /\ conns' = [conns EXCEPT ![c] = [FreeConn EXCEPT
                  !.at = "hello", !.inst = client.url,
                  !.up = <<Hello>> \o [k \in DOMAIN Resend |-> Event(Resend[k])]]]
    /\ UNCHANGED <<sent, sessions, draining, faults, stale, unwelcomed>>

SendOutbound ==
    LET c == client.conn  e == Head(client.outbound) IN
    /\ c # None /\ client.outbound # <<>>
    /\ client' = [client EXCEPT !.outbound = Tail(@)]
    /\ conns' = IF conns[c].at = "done" THEN conns
                ELSE [conns EXCEPT ![c].up = Append(@, Event(e))]
    /\ stale' = IF e <= client.acknowledged THEN stale \union {e} ELSE stale
    /\ UNCHANGED <<sent, sessions, draining, faults, unwelcomed>>

Receive ==
    LET c == client.conn  f == Head(conns[c].frames) IN
    /\ c # None /\ conns[c].frames # <<>>
    /\ CASE f.frame = "welcome" ->
              /\ client' = [client EXCEPT !.session = f.session]
              /\ conns' = [conns EXCEPT ![c].frames = Tail(@)]
         [] f.frame = "tree" ->
              /\ client' = Acknowledge([client EXCEPT !.snapshot = f.snapshot], f.acknowledged)
              /\ conns' = [conns EXCEPT ![c].frames = Tail(@)]
         [] f.frame = "drain" ->
              /\ client' = Acknowledge([client EXCEPT !.snapshot = f.snapshot, !.session = None,
                                                      !.conn = None, !.url = To], f.acknowledged)
              /\ conns' = [conns EXCEPT ![c] = Left(c)]
    /\ UNCHANGED <<sent, sessions, draining, faults, stale, unwelcomed>>

\* The stream ends.
Disconnected ==
    LET c == client.conn IN
    /\ c # None /\ conns[c].at = "done" /\ conns[c].frames = <<>>
    /\ client' = [client EXCEPT !.conn = None]
    /\ conns' = [conns EXCEPT ![c] = Left(c)]
    /\ UNCHANGED <<sent, sessions, draining, faults, stale, unwelcomed>>

\* The network breaks the connection: the handler may still read some of
\* what was sent, or see it closed at once.
Break ==
    LET c == client.conn IN
    /\ c # None /\ faults < MaxFaults
    /\ faults' = faults + 1
    /\ client' = [client EXCEPT !.conn = None]
    /\ conns' = [conns EXCEPT ![c] = Left(c)]
    /\ UNCHANGED <<sent, sessions, draining, stale, unwelcomed>>

-----------------------------------------------------------------------------
(* A connection's handler: LiveServer::accept. *)

\* The hello never comes.
NoHello(c) ==
    /\ conns[c].at = "hello" /\ conns[c].gone
    /\ conns' = [conns EXCEPT ![c] = Ended(c)]
    /\ UNCHANGED <<sent, client, sessions, draining, faults, stale, unwelcomed>>

\* reap stops sessions detached for longer than the grace period, which any
\* of them may be.
Reapable(i) == {s \in Ids : sessions[s].mapped /\ sessions[s].home = i /\ sessions[s].detached_at}

Reaped(expired) ==
    [s \in Ids |-> IF s \in expired
                     THEN [Commanded(s, <<"stop">>) EXCEPT !.mapped = FALSE, !.detached_at = FALSE]
                     ELSE sessions[s]]

\* The hello of another client, or a call of sessions().
Reap(i) ==
    /\ \E expired \in SUBSET Reapable(i) \ {{}} : sessions' = Reaped(expired)
    /\ UNCHANGED <<sent, client, conns, draining, faults, stale, unwelcomed>>

\* The hello arrives: reap; a draining instance sends the client on.
Greet(c) ==
    /\ conns[c].at = "hello" /\ conns[c].up # <<>>
    /\ \E expired \in SUBSET Reapable(conns[c].inst) : sessions' = Reaped(expired)
    /\ LET k == conns[c]  hello == Head(k.up) IN
       conns' = [conns EXCEPT ![c] =
           IF draining[k.inst] = "no"
             THEN [k EXCEPT !.at = "lookup", !.up = Tail(k.up),
                            !.session = hello.session, !.snapshot = hello.snapshot]
           ELSE IF k.gone THEN Ended(c)
           ELSE [Ended(c) EXCEPT !.frames = <<DrainFrame(hello.snapshot, 0)>>]]
    /\ UNCHANGED <<sent, client, draining, faults, stale, unwelcomed>>

\* A session nobody refers to can be used for a new one.
Forgotten(s) ==
    /\ ~sessions[s].alive /\ ~sessions[s].mapped /\ client.session # s
    /\ \A c \in Conns :
           /\ conns[c].session # s
           /\ \A k \in DOMAIN conns[c].up : conns[c].up[k].frame = "hello" => conns[c].up[k].session # s
           /\ \A k \in DOMAIN conns[c].frames :
                  conns[c].frames[k].frame = "welcome" => conns[c].frames[k].session # s

Lookup(c) ==
    LET s == conns[c].session  i == conns[c].inst IN
    /\ conns[c].at = "lookup"
    /\ IF s # None /\ sessions[s].mapped /\ sessions[s].home = i
         THEN /\ conns' = [conns EXCEPT ![c].at = "attach", ![c].snapshot = <<>>]
              /\ UNCHANGED <<sessions, unwelcomed>>
         ELSE \E n \in Ids :
              /\ Forgotten(n) /\ \A m \in 1..(n - 1) : ~Forgotten(m)
              /\ sessions' = [sessions EXCEPT ![n] = [NoSession EXCEPT
                     !.home = i, !.mapped = TRUE, !.alive = TRUE, !.applied = conns[c].snapshot]]
              /\ conns' = [conns EXCEPT ![c].at = "attach", ![c].session = n, ![c].snapshot = <<>>]
              /\ unwelcomed' = unwelcomed \ {n}
    /\ UNCHANGED <<sent, client, draining, faults, stale>>

\* Clears detached_at, sends Attach, then Welcome; if that cannot be sent
\* accept returns as it is.  (No other step comes out differently between
\* clearing and sending.)
Attach(c) ==
    LET s == conns[c].session
        Attached(frames) ==
            [sessions EXCEPT ![s] = [Commanded(s, <<"attach", frames>>) EXCEPT !.detached_at = FALSE]]
    IN
    /\ conns[c].at = "attach"
    /\ \/ /\ conns' = [conns EXCEPT ![c].at = "open",
                                    ![c].frames = IF conns[c].gone THEN @ ELSE Append(@, Welcome(s))]
          /\ sessions' = Attached(c)
          /\ UNCHANGED unwelcomed
       \/ /\ conns[c].gone
          /\ conns' = [conns EXCEPT ![c] = Ended(c)]
          /\ sessions' = Attached(Closed)
          /\ unwelcomed' = unwelcomed \union {s}
    /\ UNCHANGED <<sent, client, draining, faults, stale>>

Forward(c) ==
    LET s == conns[c].session IN
    /\ conns[c].at = "open" /\ conns[c].up # <<>>
    /\ conns' = [conns EXCEPT ![c].up = Tail(@)]
    /\ sessions' = [sessions EXCEPT ![s] = Commanded(s, <<"event", Head(conns[c].up).sequence>>)]
    /\ UNCHANGED <<sent, client, draining, faults, stale, unwelcomed>>

\* The socket fails, or the session has dropped the sender of the frames.
Close(c) ==
    LET s == conns[c].session IN
    /\ conns[c].at = "open" /\ (conns[c].gone \/ SendersGone(c))
    /\ conns' = [conns EXCEPT ![c].at = "mark"]
    /\ sessions' = [sessions EXCEPT ![s] = Commanded(s, <<"detach">>)]
    /\ UNCHANGED <<sent, client, draining, faults, stale, unwelcomed>>

MutMarks(s) == FALSE
Marks(s) == sessions[s].mapped

MarkDetached(c) ==
    LET s == conns[c].session IN
    /\ conns[c].at = "mark"
    /\ conns' = [conns EXCEPT ![c] = Ended(c)]
    /\ sessions' = ReceiverDropped(c,
           IF Marks(s) THEN [sessions EXCEPT ![s].detached_at = TRUE] ELSE sessions)
    /\ UNCHANGED <<sent, client, draining, faults, stale, unwelcomed>>

-----------------------------------------------------------------------------
(* A session's thread: run_session, one turn of the loop. *)

MutFresh(s, e) == TRUE
Fresh(s, e) == e > sessions[s].acknowledged

Commands(s) == sessions[s].commands # <<>>

\* What the command does to the session, before rendering.
AfterCommand(s) ==
    LET command == Head(sessions[s].commands)
        rest    == [sessions[s] EXCEPT !.commands = Tail(@)]
    IN  CASE command[1] = "event" ->
               IF Fresh(s, command[2])
                 THEN [rest EXCEPT !.applied = Append(@, command[2]), !.acknowledged = command[2]]
                 ELSE rest
          [] command[1] = "attach" -> [rest EXCEPT !.outbound = command[2], !.last = NoView]
          [] command[1] = "detach" -> [rest EXCEPT !.outbound = None]
          [] OTHER -> rest

\* The tree is sent when it differs from the last one sent; sending to a
\* handler that has ended drops the sender.
Turn(s) ==
    LET next == AfterCommand(s)
        changed == next.last # View(next.applied)
        out  == IF changed /\ next.outbound = Closed THEN None ELSE next.outbound
    IN  /\ sessions[s].alive /\ Commands(s)
        /\ Head(sessions[s].commands)[1] \notin {"drain", "stop"}
        /\ sessions' = [sessions EXCEPT ![s] =
               [next EXCEPT !.outbound = out,
                            !.last = IF changed /\ out # None THEN View(next.applied) ELSE next.last]]
        /\ conns' = IF changed /\ out \in Conns
                      THEN [conns EXCEPT ![out].frames =
                               IF conns[out].gone THEN @ ELSE Append(@, Tree(next.applied, next.acknowledged))]
                      ELSE conns
        /\ UNCHANGED <<sent, client, draining, faults, stale, unwelcomed>>

\* Drain and Stop end the thread.
Exit(s) ==
    LET command == Head(sessions[s].commands)[1]
        out     == sessions[s].outbound
    IN  /\ sessions[s].alive /\ Commands(s)
        /\ command \in {"drain", "stop"}
        /\ sessions' = [sessions EXCEPT ![s] = NoSession]
        /\ conns' = IF command = "drain" /\ out \in Conns
                      THEN [conns EXCEPT ![out].frames =
                               IF conns[out].gone THEN @
                               ELSE Append(@, DrainFrame(sessions[s].applied, sessions[s].acknowledged))]
                      ELSE conns
        /\ UNCHANGED <<sent, client, draining, faults, stale, unwelcomed>>

-----------------------------------------------------------------------------
(* The operator: drain sets its flag, then empties the map. *)

StartDrain ==
    /\ draining[First] = "no" /\ First # To /\ faults < MaxFaults
    /\ faults' = faults + 1
    /\ draining' = [draining EXCEPT ![First] = "flag"]
    /\ UNCHANGED <<sent, client, conns, sessions, stale, unwelcomed>>

DrainSessions(i) ==
    /\ draining[i] = "flag"
    /\ draining' = [draining EXCEPT ![i] = "done"]
    /\ sessions' = [s \in Ids |-> IF sessions[s].mapped /\ sessions[s].home = i
                                    THEN [Commanded(s, <<"drain">>) EXCEPT !.mapped = FALSE, !.detached_at = FALSE]
                                    ELSE sessions[s]]
    /\ UNCHANGED <<sent, client, conns, faults, stale, unwelcomed>>

\* drop_connections.
DropConnections(i) ==
    /\ faults < MaxFaults
    /\ faults' = faults + 1
    /\ sessions' = [s \in Ids |-> IF sessions[s].mapped /\ sessions[s].home = i
                                    THEN Commanded(s, <<"detach">>) ELSE sessions[s]]
    /\ UNCHANGED <<sent, client, conns, draining, stale, unwelcomed>>

\* An instance's process dies with its sessions and handlers, and another
\* one is started at its address.
Crash(i) ==
    /\ faults < MaxFaults /\ draining[i] = "no"
    /\ faults' = faults + 1
    /\ sessions' = [s \in Ids |-> IF sessions[s].home = i THEN NoSession ELSE sessions[s]]
    /\ conns' = [c \in Conns |-> IF conns[c].inst = i /\ conns[c].at # "free"
                                   THEN Ended(c) ELSE conns[c]]
    /\ unwelcomed' = {s \in unwelcomed : sessions[s].home # i}
    /\ UNCHANGED <<sent, client, draining, stale>>

-----------------------------------------------------------------------------

ClientStep == Connect \/ Disconnected
HandlerStep(c) ==
    NoHello(c) \/ Greet(c) \/ Lookup(c) \/ Attach(c) \/ Close(c) \/ MarkDetached(c)
SessionStep(s) == Turn(s) \/ Exit(s)

Next ==
    \/ Send \/ SendOutbound \/ Receive \/ ClientStep \/ Break
    \/ \E c \in Conns : HandlerStep(c) \/ Forward(c)
    \/ \E s \in Ids : SessionStep(s)
    \/ StartDrain
    \/ \E i \in Instances : DrainSessions(i) \/ DropConnections(i) \/ Crash(i) \/ Reap(i)

\* Tasks and threads run: the client reconnects and reads, handlers and
\* sessions serve.  Nothing makes the user send, the network break, an
\* instance drain or die, or another client connect.
Fairness ==
    /\ WF_vars(ClientStep) /\ WF_vars(Receive) /\ WF_vars(SendOutbound)
    /\ \A c \in Conns : WF_vars(HandlerStep(c)) /\ WF_vars(Forward(c))
    /\ \A s \in Ids : WF_vars(SessionStep(s))
    /\ \A i \in Instances : WF_vars(DrainSessions(i))

Spec == Init /\ [][Next]_vars /\ Fairness

-----------------------------------------------------------------------------
(* Properties. *)

\* The events of a state, each at its first occurrence.
Firsts(state) ==
    LET first == {k \in DOMAIN state : \A j \in 1..(k - 1) : state[j] # state[k]}
        Before(k) == {j \in first : j <= k}
    IN  [n \in 1..Cardinality(first) |-> state[CHOOSE k \in first : Cardinality(Before(k)) = n]]

Delivery == INSTANCE LiveDelivery WITH shown <- Firsts(client.snapshot)

\* The state the client shows is that of a growing prefix of the events its
\* user sent, in order and without gaps: the detailed protocol implements
\* LiveDelivery, up to events applied twice.
InOrder == Delivery!Spec

\* "The server applies each number once": an event is applied twice only if
\* the client sent it once more, from its queue, after it was acknowledged,
\* to a session that does not know.
DoubledOnlyIfStale ==
    \A s \in Ids :
        LET state == sessions[s].applied IN
        \A j, k \in DOMAIN state : j < k /\ state[j] = state[k] => state[j] \in stale

\* A session's thread is never leaked: while it runs it is in the map or has
\* been told to end, and in the map it either belongs to a handler or is
\* marked, so that reap finds it.  Except when its Welcome could not be sent.
SessionsAccounted ==
    \A s \in Ids :
        sessions[s].alive =>
            IF sessions[s].mapped
              THEN \/ sessions[s].detached_at
                   \/ \E c \in Conns : conns[c].session = s /\ conns[c].at # "lookup"
                   \/ s \in unwelcomed
              ELSE \E k \in DOMAIN sessions[s].commands :
                       sessions[s].commands[k] \in {<<"stop">>, <<"drain">>}

\* An event that changes the tree is reflected on the client's screen in the
\* end, over broken connections, expired sessions, a drain and a crash.
EventsReflected ==
    \A e \in Events \ Silent : sent >= e ~> client.acknowledged >= e
=============================================================================
