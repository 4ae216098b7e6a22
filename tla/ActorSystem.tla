----------------------------- MODULE ActorSystem -----------------------------
(***************************************************************************)
(* One actor id of a LocalActorSystem (rustnative-durable, actor.rs): the  *)
(* map of mailboxes, the instances started for the id, each a task that    *)
(* handles one input at a time until it is idle for too long, the callers  *)
(* of ask, the timer that calls fire_alarms, and the storage and alarm row *)
(* that outlive the process.                                               *)
(*                                                                         *)
(* The actor is the ordinary stateful one: it loads its state when it      *)
(* starts, and each input updates the copy in memory and puts it back.     *)
(***************************************************************************)
EXTENDS Integers, Sequences, FiniteSets

CONSTANTS
    Askers,        \* callers of ask
    MaxAsks,       \* bound: asks made
    MaxInstances,  \* bound: mailboxes that exist at one time, closed ones included
    Alarms,        \* calls of set_alarm, and the timer's inputs they lead to
    MaxCrashes     \* bound: process deaths

ASSUME ActorAssumption ==
    /\ MaxAsks \in Nat /\ MaxInstances \in Nat /\ MaxCrashes \in Nat
    /\ Askers \intersect Alarms = {} /\ "none" \notin Askers \union Alarms

Instances == 1..MaxInstances
Callers == Askers \union Alarms       \* the timer, sending Input::Alarm for one

VARIABLES
    running,   \* the mailbox the map holds for the id (0: none)
    inst,      \* where each instance's task is
    mailbox,   \* inputs sent to each instance and not yet received
    current,   \* the input each instance is handling
    memory,    \* the state each instance loaded
    stored,    \* _actor_storage
    alarm,     \* the row of _actor_alarms: the call of set_alarm that wrote it
    due,       \* the alarms whose time came while they were in the row (at <= now_ms)
    pc,        \* where each caller is
    held,      \* the mailbox each caller holds a sender of (0: none)
    tries,     \* ask's loop counter
    \* What the outside world has seen, for the properties.
    asked,     \* asks made
    applied,   \* times the present input of each caller was applied to storage
    updates,   \* inputs applied in all
    armed,     \* alarms set
    superseded,\* alarms whose row a later set_alarm wrote over
    crashes,   \* process deaths
    clobbered, \* ask removed a mailbox other than the one it found closed
    lost       \* alarms whose row was deleted and that do not fire at their time

instVars == <<inst, mailbox, current, memory>>
rowVars == <<alarm, due, armed, superseded>>
dbVars == <<stored, rowVars>>
callVars == <<pc, held, tries>>
historyVars == <<asked, applied, updates, crashes, clobbered, lost>>
vars == <<running, instVars, dbVars, callVars, historyVars>>

Live == {"starting", "up", "handling", "put", "closing"}
Returned == {"idle", "replied", "stopped", "unstarted"}

TypeOK ==
    /\ running \in 0..MaxInstances
    /\ inst \in [Instances -> Live \union {"none", "gone"}]
    /\ mailbox \in [Instances -> Seq(Callers)]
    /\ current \in [Instances -> Callers \union {"none"}]
    /\ memory \in [Instances -> Nat] /\ stored \in Nat
    /\ alarm \in Alarms \union {"none"} /\ due \subseteq Alarms
    /\ armed \subseteq Alarms /\ superseded \subseteq Alarms /\ lost \subseteq Alarms
    /\ clobbered \in BOOLEAN
    /\ pc \in [Callers -> Returned \union {"delete", "lookup", "send", "remove", "wait"}]
    /\ held \in [Callers -> 0..MaxInstances]
    /\ tries \in [Callers -> Nat]
    /\ asked \in Nat /\ applied \in [Askers -> Nat]
    /\ updates \in Nat /\ crashes \in Nat

Init ==
    /\ running = 0
    /\ inst = [i \in Instances |-> "none"]
    /\ mailbox = [i \in Instances |-> <<>>]
    /\ current = [i \in Instances |-> "none"]
    /\ memory = [i \in Instances |-> 0]
    /\ stored = 0
    /\ alarm = "none" /\ due = {}
    /\ armed = {} /\ superseded = {} /\ lost = {}
    /\ pc = [c \in Callers |-> "idle"]
    /\ held = [c \in Callers |-> 0]
    /\ tries = [c \in Callers |-> 0]
    /\ asked = 0
    /\ applied = [c \in Askers |-> 0]
    /\ updates = 0 /\ crashes = 0
    /\ clobbered = FALSE

-----------------------------------------------------------------------------
(* Helpers. *)

\* UnboundedSender::is_closed: the receiver is dropped with the task.
IsClosed(i) == inst[i] = "gone"

\* mailbox() hands out the sender in the map unless its receiver is gone.
MutReusable == running # 0 /\ inst[running] \notin {"gone", "closing"}
Reusable == running # 0 /\ ~IsClosed(running)

\* A sender of the mailbox still exists: in the map, or held across ask's
\* match, whose scrutinee keeps it until the answer has come.
HasSender(i) == running = i \/ \E c \in Callers : held[c] = i

\* A channel nobody refers to any more: its place can be used again.
Unused(i) == inst[i] \in {"none", "gone"} /\ \A c \in Callers : held[c] # i

\* The inputs dropped with the mailbox; the reply sender of each goes too.
Dropped(i) == {current[i]} \union {mailbox[i][k] : k \in DOMAIN mailbox[i]}

\* The asker whose reply sender is dropped gets an error, and lets go of its
\* sender; nobody notices an alarm that is lost.
MutStops(c, i) == pc[c] = "wait" /\ current[i] = c
Stops(c, i) == pc[c] = "wait" /\ c \in Dropped(i)

\* The alarms dropped with the mailbox, the one the handler runs included
\* unless it has put its state.
DroppedAlarms(i) ==
    {x \in Alarms \intersect Dropped(i) : ~(inst[i] = "put" /\ current[i] = x)}

\* What a new instance loads.
MutLoaded == 0
Loaded == stored

\* What a put stores.
NewState(i) == memory[i] + 1

\* How often ask tries again with the input a failed send gave back.
TriesAllowed == 2

\* Where ask goes when send has succeeded.
MutAfterSend == "lookup"
AfterSend == "wait"

-----------------------------------------------------------------------------
(* Callers. *)

Ask(a) ==
    /\ a \in Askers /\ pc[a] \in Returned
    /\ asked < MaxAsks
    /\ asked' = asked + 1
    /\ applied' = [applied EXCEPT ![a] = 0]
    /\ tries' = [tries EXCEPT ![a] = 0]
    /\ pc' = [pc EXCEPT ![a] = "lookup"]
    /\ UNCHANGED <<running, instVars, dbVars, held,
                   updates, crashes, clobbered, lost>>

\* fire_alarms, one call at a time, selects the row if its time has come ...
FireAlarms ==
    /\ \A x \in Alarms : pc[x] \in Returned
    /\ alarm \in due
    /\ pc' = [pc EXCEPT ![alarm] = "delete"]
    /\ UNCHANGED <<running, instVars, dbVars, held, tries, historyVars>>

\* ... and deletes the actor's row, whatever its time is by now, before it
\* sends the alarm: the one in the row, and not at its time if it is not due.
MutDeleteAlarm(x) ==
    /\ pc[x] = "delete"
    /\ alarm' = "none"
    /\ pc' = [pc EXCEPT ![x] = "idle", ![alarm] = IF running = 0 THEN "idle" ELSE "lookup"]
    /\ lost' = lost \union ((Alarms \intersect {alarm}) \ due)
    /\ UNCHANGED <<running, instVars, stored, due, armed, superseded, held, tries,
                   asked, applied, updates, crashes, clobbered>>
DeleteAlarm(x) ==
    /\ pc[x] = "delete"
    /\ alarm' = "none"
    /\ pc' = [pc EXCEPT ![x] = "idle", ![alarm] = "lookup"]
    /\ lost' = lost \union ((Alarms \intersect {alarm}) \ due)
    /\ UNCHANGED <<running, instVars, stored, due, armed, superseded, held, tries,
                   asked, applied, updates, crashes, clobbered>>

\* mailbox(id), under the lock of the map: the sender there, or a new task.
Mailbox(c) ==
    /\ pc[c] = "lookup"
    /\ pc' = [pc EXCEPT ![c] = "send"]
    /\ \/ /\ Reusable
          /\ held' = [held EXCEPT ![c] = running]
          /\ UNCHANGED <<running, inst>>
       \/ /\ ~Reusable
          /\ \E i \in Instances :
                /\ Unused(i) /\ \A j \in 1..(i - 1) : ~Unused(j)
                /\ running' = i
                /\ inst' = [inst EXCEPT ![i] = "starting"]
                /\ held' = [held EXCEPT ![c] = i]
    /\ UNCHANGED <<mailbox, current, memory, dbVars, tries, historyVars>>

\* The timer ignores the outcome; ask leaves its loop and waits, or goes on to
\* remove the entry.
Send(c) ==
    LET i == held[c] IN
    /\ pc[c] = "send"
    /\ IF IsClosed(i)
         THEN /\ pc' = [pc EXCEPT ![c] = IF c \in Alarms THEN "idle" ELSE "remove"]
              /\ UNCHANGED mailbox
         ELSE /\ pc' = [pc EXCEPT ![c] = IF c \in Alarms THEN "idle" ELSE AfterSend]
              /\ mailbox' = [mailbox EXCEPT ![i] = Append(@, c)]
    /\ held' = IF c \in Alarms THEN [held EXCEPT ![c] = 0] ELSE held
    /\ lost' = lost \union {x \in Alarms : x = c /\ IsClosed(i)}
    /\ tries' = IF IsClosed(i) THEN tries ELSE [tries EXCEPT ![c] = 0]
    /\ UNCHANGED <<running, inst, current, memory, dbVars,
                   asked, applied, updates, crashes, clobbered>>

\* running.remove(id), whatever is there by now.
Remove(a) ==
    /\ pc[a] = "remove"
    /\ running' = 0
    /\ clobbered' = (clobbered \/ (running # 0 /\ ~IsClosed(running)))
    /\ held' = [held EXCEPT ![a] = 0]
    /\ tries' = [tries EXCEPT ![a] = @ + 1]
    /\ pc' = [pc EXCEPT ![a] = IF tries[a] + 1 < TriesAllowed THEN "lookup" ELSE "unstarted"]
    /\ UNCHANGED <<instVars, dbVars, asked, applied, updates, crashes, lost>>

-----------------------------------------------------------------------------
(* An instance's task. *)

Start(i) ==
    /\ inst[i] = "starting"
    /\ inst' = [inst EXCEPT ![i] = "up"]
    /\ memory' = [memory EXCEPT ![i] = Loaded]
    /\ UNCHANGED <<running, mailbox, current, dbVars, callVars, historyVars>>

Receive(i) ==
    /\ inst[i] = "up" /\ mailbox[i] # <<>>
    /\ inst' = [inst EXCEPT ![i] = "handling"]
    /\ current' = [current EXCEPT ![i] = Head(mailbox[i])]
    /\ mailbox' = [mailbox EXCEPT ![i] = Tail(@)]
    /\ UNCHANGED <<running, memory, dbVars, callVars, historyVars>>

\* The handler sets the alarm, due now or later, over the one that is set.
\* Which element of Alarms stands for the call is of no consequence.
SetAlarm(i) ==
    /\ inst[i] = "handling"
    /\ armed # Alarms
    /\ alarm' = CHOOSE x \in Alarms : x \notin armed
    /\ armed' = armed \union {alarm'}
    /\ due' \in {due, due \union {alarm'}}
    /\ superseded' = superseded \union (Alarms \intersect {alarm})
    /\ UNCHANGED <<running, instVars, stored, callVars, historyVars>>

\* The handler puts its new state, durably, before it returns.
Put(i) ==
    /\ inst[i] = "handling"
    /\ inst' = [inst EXCEPT ![i] = "put"]
    /\ memory' = [memory EXCEPT ![i] = NewState(i)]
    /\ stored' = NewState(i)
    /\ updates' = updates + 1
    /\ applied' = [a \in Askers |-> IF a = current[i] THEN applied[a] + 1 ELSE applied[a]]
    /\ UNCHANGED <<running, mailbox, current, rowVars, callVars,
                   asked, crashes, clobbered, lost>>

\* The handler returns and the reply is sent.
Reply(i) ==
    LET c == current[i] IN
    /\ inst[i] = "put"
    /\ inst' = [inst EXCEPT ![i] = "up"]
    /\ current' = [current EXCEPT ![i] = "none"]
    /\ IF c \in Askers
         THEN /\ pc' = [pc EXCEPT ![c] = "replied"]
              /\ held' = [held EXCEPT ![c] = 0]
         ELSE UNCHANGED <<pc, held>>
    /\ UNCHANGED <<running, mailbox, memory, dbVars, tries, historyVars>>

\* recv timed out, or no sender is left: the loop ends.
Evict(i) ==
    /\ inst[i] = "up" /\ mailbox[i] = <<>>
    /\ inst' = [inst EXCEPT ![i] = "closing"]
    /\ UNCHANGED <<running, mailbox, current, memory, dbVars, callVars, historyVars>>

\* The task ends or the handler panics: the receiver and all in it drop.
Gone(i) ==
    /\ inst[i] \in {"closing", "handling", "put"}
    /\ inst' = [inst EXCEPT ![i] = "gone"]
    /\ mailbox' = [mailbox EXCEPT ![i] = <<>>]
    /\ current' = [current EXCEPT ![i] = "none"]
    /\ pc' = [c \in Callers |-> IF Stops(c, i) THEN "stopped" ELSE pc[c]]
    /\ held' = [c \in Callers |-> IF Stops(c, i) THEN 0 ELSE held[c]]
    /\ memory' = [memory EXCEPT ![i] = 0]
    /\ lost' = lost \union DroppedAlarms(i)
    /\ UNCHANGED <<running, dbVars, tries,
                   asked, applied, updates, crashes, clobbered>>

\* The process dies and starts again: only the database is left.
Crash ==
    /\ crashes < MaxCrashes
    /\ crashes' = crashes + 1
    /\ running' = 0
    /\ inst' = [i \in Instances |-> "none"]
    /\ mailbox' = [i \in Instances |-> <<>>]
    /\ current' = [i \in Instances |-> "none"]
    /\ memory' = [i \in Instances |-> 0]
    /\ pc' = [c \in Callers |-> "idle"]
    /\ held' = [c \in Callers |-> 0]
    /\ lost' = lost \union {x \in Alarms : pc[x] \in {"lookup", "send"}}
                  \union UNION {DroppedAlarms(i) : i \in Instances}
    /\ tries' = [c \in Callers |-> 0]
    /\ applied' = [a \in Askers |-> 0]
    /\ UNCHANGED <<dbVars, asked, updates, clobbered>>

\* Time passes: the time in the row comes.
Tick ==
    /\ alarm \in Alarms \ due
    /\ due' = due \union {alarm}
    /\ UNCHANGED <<running, instVars, stored, alarm, armed, superseded, callVars, historyVars>>

-----------------------------------------------------------------------------
CallerStep(c) ==
    \/ c \in Alarms /\ DeleteAlarm(c)
    \/ Mailbox(c) \/ Send(c)
    \/ c \in Askers /\ Remove(c)

\* What the task does by itself.
InstanceStep(i) ==
    Start(i) \/ Receive(i) \/ Put(i) \/ Reply(i) \/ (inst[i] = "closing" /\ Gone(i))
    \/ (~HasSender(i) /\ Evict(i))

Idle ==
    /\ \A c \in Callers : pc[c] \in Returned
    /\ \A i \in Instances : inst[i] \in {"none", "up", "gone"} /\ mailbox[i] = <<>>
    /\ UNCHANGED vars

Next ==
    \/ \E a \in Askers : Ask(a)
    \/ FireAlarms \/ Crash \/ Tick \/ Idle
    \/ \E c \in Callers : CallerStep(c)
    \/ \E i \in Instances : InstanceStep(i) \/ SetAlarm(i) \/ Evict(i) \/ Gone(i)

Spec == Init /\ [][Next]_vars

\* The runtime polls every task, a handler returns, and fire_alarms is called
\* on a timer as its doc asks, as time passes; nothing makes a caller ask, an
\* instance time out, a handler panic or the process die.
Fairness ==
    /\ \A c \in Callers : WF_vars(CallerStep(c))
    /\ \A i \in Instances : WF_vars(InstanceStep(i))
    /\ WF_vars(FireAlarms) /\ WF_vars(Tick)

FairSpec == Spec /\ Fairness

-----------------------------------------------------------------------------
(* Properties. *)

Active == {i \in Instances : inst[i] \in Live}

\* "Each actor id has one instance, and it handles one message at a time"
\* (docs/durable.md): at most one task of the id exists.
OneInstance == Cardinality(Active) <= 1

\* The only way to two instances is ask removing a mailbox that is not the
\* one it found closed; without it the map and eviction keep the promise.
OneUnlessClobbered == ~clobbered => OneInstance

\* While the promise holds, the state a new instance loads includes every
\* update any instance ever put: eviction, panics and restarts lose none.
NoLostUpdate == ~clobbered => stored = updates

\* An ask that got its reply was applied exactly once, one that could not
\* start the actor not at all, and no message is ever applied twice.
AskOutcome ==
    \A a \in Askers :
        /\ applied[a] <= 1
        /\ pc[a] = "replied" => applied[a] = 1
        /\ pc[a] \in {"lookup", "send", "remove", "unstarted"} => applied[a] = 0

\* Every ask returns: a caller never waits for an answer nobody will send.
AsksReturn == \A a \in Askers : pc[a] = "lookup" ~> pc[a] \in Returned

\* "Sets the alarm, so that alarm runs delay from now. The alarm is durable:
\* one set before a restart still fires" (set_alarm): whether or not the actor
\* runs, an alarm that no later one replaces is handled, not before its time,
\* unless it is lost in one of four ways: it is set over one that fire_alarms
\* has selected and not deleted, and the DELETE takes it before its time; or,
\* its row deleted, the process dies, or the instance it was sent to ends or
\* panics before it is handled, or had ended before the send.
AlarmsFire ==
    \A x \in Alarms :
        alarm = x ~> \/ x \in lost \union superseded
                     \/ \E i \in Instances : inst[i] = "put" /\ current[i] = x /\ x \in due

===============================================================================
