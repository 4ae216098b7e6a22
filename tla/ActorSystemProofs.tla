-------------------------- MODULE ActorSystemProofs --------------------------
(***************************************************************************)
(* Proofs about ActorSystem, for any callers and any bounds: types; at     *)
(* most one instance until ask removes a mailbox it did not find closed;   *)
(* until then, no update lost; and always, no message applied twice.       *)
(*                                                                         *)
(* The inductive invariant says where instances are: until the map is      *)
(* clobbered every task that is alive is the one the map holds, and what   *)
(* it has loaded is what is stored.                                        *)
(***************************************************************************)
EXTENDS ActorSystem, FiniteSetTheorems, TLAPS

Loads == {"up", "handling", "put", "closing"}   \* past the load of its state

OnlyRunning == ~clobbered => \A i \in Instances : inst[i] \in Live => i = running
MemoryFresh == ~clobbered => \A i \in Instances : inst[i] \in Loads => memory[i] = stored

Exclusive == OnlyRunning /\ NoLostUpdate /\ MemoryFresh

IInv == TypeOK /\ Exclusive

\* Where an asker's message can be: once in the mailbox its asker holds and
\* waits on, not applied yet, or in the hands of that instance.
Queued ==
    \A i \in Instances : \A k \in 1..Len(mailbox[i]) :
        mailbox[i][k] \in Askers =>
            /\ pc[mailbox[i][k]] = "wait" /\ held[mailbox[i][k]] = i
            /\ applied[mailbox[i][k]] = 0 /\ current[i] # mailbox[i][k]
QueuedOnce ==
    \A i \in Instances : \A j, k \in 1..Len(mailbox[i]) :
        mailbox[i][j] \in Askers /\ mailbox[i][j] = mailbox[i][k] => j = k
Handled ==
    \A i \in Instances : current[i] \in Askers =>
        /\ pc[current[i]] = "wait" /\ held[current[i]] = i
        /\ \/ inst[i] = "handling" /\ applied[current[i]] = 0
           \/ inst[i] = "put" /\ applied[current[i]] = 1

Traced == Queued /\ QueuedOnce /\ Handled /\ AskOutcome

USE ActorAssumption DEF Instances, Callers, Live, Returned, Loads

-----------------------------------------------------------------------------
(* Types. *)

\* The empty system has the right types.
LEMMA InitType == Init => TypeOK
<1> SUFFICES ASSUME Init PROVE TypeOK
  OBVIOUS
<1> USE DEF Init
<1>1. running \in 0..MaxInstances /\ stored \in Nat
  OBVIOUS
<1>2. inst \in [Instances -> Live \union {"none", "gone"}]
  OBVIOUS
<1>3. mailbox \in [Instances -> Seq(Callers)]
  OBVIOUS
<1>4. current \in [Instances -> Callers \union {"none"}]
  OBVIOUS
<1>5. memory \in [Instances -> Nat]
  OBVIOUS
<1>6. pc \in [Callers -> Returned \union {"delete", "lookup", "send", "remove", "wait"}]
  OBVIOUS
<1>7. held \in [Callers -> 0..MaxInstances] /\ tries \in [Callers -> Nat]
  OBVIOUS
<1>8. applied \in [Askers -> Nat] /\ asked \in Nat /\ updates \in Nat /\ crashes \in Nat
  OBVIOUS
<1>9. /\ alarm \in Alarms \union {"none"} /\ clobbered \in BOOLEAN
      /\ due \subseteq Alarms /\ armed \subseteq Alarms
      /\ superseded \subseteq Alarms /\ lost \subseteq Alarms
  OBVIOUS
<1> QED BY <1>1, <1>2, <1>3, <1>4, <1>5, <1>6, <1>7, <1>8, <1>9 DEF TypeOK

\* A new ask keeps the types.
LEMMA AskType ==
  ASSUME TypeOK, NEW a \in Askers, Ask(a)
  PROVE  TypeOK'
<1> USE DEF TypeOK, instVars, rowVars, dbVars, callVars, historyVars
<1>1. pc' \in [Callers -> Returned \union {"delete", "lookup", "send", "remove", "wait"}]
  BY DEF Ask
<1>2. tries' \in [Callers -> Nat]
  BY DEF Ask
<1>3. applied' \in [Askers -> Nat]
  BY DEF Ask
<1> QED BY <1>1, <1>2, <1>3 DEF Ask

\* The selection of due alarms keeps the types.
LEMMA FireAlarmsType ==
  ASSUME TypeOK, FireAlarms
  PROVE  TypeOK'
<1> USE DEF TypeOK, instVars, rowVars, dbVars, callVars, historyVars
<1>1. pc' \in [Callers -> Returned \union {"delete", "lookup", "send", "remove", "wait"}]
  BY DEF FireAlarms
<1> QED BY <1>1 DEF FireAlarms

\* The deletion of an alarm keeps the types.
LEMMA DeleteAlarmType ==
  ASSUME TypeOK, NEW x \in Alarms, DeleteAlarm(x)
  PROVE  TypeOK'
<1> USE DEF TypeOK, instVars, rowVars, dbVars, callVars, historyVars
<1>1. pc' \in [Callers -> Returned \union {"delete", "lookup", "send", "remove", "wait"}]
  BY DEF DeleteAlarm
<1>2. lost' \subseteq Alarms /\ alarm' \in Alarms \union {"none"}
  BY DEF DeleteAlarm
<1> QED BY <1>1, <1>2 DEF DeleteAlarm

\* The lookup in the map keeps the types.
LEMMA MailboxType ==
  ASSUME TypeOK, NEW c \in Callers, Mailbox(c)
  PROVE  TypeOK'
<1> USE DEF TypeOK, instVars, rowVars, dbVars, callVars, historyVars
<1>1. pc' \in [Callers -> Returned \union {"delete", "lookup", "send", "remove", "wait"}]
  BY DEF Mailbox
<1>2. running' \in 0..MaxInstances
  BY DEF Mailbox
<1>3. inst' \in [Instances -> Live \union {"none", "gone"}]
  BY DEF Mailbox
<1>4. held' \in [Callers -> 0..MaxInstances]
  <2>1. CASE held' = [held EXCEPT ![c] = running]
    BY <2>1
  <2>2. CASE \E i \in Instances : held' = [held EXCEPT ![c] = i]
    <3>1. PICK i \in Instances : held' = [held EXCEPT ![c] = i]
      BY <2>2
    <3> QED BY <3>1
  <2>3. \/ held' = [held EXCEPT ![c] = running]
        \/ \E i \in Instances : held' = [held EXCEPT ![c] = i]
    <3> HIDE DEF TypeOK, Instances, Callers
    <3> QED BY DEF Mailbox
  <2> QED BY <2>1, <2>2, <2>3
<1> QED BY <1>1, <1>2, <1>3, <1>4 DEF Mailbox

\* The removal of the map's entry keeps the types.
LEMMA RemoveType ==
  ASSUME TypeOK, NEW a \in Askers, Remove(a)
  PROVE  TypeOK'
<1> USE DEF TypeOK, instVars, rowVars, dbVars, callVars, historyVars
<1>1. running' \in 0..MaxInstances
  BY DEF Remove, TriesAllowed
<1>2. held' \in [Callers -> 0..MaxInstances]
  BY DEF Remove, TriesAllowed
<1>3. tries' \in [Callers -> Nat]
  BY DEF Remove, TriesAllowed
<1>4. pc' \in [Callers -> Returned \union {"delete", "lookup", "send", "remove", "wait"}]
  BY DEF Remove, TriesAllowed
<1> QED BY <1>1, <1>2, <1>3, <1>4 DEF Remove, TriesAllowed

\* The start of an instance keeps the types.
LEMMA StartType ==
  ASSUME TypeOK, NEW i \in Instances, Start(i)
  PROVE  TypeOK'
<1> USE DEF TypeOK, instVars, rowVars, dbVars, callVars, historyVars
<1>1. inst' \in [Instances -> Live \union {"none", "gone"}]
  BY DEF Start, Loaded
<1>2. memory' \in [Instances -> Nat]
  BY DEF Start, Loaded
<1> QED BY <1>1, <1>2 DEF Start, Loaded

\* Setting an alarm keeps the types.
LEMMA SetAlarmType ==
  ASSUME TypeOK, NEW i \in Instances, SetAlarm(i)
  PROVE  TypeOK'
<1> USE DEF TypeOK, instVars, rowVars, dbVars, callVars, historyVars
<1>1. alarm' \in Alarms /\ armed' \subseteq Alarms
  <2>1. \E x \in Alarms : x \notin armed
    BY DEF SetAlarm
  <2> QED BY <2>1 DEF SetAlarm
<1>2. due' \subseteq Alarms /\ superseded' \subseteq Alarms
  BY <1>1 DEF SetAlarm
<1> QED BY <1>1, <1>2 DEF SetAlarm

\* An eviction keeps the types.
LEMMA EvictType ==
  ASSUME TypeOK, NEW i \in Instances, Evict(i)
  PROVE  TypeOK'
<1> USE DEF TypeOK, instVars, rowVars, dbVars, callVars, historyVars
<1>1. inst' \in [Instances -> Live \union {"none", "gone"}]
  BY DEF Evict
<1> QED BY <1>1 DEF Evict

\* The end of a task keeps the types.
LEMMA GoneType ==
  ASSUME TypeOK, NEW i \in Instances, Gone(i)
  PROVE  TypeOK'
<1> USE DEF TypeOK, instVars, rowVars, dbVars, callVars, historyVars
<1>1. inst' \in [Instances -> Live \union {"none", "gone"}]
  BY DEF Gone
<1>2. mailbox' \in [Instances -> Seq(Callers)]
  BY DEF Gone
<1>3. current' \in [Instances -> Callers \union {"none"}]
  BY DEF Gone
<1>4. pc' \in [Callers -> Returned \union {"delete", "lookup", "send", "remove", "wait"}]
  BY DEF Gone
<1>5. held' \in [Callers -> 0..MaxInstances]
  BY DEF Gone
<1>6. memory' \in [Instances -> Nat]
  BY DEF Gone
<1>7. lost' \subseteq Alarms
  BY DEF Gone, DroppedAlarms
<1> QED BY <1>1, <1>2, <1>3, <1>4, <1>5, <1>6, <1>7 DEF Gone

\* A death of the process keeps the types.
LEMMA CrashType ==
  ASSUME TypeOK, Crash
  PROVE  TypeOK'
<1> USE DEF TypeOK, instVars, rowVars, dbVars, callVars, historyVars
<1>1. running' \in 0..MaxInstances
  BY DEF Crash
<1>2. inst' \in [Instances -> Live \union {"none", "gone"}]
  BY DEF Crash
<1>3. mailbox' \in [Instances -> Seq(Callers)]
  BY DEF Crash
<1>4. current' \in [Instances -> Callers \union {"none"}]
  BY DEF Crash
<1>5. memory' \in [Instances -> Nat]
  BY DEF Crash
<1>6. pc' \in [Callers -> Returned \union {"delete", "lookup", "send", "remove", "wait"}]
  BY DEF Crash
<1>7. held' \in [Callers -> 0..MaxInstances]
  BY DEF Crash
<1>8. lost' \subseteq Alarms
  BY DEF Crash, DroppedAlarms
<1>9. tries' \in [Callers -> Nat] /\ applied' \in [Askers -> Nat]
  BY DEF Crash
<1> QED BY <1>1, <1>2, <1>3, <1>4, <1>5, <1>6, <1>7, <1>8, <1>9 DEF Crash

\* So does the coming of an alarm's time.
LEMMA TickType ==
  ASSUME TypeOK, Tick
  PROVE  TypeOK'
<1> USE DEF TypeOK, instVars, rowVars, dbVars, callVars, historyVars
<1> QED BY DEF Tick

\* A reply keeps the types.
LEMMA ReplyType ==
  ASSUME TypeOK, NEW i \in Instances, Reply(i)
  PROVE  TypeOK'
<1> USE DEF TypeOK, instVars, rowVars, dbVars, callVars, historyVars
<1>1. inst' \in [Instances -> Live \union {"none", "gone"}]
  BY DEF Reply
<1>2. current' \in [Instances -> Callers \union {"none"}]
  BY DEF Reply
<1>3. pc' \in [Callers -> Returned \union {"delete", "lookup", "send", "remove", "wait"}]
  BY DEF Reply
<1>4. held' \in [Callers -> 0..MaxInstances]
  <2>1. held' = held \/ held' = [held EXCEPT ![current[i]] = 0]
    BY DEF Reply
  <2>2. held \in [Callers -> 0..MaxInstances]
    OBVIOUS
  <2> HIDE DEF TypeOK, Callers
  <2> QED BY <2>1, <2>2
<1> QED BY <1>1, <1>2, <1>3, <1>4 DEF Reply

\* A durable put keeps the types.
LEMMA PutType ==
  ASSUME TypeOK, NEW i \in Instances, Put(i)
  PROVE  TypeOK'
<1> USE DEF TypeOK, instVars, rowVars, dbVars, callVars, historyVars
<1>1. inst' \in [Instances -> Live \union {"none", "gone"}]
  BY DEF Put, NewState
<1>2. memory' \in [Instances -> Nat]
  BY DEF Put, NewState
<1>3. applied' \in [Askers -> Nat]
  BY DEF Put
<1>4. stored' \in Nat /\ updates' \in Nat
  BY DEF Put, NewState
<1>5. UNCHANGED <<running, mailbox, current, rowVars, pc, held, tries,
                  asked, crashes, clobbered, lost>>
  BY DEF Put
<1> QED BY <1>1, <1>2, <1>3, <1>4, <1>5

\* Receiving a message keeps the types.
LEMMA ReceiveType ==
  ASSUME TypeOK, NEW i \in Instances, Receive(i)
  PROVE  TypeOK'
<1> USE DEF TypeOK, instVars, rowVars, dbVars, callVars, historyVars
<1>1. inst' \in [Instances -> Live \union {"none", "gone"}]
  BY DEF Receive
<1>2. current' \in [Instances -> Callers \union {"none"}]
  BY DEF Receive
<1>3. mailbox' \in [Instances -> Seq(Callers)]
  <2>1. mailbox[i] \in Seq(Callers) /\ mailbox[i] # <<>>
    BY DEF Receive
  <2>2. Tail(mailbox[i]) \in Seq(Callers)
    BY <2>1
  <2> QED BY <2>2 DEF Receive
<1>4. UNCHANGED <<running, memory, dbVars, clobbered, lost, pc, held, tries, asked, applied,
                  updates, crashes>>
  BY DEF Receive
<1> QED BY <1>1, <1>2, <1>3, <1>4

\* A send keeps the types.
LEMMA SendType ==
  ASSUME TypeOK, NEW c \in Callers, Send(c)
  PROVE  TypeOK'
<1> USE DEF TypeOK, instVars, rowVars, dbVars, callVars, historyVars
<1>1. pc' \in [Callers -> Returned \union {"delete", "lookup", "send", "remove", "wait"}]
  <2>1. PICK p \in {"idle", "remove", "wait"} : pc' = [pc EXCEPT ![c] = p]
    BY DEF Send, AfterSend
  <2>2. pc \in [Callers -> Returned \union {"delete", "lookup", "send", "remove", "wait"}]
    OBVIOUS
  <2> HIDE DEF TypeOK, Callers
  <2> QED BY <2>1, <2>2
<1>2. mailbox' \in [Instances -> Seq(Callers)]
  <2>1. mailbox' = mailbox \/ mailbox' = [mailbox EXCEPT ![held[c]] = Append(@, c)]
    BY DEF Send
  <2>2. mailbox \in [Instances -> Seq(Callers)]
    OBVIOUS
  <2> DEFINE X == Seq(Callers)
  <2>3. mailbox \in [Instances -> X] /\ \A s \in X : Append(s, c) \in X
    OBVIOUS
  <2> HIDE DEF TypeOK, Callers, Instances, X
  <2>4. mailbox' \in [Instances -> X]
    <3>1. CASE mailbox' = mailbox
      BY <2>3, <3>1
    <3>2. CASE mailbox' = [mailbox EXCEPT ![held[c]] = Append(@, c)]
      <4>1. held[c] \in Instances => Append(mailbox[held[c]], c) \in X
        BY <2>3
      <4> QED BY <2>3, <3>2, <4>1
    <3> QED BY <2>1, <3>1, <3>2
  <2> QED BY <2>4 DEF X
<1>3. held' \in [Callers -> 0..MaxInstances]
  BY DEF Send, AfterSend
<1>4. tries' \in [Callers -> Nat] /\ lost' \subseteq Alarms
  BY DEF Send
<1> QED BY <1>1, <1>2, <1>3, <1>4 DEF Send, AfterSend

\* So does every step.
LEMMA TypeStep == TypeOK /\ [Next]_vars => TypeOK'
<1> SUFFICES ASSUME TypeOK, [Next]_vars PROVE TypeOK'
  OBVIOUS
<1>1. CASE UNCHANGED vars
  BY <1>1 DEF TypeOK, vars, instVars, rowVars, dbVars, callVars, historyVars
<1>2. CASE \E a \in Askers : Ask(a)
  BY <1>2, AskType
<1>3. CASE FireAlarms
  BY <1>3, FireAlarmsType
<1>4. CASE Crash
  BY <1>4, CrashType
<1>5. CASE Idle
  BY <1>1, <1>5 DEF Idle
<1>6. CASE \E c \in Callers : CallerStep(c)
  BY <1>6, DeleteAlarmType, MailboxType, SendType, RemoveType DEF CallerStep
<1>7. CASE \E i \in Instances : InstanceStep(i) \/ SetAlarm(i) \/ Evict(i) \/ Gone(i)
  BY <1>7, StartType, ReceiveType, PutType, ReplyType, GoneType, EvictType, SetAlarmType
     DEF InstanceStep
<1>8. CASE Tick
  BY <1>8, TickType
<1> QED BY <1>1, <1>2, <1>3, <1>4, <1>5, <1>6, <1>7, <1>8 DEF Next

\* The types hold in every reachable state.
THEOREM TypeCorrect == Spec => []TypeOK
  BY InitType, TypeStep, PTL DEF Spec

-----------------------------------------------------------------------------
(* One instance, and no update lost. *)

\* A new ask leaves at most the instance in the map alive, with what is stored.
LEMMA AskExclusive ==
  ASSUME IInv, NEW a \in Askers, Ask(a)
  PROVE  Exclusive'
<1> USE DEF IInv, Exclusive, instVars, rowVars, dbVars, callVars, historyVars
<1>1. OnlyRunning'
  BY DEF TypeOK, OnlyRunning, Ask
<1>2. NoLostUpdate'
  BY DEF TypeOK, OnlyRunning, NoLostUpdate, MemoryFresh, Ask
<1>3. MemoryFresh'
  BY DEF TypeOK, OnlyRunning, MemoryFresh, Ask
<1> QED BY <1>1, <1>2, <1>3

\* The selection of due alarms leaves at most the instance in the map alive, with what is stored.
LEMMA FireAlarmsExclusive ==
  ASSUME IInv, FireAlarms
  PROVE  Exclusive'
<1> USE DEF IInv, Exclusive, instVars, rowVars, dbVars, callVars, historyVars
<1>1. OnlyRunning'
  BY DEF TypeOK, OnlyRunning, FireAlarms
<1>2. NoLostUpdate'
  BY DEF TypeOK, OnlyRunning, NoLostUpdate, MemoryFresh, FireAlarms
<1>3. MemoryFresh'
  BY DEF TypeOK, OnlyRunning, MemoryFresh, FireAlarms
<1> QED BY <1>1, <1>2, <1>3

\* The deletion of an alarm leaves at most the instance in the map alive, with what is stored.
LEMMA DeleteAlarmExclusive ==
  ASSUME IInv, NEW x \in Alarms, DeleteAlarm(x)
  PROVE  Exclusive'
<1> USE DEF IInv, Exclusive, instVars, rowVars, dbVars, callVars, historyVars
<1>1. OnlyRunning'
  BY DEF TypeOK, OnlyRunning, DeleteAlarm
<1>2. NoLostUpdate'
  BY DEF TypeOK, OnlyRunning, NoLostUpdate, MemoryFresh, DeleteAlarm
<1>3. MemoryFresh'
  BY DEF TypeOK, OnlyRunning, MemoryFresh, DeleteAlarm
<1> QED BY <1>1, <1>2, <1>3

\* The lookup in the map leaves at most the instance in the map alive, with what is stored.
LEMMA MailboxExclusive ==
  ASSUME IInv, NEW c \in Callers, Mailbox(c)
  PROVE  Exclusive'
<1> USE DEF IInv, Exclusive, instVars, rowVars, dbVars, callVars, historyVars
<1>1. OnlyRunning'
  <2>1. UNCHANGED clobbered
    BY DEF Mailbox
  <2>2. CASE Reusable /\ UNCHANGED <<running, inst>>
    BY <2>1, <2>2 DEF OnlyRunning
  <2>3. CASE ~Reusable /\ \E i \in Instances :
                /\ running' = i /\ inst' = [inst EXCEPT ![i] = "starting"]
    <3>1. ~clobbered => \A j \in Instances : inst[j] \notin Live
      BY <2>3 DEF Reusable, IsClosed, OnlyRunning
    <3>2. PICK i \in Instances : running' = i /\ inst' = [inst EXCEPT ![i] = "starting"]
      BY <2>3
    <3> QED BY <2>1, <3>1, <3>2 DEF TypeOK, OnlyRunning
  <2> QED BY <2>2, <2>3 DEF Mailbox
<1>2. NoLostUpdate'
  BY DEF TypeOK, OnlyRunning, NoLostUpdate, MemoryFresh, Mailbox, Reusable, IsClosed, Unused
<1>3. MemoryFresh'
  <2>1. \A i \in Instances : inst'[i] = inst[i] \/ inst'[i] = "starting"
    BY DEF TypeOK, Mailbox
  <2>2. UNCHANGED <<memory, stored, clobbered>>
    BY DEF Mailbox
  <2> QED BY <2>1, <2>2 DEF MemoryFresh
<1> QED BY <1>1, <1>2, <1>3

\* A send leaves at most the instance in the map alive, with what is stored.
LEMMA SendExclusive ==
  ASSUME IInv, NEW c \in Callers, Send(c)
  PROVE  Exclusive'
<1> USE DEF IInv, Exclusive, instVars, rowVars, dbVars, callVars, historyVars
<1>1. OnlyRunning'
  BY DEF TypeOK, OnlyRunning, Send
<1>2. NoLostUpdate'
  BY DEF TypeOK, OnlyRunning, NoLostUpdate, MemoryFresh, Send
<1>3. MemoryFresh'
  BY DEF TypeOK, OnlyRunning, MemoryFresh, Send
<1> QED BY <1>1, <1>2, <1>3

\* The removal of the map's entry leaves at most the instance in the map alive, with what is stored.
LEMMA RemoveExclusive ==
  ASSUME IInv, NEW a \in Askers, Remove(a)
  PROVE  Exclusive'
<1> USE DEF IInv, Exclusive, instVars, rowVars, dbVars, callVars, historyVars
<1>1. OnlyRunning'
  BY DEF TypeOK, OnlyRunning, Remove, IsClosed
<1>2. NoLostUpdate'
  BY DEF TypeOK, OnlyRunning, NoLostUpdate, MemoryFresh, Remove, IsClosed
<1>3. MemoryFresh'
  BY DEF TypeOK, OnlyRunning, MemoryFresh, Remove, IsClosed
<1> QED BY <1>1, <1>2, <1>3

\* The start of an instance leaves at most the instance in the map alive, with what is stored.
LEMMA StartExclusive ==
  ASSUME IInv, NEW i \in Instances, Start(i)
  PROVE  Exclusive'
<1> USE DEF IInv, Exclusive, instVars, rowVars, dbVars, callVars, historyVars
<1>1. OnlyRunning'
  BY DEF TypeOK, OnlyRunning, Start, Loaded
<1>2. NoLostUpdate'
  BY DEF TypeOK, OnlyRunning, NoLostUpdate, MemoryFresh, Start, Loaded
<1>3. MemoryFresh'
  BY DEF TypeOK, OnlyRunning, MemoryFresh, Start, Loaded
<1> QED BY <1>1, <1>2, <1>3

\* Receiving a message leaves at most the instance in the map alive, with what is stored.
LEMMA ReceiveExclusive ==
  ASSUME IInv, NEW i \in Instances, Receive(i)
  PROVE  Exclusive'
<1> USE DEF IInv, Exclusive, instVars, rowVars, dbVars, callVars, historyVars
<1>1. OnlyRunning'
  BY DEF TypeOK, OnlyRunning, Receive
<1>2. NoLostUpdate'
  BY DEF TypeOK, OnlyRunning, NoLostUpdate, MemoryFresh, Receive
<1>3. MemoryFresh'
  BY DEF TypeOK, OnlyRunning, MemoryFresh, Receive
<1> QED BY <1>1, <1>2, <1>3

\* Setting an alarm leaves at most the instance in the map alive, with what is stored.
LEMMA SetAlarmExclusive ==
  ASSUME IInv, NEW i \in Instances, SetAlarm(i)
  PROVE  Exclusive'
<1> USE DEF IInv, Exclusive, instVars, rowVars, dbVars, callVars, historyVars
<1>1. OnlyRunning'
  BY DEF TypeOK, OnlyRunning, SetAlarm
<1>2. NoLostUpdate'
  BY DEF TypeOK, OnlyRunning, NoLostUpdate, MemoryFresh, SetAlarm
<1>3. MemoryFresh'
  BY DEF TypeOK, OnlyRunning, MemoryFresh, SetAlarm
<1> QED BY <1>1, <1>2, <1>3

\* A durable put leaves at most the instance in the map alive, with what is stored.
LEMMA PutExclusive ==
  ASSUME IInv, NEW i \in Instances, Put(i)
  PROVE  Exclusive'
<1> USE DEF IInv, Exclusive, instVars, rowVars, dbVars, callVars, historyVars
<1>1. OnlyRunning'
  BY DEF TypeOK, OnlyRunning, Put, NewState
<1>2. NoLostUpdate'
  BY DEF TypeOK, OnlyRunning, NoLostUpdate, MemoryFresh, Put, NewState
<1>3. MemoryFresh'
  BY DEF TypeOK, OnlyRunning, MemoryFresh, Put, NewState
<1> QED BY <1>1, <1>2, <1>3

\* A reply leaves at most the instance in the map alive, with what is stored.
LEMMA ReplyExclusive ==
  ASSUME IInv, NEW i \in Instances, Reply(i)
  PROVE  Exclusive'
<1> USE DEF IInv, Exclusive, instVars, rowVars, dbVars, callVars, historyVars
<1>1. OnlyRunning'
  BY DEF TypeOK, OnlyRunning, Reply
<1>2. NoLostUpdate'
  BY DEF TypeOK, OnlyRunning, NoLostUpdate, MemoryFresh, Reply
<1>3. MemoryFresh'
  BY DEF TypeOK, OnlyRunning, MemoryFresh, Reply
<1> QED BY <1>1, <1>2, <1>3

\* An eviction leaves at most the instance in the map alive, with what is stored.
LEMMA EvictExclusive ==
  ASSUME IInv, NEW i \in Instances, Evict(i)
  PROVE  Exclusive'
<1> USE DEF IInv, Exclusive, instVars, rowVars, dbVars, callVars, historyVars
<1>1. OnlyRunning'
  BY DEF TypeOK, OnlyRunning, Evict
<1>2. NoLostUpdate'
  BY DEF TypeOK, OnlyRunning, NoLostUpdate, MemoryFresh, Evict
<1>3. MemoryFresh'
  BY DEF TypeOK, OnlyRunning, MemoryFresh, Evict
<1> QED BY <1>1, <1>2, <1>3

\* The end of a task leaves at most the instance in the map alive, with what is stored.
LEMMA GoneExclusive ==
  ASSUME IInv, NEW i \in Instances, Gone(i)
  PROVE  Exclusive'
<1> USE DEF IInv, Exclusive, instVars, rowVars, dbVars, callVars, historyVars
<1>1. OnlyRunning'
  BY DEF TypeOK, OnlyRunning, Gone
<1>2. NoLostUpdate'
  BY DEF TypeOK, OnlyRunning, NoLostUpdate, MemoryFresh, Gone
<1>3. MemoryFresh'
  BY DEF TypeOK, OnlyRunning, MemoryFresh, Gone
<1> QED BY <1>1, <1>2, <1>3

\* A death of the process leaves at most the instance in the map alive, with what is stored.
LEMMA CrashExclusive ==
  ASSUME IInv, Crash
  PROVE  Exclusive'
<1> USE DEF IInv, Exclusive, instVars, rowVars, dbVars, callVars, historyVars
<1>1. OnlyRunning'
  BY DEF TypeOK, OnlyRunning, Crash
<1>2. NoLostUpdate'
  BY DEF TypeOK, OnlyRunning, NoLostUpdate, MemoryFresh, Crash
<1>3. MemoryFresh'
  BY DEF TypeOK, OnlyRunning, MemoryFresh, Crash
<1> QED BY <1>1, <1>2, <1>3

\* The coming of an alarm's time does so too.
LEMMA TickExclusive ==
  ASSUME IInv, Tick
  PROVE  Exclusive'
<1> USE DEF IInv, Exclusive, instVars, rowVars, dbVars, callVars, historyVars
<1> QED BY DEF Tick, OnlyRunning, NoLostUpdate, MemoryFresh

\* Together: the invariant holds in every reachable state.
LEMMA ExclusiveInvariant == Spec => []IInv
<1>1. Init => IInv
  BY InitType DEF Init, IInv, Exclusive, OnlyRunning, NoLostUpdate, MemoryFresh
<1>2. IInv /\ [Next]_vars => IInv'
  <2> SUFFICES ASSUME IInv, [Next]_vars PROVE Exclusive' /\ TypeOK'
    BY DEF IInv
  <2>1. TypeOK'
    BY TypeStep DEF IInv
  <2>2. Exclusive'
    <3>1. CASE UNCHANGED vars
      BY <3>1 DEF IInv, Exclusive, OnlyRunning, NoLostUpdate, MemoryFresh,
                  vars, instVars, rowVars, dbVars, callVars, historyVars
    <3>2. CASE \E a \in Askers : Ask(a)
      BY <3>2, AskExclusive
    <3>3. CASE FireAlarms
      BY <3>3, FireAlarmsExclusive
    <3>4. CASE Crash
      BY <3>4, CrashExclusive
    <3>5. CASE Idle
      BY <3>1, <3>5 DEF Idle
    <3>6. CASE \E c \in Callers : CallerStep(c)
      BY <3>6, DeleteAlarmExclusive, MailboxExclusive, SendExclusive, RemoveExclusive
         DEF CallerStep
    <3>7. CASE \E i \in Instances : InstanceStep(i) \/ SetAlarm(i) \/ Evict(i) \/ Gone(i)
      BY <3>7, StartExclusive, ReceiveExclusive, PutExclusive, ReplyExclusive,
         GoneExclusive, EvictExclusive, SetAlarmExclusive DEF InstanceStep
    <3>8. CASE Tick
      BY <3>8, TickExclusive
    <3> QED BY <3>1, <3>2, <3>3, <3>4, <3>5, <3>6, <3>7, <3>8 DEF Next
  <2> QED BY <2>1, <2>2
<1> QED BY <1>1, <1>2, PTL DEF Spec

\* Any number of callers, evictions, panics and restarts: unless ask removed
\* a mailbox it had not found closed, at most one task of the id is alive.
THEOREM OneInstanceCorrect == Spec => []OneUnlessClobbered
<1>1. IInv => OneUnlessClobbered
  <2> SUFFICES ASSUME IInv, ~clobbered PROVE OneInstance
    BY DEF OneUnlessClobbered
  <2>1. Active \subseteq {running}
    BY DEF IInv, Exclusive, OnlyRunning, Active
  <2>2. IsFiniteSet({running}) /\ Cardinality({running}) = 1
    BY FS_Singleton
  <2>3. IsFiniteSet(Active) /\ Cardinality(Active) <= Cardinality({running})
    BY <2>1, <2>2, FS_Subset
  <2>4. Cardinality(Active) \in Nat
    BY <2>3, FS_CardinalityType
  <2> QED BY <2>2, <2>3, <2>4 DEF OneInstance
<1> QED BY <1>1, ExclusiveInvariant, PTL

\* Under the same condition the storage holds every update any instance put,
\* whatever was evicted, panicked or died in between.
THEOREM UpdatesKept == Spec => []NoLostUpdate
<1>1. IInv => NoLostUpdate
  BY DEF IInv, Exclusive
<1> QED BY <1>1, ExclusiveInvariant, PTL

-----------------------------------------------------------------------------
(* Every message applied once. *)

\* A new ask leaves every asker's message at most in one place.
LEMMA AskTraced ==
  ASSUME TypeOK, Traced, NEW a \in Askers, Ask(a)
  PROVE  Traced'
<1> USE DEF TypeOK, Traced, instVars, rowVars, dbVars, callVars, historyVars
<1>1. Queued'
  BY DEF Queued, Ask
<1>2. QueuedOnce'
  BY DEF Queued, QueuedOnce, Ask
<1>3. Handled'
  BY DEF Queued, Handled, Ask
<1>4. AskOutcome'
  BY DEF Handled, AskOutcome, Ask
<1> QED BY <1>1, <1>2, <1>3, <1>4

\* The selection of due alarms leaves every asker's message at most in one place.
LEMMA FireAlarmsTraced ==
  ASSUME TypeOK, Traced, FireAlarms
  PROVE  Traced'
<1> USE DEF TypeOK, Traced, instVars, rowVars, dbVars, callVars, historyVars
<1>1. Queued'
  BY DEF Queued, FireAlarms
<1>2. QueuedOnce'
  BY DEF Queued, QueuedOnce, FireAlarms
<1>3. Handled'
  BY DEF Queued, Handled, FireAlarms
<1>4. AskOutcome'
  BY DEF Handled, AskOutcome, FireAlarms
<1> QED BY <1>1, <1>2, <1>3, <1>4

\* The deletion of an alarm leaves every asker's message at most in one place.
LEMMA DeleteAlarmTraced ==
  ASSUME TypeOK, Traced, NEW x \in Alarms, DeleteAlarm(x)
  PROVE  Traced'
<1> USE DEF TypeOK, Traced, instVars, rowVars, dbVars, callVars, historyVars
<1>1. Queued'
  BY DEF Queued, DeleteAlarm
<1>2. QueuedOnce'
  BY DEF Queued, QueuedOnce, DeleteAlarm
<1>3. Handled'
  BY DEF Queued, Handled, DeleteAlarm
<1>4. AskOutcome'
  BY DEF Handled, AskOutcome, DeleteAlarm
<1> QED BY <1>1, <1>2, <1>3, <1>4

\* The lookup in the map leaves every asker's message at most in one place.
LEMMA MailboxTraced ==
  ASSUME TypeOK, Traced, NEW c \in Callers, Mailbox(c)
  PROVE  Traced'
<1> USE DEF TypeOK, Traced, instVars, rowVars, dbVars, callVars, historyVars
<1>1. Queued'
  <2>1. UNCHANGED <<mailbox, applied, current>> /\ pc[c] = "lookup"
    BY DEF Mailbox
  <2>2. \A b \in Callers : b # c => pc'[b] = pc[b] /\ held'[b] = held[b]
    BY DEF Mailbox
  <2> HIDE DEF TypeOK
  <2> QED BY <2>1, <2>2 DEF Queued
<1>2. QueuedOnce'
  <2>1. UNCHANGED mailbox
    BY DEF Mailbox
  <2> QED BY <2>1 DEF QueuedOnce
<1>3. Handled'
  <2>1. UNCHANGED <<current, applied>>
    BY DEF Mailbox
  <2>2. ASSUME NEW j \in Instances, current[j] \in Askers
        PROVE  /\ pc[current[j]] = "wait" /\ pc'[current[j]] = "wait"
               /\ held[current[j]] = j /\ held'[current[j]] = j
    <3>1. pc[current[j]] = "wait" /\ held[current[j]] = j
      BY <2>2 DEF Handled
    <3>2. \A b \in Callers : b # c => pc'[b] = pc[b] /\ held'[b] = held[b]
      BY DEF Mailbox
    <3>3. current[j] \in Callers /\ current[j] # c
      BY <2>2, <3>1 DEF Mailbox
    <3> QED BY <3>1, <3>2, <3>3
  <2>3. ASSUME NEW j \in Instances, current[j] \in Askers PROVE inst'[j] = inst[j]
    BY <2>2, <2>3 DEF Mailbox, Unused
  <2> HIDE DEF TypeOK
  <2> QED BY <2>1, <2>2, <2>3 DEF Handled
<1>4. AskOutcome'
  BY DEF Handled, AskOutcome, Mailbox, Reusable, IsClosed, Unused
<1> QED BY <1>1, <1>2, <1>3, <1>4

\* A send leaves every asker's message at most in one place.
LEMMA SendTraced ==
  ASSUME TypeOK, Traced, NEW c \in Callers, Send(c)
  PROVE  Traced'
<1> USE DEF TypeOK, Traced, instVars, rowVars, dbVars, callVars, historyVars
<1>1. Queued'
  <2>1. CASE IsClosed(held[c])
    BY <2>1 DEF Queued, Send
  <2>2. CASE ~IsClosed(held[c])
    <3> DEFINE h == held[c]
    <3>1. /\ mailbox' = [mailbox EXCEPT ![h] = Append(mailbox[h], c)]
          /\ UNCHANGED <<applied, current>>
      BY <2>2 DEF Send
    <3>2. \A a \in Askers : a # c => pc'[a] = pc[a] /\ held'[a] = held[a]
      BY <2>2 DEF Send
    <3>3. c \in Askers => /\ pc'[c] = "wait" /\ held'[c] = h /\ applied[c] = 0
                          /\ \A j \in Instances : current[j] # c
      BY <2>2 DEF Send, AfterSend, AskOutcome, Handled
    <3>4. ASSUME NEW i \in Instances, NEW k \in 1..Len(mailbox[i]), mailbox[i][k] \in Askers
          PROVE  mailbox[i][k] # c
      BY <3>4 DEF Queued, Send
    <3>5. ASSUME NEW i \in Instances, NEW k \in 1..Len(mailbox'[i])
          PROVE  \/ k \in 1..Len(mailbox[i]) /\ mailbox'[i][k] = mailbox[i][k]
                 \/ i = h /\ mailbox'[i][k] = c
      BY <3>1, <3>5
    <3> HIDE DEF TypeOK, h
    <3> QED BY <3>1, <3>2, <3>3, <3>4, <3>5 DEF Queued
  <2> QED BY <2>1, <2>2
<1>2. QueuedOnce'
  <2>1. CASE IsClosed(held[c])
    BY <2>1 DEF QueuedOnce, Send
  <2>2. CASE ~IsClosed(held[c])
    <3> DEFINE h == held[c]
    <3>1. mailbox' = [mailbox EXCEPT ![h] = Append(mailbox[h], c)]
      BY <2>2 DEF Send
    <3>2. ASSUME NEW i \in Instances, NEW k \in 1..Len(mailbox[i]), mailbox[i][k] \in Askers
          PROVE  mailbox[i][k] # c
      BY <3>2 DEF Queued, Send
    <3>3. ASSUME NEW i \in Instances, NEW k \in 1..Len(mailbox'[i])
          PROVE  \/ k \in 1..Len(mailbox[i]) /\ mailbox'[i][k] = mailbox[i][k]
                 \/ k = Len(mailbox[i]) + 1 /\ mailbox'[i][k] = c
      BY <3>1, <3>3
    <3> SUFFICES ASSUME NEW i \in Instances,
                        NEW j \in 1..Len(mailbox'[i]), NEW k \in 1..Len(mailbox'[i]),
                        mailbox'[i][j] \in Askers, mailbox'[i][j] = mailbox'[i][k]
                 PROVE  j = k
      BY DEF QueuedOnce
    <3>len. Len(mailbox[i]) \in Nat
      OBVIOUS
    <3> HIDE DEF TypeOK, h
    <3>4. CASE j \in 1..Len(mailbox[i]) /\ k \in 1..Len(mailbox[i])
      BY <3>2, <3>3, <3>4 DEF QueuedOnce
    <3>5. CASE j \notin 1..Len(mailbox[i])
      <4>1. mailbox'[i][j] = c /\ j = Len(mailbox[i]) + 1
        BY <3>3, <3>5
      <4>2. ASSUME k \in 1..Len(mailbox[i]) PROVE FALSE
        <5>1. mailbox'[i][k] = mailbox[i][k]
          BY <3>3, <3>len, <4>2
        <5>2. mailbox[i][k] = c /\ c \in Askers
          BY <4>1, <5>1
        <5> QED BY <3>2, <4>2, <5>2
      <4> QED BY <3>3, <4>1, <4>2
    <3>6. CASE k \notin 1..Len(mailbox[i])
      <4>1. mailbox'[i][k] = c /\ k = Len(mailbox[i]) + 1
        BY <3>3, <3>6
      <4>2. ASSUME j \in 1..Len(mailbox[i]) PROVE FALSE
        <5>1. mailbox'[i][j] = mailbox[i][j]
          BY <3>3, <3>len, <4>2
        <5>2. mailbox[i][j] = c /\ c \in Askers
          BY <4>1, <5>1
        <5> QED BY <3>2, <4>2, <5>2
      <4> QED BY <3>3, <4>1, <4>2
    <3> QED BY <3>4, <3>5, <3>6
  <2> QED BY <2>1, <2>2
<1>3. Handled'
  <2>1. UNCHANGED <<inst, current, applied>> /\ pc[c] = "send"
    BY DEF Send
  <2>2. \A a \in Askers : a # c => pc'[a] = pc[a] /\ held'[a] = held[a]
    BY DEF Send
  <2> HIDE DEF TypeOK
  <2> QED BY <2>1, <2>2 DEF Handled
<1>4. AskOutcome'
  BY DEF Handled, AskOutcome, Send, IsClosed, AfterSend
<1> QED BY <1>1, <1>2, <1>3, <1>4

\* The removal of the map's entry leaves every asker's message at most in one place.
LEMMA RemoveTraced ==
  ASSUME TypeOK, Traced, NEW a \in Askers, Remove(a)
  PROVE  Traced'
<1> USE DEF TypeOK, Traced, instVars, rowVars, dbVars, callVars, historyVars
<1>1. Queued'
  <2>1. UNCHANGED <<mailbox, applied, current>> /\ pc[a] = "remove"
    BY DEF Remove
  <2>2. \A b \in Callers : b # a => pc'[b] = pc[b] /\ held'[b] = held[b]
    BY DEF Remove
  <2> HIDE DEF TypeOK
  <2> QED BY <2>1, <2>2 DEF Queued
<1>2. QueuedOnce'
  BY DEF Queued, QueuedOnce, Remove, TriesAllowed
<1>3. Handled'
  BY DEF Queued, Handled, Remove, TriesAllowed
<1>4. AskOutcome'
  BY DEF Handled, AskOutcome, Remove, TriesAllowed
<1> QED BY <1>1, <1>2, <1>3, <1>4

\* The start of an instance leaves every asker's message at most in one place.
LEMMA StartTraced ==
  ASSUME TypeOK, Traced, NEW i \in Instances, Start(i)
  PROVE  Traced'
<1> USE DEF TypeOK, Traced, instVars, rowVars, dbVars, callVars, historyVars
<1>1. Queued'
  BY DEF Queued, Start
<1>2. QueuedOnce'
  BY DEF Queued, QueuedOnce, Start
<1>3. Handled'
  BY DEF Queued, Handled, Start
<1>4. AskOutcome'
  BY DEF Handled, AskOutcome, Start
<1> QED BY <1>1, <1>2, <1>3, <1>4

\* Receiving a message leaves every asker's message at most in one place.
LEMMA ReceiveTraced ==
  ASSUME TypeOK, Traced, NEW i \in Instances, Receive(i)
  PROVE  Traced'
<1> USE DEF TypeOK, Traced, instVars, rowVars, dbVars, callVars, historyVars
<1>1. Queued'
  <2>1. UNCHANGED <<pc, held, applied>>
    BY DEF Receive
  <2>2. ASSUME NEW j \in Instances, j # i
        PROVE  mailbox'[j] = mailbox[j] /\ current'[j] = current[j]
    BY <2>2 DEF Receive
  <2>3. current'[i] = mailbox[i][1] /\ 1 \in 1..Len(mailbox[i])
    BY DEF Receive
  <2>4. ASSUME NEW k \in 1..Len(mailbox'[i])
        PROVE  k + 1 \in 1..Len(mailbox[i]) /\ mailbox'[i][k] = mailbox[i][k + 1]
    BY <2>4 DEF Receive
  <2>5. \A k \in 1..Len(mailbox'[i]) :
           mailbox'[i][k] \in Askers => mailbox'[i][k] # current'[i]
    <3> SUFFICES ASSUME NEW k \in 1..Len(mailbox'[i]),
                        mailbox'[i][k] \in Askers, mailbox'[i][k] = current'[i]
                 PROVE  FALSE
      OBVIOUS
    <3>1. mailbox[i][k + 1] \in Askers /\ mailbox[i][k + 1] = mailbox[i][1]
      BY <2>3, <2>4
    <3>2. k + 1 = 1
      <4> HIDE DEF TypeOK
      <4> QED BY <2>3, <2>4, <3>1 DEF QueuedOnce
    <3> QED BY <3>2
  <2> HIDE DEF TypeOK
  <2>6. ASSUME NEW j \in Instances, j # i, NEW k \in 1..Len(mailbox'[j]), mailbox'[j][k] \in Askers
        PROVE  /\ pc'[mailbox'[j][k]] = "wait" /\ held'[mailbox'[j][k]] = j
               /\ applied'[mailbox'[j][k]] = 0 /\ current'[j] # mailbox'[j][k]
    BY <2>1, <2>2, <2>6 DEF Queued
  <2>7. ASSUME NEW k \in 1..Len(mailbox'[i]), mailbox'[i][k] \in Askers
        PROVE  /\ pc'[mailbox'[i][k]] = "wait" /\ held'[mailbox'[i][k]] = i
               /\ applied'[mailbox'[i][k]] = 0 /\ current'[i] # mailbox'[i][k]
    BY <2>1, <2>4, <2>5, <2>7 DEF Queued
  <2> QED BY <2>6, <2>7 DEF Queued
<1>2. QueuedOnce'
  <2>1. ASSUME NEW j \in Instances, j # i PROVE mailbox'[j] = mailbox[j]
    BY <2>1 DEF Receive
  <2>2. ASSUME NEW k \in 1..Len(mailbox'[i])
        PROVE  k + 1 \in 1..Len(mailbox[i]) /\ mailbox'[i][k] = mailbox[i][k + 1]
    BY <2>2 DEF Receive
  <2>3. ASSUME NEW j \in 1..Len(mailbox'[i]), NEW k \in 1..Len(mailbox'[i]),
               mailbox'[i][j] \in Askers, mailbox'[i][j] = mailbox'[i][k]
        PROVE  j = k
    <3>1. j + 1 = k + 1
      <4> HIDE DEF TypeOK
      <4> QED BY <2>2, <2>3 DEF QueuedOnce
    <3> QED BY <3>1
  <2> HIDE DEF TypeOK
  <2> QED BY <2>1, <2>3 DEF QueuedOnce
<1>3. Handled'
  <2>1. UNCHANGED <<pc, held, applied>>
    BY DEF Receive
  <2>2. ASSUME NEW j \in Instances, j # i
        PROVE  inst'[j] = inst[j] /\ current'[j] = current[j]
    BY <2>2 DEF Receive
  <2>3. /\ current'[i] = mailbox[i][1] /\ 1 \in 1..Len(mailbox[i])
        /\ inst'[i] = "handling"
    BY DEF Receive
  <2> HIDE DEF TypeOK
  <2> QED BY <2>1, <2>2, <2>3 DEF Queued, Handled
<1>4. AskOutcome'
  BY DEF Handled, AskOutcome, Receive
<1> QED BY <1>1, <1>2, <1>3, <1>4

\* Setting an alarm leaves every asker's message at most in one place.
LEMMA SetAlarmTraced ==
  ASSUME TypeOK, Traced, NEW i \in Instances, SetAlarm(i)
  PROVE  Traced'
<1> USE DEF TypeOK, Traced, instVars, rowVars, dbVars, callVars, historyVars
<1>1. Queued'
  BY DEF Queued, SetAlarm
<1>2. QueuedOnce'
  BY DEF Queued, QueuedOnce, SetAlarm
<1>3. Handled'
  BY DEF Queued, Handled, SetAlarm
<1>4. AskOutcome'
  BY DEF Handled, AskOutcome, SetAlarm
<1> QED BY <1>1, <1>2, <1>3, <1>4

\* A durable put leaves every asker's message at most in one place.
LEMMA PutTraced ==
  ASSUME TypeOK, Traced, NEW i \in Instances, Put(i)
  PROVE  Traced'
<1> USE DEF TypeOK, Traced, instVars, rowVars, dbVars, callVars, historyVars
<1>1. Queued'
  <2>1. UNCHANGED <<mailbox, pc, held, current>>
    BY DEF Put
  <2>2. \A a \in Askers : a # current[i] => applied'[a] = applied[a]
    BY DEF Put
  <2>3. ASSUME NEW j \in Instances, NEW k \in 1..Len(mailbox[j]), mailbox[j][k] \in Askers
        PROVE  mailbox[j][k] # current[i]
    BY <2>3 DEF Queued, Handled
  <2> HIDE DEF TypeOK
  <2> QED BY <2>1, <2>2, <2>3 DEF Queued
<1>2. QueuedOnce'
  BY DEF Queued, QueuedOnce, Put
<1>3. Handled'
  BY DEF Queued, Handled, Put
<1>4. AskOutcome'
  <2>1. UNCHANGED pc
    BY DEF Put
  <2>2. \A a \in Askers : a # current[i] => applied'[a] = applied[a]
    BY DEF Put
  <2>3. ASSUME current[i] \in Askers
        PROVE  pc[current[i]] = "wait" /\ applied'[current[i]] = 1
    <3>1. pc[current[i]] = "wait" /\ applied[current[i]] = 0
      BY <2>3 DEF Put, Handled
    <3>2. applied'[current[i]] = applied[current[i]] + 1
      BY <2>3 DEF Put
    <3> QED BY <3>1, <3>2
  <2> HIDE DEF TypeOK
  <2> QED BY <2>1, <2>2, <2>3 DEF AskOutcome
<1> QED BY <1>1, <1>2, <1>3, <1>4

\* A reply leaves every asker's message at most in one place.
LEMMA ReplyTraced ==
  ASSUME TypeOK, Traced, NEW i \in Instances, Reply(i)
  PROVE  Traced'
<1> USE DEF TypeOK, Traced, instVars, rowVars, dbVars, callVars, historyVars
<1>1. Queued'
  <2>1. UNCHANGED <<mailbox, applied>>
    BY DEF Reply
  <2>2. \A a \in Askers : a # current[i] => pc'[a] = pc[a] /\ held'[a] = held[a]
    BY DEF Reply
  <2>3. \A j \in Instances : current'[j] = current[j] \/ current'[j] = "none"
    BY DEF Reply
  <2>4. ASSUME NEW j \in Instances, NEW k \in 1..Len(mailbox[j]), mailbox[j][k] \in Askers
        PROVE  mailbox[j][k] # current[i]
    BY <2>4 DEF Queued, Handled
  <2> HIDE DEF TypeOK
  <2> QED BY <2>1, <2>2, <2>3, <2>4 DEF Queued
<1>2. QueuedOnce'
  BY DEF Queued, QueuedOnce, Reply
<1>3. Handled'
  <2>1. UNCHANGED applied /\ current'[i] = "none"
    BY DEF Reply
  <2>2. \A a \in Askers : a # current[i] => pc'[a] = pc[a] /\ held'[a] = held[a]
    BY DEF Reply
  <2>3. ASSUME NEW j \in Instances, j # i
        PROVE  inst'[j] = inst[j] /\ current'[j] = current[j]
    BY <2>3 DEF Reply
  <2>4. \A j \in Instances : current[j] \in Askers /\ j # i => current[j] # current[i]
    BY DEF Handled
  <2> HIDE DEF TypeOK
  <2> QED BY <2>1, <2>2, <2>3, <2>4 DEF Handled
<1>4. AskOutcome'
  BY DEF Handled, AskOutcome, Reply
<1> QED BY <1>1, <1>2, <1>3, <1>4

\* An eviction leaves every asker's message at most in one place.
LEMMA EvictTraced ==
  ASSUME TypeOK, Traced, NEW i \in Instances, Evict(i)
  PROVE  Traced'
<1> USE DEF TypeOK, Traced, instVars, rowVars, dbVars, callVars, historyVars
<1>1. Queued'
  <2>1. UNCHANGED <<mailbox, pc, held, applied, current>>
    BY DEF Evict
  <2> HIDE DEF TypeOK
  <2> QED BY <2>1 DEF Queued
<1>2. QueuedOnce'
  BY DEF Queued, QueuedOnce, Evict
<1>3. Handled'
  <2>1. UNCHANGED <<pc, held, applied, current>>
    BY DEF Evict
  <2>2. \A j \in Instances : j # i => inst'[j] = inst[j]
    BY DEF Evict
  <2>3. current[i] \notin Askers
    BY DEF Evict, Handled
  <2> HIDE DEF TypeOK
  <2> QED BY <2>1, <2>2, <2>3 DEF Handled
<1>4. AskOutcome'
  BY DEF Handled, AskOutcome, Evict
<1> QED BY <1>1, <1>2, <1>3, <1>4

\* The end of a task leaves every asker's message at most in one place.
LEMMA GoneTraced ==
  ASSUME TypeOK, Traced, NEW i \in Instances, Gone(i)
  PROVE  Traced'
<1> USE DEF TypeOK, Traced, instVars, rowVars, dbVars, callVars, historyVars
<1>1. Queued'
  <2>1. UNCHANGED applied
    BY DEF Gone
  <2>2. mailbox'[i] = <<>> /\ current'[i] = "none"
    BY DEF Gone
  <2>3. ASSUME NEW j \in Instances, j # i
        PROVE  mailbox'[j] = mailbox[j] /\ current'[j] = current[j] /\ inst'[j] = inst[j]
    BY <2>3 DEF Gone
  <2>4. ASSUME NEW a \in Askers, held[a] # i PROVE pc'[a] = pc[a] /\ held'[a] = held[a]
    <3>1. a # current[i]
      BY <2>4 DEF Handled
    <3>2. \A k \in DOMAIN mailbox[i] : mailbox[i][k] # a
      <4>1. DOMAIN mailbox[i] = 1..Len(mailbox[i])
        OBVIOUS
      <4> HIDE DEF TypeOK
      <4> QED BY <2>4, <4>1 DEF Queued
    <3>3. ~Stops(a, i)
      <4> HIDE DEF TypeOK
      <4> QED BY <3>1, <3>2 DEF Stops, Dropped
    <3> QED BY <3>3 DEF Gone
  <2> HIDE DEF TypeOK
  <2> QED BY <2>1, <2>2, <2>3, <2>4 DEF Queued
<1>2. QueuedOnce'
  BY DEF Queued, QueuedOnce, Gone, Stops, Dropped
<1>3. Handled'
  <2>1. UNCHANGED applied
    BY DEF Gone
  <2>2. mailbox'[i] = <<>> /\ current'[i] = "none"
    BY DEF Gone
  <2>3. ASSUME NEW j \in Instances, j # i
        PROVE  mailbox'[j] = mailbox[j] /\ current'[j] = current[j] /\ inst'[j] = inst[j]
    BY <2>3 DEF Gone
  <2>4. ASSUME NEW a \in Askers, held[a] # i PROVE pc'[a] = pc[a] /\ held'[a] = held[a]
    <3>1. a # current[i]
      BY <2>4 DEF Handled
    <3>2. \A k \in DOMAIN mailbox[i] : mailbox[i][k] # a
      <4>1. DOMAIN mailbox[i] = 1..Len(mailbox[i])
        OBVIOUS
      <4> HIDE DEF TypeOK
      <4> QED BY <2>4, <4>1 DEF Queued
    <3>3. ~Stops(a, i)
      <4> HIDE DEF TypeOK
      <4> QED BY <3>1, <3>2 DEF Stops, Dropped
    <3> QED BY <3>3 DEF Gone
  <2> HIDE DEF TypeOK
  <2> QED BY <2>1, <2>2, <2>3, <2>4 DEF Handled
<1>4. AskOutcome'
  BY DEF Handled, AskOutcome, Gone, Stops, Dropped
<1> QED BY <1>1, <1>2, <1>3, <1>4

\* A death of the process leaves every asker's message at most in one place.
LEMMA CrashTraced ==
  ASSUME TypeOK, Traced, Crash
  PROVE  Traced'
<1> USE DEF TypeOK, Traced, instVars, rowVars, dbVars, callVars, historyVars
<1>1. Queued'
  BY DEF Queued, Crash
<1>2. QueuedOnce'
  BY DEF Queued, QueuedOnce, Crash
<1>3. Handled'
  BY DEF Queued, Handled, Crash
<1>4. AskOutcome'
  BY DEF Handled, AskOutcome, Crash
<1> QED BY <1>1, <1>2, <1>3, <1>4

\* The coming of an alarm's time does so too.
LEMMA TickTraced ==
  ASSUME TypeOK, Traced, Tick
  PROVE  Traced'
<1> USE DEF Traced, instVars, rowVars, dbVars, callVars, historyVars
<1> QED BY DEF Tick, Queued, QueuedOnce, Handled, AskOutcome

\* Initially there is no message; every step keeps track of every one.
LEMMA TracedInvariant == Spec => [](TypeOK /\ Traced)
<1>1. Init => TypeOK /\ Traced
  <2> SUFFICES ASSUME Init PROVE TypeOK /\ Traced
    OBVIOUS
  <2>1. TypeOK
    BY InitType
  <2>2. Queued /\ QueuedOnce
    BY DEF Init, Queued, QueuedOnce
  <2>3. Handled
    BY DEF Init, Handled
  <2>4. AskOutcome
    BY DEF Init, AskOutcome
  <2> QED BY <2>1, <2>2, <2>3, <2>4 DEF Traced
<1>2. TypeOK /\ Traced /\ [Next]_vars => (TypeOK /\ Traced)'
  <2> SUFFICES ASSUME TypeOK, Traced, [Next]_vars PROVE (TypeOK /\ Traced)'
    OBVIOUS
  <2>1. TypeOK'
    BY TypeStep
  <2>2. Traced'
    <3>1. CASE UNCHANGED vars
      BY <3>1 DEF Traced, Queued, QueuedOnce, Handled, AskOutcome,
                  vars, instVars, rowVars, dbVars, callVars, historyVars
    <3>2. CASE \E a \in Askers : Ask(a)
      BY <3>2, AskTraced
    <3>3. CASE FireAlarms
      BY <3>3, FireAlarmsTraced
    <3>4. CASE Crash
      BY <3>4, CrashTraced
    <3>5. CASE Idle
      BY <3>1, <3>5 DEF Idle
    <3>6. CASE \E c \in Callers : CallerStep(c)
      BY <3>6, DeleteAlarmTraced, MailboxTraced, SendTraced, RemoveTraced DEF CallerStep
    <3>7. CASE \E i \in Instances : InstanceStep(i) \/ SetAlarm(i) \/ Evict(i) \/ Gone(i)
      BY <3>7, StartTraced, ReceiveTraced, PutTraced, ReplyTraced,
         GoneTraced, EvictTraced, SetAlarmTraced DEF InstanceStep
    <3>8. CASE Tick
      BY <3>8, TickTraced
    <3> QED BY <3>1, <3>2, <3>3, <3>4, <3>5, <3>6, <3>7, <3>8 DEF Next
  <2> QED BY <2>1, <2>2
<1> QED BY <1>1, <1>2, PTL DEF Spec

\* An ask that was answered was applied exactly once, one that could not start
\* the actor not at all, and none twice: also when the map was clobbered and
\* two instances run, and across panics, evictions and deaths.
THEOREM AskedOnce == Spec => []AskOutcome
<1>1. Traced => AskOutcome
  BY DEF Traced
<1> QED BY <1>1, TracedInvariant, PTL
=============================================================================
