-------------------------------- MODULE Events --------------------------------
(***************************************************************************)
(* The event queue (rustnative-durable, events.rs): the tables _events and *)
(* _dead_letters, and the runner of each process.                          *)
(*                                                                         *)
(* run_batch takes ready events, hands them to the handler, and records    *)
(* which failed, one statement at a time.  It claims nothing, so runners   *)
(* of several processes may hold the same event; a process may die         *)
(* between any two statements.  The handler is the environment's: it deals *)
(* with the events of a batch one by one (Handle), and Pipeline says what  *)
(* it does.  Time is left out: a ready event may be due at once or later,  *)
(* and which of the due events come first is open.                         *)
(***************************************************************************)
EXTENDS Integers, FiniteSets

CONSTANTS
    Runners,          \* processes with an EventRunner
    Events,           \* event ids
    Batch,            \* events a batch takes at most
    MaxEventAttempts  \* times an event is tried

ASSUME EventsAssumption ==
    /\ {Batch, MaxEventAttempts} \subseteq Nat \ {0} /\ IsFiniteSet(Events)

VARIABLES
    events,        \* the table _events: each event's status and attempts
    dead_letters,  \* ids in the table _dead_letters
    runner,        \* each process: run_batch's place, batch and result
    shared,        \* history: events two runners have held at once
    halfway        \* history: events whose runner died between the two tables

eventsVars == <<events, dead_letters, runner, shared, halfway>>

NoEvent == [status |-> "absent", attempts |-> 0]
Between == [at |-> "idle", handling |-> {}, recording |-> {}, attempt |-> [e \in {} |-> 0],
            failed |-> {}, letter |-> {}]

\* The events p holds.
Batched(p) == runner[p].handling \union runner[p].recording \union runner[p].letter

EventsTypeOK ==
    /\ events \in [Events -> [status : {"absent", "ready", "done", "dead"},
                              attempts : 0..MaxEventAttempts]]
    /\ \A p \in Runners :
           /\ runner[p].at \in {"idle", "batch"}
           /\ runner[p].failed \subseteq Events
           /\ DOMAIN runner[p].attempt \subseteq Events
           /\ \A e \in DOMAIN runner[p].attempt : runner[p].attempt[e] \in 1..MaxEventAttempts
           /\ Cardinality(Batched(p)) <= Batch
           /\ \A e \in Batched(p) : events[e].status # "absent"

EventsInit ==
    /\ events = [e \in Events |-> NoEvent] /\ dead_letters = {}
    /\ runner = [p \in Runners |-> Between]
    /\ shared = {} /\ halfway = {}

\* publish: INSERT OR IGNORE.
Publish(e) ==
    /\ events' = IF events[e].status = "absent"
                   THEN [events EXCEPT ![e] = [status |-> "ready", attempts |-> 0]]
                   ELSE events
    /\ UNCHANGED <<dead_letters, runner, shared, halfway>>

\* run_batch selects up to Batch of the ready events.
Ready == {e \in Events : events[e].status = "ready"}

TakeBatch(p) ==
    /\ runner[p].at = "idle"
    /\ \E batch \in SUBSET Ready \ {{}} :
           /\ Cardinality(batch) <= Batch
           /\ Cardinality(batch) = Batch \/ batch = Ready
           /\ runner' = [runner EXCEPT ![p] = [Between EXCEPT
                  !.at = "batch", !.handling = batch,
                  !.attempt = [e \in batch |-> events[e].attempts + 1]]]
           /\ shared' = shared \union {e \in batch : \E q \in Runners : e \in Batched(q)}
    /\ UNCHANGED <<events, dead_letters, halfway>>

\* The handler has dealt with one event of the batch.
Handle(p, e, ok) ==
    /\ e \in runner[p].handling
    /\ runner' = [runner EXCEPT ![p].handling = @ \ {e}, ![p].recording = @ \union {e},
                                ![p].failed = IF ok THEN @ ELSE @ \union {e}]
    /\ UNCHANGED <<events, dead_letters, shared, halfway>>

\* The handler has returned, and p records event e.
LetGo(p, e) ==
    IF Batched(p) = {e} THEN Between
    ELSE [runner[p] EXCEPT !.recording = @ \ {e}, !.letter = {}]
Recorded(p, e) == [runner EXCEPT ![p] = LetGo(p, e)]

Recordable(p, e) ==
    /\ runner[p].handling = {} /\ runner[p].letter = {}
    /\ e \in runner[p].recording

Succeeded(p, e) == e \notin runner[p].failed

RecordDone(p, e) ==
    /\ Recordable(p, e) /\ Succeeded(p, e)
    /\ events' = [events EXCEPT ![e].status = "done", ![e].attempts = runner[p].attempt[e]]
    /\ runner' = Recorded(p, e)
    /\ UNCHANGED <<dead_letters, shared, halfway>>

\* A retry leaves the status alone.
Last(p, e) == runner[p].attempt[e] >= MaxEventAttempts

RecordRetry(p, e) ==
    /\ Recordable(p, e) /\ ~Succeeded(p, e) /\ ~Last(p, e)
    /\ events' = [events EXCEPT ![e].attempts = runner[p].attempt[e]]
    /\ runner' = Recorded(p, e)
    /\ UNCHANGED <<dead_letters, shared, halfway>>

\* After the last attempt: the letter first, then the status.
InsertLetter(p, e) ==
    /\ Recordable(p, e) /\ ~Succeeded(p, e) /\ Last(p, e)
    /\ dead_letters' = dead_letters \union {e}
    /\ runner' = [runner EXCEPT ![p].recording = @ \ {e}, ![p].letter = {e}]
    /\ UNCHANGED <<events, shared, halfway>>

MutDead(p, e) == [events[e] EXCEPT !.attempts = runner[p].attempt[e]]
Dead(p, e) == [events[e] EXCEPT !.status = "dead", !.attempts = runner[p].attempt[e]]

MarkDead(p, e) ==
    /\ e \in runner[p].letter
    /\ events' = [events EXCEPT ![e] = Dead(p, e)]
    /\ runner' = Recorded(p, e)
    /\ UNCHANGED <<dead_letters, shared, halfway>>

RunnerDies(p) ==
    /\ runner' = [runner EXCEPT ![p] = Between]
    /\ halfway' = halfway \union runner[p].letter
    /\ UNCHANGED <<events, dead_letters, shared>>

Record(p, e) == RecordDone(p, e) \/ RecordRetry(p, e) \/ InsertLetter(p, e) \/ MarkDead(p, e)

-----------------------------------------------------------------------------
(* Properties. *)

\* The dead letters are the events that failed every attempt: an event is
\* dead exactly if its letter is there, between the two statements apart.
\* Except for events two runners held at once, and events whose runner died
\* between the statements (such an event is tried again and may succeed).
LettersAgree ==
    \A e \in Events \ (shared \union halfway) :
        e \in dead_letters <=>
            events[e].status = "dead" \/ \E p \in Runners : e \in runner[p].letter
=============================================================================
