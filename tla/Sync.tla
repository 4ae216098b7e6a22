--------------------------------- MODULE Sync ---------------------------------
(***************************************************************************)
(* One replicated collection (rustnative-sync, replica.rs and clock.rs):   *)
(* the SyncServer that holds it, the replicas that read and write it       *)
(* locally and call sync, their hybrid logical clocks, and a transport     *)
(* that may fail before or after the server has served a request.          *)
(*                                                                         *)
(* sync borrows its collection mutably, so a replica does nothing else     *)
(* while it runs; the server serves one request at a time (a mutex).       *)
(* What a write says is the set of writes it builds on, itself included:   *)
(* a writer edits the record it sees, and Merge is the union.              *)
(***************************************************************************)
EXTENDS Integers, Sequences, FiniteSets

CONSTANTS
    NumReplicas,  \* ReplicaIds are 1..NumReplicas
    NumIds,       \* records are 1..NumIds
    Setups,       \* declarations of the collection and bounds, see setup below
    Skew          \* how far each replica's wall clock runs ahead

Replicas == 1..NumReplicas
Ids == 1..NumIds
Policies == {"ServerAuthority", "LastWriterWins", "Merge"}

ASSUME SyncAssumption ==
    /\ NumReplicas \in Nat /\ NumIds \in Nat /\ Skew \in [Replicas -> Nat]
    /\ \A s \in Setups : s.policy \in Policies /\ s.version \in Nat \ {0}

VARIABLES
    setup,      \* what the run is about, chosen once: the collection's
                \* policy, schema version, minimum_readable and the versions
                \* its upgrade accepts; each replica's filter and the values
                \* of the field it looks at; bounds on the records,
                \* writes, deletions, wall time, transport faults and restarts
    server,     \* CollectionState.records
    sequence,   \* SyncServer.sequence
    local,      \* SyncedCollection.local of each replica
    saved,      \* its last snapshot
    version,    \* T::VERSION of the application each replica runs
    last,       \* Clock.last of each replica, as <<wall, counter>>
    pc,         \* where each replica is in sync
    reply,      \* the answer on its way to it
    late,       \* pushes whose sender has given up and that may yet arrive
    now,        \* wall time
    puts,       \* writes made so far
    faults,
    restarts,
    rewound     \* history: replicas whose clock has started again

serverVars == <<server, sequence>>
replicaVars == <<local, saved, version, last, pc, reply>>
bounds == <<now, puts, faults, restarts>>
vars == <<setup, serverVars, replicaVars, late, bounds, rewound>>

-----------------------------------------------------------------------------
(* Changes and stamps. *)

Everyone == "everyone"
Stamps == Nat \X Nat \X (0..NumReplicas)

Change == [live : BOOLEAN, writes : SUBSET Nat, owner : setup.owners \union {Everyone},
           stamp : Stamps, version : Nat, base : Nat, sequence : Nat]

\* No entry; version 0 marks it.
NoRecord == [live |-> FALSE, writes |-> {}, owner |-> Everyone,
             stamp |-> <<0, 0, 0>>, version |-> 0, base |-> 0, sequence |-> 0]
Present(c) == c.version > 0

Empty == [id \in Ids |-> NoRecord]
IdsOf(records) == {id \in Ids : Present(records[id])}

\* Hlc's derived order: wall, then counter, then replica.
Later(a, b) ==
    \/ a[1] > b[1]
    \/ a[1] = b[1] /\ a[2] > b[2]
    \/ a[1] = b[1] /\ a[2] = b[2] /\ a[3] > b[3]

NoReply == [accepted |-> Empty, refused |-> Empty, cursor |-> 0]

Records == [Ids -> Change]

TypeOK ==
    /\ setup \in Setups
    /\ server \in Records /\ sequence \in Nat
    /\ local \in [Replicas -> [records : Records, pending : Records, cursor : Nat]]
    /\ saved \in [Replicas -> [records : Records, pending : Records, cursor : Nat]]
    /\ version \in [Replicas -> 1..setup.version]
    /\ last \in [Replicas -> Nat \X Nat]
    /\ pc \in [Replicas -> {"idle", "pushed", "pull", "pulled"}]
    /\ reply \in [Replicas -> [accepted : Records, refused : Records, cursor : Nat]]
    /\ late \in SUBSET Records
    /\ now \in Nat /\ puts \in Nat /\ faults \in Nat /\ restarts \in Nat
    /\ rewound \subseteq Replicas
    /\ \A id \in Ids : server[id].sequence <= sequence
    /\ \A r \in Replicas : local[r].cursor <= sequence

NewLocal == [records |-> Empty, pending |-> Empty, cursor |-> 0]

Init ==
    /\ setup \in Setups
    /\ server = Empty
    /\ sequence = 0
    /\ local = [r \in Replicas |-> NewLocal]
    /\ saved = [r \in Replicas |-> NewLocal]
    /\ version \in [Replicas -> {1, setup.version}]
    /\ last = [r \in Replicas |-> <<0, 0>>]
    /\ pc = [r \in Replicas |-> "idle"]
    /\ reply = [r \in Replicas |-> NoReply]
    /\ late = {}
    /\ now = 1
    /\ puts = 0
    /\ faults = 0
    /\ restarts = 0
    /\ rewound = {}

-----------------------------------------------------------------------------
(* The clock. *)

\* Clock::now.
MutTicked(r) == <<now + Skew[r], 0>>
Ticked(r) == IF now + Skew[r] > last[r][1]
               THEN <<now + Skew[r], 0>>
               ELSE <<last[r][1], last[r][2] + 1>>

\* Clock::observe of every stamp in a reply: the latest (wall, counter).
Observed(r, changes) ==
    LET seen == {<<c.stamp[1], c.stamp[2]>> : c \in {d \in changes : Present(d)}} \union {last[r]}
    IN  CHOOSE s \in seen : \A o \in seen : s[1] > o[1] \/ (s[1] = o[1] /\ s[2] >= o[2])

-----------------------------------------------------------------------------
(* The server. *)

\* A change from an older schema is upgraded if the declaration can; a
\* deletion has nothing to upgrade.
Readable(c) == c.version >= setup.version \/ ~c.live \/ c.version \in setup.upgrades

\* What the policy makes of a change to an existing record.
MutWins(c, current) ==
    IF setup.policy = "LastWriterWins" THEN Later(c.stamp, current.stamp) ELSE c.base > current.sequence
Wins(c, current) ==
    CASE setup.policy = "ServerAuthority" -> c.base >= current.sequence
      [] setup.policy = "LastWriterWins" -> Later(c.stamp, current.stamp)
      [] setup.policy = "Merge" -> TRUE

MutMerged(c, current) == c
Merged(c, current) ==
    IF setup.policy = "Merge"
      THEN [c EXCEPT !.writes = IF c.live /\ current.live THEN @ \union current.writes ELSE @,
                     !.stamp = IF Later(@, current.stamp) THEN @ ELSE current.stamp]
      ELSE c

\* What SyncServer::push does with each change.  One it cannot read it skips.
\* A push has one change for each record, so that none depends on another but
\* for its sequence number.
Served(changes, id) == Present(changes[id]) /\ Readable(changes[id])
Accepts(changes, id) ==
    Served(changes, id) /\ (Present(server[id]) => Wins(changes[id], server[id]))
Refuses(changes, id) == Served(changes, id) /\ ~Accepts(changes, id)

\* Accepted changes are numbered in the order of their ids (pending is a
\* BTreeMap).
Number(changes, n) == sequence + Cardinality({id \in 1..n : Accepts(changes, id)})
Winner(changes, id) ==
    [(IF Present(server[id]) THEN Merged(changes[id], server[id]) ELSE changes[id])
        EXCEPT !.version = setup.version, !.sequence = Number(changes, id)]

PushResult(changes) ==
    [accepted |-> [id \in Ids |-> IF Accepts(changes, id) THEN Winner(changes, id) ELSE NoRecord],
     refused |-> [id \in Ids |-> IF Refuses(changes, id) THEN server[id] ELSE NoRecord],
     cursor |-> 0]

ServePush(changes) ==
    /\ server' = [id \in Ids |-> IF Accepts(changes, id) THEN Winner(changes, id) ELSE server[id]]
    /\ sequence' = Number(changes, NumIds)

\* Filter::matches; a deletion always travels.
Matches(r, c) == ~c.live \/ setup.filter[r] \in {Everyone, c.owner}

\* SyncServer::pull.
PullResult(r) ==
    [accepted |-> [id \in Ids |-> IF server[id].sequence > local[r].cursor /\ Matches(r, server[id])
                                    THEN server[id] ELSE NoRecord],
     refused |-> Empty, cursor |-> sequence]

-----------------------------------------------------------------------------
(* The application's calls. *)

\* SyncedCollection::put (live) and delete: the writer edits the record it
\* sees.  The base is the sequence of the local record, which is 0 for a
\* write not yet accepted.
Edit(r, id, live, owner) ==
    [live |-> live,
     writes |-> IF live THEN local[r].records[id].writes \union {puts + 1} ELSE {},
     owner |-> owner, stamp |-> <<Ticked(r)[1], Ticked(r)[2], r>>, version |-> version[r],
     base |-> local[r].records[id].sequence, sequence |-> 0]

Write(r, id, live, owner) ==
    LET change == Edit(r, id, live, owner) IN
    /\ pc[r] = "idle" /\ puts < setup.writes /\ id <= setup.ids
    /\ local' = [local EXCEPT ![r].records[id] = change, ![r].pending[id] = change]
    /\ last' = [last EXCEPT ![r] = Ticked(r)]
    /\ puts' = puts + 1
    /\ UNCHANGED <<setup, serverVars, saved, version, pc, reply, late, now, faults, restarts, rewound>>

Put(r, id) == \E owner \in setup.owners : Write(r, id, TRUE, owner)
Delete(r, id) == setup.deletes /\ Write(r, id, FALSE, Everyone)

\* The application persists a snapshot.
Snapshot(r) ==
    /\ pc[r] = "idle" /\ restarts < setup.restarts
    /\ saved' = [saved EXCEPT ![r] = local[r]]
    /\ UNCHANGED <<setup, serverVars, local, version, last, pc, reply, late, bounds, rewound>>

\* The application dies; it comes up, perhaps as a newer version, with a new
\* Clock and restores its last snapshot.
Restart(r) ==
    /\ restarts < setup.restarts
    /\ restarts' = restarts + 1
    /\ local' = [local EXCEPT ![r] = saved[r]]
    /\ last' = [last EXCEPT ![r] = <<0, 0>>]
    /\ \E v \in {version[r], setup.version} : version' = [version EXCEPT ![r] = v]
    /\ pc' = [pc EXCEPT ![r] = "idle"]
    /\ reply' = [reply EXCEPT ![r] = NoReply]
    /\ rewound' = rewound \union {r}
    /\ UNCHANGED <<setup, serverVars, saved, late, now, puts, faults>>

Tick ==
    /\ now < setup.now
    /\ now' = now + 1
    /\ UNCHANGED <<setup, serverVars, replicaVars, late, puts, faults, restarts, rewound>>

-----------------------------------------------------------------------------
(* SyncedCollection::sync, up to each await. *)

\* The server serves the push.
Push(r) ==
    /\ pc[r] = "idle" /\ IdsOf(local[r].pending) # {}
    /\ ServePush(local[r].pending)
    /\ reply' = [reply EXCEPT ![r] = PushResult(local[r].pending)]
    /\ pc' = [pc EXCEPT ![r] = "pushed"]
    /\ UNCHANGED <<setup, local, saved, version, last, late, bounds, rewound>>

\* Accepted and refused writes are no longer pending; the server's copy of
\* each becomes the local one.
MutAnswered(r, id) == Present(reply[r].accepted[id])
Answered(r, id) == Present(reply[r].accepted[id]) \/ Present(reply[r].refused[id])

MutAnswer(r, id) == IF Present(reply[r].refused[id]) THEN local[r].records[id] ELSE reply[r].accepted[id]
Answer(r, id) == IF Present(reply[r].refused[id]) THEN reply[r].refused[id] ELSE reply[r].accepted[id]

Pushed(r) ==
    /\ pc[r] = "pushed"
    /\ local' = [local EXCEPT
           ![r].records = [id \in Ids |-> IF Answered(r, id) THEN Answer(r, id) ELSE @[id]],
           ![r].pending = [id \in Ids |-> IF Answered(r, id) THEN NoRecord ELSE @[id]]]
    /\ last' = [last EXCEPT ![r] = Observed(r, {Answer(r, id) : id \in Ids})]
    /\ reply' = [reply EXCEPT ![r] = NoReply]
    /\ pc' = [pc EXCEPT ![r] = "pull"]
    /\ UNCHANGED <<setup, serverVars, saved, version, late, bounds, rewound>>

\* The server serves the pull; NeedsUpgrade ends the sync with an error.
Pull(r) ==
    /\ pc[r] = "pull" \/ (pc[r] = "idle" /\ IdsOf(local[r].pending) = {})
    /\ IF version[r] < setup.minimum
         THEN pc' = [pc EXCEPT ![r] = "idle"] /\ reply' = reply
         ELSE pc' = [pc EXCEPT ![r] = "pulled"] /\ reply' = [reply EXCEPT ![r] = PullResult(r)]
    /\ UNCHANGED <<setup, serverVars, local, saved, version, last, late, bounds, rewound>>

\* A local write not yet sent is settled at its push.
KeepsLocal(r, id) == Present(local[r].pending[id])

Pulled(r) ==
    /\ pc[r] = "pulled"
    /\ local' = [local EXCEPT
           ![r].records = [id \in Ids |->
               IF Present(reply[r].accepted[id]) /\ ~KeepsLocal(r, id) THEN reply[r].accepted[id] ELSE @[id]],
           ![r].cursor = reply[r].cursor]
    /\ last' = [last EXCEPT ![r] = Observed(r, {reply[r].accepted[id] : id \in Ids})]
    /\ reply' = [reply EXCEPT ![r] = NoReply]
    /\ pc' = [pc EXCEPT ![r] = "idle"]
    /\ UNCHANGED <<setup, serverVars, saved, version, late, bounds, rewound>>

\* The transport fails: the request never arrives, the reply is lost, or the
\* request arrives after its sender has given up.
Unreachable(r) ==
    /\ faults < setup.faults
    /\ \/ /\ pc[r] # "idle"
          /\ late' = late
       \/ /\ pc[r] = "idle" /\ IdsOf(local[r].pending) # {}
          /\ late' = late \union {local[r].pending}
    /\ faults' = faults + 1
    /\ pc' = [pc EXCEPT ![r] = "idle"]
    /\ reply' = [reply EXCEPT ![r] = NoReply]
    /\ UNCHANGED <<setup, serverVars, local, saved, version, last, now, puts, restarts, rewound>>

Late ==
    \E changes \in late :
        /\ ServePush(changes)
        /\ late' = late \ {changes}
        /\ UNCHANGED <<setup, replicaVars, bounds, rewound>>

-----------------------------------------------------------------------------

SyncStep(r) == Push(r) \/ Pushed(r) \/ Pull(r) \/ Pulled(r)

Next ==
    \/ \E r \in Replicas, id \in Ids : Put(r, id) \/ Delete(r, id)
    \/ \E r \in Replicas : Snapshot(r) \/ Restart(r) \/ SyncStep(r) \/ Unreachable(r)
    \/ Late
    \/ Tick

\* The application keeps calling sync (the server tells it when something
\* changed).  Nothing makes it write, save or restart, nor a late push arrive.
Fairness == \A r \in Replicas : WF_vars(SyncStep(r))

Spec == Init /\ [][Next]_vars /\ Fairness

-----------------------------------------------------------------------------
(* Properties. *)

\* What a replica is to hold: the server's copy of every record its filter
\* selects, except records whose own write the server cannot read.
Agrees(r, id) == Matches(r, server[id]) => local[r].records[id] = server[id]

\* A replica with nothing pending that has caught up with the server's
\* sequence holds the server's records, whatever was lost, resent, refused,
\* merged or restored from an old snapshot on the way: the cursor never runs
\* ahead of what was applied.
CaughtUpAgrees ==
    \A r \in Replicas :
        local[r].cursor = sequence =>
            \A id \in Ids : Present(local[r].pending[id]) \/ Agrees(r, id)

\* The server's copy never goes back.  Under ServerAuthority and Merge it
\* never loses a write it holds to one that had not seen it (deletions
\* apart); under LastWriterWins a later write is never replaced by an earlier
\* one.  Resent, delayed and restored pushes included.
ServerMovesForward ==
    [][\A id \in Ids :
           server'[id] # server[id] /\ Present(server[id]) =>
               IF setup.policy = "LastWriterWins"
                 THEN Later(server'[id].stamp, server[id].stamp)
                 ELSE server[id].live /\ server'[id].live =>
                          server[id].writes \subseteq server'[id].writes]_vars

\* The answer to a push settles each write fairly: an accepted one is in the
\* copy that comes back; a refused one lost to a later stamp, or its writer
\* had not seen the server's copy, or that copy already holds it (it was
\* sent twice), or it was made on top of a write not yet accepted, whose
\* base is 0.
SettledFairly ==
    \A r \in Replicas, id \in Ids :
        pc[r] = "pushed" =>
            LET mine == local[r].pending[id]
                yes  == reply[r].accepted[id]
                no   == reply[r].refused[id]
            IN  /\ Present(yes) => mine.writes \subseteq yes.writes /\ mine.live = yes.live
                /\ Present(no) =>
                     \/ setup.policy = "LastWriterWins" /\ ~Later(mine.stamp, no.stamp)
                     \/ /\ setup.policy = "ServerAuthority"
                        /\ \/ ~(no.writes \subseteq mine.writes) \/ ~no.live \/ ~mine.live
                           \/ mine.writes \subseteq no.writes
                           \/ mine.base = 0

\* A write is stamped later than the record its writer saw, so that under
\* LastWriterWins an edit never loses to what it was made from: clocks are
\* drawn forward by every stamp that arrives.  Except after a restart, which
\* starts the clock again.
EditsAreLater ==
    [][\A r \in Replicas, id \in Ids :
           puts' > puts /\ local'[r].records[id] # local[r].records[id] /\ r \notin rewound =>
               Later(local'[r].records[id].stamp, local[r].records[id].stamp)]_vars

\* Once the writing and the faults end, every replica the server still
\* serves has no readable write pending and holds what the server holds.
Converges ==
    <>[](\A r \in Replicas, id \in Ids :
            version[r] >= setup.minimum =>
                IF Present(local[r].pending[id])
                  THEN ~Readable(local[r].pending[id])
                  ELSE Agrees(r, id))
=============================================================================
