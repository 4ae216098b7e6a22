----------------------------- MODULE QueryClient -----------------------------
(***************************************************************************)
(* Queries and mutations (rustnative-data, query.rs and mutation.rs): a    *)
(* QueryClient with its cached queries, the components that observe them,  *)
(* the mutations it sends and the offline queue it keeps in the state      *)
(* store; the server; and a process that may die and start again.          *)
(*                                                                         *)
(* Everything of the client runs on the UI thread, so each call and each   *)
(* resumption of one of its futures is one step.  What a query shows is    *)
(* the set of this client's mutations visible in it, as optimistic edits   *)
(* or in what the server answered; server is the set it has accepted.      *)
(* Each mutation edits one query and names it among those to invalidate.   *)
(* Time is left out: a result may turn stale, and a timer fire, whenever.  *)
(***************************************************************************)
EXTENDS Naturals, Sequences

CONSTANTS
    Keys,         \* query keys
    Components,   \* components that may use a query
    Mutations,    \* mutations the application makes, each once, as numbers in their order
    Target,       \* the query a mutation edits and invalidates
    Paged,        \* queries with pages
    OnMount,      \* queries with Revalidate.on_mount
    ServerWins,   \* whether ConflictPolicy is ServerWins
    MaxSends,     \* mutations on their way at once
    MaxCalls      \* bound: calls of components and the application, and deaths of
                  \* the process; not counted are mutate and set_online(true)

ASSUME QueryAssumption ==
    /\ Paged \subseteq Keys /\ OnMount \subseteq Keys
    /\ Mutations \subseteq Nat /\ Target \in [Mutations -> Keys]
    /\ ServerWins \in BOOLEAN /\ {MaxSends, MaxCalls} \subseteq Nat

VARIABLES
    attached,   \* Inner.background is set
    cache,      \* each key's Meta and Slot
    holds,      \* queries each component's last render holds an Observer of
    leaving,    \* settle_observer tasks not run yet
    online, queue, replaying,   \* MutationStatus.online, Mutations.queue and .replaying
    stored,     \* the queue in the state store
    sends,      \* the futures of send
    server,     \* mutations the server has accepted
    calls,
    made,       \* history: mutations made
    joined,     \* history: those that have been in the queue
    answered,   \* history: those whose answer from the server the client has handled
    doubled     \* history: replay_offline began while a replayed mutation was on its way

mutationVars == <<online, queue, replaying, stored, sends, joined, doubled>>
historyVars == <<made, answered>>
vars == <<attached, cache, holds, leaving, mutationVars, server, calls, historyVars>>

Sends == 1..MaxSends

NoTask == [kind |-> "none", answered |-> FALSE, edits |-> {}]
NoEntry == [cached |-> FALSE, fetched |-> FALSE, invalidated |-> FALSE, known |-> {},
            task |-> NoTask, retention |-> FALSE,
            has |-> FALSE, edits |-> {}, error |-> FALSE,
            fetching |-> FALSE, loading_more |-> FALSE,
            late |-> FALSE, swallowed |-> FALSE]
NotTaken == [taken |-> FALSE, edits |-> {}]
NoSend == [busy |-> FALSE]

\* late and swallowed are history: an invalidation came too late for the
\* request in flight; a result counts as fresh that is older than one.
Entry == [cached : BOOLEAN, fetched : BOOLEAN, invalidated : BOOLEAN,
          known : SUBSET Components, retention : BOOLEAN,
          task : [kind : {"none", "fetch", "more"}, answered : BOOLEAN, edits : SUBSET Mutations],
          has : BOOLEAN, edits : SUBSET Mutations, error : BOOLEAN,
          fetching : BOOLEAN, loading_more : BOOLEAN, late : BOOLEAN, swallowed : BOOLEAN]

Sending == [busy : {TRUE}, m : Mutations, replay : BOOLEAN, force : BOOLEAN, applied : BOOLEAN,
            before : [taken : BOOLEAN, edits : SUBSET Mutations]]

Init ==
    /\ attached = FALSE
    /\ cache = [k \in Keys |-> NoEntry]
    /\ holds = [c \in Components |-> {}]
    /\ leaving = [k \in Keys |-> [c \in Components |-> 0]]
    /\ online = TRUE /\ queue = <<>> /\ replaying = FALSE /\ stored = <<>>
    /\ sends = [s \in Sends |-> NoSend]
    /\ server = {} /\ calls = 0
    /\ made = {} /\ joined = {} /\ answered = {} /\ doubled = FALSE

-----------------------------------------------------------------------------
(* The cached queries.  An operator on entries takes the Meta and Slot of  *)
(* a key to what the call leaves.                                          *)

Observed(e) == e.known # {}

\* start_fetch; at most one request per key is in flight.
Started(e) ==
    IF e.cached /\ e.task.kind = "none"
      THEN [e EXCEPT !.task = [NoTask EXCEPT !.kind = "fetch"], !.fetching = TRUE]
      ELSE e

\* One key of invalidate.  Its fetch, if it is observed, is deduplicated
\* against the request in flight, which may have been answered already.
MutUnmarked(e) == IF Observed(e) THEN Started(e) ELSE e
MutUnfetched(e) ==
    IF e.cached THEN [e EXCEPT !.invalidated = TRUE,
                               !.late = e.late \/ e.task.answered \/ e.task.kind = "more"] ELSE e
Invalidated(e) ==
    LET marked == [e EXCEPT !.invalidated = TRUE,
                            !.late = e.late \/ e.task.answered \/ e.task.kind = "more"]
    IN IF ~e.cached THEN e ELSE IF Observed(e) THEN Started(marked) ELSE marked

\* What use_query and prefetch do when the key is new: a Meta, while a Slot
\* may be there already.
Opened(e) ==
    IF e.cached THEN e
      ELSE [e EXCEPT !.cached = TRUE, !.fetched = FALSE, !.invalidated = FALSE, !.swallowed = FALSE]

\* is_stale, where aged says whether its stale time has passed.
Stale(e, aged) == ~e.has \/ e.invalidated \/ ~e.fetched \/ aged

\* mounted, for a component that was not known.
Mounts(e, k, aged) == (~e.has \/ k \in OnMount) /\ Stale(e, aged)

\* The request in flight has ended or is cancelled.
Ended(e) ==
    [e EXCEPT !.task = NoTask, !.fetching = FALSE, !.loading_more = FALSE, !.late = FALSE]

\* settle_fetch with a result.
Swallows(e) ==
    \/ e.late
    \/ e.task.kind = "more" /\ (e.swallowed \/ e.invalidated \/ ~e.fetched)
Fetched(e) ==
    [Ended(e) EXCEPT !.has = TRUE, !.edits = e.task.edits, !.error = FALSE,
                     !.fetched = TRUE, !.invalidated = FALSE, !.swallowed = Swallows(e)]

\* settle_fetch with an error.
Failed(e) == [Ended(e) EXCEPT !.error = TRUE]

\* settle_observer for the last observer.
Unobserved(e) == [Ended(e) EXCEPT !.known = {}, !.retention = TRUE]

\* reject restores what the mutation's optimistic edit replaced, in a Slot
\* that may have been collected since.
RolledBack(e, before) == IF before.taken THEN [e EXCEPT !.has = TRUE, !.edits = before.edits] ELSE e

Change(k, e) == cache' = [cache EXCEPT ![k] = e]

-----------------------------------------------------------------------------
(* The offline queue. *)

\* send spawns a future, in the place of one that has ended.
Spawn(running, m, replay, before) ==
    \E s \in Sends :
        /\ ~running[s].busy /\ \A r \in Sends : r < s => running[r].busy
        /\ sends' = [running EXCEPT ![s] = [busy |-> TRUE, m |-> m, replay |-> replay,
                                            force |-> FALSE, applied |-> FALSE, before |-> before]]

Replays(running) == \E s \in Sends : running[s].busy /\ running[s].replay

\* replay_next: the first of q is sent, or the replay is over.
ReplayNext(q, running, flag) ==
    IF q = <<>>
      THEN sends' = running /\ replaying' = FALSE
      ELSE Spawn(running, Head(q), TRUE, NotTaken) /\ replaying' = flag

\* replay_offline; without a background nothing can be sent.
ReplayOffline(bound) ==
    IF replaying \/ ~bound THEN UNCHANGED <<sends, replaying, doubled>>
      ELSE /\ ReplayNext(queue, sends, TRUE)
           /\ doubled' = (doubled \/ Replays(sends))

\* enqueue, persisted at once.
MutEnqueue(m) == queue' = Append(queue, m) /\ joined' = joined \union {m} /\ UNCHANGED stored
Enqueue(m) ==
    /\ queue' = Append(queue, m) /\ stored' = Append(queue, m)
    /\ joined' = joined \union {m}

\* attach, which use_query, prefetch and bind begin with.
AttachFirst ==
    /\ attached' = TRUE
    /\ IF ~attached /\ online /\ queue # <<>> THEN ReplayOffline(TRUE)
         ELSE UNCHANGED <<sends, replaying, doubled>>
    /\ UNCHANGED <<online, queue, stored, joined>>

-----------------------------------------------------------------------------
(* Components and the application. *)

Counted == calls < MaxCalls /\ calls' = calls + 1

Bind ==
    /\ ~attached /\ AttachFirst
    /\ UNCHANGED <<cache, holds, leaving, server, calls, historyVars>>

\* use_query, in a render of c that did not hold k.
UseQuery(c, k) ==
    /\ Counted
    /\ k \notin holds[c] /\ AttachFirst
    /\ holds' = [holds EXCEPT ![c] = @ \union {k}]
    /\ \E aged \in BOOLEAN :
           LET old == Opened(cache[k])
               new == [old EXCEPT !.known = old.known \union {c}, !.retention = FALSE]
           IN Change(k, IF c \notin old.known /\ Mounts(old, k, aged)
                          THEN Started(new) ELSE new)
    /\ UNCHANGED <<leaving, server, historyVars>>

\* c renders without k or unmounts: Drop for Observer spawns settle_observer.
DropObserver(c, k) ==
    /\ Counted
    /\ k \in holds[c]
    /\ holds' = [holds EXCEPT ![c] = @ \ {k}]
    /\ leaving' = [leaving EXCEPT ![k][c] = @ + 1]
    /\ UNCHANGED <<attached, cache, mutationVars, server, historyVars>>

SettleObserver(c, k) ==
    /\ leaving[k][c] > 0
    /\ leaving' = [leaving EXCEPT ![k][c] = @ - 1]
    /\ LET e == cache[k]
       IN Change(k, IF ~e.cached \/ k \in holds[c] THEN e
                      ELSE IF e.known \subseteq {c} THEN Unobserved(e)
                      ELSE [e EXCEPT !.known = e.known \ {c}])
    /\ UNCHANGED <<attached, holds, mutationVars, server, calls, historyVars>>

Prefetch(k) ==
    /\ Counted
    /\ AttachFirst
    /\ \E aged \in BOOLEAN :
           LET e == [Opened(cache[k]) EXCEPT !.retention = TRUE]
           IN Change(k, IF Stale(e, aged) THEN Started(e) ELSE e)
    /\ UNCHANGED <<holds, leaving, server, historyVars>>

\* The retention timer: an entry in use stays, and the timer is not set again.
Retire(k) ==
    /\ cache[k].retention
    /\ LET e == cache[k]
       IN Change(k, IF Observed(e) \/ e.task.kind # "none"
                      THEN [e EXCEPT !.retention = FALSE] ELSE NoEntry)
    /\ UNCHANGED <<attached, holds, leaving, mutationVars, server, calls, historyVars>>

\* fetch_next_page keeps the pages loaded so far.
FetchNextPage(k) ==
    /\ Counted
    /\ k \in Paged /\ cache[k].cached /\ cache[k].task.kind = "none" /\ cache[k].has
    /\ Change(k, [cache[k] EXCEPT !.loading_more = TRUE,
                     !.task = [kind |-> "more", answered |-> FALSE, edits |-> cache[k].edits]])
    /\ UNCHANGED <<attached, holds, leaving, mutationVars, server, historyVars>>

\* The observed queries that window_focused, an interval or set_online
\* fetches again; which are stale is open.
Revalidate ==
    \E again \in SUBSET {k \in Keys : Observed(cache[k])} :
        cache' = [k \in Keys |-> IF k \in again THEN Started(cache[k]) ELSE cache[k]]

WindowFocused ==
    /\ Counted
    /\ Revalidate
    /\ UNCHANGED <<attached, holds, leaving, mutationVars, server, historyVars>>

\* invalidate, by the application, of the queries under some prefix.
Invalidate ==
    /\ Counted
    /\ \E under \in SUBSET Keys :
           cache' = [k \in Keys |-> IF k \in under THEN Invalidated(cache[k]) ELSE cache[k]]
    /\ UNCHANGED <<attached, holds, leaving, mutationVars, server, historyVars>>

SetOnline(reachable) ==
    /\ IF reachable THEN UNCHANGED calls ELSE Counted
    /\ online # reachable /\ online' = reachable
    /\ IF reachable THEN Revalidate /\ ReplayOffline(attached)
         ELSE UNCHANGED <<cache, sends, replaying, doubled>>
    /\ UNCHANGED <<attached, holds, leaving, queue, stored, joined, server, historyVars>>

\* mutate; without a background, an online client queues too.
Mutate(m) ==
    /\ m \notin made /\ (\A n \in Mutations : n < m => n \in made)
    /\ made' = made \union {m}
    /\ LET k == Target[m]
           e == cache[k]
           before == IF e.has THEN [taken |-> TRUE, edits |-> e.edits] ELSE NotTaken
       IN /\ Change(k, IF e.has THEN [e EXCEPT !.edits = e.edits \union {m}] ELSE e)
          /\ IF online /\ attached
               THEN Spawn(sends, m, FALSE, before) /\ UNCHANGED <<queue, stored, joined>>
               ELSE Enqueue(m) /\ UNCHANGED sends
    /\ replaying' = (replaying /\ (attached \/ ~online))
    /\ UNCHANGED <<attached, holds, leaving, online, doubled, server, calls, answered>>

-----------------------------------------------------------------------------
(* Answers. *)

\* The server answers a fetch; it has the answer, the client does not yet.
FetchAnswered(k) ==
    /\ cache[k].task.kind = "fetch" /\ ~cache[k].task.answered
    /\ Change(k, [cache[k] EXCEPT !.task.answered = TRUE,
                     !.task.edits = {m \in server : Target[m] = k}])
    /\ UNCHANGED <<attached, holds, leaving, mutationVars, server, calls, historyVars>>

SettleFetch(k) ==
    /\ cache[k].task.kind # "none"
    /\ \/ /\ cache[k].task.kind = "more" \/ cache[k].task.answered
          /\ Change(k, Fetched(cache[k]))
       \/ Change(k, Failed(cache[k]))
    /\ UNCHANGED <<attached, holds, leaving, mutationVars, server, calls, historyVars>>

\* The server accepts a mutation; its answer may still be lost.
Accepts(s) ==
    /\ sends[s].busy /\ ~sends[s].applied
    /\ sends' = [sends EXCEPT ![s].applied = TRUE]
    /\ server' = server \union {sends[s].m}
    /\ UNCHANGED <<attached, cache, holds, leaving, online, queue, replaying, stored, joined,
                   doubled, calls, historyVars>>

\* The end of send, Outcome::Settled: a replayed mutation leaves the queue,
\* and the next is sent.
Popped(q) == IF q = <<>> THEN q ELSE Tail(q)

Settled(s) ==
    LET running == [sends EXCEPT ![s] = NoSend]
    IN /\ IF sends[s].replay
            THEN /\ queue' = Popped(queue) /\ stored' = Popped(queue)
                 /\ ReplayNext(Popped(queue), running, replaying)
            ELSE sends' = running /\ UNCHANGED <<queue, stored, replaying>>
       /\ answered' = answered \union {sends[s].m}
       /\ UNCHANGED <<attached, holds, leaving, online, joined, doubled, calls, made>>

Accepted(s) ==
    /\ sends[s].busy /\ sends[s].applied
    /\ LET k == Target[sends[s].m] IN Change(k, Invalidated(cache[k]))
    /\ Settled(s) /\ UNCHANGED server

\* Rejected, or a conflict the policy or an earlier try leaves no answer to,
\* or no handler for its kind.
Rejected(s) ==
    /\ sends[s].busy /\ ~sends[s].applied
    /\ LET k == Target[sends[s].m]
       IN Change(k, Invalidated(RolledBack(cache[k], sends[s].before)))
    /\ Settled(s) /\ UNCHANGED server

\* A conflict, with ClientWins or Merge: sent again with force.
Conflict(s) ==
    /\ ~ServerWins
    /\ sends[s].busy /\ ~sends[s].applied /\ ~sends[s].force
    /\ sends' = [sends EXCEPT ![s].force = TRUE]
    /\ UNCHANGED <<attached, cache, holds, leaving, online, queue, replaying, stored, joined,
                   doubled, server, calls, historyVars>>

\* Outcome::Queue.
Unreachable(s) ==
    /\ sends[s].busy
    /\ sends' = [sends EXCEPT ![s] = NoSend]
    /\ IF sends[s].replay THEN UNCHANGED <<queue, stored, joined>> ELSE Enqueue(sends[s].m)
    /\ replaying' = FALSE /\ online' = FALSE
    /\ UNCHANGED <<attached, cache, holds, leaving, doubled, server, calls, historyVars>>

\* The process dies and starts again with_offline_queue.
Restart ==
    /\ Counted
    /\ attached' = FALSE /\ cache' = [k \in Keys |-> NoEntry]
    /\ holds' = [c \in Components |-> {}]
    /\ leaving' = [k \in Keys |-> [c \in Components |-> 0]]
    /\ online' = TRUE /\ queue' = stored /\ replaying' = FALSE
    /\ sends' = [s \in Sends |-> NoSend]
    /\ UNCHANGED <<stored, server, made, joined, answered, doubled>>

Next ==
    \/ Bind \/ WindowFocused \/ Invalidate \/ Restart
    \/ \E c \in Components, k \in Keys :
           UseQuery(c, k) \/ DropObserver(c, k) \/ SettleObserver(c, k)
    \/ \E k \in Keys :
           Prefetch(k) \/ Retire(k) \/ FetchNextPage(k) \/ FetchAnswered(k) \/ SettleFetch(k)
    \/ \E reachable \in BOOLEAN : SetOnline(reachable)
    \/ \E m \in Mutations : Mutate(m)
    \/ \E s \in Sends : Accepts(s) \/ Accepted(s) \/ Rejected(s) \/ Conflict(s) \/ Unreachable(s)

Spec == Init /\ [][Next]_vars

-----------------------------------------------------------------------------
(* Properties. *)

TypeOK ==
    /\ attached \in BOOLEAN
    /\ cache \in [Keys -> Entry]
    /\ holds \in [Components -> SUBSET Keys]
    /\ leaving \in [Keys -> [Components -> Nat]]
    /\ online \in BOOLEAN /\ replaying \in BOOLEAN
    /\ queue \in Seq(Mutations) /\ stored \in Seq(Mutations)
    /\ sends \in [Sends -> Sending \union {NoSend}]
    /\ server \subseteq Mutations /\ calls \in 0..MaxCalls
    /\ made \subseteq Mutations /\ joined \subseteq Mutations /\ answered \subseteq Mutations
    /\ doubled \in BOOLEAN

InQueue(m, q) == \E i \in 1..Len(q) : q[i] = m

\* "An entry leaves the queue only once it is sent": a mutation that has
\* joined the offline queue stays there, in memory and in the state store,
\* until the server's answer has come, whichever requests fail and however
\* often the process dies.  A second replay next to the first (doubled)
\* breaks it: each removes the first entry, whatever it has sent.
QueueKept ==
    ~doubled => \A m \in joined \ answered : InQueue(m, queue) /\ InQueue(m, stored)

\* Mutations the client has the answer to, and does not send again.
Pending(m) == InQueue(m, queue) \/ \E s \in Sends : sends[s].busy /\ sends[s].m = m
Decided == {m \in answered : ~Pending(m)}

\* A result that counts as fresh shows what the server has: every accepted
\* mutation and no rejected one, though fetches, pages, optimistic edits,
\* roll-backs and invalidations overlap.  The exceptions: an invalidation
\* that finds a request in flight is deduplicated against it, and forgotten
\* when that request is answered (swallowed).
FreshIsTrue ==
    \A k \in Keys :
        LET e == cache[k]
        IN e.cached /\ e.fetched /\ ~e.invalidated /\ ~e.swallowed /\ ~doubled =>
               \A m \in Decided : Target[m] = k => (m \in e.edits <=> m \in server)

\* An observed query that was invalidated is being fetched, or its last fetch
\* failed: no order of renders, unmounts and cancelled fetches leaves a
\* component with a result known to be stale and nobody asking for another.
InvalidationAnswered ==
    \A k \in OnMount :
        LET e == cache[k]
        IN Observed(e) /\ e.invalidated => e.task.kind # "none" \/ e.error

\* A query is shown as loading, refreshing or loading more exactly while such
\* a request is in flight, for a cached entry, across cancelled fetches,
\* collected entries and roll-backs.
SpinnerHonest ==
    \A k \in Keys :
        LET e == cache[k]
        IN /\ e.fetching <=> e.task.kind = "fetch"
           /\ e.loading_more <=> e.task.kind = "more"
           /\ e.task.kind # "none" => e.cached
=============================================================================
