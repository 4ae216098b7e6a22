-------------------------- MODULE QueryClientProofs --------------------------
(***************************************************************************)
(* Theorems about QueryClient, for any queries, components, mutations and  *)
(* bounds: what counts as fresh is true, invalidations are answered, what  *)
(* is shown as loading is loading, and the offline queue keeps its own.    *)
(*                                                                         *)
(* The argument for freshness is in Claims: the data an entry counts as    *)
(* fresh, and the answer a request in flight will make it count as fresh.  *)
(* No operation adds a claim but the server's answer, which is true when   *)
(* it is given; and what makes it false later, a mutation that is decided, *)
(* invalidates its query, which takes every claim away.                    *)
(***************************************************************************)
EXTENDS QueryClient, SequenceTheorems, TLAPS

-----------------------------------------------------------------------------
(* Entries: what each operator makes of one. *)

\* What a query shows as being loaded is; an observed entry is cached, and
\* if it is invalidated somebody has asked or failed to.
Shape(k, e) ==
    /\ e.fetching <=> e.task.kind = "fetch"
    /\ e.loading_more <=> e.task.kind = "more"
    /\ e.task.kind # "none" \/ Observed(e) => e.cached
    /\ k \in OnMount /\ Observed(e) /\ e.invalidated => e.task.kind # "none" \/ e.error

\* The sets of edits an entry claims to be what the server has: its data if
\* it counts as fresh, and what the request in flight will make count so.
Fresh(e) == e.cached /\ e.fetched /\ ~e.invalidated /\ ~e.swallowed
Claims(e) ==
    {es \in SUBSET Mutations :
        \/ Fresh(e) /\ es = e.edits
        \/ e.task.kind = "fetch" /\ e.task.answered /\ ~e.late /\ es = e.task.edits
        \/ e.task.kind = "more" /\ Fresh(e) /\ ~e.late /\ es = e.task.edits}

Tasks == [kind : {"none", "fetch", "more"}, answered : BOOLEAN, edits : SUBSET Mutations]
Befores == [taken : BOOLEAN, edits : SUBSET Mutations]

LEMMA NoEntryOK ==
    ASSUME NEW k
    PROVE  NoEntry \in Entry /\ Shape(k, NoEntry) /\ Claims(NoEntry) = {}
<1>1. NoEntry \in Entry
  BY DEF NoEntry, NoTask, Entry
<1> QED  BY <1>1 DEF NoEntry, NoTask, Shape, Observed, Claims, Fresh

LEMMA StartedOK ==
    ASSUME NEW k, NEW e \in Entry
    PROVE  /\ Started(e) \in Entry
           /\ Shape(k, e) => Shape(k, Started(e))
           /\ e.cached => Started(e).task.kind # "none"
           /\ Started(e).known = e.known /\ Started(e).cached = e.cached
           /\ Claims(Started(e)) \subseteq Claims(e)
<1>1. CASE e.cached /\ e.task.kind = "none"
  <2>1. PICK f \in Entry : f = Started(e)
    BY <1>1 DEF Started, Entry, NoTask
  <2>2. /\ f.task = [NoTask EXCEPT !.kind = "fetch"] /\ f.fetching = TRUE
        /\ f.cached = e.cached /\ f.fetched = e.fetched /\ f.invalidated = e.invalidated
        /\ f.known = e.known /\ f.edits = e.edits /\ f.error = e.error
        /\ f.loading_more = e.loading_more /\ f.late = e.late /\ f.swallowed = e.swallowed
    BY <1>1, <2>1 DEF Started, Entry
  <2>3. f.task.kind = "fetch" /\ ~f.task.answered
    BY <2>2 DEF NoTask
  <2>4. Claims(f) \subseteq Claims(e)
    BY <2>2, <2>3 DEF Claims, Fresh
  <2> QED  BY <1>1, <2>1, <2>2, <2>3, <2>4 DEF Shape, Observed
<1>2. CASE ~(e.cached /\ e.task.kind = "none")
  BY <1>2 DEF Started
<1> QED  BY <1>1, <1>2

LEMMA InvalidatedOK ==
    ASSUME NEW k, NEW e \in Entry, Shape(k, e)
    PROVE  /\ Invalidated(e) \in Entry /\ Shape(k, Invalidated(e))
           /\ Claims(Invalidated(e)) = {}
<1> DEFINE late == e.late \/ e.task.answered \/ e.task.kind = "more"
           marked == [e EXCEPT !.invalidated = TRUE, !.late = late]
<1>1. CASE ~e.cached
  <2>1. e.task.kind = "none" /\ Invalidated(e) = e
    BY <1>1 DEF Shape, Invalidated
  <2> QED  BY <1>1, <2>1 DEF Claims, Fresh
<1>2. CASE e.cached
  <2>1. late \in BOOLEAN
    BY Zenon
  <2>2. /\ marked \in Entry /\ marked.invalidated = TRUE /\ marked.late = late
        /\ marked.task = e.task /\ marked.known = e.known /\ marked.cached = e.cached
        /\ marked.fetching = e.fetching /\ marked.loading_more = e.loading_more
        /\ marked.error = e.error
    <3> HIDE DEF late
    <3> QED  BY <2>1 DEF Entry
  <2>3. Invalidated(e) = IF Observed(e) THEN Started(marked) ELSE marked
    BY <1>2 DEF Invalidated
  <2> HIDE DEF marked
  <2>4. Claims(marked) = {}
    BY <2>2 DEF Claims, Fresh
  <2>5. CASE ~Observed(e)
    BY <2>2, <2>3, <2>4, <2>5, <1>2 DEF Shape, Observed
  <2>6. CASE Observed(e)
    <3>1. PICK f \in Entry : f = Started(marked)
      BY <2>2, StartedOK
    <3>2. f.task.kind # "none" /\ f.known = e.known /\ f.cached
      BY <1>2, <2>2, <3>1, StartedOK
    <3>3. (f.fetching <=> f.task.kind = "fetch") /\ (f.loading_more <=> f.task.kind = "more")
      BY <2>2, <3>1 DEF Started, Entry, NoTask, Shape
    <3>4. Claims(f) = {}
      BY <2>2, <2>4, <3>1, StartedOK
    <3> QED  BY <2>3, <2>6, <3>1, <3>2, <3>3, <3>4 DEF Shape
  <2> QED  BY <2>5, <2>6
<1> QED  BY <1>1, <1>2

LEMMA OpenedOK ==
    ASSUME NEW k, NEW e \in Entry, Shape(k, e)
    PROVE  /\ Opened(e) \in Entry /\ Opened(e).cached /\ Shape(k, Opened(e))
           /\ Opened(e).known = e.known /\ Claims(Opened(e)) \subseteq Claims(e)
<1>1. CASE e.cached
  BY <1>1 DEF Opened
<1>2. CASE ~e.cached
  <2>1. PICK f \in Entry : f = Opened(e)
    BY <1>2 DEF Opened, Entry
  <2>2. /\ f.cached = TRUE /\ f.fetched = FALSE /\ f.invalidated = FALSE /\ f.task = e.task
        /\ f.fetching = e.fetching /\ f.loading_more = e.loading_more /\ f.known = e.known
    BY <1>2, <2>1 DEF Opened, Entry
  <2>3. e.task.kind = "none" /\ e.known = {}
    BY <1>2 DEF Shape, Observed
  <2> QED  BY <2>1, <2>2, <2>3 DEF Shape, Observed, Claims, Fresh
<1> QED  BY <1>1, <1>2

LEMMA EndedOK ==
    ASSUME NEW k, NEW e \in Entry, Shape(k, e)
    PROVE  /\ Ended(e) \in Entry
           /\ Ended(e).task.kind = "none" /\ ~Ended(e).fetching /\ ~Ended(e).loading_more
           /\ Ended(e).cached = e.cached /\ Ended(e).known = e.known
           /\ Ended(e).fetched = e.fetched /\ Ended(e).invalidated = e.invalidated
           /\ Ended(e).swallowed = e.swallowed /\ Ended(e).edits = e.edits
           /\ Claims(Ended(e)) \subseteq Claims(e)
<1>1. PICK f \in Entry : f = Ended(e)
  BY DEF Ended, Entry, NoTask
<1>2. /\ f.task = NoTask /\ f.fetching = FALSE /\ f.loading_more = FALSE
      /\ f.cached = e.cached /\ f.known = e.known /\ f.fetched = e.fetched
      /\ f.invalidated = e.invalidated /\ f.swallowed = e.swallowed /\ f.edits = e.edits
  BY <1>1 DEF Ended, Entry
<1>3. f.task.kind = "none"
  BY <1>2 DEF NoTask
<1>4. Claims(f) \subseteq Claims(e)
  BY <1>2, <1>3 DEF Claims, Fresh
<1> QED  BY <1>1, <1>2, <1>3, <1>4

LEMMA FetchedOK ==
    ASSUME NEW k, NEW e \in Entry, Shape(k, e), e.task.kind # "none",
           e.task.kind = "more" \/ e.task.answered
    PROVE  /\ Fetched(e) \in Entry /\ Shape(k, Fetched(e))
           /\ Claims(Fetched(e)) \subseteq Claims(e)
<1>1. Swallows(e) \in BOOLEAN
  BY Zenon DEF Swallows
<1>2. e.task.edits \in SUBSET Mutations
  BY DEF Entry
<1>3. PICK h \in Entry : h = Ended(e)
  BY EndedOK
<1>4. PICK b \in BOOLEAN : b = Swallows(e)
  BY <1>1
<1>5. PICK es \in SUBSET Mutations : es = e.task.edits
  BY <1>2
<1>6. PICK f : f = Fetched(e)
  OBVIOUS
<1>7. f = [h EXCEPT !.has = TRUE, !.edits = es, !.error = FALSE, !.fetched = TRUE,
                    !.invalidated = FALSE, !.swallowed = b]
  BY <1>3, <1>4, <1>5, <1>6 DEF Fetched
<1>8. /\ f \in Entry /\ f.edits = es /\ f.fetched = TRUE /\ f.invalidated = FALSE
       /\ f.swallowed = b /\ f.task = h.task /\ f.fetching = h.fetching
       /\ f.loading_more = h.loading_more /\ f.cached = h.cached /\ f.known = h.known
  BY <1>7 DEF Entry
<1>9. f.task.kind = "none" /\ ~f.fetching /\ ~f.loading_more /\ f.cached = e.cached
  BY <1>3, <1>8, EndedOK
<1>10. e.cached
  BY DEF Shape
<1>11. Shape(k, f)
  BY <1>8, <1>9, <1>10 DEF Shape
<1>12. Claims(f) \subseteq Claims(e)
  <2> SUFFICES ASSUME NEW cs \in Claims(f)  PROVE cs \in Claims(e)
    OBVIOUS
  <2>1. cs = e.task.edits /\ cs \in SUBSET Mutations /\ ~Swallows(e)
    BY <1>4, <1>5, <1>8, <1>9 DEF Claims, Fresh
  <2>2. CASE e.task.kind = "more"
    BY <1>10, <2>1, <2>2 DEF Claims, Fresh, Swallows
  <2>3. CASE e.task.kind # "more"
    <3>1. e.task.kind = "fetch"
      BY <2>3 DEF Entry
    <3> QED  BY <2>1, <2>3, <3>1 DEF Claims, Swallows
  <2> QED  BY <2>2, <2>3
<1> QED  BY <1>6, <1>8, <1>11, <1>12

LEMMA FailedOK ==
    ASSUME NEW k, NEW e \in Entry, Shape(k, e)
    PROVE  Failed(e) \in Entry /\ Shape(k, Failed(e)) /\ Claims(Failed(e)) \subseteq Claims(e)
<1>1. PICK h \in Entry : h = Ended(e)
  BY EndedOK
<1>2. PICK f \in Entry : f = Failed(e)
  BY <1>1 DEF Failed, Entry
<1>3. /\ f.error = TRUE /\ f.task = h.task /\ f.fetching = h.fetching
      /\ f.loading_more = h.loading_more /\ f.cached = h.cached /\ f.known = h.known
      /\ f.fetched = h.fetched /\ f.invalidated = h.invalidated /\ f.swallowed = h.swallowed
      /\ f.edits = h.edits
  BY <1>1, <1>2 DEF Failed, Entry
<1>4. /\ f.task.kind = "none" /\ ~f.fetching /\ ~f.loading_more
      /\ f.cached = e.cached /\ f.known = e.known
  BY <1>1, <1>3, EndedOK
<1>5. Shape(k, f)
  BY <1>3, <1>4 DEF Shape, Observed
<1>6. Claims(f) \subseteq Claims(h)
  BY <1>3, <1>4 DEF Claims, Fresh
<1> QED  BY <1>1, <1>2, <1>5, <1>6, EndedOK

LEMMA UnobservedOK ==
    ASSUME NEW k, NEW e \in Entry, Shape(k, e)
    PROVE  /\ Unobserved(e) \in Entry /\ Shape(k, Unobserved(e))
           /\ Claims(Unobserved(e)) \subseteq Claims(e)
<1>1. PICK h \in Entry : h = Ended(e)
  BY EndedOK
<1>2. PICK f \in Entry : f = Unobserved(e)
  BY <1>1 DEF Unobserved, Entry
<1>3. /\ f.known = {} /\ f.task = h.task /\ f.fetching = h.fetching
      /\ f.loading_more = h.loading_more /\ f.cached = h.cached
      /\ f.fetched = h.fetched /\ f.invalidated = h.invalidated /\ f.swallowed = h.swallowed
      /\ f.edits = h.edits
  BY <1>1, <1>2 DEF Unobserved, Entry
<1>4. f.task.kind = "none" /\ ~f.fetching /\ ~f.loading_more
  BY <1>1, <1>3, EndedOK
<1>5. Shape(k, f)
  BY <1>3, <1>4 DEF Shape, Observed
<1>6. Claims(f) \subseteq Claims(h)
  BY <1>3, <1>4 DEF Claims, Fresh
<1> QED  BY <1>1, <1>2, <1>5, <1>6, EndedOK

LEMMA RolledBackOK ==
    ASSUME NEW k, NEW e \in Entry, Shape(k, e), NEW before \in Befores
    PROVE  RolledBack(e, before) \in Entry /\ Shape(k, RolledBack(e, before))
<1>1. before.edits \in SUBSET Mutations
  BY DEF Befores
<1>2. ASSUME NEW f, f = [e EXCEPT !.has = TRUE, !.edits = before.edits]
      PROVE  f \in Entry /\ Shape(k, f)
  BY <1>1, <1>2 DEF Entry, Shape, Observed
<1> QED  BY <1>2 DEF RolledBack

-----------------------------------------------------------------------------
(* The inductive invariant. *)

\* What is on its way.
Running == [Sends -> Sending \union {NoSend}]
Replay(run, s) == run[s].busy /\ run[s].replay

\* The offline queue is as stored.  Until two replays meet, what is replayed
\* is the first entry, once, and whoever has joined and has no answer waits.
OneReplay(q, run) ==
    /\ \A s \in Sends : Replay(run, s) => q # <<>> /\ run[s].m = Head(q)
    /\ \A s, r \in Sends : Replay(run, s) /\ Replay(run, r) => s = r
QueueOK ==
    /\ online \in BOOLEAN /\ replaying \in BOOLEAN /\ doubled \in BOOLEAN
    /\ queue \in Seq(Mutations) /\ sends \in Running
    /\ server \subseteq Mutations /\ joined \subseteq Mutations /\ answered \subseteq Mutations
    /\ stored = queue
    /\ ~doubled => OneReplay(queue, sends) /\ \A m \in joined \ answered : InQueue(m, queue)

\* Edits that agree with the server on every decided mutation of the query.
Truth(k, es) == \A m \in Decided : Target[m] = k => (m \in es <=> m \in server)
CacheOK == cache \in [Keys -> Entry] /\ \A k \in Keys : Shape(k, cache[k])
FreshOK == ~doubled => \A k \in Keys : \A es \in Claims(cache[k]) : Truth(k, es)

RestOK ==
    /\ attached \in BOOLEAN /\ calls \in 0..MaxCalls /\ made \subseteq Mutations
    /\ holds \in [Components -> SUBSET Keys] /\ leaving \in [Keys -> [Components -> Nat]]

IInv == RestOK /\ CacheOK /\ FreshOK /\ QueueOK

LEMMA AppendIn ==
    ASSUME NEW q \in Seq(Mutations), NEW n \in Mutations, NEW m
    PROVE  /\ InQueue(m, q) => InQueue(m, Append(q, n))
           /\ InQueue(n, Append(q, n))
           /\ Append(q, n) \in Seq(Mutations) /\ Append(q, n) # <<>>
           /\ q # <<>> => Head(Append(q, n)) = Head(q)
<1>1. /\ Append(q, n) \in Seq(Mutations) /\ Len(Append(q, n)) = Len(q) + 1
      /\ Append(q, n)[Len(q) + 1] = n
      /\ \A i \in 1..Len(q) : Append(q, n)[i] = q[i]
  BY AppendProperties
<1>2. Len(q) \in Nat
  BY LenProperties
<1>3. InQueue(m, q) => InQueue(m, Append(q, n))
  BY <1>1, <1>2 DEF InQueue
<1>4. InQueue(n, Append(q, n)) /\ Append(q, n) # <<>>
  BY <1>1, <1>2 DEF InQueue
<1>5. q # <<>> => Head(Append(q, n)) = Head(q)
  BY <1>1, <1>2
<1> QED  BY <1>1, <1>3, <1>4, <1>5

LEMMA PoppedIn ==
    ASSUME NEW q \in Seq(Mutations), NEW m, InQueue(m, q)
    PROVE  InQueue(m, Popped(q)) \/ m = Head(q)
<1>1. PICK i \in 1..Len(q) : q[i] = m
  BY DEF InQueue
<1>2. CASE i = 1
  BY <1>1, <1>2
<1>3. CASE i # 1
  <2>1. q # <<>> /\ i - 1 \in 1..Len(Tail(q)) /\ Tail(q)[i - 1] = m
    BY <1>1, <1>3
  <2> QED  BY <2>1 DEF InQueue, Popped
<1> QED  BY <1>2, <1>3

LEMMA PoppedType ==
    ASSUME NEW q \in Seq(Mutations)
    PROVE  Popped(q) \in Seq(Mutations) /\ (q # <<>> => Head(q) \in Mutations)
BY DEF Popped

LEMMA RunningOK ==
    ASSUME NEW run \in Running, NEW s \in Sends
    PROVE  /\ run[s].busy => run[s] \in Sending /\ run[s].m \in Mutations
                             /\ run[s].before \in Befores
           /\ [run EXCEPT ![s] = NoSend] \in Running
<1>1. run[s] \in Sending \union {NoSend}
  BY DEF Running
<1>2. run[s].busy => run[s] \in Sending
  BY <1>1 DEF NoSend
<1>3. run[s] \in Sending => run[s].m \in Mutations /\ run[s].before \in Befores
  BY DEF Sending, Befores
<1> QED  BY <1>2, <1>3 DEF Running

\* send takes a place that is free, and disturbs no other.
LEMMA SpawnOK ==
    ASSUME NEW run \in Running, NEW m \in Mutations, NEW replay \in BOOLEAN,
           NEW before \in Befores, Spawn(run, m, replay, before)
    PROVE  /\ sends' \in Running
           /\ \E s \in Sends :
                  /\ ~run[s].busy /\ sends'[s].busy
                  /\ sends'[s].m = m /\ sends'[s].replay = replay
                  /\ \A r \in Sends \ {s} : sends'[r] = run[r]
<1>1. PICK s \in Sends :
          /\ ~run[s].busy
          /\ sends' = [run EXCEPT ![s] = [busy |-> TRUE, m |-> m, replay |-> replay,
                                          force |-> FALSE, applied |-> FALSE, before |-> before]]
  BY DEF Spawn
<1> DEFINE new == [busy |-> TRUE, m |-> m, replay |-> replay,
                   force |-> FALSE, applied |-> FALSE, before |-> before]
<1>2. new \in Sending
  BY DEF Sending, Befores
<1>3. new.busy /\ new.m = m /\ new.replay = replay
  OBVIOUS
<1> HIDE DEF new
<1>4. sends' = [run EXCEPT ![s] = new]
  BY <1>1 DEF new
<1>5. sends' \in Running
  BY <1>2, <1>4 DEF Running
<1>6. sends'[s] = new /\ \A r \in Sends \ {s} : sends'[r] = run[r]
  BY <1>4 DEF Running
<1> QED  BY <1>1, <1>3, <1>5, <1>6

\* The next replay, when none is left on its way.
LEMMA ReplayNextOK ==
    ASSUME NEW run \in Running, NEW q \in Seq(Mutations), NEW flag \in BOOLEAN,
           ReplayNext(q, run, flag)
    PROVE  /\ sends' \in Running /\ replaying' \in BOOLEAN
           /\ (\A s \in Sends : ~Replay(run, s)) => OneReplay(q, sends')
           /\ \A s \in Sends : run[s].busy => sends'[s] = run[s]
<1>1. CASE q = <<>>
  BY <1>1 DEF ReplayNext, OneReplay
<1>2. CASE q # <<>>
  <2>1. Head(q) \in Mutations /\ NotTaken \in Befores
    BY <1>2 DEF NotTaken, Befores
  <2>2. PICK replay \in BOOLEAN : replay = TRUE
    OBVIOUS
  <2>3. PICK m \in Mutations, before \in Befores : m = Head(q) /\ before = NotTaken
    BY <2>1
  <2>4. Spawn(run, m, replay, before) /\ replaying' = flag
    BY <1>2, <2>2, <2>3 DEF ReplayNext
  <2>5. /\ sends' \in Running
        /\ \E s \in Sends :
               /\ ~run[s].busy /\ sends'[s].busy
               /\ sends'[s].m = m /\ sends'[s].replay = replay
               /\ \A r \in Sends \ {s} : sends'[r] = run[r]
    BY <2>4, SpawnOK
  <2> QED  BY <1>2, <2>2, <2>3, <2>4, <2>5 DEF OneReplay, Replay
<1> QED  BY <1>1, <1>2


-----------------------------------------------------------------------------
(* Steps.  What a step does to the entries, and to the offline queue, so   *)
(* that fresh results stay true.                                           *)

CacheStep == CacheOK' /\ \A k \in Keys : Claims(cache'[k]) \subseteq Claims(cache[k])

DecidedKept == \A m \in Decided' : m \in Decided /\ (m \in server' <=> m \in server)
QueueStep == QueueOK' /\ (~doubled' => ~doubled /\ DecidedKept)

LEMMA Steps ==
    ASSUME IInv, RestOK', CacheStep, QueueStep
    PROVE  IInv'
<1>1. FreshOK'
  <2> SUFFICES ASSUME ~doubled', NEW k \in Keys, NEW es \in Claims(cache'[k]), NEW m \in Decided',
                      Target[m] = k
               PROVE  m \in es <=> m \in server'
    BY DEF FreshOK, Truth
  <2>1. es \in Claims(cache[k])
    BY DEF CacheStep
  <2>2. ~doubled /\ m \in Decided /\ (m \in server' <=> m \in server)
    BY DEF QueueStep, DecidedKept
  <2> QED  BY <2>1, <2>2 DEF IInv, FreshOK, Truth
<1> QED  BY <1>1 DEF IInv, CacheStep, QueueStep

LEMMA CacheSame ==
    ASSUME CacheOK, cache' = cache
    PROVE  CacheStep
BY DEF CacheStep, CacheOK

LEMMA OneEntry ==
    ASSUME CacheOK, NEW k \in Keys, NEW e \in Entry, Shape(k, e),
           Claims(e) \subseteq Claims(cache[k]), Change(k, e)
    PROVE  CacheStep
<1>1. cache' \in [Keys -> Entry]
  BY DEF Change, CacheOK
<1>2. \A j \in Keys : cache'[j] = IF j = k THEN e ELSE cache[j]
  BY DEF Change, CacheOK
<1> QED  BY <1>1, <1>2 DEF CacheStep, CacheOK

LEMMA QueueSame ==
    ASSUME QueueOK, UNCHANGED <<mutationVars, server, answered>>
    PROVE  QueueStep
<1>1. QueueOK'
  BY DEF QueueOK, OneReplay, Replay, mutationVars
<1>2. DecidedKept
  BY DEF DecidedKept, Decided, Pending, mutationVars
<1> QED  BY <1>1, <1>2 DEF QueueStep, mutationVars

\* A step that leaves the queue and adds what is on its way.
LEMMA ReplayOfflineOK ==
    ASSUME QueueOK, UNCHANGED <<queue, stored, joined, server, answered>>,
           online' \in BOOLEAN, NEW bound, ReplayOffline(bound)
    PROVE  QueueStep
<1>1. CASE UNCHANGED <<sends, replaying, doubled>>
  <2>1. QueueOK'
    BY <1>1 DEF QueueOK, OneReplay, Replay
  <2>2. DecidedKept
    BY <1>1 DEF DecidedKept, Decided, Pending
  <2> QED  BY <1>1, <2>1, <2>2 DEF QueueStep
<1>2. CASE ReplayNext(queue, sends, TRUE) /\ doubled' = (doubled \/ Replays(sends))
  <2> DEFINE flag == TRUE
  <2>1. flag \in BOOLEAN /\ ReplayNext(queue, sends, flag)
    BY <1>2
  <2> HIDE DEF flag
  <2>2. /\ sends' \in Running /\ replaying' \in BOOLEAN
        /\ (\A s \in Sends : ~Replay(sends, s)) => OneReplay(queue, sends')
        /\ \A s \in Sends : sends[s].busy => sends'[s] = sends[s]
    BY <2>1, ReplayNextOK DEF QueueOK
  <2>3. doubled' \in BOOLEAN
    BY <1>2, Zenon DEF QueueOK
  <2>4. ~doubled' => ~doubled /\ \A s \in Sends : ~Replay(sends, s)
    BY <1>2 DEF Replays, Replay
  <2>5. QueueOK'
    BY <2>2, <2>3, <2>4 DEF QueueOK
  <2>6. DecidedKept
    BY <2>2 DEF DecidedKept, Decided, Pending
  <2> QED  BY <2>4, <2>5, <2>6 DEF QueueStep
<1> QED  BY <1>1, <1>2 DEF ReplayOffline

LEMMA AttachFirstOK ==
    ASSUME IInv, AttachFirst, UNCHANGED <<server, answered>>
    PROVE  attached' \in BOOLEAN /\ QueueStep
<1>1. /\ attached' = TRUE /\ UNCHANGED <<online, queue, stored, joined>>
      /\ ReplayOffline(TRUE) \/ UNCHANGED <<sends, replaying, doubled>>
  BY DEF AttachFirst
<1>2. CASE ReplayOffline(TRUE)
  BY <1>1, <1>2, ReplayOfflineOK DEF IInv, QueueOK
<1>3. CASE UNCHANGED <<sends, replaying, doubled>>
  BY <1>1, <1>3, QueueSame DEF IInv, mutationVars
<1> QED  BY <1>1, <1>2, <1>3

LEMMA RevalidateOK ==
    ASSUME CacheOK, Revalidate
    PROVE  CacheStep
<1>1. PICK again \in SUBSET Keys :
          cache' = [k \in Keys |-> IF k \in again THEN Started(cache[k]) ELSE cache[k]]
  BY DEF Revalidate
<1>2. \A k \in Keys : /\ cache'[k] \in Entry /\ Shape(k, cache'[k])
                      /\ Claims(cache'[k]) \subseteq Claims(cache[k])
  BY <1>1, StartedOK DEF CacheOK
<1>3. cache' \in [Keys -> Entry]
  BY <1>1, <1>2
<1> QED  BY <1>2, <1>3 DEF CacheStep, CacheOK

-----------------------------------------------------------------------------
(* The actions of components and the application. *)

LEMMA CountedOK ==
    ASSUME RestOK, Counted
    PROVE  calls' \in 0..MaxCalls
BY QueryAssumption DEF RestOK, Counted

LEMMA BindOK ==
    ASSUME IInv, Bind
    PROVE  IInv'
<1>1. attached' \in BOOLEAN /\ QueueStep
  BY AttachFirstOK DEF Bind, historyVars
<1>2. CacheStep
  BY CacheSame DEF Bind, IInv
<1>3. RestOK'
  BY <1>1 DEF Bind, IInv, RestOK, historyVars
<1> QED  BY <1>1, <1>2, <1>3, Steps

LEMMA DropObserverOK ==
    ASSUME IInv, NEW c \in Components, NEW k \in Keys, DropObserver(c, k)
    PROVE  IInv'
<1>1. CacheStep /\ QueueStep
  BY CacheSame, QueueSame DEF DropObserver, IInv, historyVars
<1>2. holds' \in [Components -> SUBSET Keys] /\ leaving' \in [Keys -> [Components -> Nat]]
  BY DEF DropObserver, IInv, RestOK
<1>3. RestOK'
  BY <1>2, CountedOK DEF DropObserver, IInv, RestOK, historyVars
<1> QED  BY <1>1, <1>3, Steps

LEMMA PrefetchOK ==
    ASSUME IInv, NEW k \in Keys, Prefetch(k)
    PROVE  IInv'
<1>1. attached' \in BOOLEAN /\ QueueStep
  BY AttachFirstOK DEF Prefetch, historyVars
<1>2. CacheStep
  <2>1. PICK aged \in BOOLEAN :
            LET e == [Opened(cache[k]) EXCEPT !.retention = TRUE]
            IN Change(k, IF Stale(e, aged) THEN Started(e) ELSE e)
    BY DEF Prefetch
  <2>2. cache[k] \in Entry /\ Shape(k, cache[k])
    BY DEF IInv, CacheOK
  <2>3. PICK o \in Entry : /\ o = Opened(cache[k]) /\ o.cached /\ Shape(k, o)
                           /\ Claims(o) \subseteq Claims(cache[k])
    BY <2>2, OpenedOK
  <2>4. PICK e : e = [o EXCEPT !.retention = TRUE]
    OBVIOUS
  <2>5. e \in Entry /\ Shape(k, e) /\ Claims(e) = Claims(o)
    <3>1. /\ e \in Entry /\ e.cached = o.cached /\ e.task = o.task /\ e.known = o.known
          /\ e.fetching = o.fetching /\ e.loading_more = o.loading_more
          /\ e.invalidated = o.invalidated /\ e.error = o.error /\ e.fetched = o.fetched
          /\ e.swallowed = o.swallowed /\ e.edits = o.edits /\ e.late = o.late
      BY <2>4 DEF Entry
    <3> QED  BY <2>3, <3>1 DEF Shape, Observed, Claims, Fresh
  <2>6. PICK f \in Entry : /\ Change(k, f) /\ Shape(k, f) /\ Claims(f) \subseteq Claims(e)
    <3>1. Change(k, IF Stale(e, aged) THEN Started(e) ELSE e)
      BY <2>1, <2>3, <2>4
    <3> QED  BY <2>5, <3>1, StartedOK
  <2>7. Claims(f) \subseteq Claims(cache[k])
    BY <2>3, <2>5, <2>6
  <2> QED  BY <2>6, <2>7, OneEntry DEF IInv
<1>3. RestOK'
  BY <1>1, CountedOK DEF Prefetch, IInv, RestOK, historyVars
<1> QED  BY <1>1, <1>2, <1>3, Steps

LEMMA UseQueryOK ==
    ASSUME IInv, NEW c \in Components, NEW k \in Keys, UseQuery(c, k)
    PROVE  IInv'
<1>1. attached' \in BOOLEAN /\ QueueStep
  BY AttachFirstOK DEF UseQuery, historyVars
<1>2. CacheStep
  <2>1. PICK aged \in BOOLEAN :
            LET old == Opened(cache[k])
                new == [old EXCEPT !.known = old.known \union {c}, !.retention = FALSE]
            IN Change(k, IF c \notin old.known /\ Mounts(old, k, aged)
                           THEN Started(new) ELSE new)
    BY DEF UseQuery
  <2>2. cache[k] \in Entry /\ Shape(k, cache[k])
    BY DEF IInv, CacheOK
  <2>3. PICK old \in Entry : /\ old = Opened(cache[k]) /\ old.cached /\ Shape(k, old)
                             /\ Claims(old) \subseteq Claims(cache[k])
    BY <2>2, OpenedOK
  <2>4. PICK new : new = [old EXCEPT !.known = old.known \union {c}, !.retention = FALSE]
    OBVIOUS
  <2>5. PICK again \in BOOLEAN :
            again = (c \notin old.known /\ Mounts(old, k, aged))
    BY Zenon
  <2>6. Change(k, IF again THEN Started(new) ELSE new)
    BY <2>1, <2>3, <2>4, <2>5
  <2>7. /\ new \in Entry /\ new.cached = old.cached /\ new.task = old.task
        /\ new.known = old.known \union {c}
        /\ new.fetching = old.fetching /\ new.loading_more = old.loading_more
        /\ new.invalidated = old.invalidated /\ new.error = old.error
        /\ new.fetched = old.fetched /\ new.swallowed = old.swallowed
        /\ new.edits = old.edits /\ new.late = old.late
    BY <2>4 DEF Entry
  <2>8. Claims(new) \subseteq Claims(cache[k])
    <3>1. Claims(new) = Claims(old)
      BY <2>7 DEF Claims, Fresh
    <3> QED  BY <2>3, <3>1
  <2>9. CASE ~again
    <3>1. Shape(k, new)
      <4>1. k \in OnMount /\ old.invalidated => old.known # {}
        BY <2>5, <2>9 DEF Mounts, Stale
      <4> QED  BY <2>3, <2>7, <4>1 DEF Shape, Observed
    <3> QED  BY <2>6, <2>7, <2>8, <2>9, <3>1, OneEntry DEF IInv
  <2>10. CASE again
    <3>1. PICK f \in Entry : /\ f = Started(new) /\ f.task.kind # "none" /\ f.cached
                             /\ Claims(f) \subseteq Claims(new)
      BY <2>3, <2>7, StartedOK
    <3>2. (f.fetching <=> f.task.kind = "fetch") /\ (f.loading_more <=> f.task.kind = "more")
      <4>1. (new.fetching <=> new.task.kind = "fetch") /\ (new.loading_more <=> new.task.kind = "more")
        BY <2>3, <2>7 DEF Shape
      <4> QED  BY <2>7, <3>1, <4>1 DEF Started, Entry, NoTask
    <3>3. Shape(k, f)
      BY <3>1, <3>2 DEF Shape
    <3>4. Claims(f) \subseteq Claims(cache[k])
      BY <2>8, <3>1
    <3> QED  BY <2>6, <2>10, <3>1, <3>3, <3>4, OneEntry DEF IInv
  <2> QED  BY <2>9, <2>10
<1>3. holds' \in [Components -> SUBSET Keys]
  BY DEF UseQuery, IInv, RestOK
<1>4. RestOK'
  BY <1>1, <1>3, CountedOK DEF UseQuery, IInv, RestOK, historyVars
<1> QED  BY <1>1, <1>2, <1>4, Steps

LEMMA SettleObserverOK ==
    ASSUME IInv, NEW c \in Components, NEW k \in Keys, SettleObserver(c, k)
    PROVE  IInv'
<1>1. QueueStep
  BY QueueSame DEF SettleObserver, IInv, historyVars
<1>2. CacheStep
  <2>1. cache[k] \in Entry /\ Shape(k, cache[k])
    BY DEF IInv, CacheOK
  <2>2. CASE Change(k, cache[k])
    BY <2>1, <2>2, OneEntry DEF IInv
  <2>3. CASE Change(k, Unobserved(cache[k]))
    BY <2>1, <2>3, UnobservedOK, OneEntry DEF IInv
  <2>4. CASE /\ ~(cache[k].known \subseteq {c})
             /\ Change(k, [cache[k] EXCEPT !.known = cache[k].known \ {c}])
    <3>1. PICK e : e = cache[k]
      OBVIOUS
    <3>2. PICK f : f = [e EXCEPT !.known = e.known \ {c}]
      OBVIOUS
    <3>3. /\ f \in Entry /\ f.cached = e.cached /\ f.task = e.task /\ f.known = e.known \ {c}
          /\ f.fetching = e.fetching /\ f.loading_more = e.loading_more
          /\ f.invalidated = e.invalidated /\ f.error = e.error /\ f.fetched = e.fetched
          /\ f.swallowed = e.swallowed /\ f.edits = e.edits /\ f.late = e.late
      BY <2>1, <3>1, <3>2 DEF Entry
    <3>4. Shape(k, f)
      BY <2>1, <2>4, <3>1, <3>3 DEF Shape, Observed
    <3>5. Claims(f) = Claims(e)
      BY <3>3 DEF Claims, Fresh
    <3> QED  BY <2>4, <3>1, <3>2, <3>3, <3>4, <3>5, OneEntry DEF IInv
  <2> QED  BY <2>2, <2>3, <2>4 DEF SettleObserver
<1>3. leaving' \in [Keys -> [Components -> Nat]]
  BY DEF SettleObserver, IInv, RestOK
<1>4. RestOK'
  BY <1>3 DEF SettleObserver, IInv, RestOK, historyVars
<1> QED  BY <1>1, <1>2, <1>4, Steps

LEMMA RetireOK ==
    ASSUME IInv, NEW k \in Keys, Retire(k)
    PROVE  IInv'
<1>1. QueueStep
  BY QueueSame DEF Retire, IInv, historyVars
<1>2. CacheStep
  <2>1. cache[k] \in Entry /\ Shape(k, cache[k])
    BY DEF IInv, CacheOK
  <2>2. CASE Change(k, NoEntry)
    BY <2>2, NoEntryOK, OneEntry DEF IInv
  <2>3. CASE Change(k, [cache[k] EXCEPT !.retention = FALSE])
    <3>1. PICK e : e = cache[k]
      OBVIOUS
    <3>2. PICK f : f = [e EXCEPT !.retention = FALSE]
      OBVIOUS
    <3>3. /\ f \in Entry /\ f.cached = e.cached /\ f.task = e.task /\ f.known = e.known
          /\ f.fetching = e.fetching /\ f.loading_more = e.loading_more
          /\ f.invalidated = e.invalidated /\ f.error = e.error /\ f.fetched = e.fetched
          /\ f.swallowed = e.swallowed /\ f.edits = e.edits /\ f.late = e.late
      BY <2>1, <3>1, <3>2 DEF Entry
    <3>4. Shape(k, f)
      BY <2>1, <3>1, <3>3 DEF Shape, Observed
    <3>5. Claims(f) = Claims(e)
      BY <3>3 DEF Claims, Fresh
    <3> QED  BY <2>3, <3>1, <3>2, <3>3, <3>4, <3>5, OneEntry DEF IInv
  <2> QED  BY <2>2, <2>3 DEF Retire
<1>3. RestOK'
  BY DEF Retire, IInv, RestOK, historyVars
<1> QED  BY <1>1, <1>2, <1>3, Steps

LEMMA FetchNextPageOK ==
    ASSUME IInv, NEW k \in Keys, FetchNextPage(k)
    PROVE  IInv'
<1>1. QueueStep
  BY QueueSame DEF FetchNextPage, IInv, historyVars
<1>2. CacheStep
  <2>1. PICK e \in Entry : e = cache[k] /\ Shape(k, e) /\ e.cached /\ e.task.kind = "none"
    BY DEF FetchNextPage, IInv, CacheOK
  <2>2. PICK t \in Tasks : t = [kind |-> "more", answered |-> FALSE, edits |-> e.edits]
    <3>1. e.edits \in SUBSET Mutations
      BY DEF Entry
    <3> QED  BY <3>1 DEF Tasks
  <2>3. PICK f : f = [e EXCEPT !.loading_more = TRUE, !.task = t]
    OBVIOUS
  <2>4. /\ f \in Entry /\ f.cached = e.cached /\ f.task = t /\ f.known = e.known
        /\ f.fetching = e.fetching /\ f.loading_more = TRUE
        /\ f.fetched = e.fetched /\ f.invalidated = e.invalidated
        /\ f.swallowed = e.swallowed /\ f.edits = e.edits /\ f.late = e.late
    BY <2>3 DEF Entry, Tasks
  <2>5. t.kind = "more" /\ t.edits = e.edits
    BY <2>2
  <2>6. Shape(k, f)
    BY <2>1, <2>4, <2>5 DEF Shape, Observed
  <2>7. Claims(f) \subseteq Claims(e)
    BY <2>4, <2>5 DEF Claims, Fresh
  <2>8. Change(k, f)
    BY <2>1, <2>2, <2>3 DEF FetchNextPage
  <2> QED  BY <2>1, <2>4, <2>6, <2>7, <2>8, OneEntry DEF IInv
<1>3. RestOK'
  BY CountedOK DEF FetchNextPage, IInv, RestOK, historyVars
<1> QED  BY <1>1, <1>2, <1>3, Steps

LEMMA WindowFocusedOK ==
    ASSUME IInv, WindowFocused
    PROVE  IInv'
<1>1. QueueStep /\ CacheStep
  BY QueueSame, RevalidateOK DEF WindowFocused, IInv, historyVars
<1>2. RestOK'
  BY CountedOK DEF WindowFocused, IInv, RestOK, historyVars
<1> QED  BY <1>1, <1>2, Steps

LEMMA InvalidateOK ==
    ASSUME IInv, Invalidate
    PROVE  IInv'
<1>1. QueueStep
  BY QueueSame DEF Invalidate, IInv, historyVars
<1>2. CacheStep
  <2>1. PICK under \in SUBSET Keys :
            cache' = [k \in Keys |-> IF k \in under THEN Invalidated(cache[k]) ELSE cache[k]]
    BY DEF Invalidate
  <2>2. \A k \in Keys : /\ cache'[k] \in Entry /\ Shape(k, cache'[k])
                        /\ Claims(cache'[k]) \subseteq Claims(cache[k])
    BY <2>1, InvalidatedOK DEF IInv, CacheOK
  <2>3. cache' \in [Keys -> Entry]
    BY <2>1, <2>2
  <2> QED  BY <2>2, <2>3 DEF CacheStep, CacheOK
<1>3. RestOK'
  BY CountedOK DEF Invalidate, IInv, RestOK, historyVars
<1> QED  BY <1>1, <1>2, <1>3, Steps

LEMMA SetOnlineOK ==
    ASSUME IInv, NEW reachable \in BOOLEAN, SetOnline(reachable)
    PROVE  IInv'
<1>1. CASE reachable
  <2>1. QueueStep
    BY <1>1, ReplayOfflineOK DEF SetOnline, IInv, historyVars
  <2>2. CacheStep
    BY <1>1, RevalidateOK DEF SetOnline, IInv
  <2>3. RestOK'
    BY <1>1 DEF SetOnline, IInv, RestOK, historyVars
  <2> QED  BY <2>1, <2>2, <2>3, Steps
<1>2. CASE ~reachable
  <2>1. QueueOK'
    <3>1. online' \in BOOLEAN
      BY DEF SetOnline
    <3> QED  BY <1>2, <3>1 DEF SetOnline, IInv, QueueOK, OneReplay, Replay, historyVars
  <2>2. DecidedKept /\ UNCHANGED doubled
    BY <1>2 DEF SetOnline, DecidedKept, Decided, Pending, historyVars
  <2>3. CacheStep
    BY <1>2, CacheSame DEF SetOnline, IInv
  <2>4. RestOK'
    BY <1>2, CountedOK DEF SetOnline, IInv, RestOK, historyVars
  <2> QED  BY <2>1, <2>2, <2>3, <2>4, Steps DEF QueueStep
<1> QED  BY <1>1, <1>2

-----------------------------------------------------------------------------
(* Mutations and answers. *)

\* Enqueued while no replay begins.
LEMMA EnqueueOK ==
    ASSUME QueueOK, NEW m \in Mutations, Enqueue(m),
           UNCHANGED <<server, answered, doubled>>, online' \in BOOLEAN, replaying' \in BOOLEAN,
           sends' \in Running,
           \A s \in Sends : Replay(sends', s) => Replay(sends, s) /\ sends'[s] = sends[s]
    PROVE  QueueOK' /\ InQueue(m, queue')
           /\ \A n \in Mutations : InQueue(n, queue) => InQueue(n, queue')
<1>1. /\ queue' = Append(queue, m) /\ queue' \in Seq(Mutations) /\ queue' # <<>>
      /\ (queue # <<>> => Head(queue') = Head(queue)) /\ InQueue(m, queue')
      /\ \A n \in Mutations : InQueue(n, queue) => InQueue(n, queue')
  BY AppendIn DEF QueueOK, Enqueue
<1>2. joined' \subseteq Mutations /\ stored' = queue'
  BY DEF Enqueue, QueueOK
<1>3. ~doubled' => OneReplay(queue', sends')
  BY <1>1 DEF QueueOK, OneReplay
<1>4. ~doubled' => \A n \in joined' \ answered' : InQueue(n, queue')
  BY <1>1 DEF Enqueue, QueueOK
<1> QED  BY <1>1, <1>2, <1>3, <1>4 DEF QueueOK

LEMMA MutateQueue ==
    ASSUME IInv, NEW m \in Mutations, Mutate(m)
    PROVE  QueueStep /\ Pending(m)'
<1>1. replaying' \in BOOLEAN
  BY Zenon DEF Mutate, IInv, QueueOK
<1>2. UNCHANGED <<online, doubled, server, answered>>
  BY DEF Mutate
<1>3. CASE Enqueue(m) /\ UNCHANGED sends
  <2>1. QueueOK' /\ InQueue(m, queue')
        /\ \A n \in Mutations : InQueue(n, queue) => InQueue(n, queue')
    BY <1>1, <1>2, <1>3, EnqueueOK DEF IInv, QueueOK
  <2>2. DecidedKept /\ Pending(m)'
    BY <1>2, <1>3, <2>1 DEF DecidedKept, Decided, Pending, IInv, QueueOK
  <2> QED  BY <1>2, <2>1, <2>2 DEF QueueStep
<1>4. ASSUME NEW before \in Befores, Spawn(sends, m, FALSE, before),
             UNCHANGED <<queue, stored, joined>>
      PROVE  QueueStep /\ Pending(m)'
  <2>1. PICK replay \in BOOLEAN : replay = FALSE
    OBVIOUS
  <2>2. Spawn(sends, m, replay, before)
    BY <1>4, <2>1
  <2>3. /\ sends' \in Running
        /\ \E s \in Sends :
               /\ ~sends[s].busy /\ sends'[s].busy
               /\ sends'[s].m = m /\ sends'[s].replay = replay
               /\ \A r \in Sends \ {s} : sends'[r] = sends[r]
    BY <2>2, SpawnOK DEF IInv, QueueOK
  <2>4. PICK s \in Sends :
            /\ ~sends[s].busy /\ sends'[s].busy /\ sends'[s].m = m /\ ~sends'[s].replay
            /\ \A r \in Sends \ {s} : sends'[r] = sends[r]
    BY <2>1, <2>3
  <2>5. \A r \in Sends : Replay(sends', r) => Replay(sends, r) /\ sends'[r] = sends[r]
    BY <2>4 DEF Replay
  <2>6. OneReplay(queue, sends) => OneReplay(queue', sends')
    BY <1>4, <2>5 DEF OneReplay
  <2>7. QueueOK'
    BY <1>1, <1>2, <1>4, <2>3, <2>6 DEF IInv, QueueOK
  <2>8. Pending(m)'
    BY <2>4 DEF Pending
  <2>9. \A n : Pending(n) => Pending(n)'
    BY <1>4, <2>4 DEF Pending
  <2>10. DecidedKept
    BY <1>2, <2>9 DEF DecidedKept, Decided
  <2> QED  BY <1>2, <2>7, <2>8, <2>10 DEF QueueStep
<1>5. cache[Target[m]].has => cache[Target[m]].edits \in SUBSET Mutations
  BY QueryAssumption DEF IInv, CacheOK, Entry
<1>6. (IF cache[Target[m]].has THEN [taken |-> TRUE, edits |-> cache[Target[m]].edits]
         ELSE NotTaken) \in Befores
  BY <1>5 DEF Befores, NotTaken
<1> QED  BY <1>3, <1>4, <1>6 DEF Mutate

LEMMA MutateOK ==
    ASSUME IInv, NEW m \in Mutations, Mutate(m)
    PROVE  IInv'
<1> DEFINE k == Target[m]
<1>1. QueueStep /\ Pending(m)'
  BY MutateQueue
<1>2. PICK e \in Entry : e = cache[k] /\ Shape(k, e) /\ k \in Keys
  BY QueryAssumption DEF IInv, CacheOK
<1>3. PICK f : f = IF e.has THEN [e EXCEPT !.edits = e.edits \union {m}] ELSE e
  OBVIOUS
<1>4. /\ f \in Entry /\ f.cached = e.cached /\ f.task = e.task /\ f.known = e.known
      /\ f.fetching = e.fetching /\ f.loading_more = e.loading_more
      /\ f.invalidated = e.invalidated /\ f.error = e.error /\ f.fetched = e.fetched
      /\ f.swallowed = e.swallowed /\ f.late = e.late
      /\ f.edits = e.edits \/ f.edits = e.edits \union {m}
  <2>1. e.edits \union {m} \in SUBSET Mutations
    BY DEF Entry
  <2>2. PICK es \in SUBSET Mutations : es = e.edits \union {m}
    BY <2>1
  <2>3. f = IF e.has THEN [e EXCEPT !.edits = es] ELSE e
    BY <1>3, <2>2
  <2> QED  BY <2>2, <2>3 DEF Entry
<1>5. Shape(k, f)
  BY <1>2, <1>4 DEF Shape, Observed
<1>6. cache' = [cache EXCEPT ![k] = f]
  BY <1>2, <1>3 DEF Mutate, Change
<1>7. CacheOK'
  BY <1>2, <1>4, <1>5, <1>6 DEF IInv, CacheOK
<1>8. FreshOK'
  <2> SUFFICES ASSUME ~doubled', NEW j \in Keys, NEW es \in Claims(cache'[j]), NEW n \in Decided',
                      Target[n] = j
               PROVE  n \in es <=> n \in server'
    BY DEF FreshOK, Truth
  <2>1. ~doubled /\ n \in Decided /\ (n \in server' <=> n \in server) /\ n # m
    BY <1>1 DEF QueueStep, DecidedKept, Decided
  <2>2. \A cs \in Claims(cache[j]) : n \in cs <=> n \in server
    BY <2>1 DEF IInv, FreshOK, Truth
  <2>3. CASE j # k
    <3>1. cache'[j] = cache[j]
      BY <1>6, <2>3 DEF IInv, CacheOK
    <3> QED  BY <2>1, <2>2, <3>1
  <2>4. CASE j = k
    <3>1. cache'[j] = f
      BY <1>2, <1>6, <2>4 DEF IInv, CacheOK
    <3>2. es \in Claims(e) \/ (Fresh(e) /\ es = e.edits \union {m})
      BY <1>4, <3>1 DEF Claims, Fresh
    <3>3. Fresh(e) => e.edits \in Claims(e)
      BY DEF Claims, Entry
    <3> QED  BY <1>2, <2>1, <2>2, <2>4, <3>2, <3>3
  <2> QED  BY <2>3, <2>4
<1>9. RestOK'
  BY DEF Mutate, IInv, RestOK
<1> QED  BY <1>1, <1>7, <1>8, <1>9 DEF IInv, QueueStep

\* The answer is what the server has at that moment.
LEMMA FetchAnsweredOK ==
    ASSUME IInv, NEW k \in Keys, FetchAnswered(k)
    PROVE  IInv'
<1> DEFINE answer == {m \in server : Target[m] = k}
<1>1. PICK e \in Entry : e = cache[k] /\ Shape(k, e) /\ e.task.kind = "fetch"
  BY DEF FetchAnswered, IInv, CacheOK
<1>2. PICK t \in Tasks : t = [e.task EXCEPT !.answered = TRUE, !.edits = answer]
  <2>1. answer \in SUBSET Mutations /\ e.task \in Tasks
    BY DEF IInv, QueueOK, Entry, Tasks
  <2> QED  BY <2>1 DEF Tasks
<1>3. t.kind = "fetch" /\ t.edits = answer
  <2>1. e.task \in Tasks
    BY DEF Entry, Tasks
  <2> QED  BY <1>1, <1>2, <2>1 DEF Tasks
<1>4. PICK f : f = [e EXCEPT !.task = t]
  OBVIOUS
<1>5. /\ f \in Entry /\ f.cached = e.cached /\ f.task = t /\ f.known = e.known
      /\ f.fetching = e.fetching /\ f.loading_more = e.loading_more
      /\ f.invalidated = e.invalidated /\ f.error = e.error /\ f.fetched = e.fetched
      /\ f.swallowed = e.swallowed /\ f.edits = e.edits /\ f.late = e.late
  BY <1>4 DEF Entry, Tasks
<1>6. Shape(k, f)
  BY <1>1, <1>3, <1>5 DEF Shape, Observed
<1>7. cache' = [cache EXCEPT ![k] = f]
  <2>1. cache' = [cache EXCEPT ![k] = [@ EXCEPT !.task.answered = TRUE, !.task.edits = answer]]
    BY DEF FetchAnswered, Change
  <2>2. [e EXCEPT !.task.answered = TRUE, !.task.edits = answer] = f
    BY <1>2, <1>4 DEF Entry
  <2> QED  BY <1>1, <2>1, <2>2 DEF IInv, CacheOK
<1>8. CacheOK'
  BY <1>5, <1>6, <1>7 DEF IInv, CacheOK
<1>9. QueueStep
  BY QueueSame DEF FetchAnswered, IInv, historyVars
<1>10. FreshOK'
  <2> SUFFICES ASSUME ~doubled', NEW j \in Keys, NEW es \in Claims(cache'[j]), NEW n \in Decided',
                      Target[n] = j
               PROVE  n \in es <=> n \in server'
    BY DEF FreshOK, Truth
  <2>1. ~doubled /\ n \in Decided /\ (n \in server' <=> n \in server)
    BY <1>9 DEF QueueStep, DecidedKept
  <2>2. es \in Claims(cache[j]) => (n \in es <=> n \in server')
    BY <2>1 DEF IInv, FreshOK, Truth
  <2>3. CASE j = k
    <3>1. cache'[j] = f
      BY <1>7, <2>3 DEF IInv, CacheOK
    <3>2. es \in Claims(e) \/ es = answer
      BY <1>3, <1>5, <3>1 DEF Claims, Fresh
    <3> QED  BY <1>1, <2>1, <2>2, <2>3, <3>2
  <2>4. CASE j # k
    <3>1. cache'[j] = cache[j]
      BY <1>7, <2>4 DEF IInv, CacheOK
    <3> QED  BY <2>2, <3>1
  <2> QED  BY <2>3, <2>4
<1>11. RestOK'
  BY DEF FetchAnswered, IInv, RestOK, historyVars
<1> QED  BY <1>8, <1>9, <1>10, <1>11 DEF IInv, QueueStep

LEMMA SettleFetchOK ==
    ASSUME IInv, NEW k \in Keys, SettleFetch(k)
    PROVE  IInv'
<1>1. QueueStep
  BY QueueSame DEF SettleFetch, IInv, historyVars
<1>2. PICK e \in Entry : e = cache[k] /\ Shape(k, e) /\ e.task.kind # "none"
  BY DEF SettleFetch, IInv, CacheOK
<1>3. CacheStep
  <2>1. CASE (e.task.kind = "more" \/ e.task.answered) /\ Change(k, Fetched(e))
    BY <1>2, <2>1, FetchedOK, OneEntry DEF IInv
  <2>2. CASE Change(k, Failed(e))
    BY <1>2, <2>2, FailedOK, OneEntry DEF IInv
  <2> QED  BY <1>2, <2>1, <2>2 DEF SettleFetch
<1>4. RestOK'
  BY DEF SettleFetch, IInv, RestOK, historyVars
<1> QED  BY <1>1, <1>3, <1>4, Steps

\* A send that goes on, with another field changed.
LEMMA SameSends ==
    ASSUME QueueOK, UNCHANGED <<online, queue, replaying, stored, joined, doubled, answered>>,
           server' \subseteq Mutations, NEW s \in Sends, NEW new \in Sending,
           sends[s].busy, new.m = sends[s].m, new.replay = sends[s].replay,
           sends' = [sends EXCEPT ![s] = new]
    PROVE  QueueOK' /\ Pending(sends[s].m)' /\ \A m : Pending(m)' <=> Pending(m)
<1>1. sends' \in Running
  BY DEF QueueOK, Running
<1>2. new.busy
  BY DEF Sending
<1>3. \A r \in Sends : sends'[r] = IF r = s THEN new ELSE sends[r]
  BY DEF QueueOK, Running
<1>4. OneReplay(queue, sends) => OneReplay(queue, sends')
  BY <1>2, <1>3 DEF OneReplay, Replay
<1>5. QueueOK'
  BY <1>1, <1>4 DEF QueueOK
<1>6. \A m : Pending(m)' <=> Pending(m)
  BY <1>2, <1>3 DEF Pending
<1>7. Pending(sends[s].m)
  BY DEF Pending
<1> QED  BY <1>5, <1>6, <1>7

LEMMA AcceptsOK ==
    ASSUME IInv, NEW s \in Sends, Accepts(s)
    PROVE  IInv'
<1>1. sends[s].busy /\ sends[s] \in Sending /\ sends[s].m \in Mutations
  BY RunningOK DEF Accepts, IInv, QueueOK
<1>2. PICK new : new = [sends[s] EXCEPT !.applied = TRUE]
  OBVIOUS
<1>3. new \in Sending /\ new.m = sends[s].m /\ new.replay = sends[s].replay
  <2>1. PICK x \in Sending : x = sends[s]
    BY <1>1
  <2>2. new = [x EXCEPT !.applied = TRUE]
    BY <1>2, <2>1
  <2> QED  BY <2>1, <2>2 DEF Sending
<1>4. sends' = [sends EXCEPT ![s] = new]
  BY <1>2 DEF Accepts
<1>5. server' \subseteq Mutations
  BY <1>1 DEF Accepts, IInv, QueueOK
<1>6. /\ QueueOK' /\ Pending(sends[s].m)'
      /\ \A m : Pending(m) => Pending(m)'
  <2>1. UNCHANGED <<online, queue, replaying, stored, joined, doubled, answered>>
    BY DEF Accepts, historyVars
  <2> QED  BY <1>1, <1>3, <1>4, <1>5, <2>1, SameSends DEF IInv
<1>7. DecidedKept
  BY <1>6 DEF Accepts, DecidedKept, Decided, historyVars
<1>8. CacheStep
  BY CacheSame DEF Accepts, IInv
<1>9. RestOK'
  BY DEF Accepts, IInv, RestOK, historyVars
<1> QED  BY <1>6, <1>7, <1>8, <1>9, Steps DEF QueueStep, Accepts

LEMMA ConflictOK ==
    ASSUME IInv, NEW s \in Sends, Conflict(s)
    PROVE  IInv'
<1>1. sends[s].busy /\ sends[s] \in Sending
  BY RunningOK DEF Conflict, IInv, QueueOK
<1>2. PICK new : new = [sends[s] EXCEPT !.force = TRUE]
  OBVIOUS
<1>3. new \in Sending /\ new.m = sends[s].m /\ new.replay = sends[s].replay
  <2>1. PICK x \in Sending : x = sends[s]
    BY <1>1
  <2>2. new = [x EXCEPT !.force = TRUE]
    BY <1>2, <2>1
  <2> QED  BY <2>1, <2>2 DEF Sending
<1>4. sends' = [sends EXCEPT ![s] = new]
  BY <1>2 DEF Conflict
<1>5. QueueOK' /\ \A m : Pending(m) => Pending(m)'
  <2>1. UNCHANGED <<online, queue, replaying, stored, joined, doubled, answered>>
    BY DEF Conflict, historyVars
  <2>2. server' \subseteq Mutations
    BY DEF Conflict, IInv, QueueOK
  <2> QED  BY <1>1, <1>3, <1>4, <2>1, <2>2, SameSends DEF IInv
<1>6. DecidedKept
  BY <1>5 DEF Conflict, DecidedKept, Decided, historyVars
<1>7. CacheStep
  BY CacheSame DEF Conflict, IInv
<1>8. RestOK'
  BY DEF Conflict, IInv, RestOK, historyVars
<1> QED  BY <1>5, <1>6, <1>7, <1>8, Steps DEF QueueStep, Conflict

LEMMA UnreachableOK ==
    ASSUME IInv, NEW s \in Sends, Unreachable(s)
    PROVE  IInv'
<1>1. /\ sends[s].busy /\ sends[s].m \in Mutations
      /\ sends' \in Running /\ sends' = [sends EXCEPT ![s] = NoSend]
  BY RunningOK DEF Unreachable, IInv, QueueOK
<1>2. \A r \in Sends : r # s => sends'[r] = sends[r]
  BY <1>1 DEF IInv, QueueOK, Running
<1>3. sends'[s] = NoSend /\ ~sends'[s].busy
  BY <1>1 DEF IInv, QueueOK, Running, NoSend
<1>4. \A r \in Sends : Replay(sends', r) => Replay(sends, r) /\ sends'[r] = sends[r]
  BY <1>2, <1>3 DEF Replay
<1>5. /\ UNCHANGED <<server, answered, doubled>>
      /\ online' \in BOOLEAN /\ replaying' \in BOOLEAN
  BY DEF Unreachable, historyVars
<1>6. /\ QueueOK' /\ (~doubled' => InQueue(sends[s].m, queue'))
      /\ \A n \in Mutations : InQueue(n, queue) => InQueue(n, queue')
  <2>1. CASE ~sends[s].replay
    BY <1>1, <1>4, <1>5, <2>1, EnqueueOK DEF Unreachable, IInv
  <2>2. CASE sends[s].replay
    <3>1. UNCHANGED <<queue, stored, joined>>
      BY <2>2 DEF Unreachable
    <3>2. OneReplay(queue, sends) => OneReplay(queue, sends')
      BY <1>4 DEF OneReplay
    <3>3. QueueOK'
      BY <1>1, <1>5, <3>1, <3>2 DEF IInv, QueueOK
    <3>4. ~doubled => queue # <<>> /\ sends[s].m = Head(queue)
      BY <1>1, <2>2 DEF IInv, QueueOK, OneReplay, Replay
    <3>5. queue # <<>> => InQueue(Head(queue), queue)
      <4>1. queue \in Seq(Mutations)
        BY DEF IInv, QueueOK
      <4>2. queue # <<>> => 1 \in 1..Len(queue) /\ queue[1] = Head(queue)
        BY <4>1
      <4> QED  BY <4>2 DEF InQueue
    <3> QED  BY <1>5, <3>1, <3>3, <3>4, <3>5
  <2> QED  BY <2>1, <2>2
<1>7. ~doubled' => \A n \in Mutations : Pending(n) => Pending(n)'
  BY <1>2, <1>6 DEF Pending
<1>8. ~doubled' => DecidedKept
  BY <1>5, <1>7 DEF DecidedKept, Decided, IInv, QueueOK
<1>9. CacheStep
  BY CacheSame DEF Unreachable, IInv
<1>10. RestOK'
  BY DEF Unreachable, IInv, RestOK, historyVars
<1> QED  BY <1>5, <1>6, <1>8, <1>9, <1>10, Steps DEF QueueStep

\* What is answered leaves the queue, and nothing else that was waiting.
LEMMA SettledQueue ==
    ASSUME IInv, NEW s \in Sends, sends[s].busy, Settled(s), server' = server
    PROVE  /\ QueueOK' /\ UNCHANGED doubled
           /\ ~doubled => \A n \in Decided' : n = sends[s].m \/ n \in Decided
<1> DEFINE m0 == sends[s].m
           run == [sends EXCEPT ![s] = NoSend]
<1>1. /\ m0 \in Mutations /\ run \in Running /\ queue \in Seq(Mutations)
      /\ sends \in Running /\ replaying \in BOOLEAN
  BY RunningOK DEF IInv, QueueOK
<1>2. (\A r \in Sends : r # s => run[r] = sends[r]) /\ ~run[s].busy
  BY <1>1 DEF Running, NoSend
<1>3. /\ UNCHANGED <<online, joined, doubled>>
      /\ answered' = answered \union {m0} /\ answered' \subseteq Mutations
  BY <1>1 DEF Settled, IInv, QueueOK
<1>4. CASE sends[s].replay
  <2>1. /\ queue' = Popped(queue) /\ stored' = Popped(queue)
        /\ ReplayNext(Popped(queue), run, replaying) /\ Popped(queue) \in Seq(Mutations)
    BY <1>1, <1>4, PoppedType DEF Settled
  <2>2. /\ sends' \in Running /\ replaying' \in BOOLEAN
        /\ (\A r \in Sends : ~Replay(run, r)) => OneReplay(queue', sends')
        /\ \A r \in Sends : run[r].busy => sends'[r] = run[r]
    <3> HIDE DEF run
    <3>1. PICK q \in Seq(Mutations) : q = Popped(queue)
      BY <2>1
    <3>2. ReplayNext(q, run, replaying)
      BY <2>1, <3>1
    <3>3. /\ sends' \in Running /\ replaying' \in BOOLEAN
          /\ (\A r \in Sends : ~Replay(run, r)) => OneReplay(q, sends')
          /\ \A r \in Sends : run[r].busy => sends'[r] = run[r]
      BY <1>1, <3>2, ReplayNextOK
    <3> QED  BY <2>1, <3>1, <3>3
  <2>3. ~doubled => m0 = Head(queue) /\ \A r \in Sends : ~Replay(run, r)
    BY <1>2, <1>4 DEF IInv, QueueOK, OneReplay, Replay
  <2>4. ~doubled => \A n \in Mutations : n # m0 /\ InQueue(n, queue) => InQueue(n, queue')
    BY <1>1, <2>1, <2>3, PoppedIn
  <2>5. ~doubled => \A n \in joined' \ answered' : InQueue(n, queue')
    BY <1>3, <2>4 DEF IInv, QueueOK
  <2>6. QueueOK'
    BY <1>3, <2>1, <2>2, <2>3, <2>5 DEF IInv, QueueOK
  <2>7. ~doubled => \A n \in Mutations : n # m0 /\ Pending(n) => Pending(n)'
    BY <1>2, <2>2, <2>4 DEF Pending
  <2>8. ~doubled => \A n \in Decided' : n = m0 \/ n \in Decided
    BY <1>3, <2>7 DEF Decided
  <2> QED  BY <1>3, <2>6, <2>8
<1>5. CASE ~sends[s].replay
  <2>1. sends' = run /\ UNCHANGED <<queue, stored, replaying>>
    BY <1>5 DEF Settled
  <2>2. OneReplay(queue, sends) => OneReplay(queue', sends')
    BY <1>2, <2>1 DEF OneReplay, Replay
  <2>3. QueueOK'
    BY <1>1, <1>3, <2>1, <2>2 DEF IInv, QueueOK
  <2>4. \A n \in Mutations : n # m0 /\ Pending(n) => Pending(n)'
    BY <1>2, <2>1 DEF Pending
  <2>5. \A n \in Decided' : n = m0 \/ n \in Decided
    BY <1>3, <2>4 DEF Decided
  <2> QED  BY <1>3, <2>3, <2>5
<1> QED  BY <1>4, <1>5

\* The query of what is answered claims nothing until it is fetched again.
LEMMA SettledOK ==
    ASSUME IInv, NEW s \in Sends, sends[s].busy, Settled(s), server' = server,
           NEW f \in Entry, Shape(Target[sends[s].m], f), Claims(f) = {},
           Change(Target[sends[s].m], f)
    PROVE  IInv'
<1> DEFINE k == Target[sends[s].m]
<1>1. k \in Keys
  BY RunningOK, QueryAssumption DEF IInv, QueueOK
<1>2. /\ QueueOK' /\ UNCHANGED doubled
      /\ ~doubled => \A n \in Decided' : n = sends[s].m \/ n \in Decided
  BY SettledQueue
<1>3. \A j \in Keys : cache'[j] = IF j = k THEN f ELSE cache[j]
  BY DEF Change, IInv, CacheOK
<1>4. cache' \in [Keys -> Entry]
  BY DEF Change, IInv, CacheOK
<1>5. CacheOK'
  BY <1>3, <1>4 DEF IInv, CacheOK
<1>6. FreshOK'
  <2> SUFFICES ASSUME ~doubled', NEW j \in Keys, NEW es \in Claims(cache'[j]), NEW n \in Decided',
                      Target[n] = j
               PROVE  n \in es <=> n \in server'
    BY DEF FreshOK, Truth
  <2>1. j # k /\ cache'[j] = cache[j]
    BY <1>3
  <2>2. ~doubled /\ n \in Decided
    BY <1>2, <2>1
  <2> QED  BY <2>1, <2>2 DEF IInv, FreshOK, Truth
<1>7. RestOK'
  BY DEF Settled, IInv, RestOK
<1> QED  BY <1>2, <1>5, <1>6, <1>7 DEF IInv

LEMMA AcceptedOK ==
    ASSUME IInv, NEW s \in Sends, Accepted(s)
    PROVE  IInv'
<1> DEFINE k == Target[sends[s].m]
<1>1. k \in Keys
  BY RunningOK, QueryAssumption DEF Accepted, IInv, QueueOK
<1>2. cache[k] \in Entry /\ Shape(k, cache[k])
  BY <1>1 DEF IInv, CacheOK
<1>3. PICK f \in Entry : /\ f = Invalidated(cache[k]) /\ Shape(k, f) /\ Claims(f) = {}
  BY <1>2, InvalidatedOK
<1>4. sends[s].busy /\ Settled(s) /\ server' = server /\ Change(k, f)
  BY <1>3 DEF Accepted
<1> HIDE DEF k
<1> QED  BY <1>3, <1>4, SettledOK DEF k

LEMMA RejectedOK ==
    ASSUME IInv, NEW s \in Sends, Rejected(s)
    PROVE  IInv'
<1> DEFINE k == Target[sends[s].m]
<1>1. k \in Keys /\ sends[s].before \in Befores
  BY RunningOK, QueryAssumption DEF Rejected, IInv, QueueOK
<1>2. cache[k] \in Entry /\ Shape(k, cache[k])
  BY <1>1 DEF IInv, CacheOK
<1>3. PICK e \in Entry : e = RolledBack(cache[k], sends[s].before) /\ Shape(k, e)
  BY <1>1, <1>2, RolledBackOK
<1>4. PICK f \in Entry : f = Invalidated(e) /\ Shape(k, f) /\ Claims(f) = {}
  BY <1>3, InvalidatedOK
<1>5. sends[s].busy /\ Settled(s) /\ server' = server /\ Change(k, f)
  BY <1>3, <1>4 DEF Rejected
<1> HIDE DEF k
<1> QED  BY <1>4, <1>5, SettledOK DEF k

LEMMA RestartOK ==
    ASSUME IInv, Restart
    PROVE  IInv'
<1>1. cache' = [k \in Keys |-> NoEntry]
  BY DEF Restart
<1>2. CacheOK'
  BY <1>1, NoEntryOK DEF CacheOK
<1>3. FreshOK'
  BY <1>1, NoEntryOK DEF FreshOK
<1>4. sends' \in Running /\ \A s \in Sends : ~sends'[s].busy
  BY DEF Restart, Running, NoSend
<1>5. QueueOK'
  <2>1. UNCHANGED <<stored, server, joined, answered, doubled>> /\ queue' = stored
        /\ online' \in BOOLEAN /\ replaying' \in BOOLEAN
    BY DEF Restart
  <2> QED  BY <1>4, <2>1 DEF IInv, QueueOK, OneReplay, Replay
<1>6. RestOK'
  BY CountedOK DEF Restart, IInv, RestOK
<1> QED  BY <1>2, <1>3, <1>5, <1>6 DEF IInv

-----------------------------------------------------------------------------
(* The theorems. *)

LEMMA InitOK ==
    ASSUME Init
    PROVE  IInv
<1>1. CacheOK /\ FreshOK
  BY NoEntryOK DEF Init, CacheOK, FreshOK
<1>2. sends \in Running /\ \A s \in Sends : ~sends[s].busy
  BY DEF Init, Running, NoSend
<1>3. queue \in Seq(Mutations)
  BY DEF Init
<1>4. QueueOK
  BY <1>2, <1>3 DEF Init, QueueOK, OneReplay, Replay
<1>5. calls \in 0..MaxCalls
  BY QueryAssumption DEF Init
<1>6. holds \in [Components -> SUBSET Keys] /\ leaving \in [Keys -> [Components -> Nat]]
  BY DEF Init
<1>7. RestOK
  BY <1>5, <1>6 DEF Init, RestOK
<1> QED  BY <1>1, <1>4, <1>7 DEF IInv

LEMMA StutterOK ==
    ASSUME IInv, UNCHANGED vars
    PROVE  IInv'
<1>1. CacheStep
  BY CacheSame DEF vars, IInv
<1>2. QueueStep
  BY QueueSame DEF vars, IInv, historyVars
<1>3. RestOK'
  BY DEF vars, IInv, RestOK, historyVars
<1> QED  BY <1>1, <1>2, <1>3, Steps

THEOREM Invariance == Spec => []IInv
<1>1. ASSUME IInv, Next
      PROVE  IInv'
  <2>1. CASE Bind \/ WindowFocused \/ Invalidate \/ Restart
    BY <1>1, <2>1, BindOK, WindowFocusedOK, InvalidateOK, RestartOK
  <2>2. CASE \E c \in Components, k \in Keys :
                 UseQuery(c, k) \/ DropObserver(c, k) \/ SettleObserver(c, k)
    BY <1>1, <2>2, UseQueryOK, DropObserverOK, SettleObserverOK
  <2>3. CASE \E k \in Keys : Prefetch(k) \/ Retire(k) \/ FetchNextPage(k) \/ FetchAnswered(k)
                             \/ SettleFetch(k)
    BY <1>1, <2>3, PrefetchOK, RetireOK, FetchNextPageOK, FetchAnsweredOK, SettleFetchOK
  <2>4. CASE \E reachable \in BOOLEAN : SetOnline(reachable)
    BY <1>1, <2>4, SetOnlineOK
  <2>5. CASE \E m \in Mutations : Mutate(m)
    BY <1>1, <2>5, MutateOK
  <2>6. CASE \E s \in Sends : Accepts(s) \/ Accepted(s) \/ Rejected(s) \/ Conflict(s)
                              \/ Unreachable(s)
    BY <1>1, <2>6, AcceptsOK, AcceptedOK, RejectedOK, ConflictOK, UnreachableOK
  <2> QED  BY <1>1, <2>1, <2>2, <2>3, <2>4, <2>5, <2>6 DEF Next
<1>2. IInv /\ [Next]_vars => IInv'
  BY <1>1, StutterOK
<1> QED  BY <1>2, InitOK, PTL DEF Spec

\* Every variable keeps its type.
THEOREM TypeCorrect == Spec => []TypeOK
<1>1. IInv => TypeOK
  BY DEF IInv, RestOK, CacheOK, QueueOK, Running, TypeOK
<1> QED  BY <1>1, Invariance, PTL

\* An offline mutation stays queued, in memory and in the state store, until
\* it is answered (replay_next, persist_queue), unless replays overlapped.
THEOREM QueueCorrect == Spec => []QueueKept
<1>1. IInv => QueueKept
  BY DEF IInv, QueueOK, QueueKept
<1> QED  BY <1>1, Invariance, PTL

\* What counts as fresh shows what the server has of every decided mutation
\* (start_fetch, settle_fetch, invalidate, reject).
THEOREM FreshCorrect == Spec => []FreshIsTrue
<1>1. ASSUME IInv  PROVE FreshIsTrue
  <2> SUFFICES ASSUME NEW k \in Keys, Fresh(cache[k]), ~doubled
               PROVE  \A m \in Decided : Target[m] = k => (m \in cache[k].edits <=> m \in server)
    BY DEF FreshIsTrue, Fresh
  <2>1. cache[k].edits \in Claims(cache[k])
    BY <1>1 DEF IInv, CacheOK, Claims, Entry
  <2> QED  BY <1>1, <2>1 DEF IInv, FreshOK, Truth
<1> QED  BY <1>1, Invariance, PTL

\* An observed query known to be stale is being fetched, or its last fetch
\* failed (invalidate, settle_observer, use_query).
THEOREM InvalidationsAnswered == Spec => []InvalidationAnswered
<1>1. IInv => InvalidationAnswered
  BY QueryAssumption DEF IInv, CacheOK, Shape, InvalidationAnswered
<1> QED  BY <1>1, Invariance, PTL

\* Loading, refreshing and loading more are shown exactly while such a
\* request is in flight (start_fetch, fetch_next_page, settle_fetch).
THEOREM SpinnersHonest == Spec => []SpinnerHonest
<1>1. IInv => SpinnerHonest
  BY DEF IInv, CacheOK, Shape, SpinnerHonest
<1> QED  BY <1>1, Invariance, PTL
=============================================================================
