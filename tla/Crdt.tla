--------------------------------- MODULE Crdt ---------------------------------
(***************************************************************************)
(* The replicated data types of rustnative-sync (crdt.rs): a counter, a    *)
(* map of registers, an observed-remove set and a sequence, held by every  *)
(* replica and edited there without asking anybody.  A replica sends its   *)
(* copy whenever it likes; a copy sent arrives any number of times, in any *)
(* order, or never, and is merged.                                         *)
(*                                                                         *)
(* A GCounter is the upper half of the counter, and an LwwRegister an      *)
(* entry of the map.  A stamp is <<time, replica>>, time standing for the  *)
(* clock's pair of wall time and counter: HlcClock::now returns a later    *)
(* one each time, and observe only makes that later still.  What to_vec    *)
(* shows is a function of the copy and left out; so is value(), a sum.     *)
(*                                                                         *)
(* For the properties, every copy goes with what it is to reflect: the     *)
(* edits it has seen, its own and those of the copies merged into it.      *)
(***************************************************************************)
EXTENDS Integers

CONSTANTS
    Keys,     \* keys of the map
    Values,   \* what entries, the set and the sequence hold
    Nothing   \* what a removed entry of the map holds

\* ReplicaId.
Replicas == Nat

VARIABLES
    copy,   \* each replica's copy
    clock,  \* the time of each replica's last stamp
    seen,   \* history: the edits each copy is to reflect
    sent    \* copies sent, with the edits they are to reflect

vars == <<copy, clock, seen, sent>>

-----------------------------------------------------------------------------
(* Data. *)

Stamps == Nat \X Replicas
Dots == Replicas \X Nat
Start == <<0, 0>>  \* before every stamp

\* Hlc's derived order.
Later(a, b) == a[1] > b[1] \/ (a[1] = b[1] /\ a[2] > b[2])

\* A write of an entry; an entry never written holds Unwritten.
Write == [value : Values \union {Nothing}, stamp : Stamps]
Unwritten == [value |-> Nothing, stamp |-> Start]

Element == [id : Stamps, after : Stamps, value : Values]

Copy == [up : [Replicas -> Nat], down : [Replicas -> Nat],
         entries : [Keys -> Write],
         adds : SUBSET (Values \X Dots), removed : SUBSET Dots, counters : [Replicas -> Nat],
         elements : SUBSET Element, deleted : SUBSET Stamps]

New == [up |-> [q \in Replicas |-> 0], down |-> [q \in Replicas |-> 0],
        entries |-> [k \in Keys |-> Unwritten],
        adds |-> {}, removed |-> {}, counters |-> [q \in Replicas |-> 0],
        elements |-> {}, deleted |-> {}]

\* Edits: counts reached, writes, adds, the dots each removal removed,
\* insertions and deletions.
Edits == [up : SUBSET (Replicas \X Nat), down : SUBSET (Replicas \X Nat),
          writes : SUBSET (Keys \X Write),
          adds : SUBSET (Values \X Dots), removals : SUBSET (SUBSET Dots),
          inserts : SUBSET Element, deletes : SUBSET Stamps]

NoEdits == [up |-> {}, down |-> {}, writes |-> {}, adds |-> {}, removals |-> {},
            inserts |-> {}, deletes |-> {}]

Init ==
    /\ copy = [r \in Replicas |-> New]
    /\ clock = [r \in Replicas |-> 0]
    /\ seen = [r \in Replicas |-> NoEdits]
    /\ sent = {}

-----------------------------------------------------------------------------
(* Edits on a replica. *)

\* PnCounter::add, of a positive and of a negative amount: GCounter::increment
\* takes the count to some n no lower, as the addition saturates.
CountUp(r) ==
    \E n \in Nat :
        /\ n >= copy[r].up[r]
        /\ copy' = [copy EXCEPT ![r].up[r] = n]
        /\ seen' = [seen EXCEPT ![r].up = @ \union {<<r, n>>}]
        /\ UNCHANGED <<clock, sent>>

CountDown(r) ==
    \E n \in Nat :
        /\ n >= copy[r].down[r]
        /\ copy' = [copy EXCEPT ![r].down[r] = n]
        /\ seen' = [seen EXCEPT ![r].down = @ \union {<<r, n>>}]
        /\ UNCHANGED <<clock, sent>>

\* A stamp of the replica's clock.
Stamped(r, time) == time > clock[r] /\ clock' = [clock EXCEPT ![r] = time]

\* LwwRegister::set, LwwMap::insert, and remove, which writes Nothing.
Newer(mine, other) == IF Later(other.stamp, mine.stamp) THEN other ELSE mine

WriteEntry(r) ==
    \E k \in Keys, v \in Values \union {Nothing}, time \in Nat :
        LET w == [value |-> v, stamp |-> <<time, r>>] IN
        /\ Stamped(r, time)
        /\ copy' = [copy EXCEPT ![r].entries[k] = Newer(@, w)]
        /\ seen' = [seen EXCEPT ![r].writes = @ \union {<<k, w>>}]
        /\ UNCHANGED sent

\* OrSet::add and remove.
AddToSet(r) ==
    \E v \in Values :
        LET n == copy[r].counters[r] + 1 IN
        /\ copy' = [copy EXCEPT ![r].counters[r] = n, ![r].adds = @ \union {<<v, <<r, n>>>>}]
        /\ seen' = [seen EXCEPT ![r].adds = @ \union {<<v, <<r, n>>>>}]
        /\ UNCHANGED <<clock, sent>>

DotsOf(adds, v) == {d \in Dots : <<v, d>> \in adds}

RemoveFromSet(r) ==
    \E v \in Values :
        LET dots == DotsOf(copy[r].adds, v) IN
        /\ copy' = [copy EXCEPT ![r].removed = @ \union dots]
        /\ seen' = [seen EXCEPT ![r].removals = @ \union {dots}]
        /\ UNCHANGED <<clock, sent>>

\* Rga::insert: after the visible element before the index, or at the start.
Ids(elements) == {e.id : e \in elements}
Visible(c) == Ids(c.elements) \ c.deleted

InsertElement(r) ==
    \E v \in Values, after \in Visible(copy[r]) \union {Start}, time \in Nat :
        LET e == [id |-> <<time, r>>, after |-> after, value |-> v] IN
        /\ Stamped(r, time)
        /\ copy' = [copy EXCEPT ![r].elements = IF e.id \in Ids(@) THEN @ ELSE @ \union {e}]
        /\ seen' = [seen EXCEPT ![r].inserts = @ \union {e}]
        /\ UNCHANGED sent

\* Rga::delete.
DeleteElement(r) ==
    \E id \in Visible(copy[r]) :
        /\ copy' = [copy EXCEPT ![r].deleted = @ \union {id}]
        /\ seen' = [seen EXCEPT ![r].deletes = @ \union {id}]
        /\ UNCHANGED <<clock, sent>>

-----------------------------------------------------------------------------
(* Merging. *)

Greater(m, n) == IF m >= n THEN m ELSE n

\* Crdt::merge of each type.
Merged(c, o) ==
    [up       |-> [q \in Replicas |-> Greater(c.up[q], o.up[q])],
     down     |-> [q \in Replicas |-> Greater(c.down[q], o.down[q])],
     entries  |-> [k \in Keys |-> Newer(c.entries[k], o.entries[k])],
     adds     |-> c.adds \union o.adds,
     removed  |-> c.removed \union o.removed,
     counters |-> [q \in Replicas |-> Greater(c.counters[q], o.counters[q])],
     elements |-> c.elements \union {e \in o.elements : e.id \notin Ids(c.elements)},
     deleted  |-> c.deleted \union o.deleted]

Both(s, t) ==
    [up |-> s.up \union t.up, down |-> s.down \union t.down, writes |-> s.writes \union t.writes,
     adds |-> s.adds \union t.adds, removals |-> s.removals \union t.removals,
     inserts |-> s.inserts \union t.inserts, deletes |-> s.deletes \union t.deletes]

Send(r) ==
    /\ sent' = sent \union {[copy |-> copy[r], seen |-> seen[r]]}
    /\ UNCHANGED <<copy, clock, seen>>

Merge(r) ==
    \E m \in sent :
        /\ copy' = [copy EXCEPT ![r] = Merged(@, m.copy)]
        /\ seen' = [seen EXCEPT ![r] = Both(@, m.seen)]
        /\ UNCHANGED <<clock, sent>>

-----------------------------------------------------------------------------

Next ==
    \E r \in Replicas :
        \/ CountUp(r) \/ CountDown(r) \/ WriteEntry(r) \/ AddToSet(r) \/ RemoveFromSet(r)
        \/ InsertElement(r) \/ DeleteElement(r) \/ Send(r) \/ Merge(r)

Spec == Init /\ [][Next]_vars

-----------------------------------------------------------------------------
(* Properties. *)

\* "Each merges in any order, any grouping, any number of times, to the same
\* value" (crdt.rs): replicas that have seen the same edits hold the same
\* copy, whichever merges brought them there.
Converged == \A r, q \in Replicas : seen[r] = seen[q] => copy[r] = copy[q]

\* "An add wins over a concurrent remove": a value is in the set exactly if
\* one of the adds seen was not seen by any of the removals seen; and a dot
\* stands for one add, on all replicas together.
Contains(c, v) == \E d \in Dots : <<v, d>> \in c.adds /\ d \notin c.removed

AddWins ==
    /\ \A r \in Replicas, v \in Values :
           Contains(copy[r], v) <=>
               \E d \in Dots : <<v, d>> \in seen[r].adds /\ \A removal \in seen[r].removals : d \notin removal
    /\ \A r, q \in Replicas, v, w \in Values, d \in Dots :
           <<v, d>> \in copy[r].adds /\ <<w, d>> \in copy[q].adds => v = w

\* No text is out of reach: the element another was inserted after, earlier,
\* is there too, so that the walk from the start comes to both; and an id
\* stands for one element, on all replicas together.
Anchored ==
    /\ \A r \in Replicas : \A e \in copy[r].elements : e.after \in Ids(copy[r].elements) \union {Start}
    /\ \A r, q \in Replicas : \A e \in copy[r].elements, f \in copy[q].elements : e.id = f.id => e = f
=============================================================================
