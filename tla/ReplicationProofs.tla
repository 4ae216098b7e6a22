--------------------------- MODULE ReplicationProofs ---------------------------
(***************************************************************************)
(* Theorems about what replicas share: a synchronised collection (Sync),   *)
(* for any number of replicas, records and writes, any policies, versions, *)
(* filters and clocks, and any faults; and the replicated data types       *)
(* (Crdt, at the end, through an instance).                                *)
(*                                                                         *)
(* For Sync the invariant says what each copy and each answer on its way   *)
(* holds of what its cursor covers (Reach), which changes there can be of  *)
(* a record and how they descend from each other (History), and that no    *)
(* clock is behind the records of its replica (Clocked).                   *)
(***************************************************************************)
EXTENDS Sync, FiniteSetTheorems, WellFoundedInduction, TLAPS

-----------------------------------------------------------------------------
(* The inductive invariant. *)

\* Every change of a record there is, on the server, on the replicas and
\* under way.
Changes(id) ==
    {c \in Change :
        \/ c \in {NoRecord, server[id]}
        \/ \E changes \in late : c = changes[id]
        \/ \E r \in Replicas :
               c \in {local[r].records[id], local[r].pending[id], saved[r].records[id],
                      saved[r].pending[id], reply[r].accepted[id], reply[r].refused[id]}}

\* Sequence numbers come from the server: none is ahead of the server's copy
\* s, and what has the number of that copy is that copy.  Writes are numbered
\* up to n.
Numbered(C, s, n) ==
    /\ s \in C
    /\ Present(s) <=> s.sequence > 0
    /\ \A c \in C :
           /\ c.sequence <= s.sequence /\ c.base <= s.sequence
           /\ c.sequence > 0 /\ c.sequence = s.sequence => c = s
           /\ c.writes \subseteq 1..n
           /\ ~c.live => c.writes = {}

\* Under ServerAuthority.  A write's own number is the largest of those it
\* builds on; whatever contains it contains what it was made from, and was
\* made or settled later.
Own(c, w) == w \in c.writes /\ \A v \in c.writes : v <= w
Lineage(C) ==
    /\ \A c \in C : Present(c) /\ c.live => \E w \in c.writes : Own(c, w)
    /\ \A c, d \in C : \A w \in c.writes :
           Own(c, w) /\ w \in d.writes =>
               /\ c.writes \subseteq d.writes
               /\ d.sequence > 0 => c.base < d.sequence
               /\ d.base > 0 /\ ~Own(d, w) => c.base < d.base

\* What is based on the server's copy adds one write to it; what is older
\* lacks one of its writes; what is based on an older one lacks one as well,
\* or is among them.
Descends(C, s) ==
    \A c \in C :
        /\ c.sequence > 0 /\ c.sequence < s.sequence /\ c.live /\ s.live =>
               ~(s.writes \subseteq c.writes)
        /\ \A w \in c.writes : Own(c, w) /\ c.base > 0 =>
               /\ c.base = s.sequence => w \notin s.writes /\ c.writes = s.writes \union {w}
               /\ c.base < s.sequence /\ s.live /\ s.writes \subseteq c.writes => w \in s.writes

\* A copy of the collection that has seen the server's change of a record
\* holds it, or a write of its own.
Holds(copy, r, id) ==
    Matches(r, server[id]) =>
        Present(copy.pending[id]) \/ server[id].sequence > copy.cursor \/ copy.records[id] = server[id]

\* So it does with the answer on its way.
Brought(change, r, id) ==
    Present(change) => change = server[id] \/ server[id].sequence > local[r].cursor
WillHold(r, id) ==
    /\ pc[r] = "pushed" => Brought(reply[r].accepted[id], r, id) /\ Brought(reply[r].refused[id], r, id)
    /\ pc[r] = "pulled" /\ Matches(r, server[id]) =>
           \/ server[id].sequence > reply[r].cursor
           \/ Present(reply[r].accepted[id]) /\ reply[r].accepted[id] = server[id]
           \/ ~Present(reply[r].accepted[id]) /\ (Present(local[r].pending[id]) \/ local[r].records[id] = server[id])

Cursors == \A r \in Replicas : saved[r].cursor <= sequence /\ reply[r].cursor <= sequence

History ==
    \A id \in Ids :
        /\ Numbered(Changes(id), server[id], puts)
        /\ setup.policy = "ServerAuthority" => Lineage(Changes(id)) /\ Descends(Changes(id), server[id])

\* No record is stamped later than the clock of the replica that holds it.
AtLeast(s, o) == s[1] > o[1] \/ (s[1] = o[1] /\ s[2] >= o[2])
Reading(c) == <<c.stamp[1], c.stamp[2]>>
Clocked == \A r \in Replicas \ rewound, id \in Ids : AtLeast(last[r], Reading(local[r].records[id]))

Reach ==
    \A r \in Replicas, id \in Ids :
        Holds(local[r], r, id) /\ Holds(saved[r], r, id) /\ WillHold(r, id)

IInv ==
    /\ TypeOK
    /\ Cursors
    /\ Reach
    /\ History
    /\ SettledFairly
    /\ Clocked
-----------------------------------------------------------------------------
(* How the changes of one record develop. *)

Typed(C) ==
    \A c \in C : c.sequence \in Nat /\ c.base \in Nat /\ c.writes \in SUBSET Nat /\ c.live \in BOOLEAN
                     /\ c.version \in Nat

\* Changes disappear.
LEMMA FewerNumbered ==
    ASSUME NEW C, NEW D, D \subseteq C, NEW s \in D, NEW m \in Nat, NEW n \in Nat, m <= n,
           Numbered(C, s, m)
    PROVE  Numbered(D, s, n)
BY DEF Numbered

LEMMA FewerLineage ==
    ASSUME NEW C, NEW D, D \subseteq C, NEW s, Lineage(C), Descends(C, s)
    PROVE  Lineage(D) /\ Descends(D, s)
<1>1. Lineage(D)
  BY DEF Lineage
<1>2. Descends(D, s)
  BY DEF Descends
<1> QED  BY <1>1, <1>2

\* A replica edits the record it sees.
Edited(e, seen, n) ==
    /\ e.writes = (IF e.live THEN seen.writes \union {n + 1} ELSE {})
    /\ e.base = seen.sequence /\ e.sequence = 0

LEMMA EditNumbered ==
    ASSUME NEW C, NEW D, NEW s \in D, NEW e, D \subseteq C \union {e}, Typed(C), Typed({e}),
           NEW n \in Nat, NEW seen \in C, Edited(e, seen, n), Numbered(C, s, n)
    PROVE  Numbered(D, s, n + 1)
<1>1. s \in C /\ seen.writes \subseteq 1..n /\ seen.sequence <= s.sequence /\ s.sequence \in Nat
  BY DEF Numbered, Typed
<1>2. Numbered(C, s, n + 1)
  BY <1>1, FewerNumbered
<1>3. e.writes \subseteq 1..(n + 1) /\ (~e.live => e.writes = {})
  BY <1>1 DEF Edited
<1>4. e.sequence <= s.sequence /\ e.base <= s.sequence /\ ~(e.sequence > 0)
  BY <1>1 DEF Edited
<1> QED  BY <1>2, <1>3, <1>4 DEF Numbered

LEMMA EditLineage ==
    ASSUME NEW C, NEW D, NEW s \in D, NEW e, D \subseteq C \union {e}, Typed(C), Typed({e}),
           NEW n \in Nat, NEW seen \in C, Edited(e, seen, n), Numbered(C, s, n), Lineage(C)
    PROVE  Lineage(D)
<1>1. \A c \in C : c.writes \subseteq 1..n /\ n + 1 \notin c.writes
  BY DEF Numbered
<1>2. \A w \in e.writes : Own(e, w) <=> w = n + 1
  BY <1>1 DEF Own, Edited
<1>3. e.live => Own(e, n + 1)
  BY <1>1 DEF Own, Edited
<1>4. ASSUME NEW c \in D, Present(c), c.live
      PROVE  \E w \in c.writes : Own(c, w)
  <2>1. CASE c \in C
    BY <1>4, <2>1 DEF Lineage
  <2>2. CASE c = e
    BY <1>3, <1>4, <2>2 DEF Own
  <2> QED  BY <2>1, <2>2
<1>5. ASSUME NEW c \in D, NEW d \in D, NEW w \in c.writes, Own(c, w), w \in d.writes
      PROVE  /\ c.writes \subseteq d.writes
             /\ d.sequence > 0 => c.base < d.sequence
             /\ d.base > 0 /\ ~Own(d, w) => c.base < d.base
  <2>1. CASE c = e
    <3>1. w = n + 1
      BY <1>2, <1>5, <2>1
    <3>2. d = e
      BY <1>1, <1>5, <3>1
    <3> QED  BY <1>5, <2>1, <3>2 DEF Edited
  <2>2. CASE c \in C /\ d \in C
    BY <1>5, <2>2 DEF Lineage
  <2>3. CASE c \in C /\ d = e
    <3>1. w \in seen.writes
      BY <1>1, <1>5, <2>3 DEF Edited
    <3>2. c.writes \subseteq seen.writes /\ (seen.sequence > 0 => c.base < seen.sequence)
      BY <1>5, <2>3, <3>1 DEF Lineage
    <3> QED  BY <1>5, <2>3, <3>2 DEF Edited
  <2> QED  BY <2>1, <2>2, <2>3
<1> QED  BY <1>4, <1>5 DEF Lineage

LEMMA EditDescends ==
    ASSUME NEW C, NEW D, NEW s \in D, NEW e, D \subseteq C \union {e}, Typed(C), Typed({e}),
           NEW n \in Nat, NEW seen \in C, Edited(e, seen, n), Numbered(C, s, n), Lineage(C), Descends(C, s)
    PROVE  Descends(D, s)
<1>1. s \in C /\ \A c \in C : c.writes \subseteq 1..n /\ n + 1 \notin c.writes
  BY DEF Numbered
<1>2. \A w \in e.writes : Own(e, w) => w = n + 1
  BY <1>1 DEF Own, Edited
<1>3. seen.sequence > 0 /\ seen.sequence = s.sequence => seen = s
  BY DEF Numbered
<1>4. s.sequence \in Nat /\ seen.sequence \in Nat
  BY <1>1 DEF Typed
<1>5. ASSUME NEW w \in e.writes, Own(e, w), e.base > 0
      PROVE  /\ e.base = s.sequence => w \notin s.writes /\ e.writes = s.writes \union {w}
             /\ e.base < s.sequence /\ s.live => ~(s.writes \subseteq e.writes)
  <2>1. w = n + 1 /\ e.live /\ e.writes = seen.writes \union {w} /\ e.base = seen.sequence
    BY <1>2, <1>5 DEF Edited
  <2>2. CASE e.base = s.sequence
    BY <1>1, <1>3, <1>4, <1>5, <2>1, <2>2
  <2>3. CASE e.base < s.sequence /\ s.live /\ s.writes \subseteq e.writes
    <3>1. s.writes \subseteq seen.writes
      BY <1>1, <2>1, <2>3
    <3>2. ~seen.live
      BY <1>5, <2>1, <2>3, <3>1 DEF Descends
    <3>3. s.writes = {}
      BY <3>1, <3>2 DEF Numbered
    <3>4. Present(s)
      BY <1>4, <1>5, <2>1, <2>3 DEF Numbered
    <3>5. \E v \in s.writes : Own(s, v)
      BY <1>1, <2>3, <3>4 DEF Lineage
    <3> QED  BY <3>3, <3>5
  <2> QED  BY <1>4, <2>1, <2>2, <2>3
<1>6. ~(e.sequence > 0)
  BY DEF Edited
<1> QED  BY <1>5, <1>6 DEF Descends

\* The server settles a change d as n.
Settled(n, d, s) ==
    n.writes = d.writes /\ n.live = d.live /\ n.base = d.base /\ n.sequence > s.sequence

LEMMA AcceptLineage ==
    ASSUME NEW C, NEW D, NEW s \in C, NEW n, D \subseteq C \union {n}, Typed(C), Typed({n}),
           NEW d \in C, Settled(n, d, s), NEW p \in Nat, Numbered(C, s, p), Lineage(C), Present(d)
    PROVE  Lineage(D)
<1>1. \A c \in C : c.base <= s.sequence /\ c.base \in Nat /\ c.sequence \in Nat
  BY DEF Numbered, Typed
<1>2. s.sequence \in Nat /\ n.sequence \in Nat
  BY DEF Typed
<1>3. \A w : Own(n, w) <=> Own(d, w)
  BY DEF Own, Settled
<1>4. n.writes = d.writes /\ n.live = d.live /\ n.base = d.base /\ n.sequence > s.sequence
  BY DEF Settled
<1>5. ASSUME NEW c \in D, Present(c), c.live
      PROVE  \E w \in c.writes : Own(c, w)
  <2>1. CASE c \in C
    BY <1>5, <2>1 DEF Lineage
  <2>2. CASE c = n
    <3>1. \E w \in d.writes : Own(d, w)
      BY <1>4, <1>5, <2>2 DEF Lineage
    <3> QED  BY <1>3, <1>4, <2>2, <3>1
  <2> QED  BY <2>1, <2>2
<1>6. ASSUME NEW c \in C, NEW x \in C, NEW w \in c.writes, Own(c, w), w \in x.writes
      PROVE  /\ c.writes \subseteq x.writes
             /\ x.sequence > 0 => c.base < x.sequence
             /\ x.base > 0 /\ ~Own(x, w) => c.base < x.base
  BY <1>6 DEF Lineage
<1>7. ASSUME NEW c \in D, NEW x \in D, NEW w \in c.writes, Own(c, w), w \in x.writes
      PROVE  /\ c.writes \subseteq x.writes
             /\ x.sequence > 0 => c.base < x.sequence
             /\ x.base > 0 /\ ~Own(x, w) => c.base < x.base
  <2>1. PICK b \in C : b.writes = c.writes /\ b.base = c.base /\ Own(b, w) /\ (c \in C => b = c)
    BY <1>3, <1>4, <1>7
  <2>2. PICK y \in C : y.writes = x.writes /\ y.base = x.base /\ (Own(y, w) <=> Own(x, w)) /\ (x \in C => y = x)
    BY <1>3, <1>4
  <2>3. /\ b.writes \subseteq y.writes
        /\ y.sequence > 0 => b.base < y.sequence
        /\ y.base > 0 /\ ~Own(y, w) => b.base < y.base
    BY <1>6, <1>7, <2>1, <2>2
  <2>4. x.sequence > 0 => c.base < x.sequence
    <3>1. CASE x \in C
      BY <2>1, <2>2, <2>3, <3>1
    <3>2. CASE x = n
      BY <1>1, <1>2, <1>4, <2>1, <3>2
    <3> QED  BY <3>1, <3>2
  <2> QED  BY <2>1, <2>2, <2>3, <2>4
<1> QED  BY <1>5, <1>7 DEF Lineage

LEMMA AcceptDescends ==
    ASSUME NEW C, NEW D, NEW s \in C, NEW n, D \subseteq C \union {n}, Typed(C), Typed({n}),
           NEW d \in C, Settled(n, d, s), Present(s) => d.base >= s.sequence,
           NEW p \in Nat, Numbered(C, s, p), Lineage(C), Descends(C, s), Present(d)
    PROVE  Descends(D, n)
<1>1. \A c \in C : /\ c.base <= s.sequence /\ c.base \in Nat
                   /\ c.sequence <= s.sequence /\ c.sequence \in Nat
  BY DEF Numbered, Typed
<1>2. s.sequence \in Nat /\ n.sequence \in Nat
  BY DEF Typed
<1>3. \A w : Own(n, w) <=> Own(d, w)
  BY DEF Own, Settled
<1>4. n.writes = d.writes /\ n.live = d.live /\ n.base = d.base /\ n.sequence > s.sequence
  BY DEF Settled
<1>5. s.sequence > 0 => d.base = s.sequence
  BY <1>1, <1>2 DEF Numbered
<1>6. \A c \in C : \A w \in c.writes : ~c.live => FALSE
  BY DEF Numbered
\* The accepted change adds its own write to the copy before it.
<1>7. ASSUME d.live, s.sequence > 0
      PROVE  \E w \in d.writes : Own(d, w) /\ w \notin s.writes /\ d.writes = s.writes \union {w}
  <2>1. PICK w \in d.writes : Own(d, w)
    BY <1>7 DEF Lineage
  <2> QED  BY <1>5, <1>7, <2>1 DEF Descends
<1>8. ASSUME NEW c \in C, c.sequence > 0, c.live, n.live, n.writes \subseteq c.writes
      PROVE  FALSE
  <2>1. s.sequence > 0
    BY <1>1, <1>2, <1>8
  <2>2. PICK w \in d.writes : Own(d, w) /\ w \notin s.writes /\ d.writes = s.writes \union {w}
    BY <1>4, <1>7, <1>8, <2>1
  <2>3. w \in c.writes
    BY <1>4, <1>8, <2>2
  <2>4. d.base < c.sequence
    BY <1>8, <2>2, <2>3 DEF Lineage
  <2> QED  BY <1>1, <1>2, <1>5, <2>1, <2>4
<1>9. ASSUME NEW c \in C, NEW w \in c.writes, Own(c, w), c.base > 0, n.live, n.writes \subseteq c.writes
      PROVE  w \in n.writes
  <2>1. s.sequence > 0 /\ d.live
    BY <1>1, <1>2, <1>4, <1>9
  <2>2. PICK v \in d.writes : Own(d, v) /\ v \notin s.writes /\ d.writes = s.writes \union {v}
    BY <1>7, <2>1
  <2>3. v \in c.writes
    BY <1>4, <1>9, <2>2
  <2>4. CASE Own(c, v)
    BY <1>4, <1>9, <2>2, <2>4 DEF Own, Typed
  <2>5. CASE ~Own(c, v)
    <3>1. d.base < c.base
      BY <1>9, <2>2, <2>3, <2>5 DEF Lineage
    <3> QED  BY <1>1, <1>2, <1>5, <2>1, <3>1
  <2> QED  BY <2>4, <2>5
<1>10. ASSUME NEW c \in D, c.sequence > 0, c.sequence < n.sequence, c.live, n.live
       PROVE  ~(n.writes \subseteq c.writes)
  BY <1>2, <1>8, <1>10
<1>11. ASSUME NEW c \in D, NEW w \in c.writes, Own(c, w), c.base > 0
       PROVE  /\ c.base # n.sequence
              /\ n.live /\ n.writes \subseteq c.writes => w \in n.writes
  <2>1. c.base # n.sequence
    BY <1>1, <1>2, <1>4
  <2>2. CASE c \in C
    BY <1>9, <1>11, <2>1, <2>2
  <2>3. CASE c = n
    BY <1>11, <2>1, <2>3
  <2> QED  BY <2>2, <2>3
<1> QED  BY <1>10, <1>11 DEF Descends
-----------------------------------------------------------------------------
(* A finite set of clock readings has a latest one: the one with the fewest *)
(* at or after it.                                                          *)

LEMMA SmallestSet ==
    ASSUME NEW S, NEW T, T \subseteq FiniteSubsetsOf(S), T # {}
    PROVE  \E x \in T : \A y \in T : y \subseteq x => y = x
<1>1. IsWellFoundedOn(StrictSubsetOrdering(S), FiniteSubsetsOf(S))
  BY FS_StrictSubsetOrderingWellFounded
<1>2. \E x \in T : \A y \in T : ~(<<y, x>> \in StrictSubsetOrdering(S))
  BY <1>1, WFMin
<1> QED  BY <1>2 DEF StrictSubsetOrdering, FiniteSubsetsOf

LEMMA LatestExists ==
    ASSUME NEW S \in SUBSET (Nat \X Nat), IsFiniteSet(S), S # {}
    PROVE  \E s \in S : \A o \in S : AtLeast(s, o)
<1> DEFINE From(s) == {o \in S : AtLeast(o, s)}
           T == {From(s) : s \in S}
<1>1. \A s \in S : s[1] \in Nat /\ s[2] \in Nat /\ s = <<s[1], s[2]>>
  OBVIOUS
<1>2. \A s \in S : AtLeast(s, s)
  BY <1>1 DEF AtLeast
<1>3. T \subseteq FiniteSubsetsOf(S) /\ T # {}
  <2>1. \A s \in S : From(s) \in SUBSET S
    OBVIOUS
  <2>2. \A s \in S : IsFiniteSet(From(s))
    BY <2>1, FS_Subset
  <2> QED  BY <2>1, <2>2 DEF FiniteSubsetsOf
<1> HIDE DEF T
<1>4. PICK x \in T : \A y \in T : y \subseteq x => y = x
  BY <1>3, SmallestSet
<1>5. PICK s \in S : x = From(s)
  BY <1>4 DEF T
<1>6. ASSUME NEW o \in S, ~AtLeast(s, o)
      PROVE  FALSE
  <2>1. From(o) \in T
    BY DEF T
  <2>2. AtLeast(o, s)
    BY <1>1, <1>6 DEF AtLeast
  <2>3. \A q \in S : AtLeast(q, o) => AtLeast(q, s)
    BY <1>1, <2>2 DEF AtLeast
  <2>4. From(o) \subseteq From(s)
    BY <2>3
  <2>5. s \in From(s) /\ s \notin From(o)
    BY <1>2, <1>6
  <2> QED  BY <1>4, <1>5, <2>1, <2>4, <2>5
<1> QED  BY <1>6

-----------------------------------------------------------------------------
(* Types. *)

LEMMA ChangeType ==
    ASSUME NEW c \in Change
    PROVE  /\ c.live \in BOOLEAN /\ c.writes \in SUBSET Nat /\ c.stamp \in Stamps
           /\ c.version \in Nat /\ c.base \in Nat /\ c.sequence \in Nat
           /\ c.owner \in setup.owners \union {Everyone}
           /\ c.stamp[1] \in Nat /\ c.stamp[2] \in Nat /\ c.stamp[3] \in 0..NumReplicas
BY DEF Change, Stamps

LEMMA NoRecordType == NoRecord \in Change /\ ~Present(NoRecord) /\ Empty \in Records
<1>1. NoRecord.version = 0 /\ NoRecord \in Change
  BY SyncAssumption DEF NoRecord, Change, Stamps
<1> QED  BY <1>1 DEF Present, Empty, Records

LEMMA NumberFacts ==
    ASSUME TypeOK, NEW changes
    PROVE  /\ \A n \in Nat : Number(changes, n) \in Nat /\ Number(changes, n) >= sequence
           /\ \A m, n \in Nat : m <= n => Number(changes, m) <= Number(changes, n)
           /\ \A id \in Ids : Accepts(changes, id) => Number(changes, id) > sequence
<1> DEFINE Taken(n) == {id \in 1..n : Accepts(changes, id)}
<1>1. ASSUME NEW n \in Nat
      PROVE  IsFiniteSet(Taken(n)) /\ Cardinality(Taken(n)) \in Nat
  <2>1. IsFiniteSet(1..n)
    BY FS_Interval
  <2>2. Taken(n) \in SUBSET (1..n)
    OBVIOUS
  <2>3. IsFiniteSet(Taken(n))
    BY <2>1, <2>2, FS_Subset
  <2> QED  BY <2>3, FS_CardinalityType
<1>2. ASSUME NEW m \in Nat, NEW n \in Nat, m <= n
      PROVE  Cardinality(Taken(m)) <= Cardinality(Taken(n))
  <2>1. Taken(m) \in SUBSET Taken(n)
    BY <1>2
  <2> QED  BY <1>1, <2>1, FS_Subset
<1>3. ASSUME NEW id \in Ids, Accepts(changes, id)
      PROVE  Cardinality(Taken(id)) > 0
  <2>1. id \in Nat /\ id \in Taken(id)
    BY <1>3, SyncAssumption DEF Ids
  <2>2. Cardinality(Taken(id)) # 0
    BY <1>1, <2>1, FS_EmptySet
  <2> QED  BY <1>1, <2>1, <2>2
<1>4. \A n \in Nat : Number(changes, n) = sequence + Cardinality(Taken(n))
  BY DEF Number
<1> HIDE DEF Taken
<1>5. sequence \in Nat /\ Ids \subseteq Nat
  BY SyncAssumption DEF TypeOK, Ids
<1> QED  BY <1>1, <1>2, <1>3, <1>4, <1>5

LEMMA TickedType ==
    ASSUME TypeOK, NEW r \in Replicas
    PROVE  Ticked(r) \in Nat \X Nat /\ <<Ticked(r)[1], Ticked(r)[2], r>> \in Stamps
               /\ (Ticked(r)[1] > last[r][1] \/ (Ticked(r)[1] = last[r][1] /\ Ticked(r)[2] > last[r][2]))
<1>1. last[r] \in Nat \X Nat /\ now \in Nat /\ Skew[r] \in Nat /\ r \in 0..NumReplicas
  BY SyncAssumption DEF TypeOK, Replicas
<1>2. PICK a \in Nat, b \in Nat : Ticked(r) = <<a, b>>
                                  /\ (a > last[r][1] \/ (a = last[r][1] /\ b > last[r][2]))
  BY <1>1 DEF Ticked
<1> QED  BY <1>1, <1>2 DEF Stamps

LEMMA EditType ==
    ASSUME TypeOK, NEW r \in Replicas, NEW id \in Ids, NEW live \in BOOLEAN,
           NEW owner \in setup.owners \union {Everyone}
    PROVE  Edit(r, id, live, owner) \in Change /\ Present(Edit(r, id, live, owner))
<1>1. local[r].records[id] \in Change /\ puts \in Nat /\ version[r] \in 1..setup.version
  BY DEF TypeOK, Records
<1>2. setup.version \in Nat
  BY SyncAssumption DEF TypeOK
<1>3. local[r].records[id].writes \in SUBSET Nat /\ local[r].records[id].sequence \in Nat
  BY <1>1, ChangeType
<1>4. <<Ticked(r)[1], Ticked(r)[2], r>> \in Stamps
  BY TickedType
<1> QED  BY <1>1, <1>2, <1>3, <1>4 DEF Edit, Change, Present

LEMMA WinnerType ==
    ASSUME TypeOK, NEW changes \in Records, NEW id \in Ids
    PROVE  Winner(changes, id) \in Change /\ Present(Winner(changes, id))
               /\ Winner(changes, id).sequence = Number(changes, id)
<1>1. changes[id] \in Change /\ server[id] \in Change
  BY DEF TypeOK, Records
<1>2. Number(changes, id) \in Nat
  BY NumberFacts, SyncAssumption DEF Ids
<1>3. setup.version \in Nat \ {0}
  BY SyncAssumption DEF TypeOK
<1>4. Merged(changes[id], server[id]) \in Change
  BY <1>1 DEF Merged, Change
<1> DEFINE won == IF Present(server[id]) THEN Merged(changes[id], server[id]) ELSE changes[id]
<1>5. won \in Change
  BY <1>1, <1>4
<1>6. Winner(changes, id) = [won EXCEPT !.version = setup.version, !.sequence = Number(changes, id)]
  BY DEF Winner
<1> HIDE DEF won
<1>7. setup.version \in Nat
  BY <1>3
<1>8. Winner(changes, id) \in Change /\ Winner(changes, id).version = setup.version
          /\ Winner(changes, id).sequence = Number(changes, id)
  <2>1. PICK v \in Nat, n \in Nat : v = setup.version /\ n = Number(changes, id)
    BY <1>2, <1>7
  <2>2. PICK c \in Change : c = won
    BY <1>5
  <2>3. Winner(changes, id) = [c EXCEPT !.version = v, !.sequence = n]
    BY <1>6, <2>1, <2>2
  <2>4. /\ [c EXCEPT !.version = v, !.sequence = n] \in Change
        /\ [c EXCEPT !.version = v, !.sequence = n].version = v
        /\ [c EXCEPT !.version = v, !.sequence = n].sequence = n
    BY DEF Change
  <2>5. Winner(changes, id) \in Change
    BY <2>3, <2>4, Zenon
  <2>6. Winner(changes, id).version = v /\ Winner(changes, id).sequence = n
    BY <2>3, <2>4, Zenon
  <2> QED  BY <2>1, <2>5, <2>6
<1> QED  BY <1>3, <1>8 DEF Present

LEMMA PushResultType ==
    ASSUME TypeOK, NEW changes \in Records
    PROVE  PushResult(changes) \in [accepted : Records, refused : Records, cursor : Nat]
<1>1. \A id \in Ids : Winner(changes, id) \in Change /\ server[id] \in Change
  BY WinnerType DEF TypeOK, Records
<1> QED  BY <1>1, NoRecordType DEF PushResult, Records

\* Clock::observe: the clock moves to the latest of its reading and the
\* stamps of the answer.
LEMMA ObservedFacts ==
    ASSUME TypeOK, NEW r \in Replicas, NEW f \in Records
    PROVE  LET o == Observed(r, {f[id] : id \in Ids})
           IN  /\ o \in Nat \X Nat /\ AtLeast(o, last[r])
               /\ \A id \in Ids : Present(f[id]) => AtLeast(o, <<f[id].stamp[1], f[id].stamp[2]>>)
<1> DEFINE seen == {<<c.stamp[1], c.stamp[2]>> : c \in {d \in {f[id] : id \in Ids} : Present(d)}}
                       \union {last[r]}
           g == [id \in Ids |-> <<f[id].stamp[1], f[id].stamp[2]>>]
           T == {g[id] : id \in Ids}
<1>1. IsFiniteSet(Ids)
  BY FS_Interval, SyncAssumption DEF Ids
<1>2. g \in Surjection(Ids, T)
  BY DEF Surjection
<1>3. IsFiniteSet(T)
  BY <1>1, <1>2, FS_Surjection
<1>4. seen \in SUBSET (T \union {last[r]})
  OBVIOUS
<1>5. IsFiniteSet(T \union {last[r]})
  BY <1>3, FS_AddElement
<1>6. IsFiniteSet(seen)
  BY <1>4, <1>5, FS_Subset
<1>7. seen \in SUBSET (Nat \X Nat)
  <2>1. \A id \in Ids : f[id] \in Change
    BY DEF Records
  <2>2. \A id \in Ids : f[id].stamp[1] \in Nat /\ f[id].stamp[2] \in Nat
    BY <2>1, ChangeType
  <2> QED  BY <2>2 DEF TypeOK
<1>8. last[r] \in seen /\ \A id \in Ids : Present(f[id]) => <<f[id].stamp[1], f[id].stamp[2]>> \in seen
  OBVIOUS
<1>9. Observed(r, {f[id] : id \in Ids}) = CHOOSE s \in seen : \A o \in seen : AtLeast(s, o)
  BY DEF Observed, AtLeast
<1> HIDE DEF seen
<1>10. \E s \in seen : \A o \in seen : AtLeast(s, o)
  BY <1>6, <1>7, <1>8, LatestExists
<1>11. /\ Observed(r, {f[id] : id \in Ids}) \in seen
       /\ \A o \in seen : AtLeast(Observed(r, {f[id] : id \in Ids}), o)
  BY <1>9, <1>10
<1> QED  BY <1>7, <1>8, <1>11
-----------------------------------------------------------------------------
(* What each step does, record by record. *)

LEMMA ServeFacts ==
    ASSUME TypeOK, NEW changes \in Records, ServePush(changes), setup' = setup
    PROVE  /\ server' \in Records /\ sequence' \in Nat /\ sequence' >= sequence
           /\ \A id \in Ids :
                  /\ server'[id].sequence <= sequence'
                  /\ ~Accepts(changes, id) => server'[id] = server[id]
                  /\ Accepts(changes, id) => /\ server'[id] = Winner(changes, id)
                                             /\ server'[id].sequence > sequence
                                             /\ server'[id] \in Change /\ Present(server'[id])
<1>1. Ids \subseteq Nat /\ NumIds \in Nat /\ \A id \in Ids : id <= NumIds
  BY SyncAssumption DEF Ids
<1>2. \A id \in Ids : server[id] \in Change /\ server[id].sequence <= sequence
  BY DEF TypeOK, Records
<1>3. \A id \in Ids : server'[id] = IF Accepts(changes, id) THEN Winner(changes, id) ELSE server[id]
  BY DEF ServePush
<1>4. \A id \in Ids : /\ Winner(changes, id) \in Change /\ Present(Winner(changes, id))
                      /\ Winner(changes, id).sequence = Number(changes, id)
  BY WinnerType
<1>5. server' \in Records
  BY <1>2, <1>4 DEF ServePush, Records
<1>6. sequence \in Nat /\ sequence' = Number(changes, NumIds)
  BY DEF ServePush, TypeOK
<1>7. \A id \in Ids : Number(changes, id) <= Number(changes, NumIds) /\ Number(changes, id) \in Nat
  BY <1>1, NumberFacts
<1>8. Number(changes, NumIds) \in Nat /\ Number(changes, NumIds) >= sequence
  BY <1>1, NumberFacts
<1>9. \A id \in Ids : Accepts(changes, id) => Number(changes, id) > sequence
  BY NumberFacts
<1>10. \A id \in Ids : server[id].sequence \in Nat
  BY <1>2, ChangeType
<1> QED  BY <1>2, <1>3, <1>4, <1>5, <1>6, <1>7, <1>8, <1>9, <1>10

Copies == [records : Records, pending : Records, cursor : Nat]

LEMMA WriteFacts ==
    ASSUME TypeOK, NEW r \in Replicas, NEW id \in Ids, NEW live \in BOOLEAN,
           NEW owner \in setup.owners \union {Everyone}, Write(r, id, live, owner)
    PROVE  /\ local' \in [Replicas -> Copies] /\ last' \in [Replicas -> Nat \X Nat]
           /\ \A q \in Replicas : q # r => local'[q] = local[q] /\ last'[q] = last[q]
           /\ local'[r].cursor = local[r].cursor /\ last'[r] = Ticked(r)
           /\ \A i \in Ids \ {id} : local'[r].records[i] = local[r].records[i]
                                    /\ local'[r].pending[i] = local[r].pending[i]
           /\ local'[r].records[id] = Edit(r, id, live, owner)
           /\ local'[r].pending[id] = Edit(r, id, live, owner)
<1> DEFINE e == Edit(r, id, live, owner)
<1>1. e \in Change /\ local \in [Replicas -> Copies] /\ local[r] \in Copies
  BY EditType DEF TypeOK, Copies
<1>2. local' = [local EXCEPT ![r] = [local[r] EXCEPT !.records = [local[r].records EXCEPT ![id] = e],
                                                     !.pending = [local[r].pending EXCEPT ![id] = e]]]
  BY <1>1 DEF Write, Copies
<1> HIDE DEF e
<1>3. [local[r].records EXCEPT ![id] = e] \in Records /\ [local[r].pending EXCEPT ![id] = e] \in Records
  BY <1>1 DEF Copies, Records
<1>4. local' \in [Replicas -> Copies]
  BY <1>1, <1>2, <1>3 DEF Copies
<1>5. /\ local'[r].cursor = local[r].cursor
      /\ local'[r].records = [local[r].records EXCEPT ![id] = e]
      /\ local'[r].pending = [local[r].pending EXCEPT ![id] = e]
      /\ \A q \in Replicas : q # r => local'[q] = local[q]
  BY <1>1, <1>2 DEF Copies
<1>6. Ticked(r) \in Nat \X Nat
  BY TickedType
<1>7. /\ last' \in [Replicas -> Nat \X Nat] /\ last'[r] = Ticked(r)
      /\ \A q \in Replicas : q # r => last'[q] = last[q]
  BY <1>6 DEF Write, TypeOK
<1>8. local[r].records \in Records /\ local[r].pending \in Records
  BY <1>1 DEF Copies
<1>9. /\ \A i \in Ids \ {id} : local'[r].records[i] = local[r].records[i]
                               /\ local'[r].pending[i] = local[r].pending[i]
      /\ local'[r].records[id] = e /\ local'[r].pending[id] = e
  BY <1>5, <1>8 DEF Records
<1> QED  BY <1>4, <1>5, <1>7, <1>9 DEF e

LEMMA PushedFacts ==
    ASSUME TypeOK, NEW r \in Replicas, Pushed(r)
    PROVE  /\ local' \in [Replicas -> Copies] /\ last' \in [Replicas -> Nat \X Nat]
           /\ \A q \in Replicas : q # r => local'[q] = local[q] /\ last'[q] = last[q]
           /\ local'[r].cursor = local[r].cursor
           /\ \A i \in Ids :
                /\ local'[r].records[i] = IF Answered(r, i) THEN Answer(r, i) ELSE local[r].records[i]
                /\ local'[r].pending[i] = IF Answered(r, i) THEN NoRecord ELSE local[r].pending[i]
           /\ AtLeast(last'[r], last[r])
           /\ \A i \in Ids : Answered(r, i) =>
                  AtLeast(last'[r], <<Answer(r, i).stamp[1], Answer(r, i).stamp[2]>>)
<1>1. local \in [Replicas -> Copies] /\ local[r] \in Copies
  BY DEF TypeOK, Copies
<1>2. reply[r].accepted \in Records /\ reply[r].refused \in Records
  BY DEF TypeOK
<1> DEFINE f == [i \in Ids |-> Answer(r, i)]
           R == [i \in Ids |-> IF Answered(r, i) THEN Answer(r, i) ELSE local[r].records[i]]
           P == [i \in Ids |-> IF Answered(r, i) THEN NoRecord ELSE local[r].pending[i]]
<1>3. f \in Records
  BY <1>2 DEF Answer, Records
<1>4. R \in Records /\ P \in Records
  BY <1>1, <1>3, NoRecordType DEF Records, Copies
<1>5. local' = [local EXCEPT ![r] = [local[r] EXCEPT !.records = R, !.pending = P]]
  BY <1>1 DEF Pushed, Copies
<1>6. {Answer(r, i) : i \in Ids} = {f[i] : i \in Ids}
  OBVIOUS
<1>7. last' = [last EXCEPT ![r] = Observed(r, {f[i] : i \in Ids})]
  BY <1>6 DEF Pushed
<1>8. \A i \in Ids : f[i] = Answer(r, i) /\ (Answered(r, i) => Present(f[i]))
  BY DEF Answered, Answer
<1>9. \A i \in Ids : /\ R[i] = IF Answered(r, i) THEN Answer(r, i) ELSE local[r].records[i]
                     /\ P[i] = IF Answered(r, i) THEN NoRecord ELSE local[r].pending[i]
  OBVIOUS
<1> HIDE DEF f, R, P
<1>10. /\ Observed(r, {f[i] : i \in Ids}) \in Nat \X Nat
       /\ AtLeast(Observed(r, {f[i] : i \in Ids}), last[r])
       /\ \A i \in Ids : Present(f[i]) =>
              AtLeast(Observed(r, {f[j] : j \in Ids}), <<f[i].stamp[1], f[i].stamp[2]>>)
  BY <1>3, ObservedFacts
<1>11. /\ local' \in [Replicas -> Copies] /\ local'[r].records = R /\ local'[r].pending = P
       /\ local'[r].cursor = local[r].cursor
       /\ \A q \in Replicas : q # r => local'[q] = local[q]
  BY <1>1, <1>4, <1>5 DEF Copies
<1>12. /\ last' \in [Replicas -> Nat \X Nat] /\ last'[r] = Observed(r, {f[i] : i \in Ids})
       /\ \A q \in Replicas : q # r => last'[q] = last[q]
  BY <1>7, <1>10 DEF TypeOK
<1> QED  BY <1>8, <1>9, <1>10, <1>11, <1>12

LEMMA PulledFacts ==
    ASSUME TypeOK, NEW r \in Replicas, Pulled(r)
    PROVE  /\ local' \in [Replicas -> Copies] /\ last' \in [Replicas -> Nat \X Nat]
           /\ \A q \in Replicas : q # r => local'[q] = local[q] /\ last'[q] = last[q]
           /\ local'[r].cursor = reply[r].cursor
           /\ \A i \in Ids :
                /\ local'[r].records[i] =
                       IF Present(reply[r].accepted[i]) /\ ~KeepsLocal(r, i)
                         THEN reply[r].accepted[i] ELSE local[r].records[i]
                /\ local'[r].pending[i] = local[r].pending[i]
           /\ AtLeast(last'[r], last[r])
           /\ \A i \in Ids : Present(reply[r].accepted[i]) =>
                  AtLeast(last'[r], <<reply[r].accepted[i].stamp[1], reply[r].accepted[i].stamp[2]>>)
<1>1. local \in [Replicas -> Copies] /\ local[r] \in Copies
  BY DEF TypeOK, Copies
<1>2. reply[r].accepted \in Records /\ reply[r].cursor \in Nat
  BY DEF TypeOK
<1> DEFINE f == reply[r].accepted
           R == [i \in Ids |-> IF Present(f[i]) /\ ~KeepsLocal(r, i) THEN f[i] ELSE local[r].records[i]]
<1>3. R \in Records
  BY <1>1, <1>2 DEF Records, Copies
<1>4. local' = [local EXCEPT ![r] = [local[r] EXCEPT !.records = R, !.cursor = reply[r].cursor]]
  BY <1>1 DEF Pulled, Copies
<1>5. last' = [last EXCEPT ![r] = Observed(r, {f[i] : i \in Ids})]
  BY DEF Pulled
<1>6. \A i \in Ids : R[i] = IF Present(f[i]) /\ ~KeepsLocal(r, i) THEN f[i] ELSE local[r].records[i]
  OBVIOUS
<1> HIDE DEF R
<1>7. /\ Observed(r, {f[i] : i \in Ids}) \in Nat \X Nat
      /\ AtLeast(Observed(r, {f[i] : i \in Ids}), last[r])
      /\ \A i \in Ids : Present(f[i]) =>
             AtLeast(Observed(r, {f[j] : j \in Ids}), <<f[i].stamp[1], f[i].stamp[2]>>)
  BY <1>2, ObservedFacts
<1>8. /\ local' \in [Replicas -> Copies] /\ local'[r].records = R /\ local'[r].pending = local[r].pending
      /\ local'[r].cursor = reply[r].cursor
      /\ \A q \in Replicas : q # r => local'[q] = local[q]
  BY <1>1, <1>2, <1>3, <1>4 DEF Copies
<1>9. /\ last' \in [Replicas -> Nat \X Nat] /\ last'[r] = Observed(r, {f[i] : i \in Ids})
      /\ \A q \in Replicas : q # r => last'[q] = last[q]
  BY <1>5, <1>7 DEF TypeOK
<1> QED  BY <1>6, <1>7, <1>8, <1>9
-----------------------------------------------------------------------------
(* Types, and cursors that are not ahead of the server. *)

LEMMA InitType == Init => TypeOK /\ Cursors
<1> SUFFICES ASSUME Init PROVE TypeOK /\ Cursors
  OBVIOUS
<1>1. setup \in Setups /\ setup.version \in Nat \ {0}
  BY SyncAssumption DEF Init
<1>2. NewLocal \in Copies /\ NewLocal.cursor = 0
  BY NoRecordType DEF NewLocal, Copies
<1>3. NoReply \in [accepted : Records, refused : Records, cursor : Nat] /\ NoReply.cursor = 0
  BY NoRecordType DEF NoReply
<1>4. version \in [Replicas -> 1..setup.version]
  BY <1>1 DEF Init
<1>5. \A id \in Ids : Empty[id].sequence = 0
  BY DEF Empty, NoRecord
<1>6. TypeOK
  BY <1>1, <1>2, <1>3, <1>4, <1>5, NoRecordType DEF Init, TypeOK, Copies
<1> QED  BY <1>2, <1>3, <1>6 DEF Init, Cursors

Answers == [accepted : Records, refused : Records, cursor : Nat]

LEMMA SameSetup == setup' = setup => Change' = Change /\ Records' = Records
BY DEF Change, Records

LEMMA TypeFrame ==
    ASSUME TypeOK, Cursors, setup' = setup, server' = server, sequence' = sequence,
           local' \in [Replicas -> Copies], saved' \in [Replicas -> Copies],
           \A r \in Replicas : local'[r].cursor <= sequence /\ saved'[r].cursor <= sequence,
           version' \in [Replicas -> 1..setup.version], last' \in [Replicas -> Nat \X Nat],
           pc' \in [Replicas -> {"idle", "pushed", "pull", "pulled"}],
           reply' \in [Replicas -> Answers], \A r \in Replicas : reply'[r].cursor <= sequence,
           late' \subseteq Records, now' \in Nat, puts' \in Nat, faults' \in Nat, restarts' \in Nat,
           rewound' \subseteq Replicas
    PROVE  (TypeOK /\ Cursors)'
BY SameSetup DEF TypeOK, Cursors, Copies, Answers

LEMMA TypeNow ==
    ASSUME TypeOK, Cursors
    PROVE  /\ local \in [Replicas -> Copies] /\ saved \in [Replicas -> Copies]
           /\ reply \in [Replicas -> Answers] /\ sequence \in Nat
           /\ \A r \in Replicas : local[r].cursor <= sequence /\ saved[r].cursor <= sequence
                                     /\ reply[r].cursor <= sequence
           /\ version \in [Replicas -> 1..setup.version] /\ last \in [Replicas -> Nat \X Nat]
           /\ pc \in [Replicas -> {"idle", "pushed", "pull", "pulled"}]
           /\ late \subseteq Records /\ now \in Nat /\ puts \in Nat /\ faults \in Nat /\ restarts \in Nat
           /\ rewound \subseteq Replicas
BY DEF TypeOK, Cursors, Copies, Answers

LEMMA NoReplyType == NoReply \in Answers /\ NoReply.cursor = 0
BY NoRecordType DEF NoReply, Answers

LEMMA NextType == TypeOK /\ Cursors /\ [Next]_vars => (TypeOK /\ Cursors)'
<1> SUFFICES ASSUME TypeOK, Cursors, [Next]_vars PROVE (TypeOK /\ Cursors)'
  OBVIOUS
<1> USE TypeNow, NoReplyType
<1>1. CASE UNCHANGED vars
  BY <1>1, TypeFrame DEF vars, serverVars, replicaVars, bounds
<1>2. ASSUME NEW r \in Replicas, NEW id \in Ids, NEW live \in BOOLEAN,
             NEW owner \in setup.owners \union {Everyone}, Write(r, id, live, owner)
      PROVE  (TypeOK /\ Cursors)'
  <2>1. /\ local' \in [Replicas -> Copies] /\ last' \in [Replicas -> Nat \X Nat]
        /\ \A q \in Replicas : local'[q].cursor = local[q].cursor
    <3>1. /\ local' \in [Replicas -> Copies] /\ last' \in [Replicas -> Nat \X Nat]
          /\ \A q \in Replicas : q # r => local'[q] = local[q]
          /\ local'[r].cursor = local[r].cursor
      BY <1>2, WriteFacts
    <3> QED  BY <3>1
  <2>2. /\ setup' = setup /\ server' = server /\ sequence' = sequence
        /\ UNCHANGED <<saved, version, pc, reply, late, faults, restarts, rewound, now>>
    BY <1>2 DEF Write, serverVars
  <2>3. puts' \in Nat
    BY <1>2 DEF Write, TypeOK
  <2> QED  BY <2>1, <2>2, <2>3, TypeFrame DEF TypeOK, Cursors
<1>3. ASSUME NEW r \in Replicas, Snapshot(r) PROVE (TypeOK /\ Cursors)'
  BY <1>3, TypeFrame DEF Snapshot, serverVars, bounds
<1>4. ASSUME NEW r \in Replicas, Restart(r) PROVE (TypeOK /\ Cursors)'
  <2>1. setup.version \in 1..setup.version
    BY SyncAssumption DEF TypeOK
  <2>2. version' \in [Replicas -> 1..setup.version]
    BY <1>4, <2>1 DEF Restart
  <2> QED  BY <1>4, <2>2, TypeFrame DEF Restart, serverVars
<1>5. ASSUME NEW r \in Replicas, Push(r) PROVE (TypeOK /\ Cursors)'
  <2>1. local[r].pending \in Records /\ setup' = setup /\ ServePush(local[r].pending)
    BY <1>5 DEF Push, Copies
  <2>2. /\ server' \in Records /\ sequence' \in Nat /\ sequence' >= sequence
        /\ \A id \in Ids : server'[id].sequence <= sequence'
    BY <2>1, ServeFacts
  <2>3. PushResult(local[r].pending) \in Answers /\ PushResult(local[r].pending).cursor = 0
    BY <2>1, PushResultType DEF Answers, PushResult
  <2>4. reply' \in [Replicas -> Answers] /\ \A q \in Replicas : reply'[q].cursor <= sequence
    BY <1>5, <2>3 DEF Push
  <2>5. \A q \in Replicas : local[q].cursor \in Nat /\ saved[q].cursor \in Nat /\ reply'[q].cursor \in Nat
    BY <2>4 DEF Copies, Answers
  <2>6. /\ \A q \in Replicas : local'[q].cursor <= sequence' /\ saved'[q].cursor <= sequence'
                                  /\ reply'[q].cursor <= sequence'
        /\ local' \in [Replicas -> Copies] /\ saved' \in [Replicas -> Copies]
        /\ pc' \in [Replicas -> {"idle", "pushed", "pull", "pulled"}]
    BY <1>5, <2>2, <2>4, <2>5 DEF Push
  <2> QED  BY <1>5, <2>1, <2>2, <2>4, <2>6, SameSetup DEF Push, TypeOK, Cursors, Copies, Answers, bounds
<1>6. ASSUME NEW r \in Replicas, Pushed(r) PROVE (TypeOK /\ Cursors)'
  <2>1. /\ local' \in [Replicas -> Copies] /\ last' \in [Replicas -> Nat \X Nat]
        /\ \A q \in Replicas : local'[q].cursor = local[q].cursor
    BY <1>6, PushedFacts
  <2> QED  BY <1>6, <2>1, TypeFrame DEF Pushed, serverVars, bounds
<1>7. ASSUME NEW r \in Replicas, Pull(r) PROVE (TypeOK /\ Cursors)'
  <2>1. PullResult(r) \in Answers /\ PullResult(r).cursor = sequence
    BY NoRecordType DEF PullResult, Answers, TypeOK, Records
  <2>2. reply' \in [Replicas -> Answers] /\ \A q \in Replicas : reply'[q].cursor <= sequence
    <3>1. reply' = reply \/ reply' = [reply EXCEPT ![r] = PullResult(r)]
      BY <1>7 DEF Pull
    <3>2. CASE reply' = reply
      BY <3>2
    <3>3. CASE reply' = [reply EXCEPT ![r] = PullResult(r)]
      BY <2>1, <3>3
    <3> QED  BY <3>1, <3>2, <3>3
  <2> QED  BY <1>7, <2>2, TypeFrame DEF Pull, serverVars, bounds
<1>8. ASSUME NEW r \in Replicas, Pulled(r) PROVE (TypeOK /\ Cursors)'
  <2>1. /\ local' \in [Replicas -> Copies] /\ last' \in [Replicas -> Nat \X Nat]
        /\ \A q \in Replicas : local'[q].cursor <= sequence
    BY <1>8, PulledFacts
  <2> QED  BY <1>8, <2>1, TypeFrame DEF Pulled, serverVars, bounds
<1>9. ASSUME NEW r \in Replicas, Unreachable(r) PROVE (TypeOK /\ Cursors)'
  <2>1. late' \subseteq Records
    BY <1>9 DEF Unreachable, Copies
  <2> QED  BY <1>9, <2>1, TypeFrame DEF Unreachable, serverVars
<1>10. CASE Late
  <2>1. PICK changes \in Records : /\ ServePush(changes) /\ late' = late \ {changes}
                                   /\ UNCHANGED <<setup, replicaVars, bounds, rewound>>
    BY <1>10 DEF Late
  <2>2. setup' = setup
    BY <2>1
  <2>3. /\ server' \in Records /\ sequence' \in Nat /\ sequence' >= sequence
        /\ \A id \in Ids : server'[id].sequence <= sequence'
    BY <2>1, <2>2, ServeFacts
  <2>4. \A q \in Replicas : local[q].cursor \in Nat /\ saved[q].cursor \in Nat /\ reply[q].cursor \in Nat
    BY DEF Copies, Answers
  <2>5. \A q \in Replicas : local'[q].cursor <= sequence' /\ saved'[q].cursor <= sequence'
                                  /\ reply'[q].cursor <= sequence'
    BY <2>1, <2>3, <2>4 DEF replicaVars
  <2> QED  BY <2>1, <2>2, <2>3, <2>5, SameSetup DEF TypeOK, Cursors, Copies, Answers, replicaVars, bounds
<1>11. CASE Tick
  BY <1>11, TypeFrame DEF Tick, serverVars, replicaVars
<1> QED  BY <1>1, <1>2, <1>3, <1>4, <1>5, <1>6, <1>7, <1>8, <1>9, <1>10, <1>11
         DEF Next, SyncStep, Put, Delete
-----------------------------------------------------------------------------
(* No step but a write makes a change, and only the server's numbers one. *)

LEMMA ChangesOf ==
    ASSUME TypeOK, NEW id \in Ids
    PROVE  /\ NoRecord \in Changes(id) /\ server[id] \in Changes(id) /\ Typed(Changes(id))
           /\ \A changes \in late : changes[id] \in Changes(id)
           /\ \A r \in Replicas :
                  /\ local[r].records[id] \in Changes(id) /\ local[r].pending[id] \in Changes(id)
                  /\ saved[r].records[id] \in Changes(id) /\ saved[r].pending[id] \in Changes(id)
                  /\ reply[r].accepted[id] \in Changes(id) /\ reply[r].refused[id] \in Changes(id)
<1>1. NoRecord \in Change /\ server[id] \in Change /\ \A changes \in late : changes[id] \in Change
  BY NoRecordType DEF TypeOK, Records
<1>2. \A r \in Replicas :
         /\ local[r].records[id] \in Change /\ local[r].pending[id] \in Change
         /\ saved[r].records[id] \in Change /\ saved[r].pending[id] \in Change
         /\ reply[r].accepted[id] \in Change /\ reply[r].refused[id] \in Change
  BY DEF TypeOK, Records
<1>3. Typed(Changes(id))
  BY ChangeType DEF Typed, Changes
<1> QED  BY <1>1, <1>2, <1>3 DEF Changes

\* Where the changes after a step come from.
LEMMA ChangesAfter ==
    ASSUME setup' = setup, NEW id \in Ids, NEW C, NoRecord \in C, server'[id] \in C,
           \A changes \in late' : changes[id] \in C,
           \A r \in Replicas :
               /\ local'[r].records[id] \in C /\ local'[r].pending[id] \in C
               /\ saved'[r].records[id] \in C /\ saved'[r].pending[id] \in C
               /\ reply'[r].accepted[id] \in C /\ reply'[r].refused[id] \in C
    PROVE  Changes(id)' \subseteq C
<1> SUFFICES ASSUME NEW c \in Changes(id)' PROVE c \in C
  OBVIOUS
<1>1. \/ c \in {NoRecord, server'[id]}
      \/ \E changes \in late' : c = changes[id]
      \/ \E r \in Replicas :
            c \in {local'[r].records[id], local'[r].pending[id], saved'[r].records[id],
                   saved'[r].pending[id], reply'[r].accepted[id], reply'[r].refused[id]}
  BY DEF Changes
<1> QED  BY <1>1

LEMMA NoReplyChanges ==
    \A id \in Ids : NoReply.accepted[id] = NoRecord /\ NoReply.refused[id] = NoRecord
BY DEF NoReply, Empty

LEMMA WriteChanges ==
    ASSUME TypeOK, NEW r \in Replicas, NEW id \in Ids, NEW live \in BOOLEAN,
           NEW owner \in setup.owners \union {Everyone}, Write(r, id, live, owner), NEW i \in Ids
    PROVE  Changes(i)' \subseteq IF i = id THEN Changes(i) \union {Edit(r, id, live, owner)} ELSE Changes(i)
<1>1. /\ \A q \in Replicas \ {r} : local'[q] = local[q]
      /\ i # id => local'[r].records[i] = local[r].records[i] /\ local'[r].pending[i] = local[r].pending[i]
      /\ i = id => local'[r].records[i] = Edit(r, id, live, owner)
                   /\ local'[r].pending[i] = Edit(r, id, live, owner)
  BY WriteFacts
<1>2. setup' = setup /\ server' = server /\ saved' = saved /\ reply' = reply /\ late' = late
  BY DEF Write, serverVars
<1>3. CASE i = id
  <2>1. \A q \in Replicas : /\ local'[q].records[i] \in Changes(i) \union {Edit(r, id, live, owner)}
                            /\ local'[q].pending[i] \in Changes(i) \union {Edit(r, id, live, owner)}
    BY <1>1, <1>3, ChangesOf
  <2> QED  BY <1>2, <1>3, <2>1, ChangesOf, ChangesAfter
<1>4. CASE i # id
  <2>1. \A q \in Replicas : local'[q].records[i] \in Changes(i) /\ local'[q].pending[i] \in Changes(i)
    BY <1>1, <1>4, ChangesOf
  <2> QED  BY <1>2, <1>4, <2>1, ChangesOf, ChangesAfter
<1> QED  BY <1>3, <1>4

\* A push adds the server's new copy.
LEMMA ServeChanges ==
    ASSUME TypeOK, NEW changes \in Records, ServePush(changes), setup' = setup, NEW id \in Ids,
           local' = local, saved' = saved, late' \subseteq late,
           \A r \in Replicas :
               \/ reply'[r] = reply[r]
               \/ reply'[r] = PushResult(changes)
    PROVE  Changes(id)' \subseteq Changes(id) \union {server'[id]}
<1>1. \A r \in Replicas : /\ reply'[r].accepted[id] \in Changes(id) \union {server'[id]}
                          /\ reply'[r].refused[id] \in Changes(id) \union {server'[id]}
  <2>1. PushResult(changes).accepted[id] = IF Accepts(changes, id) THEN server'[id] ELSE NoRecord
    BY DEF PushResult, ServePush
  <2>2. PushResult(changes).refused[id] \in {server[id], NoRecord}
    BY DEF PushResult
  <2> QED  BY <2>1, <2>2, ChangesOf
<1> QED  BY <1>1, ChangesOf, ChangesAfter

\* No other step adds any.
OtherStep ==
    \/ UNCHANGED vars
    \/ \E r \in Replicas : Snapshot(r) \/ Restart(r) \/ Pushed(r) \/ Pull(r) \/ Pulled(r) \/ Unreachable(r)
    \/ Tick

LEMMA OtherChanges ==
    ASSUME TypeOK, OtherStep, NEW id \in Ids
    PROVE  Changes(id)' \subseteq Changes(id)
<1> USE ChangesOf, NoReplyChanges
<1> DEFINE Kept(copy) == copy.records[id] \in Changes(id) /\ copy.pending[id] \in Changes(id)
           Known(answer) == answer.accepted[id] \in Changes(id) /\ answer.refused[id] \in Changes(id)
<1>1. \A r \in Replicas : Kept(local[r]) /\ Kept(saved[r]) /\ Known(reply[r]) /\ Known(NoReply)
  OBVIOUS
<1>2. ASSUME setup' = setup, server' = server, \A changes \in late' : changes[id] \in Changes(id),
             \A r \in Replicas : Kept(local'[r]) /\ Kept(saved'[r]) /\ Known(reply'[r])
      PROVE  Changes(id)' \subseteq Changes(id)
  BY <1>2, ChangesAfter
<1>3. CASE UNCHANGED vars
  BY <1>1, <1>2, <1>3 DEF vars, serverVars, replicaVars
<1>4. CASE Tick
  BY <1>1, <1>2, <1>4 DEF Tick, serverVars, replicaVars
<1>5. ASSUME NEW r \in Replicas, Snapshot(r) PROVE Changes(id)' \subseteq Changes(id)
  <2>1. \A q \in Replicas : saved'[q] \in {saved[q], local[q]}
    BY <1>5 DEF Snapshot, TypeOK
  <2> QED  BY <1>1, <1>2, <1>5, <2>1 DEF Snapshot, serverVars
<1>6. ASSUME NEW r \in Replicas, Restart(r) PROVE Changes(id)' \subseteq Changes(id)
  <2>1. \A q \in Replicas : local'[q] \in {local[q], saved[q]} /\ reply'[q] \in {reply[q], NoReply}
    BY <1>6 DEF Restart, TypeOK
  <2> QED  BY <1>1, <1>2, <1>6, <2>1 DEF Restart, serverVars
<1>7. ASSUME NEW r \in Replicas, Pushed(r) PROVE Changes(id)' \subseteq Changes(id)
  <2>1. \A q \in Replicas : reply'[q] \in {reply[q], NoReply}
    BY <1>7 DEF Pushed, TypeOK
  <2>2. Answer(r, id) \in Changes(id)
    BY DEF Answer
  <2>3. \A q \in Replicas : Kept(local'[q])
    BY <1>1, <1>7, <2>2, PushedFacts
  <2> QED  BY <1>1, <1>2, <1>7, <2>1, <2>3 DEF Pushed, serverVars
<1>8. ASSUME NEW r \in Replicas, Pull(r) PROVE Changes(id)' \subseteq Changes(id)
  <2>1. Known(PullResult(r))
    BY DEF PullResult, Empty
  <2>2. \A q \in Replicas : reply'[q] \in {reply[q], PullResult(r)}
    BY <1>8 DEF Pull, TypeOK
  <2> QED  BY <1>1, <1>2, <1>8, <2>1, <2>2 DEF Pull, serverVars
<1>9. ASSUME NEW r \in Replicas, Pulled(r) PROVE Changes(id)' \subseteq Changes(id)
  <2>1. \A q \in Replicas : reply'[q] \in {reply[q], NoReply}
    BY <1>9 DEF Pulled, TypeOK
  <2>2. \A q \in Replicas : Kept(local'[q])
    BY <1>1, <1>9, PulledFacts
  <2> QED  BY <1>1, <1>2, <1>9, <2>1, <2>2 DEF Pulled, serverVars
<1>10. ASSUME NEW r \in Replicas, Unreachable(r) PROVE Changes(id)' \subseteq Changes(id)
  <2>1. \A q \in Replicas : reply'[q] \in {reply[q], NoReply}
    BY <1>10 DEF Unreachable, TypeOK
  <2>2. \A changes \in late' : changes[id] \in Changes(id)
    BY <1>1, <1>10 DEF Unreachable
  <2> QED  BY <1>1, <1>2, <1>10, <2>1, <2>2 DEF Unreachable, serverVars
<1> QED  BY <1>3, <1>4, <1>5, <1>6, <1>7, <1>8, <1>9, <1>10 DEF OtherStep
\* The server's new copy of a record, whatever the policy.
LEMMA AcceptNumbered ==
    ASSUME NEW C, NEW D, NEW s \in C, NEW n \in D, D \subseteq C \union {n}, Typed(C), Typed({n}),
           NEW d \in C, n.sequence > s.sequence, Present(n), n.base = d.base, NEW p \in Nat,
           n.writes \subseteq d.writes \union s.writes, ~n.live => n.writes = {},
           Numbered(C, s, p)
    PROVE  Numbered(D, n, p)
<1>1. \A c \in C : /\ c.base <= s.sequence /\ c.sequence <= s.sequence /\ c.writes \subseteq 1..p
                   /\ c.base \in Nat /\ c.sequence \in Nat /\ (~c.live => c.writes = {})
  BY DEF Numbered, Typed
<1>2. s.sequence \in Nat /\ n.sequence \in Nat /\ n.sequence > 0
  BY DEF Typed
<1>3. \A c \in C : c.base <= n.sequence /\ c.sequence < n.sequence
  BY <1>1, <1>2
<1>4. n.base <= n.sequence /\ n.writes \subseteq 1..p
  BY <1>1, <1>3
<1> QED  BY <1>1, <1>2, <1>3, <1>4 DEF Numbered

LEMMA CopyAfter ==
    ASSUME TypeOK', NEW id \in Ids
    PROVE  server'[id] \in Changes(id)'
<1>1. server'[id] \in Change'
  BY DEF TypeOK, Records
<1> QED  BY <1>1 DEF Changes

LEMMA HistoryKept ==
    ASSUME TypeOK, TypeOK', History, setup' = setup, server' = server, puts' = puts,
           \A id \in Ids : Changes(id)' \subseteq Changes(id)
    PROVE  History'
<1> SUFFICES ASSUME NEW id \in Ids
             PROVE  /\ Numbered(Changes(id), server[id], puts)'
                    /\ setup.policy = "ServerAuthority" =>
                           Lineage(Changes(id))' /\ Descends(Changes(id), server[id])'
  BY DEF History
<1>1. server'[id] \in Changes(id)' /\ puts \in Nat
  BY CopyAfter DEF TypeOK
<1>2. Numbered(Changes(id), server[id], puts)
  BY DEF History
<1>3. Numbered(Changes(id)', server'[id], puts)
  BY <1>1, <1>2, FewerNumbered
<1>4. ASSUME setup.policy = "ServerAuthority"
      PROVE  Lineage(Changes(id)') /\ Descends(Changes(id)', server'[id])
  <2>1. Lineage(Changes(id)) /\ Descends(Changes(id), server[id])
    BY <1>4 DEF History
  <2> QED  BY <2>1, FewerLineage
<1> QED  BY <1>3, <1>4

LEMMA HistoryWrite ==
    ASSUME TypeOK, TypeOK', History, NEW r \in Replicas, NEW id \in Ids, NEW live \in BOOLEAN,
           NEW owner \in setup.owners \union {Everyone}, Write(r, id, live, owner)
    PROVE  History'
<1> SUFFICES ASSUME NEW i \in Ids
             PROVE  /\ Numbered(Changes(i), server[i], puts)'
                    /\ setup.policy = "ServerAuthority" =>
                           Lineage(Changes(i))' /\ Descends(Changes(i), server[i])'
  BY DEF History, Write
<1> DEFINE e == Edit(r, id, live, owner)
           seen == local[r].records[id]
<1>1. setup' = setup /\ server' = server /\ puts' = puts + 1 /\ puts \in Nat
  BY DEF Write, serverVars, TypeOK
<1>2. server[i] \in Changes(i)' /\ server[i] \in Changes(i) /\ Typed(Changes(i))
  BY <1>1, ChangesOf, CopyAfter
<1>3. Numbered(Changes(i), server[i], puts)
  BY DEF History
<1>4. setup.policy = "ServerAuthority" => Lineage(Changes(i)) /\ Descends(Changes(i), server[i])
  BY DEF History
<1>5. CASE i # id
  <2>1. Changes(i)' \subseteq Changes(i)
    BY <1>5, WriteChanges
  <2>2. Numbered(Changes(i)', server[i], puts + 1)
    BY <1>1, <1>2, <1>3, <2>1, FewerNumbered
  <2> QED  BY <1>1, <1>4, <2>1, <2>2, FewerLineage
<1>6. CASE i = id
  <2>1. Changes(i)' \subseteq Changes(i) \union {e} /\ seen \in Changes(i)
    BY <1>6, WriteChanges, ChangesOf
  <2>2. Typed({e})
    <3>1. e \in Change
      BY EditType
    <3> QED  BY <3>1, ChangeType DEF Typed
  <2>3. Edited(e, seen, puts)
    BY DEF Edited, Edit
  <2> HIDE DEF e, seen
  <2>4. Numbered(Changes(i)', server[i], puts + 1)
    BY <1>1, <1>2, <1>3, <2>1, <2>2, <2>3, EditNumbered
  <2>5. setup.policy = "ServerAuthority" => Lineage(Changes(i)')
    BY <1>1, <1>2, <1>3, <1>4, <2>1, <2>2, <2>3, EditLineage
  <2>6. setup.policy = "ServerAuthority" => Descends(Changes(i)', server[i])
    BY <1>1, <1>2, <1>3, <1>4, <2>1, <2>2, <2>3, EditDescends
  <2> QED  BY <1>1, <2>4, <2>5, <2>6
<1> QED  BY <1>5, <1>6

\* What a change settled says.
LEMMA WinnerFacts ==
    ASSUME TypeOK, NEW changes \in Records, NEW id \in Ids
    PROVE  LET n == Winner(changes, id)
               c == changes[id]
               s == server[id]
           IN  /\ n.base = c.base /\ n.live = c.live /\ c.writes \subseteq n.writes
               /\ n.writes \subseteq c.writes \union s.writes
               /\ ~c.live => n.writes = c.writes
               /\ setup.policy # "Merge" => n.writes = c.writes /\ n.stamp = c.stamp
               /\ setup.policy = "Merge" /\ c.live /\ s.live /\ Present(s) => s.writes \subseteq n.writes
<1> DEFINE c == changes[id]
           s == server[id]
           won == IF Present(s) THEN Merged(c, s) ELSE c
<1>1. c \in Change /\ s \in Change
  BY DEF TypeOK, Records
<1>2. Merged(c, s) \in Change
  BY <1>1 DEF Merged, Change
<1>3. /\ Merged(c, s).base = c.base /\ Merged(c, s).live = c.live
      /\ setup.policy # "Merge" => Merged(c, s) = c
      /\ setup.policy = "Merge" =>
             Merged(c, s).writes = IF c.live /\ s.live THEN c.writes \union s.writes ELSE c.writes
  BY <1>1 DEF Merged, Change
<1>4. won \in Change
  BY <1>1, <1>2
<1>5. Winner(changes, id) = [won EXCEPT !.version = setup.version, !.sequence = Number(changes, id)]
  BY DEF Winner
<1>6. /\ won.base = c.base /\ won.live = c.live /\ c.writes \subseteq won.writes
      /\ won.writes \subseteq c.writes \union s.writes
      /\ ~c.live => won.writes = c.writes
      /\ setup.policy # "Merge" => won.writes = c.writes /\ won.stamp = c.stamp
      /\ setup.policy = "Merge" /\ c.live /\ s.live /\ Present(s) => s.writes \subseteq won.writes
  BY <1>3
<1> HIDE DEF won
<1>7. /\ Winner(changes, id).base = won.base /\ Winner(changes, id).live = won.live
      /\ Winner(changes, id).writes = won.writes /\ Winner(changes, id).stamp = won.stamp
  <2>1. PICK w \in Change : w = won
    BY <1>4
  <2>2. /\ [w EXCEPT !.version = setup.version, !.sequence = Number(changes, id)].base = w.base
        /\ [w EXCEPT !.version = setup.version, !.sequence = Number(changes, id)].live = w.live
        /\ [w EXCEPT !.version = setup.version, !.sequence = Number(changes, id)].writes = w.writes
        /\ [w EXCEPT !.version = setup.version, !.sequence = Number(changes, id)].stamp = w.stamp
    BY DEF Change
  <2> QED  BY <1>5, <2>1, <2>2, Zenon
<1> QED  BY <1>6, <1>7

LEMMA HistoryServe ==
    ASSUME TypeOK, TypeOK', History, NEW changes \in Records, ServePush(changes),
           setup' = setup, puts' = puts,
           \A id \in Ids : changes[id] \in Changes(id) /\ Changes(id)' \subseteq Changes(id) \union {server'[id]}
    PROVE  History'
<1> SUFFICES ASSUME NEW id \in Ids
             PROVE  /\ Numbered(Changes(id), server[id], puts)'
                    /\ setup.policy = "ServerAuthority" =>
                           Lineage(Changes(id))' /\ Descends(Changes(id), server[id])'
  BY DEF History
<1> DEFINE s == server[id]
           n == server'[id]
           d == changes[id]
<1>1. /\ s \in Changes(id) /\ n \in Changes(id)' /\ Typed(Changes(id)) /\ d \in Changes(id)
      /\ Changes(id)' \subseteq Changes(id) \union {n} /\ puts \in Nat /\ puts' = puts
  BY ChangesOf, CopyAfter DEF TypeOK
<1>2. Numbered(Changes(id), s, puts)
  BY DEF History
<1>3. setup.policy = "ServerAuthority" => Lineage(Changes(id)) /\ Descends(Changes(id), s)
  BY DEF History
<1>4. CASE ~Accepts(changes, id)
  <2>1. n = s
    BY <1>4, ServeFacts
  <2>2. Changes(id)' \subseteq Changes(id)
    BY <1>1, <2>1
  <2> HIDE DEF n, s
  <2>3. Numbered(Changes(id)', n, puts)
    BY <1>1, <1>2, <2>1, <2>2, FewerNumbered
  <2>4. setup.policy = "ServerAuthority" => Lineage(Changes(id)') /\ Descends(Changes(id)', n)
    BY <1>3, <2>1, <2>2, FewerLineage
  <2> QED  BY <1>1, <2>3, <2>4 DEF n
<1>5. CASE Accepts(changes, id)
  <2>1. n = Winner(changes, id) /\ n.sequence > sequence /\ n \in Change /\ Present(n)
    BY <1>5, ServeFacts
  <2>2. s.sequence <= sequence /\ s \in Change /\ sequence \in Nat
    BY DEF TypeOK, Records
  <2>3. n.sequence > s.sequence /\ Typed({n})
    BY <2>1, <2>2, ChangeType DEF Typed
  <2>4. /\ n.base = d.base /\ n.live = d.live /\ n.writes \subseteq d.writes \union s.writes
        /\ ~d.live => n.writes = d.writes
        /\ setup.policy # "Merge" => n.writes = d.writes
    BY <2>1, WinnerFacts
  <2>5. Present(d) /\ (setup.policy = "ServerAuthority" /\ Present(s) => d.base >= s.sequence)
    BY <1>5 DEF Accepts, Served, Wins
  <2>6. ~d.live => d.writes = {}
    BY <1>1, <1>2 DEF Numbered
  <2> HIDE DEF n, s, d
  <2>7. Numbered(Changes(id)', n, puts)
    BY <1>1, <1>2, <2>1, <2>3, <2>4, <2>6, AcceptNumbered
  <2>8. ASSUME setup.policy = "ServerAuthority"
        PROVE  Lineage(Changes(id)') /\ Descends(Changes(id)', n)
    <3>1. Settled(n, d, s)
      BY <2>3, <2>4, <2>8 DEF Settled
    <3>2. Lineage(Changes(id)')
      BY <1>1, <1>2, <1>3, <2>3, <2>5, <2>8, <3>1, AcceptLineage
    <3>3. Descends(Changes(id)', n)
      BY <1>1, <1>2, <1>3, <2>3, <2>5, <2>8, <3>1, AcceptDescends
    <3> QED  BY <3>2, <3>3
  <2> QED  BY <1>1, <2>7, <2>8 DEF n
<1> QED  BY <1>4, <1>5
-----------------------------------------------------------------------------
(* A cursor never runs ahead of what was applied. *)

Moves(id) == server'[id] = server[id] \/ server'[id].sequence > sequence

\* Nothing but a push, prompt or late, changes the server's records.
LEMMA OnlyPushes ==
    ASSUME Next, ~Late, ~(\E r \in Replicas : Push(r))
    PROVE  setup' = setup /\ server' = server
<1>1. ASSUME NEW r \in Replicas, NEW id \in Ids, Put(r, id) \/ Delete(r, id)
      PROVE  setup' = setup /\ server' = server
  BY <1>1 DEF Put, Delete, Write, serverVars
<1>2. ASSUME NEW r \in Replicas, Snapshot(r) \/ Restart(r) \/ Unreachable(r)
      PROVE  setup' = setup /\ server' = server
  BY <1>2 DEF Snapshot, Restart, Unreachable, serverVars
<1>3. ASSUME NEW r \in Replicas, Pushed(r) \/ Pull(r) \/ Pulled(r)
      PROVE  setup' = setup /\ server' = server
  BY <1>3 DEF Pushed, Pull, Pulled, serverVars
<1>4. ASSUME Tick PROVE setup' = setup /\ server' = server
  BY <1>4 DEF Tick, serverVars
<1> QED  BY <1>1, <1>2, <1>3, <1>4 DEF Next, SyncStep

LEMMA ServerMoves ==
    ASSUME TypeOK, [Next]_vars
    PROVE  setup' = setup /\ \A id \in Ids : Moves(id)
<1>1. ASSUME NEW changes \in Records, ServePush(changes), setup' = setup
      PROVE  \A id \in Ids : Moves(id)
  BY <1>1, ServeFacts DEF Moves
<1>2. ASSUME NEW r \in Replicas, Push(r)
      PROVE  setup' = setup /\ \A id \in Ids : Moves(id)
  <2>1. local[r].pending \in Records
    BY DEF TypeOK
  <2> QED  BY <1>1, <1>2, <2>1 DEF Push
<1>3. CASE Late
  <2>1. \A changes \in late : changes \in Records
    BY DEF TypeOK
  <2> QED  BY <1>1, <1>3, <2>1 DEF Late
<1>4. CASE UNCHANGED vars
  BY <1>4 DEF vars, serverVars, Moves
<1>5. CASE Next /\ ~Late /\ ~(\E r \in Replicas : Push(r))
  BY <1>5, OnlyPushes DEF Moves
<1> QED  BY <1>2, <1>3, <1>4, <1>5

\* What a copy or an answer holds survives what happens on the server.
LEMMA HoldsOn ==
    ASSUME NEW r, NEW id, NEW copy, setup' = setup, Holds(copy, r, id),
           server'[id] = server[id] \/ server'[id].sequence > copy.cursor
    PROVE  Matches(r, server[id])' =>
               Present(copy.pending[id]) \/ server'[id].sequence > copy.cursor
                   \/ copy.records[id] = server'[id]
BY DEF Holds, Matches

LEMMA WillHoldOn ==
    ASSUME NEW r, NEW id, setup' = setup, WillHold(r, id), local'[r] = local[r],
           reply'[r] = reply[r], pc'[r] = pc[r],
           \/ server'[id] = server[id]
           \/ server'[id].sequence > local[r].cursor /\ server'[id].sequence > reply[r].cursor
    PROVE  WillHold(r, id)'
BY DEF WillHold, Brought, Matches

LEMMA ReachStep ==
    ASSUME TypeOK, TypeOK', Cursors, Reach, History, [Next]_vars
    PROVE  Reach'
<1> SUFFICES ASSUME NEW r \in Replicas, NEW id \in Ids
             PROVE  Holds(local[r], r, id)' /\ Holds(saved[r], r, id)' /\ WillHold(r, id)'
  BY DEF Reach
<1>1. setup' = setup /\ Moves(id)
  BY ServerMoves
<1>2. /\ local[r].cursor \in Nat /\ saved[r].cursor \in Nat /\ reply[r].cursor \in Nat /\ sequence \in Nat
      /\ local[r].cursor <= sequence /\ saved[r].cursor <= sequence /\ reply[r].cursor <= sequence
      /\ server'[id].sequence \in Nat
  <2>1. server'[id] \in Change'
    BY DEF TypeOK, Records
  <2>2. server'[id].sequence \in Nat
    BY <2>1 DEF Change
  <2> QED  BY <2>2 DEF TypeOK, Cursors
<1>3. /\ server'[id] = server[id] \/ server'[id].sequence > local[r].cursor
      /\ server'[id] = server[id] \/ server'[id].sequence > saved[r].cursor
      /\ \/ server'[id] = server[id]
         \/ server'[id].sequence > local[r].cursor /\ server'[id].sequence > reply[r].cursor
  BY <1>1, <1>2 DEF Moves
<1>4. Holds(local[r], r, id) /\ Holds(saved[r], r, id) /\ WillHold(r, id)
  BY DEF Reach
<1>5. ASSUME local'[r] = local[r]
      PROVE  Holds(local[r], r, id)'
  BY <1>1, <1>3, <1>4, <1>5, HoldsOn DEF Holds
<1>6. ASSUME saved'[r] = saved[r]
      PROVE  Holds(saved[r], r, id)'
  BY <1>1, <1>3, <1>4, <1>6, HoldsOn DEF Holds
<1>7. ASSUME local'[r] = local[r], reply'[r] = reply[r], pc'[r] = pc[r]
      PROVE  WillHold(r, id)'
  BY <1>1, <1>3, <1>4, <1>7, WillHoldOn
<1>8. ASSUME pc'[r] \in {"idle", "pull"} PROVE WillHold(r, id)'
  BY <1>8 DEF WillHold
<1>9. CASE saved'[r] = saved[r] /\ local'[r] = local[r] /\ reply'[r] = reply[r] /\ pc'[r] = pc[r]
  BY <1>5, <1>6, <1>7, <1>9
<1>10. ASSUME NEW i \in Ids, NEW live \in BOOLEAN, NEW owner \in setup.owners \union {Everyone},
              Write(r, i, live, owner)
       PROVE  Holds(local[r], r, id)' /\ Holds(saved[r], r, id)' /\ WillHold(r, id)'
  <2>1. pc'[r] = "idle" /\ saved'[r] = saved[r] /\ server' = server
    BY <1>10 DEF Write, serverVars
  <2>2. CASE i = id
    <3>1. Present(local'[r].pending[id])
      BY <1>10, <2>2, WriteFacts, EditType
    <3> QED  BY <1>6, <1>8, <2>1, <3>1 DEF Holds
  <2>3. CASE i # id
    <3>1. /\ local'[r].pending[id] = local[r].pending[id] /\ local'[r].records[id] = local[r].records[id]
          /\ local'[r].cursor = local[r].cursor
      BY <1>10, <2>3, WriteFacts
    <3> QED  BY <1>1, <1>4, <1>6, <1>8, <2>1, <3>1 DEF Holds, Matches
  <2> QED  BY <2>2, <2>3
<1>11. CASE Snapshot(r)
  <2>1. saved'[r] = local[r] /\ local'[r] = local[r] /\ reply'[r] = reply[r] /\ pc'[r] = pc[r]
    BY <1>11 DEF Snapshot, TypeOK
  <2>2. Holds(saved[r], r, id)'
    BY <1>1, <1>3, <1>4, <2>1, HoldsOn DEF Holds
  <2> QED  BY <1>5, <1>7, <2>1, <2>2
<1>12. CASE Restart(r)
  <2>1. saved'[r] = saved[r] /\ local'[r] = saved[r] /\ pc'[r] = "idle"
    BY <1>12 DEF Restart, TypeOK
  <2>2. Holds(local[r], r, id)'
    BY <1>1, <1>3, <1>4, <2>1, HoldsOn DEF Holds
  <2> QED  BY <1>6, <1>8, <2>1, <2>2
<1>13. CASE Push(r)
  <2> DEFINE p == local[r].pending
  <2>1. saved'[r] = saved[r] /\ local'[r] = local[r] /\ pc'[r] = "pushed" /\ reply'[r] = PushResult(p)
        /\ ServePush(p) /\ p \in Records
    BY <1>13 DEF Push, TypeOK
  <2>2. Brought(reply[r].accepted[id], r, id)'
    <3>1. Present(reply'[r].accepted[id]) => reply'[r].accepted[id] = server'[id]
      BY <2>1, NoRecordType DEF PushResult, ServePush
    <3> QED  BY <3>1 DEF Brought
  <2>3. Brought(reply[r].refused[id], r, id)'
    <3>1. reply'[r].refused[id] = IF Refuses(p, id) THEN server[id] ELSE NoRecord
      BY <2>1 DEF PushResult
    <3>2. Refuses(p, id) => server'[id] = server[id]
      BY <2>1 DEF Refuses, ServePush
    <3> QED  BY <3>1, <3>2, NoRecordType DEF Brought
  <2>4. WillHold(r, id)'
    BY <2>1, <2>2, <2>3 DEF WillHold
  <2> QED  BY <1>5, <1>6, <2>1, <2>4
<1>14. CASE Pushed(r)
  <2>1. saved'[r] = saved[r] /\ pc'[r] = "pull" /\ server' = server /\ pc[r] = "pushed"
    BY <1>14 DEF Pushed, serverVars, TypeOK
  <2>2. /\ local'[r].cursor = local[r].cursor
        /\ local'[r].records[id] = IF Answered(r, id) THEN Answer(r, id) ELSE local[r].records[id]
        /\ local'[r].pending[id] = IF Answered(r, id) THEN NoRecord ELSE local[r].pending[id]
    BY <1>14, PushedFacts
  <2>3. Brought(reply[r].accepted[id], r, id) /\ Brought(reply[r].refused[id], r, id)
    BY <1>4, <2>1 DEF WillHold
  <2>4. Answered(r, id) => Answer(r, id) = server[id] \/ server[id].sequence > local[r].cursor
    BY <2>3 DEF Answered, Answer, Brought
  <2>5. Holds(local[r], r, id)'
    BY <1>1, <1>4, <2>1, <2>2, <2>4 DEF Holds, Matches
  <2> QED  BY <1>6, <1>8, <2>1, <2>5
<1>15. CASE Pull(r)
  <2>1. saved'[r] = saved[r] /\ local'[r] = local[r] /\ server' = server /\ setup' = setup
    BY <1>15 DEF Pull, serverVars
  <2>2. CASE pc'[r] = "idle"
    BY <1>5, <1>6, <1>8, <2>1, <2>2
  <2>3. CASE pc'[r] # "idle"
    <3>1. pc'[r] = "pulled" /\ reply'[r] = PullResult(r)
      BY <1>15, <2>3 DEF Pull, TypeOK
    <3>2. /\ reply'[r].accepted[id] = IF server[id].sequence > local[r].cursor /\ Matches(r, server[id])
                                        THEN server[id] ELSE NoRecord
          /\ reply'[r].cursor = sequence
      BY <3>1 DEF PullResult
    <3>3. Present(server[id]) <=> server[id].sequence > 0
      BY DEF History, Numbered
    <3>4. server[id].sequence > local[r].cursor => Present(server[id])
      <4>1. server[id].sequence \in Nat
        BY ChangeType DEF TypeOK, Records
      <4> QED  BY <1>2, <3>3, <4>1
    <3>5. WillHold(r, id)'
      BY <1>4, <2>1, <3>1, <3>2, <3>4, NoRecordType DEF WillHold, Holds, Matches
    <3> QED  BY <1>5, <1>6, <2>1, <3>5
  <2> QED  BY <2>2, <2>3
<1>16. CASE Pulled(r)
  <2>1. saved'[r] = saved[r] /\ pc'[r] = "idle" /\ server' = server /\ pc[r] = "pulled"
    BY <1>16 DEF Pulled, serverVars, TypeOK
  <2>2. /\ local'[r].cursor = reply[r].cursor
        /\ local'[r].records[id] =
               IF Present(reply[r].accepted[id]) /\ ~KeepsLocal(r, id)
                 THEN reply[r].accepted[id] ELSE local[r].records[id]
        /\ local'[r].pending[id] = local[r].pending[id]
    BY <1>16, PulledFacts
  <2>3. Holds(local[r], r, id)'
    BY <1>1, <1>4, <2>1, <2>2 DEF WillHold, Holds, Matches, KeepsLocal
  <2> QED  BY <1>6, <1>8, <2>1, <2>3
<1>17. CASE Unreachable(r)
  <2>1. saved'[r] = saved[r] /\ local'[r] = local[r] /\ pc'[r] = "idle"
    BY <1>17 DEF Unreachable, TypeOK
  <2> QED  BY <1>5, <1>6, <1>8, <2>1
<1>18. ASSUME NEW q \in Replicas \ {r}, NEW i \in Ids, NEW live \in BOOLEAN,
              NEW owner \in setup.owners \union {Everyone}, Write(q, i, live, owner)
       PROVE  saved'[r] = saved[r] /\ local'[r] = local[r] /\ reply'[r] = reply[r] /\ pc'[r] = pc[r]
  <2>1. local'[r] = local[r]
    BY <1>18, WriteFacts
  <2> QED  BY <1>18, <2>1 DEF Write
<1>19. ASSUME NEW q \in Replicas \ {r}, Pushed(q) \/ Pulled(q)
       PROVE  saved'[r] = saved[r] /\ local'[r] = local[r] /\ reply'[r] = reply[r] /\ pc'[r] = pc[r]
  <2>1. local'[r] = local[r]
    BY <1>19, PushedFacts, PulledFacts
  <2> QED  BY <1>19, <2>1 DEF Pushed, Pulled, TypeOK
<1>20. ASSUME NEW q \in Replicas \ {r}, Snapshot(q) \/ Restart(q) \/ Push(q) \/ Pull(q) \/ Unreachable(q)
       PROVE  saved'[r] = saved[r] /\ local'[r] = local[r] /\ reply'[r] = reply[r] /\ pc'[r] = pc[r]
  BY <1>20 DEF Snapshot, Restart, Push, Pull, Unreachable, TypeOK
<1>21. CASE Late \/ Tick \/ UNCHANGED vars
  BY <1>9, <1>21 DEF Late, Tick, vars, replicaVars
<1> QED  BY <1>9, <1>10, <1>11, <1>12, <1>13, <1>14, <1>15, <1>16, <1>17, <1>18, <1>19, <1>20, <1>21
         DEF Next, SyncStep, Put, Delete
-----------------------------------------------------------------------------
(* Pushes settle writes fairly. *)

\* What the answer to a push of p says of each of its writes.
LEMMA PushIsFair ==
    ASSUME TypeOK, History, NEW p \in Records, NEW id \in Ids, p[id] \in Changes(id)
    PROVE  LET mine == p[id]
               yes  == PushResult(p).accepted[id]
               no   == PushResult(p).refused[id]
           IN  /\ Present(yes) => mine.writes \subseteq yes.writes /\ mine.live = yes.live
               /\ Present(no) =>
                     \/ setup.policy = "LastWriterWins" /\ ~Later(mine.stamp, no.stamp)
                     \/ /\ setup.policy = "ServerAuthority"
                        /\ \/ ~(no.writes \subseteq mine.writes) \/ ~no.live \/ ~mine.live
                           \/ mine.writes \subseteq no.writes
                           \/ mine.base = 0
<1> DEFINE mine == p[id]
           s == server[id]
<1>1. PushResult(p).accepted[id] = IF Accepts(p, id) THEN Winner(p, id) ELSE NoRecord
  BY DEF PushResult
<1>2. PushResult(p).refused[id] = IF Refuses(p, id) THEN s ELSE NoRecord
  BY DEF PushResult
<1>3. mine.writes \subseteq Winner(p, id).writes /\ mine.live = Winner(p, id).live
  BY WinnerFacts
<1>4. Refuses(p, id) => Present(mine) /\ Present(s) /\ ~Wins(mine, s)
  BY DEF Refuses, Accepts, Served
<1>5. setup.policy \in Policies
  BY SyncAssumption DEF TypeOK
<1>6. mine \in Changes(id) /\ s \in Changes(id) /\ Typed(Changes(id))
  BY ChangesOf
<1>7. ASSUME setup.policy = "ServerAuthority", Present(mine), Present(s), ~Wins(mine, s),
             s.writes \subseteq mine.writes, s.live, mine.live, mine.base # 0
      PROVE  mine.writes \subseteq s.writes
  <2>1. Lineage(Changes(id)) /\ Descends(Changes(id), s)
    BY <1>7 DEF History
  <2>2. PICK w \in mine.writes : Own(mine, w)
    BY <1>6, <1>7, <2>1 DEF Lineage
  <2>3. mine.base < s.sequence /\ mine.base > 0
    BY <1>6, <1>7 DEF Wins, Typed
  <2>4. w \in s.writes
    BY <1>6, <1>7, <2>1, <2>2, <2>3 DEF Descends
  <2> QED  BY <1>6, <2>1, <2>2, <2>4 DEF Lineage
<1>8. setup.policy = "LastWriterWins" /\ ~Wins(mine, s) => ~Later(mine.stamp, s.stamp)
  BY DEF Wins
<1>9. setup.policy # "Merge" \/ Wins(mine, s)
  BY DEF Wins
<1> HIDE DEF mine, s
<1> QED  BY <1>1, <1>2, <1>3, <1>4, <1>5, <1>7, <1>8, <1>9, NoRecordType DEF Policies, mine

LEMMA FairStep ==
    ASSUME TypeOK, History, SettledFairly, [Next]_vars
    PROVE  SettledFairly'
<1>1. setup' = setup
  BY ServerMoves
<1>2. SUFFICES ASSUME NEW r \in Replicas, pc'[r] = "pushed"
               PROVE  \A id \in Ids :
                        LET mine == local'[r].pending[id]
                            yes  == reply'[r].accepted[id]
                            no   == reply'[r].refused[id]
                        IN  /\ Present(yes) => mine.writes \subseteq yes.writes /\ mine.live = yes.live
                            /\ Present(no) =>
                                 \/ setup.policy = "LastWriterWins" /\ ~Later(mine.stamp, no.stamp)
                                 \/ /\ setup.policy = "ServerAuthority"
                                    /\ \/ ~(no.writes \subseteq mine.writes) \/ ~no.live \/ ~mine.live
                                       \/ mine.writes \subseteq no.writes
                                       \/ mine.base = 0
  BY <1>1 DEF SettledFairly
<1>3. CASE local'[r] = local[r] /\ reply'[r] = reply[r] /\ pc'[r] = pc[r]
  BY <1>2, <1>3 DEF SettledFairly
<1>4. CASE Push(r)
  <2>1. /\ local'[r].pending = local[r].pending /\ local[r].pending \in Records
        /\ reply'[r] = PushResult(local[r].pending)
    BY <1>4 DEF Push, TypeOK
  <2>2. \A id \in Ids : local[r].pending[id] \in Changes(id)
    BY ChangesOf
  <2> QED  BY <2>1, <2>2, PushIsFair
<1>5. CASE Snapshot(r)
  BY <1>3, <1>5 DEF Snapshot
<1>6. ASSUME NEW i \in Ids, NEW live \in BOOLEAN, NEW owner \in setup.owners \union {Everyone},
             Write(r, i, live, owner)
      PROVE  FALSE
  BY <1>2, <1>6 DEF Write
<1>7. CASE Restart(r) \/ Pushed(r) \/ Pull(r) \/ Pulled(r) \/ Unreachable(r)
  BY <1>2, <1>7 DEF Restart, Pushed, Pull, Pulled, Unreachable, TypeOK
<1>8. ASSUME NEW q \in Replicas \ {r}, NEW i \in Ids, NEW live \in BOOLEAN,
             NEW owner \in setup.owners \union {Everyone}, Write(q, i, live, owner)
      PROVE  local'[r] = local[r] /\ reply'[r] = reply[r] /\ pc'[r] = pc[r]
  <2>1. local'[r] = local[r]
    BY <1>8, WriteFacts
  <2> QED  BY <1>8, <2>1 DEF Write
<1>9. ASSUME NEW q \in Replicas \ {r}, Pushed(q) \/ Pulled(q)
      PROVE  local'[r] = local[r] /\ reply'[r] = reply[r] /\ pc'[r] = pc[r]
  <2>1. local'[r] = local[r]
    BY <1>9, PushedFacts, PulledFacts
  <2> QED  BY <1>9, <2>1 DEF Pushed, Pulled, TypeOK
<1>10. ASSUME NEW q \in Replicas \ {r}, Snapshot(q) \/ Restart(q) \/ Push(q) \/ Pull(q) \/ Unreachable(q)
       PROVE  local'[r] = local[r] /\ reply'[r] = reply[r] /\ pc'[r] = pc[r]
  BY <1>10 DEF Snapshot, Restart, Push, Pull, Unreachable, TypeOK
<1>11. CASE Late \/ Tick \/ UNCHANGED vars
  BY <1>3, <1>11 DEF Late, Tick, vars, replicaVars
<1> QED  BY <1>3, <1>4, <1>5, <1>6, <1>7, <1>8, <1>9, <1>10, <1>11 DEF Next, SyncStep, Put, Delete

-----------------------------------------------------------------------------
(* Clocks are drawn forward. *)

LEMMA ClockStep ==
    ASSUME TypeOK, Clocked, [Next]_vars
    PROVE  Clocked'
<1> SUFFICES ASSUME NEW r \in Replicas \ rewound', NEW id \in Ids
             PROVE  AtLeast(last'[r], Reading(local'[r].records[id]))
  BY DEF Clocked, Reading
<1>1. r \notin rewound
  <2> SUFFICES rewound \subseteq rewound'
    OBVIOUS
  <2>1. ASSUME NEW q \in Replicas, NEW j \in Ids, Put(q, j) \/ Delete(q, j)
        PROVE  rewound \subseteq rewound'
    BY <2>1 DEF Put, Delete, Write
  <2>2. ASSUME NEW q \in Replicas, Snapshot(q) \/ Restart(q) \/ Unreachable(q)
        PROVE  rewound \subseteq rewound'
    BY <2>2 DEF Snapshot, Restart, Unreachable
  <2>3. ASSUME NEW q \in Replicas, SyncStep(q)
        PROVE  rewound \subseteq rewound'
    BY <2>3 DEF SyncStep, Push, Pushed, Pull, Pulled
  <2>4. CASE Late \/ Tick \/ UNCHANGED vars
    BY <2>4 DEF Late, Tick, vars
  <2> QED  BY <2>1, <2>2, <2>3, <2>4 DEF Next
<1>2. AtLeast(last[r], Reading(local[r].records[id]))
  BY <1>1 DEF Clocked
<1>3. CASE local'[r] = local[r] /\ last'[r] = last[r]
  BY <1>2, <1>3
<1>4. ASSUME NEW i \in Ids, NEW live \in BOOLEAN, NEW owner \in setup.owners \union {Everyone},
             Write(r, i, live, owner)
      PROVE  AtLeast(last'[r], Reading(local'[r].records[id]))
  <2>1. last'[r] = Ticked(r) /\ Ticked(r) \in Nat \X Nat /\ last[r] \in Nat \X Nat
        /\ (Ticked(r)[1] > last[r][1] \/ (Ticked(r)[1] = last[r][1] /\ Ticked(r)[2] > last[r][2]))
    BY <1>4, WriteFacts, TickedType DEF TypeOK
  <2>2. CASE i = id
    <3>1. local'[r].records[id] = Edit(r, id, live, owner)
      BY <1>4, <2>2, WriteFacts
    <3>2. Edit(r, id, live, owner).stamp = <<Ticked(r)[1], Ticked(r)[2], r>>
      BY DEF Edit
    <3>3. Reading(local'[r].records[id]) = <<Ticked(r)[1], Ticked(r)[2]>>
      BY <3>1, <3>2 DEF Reading
    <3> QED  BY <2>1, <3>3 DEF AtLeast
  <2>3. CASE i # id
    <3>1. local'[r].records[id] = local[r].records[id]
      BY <1>4, <2>3, WriteFacts
    <3>2. Reading(local[r].records[id])[1] \in Nat /\ Reading(local[r].records[id])[2] \in Nat
      BY ChangeType DEF TypeOK, Records, Reading
    <3> QED  BY <1>2, <2>1, <3>1, <3>2 DEF AtLeast
  <2> QED  BY <2>2, <2>3
<1>5. CASE Pushed(r) \/ Pulled(r)
  <2>1. /\ last[r][1] \in Nat /\ last[r][2] \in Nat /\ last'[r][1] \in Nat /\ last'[r][2] \in Nat
        /\ AtLeast(last'[r], last[r])
    BY <1>5, PushedFacts, PulledFacts DEF TypeOK
  <2>2. Reading(local[r].records[id])[1] \in Nat /\ Reading(local[r].records[id])[2] \in Nat
    BY ChangeType DEF TypeOK, Records, Reading
  <2>3. AtLeast(last'[r], Reading(local[r].records[id]))
    BY <1>2, <2>1, <2>2 DEF AtLeast
  <2> QED  BY <1>5, <2>3, PushedFacts, PulledFacts DEF Reading
<1>6. CASE Snapshot(r) \/ Push(r) \/ Pull(r) \/ Unreachable(r)
  BY <1>3, <1>6 DEF Snapshot, Push, Pull, Unreachable
<1>7. CASE Restart(r)
  BY <1>7 DEF Restart
<1>8. ASSUME NEW q \in Replicas \ {r}, NEW i \in Ids, NEW live \in BOOLEAN,
             NEW owner \in setup.owners \union {Everyone}, Write(q, i, live, owner)
      PROVE  local'[r] = local[r] /\ last'[r] = last[r]
  BY <1>8, WriteFacts
<1>9. ASSUME NEW q \in Replicas \ {r}, Pushed(q) \/ Pulled(q)
      PROVE  local'[r] = local[r] /\ last'[r] = last[r]
  BY <1>9, PushedFacts, PulledFacts
<1>10. ASSUME NEW q \in Replicas \ {r}, Snapshot(q) \/ Restart(q) \/ Push(q) \/ Pull(q) \/ Unreachable(q)
       PROVE  local'[r] = local[r] /\ last'[r] = last[r]
  BY <1>10 DEF Snapshot, Restart, Push, Pull, Unreachable, TypeOK
<1>11. CASE Late \/ Tick \/ UNCHANGED vars
  BY <1>3, <1>11 DEF Late, Tick, vars, replicaVars
<1> QED  BY <1>3, <1>4, <1>5, <1>6, <1>7, <1>8, <1>9, <1>10, <1>11 DEF Next, SyncStep, Put, Delete

-----------------------------------------------------------------------------
(* The theorems. *)

LEMMA Initially == Init => IInv
<1> SUFFICES ASSUME Init PROVE IInv
  OBVIOUS
<1>1. TypeOK /\ Cursors
  BY InitType
<1>2. \A id \in Ids : Empty[id] = NoRecord
  BY DEF Empty
<1>3. \A id \in Ids : server[id] = NoRecord
  BY <1>2 DEF Init
<1>4. \A r \in Replicas : local[r] = NewLocal /\ saved[r] = NewLocal /\ reply[r] = NoReply /\ pc[r] = "idle"
  BY DEF Init
<1>5. \A id \in Ids : NewLocal.records[id] = NoRecord /\ NewLocal.pending[id] = NoRecord
                          /\ NoReply.accepted[id] = NoRecord /\ NoReply.refused[id] = NoRecord
  BY <1>2 DEF NewLocal, NoReply
<1>6. \A id \in Ids : \A c \in Changes(id) : c = NoRecord
  BY <1>3, <1>4, <1>5 DEF Init, Changes
<1>7. /\ NoRecord.sequence = 0 /\ NoRecord.base = 0 /\ NoRecord.writes = {} /\ ~NoRecord.live
      /\ ~Present(NoRecord) /\ Reading(NoRecord) = <<0, 0>>
  BY NoRecordType DEF NoRecord, Reading
<1>8. \A id \in Ids : NoRecord \in Changes(id)
  BY <1>1, ChangesOf
<1>9. History
  <2> SUFFICES ASSUME NEW id \in Ids
               PROVE  Numbered(Changes(id), server[id], puts) /\ Lineage(Changes(id))
                          /\ Descends(Changes(id), server[id])
    BY DEF History
  <2>1. Numbered(Changes(id), server[id], puts)
    BY <1>3, <1>6, <1>7, <1>8 DEF Numbered
  <2>2. Lineage(Changes(id)) /\ Descends(Changes(id), server[id])
    BY <1>6, <1>7 DEF Lineage, Descends
  <2> QED  BY <2>1, <2>2
<1>10. Reach
  BY <1>3, <1>4, <1>5 DEF Reach, Holds, WillHold
<1>11. SettledFairly
  BY <1>4 DEF SettledFairly
<1>12. Clocked
  <2>1. \A r \in Replicas : last[r] = <<0, 0>>
    BY DEF Init
  <2> QED  BY <1>4, <1>5, <1>7, <2>1 DEF Clocked, AtLeast
<1> QED  BY <1>1, <1>9, <1>10, <1>11, <1>12 DEF IInv

LEMMA HistoryStep ==
    ASSUME TypeOK, TypeOK', History, [Next]_vars
    PROVE  History'
<1>1. ASSUME NEW r \in Replicas, Push(r) PROVE History'
  <2> DEFINE p == local[r].pending
  <2>1. p \in Records /\ ServePush(p) /\ setup' = setup /\ local' = local /\ saved' = saved
        /\ late' = late /\ puts' = puts
    BY <1>1 DEF Push, TypeOK, bounds
  <2>2. \A q \in Replicas : reply'[q] = reply[q] \/ reply'[q] = PushResult(p)
    BY <1>1 DEF Push, TypeOK
  <2> HIDE DEF p
  <2>3. \A id \in Ids : Changes(id)' \subseteq Changes(id) \union {server'[id]}
    BY <2>1, <2>2, ServeChanges
  <2>4. \A id \in Ids : p[id] \in Changes(id)
    BY ChangesOf DEF p
  <2> QED  BY <2>1, <2>3, <2>4, HistoryServe
<1>2. CASE Late
  <2>1. PICK p \in late : /\ ServePush(p) /\ late' = late \ {p}
                          /\ UNCHANGED <<setup, replicaVars, bounds, rewound>>
    BY <1>2 DEF Late
  <2>2. p \in Records /\ setup' = setup /\ local' = local /\ saved' = saved /\ reply' = reply
        /\ late' \subseteq late /\ puts' = puts
    BY <2>1 DEF TypeOK, replicaVars, bounds
  <2>3. \A id \in Ids : Changes(id)' \subseteq Changes(id) \union {server'[id]}
    BY <2>1, <2>2, ServeChanges
  <2>4. \A id \in Ids : p[id] \in Changes(id)
    BY ChangesOf
  <2> QED  BY <2>1, <2>2, <2>3, <2>4, HistoryServe
<1>3. CASE OtherStep
  <2>1. setup' = setup /\ server' = server /\ puts' = puts
    BY <1>3 DEF OtherStep, Snapshot, Restart, Pushed, Pull, Pulled, Unreachable, Tick, vars,
                serverVars, bounds
  <2> QED  BY <1>3, <2>1, OtherChanges, HistoryKept
<1> QED  BY <1>1, <1>2, <1>3, HistoryWrite DEF Next, SyncStep, Put, Delete, OtherStep

LEMMA Invariance == Spec => []IInv
<1>1. IInv /\ [Next]_vars => IInv'
  <2> SUFFICES ASSUME IInv, [Next]_vars PROVE IInv'
    OBVIOUS
  <2>1. TypeOK /\ Cursors /\ Reach /\ History /\ SettledFairly /\ Clocked
    BY DEF IInv
  <2>2. TypeOK' /\ Cursors'
    BY <2>1, NextType
  <2> QED  BY <2>1, <2>2, ReachStep, HistoryStep, FairStep, ClockStep DEF IInv
<1> QED  BY <1>1, Initially, PTL DEF Spec

\* Every variable keeps its type, and no cursor is ahead of the server.
THEOREM TypeCorrect == Spec => []TypeOK
<1>1. IInv => TypeOK
  BY DEF IInv
<1> QED  BY <1>1, Invariance, PTL

\* SyncedCollection::sync: whatever was lost, resent, refused, merged or
\* restored, the cursor never runs ahead of what was applied.
THEOREM CursorHonest == Spec => []CaughtUpAgrees
<1>1. IInv => CaughtUpAgrees
  <2> SUFFICES ASSUME IInv, NEW r \in Replicas, local[r].cursor = sequence, NEW id \in Ids,
                      ~Present(local[r].pending[id])
               PROVE  Agrees(r, id)
    BY DEF CaughtUpAgrees
  <2>1. server[id].sequence <= sequence /\ server[id].sequence \in Nat /\ sequence \in Nat
    BY ChangeType DEF IInv, TypeOK, Records
  <2>2. Holds(local[r], r, id)
    BY DEF IInv, Reach
  <2> QED  BY <2>1, <2>2 DEF Holds, Agrees
<1> QED  BY <1>1, Invariance, PTL

\* SyncServer::push: an accepted write is in the copy that comes back, and a
\* refused one is refused for a reason.
THEOREM FairlySettled == Spec => []SettledFairly
<1>1. IInv => SettledFairly
  BY DEF IInv
<1> QED  BY <1>1, Invariance, PTL

\* SyncServer::push: the server's copy of a record never goes back, whatever
\* arrives late or twice.
THEOREM ServerForward == Spec => ServerMovesForward
<1>1. IInv /\ [Next]_vars =>
        [\A id \in Ids :
           server'[id] # server[id] /\ Present(server[id]) =>
               IF setup.policy = "LastWriterWins"
                 THEN Later(server'[id].stamp, server[id].stamp)
                 ELSE server[id].live /\ server'[id].live =>
                          server[id].writes \subseteq server'[id].writes]_vars
  <2> SUFFICES ASSUME IInv, Next, NEW id \in Ids, server'[id] # server[id], Present(server[id])
               PROVE  IF setup.policy = "LastWriterWins"
                        THEN Later(server'[id].stamp, server[id].stamp)
                        ELSE server[id].live /\ server'[id].live =>
                                 server[id].writes \subseteq server'[id].writes
    BY DEF vars
  <2>1. TypeOK /\ History
    BY DEF IInv
  <2>2. ASSUME NEW p \in Records, ServePush(p), p[id] \in Changes(id), setup' = setup
        PROVE  IF setup.policy = "LastWriterWins"
                 THEN Later(server'[id].stamp, server[id].stamp)
                 ELSE server[id].live /\ server'[id].live =>
                          server[id].writes \subseteq server'[id].writes
    <3>1. Accepts(p, id) /\ server'[id] = Winner(p, id)
      BY <2>1, <2>2, ServeFacts
    <3>2. Wins(p[id], server[id]) /\ Present(p[id]) /\ setup.policy \in Policies
      BY <2>1, <3>1, SyncAssumption DEF Accepts, Served, TypeOK
    <3>3. CASE setup.policy = "LastWriterWins"
      BY <2>1, <3>1, <3>2, <3>3, WinnerFacts DEF Wins
    <3>4. CASE setup.policy = "Merge"
      BY <2>1, <2>2, <3>1, <3>4, WinnerFacts
    <3>5. CASE setup.policy = "ServerAuthority"
      <4>1. server'[id].writes = p[id].writes /\ server'[id].live = p[id].live
        BY <2>1, <3>1, <3>5, WinnerFacts
      <4>2. SUFFICES ASSUME p[id].live PROVE server[id].writes \subseteq p[id].writes
        BY <3>5, <4>1
      <4>3. p[id].base = server[id].sequence /\ p[id].base > 0
        BY <2>1, <2>2, <3>2, <3>5, ChangesOf DEF Wins, History, Numbered, Typed
      <4>4. PICK w \in p[id].writes : Own(p[id], w)
        BY <2>1, <2>2, <3>2, <3>5, <4>2 DEF History, Lineage
      <4>5. p[id].writes = server[id].writes \union {w}
        BY <2>1, <2>2, <3>5, <4>3, <4>4 DEF History, Descends
      <4> QED  BY <4>5
    <3> QED  BY <3>2, <3>3, <3>4, <3>5 DEF Policies
  <2>3. ASSUME NEW r \in Replicas, Push(r)
        PROVE  /\ local[r].pending \in Records /\ ServePush(local[r].pending) /\ setup' = setup
               /\ local[r].pending[id] \in Changes(id)
    BY <2>1, <2>3, ChangesOf DEF Push, TypeOK
  <2>4. CASE Late
    BY <2>1, <2>2, <2>4, ChangesOf DEF Late, TypeOK
  <2>5. CASE ~Late /\ ~(\E r \in Replicas : Push(r))
    BY <2>5, OnlyPushes
  <2> QED  BY <2>2, <2>3, <2>4, <2>5
<1> QED  BY <1>1, Invariance, PTL DEF Spec, ServerMovesForward

\* Clock::now and observe: a write is stamped later than the record its
\* writer saw, until a restart starts the clock again.
THEOREM EditsLater == Spec => EditsAreLater
<1>1. IInv /\ [Next]_vars =>
        [\A r \in Replicas, id \in Ids :
           puts' > puts /\ local'[r].records[id] # local[r].records[id] /\ r \notin rewound =>
               Later(local'[r].records[id].stamp, local[r].records[id].stamp)]_vars
  <2> SUFFICES ASSUME IInv, Next, NEW r \in Replicas, NEW id \in Ids, puts' > puts,
                      local'[r].records[id] # local[r].records[id], r \notin rewound
               PROVE  Later(local'[r].records[id].stamp, local[r].records[id].stamp)
    BY DEF vars
  <2>1. TypeOK /\ puts \in Nat
    BY DEF IInv, TypeOK
  <2>2. PICK q \in Replicas, i \in Ids, live \in BOOLEAN, owner \in setup.owners \union {Everyone} :
          Write(q, i, live, owner)
    <3>1. puts' # puts
      BY <2>1
    <3>2. ~(\E q \in Replicas : Snapshot(q) \/ Restart(q) \/ SyncStep(q) \/ Unreachable(q)) /\ ~Late /\ ~Tick
      BY <3>1 DEF SyncStep, Snapshot, Restart, Push, Pushed, Pull, Pulled, Unreachable, Late, Tick, bounds
    <3>3. PICK q \in Replicas, i \in Ids : Put(q, i) \/ Delete(q, i)
      BY <3>2 DEF Next
    <3> QED  BY <3>3 DEF Put, Delete
  <2>3. q = r /\ i = id /\ local'[r].records[id] = Edit(r, id, live, owner)
    BY <2>1, <2>2, WriteFacts
  <2>4. Edit(r, id, live, owner).stamp = <<Ticked(r)[1], Ticked(r)[2], r>>
    BY DEF Edit
  <2>5. /\ Ticked(r)[1] > last[r][1] \/ (Ticked(r)[1] = last[r][1] /\ Ticked(r)[2] > last[r][2])
        /\ Ticked(r)[1] \in Nat /\ Ticked(r)[2] \in Nat /\ last[r][1] \in Nat /\ last[r][2] \in Nat
    BY <2>1, TickedType DEF TypeOK
  <2>6. AtLeast(last[r], Reading(local[r].records[id]))
    BY DEF IInv, Clocked
  <2>7. local[r].records[id].stamp[1] \in Nat /\ local[r].records[id].stamp[2] \in Nat
    BY <2>1, ChangeType DEF TypeOK, Records
  <2> QED  BY <2>3, <2>4, <2>5, <2>6, <2>7 DEF Later, AtLeast, Reading
<1> QED  BY <1>1, Invariance, PTL DEF Spec, EditsAreLater

-----------------------------------------------------------------------------
(* The replicated data types, for any keys and values and any number of    *)
(* replicas, edits, copies sent and merges.  The invariant says that every *)
(* copy, on a replica or under way, is a function of the edits it reflects *)
(* (Reflects), and that each replica has seen its own edits (Owned), so    *)
(* that what it stamps next is new to everybody (Fresh).                   *)

CONSTANTS Keys, Values, Nothing
VARIABLES copy, clock, seen, sent

C == INSTANCE Crdt

CopiesOK ==
    /\ copy \in [C!Replicas -> C!Copy] /\ clock \in [C!Replicas -> Nat]
    /\ seen \in [C!Replicas -> C!Edits] /\ sent \subseteq [copy : C!Copy, seen : C!Edits]

-----------------------------------------------------------------------------
(* What a copy says of the edits it reflects. *)

Highest(n, counts) == (\A m \in counts : m <= n) /\ (n = 0 \/ n \in counts)
Counts(pairs, q) == {n \in Nat : <<q, n>> \in pairs}
DotCounts(adds, q) == {n \in Nat : \E v \in Values : <<v, <<q, n>>>> \in adds}

Latest(w, writes) ==
    /\ \A x \in writes : ~C!Later(x.stamp, w.stamp)
    /\ w = C!Unwritten \/ w \in writes
WritesTo(s, k) == {w \in C!Write : <<k, w>> \in s.writes}

Counted(c, s) ==
    \A q \in C!Replicas : Highest(c.up[q], Counts(s.up, q)) /\ Highest(c.down[q], Counts(s.down, q))
Written(c, s) == \A k \in Keys : Latest(c.entries[k], WritesTo(s, k))
InSet(c, s) ==
    /\ c.adds = s.adds /\ c.removed = UNION s.removals
    /\ \A q \in C!Replicas : Highest(c.counters[q], DotCounts(s.adds, q))
InText(c, s) ==
    /\ c.elements = s.inserts /\ c.deleted = s.deletes
    /\ \A e \in s.inserts : e.after \in C!Ids(s.inserts) \union {C!Start}

Reflects(c, s) == Counted(c, s) /\ Written(c, s) /\ InSet(c, s) /\ InText(c, s)

\* Every edit of s has been seen by the replica that made it.
Owned(s, all) ==
    /\ \A k \in Keys, w \in C!Write : <<k, w>> \in s.writes => <<k, w>> \in all[w.stamp[2]].writes
    /\ \A v \in Values, d \in C!Dots : <<v, d>> \in s.adds => <<v, d>> \in all[d[1]].adds
    /\ \A e \in s.inserts : e \in all[e.id[2]].inserts

Known(c, s, all) == Reflects(c, s) /\ Owned(s, all)

\* A replica's own stamps are after the start, none is later than its clock,
\* and none was given twice; nor was a dot.
Fresh(r, own, time) ==
    /\ \A k \in Keys, w \in C!Write :
           <<k, w>> \in own.writes /\ w.stamp[2] = r => w.stamp[1] \in 1..time
    /\ \A e \in own.inserts : e.id[2] = r => e.id[1] \in 1..time
    /\ \A k, l \in Keys, w, x \in C!Write :
           <<k, w>> \in own.writes /\ <<l, x>> \in own.writes /\ w.stamp[2] = r /\ w.stamp = x.stamp
               => w = x
    /\ \A e, f \in own.inserts : e.id[2] = r /\ e.id = f.id => e = f
    /\ \A v, w \in Values, n \in Nat :
           <<v, <<r, n>>>> \in own.adds /\ <<w, <<r, n>>>> \in own.adds => v = w

CopiesInv ==
    /\ CopiesOK
    /\ \A r \in C!Replicas : Known(copy[r], seen[r], seen) /\ Fresh(r, seen[r], clock[r])
    /\ \A m \in sent : Known(m.copy, m.seen, seen)

LEMMA CopiesInit == C!Init => CopiesInv
<1> SUFFICES ASSUME C!Init PROVE CopiesInv
  OBVIOUS
<1>1. C!New \in C!Copy /\ C!NoEdits \in C!Edits
  BY DEF C!New, C!NoEdits, C!Copy, C!Edits, C!Unwritten, C!Write, C!Stamps, C!Start, C!Replicas
<1>2. CopiesOK
  BY <1>1 DEF C!Init, CopiesOK
<1>3. Reflects(C!New, C!NoEdits)
  BY DEF Reflects, Counted, Written, InSet, InText, C!New, C!NoEdits, Highest, Latest, Counts,
         DotCounts, WritesTo
<1>4. \A r \in C!Replicas : Known(copy[r], seen[r], seen) /\ Fresh(r, seen[r], clock[r])
  BY <1>3 DEF C!Init, Known, Owned, Fresh, C!NoEdits
<1> QED  BY <1>2, <1>4 DEF C!Init, CopiesInv

-----------------------------------------------------------------------------
(* Stamps and dots identify edits, also across replicas. *)

LEMMA WritesUnique ==
    ASSUME CopiesInv, NEW s, NEW t, Owned(s, seen), Owned(t, seen),
           NEW k \in Keys, NEW l \in Keys, NEW w \in C!Write, NEW x \in C!Write,
           <<k, w>> \in s.writes, <<l, x>> \in t.writes, w.stamp = x.stamp
    PROVE  w = x
<1>1. w.stamp[2] \in C!Replicas
  BY DEF C!Write, C!Stamps
<1> QED  BY <1>1 DEF CopiesInv, Owned, Fresh

LEMMA WritesLater ==
    ASSUME CopiesInv, NEW s, Owned(s, seen), NEW k \in Keys, NEW w \in C!Write, <<k, w>> \in s.writes
    PROVE  C!Later(w.stamp, C!Start)
<1>1. w.stamp \in Nat \X Nat /\ w.stamp[2] \in C!Replicas
  BY DEF C!Write, C!Stamps, C!Replicas
<1>2. w.stamp[1] \in 1..clock[w.stamp[2]]
  BY <1>1 DEF CopiesInv, Owned, Fresh
<1> QED  BY <1>1, <1>2 DEF C!Later, C!Start, CopiesInv, CopiesOK

LEMMA ElementsUnique ==
    ASSUME CopiesInv, NEW s, NEW t, Owned(s, seen), Owned(t, seen), s.inserts \subseteq C!Element,
           NEW e \in s.inserts, NEW f \in t.inserts, e.id = f.id
    PROVE  e = f
<1>1. e.id[2] \in C!Replicas
  BY DEF C!Element, C!Stamps
<1> QED  BY <1>1 DEF CopiesInv, Owned, Fresh

LEMMA DotsUnique ==
    ASSUME CopiesInv, NEW s, NEW t, Owned(s, seen), Owned(t, seen),
           NEW v \in Values, NEW w \in Values, NEW d \in C!Dots, <<v, d>> \in s.adds, <<w, d>> \in t.adds
    PROVE  v = w
<1>1. d[1] \in C!Replicas /\ d[2] \in Nat /\ d = <<d[1], d[2]>>
  BY DEF C!Dots
<1>2. <<v, <<d[1], d[2]>>>> \in seen[d[1]].adds /\ <<w, <<d[1], d[2]>>>> \in seen[d[1]].adds
  BY <1>1 DEF Owned
<1> QED  BY <1>1, <1>2 DEF CopiesInv, Fresh

\* There is one highest count, and one latest write where stamps identify
\* writes, so that the copy follows from the edits.
LEMMA OneHighest ==
    ASSUME NEW counts \in SUBSET Nat, NEW m \in Nat, NEW n \in Nat, Highest(m, counts), Highest(n, counts)
    PROVE  m = n
BY DEF Highest

LEMMA OneLatest ==
    ASSUME NEW writes \in SUBSET C!Write, NEW w \in C!Write, NEW x \in C!Write,
           Latest(w, writes), Latest(x, writes),
           \A y, z \in writes : y.stamp = z.stamp => y = z,
           \A y \in writes : C!Later(y.stamp, C!Start)
    PROVE  w = x
<1>1. \A y \in C!Write : y.stamp \in Nat \X Nat
  BY DEF C!Write, C!Stamps, C!Replicas
<1>2. \A y, z \in C!Write : ~C!Later(y.stamp, z.stamp) /\ ~C!Later(z.stamp, y.stamp) => y.stamp = z.stamp
  BY <1>1 DEF C!Later
<1> QED  BY <1>2 DEF Latest, C!Unwritten

LEMMA Determined ==
    ASSUME CopiesInv, NEW s \in C!Edits, NEW c \in C!Copy, NEW d \in C!Copy,
           Known(c, s, seen), Known(d, s, seen)
    PROVE  c = d
<1>1. c.up = d.up /\ c.down = d.down
  <2>1. \A q \in C!Replicas : Counts(s.up, q) \in SUBSET Nat /\ Counts(s.down, q) \in SUBSET Nat
    BY DEF Counts
  <2>2. \A q \in C!Replicas : c.up[q] = d.up[q] /\ c.down[q] = d.down[q]
    BY <2>1, OneHighest DEF Known, Reflects, Counted, C!Copy
  <2> QED  BY <2>2 DEF C!Copy
<1>2. c.counters = d.counters
  <2>1. \A q \in C!Replicas : DotCounts(s.adds, q) \in SUBSET Nat
    BY DEF DotCounts
  <2>2. \A q \in C!Replicas : c.counters[q] = d.counters[q]
    BY <2>1, OneHighest DEF Known, Reflects, InSet, C!Copy
  <2> QED  BY <2>2 DEF C!Copy
<1>3. c.entries = d.entries
  <2>1. ASSUME NEW k \in Keys PROVE c.entries[k] = d.entries[k]
    <3>1. WritesTo(s, k) \in SUBSET C!Write
      BY DEF WritesTo
    <3>2. \A y, z \in WritesTo(s, k) : y.stamp = z.stamp => y = z
      BY WritesUnique DEF WritesTo, Known
    <3>3. \A y \in WritesTo(s, k) : C!Later(y.stamp, C!Start)
      BY WritesLater DEF WritesTo, Known
    <3>4. /\ c.entries[k] \in C!Write /\ d.entries[k] \in C!Write
          /\ Latest(c.entries[k], WritesTo(s, k)) /\ Latest(d.entries[k], WritesTo(s, k))
      BY DEF C!Copy, Known, Reflects, Written
    <3> QED  BY <3>1, <3>2, <3>3, <3>4, OneLatest
  <2> QED  BY <2>1 DEF C!Copy
<1>4. c.adds = d.adds /\ c.removed = d.removed /\ c.elements = d.elements /\ c.deleted = d.deleted
  BY DEF Known, Reflects, InSet, InText
<1> QED  BY <1>1, <1>2, <1>3, <1>4 DEF C!Copy

-----------------------------------------------------------------------------
(* Merging: the copy merged reflects what both reflected. *)

LEMMA HighestOfBoth ==
    ASSUME NEW m \in Nat, NEW n \in Nat, NEW S \in SUBSET Nat, NEW T \in SUBSET Nat,
           Highest(m, S), Highest(n, T)
    PROVE  C!Greater(m, n) \in Nat /\ Highest(C!Greater(m, n), S \union T)
BY DEF Highest, C!Greater

LEMMA LatestOfBoth ==
    ASSUME NEW w \in C!Write, NEW x \in C!Write, NEW S \in SUBSET C!Write, NEW T \in SUBSET C!Write,
           Latest(w, S), Latest(x, T), \A y \in T : C!Later(y.stamp, C!Start)
    PROVE  C!Newer(w, x) \in C!Write /\ Latest(C!Newer(w, x), S \union T)
<1>1. \A y \in C!Write : y.stamp \in Nat \X Nat
  BY DEF C!Write, C!Stamps, C!Replicas
<1>2. CASE C!Later(x.stamp, w.stamp)
  BY <1>1, <1>2 DEF Latest, C!Newer, C!Later, C!Unwritten, C!Start
<1>3. CASE ~C!Later(x.stamp, w.stamp)
  BY <1>1, <1>3 DEF Latest, C!Newer, C!Later
<1> QED  BY <1>2, <1>3

LEMMA MergeReflects ==
    ASSUME CopiesInv, NEW c \in C!Copy, NEW d \in C!Copy, NEW s \in C!Edits, NEW t \in C!Edits,
           Known(c, s, seen), Known(d, t, seen)
    PROVE  /\ C!Merged(c, d) \in C!Copy /\ C!Both(s, t) \in C!Edits
           /\ Reflects(C!Merged(c, d), C!Both(s, t)) /\ Owned(C!Both(s, t), seen)
<1> DEFINE m == C!Merged(c, d)  b == C!Both(s, t)
<1>1. b \in C!Edits
  BY DEF C!Both, C!Edits
<1>2. Owned(b, seen)
  BY DEF Known, Owned, C!Both
<1>3. /\ \A q \in C!Replicas : Counts(b.up, q) = Counts(s.up, q) \union Counts(t.up, q)
      /\ \A q \in C!Replicas : Counts(b.down, q) = Counts(s.down, q) \union Counts(t.down, q)
      /\ \A q \in C!Replicas : DotCounts(b.adds, q) = DotCounts(s.adds, q) \union DotCounts(t.adds, q)
      /\ \A k \in Keys : WritesTo(b, k) = WritesTo(s, k) \union WritesTo(t, k)
  BY DEF C!Both, Counts, DotCounts, WritesTo
<1>4. /\ \A q \in C!Replicas : m.up[q] = C!Greater(c.up[q], d.up[q])
      /\ \A q \in C!Replicas : m.down[q] = C!Greater(c.down[q], d.down[q])
      /\ \A q \in C!Replicas : m.counters[q] = C!Greater(c.counters[q], d.counters[q])
      /\ \A k \in Keys : m.entries[k] = C!Newer(c.entries[k], d.entries[k])
  BY DEF C!Merged
<1>5. ASSUME NEW q \in C!Replicas
      PROVE  /\ m.up[q] \in Nat /\ Highest(m.up[q], Counts(b.up, q))
             /\ m.down[q] \in Nat /\ Highest(m.down[q], Counts(b.down, q))
             /\ m.counters[q] \in Nat /\ Highest(m.counters[q], DotCounts(b.adds, q))
  <2>1. /\ c.up[q] \in Nat /\ c.down[q] \in Nat /\ c.counters[q] \in Nat
        /\ d.up[q] \in Nat /\ d.down[q] \in Nat /\ d.counters[q] \in Nat
    BY DEF C!Copy
  <2>2. /\ Counts(s.up, q) \in SUBSET Nat /\ Counts(t.up, q) \in SUBSET Nat
        /\ Counts(s.down, q) \in SUBSET Nat /\ Counts(t.down, q) \in SUBSET Nat
        /\ DotCounts(s.adds, q) \in SUBSET Nat /\ DotCounts(t.adds, q) \in SUBSET Nat
    BY DEF Counts, DotCounts
  <2>3. /\ Highest(c.up[q], Counts(s.up, q)) /\ Highest(d.up[q], Counts(t.up, q))
        /\ Highest(c.down[q], Counts(s.down, q)) /\ Highest(d.down[q], Counts(t.down, q))
        /\ Highest(c.counters[q], DotCounts(s.adds, q)) /\ Highest(d.counters[q], DotCounts(t.adds, q))
    BY DEF Known, Reflects, Counted, InSet
  <2>4. /\ Highest(C!Greater(c.up[q], d.up[q]), Counts(s.up, q) \union Counts(t.up, q))
        /\ C!Greater(c.up[q], d.up[q]) \in Nat
    BY <2>1, <2>2, <2>3, HighestOfBoth
  <2>5. /\ Highest(C!Greater(c.down[q], d.down[q]), Counts(s.down, q) \union Counts(t.down, q))
        /\ C!Greater(c.down[q], d.down[q]) \in Nat
    BY <2>1, <2>2, <2>3, HighestOfBoth
  <2>6. /\ Highest(C!Greater(c.counters[q], d.counters[q]), DotCounts(s.adds, q) \union DotCounts(t.adds, q))
        /\ C!Greater(c.counters[q], d.counters[q]) \in Nat
    BY <2>1, <2>2, <2>3, HighestOfBoth
  <2> HIDE DEF m, b
  <2> QED  BY <1>3, <1>4, <2>4, <2>5, <2>6
<1>6. ASSUME NEW k \in Keys
      PROVE  m.entries[k] \in C!Write /\ Latest(m.entries[k], WritesTo(b, k))
  <2>1. /\ c.entries[k] \in C!Write /\ d.entries[k] \in C!Write
        /\ WritesTo(s, k) \in SUBSET C!Write /\ WritesTo(t, k) \in SUBSET C!Write
    BY DEF C!Copy, WritesTo
  <2>2. Latest(c.entries[k], WritesTo(s, k)) /\ Latest(d.entries[k], WritesTo(t, k))
    BY DEF Known, Reflects, Written
  <2>3. \A y \in WritesTo(t, k) : C!Later(y.stamp, C!Start)
    BY WritesLater DEF WritesTo, Known
  <2>4. /\ C!Newer(c.entries[k], d.entries[k]) \in C!Write
        /\ Latest(C!Newer(c.entries[k], d.entries[k]), WritesTo(s, k) \union WritesTo(t, k))
    BY <2>1, <2>2, <2>3, LatestOfBoth
  <2> HIDE DEF m, b
  <2> QED  BY <1>3, <1>4, <2>4
<1>7. m.elements = b.inserts /\ m.deleted = b.deletes
  <2>1. s.inserts \subseteq C!Element /\ t.inserts \subseteq C!Element
    BY DEF C!Edits
  <2>2. \A e \in t.inserts : e.id \in C!Ids(s.inserts) => e \in s.inserts
    BY <2>1, ElementsUnique DEF Known, C!Ids
  <2>3. c.elements = s.inserts /\ d.elements = t.inserts /\ c.deleted = s.deletes /\ d.deleted = t.deletes
    BY DEF Known, Reflects, InText
  <2> QED  BY <2>2, <2>3 DEF C!Merged, C!Both
<1>8. \A e \in b.inserts : e.after \in C!Ids(b.inserts) \union {C!Start}
  BY DEF Known, Reflects, InText, C!Both, C!Ids
<1>9. m.adds = b.adds /\ m.removed = UNION b.removals
  BY DEF Known, Reflects, InSet, C!Merged, C!Both
<1>10. m \in C!Copy
  <2>1. /\ m.up \in [C!Replicas -> Nat] /\ m.down \in [C!Replicas -> Nat] /\ m.counters \in [C!Replicas -> Nat]
        /\ m.entries \in [Keys -> C!Write]
    BY <1>5, <1>6 DEF C!Merged
  <2>2. m.adds \subseteq Values \X C!Dots /\ m.removed \subseteq C!Dots
        /\ m.elements \subseteq C!Element /\ m.deleted \subseteq C!Stamps
    BY DEF C!Merged, C!Copy
  <2> QED  BY <2>1, <2>2 DEF C!Merged, C!Copy
<1>11. Reflects(m, b)
  <2> HIDE DEF m, b
  <2> QED  BY <1>5, <1>6, <1>7, <1>8, <1>9 DEF Reflects, Counted, Written, InSet, InText
<1> QED  BY <1>1, <1>2, <1>10, <1>11

-----------------------------------------------------------------------------
(* Steps. *)

Fields(s, t) ==
    /\ s.up \subseteq t.up /\ s.down \subseteq t.down /\ s.writes \subseteq t.writes
    /\ s.adds \subseteq t.adds /\ s.removals \subseteq t.removals
    /\ s.inserts \subseteq t.inserts /\ s.deletes \subseteq t.deletes

\* A step of r's own: its copy and what it has seen grow together.
LEMMA OwnStep ==
    ASSUME CopiesInv, NEW r \in C!Replicas, NEW c \in C!Copy, NEW s \in C!Edits, NEW time \in Nat,
           copy' = [copy EXCEPT ![r] = c], seen' = [seen EXCEPT ![r] = s],
           clock' = [clock EXCEPT ![r] = time], UNCHANGED sent,
           Fields(seen[r], s), Reflects(c, s), Owned(s, seen'), Fresh(r, s, time)
    PROVE  CopiesInv'
<1>1. CopiesOK'
  BY DEF CopiesInv, CopiesOK
<1>2. \A q \in C!Replicas : Fields(seen[q], seen'[q])
  BY DEF CopiesInv, CopiesOK, Fields
<1>3. \A t : Owned(t, seen) /\ t \in C!Edits => Owned(t, seen')
  <2> SUFFICES ASSUME NEW t \in C!Edits, Owned(t, seen) PROVE Owned(t, seen')
    OBVIOUS
  <2>1. \A w \in C!Write : w.stamp[2] \in C!Replicas
    BY DEF C!Write, C!Stamps
  <2>2. \A d \in C!Dots : d[1] \in C!Replicas
    BY DEF C!Dots
  <2>3. \A e \in t.inserts : e.id[2] \in C!Replicas
    BY DEF C!Edits, C!Element, C!Stamps
  <2> QED  BY <1>2, <2>1, <2>2, <2>3 DEF Owned, Fields
<1>4. ASSUME NEW q \in C!Replicas
      PROVE  Known(copy[q], seen[q], seen)' /\ Fresh(q, seen[q], clock[q])'
  <2>1. CASE q = r
    BY <2>1 DEF CopiesInv, CopiesOK, Known
  <2>2. CASE q # r
    <3>1. copy'[q] = copy[q] /\ seen'[q] = seen[q] /\ clock'[q] = clock[q] /\ seen[q] \in C!Edits
      BY <2>2 DEF CopiesInv, CopiesOK
    <3> QED  BY <1>3, <3>1 DEF CopiesInv, Known
  <2> QED  BY <2>1, <2>2
<1>5. \A m \in sent' : Known(m.copy, m.seen, seen')
  <2>1. \A m \in sent : m.seen \in C!Edits
    BY DEF CopiesInv, CopiesOK
  <2> QED  BY <1>3, <2>1 DEF CopiesInv, Known
<1> QED  BY <1>1, <1>4, <1>5 DEF CopiesInv

\* What r has seen, with an edit of its own added, is owned again.
LEMMA OwnedAgain ==
    ASSUME CopiesInv, NEW r \in C!Replicas, NEW s \in C!Edits, seen' = [seen EXCEPT ![r] = s],
           Fields(seen[r], s),
           \A k \in Keys, w \in C!Write : <<k, w>> \in s.writes \ seen[r].writes => w.stamp[2] = r,
           \A v \in Values, d \in C!Dots : <<v, d>> \in s.adds \ seen[r].adds => d[1] = r,
           \A e \in s.inserts \ seen[r].inserts : e.id[2] = r
    PROVE  Owned(s, seen')
<1>1. \A q \in C!Replicas : Fields(seen[q], seen'[q])
  BY DEF CopiesInv, CopiesOK, Fields
<1>2. seen'[r] = s /\ Owned(seen[r], seen)
  BY DEF CopiesInv, CopiesOK, Known
<1>3. ASSUME NEW k \in Keys, NEW w \in C!Write, <<k, w>> \in s.writes
      PROVE  <<k, w>> \in seen'[w.stamp[2]].writes
  <2>1. w.stamp[2] \in C!Replicas
    BY DEF C!Write, C!Stamps
  <2> QED  BY <1>1, <1>2, <1>3, <2>1 DEF Owned, Fields
<1>4. ASSUME NEW v \in Values, NEW d \in C!Dots, <<v, d>> \in s.adds
      PROVE  <<v, d>> \in seen'[d[1]].adds
  <2>1. d[1] \in C!Replicas
    BY DEF C!Dots
  <2> QED  BY <1>1, <1>2, <1>4, <2>1 DEF Owned, Fields
<1>5. ASSUME NEW e \in s.inserts
      PROVE  e \in seen'[e.id[2]].inserts
  <2>1. e.id[2] \in C!Replicas
    BY DEF C!Edits, C!Element, C!Stamps
  <2> QED  BY <1>1, <1>2, <2>1 DEF Owned, Fields
<1> QED  BY <1>3, <1>4, <1>5 DEF Owned

LEMMA AtMost ==
    ASSUME NEW a, NEW b, NEW x, a \in Nat, b \in Nat, x \in Nat, a <= b, b <= x
    PROVE  a <= x
OBVIOUS

\* A replica's count goes up, and the edit says so.
LEMMA CountRaised ==
    ASSUME NEW f \in [C!Replicas -> Nat], NEW pairs, NEW r \in C!Replicas, NEW n \in Nat, n >= f[r],
           \A q \in C!Replicas : Highest(f[q], Counts(pairs, q))
    PROVE  \A q \in C!Replicas :
               Highest([f EXCEPT ![r] = n][q], Counts(pairs \union {<<r, n>>}, q))
<1> SUFFICES ASSUME NEW q \in C!Replicas
             PROVE  Highest([f EXCEPT ![r] = n][q], Counts(pairs \union {<<r, n>>}, q))
  OBVIOUS
<1>1. CASE q = r
  <2>1. f[q] \in Nat /\ f[q] <= n /\ [f EXCEPT ![r] = n][q] = n
    BY <1>1
  <2>2. Counts(pairs \union {<<r, n>>}, q) = Counts(pairs, q) \union {n}
    BY <1>1 DEF Counts
  <2>3. \A m \in Counts(pairs, q) : m \in Nat /\ m <= f[q]
    BY DEF Counts, Highest
  <2>4. ASSUME NEW m \in Counts(pairs, q) PROVE m <= n
    <3>1. m \in Nat /\ m <= f[q] /\ f[q] \in Nat /\ f[q] <= n
      BY <2>1, <2>3
    <3> QED  BY <3>1, AtMost
  <2>5. n <= n
    OBVIOUS
  <2>6. Highest(n, Counts(pairs, q) \union {n})
    BY <2>4, <2>5, Zenon DEF Highest
  <2> QED  BY <2>1, <2>2, <2>6, Zenon
<1>2. CASE q # r
  <2>1. Counts(pairs \union {<<r, n>>}, q) = Counts(pairs, q)
    BY <1>2 DEF Counts
  <2> QED  BY <1>2, <2>1
<1> QED  BY <1>1, <1>2

LEMMA CountUpKeeps ==
    ASSUME CopiesInv, NEW r \in C!Replicas, C!CountUp(r)
    PROVE  CopiesInv'
<1> PICK n \in Nat :
        /\ n >= copy[r].up[r]
        /\ copy' = [copy EXCEPT ![r].up[r] = n]
        /\ seen' = [seen EXCEPT ![r].up = @ \union {<<r, n>>}]
  BY DEF C!CountUp
<1> DEFINE c == [copy[r] EXCEPT !.up = [copy[r].up EXCEPT ![r] = n]]
           s == [seen[r] EXCEPT !.up = @ \union {<<r, n>>}]
<1>1. copy[r] \in C!Copy /\ seen[r] \in C!Edits /\ Known(copy[r], seen[r], seen) /\ Fresh(r, seen[r], clock[r])
  BY DEF CopiesInv, CopiesOK
<1>2. copy[r].up[r] \in Nat
  BY <1>1 DEF C!Copy
<1>3. c \in C!Copy /\ s \in C!Edits /\ Fields(seen[r], s)
  <2>1. c \in C!Copy
    BY <1>1, <1>2 DEF C!Copy
  <2>2. s \in C!Edits /\ Fields(seen[r], s)
    BY <1>1, <1>2 DEF C!Edits, Fields
  <2> QED  BY <2>1, <2>2
<1>4. /\ copy' = [copy EXCEPT ![r] = c] /\ seen' = [seen EXCEPT ![r] = s]
      /\ clock' = [clock EXCEPT ![r] = clock[r]] /\ clock[r] \in Nat /\ sent' = sent
  BY <1>1 DEF CopiesInv, CopiesOK, C!CountUp, C!Copy, C!Edits
<1>5. Counted(c, s)
  <2>1. c.down = copy[r].down /\ s.down = seen[r].down
    BY <1>1 DEF C!Copy, C!Edits
  <2>2. c.up = [copy[r].up EXCEPT ![r] = n] /\ s.up = seen[r].up \union {<<r, n>>}
    BY <1>1 DEF C!Copy, C!Edits
  <2>3. /\ copy[r].up \in [C!Replicas -> Nat]
        /\ \A q \in C!Replicas : Highest(copy[r].up[q], Counts(seen[r].up, q))
    BY <1>1 DEF Known, Reflects, Counted, C!Copy
  <2>4. \A q \in C!Replicas : Highest([copy[r].up EXCEPT ![r] = n][q],
                                     Counts(seen[r].up \union {<<r, n>>}, q))
    BY <2>3, CountRaised
  <2>5. \A q \in C!Replicas : Highest(c.up[q], Counts(s.up, q))
    BY <2>2, <2>4
  <2> QED  BY <1>1, <2>1, <2>5 DEF Known, Reflects, Counted
<1>6. Reflects(c, s)
  BY <1>1, <1>5 DEF Known, Reflects, Written, InSet, InText, C!Copy, C!Edits, WritesTo
<1>7. Owned(s, seen')
  <2>1. s.writes = seen[r].writes /\ s.adds = seen[r].adds /\ s.inserts = seen[r].inserts
    BY <1>1 DEF C!Edits
  <2> HIDE DEF s
  <2> QED  BY <1>3, <1>4, <2>1, OwnedAgain
<1>8. Fresh(r, s, clock[r])
  BY <1>1 DEF Fresh, C!Edits
<1> HIDE DEF c, s
<1> QED  BY <1>3, <1>4, <1>6, <1>7, <1>8, OwnStep

LEMMA CountDownKeeps ==
    ASSUME CopiesInv, NEW r \in C!Replicas, C!CountDown(r)
    PROVE  CopiesInv'
<1> PICK n \in Nat :
        /\ n >= copy[r].down[r]
        /\ copy' = [copy EXCEPT ![r].down[r] = n]
        /\ seen' = [seen EXCEPT ![r].down = @ \union {<<r, n>>}]
  BY DEF C!CountDown
<1> DEFINE c == [copy[r] EXCEPT !.down = [copy[r].down EXCEPT ![r] = n]]
           s == [seen[r] EXCEPT !.down = @ \union {<<r, n>>}]
<1>1. copy[r] \in C!Copy /\ seen[r] \in C!Edits /\ Known(copy[r], seen[r], seen) /\ Fresh(r, seen[r], clock[r])
  BY DEF CopiesInv, CopiesOK
<1>2. copy[r].down[r] \in Nat
  BY <1>1 DEF C!Copy
<1>3. c \in C!Copy /\ s \in C!Edits /\ Fields(seen[r], s)
  <2>1. c \in C!Copy
    BY <1>1, <1>2 DEF C!Copy
  <2>2. s \in C!Edits /\ Fields(seen[r], s)
    BY <1>1, <1>2 DEF C!Edits, Fields
  <2> QED  BY <2>1, <2>2
<1>4. /\ copy' = [copy EXCEPT ![r] = c] /\ seen' = [seen EXCEPT ![r] = s]
      /\ clock' = [clock EXCEPT ![r] = clock[r]] /\ clock[r] \in Nat /\ sent' = sent
  BY <1>1 DEF CopiesInv, CopiesOK, C!CountDown, C!Copy, C!Edits
<1>5. Counted(c, s)
  <2>1. c.up = copy[r].up /\ s.up = seen[r].up
    BY <1>1 DEF C!Copy, C!Edits
  <2>2. c.down = [copy[r].down EXCEPT ![r] = n] /\ s.down = seen[r].down \union {<<r, n>>}
    BY <1>1 DEF C!Copy, C!Edits
  <2>3. /\ copy[r].down \in [C!Replicas -> Nat]
        /\ \A q \in C!Replicas : Highest(copy[r].down[q], Counts(seen[r].down, q))
    BY <1>1 DEF Known, Reflects, Counted, C!Copy
  <2>4. \A q \in C!Replicas : Highest([copy[r].down EXCEPT ![r] = n][q],
                                     Counts(seen[r].down \union {<<r, n>>}, q))
    BY <2>3, CountRaised
  <2>5. \A q \in C!Replicas : Highest(c.down[q], Counts(s.down, q))
    BY <2>2, <2>4
  <2> QED  BY <1>1, <2>1, <2>5 DEF Known, Reflects, Counted
<1>6. Reflects(c, s)
  BY <1>1, <1>5 DEF Known, Reflects, Written, InSet, InText, C!Copy, C!Edits, WritesTo
<1>7. Owned(s, seen')
  <2>1. s.writes = seen[r].writes /\ s.adds = seen[r].adds /\ s.inserts = seen[r].inserts
    BY <1>1 DEF C!Edits
  <2> HIDE DEF s
  <2> QED  BY <1>3, <1>4, <2>1, OwnedAgain
<1>8. Fresh(r, s, clock[r])
  BY <1>1 DEF Fresh, C!Edits
<1> HIDE DEF c, s
<1> QED  BY <1>3, <1>4, <1>6, <1>7, <1>8, OwnStep

LEMMA WriteKeeps ==
    ASSUME CopiesInv, NEW r \in C!Replicas, C!WriteEntry(r)
    PROVE  CopiesInv'
<1> PICK k \in Keys, v \in Values \union {Nothing}, time \in Nat :
        LET w == [value |-> v, stamp |-> <<time, r>>] IN
        /\ C!Stamped(r, time)
        /\ copy' = [copy EXCEPT ![r].entries[k] = C!Newer(@, w)]
        /\ seen' = [seen EXCEPT ![r].writes = @ \union {<<k, w>>}]
        /\ UNCHANGED sent
  BY DEF C!WriteEntry
<1> DEFINE w == [value |-> v, stamp |-> <<time, r>>]
           c == [copy[r] EXCEPT !.entries = [copy[r].entries EXCEPT ![k] = C!Newer(copy[r].entries[k], w)]]
           s == [seen[r] EXCEPT !.writes = @ \union {<<k, w>>}]
<1>1. copy[r] \in C!Copy /\ seen[r] \in C!Edits /\ Known(copy[r], seen[r], seen) /\ Fresh(r, seen[r], clock[r])
  BY DEF CopiesInv, CopiesOK
<1>2. w \in C!Write /\ w.stamp = <<time, r>> /\ C!Later(w.stamp, C!Start) /\ clock[r] \in Nat /\ time > clock[r]
  BY DEF C!Write, C!Stamps, C!Later, C!Start, C!Stamped, CopiesInv, CopiesOK
<1>3. c \in C!Copy /\ s \in C!Edits /\ Fields(seen[r], s)
  <2>1. c \in C!Copy
    BY <1>1, <1>2 DEF C!Copy, C!Newer
  <2>2. s \in C!Edits /\ Fields(seen[r], s)
    BY <1>1, <1>2 DEF C!Edits, Fields
  <2> QED  BY <2>1, <2>2
<1>4. /\ copy' = [copy EXCEPT ![r] = c] /\ seen' = [seen EXCEPT ![r] = s]
      /\ clock' = [clock EXCEPT ![r] = time] /\ sent' = sent
  BY <1>1 DEF CopiesInv, CopiesOK, C!Stamped, C!Copy, C!Edits
<1> HIDE DEF w
<1>5. Written(c, s)
  <2> SUFFICES ASSUME NEW l \in Keys PROVE Latest(c.entries[l], WritesTo(s, l))
    BY DEF Written
  <2>1. copy[r].entries[l] \in C!Write /\ Latest(copy[r].entries[l], WritesTo(seen[r], l))
    BY <1>1 DEF C!Copy, Known, Reflects, Written
  <2>2. CASE l # k
    <3>1. c.entries[l] = copy[r].entries[l]
      BY <1>1, <2>2 DEF C!Copy
    <3>2. WritesTo(s, l) = WritesTo(seen[r], l)
      BY <1>1, <2>2 DEF WritesTo, C!Edits
    <3> QED  BY <2>1, <3>1, <3>2
  <2>3. CASE l = k
    <3>1. c.entries[l] = C!Newer(copy[r].entries[l], w)
      BY <1>1, <2>3 DEF C!Copy
    <3>2. WritesTo(s, l) = WritesTo(seen[r], l) \union {w}
      BY <1>1, <1>2, <2>3 DEF WritesTo, C!Edits
    <3>3. Latest(w, {w})
      BY <1>2 DEF Latest, C!Later, C!Replicas
    <3>4. WritesTo(seen[r], l) \in SUBSET C!Write
      BY DEF WritesTo
    <3>5. Latest(C!Newer(copy[r].entries[l], w), WritesTo(seen[r], l) \union {w})
      BY <1>2, <2>1, <3>3, <3>4, LatestOfBoth
    <3> QED  BY <3>1, <3>2, <3>5
  <2> QED  BY <2>2, <2>3
<1>6. Reflects(c, s)
  BY <1>1, <1>5 DEF Known, Reflects, Counted, InSet, InText, C!Copy, C!Edits
<1>7. Owned(s, seen')
  <2>1. /\ s.writes = seen[r].writes \union {<<k, w>>}
        /\ s.adds = seen[r].adds /\ s.inserts = seen[r].inserts
    BY <1>1 DEF C!Edits
  <2>2. w.stamp[2] = r
    BY <1>2
  <2> HIDE DEF s
  <2> QED  BY <1>3, <1>4, <2>1, <2>2, OwnedAgain
<1>8. Fresh(r, s, time)
  BY <1>1, <1>2 DEF Fresh, C!Edits
<1> HIDE DEF c, s
<1> QED  BY <1>3, <1>4, <1>6, <1>7, <1>8, OwnStep

LEMMA AddKeeps ==
    ASSUME CopiesInv, NEW r \in C!Replicas, C!AddToSet(r)
    PROVE  CopiesInv'
<1> PICK v \in Values :
        LET n == copy[r].counters[r] + 1 IN
        /\ copy' = [copy EXCEPT ![r].counters[r] = n, ![r].adds = @ \union {<<v, <<r, n>>>>}]
        /\ seen' = [seen EXCEPT ![r].adds = @ \union {<<v, <<r, n>>>>}]
  BY DEF C!AddToSet
<1> DEFINE n == copy[r].counters[r] + 1
           c == [copy[r] EXCEPT !.counters = [copy[r].counters EXCEPT ![r] = n],
                                !.adds = @ \union {<<v, <<r, n>>>>}]
           s == [seen[r] EXCEPT !.adds = @ \union {<<v, <<r, n>>>>}]
<1>1. copy[r] \in C!Copy /\ seen[r] \in C!Edits /\ Known(copy[r], seen[r], seen) /\ Fresh(r, seen[r], clock[r])
  BY DEF CopiesInv, CopiesOK
<1>2. copy[r].counters \in [C!Replicas -> Nat] /\ n \in Nat /\ n > copy[r].counters[r]
  BY <1>1 DEF C!Copy
<1>3. c \in C!Copy /\ s \in C!Edits /\ Fields(seen[r], s)
  <2>1. c \in C!Copy
    <3>1. [copy[r].counters EXCEPT ![r] = n] \in [C!Replicas -> Nat] /\ <<v, <<r, n>>>> \in Values \X C!Dots
      BY <1>2 DEF C!Dots
    <3> HIDE DEF n
    <3> QED  BY <1>1, <3>1 DEF C!Copy
  <2>2. s \in C!Edits /\ Fields(seen[r], s)
    BY <1>1, <1>2 DEF C!Edits, Fields, C!Dots
  <2> QED  BY <2>1, <2>2
<1>4. /\ copy' = [copy EXCEPT ![r] = c] /\ seen' = [seen EXCEPT ![r] = s]
      /\ clock' = [clock EXCEPT ![r] = clock[r]] /\ clock[r] \in Nat /\ sent' = sent
  BY <1>1 DEF CopiesInv, CopiesOK, C!AddToSet, C!Copy, C!Edits
<1>5. /\ c.adds = copy[r].adds \union {<<v, <<r, n>>>>}
      /\ c.counters = [copy[r].counters EXCEPT ![r] = n]
      /\ s.adds = seen[r].adds \union {<<v, <<r, n>>>>}
      /\ c.removed = copy[r].removed /\ s.removals = seen[r].removals
      /\ s.writes = seen[r].writes /\ s.inserts = seen[r].inserts
  BY <1>1 DEF C!Copy, C!Edits
<1>6. InSet(c, s)
  <2>1. /\ copy[r].adds = seen[r].adds /\ copy[r].removed = UNION seen[r].removals
        /\ \A q \in C!Replicas : Highest(copy[r].counters[q], DotCounts(seen[r].adds, q))
    BY <1>1 DEF Known, Reflects, InSet
  <2> HIDE DEF c, s, n
  <2> SUFFICES ASSUME NEW q \in C!Replicas PROVE Highest(c.counters[q], DotCounts(s.adds, q))
    BY <1>5, <2>1 DEF InSet
  <2>2. CASE q = r
    <3>1. DotCounts(s.adds, q) = DotCounts(seen[r].adds, q) \union {n}
      BY <1>2, <1>5, <2>2 DEF DotCounts
    <3>2. \A m \in DotCounts(seen[r].adds, q) : m \in Nat /\ m <= copy[r].counters[q]
      BY <2>1 DEF DotCounts, Highest
    <3>3. ASSUME NEW m \in DotCounts(seen[r].adds, q) PROVE m <= n
      <4>1. m \in Nat /\ m <= copy[r].counters[r] /\ copy[r].counters[r] \in Nat
        BY <1>2, <2>2, <3>2
      <4> QED  BY <1>2, <4>1, AtMost
    <3>4. n <= n
      BY <1>2
    <3>5. Highest(n, DotCounts(seen[r].adds, q) \union {n})
      BY <2>2, <3>3, <3>4, Zenon DEF Highest
    <3>6. c.counters[q] = n
      BY <1>2, <1>5, <2>2
    <3> QED  BY <3>1, <3>5, <3>6, Zenon
  <2>3. CASE q # r
    <3>1. DotCounts(s.adds, q) = DotCounts(seen[r].adds, q)
      BY <1>5, <2>3 DEF DotCounts
    <3> QED  BY <1>2, <1>5, <2>1, <2>3, <3>1
  <2> QED  BY <2>2, <2>3
<1>7. Reflects(c, s)
  BY <1>1, <1>6 DEF Known, Reflects, Counted, Written, InText, C!Copy, C!Edits, WritesTo
<1>8. Owned(s, seen')
  <2>1. \A w \in Values, d \in C!Dots : <<w, d>> \in s.adds \ seen[r].adds => d[1] = r
    <3> HIDE DEF s, n
    <3> QED  BY <1>5
  <2> HIDE DEF s, n
  <2> QED  BY <1>3, <1>4, <1>5, <2>1, OwnedAgain
<1>9. Fresh(r, s, clock[r])
  \* The replica's dots so far go up to its counter, so that this one is new.
  <2>1. \A w \in Values : <<w, <<r, n>>>> \notin seen[r].adds
    <3> SUFFICES ASSUME NEW w \in Values, <<w, <<r, n>>>> \in seen[r].adds PROVE FALSE
      OBVIOUS
    <3>1. n \in DotCounts(seen[r].adds, r)
      BY <1>2 DEF DotCounts
    <3>2. Highest(copy[r].counters[r], DotCounts(seen[r].adds, r))
      BY <1>1 DEF Known, Reflects, InSet
    <3> QED  BY <1>2, <3>1, <3>2 DEF Highest
  <2> HIDE DEF s, n
  <2> QED  BY <1>1, <1>5, <2>1 DEF Fresh
<1> HIDE DEF c, s
<1> QED  BY <1>3, <1>4, <1>7, <1>8, <1>9, OwnStep

LEMMA RemoveKeeps ==
    ASSUME CopiesInv, NEW r \in C!Replicas, C!RemoveFromSet(r)
    PROVE  CopiesInv'
<1> PICK v \in Values :
        /\ copy' = [copy EXCEPT ![r].removed = @ \union C!DotsOf(copy[r].adds, v)]
        /\ seen' = [seen EXCEPT ![r].removals = @ \union {C!DotsOf(copy[r].adds, v)}]
  BY DEF C!RemoveFromSet
<1> DEFINE dots == C!DotsOf(copy[r].adds, v)
           c == [copy[r] EXCEPT !.removed = @ \union dots]
           s == [seen[r] EXCEPT !.removals = @ \union {dots}]
<1>1. copy[r] \in C!Copy /\ seen[r] \in C!Edits /\ Known(copy[r], seen[r], seen) /\ Fresh(r, seen[r], clock[r])
  BY DEF CopiesInv, CopiesOK
<1>2. dots \subseteq C!Dots
  BY DEF C!DotsOf
<1>3. c \in C!Copy /\ s \in C!Edits /\ Fields(seen[r], s)
  <2> HIDE DEF dots
  <2>1. c \in C!Copy
    BY <1>1, <1>2 DEF C!Copy
  <2>2. s \in C!Edits /\ Fields(seen[r], s)
    BY <1>1, <1>2 DEF C!Edits, Fields
  <2> QED  BY <2>1, <2>2
<1>4. /\ copy' = [copy EXCEPT ![r] = c] /\ seen' = [seen EXCEPT ![r] = s]
      /\ clock' = [clock EXCEPT ![r] = clock[r]] /\ clock[r] \in Nat /\ sent' = sent
  BY <1>1 DEF CopiesInv, CopiesOK, C!RemoveFromSet, C!Copy, C!Edits
<1>5. /\ s.writes = seen[r].writes /\ s.inserts = seen[r].inserts /\ s.adds = seen[r].adds
  BY <1>1 DEF C!Edits
<1>6. Reflects(c, s)
  <2>1. /\ c.up = copy[r].up /\ c.down = copy[r].down /\ c.entries = copy[r].entries
        /\ c.elements = copy[r].elements /\ c.deleted = copy[r].deleted
        /\ c.adds = copy[r].adds /\ c.counters = copy[r].counters
        /\ c.removed = copy[r].removed \union dots
    <3> HIDE DEF dots
    <3> QED  BY <1>1 DEF C!Copy
  <2>2. /\ s.up = seen[r].up /\ s.down = seen[r].down /\ s.deletes = seen[r].deletes
        /\ s.removals = seen[r].removals \union {dots}
    <3> HIDE DEF dots
    <3> QED  BY <1>1 DEF C!Edits
  <2>3. c.removed = UNION s.removals
    <3>1. copy[r].removed = UNION seen[r].removals
      BY <1>1 DEF Known, Reflects, InSet
    <3> HIDE DEF c, s, dots
    <3> QED  BY <2>1, <2>2, <3>1
  <2> HIDE DEF c, s, dots
  <2>4. Counted(c, s) /\ Written(c, s) /\ InText(c, s)
    BY <1>1, <1>5, <2>1, <2>2 DEF Known, Reflects, Counted, Written, InText, WritesTo
  <2>5. InSet(c, s)
    BY <1>1, <1>5, <2>1, <2>3 DEF Known, Reflects, InSet
  <2> QED  BY <2>4, <2>5 DEF Reflects
<1>7. Owned(s, seen')
  <2> HIDE DEF s
  <2> QED  BY <1>3, <1>4, <1>5, OwnedAgain
<1>8. Fresh(r, s, clock[r])
  <2> HIDE DEF s
  <2> QED  BY <1>1, <1>5 DEF Fresh
<1> HIDE DEF c, s
<1> QED  BY <1>3, <1>4, <1>6, <1>7, <1>8, OwnStep

LEMMA InsertKeeps ==
    ASSUME CopiesInv, NEW r \in C!Replicas, C!InsertElement(r)
    PROVE  CopiesInv'
<1> PICK v \in Values, after \in C!Visible(copy[r]) \union {C!Start}, time \in Nat :
        LET e == [id |-> <<time, r>>, after |-> after, value |-> v] IN
        /\ C!Stamped(r, time)
        /\ copy' = [copy EXCEPT ![r].elements = IF e.id \in C!Ids(@) THEN @ ELSE @ \union {e}]
        /\ seen' = [seen EXCEPT ![r].inserts = @ \union {e}]
        /\ UNCHANGED sent
  BY DEF C!InsertElement
<1> DEFINE e == [id |-> <<time, r>>, after |-> after, value |-> v]
           c == [copy[r] EXCEPT !.elements = @ \union {e}]
           s == [seen[r] EXCEPT !.inserts = @ \union {e}]
<1>1. copy[r] \in C!Copy /\ seen[r] \in C!Edits /\ Known(copy[r], seen[r], seen) /\ Fresh(r, seen[r], clock[r])
  BY DEF CopiesInv, CopiesOK
<1>2. copy[r].elements = seen[r].inserts /\ copy[r].deleted = seen[r].deletes
  BY <1>1 DEF Known, Reflects, InText
<1>3. e \in C!Element /\ clock[r] \in Nat /\ time > clock[r] /\ after \in C!Ids(seen[r].inserts) \union {C!Start}
  <2>1. C!Ids(copy[r].elements) \subseteq C!Stamps
    BY <1>1 DEF C!Ids, C!Copy, C!Element
  <2>2. after \in C!Stamps
    BY <2>1 DEF C!Visible, C!Start, C!Stamps, C!Replicas
  <2> QED  BY <1>2, <2>2 DEF C!Element, C!Stamps, C!Stamped, CopiesInv, CopiesOK, C!Visible
<1>4. e.id \notin C!Ids(copy[r].elements)
  \* The clock has moved on since the last insertion here.
  BY <1>1, <1>2, <1>3 DEF C!Ids, Fresh
<1>5. c \in C!Copy /\ s \in C!Edits /\ Fields(seen[r], s)
  <2> HIDE DEF e
  <2>1. c \in C!Copy
    BY <1>1, <1>3 DEF C!Copy
  <2>2. s \in C!Edits /\ Fields(seen[r], s)
    BY <1>1, <1>3 DEF C!Edits, Fields
  <2> QED  BY <2>1, <2>2
<1>6. /\ copy' = [copy EXCEPT ![r] = c] /\ seen' = [seen EXCEPT ![r] = s]
      /\ clock' = [clock EXCEPT ![r] = time] /\ sent' = sent
  <2>1. copy' = [copy EXCEPT ![r].elements = @ \union {e}]
    BY <1>1, <1>4 DEF CopiesInv, CopiesOK, C!Copy
  <2> QED  BY <1>1, <2>1 DEF CopiesInv, CopiesOK, C!Stamped, C!Copy, C!Edits
<1>7. /\ s.writes = seen[r].writes /\ s.adds = seen[r].adds /\ s.inserts = seen[r].inserts \union {e}
      /\ s.deletes = seen[r].deletes /\ c.elements = copy[r].elements \union {e}
      /\ c.deleted = copy[r].deleted
  BY <1>1 DEF C!Copy, C!Edits
<1>8. e.id = <<time, r>> /\ e.id[1] = time /\ e.id[2] = r /\ e.after = after
  OBVIOUS
<1>9. InText(c, s)
  <2> HIDE DEF c, s, e
  <2>1. \A f \in seen[r].inserts : f.after \in C!Ids(seen[r].inserts) \union {C!Start}
    BY <1>1 DEF Known, Reflects, InText
  <2>2. C!Ids(seen[r].inserts) \subseteq C!Ids(s.inserts)
    BY <1>7 DEF C!Ids
  <2> QED  BY <1>2, <1>3, <1>7, <1>8, <2>1, <2>2 DEF InText
<1>10. Reflects(c, s)
  BY <1>1, <1>9 DEF Known, Reflects, Counted, Written, InSet, C!Copy, C!Edits, WritesTo
<1>11. Owned(s, seen')
  <2> HIDE DEF s, e
  <2> QED  BY <1>5, <1>6, <1>7, <1>8, OwnedAgain
<1>12. Fresh(r, s, time)
  <2>1. \A f \in seen[r].inserts : f.id # e.id
    BY <1>2, <1>4 DEF C!Ids
  <2> HIDE DEF s, e
  <2>2. \A f \in s.inserts : f.id[2] = r => f.id[1] \in 1..time
    BY <1>1, <1>3, <1>7, <1>8 DEF Fresh
  <2>3. \A f, g \in s.inserts : f.id[2] = r /\ f.id = g.id => f = g
    BY <1>1, <1>7, <2>1 DEF Fresh
  <2> QED  BY <1>1, <1>3, <1>7, <2>2, <2>3 DEF Fresh
<1> HIDE DEF c, s
<1> QED  BY <1>5, <1>6, <1>10, <1>11, <1>12, OwnStep

LEMMA DeleteKeeps ==
    ASSUME CopiesInv, NEW r \in C!Replicas, C!DeleteElement(r)
    PROVE  CopiesInv'
<1> PICK id \in C!Visible(copy[r]) :
        /\ copy' = [copy EXCEPT ![r].deleted = @ \union {id}]
        /\ seen' = [seen EXCEPT ![r].deletes = @ \union {id}]
  BY DEF C!DeleteElement
<1> DEFINE c == [copy[r] EXCEPT !.deleted = @ \union {id}]
           s == [seen[r] EXCEPT !.deletes = @ \union {id}]
<1>1. copy[r] \in C!Copy /\ seen[r] \in C!Edits /\ Known(copy[r], seen[r], seen) /\ Fresh(r, seen[r], clock[r])
  BY DEF CopiesInv, CopiesOK
<1>2. id \in C!Stamps
  BY <1>1 DEF C!Visible, C!Ids, C!Copy, C!Element
<1>3. c \in C!Copy /\ s \in C!Edits /\ Fields(seen[r], s)
  <2>1. c \in C!Copy
    BY <1>1, <1>2 DEF C!Copy
  <2>2. s \in C!Edits /\ Fields(seen[r], s)
    BY <1>1, <1>2 DEF C!Edits, Fields
  <2> QED  BY <2>1, <2>2
<1>4. /\ copy' = [copy EXCEPT ![r] = c] /\ seen' = [seen EXCEPT ![r] = s]
      /\ clock' = [clock EXCEPT ![r] = clock[r]] /\ clock[r] \in Nat /\ sent' = sent
  BY <1>1 DEF CopiesInv, CopiesOK, C!DeleteElement, C!Copy, C!Edits
<1>5. /\ s.writes = seen[r].writes /\ s.inserts = seen[r].inserts /\ s.adds = seen[r].adds
  BY <1>1 DEF C!Edits
<1>6. Reflects(c, s)
  BY <1>1 DEF Known, Reflects, Counted, Written, InSet, InText, C!Copy, C!Edits, WritesTo
<1>7. Owned(s, seen')
  <2> HIDE DEF s
  <2> QED  BY <1>3, <1>4, <1>5, OwnedAgain
<1>8. Fresh(r, s, clock[r])
  <2> HIDE DEF s
  <2> QED  BY <1>1, <1>5 DEF Fresh
<1> HIDE DEF c, s
<1> QED  BY <1>3, <1>4, <1>6, <1>7, <1>8, OwnStep

LEMMA SendKeeps ==
    ASSUME CopiesInv, NEW r \in C!Replicas, C!Send(r)
    PROVE  CopiesInv'
<1>1. UNCHANGED <<copy, clock, seen>> /\ sent' = sent \union {[copy |-> copy[r], seen |-> seen[r]]}
  BY DEF C!Send
<1>2. [copy |-> copy[r], seen |-> seen[r]] \in [copy : C!Copy, seen : C!Edits]
  BY DEF CopiesInv, CopiesOK
<1>3. \A m \in sent' : Known(m.copy, m.seen, seen)
  BY <1>1 DEF CopiesInv
<1> QED  BY <1>1, <1>2, <1>3 DEF CopiesInv, CopiesOK

LEMMA MergeKeeps ==
    ASSUME CopiesInv, NEW r \in C!Replicas, C!Merge(r)
    PROVE  CopiesInv'
<1> PICK m \in sent :
        /\ copy' = [copy EXCEPT ![r] = C!Merged(@, m.copy)]
        /\ seen' = [seen EXCEPT ![r] = C!Both(@, m.seen)]
  BY DEF C!Merge
<1> DEFINE c == C!Merged(copy[r], m.copy)  s == C!Both(seen[r], m.seen)
<1>1. /\ copy[r] \in C!Copy /\ seen[r] \in C!Edits /\ Known(copy[r], seen[r], seen)
      /\ Fresh(r, seen[r], clock[r]) /\ clock[r] \in Nat
      /\ m.copy \in C!Copy /\ m.seen \in C!Edits /\ Known(m.copy, m.seen, seen)
  BY DEF CopiesInv, CopiesOK
<1>2. c \in C!Copy /\ s \in C!Edits /\ Reflects(c, s) /\ Owned(s, seen)
  BY <1>1, MergeReflects
<1>3. /\ copy' = [copy EXCEPT ![r] = c] /\ seen' = [seen EXCEPT ![r] = s]
      /\ clock' = [clock EXCEPT ![r] = clock[r]] /\ sent' = sent
  BY DEF C!Merge, CopiesInv, CopiesOK
<1>4. Fields(seen[r], s)
  BY DEF Fields, C!Both
\* What is r's own in a copy, r has seen before.
<1>5. /\ s.writes = seen[r].writes \union m.seen.writes
      /\ s.adds = seen[r].adds \union m.seen.adds
      /\ s.inserts = seen[r].inserts \union m.seen.inserts
  BY DEF C!Both
<1>6. /\ \A k \in Keys, w \in C!Write : <<k, w>> \in s.writes /\ w.stamp[2] = r => <<k, w>> \in seen[r].writes
      /\ \A v \in Values, n \in Nat : <<v, <<r, n>>>> \in s.adds => <<v, <<r, n>>>> \in seen[r].adds
      /\ \A e \in s.inserts : e.id[2] = r => e \in seen[r].inserts
  <2>1. \A n \in Nat : <<r, n>> \in C!Dots
    BY DEF C!Dots
  <2> HIDE DEF s
  <2> QED  BY <1>1, <1>5, <2>1 DEF Known, Owned
<1> HIDE DEF c, s
<1>7. Fresh(r, s, clock[r])
  <2>1. /\ \A k \in Keys, w \in C!Write :
               <<k, w>> \in s.writes /\ w.stamp[2] = r => w.stamp[1] \in 1..clock[r]
        /\ \A e \in s.inserts : e.id[2] = r => e.id[1] \in 1..clock[r]
    BY <1>1, <1>6 DEF Fresh
  <2>2. \A k, l \in Keys, w, x \in C!Write :
            <<k, w>> \in s.writes /\ <<l, x>> \in s.writes /\ w.stamp[2] = r /\ w.stamp = x.stamp
                => w = x
    BY <1>1, <1>6 DEF Fresh
  <2>3. \A e, f \in s.inserts : e.id[2] = r /\ e.id = f.id => e = f
    BY <1>1, <1>6 DEF Fresh
  <2>4. \A v, w \in Values, n \in Nat :
            <<v, <<r, n>>>> \in s.adds /\ <<w, <<r, n>>>> \in s.adds => v = w
    BY <1>1, <1>6 DEF Fresh
  <2> QED  BY <2>1, <2>2, <2>3, <2>4 DEF Fresh
<1>8. Owned(s, seen')
  <2>1. /\ \A k \in Keys, w \in C!Write : <<k, w>> \in s.writes \ seen[r].writes => <<k, w>> \in seen[w.stamp[2]].writes
        /\ \A q \in C!Replicas : Fields(seen[q], seen'[q])
    BY <1>2, <1>3, <1>4 DEF Owned, CopiesInv, CopiesOK, Fields
  <2>2. \A w \in C!Write : w.stamp[2] \in C!Replicas
    BY DEF C!Write, C!Stamps
  <2>3. \A d \in C!Dots : d[1] \in C!Replicas
    BY DEF C!Dots
  <2>4. \A e \in s.inserts : e.id[2] \in C!Replicas
    BY <1>2 DEF C!Edits, C!Element, C!Stamps
  <2> QED  BY <1>2, <2>1, <2>2, <2>3, <2>4 DEF Owned, Fields
<1> QED  BY <1>1, <1>2, <1>3, <1>4, <1>7, <1>8, OwnStep

LEMMA NextKeeps == CopiesInv /\ [C!Next]_C!vars => CopiesInv'
<1> SUFFICES ASSUME CopiesInv, [C!Next]_C!vars PROVE CopiesInv'
  OBVIOUS
<1>1. CASE UNCHANGED C!vars
  BY <1>1 DEF C!vars, CopiesInv, CopiesOK
<1>2. CASE C!Next
  BY <1>2, CountUpKeeps, CountDownKeeps, WriteKeeps, AddKeeps, RemoveKeeps, InsertKeeps,
     DeleteKeeps, SendKeeps, MergeKeeps DEF C!Next
<1> QED  BY <1>1, <1>2

LEMMA Invariant == C!Spec => []CopiesInv
BY CopiesInit, NextKeeps, PTL DEF C!Spec

-----------------------------------------------------------------------------

\* Replicas that have seen the same edits hold the same copy, whatever was
\* sent, lost, doubled, reordered and merged on the way (Crdt::merge).
THEOREM Convergence == C!Spec => []C!Converged
<1>1. CopiesInv => C!Converged
  BY Determined DEF CopiesInv, CopiesOK, C!Converged
<1> QED  BY <1>1, Invariant, PTL

\* A removal takes away only adds its replica had seen, so that an add made
\* elsewhere at the same time stays (OrSet), and no dot is given twice.
THEOREM AddsWin == C!Spec => []C!AddWins
<1>1. CopiesInv => C!AddWins
  <2> SUFFICES ASSUME CopiesInv PROVE C!AddWins
    OBVIOUS
  <2>1. \A r \in C!Replicas : copy[r].adds = seen[r].adds /\ copy[r].removed = UNION seen[r].removals
    BY DEF CopiesInv, Known, Reflects, InSet
  <2>2. \A r \in C!Replicas : Owned(seen[r], seen)
    BY DEF CopiesInv, Known
  <2>3. \A r, q \in C!Replicas, v, w \in Values, d \in C!Dots :
            <<v, d>> \in copy[r].adds /\ <<w, d>> \in copy[q].adds => v = w
    BY <2>1, <2>2, DotsUnique
  <2> QED  BY <2>1, <2>3 DEF C!AddWins, C!Contains
<1> QED  BY <1>1, Invariant, PTL

\* Every element of a sequence has what it was inserted after, and element
\* ids are unique across replicas (Rga).
THEOREM TextAnchored == C!Spec => []C!Anchored
<1>1. CopiesInv => C!Anchored
  <2> SUFFICES ASSUME CopiesInv PROVE C!Anchored
    OBVIOUS
  <2>1. \A r \in C!Replicas : InText(copy[r], seen[r]) /\ Owned(seen[r], seen) /\ seen[r].inserts \subseteq C!Element
    BY DEF CopiesInv, CopiesOK, Known, Reflects, C!Edits
  <2>2. \A r, q \in C!Replicas : \A e \in seen[r].inserts, f \in seen[q].inserts : e.id = f.id => e = f
    BY <2>1, ElementsUnique
  <2> QED  BY <2>1, <2>2 DEF C!Anchored, InText
<1> QED  BY <1>1, Invariant, PTL
=============================================================================
