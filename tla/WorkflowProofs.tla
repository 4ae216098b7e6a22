---------------------------- MODULE WorkflowProofs ----------------------------
(***************************************************************************)
(* Theorems about Workflow, for any workflow, any number of engines on one *)
(* database, any number of crashes, signals and deployments: a             *)
(* transactional step happens once, no signal is lost or received twice,   *)
(* and no timer is passed early.  And for one engine at a time, when steps *)
(* fail always or never: no replay diverges, nothing is compensated twice, *)
(* and the outcome is what the journal says.                               *)
(*                                                                         *)
(* All rest on where rows can be: an operation's row is at its place in    *)
(* the behaviour that the answers of version() select, whoever wrote it    *)
(* (Placed), and version() selects new behaviour only when no row is yet   *)
(* beyond the question (NothingBeyond), so that a place once used does not *)
(* move.  Compensations have their places behind the one operation at      *)
(* which runs stop (UndoRows).                                             *)
(***************************************************************************)
EXTENDS Workflow, FiniteSetTheorems, SequenceTheorems, TLAPS

-----------------------------------------------------------------------------
(* Places. *)

Journals == [Positions -> [kind : Ops \union {"none"}, name : Names \union {"none"}, value : Nat]]
Answers == [Named("version") -> {"unset", "oldest", "newest"}]
Recorders == {"step", "tx", "sleep", "signal"}

\* The behaviour the answers v select has operation i.
Live(v, i) == Program[i].since # "none" => v[Program[i].since] = "newest"

\* Of the first n operations, those that behaviour journals.
Before(v, n) == {i \in 1..n : Journaled(Program[i]) /\ Live(v, i)}
Place(v, n) == Cardinality(Before(v, n))

\* Entry e is operation i's.
IsOf(e, i) == e.kind = Program[i].op /\ e.name = Program[i].name

\* The first n operations have their rows in journal j, and their timers had
\* run out at time t.
Passed(v, j, n, t) ==
    \A i \in Before(v, n) :
        /\ IsOf(j[Place(v, i)], i)
        /\ Program[i].op = "sleep" => j[Place(v, i)].value <= t

-----------------------------------------------------------------------------
(* The invariant. *)

\* The states of a runner between the operations of the workflow, and within
\* one that journals.
Between == {"exec", "oldest", "newest"}
Within == {"work", "suspend"}

\* Where a runner is, and what is in the journal up to there.
At(r) ==
    /\ pc[r] \in {"idle", "selected"} => ip[r] = 1 /\ position[r] = 0 /\ compensations[r] = <<>>
    /\ pc[r] \in Between =>
         ip[r] <= Len(Program) /\ position[r] = Place(versions, ip[r] - 1)
    /\ pc[r] \in Within =>
         /\ ip[r] <= Len(Program) /\ position[r] = Place(versions, ip[r])
         /\ Journaled(Program[ip[r]]) /\ Live(versions, ip[r])
    /\ pc[r] \in Between \union Within => Passed(versions, journal, ip[r] - 1, now[r])
    /\ pc[r] \in {"oldest", "newest"} => deployed /\ Program[ip[r]].op = "version"
    /\ pc[r] = "suspend" => Program[ip[r]].op = "sleep"
    /\ pc[r] = "undoing" => compensations[r] # <<>>
    /\ now[r] <= clock

\* The changes' code has asked version() before it goes on.
Asked(r) ==
    deployed /\ pc[r] \in Between \union Within =>
        \A i \in 1..(ip[r] - 1) : Program[i].op = "version" => versions[Program[i].name] # "unset"

\* Each row is at its operation's place, and those before it are in the journal.
Placed ==
    \A p \in Positions : journal[p].kind \in Recorders =>
        \E i \in 1..Len(Program) :
            /\ IsOf(journal[p], i) /\ Live(versions, i) /\ p = Place(versions, i)
            /\ Passed(versions, journal, i - 1, clock)

\* A runner about to record the answer "newest" is right that no operation
\* beyond has a row, unless another has recorded an answer in the meantime.
NothingBeyond(r) ==
    pc[r] = "newest" /\ versions[Op(r).name] = "unset" =>
        \A p \in Positions : journal[p].kind \in Recorders => p <= position[r]

\* Rows come from operations and compensations only.
RowKinds == \A p \in Positions : Free(p) \/ journal[p].kind \in Recorders \union {"compensate"}

\* What the outside has seen agrees with the journal.
EffectsAgree == \A n \in Named("tx") : effects[n] = Cardinality(RowsOf("tx", n))

IInv ==
    /\ TypeOK
    /\ \A r \in Runners : At(r) /\ Asked(r) /\ NothingBeyond(r)
    /\ ~deployed => \A n \in Named("version") : versions[n] = "unset"
    /\ Placed /\ RowKinds
    /\ EffectsAgree
    /\ SignalsConserved

-----------------------------------------------------------------------------
(* Lemmas about places. *)

LEMMA ProgramFacts ==
    /\ Len(Program) \in Nat /\ Len(Program) # 0 /\ DOMAIN Program = 1..Len(Program)
    /\ \A i \in 1..Len(Program) :
         /\ Program[i].op \in Ops /\ Program[i].name \in Names
         /\ Program[i].name \in Named(Program[i].op)
         /\ Program[i].since \in Named("version") \union {"none"}
    /\ \A i, j \in 1..Len(Program) : Program[i].name = Program[j].name => i = j
    /\ \A i, j \in 1..Len(Program) : Program[i].since = Program[j].name => j < i
    /\ \A i \in 1..Len(Program) : Program[i].op = "version" => Program[i].since = "none"
<1>1. Len(Program) \in Nat /\ Len(Program) # 0 /\ DOMAIN Program = 1..Len(Program)
  BY ProgramAssumption
<1>2. ASSUME NEW i \in 1..Len(Program)
      PROVE  /\ Program[i].op \in Ops /\ Program[i].name \in Names
             /\ Program[i].since \in Named("version") \union {"none"}
  <2>1. Program[i] \in [op : Ops, name : Names, since : Named("version") \union {"none"}]
    <3> DEFINE Operation == [op : Ops, name : Names, since : Named("version") \union {"none"}]
    <3>1. Program \in Seq(Operation)
      BY ProgramAssumption
    <3>2. Program[i] \in Operation
      <4> HIDE DEF Operation
      <4> QED  BY <3>1, ElementOfSeq
    <3> QED  BY <3>2
  <2> QED  BY <2>1
<1>3. \A i \in 1..Len(Program) : Program[i].name \in Named(Program[i].op)
  BY <1>1 DEF Named
<1> QED  BY <1>1, <1>2, <1>3, ProgramAssumption

LEMMA PlaceType ==
    ASSUME NEW v, NEW n \in 0..Len(Program)
    PROVE  IsFiniteSet(Before(v, n)) /\ Place(v, n) \in Nat
<1>1. IsFiniteSet(1..n)
  BY ProgramFacts, FS_Interval
<1>2. Before(v, n) \subseteq 1..n
  BY DEF Before
<1>3. IsFiniteSet(Before(v, n))
  BY <1>1, <1>2, FS_Subset
<1> QED  BY <1>3, FS_CardinalityType DEF Place

LEMMA PlaceGrows ==
    ASSUME NEW v, NEW n \in 0..Len(Program), NEW m \in 0..n
    PROVE  Place(v, m) <= Place(v, n)
<1>1. Before(v, m) \subseteq Before(v, n)
  BY ProgramFacts DEF Before
<1> QED  BY <1>1, PlaceType, FS_Subset DEF Place

LEMMA PlaceNext ==
    ASSUME NEW v, NEW n \in 1..Len(Program)
    PROVE  IF Journaled(Program[n]) /\ Live(v, n)
             THEN Before(v, n) = Before(v, n - 1) \union {n} /\ Place(v, n) = Place(v, n - 1) + 1
             ELSE Before(v, n) = Before(v, n - 1) /\ Place(v, n) = Place(v, n - 1)
<1>1. n \in Nat /\ n - 1 \in 0..Len(Program) /\ n \notin Before(v, n - 1)
  BY ProgramFacts DEF Before
<1>2. Journaled(Program[n]) /\ Live(v, n) => Before(v, n) = Before(v, n - 1) \union {n}
  BY <1>1 DEF Before
<1>3. ~(Journaled(Program[n]) /\ Live(v, n)) => Before(v, n) = Before(v, n - 1)
  BY <1>1 DEF Before
<1>4. Cardinality(Before(v, n - 1) \union {n}) = Place(v, n - 1) + 1
  BY <1>1, PlaceType, FS_AddElement DEF Place
<1> QED  BY <1>2, <1>3, <1>4 DEF Place

\* An operation's place is after those of the operations before it.
LEMMA PlaceLater ==
    ASSUME NEW v, NEW n \in 1..Len(Program), Journaled(Program[n]), Live(v, n), NEW m \in 0..(n - 1)
    PROVE  Place(v, m) < Place(v, n)
<1>1. n - 1 \in 0..Len(Program) /\ n \in 0..Len(Program) /\ m \in 0..Len(Program)
  BY ProgramFacts
<1>2. Place(v, m) <= Place(v, n - 1)
  BY <1>1, PlaceGrows
<1>3. Place(v, n) = Place(v, n - 1) + 1
  BY PlaceNext
<1>4. Place(v, m) \in Nat /\ Place(v, n - 1) \in Nat
  BY <1>1, PlaceType
<1> QED  BY <1>2, <1>3, <1>4

LEMMA PlaceIsPosition ==
    ASSUME NEW v, NEW n \in 1..Len(Program), Journaled(Program[n]), Live(v, n)
    PROVE  Place(v, n) \in Positions
<1> DEFINE All == {i \in DOMAIN Program : Program[i].op # "version"}
<1>1. Before(v, n) \subseteq All
  BY ProgramFacts DEF Before, Journaled
<1>2. IsFiniteSet(All)
  <2>1. All \subseteq 1..Len(Program)
    BY ProgramFacts
  <2>2. IsFiniteSet(1..Len(Program))
    BY ProgramFacts, FS_Interval
  <2> QED  BY <2>1, <2>2, FS_Subset
<1>3. Cardinality(Before(v, n)) <= Cardinality(All) /\ Cardinality(All) \in Nat
  BY <1>1, <1>2, FS_Subset, FS_CardinalityType
<1>4. n - 1 \in 0..Len(Program) /\ Place(v, n) = Place(v, n - 1) + 1
  BY PlaceNext
<1>5. Place(v, n - 1) \in Nat
  BY <1>4, PlaceType
<1> QED  BY <1>3, <1>4, <1>5 DEF Place, Positions

\* Answers that select the same operations put them in the same places.
LEMMA PlaceSame ==
    ASSUME NEW v, NEW w, NEW n \in 0..Len(Program), \A i \in 1..n : Live(v, i) <=> Live(w, i),
           NEW m \in 0..n
    PROVE  Before(w, m) = Before(v, m) /\ Place(w, m) = Place(v, m)
<1>1. 1..m \subseteq 1..n
  BY ProgramFacts
<1>2. Before(w, m) = Before(v, m)
  BY <1>1 DEF Before
<1> QED  BY <1>2 DEF Place

-----------------------------------------------------------------------------
(* Lemmas about rows. *)

LEMMA PositionsFinite == IsFiniteSet(Positions) /\ Positions \subseteq Nat
<1> DEFINE All == {i \in DOMAIN Program : Program[i].op # "version"}
<1>1. IsFiniteSet(All)
  <2>1. All \subseteq 1..Len(Program)
    BY ProgramFacts
  <2>2. IsFiniteSet(1..Len(Program))
    BY ProgramFacts, FS_Interval
  <2> QED  BY <2>1, <2>2, FS_Subset
<1>2. Cardinality(All) \in Nat
  BY <1>1, FS_CardinalityType
<1>3. IsFiniteSet(1..Cardinality(All)) /\ 1..Cardinality(All) \subseteq Nat
  BY <1>2, FS_Interval
<1> QED  BY <1>3 DEF Positions

LEMMA BeforeFacts ==
    ASSUME NEW v, NEW n \in 0..Len(Program), NEW i \in Before(v, n)
    PROVE  /\ i \in 1..Len(Program) /\ i \in 1..n
           /\ Journaled(Program[i]) /\ Live(v, i) /\ Place(v, i) \in Positions
           /\ Program[i].op \in Recorders
<1>1. i \in 1..Len(Program) /\ i \in 1..n /\ Journaled(Program[i]) /\ Live(v, i)
  BY ProgramFacts DEF Before
<1>2. Program[i].op \in Recorders
  BY <1>1, ProgramFacts DEF Ops, Journaled, Recorders
<1> QED  BY <1>1, <1>2, PlaceIsPosition

\* A row written where there was none leaves those that are there.
LEMMA PassedKept ==
    ASSUME NEW v, NEW j \in Journals, NEW p \in Positions, j[p] = Empty, NEW e,
           NEW n \in 0..Len(Program), NEW t, Passed(v, j, n, t)
    PROVE  Passed(v, [j EXCEPT ![p] = e], n, t)
<1> SUFFICES ASSUME NEW i \in Before(v, n)
             PROVE  /\ IsOf([j EXCEPT ![p] = e][Place(v, i)], i)
                    /\ Program[i].op = "sleep" => [j EXCEPT ![p] = e][Place(v, i)].value <= t
  BY DEF Passed
<1>1. Place(v, i) \in Positions /\ Program[i].op \in Recorders
  BY BeforeFacts
<1>2. /\ IsOf(j[Place(v, i)], i)
      /\ Program[i].op = "sleep" => j[Place(v, i)].value <= t
  BY DEF Passed
<1>3. Place(v, i) # p
  BY <1>1, <1>2 DEF IsOf, Recorders, Empty
<1>4. [j EXCEPT ![p] = e][Place(v, i)] = j[Place(v, i)]
  BY <1>1, <1>3 DEF Journals
<1> QED  BY <1>2, <1>4

\* Time passes.
LEMMA PassedLater ==
    ASSUME NEW v, NEW j \in Journals, NEW n \in 0..Len(Program), NEW t \in Nat, NEW u \in Nat, t <= u,
           Passed(v, j, n, t)
    PROVE  Passed(v, j, n, u)
<1> SUFFICES ASSUME NEW i \in Before(v, n)
             PROVE  IsOf(j[Place(v, i)], i) /\ (Program[i].op = "sleep" => j[Place(v, i)].value <= u)
  BY DEF Passed
<1>1. j[Place(v, i)].value \in Nat
  BY BeforeFacts DEF Journals
<1>2. IsOf(j[Place(v, i)], i) /\ (Program[i].op = "sleep" => j[Place(v, i)].value <= t)
  BY DEF Passed
<1> QED  BY <1>1, <1>2

LEMMA PassedNext ==
    ASSUME NEW v, NEW j, NEW n \in 1..Len(Program), NEW t, Passed(v, j, n - 1, t),
           Journaled(Program[n]) /\ Live(v, n) =>
               /\ IsOf(j[Place(v, n)], n)
               /\ Program[n].op = "sleep" => j[Place(v, n)].value <= t
    PROVE  Passed(v, j, n, t)
BY PlaceNext DEF Passed

LEMMA PassedNone ==
    ASSUME NEW v, NEW j, NEW t
    PROVE  Passed(v, j, 0, t) /\ Place(v, 0) = 0
<1>1. Before(v, 0) = {}
  BY DEF Before
<1> QED  BY <1>1, FS_EmptySet DEF Passed, Place

LEMMA PassedSame ==
    ASSUME NEW v, NEW w, NEW n \in 0..Len(Program), \A i \in 1..n : Live(v, i) <=> Live(w, i),
           NEW j, NEW m \in 0..n, NEW t, Passed(v, j, m, t)
    PROVE  Passed(w, j, m, t)
<1>1. Before(w, m) = Before(v, m)
  BY PlaceSame
<1>2. \A i \in Before(v, m) : i \in 0..n
  BY ProgramFacts DEF Before
<1>3. \A i \in Before(v, m) : Place(w, i) = Place(v, i)
  BY <1>2, PlaceSame
<1> QED  BY <1>1, <1>3 DEF Passed

LEMMA RowsFinite ==
    ASSUME NEW k, NEW n
    PROVE  IsFiniteSet(RowsOf(k, n)) /\ Cardinality(RowsOf(k, n)) \in Nat
<1>1. RowsOf(k, n) \subseteq Positions
  BY DEF RowsOf
<1>2. IsFiniteSet(RowsOf(k, n))
  BY <1>1, PositionsFinite, FS_Subset
<1> QED  BY <1>2, FS_CardinalityType

-----------------------------------------------------------------------------
(* Kinds of steps. *)

\* Only runner r moves.
OnlyMoves(r) ==
    \A o \in Runners \ {r} :
        /\ pc'[o] = pc[o] /\ ip'[o] = ip[o] /\ position'[o] = position[o]
        /\ compensations'[o] = compensations[o] /\ now'[o] = now[o]

\* What the next three lemmas ask of the runner that moves.
Right(r) == At(r) /\ Asked(r) /\ NothingBeyond(r)

\* A step within one runner.
LEMMA LocalStep ==
    ASSUME IInv, NEW r \in Runners, TypeOK', OnlyMoves(r), Right(r)',
           journal' = journal, versions' = versions, signals' = signals, sent' = sent,
           effects' = effects, deployed' = deployed, clock' = clock
    PROVE  IInv'
<1>1. ASSUME NEW o \in Runners
      PROVE  At(o)' /\ Asked(o)' /\ NothingBeyond(o)'
  <2>1. CASE o = r
    BY <2>1 DEF Right
  <2>2. CASE o # r
    <3>1. At(o) /\ Asked(o) /\ NothingBeyond(o)
      BY DEF IInv
    <3>2. /\ pc'[o] = pc[o] /\ ip'[o] = ip[o] /\ position'[o] = position[o]
          /\ compensations'[o] = compensations[o] /\ now'[o] = now[o]
      BY <2>2 DEF OnlyMoves
    <3>3. At(o)'
      BY <3>1, <3>2 DEF At
    <3>4. Asked(o)'
      BY <3>1, <3>2 DEF Asked
    <3>5. NothingBeyond(o)'
      BY <3>1, <3>2 DEF NothingBeyond, Op
    <3> QED  BY <3>3, <3>4, <3>5
  <2> QED  BY <2>1, <2>2
<1>2. (~deployed => \A n \in Named("version") : versions[n] = "unset")'
  BY DEF IInv
<1>3. Placed' /\ RowKinds' /\ EffectsAgree' /\ SignalsConserved'
  BY DEF IInv, Placed, RowKinds, Free, EffectsAgree, SignalsConserved, RowsOf
<1> QED  BY <1>1, <1>2, <1>3 DEF IInv

\* A runner that has let go of its context is right.
LEMMA ReleaseRight ==
    ASSUME IInv, NEW r \in Runners, Release(r), clock' = clock
    PROVE  OnlyMoves(r) /\ Right(r)'
<1>1. /\ pc'[r] = "idle" /\ ip'[r] = 1 /\ position'[r] = 0 /\ compensations'[r] = <<>> /\ now'[r] = 0
  BY DEF IInv, TypeOK, Release, SetPc
<1>2. OnlyMoves(r)
  BY DEF IInv, TypeOK, Release, SetPc, OnlyMoves
<1>3. clock' \in Nat
  BY DEF IInv, TypeOK
<1> QED  BY <1>1, <1>2, <1>3 DEF Right, At, Asked, NothingBeyond, Between, Within

\* So is one whose operation has returned, if that operation's row is there.
LEMMA AdvanceRight ==
    ASSUME IInv, NEW r \in Runners, pc[r] \notin {"idle", "selected"}, ip[r] \in 1..Len(Program), Advance(r),
           position'[r] = Place(versions', ip[r]), now'[r] = now[r], clock' = clock,
           Passed(versions', journal', ip[r], now[r]),
           deployed' => \A i \in 1..ip[r] :
                            Program[i].op = "version" => versions'[Program[i].name] # "unset"
    PROVE  Right(r)'
<1>1. /\ pc'[r] \in {"exec", "complete"} /\ ip'[r] = ip[r] + 1
      /\ pc'[r] = "exec" => ip[r] # Len(Program)
  BY DEF IInv, TypeOK, Advance, SetPc
<1>2. now[r] <= clock
  BY DEF IInv, At
<1>3. ip'[r] - 1 = ip[r] /\ (pc'[r] = "exec" => ip'[r] <= Len(Program))
  BY <1>1, ProgramFacts
<1>4. At(r)'
  BY <1>1, <1>2, <1>3 DEF At, Between, Within
<1>5. Asked(r)'
  BY <1>1, <1>3 DEF Asked, Between, Within
<1>6. NothingBeyond(r)'
  BY <1>1 DEF NothingBeyond
<1> QED  BY <1>4, <1>5, <1>6 DEF Right

\* And one that has begun to compensate.
LEMMA UndoRight ==
    ASSUME IInv, NEW r \in Runners, pc'[r] = "undo" \/ (pc'[r] = "undoing" /\ compensations'[r] # <<>>),
           now'[r] = now[r], clock' = clock
    PROVE  Right(r)'
<1>1. now[r] <= clock
  BY DEF IInv, At
<1> QED  BY <1>1 DEF Right, At, Asked, NothingBeyond, Between, Within

\* A runner within an operation is at that operation's place.
LEMMA WithinPlace ==
    ASSUME IInv, NEW r \in Runners, pc[r] = "work"
    PROVE  /\ ip[r] \in 1..Len(Program) /\ ip[r] - 1 \in 0..Len(Program) /\ ip[r] \in 0..Len(Program)
           /\ Journaled(Program[ip[r]]) /\ Live(versions, ip[r])
           /\ position[r] = Place(versions, ip[r]) /\ position[r] \in Positions
           /\ Passed(versions, journal, ip[r] - 1, now[r])
           /\ Program[ip[r]].op \in Recorders /\ Program[ip[r]].op \in Ops
           /\ Program[ip[r]].name \in Names /\ Program[ip[r]].name \in Named(Program[ip[r]].op)
<1>1. /\ ip[r] <= Len(Program) /\ position[r] = Place(versions, ip[r])
      /\ Journaled(Program[ip[r]]) /\ Live(versions, ip[r])
      /\ Passed(versions, journal, ip[r] - 1, now[r])
  BY DEF IInv, At, Between, Within
<1>2. ip[r] \in 1..(Len(Program) + 1)
  BY DEF IInv, TypeOK
<1>3. ip[r] \in 1..Len(Program) /\ ip[r] - 1 \in 0..Len(Program) /\ ip[r] \in 0..Len(Program)
  BY <1>1, <1>2, ProgramFacts
<1>4. Program[ip[r]].op \in Recorders
  BY <1>1, <1>3, ProgramFacts DEF Ops, Journaled, Recorders
<1> QED  BY <1>1, <1>3, <1>4, PlaceIsPosition, ProgramFacts

\* A row is written: by the operation a runner is within, or by a compensation.
LEMMA RowStep ==
    ASSUME IInv, NEW r \in Runners, TypeOK', OnlyMoves(r), Right(r)',
           NEW p \in Positions, Free(p), NEW e, journal' = [journal EXCEPT ![p] = e],
           e.kind \in Recorders => pc[r] = "work" /\ p = position[r] /\ IsOf(e, ip[r]),
           e.kind \in Recorders \union {"compensate"},
           versions' = versions, deployed' = deployed, clock' = clock,
           EffectsAgree', SignalsConserved'
    PROVE  IInv'
<1>1. journal \in Journals /\ journal[p] = Empty /\ clock \in Nat
  BY DEF IInv, TypeOK, Journals, Free
<1>2. journal'[p] = e /\ \A q \in Positions \ {p} : journal'[q] = journal[q]
  BY <1>1 DEF Journals
<1>3. ASSUME NEW n \in 0..Len(Program), NEW t, Passed(versions, journal, n, t)
      PROVE  Passed(versions', journal', n, t)
  BY <1>1, <1>3, PassedKept
<1>4. ASSUME NEW o \in Runners
      PROVE  At(o)' /\ Asked(o)' /\ NothingBeyond(o)'
  <2>1. CASE o = r
    BY <2>1 DEF Right
  <2>2. CASE o # r
    <3>1. At(o) /\ Asked(o) /\ NothingBeyond(o) /\ ip[o] \in 1..(Len(Program) + 1)
      BY DEF IInv, TypeOK
    <3>2. /\ pc'[o] = pc[o] /\ ip'[o] = ip[o] /\ position'[o] = position[o]
          /\ compensations'[o] = compensations[o] /\ now'[o] = now[o]
      BY <2>2 DEF OnlyMoves
    <3>3. At(o)'
      <4>1. pc[o] \in Between \union Within => ip[o] - 1 \in 0..Len(Program)
        BY <3>1, ProgramFacts DEF At
      <4>2. pc[o] \in Between \union Within => Passed(versions', journal', ip[o] - 1, now[o])
        BY <3>1, <4>1, <1>3 DEF At
      <4> QED  BY <3>1, <3>2, <4>2 DEF At
    <3>4. Asked(o)'
      BY <3>1, <3>2 DEF Asked
    <3>5. NothingBeyond(o)'
      <4> SUFFICES ASSUME pc[o] = "newest", versions[Op(o).name] = "unset",
                          NEW q \in Positions, journal'[q].kind \in Recorders
                   PROVE  q <= position[o]
        BY <3>2 DEF NothingBeyond, Op
      <4>1. CASE q # p
        BY <1>2, <3>1, <4>1 DEF NothingBeyond
      <4>2. CASE q = p
        \* The writer has not asked version() either, so it is before it.
        <5>1. pc[r] = "work" /\ p = position[r]
          BY <1>2, <4>2
        <5>2. /\ ip[r] \in 1..Len(Program) /\ Journaled(Program[ip[r]]) /\ p = Place(versions, ip[r])
          BY <5>1, WithinPlace
        <5>3. deployed /\ Program[ip[o]].op = "version" /\ ip[o] \in 1..Len(Program)
              /\ position[o] = Place(versions, ip[o] - 1)
          BY <3>1, ProgramFacts DEF At, Between
        <5>4. ip[o] \notin 1..(ip[r] - 1)
          BY <5>1, <5>3 DEF IInv, Asked, Within, Op
        <5>5. ip[o] # ip[r]
          BY <5>2, <5>3 DEF Journaled
        <5>6. ip[o] - 1 \in 0..Len(Program) /\ ip[r] \in 0..(ip[o] - 1)
          BY <5>2, <5>3, <5>4, <5>5, ProgramFacts
        <5> QED  BY <4>2, <5>2, <5>3, <5>6, PlaceGrows
      <4> QED  BY <4>1, <4>2
    <3> QED  BY <3>3, <3>4, <3>5
  <2> QED  BY <2>1, <2>2
<1>5. (~deployed => \A n \in Named("version") : versions[n] = "unset")'
  BY DEF IInv
<1>6. Placed'
  <2> SUFFICES ASSUME NEW q \in Positions, journal'[q].kind \in Recorders
               PROVE  \E i \in 1..Len(Program) :
                          /\ IsOf(journal'[q], i) /\ Live(versions', i) /\ q = Place(versions', i)
                          /\ Passed(versions', journal', i - 1, clock')
    BY DEF Placed
  <2>1. CASE q # p
    <3>1. journal'[q] = journal[q]
      BY <1>2, <2>1
    <3>2. PICK i \in 1..Len(Program) :
              /\ IsOf(journal[q], i) /\ Live(versions, i) /\ q = Place(versions, i)
              /\ Passed(versions, journal, i - 1, clock)
      BY <3>1 DEF IInv, Placed
    <3>3. i - 1 \in 0..Len(Program)
      BY ProgramFacts
    <3>4. Passed(versions', journal', i - 1, clock')
      BY <1>3, <3>2, <3>3
    <3> QED  BY <3>1, <3>2, <3>4
  <2>2. CASE q = p
    <3>1. pc[r] = "work" /\ p = position[r] /\ IsOf(e, ip[r])
      BY <1>2, <2>2
    <3>2. /\ ip[r] \in 1..Len(Program) /\ ip[r] - 1 \in 0..Len(Program)
          /\ Live(versions, ip[r]) /\ p = Place(versions, ip[r])
          /\ Passed(versions, journal, ip[r] - 1, now[r])
      BY <3>1, WithinPlace
    <3>3. now[r] \in Nat /\ now[r] <= clock
      BY DEF IInv, TypeOK, At
    <3>4. Passed(versions, journal, ip[r] - 1, clock)
      BY <1>1, <3>2, <3>3, PassedLater
    <3>5. Passed(versions', journal', ip[r] - 1, clock')
      BY <1>3, <3>2, <3>4
    <3> QED  BY <1>2, <2>2, <3>1, <3>2, <3>5
  <2> QED  BY <2>1, <2>2
<1>7. RowKinds'
  BY <1>2 DEF IInv, RowKinds, Free
<1> QED  BY <1>4, <1>5, <1>6, <1>7 DEF IInv

\* version() records its answer.  The new behaviour has no operation yet where
\* a runner has been or a row is.
LEMMA AnswerStep ==
    ASSUME IInv, NEW r \in Runners, RecordVersion(r), versions[Op(r).name] = "unset", TypeOK'
    PROVE  IInv'
<1> DEFINE c == Op(r).name
           j == ip[r]
<1>1. /\ pc[r] \in {"oldest", "newest"} /\ versions' = [versions EXCEPT ![c] = pc[r]] /\ Advance(r)
      /\ UNCHANGED <<journal, signals, sent, effects, position, compensations, now, clock, deployed>>
  BY DEF RecordVersion, worldVars, historyVars
<1>2. /\ At(r) /\ Asked(r) /\ NothingBeyond(r) /\ deployed /\ j \in 1..Len(Program)
      /\ Program[j].op = "version" /\ c \in Named("version") /\ position[r] = Place(versions, j - 1)
      /\ Passed(versions, journal, j - 1, now[r]) /\ j - 1 \in 0..Len(Program) /\ j \in 0..Len(Program)
  <2>1. At(r) /\ Asked(r) /\ NothingBeyond(r) /\ ip[r] \in 1..(Len(Program) + 1)
    BY DEF IInv, TypeOK
  <2>2. /\ deployed /\ ip[r] <= Len(Program) /\ Program[j].op = "version"
        /\ position[r] = Place(versions, j - 1) /\ Passed(versions, journal, j - 1, now[r])
    BY <1>1, <2>1 DEF At, Between
  <2>3. j \in 1..Len(Program) /\ j - 1 \in 0..Len(Program) /\ j \in 0..Len(Program)
    BY <2>1, <2>2, ProgramFacts
  <2> QED  BY <2>1, <2>2, <2>3, ProgramFacts DEF Op
<1>3. versions' \in Answers /\ versions \in Answers /\ versions'[c] # "unset"
      /\ \A n \in Named("version") : n # c => versions'[n] = versions[n]
  BY <1>1, <1>2 DEF IInv, TypeOK, Answers
<1>4. \A i \in 1..j : Live(versions, i) <=> Live(versions', i)
  <2> SUFFICES ASSUME NEW i \in 1..j PROVE Live(versions, i) <=> Live(versions', i)
    OBVIOUS
  <2>1. i \in 1..Len(Program) /\ ~(j < i)
    BY <1>2, ProgramFacts
  <2>2. Program[i].since # c
    BY <1>2, <2>1, ProgramFacts DEF Op
  <2>3. Program[i].since # "none" => Program[i].since \in Named("version")
    BY <2>1, ProgramFacts
  <2> QED  BY <1>3, <2>2, <2>3 DEF Live
<1>5. ASSUME NEW n \in 0..j
      PROVE  /\ Place(versions', n) = Place(versions, n)
             /\ \A t : Passed(versions, journal, n, t) => Passed(versions', journal', n, t)
  BY <1>1, <1>2, <1>4, PlaceSame, PassedSame
<1>6. Live(versions', j)
  BY <1>2, ProgramFacts DEF Live
<1>7. OnlyMoves(r)
  BY <1>1 DEF IInv, TypeOK, OnlyMoves, Advance, SetPc
<1>8. Right(r)'
  <2>1. position'[r] = Place(versions', j)
    <3>1. Place(versions, j) = Place(versions, j - 1)
      BY <1>2, PlaceNext DEF Journaled
    <3>2. Place(versions', j) = Place(versions, j)
      BY <1>2, <1>5
    <3> QED  BY <1>1, <1>2, <3>1, <3>2
  <2>2. Passed(versions', journal', j, now[r])
    <3>1. Passed(versions, journal, j, now[r])
      BY <1>2, PassedNext DEF Journaled
    <3> QED  BY <1>2, <1>5, <3>1
  <2>3. \A i \in 1..j : Program[i].op = "version" => versions'[Program[i].name] # "unset"
    <3> SUFFICES ASSUME NEW i \in 1..j, Program[i].op = "version"
                 PROVE  versions'[Program[i].name] # "unset"
      OBVIOUS
    <3>1. CASE i = j
      BY <1>3, <3>1 DEF Op
    <3>2. CASE i # j
      <4>1. i \in 1..(j - 1) /\ i \in 1..Len(Program)
        BY <1>2, <3>2, ProgramFacts
      <4>2. versions[Program[i].name] # "unset"
        BY <1>1, <1>2, <4>1 DEF Asked, Between
      <4>3. Program[i].name \in Named("version")
        BY <4>1, ProgramFacts
      <4> QED  BY <1>3, <4>2, <4>3
    <3> QED  BY <3>1, <3>2
  <2>4. pc[r] \notin {"idle", "selected"} /\ now'[r] = now[r] /\ clock' = clock
    BY <1>1
  <2>5. Advance(r) /\ ip[r] \in 1..Len(Program)
    BY <1>1, <1>2
  <2> QED  BY <2>1, <2>2, <2>3, <2>4, <2>5, AdvanceRight, Zenon

<1>9. ASSUME NEW o \in Runners, o # r
      PROVE  At(o)' /\ Asked(o)' /\ NothingBeyond(o)'
  <2>1. At(o) /\ Asked(o) /\ NothingBeyond(o) /\ ip[o] \in 1..(Len(Program) + 1)
    BY DEF IInv, TypeOK
  <2>2. /\ pc'[o] = pc[o] /\ ip'[o] = ip[o] /\ position'[o] = position[o]
        /\ compensations'[o] = compensations[o] /\ now'[o] = now[o]
    BY <1>7, <1>9 DEF OnlyMoves
  <2>3. pc[o] \in Between \union Within => ip[o] \in 0..j /\ ip[o] - 1 \in 0..j
    <3> SUFFICES ASSUME pc[o] \in Between \union Within PROVE ip[o] \in 0..j /\ ip[o] - 1 \in 0..j
      OBVIOUS
    <3>1. j \notin 1..(ip[o] - 1)
      BY <1>2, <2>1 DEF Asked, Op
    <3> QED  BY <1>2, <2>1, <3>1, ProgramFacts
  <2>4. At(o)'
    <3>1. pc[o] \in Between => position[o] = Place(versions', ip[o] - 1)
      BY <1>5, <2>1, <2>3 DEF At
    <3>2. pc[o] \in Within => position[o] = Place(versions', ip[o]) /\ Live(versions', ip[o])
      <4>1. pc[o] \in Within => ip[o] \in 1..j
        BY <1>2, <2>1, <2>3, ProgramFacts
      <4> QED  BY <1>4, <1>5, <2>1, <2>3, <4>1 DEF At
    <3>3. pc[o] \in Between \union Within => Passed(versions', journal', ip[o] - 1, now[o])
      BY <1>5, <2>1, <2>3 DEF At
    <3> HIDE DEF c, j
    <3> QED  BY <1>1, <2>1, <2>2, <3>1, <3>2, <3>3 DEF At
  <2>5. Asked(o)'
    <3> SUFFICES ASSUME pc[o] \in Between \union Within, NEW i \in 1..(ip[o] - 1), Program[i].op = "version"
                 PROVE  versions'[Program[i].name] # "unset"
      BY <1>1, <2>2 DEF Asked
    <3>1. versions[Program[i].name] # "unset"
      BY <1>2, <2>1 DEF Asked
    <3>2. i \in 1..Len(Program)
      BY <1>2, <2>3, ProgramFacts
    <3>3. Program[i].name \in Named("version")
      BY <3>2, ProgramFacts
    <3> QED  BY <1>3, <3>1, <3>3
  <2>6. NothingBeyond(o)'
    <3> SUFFICES ASSUME pc[o] = "newest", versions'[Op(o).name] = "unset",
                        NEW q \in Positions, journal[q].kind \in Recorders
                 PROVE  q <= position[o]
      BY <1>1, <2>2 DEF NothingBeyond, Op
    <3>1. ip[o] \in 1..Len(Program) /\ Program[ip[o]].op = "version"
      BY <2>1, ProgramFacts DEF At, Between
    <3>2. Op(o).name \in Named("version")
      BY <3>1, ProgramFacts DEF Op
    <3>3. versions[Op(o).name] = "unset"
      BY <1>3, <3>2
    <3> QED  BY <2>1, <3>3 DEF NothingBeyond
  <2> QED  BY <2>4, <2>5, <2>6
<1>10. Placed'
  <2> SUFFICES ASSUME NEW q \in Positions, journal[q].kind \in Recorders
               PROVE  \E i \in 1..Len(Program) :
                          /\ IsOf(journal[q], i) /\ Live(versions', i) /\ q = Place(versions', i)
                          /\ Passed(versions', journal', i - 1, clock)
    BY <1>1 DEF Placed
  <2>1. PICK i \in 1..Len(Program) :
            /\ IsOf(journal[q], i) /\ Live(versions, i) /\ q = Place(versions, i)
            /\ Passed(versions, journal, i - 1, clock)
    BY DEF IInv, Placed
  <2>2. i - 1 \in 0..Len(Program) /\ i \in 0..Len(Program)
    BY ProgramFacts
  <2>3. CASE pc[r] = "oldest"
    <3>1. \A k \in 1..Len(Program) : Live(versions, k) <=> Live(versions', k)
      <4> SUFFICES ASSUME NEW k \in 1..Len(Program) PROVE Live(versions, k) <=> Live(versions', k)
        OBVIOUS
      <4>1. Program[k].since # "none" => Program[k].since \in Named("version")
        BY ProgramFacts
      <4>2. versions'[c] = "oldest"
        BY <1>1, <1>2, <1>3, <2>3 DEF IInv, TypeOK
      <4> QED  BY <1>3, <4>1, <4>2 DEF Live
    <3>2. Len(Program) \in 0..Len(Program) /\ i \in 0..Len(Program)
      BY <2>2, ProgramFacts
    <3>3. Place(versions', i) = Place(versions, i)
      BY <3>1, <3>2, PlaceSame
    <3>4. Passed(versions', journal, i - 1, clock)
      BY <2>1, <2>2, <3>1, <3>2, PassedSame
    <3> QED  BY <1>1, <2>1, <3>1, <3>3, <3>4
  <2>4. CASE pc[r] = "newest"
    <3>1. q <= position[r]
      BY <1>2, <2>4 DEF NothingBeyond
    <3>2. i \in 1..j
      <4> SUFFICES ASSUME i \notin 1..j PROVE FALSE
        OBVIOUS
      <4>1. j - 1 \in 0..(i - 1)
        BY <1>2, ProgramFacts
      <4>2. Journaled(Program[i])
        BY <2>1 DEF IsOf, Recorders, Journaled
      <4>3. Place(versions, j - 1) < Place(versions, i)
        BY <2>1, <4>1, <4>2, PlaceLater
      <4>4. Place(versions, j - 1) \in Nat /\ Place(versions, i) \in Nat
        BY <1>2, <2>2, PlaceType
      <4> QED  BY <1>2, <2>1, <3>1, <4>3, <4>4
    <3>3. i \in 0..j /\ i - 1 \in 0..j
      BY <1>2, <3>2, ProgramFacts
    <3> QED  BY <1>4, <1>5, <2>1, <3>2, <3>3
  <2> QED  BY <1>1, <2>3, <2>4
<1>11. RowKinds' /\ EffectsAgree' /\ SignalsConserved'
  BY <1>1 DEF IInv, RowKinds, Free, EffectsAgree, SignalsConserved, RowsOf
<1>12. ASSUME NEW o \in Runners PROVE At(o)' /\ Asked(o)' /\ NothingBeyond(o)'
  BY <1>8, <1>9 DEF Right
<1>13. (~deployed => \A n \in Named("version") : versions[n] = "unset")'
  BY <1>1, <1>2
<1> QED  BY <1>10, <1>11, <1>12, <1>13 DEF IInv

-----------------------------------------------------------------------------
(* The actions. *)

LEMMA Initially == Init => IInv
<1> SUFFICES ASSUME Init PROVE IInv
  OBVIOUS
<1>1. TypeOK
  <2>1. journal \in Journals
    BY DEF Init, Journals, Empty
  <2>2. compensations \in [Runners -> Seq(Names)]
    BY DEF Init
  <2>3. ip \in [Runners -> 1..(Len(Program) + 1)]
    BY ProgramFacts DEF Init
  <2> QED  BY <2>1, <2>2, <2>3 DEF Init, TypeOK, PcStates, Journals
<1>2. \A r \in Runners : At(r) /\ Asked(r) /\ NothingBeyond(r)
  BY DEF Init, At, Asked, NothingBeyond, Between, Within
<1>3. Placed /\ RowKinds
  BY DEF Init, Placed, RowKinds, Recorders, Free, Empty
<1>4. \A k, n : k # "none" => RowsOf(k, n) = {}
  BY DEF Init, RowsOf, Empty
<1>5. EffectsAgree
  BY <1>4, FS_EmptySet DEF Init, EffectsAgree
<1>6. SignalsConserved
  <2>1. {p \in Positions : journal[p].kind = "signal"} = {}
    BY DEF Init, Empty
  <2>2. Cardinality({p \in Positions : journal[p].kind = "signal"}) = 0
    BY <2>1, FS_EmptySet
  <2> QED  BY <2>2 DEF Init, SignalsConserved
<1> QED  BY <1>1, <1>2, <1>3, <1>5, <1>6 DEF IInv, Init

LEMMA FrameKeeps ==
    ASSUME IInv, TypeOK', SignalsConserved',
           UNCHANGED <<journal, versions, effects, deployed, clock, pc, ip, position, compensations, now>>
    PROVE  IInv'
<1>1. ASSUME NEW r \in Runners PROVE At(r)' /\ Asked(r)' /\ NothingBeyond(r)'
  BY DEF IInv, At, Asked, NothingBeyond, Op
<1>2. Placed' /\ RowKinds' /\ EffectsAgree'
  BY DEF IInv, Placed, RowKinds, Free, EffectsAgree, RowsOf
<1> QED  BY <1>1, <1>2 DEF IInv

\* What the callers and the environment do.
LEMMA WorldKeeps ==
    ASSUME IInv, Start \/ SendSignal \/ Tick \/ Deploy
    PROVE  IInv'
<1>1. CASE Start
  <2>1. TypeOK'
    BY <1>1 DEF IInv, TypeOK, Start, runVars, worldVars, historyVars
  <2>2. SignalsConserved'
    BY <1>1 DEF IInv, Start, SignalsConserved, historyVars
  <2> QED  BY <1>1, <2>1, <2>2, FrameKeeps DEF Start, runVars, worldVars, historyVars
<1>2. CASE SendSignal
  <2>1. TypeOK'
    BY <1>2 DEF IInv, TypeOK, SendSignal, runVars, worldVars
  <2>2. SignalsConserved'
    <3>1. Cardinality({p \in Positions : journal[p].kind = "signal"}) \in Nat
      BY PositionsFinite, FS_Subset, FS_CardinalityType
    <3>2. signals' = signals + 1 /\ sent' = sent + 1 /\ journal' = journal /\ signals \in Nat
          /\ sent = signals + Cardinality({p \in Positions : journal[p].kind = "signal"})
      BY <1>2 DEF IInv, TypeOK, SendSignal, SignalsConserved
    <3> QED  BY <3>1, <3>2 DEF SignalsConserved
  <2> QED  BY <1>2, <2>1, <2>2, FrameKeeps DEF SendSignal, runVars, worldVars
<1>3. CASE Tick
  <2>1. TypeOK' /\ clock' = clock + 1 /\ clock \in Nat
        /\ UNCHANGED <<dbVars, runVars, deployed, fails, historyVars>>
    BY <1>3 DEF IInv, TypeOK, Tick, dbVars, runVars, historyVars
  <2>2. \A r \in Runners : At(r)' /\ Asked(r)' /\ NothingBeyond(r)'
    BY <2>1 DEF IInv, TypeOK, At, Asked, NothingBeyond, Op, dbVars, runVars
  <2>3. Placed'
    <3> SUFFICES ASSUME NEW p \in Positions, journal[p].kind \in Recorders
                 PROVE  \E i \in 1..Len(Program) :
                            /\ IsOf(journal[p], i) /\ Live(versions, i) /\ p = Place(versions, i)
                            /\ Passed(versions, journal, i - 1, clock')
      BY <2>1 DEF Placed, dbVars
    <3>1. PICK i \in 1..Len(Program) :
              /\ IsOf(journal[p], i) /\ Live(versions, i) /\ p = Place(versions, i)
              /\ Passed(versions, journal, i - 1, clock)
      BY DEF IInv, Placed
    <3>2. i - 1 \in 0..Len(Program) /\ journal \in Journals /\ clock' \in Nat /\ clock <= clock'
      BY <2>1, ProgramFacts DEF IInv, TypeOK, Journals
    <3> QED  BY <2>1, <3>1, <3>2, PassedLater
  <2> QED  BY <2>1, <2>2, <2>3 DEF IInv, RowKinds, Free, EffectsAgree, SignalsConserved, RowsOf,
              dbVars, runVars, historyVars
<1>4. CASE Deploy
  <2>1. TypeOK' /\ deployed' /\ UNCHANGED <<dbVars, runVars, clock, fails, historyVars>>
    BY <1>4 DEF IInv, TypeOK, Deploy, dbVars, runVars, historyVars
  <2>2. \A r \in Runners : pc[r] = "idle"
    BY <1>4 DEF Deploy
  <2>3. \A r \in Runners : At(r)' /\ Asked(r)' /\ NothingBeyond(r)'
    BY <2>1, <2>2 DEF IInv, At, Asked, NothingBeyond, Between, Within, dbVars, runVars
  <2> QED  BY <2>1, <2>3 DEF IInv, Placed, RowKinds, Free, EffectsAgree, SignalsConserved, RowsOf,
              dbVars, runVars, historyVars
<1> QED  BY <1>1, <1>2, <1>3, <1>4

\* A runner that lets go, because it dies, suspends or has ended.
LEMMA ReleaseKeeps ==
    ASSUME IInv, NEW r \in Runners, Release(r), TypeOK',
           journal' = journal, versions' = versions, signals' = signals, sent' = sent,
           effects' = effects, deployed' = deployed, clock' = clock
    PROVE  IInv'
BY ReleaseRight, LocalStep

\* A runner that starts to compensate, or goes on to.
LEMMA UndoKeeps ==
    ASSUME IInv, NEW r \in Runners, TypeOK', OnlyMoves(r),
           pc'[r] = "undo" \/ (pc'[r] = "undoing" /\ compensations'[r] # <<>>),
           now'[r] = now[r],
           journal' = journal, versions' = versions, signals' = signals, sent' = sent,
           effects' = effects, deployed' = deployed, clock' = clock
    PROVE  IInv'
BY UndoRight, LocalStep

LEMMA ExecPlace ==
    ASSUME IInv, NEW r \in Runners, pc[r] = "exec"
    PROVE  /\ ip[r] \in 1..Len(Program) /\ ip[r] - 1 \in 0..Len(Program)
           /\ position[r] = Place(versions, ip[r] - 1)
           /\ Passed(versions, journal, ip[r] - 1, now[r]) /\ now[r] <= clock
           /\ deployed => \A i \in 1..(ip[r] - 1) :
                              Program[i].op = "version" => versions[Program[i].name] # "unset"
           /\ Program[ip[r]].op \in Ops /\ Program[ip[r]].name \in Names
           /\ Program[ip[r]].name \in Named(Program[ip[r]].op)
<1>1. /\ ip[r] <= Len(Program) /\ position[r] = Place(versions, ip[r] - 1)
      /\ Passed(versions, journal, ip[r] - 1, now[r]) /\ now[r] <= clock
  BY DEF IInv, At, Between, Within
<1>2. deployed => \A i \in 1..(ip[r] - 1) : Program[i].op = "version" => versions[Program[i].name] # "unset"
  BY DEF IInv, Asked, Between
<1>3. ip[r] \in 1..(Len(Program) + 1)
  BY DEF IInv, TypeOK
<1>4. ip[r] \in 1..Len(Program) /\ ip[r] - 1 \in 0..Len(Program)
  BY <1>1, <1>3, ProgramFacts
<1> QED  BY <1>1, <1>2, <1>4, ProgramFacts

LEMMA AdvanceType ==
    ASSUME IInv, NEW r \in Runners, ip[r] \in 1..Len(Program), Advance(r)
    PROVE  /\ pc' \in [Runners -> PcStates] /\ ip' \in [Runners -> 1..(Len(Program) + 1)]
           /\ \A o \in Runners \ {r} : pc'[o] = pc[o] /\ ip'[o] = ip[o]
<1>1. ip[r] + 1 \in 1..(Len(Program) + 1)
  BY ProgramFacts
<1> QED  BY <1>1 DEF IInv, TypeOK, Advance, SetPc, PcStates

\* An operation returns and leaves the database as it is.
LEMMA ReturnKeeps ==
    ASSUME IInv, NEW r \in Runners, pc[r] = "exec", Advance(r), TypeOK', OnlyMoves(r),
           position'[r] = Place(versions, ip[r]), now'[r] = now[r],
           Passed(versions, journal, ip[r], now[r]),
           deployed /\ Program[ip[r]].op = "version" => versions[Program[ip[r]].name] # "unset",
           journal' = journal, versions' = versions, signals' = signals, sent' = sent,
           effects' = effects, deployed' = deployed, clock' = clock
    PROVE  IInv'
<1>1. ip[r] \in 1..Len(Program)
  BY ExecPlace
<1>2. deployed' => \A i \in 1..ip[r] : Program[i].op = "version" => versions'[Program[i].name] # "unset"
  <2> SUFFICES ASSUME deployed, NEW i \in 1..ip[r], Program[i].op = "version"
               PROVE  versions[Program[i].name] # "unset"
    OBVIOUS
  <2>1. CASE i = ip[r]
    BY <2>1
  <2>2. CASE i # ip[r]
    <3>1. i \in 1..(ip[r] - 1)
      BY <1>1, <2>2, ProgramFacts
    <3> QED  BY <3>1, ExecPlace
  <2> QED  BY <2>1, <2>2
<1>3. Right(r)'
  BY <1>1, <1>2, AdvanceRight
<1> QED  BY <1>3, LocalStep

LEMMA SelectKeeps ==
    ASSUME IInv, NEW r \in Runners, Select(r)
    PROVE  IInv'
<1>1. /\ pc[r] = "idle" /\ pc' = [pc EXCEPT ![r] = "selected"]
      /\ UNCHANGED <<dbVars, ip, position, compensations, now, worldVars, historyVars>>
  BY DEF Select, SetPc
<1>2. TypeOK'
  BY <1>1 DEF IInv, TypeOK, dbVars, worldVars, historyVars, PcStates
<1>3. OnlyMoves(r) /\ pc'[r] = "selected"
  BY <1>1 DEF IInv, TypeOK, OnlyMoves
<1>4. Right(r)'
  BY <1>1, <1>3 DEF IInv, Right, At, Asked, NothingBeyond, Between, Within, worldVars
<1> QED  BY <1>1, <1>2, <1>3, <1>4, LocalStep DEF dbVars, worldVars, historyVars

LEMMA RunOneKeeps ==
    ASSUME IInv, NEW r \in Runners, RunOne(r)
    PROVE  IInv'
<1>1. /\ pc[r] = "selected" /\ pc' = [pc EXCEPT ![r] = "exec"] /\ now' = [now EXCEPT ![r] = clock]
      /\ overlapped' \in BOOLEAN
      /\ UNCHANGED <<dbVars, ip, position, compensations, worldVars, effects, undoFailed, sent, crashes, diverged>>
  BY DEF RunOne, SetPc, IInv, TypeOK
<1>2. TypeOK'
  BY <1>1 DEF IInv, TypeOK, dbVars, worldVars, PcStates
<1>3. OnlyMoves(r) /\ pc'[r] = "exec" /\ now'[r] = clock
  BY <1>1 DEF IInv, TypeOK, OnlyMoves
<1>4. ip[r] = 1 /\ position[r] = 0 /\ clock \in Nat
  BY <1>1 DEF IInv, TypeOK, At
<1>5. Passed(versions, journal, 0, clock) /\ Place(versions, 0) = 0
  BY PassedNone
<1>6. Right(r)'
  <2>1. At(r)'
    BY <1>1, <1>3, <1>4, <1>5, ProgramFacts DEF At, Between, Within, dbVars, worldVars
  <2>2. Asked(r)' /\ NothingBeyond(r)'
    BY <1>1, <1>3, <1>4 DEF Asked, NothingBeyond
  <2> QED  BY <2>1, <2>2 DEF Right
<1> QED  BY <1>1, <1>2, <1>3, <1>6, LocalStep DEF dbVars, worldVars

LEMMA SkipKeeps ==
    ASSUME IInv, NEW r \in Runners, Skip(r)
    PROVE  IInv'
<1>1. /\ pc[r] = "exec" /\ ~Live(versions, ip[r]) /\ Advance(r)
      /\ UNCHANGED <<dbVars, position, compensations, now, worldVars, historyVars>>
  BY DEF Skip, Active, Chosen, Op, Live
<1>2. TypeOK' /\ OnlyMoves(r)
  <2>1. ip[r] \in 1..Len(Program)
    BY <1>1, ExecPlace
  <2> QED  BY <1>1, <2>1, AdvanceType DEF IInv, TypeOK, dbVars, worldVars, historyVars, OnlyMoves
<1>3. position[r] = Place(versions, ip[r]) /\ Passed(versions, journal, ip[r], now[r])
  BY <1>1, ExecPlace, PlaceNext, PassedNext
<1>4. Program[ip[r]].op # "version"
  BY <1>1, ExecPlace, ProgramFacts DEF Live
<1> QED  BY <1>1, <1>2, <1>3, <1>4, ReturnKeeps DEF dbVars, worldVars, historyVars

LEMMA CompensateKeeps ==
    ASSUME IInv, NEW r \in Runners, Compensate(r)
    PROVE  IInv'
<1>1. /\ pc[r] = "exec" /\ Program[ip[r]].op = "compensate" /\ Advance(r)
      /\ compensations' = [compensations EXCEPT ![r] = Append(@, Program[ip[r]].name)]
      /\ UNCHANGED <<dbVars, position, now, worldVars, historyVars>>
  BY DEF Compensate, Op, Registered, IInv, TypeOK
<1>2. compensations' \in [Runners -> Seq(Names)]
  <2>1. Append(compensations[r], Program[ip[r]].name) \in Seq(Names)
    BY <1>1, ExecPlace DEF IInv, TypeOK
  <2> QED  BY <1>1, <2>1 DEF IInv, TypeOK
<1>3. TypeOK' /\ OnlyMoves(r)
  <2>1. ip[r] \in 1..Len(Program)
    BY <1>1, ExecPlace
  <2>2. \A o \in Runners \ {r} : compensations'[o] = compensations[o]
    BY <1>1 DEF IInv, TypeOK
  <2> QED  BY <1>1, <1>2, <2>1, <2>2, AdvanceType DEF IInv, TypeOK, dbVars, worldVars, historyVars, OnlyMoves
<1>4. position[r] = Place(versions, ip[r]) /\ Passed(versions, journal, ip[r], now[r])
  BY <1>1, ExecPlace, PlaceNext, PassedNext DEF Journaled
<1> QED  BY <1>1, <1>3, <1>4, ReturnKeeps DEF dbVars, worldVars, historyVars

LEMMA VersionKeeps ==
    ASSUME IInv, NEW r \in Runners, Version(r)
    PROVE  IInv'
<1>1. /\ pc[r] = "exec" /\ Program[ip[r]].op = "version"
      /\ UNCHANGED <<dbVars, position, compensations, now, worldVars, historyVars>>
  BY DEF Version, Op
<1>2. CASE deployed /\ versions[Op(r).name] = "unset"
  <2>1. pc' = [pc EXCEPT ![r] = VersionFor(position[r])] /\ ip' = ip
    BY <1>2 DEF Version, SetPc
  <2>2. VersionFor(position[r]) \in {"oldest", "newest"}
    BY DEF VersionFor
  <2>3. TypeOK'
    BY <1>1, <2>1, <2>2 DEF IInv, TypeOK, dbVars, worldVars, historyVars, PcStates
  <2>4. OnlyMoves(r) /\ pc'[r] = VersionFor(position[r])
    BY <1>1, <2>1 DEF IInv, TypeOK, OnlyMoves
  <2>5. Right(r)'
    <3>1. At(r)'
      BY <1>1, <1>2, <2>1, <2>2, <2>4, ExecPlace DEF At, Between, Within, dbVars, worldVars
    <3>2. Asked(r)'
      BY <1>1, <2>1, <2>4, ExecPlace DEF Asked, dbVars, worldVars
    <3>3. NothingBeyond(r)'
      <4> SUFFICES ASSUME pc'[r] = "newest", NEW q \in Positions, journal[q].kind \in Recorders
                   PROVE  q <= position[r]
        BY <1>1 DEF NothingBeyond, dbVars
      <4>1. ~(q > position[r] /\ ~Free(q))
        BY <2>4 DEF VersionFor
      <4>2. ~Free(q)
        BY DEF Free, Empty, Recorders
      <4>3. q \in Nat /\ position[r] \in Nat
        BY PositionsFinite DEF IInv, TypeOK
      <4> QED  BY <4>1, <4>2, <4>3
    <3> QED  BY <3>1, <3>2, <3>3 DEF Right
  <2> QED  BY <1>1, <2>3, <2>4, <2>5, LocalStep DEF dbVars, worldVars, historyVars
<1>3. CASE ~(deployed /\ versions[Op(r).name] = "unset")
  <2>1. Advance(r)
    BY <1>3 DEF Version
  <2>2. TypeOK' /\ OnlyMoves(r)
    <3>1. ip[r] \in 1..Len(Program)
      BY <1>1, ExecPlace
    <3> QED  BY <1>1, <2>1, <3>1, AdvanceType DEF IInv, TypeOK, dbVars, worldVars, historyVars, OnlyMoves
  <2>3. position[r] = Place(versions, ip[r]) /\ Passed(versions, journal, ip[r], now[r])
    BY <1>1, ExecPlace, PlaceNext, PassedNext DEF Journaled
  <2> QED  BY <1>1, <1>3, <2>1, <2>2, <2>3, ReturnKeeps DEF dbVars, worldVars, historyVars, Op
<1> QED  BY <1>2, <1>3

LEMMA RecordVersionKeeps ==
    ASSUME IInv, NEW r \in Runners, RecordVersion(r)
    PROVE  IInv'
<1>1. Program[ip[r]].op = "version" /\ ip[r] \in 1..Len(Program) /\ Op(r).name \in Named("version")
  <2>1. Program[ip[r]].op = "version" /\ ip[r] <= Len(Program) /\ ip[r] \in 1..(Len(Program) + 1)
    BY DEF RecordVersion, IInv, At, TypeOK, Between
  <2>2. ip[r] \in 1..Len(Program)
    BY <2>1, ProgramFacts
  <2> QED  BY <2>1, <2>2, ProgramFacts DEF Op
<1>2. CASE versions[Op(r).name] = "unset"
  <2>1. TypeOK'
    <3>1. /\ pc[r] \in {"oldest", "newest"} /\ Advance(r) /\ versions' = [versions EXCEPT ![Op(r).name] = pc[r]]
          /\ UNCHANGED <<status, wake_at, journal, signals, position, compensations, now, worldVars, historyVars>>
      BY <1>2 DEF RecordVersion
    <3> QED  BY <1>1, <3>1, AdvanceType DEF IInv, TypeOK, worldVars, historyVars
  <2> QED  BY <1>2, <2>1, AnswerStep
<1>3. CASE versions[Op(r).name] # "unset"
  <2>1. /\ pc' = [pc EXCEPT ![r] = "undo"]
        /\ UNCHANGED <<dbVars, ip, position, compensations, now, worldVars, historyVars>>
    BY <1>3 DEF RecordVersion, SetPc, dbVars
  <2>2. TypeOK' /\ OnlyMoves(r) /\ pc'[r] = "undo"
    BY <2>1 DEF IInv, TypeOK, dbVars, worldVars, historyVars, PcStates, OnlyMoves
  <2> QED  BY <2>1, <2>2, UndoKeeps DEF dbVars, worldVars, historyVars
<1> QED  BY <1>2, <1>3

\* next(): the place of the operation is the position it takes.
LEMMA NextOpKeeps ==
    ASSUME IInv, NEW r \in Runners, NextOp(r)
    PROVE  IInv'
<1> DEFINE p == position[r] + 1
           i == ip[r]
<1>1. /\ pc[r] = "exec" /\ Live(versions, i) /\ Journaled(Program[i])
      /\ position' = [position EXCEPT ![r] = p]
      /\ UNCHANGED <<dbVars, compensations, now, worldVars, effects, undoFailed, sent, crashes, overlapped>>
  BY DEF NextOp, Active, Chosen, Op, Live
<1>2. /\ i \in 1..Len(Program) /\ i - 1 \in 0..Len(Program) /\ position[r] = Place(versions, i - 1)
      /\ Passed(versions, journal, i - 1, now[r]) /\ now[r] <= clock
      /\ position[r] \in Nat /\ journal \in Journals
  BY <1>1, ExecPlace DEF IInv, TypeOK, Journals
<1>3. p = Place(versions, i) /\ p \in Positions
  BY <1>1, <1>2, PlaceNext, PlaceIsPosition
<1>4. /\ position'[r] = p /\ position' \in [Runners -> Nat]
      /\ \A o \in Runners \ {r} : position'[o] = position[o]
  BY <1>1, <1>2 DEF IInv, TypeOK
<1>5. ASSUME pc' = [pc EXCEPT ![r] = "suspend"] \/ pc' = [pc EXCEPT ![r] = "work"], ip' = ip, diverged' = diverged,
             pc' = [pc EXCEPT ![r] = "suspend"] => Program[i].op = "sleep"
      PROVE  IInv'
  <2>1. TypeOK' /\ OnlyMoves(r)
    <3>1. pc' \in [Runners -> PcStates] /\ \A o \in Runners \ {r} : pc'[o] = pc[o]
      BY <1>5 DEF IInv, TypeOK, PcStates
    <3> HIDE DEF p, i
    <3> QED  BY <1>1, <1>4, <1>5, <3>1 DEF IInv, TypeOK, dbVars, worldVars, OnlyMoves
  <2>2. pc'[r] \in {"suspend", "work"} /\ (pc'[r] = "suspend" => Program[i].op = "sleep")
    BY <1>5 DEF IInv, TypeOK
  <2>3. At(r)'
    <3>1. i <= Len(Program)
      BY <1>2, ProgramFacts
    <3> HIDE DEF p
    <3> QED  BY <1>1, <1>2, <1>3, <1>4, <1>5, <2>2, <3>1 DEF At, Between, Within, dbVars, worldVars
  <2>4. Asked(r)'
    BY <1>1, <1>5, ExecPlace DEF Asked, dbVars, worldVars
  <2>5. Right(r)'
    BY <2>2, <2>3, <2>4 DEF Right, NothingBeyond
  <2> QED  BY <1>1, <2>1, <2>5, LocalStep DEF dbVars, worldVars
<1>6. CASE ~Free(p) /\ Replays(r, journal[p])
  <2>1. CASE Program[i].op = "sleep" /\ ~Due(r, journal[p].value)
    <3>1. pc' = [pc EXCEPT ![r] = "suspend"] /\ ip' = ip /\ diverged' = diverged
      BY <1>6, <2>1 DEF NextOp, SetPc, Op
    <3> QED  BY <1>5, <2>1, <3>1
  <2>2. CASE ~(Program[i].op = "sleep" /\ ~Due(r, journal[p].value))
    <3>1. Advance(r) /\ diverged' = diverged
      BY <1>6, <2>2 DEF NextOp, Op
    <3>2. TypeOK' /\ OnlyMoves(r)
      <4>1. /\ pc' \in [Runners -> PcStates] /\ ip' \in [Runners -> 1..(Len(Program) + 1)]
            /\ \A o \in Runners \ {r} : pc'[o] = pc[o] /\ ip'[o] = ip[o]
        BY <1>2, <3>1, AdvanceType
      <4> HIDE DEF p, i
      <4> QED  BY <1>1, <1>4, <3>1, <4>1 DEF IInv, TypeOK, dbVars, worldVars, OnlyMoves
    <3>3. Passed(versions, journal, i, now[r])
      <4>1. IsOf(journal[p], i)
        BY <1>6 DEF Replays, IsOf, Op
      <4>2. Program[i].op = "sleep" => journal[p].value <= now[r]
        <5>1. journal[p].value \in Nat /\ now[r] \in Nat
          BY <1>2, <1>3 DEF IInv, TypeOK, Journals
        <5> QED  BY <2>2, <5>1 DEF Due
      <4> HIDE DEF p
      <4> QED  BY <1>2, <1>3, <4>1, <4>2, PassedNext
    <3>4. Program[i].op # "version"
      BY <1>1 DEF Journaled
    <3>5. position'[r] = Place(versions, i)
      BY <1>3, <1>4
    <3> HIDE DEF p
    <3> QED  BY <1>1, <3>1, <3>2, <3>3, <3>4, <3>5, ReturnKeeps DEF dbVars, worldVars
  <2> QED  BY <2>1, <2>2
<1>7. CASE ~Free(p) /\ ~Replays(r, journal[p])
  <2>1. pc' = [pc EXCEPT ![r] = "undo"] /\ ip' = ip /\ diverged' = TRUE
    BY <1>7 DEF NextOp, SetPc
  <2>2. TypeOK' /\ OnlyMoves(r) /\ pc'[r] = "undo"
    <3>1. /\ pc' \in [Runners -> PcStates] /\ pc'[r] = "undo"
          /\ \A o \in Runners \ {r} : pc'[o] = pc[o]
      BY <2>1 DEF IInv, TypeOK, PcStates
    <3> HIDE DEF p, i
    <3> QED  BY <1>1, <1>4, <2>1, <3>1 DEF IInv, TypeOK, dbVars, worldVars, OnlyMoves
  <2> QED  BY <1>1, <2>2, UndoKeeps DEF dbVars, worldVars
<1>8. CASE Free(p)
  <2>1. pc' = [pc EXCEPT ![r] = "work"] /\ ip' = ip /\ diverged' = diverged
    BY <1>8 DEF NextOp, SetPc
  <2>2. pc' # [pc EXCEPT ![r] = "suspend"]
    BY <2>1 DEF IInv, TypeOK
  <2> QED  BY <1>5, <2>1, <2>2
<1> QED  BY <1>6, <1>7, <1>8

\* An operation writes its row and returns.
LEMMA WriteKeeps ==
    ASSUME IInv, NEW r \in Runners, pc[r] = "work", Free(position[r]), NEW x \in Nat,
           Op(r).op = "sleep" => x <= now[r],
           journal' = [journal EXCEPT ![position[r]] = Entry(Op(r).op, Op(r).name, x)],
           Advance(r), TypeOK', OnlyMoves(r), position'[r] = position[r], now'[r] = now[r],
           versions' = versions, deployed' = deployed, clock' = clock,
           EffectsAgree', SignalsConserved'
    PROVE  IInv'
<1> DEFINE p == position[r]
           i == ip[r]
           e == Entry(Op(r).op, Op(r).name, x)
<1>1. /\ i \in 1..Len(Program) /\ i - 1 \in 0..Len(Program) /\ i \in 0..Len(Program)
      /\ p = Place(versions, i) /\ p \in Positions /\ Journaled(Program[i])
      /\ Passed(versions, journal, i - 1, now[r]) /\ Program[i].op \in Recorders
  BY WithinPlace
<1>2. e.kind = Program[i].op /\ e.name = Program[i].name /\ e.value = x /\ IsOf(e, i)
  BY DEF Entry, Op, IsOf
<1>3. journal \in Journals /\ journal[p] = Empty /\ journal' = [journal EXCEPT ![p] = e] /\ journal'[p] = e
  BY <1>1 DEF IInv, TypeOK, Journals, Free
<1>4. Passed(versions', journal', i, now[r])
  <2>1. Passed(versions, journal', i - 1, now[r])
    <3>1. Passed(versions, [journal EXCEPT ![p] = e], i - 1, now[r])
      <4> HIDE DEF p, e
      <4> QED  BY <1>1, <1>3, PassedKept
    <3> QED  BY <1>3, <3>1
  <2>2. IsOf(journal'[p], i) /\ (Program[i].op = "sleep" => journal'[p].value <= now[r])
    BY <1>2, <1>3 DEF Op
  <2> HIDE DEF p, e
  <2> QED  BY <1>1, <2>1, <2>2, PassedNext
<1>5. deployed' => \A k \in 1..i : Program[k].op = "version" => versions'[Program[k].name] # "unset"
  <2> SUFFICES ASSUME deployed, NEW k \in 1..i, Program[k].op = "version"
               PROVE  versions[Program[k].name] # "unset"
    OBVIOUS
  <2>1. k # i
    BY <1>1 DEF Journaled
  <2>2. k \in 1..(i - 1)
    BY <1>1, <2>1, ProgramFacts
  <2> QED  BY <2>2 DEF IInv, Asked, Within
<1>6. Right(r)'
  BY <1>1, <1>4, <1>5, AdvanceRight
<1> HIDE DEF e
<1> QED  BY <1>1, <1>2, <1>3, <1>6, RowStep

LEMMA RefusedKeeps ==
    ASSUME IInv, NEW r \in Runners, pc' = [pc EXCEPT ![r] = "undo"],
           UNCHANGED <<dbVars, ip, position, compensations, now, worldVars, historyVars>>
    PROVE  IInv'
<1>1. TypeOK' /\ OnlyMoves(r) /\ pc'[r] = "undo"
  BY DEF IInv, TypeOK, dbVars, worldVars, historyVars, PcStates, OnlyMoves
<1> QED  BY <1>1, UndoKeeps DEF dbVars, worldVars, historyVars

\* Rows of a kind are untouched by a row of another.
LEMMA OtherRows ==
    ASSUME IInv, NEW p \in Positions, Free(p), NEW e, journal' = [journal EXCEPT ![p] = e], e.kind # "tx",
           effects' = effects
    PROVE  EffectsAgree'
<1>1. journal'[p] = e /\ (\A q \in Positions \ {p} : journal'[q] = journal[q]) /\ journal[p].kind # "tx"
  BY DEF IInv, TypeOK, Free, Empty
<1>2. ASSUME NEW n \in Named("tx")
      PROVE  effects'[n] = Cardinality(RowsOf("tx", n)')
  <2>1. RowsOf("tx", n)' = RowsOf("tx", n)
    BY <1>1 DEF RowsOf
  <2> QED  BY <2>1 DEF IInv, EffectsAgree
<1> QED  BY <1>2 DEF EffectsAgree

LEMMA OtherSignals ==
    ASSUME IInv, NEW p \in Positions, Free(p), NEW e, journal' = [journal EXCEPT ![p] = e], e.kind # "signal",
           signals' = signals, sent' = sent
    PROVE  SignalsConserved'
<1>1. journal'[p] = e /\ (\A q \in Positions \ {p} : journal'[q] = journal[q]) /\ journal[p].kind # "signal"
  BY DEF IInv, TypeOK, Free, Empty
<1>2. {q \in Positions : journal'[q].kind = "signal"} = {q \in Positions : journal[q].kind = "signal"}
  BY <1>1
<1> QED  BY <1>2 DEF IInv, SignalsConserved

LEMMA StepKeeps ==
    ASSUME IInv, NEW r \in Runners, Step(r)
    PROVE  IInv'
<1> DEFINE p == position[r]
           x == IF Op(r).op = "sleep" THEN Wake(r) ELSE 0
           e == Entry(Op(r).op, Op(r).name, x)
<1>1. /\ pc[r] = "work" /\ Op(r).op \in {"step", "sleep"}
      /\ UNCHANGED <<status, wake_at, signals, versions, position, compensations, now, worldVars, historyVars>>
  BY DEF Step
<1>2. /\ ip[r] \in 1..Len(Program) /\ p \in Positions /\ p = Place(versions, ip[r])
      /\ Passed(versions, journal, ip[r] - 1, now[r]) /\ Op(r).name \in Names /\ now[r] \in Nat
      /\ ip[r] - 1 \in 0..Len(Program) /\ Journaled(Program[ip[r]]) /\ Live(versions, ip[r])
      /\ journal \in Journals
  BY <1>1, WithinPlace DEF Op, IInv, TypeOK, Journals
<1>3. x \in Nat
  BY <1>2, BoundsAssumption DEF Wake
<1>4. CASE Free(p)
  <2>1. journal' = [journal EXCEPT ![p] = e]
    BY <1>4 DEF Step, Inserts
  <2>2. e.kind = Op(r).op /\ e.kind \in {"step", "sleep"} /\ e \in [kind : Ops \union {"none"}, name : Names \union {"none"}, value : Nat]
    BY <1>1, <1>2, <1>3 DEF Entry, Ops
  <2>3. journal' \in Journals
    BY <1>2, <2>1, <2>2 DEF Journals
  <2>4. EffectsAgree' /\ SignalsConserved'
    <3>1. effects' = effects /\ signals' = signals /\ sent' = sent
      BY <1>1 DEF historyVars
    <3> HIDE DEF e
    <3> QED  BY <1>2, <1>4, <2>1, <2>2, <3>1, OtherRows, OtherSignals
  <2>5. CASE Op(r).op = "sleep" /\ ~Due(r, Wake(r))
    <3>1. pc' = [pc EXCEPT ![r] = "suspend"] /\ ip' = ip
      BY <1>4, <2>5 DEF Step, Inserts, SetPc
    <3>2. TypeOK' /\ OnlyMoves(r) /\ pc'[r] = "suspend"
      BY <1>1, <2>3, <3>1 DEF IInv, TypeOK, Journals, worldVars, historyVars, PcStates, OnlyMoves
    <3>3. Passed(versions, journal', ip[r] - 1, now[r])
      <4>1. journal[p] = Empty
        BY <1>4 DEF Free
      <4> QED  BY <1>2, <2>1, <4>1, PassedKept
    <3>4. Right(r)'
      <4>1. ip[r] <= Len(Program) /\ now[r] <= clock
        BY <1>2, ProgramFacts DEF IInv, At
      <4>2. At(r)'
        BY <1>1, <1>2, <2>5, <3>1, <3>2, <3>3, <4>1 DEF At, Between, Within, worldVars, Op
      <4>3. Asked(r)'
        BY <1>1, <3>1 DEF IInv, Asked, Within, worldVars
      <4> QED  BY <3>2, <4>2, <4>3 DEF Right, NothingBeyond
    <3>5. e.kind \in Recorders /\ IsOf(e, ip[r])
      BY <2>2 DEF Recorders, IsOf, Entry, Op
    <3> HIDE DEF e
    <3> QED  BY <1>1, <1>2, <1>4, <2>1, <2>4, <3>2, <3>4, <3>5, RowStep DEF worldVars
  <2>6. CASE ~(Op(r).op = "sleep" /\ ~Due(r, Wake(r)))
    <3>1. Advance(r)
      BY <1>4, <2>6 DEF Step, Inserts
    <3>2. TypeOK' /\ OnlyMoves(r)
      BY <1>1, <1>2, <2>3, <3>1, AdvanceType DEF IInv, TypeOK, Journals, worldVars, historyVars, OnlyMoves
    <3>3. Op(r).op = "sleep" => x <= now[r]
      BY <1>2, <1>3, <2>6 DEF Due
    <3> HIDE DEF x
    <3> QED  BY <1>1, <1>3, <1>4, <2>1, <2>4, <3>1, <3>2, <3>3, WriteKeeps DEF worldVars
  <2> QED  BY <2>5, <2>6
<1>5. CASE ~Free(p)
  <2>1. pc' = [pc EXCEPT ![r] = "undo"] /\ journal' = journal /\ ip' = ip
    BY <1>5 DEF Step, Inserts, SetPc
  <2> QED  BY <1>1, <2>1, RefusedKeeps DEF dbVars
<1> QED  BY <1>4, <1>5

\* Effect and row come together.
LEMMA TransactionKeeps ==
    ASSUME IInv, NEW r \in Runners, Transaction(r)
    PROVE  IInv'
<1> DEFINE p == position[r]
           n == Op(r).name
           e == Entry("tx", n, 0)
<1>1. /\ pc[r] = "work" /\ Op(r).op = "tx"
      /\ UNCHANGED <<status, wake_at, signals, versions, position, compensations, now, worldVars,
                     undoFailed, sent, crashes, overlapped, diverged>>
  BY DEF Transaction
<1>2. ip[r] \in 1..Len(Program) /\ p \in Positions /\ n \in Named("tx") /\ n \in Names
  BY <1>1, WithinPlace DEF Op
<1>3. CASE Free(p)
  <2>1. /\ journal' = [journal EXCEPT ![p] = e] /\ effects' = [effects EXCEPT ![n] = @ + 1] /\ Advance(r)
    BY <1>3 DEF Transaction, Inserts
  <2>2. e.kind = "tx" /\ e.name = n /\ e \in [kind : Ops \union {"none"}, name : Names \union {"none"}, value : Nat]
    BY <1>2 DEF Entry, Ops
  <2>3. journal' \in Journals /\ effects' \in [Named("tx") -> Nat]
    BY <1>2, <2>1, <2>2 DEF Journals, IInv, TypeOK
  <2>4. /\ journal'[p] = e /\ (\A q \in Positions \ {p} : journal'[q] = journal[q])
        /\ journal[p] = Empty
    BY <1>2, <1>3, <2>1 DEF IInv, TypeOK, Free
  <2> HIDE DEF e
  <2>5. ASSUME NEW m \in Named("tx") PROVE effects'[m] = Cardinality(RowsOf("tx", m)')
    <3>1. CASE m = n
      <4>1. RowsOf("tx", m)' = RowsOf("tx", m) \union {p} /\ p \notin RowsOf("tx", m)
        BY <1>2, <2>2, <2>4, <3>1 DEF RowsOf, Empty
      <4>2. Cardinality(RowsOf("tx", m) \union {p}) = Cardinality(RowsOf("tx", m)) + 1
        BY <4>1, RowsFinite, FS_AddElement
      <4>3. effects'[m] = effects[m] + 1 /\ effects[m] = Cardinality(RowsOf("tx", m))
        BY <1>2, <2>1, <3>1 DEF IInv, TypeOK, EffectsAgree
      <4> QED  BY <4>1, <4>2, <4>3
    <3>2. CASE m # n
      <4>1. RowsOf("tx", m)' = RowsOf("tx", m)
        BY <2>2, <2>4, <3>2 DEF RowsOf, Empty
      <4>2. effects'[m] = effects[m] /\ effects[m] = Cardinality(RowsOf("tx", m))
        BY <1>2, <2>1, <3>2 DEF IInv, TypeOK, EffectsAgree
      <4> QED  BY <4>1, <4>2
    <3> QED  BY <3>1, <3>2
  <2>6. EffectsAgree'
    BY <2>5 DEF EffectsAgree
  <2>7. SignalsConserved'
    BY <1>1, <1>2, <1>3, <2>1, <2>2, OtherSignals
  <2>8. TypeOK' /\ OnlyMoves(r)
    BY <1>1, <1>2, <2>1, <2>3, AdvanceType DEF IInv, TypeOK, Journals, worldVars, OnlyMoves
  <2>9. journal' = [journal EXCEPT ![p] = Entry(Op(r).op, Op(r).name, 0)]
    BY <1>1, <2>1 DEF e
  <2> QED  BY <1>1, <1>3, <2>1, <2>6, <2>7, <2>8, <2>9, WriteKeeps DEF worldVars
<1>4. CASE ~Free(p)
  <2>1. pc' = [pc EXCEPT ![r] = "undo"] /\ journal' = journal /\ ip' = ip /\ effects' = effects
    BY <1>4 DEF Transaction, Inserts, SetPc
  <2> QED  BY <1>1, <2>1, RefusedKeeps DEF dbVars, historyVars
<1> QED  BY <1>3, <1>4

\* The signal's row goes when the journal's comes.
LEMMA TakeSignalKeeps ==
    ASSUME IInv, NEW r \in Runners, TakeSignal(r)
    PROVE  IInv'
<1> DEFINE p == position[r]
           e == Entry("signal", Op(r).name, 0)
           Rows == {q \in Positions : journal[q].kind = "signal"}
<1>1. /\ pc[r] = "work" /\ Op(r).op = "signal"
      /\ UNCHANGED <<status, wake_at, versions, worldVars, historyVars>>
  BY DEF TakeSignal
<1>2. ip[r] \in 1..Len(Program) /\ p \in Positions /\ Op(r).name \in Names
  BY <1>1, WithinPlace DEF Op
<1>3. CASE /\ Signalled /\ Free(p) /\ signals' = signals - 1
           /\ journal' = [journal EXCEPT ![p] = e] /\ Advance(r)
           /\ UNCHANGED <<position, compensations, now>>
  <2>1. signals \in Nat /\ signals' \in Nat
    BY <1>3 DEF IInv, TypeOK, Signalled
  <2>2. e.kind = "signal" /\ e \in [kind : Ops \union {"none"}, name : Names \union {"none"}, value : Nat]
    BY <1>2 DEF Entry, Ops
  <2>3. journal' \in Journals
    BY <1>2, <1>3, <2>2 DEF Journals, IInv, TypeOK
  <2>4. /\ journal'[p] = e /\ (\A q \in Positions \ {p} : journal'[q] = journal[q])
        /\ journal[p] = Empty
    BY <1>2, <1>3 DEF IInv, TypeOK, Free
  <2>5. EffectsAgree'
    <3>1. e.kind # "tx" /\ effects' = effects
      BY <1>1, <2>2 DEF historyVars
    <3> HIDE DEF e
    <3> QED  BY <1>2, <1>3, <3>1, OtherRows
  <2>6. SignalsConserved'
    <3> HIDE DEF e
    <3>1. {q \in Positions : journal'[q].kind = "signal"} = Rows \union {p} /\ p \notin Rows
      BY <1>2, <2>2, <2>4 DEF Empty
    <3>2. IsFiniteSet(Rows)
      BY PositionsFinite, FS_Subset
    <3>3. Cardinality(Rows) \in Nat /\ Cardinality(Rows \union {p}) = Cardinality(Rows) + 1
      BY <3>1, <3>2, FS_CardinalityType, FS_AddElement
    <3>4. sent' = sent /\ sent = signals + Cardinality(Rows)
      BY <1>1 DEF IInv, SignalsConserved, historyVars
    <3>5. sent' = signals' + Cardinality({q \in Positions : journal'[q].kind = "signal"})
      <4>1. Cardinality({q \in Positions : journal'[q].kind = "signal"}) = Cardinality(Rows) + 1
        BY <3>1, <3>3
      <4>2. signals' = signals - 1 /\ sent' = signals + Cardinality(Rows)
        BY <1>3, <3>4
      <4> HIDE DEF Rows
      <4> QED  BY <2>1, <3>3, <4>1, <4>2
    <3> QED  BY <3>5 DEF SignalsConserved
  <2>7. TypeOK' /\ OnlyMoves(r)
    <3> HIDE DEF e
    <3> QED  BY <1>1, <1>2, <1>3, <2>1, <2>3, AdvanceType DEF IInv, TypeOK, Journals, worldVars, historyVars, OnlyMoves
  <2>8. journal' = [journal EXCEPT ![p] = Entry(Op(r).op, Op(r).name, 0)]
    BY <1>1, <1>3
  <2> HIDE DEF e, Rows
  <2> QED  BY <1>1, <1>3, <2>5, <2>6, <2>7, <2>8, WriteKeeps DEF worldVars
<1>4. CASE /\ Signalled /\ ~Free(p) /\ pc' = [pc EXCEPT ![r] = "undo"]
           /\ UNCHANGED <<signals, journal, ip, position, compensations, now>>
  BY <1>1, <1>4, RefusedKeeps DEF dbVars
<1>5. CASE ~Signalled /\ Release(r) /\ UNCHANGED <<signals, journal>>
  <2>1. TypeOK'
    BY <1>1, <1>5, ProgramFacts DEF IInv, TypeOK, Release, SetPc, worldVars, historyVars, PcStates
  <2> QED  BY <1>1, <1>5, <2>1, ReleaseKeeps DEF worldVars, historyVars
<1> QED  BY <1>3, <1>4, <1>5 DEF TakeSignal, Inserts, SignalsLeft, SetPc

\* A runner gives up its run, for whatever reason.
LEMMA LetsGoKeeps ==
    ASSUME IInv, NEW r \in Runners, Suspend(r) \/ Complete(r) \/ Fail(r) \/ Crash(r)
    PROVE  IInv'
<1>1. /\ Release(r) /\ crashes' \in Nat /\ wake_at' \in Nat
      /\ status' \in {"absent", "running", "completed", "failed"}
      /\ UNCHANGED <<journal, signals, versions, worldVars, effects, undoFailed, sent, overlapped, diverged>>
  <2>1. CASE Suspend(r)
    <3>1. position[r] = Place(versions, ip[r]) /\ ip[r] \in 1..Len(Program)
          /\ Journaled(Program[ip[r]]) /\ Live(versions, ip[r])
      BY <2>1, ProgramFacts DEF Suspend, IInv, TypeOK, At, Within
    <3>2. position[r] \in Positions
      BY <3>1, PlaceIsPosition
    <3>3. wake_at' \in Nat
      BY <2>1, <3>2 DEF Suspend, IInv, TypeOK
    <3> QED  BY <2>1, <3>3 DEF Suspend, IInv, TypeOK, historyVars
  <2>2. CASE Complete(r)
    BY <2>2 DEF Complete, IInv, TypeOK, historyVars
  <2>3. CASE Fail(r)
    BY <2>3 DEF Fail, IInv, TypeOK, historyVars
  <2>4. CASE Crash(r)
    BY <2>4 DEF Crash, IInv, TypeOK, dbVars
  <2> QED  BY <2>1, <2>2, <2>3, <2>4
<1>2. TypeOK'
  BY <1>1, ProgramFacts DEF IInv, TypeOK, Release, SetPc, worldVars, PcStates
<1> QED  BY <1>1, <1>2, ReleaseKeeps DEF worldVars

LEMMA WorkFailsKeeps ==
    ASSUME IInv, NEW r \in Runners, WorkFails(r)
    PROVE  IInv'
<1>1. position' = position
  BY DEF WorkFails, AfterFailure, IInv, TypeOK
<1> QED  BY <1>1, RefusedKeeps DEF WorkFails, SetPc

LEMMA PoppedType ==
    ASSUME IInv, NEW r \in Runners, compensations[r] # <<>>
    PROVE  Popped(r) \in Seq(Names) /\ Newest(r) \in Names
<1>1. compensations[r] \in Seq(Names)
  BY DEF IInv, TypeOK
<1>2. Len(compensations[r]) \in 1..Len(compensations[r]) /\ Len(compensations[r]) - 1 \in Nat
  BY <1>1
<1>3. Newest(r) \in Names
  BY <1>1, <1>2, ElementOfSeq DEF Newest
<1>4. \A k \in 1..(Len(compensations[r]) - 1) : compensations[r][k] \in Names
  BY <1>1, <1>2, ElementOfSeq
<1>5. Popped(r) \in Seq(Names)
  BY <1>1, <1>2, <1>4 DEF Popped
<1> QED  BY <1>3, <1>5

LEMMA UndoNextKeeps ==
    ASSUME IInv, NEW r \in Runners, UndoNext(r)
    PROVE  IInv'
<1>1. /\ pc[r] = "undo" /\ compensations[r] # <<>>
      /\ position' = [position EXCEPT ![r] = position[r] + 1]
      /\ UNCHANGED <<dbVars, ip, now, worldVars, historyVars>>
      /\ \/ pc' = [pc EXCEPT ![r] = "undoing"] /\ compensations' = compensations
         \/ pc' = pc /\ compensations' = [compensations EXCEPT ![r] = Popped(r)]
  BY DEF UndoNext, SetPc
<1>2. TypeOK' /\ OnlyMoves(r)
  <2>1. pc' \in [Runners -> PcStates] /\ \A o \in Runners \ {r} : pc'[o] = pc[o]
    BY <1>1 DEF IInv, TypeOK, PcStates
  <2>2. position' \in [Runners -> Nat] /\ \A o \in Runners \ {r} : position'[o] = position[o]
    BY <1>1 DEF IInv, TypeOK
  <2>3. Popped(r) \in Seq(Names)
    BY <1>1, PoppedType
  <2>4. compensations' \in [Runners -> Seq(Names)] /\ \A o \in Runners \ {r} : compensations'[o] = compensations[o]
    <3>1. compensations \in [Runners -> Seq(Names)]
      BY DEF IInv, TypeOK
    <3> QED  BY <1>1, <2>3, <3>1
  <2> QED  BY <1>1, <2>1, <2>2, <2>4 DEF IInv, TypeOK, dbVars, worldVars, historyVars, OnlyMoves
<1>3. pc'[r] = "undo" \/ (pc'[r] = "undoing" /\ compensations'[r] # <<>>)
  BY <1>1 DEF IInv, TypeOK
<1> QED  BY <1>1, <1>2, <1>3, UndoKeeps DEF dbVars, worldVars, historyVars

LEMMA UndoneKeeps ==
    ASSUME IInv, NEW r \in Runners, Undo(r) \/ UndoFails(r)
    PROVE  IInv'
<1> DEFINE p == position[r]
           e == Entry("compensate", Newest(r), 0)
<1>1. /\ pc[r] = "undoing" /\ pc' = [pc EXCEPT ![r] = "undo"]
      /\ compensations' = [compensations EXCEPT ![r] = Popped(r)]
      /\ UNCHANGED <<status, wake_at, signals, versions, ip, position, now, worldVars,
                     effects, sent, crashes, overlapped, diverged>>
  BY DEF Undo, UndoFails, SetPc, dbVars, historyVars
<1>2. Popped(r) \in Seq(Names) /\ Newest(r) \in Names
  <2>1. compensations[r] # <<>>
    BY <1>1 DEF IInv, At
  <2> QED  BY <2>1, PoppedType
<1>3. OnlyMoves(r) /\ pc'[r] = "undo"
  BY <1>1 DEF IInv, TypeOK, OnlyMoves
<1>4. undoFailed' \in SUBSET Names
  BY <1>2 DEF Undo, UndoFails, IInv, TypeOK, historyVars
<1>5. CASE journal' = journal
  <2>1. TypeOK'
    BY <1>1, <1>2, <1>4, <1>5 DEF IInv, TypeOK, worldVars, PcStates
  <2> QED  BY <1>1, <1>3, <1>5, <2>1, UndoKeeps DEF worldVars
<1>6. CASE p \in Positions /\ Free(p) /\ journal' = [journal EXCEPT ![p] = e]
  <2>1. e.kind = "compensate" /\ e \in [kind : Ops \union {"none"}, name : Names \union {"none"}, value : Nat]
    BY <1>2 DEF Entry, Ops
  <2>2. journal' \in Journals
    BY <1>6, <2>1 DEF Journals, IInv, TypeOK
  <2> HIDE DEF e
  <2>3. TypeOK'
    BY <1>1, <1>2, <1>4, <2>2 DEF IInv, TypeOK, Journals, worldVars, PcStates
  <2>4. EffectsAgree' /\ SignalsConserved'
    BY <1>1, <1>6, <2>1, OtherRows, OtherSignals
  <2>5. Right(r)'
    BY <1>1, <1>3, UndoRight DEF worldVars
  <2>6. e.kind \notin Recorders
    BY <2>1 DEF Recorders
  <2> QED  BY <1>1, <1>3, <1>6, <2>1, <2>3, <2>4, <2>5, <2>6, RowStep DEF worldVars
<1>7. journal' = journal \/ (p \in Positions /\ Free(p) /\ journal' = [journal EXCEPT ![p] = e])
  <2>1. p \notin Positions => [journal EXCEPT ![p] = e] = journal
    BY DEF IInv, TypeOK
  <2> QED  BY <2>1 DEF Undo, UndoFails, Inserts, dbVars
<1> QED  BY <1>5, <1>6, <1>7

-----------------------------------------------------------------------------

LEMMA NextKeeps == IInv /\ [Next]_vars => IInv'
<1> SUFFICES ASSUME IInv, [Next]_vars PROVE IInv'
  OBVIOUS
<1>1. CASE UNCHANGED vars
  <2>1. TypeOK'
    BY <1>1 DEF vars, dbVars, runVars, worldVars, historyVars, IInv, TypeOK
  <2>2. SignalsConserved'
    BY <1>1 DEF vars, dbVars, historyVars, IInv, SignalsConserved
  <2> QED  BY <1>1, <2>1, <2>2, FrameKeeps DEF vars, dbVars, runVars, worldVars, historyVars
<1>2. CASE Start \/ SendSignal \/ Tick \/ Deploy
  BY <1>2, WorldKeeps
<1>3. CASE Done
  BY <1>1, <1>3 DEF Done
<1>4. ASSUME NEW r \in Runners, RunnerStep(r) PROVE IInv'
  BY <1>4, SelectKeeps, RunOneKeeps, SkipKeeps, CompensateKeeps, VersionKeeps, RecordVersionKeeps,
     NextOpKeeps, StepKeeps, TransactionKeeps, TakeSignalKeeps, WorkFailsKeeps, LetsGoKeeps,
     UndoNextKeeps, UndoneKeeps DEF RunnerStep
<1>5. ASSUME NEW r \in Runners, Crash(r) PROVE IInv'
  BY <1>5, LetsGoKeeps
<1> QED  BY <1>1, <1>2, <1>3, <1>4, <1>5 DEF Next

LEMMA Invariant == Spec => []IInv
BY Initially, NextKeeps, PTL DEF Spec

\* Every variable has its type, and no runner takes an operation that is not
\* in the program.
THEOREM TypeCorrect == Spec => []TypeOK
<1>1. IInv => TypeOK
  BY DEF IInv
<1> QED  BY <1>1, Invariant, PTL

\* transactional_step: whatever crashes, however many engines run the
\* execution, and whichever code they run, the effect is in the database once
\* if its row is, and not otherwise.
THEOREM TransactionsOnce == Spec => []TxExactlyOnce
<1>1. IInv => TxExactlyOnce
  <2> SUFFICES ASSUME IInv, NEW n \in Named("tx")
               PROVE  effects[n] = Cardinality(RowsOf("tx", n)) /\ effects[n] <= 1
    BY DEF TxExactlyOnce
  <2>1. effects[n] = Cardinality(RowsOf("tx", n))
    BY DEF IInv, EffectsAgree
  \* Two rows of one name would be one operation's, and so at one place.
  <2>2. ASSUME NEW p \in RowsOf("tx", n), NEW q \in RowsOf("tx", n) PROVE p = q
    <3>1. PICK i \in 1..Len(Program) : IsOf(journal[p], i) /\ p = Place(versions, i)
      BY DEF IInv, Placed, RowsOf, Recorders
    <3>2. PICK k \in 1..Len(Program) : IsOf(journal[q], k) /\ q = Place(versions, k)
      BY DEF IInv, Placed, RowsOf, Recorders
    <3>3. i = k
      BY <3>1, <3>2, ProgramFacts DEF IsOf, RowsOf
    <3> QED  BY <3>1, <3>2, <3>3
  <2>3. Cardinality(RowsOf("tx", n)) <= 1
    <3>1. CASE RowsOf("tx", n) = {}
      BY <3>1, FS_EmptySet
    <3>2. CASE RowsOf("tx", n) # {}
      <4>1. PICK p : RowsOf("tx", n) = {p}
        BY <2>2, <3>2
      <4>2. Cardinality({p}) = 1
        BY FS_Singleton
      <4>3. Cardinality(RowsOf("tx", n)) = 1
        BY <4>1, <4>2
      <4> QED  BY <4>3
    <3> QED  BY <3>1, <3>2
  <2> QED  BY <2>1, <2>3
<1> QED  BY <1>1, Invariant, PTL

\* signal(): every signal sent is waiting or has been received once.
THEOREM SignalsKept == Spec => []SignalsConserved
<1>1. IInv => SignalsConserved
  BY DEF IInv
<1> QED  BY <1>1, Invariant, PTL

\* sleep(): nothing behind a timer is recorded before its time, however often
\* signals and restarts wake the execution.
THEOREM TimersHonoured == Spec => []SleepHonoured
<1>1. IInv => SleepHonoured
  <2> SUFFICES ASSUME IInv, NEW p \in Positions, NEW q \in Positions, journal[p].kind = "sleep",
                      q > p, ~Free(q), journal[q].kind # "compensate"
               PROVE  clock >= journal[p].value
    BY DEF SleepHonoured
  <2>1. PICK i \in 1..Len(Program) : IsOf(journal[p], i) /\ Live(versions, i) /\ p = Place(versions, i)
    BY DEF IInv, Placed, Recorders
  <2>2. journal[q].kind \in Recorders
    BY DEF IInv, RowKinds
  <2>3. PICK k \in 1..Len(Program) :
            q = Place(versions, k) /\ Passed(versions, journal, k - 1, clock)
    BY <2>2 DEF IInv, Placed
  <2>4. i \in 1..(k - 1)
    <3> SUFFICES ASSUME k <= i PROVE FALSE
      BY ProgramFacts
    <3>1. i \in 0..Len(Program) /\ k \in 0..i
      BY ProgramFacts
    <3>2. q <= p
      BY <2>1, <2>3, <3>1, PlaceGrows
    <3>3. p \in Nat /\ q \in Nat
      BY PositionsFinite
    <3> QED  BY <3>2, <3>3
  <2>5. i \in Before(versions, k - 1) /\ Program[i].op = "sleep"
    BY <2>1, <2>4 DEF Before, IsOf, Journaled
  <2>6. journal[p].value <= clock
    BY <2>1, <2>3, <2>5 DEF Passed
  <2>7. journal[p].value \in Nat /\ clock \in Nat
    BY DEF IInv, TypeOK
  <2> QED  BY <2>6, <2>7
<1> QED  BY <1>1, Invariant, PTL

-----------------------------------------------------------------------------
(* Replays of deterministic code.  One engine, and steps that fail always  *)
(* or never: every run of the behaviour that the answers of version()      *)
(* select stops at the same operation, if at any, and what is compensated  *)
(* is at the same places each time.                                        *)

\* Of the first n operations, those that register a compensation.
Undoes(v, n) == {i \in 1..n : Program[i].op = "compensate" /\ Live(v, i)}
Rank(v, n) == Cardinality(Undoes(v, n))

\* The place of operation i's compensation when a run stops at operation f.
UndoPlace(v, f, i) == Place(v, f) + Rank(v, f) - Rank(v, i) + 1

\* Where a run stops.
Doomed(v, i) == Live(v, i) /\ Program[i].op \in {"step", "tx"} /\ Program[i].name \in fails
Clear(v, n) == \A i \in 1..n : ~Doomed(v, i)
Stops(v, f) == Doomed(v, f) /\ Clear(v, f - 1)

\* Sequence c names the first compensations of the first n operations.
Stacked(v, c, n) ==
    \A k \in 1..Len(c) : \E i \in Undoes(v, n) : Rank(v, i) = k /\ c[k] = Program[i].name

\* Of a run that stops at f, all compensations but the first m have their rows
\* in journal j, or are among the failed ones u.
IsUndo(e, i) == e.kind = "compensate" /\ e.name = Program[i].name
Settled(v, j, u, f, m) ==
    \A i \in Undoes(v, f) : Rank(v, i) > m =>
        IsUndo(j[UndoPlace(v, f, i)], i) \/ Program[i].name \in u

\* version() has its answers in the first n operations.
Decided(v, n) == \A i \in 1..n : Program[i].op = "version" => v[Program[i].name] # "unset"

Off == {"idle", "selected"}
Alone == \A r, o \in Runners : pc[r] \notin Off /\ pc[o] \notin Off => r = o

\* No operation bound to fail has a row, and the rows of compensations are at
\* the places of a run that stops at such an operation.
SureRows == \A p \in Positions : journal[p].kind \in {"step", "tx"} => journal[p].name \notin fails
UndoRows ==
    \A p \in Positions : journal[p].kind = "compensate" =>
        \E f \in 1..Len(Program) :
            /\ Stops(versions, f)
            /\ \E i \in Undoes(versions, f) : IsUndo(journal[p], i) /\ p = UndoPlace(versions, f, i)

\* A runner has met no operation bound to fail until it compensates; then it
\* has dealt with the compensations it no longer holds.
Follows(r) ==
    /\ pc[r] \in Between \union Within =>
         /\ Clear(versions, ip[r] - 1)
         /\ Stacked(versions, compensations[r], ip[r] - 1)
         /\ Len(compensations[r]) = Rank(versions, ip[r] - 1)
    /\ pc[r] = "work" => Free(position[r])
    /\ pc[r] \in {"oldest", "newest"} => versions[Op(r).name] = "unset"
    /\ pc[r] = "newest" => \A p \in Positions : p > position[r] => Free(p)
    /\ pc[r] = "complete" =>
         Clear(versions, Len(Program)) /\ (deployed => Decided(versions, Len(Program)))
    /\ pc[r] \in {"undo", "undoing"} =>
         /\ ip[r] \in 1..Len(Program) /\ Stops(versions, ip[r])
         /\ deployed => Decided(versions, ip[r])
         /\ Stacked(versions, compensations[r], ip[r])
         /\ Len(compensations[r]) <= Rank(versions, ip[r])
         /\ Settled(versions, journal, undoFailed, ip[r], Len(compensations[r]))
    /\ pc[r] = "undo" =>
         position[r] = Place(versions, ip[r]) + Rank(versions, ip[r]) - Len(compensations[r])
    /\ pc[r] = "undoing" =>
         /\ position[r] = Place(versions, ip[r]) + Rank(versions, ip[r]) - Len(compensations[r]) + 1
         /\ Free(position[r])

\* An execution that has ended was run to its end or to where it stops, and no
\* answer of version() changes that any more.
Ends ==
    /\ status = "completed" => Clear(versions, Len(Program))
    /\ status = "failed" =>
         \E f \in 1..Len(Program) : Stops(versions, f) /\ Settled(versions, journal, undoFailed, f, 0)
    /\ Ended /\ deployed /\ (\E r \in Runners : pc[r] # "idle") =>
         \A n \in 1..Len(Program) : Clear(versions, n - 1) => Decided(versions, n)

Sure == Alone /\ ~diverged /\ SureRows /\ UndoRows /\ Ends /\ \A r \in Runners : Follows(r)
Deterministic == Flaky = {} /\ ~overlapped
DInv == Deterministic => Sure

LEMMA RankType ==
    ASSUME NEW v, NEW n \in 0..Len(Program)
    PROVE  IsFiniteSet(Undoes(v, n)) /\ Rank(v, n) \in Nat
<1>1. IsFiniteSet(1..n)
  BY ProgramFacts, FS_Interval
<1>2. Undoes(v, n) \subseteq 1..n
  BY DEF Undoes
<1>3. IsFiniteSet(Undoes(v, n))
  BY <1>1, <1>2, FS_Subset
<1> QED  BY <1>3, FS_CardinalityType DEF Rank

LEMMA RankGrows ==
    ASSUME NEW v, NEW n \in 0..Len(Program), NEW m \in 0..n
    PROVE  Rank(v, m) <= Rank(v, n)
<1>1. Undoes(v, m) \subseteq Undoes(v, n)
  BY ProgramFacts DEF Undoes
<1> QED  BY <1>1, RankType, FS_Subset DEF Rank

LEMMA RankNext ==
    ASSUME NEW v, NEW n \in 1..Len(Program)
    PROVE  IF Program[n].op = "compensate" /\ Live(v, n)
             THEN Undoes(v, n) = Undoes(v, n - 1) \union {n} /\ Rank(v, n) = Rank(v, n - 1) + 1
             ELSE Undoes(v, n) = Undoes(v, n - 1) /\ Rank(v, n) = Rank(v, n - 1)
<1>1. n \in Nat /\ n - 1 \in 0..Len(Program) /\ n \notin Undoes(v, n - 1)
  BY ProgramFacts DEF Undoes
<1>2. Program[n].op = "compensate" /\ Live(v, n) => Undoes(v, n) = Undoes(v, n - 1) \union {n}
  BY <1>1 DEF Undoes
<1>3. ~(Program[n].op = "compensate" /\ Live(v, n)) => Undoes(v, n) = Undoes(v, n - 1)
  BY <1>1 DEF Undoes
<1>4. Cardinality(Undoes(v, n - 1) \union {n}) = Rank(v, n - 1) + 1
  BY <1>1, RankType, FS_AddElement DEF Rank
<1> QED  BY <1>2, <1>3, <1>4 DEF Rank

LEMMA RankNone ==
    ASSUME NEW v
    PROVE  Undoes(v, 0) = {} /\ Rank(v, 0) = 0
<1>1. Undoes(v, 0) = {}
  BY DEF Undoes
<1> QED  BY <1>1, FS_EmptySet DEF Rank

\* Compensations are ranked in the order they are registered.
LEMMA RankOrder ==
    ASSUME NEW v, NEW n \in 0..Len(Program), NEW i \in Undoes(v, n), NEW k \in Undoes(v, n)
    PROVE  /\ i \in 1..Len(Program) /\ i \in 1..n /\ i \in 0..Len(Program)
           /\ Rank(v, i) \in 1..Rank(v, n)
           /\ i < k <=> Rank(v, i) < Rank(v, k)
<1>1. ASSUME NEW a \in Undoes(v, n)
      PROVE  /\ a \in 1..Len(Program) /\ a \in 1..n /\ a \in 0..Len(Program) /\ a - 1 \in 0..Len(Program)
             /\ Rank(v, a) = Rank(v, a - 1) + 1 /\ Rank(v, a) \in 1..Rank(v, n)
  <2>1. /\ a \in 1..Len(Program) /\ a \in 1..n /\ a \in 0..n /\ a \in 0..Len(Program)
        /\ a - 1 \in 0..Len(Program) /\ Program[a].op = "compensate" /\ Live(v, a)
    BY ProgramFacts DEF Undoes
  <2>2. Rank(v, a) = Rank(v, a - 1) + 1
    BY <2>1, RankNext
  <2>3. Rank(v, a) \in Nat /\ Rank(v, a - 1) \in Nat /\ Rank(v, n) \in Nat /\ Rank(v, a) <= Rank(v, n)
    BY <2>1, RankType, RankGrows
  <2> QED  BY <2>1, <2>2, <2>3
<1>2. ASSUME NEW a \in Undoes(v, n), NEW b \in Undoes(v, n), a < b
      PROVE  Rank(v, a) < Rank(v, b)
  <2>1. a \in 0..(b - 1) /\ b - 1 \in 0..Len(Program)
    BY <1>1, <1>2, ProgramFacts
  <2>2. Rank(v, a) <= Rank(v, b - 1)
    BY <2>1, RankGrows
  <2>3. Rank(v, b) = Rank(v, b - 1) + 1 /\ Rank(v, b - 1) \in Nat /\ Rank(v, a) \in Nat
    BY <1>1, <2>1, RankType
  <2> QED  BY <2>2, <2>3
<1>3. i \in Nat /\ k \in Nat /\ Rank(v, i) \in Nat /\ Rank(v, k) \in Nat
  BY <1>1, RankType
<1>4. i < k => Rank(v, i) < Rank(v, k)
  BY <1>2
<1>5. k < i => Rank(v, k) < Rank(v, i)
  BY <1>2
<1>6. ~(i < k) => i = k \/ k < i
  BY <1>3
<1>7. i < k <=> Rank(v, i) < Rank(v, k)
  BY <1>3, <1>4, <1>5, <1>6
<1> QED  BY <1>1, <1>7

LEMMA RankOne ==
    ASSUME NEW v, NEW n \in 0..Len(Program), NEW i \in Undoes(v, n), NEW k \in Undoes(v, n),
           Rank(v, i) = Rank(v, k)
    PROVE  i = k
<1>1. i \in Nat /\ k \in Nat /\ Rank(v, i) \in Nat
  BY RankOrder, ProgramFacts, RankType
<1>2. ~(i < k) /\ ~(k < i)
  <2>1. i < k <=> Rank(v, i) < Rank(v, k)
    BY RankOrder
  <2>2. k < i <=> Rank(v, k) < Rank(v, i)
    BY RankOrder
  <2> QED  BY <1>1, <2>1, <2>2
<1> QED  BY <1>1, <1>2

LEMMA RankSame ==
    ASSUME NEW v, NEW w, NEW n \in 0..Len(Program), \A i \in 1..n : Live(v, i) <=> Live(w, i),
           NEW m \in 0..n
    PROVE  Undoes(w, m) = Undoes(v, m) /\ Rank(w, m) = Rank(v, m)
<1>1. 1..m \subseteq 1..n
  BY ProgramFacts
<1>2. Undoes(w, m) = Undoes(v, m)
  BY <1>1 DEF Undoes
<1> QED  BY <1>2 DEF Rank

\* The places of compensations are positions behind the place of the operation
\* the run stops at.
LEMMA UndoPlaceIsPosition ==
    ASSUME NEW v, NEW f \in 1..Len(Program), Journaled(Program[f]), Live(v, f), NEW i \in Undoes(v, f)
    PROVE  /\ UndoPlace(v, f, i) \in Positions /\ Place(v, f) < UndoPlace(v, f, i)
           /\ Place(v, f) \in Nat /\ Rank(v, f) \in Nat /\ Rank(v, i) \in 1..Rank(v, f)
<1> DEFINE All == {k \in DOMAIN Program : Program[k].op # "version"}
<1>1. f \in 0..Len(Program)
  BY ProgramFacts
<1>2. /\ IsFiniteSet(Before(v, f)) /\ IsFiniteSet(Undoes(v, f)) /\ Place(v, f) \in Nat /\ Rank(v, f) \in Nat
      /\ Rank(v, i) \in 1..Rank(v, f)
  BY <1>1, PlaceType, RankType, RankOrder
<1>3. Before(v, f) \union Undoes(v, f) \subseteq All
  BY ProgramFacts DEF Before, Undoes, Journaled
<1>4. Before(v, f) \intersect Undoes(v, f) = {}
  BY DEF Before, Undoes, Journaled
<1>5. IsFiniteSet(All)
  <2>1. All \subseteq 1..Len(Program)
    BY ProgramFacts
  <2>2. IsFiniteSet(1..Len(Program))
    BY ProgramFacts, FS_Interval
  <2> QED  BY <2>1, <2>2, FS_Subset
<1> HIDE DEF All
<1>6. Cardinality(Before(v, f) \union Undoes(v, f)) <= Cardinality(All) /\ Cardinality(All) \in Nat
  BY <1>3, <1>5, FS_Subset, FS_CardinalityType
<1>7. Cardinality(Before(v, f) \union Undoes(v, f)) = Place(v, f) + Rank(v, f)
  <2>1. Cardinality(Before(v, f) \union Undoes(v, f))
          = Place(v, f) + Rank(v, f) - Cardinality(Before(v, f) \intersect Undoes(v, f))
    BY <1>2, FS_Union DEF Place, Rank
  <2>2. Cardinality(Before(v, f) \intersect Undoes(v, f)) = 0
    BY <1>4, FS_EmptySet
  <2> QED  BY <1>2, <2>1, <2>2
<1>8. UndoPlace(v, f, i) \in 1..Cardinality(All) /\ Place(v, f) < UndoPlace(v, f, i)
  BY <1>2, <1>6, <1>7 DEF UndoPlace
<1> QED  BY <1>2, <1>8 DEF Positions, All

\* There is one operation a run stops at, and no run gets beyond it.
LEMMA StopsFirst ==
    ASSUME NEW v, NEW f \in 1..Len(Program), Stops(v, f), NEW n \in 1..Len(Program), Clear(v, n - 1)
    PROVE  n <= f
<1> SUFFICES ASSUME f < n PROVE FALSE
  BY ProgramFacts
<1>1. f \in 1..(n - 1)
  BY ProgramFacts
<1> QED  BY <1>1 DEF Stops, Clear

LEMMA StopsOnce ==
    ASSUME NEW v, NEW f \in 1..Len(Program), Stops(v, f), NEW g \in 1..Len(Program), Stops(v, g)
    PROVE  f = g
<1>1. f <= g /\ g <= f
  BY StopsFirst DEF Stops
<1> QED  BY <1>1, ProgramFacts

LEMMA StopsFacts ==
    ASSUME NEW v, NEW f \in 1..Len(Program), Stops(v, f)
    PROVE  Journaled(Program[f]) /\ Live(v, f) /\ f \in 0..Len(Program) /\ f - 1 \in 0..Len(Program)
BY ProgramFacts DEF Stops, Doomed, Journaled

\* A change of answers that leaves the first n operations as they are.
LEMMA StopsSame ==
    ASSUME NEW v, NEW w, NEW n \in 0..Len(Program), \A i \in 1..n : Live(v, i) <=> Live(w, i), NEW f \in 1..n,
           Stops(v, f)
    PROVE  Stops(w, f)
<1>1. 1..(f - 1) \subseteq 1..n
  BY ProgramFacts
<1> QED  BY <1>1 DEF Stops, Doomed, Clear

LEMMA StackedSame ==
    ASSUME NEW v, NEW w, NEW n \in 0..Len(Program), \A i \in 1..n : Live(v, i) <=> Live(w, i), NEW m \in 0..n,
           NEW c, Stacked(v, c, m)
    PROVE  Stacked(w, c, m)
<1>1. Undoes(w, m) = Undoes(v, m)
  BY RankSame
<1>2. \A i \in Undoes(v, m) : i \in 0..n
  BY ProgramFacts DEF Undoes
<1>3. \A i \in Undoes(v, m) : Rank(w, i) = Rank(v, i)
  BY <1>2, RankSame
<1> QED  BY <1>1, <1>3 DEF Stacked

-----------------------------------------------------------------------------
(* Kinds of steps again. *)

\* A step by which one runner at most is on.
LEMMA SureStep ==
    ASSUME NEW r \in Runners, \A o \in Runners \ {r} : pc'[o] \in Off,
           Follows(r)', ~diverged', SureRows', UndoRows', Ends'
    PROVE  Sure'
<1>1. \A o \in Runners : pc'[o] \in Off => Follows(o)'
  BY DEF Follows, Off, Between, Within
<1>2. \A o \in Runners : Follows(o)'
  BY <1>1
<1>3. Alone'
  BY DEF Alone
<1> QED  BY <1>2, <1>3 DEF Sure

LEMMA OthersOff ==
    ASSUME Sure, NEW r \in Runners, pc[r] \notin Off, OnlyMoves(r)
    PROVE  \A o \in Runners \ {r} : pc'[o] \in Off
BY DEF Sure, Alone, OnlyMoves

\* Rows and the execution's end are the same.
LEMMA SameRows ==
    ASSUME Sure, journal' = journal, versions' = versions, fails' = fails
    PROVE  SureRows' /\ UndoRows'
<1>1. \A f : Stops(versions, f)' <=> Stops(versions, f)
  BY DEF Stops, Doomed, Clear
<1>2. SureRows'
  BY DEF Sure, SureRows
<1>3. UndoRows'
  BY <1>1 DEF Sure, UndoRows
<1> QED  BY <1>2, <1>3

LEMMA SameEnds ==
    ASSUME Sure, NEW r \in Runners, pc[r] # "idle" \/ pc' = pc,
           journal' = journal, versions' = versions, fails' = fails,
           status' = status, deployed' = deployed, undoFailed' = undoFailed
    PROVE  Ends'
<1>1. /\ \A f : Stops(versions, f)' <=> Stops(versions, f)
      /\ \A n : Clear(versions, n)' <=> Clear(versions, n)
  BY DEF Stops, Doomed, Clear
<1>2. (\E o \in Runners : pc'[o] # "idle") => \E o \in Runners : pc[o] # "idle"
  OBVIOUS
<1> QED  BY <1>1, <1>2 DEF Sure, Ends, Ended

\* Within a run, nothing in the database changes.
LEMMA SureWithin ==
    ASSUME Sure, NEW r \in Runners, pc[r] \notin Off, OnlyMoves(r), Follows(r)', diverged' = diverged,
           journal' = journal, versions' = versions, fails' = fails,
           status' = status, deployed' = deployed, undoFailed' = undoFailed
    PROVE  Sure'
<1>1. \A o \in Runners \ {r} : pc'[o] \in Off
  BY OthersOff
<1>2. SureRows' /\ UndoRows'
  BY SameRows
<1>3. Ends'
  BY SameEnds DEF Off
<1>4. ~diverged'
  BY DEF Sure
<1> QED  BY <1>1, <1>2, <1>3, <1>4, SureStep

\* A row is written.
LEMMA SureRow ==
    ASSUME Sure, NEW r \in Runners, pc[r] \notin Off, OnlyMoves(r), Follows(r)', diverged' = diverged,
           journal \in Journals, NEW p \in Positions, Free(p), NEW e, journal' = [journal EXCEPT ![p] = e],
           e.kind \in {"step", "tx"} => e.name \notin fails,
           e.kind = "compensate" =>
               \E f \in 1..Len(Program) :
                   /\ Stops(versions, f)
                   /\ \E i \in Undoes(versions, f) : IsUndo(e, i) /\ p = UndoPlace(versions, f, i),
           versions' = versions, fails' = fails,
           status' = status, deployed' = deployed, undoFailed' = undoFailed
    PROVE  Sure'
<1>1. \A o \in Runners \ {r} : pc'[o] \in Off
  BY OthersOff
<1>2. /\ \A f : Stops(versions, f)' <=> Stops(versions, f)
      /\ \A n : Clear(versions, n)' <=> Clear(versions, n)
  BY DEF Stops, Doomed, Clear
<1>3. journal'[p] = e /\ \A q \in Positions \ {p} : journal'[q] = journal[q]
  BY DEF Journals
<1>4. SureRows'
  BY <1>3 DEF Sure, SureRows
<1>5. UndoRows'
  BY <1>2, <1>3 DEF Sure, UndoRows
<1>6. Ends'
  <2>1. ASSUME NEW f \in 1..Len(Program), Stops(versions, f),
               Settled(versions, journal, undoFailed, f, 0)
        PROVE  Settled(versions, journal', undoFailed, f, 0)
    <3> SUFFICES ASSUME NEW i \in Undoes(versions, f), Rank(versions, i) > 0,
                        IsUndo(journal[UndoPlace(versions, f, i)], i)
                 PROVE  IsUndo(journal'[UndoPlace(versions, f, i)], i)
      BY <2>1 DEF Settled
    <3>1. UndoPlace(versions, f, i) \in Positions
      BY <2>1, StopsFacts, UndoPlaceIsPosition
    <3>2. UndoPlace(versions, f, i) # p
      BY DEF IsUndo, Free, Empty
    <3> QED  BY <1>3, <3>1, <3>2
  <2>2. status = "failed" =>
            \E f \in 1..Len(Program) : Stops(versions, f) /\ Settled(versions, journal', undoFailed, f, 0)
    BY <2>1 DEF Sure, Ends
  <2>3. (\E o \in Runners : pc'[o] # "idle") => \E o \in Runners : pc[o] # "idle"
    BY DEF Off
  <2> QED  BY <1>2, <2>2, <2>3 DEF Sure, Ends, Ended
<1>7. ~diverged'
  BY DEF Sure
<1> QED  BY <1>1, <1>4, <1>5, <1>6, <1>7, SureStep

\* A runner is off, and the others are where they were.
LEMMA SureOff ==
    ASSUME Sure, NEW r \in Runners, OnlyMoves(r), pc'[r] \in Off, diverged' = diverged,
           journal' = journal, versions' = versions, fails' = fails, deployed' = deployed,
           undoFailed' = undoFailed, Ends'
    PROVE  Sure'
<1>1. ASSUME NEW o \in Runners PROVE Follows(o)'
  <2>1. CASE o = r
    BY <2>1 DEF Follows, Off, Between, Within
  <2>2. CASE o # r
    <3>1. /\ pc'[o] = pc[o] /\ ip'[o] = ip[o] /\ position'[o] = position[o]
          /\ compensations'[o] = compensations[o]
      BY <2>2 DEF OnlyMoves
    <3>2. /\ \A f : Stops(versions, f)' <=> Stops(versions, f)
          /\ \A n : Clear(versions, n)' <=> Clear(versions, n)
      BY DEF Stops, Doomed, Clear
    <3>3. Follows(o)
      BY DEF Sure
    <3> QED  BY <3>1, <3>2, <3>3 DEF Follows, Op, Free
  <2> QED  BY <2>1, <2>2
<1>2. Alone'
  <2>1. \A o \in Runners : pc'[o] \notin Off => o # r /\ pc[o] \notin Off
    BY DEF OnlyMoves
  <2> QED  BY <2>1 DEF Sure, Alone
<1>3. SureRows' /\ UndoRows'
  BY SameRows
<1>4. ~diverged'
  BY DEF Sure
<1> QED  BY <1>1, <1>2, <1>3, <1>4 DEF Sure

\* An operation has returned, which was not bound to fail.
LEMMA FollowsOn ==
    ASSUME NEW r \in Runners, ip[r] \in 1..Len(Program), pc' \in [Runners -> PcStates],
           pc \in [Runners -> PcStates], ip \in [Runners -> 1..(Len(Program) + 1)], Advance(r),
           fails' = fails, Clear(versions', ip[r]), Stacked(versions', compensations'[r], ip[r]),
           Len(compensations'[r]) = Rank(versions', ip[r]),
           deployed' => Decided(versions', ip[r])
    PROVE  Follows(r)'
<1>1. /\ pc'[r] \in {"exec", "complete"} /\ ip'[r] = ip[r] + 1 /\ ip'[r] - 1 = ip[r]
      /\ pc'[r] = "complete" => ip[r] = Len(Program)
  BY DEF Advance, SetPc
<1>2. \A n : Clear(versions, n)' <=> Clear(versions', n)
  BY DEF Clear, Doomed
<1> QED  BY <1>1, <1>2 DEF Follows, Between, Within

-----------------------------------------------------------------------------
(* The actions, under the same conditions. *)

LEMMA SureInit == Init => Sure
<1> SUFFICES ASSUME Init PROVE Sure
  OBVIOUS
<1>1. \A p \in Positions : journal[p].kind = "none"
  BY DEF Init, Empty
<1>2. \A r \in Runners : pc[r] = "idle"
  BY DEF Init
<1>3. SureRows /\ UndoRows
  BY <1>1 DEF SureRows, UndoRows
<1>4. Ends /\ ~diverged
  BY DEF Init, Ends, Ended
<1> QED  BY <1>2, <1>3, <1>4 DEF Sure, Alone, Follows, Off, Between, Within

LEMMA SureFrame ==
    ASSUME Sure, status' \in {status, "running"},
           UNCHANGED <<pc, ip, position, compensations, journal, versions, deployed, fails, diverged, undoFailed>>
    PROVE  Sure'
<1>1. /\ \A f : Stops(versions, f)' <=> Stops(versions, f)
      /\ \A n : Clear(versions, n)' <=> Clear(versions, n)
  BY DEF Stops, Doomed, Clear
<1>2. \A r \in Runners : Follows(r)'
  BY <1>1 DEF Sure, Follows, Op, Free
<1>3. SureRows' /\ UndoRows'
  BY SameRows
<1>4. Ends'
  BY <1>1 DEF Sure, Ends, Ended
<1> QED  BY <1>2, <1>3, <1>4 DEF Sure, Alone

\* New code, while nobody runs.
LEMMA SureDeploy ==
    ASSUME Sure, Deploy
    PROVE  Sure'
<1>1. /\ \A r \in Runners : pc[r] = "idle" /\ pc'[r] = "idle"
      /\ UNCHANGED <<pc, journal, versions, fails, diverged, undoFailed, status>>
  BY DEF Deploy, dbVars, runVars, historyVars
<1>2. \A r \in Runners : Follows(r)'
  BY <1>1 DEF Follows, Between, Within
<1>3. SureRows' /\ UndoRows'
  BY <1>1, SameRows
<1>4. /\ \A f : Stops(versions, f)' <=> Stops(versions, f)
      /\ \A n : Clear(versions, n)' <=> Clear(versions, n)
  BY <1>1 DEF Stops, Doomed, Clear
<1>5. Ends'
  BY <1>1, <1>4 DEF Sure, Ends, Ended
<1> QED  BY <1>1, <1>2, <1>3, <1>5 DEF Sure, Alone

LEMMA SureSelect ==
    ASSUME IInv, Sure, NEW r \in Runners, Select(r)
    PROVE  Sure'
<1>1. /\ pc[r] = "idle" /\ pc' = [pc EXCEPT ![r] = "selected"] /\ status = "running"
      /\ UNCHANGED <<dbVars, ip, position, compensations, now, worldVars, historyVars>>
  BY DEF Select, SetPc, Runnable
<1>2. OnlyMoves(r) /\ pc'[r] \in Off
  BY <1>1 DEF IInv, TypeOK, OnlyMoves, Off
<1>3. Ends'
  BY <1>1 DEF Ends, Ended, dbVars
<1> QED  BY <1>1, <1>2, <1>3, SureOff DEF dbVars, worldVars, historyVars

\* A run begins, and no other is on.
LEMMA SureRunOne ==
    ASSUME IInv, Sure, Deterministic', NEW r \in Runners, RunOne(r)
    PROVE  Sure'
<1>1. /\ pc[r] = "selected" /\ pc' = [pc EXCEPT ![r] = "exec"]
      /\ overlapped' = (overlapped \/ \E o \in Runners \ {r} : pc[o] # "idle")
      /\ UNCHANGED <<dbVars, ip, position, compensations, worldVars, effects, undoFailed, sent, crashes, diverged>>
  BY DEF RunOne, SetPc
<1>2. /\ pc'[r] = "exec" /\ \A o \in Runners \ {r} : pc'[o] = "idle"
      /\ ip'[r] = 1 /\ compensations'[r] = <<>>
  BY <1>1 DEF IInv, TypeOK, At, Deterministic
<1>3. Follows(r)'
  <2>1. Clear(versions, 0)' /\ Stacked(versions, <<>>, 0)' /\ Rank(versions', 0) = 0 /\ Len(<<>>) = 0
    BY RankNone DEF Clear, Stacked
  <2> QED  BY <1>2, <2>1 DEF Follows, Between, Within
<1>4. SureRows' /\ UndoRows'
  BY <1>1, SameRows DEF dbVars, worldVars
<1>5. Ends'
  BY <1>1, SameEnds DEF dbVars, worldVars
<1> QED  BY <1>1, <1>2, <1>3, <1>4, <1>5, SureStep DEF Sure, Off

LEMMA ClearNext ==
    ASSUME NEW v, NEW n \in 1..Len(Program), Clear(v, n - 1), ~Doomed(v, n)
    PROVE  Clear(v, n)
<1>1. \A i \in 1..n : i = n \/ i \in 1..(n - 1)
  BY ProgramFacts
<1> QED  BY <1>1 DEF Clear

LEMMA DecidedNext ==
    ASSUME NEW v, NEW n \in 1..Len(Program), Decided(v, n - 1),
           Program[n].op = "version" => v[Program[n].name] # "unset"
    PROVE  Decided(v, n)
<1>1. \A i \in 1..n : i = n \/ i \in 1..(n - 1)
  BY ProgramFacts
<1> QED  BY <1>1 DEF Decided

\* What is known of a runner at an operation.
LEMMA Here ==
    ASSUME IInv, Sure, NEW r \in Runners, pc[r] \in Between \union Within
    PROVE  /\ ip[r] \in 1..Len(Program) /\ ip[r] - 1 \in 0..Len(Program) /\ ip[r] \in 0..Len(Program)
           /\ pc[r] \notin Off /\ pc \in [Runners -> PcStates] /\ ip \in [Runners -> 1..(Len(Program) + 1)]
           /\ Clear(versions, ip[r] - 1) /\ Stacked(versions, compensations[r], ip[r] - 1)
           /\ Len(compensations[r]) = Rank(versions, ip[r] - 1)
           /\ deployed => Decided(versions, ip[r] - 1)
           /\ compensations[r] \in Seq(Names) /\ Program[ip[r]].name \in Names
<1>1. ip[r] <= Len(Program) /\ ip[r] \in 1..(Len(Program) + 1)
  BY DEF IInv, At, TypeOK
<1>2. ip[r] \in 1..Len(Program) /\ ip[r] - 1 \in 0..Len(Program) /\ ip[r] \in 0..Len(Program)
  BY <1>1, ProgramFacts
<1>3. deployed => Decided(versions, ip[r] - 1)
  BY DEF IInv, Asked, Decided
<1>4. pc[r] \notin Off
  BY DEF Off, Between, Within
<1> QED  BY <1>2, <1>3, <1>4, ProgramFacts DEF Sure, Follows, IInv, TypeOK

\* An operation that registers no compensation returns.
LEMMA SureReturn ==
    ASSUME IInv, IInv', Sure, NEW r \in Runners, pc[r] \in Between \union Within, Advance(r), OnlyMoves(r),
           compensations' = compensations, versions' = versions, fails' = fails, deployed' = deployed,
           ~(Program[ip[r]].op = "compensate" /\ Live(versions, ip[r])), ~Doomed(versions, ip[r]),
           deployed /\ Program[ip[r]].op = "version" => versions[Program[ip[r]].name] # "unset"
    PROVE  Follows(r)'
<1>1. /\ ip[r] \in 1..Len(Program) /\ pc \in [Runners -> PcStates] /\ ip \in [Runners -> 1..(Len(Program) + 1)]
      /\ Clear(versions, ip[r] - 1) /\ Stacked(versions, compensations[r], ip[r] - 1)
      /\ Len(compensations[r]) = Rank(versions, ip[r] - 1)
      /\ deployed => Decided(versions, ip[r] - 1)
  BY Here
<1>2. Undoes(versions, ip[r]) = Undoes(versions, ip[r] - 1) /\ Rank(versions, ip[r]) = Rank(versions, ip[r] - 1)
  BY <1>1, RankNext
<1>3. Stacked(versions, compensations[r], ip[r])
  BY <1>1, <1>2 DEF Stacked
<1>4. Clear(versions, ip[r])
  BY <1>1, ClearNext
<1>5. deployed => Decided(versions, ip[r])
  BY <1>1, DecidedNext
<1>6. pc' \in [Runners -> PcStates]
  BY DEF IInv, TypeOK
<1> QED  BY <1>1, <1>2, <1>3, <1>4, <1>5, <1>6, FollowsOn

LEMMA AdvanceMoves ==
    ASSUME IInv, NEW r \in Runners, Advance(r)
    PROVE  /\ pc'[r] \notin Off
           /\ \A o \in Runners \ {r} : pc'[o] = pc[o] /\ ip'[o] = ip[o]
BY DEF IInv, TypeOK, Advance, SetPc, Off

LEMMA SureSkip ==
    ASSUME IInv, IInv', Sure, NEW r \in Runners, Skip(r)
    PROVE  Sure'
<1>1. /\ pc[r] = "exec" /\ ~Live(versions, ip[r]) /\ Advance(r)
      /\ UNCHANGED <<dbVars, position, compensations, now, worldVars, historyVars>>
  BY DEF Skip, Active, Chosen, Op, Live
<1>2. pc[r] \in Between \union Within /\ pc[r] \notin Off /\ OnlyMoves(r)
  BY <1>1, AdvanceMoves DEF Between, Off, OnlyMoves
<1>3. ip[r] \in 1..Len(Program)
  BY <1>1, ExecPlace
<1>4. Program[ip[r]].op # "version"
  BY <1>1, <1>3, ProgramFacts DEF Live
<1>5. ~Doomed(versions, ip[r])
  BY <1>1 DEF Doomed
<1>6. Follows(r)'
  BY <1>1, <1>2, <1>4, <1>5, SureReturn DEF dbVars, worldVars
<1> QED  BY <1>1, <1>2, <1>6, SureWithin DEF dbVars, worldVars, historyVars

\* A compensation takes the next rank.
LEMMA SureCompensate ==
    ASSUME IInv, IInv', Sure, NEW r \in Runners, Compensate(r)
    PROVE  Sure'
<1> DEFINE c == compensations[r]
           n == ip[r]
<1>1. /\ pc[r] = "exec" /\ Live(versions, n) /\ Program[n].op = "compensate" /\ Advance(r)
      /\ compensations' = [compensations EXCEPT ![r] = Append(c, Program[n].name)]
      /\ UNCHANGED <<dbVars, position, now, worldVars, historyVars>>
  BY DEF Compensate, Op, Registered, Active, Chosen, Live
<1>2. pc[r] \in Between \union Within /\ pc[r] \notin Off /\ OnlyMoves(r)
  BY <1>1, AdvanceMoves DEF Between, Off, OnlyMoves, IInv, TypeOK
<1>3. /\ n \in 1..Len(Program) /\ n - 1 \in 0..Len(Program)
      /\ pc \in [Runners -> PcStates] /\ ip \in [Runners -> 1..(Len(Program) + 1)]
      /\ Clear(versions, n - 1) /\ Stacked(versions, c, n - 1) /\ Len(c) = Rank(versions, n - 1)
      /\ deployed => Decided(versions, n - 1)
      /\ c \in Seq(Names) /\ Program[n].name \in Names
  BY <1>2, Here
<1>4. compensations'[r] = Append(c, Program[n].name)
  BY <1>1 DEF IInv, TypeOK
<1> DEFINE d == Append(c, Program[n].name)
<1>5. /\ Len(d) = Len(c) + 1 /\ d[Len(c) + 1] = Program[n].name /\ Len(c) \in Nat
      /\ \A k \in 1..Len(c) : d[k] = c[k]
  BY <1>3
<1>6. /\ Undoes(versions, n) = Undoes(versions, n - 1) \union {n}
      /\ Rank(versions, n) = Rank(versions, n - 1) + 1
  BY <1>1, <1>3, RankNext
<1> HIDE DEF c, d, n
<1>7. Stacked(versions, d, n)
  <2> SUFFICES ASSUME NEW k \in 1..Len(d)
               PROVE  \E i \in Undoes(versions, n) : Rank(versions, i) = k /\ d[k] = Program[i].name
    BY DEF Stacked
  <2>1. CASE k \in 1..Len(c)
    BY <1>3, <1>5, <1>6, <2>1 DEF Stacked
  <2>2. CASE k = Len(c) + 1
    BY <1>3, <1>5, <1>6, <2>2
  <2> QED  BY <1>5, <2>1, <2>2
<1>8. Clear(versions, n)
  <2>1. ~Doomed(versions, n)
    BY <1>1 DEF Doomed
  <2> QED  BY <1>3, <2>1, ClearNext
<1>9. deployed => Decided(versions, n)
  BY <1>1, <1>3, DecidedNext
<1>10. Follows(r)'
  <2>1. pc' \in [Runners -> PcStates]
    BY DEF IInv, TypeOK
  <2>2. versions' = versions /\ fails' = fails /\ deployed' = deployed
    BY <1>1 DEF dbVars, worldVars
  <2>3. compensations'[r] = d /\ Len(d) = Rank(versions, n)
    BY <1>3, <1>4, <1>5, <1>6 DEF d
  <2> QED  BY <1>1, <1>3, <1>7, <1>8, <1>9, <2>1, <2>2, <2>3, FollowsOn DEF n
<1> QED  BY <1>1, <1>2, <1>10, SureWithin DEF dbVars, worldVars, historyVars

LEMMA SureVersion ==
    ASSUME IInv, IInv', Sure, NEW r \in Runners, Version(r)
    PROVE  Sure'
<1>1. /\ pc[r] = "exec" /\ Program[ip[r]].op = "version"
      /\ UNCHANGED <<dbVars, position, compensations, now, worldVars, historyVars>>
  BY DEF Version, Op
<1>2. pc[r] \in Between \union Within /\ pc[r] \notin Off
  BY <1>1 DEF Between, Off
<1>3. CASE deployed /\ versions[Op(r).name] = "unset"
  <2>1. pc' = [pc EXCEPT ![r] = VersionFor(position[r])] /\ ip' = ip
    BY <1>3 DEF Version, SetPc
  <2>2. pc'[r] = VersionFor(position[r]) /\ VersionFor(position[r]) \in {"oldest", "newest"} /\ OnlyMoves(r)
    BY <1>1, <2>1 DEF VersionFor, IInv, TypeOK, OnlyMoves
  <2>3. pc'[r] = "newest" => \A p \in Positions : p > position[r] => Free(p)
    BY <2>2 DEF VersionFor
  <2>4. Follows(r)
    BY DEF Sure
  <2>5. \A n : Clear(versions, n)' <=> Clear(versions, n)
    BY <1>1 DEF Clear, Doomed, dbVars, worldVars
  <2>6. Follows(r)'
    BY <1>1, <1>2, <1>3, <2>1, <2>2, <2>3, <2>4, <2>5 DEF Follows, Between, Within, Op, Free, dbVars, worldVars
  <2> QED  BY <1>1, <1>2, <2>2, <2>6, SureWithin DEF dbVars, worldVars, historyVars
<1>4. CASE ~(deployed /\ versions[Op(r).name] = "unset")
  <2>1. Advance(r)
    BY <1>4 DEF Version
  <2>2. OnlyMoves(r)
    BY <1>1, <2>1, AdvanceMoves DEF OnlyMoves
  <2>3. ~Doomed(versions, ip[r])
    BY <1>1 DEF Doomed
  <2>4. Follows(r)'
    BY <1>1, <1>2, <1>4, <2>1, <2>2, <2>3, SureReturn DEF dbVars, worldVars, Op
  <2> QED  BY <1>1, <1>2, <2>2, <2>4, SureWithin DEF dbVars, worldVars, historyVars
<1> QED  BY <1>3, <1>4

\* version() records its answer: no row and no answer depended on it yet.
LEMMA SureRecordVersion ==
    ASSUME IInv, IInv', Sure, NEW r \in Runners, RecordVersion(r)
    PROVE  Sure'
<1> DEFINE c == Op(r).name
           j == ip[r]
<1>1. pc[r] \in {"oldest", "newest"} /\ pc[r] \in Between \union Within /\ pc[r] \notin Off
  BY DEF RecordVersion, Between, Off
<1>2. /\ versions[c] = "unset" /\ (pc[r] = "newest" => \A p \in Positions : p > position[r] => Free(p))
      /\ Clear(versions, j - 1) /\ Stacked(versions, compensations[r], j - 1)
      /\ Len(compensations[r]) = Rank(versions, j - 1)
  BY <1>1 DEF Sure, Follows
<1>3. /\ versions' = [versions EXCEPT ![c] = pc[r]] /\ Advance(r)
      /\ UNCHANGED <<status, journal, position, compensations, now, worldVars, historyVars>>
  BY <1>2 DEF RecordVersion
<1>4. /\ j \in 1..Len(Program) /\ j - 1 \in 0..Len(Program) /\ j \in 0..Len(Program)
      /\ pc \in [Runners -> PcStates] /\ ip \in [Runners -> 1..(Len(Program) + 1)]
      /\ deployed => Decided(versions, j - 1)
  BY <1>1, Here
<1>5. /\ deployed /\ Program[j].op = "version" /\ c \in Named("version")
      /\ position[r] = Place(versions, j - 1)
  BY <1>1, <1>4, ProgramFacts DEF IInv, At, Between, Op
<1>6. versions' \in Answers /\ versions \in Answers /\ versions'[c] = pc[r]
      /\ \A n \in Named("version") : n # c => versions'[n] = versions[n]
  BY <1>3, <1>5 DEF IInv, TypeOK, Answers
<1>7. \A i \in 1..j : Live(versions, i) <=> Live(versions', i)
  <2> SUFFICES ASSUME NEW i \in 1..j PROVE Live(versions, i) <=> Live(versions', i)
    OBVIOUS
  <2>1. i \in 1..Len(Program) /\ ~(j < i)
    BY <1>4, ProgramFacts
  <2>2. Program[i].since # c
    BY <1>4, <2>1, ProgramFacts DEF Op
  <2>3. Program[i].since # "none" => Program[i].since \in Named("version")
    BY <2>1, ProgramFacts
  <2> QED  BY <1>6, <2>2, <2>3 DEF Live
<1>8. OnlyMoves(r)
  BY <1>3, AdvanceMoves DEF OnlyMoves
<1> HIDE DEF c, j
<1>9. Follows(r)'
  <2>1. ~Doomed(versions, j)
    BY <1>5 DEF Doomed
  <2>2. Clear(versions, j)
    BY <1>2, <1>4, <2>1, ClearNext
  <2>3. fails' = fails /\ deployed' = deployed /\ compensations' = compensations
    BY <1>3 DEF worldVars
  <2>4. Clear(versions', j)
    BY <1>7, <2>2 DEF Clear, Doomed
  <2>5. Undoes(versions, j) = Undoes(versions, j - 1) /\ Rank(versions, j) = Rank(versions, j - 1)
    BY <1>4, <1>5, RankNext
  <2>6. Stacked(versions, compensations[r], j)
    BY <1>2, <2>5 DEF Stacked
  <2>7. j \in 0..j
    BY <1>4, ProgramFacts
  <2>8. Stacked(versions', compensations[r], j)
    BY <1>4, <1>7, <2>6, <2>7, StackedSame
  <2>9. Len(compensations[r]) = Rank(versions', j)
    BY <1>2, <1>4, <1>7, <2>5, <2>7, RankSame
  <2>10. Decided(versions', j)
    <3>1. \A i \in 1..(j - 1) : Program[i].op = "version" => versions'[Program[i].name] # "unset"
      <4> SUFFICES ASSUME NEW i \in 1..(j - 1), Program[i].op = "version"
                   PROVE  versions'[Program[i].name] # "unset"
        OBVIOUS
      <4>1. i \in 1..Len(Program)
        BY <1>4, ProgramFacts
      <4>2. versions[Program[i].name] # "unset" /\ Program[i].name \in Named("version")
        BY <1>4, <1>5, <4>1, ProgramFacts DEF Decided
      <4> QED  BY <1>1, <1>6, <4>2
    <3>2. Program[j].op = "version" => versions'[Program[j].name] # "unset"
      BY <1>1, <1>6 DEF c, j, Op
    <3>3. \A i \in 1..j : i = j \/ i \in 1..(j - 1)
      BY <1>4, ProgramFacts
    <3> QED  BY <3>1, <3>2, <3>3 DEF Decided
  <2>11. pc' \in [Runners -> PcStates]
    BY DEF IInv, TypeOK
  <2> QED  BY <1>3, <1>4, <2>3, <2>4, <2>8, <2>9, <2>10, <2>11, FollowsOn DEF j
<1>10. \A f \in 1..Len(Program) : Stops(versions, f) => j < f
  <2> SUFFICES ASSUME NEW f \in 1..Len(Program), Stops(versions, f) PROVE j < f
    OBVIOUS
  <2>1. j <= f
    BY <1>2, <1>4, StopsFirst
  <2>2. f # j
    BY <1>5 DEF Stops, Doomed
  <2> QED  BY <1>4, <2>1, <2>2, ProgramFacts
\* The recorded answer is what was assumed, or no compensation has a row.
<1>11. UndoRows'
  <2>1. CASE pc[r] = "oldest"
    <3>1. \A i \in 1..Len(Program) : Live(versions, i) <=> Live(versions', i)
      <4> SUFFICES ASSUME NEW i \in 1..Len(Program) PROVE Live(versions, i) <=> Live(versions', i)
        OBVIOUS
      <4>1. Program[i].since # "none" => Program[i].since \in Named("version")
        BY ProgramFacts
      <4> QED  BY <1>2, <1>6, <2>1, <4>1 DEF Live
    <3>2. Len(Program) \in 0..Len(Program) /\ \A f \in 1..Len(Program) : f \in 0..Len(Program)
      BY ProgramFacts
    <3>3. ASSUME NEW f \in 1..Len(Program), Stops(versions, f)
          PROVE  /\ Stops(versions', f) /\ Undoes(versions', f) = Undoes(versions, f)
                 /\ \A i \in Undoes(versions, f) : UndoPlace(versions', f, i) = UndoPlace(versions, f, i)
      <4>1. Stops(versions', f)
        BY <3>1, <3>2, <3>3, StopsSame
      <4>2. f \in 0..Len(Program)
        BY <3>2
      <4>3. /\ Undoes(versions', f) = Undoes(versions, f) /\ Rank(versions', f) = Rank(versions, f)
            /\ Place(versions', f) = Place(versions, f)
        BY <3>1, <3>2, <4>2, RankSame, PlaceSame
      <4>4. \A i \in Undoes(versions, f) : i \in 0..Len(Program)
        BY <4>2, RankOrder
      <4>5. \A i \in Undoes(versions, f) : Rank(versions', i) = Rank(versions, i)
        BY <3>1, <3>2, <4>4, RankSame
      <4> QED  BY <4>1, <4>3, <4>5 DEF UndoPlace
    <3>4. ASSUME NEW p \in Positions, journal[p].kind = "compensate"
          PROVE  \E f \in 1..Len(Program) :
                    /\ Stops(versions', f)
                    /\ \E i \in Undoes(versions', f) : IsUndo(journal[p], i) /\ p = UndoPlace(versions', f, i)
      <4>1. PICK f \in 1..Len(Program) :
                /\ Stops(versions, f)
                /\ \E i \in Undoes(versions, f) : IsUndo(journal[p], i) /\ p = UndoPlace(versions, f, i)
        BY <3>4 DEF Sure, UndoRows
      <4> QED  BY <3>3, <4>1
    <3>5. \A f : Stops(versions, f)' <=> Stops(versions', f)
      BY <1>3 DEF Stops, Doomed, Clear, worldVars
    <3> QED  BY <1>3, <3>4, <3>5 DEF UndoRows
  <2>2. CASE pc[r] = "newest"
    <3> SUFFICES ASSUME NEW p \in Positions, journal[p].kind = "compensate" PROVE FALSE
      BY <1>3 DEF UndoRows
    <3>1. PICK f \in 1..Len(Program) :
              /\ Stops(versions, f)
              /\ \E i \in Undoes(versions, f) : IsUndo(journal[p], i) /\ p = UndoPlace(versions, f, i)
      BY DEF Sure, UndoRows
    <3>2. p > Place(versions, f) /\ Place(versions, f) \in Nat /\ p \in Nat
      BY <3>1, StopsFacts, UndoPlaceIsPosition, PositionsFinite
    <3>3. Place(versions, j - 1) <= Place(versions, f) /\ Place(versions, j - 1) \in Nat
      <4>1. f \in 0..Len(Program) /\ j - 1 \in 0..f
        BY <1>4, <1>10, <3>1, ProgramFacts
      <4> QED  BY <1>4, <4>1, PlaceGrows, PlaceType
    <3>4. Free(p)
      BY <1>2, <1>5, <2>2, <3>2, <3>3
    <3> QED  BY <3>4 DEF Free, Empty
  <2> QED  BY <1>1, <2>1, <2>2
\* An execution that has ended has no question left for a runner to answer.
<1>12. Ends'
  <2>1. ~Ended
    <3> SUFFICES ASSUME Ended PROVE FALSE
      OBVIOUS
    <3>1. Decided(versions, j)
      BY <1>1, <1>2, <1>4, <1>5 DEF Sure, Ends, Off
    <3>2. j \in 1..j
      BY <1>4, ProgramFacts
    <3> QED  BY <1>2, <1>5, <3>1, <3>2 DEF Decided, c, j, Op
  <2> QED  BY <1>3, <2>1 DEF Ends, Ended
<1>13. SureRows' /\ ~diverged'
  BY <1>3 DEF Sure, SureRows, worldVars, historyVars
<1>14. \A o \in Runners \ {r} : pc'[o] \in Off
  BY <1>1, <1>8, OthersOff
<1> QED  BY <1>9, <1>11, <1>12, <1>13, <1>14, SureStep

\* The row at an operation's place is its own.
LEMMA RowIsMine ==
    ASSUME IInv, Sure, NEW n \in 1..Len(Program), Journaled(Program[n]), Live(versions, n), Clear(versions, n - 1),
           ~Free(Place(versions, n))
    PROVE  IsOf(journal[Place(versions, n)], n) /\ ~Doomed(versions, n)
<1> DEFINE p == Place(versions, n)
<1>1. p \in Positions /\ n \in 0..Len(Program)
  BY PlaceIsPosition, ProgramFacts
<1>2. journal[p].kind # "compensate"
  <2> SUFFICES ASSUME journal[p].kind = "compensate" PROVE FALSE
    OBVIOUS
  <2>1. PICK f \in 1..Len(Program) :
            /\ Stops(versions, f)
            /\ \E i \in Undoes(versions, f) : IsUndo(journal[p], i) /\ p = UndoPlace(versions, f, i)
    BY <1>1 DEF Sure, UndoRows
  <2>2. Place(versions, f) < p /\ f \in 0..Len(Program)
    BY <2>1, StopsFacts, UndoPlaceIsPosition
  <2>3. n <= f
    BY <2>1, StopsFirst
  <2>4. n \in 0..f
    BY <2>3, ProgramFacts
  <2>5. p <= Place(versions, f) /\ p \in Nat /\ Place(versions, f) \in Nat
    BY <1>1, <2>2, <2>4, PlaceGrows, PlaceType
  <2> QED  BY <2>2, <2>5
<1>3. journal[p].kind \in Recorders
  BY <1>1, <1>2 DEF IInv, RowKinds
<1>4. PICK i \in 1..Len(Program) : IsOf(journal[p], i) /\ Live(versions, i) /\ p = Place(versions, i)
  BY <1>1, <1>3 DEF IInv, Placed
<1>5. Journaled(Program[i])
  BY <1>3, <1>4 DEF IsOf, Recorders, Journaled
<1>6. i = n
  <2>1. ~(i < n)
    <3> SUFFICES ASSUME i < n PROVE FALSE
      OBVIOUS
    <3>1. i \in 0..(n - 1)
      BY ProgramFacts
    <3>2. Place(versions, i) < Place(versions, n) /\ Place(versions, n) \in Nat
      BY <1>1, <3>1, PlaceLater, PlaceType
    <3> QED  BY <1>4, <3>2
  <2>2. ~(n < i)
    <3> SUFFICES ASSUME n < i PROVE FALSE
      OBVIOUS
    <3>1. n \in 0..(i - 1)
      BY ProgramFacts
    <3>2. Place(versions, n) < Place(versions, i) /\ Place(versions, n) \in Nat
      BY <1>1, <1>4, <1>5, <3>1, PlaceLater, PlaceType
    <3> QED  BY <1>4, <3>2
  <2> QED  BY <2>1, <2>2, ProgramFacts
<1>7. ~Doomed(versions, n)
  BY <1>1, <1>4, <1>6 DEF Sure, SureRows, Doomed, IsOf
<1> QED  BY <1>4, <1>6, <1>7

\* next() finds its own row or none.
LEMMA SureNextOp ==
    ASSUME IInv, IInv', Sure, NEW r \in Runners, NextOp(r)
    PROVE  Sure'
<1> DEFINE p == position[r] + 1
           i == ip[r]
<1>1. /\ pc[r] = "exec" /\ Live(versions, i) /\ Journaled(Program[i])
      /\ position' = [position EXCEPT ![r] = p]
      /\ UNCHANGED <<dbVars, compensations, now, worldVars, effects, undoFailed, sent, crashes, overlapped>>
  BY DEF NextOp, Active, Chosen, Op, Live
<1>2. pc[r] \in Between \union Within /\ pc[r] \notin Off
  BY <1>1 DEF Between, Off
<1>3. /\ i \in 1..Len(Program) /\ position[r] = Place(versions, i - 1)
      /\ Clear(versions, i - 1)
  BY <1>1, <1>2, ExecPlace, Here
<1>4. p = Place(versions, i) /\ p \in Positions
  BY <1>1, <1>3, PlaceNext, PlaceIsPosition
<1>5. position'[r] = p /\ \A o \in Runners \ {r} : position'[o] = position[o]
  BY <1>1 DEF IInv, TypeOK
<1>6. ~Free(p) => Replays(r, journal[p]) /\ ~Doomed(versions, i)
  <2>1. ~Free(p) => IsOf(journal[p], i) /\ ~Doomed(versions, i)
    BY <1>1, <1>3, <1>4, RowIsMine
  <2> QED  BY <2>1 DEF IsOf, Replays, Op
<1>7. \A n : Clear(versions, n)' <=> Clear(versions, n)
  BY <1>1 DEF Clear, Doomed, dbVars, worldVars
<1>8. CASE ~Free(p) /\ Program[i].op = "sleep" /\ ~Due(r, journal[p].value)
  <2>1. pc' = [pc EXCEPT ![r] = "suspend"] /\ ip' = ip /\ diverged' = diverged
    BY <1>6, <1>8 DEF NextOp, SetPc, Op
  <2>2. pc'[r] = "suspend" /\ \A o \in Runners \ {r} : pc'[o] = pc[o]
    BY <2>1 DEF IInv, TypeOK
  <2>3. OnlyMoves(r)
    BY <1>1, <1>5, <2>1, <2>2 DEF OnlyMoves
  <2>4. Follows(r)'
    BY <1>1, <1>2, <1>7, <2>1, <2>2 DEF Sure, Follows, Between, Within, dbVars
  <2> QED  BY <1>1, <1>2, <2>1, <2>3, <2>4, SureWithin DEF dbVars, worldVars
<1>9. CASE ~Free(p) /\ ~(Program[i].op = "sleep" /\ ~Due(r, journal[p].value))
  <2>1. Advance(r) /\ diverged' = diverged
    BY <1>6, <1>9 DEF NextOp, Op
  <2>2. OnlyMoves(r)
    BY <1>1, <1>5, <2>1, AdvanceMoves DEF OnlyMoves
  <2>3. Follows(r)'
    <3>1. Program[i].op \notin {"version", "compensate"}
      BY <1>1 DEF Journaled
    <3> QED  BY <1>1, <1>2, <1>6, <1>9, <2>1, <2>2, <3>1, SureReturn DEF dbVars, worldVars
  <2> QED  BY <1>1, <1>2, <2>1, <2>2, <2>3, SureWithin DEF dbVars, worldVars
<1>10. CASE Free(p)
  <2>1. pc' = [pc EXCEPT ![r] = "work"] /\ ip' = ip /\ diverged' = diverged
    BY <1>10 DEF NextOp, SetPc
  <2>2. pc'[r] = "work" /\ \A o \in Runners \ {r} : pc'[o] = pc[o]
    BY <2>1 DEF IInv, TypeOK
  <2>3. OnlyMoves(r)
    BY <1>1, <1>5, <2>1, <2>2 DEF OnlyMoves
  <2>4. Free(position[r])'
    BY <1>1, <1>5, <1>10 DEF Free, dbVars
  <2>5. Follows(r)'
    BY <1>1, <1>2, <1>7, <2>1, <2>2, <2>4 DEF Sure, Follows, Between, Within, dbVars
  <2> QED  BY <1>1, <1>2, <2>1, <2>3, <2>5, SureWithin DEF dbVars, worldVars
<1> QED  BY <1>8, <1>9, <1>10

\* An operation writes its row.
LEMMA SureWrite ==
    ASSUME IInv, Sure, NEW r \in Runners, pc[r] = "work", OnlyMoves(r), Follows(r)', NEW x,
           journal' = [journal EXCEPT ![position[r]] = Entry(Op(r).op, Op(r).name, x)],
           Op(r).op \in {"step", "tx"} => Op(r).name \notin fails,
           diverged' = diverged, versions' = versions, fails' = fails, status' = status,
           deployed' = deployed, undoFailed' = undoFailed
    PROVE  Sure'
<1> DEFINE e == Entry(Op(r).op, Op(r).name, x)
<1>1. /\ position[r] \in Positions /\ Op(r).op \in Recorders /\ journal \in Journals
      /\ Free(position[r]) /\ pc[r] \notin Off
  BY WithinPlace DEF Op, IInv, TypeOK, Journals, Sure, Follows, Off
<1>2. e.kind = Op(r).op /\ e.name = Op(r).name /\ e.kind # "compensate"
  BY <1>1 DEF Entry, Recorders
<1>3. journal' = [journal EXCEPT ![position[r]] = e]
  OBVIOUS
<1> HIDE DEF e
<1> QED  BY <1>1, <1>2, <1>3, SureRow

\* What a runner within an operation has ahead of it.
LEMMA WorkIsSure ==
    ASSUME IInv, IInv', Sure, NEW r \in Runners, pc[r] = "work", Advance(r), OnlyMoves(r),
           compensations' = compensations, versions' = versions, fails' = fails, deployed' = deployed,
           Op(r).op \in {"step", "tx"} => Op(r).name \notin fails
    PROVE  Follows(r)'
<1>1. Program[ip[r]].op \in Recorders /\ pc[r] \in Between \union Within
  BY WithinPlace DEF Within
<1>2. Program[ip[r]].op \notin {"compensate", "version"} /\ ~Doomed(versions, ip[r])
  BY <1>1 DEF Recorders, Doomed, Op
<1> QED  BY <1>1, <1>2, SureReturn

LEMMA SureStepOp ==
    ASSUME IInv, IInv', Sure, NEW r \in Runners, Step(r)
    PROVE  Sure'
<1>1. /\ pc[r] = "work" /\ Op(r).name \notin fails
      /\ UNCHANGED <<status, wake_at, signals, versions, position, compensations, now, worldVars, historyVars>>
  BY DEF Step, CanSucceed
<1>2. Free(position[r])
  BY <1>1 DEF Sure, Follows
<1> DEFINE x == IF Op(r).op = "sleep" THEN Wake(r) ELSE 0
<1>3. journal' = [journal EXCEPT ![position[r]] = Entry(Op(r).op, Op(r).name, x)]
  BY <1>2 DEF Step, Inserts
<1>4. OnlyMoves(r) /\ Follows(r)'
  <2>1. CASE Op(r).op = "sleep" /\ ~Due(r, Wake(r))
    <3>1. pc' = [pc EXCEPT ![r] = "suspend"] /\ ip' = ip
      BY <1>2, <2>1 DEF Step, Inserts, SetPc
    <3>2. pc'[r] = "suspend" /\ \A o \in Runners \ {r} : pc'[o] = pc[o]
      BY <3>1 DEF IInv, TypeOK
    <3>3. \A n : Clear(versions, n)' <=> Clear(versions, n)
      BY <1>1 DEF Clear, Doomed, worldVars
    <3> QED  BY <1>1, <3>1, <3>2, <3>3 DEF Sure, Follows, OnlyMoves, Between, Within
  <2>2. CASE ~(Op(r).op = "sleep" /\ ~Due(r, Wake(r)))
    <3>1. Advance(r)
      BY <1>2, <2>2 DEF Step, Inserts
    <3>2. OnlyMoves(r)
      BY <1>1, <3>1, AdvanceMoves DEF OnlyMoves
    <3> QED  BY <1>1, <3>1, <3>2, WorkIsSure DEF worldVars
  <2> QED  BY <2>1, <2>2
<1> HIDE DEF x
<1> QED  BY <1>1, <1>3, <1>4, SureWrite DEF worldVars, historyVars

LEMMA SureTransaction ==
    ASSUME IInv, IInv', Sure, NEW r \in Runners, Transaction(r)
    PROVE  Sure'
<1>1. /\ pc[r] = "work" /\ Op(r).name \notin fails /\ Op(r).op = "tx"
      /\ UNCHANGED <<status, wake_at, signals, versions, position, compensations, now, worldVars,
                     undoFailed, sent, crashes, overlapped, diverged>>
  BY DEF Transaction, CanSucceed
<1>2. Free(position[r])
  BY <1>1 DEF Sure, Follows
<1>3. journal' = [journal EXCEPT ![position[r]] = Entry(Op(r).op, Op(r).name, 0)] /\ Advance(r)
  BY <1>1, <1>2 DEF Transaction, Inserts
<1>4. OnlyMoves(r)
  BY <1>1, <1>3, AdvanceMoves DEF OnlyMoves
<1>5. Follows(r)'
  BY <1>1, <1>3, <1>4, WorkIsSure DEF worldVars
<1> QED  BY <1>1, <1>3, <1>4, <1>5, SureWrite DEF worldVars

LEMMA SureTakeSignal ==
    ASSUME IInv, IInv', Sure, NEW r \in Runners, TakeSignal(r)
    PROVE  Sure'
<1>1. /\ pc[r] = "work" /\ Op(r).op = "signal"
      /\ UNCHANGED <<status, wake_at, versions, worldVars, historyVars>>
  BY DEF TakeSignal
<1>2. Free(position[r])
  BY <1>1 DEF Sure, Follows
<1>3. CASE /\ journal' = [journal EXCEPT ![position[r]] = Entry("signal", Op(r).name, 0)]
           /\ Advance(r) /\ UNCHANGED <<position, compensations, now>>
  <2>1. OnlyMoves(r)
    BY <1>3, AdvanceMoves DEF OnlyMoves
  <2>2. Follows(r)'
    BY <1>1, <1>3, <2>1, WorkIsSure DEF worldVars
  <2> QED  BY <1>1, <1>3, <2>1, <2>2, SureWrite DEF worldVars, historyVars
<1>4. CASE Release(r) /\ journal' = journal
  <2>1. OnlyMoves(r) /\ pc'[r] \in Off
    BY <1>4 DEF IInv, TypeOK, Release, SetPc, OnlyMoves, Off
  <2>2. Ends'
    BY <1>1, <1>4, SameEnds DEF worldVars, historyVars
  <2> QED  BY <1>1, <1>4, <2>1, <2>2, SureOff DEF worldVars, historyVars
<1> QED  BY <1>2, <1>3, <1>4 DEF TakeSignal, Inserts

\* A step fails: that is where every run stops.
LEMMA SureWorkFails ==
    ASSUME IInv, IInv', Sure, Deterministic', NEW r \in Runners, WorkFails(r)
    PROVE  Sure'
<1> DEFINE n == ip[r]
<1>1. /\ pc[r] = "work" /\ Program[n].op \in {"step", "tx"} /\ Program[n].name \in fails
      /\ position' = position /\ pc' = [pc EXCEPT ![r] = "undo"]
      /\ UNCHANGED <<dbVars, ip, compensations, now, worldVars, historyVars>>
  BY DEF WorkFails, CanFail, Op, Deterministic, AfterFailure, SetPc, IInv, TypeOK
<1>2. pc'[r] = "undo" /\ OnlyMoves(r) /\ pc[r] \in Between \union Within
  BY <1>1 DEF IInv, TypeOK, OnlyMoves, Within
<1>3. /\ n \in 1..Len(Program) /\ n - 1 \in 0..Len(Program) /\ n \in 0..Len(Program) /\ pc[r] \notin Off
      /\ Clear(versions, n - 1) /\ Stacked(versions, compensations[r], n - 1)
      /\ Len(compensations[r]) = Rank(versions, n - 1)
      /\ deployed => Decided(versions, n - 1)
      /\ Live(versions, n) /\ position[r] = Place(versions, n)
  BY <1>1, <1>2, Here, WithinPlace
<1> HIDE DEF n
<1>4. Stops(versions, n)
  BY <1>1, <1>3 DEF Stops, Doomed
<1>5. Undoes(versions, n) = Undoes(versions, n - 1) /\ Rank(versions, n) = Rank(versions, n - 1)
      /\ Rank(versions, n) \in Nat
  BY <1>1, <1>3, RankNext, RankType
<1>6. Stacked(versions, compensations[r], n)
  BY <1>3, <1>5 DEF Stacked
<1>7. Settled(versions, journal, undoFailed, n, Len(compensations[r]))
  <2>1. \A i \in Undoes(versions, n) : Rank(versions, i) \in 1..Rank(versions, n)
    BY <1>3, RankOrder
  <2> QED  BY <1>3, <1>5, <2>1 DEF Settled
<1>8. deployed => Decided(versions, n)
  BY <1>1, <1>3, DecidedNext
<1>9. Follows(r)'
  <2>1. \A f : Stops(versions, f)' <=> Stops(versions, f)
    BY <1>1 DEF Stops, Doomed, Clear, dbVars, worldVars
  <2>2. /\ versions' = versions /\ journal' = journal /\ undoFailed' = undoFailed /\ deployed' = deployed
        /\ compensations' = compensations /\ ip'[r] = n
    BY <1>1 DEF dbVars, worldVars, historyVars, n
  <2>3. Stops(versions, ip[r])'
    BY <1>4, <2>1, <2>2
  <2>4. position'[r] = Place(versions, n) + Rank(versions, n) - Len(compensations[r])
    <3>1. Place(versions, n) \in Nat
      BY <1>3, PlaceType
    <3> QED  BY <1>1, <1>3, <1>5, <3>1
  <2> QED  BY <1>2, <1>3, <1>5, <1>6, <1>7, <1>8, <2>2, <2>3, <2>4 DEF Follows, Between, Within
<1> QED  BY <1>1, <1>2, <1>3, <1>9, SureWithin DEF dbVars, worldVars, historyVars

\* What is dealt with stays so when a row is added.
LEMMA SettledKept ==
    ASSUME NEW v, NEW j \in Journals, NEW p \in Positions, j[p] = Empty, NEW e, NEW u,
           NEW f \in 1..Len(Program), Stops(v, f), NEW m, Settled(v, j, u, f, m)
    PROVE  Settled(v, [j EXCEPT ![p] = e], u, f, m)
<1> SUFFICES ASSUME NEW i \in Undoes(v, f), IsUndo(j[UndoPlace(v, f, i)], i)
             PROVE  IsUndo([j EXCEPT ![p] = e][UndoPlace(v, f, i)], i)
  BY DEF Settled
<1>1. UndoPlace(v, f, i) \in Positions
  BY StopsFacts, UndoPlaceIsPosition
<1>2. UndoPlace(v, f, i) # p
  BY DEF IsUndo, Empty
<1> QED  BY <1>1, <1>2 DEF Journals

\* The row at a compensation's place is its own.
LEMMA UndoIsMine ==
    ASSUME IInv, Sure, NEW f \in 1..Len(Program), Stops(versions, f), NEW i \in Undoes(versions, f),
           ~Free(UndoPlace(versions, f, i))
    PROVE  IsUndo(journal[UndoPlace(versions, f, i)], i)
<1> DEFINE p == UndoPlace(versions, f, i)
<1>1. /\ p \in Positions /\ Place(versions, f) < p /\ Place(versions, f) \in Nat
      /\ Journaled(Program[f]) /\ Live(versions, f) /\ f \in 0..Len(Program)
  BY StopsFacts, UndoPlaceIsPosition
<1>2. journal[p].kind \notin Recorders
  <2> SUFFICES ASSUME journal[p].kind \in Recorders PROVE FALSE
    OBVIOUS
  <2>1. PICK k \in 1..Len(Program) : p = Place(versions, k) /\ Passed(versions, journal, k - 1, clock)
    BY <1>1 DEF IInv, Placed
  <2>2. f < k
    <3> SUFFICES ASSUME k <= f PROVE FALSE
      BY ProgramFacts
    <3>1. k \in 0..f /\ k \in 0..Len(Program)
      BY ProgramFacts
    <3>2. Place(versions, k) <= Place(versions, f) /\ Place(versions, k) \in Nat
      BY <1>1, <3>1, PlaceGrows, PlaceType
    <3> QED  BY <1>1, <2>1, <3>2
  <2>3. f \in Before(versions, k - 1)
    BY <1>1, <2>2, ProgramFacts DEF Before
  <2>4. IsOf(journal[Place(versions, f)], f)
    BY <2>1, <2>3 DEF Passed
  <2>5. Place(versions, f) \in Positions
    BY <1>1, PlaceIsPosition
  <2> QED  BY <2>4, <2>5 DEF Sure, SureRows, Stops, Doomed, IsOf
<1>3. journal[p].kind = "compensate"
  BY <1>1, <1>2 DEF IInv, RowKinds
<1>4. PICK g \in 1..Len(Program) :
          /\ Stops(versions, g)
          /\ \E k \in Undoes(versions, g) : IsUndo(journal[p], k) /\ p = UndoPlace(versions, g, k)
  BY <1>1, <1>3 DEF Sure, UndoRows
<1>5. g = f
  BY <1>4, StopsOnce
<1>6. PICK k \in Undoes(versions, f) : IsUndo(journal[p], k) /\ p = UndoPlace(versions, f, k)
  BY <1>4, <1>5
<1>7. Rank(versions, k) = Rank(versions, i)
  <2>1. /\ Place(versions, f) \in Nat /\ Rank(versions, f) \in Nat
        /\ Rank(versions, i) \in 1..Rank(versions, f) /\ Rank(versions, k) \in 1..Rank(versions, f)
    BY <1>1, UndoPlaceIsPosition
  <2> QED  BY <1>6, <2>1 DEF UndoPlace
<1>8. k = i
  BY <1>1, <1>7, RankOne
<1> QED  BY <1>6, <1>8

\* A runner that compensates, with compensations left.
LEMMA UndoHere ==
    ASSUME IInv, Sure, NEW r \in Runners, pc[r] \in {"undo", "undoing"}, compensations[r] # <<>>
    PROVE  LET c == compensations[r]
               m == Len(c)
               f == ip[r]
           IN  /\ f \in 1..Len(Program) /\ f \in 0..Len(Program) /\ Stops(versions, f)
               /\ deployed => Decided(versions, f)
               /\ Stacked(versions, c, f) /\ m \in Nat \ {0} /\ m <= Rank(versions, f)
               /\ Settled(versions, journal, undoFailed, f, m)
               /\ Place(versions, f) \in Nat /\ Rank(versions, f) \in Nat
               /\ pc[r] \notin Off
               /\ Len(Popped(r)) = m - 1 /\ Stacked(versions, Popped(r), f)
               /\ \E i \in Undoes(versions, f) : Rank(versions, i) = m /\ Newest(r) = Program[i].name
<1> DEFINE c == compensations[r]
           m == Len(c)
           f == ip[r]
<1>1. /\ f \in 1..Len(Program) /\ Stops(versions, f) /\ (deployed => Decided(versions, f))
      /\ Stacked(versions, c, f) /\ m <= Rank(versions, f)
      /\ Settled(versions, journal, undoFailed, f, m)
  BY DEF Sure, Follows
<1>2. f \in 0..Len(Program)
  BY <1>1, ProgramFacts
<1>3. c \in Seq(Names) /\ m \in Nat \ {0}
  BY DEF IInv, TypeOK
<1>4. Place(versions, f) \in Nat /\ Rank(versions, f) \in Nat
  BY <1>2, PlaceType, RankType
<1>5. /\ Len(Popped(r)) = m - 1 /\ \A k \in 1..(m - 1) : Popped(r)[k] = c[k]
  BY <1>3 DEF Popped
<1>6. Stacked(versions, Popped(r), f)
  <2>1. 1..(m - 1) \subseteq 1..m
    BY <1>3
  <2> HIDE DEF c, m, f
  <2> QED  BY <1>1, <1>5, <2>1 DEF Stacked, m
<1>7. \E i \in Undoes(versions, f) : Rank(versions, i) = m /\ Newest(r) = Program[i].name
  <2>1. m \in 1..m
    BY <1>3
  <2> QED  BY <1>1, <2>1 DEF Stacked, Newest
<1> QED  BY <1>1, <1>2, <1>3, <1>4, <1>5, <1>6, <1>7 DEF Off

\* One more compensation is dealt with.
LEMMA SettledNext ==
    ASSUME NEW v, NEW f \in 1..Len(Program), NEW j, NEW u, NEW m \in Nat \ {0},
           Settled(v, j, u, f, m), NEW i \in Undoes(v, f), Rank(v, i) = m,
           IsUndo(j[UndoPlace(v, f, i)], i) \/ Program[i].name \in u
    PROVE  Settled(v, j, u, f, m - 1)
<1>1. f \in 0..Len(Program)
  BY ProgramFacts
<1> SUFFICES ASSUME NEW k \in Undoes(v, f), Rank(v, k) > m - 1
             PROVE  IsUndo(j[UndoPlace(v, f, k)], k) \/ Program[k].name \in u
  BY DEF Settled
<1>2. CASE Rank(v, k) = m
  BY <1>1, <1>2, RankOne
<1>3. CASE Rank(v, k) # m
  <2>1. Rank(v, k) \in Nat
    BY <1>1, RankOrder, RankType
  <2> QED  BY <1>3, <2>1 DEF Settled
<1> QED  BY <1>2, <1>3

\* A run that compensates meets its own rows, or none.
LEMMA SureUndoNext ==
    ASSUME IInv, IInv', Sure, NEW r \in Runners, UndoNext(r)
    PROVE  Sure'
<1> DEFINE c == compensations[r]
           m == Len(c)
           f == ip[r]
           p == position[r] + 1
<1>1. /\ pc[r] = "undo" /\ c # <<>> /\ position' = [position EXCEPT ![r] = p]
      /\ UNCHANGED <<dbVars, ip, now, worldVars, historyVars>>
  BY DEF UndoNext
<1>2. /\ f \in 1..Len(Program) /\ f \in 0..Len(Program) /\ Stops(versions, f)
      /\ deployed => Decided(versions, f)
      /\ Stacked(versions, c, f) /\ m \in Nat \ {0} /\ m <= Rank(versions, f)
      /\ Settled(versions, journal, undoFailed, f, m)
      /\ Place(versions, f) \in Nat /\ Rank(versions, f) \in Nat /\ pc[r] \notin Off
      /\ Len(Popped(r)) = m - 1 /\ Stacked(versions, Popped(r), f)
  BY <1>1, UndoHere
<1>3. p = Place(versions, f) + Rank(versions, f) - m + 1
  BY <1>1, <1>2 DEF Sure, Follows
<1>4. position'[r] = p /\ \A o \in Runners \ {r} : position'[o] = position[o]
  BY <1>1 DEF IInv, TypeOK
<1>5. /\ \A g : Stops(versions, g)' <=> Stops(versions, g)
      /\ versions' = versions /\ journal' = journal /\ undoFailed' = undoFailed /\ deployed' = deployed
      /\ fails' = fails /\ status' = status /\ diverged' = diverged /\ ip' = ip /\ now' = now
  BY <1>1 DEF Stops, Doomed, Clear, dbVars, worldVars, historyVars
<1>6. CASE Free(p)
  <2>1. pc' = [pc EXCEPT ![r] = "undoing"] /\ compensations' = compensations
    BY <1>6 DEF UndoNext, SetPc
  <2>2. pc'[r] = "undoing" /\ \A o \in Runners \ {r} : pc'[o] = pc[o]
    BY <2>1 DEF IInv, TypeOK
  <2>3. OnlyMoves(r)
    BY <1>4, <1>5, <2>1, <2>2 DEF OnlyMoves
  <2>4. Free(position[r])'
    BY <1>4, <1>5, <1>6 DEF Free
  <2> HIDE DEF p
  <2>5. Follows(r)'
    BY <1>2, <1>3, <1>4, <1>5, <2>1, <2>2, <2>4 DEF Follows, Between, Within
  <2> QED  BY <1>2, <1>5, <2>3, <2>5, SureWithin
<1>7. CASE ~Free(p)
  <2>1. pc' = pc /\ compensations' = [compensations EXCEPT ![r] = Popped(r)]
    BY <1>7 DEF UndoNext
  <2>2. compensations'[r] = Popped(r) /\ \A o \in Runners \ {r} : compensations'[o] = compensations[o]
    BY <2>1 DEF IInv, TypeOK
  <2>3. OnlyMoves(r)
    BY <1>4, <1>5, <2>1, <2>2 DEF OnlyMoves
  <2>4. PICK i \in Undoes(versions, f) : Rank(versions, i) = m
    BY <1>1, UndoHere
  <2>5. p = UndoPlace(versions, f, i)
    BY <1>3, <2>4 DEF UndoPlace
  <2>6. IsUndo(journal[UndoPlace(versions, f, i)], i)
    BY <1>2, <1>7, <2>5, UndoIsMine
  <2> HIDE DEF c, m, f, p
  <2>7. Settled(versions, journal, undoFailed, f, m - 1)
    BY <1>2, <2>4, <2>6, SettledNext
  <2>8. p = Place(versions, f) + Rank(versions, f) - (m - 1) /\ m - 1 <= Rank(versions, f)
    BY <1>2, <1>3
  <2>9. pc'[r] = "undo" /\ ip'[r] = f /\ Len(compensations'[r]) = m - 1
    BY <1>1, <1>2, <1>5, <2>1, <2>2 DEF f
  <2>10. Follows(r)'
    BY <1>2, <1>4, <1>5, <2>2, <2>7, <2>8, <2>9 DEF Follows, Between, Within
  <2> QED  BY <1>2, <1>5, <2>3, <2>10, SureWithin
<1> QED  BY <1>6, <1>7

\* A compensation's row is written at its place.
LEMMA SureUndo ==
    ASSUME IInv, IInv', Sure, NEW r \in Runners, Undo(r)
    PROVE  Sure'
<1> DEFINE c == compensations[r]
           m == Len(c)
           f == ip[r]
           p == position[r]
           e == Entry("compensate", Newest(r), 0)
<1>1. /\ pc[r] = "undoing" /\ pc' = [pc EXCEPT ![r] = "undo"] /\ c # <<>>
      /\ compensations' = [compensations EXCEPT ![r] = Popped(r)]
      /\ journal' = IF Free(p) THEN [journal EXCEPT ![p] = e] ELSE journal
      /\ UNCHANGED <<status, wake_at, signals, versions, ip, position, now, worldVars, historyVars>>
  BY DEF Undo, Inserts, SetPc, IInv, At
<1>2. /\ f \in 1..Len(Program) /\ f \in 0..Len(Program) /\ Stops(versions, f)
      /\ deployed => Decided(versions, f)
      /\ m \in Nat \ {0} /\ m <= Rank(versions, f)
      /\ Settled(versions, journal, undoFailed, f, m)
      /\ Place(versions, f) \in Nat /\ Rank(versions, f) \in Nat /\ pc[r] \notin Off
      /\ Len(Popped(r)) = m - 1 /\ Stacked(versions, Popped(r), f)
  BY <1>1, UndoHere
<1>3. p = Place(versions, f) + Rank(versions, f) - m + 1 /\ Free(p)
  BY <1>1, <1>2 DEF Sure, Follows
<1>4. PICK i \in Undoes(versions, f) : Rank(versions, i) = m /\ Newest(r) = Program[i].name
  BY <1>1, UndoHere
<1>5. p = UndoPlace(versions, f, i) /\ p \in Positions
  <2>1. p = UndoPlace(versions, f, i)
    BY <1>3, <1>4 DEF UndoPlace
  <2> QED  BY <1>2, <2>1, StopsFacts, UndoPlaceIsPosition
<1>6. journal' = [journal EXCEPT ![p] = e] /\ journal \in Journals /\ journal[p] = Empty
  BY <1>1, <1>3 DEF IInv, TypeOK, Journals, Free
<1>7. e.kind = "compensate" /\ IsUndo(e, i)
  BY <1>4 DEF Entry, IsUndo
<1>8. journal'[p] = e
  BY <1>5, <1>6 DEF Journals
<1>9. /\ pc'[r] = "undo" /\ compensations'[r] = Popped(r) /\ ip'[r] = f /\ position'[r] = p
      /\ \A o \in Runners \ {r} : pc'[o] = pc[o] /\ compensations'[o] = compensations[o]
  BY <1>1 DEF IInv, TypeOK
<1>10. OnlyMoves(r)
  BY <1>1, <1>9 DEF OnlyMoves
<1>11. /\ \A g : Stops(versions, g)' <=> Stops(versions, g)
       /\ versions' = versions /\ undoFailed' = undoFailed /\ deployed' = deployed
       /\ fails' = fails /\ status' = status /\ diverged' = diverged
  BY <1>1 DEF Stops, Doomed, Clear, worldVars, historyVars
<1> HIDE DEF c, m, f, p, e
<1>12. Settled(versions, journal', undoFailed, f, m - 1)
  <2>1. Settled(versions, journal', undoFailed, f, m)
    BY <1>2, <1>5, <1>6, SettledKept
  <2>2. IsUndo(journal'[UndoPlace(versions, f, i)], i)
    BY <1>5, <1>7, <1>8
  <2> QED  BY <1>2, <1>4, <2>1, <2>2, SettledNext
<1>13. Follows(r)'
  <2>1. p = Place(versions, f) + Rank(versions, f) - (m - 1) /\ m - 1 <= Rank(versions, f)
    BY <1>2, <1>3
  <2> QED  BY <1>2, <1>9, <1>11, <1>12, <2>1 DEF Follows, Between, Within
<1>14. Free(p)
  BY <1>3
<1> QED  BY <1>2, <1>4, <1>5, <1>6, <1>7, <1>10, <1>11, <1>13, <1>14, SureRow

\* A compensation that fails is passed over, and known to have failed.
LEMMA SureUndoFails ==
    ASSUME IInv, IInv', Sure, NEW r \in Runners, UndoFails(r)
    PROVE  Sure'
<1> DEFINE c == compensations[r]
           m == Len(c)
           f == ip[r]
           p == position[r]
<1>1. /\ pc[r] = "undoing" /\ pc' = [pc EXCEPT ![r] = "undo"] /\ c # <<>>
      /\ compensations' = [compensations EXCEPT ![r] = Popped(r)]
      /\ undoFailed' = undoFailed \union {Newest(r)}
      /\ UNCHANGED <<dbVars, ip, position, now, worldVars, effects, sent, crashes, overlapped, diverged>>
  BY DEF UndoFails, SetPc, IInv, At
<1>2. /\ f \in 1..Len(Program) /\ f \in 0..Len(Program) /\ Stops(versions, f)
      /\ deployed => Decided(versions, f)
      /\ m \in Nat \ {0} /\ m <= Rank(versions, f)
      /\ Settled(versions, journal, undoFailed, f, m)
      /\ Place(versions, f) \in Nat /\ Rank(versions, f) \in Nat /\ pc[r] \notin Off
      /\ Len(Popped(r)) = m - 1 /\ Stacked(versions, Popped(r), f)
  BY <1>1, UndoHere
<1>3. p = Place(versions, f) + Rank(versions, f) - m + 1
  BY <1>1, <1>2 DEF Sure, Follows
<1>4. PICK i \in Undoes(versions, f) : Rank(versions, i) = m /\ Newest(r) = Program[i].name
  BY <1>1, UndoHere
<1>5. /\ pc'[r] = "undo" /\ compensations'[r] = Popped(r) /\ ip'[r] = f /\ position'[r] = p
      /\ \A o \in Runners \ {r} : pc'[o] = pc[o] /\ compensations'[o] = compensations[o]
  BY <1>1 DEF IInv, TypeOK
<1>6. OnlyMoves(r)
  BY <1>1, <1>5 DEF OnlyMoves
<1>7. /\ \A g : Stops(versions, g)' <=> Stops(versions, g)
      /\ \A n : Clear(versions, n)' <=> Clear(versions, n)
      /\ versions' = versions /\ journal' = journal /\ deployed' = deployed
      /\ fails' = fails /\ status' = status /\ diverged' = diverged
  BY <1>1 DEF Stops, Doomed, Clear, dbVars, worldVars
<1> HIDE DEF c, m, f, p
<1>8. \A g, k : Settled(versions, journal, undoFailed, g, k) => Settled(versions, journal, undoFailed', g, k)
  BY <1>1 DEF Settled
<1>9. Settled(versions, journal, undoFailed', f, m - 1)
  BY <1>1, <1>2, <1>4, <1>8, SettledNext
<1>10. Follows(r)'
  <2>1. p = Place(versions, f) + Rank(versions, f) - (m - 1) /\ m - 1 <= Rank(versions, f)
    BY <1>2, <1>3
  <2> QED  BY <1>2, <1>5, <1>7, <1>9, <2>1 DEF Follows, Between, Within
<1>11. SureRows' /\ UndoRows'
  BY <1>7, SameRows
<1>12. Ends'
  <2>1. (\E o \in Runners : pc'[o] # "idle") => \E o \in Runners : pc[o] # "idle"
    BY <1>2 DEF Off
  <2> QED  BY <1>7, <1>8, <2>1 DEF Sure, Ends, Ended
<1>13. \A o \in Runners \ {r} : pc'[o] \in Off
  BY <1>2, <1>6, OthersOff
<1> QED  BY <1>7, <1>10, <1>11, <1>12, <1>13, SureStep DEF Sure

\* A run is over: it was broken off, or it settles how the execution ends.
LEMMA SureLetsGo ==
    ASSUME IInv, IInv', Sure, NEW r \in Runners, Suspend(r) \/ Crash(r) \/ Complete(r) \/ Fail(r)
    PROVE  Sure'
<1>1. /\ Release(r) /\ pc[r] # "idle"
      /\ UNCHANGED <<journal, versions, worldVars, effects, undoFailed, sent, overlapped, diverged>>
  BY DEF Suspend, Crash, Complete, Fail, dbVars, historyVars
<1>2. OnlyMoves(r) /\ pc'[r] \in Off
  BY <1>1 DEF IInv, TypeOK, Release, SetPc, OnlyMoves, Off
<1>3. /\ \A g : Stops(versions, g)' <=> Stops(versions, g)
      /\ \A n : Clear(versions, n)' <=> Clear(versions, n)
  BY <1>1 DEF Stops, Doomed, Clear, worldVars
<1>4. Ends'
  <2>1. CASE Suspend(r) \/ Crash(r)
    BY <1>1, <2>1, SameEnds DEF Suspend, Crash, dbVars, worldVars
  <2>2. CASE Complete(r)
    <3>1. status' = "completed" /\ pc[r] = "complete"
      BY <2>2 DEF Complete
    <3>2. Clear(versions, Len(Program)) /\ (deployed => Decided(versions, Len(Program)))
      BY <3>1 DEF Sure, Follows
    <3>3. \A n \in 1..Len(Program) : 1..n \subseteq 1..Len(Program)
      BY ProgramFacts
    <3>4. deployed => \A n \in 1..Len(Program) : Decided(versions, n)
      BY <3>2, <3>3 DEF Decided
    <3> QED  BY <1>1, <1>3, <3>1, <3>2, <3>4 DEF Ends, Ended, worldVars
  <2>3. CASE Fail(r)
    <3> DEFINE f == ip[r]
    <3>1. status' = "failed" /\ pc[r] = "undo" /\ compensations[r] = <<>>
      BY <2>3 DEF Fail
    <3>2. /\ f \in 1..Len(Program) /\ Stops(versions, f) /\ (deployed => Decided(versions, f))
          /\ Settled(versions, journal, undoFailed, f, 0)
      <4>1. Len(<<>>) = 0
        OBVIOUS
      <4> QED  BY <3>1, <4>1 DEF Sure, Follows
    <3>3. ASSUME NEW n \in 1..Len(Program), Clear(versions, n - 1), deployed
          PROVE  Decided(versions, n)
      <4>1. n <= f
        BY <3>2, <3>3, StopsFirst
      <4>2. 1..n \subseteq 1..f
        BY <3>2, <4>1, ProgramFacts
      <4> QED  BY <3>2, <3>3, <4>2 DEF Decided
    <3>4. \E g \in 1..Len(Program) : Stops(versions, g) /\ Settled(versions, journal, undoFailed, g, 0)
      BY <3>2
    <3> HIDE DEF f
    <3> QED  BY <1>1, <1>3, <3>1, <3>3, <3>4 DEF Ends, Ended, worldVars
  <2> QED  BY <2>1, <2>2, <2>3
<1> QED  BY <1>1, <1>2, <1>4, SureOff DEF worldVars

LEMMA SureNext == IInv /\ IInv' /\ DInv /\ [Next]_vars => DInv'
<1> SUFFICES ASSUME IInv, IInv', DInv, [Next]_vars, Deterministic' PROVE Sure'
  BY DEF DInv
<1>1. Deterministic
  <2>1. overlapped => overlapped'
    <3>1. ASSUME NEW r \in Runners, RunnerStep(r) PROVE overlapped => overlapped'
      BY <3>1 DEF RunnerStep, Select, RunOne, Skip, Compensate, Version, RecordVersion, NextOp, Step,
         Suspend, Transaction, TakeSignal, WorkFails, Complete, UndoNext, Undo, UndoFails, Fail, historyVars
    <3>2. ASSUME NEW r \in Runners, Crash(r) PROVE overlapped => overlapped'
      BY <3>2 DEF Crash
    <3>3. Start \/ SendSignal \/ Tick \/ Deploy \/ Done \/ UNCHANGED vars => overlapped' = overlapped
      BY DEF Start, SendSignal, Tick, Deploy, Done, vars, historyVars
    <3> QED  BY <3>1, <3>2, <3>3 DEF Next
  <2>2. overlapped \in BOOLEAN /\ overlapped' \in BOOLEAN
    BY DEF IInv, TypeOK
  <2> QED  BY <2>1, <2>2 DEF Deterministic
<1>2. Sure
  BY <1>1 DEF DInv
<1>3. CASE Start \/ SendSignal \/ Tick \/ Done \/ UNCHANGED vars
  <2>1. status' \in {status, "running"}
    BY <1>3 DEF Start, SendSignal, Tick, Done, vars, dbVars
  <2>2. UNCHANGED <<pc, ip, position, compensations, journal, versions, deployed, fails, diverged, undoFailed>>
    BY <1>3 DEF Start, SendSignal, Tick, Done, vars, dbVars, runVars, worldVars, historyVars
  <2> QED  BY <1>2, <2>1, <2>2, SureFrame
<1>4. CASE Deploy
  BY <1>2, <1>4, SureDeploy
<1>5. ASSUME NEW r \in Runners, RunnerStep(r) PROVE Sure'
  BY <1>2, <1>5, SureSelect, SureRunOne, SureSkip, SureCompensate, SureVersion, SureRecordVersion, SureNextOp,
     SureStepOp, SureTransaction, SureTakeSignal, SureWorkFails, SureUndoNext, SureUndo, SureUndoFails,
     SureLetsGo DEF RunnerStep
<1>6. ASSUME NEW r \in Runners, Crash(r) PROVE Sure'
  BY <1>2, <1>6, SureLetsGo
<1> QED  BY <1>3, <1>4, <1>5, <1>6 DEF Next

LEMMA Determined == Spec => [](IInv /\ DInv)
<1>1. Init => IInv /\ DInv
  BY Initially, SureInit DEF DInv
<1>2. IInv /\ DInv /\ [Next]_vars => (IInv /\ DInv)'
  BY NextKeeps, SureNext
<1> QED  BY <1>1, <1>2, PTL DEF Spec

\* WorkflowContext::next: one engine that runs steps which fail always or
\* never finds at each place its own row or none, whenever it dies and
\* whenever a change guarded by version() is deployed.
THEOREM ReplayNeverDiverges == Spec => [](Flaky = {} => NeverDiverges)
<1>1. DInv => (Flaky = {} => NeverDiverges)
  BY DEF DInv, Deterministic, Sure, NeverDiverges
<1> QED  BY <1>1, Determined, PTL

\* run_one: under the same conditions a compensation is journaled once, since
\* every run puts it at the same place.
THEOREM CompensationsOnce == Spec => [](Flaky = {} => CompensatedOnce)
<1>1. IInv /\ DInv => (Flaky = {} => CompensatedOnce)
  <2> SUFFICES ASSUME IInv, Sure, NEW i \in Undos
               PROVE  Cardinality(RowsOf("compensate", Program[i].name)) <= 1
    BY DEF DInv, Deterministic, CompensatedOnce
  <2> DEFINE Rows == RowsOf("compensate", Program[i].name)
  <2>1. i \in 1..Len(Program)
    BY ProgramFacts DEF Undos
  <2>2. ASSUME NEW p \in Rows, NEW q \in Rows PROVE p = q
    <3>1. ASSUME NEW x \in Rows
          PROVE  \E f \in 1..Len(Program) : Stops(versions, f) /\ x = UndoPlace(versions, f, i)
      <4>1. PICK f \in 1..Len(Program) :
                /\ Stops(versions, f)
                /\ \E k \in Undoes(versions, f) : IsUndo(journal[x], k) /\ x = UndoPlace(versions, f, k)
        BY DEF Sure, UndoRows, RowsOf
      <4>2. PICK k \in Undoes(versions, f) : IsUndo(journal[x], k) /\ x = UndoPlace(versions, f, k)
        BY <4>1
      <4>3. k \in 1..Len(Program)
        BY <4>1, StopsFacts, RankOrder
      <4>4. k = i
        BY <2>1, <4>2, <4>3, ProgramFacts DEF IsUndo, RowsOf
      <4> QED  BY <4>1, <4>2, <4>4
    <3> QED  BY <3>1, StopsOnce
  <2>3. CASE Rows = {}
    BY <2>3, FS_EmptySet
  <2>4. CASE Rows # {}
    <3>1. PICK p : Rows = {p}
      BY <2>2, <2>4
    <3>2. Cardinality({p}) = 1
      BY FS_Singleton
    <3>3. Cardinality(Rows) = 1
      BY <3>1, <3>2
    <3> QED  BY <3>3
  <2> QED  BY <2>3, <2>4
<1> QED  BY <1>1, Determined, PTL

\* run_one: under the same conditions the outcome says what the journal holds:
\* nothing undone, or everything done and registered undone, newest first.
THEOREM OutcomesTrue == Spec => [](Flaky = {} => OutcomeMatchesJournal)
<1>1. IInv /\ DInv => (Flaky = {} => OutcomeMatchesJournal)
  <2> SUFFICES ASSUME IInv, Sure
               PROVE  /\ status = "completed" => \A i \in Undos : ~Recorded(Program[i])
                      /\ status = "failed" =>
                           \A i \in Undos :
                              Chosen(Program[i]) /\ (\A o \in Prior(i) : Journaled(o) /\ Chosen(o) => Recorded(o))
                                  => Recorded(Program[i]) \/ Program[i].name \in undoFailed
                      /\ \A i, j \in Undos : \A p \in RowsOf("compensate", Program[i].name),
                                                 q \in RowsOf("compensate", Program[j].name) :
                              p < q => i > j
    BY DEF DInv, Deterministic, OutcomeMatchesJournal
  <2>1. \A i \in Undos : i \in 1..Len(Program) /\ Program[i].op = "compensate"
    BY ProgramFacts DEF Undos
  <2>2. ASSUME NEW i \in Undos, NEW p \in RowsOf("compensate", Program[i].name)
        PROVE  \E f \in 1..Len(Program) :
                   Stops(versions, f) /\ i \in Undoes(versions, f) /\ p = UndoPlace(versions, f, i)
    <3>1. PICK f \in 1..Len(Program) :
              /\ Stops(versions, f)
              /\ \E k \in Undoes(versions, f) : IsUndo(journal[p], k) /\ p = UndoPlace(versions, f, k)
      BY DEF Sure, UndoRows, RowsOf
    <3>2. PICK k \in Undoes(versions, f) : IsUndo(journal[p], k) /\ p = UndoPlace(versions, f, k)
      BY <3>1
    <3>3. k \in 1..Len(Program)
      BY <3>1, StopsFacts, RankOrder
    <3>4. k = i
      BY <2>1, <3>2, <3>3, ProgramFacts DEF IsUndo, RowsOf
    <3> QED  BY <3>1, <3>2, <3>4
  <2>3. ASSUME status = "completed", NEW i \in Undos, Recorded(Program[i]) PROVE FALSE
    <3>1. PICK p : p \in RowsOf("compensate", Program[i].name)
      BY <2>1, <2>3 DEF Recorded
    <3>2. PICK f \in 1..Len(Program) : Stops(versions, f)
      BY <2>2, <3>1
    <3> QED  BY <2>3, <3>2 DEF Sure, Ends, Clear, Stops
  <2>4. ASSUME status = "failed", NEW i \in Undos, Chosen(Program[i]),
               \A o \in Prior(i) : Journaled(o) /\ Chosen(o) => Recorded(o)
        PROVE  Recorded(Program[i]) \/ Program[i].name \in undoFailed
    <3>1. PICK f \in 1..Len(Program) : Stops(versions, f) /\ Settled(versions, journal, undoFailed, f, 0)
      BY <2>4 DEF Sure, Ends
    <3>2. Doomed(versions, f) /\ Journaled(Program[f]) /\ Live(versions, f) /\ f \in 0..Len(Program)
      BY <3>1, StopsFacts DEF Stops
    <3>3. ~Recorded(Program[f])
      BY <3>2 DEF Sure, SureRows, Doomed, Recorded, RowsOf
    <3>4. ~(f < i)
      <4> SUFFICES ASSUME f < i PROVE FALSE
        OBVIOUS
      <4>1. f \in 1..(i - 1)
        BY <2>1, ProgramFacts
      <4>2. Program[f] \in Prior(i) /\ Chosen(Program[f])
        BY <3>2, <4>1 DEF Prior, Chosen, Live
      <4> QED  BY <2>4, <3>2, <3>3, <4>2
    <3>5. i # f
      BY <2>1, <3>2 DEF Doomed
    <3>6. i \in Undoes(versions, f)
      <4>1. i \in 1..f /\ Live(versions, i)
        BY <2>1, <2>4, <3>4, <3>5, ProgramFacts DEF Chosen, Live
      <4> QED  BY <2>1, <4>1 DEF Undoes
    <3>7. Rank(versions, i) > 0 /\ UndoPlace(versions, f, i) \in Positions
      BY <3>1, <3>2, <3>6, UndoPlaceIsPosition
    <3>8. IsUndo(journal[UndoPlace(versions, f, i)], i) \/ Program[i].name \in undoFailed
      BY <3>1, <3>6, <3>7 DEF Settled
    <3> QED  BY <2>1, <3>7, <3>8 DEF IsUndo, Recorded, RowsOf
  <2>5. ASSUME NEW i \in Undos, NEW j \in Undos, NEW p \in RowsOf("compensate", Program[i].name),
               NEW q \in RowsOf("compensate", Program[j].name), p < q
        PROVE  i > j
    <3>1. PICK f \in 1..Len(Program) :
              Stops(versions, f) /\ i \in Undoes(versions, f) /\ p = UndoPlace(versions, f, i)
      BY <2>2
    <3>2. PICK g \in 1..Len(Program) :
              Stops(versions, g) /\ j \in Undoes(versions, g) /\ q = UndoPlace(versions, g, j)
      BY <2>2
    <3>3. g = f
      BY <3>1, <3>2, StopsOnce
    <3>4. /\ Place(versions, f) \in Nat /\ Rank(versions, f) \in Nat /\ f \in 0..Len(Program)
          /\ Rank(versions, i) \in 1..Rank(versions, f) /\ Rank(versions, j) \in 1..Rank(versions, f)
      BY <3>1, <3>2, <3>3, StopsFacts, UndoPlaceIsPosition
    <3>5. Rank(versions, j) < Rank(versions, i)
      BY <2>5, <3>1, <3>2, <3>3, <3>4 DEF UndoPlace
    <3>6. j < i <=> Rank(versions, j) < Rank(versions, i)
      BY <3>1, <3>2, <3>3, <3>4, RankOrder
    <3> QED  BY <2>1, <3>5, <3>6, ProgramFacts
  <2> QED  BY <2>3, <2>4, <2>5
<1> QED  BY <1>1, Determined, PTL
===============================================================================
