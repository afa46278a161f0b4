------------------------- MODULE RunEventLogProofs -------------------------
(* Theorems about RunEventLog, for every set of runs and clients, every     *)
(* bound and both start-up orders.                                          *)
EXTENDS RunEventLog, FiniteSetTheorems, WellFoundedInduction, TLAPS

-----------------------------------------------------------------------------
(* Least and greatest elements, and the increasing enumeration of a set *)

\* A nonempty set of naturals has a least element.
LEMMA LeastNat ==
  ASSUME NEW S, S \subseteq Nat, S # {}
  PROVE  \E x \in S : \A y \in S : x <= y
<1> DEFINE R == {ss \in Nat \X Nat : ss[1] < ss[2]}
<1>1. OpToRel(<, Nat) = R
  BY Zenon DEF OpToRel
<1>2. IsWellFoundedOn(R, Nat)
  BY <1>1, NatLessThanWellFounded, Zenon
<1>3. PICK x \in S : \A y \in S : ~ (<<y, x>> \in R)
  <2> HIDE DEF R
  <2> QED BY <1>2, WFMin
<1>4. ASSUME NEW y \in S PROVE x <= y
  <2>1. x \in Nat /\ y \in Nat
    OBVIOUS
  <2>2. y < x => <<y, x>> \in R
    BY <2>1
  <2> QED BY <1>3, <2>1, <2>2
<1> QED BY <1>4

\* Min of a nonempty set of naturals is its least element.
LEMMA MinOf ==
  ASSUME NEW S, S \subseteq Nat, S # {}
  PROVE  Min(S) \in S /\ \A y \in S : Min(S) <= y
BY LeastNat DEF Min

\* Max of a nonempty bounded set of naturals belongs to it.
LEMMA MaxOf ==
  ASSUME NEW n \in Nat, NEW S, S \subseteq 0 .. n, S # {}
  PROVE  Max(S) \in S
<1> DEFINE T == {n - i : i \in S}
<1>1. T \subseteq Nat /\ T # {}
  <2>1. \A i \in S : i \in Int /\ 0 <= i /\ i <= n
    OBVIOUS
  <2>2. \A i \in S : n - i \in Nat
    BY <2>1
  <2> QED BY <2>2
<1>2. PICK t \in T : \A u \in T : t <= u
  BY <1>1, LeastNat
<1>3. PICK i \in S : t = n - i
  OBVIOUS
<1>4. \A j \in S : i >= j
  BY <1>2, <1>3
<1> QED BY <1>4 DEF Max

\* Each finite set of naturals can be enumerated in increasing order.  The
\* least cardinality of a set that could not is refuted by its least element.
LEMMA SortedExists ==
  ASSUME NEW S, S \subseteq Nat, IsFiniteSet(S)
  PROVE  \E s \in [1 .. Cardinality(S) -> S] :
            \A j, k \in 1 .. Cardinality(S) : j < k => s[j] < s[k]
<1> DEFINE Enumerates(s, U, n) ==
              /\ s \in [1 .. n -> U]
              /\ \A j, k \in 1 .. n : j < k => s[j] < s[k]
           Bad == {n \in Nat : \E U \in SUBSET Nat :
                      IsFiniteSet(U) /\ Cardinality(U) = n /\ ~ \E s : Enumerates(s, U, n)}
<1>1. Bad = {}
  <2> SUFFICES ASSUME Bad # {} PROVE FALSE
    OBVIOUS
  <2>1. PICK n \in Bad : \A i \in Bad : n <= i
    BY LeastNat
  <2>2. PICK U \in SUBSET Nat : /\ IsFiniteSet(U) /\ Cardinality(U) = n
                                /\ ~ \E s : Enumerates(s, U, n)
    BY <2>1
  <2>3. CASE U = {}
    <3>1. n = 0
      BY <2>2, <2>3, FS_EmptySet
    <3>2. Enumerates([i \in 1 .. 0 |-> 0], U, 0)
      BY <2>3
    <3> QED BY <2>2, <3>1, <3>2
  <2>4. CASE U # {}
    <3>1. PICK x \in U : \A y \in U : x <= y
      BY <2>4, LeastNat
    <3> DEFINE V == U \ {x}
    <3>2. IsFiniteSet(V) /\ Cardinality(V) = n - 1 /\ n \in Nat
      BY <2>2, FS_RemoveElement, FS_CardinalityType
    <3>3. n - 1 \in Nat
      BY <3>2, FS_CardinalityType
    <3>4. n - 1 \notin Bad
      BY <2>1, <3>2, <3>3
    <3>5. PICK s : Enumerates(s, V, n - 1)
      BY <3>2, <3>3, <3>4
    <3> DEFINE t == [i \in 1 .. n |-> IF i = 1 THEN x ELSE s[i - 1]]
    <3>6. \A i \in 2 .. n : s[i - 1] \in V /\ x < s[i - 1]
      <4> SUFFICES ASSUME NEW i \in 2 .. n PROVE s[i - 1] \in V /\ x < s[i - 1]
        OBVIOUS
      <4>1. i - 1 \in 1 .. (n - 1)
        BY <3>2
      <4>2. s[i - 1] \in V
        BY <3>5, <4>1
      <4>3. x \in Nat /\ s[i - 1] \in Nat /\ s[i - 1] # x /\ x <= s[i - 1]
        BY <3>1, <4>2
      <4> QED BY <4>2, <4>3
    <3>7. t \in [1 .. n -> U]
      BY <3>2, <3>6
    <3>8. ASSUME NEW j \in 1 .. n, NEW k \in 1 .. n, j < k PROVE t[j] < t[k]
      <4>1. k \in 2 .. n /\ t[k] = s[k - 1]
        BY <3>2, <3>8
      <4>2. CASE j = 1
        BY <3>6, <4>1, <4>2
      <4>3. CASE j # 1
        <5>1. t[j] = s[j - 1] /\ j - 1 \in 1 .. (n - 1) /\ k - 1 \in 1 .. (n - 1) /\ j - 1 < k - 1
          BY <3>2, <3>8, <4>1, <4>3
        <5>2. \A a, b \in 1 .. (n - 1) : a < b => s[a] < s[b]
          BY <3>5
        <5> QED BY <4>1, <5>1, <5>2
      <4> QED BY <4>2, <4>3
    <3>9. Enumerates(t, U, n)
      BY <3>7, <3>8
    <3> QED BY <2>2, <3>9
  <2> QED BY <2>3, <2>4
<1>2. Cardinality(S) \in Nat
  BY FS_CardinalityType
<1>3. \E s : Enumerates(s, S, Cardinality(S))
  BY <1>1, <1>2
<1> QED BY <1>3

LEMMA SortedType ==
  ASSUME NEW S, S \subseteq Nat, IsFiniteSet(S)
  PROVE  Cardinality(S) \in Nat /\ Sorted(S) \in [1 .. Cardinality(S) -> S]
BY SortedExists, FS_CardinalityType DEF Sorted

-----------------------------------------------------------------------------
(* The transactions on a row *)

\* What a transaction may make of a row d: a good row e that keeps the status
\* and the events of a finished run and never counts back.
GoodRow(d) == RowTypeOK(d) /\ RowWellFormed(d)

Moves(d, e) ==
    /\ GoodRow(e)
    /\ d.count <= e.count
    /\ e.status = "absent" => d.status = "absent"
    /\ Finished(d.status) =>
        /\ e.status = d.status
        /\ \A i \in DOMAIN d.events : i \in DOMAIN e.events /\ e.events[i] = d.events[i]

LEMMA MovesReflexive ==
  ASSUME NEW d, GoodRow(d)
  PROVE  Moves(d, d)
BY DEF Moves, GoodRow, RowTypeOK

LEMMA MovesTransitive ==
  ASSUME NEW d, NEW e, NEW f, GoodRow(d), Moves(d, e), Moves(e, f)
  PROVE  Moves(d, f)
<1>1. d.count \in Nat /\ e.count \in Nat /\ f.count \in Nat
  BY DEF Moves, GoodRow, RowTypeOK
<1>2. d.count <= f.count
  BY <1>1 DEF Moves
<1>3. Finished(d.status) => Finished(e.status)
  BY DEF Moves
<1> QED BY <1>2, <1>3 DEF Moves

\* A terminal event in memory stays behind the row through a transaction.
LEMMA CacheStaysBehind ==
  ASSUME NEW d, NEW e, NEW events \in Seq(Events), GoodRow(d), Moves(d, e),
         CacheBehindRow(events, d)
  PROVE  CacheBehindRow(events, e)
<1>1. d.count \in Nat /\ e.count \in Nat /\ d.count <= e.count
  BY DEF Moves, GoodRow, RowTypeOK
<1>2. \A k \in DOMAIN events : events[k].index \in Nat
  <2>1. \A k \in DOMAIN events : events[k] \in Events
    OBVIOUS
  <2> QED BY <2>1 DEF Events
<1>3. Finished(d.status) => Finished(e.status)
  BY DEF Moves
<1> QED BY <1>1, <1>2, <1>3 DEF CacheBehindRow

LEMMA StatusKinds ==
  /\ \A s \in AllStatuses : s = "absent" \/ s \in ActiveStatuses \/ Finished(s)
  /\ \A s \in ActiveStatuses : s \in AllStatuses /\ ~ Finished(s) /\ s # "absent"
  /\ \A s \in FinishedStatuses : s \in AllStatuses /\ Finished(s)
                                 /\ s \notin ActiveStatuses /\ s # "absent"
BY DEF AllStatuses, ActiveStatuses, FinishedStatuses, Finished

LEMMA NoRowGood == GoodRow(NoRow) /\ GoodRow(InsertedRow) /\ Moves(NoRow, InsertedRow)
BY DEF NoRow, InsertedRow, GoodRow, Moves, RowTypeOK, RowWellFormed, AllStatuses,
       ActiveStatuses, FinishedStatuses, Finished

LEMMA AppendedRowMoves ==
  ASSUME NEW d, GoodRow(d), d.status \in ActiveStatuses,
         NEW p \in Payloads, p.type # "run_finished"
  PROVE  Moves(d, AppendedRow(d, p)) /\ AppendedRow(d, p).status = d.status
<1> DEFINE e == AppendedRow(d, p)
<1>1. d.count \in Nat /\ DOMAIN d.events = 0 .. d.count - 1
  BY DEF GoodRow, RowTypeOK, RowWellFormed
<1>2. e.status = d.status /\ e.count = d.count + 1 /\ DOMAIN e.events = 0 .. e.count - 1
  BY <1>1 DEF AppendedRow
<1>3. \A i \in DOMAIN e.events : e.events[i] = IF i = d.count THEN p ELSE d.events[i]
  BY DEF AppendedRow
<1>4. \A i \in DOMAIN e.events : e.events[i] \in Payloads /\ ~ IsTerminal(e, i)
  BY <1>1, <1>2, <1>3 DEF GoodRow, RowTypeOK, RowWellFormed, IsTerminal
<1>5. RowTypeOK(e)
  BY <1>1, <1>2, <1>4, StatusKinds DEF RowTypeOK
<1>6. RowWellFormed(e)
  BY <1>2, <1>4, StatusKinds DEF RowWellFormed
<1> QED BY <1>1, <1>2, <1>5, <1>6, StatusKinds DEF Moves, GoodRow

LEMMA StoredMoves ==
  ASSUME NEW d, GoodRow(d), d.status # "absent",
         NEW events \in Seq(Events), Fits(d, events), CacheBehindRow(events, d)
  PROVE  Moves(d, Stored(d, events)) /\ Stored(d, events).status = d.status
<1> DEFINE e == Stored(d, events)
           top == CHOOSE top \in d.count .. Top : FitsUpTo(d, events, top)
           at(i) == CHOOSE k \in DOMAIN events : events[k].index = i
<1>1. d.count \in Nat /\ DOMAIN d.events \subseteq 0 .. d.count - 1
  BY DEF GoodRow, RowTypeOK
<1>2. top \in d.count .. Top /\ FitsUpTo(d, events, top)
  BY DEF Fits
<1>3. top \in Nat /\ d.count <= top
  BY <1>1, <1>2
<1> HIDE DEF top
<1>4. \A i \in d.count .. (top - 1) :
         at(i) \in DOMAIN events /\ events[at(i)].index = i
  <2> SUFFICES ASSUME NEW i \in d.count .. (top - 1)
               PROVE  at(i) \in DOMAIN events /\ events[at(i)].index = i
    OBVIOUS
  <2>1. i \in {events[k].index : k \in {k \in DOMAIN events : events[k].index >= d.count}}
    BY <1>2 DEF FitsUpTo
  <2>2. \E k \in DOMAIN events : events[k].index = i
    BY <2>1
  <2> QED BY <2>2
<1>5. /\ e.status = d.status /\ e.count = top
      /\ DOMAIN e.events = DOMAIN d.events \cup d.count .. (top - 1)
      /\ \A i \in DOMAIN e.events :
            e.events[i] = IF i < d.count THEN d.events[i] ELSE events[at(i)].payload
  BY DEF Stored, top
<1> HIDE DEF e, at
<1>6. \A i \in d.count .. (top - 1) :
         /\ e.events[i] \in Payloads
         /\ ~ IsTerminal(e, i)
  <2> SUFFICES ASSUME NEW i \in d.count .. (top - 1)
               PROVE  e.events[i] \in Payloads /\ ~ IsTerminal(e, i)
    OBVIOUS
  <2>1. e.events[i] = events[at(i)].payload
    BY <1>1, <1>3, <1>5
  <2>2. events[at(i)] \in Events /\ events[at(i)].index = i
    BY <1>4
  <2>3. ~ (i < d.count)
    BY <1>1
  <2> QED BY <1>4, <2>1, <2>2, <2>3 DEF CacheBehindRow, Events, IsTerminal
<1>7. \A i \in DOMAIN d.events : i \in DOMAIN e.events /\ e.events[i] = d.events[i]
  BY <1>1, <1>5
<1>8. RowTypeOK(e)
  <2>1. DOMAIN e.events \subseteq 0 .. e.count - 1
    BY <1>1, <1>3, <1>5
  <2>2. \A i \in DOMAIN e.events : e.events[i] \in Payloads
    BY <1>5, <1>6, <1>7 DEF GoodRow, RowTypeOK
  <2> QED BY <1>3, <1>5, <2>1, <2>2 DEF GoodRow, RowTypeOK
<1>9. RowWellFormed(e)
  <2>1. CASE d.status \in ActiveStatuses
    <3>1. DOMAIN e.events = 0 .. e.count - 1
      BY <1>1, <1>3, <1>5, <2>1 DEF GoodRow, RowWellFormed
    <3>2. \A i \in DOMAIN e.events : ~ IsTerminal(e, i)
      BY <1>5, <1>6, <1>7, <2>1 DEF GoodRow, RowWellFormed, IsTerminal
    <3> QED BY <1>5, <2>1, <3>1, <3>2, StatusKinds DEF RowWellFormed
  <2>2. CASE Finished(d.status)
    <3>1. PICK i \in DOMAIN d.events : \A j \in DOMAIN d.events : IsTerminal(d, j) <=> j = i
      BY <2>2 DEF GoodRow, RowWellFormed
    <3>2. \A j \in DOMAIN e.events : IsTerminal(e, j) <=> j = i
      <4> SUFFICES ASSUME NEW j \in DOMAIN e.events PROVE IsTerminal(e, j) <=> j = i
        OBVIOUS
      <4>1. CASE j \in DOMAIN d.events
        BY <1>7, <3>1, <4>1 DEF IsTerminal
      <4>2. CASE j \in d.count .. (top - 1)
        BY <1>1, <1>6, <3>1, <4>2
      <4> QED BY <1>5, <4>1, <4>2
    <3>3. i \in DOMAIN e.events
      BY <1>7
    <3> QED BY <1>5, <2>2, <3>2, <3>3, StatusKinds DEF RowWellFormed, Finished
  <2> QED BY <2>1, <2>2, StatusKinds DEF GoodRow, RowTypeOK
<1>10. Moves(d, e) /\ e.status = d.status
  BY <1>3, <1>5, <1>7, <1>8, <1>9 DEF Moves, GoodRow
<1> QED BY <1>10 DEF e

LEMMA FinishedRowMoves ==
  ASSUME NEW d, GoodRow(d), NEW status \in FinishedStatuses,
         NEW p \in Payloads, p.type = "run_finished"
  PROVE  /\ Moves(d, FinishedRow(d, status, p))
         /\ Finished(FinishedRow(d, status, p).status)
<1> DEFINE e == FinishedRow(d, status, p)
<1>1. CASE Finished(d.status)
  BY <1>1, MovesReflexive DEF FinishedRow
<1>2. CASE ~ Finished(d.status)
  <2>1. d.count \in Nat
    BY DEF GoodRow, RowTypeOK
  <2>2. /\ e.status = status /\ e.count = d.count + 1
        /\ DOMAIN e.events = {d.count} /\ e.events[d.count] = p
    BY <1>2 DEF FinishedRow
  <2> HIDE DEF e
  <2>3. RowTypeOK(e)
    BY <2>1, <2>2, StatusKinds DEF RowTypeOK
  <2>4. RowWellFormed(e)
    BY <2>2, StatusKinds DEF RowWellFormed, IsTerminal
  <2>5. Moves(d, e) /\ Finished(e.status)
    BY <1>2, <2>1, <2>2, <2>3, <2>4, StatusKinds DEF Moves, GoodRow
  <2> QED BY <2>5 DEF e
<1> QED BY <1>1, <1>2

LEMMA UpdatedRowMoves ==
  ASSUME NEW d, GoodRow(d), d.status # "absent", NEW status \in ActiveStatuses
  PROVE  /\ Moves(d, UpdatedRow(d, status))
         /\ UpdatedRow(d, status).status = IF Finished(d.status) THEN d.status ELSE status
<1> DEFINE e == UpdatedRow(d, status)
<1>1. CASE Finished(d.status)
  BY <1>1, MovesReflexive DEF UpdatedRow
<1>2. CASE ~ Finished(d.status)
  <2>1. e.status = status /\ e.count = d.count /\ e.events = d.events
    BY <1>2 DEF UpdatedRow
  <2>2. d.status \in ActiveStatuses /\ d.count \in Nat
    BY <1>2, StatusKinds DEF GoodRow, RowTypeOK
  <2> HIDE DEF e
  <2>3. RowTypeOK(e) /\ RowWellFormed(e)
    BY <2>1, <2>2, StatusKinds DEF GoodRow, RowTypeOK, RowWellFormed, IsTerminal
  <2>4. Moves(d, e) /\ e.status = status
    BY <1>2, <2>1, <2>2, <2>3, StatusKinds DEF Moves, GoodRow
  <2> QED BY <1>2, <2>4 DEF e
<1> QED BY <1>1, <1>2

LEMMA PayloadType ==
  ASSUME TypeOK, NEW r \in Runs, NEW type \in Types
  PROVE  Payload(r, type) \in Payloads /\ Payload(r, type).type = type
<1>1. pub[r] \in Nat
  BY DEF TypeOK
<1> QED BY <1>1 DEF Payload, Payloads

LEMMA TerminalType ==
  ASSUME TypeOK, NEW r \in Runs, NEW d, GoodRow(d)
  PROVE  Terminal(r, d) \in Payloads /\ Terminal(r, d).type = "run_finished"
<1> DEFINE results == {i \in DOMAIN d.events : d.events[i].type = "result"}
<1>1. pub[r] \in Nat /\ "run_finished" \in Types
  BY DEF TypeOK, Types
<1>2. StoredResult(d) \in Nat
  <2>1. CASE results = {}
    BY <2>1 DEF StoredResult
  <2>2. CASE results # {}
    <3>1. d.count \in Nat /\ results \subseteq 0 .. d.count
      BY DEF GoodRow, RowTypeOK
    <3>2. Max(results) \in results
      BY <2>2, <3>1, MaxOf
    <3>3. d.events[Max(results)] \in Payloads
      BY <3>2 DEF GoodRow, RowTypeOK
    <3>4. d.events[Max(results)].no \in Nat
      BY <3>3 DEF Payloads
    <3> QED BY <2>2, <3>4 DEF StoredResult
  <2> QED BY <2>1, <2>2
<1> QED BY <1>1, <1>2 DEF Terminal, Payloads

-----------------------------------------------------------------------------
(* The operators on a record *)

LEMMA HydratedType ==
  ASSUME NEW m \in Records, NEW d, GoodRow(d)
  PROVE  /\ Hydrated(m, d) \in Records
         /\ Hydrated(m, d).known /\ Hydrated(m, d).status = d.status
         /\ Hydrated(m, d).events = m.events
BY DEF Hydrated, Records, GoodRow, RowTypeOK

LEMMA RecordType ==
  ASSUME IInv, NEW r \in Runs
  PROVE  /\ Record(r) \in Records /\ Record(r).known
         /\ CacheBehindRow(Record(r).events, rows[r])
         /\ ~ cache[r].known => Record(r).status = rows[r].status
         /\ cache[r].known => Record(r) = cache[r]
<1>1. cache[r] \in Records /\ GoodRow(rows[r]) /\ CacheBehindRow(cache[r].events, rows[r])
  BY DEF IInv, TypeOK, RowsWellFormed, GoodRow
<1> QED BY <1>1, HydratedType DEF Record

LEMMA CachedType ==
  ASSUME NEW m \in Records, NEW p \in Payloads, p.type # "run_finished",
         NEW d, CacheBehindRow(m.events, d)
  PROVE  /\ Cached(m, p) \in Records
         /\ Cached(m, p).known = m.known /\ Cached(m, p).status = m.status
         /\ CacheBehindRow(Cached(m, p).events, d)
         /\ Len(Cached(m, p).events) > 0
         /\ Last(Cached(m, p).events) \in Events
         /\ Last(Cached(m, p).events).payload = p
<1> DEFINE e == Event(m.count, p)
           es == Append(m.events, e)
<1>1. m.count \in Nat /\ m.events \in Seq(Events)
  BY DEF Records
<1>2. e \in Events /\ e.payload = p
  BY <1>1 DEF Event, Events
<1>3. /\ es \in Seq(Events) /\ Len(es) = Len(m.events) + 1 /\ Len(es) > 0
      /\ \A k \in 1 .. Len(m.events) : es[k] = m.events[k]
      /\ es[Len(es)] = e
  BY <1>1, <1>2
<1>4. Cached(m, p) = [m EXCEPT !.count = m.count + 1, !.events = es]
  BY DEF Cached
<1> HIDE DEF e, es
<1>5. /\ Cached(m, p) \in Records /\ Cached(m, p).events = es
      /\ Cached(m, p).known = m.known /\ Cached(m, p).status = m.status
  <2>1. m.count + 1 \in Nat /\ es \in Seq(Events)
    BY <1>1, <1>3
  <2>2. Cached(m, p) \in Records
    BY <1>4, <2>1 DEF Records
  <2> QED BY <1>4, <2>2 DEF Records
<1>6. CacheBehindRow(es, d)
  BY <1>1, <1>2, <1>3 DEF CacheBehindRow
<1> QED BY <1>2, <1>3, <1>5, <1>6 DEF Last

\* A stored event is appended to the event list as it is.
LEMMA MirroredType ==
  ASSUME NEW m \in Records, NEW d, GoodRow(d), CacheBehindRow(m.events, d), NEW i \in Nat
  PROVE  /\ Mirrored(m, d, i) \in Records
         /\ Mirrored(m, d, i).known = m.known /\ Mirrored(m, d, i).status = m.status
         /\ CacheBehindRow(Mirrored(m, d, i).events, d)
<1> DEFINE j == Min(StoredFrom(d, i))
           e == Event(j, d.events[j])
           es == Append(m.events, e)
<1>1. CASE StoredFrom(d, i) = {}
  BY <1>1 DEF Mirrored
<1>2. CASE StoredFrom(d, i) # {}
  <2>1. d.count \in Nat /\ DOMAIN d.events \subseteq 0 .. d.count - 1
    BY DEF GoodRow, RowTypeOK
  <2>2. StoredFrom(d, i) \subseteq Nat
    BY <2>1 DEF StoredFrom
  <2>3. j \in DOMAIN d.events
    BY <1>2, <2>2, MinOf DEF StoredFrom
  <2>4. j \in Nat /\ j < d.count /\ d.events[j] \in Payloads
    BY <2>1, <2>3 DEF GoodRow, RowTypeOK
  <2>5. d.events[j].type = "run_finished" => Finished(d.status)
    BY <2>1, <2>3, StatusKinds DEF GoodRow, RowTypeOK, RowWellFormed, IsTerminal
  <2> HIDE DEF j
  <2>6. e \in Events /\ e.index = j /\ e.payload = d.events[j]
    BY <2>4 DEF Event, Events
  <2>7. m.events \in Seq(Events)
    BY DEF Records
  <2>8. /\ es \in Seq(Events) /\ Len(es) = Len(m.events) + 1
        /\ \A k \in 1 .. Len(m.events) : es[k] = m.events[k]
        /\ es[Len(es)] = e
    BY <2>6, <2>7
  <2>9. CacheBehindRow(es, d)
    BY <2>4, <2>5, <2>6, <2>7, <2>8 DEF CacheBehindRow
  <2>10. Mirrored(m, d, i) = [m EXCEPT !.events = es]
    BY <1>2 DEF Mirrored, j
  <2> HIDE DEF es
  <2> QED BY <2>8, <2>9, <2>10 DEF Records
<1> QED BY <1>1, <1>2

\* Loading merges stored and cached events into a sequence of events.
LEMMA LoadedType ==
  ASSUME NEW m \in Records, NEW d, GoodRow(d), CacheBehindRow(m.events, d)
  PROVE  /\ Loaded(m, d) \in Records
         /\ Loaded(m, d).known = m.known /\ Loaded(m, d).status = m.status
         /\ CacheBehindRow(Loaded(m, d).events, d)
<1> DEFINE at(i)   == {k \in DOMAIN m.events : m.events[k].index = i}
           held    == {m.events[k].index : k \in DOMAIN m.events}
           indexes == DOMAIN d.events \cup held
           order   == Sorted(indexes)
           n       == Cardinality(indexes)
           from(i) == IF at(i) = {} THEN d.events[i] ELSE m.events[Max(at(i))].payload
           es      == [k \in 1 .. n |-> Event(order[k], from(order[k]))]
<1>1. CASE Len(m.events) >= m.count
  BY <1>1 DEF Loaded
<1>2. CASE ~ (Len(m.events) >= m.count)
  <2>1. /\ m.events \in Seq(Events) /\ Len(m.events) \in Nat
        /\ DOMAIN m.events = 1 .. Len(m.events)
        /\ \A k \in DOMAIN m.events : m.events[k] \in Events
    BY DEF Records
  <2>2. d.count \in Nat /\ DOMAIN d.events \subseteq 0 .. d.count - 1
    BY DEF GoodRow, RowTypeOK
  <2>3. IsFiniteSet(indexes) /\ indexes \subseteq Nat
    <3>1. IsFiniteSet(DOMAIN m.events)
      BY <2>1, FS_Interval
    <3>2. IsFiniteSet(held)
      <4> DEFINE f == [k \in DOMAIN m.events |-> m.events[k].index]
      <4>1. f \in Surjection(DOMAIN m.events, held)
        BY DEF Surjection
      <4> QED BY <3>1, <4>1, FS_Surjection
    <3>3. IsFiniteSet(DOMAIN d.events)
      <4>1. 0 \in Int /\ d.count - 1 \in Int
        BY <2>2
      <4>2. IsFiniteSet(0 .. d.count - 1)
        BY <4>1, FS_Interval
      <4> QED BY <2>2, <4>2, FS_Subset
    <3>4. held \subseteq Nat
      BY <2>1 DEF Events
    <3>5. IsFiniteSet(indexes)
      <4> HIDE DEF held
      <4> QED BY <3>2, <3>3, FS_Union
    <3>6. DOMAIN d.events \subseteq Nat
      BY <2>2
    <3> QED BY <3>4, <3>5, <3>6
  <2>4. n \in Nat /\ order \in [1 .. n -> indexes]
    BY <2>3, SortedType
  <2>5. \A i \in indexes :
           /\ i \in Nat /\ from(i) \in Payloads
           /\ from(i).type = "run_finished" => Finished(d.status) /\ i < d.count
    <3> SUFFICES ASSUME NEW i \in indexes
                 PROVE  /\ i \in Nat /\ from(i) \in Payloads
                        /\ from(i).type = "run_finished" => Finished(d.status) /\ i < d.count
      OBVIOUS
    <3>1. i \in Nat
      BY <2>3
    <3>2. CASE at(i) = {}
      <4>1. i \in DOMAIN d.events /\ from(i) = d.events[i]
        BY <3>2
      <4>2. from(i) \in Payloads /\ i < d.count
        BY <2>2, <4>1 DEF GoodRow, RowTypeOK
      <4>3. from(i).type = "run_finished" => Finished(d.status)
        BY <2>2, <4>1, StatusKinds DEF GoodRow, RowTypeOK, RowWellFormed, IsTerminal
      <4> QED BY <3>1, <4>2, <4>3
    <3>3. CASE at(i) # {}
      <4>1. at(i) \subseteq 0 .. Len(m.events)
        BY <2>1
      <4> DEFINE k == Max(at(i))
      <4>2. k \in at(i)
        BY <2>1, <3>3, <4>1, MaxOf
      <4>3. from(i) = m.events[k].payload /\ k \in DOMAIN m.events /\ m.events[k].index = i
        BY <3>3, <4>2
      <4> HIDE DEF k
      <4>4. m.events[k] \in Events
        BY <2>1, <4>3
      <4>5. from(i) \in Payloads
        BY <4>3, <4>4 DEF Events
      <4>6. from(i).type = "run_finished" => Finished(d.status) /\ i < d.count
        BY <4>3 DEF CacheBehindRow
      <4> QED BY <3>1, <4>5, <4>6
    <3> QED BY <3>2, <3>3
  <2>6. Loaded(m, d) = [m EXCEPT !.events = es]
    BY <1>2 DEF Loaded
  <2> HIDE DEF indexes, order, n, from
  <2>7. \A k \in 1 .. n : es[k] \in Events /\ es[k].index = order[k]
                          /\ es[k].payload = from(order[k]) /\ order[k] \in indexes
    BY <2>4, <2>5 DEF Event, Events
  <2>8. es \in Seq(Events) /\ DOMAIN es = 1 .. n
    BY <2>4, <2>7
  <2>9. CacheBehindRow(es, d)
    BY <2>5, <2>7, <2>8 DEF CacheBehindRow
  <2> HIDE DEF es
  <2> QED BY <2>6, <2>8, <2>9 DEF Records
<1> QED BY <1>1, <1>2

LEMMA FinalizedType ==
  ASSUME NEW m \in Records, NEW d, GoodRow(d), CacheBehindRow(m.events, d)
  PROVE  /\ Finalized(m, d) \in Records
         /\ Finalized(m, d).known = m.known /\ Finalized(m, d).status = d.status
         /\ CacheBehindRow(Finalized(m, d).events, d)
<1>1. d.status \in AllStatuses /\ d.count \in Nat /\ m.count \in Nat
  BY DEF GoodRow, RowTypeOK, Records
<1> DEFINE mm == Mirrored(m, d, m.count)
<1>2. /\ mm \in Records /\ mm.known = m.known
      /\ CacheBehindRow(mm.events, d)
  BY <1>1, MirroredType
<1>3. CASE Announces(m, d)
  <2>1. Finalized(m, d) = [mm EXCEPT !.status = d.status, !.count = d.count]
    BY <1>3 DEF Finalized
  <2> HIDE DEF mm
  <2> QED BY <1>1, <1>2, <2>1 DEF Records
<1>4. CASE ~ Announces(m, d)
  <2>1. Finalized(m, d) = [m EXCEPT !.status = d.status]
    BY <1>4 DEF Finalized
  <2> QED BY <1>1, <2>1 DEF Records
<1> QED BY <1>3, <1>4

LEMMA EmptyCache == \A d : CacheBehindRow(<<>>, d) /\ <<>> \in Seq(Events)
BY DEF CacheBehindRow

LEMMA RealignedType ==
  ASSUME NEW r \in Runs, GoodRow(rows[r]), NEW m \in Records,
         CacheBehindRow(m.events, rows[r]), NEW ok \in BOOLEAN
  PROVE  /\ Realigned(r, m, ok) \in Records
         /\ Realigned(r, m, ok).known = m.known /\ Realigned(r, m, ok).status = m.status
         /\ CacheBehindRow(Realigned(r, m, ok).events, rows[r])
<1>1. CASE ok
  BY <1>1 DEF Realigned
<1>2. CASE ~ ok
  <2>1. rows[r].count \in Nat
    BY DEF GoodRow, RowTypeOK
  <2>2. Realigned(r, m, ok) = [m EXCEPT !.count = rows[r].count, !.events = <<>>]
    BY <1>2 DEF Realigned
  <2> QED BY <2>1, <2>2, EmptyCache DEF Records
<1> QED BY <1>1, <1>2

LEMMA StoppedType ==
  ASSUME NEW r \in Runs, GoodRow(rows[r]), NEW m \in Records,
         CacheBehindRow(m.events, rows[r]), NEW ok \in BOOLEAN
  PROVE  LET s == Recounted(r, Stopping(m), ok)
         IN  /\ s \in Records /\ s.known = m.known /\ s.status = "stopping"
             /\ CacheBehindRow(s.events, rows[r])
<1>1. rows[r].count \in Nat /\ "stopping" \in AllStatuses
  BY DEF GoodRow, RowTypeOK, AllStatuses, ActiveStatuses
<1>2. /\ Stopping(m) \in Records /\ Stopping(m).known = m.known
      /\ Stopping(m).status = "stopping" /\ Stopping(m).events = m.events
  BY <1>1 DEF Stopping, Records
<1>3. /\ Recounted(r, Stopping(m), ok) \in Records
      /\ Recounted(r, Stopping(m), ok).known = m.known
      /\ Recounted(r, Stopping(m), ok).status = "stopping"
      /\ Recounted(r, Stopping(m), ok).events = m.events
  BY <1>1, <1>2 DEF Recounted, Records
<1> QED BY <1>3

LEMMA WokenType ==
  ASSUME TypeOK, NEW R
  PROVE  /\ Woken(R) \in [Clients -> SubStates]
         /\ \A c \in Clients : Woken(R)[c].state # "idle" => Woken(R)[c].run \in Runs
<1>1. \A c \in Clients : subs[c] \in SubStates
                         /\ (subs[c].state # "idle" => subs[c].run \in Runs)
  BY DEF TypeOK
<1>2. ASSUME NEW c \in Clients
      PROVE  /\ Woken(R)[c] \in SubStates
             /\ Woken(R)[c].state # "idle" => Woken(R)[c].run \in Runs
  BY <1>1 DEF Woken, SubStates
<1> QED BY <1>2 DEF Woken

LEMMA FlushedMoves ==
  ASSUME NEW r \in Runs, GoodRow(rows[r]), rows[r].status # "absent",
         NEW m \in Records, CacheBehindRow(m.events, rows[r]),
         NEW ok \in BOOLEAN, ok => Fits(rows[r], m.events)
  PROVE  /\ Moves(rows[r], Flushed(r, m, ok))
         /\ Flushed(r, m, ok).status = rows[r].status
<1>1. m.events \in Seq(Events)
  BY DEF Records
<1> QED BY <1>1, StoredMoves, MovesReflexive DEF Flushed

LEMMA CommittedMoves ==
  ASSUME TypeOK, NEW r \in Runs, GoodRow(rows[r]), rows[r].status # "absent",
         NEW m \in Records, CacheBehindRow(m.events, rows[r]),
         NEW ok \in BOOLEAN, ok => Fits(rows[r], m.events), NEW status \in Outcomes
  PROVE  /\ Moves(rows[r], Committed(r, m, ok, status))
         /\ Finished(Committed(r, m, ok, status).status)
<1> DEFINE d == Flushed(r, m, ok)
           s == IF ok THEN status ELSE "failed"
<1>1. Moves(rows[r], d) /\ GoodRow(d)
  BY FlushedMoves DEF Moves
<1>2. s \in FinishedStatuses
  BY RunEventLogAssumption DEF FinishedStatuses
<1>3. Terminal(r, d) \in Payloads /\ Terminal(r, d).type = "run_finished"
  BY <1>1, TerminalType
<1>4. Committed(r, m, ok, status) = FinishedRow(d, s, Terminal(r, d))
  BY DEF Committed
<1> HIDE DEF d, s
<1>5. /\ Moves(d, FinishedRow(d, s, Terminal(r, d)))
      /\ Finished(FinishedRow(d, s, Terminal(r, d)).status)
  BY <1>1, <1>2, <1>3, FinishedRowMoves
<1> QED BY <1>1, <1>4, <1>5, MovesTransitive

\* Both records a cut leaves are good, and so are their rows; no method is cut
\* whose record was finished.
LEMMA CutsMove ==
  ASSUME IInv, NEW r \in Runs, rows[r].status # "absent", NEW cut \in Cuts(r)
  PROVE  /\ Moves(rows[r], cut.row)
         /\ cut.record \in Records /\ cut.record.known
         /\ CacheBehindRow(cut.record.events, rows[r])
         /\ ~ Finished(Record(r).status)
<1>1. TypeOK /\ GoodRow(rows[r])
  BY DEF IInv, RowsWellFormed, TypeOK, GoodRow
<1>2. CASE cut \in StopCuts(r)
  <2> DEFINE ok == Fits(rows[r], cache[r].events)
  <2>1. cache[r].known /\ ~ Finished(cache[r].status)
    BY <1>2 DEF StopCuts
  <2>2. Record(r) = cache[r] /\ cache[r] \in Records /\ CacheBehindRow(cache[r].events, rows[r])
    BY <2>1, RecordType
  <2>3. ok \in BOOLEAN
    BY DEF Fits
  <2>4. /\ Moves(rows[r], Flushed(r, cache[r], ok))
        /\ Flushed(r, cache[r], ok).status = rows[r].status
    BY <1>1, <2>2, <2>3, FlushedMoves
  <2>5. Moves(rows[r], UpdatedRow(Flushed(r, cache[r], ok), "stopping"))
    <3>1. "stopping" \in ActiveStatuses /\ GoodRow(Flushed(r, cache[r], ok))
      BY <2>4 DEF ActiveStatuses, Moves
    <3> QED BY <1>1, <2>4, <3>1, UpdatedRowMoves, MovesTransitive
  <2>6. LET s == Recounted(r, Stopping(cache[r]), ok)
        IN  s \in Records /\ s.known /\ CacheBehindRow(s.events, rows[r])
    BY <1>1, <2>1, <2>2, <2>3, StoppedType
  <2>7. /\ cut.record = Recounted(r, Stopping(cache[r]), ok)
        /\ \/ cut.row = Flushed(r, cache[r], ok)
           \/ cut.row = UpdatedRow(Flushed(r, cache[r], ok), "stopping")
    BY <1>2, <2>1 DEF StopCuts
  <2> QED BY <2>1, <2>2, <2>4, <2>5, <2>6, <2>7
<1>3. CASE \E status \in Outcomes : cut \in FinishCuts(r, status)
  <2> DEFINE ok == Fits(rows[r], Record(r).events)
  <2>1. PICK status \in Outcomes : cut \in FinishCuts(r, status)
    BY <1>3
  <2>2. ~ Finished(Record(r).status)
    BY <2>1 DEF FinishCuts
  <2>3. Record(r) \in Records /\ Record(r).known /\ CacheBehindRow(Record(r).events, rows[r])
    BY RecordType
  <2>4. ok \in BOOLEAN
    BY DEF Fits
  <2>5. /\ Moves(rows[r], Flushed(r, Record(r), ok))
        /\ Moves(rows[r], Committed(r, Record(r), ok, status))
    BY <1>1, <2>3, <2>4, FlushedMoves, CommittedMoves
  <2>6. LET m == Realigned(r, Record(r), ok)
        IN  m \in Records /\ m.known /\ CacheBehindRow(m.events, rows[r])
    BY <1>1, <2>3, <2>4, RealignedType
  <2>7. /\ cut.record = Realigned(r, Record(r), ok)
        /\ \/ cut.row = Flushed(r, Record(r), ok)
           \/ cut.row = Committed(r, Record(r), ok, status)
    BY <2>1, <2>2 DEF FinishCuts
  <2> QED BY <2>2, <2>5, <2>6, <2>7
<1> QED BY <1>2, <1>3 DEF Cuts

-----------------------------------------------------------------------------
(* The inductive invariant, run by run *)

Good(d, m, lines, heard) ==
    /\ GoodRow(d)
    /\ m \in Records
    /\ m.known => d.status # "absent"
    /\ CacheBehindRow(m.events, d)
    /\ lines \in Seq(Events)
    /\ \A k \in DOMAIN lines : lines[k].payload.type # "run_finished"
    /\ heard \in Seq(FinishedStatuses)
    /\ HeardIsSettled(heard, d, m)

AllGood == \A r \in Runs : Good(rows[r], cache[r], journal[r], told[r])

\* rows, journal, cache and told are functions on Runs.
OnRuns ==
    /\ DOMAIN rows = Runs
    /\ journal = [r \in Runs |-> journal[r]]
    /\ cache = [r \in Runs |-> cache[r]]
    /\ told = [r \in Runs |-> told[r]]

SubsOK ==
    /\ subs \in [Clients -> SubStates]
    /\ \A c \in Clients : subs[c].state # "idle" => subs[c].run \in Runs

Rest ==
    /\ up \in BOOLEAN
    /\ SubsOK
    /\ pub \in [Runs -> Nat] /\ lastResult \in [Runs -> Nat]
    /\ seen \in [Clients -> Seq(Payloads)]
    /\ replayed \in BOOLEAN /\ faults \in Nat /\ crashes \in Nat

LEMMA IInvParts == IInv <=> OnRuns /\ AllGood /\ Rest
<1>1. ASSUME IInv PROVE OnRuns /\ AllGood /\ Rest
  <2>1. OnRuns /\ Rest
    BY <1>1 DEF IInv, TypeOK, OnRuns, Rest, SubsOK
  <2>2. AllGood
    BY <1>1 DEF IInv, TypeOK, RowsWellFormed, AllGood, Good, GoodRow
  <2> QED BY <2>1, <2>2
<1>2. ASSUME OnRuns, AllGood, Rest PROVE IInv
  <2>1. journal \in [Runs -> Seq(Events)]
    BY <1>2 DEF OnRuns, AllGood, Good
  <2>2. cache \in [Runs -> Records]
    BY <1>2 DEF OnRuns, AllGood, Good
  <2>3. told \in [Runs -> Seq(FinishedStatuses)]
    BY <1>2 DEF OnRuns, AllGood, Good
  <2>4. TypeOK
    BY <1>2, <2>1, <2>2, <2>3 DEF TypeOK, OnRuns, AllGood, Good, GoodRow, Rest, SubsOK
  <2> QED BY <1>2, <2>4 DEF IInv, AllGood, Good, GoodRow, RowsWellFormed
<1> QED BY <1>1, <1>2

\* What the row's transactions keep of one run, the record being replaced.
LEMMA GoodStep ==
  ASSUME NEW d, NEW m, NEW lines, NEW heard, Good(d, m, lines, heard),
         NEW e, Moves(d, e),
         NEW mm \in Records, mm.known => e.status # "absent",
         CacheBehindRow(mm.events, e),
         heard # <<>> => (mm.known => Finished(mm.status))
  PROVE  Good(e, mm, lines, heard)
<1>1. GoodRow(e)
  BY DEF Moves
<1>2. HeardIsSettled(heard, e, mm)
  BY DEF Good, HeardIsSettled, Moves
<1> QED BY <1>1, <1>2 DEF Good

\* Each step moves the rows as a transaction may.
RowsMove == \A r \in Runs : Moves(rows[r], rows'[r])

\* A step about run r leaves the other runs as they are.
OthersKept(r) ==
    \A x \in Runs \ {r} : /\ rows'[x] = rows[x] /\ cache'[x] = cache[x]
                          /\ journal'[x] = journal[x] /\ told'[x] = told[x]

LEMMA OneRun ==
  ASSUME AllGood, NEW r \in Runs, OthersKept(r), OnRuns', Rest',
         Good(rows'[r], cache'[r], journal'[r], told'[r]), Moves(rows[r], rows'[r])
  PROVE  IInv' /\ RowsMove
<1>1. \A x \in Runs : Good(rows'[x], cache'[x], journal'[x], told'[x])
  BY DEF OthersKept, AllGood
<1>2. AllGood'
  BY <1>1 DEF AllGood
<1>3. RowsMove
  BY MovesReflexive DEF OthersKept, AllGood, Good, RowsMove
<1>4. IInv'
  BY <1>2, IInvParts, PTL
<1> QED BY <1>3, <1>4

\* What is known of one run in a state of the invariant; only a finished record
\* has been announced.
LEMMA OfRun ==
  ASSUME IInv, NEW r \in Runs
  PROVE  /\ Good(rows[r], cache[r], journal[r], told[r])
         /\ GoodRow(rows[r]) /\ CacheBehindRow(cache[r].events, rows[r])
         /\ cache[r] \in Records
         /\ told[r] # <<>> => Finished(Record(r).status) /\ Finished(rows[r].status)
         /\ pub[r] \in Nat
<1>1. Good(rows[r], cache[r], journal[r], told[r]) /\ pub[r] \in Nat
  BY IInvParts DEF AllGood, Rest
<1>2. told[r] # <<>> => Finished(Record(r).status) /\ Finished(rows[r].status)
  BY <1>1, RecordType DEF Good, HeardIsSettled
<1> QED BY <1>1, <1>2 DEF Good

LEMMA JournaledType ==
  ASSUME NEW lines \in Seq(Events), NEW m, Last(m.events) \in Events,
         Last(m.events).payload.type # "run_finished",
         \A k \in DOMAIN lines : lines[k].payload.type # "run_finished"
  PROVE  /\ Journaled(lines, m) \in Seq(Events)
         /\ \A k \in DOMAIN Journaled(lines, m) :
               Journaled(lines, m)[k].payload.type # "run_finished"
<1> DEFINE e == Last(m.events)
<1>1. Journaled(lines, m) = Append(lines, e)
  BY DEF Journaled
<1> HIDE DEF e
<1>2. /\ Append(lines, e) \in Seq(Events)
      /\ DOMAIN Append(lines, e) = 1 .. Len(lines) + 1
      /\ \A k \in 1 .. Len(lines) : Append(lines, e)[k] = lines[k]
      /\ Append(lines, e)[Len(lines) + 1] = e
  BY DEF e
<1>3. DOMAIN lines = 1 .. Len(lines) /\ Len(lines) \in Nat
  OBVIOUS
<1> QED BY <1>1, <1>2, <1>3 DEF e

\* append_events on a record whose row has moved to d.
LEMMA PublishKeeps ==
  ASSUME IInv, NEW r \in Runs, NEW m \in Records, NEW type \in Types,
         type # "run_finished", Publish(r, m, type), m.known,
         Moves(rows[r], rows'[r]), rows[r].status # "absent",
         CacheBehindRow(m.events, rows[r]), told[r] # <<>> => Finished(m.status),
         DOMAIN rows' = Runs, \A x \in Runs \ {r} : rows'[x] = rows[x],
         lastResult' \in [Runs -> Nat], UNCHANGED <<up, told, seen, replayed, crashes>>
  PROVE  IInv' /\ RowsMove
<1> DEFINE p == Payload(r, type)
           mm == Cached(m, p)
<1>1. OnRuns /\ AllGood /\ Rest /\ TypeOK
  BY IInvParts DEF IInv
<1>2. p \in Payloads /\ p.type = type
  BY <1>1, PayloadType
<1>3. GoodRow(rows[r]) /\ CacheBehindRow(m.events, rows'[r])
  <2>1. m.events \in Seq(Events)
    BY DEF Records
  <2> QED BY <2>1, OfRun, CacheStaysBehind
<1>4. /\ mm \in Records /\ mm.known /\ mm.status = m.status
      /\ CacheBehindRow(mm.events, rows'[r])
      /\ Last(mm.events) \in Events /\ Last(mm.events).payload.type # "run_finished"
  BY <1>2, <1>3, CachedType
<1> HIDE DEF mm, p
<1>5. /\ cache' = [cache EXCEPT ![r] = mm]
      /\ pub' = [pub EXCEPT ![r] = pub[r] + 1]
      /\ \/ /\ journal' = [journal EXCEPT ![r] = Journaled(journal[r], mm)]
            /\ subs' = Woken({r}) /\ faults' = faults
         \/ /\ journal' = journal /\ subs' = subs /\ faults' = faults + 1
  BY DEF Publish, Fault, mm, p
<1>6. OnRuns' /\ OthersKept(r) /\ cache'[r] = mm /\ told'[r] = told[r]
  BY <1>1, <1>5 DEF OnRuns, OthersKept
<1>7. Rest'
  <2>1. SubsOK'
    BY <1>1, <1>5, WokenType DEF SubsOK, Rest
  <2>2. pub' \in [Runs -> Nat]
    BY <1>1, <1>5 DEF Rest
  <2> QED BY <1>1, <1>5, <2>1, <2>2 DEF Rest
<1>8. \A lines : Good(rows[r], cache[r], lines, told[r]) => Good(rows'[r], mm, lines, told[r])
  <2>1. rows'[r].status # "absent"
    BY DEF Moves
  <2> QED BY <1>4, <2>1, GoodStep
<1>9. Good(rows[r], cache[r], journal'[r], told[r])
  <2>1. Good(rows[r], cache[r], journal[r], told[r])
    BY OfRun
  <2>2. journal'[r] = journal[r] \/ journal'[r] = Journaled(journal[r], mm)
    BY <1>1, <1>5 DEF OnRuns
  <2> QED BY <1>4, <2>1, <2>2, JournaledType DEF Good
<1> QED BY <1>1, <1>6, <1>7, <1>8, <1>9, OneRun

-----------------------------------------------------------------------------
(* One lemma per action *)

LEMMA AppendEventKeeps ==
  ASSUME IInv, NEW r \in Runs, NEW type \in {"content", "result"}, AppendEvent(r, type)
  PROVE  IInv' /\ RowsMove
<1>1. OnRuns /\ Rest /\ Good(rows[r], cache[r], journal[r], told[r])
  BY OfRun, IInvParts
<1>2. /\ Record(r) \in Records /\ Record(r).known
      /\ CacheBehindRow(Record(r).events, rows[r])
  BY RecordType
<1>3. rows' = rows /\ Moves(rows[r], rows'[r]) /\ rows[r].status # "absent"
  BY <1>1, MovesReflexive DEF AppendEvent, Exists, Good
<1>4. type \in Types /\ type # "run_finished"
  BY DEF Types
<1>5. lastResult' \in [Runs -> Nat]
  BY <1>1 DEF AppendEvent, Rest
<1>6. Publish(r, Record(r), type) /\ UNCHANGED <<up, told, seen, replayed, crashes>>
  BY DEF AppendEvent
<1>7. DOMAIN rows' = Runs
  BY <1>1, <1>3 DEF OnRuns
<1>8. told[r] # <<>> => Finished(Record(r).status)
  BY OfRun
<1> QED BY <1>2, <1>3, <1>4, <1>5, <1>6, <1>7, <1>8, PublishKeeps

LEMMA UpdateStatusKeeps ==
  ASSUME IInv, NEW r \in Runs, NEW status \in {"waiting_approval", "running"},
         UpdateStatus(r, status)
  PROVE  IInv' /\ RowsMove
<1> DEFINE d == UpdatedRow(rows[r], status)
           m == [Record(r) EXCEPT !.status = d.status]
<1>1. OnRuns /\ Rest /\ GoodRow(rows[r])
  BY OfRun, IInvParts
<1>2. /\ Record(r) \in Records /\ Record(r).known
      /\ CacheBehindRow(Record(r).events, rows[r])
  BY RecordType
<1>3. rows[r].status # "absent" /\ ~ Finished(Record(r).status)
  BY DEF UpdateStatus, Exists
<1>4. Moves(rows[r], d) /\ d.status \in AllStatuses
  <2>1. status \in ActiveStatuses
    BY DEF ActiveStatuses
  <2> QED BY <1>1, <1>3, <2>1, UpdatedRowMoves DEF Moves, GoodRow, RowTypeOK
<1>5. rows' = [rows EXCEPT ![r] = d] /\ Publish(r, m, "status")
      /\ UNCHANGED <<up, lastResult, told, seen, replayed, crashes>>
  BY DEF UpdateStatus
<1> HIDE DEF d
<1>6. m \in Records /\ m.known /\ m.events = Record(r).events
  BY <1>2, <1>4 DEF Records
<1> HIDE DEF m
<1>7. /\ DOMAIN rows' = Runs /\ rows'[r] = d
      /\ \A x \in Runs \ {r} : rows'[x] = rows[x]
  BY <1>1, <1>5 DEF OnRuns
<1>8. "status" \in Types /\ lastResult' \in [Runs -> Nat]
  BY <1>1, <1>5 DEF Types, Rest
<1>9. told[r] = <<>>
  BY <1>3, OfRun
<1> QED BY <1>2, <1>3, <1>4, <1>5, <1>6, <1>7, <1>8, <1>9, PublishKeeps

LEMMA AnnouncedType ==
  ASSUME NEW d, GoodRow(d), Finished(d.status)
  PROVE  <<d.status>> \in Seq(FinishedStatuses) /\ Append(<<>>, d.status) = <<d.status>>
BY DEF Finished

LEMMA FinishRunKeeps ==
  ASSUME IInv, NEW r \in Runs, NEW status \in Outcomes, FinishRun(r, status)
  PROVE  IInv' /\ RowsMove
<1>1. PICK ok \in BOOLEAN :
        LET m == Realigned(r, Record(r), ok)
            d == Committed(r, Record(r), ok, status)
        IN  /\ Exists(r) /\ ~ Finished(Record(r).status)
            /\ Persist(r, Record(r), ok)
            /\ rows' = [rows EXCEPT ![r] = d]
            /\ cache' = [cache EXCEPT ![r] = Finalized(m, d)]
            /\ pub' = [pub EXCEPT ![r] = @ + Ended(r, d)]
            /\ IF Announces(m, d)
               THEN /\ subs' = Woken({r})
                    /\ told' = [told EXCEPT ![r] = Append(@, d.status)]
                    /\ journal' = [journal EXCEPT ![r] = <<>>]
               ELSE UNCHANGED <<subs, told, journal>>
            /\ UNCHANGED <<up, lastResult, seen, replayed, crashes>>
  BY DEF FinishRun
<1> DEFINE m == Realigned(r, Record(r), ok)
           d == Committed(r, Record(r), ok, status)
           mm == Finalized(m, d)
<1>2. /\ OnRuns /\ AllGood /\ Rest /\ TypeOK
      /\ Good(rows[r], cache[r], journal[r], told[r]) /\ GoodRow(rows[r])
  BY OfRun, IInvParts DEF IInv
<1>3. /\ Record(r) \in Records /\ Record(r).known
      /\ CacheBehindRow(Record(r).events, rows[r])
  BY RecordType
<1>4. rows[r].status # "absent" /\ told[r] = <<>> /\ (ok => Fits(rows[r], Record(r).events))
  BY <1>1, OfRun DEF Exists, Persist
<1>5. Moves(rows[r], d) /\ GoodRow(d) /\ Finished(d.status)
  BY <1>2, <1>3, <1>4, CommittedMoves DEF Moves
<1>6. m \in Records /\ m.known /\ CacheBehindRow(m.events, rows[r])
  BY <1>2, <1>3, RealignedType
<1>7. /\ rows' = [rows EXCEPT ![r] = d] /\ cache' = [cache EXCEPT ![r] = mm]
      /\ pub' = [pub EXCEPT ![r] = @ + Ended(r, d)]
      /\ \/ /\ subs' = Woken({r}) /\ told' = [told EXCEPT ![r] = Append(@, d.status)]
            /\ journal' = [journal EXCEPT ![r] = <<>>]
         \/ UNCHANGED <<subs, told, journal>>
      /\ (faults' = faults \/ faults' = faults + 1)
      /\ UNCHANGED <<up, lastResult, seen, replayed, crashes>>
  BY <1>1 DEF Persist, Fault
<1> HIDE DEF m, d
<1>8. /\ mm \in Records /\ mm.known /\ mm.status = d.status
      /\ CacheBehindRow(mm.events, d)
  <2>1. m.events \in Seq(Events)
    BY <1>6 DEF Records
  <2>2. CacheBehindRow(m.events, d)
    BY <1>2, <1>5, <1>6, <2>1, CacheStaysBehind
  <2> QED BY <1>5, <1>6, <2>2, FinalizedType
<1> HIDE DEF mm
<1>9. /\ OnRuns' /\ OthersKept(r) /\ rows'[r] = d /\ cache'[r] = mm
      /\ (told'[r] = <<>> \/ told'[r] = Append(<<>>, d.status))
      /\ (journal'[r] = <<>> \/ journal'[r] = journal[r])
  BY <1>2, <1>4, <1>7 DEF OnRuns, OthersKept
<1>10. Rest'
  <2>1. SubsOK'
    BY <1>2, <1>7, WokenType DEF SubsOK, Rest
  <2>2. pub' \in [Runs -> Nat]
    BY <1>2, <1>7 DEF Rest, Ended
  <2> QED BY <1>2, <1>7, <2>1, <2>2 DEF Rest
<1>11. Good(d, mm, journal[r], <<>>) /\ Good(d, mm, <<>>, <<>>)
  <2>1. Good(d, mm, journal[r], <<>>)
    BY <1>2, <1>4, <1>5, <1>8, StatusKinds, GoodStep DEF Finished
  <2> QED BY <2>1 DEF Good
<1>12. ASSUME NEW lines, Good(d, mm, lines, <<>>)
       PROVE  Good(d, mm, lines, Append(<<>>, d.status))
  <2>1. Append(<<>>, d.status) = <<d.status>> /\ <<d.status>> \in Seq(FinishedStatuses)
    BY <1>5, AnnouncedType
  <2> QED BY <1>5, <1>8, <1>12, <2>1 DEF Good, HeardIsSettled
<1>13. Good(rows'[r], cache'[r], journal'[r], told'[r])
  BY <1>9, <1>11, <1>12
<1> QED BY <1>2, <1>5, <1>9, <1>10, <1>13, OneRun

LEMMA RequestStopKeeps ==
  ASSUME IInv, NEW r \in Runs, RequestStop(r)
  PROVE  IInv' /\ RowsMove
<1>1. PICK ok \in BOOLEAN :
        LET m == Recounted(r, Stopping(cache[r]), ok)
            d == Flushed(r, cache[r], ok)
            s == AppendedRow(UpdatedRow(d, "stopping"), Payload(r, "stop"))
        IN  /\ up /\ cache[r].known /\ ~ Finished(cache[r].status)
            /\ Persist(r, cache[r], ok)
            /\ IF Finished(d.status)
               THEN /\ rows' = [rows EXCEPT ![r] = d]
                    /\ cache' = [cache EXCEPT ![r] = m]
                    /\ UNCHANGED <<subs, pub>>
               ELSE /\ rows' = [rows EXCEPT ![r] = s]
                    /\ cache' = [cache EXCEPT ![r] =
                                   [Mirrored(m, s, cache[r].count) EXCEPT !.count = s.count]]
                    /\ subs' = Woken({r})
                    /\ pub' = [pub EXCEPT ![r] = @ + 1]
            /\ UNCHANGED <<journal, up, lastResult, told, seen, replayed, crashes>>
  BY DEF RequestStop
<1> DEFINE m == Recounted(r, Stopping(cache[r]), ok)
           d == Flushed(r, cache[r], ok)
           u == UpdatedRow(d, "stopping")
           s == AppendedRow(u, Payload(r, "stop"))
           n == cache[r].count
           mm == [Mirrored(m, s, n) EXCEPT !.count = s.count]
<1>2. /\ OnRuns /\ AllGood /\ Rest /\ TypeOK
      /\ Good(rows[r], cache[r], journal[r], told[r]) /\ GoodRow(rows[r])
      /\ cache[r] \in Records /\ CacheBehindRow(cache[r].events, rows[r])
  BY OfRun, IInvParts DEF IInv
<1>3. cache[r].known /\ told[r] = <<>> /\ rows[r].status # "absent"
  BY <1>1, <1>2, OfRun, RecordType DEF Good
<1>4. ok => Fits(rows[r], cache[r].events)
  BY <1>1 DEF Persist
<1>5. Moves(rows[r], d) /\ d.status = rows[r].status /\ GoodRow(d)
  BY <1>2, <1>3, <1>4, FlushedMoves DEF Moves
<1>6. m \in Records /\ m.known /\ CacheBehindRow(m.events, rows[r])
  BY <1>2, <1>3, StoppedType
<1>7. /\ \/ /\ Finished(d.status)
            /\ rows' = [rows EXCEPT ![r] = d] /\ cache' = [cache EXCEPT ![r] = m]
            /\ UNCHANGED <<subs, pub>>
         \/ /\ ~ Finished(d.status)
            /\ rows' = [rows EXCEPT ![r] = s] /\ cache' = [cache EXCEPT ![r] = mm]
            /\ subs' = Woken({r}) /\ pub' = [pub EXCEPT ![r] = @ + 1]
      /\ (faults' = faults \/ faults' = faults + 1)
      /\ UNCHANGED <<journal, up, lastResult, told, seen, replayed, crashes>>
  BY <1>1 DEF Persist, Fault
<1>8. Rest'
  <2> HIDE DEF m, d, s, mm
  <2>1. SubsOK'
    BY <1>2, <1>7, WokenType DEF SubsOK, Rest
  <2>2. pub' = pub \/ pub' = [pub EXCEPT ![r] = @ + 1]
    BY <1>7, Zenon
  <2>3. pub' \in [Runs -> Nat]
    BY <1>2, <2>2 DEF Rest
  <2> QED BY <1>2, <1>7, <2>1, <2>3 DEF Rest
<1>9. m.events \in Seq(Events)
  BY <1>6 DEF Records
<1>10. CASE Finished(d.status)
  <2> HIDE DEF m, d, s, mm
  <2>1. CacheBehindRow(m.events, d)
    BY <1>2, <1>5, <1>6, <1>9, CacheStaysBehind
  <2>2. Good(d, m, journal[r], told[r])
    BY <1>2, <1>3, <1>5, <1>6, <2>1, GoodStep
  <2>3. /\ OnRuns' /\ OthersKept(r) /\ Good(rows'[r], cache'[r], journal'[r], told'[r])
        /\ Moves(rows[r], rows'[r])
    BY <1>2, <1>5, <1>7, <1>10, <2>2 DEF OnRuns, OthersKept
  <2> QED BY <1>2, <1>8, <2>3, OneRun
<1>11. CASE ~ Finished(d.status)
  <2>1. "stopping" \in ActiveStatuses /\ "stop" \in Types
    BY DEF ActiveStatuses, Types
  <2>2. Moves(d, u) /\ u.status = "stopping" /\ GoodRow(u)
    <3> HIDE DEF d
    <3> QED BY <1>3, <1>5, <1>11, <2>1, UpdatedRowMoves DEF Moves
  <2>3. Payload(r, "stop") \in Payloads /\ Payload(r, "stop").type = "stop"
    BY <1>2, <2>1, PayloadType
  <2>4. Moves(u, s)
    <3> HIDE DEF u
    <3> QED BY <2>1, <2>2, <2>3, AppendedRowMoves
  <2> HIDE DEF m, d, u, s
  <2>5. Moves(rows[r], s) /\ GoodRow(s)
    <3>1. Moves(rows[r], u)
      BY <1>2, <1>5, <2>2, MovesTransitive
    <3> QED BY <1>2, <2>4, <3>1, MovesTransitive DEF Moves
  <2>6. CacheBehindRow(m.events, s) /\ n \in Nat /\ s.count \in Nat /\ s.status # "absent"
    BY <1>2, <1>3, <1>6, <1>9, <2>5, CacheStaysBehind DEF Records, GoodRow, RowTypeOK, Moves
  <2>7. /\ Mirrored(m, s, n) \in Records /\ Mirrored(m, s, n).known
        /\ CacheBehindRow(Mirrored(m, s, n).events, s)
    BY <1>6, <2>5, <2>6, MirroredType
  <2>8. mm \in Records /\ mm.known /\ CacheBehindRow(mm.events, s)
    BY <2>6, <2>7 DEF Records
  <2> HIDE DEF mm
  <2>9. Good(s, mm, journal[r], told[r])
    BY <1>2, <1>3, <2>5, <2>6, <2>8, GoodStep
  <2>10. /\ OnRuns' /\ OthersKept(r) /\ Good(rows'[r], cache'[r], journal'[r], told'[r])
         /\ Moves(rows[r], rows'[r])
    BY <1>2, <1>7, <1>11, <2>5, <2>9 DEF OnRuns, OthersKept
  <2> QED BY <1>2, <1>8, <2>10, OneRun
<1> QED BY <1>10, <1>11

LEMMA MethodRaisesKeeps ==
  ASSUME IInv, NEW r \in Runs, MethodRaises(r)
  PROVE  IInv' /\ RowsMove
<1>1. PICK cut \in Cuts(r) :
        /\ Exists(r) /\ Fault
        /\ rows' = [rows EXCEPT ![r] = cut.row]
        /\ cache' = [cache EXCEPT ![r] = cut.record]
        /\ pub' = [pub EXCEPT ![r] = @ + Ended(r, cut.row)]
        /\ UNCHANGED <<journal, up, subs, lastResult, told, seen, replayed, crashes>>
  BY DEF MethodRaises
<1>2. /\ OnRuns /\ AllGood /\ Rest /\ GoodRow(rows[r])
      /\ Good(rows[r], cache[r], journal[r], told[r])
  BY OfRun, IInvParts
<1>3. /\ Moves(rows[r], cut.row) /\ cut.record \in Records /\ cut.record.known
      /\ CacheBehindRow(cut.record.events, rows[r])
      /\ told[r] = <<>> /\ rows[r].status # "absent"
  BY <1>1, CutsMove, OfRun DEF Exists
<1>4. CacheBehindRow(cut.record.events, cut.row)
  <2>1. cut.record.events \in Seq(Events)
    BY <1>3 DEF Records
  <2> QED BY <1>2, <1>3, <2>1, CacheStaysBehind
<1>5. Good(cut.row, cut.record, journal[r], told[r])
  <2>1. cut.row.status # "absent"
    BY <1>3 DEF Moves
  <2> QED BY <1>2, <1>3, <1>4, <2>1, GoodStep
<1>6. /\ OnRuns' /\ OthersKept(r) /\ Good(rows'[r], cache'[r], journal'[r], told'[r])
      /\ Moves(rows[r], rows'[r])
  BY <1>1, <1>2, <1>3, <1>5 DEF OnRuns, OthersKept
<1>7. Rest'
  <2>1. pub' \in [Runs -> Nat]
    BY <1>1, <1>2 DEF Rest, Ended
  <2> QED BY <1>1, <1>2, <2>1 DEF Rest, SubsOK, Fault
<1> QED BY <1>2, <1>6, <1>7, OneRun

\* Reading a run changes nothing but its record.
LEMMA ReadKeeps ==
  ASSUME IInv, NEW r \in Runs, NEW m \in Records, rows[r].status # "absent",
         CacheBehindRow(m.events, rows[r]), told[r] # <<>> => Finished(m.status),
         cache' = [cache EXCEPT ![r] = m], UNCHANGED <<rows, journal, told>>, Rest'
  PROVE  IInv' /\ RowsMove
<1>1. /\ OnRuns /\ AllGood /\ GoodRow(rows[r])
      /\ Good(rows[r], cache[r], journal[r], told[r])
  BY OfRun, IInvParts
<1>2. Good(rows[r], m, journal[r], told[r])
  BY <1>1, MovesReflexive, GoodStep
<1>3. /\ OnRuns' /\ OthersKept(r) /\ Good(rows'[r], cache'[r], journal'[r], told'[r])
      /\ Moves(rows[r], rows'[r])
  BY <1>1, <1>2, MovesReflexive DEF OnRuns, OthersKept
<1> QED BY <1>1, <1>3, OneRun

LEMMA ReplayStartKeeps ==
  ASSUME IInv, NEW r \in Runs, ReplayStart(r)
  PROVE  IInv' /\ RowsMove
<1> DEFINE m == Loaded(Hydrated(cache[r], rows[r]), rows[r])
<1>1. /\ cache[r] \in Records /\ GoodRow(rows[r]) /\ Rest
      /\ CacheBehindRow(cache[r].events, rows[r])
      /\ told[r] # <<>> => Finished(rows[r].status)
  BY OfRun, IInvParts
<1>2. m \in Records /\ m.status = rows[r].status /\ CacheBehindRow(m.events, rows[r])
  BY <1>1, HydratedType, LoadedType
<1>3. /\ rows[r].status # "absent" /\ cache' = [cache EXCEPT ![r] = m]
      /\ UNCHANGED <<rows, journal, up, subs, pub, lastResult, told, seen, faults, crashes>> /\ replayed' = TRUE
  BY DEF ReplayStart, Exists
<1> HIDE DEF m
<1>4. Rest'
  BY <1>1, <1>3 DEF Rest, SubsOK
<1> QED BY <1>1, <1>2, <1>3, <1>4, ReadKeeps

LEMMA SubscribeKeeps ==
  ASSUME IInv, NEW r \in Runs, NEW c \in Clients, NEW from \in 0 .. Top, Subscribe(c, r, from)
  PROVE  IInv' /\ RowsMove
<1>1. Record(r) \in Records /\ CacheBehindRow(Record(r).events, rows[r]) /\ Rest
  BY RecordType, IInvParts
<1>2. told[r] # <<>> => Finished(Record(r).status)
  BY OfRun
<1>3. /\ rows[r].status # "absent" /\ cache' = [cache EXCEPT ![r] = Record(r)]
      /\ subs' = [subs EXCEPT ![c] = [run |-> r, from |-> from, index |-> from,
                                      state |-> "ready"]]
      /\ UNCHANGED <<rows, journal, up, pub, lastResult, told, seen, replayed, faults, crashes>>
  BY DEF Subscribe, Exists
<1>4. SubsOK'
  <2>1. from \in Nat
    BY RunEventLogAssumption DEF Top
  <2> QED BY <1>1, <1>3, <2>1 DEF Rest, SubsOK, SubStates
<1>5. Rest'
  BY <1>1, <1>3, <1>4 DEF Rest
<1> QED BY <1>1, <1>2, <1>3, <1>5, ReadKeeps

LEMMA PollKeeps ==
  ASSUME IInv, NEW c \in Clients, Poll(c)
  PROVE  IInv' /\ RowsMove
<1> DEFINE r == subs[c].run
           i == subs[c].index
           m == Loaded(Record(r), rows[r])
<1>1. /\ Rest /\ subs[c] \in SubStates /\ r \in Runs
  BY IInvParts DEF Rest, SubsOK, Poll
<1>2. /\ GoodRow(rows[r])
      /\ told[r] # <<>> => Finished(Record(r).status)
  BY <1>1, OfRun
<1>3. /\ Record(r) \in Records /\ CacheBehindRow(Record(r).events, rows[r])
  BY <1>1, RecordType
<1>4. /\ m \in Records /\ m.status = Record(r).status
      /\ CacheBehindRow(m.events, rows[r])
  BY <1>2, <1>3, LoadedType
<1>5. /\ rows[r].status # "absent" /\ cache' = [cache EXCEPT ![r] = m]
      /\ \/ /\ i < Len(m.events)
            /\ seen' = [seen EXCEPT ![c] = Append(@, m.events[i + 1].payload)]
            /\ subs' = [subs EXCEPT ![c] = [subs[c] EXCEPT !.index = i + 1]]
         \/ /\ seen' = seen
            /\ \E state \in {"ended", "waiting"} :
                  subs' = [subs EXCEPT ![c] = [subs[c] EXCEPT !.state = state]]
      /\ subs[c].state # "idle"
      /\ UNCHANGED <<rows, journal, up, pub, lastResult, told, replayed, faults, crashes>>
  BY DEF Poll, Exists
<1> HIDE DEF m
<1>6. SubsOK'
  <2>1. i \in Nat
    BY <1>1 DEF SubStates
  <2>2. PICK s : /\ subs' = [subs EXCEPT ![c] = s]
                 /\ s \in {[subs[c] EXCEPT !.index = i + 1],
                          [subs[c] EXCEPT !.state = "ended"],
                          [subs[c] EXCEPT !.state = "waiting"]}
    BY <1>5
  <2>3. s \in SubStates /\ s.run = subs[c].run
    BY <1>1, <2>1, <2>2 DEF SubStates
  <2> QED BY <1>1, <2>2, <2>3 DEF Rest, SubsOK
<1>7. seen' \in [Clients -> Seq(Payloads)]
  <2>1. CASE i < Len(m.events) /\ seen' = [seen EXCEPT ![c] = Append(@, m.events[i + 1].payload)]
    <3>1. i \in Nat /\ m.events \in Seq(Events)
      BY <1>1, <1>4 DEF SubStates, Records
    <3>2. m.events[i + 1] \in Events
      BY <2>1, <3>1
    <3>3. m.events[i + 1].payload \in Payloads
      BY <3>2 DEF Events
    <3> QED BY <1>1, <2>1, <3>3 DEF Rest
  <2>2. CASE seen' = seen
    BY <1>1, <2>2 DEF Rest
  <2> QED BY <1>5, <2>1, <2>2
<1>8. Rest'
  BY <1>1, <1>5, <1>6, <1>7 DEF Rest
<1> QED BY <1>1, <1>2, <1>4, <1>5, <1>8, ReadKeeps

LEMMA UnsubscribeKeeps ==
  ASSUME IInv, NEW c \in Clients, Unsubscribe(c)
  PROVE  IInv' /\ RowsMove
<1>1. OnRuns /\ AllGood /\ Rest
  BY IInvParts
<1>2. OnRuns' /\ AllGood'
  BY <1>1 DEF OnRuns, AllGood, Unsubscribe
<1>3. SubsOK'
  BY <1>1 DEF Rest, SubsOK, SubStates, NoSub, Unsubscribe
<1>4. Rest'
  BY <1>1, <1>3 DEF Rest, Unsubscribe
<1>5. RowsMove
  BY <1>1, MovesReflexive DEF AllGood, Good, RowsMove, Unsubscribe
<1>6. IInv'
  BY <1>2, <1>4, IInvParts, PTL
<1> QED BY <1>5, <1>6

LEMMA NoRecordGood ==
  ASSUME NEW d, NEW m, NEW lines, NEW heard, Good(d, m, lines, heard),
         NEW e, Moves(d, e)
  PROVE  Good(e, NoRecord, lines, heard)
<1>1. NoRecord \in Records /\ ~ NoRecord.known /\ NoRecord.events = <<>>
  BY DEF NoRecord, Records, AllStatuses
<1> QED BY <1>1, EmptyCache, GoodStep

\* The death of the process, whatever row it leaves.
LEMMA DiesKeeps ==
  ASSUME IInv, Dies, DOMAIN rows' = Runs, \A r \in Runs : Moves(rows[r], rows'[r]),
         pub' \in [Runs -> Nat]
  PROVE  IInv' /\ RowsMove
<1>1. OnRuns /\ AllGood /\ Rest
  BY IInvParts
<1>2. /\ cache' = [r \in Runs |-> NoRecord] /\ subs' = [c \in Clients |-> NoSub]
      /\ seen' = [c \in Clients |-> <<>>] /\ up' = FALSE /\ crashes' = crashes + 1
      /\ UNCHANGED <<journal, lastResult, told, replayed, faults>>
  BY DEF Dies
<1>3. OnRuns'
  BY <1>1, <1>2 DEF OnRuns
<1>4. AllGood'
  <2>1. \A r \in Runs : Good(rows'[r], NoRecord, journal[r], told[r])
    BY <1>1, NoRecordGood DEF AllGood
  <2> QED BY <1>2, <2>1 DEF AllGood
<1>5. SubsOK'
  BY <1>2 DEF SubsOK, SubStates, NoSub
<1>6. seen' \in [Clients -> Seq(Payloads)]
  <2>1. <<>> \in Seq(Payloads)
    OBVIOUS
  <2> QED BY <1>2, <2>1
<1>7. lastResult' \in [Runs -> Nat] /\ replayed' \in BOOLEAN /\ faults' \in Nat /\ crashes' \in Nat
  BY <1>1, <1>2 DEF Rest
<1>8. Rest'
  BY <1>2, <1>5, <1>6, <1>7 DEF Rest
<1>9. IInv'
  BY <1>3, <1>4, <1>8, IInvParts, PTL
<1> QED BY <1>9 DEF RowsMove

LEMMA CrashKeeps ==
  ASSUME IInv, Crash
  PROVE  IInv' /\ RowsMove
<1>1. OnRuns /\ Rest /\ \A r \in Runs : GoodRow(rows[r])
  BY OfRun, IInvParts
<1>2. rows' = rows /\ pub' = pub /\ Dies
  BY DEF Crash
<1> QED BY <1>1, <1>2, MovesReflexive, DiesKeeps DEF OnRuns, Rest

LEMMA CrashInCreateKeeps ==
  ASSUME IInv, NEW r \in Runs, CrashInCreate(r)
  PROVE  IInv' /\ RowsMove
<1>1. OnRuns /\ Rest /\ \A x \in Runs : GoodRow(rows[x])
  BY OfRun, IInvParts
<1>2. /\ rows[r].status = "absent" /\ rows' = [rows EXCEPT ![r] = InsertedRow]
      /\ pub' = pub /\ Dies
  BY DEF CrashInCreate
<1>3. Moves(rows[r], InsertedRow)
  <2>1. rows[r].count = 0
    BY <1>1, <1>2 DEF GoodRow, RowWellFormed
  <2>2. InsertedRow.count = 0 /\ InsertedRow.status = "running"
    BY DEF InsertedRow
  <2>3. ~ Finished("absent")
    BY DEF Finished, FinishedStatuses
  <2> QED BY <1>2, <2>1, <2>2, <2>3, NoRowGood DEF Moves
<1>4. \A x \in Runs : rows'[x] = IF x = r THEN InsertedRow ELSE rows[x]
  BY <1>1, <1>2 DEF OnRuns
<1>5. \A x \in Runs : Moves(rows[x], rows'[x])
  BY <1>1, <1>3, <1>4, MovesReflexive
<1> QED BY <1>1, <1>2, <1>5, DiesKeeps DEF OnRuns, Rest

LEMMA CrashInMethodKeeps ==
  ASSUME IInv, NEW r \in Runs, CrashInMethod(r)
  PROVE  IInv' /\ RowsMove
<1>1. PICK cut \in Cuts(r) :
        /\ Exists(r)
        /\ rows' = [rows EXCEPT ![r] = cut.row]
        /\ pub' = [pub EXCEPT ![r] = @ + Ended(r, cut.row)]
        /\ Dies
  BY DEF CrashInMethod
<1>2. OnRuns /\ Rest /\ \A x \in Runs : GoodRow(rows[x])
  BY OfRun, IInvParts
<1>3. Moves(rows[r], cut.row)
  BY <1>1, CutsMove DEF Exists
<1>4. \A x \in Runs : rows'[x] = IF x = r THEN cut.row ELSE rows[x]
  BY <1>1, <1>2 DEF OnRuns
<1>5. \A x \in Runs : Moves(rows[x], rows'[x])
  BY <1>2, <1>3, <1>4, MovesReflexive
<1>6. pub' \in [Runs -> Nat] /\ DOMAIN rows' = Runs
  BY <1>1, <1>2 DEF Rest, OnRuns, Ended
<1> QED BY <1>1, <1>5, <1>6, DiesKeeps

\* A run whose row moved and to whose record a payload was added.
LEMMA PublishedGood ==
  ASSUME IInv, NEW r \in Runs, NEW m \in Records, m.known, NEW d, Moves(rows[r], d),
         d.status # "absent", CacheBehindRow(m.events, rows[r]),
         told[r] # <<>> => Finished(m.status),
         NEW p \in Payloads, p.type # "run_finished"
  PROVE  /\ Good(d, Cached(m, p), journal[r], told[r])
         /\ Good(d, Cached(m, p), Journaled(journal[r], Cached(m, p)), told[r])
<1> DEFINE mm == Cached(m, p)
<1>1. Good(rows[r], cache[r], journal[r], told[r]) /\ GoodRow(rows[r])
  BY OfRun
<1>2. CacheBehindRow(m.events, d)
  <2>1. m.events \in Seq(Events)
    BY DEF Records
  <2> QED BY <1>1, <2>1, CacheStaysBehind
<1>3. /\ mm \in Records /\ mm.known /\ mm.status = m.status
      /\ CacheBehindRow(mm.events, d)
      /\ Last(mm.events) \in Events /\ Last(mm.events).payload.type # "run_finished"
  BY <1>2, CachedType
<1> HIDE DEF mm
<1>4. Good(d, mm, journal[r], told[r])
  BY <1>1, <1>3, GoodStep
<1>5. Good(d, mm, Journaled(journal[r], mm), told[r])
  BY <1>3, <1>4, JournaledType DEF Good
<1> QED BY <1>4, <1>5 DEF mm

\* The row of a run that is created, and the record that announces it.
LEMMA StartedGood ==
  ASSUME IInv, NEW r \in Runs, rows[r].status = "absent"
  PROVE  /\ Moves(rows[r], InsertedRow) /\ GoodRow(InsertedRow)
         /\ told[r] = <<>>
         /\ Started(r) \in Records /\ Started(r).known
         /\ \A k \in DOMAIN Started(r).events :
               Started(r).events[k].payload.type # "run_finished"
         /\ Good(InsertedRow, Started(r), journal[r], told[r])
         /\ Good(InsertedRow, Started(r), Journaled(journal[r], Started(r)), told[r])
<1> DEFINE m == Hydrated(cache[r], InsertedRow)
           p == Payload(r, "run_started")
<1>1. TypeOK /\ GoodRow(rows[r]) /\ cache[r] \in Records /\ ~ Finished("absent")
      /\ CacheBehindRow(cache[r].events, rows[r]) /\ told[r] = <<>>
  <2>1. ~ Finished("absent")
    BY DEF Finished, FinishedStatuses
  <2> QED BY <2>1, OfRun DEF IInv
<1>2. InsertedRow.count = 0 /\ InsertedRow.status = "running" /\ ~ Finished("running")
  BY DEF InsertedRow, Finished, FinishedStatuses
<1>3. Moves(rows[r], InsertedRow)
  <2>1. rows[r].count = 0
    BY <1>1 DEF GoodRow, RowWellFormed
  <2> QED BY <1>1, <1>2, <2>1, NoRowGood DEF Moves
<1>4. m \in Records /\ m.known /\ CacheBehindRow(m.events, rows[r])
  BY <1>1, NoRowGood, HydratedType
<1>5. p \in Payloads /\ p.type # "run_finished"
  <2>1. "run_started" \in Types
    BY DEF Types
  <2> QED BY <1>1, <2>1, PayloadType
<1>6. Started(r) = Cached(m, p)
  BY DEF Started
<1> HIDE DEF m, p
<1>7. /\ Good(InsertedRow, Started(r), journal[r], told[r])
      /\ Good(InsertedRow, Started(r), Journaled(journal[r], Started(r)), told[r])
  BY <1>1, <1>2, <1>3, <1>4, <1>5, <1>6, PublishedGood
<1>8. Started(r) \in Records /\ Started(r).known
  BY <1>4, <1>5, <1>6, CachedType
<1>9. \A k \in DOMAIN Started(r).events : Started(r).events[k].payload.type # "run_finished"
  BY <1>2, <1>7 DEF Good, CacheBehindRow
<1> QED BY <1>1, <1>3, <1>7, <1>8, <1>9, NoRowGood

LEMMA ChildToldGood ==
  ASSUME IInv, NEW x \in Runs, rows[x].status # "absent"
  PROVE  /\ Good(rows[x], ChildTold(x), journal[x], told[x])
         /\ Good(rows[x], ChildTold(x), Journaled(journal[x], ChildTold(x)), told[x])
<1>1. /\ Record(x) \in Records /\ Record(x).known
      /\ CacheBehindRow(Record(x).events, rows[x])
  BY RecordType
<1>2. TypeOK /\ Moves(rows[x], rows[x])
  BY OfRun, MovesReflexive DEF IInv
<1>3. told[x] # <<>> => Finished(Record(x).status)
  BY OfRun
<1>4. Payload(x, "content") \in Payloads /\ Payload(x, "content").type # "run_finished"
  <2>1. "content" \in Types
    BY DEF Types
  <2> QED BY <1>2, <2>1, PayloadType
<1> QED BY <1>1, <1>2, <1>3, <1>4, PublishedGood DEF ChildTold

LEMMA CreateRunKeeps ==
  ASSUME IInv, NEW r \in Runs, NEW parent \in Parents(r), CreateRun(r, parent)
  PROVE  IInv' /\ RowsMove
<1> DEFINE published == {r, parent} \ {"none"}
           m(x) == IF x = r THEN Started(r) ELSE ChildTold(x)
<1>1. OnRuns /\ AllGood /\ Rest /\ TypeOK
  BY IInvParts DEF IInv
<1>2. /\ rows[r].status = "absent" /\ rows' = [rows EXCEPT ![r] = InsertedRow]
      /\ cache' = [x \in Runs |-> IF x \in published THEN m(x) ELSE cache[x]]
      /\ journal' = [x \in Runs |-> IF x \in published THEN Journaled(journal[x], m(x))
                                    ELSE journal[x]]
      /\ pub' = [x \in Runs |-> IF x \in published THEN pub[x] + 1 ELSE pub[x]]
      /\ subs' = Woken(published)
      /\ UNCHANGED <<up, lastResult, told, seen, replayed, faults, crashes>>
  BY DEF CreateRun
<1>3. \A x \in Runs \ {r} : x \in published => rows[x].status # "absent"
  BY DEF Parents, Exists
<1>4. OnRuns'
  BY <1>1, <1>2 DEF OnRuns
<1>5. r \in published
  BY RunEventLogAssumption
<1> HIDE DEF published, m
<1>6. ASSUME NEW x \in Runs
      PROVE  Good(rows'[x], cache'[x], journal'[x], told'[x])
  <2>1. CASE x = r
    <3>1. /\ rows'[x] = InsertedRow /\ cache'[x] = Started(r) /\ told'[x] = told[r]
          /\ journal'[x] = Journaled(journal[r], Started(r))
      BY <1>1, <1>2, <1>5, <2>1 DEF OnRuns, m
    <3> QED BY <1>2, <3>1, StartedGood
  <2>2. CASE x # r /\ x \in published
    <3>1. /\ rows'[x] = rows[x] /\ cache'[x] = ChildTold(x) /\ told'[x] = told[x]
          /\ journal'[x] = Journaled(journal[x], ChildTold(x))
      BY <1>1, <1>2, <2>2 DEF OnRuns, m
    <3> QED BY <1>3, <2>2, <3>1, ChildToldGood
  <2>3. CASE x # r /\ x \notin published
    <3>1. /\ rows'[x] = rows[x] /\ cache'[x] = cache[x] /\ told'[x] = told[x]
          /\ journal'[x] = journal[x]
      BY <1>1, <1>2, <2>3 DEF OnRuns
    <3> QED BY <1>1, <3>1 DEF AllGood
  <2> QED BY <2>1, <2>2, <2>3
<1>7. Rest'
  <2>1. SubsOK'
    BY <1>1, <1>2, WokenType DEF SubsOK
  <2>2. pub' \in [Runs -> Nat]
    BY <1>1, <1>2 DEF Rest
  <2> QED BY <1>1, <1>2, <2>1, <2>2 DEF Rest
<1>8. AllGood'
  BY <1>6 DEF AllGood
<1>9. IInv'
  BY <1>4, <1>7, <1>8, IInvParts, PTL
<1>10. RowsMove
  <2>1. \A x \in Runs : rows'[x] = IF x = r THEN InsertedRow ELSE rows[x]
    BY <1>1, <1>2 DEF OnRuns
  <2> QED BY <1>1, <1>2, <2>1, StartedGood, MovesReflexive DEF AllGood, Good, RowsMove
<1> QED BY <1>9, <1>10

LEMMA CreateRunInterruptedKeeps ==
  ASSUME IInv, NEW r \in Runs, NEW parent \in Parents(r), CreateRunInterrupted(r, parent)
  PROVE  IInv' /\ RowsMove
<1> DEFINE m == [Started(r) EXCEPT !.events = <<>>]
           p == [Terminal(r, InsertedRow) EXCEPT !.no = pub[r] + 2]
           d == FinishedRow(InsertedRow, "interrupted", p)
           mm == Finalized(m, d)
<1>1. OnRuns /\ AllGood /\ Rest /\ TypeOK
  BY IInvParts DEF IInv
<1>2. /\ rows[r].status = "absent"
      /\ rows' = [rows EXCEPT ![r] = d]
      /\ cache' = [x \in Runs |-> IF x = r THEN mm
                                  ELSE IF x = parent THEN ChildTold(x) ELSE cache[x]]
      /\ \E lines \in {<<>>, Started(r).events} : journal' = [journal EXCEPT ![r] = lines]
      /\ pub' = [x \in Runs |-> IF x = r THEN pub[x] + 2
                                ELSE IF x = parent THEN pub[x] + 1 ELSE pub[x]]
      /\ \/ told' = [told EXCEPT ![r] = Append(@, d.status)]
         \/ told' = [told EXCEPT ![r] = @]
      /\ (subs' = Woken({r}) \/ subs' = subs)
      /\ faults' = faults + 1
      /\ UNCHANGED <<up, lastResult, seen, replayed, crashes>>
  <2> DEFINE childs == parent # "none"
  <2>1. /\ rows[r].status = "absent" /\ faults' = faults + 1
        /\ rows' = [rows EXCEPT ![r] = d]
        /\ cache' = [x \in Runs |-> IF x = r THEN mm
                                    ELSE IF x = parent THEN ChildTold(x) ELSE cache[x]]
        /\ journal' = [journal EXCEPT ![r] = IF Announces(m, d) \/ ~childs THEN <<>>
                                             ELSE Started(r).events]
        /\ pub' = [x \in Runs |-> IF x = r THEN pub[x] + 2
                                  ELSE IF x = parent THEN pub[x] + 1 ELSE pub[x]]
        /\ told' = [told EXCEPT ![r] = IF Announces(m, d) THEN Append(@, d.status) ELSE @]
        /\ subs' = (IF Announces(m, d) THEN Woken({r}) ELSE subs)
        /\ UNCHANGED <<up, lastResult, seen, replayed, crashes>>
    BY Zenon DEF CreateRunInterrupted, Fault
  <2>2. \E lines \in {<<>>, Started(r).events} : journal' = [journal EXCEPT ![r] = lines]
    BY <2>1, Zenon
  <2>3. \/ told' = [told EXCEPT ![r] = Append(@, d.status)]
        \/ told' = [told EXCEPT ![r] = @]
    <3> HIDE DEF m, d
    <3>1. CASE Announces(m, d)
      BY <2>1, <3>1
    <3>2. CASE ~ Announces(m, d)
      BY <2>1, <3>2
    <3> QED BY <3>1, <3>2
  <2>4. subs' = Woken({r}) \/ subs' = subs
    BY <2>1, Zenon
  <2> HIDE DEF m, d, mm, childs
  <2> QED BY <2>1, <2>2, <2>3, <2>4
<1>3. \A x \in Runs \ {r} : x = parent => rows[x].status # "absent"
  BY RunEventLogAssumption DEF Parents, Exists
<1>4. /\ Moves(rows[r], InsertedRow) /\ GoodRow(InsertedRow) /\ told[r] = <<>>
      /\ Started(r) \in Records /\ Started(r).known
      /\ \A k \in DOMAIN Started(r).events :
            Started(r).events[k].payload.type # "run_finished"
      /\ Good(InsertedRow, Started(r), journal[r], told[r])
  BY <1>2, StartedGood
<1>5. p \in Payloads /\ p.type = "run_finished"
  <2>1. Terminal(r, InsertedRow) \in Payloads /\ Terminal(r, InsertedRow).type = "run_finished"
    BY <1>1, <1>4, TerminalType
  <2>2. pub[r] + 2 \in Nat
    BY <1>1 DEF Rest
  <2> QED BY <2>1, <2>2 DEF Payloads
<1>6. Moves(InsertedRow, d) /\ Finished(d.status) /\ GoodRow(d)
  <2>1. "interrupted" \in FinishedStatuses
    BY DEF FinishedStatuses
  <2> HIDE DEF p
  <2> QED BY <1>4, <1>5, <2>1, FinishedRowMoves DEF Moves
<1> HIDE DEF p, d
<1>7. m \in Records /\ m.known /\ m.events = <<>>
  BY <1>4, EmptyCache DEF Records
<1> HIDE DEF m
<1>8. mm \in Records /\ mm.known /\ mm.status = d.status /\ CacheBehindRow(mm.events, d)
  BY <1>6, <1>7, EmptyCache, FinalizedType
<1> HIDE DEF mm
<1>9. Good(d, mm, journal[r], <<>>)
  <2>1. d.status # "absent"
    BY <1>6, StatusKinds DEF Finished
  <2> QED BY <1>4, <1>6, <1>8, <2>1, GoodStep
<1>10. ASSUME NEW lines \in {<<>>, Started(r).events}
       PROVE  Good(d, mm, lines, <<>>)
  <2>1. lines \in Seq(Events) /\ \A k \in DOMAIN lines : lines[k].payload.type # "run_finished"
    <3>1. CASE lines = <<>>
      BY <3>1
    <3>2. CASE lines = Started(r).events
      BY <1>4, <3>2 DEF Records
    <3> QED BY <3>1, <3>2
  <2> QED BY <1>9, <2>1 DEF Good
<1>11. ASSUME NEW lines, Good(d, mm, lines, <<>>)
       PROVE  Good(d, mm, lines, Append(<<>>, d.status))
  <2>1. Append(<<>>, d.status) = <<d.status>> /\ <<d.status>> \in Seq(FinishedStatuses)
    BY <1>6, AnnouncedType
  <2> QED BY <1>6, <1>8, <1>11, <2>1 DEF Good, HeardIsSettled
<1>12. OnRuns'
  BY <1>1, <1>2 DEF OnRuns
<1>13. ASSUME NEW x \in Runs
       PROVE  Good(rows'[x], cache'[x], journal'[x], told'[x])
  <2>1. CASE x = r
    <3>1. /\ rows'[x] = d /\ cache'[x] = mm /\ journal'[x] \in {<<>>, Started(r).events}
          /\ (told'[x] = <<>> \/ told'[x] = Append(<<>>, d.status))
      BY <1>1, <1>2, <1>4, <2>1 DEF OnRuns
    <3> QED BY <1>10, <1>11, <3>1
  <2>2. CASE x # r /\ x = parent
    <3>1. /\ rows'[x] = rows[x] /\ cache'[x] = ChildTold(x) /\ told'[x] = told[x]
          /\ journal'[x] = journal[x]
      BY <1>1, <1>2, <2>2 DEF OnRuns
    <3> QED BY <1>3, <2>2, <3>1, ChildToldGood
  <2>3. CASE x # r /\ x # parent
    <3>1. /\ rows'[x] = rows[x] /\ cache'[x] = cache[x] /\ told'[x] = told[x]
          /\ journal'[x] = journal[x]
      BY <1>1, <1>2, <2>3 DEF OnRuns
    <3> QED BY <1>1, <3>1 DEF AllGood
  <2> QED BY <2>1, <2>2, <2>3
<1>14. Rest'
  <2>1. SubsOK'
    BY <1>1, <1>2, WokenType DEF SubsOK, Rest
  <2>2. pub' \in [Runs -> Nat]
    BY <1>1, <1>2 DEF Rest
  <2> QED BY <1>1, <1>2, <2>1, <2>2 DEF Rest
<1>15. AllGood'
  BY <1>13 DEF AllGood
<1>16. IInv'
  BY <1>12, <1>14, <1>15, IInvParts, PTL
<1>17. RowsMove
  <2>1. Moves(rows[r], d)
    <3>1. GoodRow(rows[r])
      BY OfRun
    <3> QED BY <1>4, <1>6, <3>1, MovesTransitive
  <2>2. \A x \in Runs : rows'[x] = IF x = r THEN d ELSE rows[x]
    BY <1>1, <1>2 DEF OnRuns
  <2> QED BY <1>1, <2>1, <2>2, MovesReflexive DEF AllGood, Good, RowsMove
<1> QED BY <1>16, <1>17

LEMMA RestartKeeps ==
  ASSUME IInv, Restart
  PROVE  IInv' /\ RowsMove
<1> DEFINE i(r) == IF InterruptsFirst THEN Interrupted(r) ELSE rows[r]
           d(r) == Recovered(i(r), journal[r])
<1>1. OnRuns /\ AllGood /\ Rest /\ TypeOK
  BY IInvParts DEF IInv
<1>2. /\ rows' = [r \in Runs |-> d(r)]
      /\ cache' = [r \in Runs |-> HydratedActive(d(r))]
      /\ pub' = [r \in Runs |-> pub[r] + Ended(r, d(r))]
      /\ up' = TRUE
      /\ UNCHANGED <<journal, subs, lastResult, told, seen, replayed, faults, crashes>>
  BY DEF Restart
<1>3. ASSUME NEW r \in Runs PROVE Moves(rows[r], d(r))
  <2>1. GoodRow(rows[r]) /\ Good(rows[r], cache[r], journal[r], told[r])
    BY OfRun
  <2>2. Moves(rows[r], Interrupted(r))
    <3>1. Terminal(r, rows[r]) \in Payloads /\ Terminal(r, rows[r]).type = "run_finished"
      BY <1>1, <2>1, TerminalType
    <3>2. "interrupted" \in FinishedStatuses
      BY DEF FinishedStatuses
    <3>3. Moves(rows[r], FinishedRow(rows[r], "interrupted", Terminal(r, rows[r])))
      BY <2>1, <3>1, <3>2, FinishedRowMoves
    <3> QED BY <2>1, <3>3, MovesReflexive DEF Interrupted
  <2>3. Moves(rows[r], i(r)) /\ GoodRow(i(r))
    BY <2>1, <2>2, MovesReflexive DEF Moves
  <2> HIDE DEF i
  <2>4. Moves(i(r), d(r))
    <3>1. CASE i(r).status \in ActiveStatuses /\ Fits(i(r), journal[r])
      <4>1. i(r).status # "absent"
        BY <3>1, StatusKinds
      <4>2. journal[r] \in Seq(Events) /\ CacheBehindRow(journal[r], i(r))
        BY <2>1 DEF Good, CacheBehindRow
      <4> QED BY <2>3, <3>1, <4>1, <4>2, StoredMoves DEF Recovered
    <3>2. CASE ~ (i(r).status \in ActiveStatuses /\ Fits(i(r), journal[r]))
      BY <2>3, <3>2, MovesReflexive DEF Recovered
    <3> QED BY <3>1, <3>2
  <2> HIDE DEF d
  <2> QED BY <2>1, <2>3, <2>4, MovesTransitive
<1> HIDE DEF d
<1>4. ASSUME NEW r \in Runs PROVE Good(d(r), HydratedActive(d(r)), journal[r], told[r])
  <2>1. Good(rows[r], cache[r], journal[r], told[r]) /\ Moves(rows[r], d(r)) /\ GoodRow(d(r))
    BY <1>3, OfRun DEF Moves
  <2>2. Good(d(r), NoRecord, journal[r], told[r])
    BY <2>1, NoRecordGood
  <2>3. CASE d(r).status \in ActiveStatuses
    <3>1. NoRecord \in Records /\ NoRecord.events = <<>>
      BY DEF NoRecord, Records, AllStatuses
    <3>2. /\ HydratedActive(d(r)) \in Records /\ HydratedActive(d(r)).events = <<>>
      BY <2>1, <2>3, <3>1, HydratedType DEF HydratedActive
    <3>3. told[r] = <<>> /\ d(r).status # "absent"
      BY <2>2, <2>3, StatusKinds DEF Good, HeardIsSettled
    <3> QED BY <2>2, <3>2, <3>3, EmptyCache DEF Good, HeardIsSettled
  <2>4. CASE d(r).status \notin ActiveStatuses
    BY <2>2, <2>4 DEF HydratedActive
  <2> QED BY <2>3, <2>4
<1>5. OnRuns'
  BY <1>1, <1>2 DEF OnRuns
<1>6. AllGood'
  BY <1>2, <1>4 DEF AllGood
<1>7. Rest'
  <2>1. pub' \in [Runs -> Nat]
    BY <1>1, <1>2 DEF Rest, Ended
  <2> QED BY <1>1, <1>2, <2>1 DEF Rest, SubsOK
<1>8. IInv'
  BY <1>5, <1>6, <1>7, IInvParts, PTL
<1>9. RowsMove
  BY <1>2, <1>3 DEF RowsMove
<1> QED BY <1>8, <1>9

-----------------------------------------------------------------------------
(* The theorems *)

LEMMA InitIInv == Init => IInv
<1> SUFFICES ASSUME Init PROVE IInv
  OBVIOUS
<1>1. OnRuns /\ Rest
  <2>1. SubsOK
    BY DEF Init, SubsOK, SubStates, NoSub
  <2>2. seen \in [Clients -> Seq(Payloads)]
    <3>1. <<>> \in Seq(Payloads)
      OBVIOUS
    <3> QED BY <3>1 DEF Init
  <2>3. OnRuns
    BY DEF Init, OnRuns
  <2> QED BY <2>1, <2>2, <2>3 DEF Init, Rest
<1>2. Good(NoRow, NoRecord, <<>>, <<>>)
  <2>1. NoRecord \in Records /\ ~ NoRecord.known /\ NoRecord.events = <<>>
    BY DEF NoRecord, Records, AllStatuses
  <2> QED BY <2>1, NoRowGood, EmptyCache DEF Good, HeardIsSettled
<1>3. AllGood
  BY <1>2 DEF Init, AllGood
<1> QED BY <1>1, <1>3, IInvParts

\* Every step of the specification preserves IInv and moves the rows.
LEMMA StepIInv ==
  ASSUME IInv, [Next]_vars
  PROVE  IInv' /\ RowsMove
<1>1. ASSUME NEW r \in Runs, NEW parent \in Parents(r), CreateRun(r, parent)
      PROVE  IInv' /\ RowsMove
  BY <1>1, CreateRunKeeps
<1>2. ASSUME NEW r \in Runs, NEW parent \in Parents(r), CreateRunInterrupted(r, parent)
      PROVE  IInv' /\ RowsMove
  BY <1>2, CreateRunInterruptedKeeps
<1>3. ASSUME NEW r \in Runs, NEW type \in {"content", "result"}, AppendEvent(r, type)
      PROVE  IInv' /\ RowsMove
  BY <1>3, AppendEventKeeps
<1>4. ASSUME NEW r \in Runs, NEW status \in {"waiting_approval", "running"},
             UpdateStatus(r, status)
      PROVE  IInv' /\ RowsMove
  BY <1>4, UpdateStatusKeeps
<1>5. ASSUME NEW r \in Runs, NEW status \in Outcomes, FinishRun(r, status)
      PROVE  IInv' /\ RowsMove
  BY <1>5, FinishRunKeeps
<1>6. ASSUME NEW r \in Runs, RequestStop(r) PROVE IInv' /\ RowsMove
  BY <1>6, RequestStopKeeps
<1>7. ASSUME NEW r \in Runs, MethodRaises(r) PROVE IInv' /\ RowsMove
  BY <1>7, MethodRaisesKeeps
<1>8. ASSUME NEW r \in Runs, ReplayStart(r) PROVE IInv' /\ RowsMove
  BY <1>8, ReplayStartKeeps
<1>9. ASSUME NEW r \in Runs, NEW c \in Clients, NEW from \in 0 .. Top, Subscribe(c, r, from)
      PROVE  IInv' /\ RowsMove
  BY <1>9, SubscribeKeeps
<1>10. ASSUME NEW r \in Runs, CrashInCreate(r) PROVE IInv' /\ RowsMove
  BY <1>10, CrashInCreateKeeps
<1>11. ASSUME NEW r \in Runs, CrashInMethod(r) PROVE IInv' /\ RowsMove
  BY <1>11, CrashInMethodKeeps
<1>12. ASSUME NEW c \in Clients, Poll(c) PROVE IInv' /\ RowsMove
  BY <1>12, PollKeeps
<1>13. ASSUME NEW c \in Clients, Unsubscribe(c) PROVE IInv' /\ RowsMove
  BY <1>13, UnsubscribeKeeps
<1>14. ASSUME Crash PROVE IInv' /\ RowsMove
  BY <1>14, CrashKeeps
<1>15. ASSUME Restart PROVE IInv' /\ RowsMove
  BY <1>15, RestartKeeps
<1>16. ASSUME UNCHANGED vars PROVE IInv' /\ RowsMove
  <2>1. OnRuns /\ AllGood /\ Rest
    BY IInvParts
  <2>2. OnRuns' /\ AllGood' /\ Rest'
    BY <1>16, <2>1 DEF vars, OnRuns, AllGood, Rest, SubsOK
  <2>3. RowsMove
    BY <1>16, <2>1, MovesReflexive DEF vars, AllGood, Good, RowsMove
  <2>4. IInv'
    BY <2>2, IInvParts, PTL
  <2> QED BY <2>3, <2>4
<1> QED BY <1>1, <1>2, <1>3, <1>4, <1>5, <1>6, <1>7, <1>8, <1>9, <1>10, <1>11, <1>12,
           <1>13, <1>14, <1>15, <1>16, Zenon DEF Next

\* IInv holds in every reachable state.
THEOREM Invariance == Spec => []IInv
<1>1. IInv /\ [Next]_vars => IInv'
  BY StepIInv
<1> QED BY InitIInv, <1>1, PTL DEF Spec

\* Rows, records, journal lines, subscriptions and counters keep their types,
\* whatever interleaving of calls, errors and deaths.
THEOREM TypeCorrect == Spec => []TypeOK
<1>1. IInv => TypeOK
  BY DEF IInv
<1> QED BY Invariance, <1>1, PTL

\* An active row has all its events and no terminal one, a finished row exactly
\* one, after any failure between two transactions.
THEOREM RowsStayWellFormed == Spec => []RowsWellFormed
<1>1. IInv => RowsWellFormed
  BY DEF IInv
<1> QED BY Invariance, <1>1, PTL

\* A final status in SQLite, and the events stored with it, never change again.
THEOREM FinishedStaysFinal == Spec => FinishedIsFinal
<1>1. IInv /\ [Next]_vars =>
        [\A r \in Runs : Finished(rows[r].status) =>
            /\ rows'[r].status = rows[r].status
            /\ \A i \in DOMAIN rows[r].events :
                  i \in DOMAIN rows'[r].events /\ rows'[r].events[i] = rows[r].events[i]]_vars
  BY StepIInv DEF RowsMove, Moves
<1> QED BY Invariance, <1>1, PTL DEF Spec, FinishedIsFinal

\* The finish listeners hear of a run at most once, and only what SQLite keeps.
THEOREM ListenersHearTheTruth == Spec => []ToldTheTruth
<1>1. IInv => ToldTheTruth
  BY DEF IInv, ToldTheTruth, HeardIsSettled
<1> QED BY Invariance, <1>1, PTL

-----------------------------------------------------------------------------
(* A run that was asked to stop *)

\* A stop event is set on a record that is there.
StopsAreKnown == \A r \in Runs : cache[r].stopped => cache[r].known

LEMMA RecordsKeepStops ==
  ASSUME NEW m \in Records
  PROVE  /\ \A d : GoodRow(d) => Hydrated(m, d).known /\ Hydrated(m, d).stopped = m.stopped
         /\ \A p : Cached(m, p).known = m.known /\ Cached(m, p).stopped = m.stopped
         /\ \A d, i : Mirrored(m, d, i).known = m.known /\ Mirrored(m, d, i).stopped = m.stopped
         /\ \A d : Finalized(m, d).known = m.known /\ Finalized(m, d).stopped = m.stopped
         /\ \A d : Loaded(m, d).known = m.known /\ Loaded(m, d).stopped = m.stopped
BY DEF Hydrated, Cached, Mirrored, Finalized, Loaded, Records

-----------------------------------------------------------------------------
(* The log of a run: what was published for it, whatever part of it is in the *)
(* row, in the journal and in the cache.                                      *)

Logs(n) == {log \in [0 .. n - 1 -> Payloads] : \A i \in 0 .. n - 1 : log[i].no = i + 1 /\ log[i].type # "run_finished"}

InRow(log, d) == \A i \in 0 .. d.count - 1 : d.events[i] = log[i]

\* The events hold what the row does not have yet, each payload once.
Covers(log, n, d, events) ==
    /\ \A k \in DOMAIN events :
          /\ events[k].index \in 0 .. n - 1
          /\ events[k].index >= d.count => events[k].payload = log[events[k].index]
    /\ \A j, k \in DOMAIN events : events[j].index = events[k].index => j = k
    /\ \A i \in d.count .. (n - 1) : \E k \in DOMAIN events : events[k].index = i

\* The cache holds the end of the log, from the row's count or before on.
InCache(log, n, d, m) ==
    /\ m.known /\ ~Finished(m.status) /\ m.count = n
    /\ Len(m.events) <= n /\ n - Len(m.events) <= d.count
    /\ \A k \in DOMAIN m.events :
          /\ m.events[k].index = n - Len(m.events) + k - 1
          /\ m.events[k].payload = log[n - Len(m.events) + k - 1]

LastIn(log, n, last) ==
    /\ last \in 0 .. n
    /\ last # 0 => log[last - 1].type = "result"
    /\ \A i \in last .. (n - 1) : log[i].type # "result"

Logged(log, n, d, lines, m, live, last) ==
    /\ log \in Logs(n) /\ d.count <= n /\ n <= MaxEvents + 1
    /\ InRow(log, d) /\ Covers(log, n, d, lines)
    /\ live => InCache(log, n, d, m)
    /\ LastIn(log, n, last)

Longer(log, n, p) == [i \in 0 .. n |-> IF i = n THEN p ELSE log[i]]

LEMMA LongerLog ==
  ASSUME NEW n \in Nat, NEW log \in Logs(n), NEW p \in Payloads, p.no = n + 1, p.type # "run_finished"
  PROVE  /\ Longer(log, n, p) \in Logs(n + 1)
         /\ \A i \in 0 .. n - 1 : Longer(log, n, p)[i] = log[i]
         /\ Longer(log, n, p)[n] = p
<1>1. 0 .. (n + 1) - 1 = 0 .. n
  OBVIOUS
<1>2. Longer(log, n, p) \in [0 .. n -> Payloads]
  BY DEF Longer, Logs
<1>3. /\ \A i \in 0 .. n - 1 : Longer(log, n, p)[i] = log[i]
      /\ Longer(log, n, p)[n] = p
  BY DEF Longer
<1>4. \A i \in 0 .. n : Longer(log, n, p)[i].no = i + 1 /\ Longer(log, n, p)[i].type # "run_finished"
  <2> SUFFICES ASSUME NEW i \in 0 .. n, i # n PROVE log[i].no = i + 1 /\ log[i].type # "run_finished"
    BY <1>3
  <2> QED  BY DEF Logs
<1> QED  BY <1>1, <1>2, <1>3, <1>4 DEF Logs

\* What the cache holds covers what the row does not have.
LEMMA CacheCovers ==
  ASSUME NEW n \in Nat, NEW log \in Logs(n), NEW d, d.count \in Nat, d.count <= n,
         NEW m \in Records, InCache(log, n, d, m)
  PROVE  Covers(log, n, d, m.events)
<1> DEFINE ev == m.events
<1>1. ev \in Seq(Events) /\ Len(ev) \in Nat /\ DOMAIN ev = 1 .. Len(ev) /\ Len(ev) <= n /\ n - Len(ev) <= d.count
  BY DEF Records, InCache
<1>2. \A k \in DOMAIN ev : ev[k].index = n - Len(ev) + k - 1 /\ ev[k].payload = log[ev[k].index]
  BY DEF InCache
<1> HIDE DEF ev
<1>3. \A i \in d.count .. (n - 1) : i - (n - Len(ev)) + 1 \in DOMAIN ev /\ ev[i - (n - Len(ev)) + 1].index = i
  <2> SUFFICES ASSUME NEW i \in d.count .. (n - 1)
               PROVE  i - (n - Len(ev)) + 1 \in DOMAIN ev /\ ev[i - (n - Len(ev)) + 1].index = i
    OBVIOUS
  <2>1. i - (n - Len(ev)) + 1 \in DOMAIN ev
    BY <1>1
  <2>2. n - Len(ev) + (i - (n - Len(ev)) + 1) - 1 = i
    BY <1>1
  <2> QED  BY <1>2, <2>1, <2>2
<1>4. \A j, k \in DOMAIN ev : ev[j].index = ev[k].index => j = k
  BY <1>1, <1>2
<1>5. \A k \in DOMAIN ev : ev[k].index \in 0 .. n - 1
  BY <1>1, <1>2
<1> QED  BY <1>2, <1>3, <1>4, <1>5 DEF Covers, ev

\* Events that cover the rest of the log fit the row, and make it complete.
LEMMA CoveringFits ==
  ASSUME NEW n \in Nat, n <= MaxEvents + 1, NEW log \in Logs(n), NEW d, d.count \in Nat, d.count <= n,
         NEW events \in Seq(Events), Covers(log, n, d, events), InRow(log, d), DOMAIN d.events = 0 .. d.count - 1
  PROVE  /\ Fits(d, events)
         /\ Stored(d, events).count = n /\ Stored(d, events).status = d.status
         /\ InRow(log, Stored(d, events))
<1> DEFINE unstored == {k \in DOMAIN events : events[k].index >= d.count}
           held == {events[k].index : k \in unstored}
           top == CHOOSE top \in d.count .. Top : FitsUpTo(d, events, top)
           at(i) == CHOOSE k \in DOMAIN events : events[k].index = i
<1>1. \A k \in DOMAIN events : events[k].index \in 0 .. n - 1
  BY DEF Covers
<1>2. held = d.count .. (n - 1)
  <2>1. held \subseteq d.count .. (n - 1)
    BY <1>1
  <2>2. d.count .. (n - 1) \subseteq held
    <3> SUFFICES ASSUME NEW i \in d.count .. (n - 1) PROVE i \in held
      OBVIOUS
    <3>1. PICK k \in DOMAIN events : events[k].index = i
      BY DEF Covers
    <3>2. k \in unstored
      BY <3>1
    <3> QED  BY <3>1, <3>2
  <2> QED  BY <2>1, <2>2
<1>3. FitsUpTo(d, events, n)
  BY <1>2 DEF FitsUpTo, Covers
<1>4. n \in d.count .. Top
  BY RunEventLogAssumption DEF Top
<1>5. Fits(d, events) /\ top \in d.count .. Top /\ FitsUpTo(d, events, top)
  BY <1>3, <1>4 DEF Fits
<1> HIDE DEF top
<1>6. top = n
  <2>1. held = d.count .. (top - 1)
    BY <1>5 DEF FitsUpTo
  <2>2. top \in Int /\ d.count <= top
    BY <1>5
  <2>3. d.count .. (n - 1) = d.count .. (top - 1)
    BY <1>2, <2>1
  <2>4. CASE top < n
    <3>1. n - 1 \in d.count .. (n - 1) /\ n - 1 \notin d.count .. (top - 1)
      BY <2>2, <2>4
    <3> QED  BY <2>3, <3>1
  <2>5. CASE top > n
    <3>1. top - 1 \in d.count .. (top - 1) /\ top - 1 \notin d.count .. (n - 1)
      BY <2>2, <2>5
    <3> QED  BY <2>3, <3>1
  <2> QED  BY <2>2, <2>4, <2>5
<1>7. \A i \in d.count .. (n - 1) : at(i) \in DOMAIN events /\ events[at(i)].index = i
  BY DEF Covers
<1> DEFINE e == Stored(d, events)
<1>8. /\ e.status = d.status /\ e.count = top
      /\ e.events = [i \in DOMAIN d.events \cup d.count .. (top - 1) |->
                       IF i < d.count THEN d.events[i] ELSE events[at(i)].payload]
  BY DEF Stored, top
<1> HIDE DEF e, at
<1>9. InRow(log, e)
  <2> SUFFICES ASSUME NEW i \in 0 .. n - 1 PROVE e.events[i] = log[i]
    BY <1>6, <1>8 DEF InRow
  <2>1. CASE i < d.count
    BY <1>8, <2>1 DEF InRow
  <2>2. CASE ~ (i < d.count)
    <3>1. i \in d.count .. (n - 1)
      BY <2>2
    <3>2. e.events[i] = events[at(i)].payload
      BY <1>6, <1>8, <2>2, <3>1
    <3>3. at(i) \in DOMAIN events /\ events[at(i)].index = i /\ i >= d.count
      BY <1>7, <3>1
    <3> QED  BY <3>2, <3>3 DEF Covers
  <2> QED  BY <2>1, <2>2
<1> QED  BY <1>5, <1>6, <1>8, <1>9 DEF e

\* A log that is in the row needs nothing else.
LEMMA RowIsEnough ==
  ASSUME NEW n \in Nat, NEW log, NEW d, NEW e, NEW lines, NEW m, NEW live, NEW last,
         Logged(log, n, d, lines, m, live, last), d.count \in Nat, e.count = n, InRow(log, e)
  PROVE  Logged(log, n, e, lines, m, live, last)
<1>1. Covers(log, n, e, lines)
  BY DEF Logged, Covers
<1>2. live => InCache(log, n, e, m)
  BY DEF Logged, InCache
<1> QED  BY <1>1, <1>2 DEF Logged

\* append_events: one more payload, in the cache and in the journal
LEMMA PublishedIsLogged ==
  ASSUME NEW n \in Nat, n <= MaxEvents, NEW log, NEW d, d.count \in Nat, NEW lines \in Seq(Events), NEW m \in Records, NEW last,
         Logged(log, n, d, lines, m, TRUE, last),
         NEW p \in Payloads, p.no = n + 1, p.type # "run_finished"
  PROVE  Logged(Longer(log, n, p), n + 1, d, Journaled(lines, Cached(m, p)), Cached(m, p), TRUE,
                IF p.type = "result" THEN n + 1 ELSE last)
<1> DEFINE longer == Longer(log, n, p)
           e == Event(n, p)
           mm == Cached(m, p)
<1>1. log \in Logs(n) /\ d.count <= n /\ m.count = n
  BY DEF Logged, InCache
<1>2. longer \in Logs(n + 1) /\ (\A i \in 0 .. n - 1 : longer[i] = log[i]) /\ longer[n] = p
  BY <1>1, LongerLog
<1> HIDE DEF longer
<1>3. e \in Events /\ e.index = n /\ e.payload = p
  BY DEF Event, Events
<1> HIDE DEF e
<1>4. m.events \in Seq(Events) /\ Len(m.events) \in Nat /\ Len(lines) \in Nat
  BY DEF Records
<1>5. /\ mm.known = m.known /\ mm.status = m.status /\ mm.count = n + 1 /\ mm.events = Append(m.events, e)
      /\ Len(mm.events) = Len(m.events) + 1 /\ mm.events[Len(m.events) + 1] = e
      /\ \A k \in 1 .. Len(m.events) : mm.events[k] = m.events[k]
      /\ Last(mm.events) = e
  <2>1. mm = [m EXCEPT !.count = n + 1, !.events = Append(m.events, e)]
    BY <1>1 DEF Cached, e
  <2>2. mm.known = m.known /\ mm.status = m.status /\ mm.count = n + 1 /\ mm.events = Append(m.events, e)
    BY <2>1 DEF Records
  <2> HIDE DEF mm
  <2>3. /\ Len(mm.events) = Len(m.events) + 1 /\ mm.events[Len(m.events) + 1] = e
        /\ \A k \in 1 .. Len(m.events) : mm.events[k] = m.events[k]
    BY <1>3, <1>4, <2>2
  <2> QED  BY <2>2, <2>3 DEF Last
<1> HIDE DEF mm
<1>6. Journaled(lines, mm) = Append(lines, e)
  BY <1>5 DEF Journaled
<1> DEFINE new == Append(lines, e)
<1>7. /\ DOMAIN new = 1 .. Len(lines) + 1 /\ DOMAIN lines = 1 .. Len(lines) /\ new[Len(lines) + 1] = e
      /\ \A k \in 1 .. Len(lines) : new[k] = lines[k]
  BY <1>3, <1>4
<1> HIDE DEF new
<1>8. Covers(longer, n + 1, d, new)
  <2>1. \A k \in DOMAIN lines : lines[k].index \in 0 .. n - 1 /\ (lines[k].index >= d.count => lines[k].payload = log[lines[k].index])
    BY DEF Logged, Covers
  <2>2. \A k \in DOMAIN new : new[k].index \in 0 .. n /\ (new[k].index >= d.count => new[k].payload = longer[new[k].index])
    <3> SUFFICES ASSUME NEW k \in DOMAIN new
                 PROVE  new[k].index \in 0 .. n /\ (new[k].index >= d.count => new[k].payload = longer[new[k].index])
      OBVIOUS
    <3>1. CASE k = Len(lines) + 1
      BY <1>2, <1>3, <1>7, <3>1
    <3>2. CASE k \in 1 .. Len(lines)
      BY <1>2, <1>7, <2>1, <3>2
    <3> QED  BY <1>4, <1>7, <3>1, <3>2
  <2>3. \A j, k \in DOMAIN new : new[j].index = new[k].index => j = k
    <3>1. \A j, k \in DOMAIN lines : lines[j].index = lines[k].index => j = k
      BY DEF Logged, Covers
    <3> SUFFICES ASSUME NEW j \in DOMAIN new, NEW k \in DOMAIN new, new[j].index = new[k].index PROVE j = k
      OBVIOUS
    <3>2. CASE j \in DOMAIN lines /\ k \in DOMAIN lines
      BY <1>7, <3>1, <3>2
    <3>3. \A i \in DOMAIN lines : new[i].index # n
      BY <1>7, <2>1
    <3>4. \A i \in DOMAIN new : i \notin DOMAIN lines => i = Len(lines) + 1 /\ new[i].index = n
      BY <1>3, <1>4, <1>7
    <3> QED  BY <3>2, <3>3, <3>4
  <2>4. \A i \in d.count .. n : \E k \in DOMAIN new : new[k].index = i
    <3> SUFFICES ASSUME NEW i \in d.count .. n PROVE \E k \in DOMAIN new : new[k].index = i
      OBVIOUS
    <3>1. CASE i = n
      BY <1>3, <1>4, <1>7, <3>1
    <3>2. CASE i # n
      <4>1. i \in d.count .. (n - 1)
        BY <3>2
      <4>2. PICK k \in DOMAIN lines : lines[k].index = i
        BY <4>1 DEF Logged, Covers
      <4> QED  BY <1>4, <1>7, <4>2
    <3> QED  BY <3>1, <3>2
  <2>5. 0 .. (n + 1) - 1 = 0 .. n /\ d.count .. ((n + 1) - 1) = d.count .. n
    OBVIOUS
  <2> QED  BY <2>2, <2>3, <2>4, <2>5 DEF Covers
<1>9. InCache(longer, n + 1, d, mm)
  <2>1. /\ m.known /\ ~Finished(m.status) /\ Len(m.events) <= n /\ n - Len(m.events) <= d.count
        /\ \A k \in 1 .. Len(m.events) : /\ m.events[k].index = n - Len(m.events) + k - 1
                                         /\ m.events[k].payload = log[n - Len(m.events) + k - 1]
    <3>1. InCache(log, n, d, m) /\ DOMAIN m.events = 1 .. Len(m.events)
      BY <1>4 DEF Logged
    <3> QED  BY <3>1 DEF InCache
  <2>2. (n + 1) - Len(mm.events) = n - Len(m.events) /\ DOMAIN mm.events = 1 .. Len(m.events) + 1
    BY <1>3, <1>4, <1>5
  <2>3. ASSUME NEW k \in DOMAIN mm.events
        PROVE  /\ mm.events[k].index = n - Len(m.events) + k - 1
               /\ mm.events[k].payload = longer[n - Len(m.events) + k - 1]
    <3>1. CASE k = Len(m.events) + 1
      <4>1. n - Len(m.events) + k - 1 = n
        BY <1>4, <3>1
      <4> QED  BY <1>2, <1>3, <1>5, <3>1, <4>1
    <3>2. CASE k \in 1 .. Len(m.events)
      <4>1. n - Len(m.events) + k - 1 \in 0 .. n - 1
        BY <1>4, <2>1, <3>2
      <4> QED  BY <1>2, <1>5, <2>1, <3>2, <4>1
    <3> QED  BY <1>4, <2>2, <3>1, <3>2
  <2>4. Len(mm.events) <= n + 1
    BY <1>4, <1>5, <2>1
  <2> QED  BY <1>5, <2>1, <2>2, <2>3, <2>4 DEF InCache
<1>10. LastIn(longer, n + 1, IF p.type = "result" THEN n + 1 ELSE last)
  <2>1. /\ last \in 0 .. n /\ (last # 0 => log[last - 1].type = "result")
        /\ \A i \in last .. (n - 1) : log[i].type # "result"
    BY DEF Logged, LastIn
  <2>2. CASE p.type = "result"
    <3>1. (n + 1) - 1 = n /\ n + 1 \in 0 .. n + 1 /\ (n + 1) .. ((n + 1) - 1) = {}
      OBVIOUS
    <3> QED  BY <1>2, <2>2, <3>1 DEF LastIn
  <2>3. CASE p.type # "result"
    <3>1. last \in 0 .. n + 1 /\ (last # 0 => last - 1 \in 0 .. n - 1)
      BY <2>1
    <3>2. \A i \in last .. n : longer[i].type # "result"
      <4> SUFFICES ASSUME NEW i \in last .. n PROVE longer[i].type # "result"
        OBVIOUS
      <4>1. i = n \/ i \in last .. (n - 1)
        BY <2>1
      <4> QED  BY <1>2, <2>1, <2>3, <4>1
    <3>3. last .. ((n + 1) - 1) = last .. n
      OBVIOUS
    <3> QED  BY <1>2, <2>1, <2>3, <3>1, <3>2, <3>3 DEF LastIn
  <2> QED  BY <2>2, <2>3
<1>11. InRow(longer, d)
  BY <1>1, <1>2 DEF Logged, InRow
<1>12. d.count <= n + 1 /\ n + 1 <= MaxEvents + 1
  BY <1>1, RunEventLogAssumption
<1> QED  BY <1>2, <1>6, <1>8, <1>9, <1>10, <1>11, <1>12 DEF Logged, longer, mm, new

\* request_stop: one more payload, in the row and in the cache
LEMMA StopIsLogged ==
  ASSUME NEW n \in Nat, n <= MaxEvents, NEW log, NEW d, NEW lines \in Seq(Events), NEW m \in Records, NEW last,
         d.count = n, Logged(log, n, d, lines, m, TRUE, last),
         NEW p \in Payloads, p.no = n + 1, p.type = "stop",
         NEW s, s.count = n + 1, InRow(Longer(log, n, p), s),
         NEW mm \in Records, mm.known, ~Finished(mm.status), mm.count = n + 1, mm.events = Append(m.events, Event(n, p))
  PROVE  Logged(Longer(log, n, p), n + 1, s, lines, mm, TRUE, last)
<1> DEFINE longer == Longer(log, n, p)
           e == Event(n, p)
<1>1. log \in Logs(n) /\ p.type # "run_finished"
  BY DEF Logged
<1>2. longer \in Logs(n + 1) /\ (\A i \in 0 .. n - 1 : longer[i] = log[i]) /\ longer[n] = p
  BY <1>1, LongerLog
<1> HIDE DEF longer
<1>3. e \in Events /\ e.index = n /\ e.payload = p
  BY DEF Event, Events
<1> HIDE DEF e
<1>4. m.events \in Seq(Events) /\ Len(m.events) \in Nat /\ DOMAIN m.events = 1 .. Len(m.events)
  BY DEF Records
<1>5. /\ DOMAIN mm.events = 1 .. Len(m.events) + 1
      /\ Len(mm.events) = Len(m.events) + 1 /\ mm.events[Len(m.events) + 1] = e
      /\ \A k \in 1 .. Len(m.events) : mm.events[k] = m.events[k]
  BY <1>3, <1>4 DEF e
<1>6. Covers(longer, n + 1, s, lines)
  <2>1. \A k \in DOMAIN lines : lines[k].index \in 0 .. n - 1
    BY DEF Logged, Covers
  <2>2. \A k \in DOMAIN lines : lines[k].index \in 0 .. (n + 1) - 1 /\ ~ (lines[k].index >= s.count)
    BY <2>1
  <2>3. s.count .. ((n + 1) - 1) = {}
    OBVIOUS
  <2>4. \A j, k \in DOMAIN lines : lines[j].index = lines[k].index => j = k
    BY DEF Logged, Covers
  <2> QED  BY <2>2, <2>3, <2>4 DEF Covers
<1>7. InCache(longer, n + 1, s, mm)
  <2>1. /\ Len(m.events) <= n
        /\ \A k \in 1 .. Len(m.events) : /\ m.events[k].index = n - Len(m.events) + k - 1
                                         /\ m.events[k].payload = log[n - Len(m.events) + k - 1]
    <3>1. InCache(log, n, d, m)
      BY DEF Logged
    <3> QED  BY <1>4, <3>1 DEF InCache
  <2>2. (n + 1) - Len(mm.events) = n - Len(m.events) /\ Len(mm.events) <= n + 1 /\ n - Len(m.events) <= s.count
    BY <1>4, <1>5, <2>1
  <2>3. ASSUME NEW k \in DOMAIN mm.events
        PROVE  /\ mm.events[k].index = n - Len(m.events) + k - 1
               /\ mm.events[k].payload = longer[n - Len(m.events) + k - 1]
    <3>1. CASE k = Len(m.events) + 1
      <4>1. n - Len(m.events) + k - 1 = n
        BY <1>4, <3>1
      <4> QED  BY <1>2, <1>3, <1>5, <3>1, <4>1
    <3>2. CASE k \in 1 .. Len(m.events)
      <4>1. n - Len(m.events) + k - 1 \in 0 .. n - 1
        BY <1>4, <2>1, <3>2
      <4> QED  BY <1>2, <1>5, <2>1, <3>2, <4>1
    <3> QED  BY <1>4, <1>5, <3>1, <3>2
  <2> QED  BY <2>2, <2>3 DEF InCache
<1>8. LastIn(longer, n + 1, last)
  <2>1. /\ last \in 0 .. n /\ (last # 0 => log[last - 1].type = "result")
        /\ \A i \in last .. (n - 1) : log[i].type # "result"
    BY DEF Logged, LastIn
  <2>2. last \in 0 .. n + 1 /\ (last # 0 => last - 1 \in 0 .. n - 1)
    BY <2>1
  <2>3. \A i \in last .. n : longer[i].type # "result"
    <3> SUFFICES ASSUME NEW i \in last .. n PROVE longer[i].type # "result"
      OBVIOUS
    <3>1. i = n \/ i \in last .. (n - 1)
      BY <2>1
    <3> QED  BY <1>2, <2>1, <3>1
  <2>4. last .. ((n + 1) - 1) = last .. n
    OBVIOUS
  <2> QED  BY <1>2, <2>1, <2>2, <2>3, <2>4 DEF LastIn
<1>9. n + 1 <= MaxEvents + 1
  BY RunEventLogAssumption
<1> QED  BY <1>2, <1>6, <1>7, <1>8, <1>9 DEF Logged, longer

\* The increasing enumeration of an initial segment is that segment.
LEMMA SortedSegment ==
  ASSUME NEW n \in Nat
  PROVE  Cardinality(0 .. n - 1) = n /\ \A k \in 1 .. n : Sorted(0 .. n - 1)[k] = k - 1
<1> DEFINE s == Sorted(0 .. n - 1)
<1>1. 0 .. n - 1 \subseteq Nat /\ IsFiniteSet(0 .. n - 1) /\ Cardinality(0 .. n - 1) = n
  BY FS_Interval
<1>2. /\ s \in [1 .. n -> 0 .. n - 1]
      /\ \A j, k \in 1 .. n : j < k => s[j] < s[k]
  BY <1>1, SortedExists DEF Sorted
<1> HIDE DEF s
<1> DEFINE low == {k \in 1 .. n : s[k] < k - 1}
           high == {k \in 1 .. n : s[k] > k - 1}
<1>3. low = {}
  <2> SUFFICES ASSUME low # {} PROVE FALSE
    OBVIOUS
  <2>0. low \subseteq Nat
    OBVIOUS
  <2>1. PICK k \in low : \A j \in low : k <= j
    BY <2>0, LeastNat
  <2>2. k \in 1 .. n /\ s[k] \in 0 .. n - 1 /\ s[k] < k - 1
    BY <1>2
  <2>3. k - 1 \in 1 .. n /\ k - 1 < k /\ s[k - 1] \in 0 .. n - 1
    BY <1>2, <2>2
  <2>4. s[k - 1] < s[k]
    BY <1>2, <2>2, <2>3
  <2>5. s[k - 1] < (k - 1) - 1
    BY <2>2, <2>3, <2>4
  <2>6. k - 1 \in low
    BY <2>3, <2>5
  <2> QED  BY <2>1, <2>2, <2>6
<1>4. high = {}
  <2> SUFFICES ASSUME high # {} PROVE FALSE
    OBVIOUS
  <2> DEFINE far == {n - k : k \in high}
  <2>1. far \subseteq Nat /\ far # {}
    OBVIOUS
  <2>2. PICK t \in far : \A u \in far : t <= u
    BY <2>1, LeastNat
  <2>3. PICK k \in high : t = n - k
    OBVIOUS
  <2>4. k \in 1 .. n /\ s[k] \in 0 .. n - 1 /\ s[k] > k - 1
    BY <1>2
  <2>5. k + 1 \in 1 .. n /\ s[k + 1] \in 0 .. n - 1
    BY <1>2, <2>4
  <2>6. s[k] < s[k + 1]
    BY <1>2, <2>4, <2>5
  <2>7. s[k + 1] > (k + 1) - 1
    BY <2>4, <2>5, <2>6
  <2>8. k + 1 \in high
    BY <2>5, <2>7
  <2>9. n - (k + 1) \in far
    BY <2>8
  <2>10. n - k <= n - (k + 1)
    BY <2>2, <2>3, <2>9
  <2> QED  BY <2>4, <2>10
<1>5. \A k \in 1 .. n : s[k] = k - 1
  <2> SUFFICES ASSUME NEW k \in 1 .. n PROVE s[k] = k - 1
    OBVIOUS
  <2>1. s[k] \in 0 .. n - 1 /\ ~ (s[k] < k - 1) /\ ~ (s[k] > k - 1)
    BY <1>2, <1>3, <1>4
  <2> QED  BY <2>1
<1> QED  BY <1>1, <1>5 DEF s

\* Loading gives the whole log of a run that is not finished.
LEMMA LoadedIsLogged ==
  ASSUME NEW n \in Nat, NEW log, NEW d, GoodRow(d), d.status \in ActiveStatuses,
         NEW lines, NEW m \in Records, NEW last, Logged(log, n, d, lines, m, TRUE, last)
  PROVE  /\ Logged(log, n, d, lines, Loaded(m, d), TRUE, last)
         /\ Len(Loaded(m, d).events) = n
<1> DEFINE at(i)   == {k \in DOMAIN m.events : m.events[k].index = i}
           held    == {m.events[k].index : k \in DOMAIN m.events}
           indexes == DOMAIN d.events \cup held
           order   == Sorted(indexes)
           c       == Cardinality(indexes)
           from(i) == IF at(i) = {} THEN d.events[i] ELSE m.events[Max(at(i))].payload
           es      == [k \in 1 .. c |-> Event(order[k], from(order[k]))]
<1>1. /\ log \in Logs(n) /\ d.count <= n /\ InRow(log, d) /\ InCache(log, n, d, m)
      /\ d.count \in Nat /\ DOMAIN d.events = 0 .. d.count - 1
  BY DEF Logged, GoodRow, RowTypeOK, RowWellFormed
<1>2. /\ m.events \in Seq(Events) /\ Len(m.events) \in Nat /\ DOMAIN m.events = 1 .. Len(m.events)
      /\ m.count = n /\ Len(m.events) <= n
  BY <1>1 DEF Records, InCache
<1>3. CASE Len(m.events) >= m.count
  <2>1. Loaded(m, d) = m
    BY <1>3 DEF Loaded
  <2>2. Len(m.events) = n
    BY <1>2, <1>3
  <2> QED  BY <2>1, <2>2
<1>4. CASE ~ (Len(m.events) >= m.count)
  <2>1. Covers(log, n, d, m.events)
    BY <1>1, CacheCovers
  <2>2. indexes = 0 .. n - 1
    <3>1. held \subseteq 0 .. n - 1 /\ d.count .. (n - 1) \subseteq held
      BY <2>1 DEF Covers
    <3> HIDE DEF held
    <3>2. 0 .. n - 1 = 0 .. d.count - 1 \cup d.count .. (n - 1)
      BY <1>1
    <3> QED  BY <1>1, <3>1, <3>2
  <2>3. c = n /\ \A k \in 1 .. n : order[k] = k - 1
    BY <2>2, SortedSegment
  <2>4. \A i \in 0 .. n - 1 : from(i) = log[i]
    <3> SUFFICES ASSUME NEW i \in 0 .. n - 1 PROVE from(i) = log[i]
      OBVIOUS
    <3>1. CASE at(i) = {}
      <4>1. i \in 0 .. d.count - 1
        BY <1>1, <2>1, <3>1 DEF Covers
      <4> QED  BY <1>1, <3>1, <4>1 DEF InRow
    <3>2. CASE at(i) # {}
      <4>1. at(i) \subseteq 0 .. Len(m.events)
        BY <1>2
      <4>2. Max(at(i)) \in at(i)
        BY <1>2, <3>2, <4>1, MaxOf
      <4>3. \A k \in DOMAIN m.events : m.events[k].payload = log[m.events[k].index]
        BY <1>1 DEF InCache
      <4> QED  BY <3>2, <4>2, <4>3
    <3> QED  BY <3>1, <3>2
  <2>5. Loaded(m, d) = [m EXCEPT !.events = es]
    BY <1>4 DEF Loaded
  <2> HIDE DEF indexes, order, c, from
  <2>6. es = [k \in 1 .. n |-> Event(k - 1, log[k - 1])]
    <3>1. \A k \in 1 .. n : Event(order[k], from(order[k])) = Event(k - 1, log[k - 1])
      BY <2>3, <2>4
    <3> QED  BY <2>3, <3>1
  <2> HIDE DEF es
  <2>7. es \in Seq(Events) /\ Len(es) = n /\ DOMAIN es = 1 .. n
        /\ \A k \in 1 .. n : es[k].index = k - 1 /\ es[k].payload = log[k - 1]
    <3>1. \A k \in 1 .. n : Event(k - 1, log[k - 1]) \in Events
      BY <1>1 DEF Event, Events, Logs
    <3> QED  BY <2>6, <3>1 DEF Event
  <2>8. /\ Loaded(m, d).events = es /\ Loaded(m, d).known = m.known
        /\ Loaded(m, d).status = m.status /\ Loaded(m, d).count = m.count
    BY <2>5 DEF Records
  <2>9. InCache(log, n, d, Loaded(m, d))
    <3>1. n - n <= d.count /\ \A k \in 1 .. n : n - n + k - 1 = k - 1
      BY <1>1
    <3> QED  BY <1>1, <2>7, <2>8, <3>1 DEF InCache
  <2> QED  BY <2>7, <2>8, <2>9 DEF Logged
<1> QED  BY <1>3, <1>4

-----------------------------------------------------------------------------
(* A run that no I/O error has touched *)

\* Nothing of a run is lost: with its start-up order, respectively, the process
\* interrupts what it finds, or recovers it; or it does not die.
Keeps    == InterruptsFirst \/ MaxCrashes = 0
Recovers == ~InterruptsFirst \/ MaxCrashes = 0

\* The event list is the log, each payload at its place.
Whole(m, n) ==
    /\ m.known /\ m.count = n /\ Len(m.events) = n
    /\ \A k \in DOMAIN m.events : m.events[k].payload.no = k

Wanted(r) == \E c \in Clients : subs[c].state # "idle" /\ subs[c].run = r

Settled(d, m, last) ==
    /\ m.known => Finished(m.status)
    /\ d.status \in Outcomes \cup {"interrupted"}
    /\ d.status # "interrupted" \/ Recovers =>
          \A i \in DOMAIN d.events : IsTerminal(d, i) => d.events[i].result = last

QuietRun(d, lines, m, n, last, live, wanted) ==
    /\ d.status = "absent" => m = NoRecord /\ lines = <<>> /\ n = 0 /\ last = 0
    /\ d.status \in ActiveStatuses => \E log : Logged(log, n, d, lines, m, live, last)
    /\ Finished(d.status) => Settled(d, m, last)
    /\ wanted => live /\ m.known
    /\ Keeps /\ live /\ (d.status \in ActiveStatuses \/ wanted) => Whole(m, n)

QuietNow ==
    /\ \A r \in Runs : QuietRun(rows[r], journal[r], cache[r], pub[r], lastResult[r], up, Wanted(r))
    /\ crashes <= MaxCrashes /\ (~up => crashes > 0)

LEMMA WholeAppend ==
  ASSUME NEW m \in Records, NEW n \in Nat, Whole(m, n), NEW e \in Events, e.payload.no = n + 1,
         NEW mm, mm.known, mm.count = n + 1, mm.events = Append(m.events, e)
  PROVE  Whole(mm, n + 1)
<1>1. m.events \in Seq(Events) /\ Len(m.events) = n /\ \A k \in 1 .. n : m.events[k].payload.no = k
  BY DEF Whole, Records
<1>2. /\ DOMAIN mm.events = 1 .. n + 1 /\ Len(mm.events) = n + 1 /\ mm.events[n + 1] = e
      /\ \A k \in 1 .. n : mm.events[k] = m.events[k]
  BY <1>1
<1>3. ASSUME NEW k \in 1 .. n + 1 PROVE mm.events[k].payload.no = k
  BY <1>1, <1>2
<1> QED  BY <1>2, <1>3 DEF Whole

\* append_events on a record whose row may change its status
LEMMA QuietPublished ==
  ASSUME NEW d, GoodRow(d), d.status # "absent", NEW lines \in Seq(Events), NEW m \in Records,
         NEW n \in Nat, n <= MaxEvents, NEW last, NEW wanted \in BOOLEAN,
         QuietRun(d, lines, m, n, last, TRUE, wanted),
         NEW mm \in Records, mm.known, Finished(mm.status) <=> Finished(d.status),
         m.known => mm.count = m.count /\ mm.events = m.events,
         NEW e, e.count = d.count, e.events = d.events, e.status = d.status \/ {d.status, e.status} \subseteq ActiveStatuses,
         NEW p \in Payloads, p.no = n + 1, p.type # "run_finished", Finished(d.status) => p.type # "result"
  PROVE  QuietRun(e, Journaled(lines, Cached(mm, p)), Cached(mm, p), n + 1,
                  IF p.type = "result" THEN n + 1 ELSE last, TRUE, wanted)
<1> DEFINE after == IF p.type = "result" THEN n + 1 ELSE last
           new == Cached(mm, p)
<1>1. d.count \in Nat /\ d.status \in AllStatuses
  BY DEF GoodRow, RowTypeOK
<1>2. /\ mm.events \in Seq(Events) /\ mm.count \in Nat
      /\ new.known /\ new.status = mm.status /\ new.count = mm.count + 1
      /\ new.events = Append(mm.events, Event(mm.count, p))
  BY DEF Records, Cached
<1>3. Event(mm.count, p) \in Events /\ Event(mm.count, p).payload.no = n + 1
  BY <1>2 DEF Event, Events
<1> HIDE DEF new
<1>4. Keeps /\ (e.status \in ActiveStatuses \/ wanted) => Whole(new, n + 1)
  <2> SUFFICES ASSUME Keeps, e.status \in ActiveStatuses \/ wanted PROVE Whole(new, n + 1)
    OBVIOUS
  <2>1. Whole(m, n)
    BY DEF QuietRun
  <2>2. mm.count = n /\ mm.events = m.events
    BY <2>1 DEF Whole
  <2> QED  BY <1>2, <1>3, <2>1, <2>2, WholeAppend
<1>5. CASE d.status \in ActiveStatuses
  <2>1. PICK log : Logged(log, n, d, lines, m, TRUE, last)
    BY <1>5 DEF QuietRun
  <2>2. m.known /\ mm.count = m.count /\ mm.events = m.events /\ ~Finished(mm.status)
    BY <1>5, <2>1, StatusKinds DEF Logged, InCache
  <2>3. Logged(log, n, d, lines, mm, TRUE, last)
    BY <2>1, <2>2 DEF Logged, InCache
  <2>4. Logged(Longer(log, n, p), n + 1, d, Journaled(lines, new), new, TRUE, after)
    BY <1>1, <2>3, PublishedIsLogged DEF new
  <2>5. Logged(Longer(log, n, p), n + 1, e, Journaled(lines, new), new, TRUE, after)
    <3> DEFINE longer == Longer(log, n, p)
               journaled == Journaled(lines, new)
    <3> HIDE DEF longer, journaled
    <3>1. /\ longer \in Logs(n + 1) /\ d.count <= n + 1 /\ n + 1 <= MaxEvents + 1 /\ InRow(longer, d)
          /\ Covers(longer, n + 1, d, journaled) /\ InCache(longer, n + 1, d, new) /\ LastIn(longer, n + 1, after)
      BY <2>4 DEF Logged, longer, journaled
    <3>2. InRow(longer, e)
      BY <3>1 DEF InRow
    <3>3. Covers(longer, n + 1, e, journaled)
      BY <3>1 DEF Covers
    <3>4. InCache(longer, n + 1, e, new)
      BY <3>1 DEF InCache
    <3> QED  BY <3>1, <3>2, <3>3, <3>4 DEF Logged, longer, journaled
  <2>6. e.status \in ActiveStatuses /\ ~Finished(e.status) /\ e.status # "absent"
    BY <1>5, StatusKinds
  <2> QED  BY <1>2, <1>4, <2>5, <2>6 DEF QuietRun, new
<1>6. CASE Finished(d.status)
  <2>1. e.status = d.status /\ e.status \notin ActiveStatuses /\ after = last
    BY <1>6, StatusKinds DEF Finished
  <2>2. Settled(e, new, last)
    BY <1>2, <1>6, <2>1 DEF QuietRun, Settled, IsTerminal
  <2>3. wanted => new.known
    BY <1>2
  <2> QED  BY <1>4, <2>1, <2>2, <2>3 DEF QuietRun, new
<1> QED  BY <1>1, <1>5, <1>6, StatusKinds

\* The terminal event carries the last result.
LEMMA ResultIsStored ==
  ASSUME NEW n \in Nat, NEW log \in Logs(n), NEW last, LastIn(log, n, last),
         NEW d, d.count = n, InRow(log, d), DOMAIN d.events = 0 .. n - 1
  PROVE  StoredResult(d) = last
<1> DEFINE results == {i \in DOMAIN d.events : d.events[i].type = "result"}
<1>1. \A i \in 0 .. n - 1 : d.events[i] = log[i]
  BY DEF InRow
<1>2. /\ last \in 0 .. n /\ (last # 0 => log[last - 1].type = "result")
      /\ \A i \in last .. (n - 1) : log[i].type # "result"
  BY DEF LastIn
<1>3. \A i \in results : i \in Int /\ i <= last - 1
  BY <1>1, <1>2
<1>4. CASE last = 0
  <2>1. results = {}
    BY <1>3, <1>4
  <2> QED  BY <1>4, <2>1 DEF StoredResult
<1>5. CASE last # 0
  <2>1. last - 1 \in results /\ last - 1 \in 0 .. n - 1
    BY <1>1, <1>2, <1>5
  <2>2. \A i \in results : last - 1 >= i
    BY <1>2, <1>3
  <2>3. \A i \in results : (\A j \in results : i >= j) => i = last - 1
    BY <1>2, <1>3, <2>1
  <2> HIDE DEF results
  <2>4. Max(results) = last - 1
    BY <2>1, <2>2, <2>3 DEF Max
  <2>5. d.events[last - 1].no = last
    <3>1. log[last - 1].no = (last - 1) + 1
      BY <2>1 DEF Logs
    <3> QED  BY <1>1, <1>2, <2>1, <3>1
  <2> QED  BY <2>1, <2>4, <2>5 DEF StoredResult, results
<1> QED  BY <1>4, <1>5

\* What the flush of an active run leaves in its row
LEMMA FlushIsComplete ==
  ASSUME NEW d, GoodRow(d), d.status \in ActiveStatuses, NEW lines, NEW m \in Records, NEW n \in Nat, NEW log, NEW last,
         Logged(log, n, d, lines, m, TRUE, last), CacheBehindRow(m.events, d)
  PROVE  /\ Fits(d, m.events)
         /\ LET e == Stored(d, m.events)
            IN  /\ GoodRow(e) /\ e.count = n /\ e.status = d.status /\ StoredResult(e) = last
                /\ InRow(log, e) /\ Logged(log, n, e, lines, m, TRUE, last)
<1> DEFINE e == Stored(d, m.events)
<1>1. /\ log \in Logs(n) /\ d.count <= n /\ InRow(log, d) /\ InCache(log, n, d, m) /\ n <= MaxEvents + 1
      /\ d.count \in Nat /\ DOMAIN d.events = 0 .. d.count - 1 /\ m.events \in Seq(Events) /\ d.status # "absent"
      /\ LastIn(log, n, last)
  BY StatusKinds DEF Logged, GoodRow, RowTypeOK, RowWellFormed, Records
<1>2. Covers(log, n, d, m.events)
  BY <1>1, CacheCovers
<1>3. Fits(d, m.events) /\ e.count = n /\ e.status = d.status /\ InRow(log, e)
  BY <1>1, <1>2, CoveringFits
<1>4. GoodRow(e)
  BY <1>1, <1>3, StoredMoves DEF Moves
<1> HIDE DEF e
<1>5. DOMAIN e.events = 0 .. n - 1
  BY <1>3, <1>4 DEF GoodRow, RowWellFormed
<1>6. StoredResult(e) = last
  BY <1>1, <1>3, <1>5, ResultIsStored
<1>7. Logged(log, n, e, lines, m, TRUE, last)
  BY <1>1, <1>3, RowIsEnough
<1> QED  BY <1>3, <1>4, <1>6, <1>7 DEF e

LEMMA MirroredLast ==
  ASSUME NEW m \in Records, NEW n \in Nat, NEW d, StoredFrom(d, n) = {n}, d.events[n] \in Payloads
  PROVE  /\ Mirrored(m, d, n) \in Records
         /\ Mirrored(m, d, n).known = m.known /\ Mirrored(m, d, n).status = m.status /\ Mirrored(m, d, n).count = m.count
         /\ Mirrored(m, d, n).events = Append(m.events, Event(n, d.events[n]))
<1> DEFINE es == Append(m.events, Event(n, d.events[n]))
<1>1. Min({n}) = n
  BY MinOf
<1>2. Mirrored(m, d, n) = [m EXCEPT !.events = es]
  BY <1>1 DEF Mirrored
<1>3. es \in Seq(Events)
  <2>1. Event(n, d.events[n]) \in Events /\ m.events \in Seq(Events)
    BY DEF Event, Events, Records
  <2> QED  BY <2>1
<1> HIDE DEF es
<1>4. [m EXCEPT !.events = es] \in Records
  BY <1>3 DEF Records
<1>5. Mirrored(m, d, n).known = m.known /\ Mirrored(m, d, n).status = m.status /\ Mirrored(m, d, n).count = m.count
  BY <1>2 DEF Records
<1>6. Mirrored(m, d, n).events = es
  BY <1>2 DEF Records
<1> QED  BY <1>2, <1>4, <1>5, <1>6 DEF es

\* finish_run after a complete flush, and a crash after its commit
LEMMA QuietFinished ==
  ASSUME NEW d, GoodRow(d), d.status \in ActiveStatuses, NEW n \in Nat, d.count = n,
         NEW last, StoredResult(d) = last, NEW m \in Records, m.known, m.count = n, Keeps => Whole(m, n),
         NEW p \in Payloads, p.type = "run_finished", p.no = n + 1, p.result = last,
         NEW status \in FinishedStatuses, status \in Outcomes \cup {"interrupted"}, NEW lines, NEW wanted \in BOOLEAN
  PROVE  LET e == FinishedRow(d, status, p)
         IN  /\ QuietRun(e, lines, Finalized(m, e), n + 1, last, TRUE, wanted)
             /\ \A k : QuietRun(e, lines, NoRecord, k, last, FALSE, FALSE)
<1> DEFINE e == FinishedRow(d, status, p)
           f == Finalized(m, e)
<1>1. /\ e.status = status /\ e.count = n + 1 /\ e.events = [i \in {n} |-> p]
      /\ ~Finished(d.status) /\ Finished(e.status) /\ e.status \notin ActiveStatuses /\ e.status # "absent"
  BY StatusKinds DEF FinishedRow
<1> HIDE DEF e
<1>2. StoredFrom(e, n) = {n} /\ e.events[n] = p
  BY <1>1 DEF StoredFrom
<1>3. f = [Mirrored(m, e, n) EXCEPT !.status = e.status, !.count = e.count]
  BY <1>2 DEF Finalized, Announces
<1>4. /\ f.known /\ f.status = status /\ f.count = n + 1
      /\ f.events = Append(m.events, Event(n, p))
  <2>1. Mirrored(m, e, n) = [m EXCEPT !.events = Append(m.events, Event(n, p))]
    <3>1. Min({n}) = n
      BY MinOf
    <3> QED  BY <1>2, <3>1 DEF Mirrored
  <2> QED  BY <1>1, <1>3, <2>1 DEF Records
<1> HIDE DEF f
<1>5. Keeps => Whole(f, n + 1)
  <2>1. Event(n, p) \in Events /\ Event(n, p).payload.no = n + 1
    BY DEF Event, Events
  <2> QED  BY <1>4, <2>1, WholeAppend
<1>6. Settled(e, f, last) /\ Settled(e, NoRecord, last)
  BY <1>1, <1>4 DEF Settled, IsTerminal, NoRecord
<1> QED  BY <1>1, <1>4, <1>5, <1>6 DEF QuietRun, e, f

\* request_stop after a complete flush
LEMMA QuietStopped ==
  ASSUME NEW d, GoodRow(d), d.status \in ActiveStatuses, NEW n \in Nat, n <= MaxEvents, d.count = n,
         NEW log, NEW last, NEW m \in Records, Keeps => Whole(m, n), NEW lines \in Seq(Events),
         Logged(log, n, d, lines, m, TRUE, last),
         NEW p \in Payloads, p.type = "stop", p.no = n + 1, NEW wanted \in BOOLEAN
  PROVE  LET s == AppendedRow(UpdatedRow(d, "stopping"), p)
             mm == [Mirrored(Stopping(m), s, n) EXCEPT !.count = s.count]
         IN  QuietRun(s, lines, mm, n + 1, last, TRUE, wanted)
<1> DEFINE u == UpdatedRow(d, "stopping")
           s == AppendedRow(u, p)
           mm == [Mirrored(Stopping(m), s, n) EXCEPT !.count = s.count]
<1>1. log \in Logs(n) /\ InRow(log, d) /\ InCache(log, n, d, m) /\ p.type # "run_finished"
  BY DEF Logged
<1>2. "stopping" \in ActiveStatuses /\ "stopping" \in AllStatuses /\ ~Finished("stopping") /\ DOMAIN d.events = 0 .. n - 1
  BY DEF ActiveStatuses, AllStatuses, Finished, FinishedStatuses, GoodRow, RowWellFormed
<1>3. u.status = "stopping" /\ u.count = n /\ u.events = d.events
  BY StatusKinds DEF UpdatedRow
<1> HIDE DEF u
<1>4. /\ s.status = "stopping" /\ s.count = n + 1
      /\ s.events = [i \in 0 .. n |-> IF i = n THEN p ELSE d.events[i]]
  <2>1. DOMAIN d.events \cup {n} = 0 .. n
    BY <1>2
  <2> QED  BY <1>3, <2>1 DEF AppendedRow
<1> HIDE DEF s
<1>5. StoredFrom(s, n) = {n} /\ s.events[n] = p
  BY <1>4 DEF StoredFrom
<1>6. InRow(Longer(log, n, p), s)
  <2>1. (\A i \in 0 .. n - 1 : Longer(log, n, p)[i] = log[i]) /\ Longer(log, n, p)[n] = p
    BY <1>1, LongerLog
  <2>2. \A i \in 0 .. n - 1 : d.events[i] = log[i]
    BY <1>1 DEF InRow
  <2>3. \A i \in 0 .. n : s.events[i] = Longer(log, n, p)[i]
    BY <1>4, <2>1, <2>2
  <2>4. 0 .. s.count - 1 = 0 .. n
    BY <1>4
  <2> QED  BY <2>3, <2>4 DEF InRow
<1>7. Stopping(m) \in Records /\ Stopping(m).known /\ Stopping(m).status = "stopping" /\ Stopping(m).events = m.events
  BY <1>1, <1>2 DEF Stopping, Records, InCache
<1> DEFINE e == Event(n, p)
<1>8. e \in Events /\ e.payload.no = n + 1
  BY DEF Event, Events
<1> HIDE DEF e
<1>9. /\ mm \in Records /\ mm.known /\ mm.status = "stopping" /\ mm.count = n + 1
      /\ mm.events = Append(m.events, e)
  <2>1. /\ Mirrored(Stopping(m), s, n) \in Records
        /\ Mirrored(Stopping(m), s, n).known /\ Mirrored(Stopping(m), s, n).status = "stopping"
        /\ Mirrored(Stopping(m), s, n).events = Append(m.events, e)
    BY <1>5, <1>7, MirroredLast DEF e
  <2>2. /\ mm.known /\ mm.status = "stopping" /\ mm.count = n + 1
        /\ mm.events = Append(m.events, e)
    BY <1>4, <2>1 DEF Records
  <2>3. s.count \in Nat
    BY <1>4
  <2>4. mm \in Records
    BY <2>1, <2>3 DEF Records
  <2> QED  BY <2>2, <2>4
<1> HIDE DEF mm
<1>10. Logged(Longer(log, n, p), n + 1, s, lines, mm, TRUE, last)
  BY <1>2, <1>4, <1>6, <1>9, StopIsLogged DEF e
<1>11. Keeps => Whole(mm, n + 1)
  BY <1>8, <1>9, WholeAppend
<1> QED  BY <1>2, <1>4, <1>9, <1>10, <1>11, StatusKinds DEF QuietRun, s, mm, u

-----------------------------------------------------------------------------
(* The steps of a process without I/O errors *)

LEMMA QuietUnwanted ==
  ASSUME NEW d, NEW lines, NEW m, NEW n, NEW last, NEW live, NEW v \in BOOLEAN, NEW w \in BOOLEAN,
         QuietRun(d, lines, m, n, last, live, v), w => v
  PROVE  QuietRun(d, lines, m, n, last, live, w)
BY DEF QuietRun

\* A step about run r whose row, journal and record it leaves quiet.
LEMMA OneQuiet ==
  ASSUME QuietNow, NEW r \in Runs, up' = up, crashes' = crashes,
         \A x \in Runs \ {r} : /\ rows'[x] = rows[x] /\ journal'[x] = journal[x] /\ cache'[x] = cache[x]
                               /\ pub'[x] = pub[x] /\ lastResult'[x] = lastResult[x]
                               /\ (Wanted(x)' => Wanted(x)),
         QuietRun(rows'[r], journal'[r], cache'[r], pub'[r], lastResult'[r], up, Wanted(r)')
  PROVE  QuietNow'
<1>1. ASSUME NEW x \in Runs, x # r
      PROVE  QuietRun(rows'[x], journal'[x], cache'[x], pub'[x], lastResult'[x], up', Wanted(x)')
  <2>1. QuietRun(rows[x], journal[x], cache[x], pub[x], lastResult[x], up, Wanted(x))
    BY DEF QuietNow
  <2>2. QuietRun(rows[x], journal[x], cache[x], pub[x], lastResult[x], up, Wanted(x)')
    BY <1>1, <2>1 DEF QuietRun
  <2> QED  BY <1>1, <2>2
<1>2. \A x \in Runs : QuietRun(rows'[x], journal'[x], cache'[x], pub'[x], lastResult'[x], up', Wanted(x)')
  BY <1>1
<1> QED  BY <1>2 DEF QuietNow

\* Waking generators leaves the runs they read.
LEMMA WokenWanted ==
  ASSUME NEW R, subs' = Woken(R), TypeOK
  PROVE  \A x : Wanted(x)' <=> Wanted(x)
<1>1. \A c \in Clients : /\ subs'[c].run = subs[c].run
                         /\ subs'[c].state # "idle" <=> subs[c].state # "idle"
  BY DEF Woken, TypeOK, SubStates
<1> QED  BY <1>1 DEF Wanted

LEMMA OfQuiet ==
  ASSUME IInv, QuietNow, NEW r \in Runs
  PROVE  /\ QuietRun(rows[r], journal[r], cache[r], pub[r], lastResult[r], up, Wanted(r))
         /\ GoodRow(rows[r]) /\ rows[r].status \in AllStatuses /\ rows[r].count \in Nat
         /\ cache[r] \in Records /\ journal[r] \in Seq(Events) /\ CacheBehindRow(cache[r].events, rows[r])
         /\ pub[r] \in Nat /\ lastResult[r] \in Nat /\ Wanted(r) \in BOOLEAN
<1>1. QuietRun(rows[r], journal[r], cache[r], pub[r], lastResult[r], up, Wanted(r))
  BY DEF QuietNow
<1>2. GoodRow(rows[r]) /\ cache[r] \in Records /\ pub[r] \in Nat /\ CacheBehindRow(cache[r].events, rows[r])
  BY OfRun
<1>3. journal[r] \in Seq(Events) /\ lastResult[r] \in Nat
  BY DEF IInv, TypeOK
<1>4. Wanted(r) \in BOOLEAN
  BY DEF Wanted
<1> QED  BY <1>1, <1>2, <1>3, <1>4 DEF GoodRow, RowTypeOK

\* The record of a run that is not finished is the cached one.
LEMMA RecordQuiet ==
  ASSUME IInv, QuietNow, up, NEW r \in Runs, rows[r].status # "absent"
  PROVE  /\ Finished(Record(r).status) <=> Finished(rows[r].status)
         /\ rows[r].status \in ActiveStatuses => Record(r) = cache[r] /\ cache[r].known
         /\ cache[r].known => Record(r) = cache[r]
<1>1. QuietRun(rows[r], journal[r], cache[r], pub[r], lastResult[r], TRUE, Wanted(r)) /\ rows[r].status \in AllStatuses
  BY OfQuiet
<1>2. /\ ~cache[r].known => Record(r).status = rows[r].status
      /\ cache[r].known => Record(r) = cache[r]
  BY RecordType
<1>3. CASE rows[r].status \in ActiveStatuses
  <2>1. cache[r].known /\ ~Finished(cache[r].status)
    BY <1>1, <1>3 DEF QuietRun, Logged, InCache
  <2> QED  BY <1>2, <1>3, <2>1, StatusKinds
<1>4. CASE Finished(rows[r].status)
  <2>1. cache[r].known => Finished(cache[r].status)
    BY <1>1, <1>4 DEF QuietRun, Settled
  <2>2. rows[r].status \notin ActiveStatuses
    BY <1>4, StatusKinds DEF Finished
  <2> QED  BY <1>2, <1>4, <2>1, <2>2
<1> QED  BY <1>1, <1>3, <1>4, StatusKinds

\* A payload of a record, without an error in the journal
LEMMA QuietPublish ==
  ASSUME IInv, QuietNow, up, faults = 0, faults' = 0, NEW r \in Runs, rows[r].status # "absent",
         NEW m \in Records, m.known, Finished(m.status) <=> Finished(rows[r].status),
         cache[r].known => m.count = cache[r].count /\ m.events = cache[r].events,
         NEW type \in Types, type # "run_finished", Finished(rows[r].status) => type # "result",
         Publish(r, m, type), UNCHANGED <<up, crashes>>,
         \A x \in Runs \ {r} : rows'[x] = rows[x],
         rows'[r].count = rows[r].count, rows'[r].events = rows[r].events,
         rows'[r].status = rows[r].status \/ {rows[r].status, rows'[r].status} \subseteq ActiveStatuses,
         lastResult' = [lastResult EXCEPT ![r] = IF type = "result" THEN pub[r] + 1 ELSE @]
  PROVE  QuietNow'
<1> DEFINE p == Payload(r, type)
<1>1. TypeOK /\ p \in Payloads /\ p.type = type /\ p.no = pub[r] + 1
  BY PayloadType DEF IInv, Payload
<1>2. /\ pub[r] < MaxEvents
      /\ cache' = [cache EXCEPT ![r] = Cached(m, p)] /\ pub' = [pub EXCEPT ![r] = pub[r] + 1]
      /\ journal' = [journal EXCEPT ![r] = Journaled(journal[r], Cached(m, p))]
      /\ subs' = Woken({r})
  BY DEF Publish, Fault, Room
<1>3. /\ QuietRun(rows[r], journal[r], cache[r], pub[r], lastResult[r], TRUE, Wanted(r))
      /\ GoodRow(rows[r]) /\ journal[r] \in Seq(Events) /\ cache[r] \in Records /\ pub[r] \in Nat
      /\ Wanted(r) \in BOOLEAN
  BY OfQuiet
<1> HIDE DEF p
<1>4. pub[r] <= MaxEvents
  BY <1>2, <1>3, RunEventLogAssumption
<1>5. QuietRun(rows'[r], Journaled(journal[r], Cached(m, p)), Cached(m, p), pub[r] + 1,
               IF p.type = "result" THEN pub[r] + 1 ELSE lastResult[r], TRUE, Wanted(r))
  <2> DEFINE d == rows[r]
             e == rows'[r]
             k == cache[r]
             n == pub[r]
             w == Wanted(r)
             lines == journal[r]
             last == lastResult[r]
  <2>1. /\ GoodRow(d) /\ d.status # "absent" /\ n \in Nat /\ n <= MaxEvents /\ w \in BOOLEAN
        /\ QuietRun(d, lines, k, n, last, TRUE, w)
        /\ k \in Records /\ lines \in Seq(Events)
        /\ Finished(m.status) <=> Finished(d.status)
    BY <1>3, <1>4
  <2>2. /\ k.known => m.count = k.count /\ m.events = k.events
        /\ e.count = d.count /\ e.events = d.events
        /\ e.status = d.status \/ {d.status, e.status} \subseteq ActiveStatuses
    OBVIOUS
  <2>3. p \in Payloads /\ p.no = n + 1 /\ p.type # "run_finished" /\ (Finished(d.status) => p.type # "result")
    BY <1>1
  <2> HIDE DEF d, e, k, n, w, lines, last
  <2>4. QuietRun(e, Journaled(lines, Cached(m, p)), Cached(m, p), n + 1,
                 IF p.type = "result" THEN n + 1 ELSE last, TRUE, w)
    BY <2>1, <2>2, <2>3, QuietPublished, Zenon
  <2> QED  BY <2>4 DEF e, n, w, lines, last
<1>6. \A x : Wanted(x)' <=> Wanted(x)
  BY <1>1, <1>2, WokenWanted
<1>7. /\ journal'[r] = Journaled(journal[r], Cached(m, p)) /\ cache'[r] = Cached(m, p) /\ pub'[r] = pub[r] + 1
      /\ lastResult'[r] = IF p.type = "result" THEN pub[r] + 1 ELSE lastResult[r]
      /\ \A x \in Runs \ {r} : /\ journal'[x] = journal[x] /\ cache'[x] = cache[x]
                               /\ pub'[x] = pub[x] /\ lastResult'[x] = lastResult[x]
  BY <1>1, <1>2 DEF TypeOK
<1>8. QuietRun(rows'[r], journal'[r], cache'[r], pub'[r], lastResult'[r], up, Wanted(r)')
  <2>1. QuietRun(rows'[r], journal'[r], cache'[r], pub'[r], lastResult'[r], TRUE, Wanted(r))
    BY <1>5, <1>7
  <2> QED  BY <1>6, <2>1 DEF QuietRun
<1> QED  BY <1>6, <1>7, <1>8, OneQuiet

LEMMA AppendEventQuiet ==
  ASSUME IInv, QuietNow, faults = 0, faults' = 0,
         NEW r \in Runs, NEW type \in {"content", "result"}, AppendEvent(r, type)
  PROVE  QuietNow'
<1>1. up /\ rows[r].status # "absent" /\ rows' = rows /\ UNCHANGED <<up, crashes>>
      /\ Publish(r, Record(r), type)
      /\ lastResult' = [lastResult EXCEPT ![r] = IF type = "result" THEN pub[r] + 1 ELSE @]
      /\ (type = "result" => ~Finished(Record(r).status))
  BY DEF AppendEvent, Exists
<1>2. type \in Types /\ type # "run_finished"
  BY DEF Types
<1>3. Record(r) \in Records /\ Record(r).known
  BY RecordType
<1>4. /\ Finished(Record(r).status) <=> Finished(rows[r].status)
      /\ cache[r].known => Record(r) = cache[r]
  BY <1>1, RecordQuiet
<1> QED  BY <1>1, <1>2, <1>3, <1>4, QuietPublish

LEMMA UpdateStatusQuiet ==
  ASSUME IInv, QuietNow, faults = 0, faults' = 0,
         NEW r \in Runs, NEW status \in {"waiting_approval", "running"}, UpdateStatus(r, status)
  PROVE  QuietNow'
<1> DEFINE d == UpdatedRow(rows[r], status)
           m == [Record(r) EXCEPT !.status = d.status]
<1>1. /\ up /\ rows[r].status # "absent" /\ rows' = [rows EXCEPT ![r] = d] /\ UNCHANGED <<up, crashes>>
      /\ Publish(r, m, "status") /\ ~Finished(Record(r).status) /\ lastResult' = lastResult
  BY DEF UpdateStatus, Exists
<1>2. "status" \in Types /\ "status" # "run_finished" /\ "status" # "result"
  BY DEF Types
<1>3. Record(r) \in Records /\ Record(r).known
  BY RecordType
<1>4. /\ ~Finished(rows[r].status)
      /\ cache[r].known => Record(r) = cache[r]
  BY <1>1, RecordQuiet
<1>5. rows[r].status \in ActiveStatuses /\ DOMAIN rows = Runs /\ lastResult \in [Runs -> Nat]
  BY <1>1, <1>4, OfQuiet, StatusKinds DEF IInv, TypeOK
<1>6. status \in ActiveStatuses /\ status \in AllStatuses /\ ~Finished(status)
  BY DEF ActiveStatuses, AllStatuses, Finished, FinishedStatuses
<1>7. d.status = status /\ d.count = rows[r].count /\ d.events = rows[r].events
  BY <1>4 DEF UpdatedRow
<1> HIDE DEF d
<1>8. m \in Records /\ m.known /\ m.status = status /\ m.count = Record(r).count /\ m.events = Record(r).events
  BY <1>3, <1>6, <1>7 DEF Records
<1> HIDE DEF m
<1>9. rows'[r] = d /\ \A x \in Runs \ {r} : rows'[x] = rows[x]
  BY <1>1, <1>5
<1>10. lastResult' = [lastResult EXCEPT ![r] = IF "status" = "result" THEN pub[r] + 1 ELSE @]
  BY <1>1, <1>5
<1>11. {rows[r].status, rows'[r].status} \subseteq ActiveStatuses
  BY <1>5, <1>6, <1>7, <1>9
<1> QED  BY <1>1, <1>2, <1>4, <1>6, <1>7, <1>8, <1>9, <1>10, <1>11, QuietPublish

\* The flush of an active run, whichever method asks for it
LEMMA ActiveFlush ==
  ASSUME IInv, QuietNow, up, NEW r \in Runs, rows[r].status \in ActiveStatuses
  PROVE  LET m == cache[r]
             e == Stored(rows[r], m.events)
         IN  /\ Fits(rows[r], m.events) /\ Record(r) = m
             /\ m \in Records /\ m.known /\ m.count = pub[r] /\ (Keeps => Whole(m, pub[r]))
             /\ GoodRow(e) /\ e.count = pub[r] /\ e.status = rows[r].status /\ StoredResult(e) = lastResult[r]
             /\ \E log : Logged(log, pub[r], e, journal[r], m, TRUE, lastResult[r])
<1> DEFINE m == cache[r]
           d == rows[r]
           n == pub[r]
           lines == journal[r]
           last == lastResult[r]
           e == Stored(d, m.events)
<1>1. /\ QuietRun(d, lines, m, n, last, TRUE, Wanted(r))
      /\ GoodRow(d) /\ m \in Records /\ n \in Nat /\ CacheBehindRow(m.events, d) /\ d.status \in ActiveStatuses
  BY OfQuiet
<1>2. d.status # "absent"
  BY <1>1, StatusKinds
<1>3. Record(r) = m
  BY <1>2, RecordQuiet
<1>4. PICK log : Logged(log, n, d, lines, m, TRUE, last)
  BY <1>1 DEF QuietRun
<1>5. Keeps => Whole(m, n)
  BY <1>1 DEF QuietRun
<1> HIDE DEF d, m, n, lines, last
<1>6. /\ Fits(d, m.events)
      /\ GoodRow(e) /\ e.count = n /\ e.status = d.status /\ StoredResult(e) = last
      /\ Logged(log, n, e, lines, m, TRUE, last)
  BY <1>1, <1>4, FlushIsComplete
<1>7. m.known /\ m.count = n
  BY <1>4 DEF Logged, InCache
<1> HIDE DEF e
<1>8. /\ Fits(d, m.events) /\ Record(r) = m
      /\ m \in Records /\ m.known /\ m.count = n /\ (Keeps => Whole(m, n))
      /\ GoodRow(e) /\ e.count = n /\ e.status = d.status /\ StoredResult(e) = last
      /\ \E log_ : Logged(log_, n, e, lines, m, TRUE, last)
  BY <1>1, <1>3, <1>5, <1>6, <1>7
<1> QED  BY <1>8 DEF d, m, n, lines, last, e

\* The status that a call of finish_run passes on is one of the outcomes.
LEMMA FinishRunQuiet ==
  ASSUME IInv, QuietNow, faults = 0, faults' = 0, NEW r \in Runs, NEW status \in Outcomes, FinishRun(r, status)
  PROVE  QuietNow'
<1>1. PICK ok \in BOOLEAN :
        LET m == Realigned(r, Record(r), ok)
            d == Committed(r, Record(r), ok, status)
        IN  /\ Exists(r) /\ ~ Finished(Record(r).status)
            /\ Persist(r, Record(r), ok)
            /\ rows' = [rows EXCEPT ![r] = d]
            /\ cache' = [cache EXCEPT ![r] = Finalized(m, d)]
            /\ pub' = [pub EXCEPT ![r] = @ + Ended(r, d)]
            /\ IF Announces(m, d)
               THEN /\ subs' = Woken({r})
                    /\ told' = [told EXCEPT ![r] = Append(@, d.status)]
                    /\ journal' = [journal EXCEPT ![r] = <<>>]
               ELSE UNCHANGED <<subs, told, journal>>
            /\ UNCHANGED <<up, lastResult, seen, replayed, crashes>>
  BY DEF FinishRun
<1>2. up /\ rows[r].status # "absent" /\ ~Finished(rows[r].status)
  BY <1>1, RecordQuiet DEF Exists
<1>3. rows[r].status \in ActiveStatuses /\ TypeOK /\ pub[r] \in Nat /\ Wanted(r) \in BOOLEAN
  BY <1>2, OfQuiet, StatusKinds DEF IInv
<1> DEFINE m == cache[r]
           n == pub[r]
           last == lastResult[r]
           e == Stored(rows[r], m.events)
<1>4. /\ Fits(rows[r], m.events) /\ Record(r) = m
      /\ m \in Records /\ m.known /\ m.count = n /\ (Keeps => Whole(m, n))
      /\ GoodRow(e) /\ e.count = n /\ e.status = rows[r].status /\ StoredResult(e) = last
  BY <1>2, <1>3, ActiveFlush
<1>5. ok
  BY <1>1, <1>4 DEF Persist, Fault
<1> DEFINE p == Terminal(r, e)
           d == FinishedRow(e, status, p)
<1>6. /\ Realigned(r, Record(r), ok) = m
      /\ Committed(r, Record(r), ok, status) = d
  BY <1>4, <1>5 DEF Realigned, Committed, Flushed
<1>7. p \in Payloads /\ p.type = "run_finished" /\ p.no = n + 1 /\ p.result = last
  <2>1. p \in Payloads /\ p.type = "run_finished"
    BY <1>3, <1>4, TerminalType
  <2> QED  BY <1>4, <2>1 DEF Terminal
<1>8. status \in FinishedStatuses
  BY RunEventLogAssumption
<1> HIDE DEF p
<1>9. ASSUME NEW lines
      PROVE  QuietRun(d, lines, Finalized(m, d), n + 1, last, TRUE, Wanted(r))
  <2> HIDE DEF e, m, n, last
  <2> QED  BY <1>3, <1>4, <1>7, <1>8, QuietFinished DEF n
<1>10. Ended(r, d) = 1
  <2>1. ~Finished(e.status)
    BY <1>2, <1>4
  <2>2. d.status = status
    BY <2>1 DEF FinishedRow
  <2> QED  BY <1>2, <1>8, <2>2 DEF Ended, Finished
<1>11. /\ rows' = [rows EXCEPT ![r] = d] /\ cache' = [cache EXCEPT ![r] = Finalized(m, d)]
       /\ pub' = [pub EXCEPT ![r] = n + 1]
       /\ (subs' = Woken({r}) \/ subs' = subs)
       /\ (journal' = [journal EXCEPT ![r] = <<>>] \/ journal' = journal)
       /\ UNCHANGED <<up, lastResult, crashes>>
  <2> HIDE DEF d, m
  <2> QED  BY <1>1, <1>6, <1>10
<1> HIDE DEF d, m, n, last
<1>12. \A x : Wanted(x)' <=> Wanted(x)
  <2>1. CASE subs' = Woken({r})
    BY <1>3, <2>1, WokenWanted
  <2>2. CASE subs' = subs
    BY <2>2 DEF Wanted
  <2> QED  BY <1>11, <2>1, <2>2
<1>13. /\ rows'[r] = d /\ cache'[r] = Finalized(m, d) /\ pub'[r] = n + 1 /\ lastResult'[r] = last
       /\ \A x \in Runs \ {r} : /\ rows'[x] = rows[x] /\ journal'[x] = journal[x] /\ cache'[x] = cache[x]
                                /\ pub'[x] = pub[x] /\ lastResult'[x] = lastResult[x]
  BY <1>3, <1>11 DEF TypeOK, last
<1>14. QuietRun(rows'[r], journal'[r], cache'[r], pub'[r], lastResult'[r], up, Wanted(r)')
  <2>1. QuietRun(rows'[r], journal'[r], cache'[r], pub'[r], lastResult'[r], TRUE, Wanted(r))
    BY <1>9, <1>13
  <2> QED  BY <1>2, <1>12, <2>1 DEF QuietRun
<1> QED  BY <1>11, <1>12, <1>13, <1>14, OneQuiet

LEMMA RequestStopQuiet ==
  ASSUME IInv, QuietNow, faults = 0, faults' = 0, NEW r \in Runs, RequestStop(r)
  PROVE  QuietNow'
<1>1. PICK ok \in BOOLEAN :
        LET m == Recounted(r, Stopping(cache[r]), ok)
            d == Flushed(r, cache[r], ok)
            s == AppendedRow(UpdatedRow(d, "stopping"), Payload(r, "stop"))
        IN  /\ up /\ cache[r].known /\ ~ Finished(cache[r].status)
            /\ pub[r] <= MaxEvents
            /\ Persist(r, cache[r], ok)
            /\ IF Finished(d.status)
               THEN /\ rows' = [rows EXCEPT ![r] = d]
                    /\ cache' = [cache EXCEPT ![r] = m]
                    /\ UNCHANGED <<subs, pub>>
               ELSE /\ rows' = [rows EXCEPT ![r] = s]
                    /\ cache' = [cache EXCEPT ![r] =
                                   [Mirrored(m, s, cache[r].count) EXCEPT !.count = s.count]]
                    /\ subs' = Woken({r})
                    /\ pub' = [pub EXCEPT ![r] = @ + 1]
            /\ UNCHANGED <<journal, up, lastResult, told, seen, replayed, crashes>>
  BY DEF RequestStop
<1>2. rows[r].status # "absent" /\ ~Finished(rows[r].status)
  <2>1. QuietRun(rows[r], journal[r], cache[r], pub[r], lastResult[r], up, Wanted(r))
    BY OfQuiet
  <2> QED  BY <1>1, <2>1 DEF QuietRun, Settled, NoRecord
<1>3. rows[r].status \in ActiveStatuses /\ TypeOK /\ pub[r] \in Nat /\ Wanted(r) \in BOOLEAN /\ journal[r] \in Seq(Events)
  BY <1>2, OfQuiet, StatusKinds DEF IInv
<1> DEFINE m == cache[r]
           n == pub[r]
           last == lastResult[r]
           lines == journal[r]
           e == Stored(rows[r], m.events)
<1>4. /\ Fits(rows[r], m.events)
      /\ m \in Records /\ m.known /\ m.count = n /\ (Keeps => Whole(m, n))
      /\ GoodRow(e) /\ e.count = n /\ e.status = rows[r].status
      /\ \E log : Logged(log, n, e, lines, m, TRUE, last)
  BY <1>1, <1>3, ActiveFlush
<1>5. ok
  BY <1>1, <1>4 DEF Persist, Fault
<1> DEFINE p == Payload(r, "stop")
           s == AppendedRow(UpdatedRow(e, "stopping"), p)
           mm == [Mirrored(Stopping(m), s, n) EXCEPT !.count = s.count]
<1>6. Recounted(r, Stopping(m), ok) = Stopping(m) /\ Flushed(r, m, ok) = e /\ ~Finished(e.status)
  BY <1>2, <1>4, <1>5 DEF Recounted, Flushed
<1>7. p \in Payloads /\ p.type = "stop" /\ p.no = n + 1
  <2>1. "stop" \in Types
    BY DEF Types
  <2>2. p \in Payloads /\ p.type = "stop"
    BY <1>3, <2>1, PayloadType
  <2> QED  BY <2>2 DEF Payload
<1>8. /\ rows' = [rows EXCEPT ![r] = s] /\ cache' = [cache EXCEPT ![r] = mm]
      /\ pub' = [pub EXCEPT ![r] = n + 1] /\ subs' = Woken({r})
      /\ UNCHANGED <<journal, up, lastResult, crashes>>
  <2>1. m.count = n
    BY <1>4
  <2> HIDE DEF e
  <2> QED  BY <1>1, <1>6, <2>1
<1> HIDE DEF p
<1>9. QuietRun(s, lines, mm, n + 1, last, TRUE, Wanted(r))
  <2>1. PICK log : Logged(log, n, e, lines, m, TRUE, last)
    BY <1>4
  <2>2. n \in Nat /\ n <= MaxEvents
    BY <1>1, <1>3
  <2>3. e.status \in ActiveStatuses /\ lines \in Seq(Events)
    BY <1>3, <1>4
  <2>4. GoodRow(e) /\ e.count = n /\ m \in Records /\ (Keeps => Whole(m, n)) /\ Wanted(r) \in BOOLEAN
    BY <1>3, <1>4
  <2> DEFINE w == Wanted(r)
  <2> HIDE DEF e, m, n, last, lines, w
  <2>5. QuietRun(s, lines, mm, n + 1, last, TRUE, w)
    BY <1>7, <2>1, <2>2, <2>3, <2>4, QuietStopped DEF w
  <2> QED  BY <2>5 DEF w
<1> HIDE DEF s, mm, m, n, last, lines
<1>10. \A x : Wanted(x)' <=> Wanted(x)
  BY <1>3, <1>8, WokenWanted
<1>11. /\ rows'[r] = s /\ cache'[r] = mm /\ pub'[r] = n + 1 /\ lastResult'[r] = last /\ journal'[r] = lines
       /\ \A x \in Runs \ {r} : /\ rows'[x] = rows[x] /\ journal'[x] = journal[x] /\ cache'[x] = cache[x]
                                /\ pub'[x] = pub[x] /\ lastResult'[x] = lastResult[x]
  BY <1>3, <1>8 DEF TypeOK, last, lines
<1>12. QuietRun(rows'[r], journal'[r], cache'[r], pub'[r], lastResult'[r], up, Wanted(r)')
  <2>1. QuietRun(rows'[r], journal'[r], cache'[r], pub'[r], lastResult'[r], TRUE, Wanted(r))
    BY <1>9, <1>11
  <2> QED  BY <1>1, <1>10, <2>1 DEF QuietRun
<1> QED  BY <1>8, <1>10, <1>11, <1>12, OneQuiet

LEMMA SubscribeQuiet ==
  ASSUME IInv, QuietNow, NEW r \in Runs, NEW c \in Clients, NEW from \in 0 .. Top, Subscribe(c, r, from)
  PROVE  QuietNow'
<1>1. /\ up /\ rows[r].status # "absent" /\ ~Finished(Record(r).status) /\ subs[c].state = "idle"
      /\ subs' = [subs EXCEPT ![c] = [run |-> r, from |-> from, index |-> from, state |-> "ready"]]
      /\ cache' = [cache EXCEPT ![r] = Record(r)]
      /\ UNCHANGED <<rows, journal, up, pub, lastResult, crashes>>
  BY DEF Subscribe, Exists
<1>2. rows[r].status \in ActiveStatuses /\ Record(r) = cache[r] /\ cache[r].known
  <2>1. ~Finished(rows[r].status)
    BY <1>1, RecordQuiet
  <2>2. rows[r].status \in ActiveStatuses
    BY <1>1, <2>1, OfQuiet, StatusKinds
  <2> QED  BY <1>1, <2>2, RecordQuiet
<1>3. cache' = cache /\ subs \in [Clients -> SubStates]
  BY <1>1, <1>2 DEF IInv, TypeOK
<1>4. \A x \in Runs \ {r} : Wanted(x)' => Wanted(x)
  BY <1>1, <1>3 DEF Wanted
<1>5. QuietRun(rows[r], journal[r], cache[r], pub[r], lastResult[r], up, Wanted(r))
  BY OfQuiet
<1>6. QuietRun(rows'[r], journal'[r], cache'[r], pub'[r], lastResult'[r], up, Wanted(r)')
  <2>1. QuietRun(rows[r], journal[r], cache[r], pub[r], lastResult[r], up, Wanted(r)')
    BY <1>1, <1>2, <1>5 DEF QuietRun
  <2> QED  BY <1>1, <1>3, <2>1
<1> QED  BY <1>1, <1>3, <1>4, <1>6, OneQuiet

\* What a turn of a generator finds when nothing failed
LEMMA PolledQuiet ==
  ASSUME IInv, QuietNow, up, NEW c \in Clients, subs[c].state = "ready", NEW r \in Runs, subs[c].run = r
  PROVE  /\ Record(r) = cache[r] /\ cache[r].known
         /\ Keeps => Whole(cache[r], pub[r]) /\ Loaded(cache[r], rows[r]) = cache[r]
         /\ QuietRun(rows[r], journal[r], Loaded(cache[r], rows[r]), pub[r], lastResult[r], TRUE, Wanted(r))
<1> DEFINE m == cache[r]
           d == rows[r]
           n == pub[r]
           lines == journal[r]
           last == lastResult[r]
           w == Wanted(r)
           mm == Loaded(m, d)
<1>1. /\ QuietRun(d, lines, m, n, last, TRUE, w) /\ w
      /\ GoodRow(d) /\ d.status \in AllStatuses /\ m \in Records /\ CacheBehindRow(m.events, d)
  BY OfQuiet DEF Wanted
<1>2. m.known /\ d.status # "absent"
  BY <1>1 DEF QuietRun, NoRecord
<1>3. Record(r) = m
  BY <1>2, RecordType
<1> HIDE DEF m, d, n, lines, last, w
<1>4. mm.known /\ mm.status = m.status
  BY <1>1, <1>2, LoadedType
<1>5. Keeps => Whole(m, n) /\ mm = m
  <2> SUFFICES ASSUME Keeps PROVE Whole(m, n) /\ mm = m
    OBVIOUS
  <2>1. Whole(m, n)
    BY <1>1 DEF QuietRun
  <2>2. Len(m.events) >= m.count
    BY <1>1, <2>1 DEF Whole, Records
  <2> QED  BY <2>1, <2>2 DEF Loaded
<1>6. QuietRun(d, lines, mm, n, last, TRUE, w)
  <2>1. CASE d.status \in ActiveStatuses
    <3>1. PICK log : Logged(log, n, d, lines, m, TRUE, last)
      BY <1>1, <2>1 DEF QuietRun
    <3>2. n \in Nat
      BY OfQuiet DEF n
    <3>3. Logged(log, n, d, lines, mm, TRUE, last)
      BY <1>1, <2>1, <3>1, <3>2, LoadedIsLogged
    <3> HIDE DEF mm
    <3> QED  BY <1>2, <1>4, <1>5, <2>1, <3>3, StatusKinds DEF QuietRun
  <2>2. CASE Finished(d.status)
    <3>1. d.status \notin ActiveStatuses
      BY <2>2, StatusKinds DEF Finished
    <3>2. Settled(d, mm, last)
      BY <1>1, <1>2, <1>4, <2>2 DEF QuietRun, Settled
    <3> HIDE DEF mm
    <3> QED  BY <1>2, <1>4, <1>5, <3>1, <3>2 DEF QuietRun
  <2> QED  BY <1>1, <1>2, <2>1, <2>2, StatusKinds
<1> QED  BY <1>2, <1>3, <1>5, <1>6 DEF m, d, n, lines, last, w

LEMMA PollQuiet ==
  ASSUME IInv, QuietNow, NEW c \in Clients, Poll(c)
  PROVE  QuietNow'
<1>0. PICK r \in Runs : r = subs[c].run
  BY DEF Poll, IInv, TypeOK
<1> DEFINE m == Loaded(Record(r), rows[r])
<1>1. /\ up /\ subs[c].state = "ready" /\ cache' = [cache EXCEPT ![r] = m]
      /\ \/ subs' = [subs EXCEPT ![c].index = subs[c].index + 1]
         \/ \E state \in {"ended", "waiting"} : subs' = [subs EXCEPT ![c].state = state]
      /\ UNCHANGED <<rows, journal, up, pub, lastResult, crashes>>
  BY <1>0 DEF Poll, Exists
<1>2. subs \in [Clients -> SubStates] /\ cache \in [Runs -> Records]
  BY <1>1 DEF IInv, TypeOK
<1>3. m = Loaded(cache[r], rows[r])
      /\ QuietRun(rows[r], journal[r], Loaded(cache[r], rows[r]), pub[r], lastResult[r], TRUE, Wanted(r))
  BY <1>0, <1>1, <1>2, PolledQuiet
<1>4. \A x : Wanted(x)' => Wanted(x)
  <2>1. \A b \in Clients : /\ subs'[b].run = subs[b].run
                           /\ subs'[b].state # "idle" => subs[b].state # "idle"
    BY <1>1, <1>2 DEF SubStates
  <2> QED  BY <2>1 DEF Wanted
<1> HIDE DEF m
<1>5. QuietRun(rows'[r], journal'[r], cache'[r], pub'[r], lastResult'[r], up, Wanted(r)')
  <2>1. Wanted(r)' \in BOOLEAN /\ Wanted(r) \in BOOLEAN
    BY DEF Wanted
  <2>2. QuietRun(rows[r], journal[r], m, pub[r], lastResult[r], TRUE, Wanted(r))
    BY <1>3
  <2>3. QuietRun(rows[r], journal[r], m, pub[r], lastResult[r], TRUE, Wanted(r)')
    BY <1>4, <2>1, <2>2, QuietUnwanted
  <2>4. rows'[r] = rows[r] /\ journal'[r] = journal[r] /\ cache'[r] = m /\ pub'[r] = pub[r]
        /\ lastResult'[r] = lastResult[r] /\ up = TRUE
    BY <1>1, <1>2 DEF IInv, TypeOK
  <2> QED  BY <2>3, <2>4
<1>6. \A x \in Runs \ {r} : /\ rows'[x] = rows[x] /\ journal'[x] = journal[x] /\ cache'[x] = cache[x]
                            /\ pub'[x] = pub[x] /\ lastResult'[x] = lastResult[x]
  BY <1>1, <1>2
<1> QED  BY <1>1, <1>2, <1>4, <1>5, <1>6, OneQuiet

LEMMA UnsubscribeQuiet ==
  ASSUME IInv, QuietNow, NEW c \in Clients, Unsubscribe(c)
  PROVE  QuietNow'
<1>1. subs' = [subs EXCEPT ![c] = NoSub] /\ UNCHANGED <<rows, journal, up, cache, pub, lastResult, crashes>>
  BY DEF Unsubscribe
<1>2. \A x : Wanted(x)' => Wanted(x)
  BY <1>1 DEF Wanted, NoSub, IInv, TypeOK
<1>3. ASSUME NEW x \in Runs
      PROVE  QuietRun(rows'[x], journal'[x], cache'[x], pub'[x], lastResult'[x], up', Wanted(x)')
  <2>1. QuietRun(rows[x], journal[x], cache[x], pub[x], lastResult[x], up, Wanted(x))
    BY OfQuiet
  <2>2. QuietRun(rows[x], journal[x], cache[x], pub[x], lastResult[x], up, Wanted(x)')
    BY <1>2, <2>1 DEF QuietRun
  <2> QED  BY <1>1, <2>2
<1> QED  BY <1>1, <1>3 DEF QuietNow

\* A row that was just inserted has an empty log.
LEMMA QuietInserted ==
  /\ QuietRun(InsertedRow, <<>>, Hydrated(NoRecord, InsertedRow), 0, 0, TRUE, FALSE)
  /\ QuietRun(InsertedRow, <<>>, NoRecord, 0, 0, FALSE, FALSE)
<1> DEFINE log == [i \in 0 .. 0 - 1 |-> CHOOSE p \in Payloads : TRUE]
           m == Hydrated(NoRecord, InsertedRow)
<1>1. 0 .. 0 - 1 = {} /\ 1 .. 0 = {} /\ 0 .. 0 = {0}
  OBVIOUS
<1>2. log \in Logs(0) /\ LastIn(log, 0, 0)
  BY <1>1 DEF Logs, LastIn
<1> HIDE DEF log
<1>3. /\ InsertedRow.status = "running" /\ InsertedRow.count = 0 /\ InsertedRow.events = <<>>
      /\ "running" \in ActiveStatuses /\ ~Finished("running")
  BY DEF InsertedRow, ActiveStatuses, Finished, FinishedStatuses
<1>4. m.known /\ m.status = "running" /\ m.count = 0 /\ m.events = <<>>
  BY <1>3 DEF Hydrated, NoRecord
<1> HIDE DEF m
<1>5. Covers(log, 0, InsertedRow, <<>>) /\ InRow(log, InsertedRow)
  BY <1>1, <1>3 DEF Covers, InRow
<1>6. InCache(log, 0, InsertedRow, m)
  <2>1. Len(m.events) = 0 /\ DOMAIN m.events = {}
    BY <1>4
  <2> QED  BY <1>3, <1>4, <2>1 DEF InCache
<1>7. 0 <= MaxEvents + 1
  BY RunEventLogAssumption
<1>8. Logged(log, 0, InsertedRow, <<>>, m, TRUE, 0) /\ Logged(log, 0, InsertedRow, <<>>, NoRecord, FALSE, 0)
  BY <1>2, <1>3, <1>5, <1>6, <1>7 DEF Logged
<1>9. Whole(m, 0)
  <2>1. Len(m.events) = 0 /\ DOMAIN m.events = {}
    BY <1>4
  <2> QED  BY <1>4, <2>1 DEF Whole
<1> QED  BY <1>3, <1>8, <1>9 DEF QuietRun, m

LEMMA CreateRunQuiet ==
  ASSUME IInv, QuietNow, NEW r \in Runs, NEW parent \in Parents(r), CreateRun(r, parent)
  PROVE  QuietNow'
<1> DEFINE published == {r, parent} \ {"none"}
           made(x) == IF x = r THEN Started(r) ELSE ChildTold(x)
<1>1. /\ up /\ rows[r].status = "absent" /\ rows' = [rows EXCEPT ![r] = InsertedRow]
      /\ cache' = [x \in Runs |-> IF x \in published THEN made(x) ELSE cache[x]]
      /\ journal' = [x \in Runs |-> IF x \in published THEN Journaled(journal[x], made(x))
                                    ELSE journal[x]]
      /\ pub' = [x \in Runs |-> IF x \in published THEN pub[x] + 1 ELSE pub[x]]
      /\ subs' = Woken(published)
      /\ UNCHANGED <<up, lastResult, crashes>>
  BY DEF CreateRun
<1>2. TypeOK /\ r \in published
  BY RunEventLogAssumption DEF IInv
<1>3. \A x \in published \ {r} : rows[x].status # "absent" /\ pub[x] < MaxEvents
  BY DEF Parents, Exists, Room
<1>4. \A x : Wanted(x)' <=> Wanted(x)
  BY <1>1, <1>2, WokenWanted
<1>5. ASSUME NEW x \in Runs
      PROVE  QuietRun(rows'[x], journal'[x], cache'[x], pub'[x], lastResult'[x], TRUE, Wanted(x))
  <2>1. /\ QuietRun(rows[x], journal[x], cache[x], pub[x], lastResult[x], TRUE, Wanted(x))
        /\ GoodRow(rows[x]) /\ journal[x] \in Seq(Events) /\ cache[x] \in Records /\ pub[x] \in Nat
        /\ Wanted(x) \in BOOLEAN
    BY <1>1, OfQuiet
  <2>2. CASE x = r
    <3>1. cache[r] = NoRecord /\ journal[r] = <<>> /\ pub[r] = 0 /\ lastResult[r] = 0 /\ ~Wanted(r)
      BY <1>1, <2>1, <2>2 DEF QuietRun, NoRecord
    <3> DEFINE p == Payload(r, "run_started")
               m == Hydrated(NoRecord, InsertedRow)
    <3>2. Started(r) = Cached(m, p)
      BY <3>1 DEF Started
    <3>3. p \in Payloads /\ p.no = 0 + 1 /\ p.type # "run_finished" /\ p.type # "result"
      <4>1. "run_started" \in Types
        BY DEF Types
      <4>2. p \in Payloads /\ p.type = "run_started"
        BY <1>2, <4>1, PayloadType
      <4> QED  BY <3>1, <4>2 DEF Payload
    <3>4. /\ GoodRow(InsertedRow) /\ InsertedRow.status = "running" /\ ~Finished("running")
          /\ m \in Records /\ m.known /\ m.status = InsertedRow.status
      <4>1. NoRecord \in Records
        BY DEF NoRecord, Records, AllStatuses
      <4> QED  BY <4>1, NoRowGood, HydratedType DEF InsertedRow, Finished, FinishedStatuses
    <3>5. <<>> \in Seq(Events) /\ 0 \in Nat /\ 0 <= MaxEvents /\ FALSE \in BOOLEAN
      BY RunEventLogAssumption
    <3> HIDE DEF p, m
    <3>6. QuietRun(InsertedRow, <<>>, m, 0, 0, TRUE, FALSE)
      BY QuietInserted DEF m
    <3>7. QuietRun(InsertedRow, Journaled(<<>>, Cached(m, p)), Cached(m, p), 0 + 1,
                   IF p.type = "result" THEN 0 + 1 ELSE 0, TRUE, FALSE)
      <4> DEFINE d == InsertedRow
                 z == 0
                 f == FALSE
                 lines == <<>>
      <4>1. /\ GoodRow(d) /\ d.status # "absent" /\ lines \in Seq(Events) /\ z \in Nat /\ z <= MaxEvents /\ f \in BOOLEAN
            /\ QuietRun(d, lines, m, z, z, TRUE, f) /\ m \in Records /\ m.known
            /\ Finished(m.status) <=> Finished(d.status)
            /\ p \in Payloads /\ p.no = z + 1 /\ p.type # "run_finished" /\ p.type # "result"
        BY <3>3, <3>4, <3>5, <3>6
      <4> HIDE DEF d, z, f, lines
      <4>2. QuietRun(d, Journaled(lines, Cached(m, p)), Cached(m, p), z + 1,
                     IF p.type = "result" THEN z + 1 ELSE z, TRUE, f)
        BY <4>1, QuietPublished
      <4> QED  BY <4>2 DEF d, z, f, lines
    <3>8. rows'[x] = InsertedRow /\ cache'[x] = Cached(m, p) /\ journal'[x] = Journaled(<<>>, Cached(m, p))
          /\ pub'[x] = 0 + 1 /\ lastResult'[x] = 0
      BY <1>1, <1>2, <2>2, <3>1, <3>2 DEF TypeOK
    <3> QED  BY <2>2, <3>1, <3>3, <3>7, <3>8 DEF QuietRun
  <2>3. CASE x # r /\ x \in published
    <3> DEFINE p == Payload(x, "content")
               mm == Record(x)
    <3>1. p \in Payloads /\ p.no = pub[x] + 1 /\ p.type # "run_finished" /\ p.type # "result"
      <4>1. "content" \in Types
        BY DEF Types
      <4>2. p \in Payloads /\ p.type = "content"
        BY <1>2, <4>1, PayloadType
      <4> QED  BY <4>2 DEF Payload
    <3>2. rows[x].status # "absent" /\ pub[x] <= MaxEvents
      BY <1>3, <2>1, <2>3, RunEventLogAssumption
    <3>3. /\ mm \in Records /\ mm.known
          /\ Finished(mm.status) <=> Finished(rows[x].status)
          /\ cache[x].known => mm.count = cache[x].count /\ mm.events = cache[x].events
      BY <1>1, <3>2, RecordType, RecordQuiet
    <3>4. /\ rows'[x] = rows[x] /\ cache'[x] = Cached(mm, p) /\ journal'[x] = Journaled(journal[x], Cached(mm, p))
          /\ pub'[x] = pub[x] + 1 /\ lastResult'[x] = lastResult[x]
      BY <1>1, <1>2, <2>3 DEF TypeOK, ChildTold
    <3> DEFINE d == rows[x]
               k == cache[x]
               n == pub[x]
               w == Wanted(x)
               lines == journal[x]
               last == lastResult[x]
    <3> HIDE DEF p, mm
    <3>5. /\ GoodRow(d) /\ d.status # "absent" /\ lines \in Seq(Events) /\ k \in Records /\ n \in Nat /\ n <= MaxEvents
          /\ w \in BOOLEAN /\ QuietRun(d, lines, k, n, last, TRUE, w)
          /\ mm \in Records /\ mm.known
          /\ Finished(mm.status) <=> Finished(d.status)
          /\ k.known => mm.count = k.count /\ mm.events = k.events
      BY <2>1, <3>2, <3>3
    <3>6. /\ p \in Payloads /\ p.no = n + 1 /\ p.type # "run_finished" /\ (Finished(d.status) => p.type # "result")
          /\ d.count = d.count /\ d.events = d.events /\ d.status = d.status
      BY <3>1
    <3> HIDE DEF d, k, n, w, lines, last
    <3>7. QuietRun(d, Journaled(lines, Cached(mm, p)), Cached(mm, p), n + 1,
                   IF p.type = "result" THEN n + 1 ELSE last, TRUE, w)
      BY <3>5, <3>6, QuietPublished, Zenon
    <3> QED  BY <3>1, <3>4, <3>7 DEF d, n, w, lines, last
  <2>4. CASE x # r /\ x \notin published
    <3>1. /\ rows'[x] = rows[x] /\ cache'[x] = cache[x] /\ journal'[x] = journal[x]
          /\ pub'[x] = pub[x] /\ lastResult'[x] = lastResult[x]
      BY <1>1, <1>2, <2>4 DEF TypeOK
    <3> QED  BY <2>1, <3>1
  <2> QED  BY <2>2, <2>3, <2>4
<1>6. ASSUME NEW x \in Runs
      PROVE  QuietRun(rows'[x], journal'[x], cache'[x], pub'[x], lastResult'[x], up', Wanted(x)')
  <2>1. Wanted(x)' \in BOOLEAN /\ Wanted(x) \in BOOLEAN
    BY DEF Wanted
  <2>2. QuietRun(rows'[x], journal'[x], cache'[x], pub'[x], lastResult'[x], TRUE, Wanted(x)')
    BY <1>4, <1>5, <2>1, QuietUnwanted
  <2>3. up' = TRUE
    BY <1>1 DEF IInv, TypeOK
  <2> QED  BY <2>2, <2>3
<1> QED  BY <1>1, <1>6 DEF QuietNow

\* The process dies: what the cache held is gone, the log is not.
LEMMA QuietForgotten ==
  ASSUME NEW d, NEW lines, NEW m, NEW n, NEW last, NEW live, NEW w, QuietRun(d, lines, m, n, last, live, w)
  PROVE  QuietRun(d, lines, NoRecord, n, last, FALSE, FALSE)
<1>1. d.status \in ActiveStatuses => \E log : Logged(log, n, d, lines, NoRecord, FALSE, last)
  BY DEF QuietRun, Logged
<1>2. Finished(d.status) => Settled(d, NoRecord, last)
  BY DEF QuietRun, Settled, NoRecord
<1> QED  BY <1>1, <1>2 DEF QuietRun

LEMMA QuietDead ==
  ASSUME IInv, QuietNow, Dies,
         \A r \in Runs : QuietRun(rows'[r], journal[r], NoRecord, pub'[r], lastResult[r], FALSE, FALSE)
  PROVE  QuietNow'
<1>1. /\ cache' = [r \in Runs |-> NoRecord] /\ subs' = [c \in Clients |-> NoSub]
      /\ up' = FALSE /\ crashes < MaxCrashes /\ crashes' = crashes + 1 /\ UNCHANGED <<journal, lastResult>>
  BY DEF Dies
<1>2. \A r \in Runs : ~Wanted(r)'
  BY <1>1 DEF Wanted, NoSub
<1>3. ASSUME NEW r \in Runs
      PROVE  QuietRun(rows'[r], journal'[r], cache'[r], pub'[r], lastResult'[r], up', Wanted(r)')
  <2>1. cache'[r] = NoRecord /\ journal'[r] = journal[r] /\ lastResult'[r] = lastResult[r] /\ up' = FALSE
    BY <1>1
  <2>2. Wanted(r)' \in BOOLEAN /\ (Wanted(r)' => FALSE)
    BY <1>2 DEF Wanted
  <2>3. QuietRun(rows'[r], journal[r], NoRecord, pub'[r], lastResult[r], FALSE, Wanted(r)')
    BY <2>2, QuietUnwanted
  <2> QED  BY <2>1, <2>3
<1>4. crashes' <= MaxCrashes /\ (~up' => crashes' > 0)
  BY <1>1, RunEventLogAssumption DEF IInv, TypeOK
<1> QED  BY <1>3, <1>4 DEF QuietNow

LEMMA CrashQuiet ==
  ASSUME IInv, QuietNow, Crash
  PROVE  QuietNow'
<1>1. Dies /\ rows' = rows /\ pub' = pub
  BY DEF Crash
<1>2. ASSUME NEW r \in Runs
      PROVE  QuietRun(rows[r], journal[r], NoRecord, pub[r], lastResult[r], FALSE, FALSE)
  BY OfQuiet, QuietForgotten
<1> QED  BY <1>1, <1>2, QuietDead

LEMMA CrashInCreateQuiet ==
  ASSUME IInv, QuietNow, NEW r \in Runs, CrashInCreate(r)
  PROVE  QuietNow'
<1>1. Dies /\ rows[r].status = "absent" /\ rows' = [rows EXCEPT ![r] = InsertedRow] /\ pub' = pub
  BY DEF CrashInCreate
<1>2. DOMAIN rows = Runs
  BY DEF IInv, TypeOK
<1>3. ASSUME NEW x \in Runs
      PROVE  QuietRun(rows'[x], journal[x], NoRecord, pub'[x], lastResult[x], FALSE, FALSE)
  <2>1. CASE x = r
    <3>1. journal[r] = <<>> /\ pub[r] = 0 /\ lastResult[r] = 0
      BY <1>1, OfQuiet DEF QuietRun
    <3> QED  BY <1>1, <1>2, <2>1, <3>1, QuietInserted
  <2>2. CASE x # r
    <3>1. rows'[x] = rows[x] /\ pub'[x] = pub[x]
      BY <1>1, <1>2, <2>2
    <3> QED  BY <3>1, OfQuiet, QuietForgotten
  <2> QED  BY <2>1, <2>2
<1> QED  BY <1>1, <1>3, QuietDead

\* A status change of an active row
LEMMA QuietUpdated ==
  ASSUME NEW log, NEW n, NEW d, d.status \in ActiveStatuses, NEW lines, NEW m, NEW last,
         Logged(log, n, d, lines, m, TRUE, last), NEW status \in ActiveStatuses
  PROVE  LET e == UpdatedRow(d, status)
         IN  e.status = status /\ QuietRun(e, lines, NoRecord, n, last, FALSE, FALSE)
<1> DEFINE e == UpdatedRow(d, status)
<1>1. e.status = status /\ e.count = d.count /\ e.events = d.events
  BY StatusKinds DEF UpdatedRow
<1> HIDE DEF e
<1>2. Logged(log, n, e, lines, NoRecord, FALSE, last)
  <2>1. InRow(log, e) /\ Covers(log, n, e, lines)
    BY <1>1 DEF Logged, InRow, Covers
  <2> QED  BY <1>1, <2>1 DEF Logged
<1>3. ~Finished(e.status) /\ e.status # "absent"
  BY <1>1, StatusKinds
<1> QED  BY <1>1, <1>2, <1>3 DEF QuietRun, e

\* The transactions of a method that was cut short
LEMMA QuietCut ==
  ASSUME IInv, QuietNow, up, NEW r \in Runs, rows[r].status # "absent", NEW cut \in Cuts(r)
  PROVE  QuietRun(cut.row, journal[r], NoRecord, pub[r] + Ended(r, cut.row), lastResult[r], FALSE, FALSE)
<1> DEFINE m == cache[r]
           n == pub[r]
           last == lastResult[r]
           lines == journal[r]
           e == Stored(rows[r], m.events)
<1>1. /\ Finished(Record(r).status) <=> Finished(rows[r].status)
      /\ m.known => Record(r) = m
  BY RecordQuiet
<1>2. rows[r].status \in ActiveStatuses /\ ~Finished(rows[r].status) /\ TypeOK /\ n \in Nat
  <2>1. ~Finished(rows[r].status)
    BY <1>1 DEF Cuts, StopCuts, FinishCuts
  <2> QED  BY <2>1, OfQuiet, StatusKinds DEF IInv
<1>3. /\ Fits(rows[r], m.events) /\ Record(r) = m
      /\ m \in Records /\ m.known /\ m.count = n /\ (Keeps => Whole(m, n))
      /\ GoodRow(e) /\ e.count = n /\ e.status = rows[r].status /\ StoredResult(e) = last
      /\ \E log : Logged(log, n, e, lines, m, TRUE, last)
  BY <1>2, ActiveFlush
<1>4. PICK log : Logged(log, n, e, lines, m, TRUE, last)
  BY <1>3
<1>5. "stopping" \in ActiveStatuses
  BY DEF ActiveStatuses
<1> DEFINE u == UpdatedRow(e, "stopping")
           d(status) == FinishedRow(e, status, Terminal(r, e))
<1>6. cut.row = e \/ cut.row = u \/ \E status \in Outcomes : cut.row = d(status)
  <2> DEFINE ok == Fits(rows[r], m.events)
  <2>1. ok /\ Record(r) = m
    BY <1>3
  <2>2. Flushed(r, m, ok) = e
    BY <2>1 DEF Flushed
  <2>3. ASSUME NEW status \in Outcomes PROVE Committed(r, m, ok, status) = d(status)
    BY <2>1, <2>2 DEF Committed
  <2> HIDE DEF ok, e, d, u
  <2>4. CASE cut \in StopCuts(r)
    <3> DEFINE w == Recounted(r, Stopping(m), ok)
    <3>1. cut \in {[row |-> Flushed(r, m, ok), record |-> w],
                   [row |-> UpdatedRow(Flushed(r, m, ok), "stopping"), record |-> w]}
      BY <2>4, Zenon DEF StopCuts, ok
    <3> HIDE DEF w
    <3>2. cut.row = Flushed(r, m, ok) \/ cut.row = UpdatedRow(Flushed(r, m, ok), "stopping")
      BY <3>1
    <3> QED  BY <2>2, <3>2 DEF u
  <2>5. ASSUME NEW status \in Outcomes, cut \in FinishCuts(r, status) PROVE cut.row = e \/ cut.row = d(status)
    <3> DEFINE w == Realigned(r, m, ok)
    <3>1. cut \in {[row |-> Flushed(r, m, ok), record |-> w],
                   [row |-> Committed(r, m, ok, status), record |-> w]}
      BY <2>1, <2>5, Zenon DEF FinishCuts, ok
    <3> HIDE DEF w
    <3>2. cut.row = Flushed(r, m, ok) \/ cut.row = Committed(r, m, ok, status)
      BY <3>1
    <3> QED  BY <2>2, <2>3, <3>2
  <2> QED  BY <2>4, <2>5 DEF Cuts
<1>7. e.status \in ActiveStatuses /\ ~Finished(e.status) /\ e.status # "absent"
  BY <1>2, <1>3, StatusKinds
<1>8. CASE cut.row = e
  <2>1. Logged(log, n, e, lines, NoRecord, FALSE, last)
    BY <1>4 DEF Logged
  <2>2. Ended(r, e) = 0
    BY <1>7 DEF Ended
  <2> HIDE DEF e, n, m, lines, last
  <2>3. QuietRun(e, lines, NoRecord, n, last, FALSE, FALSE)
    BY <1>7, <2>1 DEF QuietRun
  <2>4. n + Ended(r, cut.row) = n
    BY <1>2, <1>8, <2>2
  <2>5. QuietRun(cut.row, lines, NoRecord, n + Ended(r, cut.row), last, FALSE, FALSE)
    BY <1>8, <2>3, <2>4
  <2> QED  BY <2>5 DEF n, lines, last
<1>9. CASE cut.row = u
  <2> HIDE DEF e, m, n, lines, last
  <2>1. u.status = "stopping" /\ QuietRun(u, lines, NoRecord, n, last, FALSE, FALSE)
    BY <1>4, <1>5, <1>7, QuietUpdated
  <2>2. Ended(r, u) = 0
    BY <1>5, <2>1, StatusKinds DEF Ended
  <2> HIDE DEF u
  <2>3. n + Ended(r, cut.row) = n
    BY <1>2, <1>9, <2>2
  <2>4. QuietRun(cut.row, lines, NoRecord, n + Ended(r, cut.row), last, FALSE, FALSE)
    BY <1>9, <2>1, <2>3
  <2> QED  BY <2>4 DEF n, lines, last
<1>10. ASSUME NEW status \in Outcomes, cut.row = d(status)
       PROVE  QuietRun(cut.row, lines, NoRecord, n + Ended(r, cut.row), last, FALSE, FALSE)
  <2> DEFINE p == Terminal(r, e)
  <2>1. p \in Payloads /\ p.type = "run_finished" /\ p.no = n + 1 /\ p.result = last
    <3>1. p \in Payloads /\ p.type = "run_finished"
      BY <1>2, <1>3, TerminalType
    <3> QED  BY <1>3, <3>1 DEF Terminal
  <2>2. status \in FinishedStatuses /\ FALSE \in BOOLEAN
    BY RunEventLogAssumption
  <2>3. d(status).status = status
    BY <1>7 DEF FinishedRow
  <2>4. Ended(r, d(status)) = 1
    BY <1>2, <2>2, <2>3 DEF Ended, Finished
  <2> HIDE DEF p, e, m, n, lines, last
  <2>5. \A k : QuietRun(FinishedRow(e, status, p), lines, NoRecord, k, last, FALSE, FALSE)
    BY <1>2, <1>3, <1>7, <2>1, <2>2, QuietFinished
  <2> QED  BY <1>10, <2>5 DEF p
<1> QED  BY <1>6, <1>8, <1>9, <1>10

LEMMA CrashInMethodQuiet ==
  ASSUME IInv, QuietNow, NEW r \in Runs, CrashInMethod(r)
  PROVE  QuietNow'
<1>1. PICK cut \in Cuts(r) :
        /\ Exists(r) /\ Dies
        /\ rows' = [rows EXCEPT ![r] = cut.row]
        /\ pub' = [pub EXCEPT ![r] = @ + Ended(r, cut.row)]
  BY DEF CrashInMethod
<1>2. QuietRun(cut.row, journal[r], NoRecord, pub[r] + Ended(r, cut.row), lastResult[r], FALSE, FALSE)
  BY <1>1, QuietCut DEF Exists
<1>3. DOMAIN rows = Runs /\ pub \in [Runs -> Nat]
  BY DEF IInv, TypeOK
<1>4. ASSUME NEW x \in Runs
      PROVE  QuietRun(rows'[x], journal[x], NoRecord, pub'[x], lastResult[x], FALSE, FALSE)
  <2>1. CASE x = r
    <3>1. rows'[x] = cut.row /\ pub'[x] = pub[r] + Ended(r, cut.row)
      BY <1>1, <1>3, <2>1
    <3> QED  BY <1>2, <2>1, <3>1
  <2>2. CASE x # r
    <3>1. rows'[x] = rows[x] /\ pub'[x] = pub[x]
      BY <1>1, <1>3, <2>2
    <3> QED  BY <3>1, OfQuiet, QuietForgotten
  <2> QED  BY <2>1, <2>2
<1> QED  BY <1>1, <1>4, QuietDead

\* Where the process interrupts what it finds, no run is active afterwards.
LEMMA QuietInterrupted ==
  ASSUME NEW d, GoodRow(d), NEW lines, NEW m, NEW n, NEW last, InterruptsFirst, MaxCrashes > 0,
         QuietRun(d, lines, m, n, last, FALSE, FALSE), NEW p, NEW k, k = n \/ d.status # "absent"
  PROVE  LET i == IF d.status \in ActiveStatuses THEN FinishedRow(d, "interrupted", p) ELSE d
             e == Recovered(i, lines)
         IN  e = i /\ e.status \notin ActiveStatuses /\ QuietRun(e, lines, HydratedActive(e), k, last, TRUE, FALSE)
<1> DEFINE i == IF d.status \in ActiveStatuses THEN FinishedRow(d, "interrupted", p) ELSE d
           e == Recovered(i, lines)
<1>1. ~Recovers
  BY RunEventLogAssumption DEF Recovers
<1>2. CASE d.status \in ActiveStatuses
  <2>1. i.status = "interrupted"
    BY <1>2, StatusKinds DEF FinishedRow
  <2> HIDE DEF i
  <2>2. "interrupted" \notin ActiveStatuses /\ "interrupted" # "absent"
    BY DEF ActiveStatuses
  <2>3. e = i /\ HydratedActive(i) = NoRecord
    BY <2>1, <2>2 DEF Recovered, HydratedActive
  <2>4. Settled(i, NoRecord, last)
    BY <1>1, <2>1 DEF Settled, NoRecord
  <2> QED  BY <2>1, <2>2, <2>3, <2>4 DEF QuietRun, i
<1>3. CASE d.status \notin ActiveStatuses
  <2>1. i = d
    BY <1>3
  <2>2. e = d /\ HydratedActive(d) = NoRecord
    BY <1>3, <2>1 DEF Recovered, HydratedActive
  <2>3. Finished(d.status) => Settled(d, NoRecord, last)
    BY DEF QuietRun, Settled, NoRecord
  <2>4. d.status = "absent" => lines = <<>> /\ k = 0 /\ last = 0
    BY DEF QuietRun
  <2> QED  BY <1>3, <2>1, <2>2, <2>3, <2>4 DEF QuietRun
<1> QED  BY <1>2, <1>3

\* The recovery of an active run: the journal fits and completes the row.
LEMMA RecoveredIsLogged ==
  ASSUME NEW d, GoodRow(d), d.status \in ActiveStatuses, NEW lines \in Seq(Events), NEW m, NEW n \in Nat, NEW last, NEW log,
         Logged(log, n, d, lines, m, FALSE, last)
  PROVE  LET e == Recovered(d, lines)
         IN  /\ e.status = d.status /\ e.count = n /\ DOMAIN e.events = 0 .. n - 1 /\ InRow(log, e)
             /\ Logged(log, n, e, lines, Hydrated(NoRecord, e), TRUE, last)
<1> DEFINE e == Stored(d, lines)
           h == Hydrated(NoRecord, e)
<1>1. /\ log \in Logs(n) /\ d.count <= n /\ n <= MaxEvents + 1 /\ InRow(log, d) /\ Covers(log, n, d, lines)
      /\ LastIn(log, n, last)
  BY DEF Logged
<1>2. d.count \in Nat /\ DOMAIN d.events = 0 .. d.count - 1 /\ d.status # "absent"
  BY StatusKinds DEF GoodRow, RowTypeOK, RowWellFormed
<1>3. Fits(d, lines) /\ e.count = n /\ e.status = d.status /\ InRow(log, e)
  BY <1>1, <1>2, CoveringFits
<1>4. Recovered(d, lines) = e
  BY <1>3 DEF Recovered
<1>5. DOMAIN e.events = 0 .. n - 1
  <2> DEFINE top == CHOOSE top \in d.count .. Top : FitsUpTo(d, lines, top)
             at(i) == CHOOSE k \in DOMAIN lines : lines[k].index = i
             es == [i \in DOMAIN d.events \cup d.count .. (top - 1) |->
                      IF i < d.count THEN d.events[i] ELSE lines[at(i)].payload]
  <2>0. e = [status |-> d.status, count |-> top, events |-> es]
    BY DEF Stored
  <2>1. DOMAIN es = DOMAIN d.events \cup d.count .. (top - 1)
    OBVIOUS
  <2> HIDE DEF e, top, at, es
  <2>2. DOMAIN e.events = 0 .. d.count - 1 \cup d.count .. (n - 1)
    BY <1>2, <1>3, <2>0, <2>1
  <2>3. 0 .. d.count - 1 \cup d.count .. (n - 1) = 0 .. n - 1
    BY <1>1, <1>2
  <2> QED  BY <2>2, <2>3
<1>6. Covers(log, n, e, lines)
  BY <1>1, <1>3 DEF Covers
<1> HIDE DEF e
<1>7. h.known /\ h.status = d.status /\ h.count = n /\ h.events = <<>>
  BY <1>3 DEF Hydrated, NoRecord
<1>8. InCache(log, n, e, h)
  <2>1. Len(h.events) = 0 /\ DOMAIN h.events = {} /\ ~Finished(h.status)
    BY <1>7, StatusKinds
  <2> HIDE DEF h
  <2> QED  BY <1>3, <1>7, <2>1 DEF InCache
<1>9. Logged(log, n, e, lines, h, TRUE, last)
  BY <1>1, <1>3, <1>6, <1>8 DEF Logged
<1> QED  BY <1>3, <1>4, <1>5, <1>9 DEF e

LEMMA RestartQuiet ==
  ASSUME IInv, QuietNow, Restart
  PROVE  /\ QuietNow'
         /\ \A r \in Runs : rows'[r].status \in ActiveStatuses =>
               {rows'[r].events[i].no : i \in DOMAIN rows'[r].events} = 1 .. pub[r]
<1> DEFINE i(r) == IF InterruptsFirst THEN Interrupted(r) ELSE rows[r]
           d(r) == Recovered(i(r), journal[r])
<1>1. /\ ~up /\ up' = TRUE
      /\ rows' = [r \in Runs |-> d(r)]
      /\ cache' = [r \in Runs |-> HydratedActive(d(r))]
      /\ pub' = [r \in Runs |-> pub[r] + Ended(r, d(r))]
      /\ UNCHANGED <<journal, subs, lastResult, faults, crashes>>
  BY DEF Restart
<1>2. MaxCrashes > 0 /\ crashes <= MaxCrashes
  BY <1>1, RunEventLogAssumption DEF QuietNow, IInv, TypeOK
<1>3. \A r \in Runs : ~Wanted(r) /\ ~Wanted(r)'
  <2>1. \A r \in Runs : ~Wanted(r)
    BY <1>1 DEF QuietNow, QuietRun
  <2>2. \A r \in Runs : Wanted(r)' <=> Wanted(r)
    BY <1>1 DEF Wanted
  <2> QED  BY <2>1, <2>2
<1>4. ASSUME NEW r \in Runs
      PROVE  /\ QuietRun(d(r), journal[r], HydratedActive(d(r)), pub[r] + Ended(r, d(r)), lastResult[r], TRUE, FALSE)
             /\ d(r).status \in ActiveStatuses => {d(r).events[j].no : j \in DOMAIN d(r).events} = 1 .. pub[r]
  <2> DEFINE row == rows[r]
             m == cache[r]
             n == pub[r]
             last == lastResult[r]
             lines == journal[r]
  <2>1. /\ QuietRun(row, lines, m, n, last, FALSE, FALSE)
        /\ GoodRow(row) /\ row.status \in AllStatuses /\ lines \in Seq(Events) /\ n \in Nat
    <3>1. Wanted(r) = FALSE /\ up = FALSE
      BY <1>1, <1>3 DEF Wanted, IInv, TypeOK
    <3> QED  BY <3>1, OfQuiet
  <2>2. CASE InterruptsFirst
    <3> DEFINE p == Terminal(r, rows[r])
    <3>1. i(r) = IF row.status \in ActiveStatuses THEN FinishedRow(row, "interrupted", p) ELSE row
      BY <2>2 DEF Interrupted
    <3> HIDE DEF i, row, m, n, last, lines, p
    <3>2. \A k : k = n \/ row.status # "absent" =>
            LET f == Recovered(i(r), lines)
            IN  f = i(r) /\ f.status \notin ActiveStatuses /\ QuietRun(f, lines, HydratedActive(f), k, last, TRUE, FALSE)
      BY <1>2, <2>1, <2>2, <3>1, QuietInterrupted
    <3>3. row.status = "absent" => n + Ended(r, d(r)) = n
      <4>1. row.status = "absent" => i(r) = row
        BY <3>1 DEF ActiveStatuses
      <4>2. d(r) = i(r)
        BY <3>2 DEF lines
      <4> QED  BY <2>1, <4>1, <4>2 DEF Ended, Finished, FinishedStatuses
    <3>4. n + Ended(r, d(r)) = n \/ row.status # "absent"
      BY <3>3
    <3>5. /\ Recovered(i(r), lines).status \notin ActiveStatuses
          /\ QuietRun(Recovered(i(r), lines), lines, HydratedActive(Recovered(i(r), lines)), n + Ended(r, d(r)), last, TRUE, FALSE)
      BY <3>2, <3>4
    <3> QED  BY <3>5 DEF lines, n, last
  <2>3. CASE ~InterruptsFirst
    <3>0. d(r) = Recovered(row, lines) /\ ~Keeps
      BY <1>2, <2>3, RunEventLogAssumption DEF Keeps
    <3>1. CASE row.status \in ActiveStatuses
      <4>1. PICK log : Logged(log, n, row, lines, m, FALSE, last)
        BY <2>1, <3>1 DEF QuietRun
      <4> DEFINE e == Recovered(row, lines)
      <4>2. row.status = rows[r].status
        OBVIOUS
      <4> HIDE DEF row, m, n, last, lines
      <4>3. /\ e.status = row.status /\ e.count = n /\ DOMAIN e.events = 0 .. n - 1 /\ InRow(log, e)
            /\ Logged(log, n, e, lines, Hydrated(NoRecord, e), TRUE, last)
        BY <2>1, <3>1, <4>1, RecoveredIsLogged
      <4>4. Ended(r, e) = 0 /\ ~Finished(e.status) /\ e.status # "absent"
        BY <3>1, <4>3, StatusKinds DEF Ended
      <4> HIDE DEF e
      <4>5. HydratedActive(e) = Hydrated(NoRecord, e)
        BY <3>1, <4>3 DEF HydratedActive
      <4>6. QuietRun(e, lines, HydratedActive(e), n, last, TRUE, FALSE)
        BY <3>0, <3>1, <4>3, <4>4, <4>5 DEF QuietRun
      <4>7. {e.events[j].no : j \in DOMAIN e.events} = 1 .. n
        <5>1. \A j \in 0 .. n - 1 : e.events[j].no = j + 1
          BY <4>1, <4>3 DEF InRow, Logged, Logs
        <5>2. \A k \in 1 .. n : k - 1 \in 0 .. n - 1 /\ (k - 1) + 1 = k
          BY <2>1
        <5>3. \A k \in 1 .. n : \E j \in 0 .. n - 1 : e.events[j].no = k
          BY <5>1, <5>2
        <5>4. \A j \in 0 .. n - 1 : e.events[j].no \in 1 .. n
          BY <2>1, <5>1
        <5> QED  BY <4>3, <5>3, <5>4
      <4>8. d(r) = e /\ n + Ended(r, e) = n
        BY <2>1, <3>0, <4>4 DEF e
      <4> HIDE DEF d
      <4>9. QuietRun(d(r), lines, HydratedActive(d(r)), n + Ended(r, d(r)), last, TRUE, FALSE)
        BY <4>6, <4>8
      <4> QED  BY <4>7, <4>8, <4>9 DEF lines, n, last
    <3>2. CASE row.status \notin ActiveStatuses
      <4>1. d(r) = row /\ HydratedActive(row) = NoRecord
        BY <3>0, <3>2 DEF Recovered, HydratedActive
      <4>2. Ended(r, row) = 0
        BY DEF Ended
      <4> HIDE DEF d
      <4>3. QuietRun(row, lines, NoRecord, n, last, TRUE, FALSE)
        <5> HIDE DEF row, m, n, last, lines
        <5>1. Finished(row.status) => Settled(row, NoRecord, last)
          BY <2>1 DEF QuietRun, Settled, NoRecord
        <5> QED  BY <2>1, <3>2, <5>1 DEF QuietRun
      <4>4. n + Ended(r, d(r)) = n
        BY <2>1, <4>1, <4>2
      <4> HIDE DEF row, m, n, last, lines
      <4>5. QuietRun(d(r), lines, HydratedActive(d(r)), n + Ended(r, d(r)), last, TRUE, FALSE)
        BY <4>1, <4>3, <4>4
      <4> QED  BY <3>2, <4>1, <4>5 DEF lines, n, last
    <3> QED  BY <3>1, <3>2
  <2> QED  BY <2>2, <2>3
<1> HIDE DEF d, i
<1>5. ASSUME NEW r \in Runs
      PROVE  QuietRun(rows'[r], journal'[r], cache'[r], pub'[r], lastResult'[r], up', Wanted(r)')
  <2>1. Wanted(r)' = FALSE
    BY <1>3 DEF Wanted
  <2> QED  BY <1>1, <1>4, <2>1
<1>6. crashes' <= MaxCrashes /\ (~up' => crashes' > 0)
  BY <1>1, <1>2
<1>7. \A r \in Runs : rows'[r] = d(r)
  BY <1>1
<1> QED  BY <1>4, <1>5, <1>6, <1>7 DEF QuietNow

-----------------------------------------------------------------------------
(* All steps *)

LEMMA FaultsCount ==
  ASSUME [Next]_vars
  PROVE  faults' = faults \/ (faults < MaxFaults /\ faults' = faults + 1)
<1> DEFINE Counted == faults' = faults \/ (faults < MaxFaults /\ faults' = faults + 1)
<1>1. ASSUME NEW r \in Runs, NEW parent \in Parents(r), CreateRun(r, parent) \/ CreateRunInterrupted(r, parent) PROVE Counted
  <2>1. CASE CreateRun(r, parent)
    BY <2>1 DEF CreateRun
  <2>2. CASE CreateRunInterrupted(r, parent)
    BY <2>2, Zenon DEF CreateRunInterrupted, Fault
  <2> QED  BY <1>1, <2>1, <2>2
<1>2. ASSUME NEW r \in Runs, NEW m, NEW type, Publish(r, m, type) PROVE Counted
  BY <1>2 DEF Publish, Fault
<1>3. ASSUME NEW r \in Runs, NEW type, AppendEvent(r, type) PROVE Counted
  BY <1>2, <1>3 DEF AppendEvent
<1>4. ASSUME NEW r \in Runs, NEW status, UpdateStatus(r, status) PROVE Counted
  BY <1>2, <1>4 DEF UpdateStatus
<1>5. ASSUME NEW r \in Runs, NEW m, NEW ok, Persist(r, m, ok) PROVE Counted
  BY <1>5 DEF Persist, Fault
<1>6. ASSUME NEW r \in Runs, NEW status, FinishRun(r, status) \/ RequestStop(r) PROVE Counted
  <2> HIDE DEF Counted
  <2>1. CASE FinishRun(r, status)
    BY <1>5, <2>1, Zenon DEF FinishRun
  <2>2. CASE RequestStop(r)
    BY <1>5, <2>2, Zenon DEF RequestStop
  <2> QED  BY <1>6, <2>1, <2>2
<1>7. ASSUME NEW r \in Runs, MethodRaises(r) \/ ReplayStart(r) \/ CrashInCreate(r) \/ CrashInMethod(r) PROVE Counted
  BY <1>7 DEF MethodRaises, ReplayStart, CrashInCreate, CrashInMethod, Dies, Fault
<1>8. ASSUME NEW c \in Clients, Poll(c) \/ Unsubscribe(c) PROVE Counted
  BY <1>8 DEF Poll, Unsubscribe
<1>9. ASSUME NEW r \in Runs, NEW c \in Clients, NEW from, Subscribe(c, r, from) PROVE Counted
  BY <1>9 DEF Subscribe
<1>10. ASSUME Crash \/ Restart \/ UNCHANGED vars PROVE Counted
  BY <1>10 DEF Crash, Dies, Restart, vars
<1> HIDE DEF Counted
<1>11. Counted
  BY <1>1, <1>3, <1>4, <1>6, <1>7, <1>8, <1>9, <1>10, Zenon DEF Next
<1> QED  BY <1>11 DEF Counted

LEMMA RepeatsAreKept ==
  ASSUME [Next]_vars
  PROVE  replayed' = replayed \/ replayed' = TRUE
<1> DEFINE Kept == replayed' = replayed \/ replayed' = TRUE
<1>1. ASSUME NEW r \in Runs, NEW parent \in Parents(r), CreateRun(r, parent) \/ CreateRunInterrupted(r, parent) PROVE Kept
  <2>1. CASE CreateRun(r, parent)
    BY <2>1, Zenon DEF CreateRun
  <2>2. CASE CreateRunInterrupted(r, parent)
    BY <2>2, Zenon DEF CreateRunInterrupted
  <2> QED  BY <1>1, <2>1, <2>2
<1>2. ASSUME NEW r \in Runs, NEW x, AppendEvent(r, x) \/ UpdateStatus(r, x) PROVE Kept
  BY <1>2 DEF AppendEvent, UpdateStatus
<1>3. ASSUME NEW r \in Runs, NEW status, FinishRun(r, status) \/ RequestStop(r) PROVE Kept
  <2>1. CASE FinishRun(r, status)
    BY <2>1, Zenon DEF FinishRun
  <2>2. CASE RequestStop(r)
    BY <2>2, Zenon DEF RequestStop
  <2> QED  BY <1>3, <2>1, <2>2
<1>4. ASSUME NEW r \in Runs, MethodRaises(r) \/ ReplayStart(r) \/ CrashInCreate(r) \/ CrashInMethod(r) PROVE Kept
  BY <1>4 DEF MethodRaises, ReplayStart, CrashInCreate, CrashInMethod, Dies
<1>5. ASSUME NEW c \in Clients, Poll(c) \/ Unsubscribe(c) PROVE Kept
  BY <1>5 DEF Poll, Unsubscribe
<1>6. ASSUME NEW r \in Runs, NEW c \in Clients, NEW from, Subscribe(c, r, from) PROVE Kept
  BY <1>6 DEF Subscribe
<1>7. ASSUME Crash \/ Restart \/ UNCHANGED vars PROVE Kept
  BY <1>7 DEF Crash, Dies, Restart, vars
<1> HIDE DEF Kept
<1>8. Kept
  BY <1>1, <1>2, <1>3, <1>4, <1>5, <1>6, <1>7, Zenon DEF Next
<1> QED  BY <1>8 DEF Kept

\* Without errors and repeated starts every step keeps the runs quiet.
LEMMA QuietStep ==
  ASSUME IInv, QuietNow, faults = 0, Undisturbed', [Next]_vars
  PROVE  QuietNow'
<1>0. faults' = 0 /\ ~replayed'
  BY DEF Undisturbed
<1>1. ASSUME NEW r \in Runs, NEW parent \in Parents(r), CreateRun(r, parent) PROVE QuietNow'
  BY <1>0, <1>1, CreateRunQuiet
<1>2. ASSUME NEW r \in Runs, NEW parent \in Parents(r), CreateRunInterrupted(r, parent) PROVE QuietNow'
  BY <1>0, <1>2 DEF CreateRunInterrupted, Fault
<1>3. ASSUME NEW r \in Runs, NEW type \in {"content", "result"}, AppendEvent(r, type) PROVE QuietNow'
  BY <1>0, <1>3, AppendEventQuiet
<1>4. ASSUME NEW r \in Runs, NEW status \in {"waiting_approval", "running"}, UpdateStatus(r, status) PROVE QuietNow'
  BY <1>0, <1>4, UpdateStatusQuiet
<1>5. ASSUME NEW r \in Runs, NEW status \in Outcomes, FinishRun(r, status) PROVE QuietNow'
  BY <1>0, <1>5, FinishRunQuiet
<1>6. ASSUME NEW r \in Runs, RequestStop(r) PROVE QuietNow'
  BY <1>0, <1>6, RequestStopQuiet
<1>7. ASSUME NEW r \in Runs, MethodRaises(r) PROVE QuietNow'
  BY <1>0, <1>7 DEF MethodRaises, Fault
<1>8. ASSUME NEW r \in Runs, ReplayStart(r) PROVE QuietNow'
  BY <1>0, <1>8 DEF ReplayStart
<1>9. ASSUME NEW r \in Runs, NEW c \in Clients, NEW from \in 0 .. Top, Subscribe(c, r, from) PROVE QuietNow'
  BY <1>0, <1>9, SubscribeQuiet
<1>10. ASSUME NEW r \in Runs, CrashInCreate(r) PROVE QuietNow'
  BY <1>0, <1>10, CrashInCreateQuiet
<1>11. ASSUME NEW r \in Runs, CrashInMethod(r) PROVE QuietNow'
  BY <1>0, <1>11, CrashInMethodQuiet
<1>12. ASSUME NEW c \in Clients, Poll(c) PROVE QuietNow'
  BY <1>0, <1>12, PollQuiet
<1>13. ASSUME NEW c \in Clients, Unsubscribe(c) PROVE QuietNow'
  BY <1>0, <1>13, UnsubscribeQuiet
<1>14. ASSUME Crash PROVE QuietNow'
  BY <1>0, <1>14, CrashQuiet
<1>15. ASSUME Restart PROVE QuietNow'
  BY <1>0, <1>15, RestartQuiet
<1>16. ASSUME UNCHANGED vars PROVE QuietNow'
  BY <1>16 DEF vars, QuietNow, Wanted
<1> QED BY <1>1, <1>2, <1>3, <1>4, <1>5, <1>6, <1>7, <1>8, <1>9, <1>10, <1>11, <1>12,
           <1>13, <1>14, <1>15, <1>16, Zenon DEF Next

LEMMA InitQuiet == Init => QuietNow
<1> SUFFICES ASSUME Init PROVE QuietNow
  OBVIOUS
<1>1. \A r \in Runs : ~Wanted(r)
  BY DEF Init, Wanted, NoSub
<1>2. QuietRun(NoRow, <<>>, NoRecord, 0, 0, TRUE, FALSE)
  BY DEF QuietRun, NoRow, Finished, FinishedStatuses, ActiveStatuses
<1>3. ASSUME NEW r \in Runs PROVE QuietRun(rows[r], journal[r], cache[r], pub[r], lastResult[r], up, Wanted(r))
  <2>1. Wanted(r) = FALSE
    BY <1>1 DEF Wanted
  <2> QED  BY <1>2, <2>1 DEF Init
<1>4. crashes <= MaxCrashes /\ up
  BY RunEventLogAssumption DEF Init
<1> QED  BY <1>3, <1>4 DEF QuietNow

\* What has failed or was repeated stays so.
LEMMA UndisturbedBefore ==
  ASSUME IInv, [Next]_vars, Undisturbed'
  PROVE  Undisturbed
<1>1. faults \in Nat /\ faults' = 0
  BY DEF IInv, TypeOK, Undisturbed
<1>2. faults = 0
  BY <1>1, FaultsCount
<1>3. replayed => replayed'
  BY RepeatsAreKept
<1> QED  BY <1>2, <1>3 DEF Undisturbed

\* A run stays quiet as long as nothing failed and no start was repeated.
LEMMA Quiet == Spec => [](Undisturbed => QuietNow)
<1>1. Init => (Undisturbed => QuietNow)
  BY InitQuiet
<1>2. IInv /\ (Undisturbed => QuietNow) /\ [Next]_vars => (Undisturbed => QuietNow)'
  <2> SUFFICES ASSUME IInv, Undisturbed => QuietNow, [Next]_vars, Undisturbed' PROVE QuietNow'
    OBVIOUS
  <2>1. Undisturbed
    BY UndisturbedBefore
  <2>2. faults = 0
    BY <2>1 DEF Undisturbed
  <2> QED  BY <2>1, <2>2, QuietStep
<1> QED  BY Invariance, <1>1, <1>2, PTL DEF Spec

-----------------------------------------------------------------------------
(* What the subscribers have read *)

SeenInOrder ==
    \A c \in Clients :
        /\ subs[c].from <= subs[c].index /\ Len(seen[c]) = subs[c].index - subs[c].from
        /\ subs[c].state = "idle" => subs[c].index = subs[c].from
        /\ \A i \in DOMAIN seen[c] : seen[c][i].no = subs[c].from + i

LEMMA SeenKept ==
  ASSUME TypeOK, SeenInOrder, seen' = seen, subs' = subs \/ \E R : subs' = Woken(R)
  PROVE  SeenInOrder'
<1>1. \A c \in Clients : /\ subs'[c].from = subs[c].from /\ subs'[c].index = subs[c].index
                         /\ subs'[c].state = "idle" => subs[c].state = "idle"
  BY DEF Woken, TypeOK, SubStates
<1> QED  BY <1>1 DEF SeenInOrder

LEMMA SeenFresh ==
  ASSUME TypeOK, SeenInOrder, NEW c \in Clients, NEW s, s.from \in Nat, s.index = s.from,
         subs' = [subs EXCEPT ![c] = s], seen' = [seen EXCEPT ![c] = <<>>]
  PROVE  SeenInOrder'
<1>1. \A b \in Clients : /\ subs'[b] = IF b = c THEN s ELSE subs[b]
                         /\ seen'[b] = IF b = c THEN <<>> ELSE seen[b]
  BY DEF TypeOK
<1>2. Len(<<>>) = 0 /\ s.index - s.from = 0
  OBVIOUS
<1> QED  BY <1>1, <1>2 DEF SeenInOrder

LEMMA SeenSubscribe ==
  ASSUME TypeOK, SeenInOrder, NEW r \in Runs, NEW c \in Clients, NEW from \in 0 .. Top, Subscribe(c, r, from)
  PROVE  SeenInOrder'
<1> DEFINE s == [run |-> r, from |-> from, index |-> from, state |-> "ready"]
<1>1. subs[c].state = "idle" /\ subs' = [subs EXCEPT ![c] = s] /\ seen' = seen
  BY DEF Subscribe
<1>2. seen[c] = <<>> /\ seen \in [Clients -> Seq(Payloads)]
  <2>1. Len(seen[c]) = 0 /\ seen[c] \in Seq(Payloads)
    BY <1>1 DEF SeenInOrder, TypeOK, SubStates
  <2> QED  BY <2>1 DEF TypeOK
<1>3. seen' = [seen EXCEPT ![c] = <<>>] /\ s.from \in Nat /\ s.index = s.from
  BY <1>1, <1>2 DEF Top
<1> QED  BY <1>1, <1>3, SeenFresh

LEMMA SeenPoll ==
  ASSUME IInv, QuietNow, Keeps, SeenInOrder, NEW c \in Clients, Poll(c)
  PROVE  SeenInOrder'
<1>0. PICK r \in Runs : r = subs[c].run
  BY DEF Poll, IInv, TypeOK
<1> DEFINE m == Loaded(Record(r), rows[r])
           i == subs[c].index
           s == subs[c]
<1>1. /\ up /\ subs[c].state = "ready"
      /\ \/ /\ i < Len(m.events) /\ seen' = [seen EXCEPT ![c] = Append(@, m.events[i + 1].payload)]
            /\ subs' = [subs EXCEPT ![c].index = i + 1]
         \/ /\ seen' = seen
            /\ \E state \in {"ended", "waiting"} : subs' = [subs EXCEPT ![c].state = state]
  BY <1>0 DEF Poll, Exists
<1>2. /\ subs \in [Clients -> SubStates] /\ s \in SubStates /\ i \in Nat /\ s.from \in Nat /\ pub[r] \in Nat
      /\ seen \in [Clients -> Seq(Payloads)] /\ seen[c] \in Seq(Payloads) /\ Len(seen[c]) \in Nat
  BY DEF IInv, TypeOK, SubStates
<1>3. Whole(m, pub[r]) /\ m \in Records
  <2>1. m = cache[r] /\ Whole(cache[r], pub[r])
    BY <1>0, <1>1, PolledQuiet
  <2> QED  BY <2>1 DEF IInv, TypeOK
<1> HIDE DEF m
<1>4. CASE i < Len(m.events) /\ seen' = [seen EXCEPT ![c] = Append(@, m.events[i + 1].payload)]
           /\ subs' = [subs EXCEPT ![c].index = i + 1]
  <2> DEFINE p == m.events[i + 1].payload
             k == Len(seen[c]) + 1
  <2>1. p \in Payloads /\ p.no = i + 1
    <3>1. m.events \in Seq(Events) /\ Len(m.events) \in Nat /\ i + 1 \in 1 .. Len(m.events)
      BY <1>2, <1>3, <1>4 DEF Records
    <3>2. m.events[i + 1] \in Events /\ m.events[i + 1].payload.no = i + 1
      BY <1>3, <3>1 DEF Whole
    <3> QED  BY <3>2 DEF Events
  <2>2. /\ s.from <= i /\ Len(seen[c]) = i - s.from
        /\ \A j \in DOMAIN seen[c] : seen[c][j].no = s.from + j
    BY DEF SeenInOrder
  <2>3. /\ seen'[c] = Append(seen[c], p) /\ subs'[c].index = i + 1 /\ subs'[c].from = s.from
        /\ subs'[c].state = s.state
    BY <1>2, <1>4 DEF SubStates
  <2> HIDE DEF p
  <2>4. /\ Len(seen'[c]) = k /\ DOMAIN seen'[c] = 1 .. k /\ seen'[c][k] = p
        /\ \A j \in 1 .. Len(seen[c]) : seen'[c][j] = seen[c][j]
        /\ DOMAIN seen[c] = 1 .. Len(seen[c])
    BY <1>2, <2>1, <2>3
  <2>5. \A j \in DOMAIN seen'[c] : seen'[c][j].no = s.from + j
    <3> SUFFICES ASSUME NEW j \in 1 .. k PROVE seen'[c][j].no = s.from + j
      BY <2>4
    <3>1. CASE j = k
      BY <1>2, <2>1, <2>2, <2>4, <3>1
    <3>2. CASE j \in 1 .. Len(seen[c])
      BY <2>2, <2>4, <3>2
    <3> QED  BY <1>2, <3>1, <3>2
  <2>6. Len(seen'[c]) = (i + 1) - s.from /\ s.from <= i + 1
    BY <1>2, <2>2, <2>4
  <2>7. \A b \in Clients \ {c} : subs'[b] = subs[b] /\ seen'[b] = seen[b]
    BY <1>2, <1>4
  <2> QED  BY <1>1, <2>3, <2>5, <2>6, <2>7 DEF SeenInOrder
<1>5. CASE seen' = seen /\ \E state \in {"ended", "waiting"} : subs' = [subs EXCEPT ![c].state = state]
  <2>1. \A b \in Clients : /\ subs'[b].from = subs[b].from /\ subs'[b].index = subs[b].index
                           /\ subs'[b].state = "idle" => subs[b].state = "idle"
    BY <1>2, <1>5 DEF SubStates
  <2> QED  BY <1>5, <2>1 DEF SeenInOrder
<1> QED  BY <1>1, <1>4, <1>5

LEMMA SeenDies ==
  ASSUME Dies
  PROVE  SeenInOrder'
<1>1. subs' = [c \in Clients |-> NoSub] /\ seen' = [c \in Clients |-> <<>>]
  BY DEF Dies
<1> QED  BY <1>1 DEF SeenInOrder, NoSub

LEMMA SeenStep ==
  ASSUME IInv, QuietNow, Keeps, SeenInOrder, [Next]_vars
  PROVE  SeenInOrder'
<1>0. TypeOK
  BY DEF IInv
<1>1. ASSUME NEW r \in Runs, NEW parent \in Parents(r), CreateRun(r, parent) PROVE SeenInOrder'
  BY <1>0, <1>1, SeenKept DEF CreateRun
<1>2. ASSUME NEW r \in Runs, NEW parent \in Parents(r), CreateRunInterrupted(r, parent) PROVE SeenInOrder'
  <2>1. seen' = seen /\ (subs' = subs \/ subs' = Woken({r}))
    BY <1>2, Zenon DEF CreateRunInterrupted
  <2> QED  BY <1>0, <2>1, SeenKept
<1>3. ASSUME NEW r \in Runs, NEW type \in {"content", "result"}, AppendEvent(r, type) PROVE SeenInOrder'
  BY <1>0, <1>3, SeenKept DEF AppendEvent, Publish
<1>4. ASSUME NEW r \in Runs, NEW status \in {"waiting_approval", "running"}, UpdateStatus(r, status) PROVE SeenInOrder'
  BY <1>0, <1>4, SeenKept DEF UpdateStatus, Publish
<1>5. ASSUME NEW r \in Runs, NEW status \in Outcomes, FinishRun(r, status) PROVE SeenInOrder'
  BY <1>0, <1>5, SeenKept DEF FinishRun
<1>6. ASSUME NEW r \in Runs, RequestStop(r) PROVE SeenInOrder'
  BY <1>0, <1>6, SeenKept DEF RequestStop
<1>7. ASSUME NEW r \in Runs, MethodRaises(r) \/ ReplayStart(r) PROVE SeenInOrder'
  BY <1>0, <1>7, SeenKept DEF MethodRaises, ReplayStart
<1>8. ASSUME NEW r \in Runs, NEW c \in Clients, NEW from \in 0 .. Top, Subscribe(c, r, from) PROVE SeenInOrder'
  BY <1>0, <1>8, SeenSubscribe
<1>9. ASSUME NEW r \in Runs, CrashInCreate(r) \/ CrashInMethod(r) PROVE SeenInOrder'
  BY <1>9, SeenDies DEF CrashInCreate, CrashInMethod
<1>10. ASSUME NEW c \in Clients, Poll(c) PROVE SeenInOrder'
  BY <1>10, SeenPoll
<1>11. ASSUME NEW c \in Clients, Unsubscribe(c) PROVE SeenInOrder'
  <2>1. subs' = [subs EXCEPT ![c] = NoSub] /\ seen' = [seen EXCEPT ![c] = <<>>]
    BY <1>11 DEF Unsubscribe
  <2>2. NoSub.from \in Nat /\ NoSub.index = NoSub.from
    BY DEF NoSub
  <2> QED  BY <1>0, <2>1, <2>2, SeenFresh
<1>12. ASSUME Crash PROVE SeenInOrder'
  BY <1>12, SeenDies DEF Crash
<1>13. ASSUME Restart \/ UNCHANGED vars PROVE SeenInOrder'
  BY <1>0, <1>13, SeenKept DEF Restart, vars
<1> QED BY <1>1, <1>2, <1>3, <1>4, <1>5, <1>6, <1>7, <1>8, <1>9, <1>10, <1>11, <1>12, <1>13, Zenon DEF Next

-----------------------------------------------------------------------------
(* A run that was asked to stop is not shown running again. *)

StaysStopped(r) == up /\ cache[r].stopped /\ rows'[r].status = "running" => rows[r].status = "running"

LEMMA KeepsStopped ==
  ASSUME IInv, StopsAreKnown, NEW r \in Runs,
         \A x \in Runs \ {r} : rows'[x] = rows[x] /\ cache'[x] = cache[x],
         cache'[r].stopped => cache'[r].known, StaysStopped(r)
  PROVE  StopsAreKnown' /\ \A x \in Runs : StaysStopped(x)
BY DEF StopsAreKnown, StaysStopped

\* No transaction but update_status writes a row that runs, and none before it.
LEMMA CutStatus ==
  ASSUME IInv, NEW r \in Runs, rows[r].status # "absent", NEW cut \in Cuts(r)
  PROVE  cut.record.known /\ (cut.row.status = "running" => rows[r].status = "running")
<1> DEFINE From(d) == d.status = rows[r].status
<1>1. cut.record.known
  BY CutsMove
<1>2. ASSUME NEW m, NEW ok, ok => Fits(rows[r], m.events) PROVE From(Flushed(r, m, ok))
  BY DEF Flushed, Stored
<1>3. ASSUME NEW d, From(d) PROVE UpdatedRow(d, "stopping").status = "running" => rows[r].status = "running"
  BY <1>3 DEF UpdatedRow
<1>4. ASSUME NEW m, NEW ok, NEW status \in Outcomes, From(Flushed(r, m, ok))
      PROVE  Committed(r, m, ok, status).status = "running" => rows[r].status = "running"
  <2>1. status # "running" /\ "failed" # "running"
    BY RunEventLogAssumption DEF FinishedStatuses
  <2> QED  BY <1>4, <2>1 DEF Committed, FinishedRow
<1> HIDE DEF From
<1>5. CASE cut \in StopCuts(r)
  <2> DEFINE f == Flushed(r, cache[r], Fits(rows[r], cache[r].events))
  <2>1. From(f)
    BY <1>2
  <2>2. \E w : cut \in {[row |-> f, record |-> w], [row |-> UpdatedRow(f, "stopping"), record |-> w]}
    BY <1>5, Zenon DEF StopCuts
  <2> HIDE DEF f
  <2>3. cut.row = f \/ cut.row = UpdatedRow(f, "stopping")
    BY <2>2
  <2> QED  BY <1>1, <1>3, <2>1, <2>3 DEF From
<1>6. ASSUME NEW status \in Outcomes, cut \in FinishCuts(r, status)
      PROVE  cut.row.status = "running" => rows[r].status = "running"
  <2> DEFINE ok == Fits(rows[r], Record(r).events)
             f == Flushed(r, Record(r), ok)
             d == Committed(r, Record(r), ok, status)
  <2>1. From(f)
    BY <1>2
  <2>2. \E w : cut \in {[row |-> f, record |-> w], [row |-> d, record |-> w]}
    BY <1>6, Zenon DEF FinishCuts
  <2>3. d.status = "running" => rows[r].status = "running"
    BY <1>4, <2>1
  <2> HIDE DEF f, d
  <2>4. cut.row = f \/ cut.row = d
    BY <2>2
  <2> QED  BY <2>1, <2>3, <2>4 DEF From
<1> QED  BY <1>1, <1>5, <1>6 DEF Cuts

LEMMA StoppedStep ==
  ASSUME IInv, StopsAreKnown, [Next]_vars
  PROVE  StopsAreKnown' /\ \A r \in Runs : StaysStopped(r)
<1> DEFINE Goal == StopsAreKnown' /\ \A r \in Runs : StaysStopped(r)
<1>0. /\ TypeOK /\ DOMAIN rows = Runs /\ cache \in [Runs -> Records]
      /\ \A r \in Runs : rows[r].status = "absent" => ~cache[r].stopped
  BY DEF IInv, TypeOK, StopsAreKnown
<1>1. ASSUME NEW r \in Runs
      PROVE  /\ Record(r).known /\ Record(r).stopped = cache[r].stopped /\ Record(r) \in Records
             /\ GoodRow(rows[r])
  BY <1>0, RecordsKeepStops, RecordType, OfRun DEF Record
<1>2. ASSUME NEW r \in Runs, NEW parent \in Parents(r), CreateRun(r, parent) PROVE Goal
  <2> DEFINE made(x) == IF x = r THEN Started(r) ELSE ChildTold(x)
  <2>1. /\ rows[r].status = "absent" /\ rows' = [rows EXCEPT ![r] = InsertedRow]
        /\ \E published : cache' = [x \in Runs |-> IF x \in published THEN made(x) ELSE cache[x]]
    BY <1>2 DEF CreateRun
  <2>2. ASSUME NEW x \in Runs PROVE made(x).known
    <3>1. GoodRow(InsertedRow) /\ cache[r] \in Records
      BY <1>0, NoRowGood
    <3>2. Started(r).known
      BY <3>1, HydratedType, RecordsKeepStops DEF Started
    <3>3. ChildTold(x).known
      BY <1>1, RecordsKeepStops DEF ChildTold
    <3> QED  BY <3>2, <3>3
  <2> HIDE DEF made
  <2>3. \A x \in Runs : cache'[x].known \/ cache'[x] = cache[x]
    BY <2>1, <2>2
  <2>4. \A x \in Runs \ {r} : rows'[x] = rows[x]
    BY <1>0, <2>1
  <2> QED  BY <1>0, <2>1, <2>3, <2>4 DEF StopsAreKnown, StaysStopped
<1>3. ASSUME NEW r \in Runs, NEW parent \in Parents(r), CreateRunInterrupted(r, parent) PROVE Goal
  <2> DEFINE m == [Started(r) EXCEPT !.events = <<>>]
             d == FinishedRow(InsertedRow, "interrupted", [Terminal(r, InsertedRow) EXCEPT !.no = pub[r] + 2])
             f == Finalized(m, d)
             made(x) == IF x = r THEN f ELSE IF x = parent THEN ChildTold(x) ELSE cache[x]
  <2>1. /\ rows[r].status = "absent" /\ rows' = [rows EXCEPT ![r] = d]
        /\ cache' = [x \in Runs |-> made(x)]
    BY <1>3, Zenon DEF CreateRunInterrupted
  <2>2. f.known
    <3>1. Started(r) \in Records /\ Started(r).known
      BY <2>1, StartedGood
    <3>2. m \in Records /\ m.known
      BY <3>1, EmptyCache DEF Records
    <3> HIDE DEF m, d
    <3> QED  BY <3>2, RecordsKeepStops
  <2>3. ASSUME NEW x \in Runs PROVE ChildTold(x).known
    BY <1>1, RecordsKeepStops DEF ChildTold
  <2> HIDE DEF f, d
  <2>4. \A x \in Runs : cache'[x].known \/ cache'[x] = cache[x]
    BY <2>1, <2>2, <2>3
  <2>5. \A x \in Runs \ {r} : rows'[x] = rows[x]
    BY <1>0, <2>1
  <2> QED  BY <1>0, <2>1, <2>4, <2>5 DEF StopsAreKnown, StaysStopped
<1>4. ASSUME NEW r \in Runs, NEW m \in Records, m.known, NEW type, Publish(r, m, type), StaysStopped(r),
             \A x \in Runs \ {r} : rows'[x] = rows[x]
      PROVE  Goal
  <2>1. cache' = [cache EXCEPT ![r] = Cached(m, Payload(r, type))]
    BY <1>4 DEF Publish
  <2>2. Cached(m, Payload(r, type)).known
    BY <1>4, RecordsKeepStops
  <2>3. cache'[r].known /\ \A x \in Runs \ {r} : cache'[x] = cache[x]
    BY <1>0, <2>1, <2>2
  <2> QED  BY <1>4, <2>3, KeepsStopped
<1>5. ASSUME NEW r \in Runs, NEW type \in {"content", "result"}, AppendEvent(r, type) PROVE Goal
  <2>1. rows' = rows /\ Publish(r, Record(r), type)
    BY <1>5 DEF AppendEvent
  <2> QED  BY <1>1, <1>4, <2>1 DEF StaysStopped
<1>6. ASSUME NEW r \in Runs, NEW status \in {"waiting_approval", "running"}, UpdateStatus(r, status) PROVE Goal
  <2> DEFINE d == UpdatedRow(rows[r], status)
             m == [Record(r) EXCEPT !.status = d.status]
  <2>1. /\ rows' = [rows EXCEPT ![r] = d] /\ Publish(r, m, "status") /\ MayEnter(Record(r), status)
        /\ rows[r].status # "absent"
    BY <1>6 DEF UpdateStatus, Exists
  <2>2. d.status \in AllStatuses
    BY <1>1 DEF UpdatedRow, GoodRow, RowTypeOK, AllStatuses, ActiveStatuses
  <2>3. d.status = "running" => rows[r].status = "running" \/ ~cache[r].stopped
    BY <1>1, <2>1 DEF UpdatedRow, MayEnter
  <2> HIDE DEF d
  <2>4. m \in Records /\ m.known
    BY <1>1, <2>2 DEF Records
  <2>5. rows'[r] = d /\ \A x \in Runs \ {r} : rows'[x] = rows[x]
    BY <1>0, <2>1
  <2> QED  BY <1>4, <2>1, <2>3, <2>4, <2>5 DEF StaysStopped
<1>7. ASSUME NEW r \in Runs, NEW m, m.known, NEW d, d.status = "running" => rows[r].status = "running",
             rows' = [rows EXCEPT ![r] = d], cache' = [cache EXCEPT ![r] = m]
      PROVE  Goal
  <2>1. /\ rows'[r] = d /\ cache'[r] = m
        /\ \A x \in Runs \ {r} : rows'[x] = rows[x] /\ cache'[x] = cache[x]
    BY <1>0, <1>7
  <2> QED  BY <1>7, <2>1, KeepsStopped DEF StaysStopped
<1>8. ASSUME NEW r \in Runs, NEW status \in Outcomes, FinishRun(r, status) PROVE Goal
  <2>1. PICK ok \in BOOLEAN :
          /\ rows' = [rows EXCEPT ![r] = Committed(r, Record(r), ok, status)]
          /\ cache' = [cache EXCEPT ![r] = Finalized(Realigned(r, Record(r), ok), Committed(r, Record(r), ok, status))]
          /\ rows[r].status # "absent" /\ (ok => Fits(rows[r], Record(r).events))
    BY <1>8 DEF FinishRun, Exists, Persist
  <2> DEFINE d == Committed(r, Record(r), ok, status)
             m == Realigned(r, Record(r), ok)
  <2>2. m \in Records /\ m.known /\ CacheBehindRow(Record(r).events, rows[r])
    BY <1>1, RealignedType, RecordType
  <2>3. Finished(d.status)
    BY <1>0, <1>1, <2>1, <2>2, CommittedMoves
  <2>4. d.status # "running"
    BY <2>3 DEF Finished, FinishedStatuses
  <2> HIDE DEF d, m
  <2>5. Finalized(m, d).known
    BY <2>2, RecordsKeepStops
  <2>6. rows' = [rows EXCEPT ![r] = d] /\ cache' = [cache EXCEPT ![r] = Finalized(m, d)]
    BY <2>1 DEF d, m
  <2> QED  BY <1>7, <2>4, <2>5, <2>6
<1>9. ASSUME NEW r \in Runs, RequestStop(r) PROVE Goal
  <2>1. PICK ok \in BOOLEAN :
          LET m == Recounted(r, Stopping(cache[r]), ok)
              d == Flushed(r, cache[r], ok)
              s == AppendedRow(UpdatedRow(d, "stopping"), Payload(r, "stop"))
          IN  /\ cache[r].known
              /\ \/ /\ Finished(d.status) /\ rows' = [rows EXCEPT ![r] = d]
                    /\ cache' = [cache EXCEPT ![r] = m]
                 \/ /\ ~Finished(d.status) /\ rows' = [rows EXCEPT ![r] = s]
                    /\ cache' = [cache EXCEPT ![r] = [Mirrored(m, s, cache[r].count) EXCEPT !.count = s.count]]
    BY <1>9 DEF RequestStop
  <2> DEFINE m == Recounted(r, Stopping(cache[r]), ok)
             d == Flushed(r, cache[r], ok)
             s == AppendedRow(UpdatedRow(d, "stopping"), Payload(r, "stop"))
             mm == [Mirrored(m, s, cache[r].count) EXCEPT !.count = s.count]
  <2>2. m \in Records /\ m.known
    BY <1>0, <1>1, <2>1, StoppedType, OfRun
  <2>3. Mirrored(m, s, cache[r].count).known /\ DOMAIN Mirrored(m, s, cache[r].count) = DOMAIN m
    <3> HIDE DEF m, s
    <3> QED  BY <2>2 DEF Mirrored, Records
  <2>4. mm.known
    <3> HIDE DEF m, s
    <3> QED  BY <2>2, <2>3 DEF Records
  <2>5. CASE Finished(d.status)
    <3>1. d.status # "running"
      BY <2>5 DEF Finished, FinishedStatuses
    <3>2. rows' = [rows EXCEPT ![r] = d] /\ cache' = [cache EXCEPT ![r] = m]
      BY <2>1, <2>5
    <3> HIDE DEF d, m
    <3> QED  BY <1>7, <2>2, <3>1, <3>2
  <2>6. CASE ~Finished(d.status)
    <3>1. s.status = "stopping"
      BY <2>6 DEF AppendedRow, UpdatedRow
    <3>2. rows' = [rows EXCEPT ![r] = s] /\ cache' = [cache EXCEPT ![r] = mm]
      BY <2>1, <2>6
    <3> HIDE DEF s, mm
    <3> QED  BY <1>7, <2>4, <3>1, <3>2
  <2> QED  BY <2>5, <2>6
<1>10. ASSUME NEW r \in Runs, MethodRaises(r) PROVE Goal
  <2>1. PICK cut \in Cuts(r) : /\ rows[r].status # "absent"
                               /\ rows' = [rows EXCEPT ![r] = cut.row]
                               /\ cache' = [cache EXCEPT ![r] = cut.record]
    BY <1>10 DEF MethodRaises, Exists
  <2> QED  BY <1>7, <2>1, CutStatus
<1>11. ASSUME NEW r \in Runs, NEW m, m.known, UNCHANGED rows, cache' = [cache EXCEPT ![r] = m] PROVE Goal
  <2>1. cache'[r] = m /\ \A x \in Runs \ {r} : cache'[x] = cache[x]
    BY <1>0, <1>11
  <2> QED  BY <1>11, <2>1, KeepsStopped DEF StaysStopped
<1>12. ASSUME NEW r \in Runs, ReplayStart(r) PROVE Goal
  <2>1. Hydrated(cache[r], rows[r]) \in Records /\ Hydrated(cache[r], rows[r]).known
    BY <1>0, <1>1, HydratedType
  <2>2. Loaded(Hydrated(cache[r], rows[r]), rows[r]).known
    BY <2>1, RecordsKeepStops
  <2> QED  BY <1>11, <1>12, <2>2 DEF ReplayStart
<1>13. ASSUME NEW r \in Runs, NEW c \in Clients, NEW from, Subscribe(c, r, from) PROVE Goal
  BY <1>1, <1>11, <1>13 DEF Subscribe
<1>14. ASSUME NEW c \in Clients, Poll(c) PROVE Goal
  <2>1. PICK r \in Runs : r = subs[c].run
    BY <1>0, <1>14 DEF Poll, TypeOK
  <2>2. Loaded(Record(r), rows[r]).known
    BY <1>1, RecordsKeepStops
  <2> QED  BY <1>11, <1>14, <2>1, <2>2 DEF Poll
<1>15. ASSUME NEW c \in Clients, Unsubscribe(c) PROVE Goal
  BY <1>15 DEF Unsubscribe, StopsAreKnown, StaysStopped
<1>16. ASSUME Dies, \A r \in Runs : StaysStopped(r) PROVE Goal
  BY <1>16 DEF Dies, StopsAreKnown, NoRecord
<1>17. ASSUME NEW r \in Runs, CrashInCreate(r) PROVE Goal
  BY <1>0, <1>16, <1>17 DEF CrashInCreate, StaysStopped
<1>18. ASSUME NEW r \in Runs, CrashInMethod(r) PROVE Goal
  <2>1. PICK cut \in Cuts(r) : rows[r].status # "absent" /\ Dies /\ rows' = [rows EXCEPT ![r] = cut.row]
    BY <1>18 DEF CrashInMethod, Exists
  <2>2. cut.row.status = "running" => rows[r].status = "running"
    BY <2>1, CutStatus
  <2> QED  BY <1>0, <1>16, <2>1, <2>2 DEF StaysStopped
<1>19. ASSUME Crash PROVE Goal
  BY <1>16, <1>19 DEF Crash, StaysStopped
<1>20. ASSUME Restart PROVE Goal
  <2> DEFINE d(r) == Recovered(IF InterruptsFirst THEN Interrupted(r) ELSE rows[r], journal[r])
  <2>1. ~up /\ cache' = [r \in Runs |-> HydratedActive(d(r))]
    BY <1>20 DEF Restart
  <2>2. \A f : HydratedActive(f).stopped => HydratedActive(f).known
    BY DEF HydratedActive, Hydrated, NoRecord
  <2> HIDE DEF d
  <2> QED  BY <2>1, <2>2 DEF StopsAreKnown, StaysStopped
<1>21. ASSUME UNCHANGED vars PROVE Goal
  BY <1>21 DEF vars, StopsAreKnown, StaysStopped
<1> HIDE DEF Goal
<1>22. Goal
  BY <1>2, <1>3, <1>5, <1>6, <1>8, <1>9, <1>10, <1>12, <1>13, <1>14, <1>15, <1>17, <1>18, <1>19, <1>20, <1>21, Zenon DEF Next
<1> QED  BY <1>22 DEF Goal

-----------------------------------------------------------------------------
(* The theorems about stops and about runs that nothing has disturbed *)

\* A process that has asked a run to stop does not let SQLite show it running
\* again, whatever fails between: only update_status writes "running", and the
\* sub-agent asks the stop event before it calls it.
THEOREM StoppedRunsStayStopped == Spec => StopNeverResumes
<1>1. Init => StopsAreKnown
  BY DEF Init, StopsAreKnown, NoRecord
<1>2. IInv /\ StopsAreKnown /\ [Next]_vars =>
        /\ StopsAreKnown'
        /\ [\A r \in Runs : up /\ cache[r].stopped /\ rows'[r].status = "running"
                               => rows[r].status = "running"]_vars
  BY StoppedStep DEF StaysStopped
<1> QED  BY Invariance, <1>1, <1>2, PTL DEF Spec, StopNeverResumes

\* A run is failed by its producer or by an I/O error, never by finish_run
\* itself: the streamed events follow on from the row in every interleaving of
\* appends, stops, subscriptions, deaths and restarts.
THEOREM OnlyFaultsFailRuns == Spec => []OnlyFaultsFail
<1>1. IInv /\ (Undisturbed => QuietNow) => OnlyFaultsFail
  <2> SUFFICES ASSUME IInv, QuietNow, "failed" \notin Outcomes, NEW r \in Runs PROVE rows[r].status # "failed"
    BY DEF OnlyFaultsFail
  <2>1. Finished(rows[r].status) => rows[r].status \in Outcomes \cup {"interrupted"}
    BY DEF QuietNow, QuietRun, Settled
  <2> QED  BY <2>1 DEF Finished, FinishedStatuses
<1> QED  BY Invariance, Quiet, <1>1, PTL

LEMMA TerminalKeepsResult ==
  ASSUME IInv, QuietNow, NEW r \in Runs, rows[r].status # "interrupted" \/ Recovers
  PROVE  ResultKeptBy(r)
<1> SUFFICES ASSUME Finished(rows[r].status) PROVE TerminalOf(rows[r]).result = lastResult[r]
  BY DEF ResultKeptBy
<1> DEFINE d == rows[r]
           ps == {d.events[i] : i \in DOMAIN d.events}
           p == CHOOSE p \in ps : p.type = "run_finished"
<1>1. PICK i \in DOMAIN d.events : IsTerminal(d, i)
  BY DEF IInv, RowsWellFormed, RowWellFormed
<1>2. d.events[i] \in ps /\ d.events[i].type = "run_finished"
  BY <1>1 DEF IsTerminal
<1>3. p \in ps /\ p.type = "run_finished"
  <2> HIDE DEF ps
  <2> QED  BY <1>2
<1> HIDE DEF p
<1>4. PICK j \in DOMAIN d.events : p = d.events[j] /\ IsTerminal(d, j)
  BY <1>3 DEF IsTerminal
<1>5. d.events[j].result = lastResult[r]
  BY <1>4 DEF QuietNow, QuietRun, Settled
<1> QED  BY <1>4, <1>5 DEF TerminalOf, p

\* The terminal event keeps the last result of each run that ended by itself or
\* was recovered, also when the process died half way through finish_run.
THEOREM EndedRunsKeepResults == Spec => []EndedKeepsResult
<1>1. IInv /\ (Undisturbed => QuietNow) => EndedKeepsResult
  BY TerminalKeepsResult DEF EndedKeepsResult
<1> QED  BY Invariance, Quiet, <1>1, PTL

\* With a start-up that recovers the journals before it interrupts what is left,
\* or without deaths of the process, every terminal event keeps the last result.
\* The start-up of main.py is the other one.
THEOREM ResultsAreKept ==
  ASSUME Recovers
  PROVE  Spec => []ResultKept
<1>1. IInv /\ (Undisturbed => QuietNow) => ResultKept
  BY TerminalKeepsResult DEF ResultKept
<1> QED  BY Invariance, Quiet, <1>1, PTL

\* A restart brings each active run's row up to the last payload: the journal
\* of a run that no error touched always fits.
THEOREM RecoveryIsComplete == Spec => RecoveryComplete
<1> DEFINE Complete == Undisturbed /\ ~up /\ up' => \A r \in Runs : rows'[r].status \in ActiveStatuses =>
                          {rows'[r].events[i].no : i \in DOMAIN rows'[r].events} = 1 .. pub[r]
<1>1. ASSUME ~up, up', [Next]_vars PROVE Restart
  <2>1. ASSUME NEW r \in Runs, NEW parent \in Parents(r), CreateRun(r, parent) \/ CreateRunInterrupted(r, parent) PROVE FALSE
    <3>1. CASE CreateRun(r, parent)
      BY <1>1, <3>1, Zenon DEF CreateRun
    <3>2. CASE CreateRunInterrupted(r, parent)
      BY <1>1, <3>2, Zenon DEF CreateRunInterrupted
    <3> QED  BY <2>1, <3>1, <3>2
  <2>2. ASSUME NEW r \in Runs, NEW x, AppendEvent(r, x) \/ UpdateStatus(r, x) PROVE FALSE
    BY <1>1, <2>2 DEF AppendEvent, UpdateStatus, Exists
  <2>3. ASSUME NEW r \in Runs, NEW status, FinishRun(r, status) PROVE FALSE
    BY <1>1, <2>3 DEF FinishRun, Exists
  <2>4. ASSUME NEW r \in Runs, RequestStop(r) \/ MethodRaises(r) \/ ReplayStart(r) PROVE FALSE
    BY <1>1, <2>4 DEF RequestStop, MethodRaises, ReplayStart, Exists
  <2>5. ASSUME NEW r \in Runs, NEW c \in Clients, NEW from, Subscribe(c, r, from) PROVE FALSE
    BY <1>1, <2>5 DEF Subscribe, Exists
  <2>6. ASSUME NEW c \in Clients, Poll(c) \/ Unsubscribe(c) PROVE FALSE
    BY <1>1, <2>6 DEF Poll, Unsubscribe, Exists
  <2>7. ASSUME NEW r \in Runs, Crash \/ CrashInCreate(r) \/ CrashInMethod(r) PROVE FALSE
    BY <1>1, <2>7 DEF Crash, CrashInCreate, CrashInMethod, Dies
  <2>8. ASSUME Crash \/ UNCHANGED vars PROVE FALSE
    BY <1>1, <2>8 DEF Crash, Dies, vars
  <2> QED  BY <1>1, <2>1, <2>2, <2>3, <2>4, <2>5, <2>6, <2>7, <2>8, Zenon DEF Next
<1>2. IInv /\ (Undisturbed => QuietNow) /\ [Next]_vars => [Complete]_vars
  <2> SUFFICES ASSUME IInv, QuietNow, Undisturbed, ~up, up', [Next]_vars
               PROVE  \A r \in Runs : rows'[r].status \in ActiveStatuses =>
                          {rows'[r].events[i].no : i \in DOMAIN rows'[r].events} = 1 .. pub[r]
    OBVIOUS
  <2> QED  BY <1>1, RestartQuiet
<1> QED  BY Invariance, Quiet, <1>2, PTL DEF Spec, RecoveryComplete

\* A generator yields the payloads of its run in the order of their publication,
\* none twice and none left out, whatever publishes, stops or ends the run between
\* two of its turns, and over a death of the process where a run found at the
\* start is interrupted before it can be read again.
THEOREM SubscribersAreExact ==
  ASSUME Keeps
  PROVE  Spec => []SubscriberExact
<1>1. Init => (Undisturbed => SeenInOrder)
  BY DEF Init, SeenInOrder, NoSub
<1>2. /\ IInv /\ (Undisturbed => QuietNow) /\ (Undisturbed => SeenInOrder)
      /\ [Next]_vars
      => (Undisturbed => SeenInOrder)'
  <2> SUFFICES ASSUME IInv, Undisturbed => QuietNow, Undisturbed => SeenInOrder, [Next]_vars, Undisturbed'
               PROVE  SeenInOrder'
    OBVIOUS
  <2>1. Undisturbed
    BY UndisturbedBefore
  <2> QED  BY <2>1, SeenStep
<1>3. (Undisturbed => SeenInOrder) => SubscriberExact
  BY DEF SeenInOrder, SubscriberExact
<1> QED  BY Invariance, Quiet, <1>1, <1>2, <1>3, PTL DEF Spec

=============================================================================
