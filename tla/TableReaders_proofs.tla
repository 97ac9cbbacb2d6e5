------------------------- MODULE TableReaders_proofs -------------------------
(***************************************************************************)
(* Proofs about TableReaders: that an export gives the rows of its query,  *)
(* each once, in order and complete, that its JSON text and its progress   *)
(* reports are right, and that a walk over the pages shows each row once.  *)
(***************************************************************************)
EXTENDS TableReaders, FiniteSetTheorems, SequenceTheorems, WellFoundedInduction, TLAPS

-----------------------------------------------------------------------------
(* Finite sets of numbers                                                  *)

LEMMA NatOrder ==
  \E R : IsWellFoundedOn(R, Nat) /\ \A x, y \in Nat : x < y => <<x, y>> \in R
<1>1. IsWellFoundedOn(OpToRel(<, Nat), Nat)
  BY NatLessThanWellFounded
<1>2. \A x, y \in Nat : x < y => <<x, y>> \in OpToRel(<, Nat)
  BY DEF OpToRel
<1>3. QED
  BY <1>1, <1>2

LEMMA LeastNat ==
  ASSUME NEW S, S \subseteq Nat, S # {}
  PROVE  \E x \in S : \A y \in S : x <= y
<1>1. PICK R : IsWellFoundedOn(R, Nat) /\ \A x, y \in Nat : x < y => <<x, y>> \in R
  BY NatOrder
<1>2. IsWellFoundedOn(R, Nat)
  BY <1>1
<1>3. PICK x \in S : \A y \in S : ~(<<y, x>> \in R)
  BY <1>2, WFMin, Zenon
<1>4. x \in Nat
  OBVIOUS
<1>5. SUFFICES ASSUME NEW y \in S PROVE x <= y
  OBVIOUS
<1>6. y \in Nat
  OBVIOUS
<1>7. ~(<<y, x>> \in R)
  BY <1>3
<1>8. ~ (y < x)
  BY <1>1, <1>4, <1>6, <1>7, Zenon
<1>9. QED
  BY <1>4, <1>6, <1>8

Below(x, S) == {y \in S : y < x}

(* There are more below a greater one.                                     *)
LEMMA MoreBelow ==
  ASSUME NEW S, S \subseteq Nat, IsFiniteSet(S), NEW x \in S, NEW y \in S, x < y
  PROVE  /\ Cardinality(Below(x, S)) \in Nat /\ Cardinality(Below(y, S)) \in Nat
         /\ Cardinality(Below(x, S)) < Cardinality(Below(y, S))
<1>1. \A z \in S : IsFiniteSet(Below(z, S)) /\ Cardinality(Below(z, S)) \in Nat
  BY FS_Subset, FS_CardinalityType DEF Below
<1>2. x \in Nat /\ y \in Nat
  OBVIOUS
<1>3. \A h \in S : h < x => h < y
  <2> TAKE h \in S
  <2>1. h \in Nat
    OBVIOUS
  <2>2. QED
    BY <1>2, <2>1
<1>4. ~ (x < x)
  BY <1>2
<1>5. Below(x, S) \union {x} \subseteq Below(y, S) /\ x \notin Below(x, S)
  BY <1>3, <1>4 DEF Below
<1>6. Cardinality(Below(x, S) \union {x}) = Cardinality(Below(x, S)) + 1
  BY <1>1, <1>5, FS_AddElement
<1>7. Cardinality(Below(x, S)) + 1 <= Cardinality(Below(y, S))
  BY <1>1, <1>5, <1>6, FS_Subset
<1>8. QED
  BY <1>1, <1>7

LEMMA GreatestInFinite ==
  ASSUME NEW S, S \subseteq Nat, S # {}, IsFiniteSet(S)
  PROVE  \E x \in S : \A y \in S : y <= x
<1> DEFINE left(x) == Cardinality(S) - Cardinality(Below(x, S))
           Left == {left(x) : x \in S}
<1>1. \A x \in S : /\ Cardinality(Below(x, S)) \in Nat
                   /\ Cardinality(Below(x, S)) <= Cardinality(S)
  BY FS_Subset, FS_CardinalityType DEF Below
<1>2. Cardinality(S) \in Nat
  BY FS_CardinalityType
<1>3. \A x \in S : left(x) \in Nat
  BY <1>1, <1>2
<1> HIDE DEF left
<1>4. Left # {} /\ Left \subseteq Nat
  BY <1>3
<1>5. PICK n \in Left : \A m \in Left : n <= m
  BY <1>4, LeastNat
<1>6. PICK x \in S : n = left(x)
  OBVIOUS
<1>7. ASSUME NEW y \in S, ~(y <= x) PROVE FALSE
  <2>1. x \in Nat /\ y \in Nat
    OBVIOUS
  <2>2. x < y
    BY <1>7, <2>1
  <2>3. Cardinality(Below(x, S)) < Cardinality(Below(y, S))
    BY <2>2, MoreBelow
  <2>4. left(x) <= left(y)
    BY <1>5, <1>6
  <2>5. QED
    BY <1>1, <1>2, <2>3, <2>4 DEF left
<1>8. QED
  BY <1>7

(* Every rank up to that of an element is some element's.                  *)
LEMMA RanksAreTaken ==
  ASSUME NEW S, S \subseteq Nat, IsFiniteSet(S), NEW i \in S,
         NEW n \in Nat, n <= Cardinality(Below(i, S))
  PROVE  \E x \in S : Cardinality(Below(x, S)) = n
<1> DEFINE Upper == {x \in S : n <= Cardinality(Below(x, S))}
<1>1. i \in Upper /\ Upper \subseteq Nat
  OBVIOUS
<1>2. PICK x \in Upper : \A y \in Upper : x <= y
  BY <1>1, LeastNat
<1>3. /\ IsFiniteSet(Below(x, S)) /\ Below(x, S) \subseteq S
      /\ Cardinality(Below(x, S)) \in Nat
  BY FS_Subset, FS_CardinalityType DEF Below
<1>4. CASE Cardinality(Below(x, S)) = n
  BY <1>4
<1>5. CASE Cardinality(Below(x, S)) # n
  <2>1. Below(x, S) # {}
    BY <1>2, <1>5, FS_EmptySet
  <2>2. PICK y \in Below(x, S) : \A z \in Below(x, S) : z <= y
    BY <1>3, <2>1, GreatestInFinite
  <2>3. x \in Nat /\ y \in Nat /\ y \in S /\ y < x
    BY <1>3, <2>2 DEF Below
  <2>4. Below(x, S) = Below(y, S) \union {y} /\ y \notin Below(y, S)
    <3>1. ASSUME NEW z \in S PROVE z < x <=> z < y \/ z = y
      <4>1. z \in Nat
        OBVIOUS
      <4>2. z < x => z <= y
        BY <2>2 DEF Below
      <4>3. QED
        BY <2>3, <4>1, <4>2
    <3>2. y \notin Below(y, S)
      BY <2>3 DEF Below
    <3>3. Below(x, S) \subseteq Below(y, S) \union {y}
      BY <3>1 DEF Below
    <3>4. Below(y, S) \union {y} \subseteq Below(x, S)
      BY <2>3, <3>1 DEF Below
    <3>5. QED
      BY <3>2, <3>3, <3>4
  <2>5. IsFiniteSet(Below(y, S)) /\ Cardinality(Below(y, S)) \in Nat
    BY FS_Subset, FS_CardinalityType DEF Below
  <2>6. Cardinality(Below(x, S)) = Cardinality(Below(y, S)) + 1
    BY <2>4, <2>5, FS_AddElement
  <2>7. n <= Cardinality(Below(y, S))
    BY <1>2, <1>3, <1>5, <2>5, <2>6
  <2>8. x <= y
    BY <1>2, <2>3, <2>7
  <2>9. QED
    BY <2>3, <2>8
<1>6. QED
  BY <1>4, <1>5

LEMMA WindowByRank ==
  \A S, skip, take : Window(S, skip, take)
    = {i \in S : Cardinality(Below(i, S)) \in skip..(skip + take - 1)}
BY DEF Window, Below

(* A window that leaves a row out at its upper end is full, and all its    *)
(* rows come before that one.                                              *)
LEMMA WindowIsFull ==
  ASSUME NEW S, S \subseteq Nat, IsFiniteSet(S), NEW skip \in Nat, NEW take \in Nat,
         NEW i \in S, skip <= Cardinality(Below(i, S)), i \notin Window(S, skip, take)
  PROVE  /\ Cardinality(Window(S, skip, take)) = take
         /\ \A k \in Window(S, skip, take) : k < i
<1> DEFINE W == Window(S, skip, take)
           Ranks == skip..(skip + take - 1)
           rank == [x \in W |-> Cardinality(Below(x, S))]
<1>1. W = {x \in S : Cardinality(Below(x, S)) \in Ranks}
  BY WindowByRank
<1>2. \A x \in S : Cardinality(Below(x, S)) \in Nat
  BY FS_Subset, FS_CardinalityType DEF Below
<1>3. skip + take <= Cardinality(Below(i, S))
  BY <1>1, <1>2
<1> HIDE DEF W
<1>4. \A k \in W : k < i
  <2> SUFFICES ASSUME NEW k \in W, ~ (k < i) PROVE FALSE
    OBVIOUS
  <2>1. k \in S /\ k \in Nat /\ i \in Nat /\ Cardinality(Below(k, S)) < skip + take
    BY <1>1, <1>2
  <2>2. k # i
    BY <1>1, <1>3, <2>1
  <2>3. i < k
    BY <2>1, <2>2
  <2>4. Cardinality(Below(i, S)) < Cardinality(Below(k, S))
    BY <2>1, <2>3, MoreBelow
  <2>5. QED
    BY <1>2, <1>3, <2>1, <2>4
<1>5. IsFiniteSet(Ranks) /\ Cardinality(Ranks) = take
  BY FS_Interval
<1>6. rank \in [W -> Ranks]
  BY <1>1
<1>7. ASSUME NEW x \in W, NEW y \in W, rank[x] = rank[y] PROVE x = y
  <2>1. x \in S /\ y \in S /\ x \in Nat /\ y \in Nat
    BY <1>1
  <2>2. Cardinality(Below(x, S)) = Cardinality(Below(y, S))
    BY <1>7
  <2>3. x < y => Cardinality(Below(x, S)) < Cardinality(Below(y, S))
    BY <2>1, MoreBelow
  <2>4. y < x => Cardinality(Below(y, S)) < Cardinality(Below(x, S))
    BY <2>1, MoreBelow
  <2>5. Cardinality(Below(x, S)) \in Nat /\ Cardinality(Below(y, S)) \in Nat
    BY <1>2, <2>1
  <2>6. QED
    BY <2>1, <2>2, <2>3, <2>4, <2>5
<1>8. ASSUME NEW n \in Ranks PROVE \E x \in W : rank[x] = n
  <2>1. n \in Nat /\ n <= Cardinality(Below(i, S))
    BY <1>2, <1>3
  <2>2. PICK x \in S : Cardinality(Below(x, S)) = n
    BY <2>1, RanksAreTaken
  <2>3. x \in W
    BY <1>1, <2>2
  <2>4. QED
    BY <2>2, <2>3
<1>9. rank \in Injection(W, Ranks)
  BY <1>6, <1>7 DEF Injection, IsInjective
<1>10. rank \in Surjection(W, Ranks)
  BY <1>6, <1>8 DEF Surjection
<1>11. IsFiniteSet(W) /\ (Cardinality(W) = Cardinality(Ranks))
  BY <1>5, <1>9, <1>10, FS_Injection
<1>12. QED
  BY <1>4, <1>5, <1>11 DEF W

-----------------------------------------------------------------------------
(* Types                                                                   *)

USE SizesAssumption, ReadersAssumption, IdsAssumption

LEMMA LeastIs ==
  ASSUME NEW S, S \subseteq Ids, S # {}
  PROVE  Least(S) \in S /\ \A j \in S : Least(S) <= j
<1>1. S \subseteq Nat
  OBVIOUS
<1>2. \E i \in S : \A j \in S : i <= j
  BY <1>1, LeastNat
<1>3. QED
  BY <1>2 DEF Least

LEMMA InIsFinite == In \subseteq Ids /\ In \subseteq Nat /\ IsFiniteSet(In)
<1>1. In \subseteq Ids
  BY DEF In
<1>2. QED
  BY <1>1, FS_Subset

LEMMA FoundAreIn ==
  \A c, skip, take : FindMany(c, skip, take) \subseteq In
BY DEF FindMany, Window

(* What the types of the rows given away rest on: where the generator is.  *)
Placed ==
  /\ gen = "yield" => batch # {}
  /\ gen = "resume" => yielded # <<>>
  /\ Len(flow) <= Len(yielded)

Typed == TypeOK /\ Placed

(* An empty batch is not a full one.                                       *)
LEMMA AfterFetch == Fetch => gen' = IF batch' = {} THEN "final" ELSE "yield"
<1>1. batch' = {} => Cardinality(batch') = 0
  BY FS_EmptySet, Zenon
<1>2. batch' = {} => ~ HasMore
  BY <1>1, SizesAssumption DEF HasMore
<1>3. QED
  BY <1>2 DEF Fetch

LEMMA InitTyped == Init => Typed
<1> SUFFICES ASSUME Init PROVE Typed
  OBVIOUS
<1>1. rows \in [Ids -> {"absent", "in", "out"}] /\ shown \in [Ids -> Nat]
  BY DEF Init
<1>2. /\ gen \in {"count", "fetch", "yield", "final"} /\ (gen = "yield" => batch # {})
      /\ batch \subseteq Ids /\ short \in BOOLEAN
  BY DEF Init
<1>3. /\ changes = 0 /\ steady \subseteq Ids /\ reader \in Readers /\ cursor = 0 /\ strayed = FALSE
      /\ file = "open" /\ page = 1 /\ found = {0} /\ total = -1 /\ upset = {}
  BY DEF Init
<1>4. yielded = <<>> /\ flow = <<>> /\ reports = <<>>
  BY DEF Init
<1>5. /\ yielded \in Seq(Ids) /\ flow \in Seq(Ids) /\ reports \in Seq(Nat)
      /\ Len(flow) = 0 /\ Len(yielded) = 0
  BY <1>4
<1>6. Placed
  BY <1>2, <1>5 DEF Placed
<1>7. TypeOK
  <2>1. gen \in {"count", "fetch", "yield", "resume", "final", "done"}
    BY <1>2
  <2>2. changes \in Nat /\ page \in Nat /\ total \in Nat \union {-1} /\ Len(flow) <= HighWater
    BY <1>3, <1>5
  <2>3. QED
    BY <1>1, <1>2, <1>3, <1>5, <2>1, <2>2 DEF TypeOK
<1>8. QED
  BY <1>6, <1>7 DEF Typed

LEMMA WrittenIsNat == Typed => Written \in Nat
BY DEF Typed, TypeOK, Placed, Written

LEMMA PageSizeIs == Typed => PageSize \in Nat \ {0}
<1>1. Typed => reader.page \in Int
  BY DEF Typed, TypeOK
<1>2. QED
  BY <1>1 DEF PageSize

LEMMA ReportedTyped ==
  ASSUME reports \in Seq(Nat), NEW n \in Nat, Report(n) PROVE reports' \in Seq(Nat)
BY DEF Report

LEMMA StepTyped == Typed /\ [Next]_vars => Typed'
<1> SUFFICES ASSUME Typed, [Next]_vars PROVE Typed'
  OBVIOUS
<1> USE DEF Typed, TypeOK, Placed
<1>1. ASSUME NEW i \in Ids, Create(i) \/ Remove(i) PROVE Typed'
  <2>1. PICK how \in {"in", "out", "absent"} : Change(i, how)
    BY <1>1 DEF Create, Remove
  <2>2. rows' \in [Ids -> {"absent", "in", "out"}] /\ changes' \in Nat /\ steady' \subseteq Ids
    <3>1. changes' = changes + 1 /\ rows' = [rows EXCEPT ![i] = how]
      BY <2>1 DEF Change
    <3>2. steady' \subseteq steady
      BY <2>1 DEF Change
    <3>3. rows' \in [Ids -> {"absent", "in", "out"}]
      BY <3>1
    <3>4. QED
      BY <3>1, <3>2, <3>3
  <2>3. upset' \subseteq {"create", "remove", "race"}
    BY <1>1 DEF Create, Remove
  <2>4. UNCHANGED <<reader, export, walk>>
    BY <2>1 DEF Change
  <2>5. QED
    BY <2>2, <2>3, <2>4 DEF export, walk
<1>2. ASSUME Generate PROVE Typed'
  <2>1. CASE CountRows /\ UNCHANGED flow
    <3>1. gen' = "fetch" /\ UNCHANGED <<batch, short, cursor, strayed, yielded, reports, flow>>
      BY <2>1 DEF CountRows
    <3>2. QED
      BY <1>2, <3>1 DEF Generate, table, walk
  <2>2. CASE Fetch /\ UNCHANGED flow
    <3>1. batch' \subseteq Ids
      BY <2>2, FoundAreIn, InIsFinite DEF Fetch
    <3>2. short' \in BOOLEAN /\ strayed' \in BOOLEAN
      BY <2>2 DEF Fetch, HasMore
    <3>3. /\ gen' \in {"final", "yield"} /\ (gen' = "yield" => batch' # {})
          /\ UNCHANGED <<cursor, yielded, reports, flow>>
      BY <2>2, AfterFetch DEF Fetch
    <3>4. QED
      BY <1>2, <3>1, <3>2, <3>3 DEF Generate, table, walk
  <2>3. CASE Yield /\ flow' = Append(flow, yielded'[Len(yielded')])
    <3>1. Least(batch) \in Ids
      BY <2>3, LeastIs DEF Yield
    <3>2. /\ yielded' \in Seq(Ids) /\ Len(yielded') = Len(yielded) + 1
          /\ yielded'[Len(yielded')] = Least(batch) /\ yielded' # <<>>
      BY <2>3, <3>1 DEF Yield
    <3>3. /\ flow' \in Seq(Ids) /\ Len(flow') = Len(flow) + 1 /\ Len(flow) < HighWater
      BY <2>3, <3>1, <3>2 DEF Yield, Room
    <3>4. batch' \subseteq Ids /\ gen' = "resume" /\ UNCHANGED <<short, cursor, strayed, reports>>
      BY <2>3 DEF Yield
    <3>5. QED
      BY <1>2, <3>2, <3>3, <3>4 DEF Generate, table, walk
  <2>4. CASE Resume /\ UNCHANGED flow
    <3>1. reports' \in Seq(Nat)
      <4>1. Processed \in Nat
        BY DEF Processed
      <4>2. Report(Processed) \/ UNCHANGED reports
        BY <2>4 DEF Resume
      <4>3. QED
        BY <4>1, <4>2, ReportedTyped
    <3>2. cursor' \in Ids \union {0}
      BY <2>4 DEF Resume
    <3>3. gen' \in {"yield", "fetch", "final"} /\ (gen' = "yield" => batch # {})
      BY <2>4 DEF Resume
    <3>4. QED
      BY <1>2, <2>4, <3>1, <3>2, <3>3 DEF Generate, Resume, table, walk
  <2>5. CASE Final /\ UNCHANGED flow
    <3>1. reports' \in Seq(Nat)
      <4>1. Processed \in Nat
        BY DEF Processed
      <4>2. Report(Processed) \/ UNCHANGED reports
        BY <2>5 DEF Final
      <4>3. QED
        BY <4>1, <4>2, ReportedTyped
    <3>2. QED
      BY <1>2, <2>5, <3>1 DEF Generate, Final, table, walk
  <2>6. QED
    BY <1>2, <2>1, <2>2, <2>3, <2>4, <2>5 DEF Generate
<1>3. ASSUME WriteRow PROVE Typed'
  <2>1. flow' \in Seq(Ids) /\ Len(flow') = Len(flow) - 1
    BY <1>3, HeadTailProperties DEF WriteRow
  <2>2. reports' \in Seq(Nat)
    <3>1. Written + 1 \in Nat
      BY WrittenIsNat
    <3>2. Report(Written + 1) \/ UNCHANGED reports
      BY <1>3 DEF WriteRow
    <3>3. QED
      BY <3>1, <3>2, ReportedTyped
  <2>3. QED
    BY <1>3, <2>1, <2>2 DEF WriteRow, table, walk
<1>4. ASSUME Flush \/ Close PROVE Typed'
  <2>1. reports' \in Seq(Nat)
    <3>1. Written \in Nat
      BY WrittenIsNat
    <3>2. Report(Written) \/ UNCHANGED reports
      BY <1>4 DEF Flush, Close
    <3>3. QED
      BY <3>1, <3>2, ReportedTyped
  <2>2. QED
    BY <1>4, <2>1 DEF Flush, Close, table, walk
<1>5. ASSUME FailExport PROVE Typed'
  BY <1>5 DEF FailExport, table, walk
<1>6. ASSUME FindPage PROVE Typed'
  BY <1>6, InIsFinite DEF FindPage, Latest, table, export
<1>7. ASSUME CountPage PROVE Typed'
  BY <1>7, InIsFinite, FS_CardinalityType DEF CountPage, table, export
<1>8. ASSUME RespondPage PROVE Typed'
  <2>1. page' \in Nat
    BY <1>8 DEF RespondPage
  <2>2. shown' \in [Ids -> Nat]
    BY <1>8 DEF RespondPage
  <2>3. QED
    BY <1>8, <2>1, <2>2 DEF RespondPage, table, export
<1>9. CASE UNCHANGED vars
  BY <1>9 DEF vars, table, export, walk
<1>10. QED
  BY <1>1, <1>2, <1>3, <1>4, <1>5, <1>6, <1>7, <1>8, <1>9 DEF Next, ReadStep

LEMMA AlwaysTyped == Spec => []Typed
<1>1. QED
  BY InitTyped, StepTyped, PTL DEF Spec

(* Types, and the bounds of what is in memory: between the generator and   *)
(* the formatter there are never more rows than the stream holds.          *)
THEOREM ReadersTypesHold == Spec => []TypeOK
<1>1. Typed => TypeOK
  BY DEF Typed
<1>2. QED
  BY <1>1, AlwaysTyped, PTL

-----------------------------------------------------------------------------
(* What a query of the generator answers                                   *)

From(c) == {i \in In : i >= c}

Answer == FindMany(cursor, Skip(cursor), BatchSize)

LEMMA AnswerIs ==
  /\ cursor = 0 => Answer = Window(In, 0, BatchSize)
  /\ cursor # 0 /\ rows[cursor] = "absent" => Answer = {}
  /\ cursor # 0 /\ rows[cursor] # "absent" => Answer = Window(From(cursor), 1, BatchSize)
BY DEF Answer, FindMany, Skip, From

LEMMA FromIs ==
  ASSUME NEW c \in Ids
  PROVE  /\ From(c) \subseteq In /\ From(c) \subseteq Nat /\ IsFiniteSet(From(c))
         /\ Below(c, From(c)) = {}
<1>1. From(c) \subseteq In
  BY DEF From
<1>2. \A i \in From(c) : i \in Nat /\ c \in Nat /\ i >= c
  BY InIsFinite DEF From
<1>3. \A i \in From(c) : ~ (i < c)
  BY <1>2
<1>4. QED
  BY <1>1, <1>3, InIsFinite, FS_Subset DEF Below

(* The answer goes on after the cursor, whatever has become of its row.    *)
LEMMA AnswerIsAfterCursor ==
  ASSUME Typed, cursor # 0, NEW b \in Answer PROVE cursor < b
<1>1. cursor \in Ids /\ cursor \in Nat
  BY DEF Typed, TypeOK
<1>2. b \in From(cursor) /\ Cardinality(Below(b, From(cursor))) \in 1..(1 + BatchSize - 1)
  BY AnswerIs, WindowByRank
<1>3. b \in Nat /\ b >= cursor
  BY <1>2, InIsFinite DEF From
<1>4. b # cursor
  <2>1. Below(cursor, From(cursor)) = {} /\ Cardinality({}) = 0
    BY <1>1, FromIs, FS_EmptySet
  <2>2. 0 \notin 1..(1 + BatchSize - 1)
    OBVIOUS
  <2>3. QED
    BY <1>2, <2>1, <2>2
<1>5. QED
  BY <1>1, <1>3, <1>4

(* A row after a cursor that is still in is in the answer, or the answer   *)
(* is a full batch of rows before it.                                      *)
LEMMA AnswerCovers ==
  ASSUME Typed, cursor # 0 => rows[cursor] = "in", NEW i \in In, cursor # 0 => cursor < i
  PROVE  i \in Answer \/ (Cardinality(Answer) = BatchSize /\ \A k \in Answer : k < i)
<1>1. CASE cursor = 0
  <2>1. Cardinality(Below(i, In)) \in Nat
    BY InIsFinite, FS_Subset, FS_CardinalityType DEF Below
  <2>2. i \in Window(In, 0, BatchSize)
          \/ (Cardinality(Window(In, 0, BatchSize)) = BatchSize
              /\ \A k \in Window(In, 0, BatchSize) : k < i)
    <3>1. 0 <= Cardinality(Below(i, In)) /\ 0 \in Nat /\ BatchSize \in Nat
      BY <2>1
    <3>2. CASE i \notin Window(In, 0, BatchSize)
      BY <3>1, <3>2, InIsFinite, WindowIsFull
    <3>3. QED
      BY <3>2
  <2>3. QED
    BY <1>1, <2>2, AnswerIs
<1>2. CASE cursor # 0
  <2>1. cursor \in Ids /\ cursor \in Nat /\ i \in Nat /\ cursor < i
    BY <1>2, InIsFinite DEF Typed, TypeOK
  <2>2. cursor \in In
    BY <1>2, <2>1 DEF In
  <2>3. i \in From(cursor) /\ cursor \in From(cursor)
    BY <2>1, <2>2 DEF From
  <2>4. Cardinality(Below(cursor, From(cursor))) \in Nat
        /\ Cardinality(Below(i, From(cursor))) \in Nat
        /\ Cardinality(Below(cursor, From(cursor))) < Cardinality(Below(i, From(cursor)))
    BY <2>1, <2>3, FromIs, MoreBelow
  <2>5. 1 <= Cardinality(Below(i, From(cursor)))
    BY <2>4
  <2>6. i \in Window(From(cursor), 1, BatchSize)
          \/ (Cardinality(Window(From(cursor), 1, BatchSize)) = BatchSize
              /\ \A k \in Window(From(cursor), 1, BatchSize) : k < i)
    BY <2>1, <2>3, <2>5, FromIs, WindowIsFull
  <2>7. QED
    BY <1>2, <2>6, AnswerIs
<1>3. QED
  BY <1>1, <1>2

-----------------------------------------------------------------------------
(* Order and completeness of an export                                     *)

Got == {yielded[k] : k \in 1..Len(yielded)}

Last == IF yielded = <<>> THEN 0 ELSE yielded[Len(yielded)]

(* What is given away is in order and before what the batch still holds;   *)
(* the cursor of the next query is the last row given away.                *)
InOrder ==
  /\ ExportedOnceInOrder
  /\ \A g \in Got, b \in batch : g < b
  /\ gen \in {"count", "fetch"} => batch = {} /\ cursor = Last
  /\ gen \in {"final", "done"} => batch = {}
  /\ file \in {"ended", "closed"} => gen = "done" /\ flow = <<>>
  /\ steady \subseteq In

(* The generator will ask for another batch.                               *)
More == gen \in {"count", "fetch"} \/ (gen \in {"yield", "resume"} /\ ~ short)

(* A steady row is given away, or in the batch, or after all that is while *)
(* the generator goes on.                                                  *)
Covered ==
  reader.source = "table" /\ ~ strayed =>
    \A i \in steady : \/ i \in Got \union batch
                      \/ More /\ \A g \in Got \union batch : g < i

(* All that is given away is up to the last of it.                         *)
LEMMA LastIsGreatest ==
  ASSUME Typed, ExportedOnceInOrder
  PROVE  /\ \A g \in Got : g \in Ids /\ g <= Last
         /\ Got # {} => Last \in Got
         /\ Last = 0 <=> Got = {}
<1>1. yielded \in Seq(Ids) /\ Len(yielded) \in Nat
  BY DEF Typed, TypeOK
<1>2. CASE yielded = <<>>
  BY <1>2 DEF Got, Last
<1>3. CASE yielded # <<>>
  <2>1. Len(yielded) \in 1..Len(yielded) /\ Last = yielded[Len(yielded)] /\ Last \in Ids
    BY <1>1, <1>3 DEF Last
  <2>2. ASSUME NEW k \in 1..Len(yielded) PROVE yielded[k] \in Ids /\ yielded[k] <= Last
    <3>1. yielded[k] \in Ids /\ yielded[k] \in Nat /\ Last \in Nat
      <4>1. yielded[k] \in Ids
        BY <1>1
      <4>2. QED
        BY <2>1, <4>1
    <3>2. k < Len(yielded) => yielded[k] < Last
      BY <2>1 DEF ExportedOnceInOrder
    <3>3. k = Len(yielded) => yielded[k] = Last
      BY <2>1
    <3>4. QED
      BY <1>1, <3>1, <3>2, <3>3
  <2>3. Last \in Got /\ Last # 0
    BY <2>1 DEF Got
  <2>4. \A g \in Got : g \in Ids /\ g <= Last
    BY <2>2 DEF Got
  <2>5. QED
    BY <2>3, <2>4
<1>4. QED
  BY <1>2, <1>3

LEMMA InitInOrder == Init => InOrder /\ Covered
<1> SUFFICES ASSUME Init PROVE InOrder /\ Covered
  OBVIOUS
<1>1. yielded = <<>> /\ Len(yielded) = 0 /\ Got = {} /\ Last = 0 /\ cursor = 0 /\ file = "open"
  BY DEF Init, Got, Last
<1>2. steady \subseteq In
  BY DEF Init, In
<1>3. /\ gen \in {"count", "fetch"} => batch = {}
      /\ gen \in {"final", "done"} => batch = {}
  BY DEF Init
<1>4. reader.source = "table" => More /\ batch = {}
  BY DEF Init, More
<1>5. InOrder
  BY <1>1, <1>2, <1>3 DEF InOrder, ExportedOnceInOrder
<1>6. QED
  BY <1>1, <1>4, <1>5 DEF Covered

(* The table's changes touch the steady rows only.                         *)
LEMMA ChangeInOrder ==
  ASSUME Typed, InOrder, Covered, NEW i \in Ids, NEW how, Change(i, how)
  PROVE  InOrder' /\ Covered'
<1>1. UNCHANGED <<gen, batch, short, cursor, strayed, yielded, flow, file, reader>>
  BY DEF Change, export
<1>2. steady' \subseteq steady /\ steady' \subseteq In'
  BY DEF Change, In, Typed, TypeOK
<1>3. UNCHANGED <<Got, Last, More>> /\ (ExportedOnceInOrder <=> ExportedOnceInOrder')
  BY <1>1 DEF Got, Last, More, ExportedOnceInOrder
<1>4. InOrder'
  BY <1>1, <1>2, <1>3 DEF InOrder
<1>5. Covered'
  BY <1>1, <1>2, <1>3 DEF Covered
<1>6. QED
  BY <1>4, <1>5

LEMMA FetchInOrder ==
  ASSUME Typed, InOrder, Covered, Fetch, UNCHANGED <<flow, file, reader, rows, steady>>
  PROVE  InOrder' /\ Covered'
<1>1. /\ gen = "fetch" /\ batch' = Answer /\ batch = {}
      /\ gen' = IF batch' = {} THEN "final" ELSE "yield"
      /\ UNCHANGED yielded /\ cursor = Last
  BY AfterFetch DEF Fetch, Answer, InOrder
<1>2. UNCHANGED Got /\ (ExportedOnceInOrder <=> ExportedOnceInOrder') /\ ExportedOnceInOrder
  BY <1>1 DEF Got, InOrder, ExportedOnceInOrder
<1>3. ASSUME NEW g \in Got, NEW b \in batch' PROVE g < b
  <2>1. g \in Ids /\ g <= cursor /\ cursor # 0
    BY <1>1, <1>2, LastIsGreatest
  <2>2. cursor < b /\ b \in Nat /\ g \in Nat /\ cursor \in Nat
    <3>1. cursor < b
      BY <1>1, <2>1, AnswerIsAfterCursor
    <3>2. b \in In
      BY <1>1, FoundAreIn DEF Answer
    <3>3. QED
      BY <2>1, <3>1, <3>2, InIsFinite DEF Typed, TypeOK
  <2>3. QED
    BY <2>1, <2>2
<1>4. InOrder'
  <2>1. steady' \subseteq In'
    BY DEF InOrder, In
  <2>2. gen' \notin {"count", "fetch", "done"} /\ (gen' = "final" => batch' = {})
    BY <1>1
  <2>3. file' \notin {"ended", "closed"}
    BY <1>1 DEF InOrder
  <2>4. QED
    BY <1>2, <1>3, <2>1, <2>2, <2>3 DEF InOrder
<1>5. Covered'
  <2> SUFFICES ASSUME reader.source = "table", ~ strayed', NEW i \in steady'
               PROVE  \/ i \in Got' \union batch'
                      \/ More' /\ \A g \in Got' \union batch' : g < i
    BY DEF Covered
  <2>1. ~ strayed /\ (cursor # 0 => rows[cursor] = "in") /\ i \in steady /\ i \in In
    BY DEF Fetch, InOrder
  <2>2. CASE i \in Got
    BY <1>2, <2>2
  <2>3. CASE i \notin Got
    <3>1. \A g \in Got : g < i
      BY <1>1, <2>1, <2>3 DEF Covered
    <3>2. cursor # 0 => cursor < i
      <4>1. cursor # 0 => Got # {}
        BY <1>1, <1>2, LastIsGreatest
      <4>2. QED
        BY <1>1, <1>2, <3>1, <4>1, LastIsGreatest
    <3>3. i \in Answer \/ (Cardinality(Answer) = BatchSize /\ \A k \in Answer : k < i)
      BY <2>1, <3>2, AnswerCovers
    <3>4. CASE i \in Answer
      BY <1>1, <3>4
    <3>5. CASE Cardinality(Answer) = BatchSize /\ \A k \in Answer : k < i
      <4>1. Answer # {}
        BY <3>5, FS_EmptySet
      <4>2. gen' = "yield" /\ ~ short'
        BY <1>1, <3>5, <4>1 DEF Fetch, HasMore
      <4>3. More'
        BY <4>2 DEF More
      <4>4. QED
        BY <1>1, <1>2, <3>1, <3>5, <4>3
    <3>6. QED
      BY <3>3, <3>4, <3>5
  <2>4. QED
    BY <2>2, <2>3
<1>6. QED
  BY <1>4, <1>5

LEMMA YieldInOrder ==
  ASSUME Typed, InOrder, Covered, Yield, UNCHANGED <<file, reader, rows, steady>>
  PROVE  InOrder' /\ Covered'
<1> DEFINE b == Least(batch)
<1>1. b \in batch /\ b \in Ids /\ \A j \in batch : b <= j
  BY LeastIs DEF Yield, Typed, TypeOK, Placed
<1>2. yielded' = Append(yielded, b) /\ batch' = batch \ {b} /\ gen = "yield" /\ gen' = "resume"
      /\ UNCHANGED <<short, cursor, strayed>>
  BY DEF Yield
<1>3. file \notin {"ended", "closed"} /\ steady' \subseteq In'
  BY <1>2 DEF InOrder, In
<1> HIDE DEF b
<1>4. /\ yielded \in Seq(Ids) /\ Len(yielded) \in Nat /\ Len(yielded') = Len(yielded) + 1
      /\ yielded'[Len(yielded) + 1] = b
      /\ \A k \in 1..Len(yielded) : yielded'[k] = yielded[k]
  BY <1>1, <1>2 DEF Typed, TypeOK
<1>5. Got' = Got \union {b}
  <2>1. \A k \in 1..Len(yielded) : k \in 1..Len(yielded')
    BY <1>4
  <2>2. Len(yielded) + 1 \in 1..Len(yielded')
    BY <1>4
  <2>3. \A k \in 1..Len(yielded') : k \in 1..Len(yielded) \/ k = Len(yielded) + 1
    BY <1>4
  <2>4. Got \union {b} \subseteq Got'
    BY <1>4, <2>1, <2>2 DEF Got
  <2>5. Got' \subseteq Got \union {b}
    BY <1>4, <2>3 DEF Got
  <2>6. QED
    BY <2>4, <2>5
<1>6. ExportedOnceInOrder'
  <2> SUFFICES ASSUME NEW k \in 1..Len(yielded'), NEW l \in 1..Len(yielded'), k < l
               PROVE  yielded'[k] < yielded'[l]
    BY DEF ExportedOnceInOrder
  <2>1. k \in 1..Len(yielded)
    BY <1>4
  <2>2. CASE l \in 1..Len(yielded)
    BY <1>4, <2>1, <2>2 DEF InOrder, ExportedOnceInOrder
  <2>3. CASE l = Len(yielded) + 1
    <3>1. yielded[k] \in Got
      BY <2>1 DEF Got
    <3>2. yielded[k] < b
      BY <1>1, <3>1 DEF InOrder
    <3>3. QED
      BY <1>4, <2>1, <2>3, <3>2
  <2>4. QED
    BY <1>4, <2>2, <2>3
<1>7. ASSUME NEW g \in Got', NEW j \in batch' PROVE g < j
  <2>1. CASE g \in Got
    BY <1>2, <2>1 DEF InOrder
  <2>2. CASE g = b
    <3>1. b <= j /\ j # b /\ j \in Ids
      BY <1>1, <1>2 DEF Typed, TypeOK
    <3>2. b \in Nat /\ j \in Nat
      BY <1>1, <3>1
    <3>3. QED
      BY <2>2, <3>1, <3>2
  <2>3. QED
    BY <1>5, <2>1, <2>2
<1>8. InOrder'
  BY <1>2, <1>3, <1>6, <1>7 DEF InOrder
<1>9. Covered'
  <2>1. Got' \union batch' = Got \union batch
    BY <1>1, <1>2, <1>5
  <2>2. More <=> More'
    BY <1>2 DEF More
  <2>3. QED
    BY <1>2, <2>1, <2>2 DEF Covered
<1>10. QED
  BY <1>8, <1>9

LEMMA ResumeInOrder ==
  ASSUME Typed, InOrder, Covered, Resume, UNCHANGED <<file, reader, rows, steady>>
  PROVE  InOrder' /\ Covered'
<1>1. gen = "resume" /\ yielded # <<>> /\ UNCHANGED <<batch, short, strayed, yielded>>
  BY DEF Resume, Typed, Placed
<1>2. /\ gen' = "yield" => batch # {}
      /\ gen' = "fetch" => batch = {} /\ ~ short /\ cursor' = yielded[Len(yielded)]
      /\ gen' = "final" => batch = {} /\ short
      /\ gen' \in {"yield", "fetch", "final"}
  BY DEF Resume, Typed, TypeOK
<1>3. UNCHANGED <<Got, Last>> /\ (ExportedOnceInOrder <=> ExportedOnceInOrder')
  BY <1>1 DEF Got, Last, ExportedOnceInOrder
<1>4. gen' = "fetch" => cursor' = Last'
  BY <1>1, <1>2 DEF Last
<1>5. file' \notin {"ended", "closed"} /\ steady' \subseteq In'
  BY <1>1 DEF InOrder, In
<1>6. InOrder'
  BY <1>1, <1>2, <1>3, <1>4, <1>5 DEF InOrder
<1>7. More => More'
  BY <1>1, <1>2 DEF More
<1>8. QED
  BY <1>1, <1>3, <1>6, <1>7 DEF Covered

LEMMA StepInOrder == Typed /\ InOrder /\ Covered /\ [Next]_vars => InOrder' /\ Covered'
<1> SUFFICES ASSUME Typed, InOrder, Covered, [Next]_vars PROVE InOrder' /\ Covered'
  OBVIOUS
<1>1. ASSUME NEW i \in Ids, Create(i) \/ Remove(i) PROVE InOrder' /\ Covered'
  BY <1>1, ChangeInOrder DEF Create, Remove
<1>2. ASSUME Generate PROVE InOrder' /\ Covered'
  <2>1. UNCHANGED <<file, reader, rows, steady>> /\ file = "open"
    BY <1>2 DEF Generate, table
  <2>2. CASE (CountRows \/ Final) /\ UNCHANGED flow
    <3>1. /\ UNCHANGED <<batch, short, cursor, strayed, yielded>>
          /\ \/ gen = "count" /\ gen' = "fetch"
             \/ gen = "final" /\ gen' = "done"
      BY <2>2 DEF CountRows, Final
    <3>2. UNCHANGED <<Got, Last, In>> /\ (ExportedOnceInOrder <=> ExportedOnceInOrder')
      BY <2>1, <3>1 DEF Got, Last, In, ExportedOnceInOrder
    <3>3. InOrder'
      BY <2>1, <3>1, <3>2 DEF InOrder
    <3>4. More => More'
      BY <3>1 DEF More
    <3>5. QED
      BY <2>1, <3>1, <3>2, <3>3, <3>4 DEF Covered
  <2>3. CASE Fetch /\ UNCHANGED flow
    BY <2>1, <2>3, FetchInOrder
  <2>4. CASE Yield
    BY <2>1, <2>4, YieldInOrder
  <2>5. CASE Resume
    BY <2>1, <2>5, ResumeInOrder
  <2>6. QED
    BY <1>2, <2>2, <2>3, <2>4, <2>5 DEF Generate
<1>3. ASSUME UNCHANGED <<table, reader, gen, batch, short, cursor, strayed, yielded>>,
             file' \in {"ended", "closed"} =>
               (file \in {"ended", "closed"} /\ UNCHANGED flow) \/ (gen = "done" /\ flow' = <<>>)
      PROVE  InOrder' /\ Covered'
  <2>1. UNCHANGED <<Got, Last, In, More>> /\ (ExportedOnceInOrder <=> ExportedOnceInOrder')
    BY <1>3 DEF Got, Last, In, More, ExportedOnceInOrder, table
  <2>2. UNCHANGED <<rows, steady, reader>>
    BY <1>3 DEF table
  <2>3. InOrder'
    BY <1>3, <2>1, <2>2 DEF InOrder
  <2>4. Covered'
    BY <1>3, <2>1, <2>2 DEF Covered
  <2>5. QED
    BY <2>3, <2>4
<1>4. CASE WriteRow \/ FailExport
  BY <1>3, <1>4 DEF WriteRow, FailExport
<1>5. CASE Flush \/ Close
  BY <1>3, <1>5 DEF Flush, Close
<1>6. CASE FindPage \/ CountPage \/ RespondPage \/ UNCHANGED vars
  BY <1>3, <1>6 DEF FindPage, CountPage, RespondPage, export, vars
<1>7. QED
  BY <1>1, <1>2, <1>4, <1>5, <1>6 DEF Next, ReadStep

-----------------------------------------------------------------------------
(* Progress reports                                                        *)

(* The rows that the reporter has counted.                                 *)
Counted == IF reader.reporter = "json" THEN Written ELSE Len(yielded)

Rises(s) == \A k, l \in 1..Len(s) : k < l => s[k] <= s[l]

LastIs(s, n) == s # <<>> /\ s[Len(s)] = n

(* Reports rise up to what is counted, and where there is nothing left to  *)
(* count the last of them says so.                                         *)
Reported ==
  /\ Rises(reports)
  /\ \A k \in 1..Len(reports) : reports[k] <= Counted
  /\ gen = "done" /\ reader.reporter = "cursor" => LastIs(reports, Len(yielded))
  /\ file = "closed" /\ reader.reporter # "none" => LastIs(reports, Len(yielded))

LEMMA CountedIsNat == Typed => Counted \in Nat /\ Len(yielded) \in Nat /\ Written <= Len(yielded)
<1> SUFFICES ASSUME Typed PROVE Counted \in Nat /\ Len(yielded) \in Nat /\ Written <= Len(yielded)
  OBVIOUS
<1>1. Len(yielded) \in Nat /\ Len(flow) \in Nat /\ Written \in Nat
  BY WrittenIsNat DEF Typed, TypeOK
<1>2. QED
  BY <1>1 DEF Counted, Written

LEMMA CountedIsNatNext == Typed' => Counted' \in Nat
<1>1. Typed => Counted \in Nat
  BY CountedIsNat
<1>2. (Typed => Counted \in Nat)'
  BY <1>1, PTL
<1>3. QED
  BY <1>2

(* A count no lower than those before keeps the reports rising.            *)
LEMMA ReportRises ==
  ASSUME Typed, Rises(reports), NEW n \in Nat, \A k \in 1..Len(reports) : reports[k] <= n, Report(n)
  PROVE  Rises(reports') /\ LastIs(reports', n) /\ \A k \in 1..Len(reports') : reports'[k] <= n
<1>1. reports \in Seq(Nat) /\ Len(reports) \in Nat
  BY DEF Typed, TypeOK
<1>2. /\ reports' \in Seq(Nat) /\ Len(reports') = Len(reports) + 1
      /\ reports'[Len(reports) + 1] = n
      /\ \A k \in 1..Len(reports) : reports'[k] = reports[k]
  BY <1>1 DEF Report
<1>3. \A k \in 1..Len(reports') : k \in 1..Len(reports) \/ k = Len(reports) + 1
  BY <1>1, <1>2
<1>4. \A k \in 1..Len(reports') : reports'[k] <= n
  BY <1>1, <1>2, <1>3
<1>5. ASSUME NEW k \in 1..Len(reports'), NEW l \in 1..Len(reports'), k < l
      PROVE  reports'[k] <= reports'[l]
  <2>1. CASE l = Len(reports) + 1
    BY <1>2, <1>4, <2>1
  <2>2. CASE l \in 1..Len(reports)
    <3>1. k \in 1..Len(reports)
      BY <1>1, <1>5, <2>2
    <3>2. QED
      BY <1>2, <1>5, <2>2, <3>1 DEF Rises
  <2>3. QED
    BY <1>3, <2>1, <2>2
<1>6. LastIs(reports', n)
  BY <1>1, <1>2 DEF LastIs
<1>7. QED
  BY <1>4, <1>5, <1>6 DEF Rises

LEMMA InitReported == Init => Reported
BY DEF Init, Reported, Rises

(* Where the count does not fall and nothing ends, what is reported holds. *)
LEMMA CountGrows ==
  ASSUME Typed, Typed', Reported, UNCHANGED <<reader, reports>>, Counted <= Counted',
         gen' = "done" /\ reader.reporter = "cursor" => gen = "done" /\ UNCHANGED yielded,
         file' = "closed" => file = "closed" /\ UNCHANGED yielded
  PROVE  Reported'
<1>1. \A k \in 1..Len(reports) : reports[k] \in Nat
  <2>1. reports \in Seq(Nat)
    BY DEF Typed, TypeOK
  <2>2. QED
    BY <2>1
<1>2. Counted \in Nat /\ Counted' \in Nat
  BY CountedIsNat, CountedIsNatNext
<1>3. \A k \in 1..Len(reports) : reports[k] <= Counted'
  BY <1>1, <1>2 DEF Reported
<1>4. Rises(reports)' /\ \A n : LastIs(reports, n) <=> LastIs(reports', n)
  BY DEF Reported
<1>5. QED
  BY <1>3, <1>4 DEF Reported

LEMMA StepReported ==
  Typed /\ Typed' /\ InOrder /\ Reported /\ [Next]_vars => Reported'
<1> SUFFICES ASSUME Typed, Typed', InOrder, Reported, [Next]_vars PROVE Reported'
  OBVIOUS
<1>1. /\ Counted \in Nat /\ Len(yielded) \in Nat /\ Written \in Nat /\ Written <= Len(yielded)
      /\ Counted' \in Nat
  BY CountedIsNat, WrittenIsNat, CountedIsNatNext
<1>2. ASSUME UNCHANGED <<reader, reports, yielded, flow, gen, file>> PROVE Reported'
  <2>1. Counted' = Counted
    BY <1>2 DEF Counted, Written
  <2>2. QED
    BY <1>1, <1>2, <2>1, CountGrows
<1>3. ASSUME NEW i \in Ids, Create(i) \/ Remove(i) PROVE Reported'
  BY <1>2, <1>3 DEF Create, Remove, Change, export
<1>4. ASSUME Generate PROVE Reported'
  <2>1. UNCHANGED <<file, reader>> /\ file = "open"
    BY <1>4 DEF Generate
  <2>2. ASSUME UNCHANGED <<yielded, flow>> PROVE Counted' = Counted
    BY <2>1, <2>2 DEF Counted, Written
  <2>3. CASE (CountRows \/ Fetch) /\ UNCHANGED flow
    <3>1. gen' # "done" /\ UNCHANGED <<reports, yielded>>
      BY <2>3 DEF CountRows, Fetch
    <3>2. QED
      BY <1>1, <2>1, <2>2, <2>3, <3>1, CountGrows
  <2>4. CASE Yield /\ flow' = Append(flow, yielded'[Len(yielded')])
    <3>1. gen' # "done" /\ UNCHANGED reports
      BY <2>4 DEF Yield
    <3>2. Least(batch) \in Ids /\ yielded' = Append(yielded, Least(batch))
      BY <2>4, LeastIs DEF Yield, Typed, TypeOK, Placed
    <3>3. Len(yielded') = Len(yielded) + 1
      BY <3>2 DEF Typed, TypeOK
    <3>4. yielded'[Len(yielded')] \in Ids
      BY <3>3 DEF Typed, TypeOK
    <3>5. Len(flow') = Len(flow) + 1 /\ Len(flow) \in Nat
      BY <2>4, <3>4 DEF Typed, TypeOK
    <3>6. Counted <= Counted'
      BY <1>1, <2>1, <3>3, <3>5 DEF Counted, Written
    <3>7. QED
      BY <2>1, <3>1, <3>6, CountGrows
  <2>5. CASE (Resume \/ Final) /\ UNCHANGED flow
    <3>1. UNCHANGED yielded /\ Counted' = Counted
      BY <2>2, <2>5 DEF Resume, Final
    <3>2. CASE UNCHANGED reports /\ (gen' = "done" => reader.reporter # "cursor")
      BY <1>1, <2>1, <3>1, <3>2, CountGrows
    <3>3. CASE reader.reporter = "cursor" /\ Report(Processed)
      <4>1. Processed = Counted /\ Counted = Len(yielded)
        BY <3>3 DEF Processed, Counted
      <4>2. \A k \in 1..Len(reports) : reports[k] <= Counted
        BY DEF Reported
      <4>3. Rises(reports') /\ LastIs(reports', Counted) /\ \A k \in 1..Len(reports') : reports'[k] <= Counted
        BY <1>1, <3>3, <4>1, <4>2, ReportRises DEF Reported
      <4>4. QED
        BY <2>1, <3>1, <4>1, <4>3 DEF Reported
    <3>4. QED
      BY <2>5, <3>2, <3>3 DEF Resume, Final
  <2>6. QED
    BY <1>4, <2>3, <2>4, <2>5 DEF Generate
<1>5. ASSUME WriteRow PROVE Reported'
  <2>1. UNCHANGED <<reader, gen, yielded, file>> /\ file = "open"
    BY <1>5 DEF WriteRow
  <2>2. Len(flow') = Len(flow) - 1 /\ Len(flow) \in Nat
    BY <1>5, HeadTailProperties DEF WriteRow, Typed, TypeOK
  <2>3. Written' = Written + 1
    BY <1>1, <2>1, <2>2 DEF Written
  <2>4. Counted <= Counted' /\ (reader.reporter = "json" => Counted' = Written + 1)
    BY <1>1, <2>1, <2>3 DEF Counted
  <2>5. CASE UNCHANGED reports
    BY <2>1, <2>4, <2>5, CountGrows
  <2>6. CASE reader.reporter = "json" /\ Report(Written + 1)
    <3>1. \A k \in 1..Len(reports) : reports[k] <= Written + 1
      <4> TAKE k \in 1..Len(reports)
      <4>1. reports[k] \in Nat /\ reports[k] <= Written
        <5>1. reports \in Seq(Nat)
          BY DEF Typed, TypeOK
        <5>2. reports[k] \in Nat
          BY <5>1
        <5>3. QED
          BY <2>6, <5>2 DEF Reported, Counted
      <4>2. QED
        BY <1>1, <4>1
    <3>2. Rises(reports') /\ LastIs(reports', Written + 1)
          /\ \A k \in 1..Len(reports') : reports'[k] <= Written + 1
      BY <1>1, <2>6, <3>1, ReportRises DEF Reported
    <3>3. QED
      BY <2>1, <2>4, <2>6, <3>2 DEF Reported
  <2>7. QED
    BY <1>5, <2>5, <2>6 DEF WriteRow
<1>6. ASSUME Close PROVE Reported'
  <2>1. UNCHANGED <<reader, gen, yielded, flow>> /\ gen = "done" /\ flow = <<>>
    BY <1>6 DEF Close, InOrder
  <2>2. Written = Len(yielded) /\ Counted = Len(yielded) /\ Counted' = Len(yielded)
    BY <1>1, <2>1 DEF Counted, Written
  <2>3. CASE reader.reporter = "json"
    <3>1. Rises(reports') /\ LastIs(reports', Written)
          /\ \A k \in 1..Len(reports') : reports'[k] <= Written
      BY <1>1, <1>6, <2>2, <2>3, ReportRises DEF Reported, Close
    <3>2. QED
      BY <2>1, <2>2, <2>3, <3>1 DEF Reported
  <2>4. CASE reader.reporter # "json"
    <3>1. UNCHANGED reports /\ reader.reporter \in {"cursor", "none"}
      BY <1>6, <2>4 DEF Close, Typed, TypeOK
    <3>2. QED
      BY <2>1, <2>2, <3>1 DEF Reported, Rises, LastIs
  <2>5. QED
    BY <2>3, <2>4
<1>7. CASE Flush \/ FailExport
  <2>1. UNCHANGED <<reader, reports, yielded, flow, gen>> /\ file' # "closed"
    BY <1>7 DEF Flush, FailExport
  <2>2. Counted' = Counted
    BY <2>1 DEF Counted, Written
  <2>3. QED
    BY <1>1, <2>1, <2>2, CountGrows
<1>8. CASE FindPage \/ CountPage \/ RespondPage \/ UNCHANGED vars
  BY <1>2, <1>8 DEF FindPage, CountPage, RespondPage, export, vars
<1>9. QED
  BY <1>3, <1>4, <1>5, <1>6, <1>7, <1>8 DEF Next, ReadStep

-----------------------------------------------------------------------------
(* Theorem: what an export gives away is true                              *)

LEMMA SoundFromParts ==
  Typed /\ InOrder /\ Covered /\ Reported => ExportSound
<1> SUFFICES ASSUME Typed, InOrder, Covered, Reported PROVE ExportSound
  OBVIOUS
<1>1. SteadyRowsExported
  <2> SUFFICES ASSUME reader.source = "table", file = "closed", ~ strayed, NEW i \in steady
               PROVE  \E k \in 1..Len(yielded) : yielded[k] = i
    BY DEF SteadyRowsExported
  <2>1. batch = {} /\ ~ More
    BY DEF InOrder, More
  <2>2. i \in Got
    BY <2>1 DEF Covered
  <2>3. QED
    BY <2>2 DEF Got
<1>2. ReportsRise
  BY DEF Reported, Rises, LastIs, ReportsRise
<1>3. QED
  BY <1>1, <1>2 DEF ExportSound, InOrder

(* An export never gives a row twice nor out of order, one that ends has   *)
(* every row that matched all along, unless it went on from a row that no  *)
(* longer did, and its progress reports rise to the number of its rows:    *)
(* for every table, batch size and interleaving with what changes it.      *)
THEOREM ExportIsSound == Spec => []ExportSound
<1>1. Init => Typed /\ InOrder /\ Covered /\ Reported
  BY InitTyped, InitInOrder, InitReported
<1>2. Typed /\ InOrder /\ Covered /\ Reported /\ [Next]_vars
        => (Typed /\ InOrder /\ Covered /\ Reported)'
  BY StepTyped, StepInOrder, StepReported
<1>3. QED
  BY <1>1, <1>2, SoundFromParts, PTL DEF Spec

-----------------------------------------------------------------------------
(* The text of a JSON export                                               *)

Glyphs == Ids \union {"[", "]", "[]", ",", "header", "\n"}

(* What is at a place of the text: the records and what is before each.    *)
Glyph(k) == IF k = 1 THEN "[" ELSE IF k % 2 = 0 THEN yielded[k \div 2] ELSE ","

IsJson == reader.source # "list" /\ reader.format = "json"

(* The rows between generator and formatter are the last that were given   *)
(* away.                                                                   *)
Piped == \A k \in 1..Len(flow) : flow[k] = yielded[Written + k]

(* The text of the records written so far, without an end; and with it.    *)
Partial == /\ out \in Seq(Glyphs) /\ Len(out) = 2 * Written
           /\ \A k \in 1..(2 * Written) : out[k] = Glyph(k)

Whole == out = JsonText(yielded) /\ gen = "done" /\ flow = <<>>

Spelled ==
  IsJson =>
    /\ file = "open" => Partial
    /\ file \in {"ended", "closed"} => Whole
    /\ Partial \/ Whole

LEMMA HalfIs ==
  ASSUME NEW k \in Nat, NEW w \in Nat, 1 < k, k <= 2 * w, k % 2 = 0
  PROVE  k \div 2 \in 1..w
OBVIOUS

LEMMA PairIs ==
  ASSUME NEW S, NEW a \in S, NEW b \in S
  PROVE  <<a, b>> \in Seq(S) /\ Len(<<a, b>>) = 2 /\ <<a, b>>[1] = a /\ <<a, b>>[2] = b
OBVIOUS

LEMMA InitSpelled == Init => Piped /\ Spelled
<1> SUFFICES ASSUME Init PROVE Piped /\ Spelled
  OBVIOUS
<1>1. flow = <<>> /\ Len(flow) = 0 /\ Len(yielded) = 0 /\ out = <<>> /\ file = "open"
  BY DEF Init
<1>2. Written = 0
  <2>1. Len(flow) = 0 /\ Len(yielded) = 0
    BY <1>1
  <2>2. QED
    BY <2>1 DEF Written
<1>3. out \in Seq(Glyphs) /\ Len(out) = 0
  BY <1>1
<1>4. Partial
  BY <1>2, <1>3 DEF Partial
<1>5. QED
  BY <1>1, <1>4 DEF Piped, Spelled

LEMMA YieldSpelled ==
  ASSUME Typed, Piped, Spelled, Yield, flow' = Append(flow, yielded'[Len(yielded')]),
         UNCHANGED <<reader, out, file>>, file = "open"
  PROVE  Piped' /\ Spelled'
<1> DEFINE b == Least(batch)
<1>1. b \in Ids
  BY LeastIs DEF Yield, Typed, TypeOK, Placed
<1>2. yielded' = Append(yielded, b)
  BY DEF Yield
<1> HIDE DEF b
<1>3. /\ yielded \in Seq(Ids) /\ Len(yielded) \in Nat /\ Len(yielded') = Len(yielded) + 1
      /\ yielded'[Len(yielded')] = b /\ \A k \in 1..Len(yielded) : yielded'[k] = yielded[k]
  BY <1>1, <1>2 DEF Typed, TypeOK
<1>4. /\ Len(flow) \in Nat /\ Len(flow') = Len(flow) + 1
      /\ flow'[Len(flow) + 1] = b /\ \A k \in 1..Len(flow) : flow'[k] = flow[k]
  BY <1>1, <1>3 DEF Typed, TypeOK
<1>5. Written \in Nat /\ Written' = Written /\ Written + Len(flow) = Len(yielded)
  BY <1>3, <1>4, WrittenIsNat DEF Written
<1>6. Piped'
  <2> SUFFICES ASSUME NEW k \in 1..Len(flow') PROVE flow'[k] = yielded'[Written + k]
    BY <1>5 DEF Piped
  <2>1. CASE k = Len(flow) + 1
    BY <1>3, <1>4, <1>5, <2>1
  <2>2. CASE k \in 1..Len(flow)
    <3>1. Written + k \in 1..Len(yielded)
      BY <1>4, <1>5, <2>2
    <3>2. QED
      BY <1>3, <1>4, <2>2, <3>1 DEF Piped
  <2>3. QED
    BY <1>4, <2>1, <2>2
<1>7. ASSUME NEW k \in 1..(2 * Written) PROVE Glyph(k)' = Glyph(k)
  <2>1. CASE k > 1 /\ k % 2 = 0
    <3>1. k \div 2 \in 1..Written
      BY <1>5, <2>1, HalfIs
    <3>2. k \div 2 \in 1..Len(yielded)
      BY <1>3, <1>4, <1>5, <3>1
    <3>3. QED
      BY <1>3, <3>2 DEF Glyph
  <2>2. CASE k = 1 \/ k % 2 # 0
    BY <2>2 DEF Glyph
  <2>3. QED
    BY <1>5, <2>1, <2>2
<1>8. Partial => Partial'
  BY <1>5, <1>7 DEF Partial
<1>9. QED
  BY <1>6, <1>8 DEF Spelled, IsJson

LEMMA WriteRowSpelled ==
  ASSUME Typed, Piped, Spelled, WriteRow
  PROVE  Piped' /\ Spelled'
<1>1. UNCHANGED <<reader, yielded, file>> /\ file = "open" /\ flow # <<>> /\ flow' = Tail(flow)
  BY DEF WriteRow
<1>2. /\ Len(flow) \in Nat \ {0} /\ Len(flow') = Len(flow) - 1
      /\ Head(flow) = flow[1] /\ flow[1] \in Ids
      /\ \A k \in 1..Len(flow') : flow'[k] = flow[k + 1]
  BY <1>1, HeadTailProperties DEF Typed, TypeOK
<1>3. Written \in Nat /\ Written' = Written + 1
  BY <1>1, <1>2, WrittenIsNat DEF Written, Typed, TypeOK
<1>4. Head(flow) = yielded[Written + 1]
  BY <1>2 DEF Piped
<1>5. Piped'
  <2> SUFFICES ASSUME NEW k \in 1..Len(flow') PROVE flow'[k] = yielded[Written + 1 + k]
    BY <1>1, <1>3 DEF Piped
  <2>1. k + 1 \in 1..Len(flow) /\ Written + (k + 1) = Written + 1 + k
    BY <1>2, <1>3
  <2>2. flow[k + 1] = yielded[Written + (k + 1)]
    BY <2>1 DEF Piped
  <2>3. QED
    BY <1>2, <2>1, <2>2
<1>6. ASSUME IsJson
      PROVE  /\ out' \in Seq(Glyphs) /\ Len(out') = 2 * Written'
             /\ \A k \in 1..(2 * Written') : out'[k] = Glyph(k)
  <2> DEFINE chunk == JsonChunk(Head(flow), Written = 0)
  <2>1. out' = out \o chunk
    BY <1>6 DEF IsJson, WriteRow
  <2>2. /\ chunk \in Seq(Glyphs) /\ Len(chunk) = 2
        /\ chunk[1] = (IF Written = 0 THEN "[" ELSE ",") /\ chunk[2] = yielded[Written + 1]
    <3>1. Head(flow) \in Glyphs /\ "[" \in Glyphs /\ "," \in Glyphs
      BY <1>2 DEF Glyphs
    <3>2. CASE Written = 0
      <4>1. chunk = <<"[", Head(flow)>>
        BY <3>2 DEF JsonChunk
      <4> HIDE DEF chunk
      <4>2. QED
        <5>1. /\ chunk \in Seq(Glyphs) /\ Len(chunk) = 2
              /\ chunk[1] = "[" /\ chunk[2] = Head(flow)
          BY <3>1, <4>1, PairIs
        <5>2. QED
          BY <1>4, <3>2, <5>1
    <3>3. CASE Written # 0
      <4>1. chunk = <<",", Head(flow)>>
        BY <3>3 DEF JsonChunk
      <4> HIDE DEF chunk
      <4>2. QED
        <5>1. /\ chunk \in Seq(Glyphs) /\ Len(chunk) = 2
              /\ chunk[1] = "," /\ chunk[2] = Head(flow)
          BY <3>1, <4>1, PairIs
        <5>2. QED
          BY <1>4, <3>3, <5>1
    <3>4. QED
      BY <3>2, <3>3
  <2> HIDE DEF chunk
  <2>3. out \in Seq(Glyphs) /\ Len(out) = 2 * Written /\ \A k \in 1..(2 * Written) : out[k] = Glyph(k)
    BY <1>1, <1>6 DEF Spelled, Partial
  <2>4. /\ out' \in Seq(Glyphs) /\ Len(out') = 2 * Written + 2
        /\ \A k \in 1..(2 * Written + 2) :
             out'[k] = IF k <= 2 * Written THEN out[k] ELSE chunk[k - 2 * Written]
    <3>1. /\ out \o chunk \in Seq(Glyphs) /\ Len(out \o chunk) = Len(out) + Len(chunk)
          /\ \A k \in 1..(Len(out) + Len(chunk)) :
               (out \o chunk)[k] = IF k <= Len(out) THEN out[k] ELSE chunk[k - Len(out)]
      BY <2>2, <2>3, ConcatProperties
    <3>2. QED
      BY <2>1, <2>2, <2>3, <3>1
  <2>5. ASSUME NEW k \in 1..(2 * Written + 2) PROVE out'[k] = Glyph(k)
    <3>1. CASE k <= 2 * Written
      BY <1>3, <2>3, <2>4, <3>1
    <3>2. CASE k = 2 * Written + 1
      <4>1. k % 2 = 1 /\ k - 2 * Written = 1 /\ ~ (k <= 2 * Written)
        BY <1>3, <3>2
      <4>2. out'[k] = chunk[1]
        BY <2>4, <4>1
      <4>3. k = 1 <=> Written = 0
        BY <1>3, <3>2
      <4>4. QED
        <5>1. k % 2 # 0
          BY <4>1
        <5>2. CASE k = 1
          BY <2>2, <4>2, <4>3, <5>2 DEF Glyph
        <5>3. CASE k # 1
          BY <2>2, <4>2, <4>3, <5>1, <5>3 DEF Glyph
        <5>4. QED
          BY <5>2, <5>3
    <3>3. CASE k = 2 * Written + 2
      <4>1. k % 2 = 0 /\ k \div 2 = Written + 1 /\ k - 2 * Written = 2 /\ ~ (k <= 2 * Written) /\ k # 1
        BY <1>3, <3>3
      <4>2. out'[k] = chunk[2]
        BY <2>4, <4>1
      <4>3. QED
        BY <2>2, <4>1, <4>2 DEF Glyph
    <3>4. QED
      BY <1>3, <3>1, <3>2, <3>3
  <2>6. 2 * Written' = 2 * Written + 2
    BY <1>3
  <2>7. QED
    BY <2>4, <2>5, <2>6
<1>7. \A k : Glyph(k)' = Glyph(k)
  BY <1>1 DEF Glyph
<1>8. IsJson => Partial'
  BY <1>6, <1>7 DEF Partial
<1>9. QED
  BY <1>1, <1>5, <1>8 DEF Spelled, IsJson

(* The end of the text: all records are written, and the array is closed.  *)
LEMMA FlushSpelled ==
  ASSUME Typed, Piped, Spelled, Flush
  PROVE  Piped' /\ Spelled'
<1>1. /\ UNCHANGED <<reader, yielded, flow, gen>> /\ gen = "done" /\ flow = <<>>
      /\ file = "open" /\ file' = "ended" /\ out' = out \o FlushText
  BY DEF Flush
<1>2. Written = Len(yielded) /\ Len(yielded) \in Nat /\ yielded \in Seq(Ids)
  BY <1>1 DEF Written, Typed, TypeOK
<1>3. ASSUME IsJson PROVE out' = JsonText(yielded)
  <2>1. out \in Seq(Glyphs) /\ Len(out) = 2 * Written /\ \A k \in 1..(2 * Written) : out[k] = Glyph(k)
    BY <1>1, <1>3 DEF Spelled, Partial
  <2>2. CASE Written = 0
    <3>1. out = <<>> /\ yielded = <<>>
      <4>1. Len(out) = 0 /\ Len(yielded) = 0
        BY <1>2, <2>1, <2>2
      <4>2. QED
        BY <1>2, <2>1, <4>1, EmptySeq
    <3>2. FlushText = <<"[]">>
      BY <1>3, <2>2 DEF FlushText, IsJson
    <3>3. QED
      BY <1>1, <3>1, <3>2 DEF JsonText
  <2>3. CASE Written # 0
    <3>1. FlushText = <<"]">> /\ yielded # <<>>
      BY <1>2, <1>3, <2>3 DEF FlushText, IsJson
    <3>2. <<"]">> \in Seq(Glyphs) /\ Len(<<"]">>) = 1 /\ <<"]">>[1] = "]"
      BY DEF Glyphs
    <3> DEFINE n == 2 * Written + 1
    <3>3. /\ out' \in Seq(Glyphs) /\ Len(out') = n
          /\ \A k \in 1..n : out'[k] = IF k <= 2 * Written THEN out[k] ELSE <<"]">>[k - 2 * Written]
      BY <1>1, <2>1, <3>1, <3>2, ConcatProperties
    <3>4. JsonText(yielded) = [k \in 1..n |->
                                 CASE k = 1 -> "[" [] k = n -> "]"
                                   [] k % 2 = 0 -> yielded[k \div 2] [] OTHER -> ","]
      BY <1>2, <3>1 DEF JsonText
    <3>5. ASSUME NEW k \in 1..n PROVE out'[k] = JsonText(yielded)[k]
      <4>1. CASE k <= 2 * Written
        <5>1. out'[k] = Glyph(k) /\ k # n
          BY <1>2, <2>1, <3>3, <4>1
        <5>2. k = 1 => k % 2 # 0
          OBVIOUS
        <5>3. QED
          BY <3>4, <5>1, <5>2 DEF Glyph
      <4>2. CASE k = n
        <5>1. k - 2 * Written = 1 /\ ~ (k <= 2 * Written) /\ k # 1 /\ k % 2 = 1
          BY <1>2, <2>3, <4>2
        <5>2. out'[k] = "]"
          BY <3>2, <3>3, <5>1
        <5>3. QED
          <6>1. k # 1 /\ k % 2 # 0
            BY <5>1
          <6>2. JsonText(yielded)[k] = "]"
            BY <3>4, <4>2, <6>1
          <6>3. QED
            BY <5>2, <6>2
      <4>3. QED
        BY <1>2, <4>1, <4>2
    <3>6. out' = [k \in 1..n |-> out'[k]]
      BY <3>3, LenProperties
    <3>7. QED
      BY <3>4, <3>5, <3>6
  <2>4. QED
    BY <2>2, <2>3
<1>4. Piped'
  BY <1>1 DEF Piped
<1>5. IsJson => Whole'
  BY <1>1, <1>3 DEF Whole
<1>6. QED
  BY <1>1, <1>4, <1>5 DEF Spelled, IsJson

LEMMA StepSpelled == Typed /\ InOrder /\ Piped /\ Spelled /\ [Next]_vars => Piped' /\ Spelled'
<1> SUFFICES ASSUME Typed, InOrder, Piped, Spelled, [Next]_vars PROVE Piped' /\ Spelled'
  OBVIOUS
<1>1. ASSUME UNCHANGED <<reader, yielded, flow, out>>, gen = "done" => UNCHANGED gen,
             UNCHANGED file \/ file' = "failed" \/ (file = "ended" /\ file' = "closed")
      PROVE  Piped' /\ Spelled'
  <2>1. Written' = Written /\ (IsJson <=> IsJson') /\ \A k : Glyph(k)' = Glyph(k)
    BY <1>1 DEF Written, IsJson, Glyph
  <2>2. JsonText(yielded)' = JsonText(yielded)
    BY <1>1
  <2>3. Piped'
    BY <1>1, <2>1 DEF Piped
  <2>4. (Partial => Partial') /\ (Whole => Whole')
    BY <1>1, <2>1, <2>2 DEF Partial, Whole
  <2>5. Spelled'
    BY <1>1, <2>1, <2>4 DEF Spelled
  <2>6. QED
    BY <2>3, <2>5
<1>2. ASSUME NEW i \in Ids, Create(i) \/ Remove(i) PROVE Piped' /\ Spelled'
  BY <1>1, <1>2 DEF Create, Remove, Change, export
<1>3. ASSUME Generate PROVE Piped' /\ Spelled'
  <2>1. UNCHANGED <<file, reader, out>> /\ file = "open"
    BY <1>3 DEF Generate
  <2>2. CASE (CountRows \/ Fetch \/ Resume \/ Final) /\ UNCHANGED flow
    BY <1>1, <2>1, <2>2 DEF CountRows, Fetch, Resume, Final
  <2>3. CASE Yield /\ flow' = Append(flow, yielded'[Len(yielded')])
    BY <2>1, <2>3, YieldSpelled
  <2>4. QED
    BY <1>3, <2>2, <2>3 DEF Generate
<1>4. CASE WriteRow
  BY <1>4, WriteRowSpelled
<1>5. CASE Flush
  BY <1>5, FlushSpelled
<1>6. CASE Close \/ FailExport \/ FindPage \/ CountPage \/ RespondPage \/ UNCHANGED vars
  BY <1>1, <1>6 DEF Close, FailExport, FindPage, CountPage, RespondPage, export, vars
<1>7. QED
  BY <1>2, <1>3, <1>4, <1>5, <1>6 DEF Next, ReadStep

(* A text without its end has an even number of parts, a whole one an odd. *)
LEMMA TextNotWhole ==
  ASSUME NEW w \in Nat, NEW t \in Seq(Glyphs), Len(t) = 2 * w,
         NEW s \in Seq(Ids)
  PROVE  t # JsonText(s)
<1>1. Len(s) \in Nat
  OBVIOUS
<1>2. DOMAIN JsonText(s) = 1..(2 * Len(s) + 1)
  <2>1. CASE s = <<>>
    <3>1. Len(s) = 0 /\ JsonText(s) = <<"[]">>
      BY <2>1 DEF JsonText
    <3>2. DOMAIN <<"[]">> = 1..1
      OBVIOUS
    <3>3. QED
      BY <3>1, <3>2
  <2>2. CASE s # <<>>
    BY <2>2 DEF JsonText
  <2>3. QED
    BY <2>1, <2>2
<1>3. DOMAIN t = 1..(2 * w)
  BY LenProperties
<1>4. 1..(2 * w) # 1..(2 * Len(s) + 1)
  <2>1. CASE 2 * w < 2 * Len(s) + 1
    <3>1. 2 * Len(s) + 1 \in 1..(2 * Len(s) + 1) /\ 2 * Len(s) + 1 \notin 1..(2 * w)
      BY <1>1, <2>1
    <3>2. QED
      BY <3>1
  <2>2. CASE 2 * Len(s) + 1 < 2 * w
    <3>1. 2 * w \in 1..(2 * w) /\ 2 * w \notin 1..(2 * Len(s) + 1)
      BY <1>1, <2>2
    <3>2. QED
      BY <3>1
  <2>3. 2 * w # 2 * Len(s) + 1
    BY <1>1
  <2>4. QED
    BY <1>1, <2>1, <2>2, <2>3
<1>5. QED
  BY <1>2, <1>3, <1>4

(* A JSON export that is closed is one well-formed array of all its rows;  *)
(* a text that reads as an array has all of them, also of an export that   *)
(* goes on or failed, at whatever row, report or byte.                     *)
THEOREM JsonIsWellFormed == Spec => []WellFormedJson
<1>1. Init => Typed /\ InOrder /\ Covered /\ Piped /\ Spelled
  BY InitTyped, InitInOrder, InitSpelled
<1>2. Typed /\ InOrder /\ Covered /\ Piped /\ Spelled /\ [Next]_vars
        => (Typed /\ InOrder /\ Covered /\ Piped /\ Spelled)'
  BY StepTyped, StepInOrder, StepSpelled
<1>3. Typed /\ Spelled => WellFormedJson
  <2> SUFFICES ASSUME Typed, Spelled, IsJson PROVE WellFormedJson
    BY DEF WellFormedJson, IsJson
  <2>1. yielded \in Seq(Ids) /\ Len(yielded) \in Nat
    BY DEF Typed, TypeOK
  <2>2. ASSUME NEW k \in 0..Len(yielded), out = JsonText(SubSeq(yielded, 1, k)) PROVE ~ Partial
    <3>1. \A i \in 1..k : yielded[i] \in Ids
      BY <2>1
    <3>2. SubSeq(yielded, 1, k) \in Seq(Ids)
      BY <2>1, <3>1, SubSeqProperties
    <3>3. Written \in Nat
      BY WrittenIsNat
    <3>4. QED
      BY <2>2, <3>2, <3>3, TextNotWhole DEF Partial
  <2>3. QED
    BY <2>2 DEF WellFormedJson, Spelled, Whole
<1>4. QED
  BY <1>1, <1>2, <1>3, PTL DEF Spec

-----------------------------------------------------------------------------
(* The walk over the pages                                                 *)

(* How many rows of the list come before a row: the latest are the first.  *)
Ahead(i, S) == {j \in S : j > i}

Rank(i) == Cardinality(Ahead(i, In))

LEMMA RankIsNat == \A i \in Ids : Rank(i) \in Nat
BY InIsFinite, FS_Subset, FS_CardinalityType DEF Rank, Ahead

LEMMA LatestByRank ==
  \A skip, take : Latest(In, skip, take) = {i \in In : Rank(i) \in skip..(skip + take - 1)}
BY DEF Latest, Rank, Ahead

LEMMA OffsetIs ==
  ASSUME Typed, page > 0
  PROVE  Offset \in Nat /\ Offset + PageSize = page * PageSize
<1>1. page \in Nat /\ PageSize \in Nat
  BY PageSizeIs DEF Typed, TypeOK
<1> HIDE DEF PageSize
<1>2. \A p, s \in Nat : p > 0 => (p - 1) * s \in Nat /\ (p - 1) * s + s = p * s
  OBVIOUS
<1>3. QED
  BY <1>1, <1>2 DEF Offset

(* The rows of a list are within its pages.                                *)
LEMMA PagesCover ==
  ASSUME NEW n \in Nat, NEW s \in Nat \ {0}, NEW p \in Nat, ~ (p < (n + s - 1) \div s)
  PROVE  n <= p * s
<1> DEFINE q == (n + s - 1) \div s
           r == (n + s - 1) % s
<1>1. q \in Nat /\ r \in 0..(s - 1) /\ n + s - 1 = s * q + r
  OBVIOUS
<1> HIDE DEF q, r
<1>2. n <= s * q
  BY <1>1
<1>3. q <= p
  BY <1>1 DEF q
<1>4. \A a, b, c \in Nat : a <= b => c * a <= b * c
  OBVIOUS
<1>5. s * q <= p * s
  BY <1>1, <1>3, <1>4
<1>6. s * q \in Nat /\ p * s \in Nat
  BY <1>1
<1>7. QED
  BY <1>2, <1>5, <1>6

(* Without a creation, what is shown is before the page that is asked for, *)
(* and what is found is not after it: removals only move rows forward.     *)
NoneTwice ==
  ~ IsExport /\ "create" \notin upset =>
    \A i \in Ids : /\ shown[i] <= 1
                   /\ page > 0 /\ shown[i] = 1 => Rank(i) < Offset /\ i \notin found
                   /\ page > 0 /\ i \in found => Rank(i) < Offset + PageSize

(* With creations between pages only, a steady row is shown, or not before *)
(* the page that is asked for, and in its answer unless it comes after it. *)
NoneMissed ==
  ~ IsExport /\ upset \subseteq {"create"} =>
    /\ \A i \in steady :
         \/ shown[i] >= 1
         \/ /\ page > 0 /\ Offset <= Rank(i)
            /\ found # {0} => i \in found \/ Offset + PageSize <= Rank(i)
    /\ total # -1 => total = Cardinality(In)

LEMMA InitWalked == Init => NoneTwice /\ NoneMissed
<1> SUFFICES ASSUME Init PROVE NoneTwice /\ NoneMissed
  OBVIOUS
<1>1. Typed
  BY InitTyped
<1>2. page = 1 /\ found = {0} /\ total = -1 /\ shown = [i \in Ids |-> 0] /\ steady \subseteq Ids
  BY DEF Init
<1>3. Offset = 0
  <2>1. PageSize \in Nat /\ page - 1 = 0
    BY <1>1, <1>2, PageSizeIs
  <2>2. \A s \in Nat : 0 * s = 0
    OBVIOUS
  <2>3. QED
    BY <2>1, <2>2 DEF Offset
<1>4. \A i \in Ids : shown[i] = 0 /\ i \notin found /\ Offset <= Rank(i)
  BY <1>2, <1>3, RankIsNat
<1>5. QED
  BY <1>2, <1>4 DEF NoneTwice, NoneMissed

(* Fewer rows are ahead of a row when some are removed.                    *)
LEMMA RanksFall ==
  ASSUME In' \subseteq In, NEW i \in Ids PROVE Rank(i)' <= Rank(i)
<1>1. IsFiniteSet(Ahead(i, In)) /\ Ahead(i, In') \subseteq Ahead(i, In)
  BY InIsFinite, FS_Subset DEF Ahead
<1>2. QED
  BY <1>1, FS_Subset DEF Rank

LEMMA RanksRise ==
  ASSUME In \subseteq In', In' \subseteq Ids, NEW i \in Ids PROVE Rank(i) <= Rank(i)' /\ Rank(i)' \in Nat
<1>1. IsFiniteSet(Ahead(i, In')) /\ Ahead(i, In) \subseteq Ahead(i, In')
  BY InIsFinite, FS_Subset DEF Ahead
<1>2. QED
  BY <1>1, FS_Subset, FS_CardinalityType DEF Rank

LEMMA CreateWalked ==
  ASSUME Typed, NoneTwice, NoneMissed, NEW i \in Ids, Create(i)
  PROVE  NoneTwice' /\ NoneMissed'
<1>1. /\ UNCHANGED <<reader, page, found, total, shown, Offset, PageSize, IsExport>>
      /\ steady' \subseteq steady /\ "create" \in upset'
  BY DEF Create, Change, walk, Offset, PageSize, IsExport
<1>2. (found = {0} /\ total = -1) \/ "race" \in upset'
  BY DEF Create, Typed, TypeOK
<1>3. NoneTwice'
  BY <1>1 DEF NoneTwice
<1>4. NoneMissed'
  <2> SUFFICES ASSUME ~ IsExport, upset' \subseteq {"create"}
               PROVE  /\ \A j \in steady' : \/ shown[j] >= 1
                                            \/ page > 0 /\ Offset <= Rank(j)'
                      /\ found = {0} /\ total = -1
    BY <1>1 DEF NoneMissed
  <2>1. upset \subseteq {"create"} /\ found = {0} /\ total = -1
    BY <1>2 DEF Create
  <2>2. In \subseteq In' /\ In' \subseteq Ids
    <3>1. rows' = [rows EXCEPT ![i] = "in"] /\ rows \in [Ids -> {"absent", "in", "out"}]
      BY DEF Create, Change, Typed, TypeOK
    <3>2. QED
      BY <3>1 DEF In
  <2>3. ASSUME NEW j \in steady', ~ (shown[j] >= 1) PROVE page > 0 /\ Offset <= Rank(j)'
    <3>1. j \in Ids /\ page > 0 /\ Offset <= Rank(j)
      BY <1>1, <2>1, <2>3 DEF NoneMissed, Typed, TypeOK
    <3>2. Rank(j) <= Rank(j)' /\ Rank(j)' \in Nat /\ Rank(j) \in Nat /\ Offset \in Nat
      BY <2>2, <3>1, RanksRise, RankIsNat, OffsetIs
    <3>3. QED
      BY <3>1, <3>2
  <2>4. QED
    BY <2>1, <2>3
<1>5. QED
  BY <1>3, <1>4

LEMMA RemoveWalked ==
  ASSUME Typed, Typed', NoneTwice, NoneMissed, NEW i \in Ids, Remove(i)
  PROVE  NoneTwice' /\ NoneMissed'
<1>1. /\ UNCHANGED <<reader, page, found, total, shown, Offset, PageSize, IsExport>>
      /\ upset' = upset \union {"remove"}
  BY DEF Remove, Change, walk, Offset, PageSize, IsExport
<1>2. In' \subseteq In
  <2>1. PICK how \in {"out", "absent"} : rows' = [rows EXCEPT ![i] = how]
    BY DEF Remove, Change
  <2>2. QED
    BY <2>1 DEF In, Typed, TypeOK
<1>3. NoneTwice'
  <2> SUFFICES ASSUME ~ IsExport, "create" \notin upset, NEW j \in Ids
               PROVE  /\ shown[j] <= 1
                      /\ page > 0 /\ shown[j] = 1 => Rank(j)' < Offset /\ j \notin found
                      /\ page > 0 /\ j \in found => Rank(j)' < Offset + PageSize
    BY <1>1 DEF NoneTwice
  <2>1. Rank(j)' <= Rank(j) /\ Rank(j) \in Nat
    BY <1>2, RanksFall, RankIsNat
  <2>2. Rank(j)' \in Nat
    <3>1. IsFiniteSet(Ahead(j, In'))
      BY <1>2, InIsFinite, FS_Subset DEF Ahead
    <3>2. QED
      BY <3>1, FS_CardinalityType DEF Rank
  <2>3. PageSize \in Nat /\ (page > 0 => Offset \in Nat)
    BY PageSizeIs, OffsetIs
  <2>4. /\ shown[j] <= 1
        /\ page > 0 /\ shown[j] = 1 => Rank(j) < Offset /\ j \notin found
        /\ page > 0 /\ j \in found => Rank(j) < Offset + PageSize
    BY DEF NoneTwice
  <2>5. QED
    BY <2>1, <2>2, <2>3, <2>4
<1>4. NoneMissed'
  BY <1>1 DEF NoneMissed
<1>5. QED
  BY <1>3, <1>4

LEMMA FindPageWalked ==
  ASSUME Typed, steady \subseteq In, NoneTwice, NoneMissed, FindPage
  PROVE  NoneTwice' /\ NoneMissed'
<1>1. /\ UNCHANGED <<reader, page, total, shown, Offset, PageSize, IsExport, In, steady, upset>>
      /\ page > 0
  BY DEF FindPage, Walking, table, export, Offset, PageSize, IsExport, In
<1>2. \A j \in Ids : Rank(j)' = Rank(j)
  BY <1>1 DEF Rank
<1>3. found' = {j \in In : Rank(j) \in Offset..(Offset + PageSize - 1)}
  BY LatestByRank DEF FindPage
<1>4. Offset \in Nat /\ PageSize \in Nat
  BY <1>1, OffsetIs, PageSizeIs
<1>5. ASSUME NEW j \in In PROVE j \in found' <=> Offset <= Rank(j) /\ Rank(j) < Offset + PageSize
  <2>1. Rank(j) \in Nat
    BY InIsFinite, RankIsNat
  <2>2. QED
    BY <1>3, <1>4, <2>1
<1>6. found' \subseteq In
  BY <1>3
<1>7. NoneTwice'
  <2> SUFFICES ASSUME ~ IsExport, "create" \notin upset, NEW j \in Ids
               PROVE  /\ shown[j] <= 1
                      /\ shown[j] = 1 => Rank(j) < Offset /\ j \notin found'
                      /\ j \in found' => Rank(j) < Offset + PageSize
    BY <1>1, <1>2 DEF NoneTwice
  <2>1. shown[j] <= 1 /\ (shown[j] = 1 => Rank(j) < Offset)
    BY <1>1 DEF NoneTwice
  <2>2. Rank(j) \in Nat
    BY RankIsNat
  <2>3. Rank(j) < Offset => j \notin found'
    BY <1>4, <1>5, <1>6, <2>2
  <2>4. QED
    BY <1>5, <1>6, <2>1, <2>3
<1>8. NoneMissed'
  <2> SUFFICES ASSUME ~ IsExport, upset \subseteq {"create"}
               PROVE  /\ \A j \in steady :
                           \/ shown[j] >= 1
                           \/ Offset <= Rank(j) /\ (j \in found' \/ Offset + PageSize <= Rank(j))
                      /\ total # -1 => total = Cardinality(In)
    <3>1. steady \subseteq Ids
      BY DEF Typed, TypeOK
    <3>2. QED
      BY <1>1, <1>2, <3>1 DEF NoneMissed
  <2>1. ASSUME NEW j \in steady, ~ (shown[j] >= 1)
        PROVE  Offset <= Rank(j) /\ (j \in found' \/ Offset + PageSize <= Rank(j))
    <3>1. j \in In /\ Offset <= Rank(j)
      BY <1>1, <2>1 DEF NoneMissed
    <3>2. Rank(j) \in Nat
      BY <3>1, InIsFinite, RankIsNat
    <3>3. QED
      BY <1>4, <1>5, <3>1, <3>2
  <2>2. QED
    BY <2>1 DEF NoneMissed
<1>9. QED
  BY <1>7, <1>8

LEMMA RespondPageWalked ==
  ASSUME Typed, steady \subseteq In, NoneTwice, NoneMissed, RespondPage
  PROVE  NoneTwice' /\ NoneMissed'
<1>1. /\ UNCHANGED <<reader, PageSize, IsExport, In, steady, upset>>
      /\ page > 0 /\ found # {0} /\ total # -1 /\ found' = {0} /\ total' = -1
      /\ page' = IF page < TotalPages THEN page + 1 ELSE 0
  BY DEF RespondPage, Walking, table, export, PageSize, IsExport, In
<1>2. \A j \in Ids : /\ Rank(j)' = Rank(j) /\ Rank(j) \in Nat /\ j \notin found' /\ shown[j] \in Nat
                     /\ shown'[j] = shown[j] + (IF j \in found THEN 1 ELSE 0)
  BY <1>1, RankIsNat DEF Rank, RespondPage, Typed, TypeOK
<1>3. /\ Offset \in Nat /\ PageSize \in Nat \ {0} /\ page \in Nat
      /\ Offset + PageSize = page * PageSize
  BY <1>1, OffsetIs, PageSizeIs DEF Typed, TypeOK
<1>4. page' > 0 => page' = page + 1 /\ Offset' = Offset + PageSize
  <2> SUFFICES ASSUME page' > 0 PROVE page' = page + 1 /\ Offset' = Offset + PageSize
    OBVIOUS
  <2>1. page' = page + 1 /\ page' - 1 = page
    BY <1>1, <1>3
  <2>2. Offset' = page * PageSize
    BY <1>1, <2>1 DEF Offset
  <2>3. QED
    BY <1>3, <2>1, <2>2
<1>5. NoneTwice'
  <2> SUFFICES ASSUME ~ IsExport, "create" \notin upset, NEW j \in Ids
               PROVE  /\ shown'[j] <= 1
                      /\ page' > 0 /\ shown'[j] = 1 => Rank(j) < Offset'
    BY <1>1, <1>2 DEF NoneTwice
  <2>1. /\ shown[j] <= 1
        /\ shown[j] = 1 => Rank(j) < Offset /\ j \notin found
        /\ j \in found => Rank(j) < Offset + PageSize
    BY <1>1 DEF NoneTwice
  <2>2. shown'[j] <= 1
    BY <1>2, <2>1
  <2>3. shown'[j] = 1 => Rank(j) < Offset + PageSize
    BY <1>2, <1>3, <2>1
  <2>4. QED
    BY <1>4, <2>2, <2>3
<1>6. NoneMissed'
  <2> SUFFICES ASSUME ~ IsExport, upset \subseteq {"create"}, NEW j \in steady
               PROVE  shown'[j] >= 1 \/ (page' > 0 /\ Offset' <= Rank(j))
    <3>1. steady \subseteq Ids
      BY DEF Typed, TypeOK
    <3>2. QED
      BY <1>1, <1>2, <3>1 DEF NoneMissed
  <2>1. j \in In /\ j \in Ids /\ total = Cardinality(In)
    BY <1>1, InIsFinite DEF NoneMissed
  <2>2. CASE shown[j] >= 1 \/ j \in found
    BY <1>2, <2>1, <2>2
  <2>3. CASE ~ (shown[j] >= 1) /\ j \notin found
    <3>1. Offset + PageSize <= Rank(j)
      BY <1>1, <2>3 DEF NoneMissed
    <3>2. Rank(j) < Cardinality(In)
      <4>1. IsFiniteSet(In) /\ Ahead(j, In) \subseteq In /\ j \notin Ahead(j, In)
        BY <2>1, InIsFinite DEF Ahead
      <4>2. Rank(j) <= Cardinality(In) /\ Rank(j) # Cardinality(In)
        BY <2>1, <4>1, FS_Subset DEF Rank
      <4>3. Rank(j) \in Nat /\ Cardinality(In) \in Nat
        BY <1>2, <2>1, <4>1, FS_CardinalityType
      <4>4. QED
        BY <4>2, <4>3
    <3>3. page < TotalPages
      <4> SUFFICES ASSUME ~ (page < TotalPages) PROVE FALSE
        OBVIOUS
      <4>1. total \in Nat
        BY <2>1, InIsFinite, FS_CardinalityType
      <4>2. ~ (page < (total + PageSize - 1) \div PageSize)
        BY DEF TotalPages
      <4> HIDE DEF PageSize
      <4>3. total <= page * PageSize
        BY <1>3, <4>1, <4>2, PagesCover
      <4>4. QED
        BY <1>2, <1>3, <2>1, <3>1, <3>2, <4>1, <4>3
    <3>4. page' > 0
      BY <1>1, <1>3, <3>3
    <3>5. QED
      BY <1>4, <3>1, <3>4
  <2>4. QED
    BY <2>2, <2>3
<1>7. QED
  BY <1>5, <1>6

LEMMA StepWalked ==
  Typed /\ Typed' /\ InOrder /\ NoneTwice /\ NoneMissed /\ [Next]_vars => NoneTwice' /\ NoneMissed'
<1> SUFFICES ASSUME Typed, Typed', InOrder, NoneTwice, NoneMissed, [Next]_vars
             PROVE  NoneTwice' /\ NoneMissed'
  OBVIOUS
<1>1. steady \subseteq In
  BY DEF InOrder
<1>2. CASE \E i \in Ids : Create(i) \/ Remove(i)
  BY <1>2, CreateWalked, RemoveWalked
<1>3. CASE FindPage
  BY <1>1, <1>3, FindPageWalked
<1>4. CASE RespondPage
  BY <1>1, <1>4, RespondPageWalked
<1>5. CASE Generate \/ WriteRow \/ Flush \/ Close \/ FailExport
  <2>1. IsExport /\ UNCHANGED reader
    BY <1>5 DEF Generate, WriteRow, Flush, Close, FailExport
  <2>2. IsExport'
    BY <2>1 DEF IsExport
  <2>3. QED
    BY <2>2 DEF NoneTwice, NoneMissed
<1>6. CASE CountPage \/ UNCHANGED vars
  <2>1. UNCHANGED <<rows, steady, reader, page, found, shown, upset>>
    BY <1>6 DEF CountPage, table, export, vars, walk
  <2>2. UNCHANGED <<In, Offset, PageSize, IsExport>>
    BY <2>1 DEF In, Offset, PageSize, IsExport
  <2>3. \A j : Rank(j)' = Rank(j)
    BY <2>2 DEF Rank
  <2>4. total' = total \/ total' = Cardinality(In)
    BY <1>6 DEF CountPage, vars, walk
  <2>5. NoneTwice'
    BY <2>1, <2>2, <2>3 DEF NoneTwice
  <2>6. NoneMissed'
    BY <2>1, <2>2, <2>3, <2>4 DEF NoneMissed
  <2>7. QED
    BY <2>5, <2>6
<1>7. QED
  BY <1>2, <1>3, <1>4, <1>5, <1>6 DEF Next, ReadStep

(* A walk over the pages of a list shows each row once: none is missed if  *)
(* none is removed and none created between the two queries of a page, and *)
(* none comes twice if none is created; for every table and page size.     *)
THEOREM WalkIsSound == Spec => []WalkSound
<1>1. Init => Typed /\ InOrder /\ Covered /\ NoneTwice /\ NoneMissed
  BY InitTyped, InitInOrder, InitWalked
<1>2. Typed /\ InOrder /\ Covered /\ NoneTwice /\ NoneMissed /\ [Next]_vars
        => (Typed /\ InOrder /\ Covered /\ NoneTwice /\ NoneMissed)'
  BY StepTyped, StepInOrder, StepWalked
<1>3. NoneTwice /\ NoneMissed => WalkSound
  BY DEF NoneTwice, NoneMissed, WalkSound, WalkMissesNone, WalkRepeatsNone
<1>4. QED
  BY <1>1, <1>2, <1>3, PTL DEF Spec

=============================================================================
