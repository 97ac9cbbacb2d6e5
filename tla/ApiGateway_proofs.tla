------------------------- MODULE ApiGateway_proofs -------------------------
(***************************************************************************)
(* Proofs about ApiGateway: its type invariant, that the limits are kept   *)
(* in any span and refuse for a cause, that the burst limiter refuses only *)
(* after delays and repeated commands, and that a revoked key stays out.   *)
(* Then about RunawayBreaker, which one of its gates asks.                 *)
(***************************************************************************)
EXTENDS ApiGateway, RunawayBreaker, FiniteSetTheorems, TLAPS

USE WindowsAssumption, LimitAssumption, KeysAssumption, ScenariosAssumption

-----------------------------------------------------------------------------
(* A set L of what a limiter counted in one bucket                         *)

InSpan(L, x, y) == {e \in L : x <= e.at /\ e.at < y}
Passes(L) == {e \in L : e.told = "passed"}
NotRefused(L) == {e \in L : e.told # "refused"}

Least(m, n) == IF m <= n THEN m ELSE n

(* What a counter s says of L: it counted what is of its window, no more   *)
(* than the limit of it passed, as many as the limit were not refused; and *)
(* no more than the limit passed in any span from less than a window       *)
(* before it until it began.                                               *)
WindowCounted(L, s, span, max) ==
  LET start == s.until - span
  IN  /\ \A e \in L : e.at < s.until /\ (e.at >= start => e.n <= s.n)
      /\ Cardinality(InSpan(L, start, s.until)) = s.n
      /\ Cardinality(InSpan(Passes(L), start, s.until)) <= max
      /\ Cardinality(InSpan(NotRefused(L), start, s.until)) >= Least(s.n, max)
      /\ \A x \in Int : x > start - span => Cardinality(InSpan(Passes(L), x, start)) <= max

SpansBounded(L, span, max) ==
  \A x \in Int : Cardinality(InSpan(Passes(L), x, x + span)) <= 2 * max

Caused(L, span, max) ==
  \A e \in L : e.told = "refused" =>
    Cardinality(InSpan(NotRefused(L), e.at - span + 1, e.at + 1)) >= max

CounterType == [n : Nat \ {0}, until : Int]

LEMMA SpanFinite ==
  ASSUME NEW L, IsFiniteSet(L), NEW x, NEW y
  PROVE  /\ IsFiniteSet(InSpan(L, x, y)) /\ Cardinality(InSpan(L, x, y)) \in Nat
         /\ \A S : S \subseteq InSpan(L, x, y) =>
              Cardinality(S) \in Nat /\ Cardinality(S) <= Cardinality(InSpan(L, x, y))
<1>1. IsFiniteSet(InSpan(L, x, y))
  BY FS_Subset DEF InSpan
<1>2. QED
  BY <1>1, FS_Subset, FS_CardinalityType

LEMMA PartsFinite ==
  ASSUME NEW L, IsFiniteSet(L)
  PROVE  IsFiniteSet(Passes(L)) /\ IsFiniteSet(NotRefused(L))
BY FS_Subset DEF Passes, NotRefused

(* One more entry, in the span or outside it.                              *)
LEMMA SpanAdd ==
  ASSUME NEW L, IsFiniteSet(L), NEW e, e \notin L, NEW M, M = L \union {e}, NEW x, NEW y
  PROVE  /\ ~ (x <= e.at /\ e.at < y) => InSpan(M, x, y) = InSpan(L, x, y)
         /\ x <= e.at /\ e.at < y => Cardinality(InSpan(M, x, y)) = Cardinality(InSpan(L, x, y)) + 1
<1>1. ~ (x <= e.at /\ e.at < y) => InSpan(M, x, y) = InSpan(L, x, y)
  BY DEF InSpan
<1>2. x <= e.at /\ e.at < y => InSpan(M, x, y) = InSpan(L, x, y) \union {e}
  BY DEF InSpan
<1>3. e \notin InSpan(L, x, y)
  BY DEF InSpan
<1>4. IsFiniteSet(InSpan(L, x, y))
  BY SpanFinite
<1>5. QED
  BY <1>1, <1>2, <1>3, <1>4, FS_AddElement

(* One more entry in the parts.                                            *)
LEMMA PartsAdd ==
  ASSUME NEW L, IsFiniteSet(L), NEW e, e \notin L, NEW M, M = L \union {e}
  PROVE  /\ e \notin Passes(L) /\ e \notin NotRefused(L)
         /\ e.told = "passed" => Passes(M) = Passes(L) \union {e}
         /\ e.told # "passed" => Passes(M) = Passes(L)
         /\ e.told = "refused" => NotRefused(M) = NotRefused(L)
         /\ e.told # "refused" => NotRefused(M) = NotRefused(L) \union {e}
         /\ \A x, y : ~ (x <= e.at /\ e.at < y) =>
              /\ InSpan(Passes(M), x, y) = InSpan(Passes(L), x, y)
              /\ InSpan(NotRefused(M), x, y) = InSpan(NotRefused(L), x, y)
<1>1. e \notin Passes(L) /\ e \notin NotRefused(L)
  BY DEF Passes, NotRefused
<1>2. /\ e.told = "passed" => Passes(M) = Passes(L) \union {e}
      /\ e.told # "passed" => Passes(M) = Passes(L)
  BY DEF Passes
<1>3. /\ e.told = "refused" => NotRefused(M) = NotRefused(L)
      /\ e.told # "refused" => NotRefused(M) = NotRefused(L) \union {e}
  BY DEF NotRefused
<1>4. ASSUME NEW x, NEW y, ~ (x <= e.at /\ e.at < y)
      PROVE  InSpan(Passes(M), x, y) = InSpan(Passes(L), x, y)
  BY <1>2, <1>4 DEF InSpan
<1>5. ASSUME NEW x, NEW y, ~ (x <= e.at /\ e.at < y)
      PROVE  InSpan(NotRefused(M), x, y) = InSpan(NotRefused(L), x, y)
  BY <1>3, <1>5 DEF InSpan
<1>6. QED
  BY <1>1, <1>2, <1>3, <1>4, <1>5

(* A span that is covered by two has no more than these.                   *)
LEMMA SpanSplit ==
  ASSUME NEW P, IsFiniteSet(P), \A e \in P : e.at \in Int, NEW x \in Int, NEW y \in Int, NEW z \in Int, NEW w \in Int,
         w <= z \/ (\A e \in P : e.at < z)
  PROVE  Cardinality(InSpan(P, x, w)) <= Cardinality(InSpan(P, x, y)) + Cardinality(InSpan(P, y, z))
<1> DEFINE A == InSpan(P, x, y)
           B == InSpan(P, y, z)
<1>1. InSpan(P, x, w) \subseteq A \union B
  BY DEF InSpan
<1>2. IsFiniteSet(A) /\ IsFiniteSet(B) /\ Cardinality(A) \in Nat /\ Cardinality(B) \in Nat
  BY SpanFinite
<1> HIDE DEF A, B
<1>3. /\ IsFiniteSet(A \union B) /\ IsFiniteSet(A \intersect B)
      /\ Cardinality(A \union B) = Cardinality(A) + Cardinality(B) - Cardinality(A \intersect B)
  BY <1>2, FS_Union, FS_Subset
<1>4. Cardinality(A \intersect B) \in Nat /\ Cardinality(A \union B) \in Nat
  BY <1>3, FS_CardinalityType
<1>5. Cardinality(InSpan(P, x, w)) <= Cardinality(A \union B) /\ Cardinality(InSpan(P, x, w)) \in Nat
  BY <1>1, <1>3, FS_Subset, FS_CardinalityType
<1>6. Cardinality(InSpan(P, x, w)) <= Cardinality(A) + Cardinality(B)
  BY <1>2, <1>3, <1>4, <1>5
<1>7. QED
  BY <1>6 DEF A, B

(* What was caused stays so, and a refusal over the limit is.              *)
LEMMA CausedAdd ==
  ASSUME NEW L, IsFiniteSet(L), NEW e, NEW M, M = L \union {e}, NEW span \in Nat, NEW max \in Nat,
         \A f \in M : f.at \in Int,
         Caused(L, span, max),
         e.told = "refused" => Cardinality(InSpan(NotRefused(M), e.at - span + 1, e.at + 1)) >= max
  PROVE  Caused(M, span, max)
<1> SUFFICES ASSUME NEW f \in L, f.told = "refused"
             PROVE  Cardinality(InSpan(NotRefused(M), f.at - span + 1, f.at + 1)) >= max
  BY DEF Caused
<1> DEFINE S == InSpan(NotRefused(L), f.at - span + 1, f.at + 1)
           T == InSpan(NotRefused(M), f.at - span + 1, f.at + 1)
<1>1. S \subseteq T
  BY DEF InSpan, NotRefused
<1>2. IsFiniteSet(M)
  BY FS_AddElement
<1>3. IsFiniteSet(NotRefused(M))
  BY <1>2, PartsFinite
<1>4. Cardinality(S) <= Cardinality(T) /\ Cardinality(T) \in Nat /\ Cardinality(S) \in Nat
  BY <1>1, <1>3, SpanFinite
<1>5. Cardinality(S) >= max
  BY DEF Caused
<1>6. QED
  BY <1>4, <1>5

(* A counter goes on: one more in its window.                              *)
LEMMA CountGoesOn ==
  ASSUME NEW span \in Nat \ {0}, NEW max \in Nat, NEW time \in Nat,
         NEW L \in SUBSET Entries, IsFiniteSet(L), \A f \in L : f.at <= time,
         NEW s \in CounterType, WindowCounted(L, s, span, max), time < s.until, s.until <= time + span,
         SpansBounded(L, span, max), Caused(L, span, max),
         NEW c \in CounterType, c.n = s.n + 1, c.until = s.until,
         NEW e \in Entries, e.at = time, e.n = c.n,
         e.told = "refused" => c.n > max, e.told = "passed" => c.n <= max,
         NEW M, M = L \union {e}
  PROVE  WindowCounted(M, c, span, max) /\ SpansBounded(M, span, max) /\ Caused(M, span, max)
<1>1. s.n \in Nat /\ s.until \in Int /\ c.n \in Nat /\ \A f \in M : f.at \in Nat /\ f.n \in Nat
  BY DEF CounterType, Entries
<1>2. PICK start \in Int : start = s.until - span /\ start <= time
  BY <1>1
<1>3. e \notin L
  BY <1>1, <1>2 DEF WindowCounted
<1>4. IsFiniteSet(M) /\ IsFiniteSet(Passes(L)) /\ IsFiniteSet(NotRefused(L))
  BY PartsFinite, FS_AddElement
<1>5. IsFiniteSet(Passes(M)) /\ IsFiniteSet(NotRefused(M))
  BY <1>4, PartsFinite
<1>6. Cardinality(InSpan(M, start, s.until)) = s.n + 1
  <2>1. Cardinality(InSpan(L, start, s.until)) = s.n
    BY <1>2 DEF WindowCounted
  <2>2. QED
    BY <2>1, <1>2, <1>3, SpanAdd
<1>7. /\ e.told = "passed" => Passes(M) = Passes(L) \union {e} /\ e \notin Passes(L)
      /\ e.told # "passed" => Passes(M) = Passes(L)
      /\ e.told # "refused" => NotRefused(M) = NotRefused(L) \union {e} /\ e \notin NotRefused(L)
      /\ e.told = "refused" => NotRefused(M) = NotRefused(L)
  BY <1>3, PartsAdd
<1>8. Cardinality(InSpan(Passes(M), start, s.until)) <= max
  <2>1. CASE e.told = "passed"
    <3>1. InSpan(Passes(M), start, s.until) \subseteq InSpan(M, start, s.until)
      BY DEF InSpan, Passes
    <3>2. /\ Cardinality(InSpan(Passes(M), start, s.until)) \in Nat
          /\ Cardinality(InSpan(Passes(M), start, s.until)) <= Cardinality(InSpan(M, start, s.until))
      BY <3>1, <1>4, SpanFinite
    <3>3. QED
      BY <2>1, <3>2, <1>1, <1>6
  <2>2. CASE e.told # "passed"
    BY <2>2, <1>2, <1>7 DEF WindowCounted
  <2>3. QED
    BY <2>1, <2>2
<1>9. Cardinality(InSpan(NotRefused(M), start, s.until)) >= Least(c.n, max)
  <2>1. Cardinality(InSpan(NotRefused(L), start, s.until)) >= Least(s.n, max)
    BY <1>2 DEF WindowCounted
  <2>2. CASE e.told = "refused"
    <3>1. Least(c.n, max) = Least(s.n, max)
      BY <2>2, <1>1 DEF Least
    <3>2. QED
      BY <2>1, <2>2, <3>1, <1>7
  <2>3. CASE e.told # "refused"
    <3>1. Cardinality(InSpan(NotRefused(M), start, s.until)) = Cardinality(InSpan(NotRefused(L), start, s.until)) + 1
      <4>1. NotRefused(M) = NotRefused(L) \union {e} /\ e \notin NotRefused(L)
        BY <2>3, <1>7
      <4>2. start <= e.at /\ e.at < s.until /\ IsFiniteSet(NotRefused(L))
        BY <1>2, <1>4
      <4>3. PICK A, B : A = NotRefused(L) /\ B = NotRefused(M)
        OBVIOUS
      <4>4. IsFiniteSet(A) /\ B = A \union {e} /\ e \notin A
        BY <4>1, <4>2, <4>3, Zenon
      <4>5. Cardinality(InSpan(B, start, s.until)) = Cardinality(InSpan(A, start, s.until)) + 1
        BY <4>2, <4>4, SpanAdd
      <4>6. QED
        BY <4>3, <4>5, Zenon
    <3>2. Cardinality(InSpan(NotRefused(L), start, s.until)) \in Nat
      BY <1>4, SpanFinite
    <3>3. Least(s.n, max) + 1 >= Least(c.n, max) /\ Least(s.n, max) \in Nat /\ Least(c.n, max) \in Nat
      BY <1>1 DEF Least
    <3>4. QED
      BY <2>1, <3>1, <3>2, <3>3
  <2>4. QED
    BY <2>2, <2>3
<1>10. \A x \in Int : x > start - span => Cardinality(InSpan(Passes(M), x, start)) <= max
  <2>1. \A x \in Int : ~ (x <= e.at /\ e.at < start)
    BY <1>2
  <2>2. \A x \in Int : InSpan(Passes(M), x, start) = InSpan(Passes(L), x, start)
    BY <2>1, <1>3, PartsAdd
  <2>3. QED
    BY <2>2, <1>2 DEF WindowCounted
<1>11. WindowCounted(M, c, span, max)
  <2>1. \A f \in M : f.at < c.until /\ (f.at >= start => f.n <= c.n)
    BY <1>1, <1>2 DEF WindowCounted
  <2>2. QED
    BY <2>1, <1>2, <1>6, <1>8, <1>9, <1>10 DEF WindowCounted
<1>12. SpansBounded(M, span, max)
  <2> SUFFICES ASSUME NEW x \in Int PROVE Cardinality(InSpan(Passes(M), x, x + span)) <= 2 * max
    BY DEF SpansBounded
  <2>1. Cardinality(InSpan(Passes(L), x, x + span)) <= 2 * max
    BY DEF SpansBounded
  <2>2. CASE ~ (x <= time /\ time < x + span)
    <3>1. InSpan(Passes(M), x, x + span) = InSpan(Passes(L), x, x + span)
      BY <2>2, <1>3, PartsAdd
    <3>2. QED
      BY <2>1, <3>1
  <2>3. CASE x <= time /\ time < x + span
    <3> DEFINE whole == Cardinality(InSpan(Passes(M), x, x + span))
               before == Cardinality(InSpan(Passes(M), x, start))
               after == Cardinality(InSpan(Passes(M), start, s.until))
    <3>1. \A f \in Passes(M) : f.at \in Int /\ f.at < s.until
      BY <1>1, <1>11 DEF WindowCounted, Passes
    <3>2. whole <= before + after
      <4>1. x \in Int /\ start \in Int /\ s.until \in Int /\ x + span \in Int
        BY <1>1, <1>2
      <4>2. QED
        BY <3>1, <4>1, <1>5, SpanSplit
    <3>3. whole \in Nat /\ before \in Nat /\ after \in Nat
      BY <1>5, SpanFinite
    <3>4. before <= max
      <4>1. CASE x > start - span
        BY <4>1, <1>10
      <4>2. CASE ~ (x > start - span)
        BY <4>2, <1>2, <2>3
      <4>3. QED
        BY <4>1, <4>2
    <3> HIDE DEF whole, before, after
    <3>5. after <= max
      BY <1>8 DEF after
    <3>6. whole <= 2 * max
      BY <3>2, <3>3, <3>4, <3>5
    <3>7. QED
      BY <3>6 DEF whole
  <2>4. QED
    BY <2>2, <2>3
<1>13. Caused(M, span, max)
  <2>1. ASSUME e.told = "refused"
        PROVE  Cardinality(InSpan(NotRefused(M), e.at - span + 1, e.at + 1)) >= max
    <3> DEFINE S == InSpan(NotRefused(M), start, s.until)
               T == InSpan(NotRefused(M), e.at - span + 1, e.at + 1)
    <3>1. \A f \in M : f.at <= time
      OBVIOUS
    <3>2. S \subseteq T
      BY <3>1, <1>1, <1>2 DEF InSpan, NotRefused
    <3>3. Cardinality(S) \in Nat /\ Cardinality(T) \in Nat /\ Cardinality(S) <= Cardinality(T)
      BY <3>2, <1>5, SpanFinite
    <3>4. Least(c.n, max) = max
      BY <2>1, <1>1 DEF Least
    <3>5. QED
      BY <3>3, <3>4, <1>9
  <2>2. span \in Nat /\ \A f \in M : f.at \in Int
    BY <1>1
  <2>3. QED
    BY <2>1, <2>2, CausedAdd
<1>14. QED
  BY <1>11, <1>12, <1>13

(* A counter begins: what came before passed in less than its limit.       *)
LEMMA CountBegins ==
  ASSUME NEW span \in Nat \ {0}, NEW max \in Nat, NEW time \in Nat,
         NEW L \in SUBSET Entries, IsFiniteSet(L), \A f \in L : f.at < time,
         \A x \in Int : x > time - span => Cardinality(InSpan(Passes(L), x, time)) <= max,
         SpansBounded(L, span, max), Caused(L, span, max),
         NEW c \in CounterType, c.n = 1, c.until = time + span,
         NEW e \in Entries, e.at = time, e.n = 1,
         e.told = "refused" => 1 > max, e.told = "passed" => 1 <= max,
         NEW M, M = L \union {e}
  PROVE  WindowCounted(M, c, span, max) /\ SpansBounded(M, span, max) /\ Caused(M, span, max)
<1>1. \A f \in M : f.at \in Nat /\ f.n \in Nat
  BY DEF Entries
<1>2. e \notin L
  BY <1>1
<1>4. IsFiniteSet(M) /\ IsFiniteSet(Passes(L)) /\ IsFiniteSet(NotRefused(L))
  BY PartsFinite, FS_AddElement
<1>5. IsFiniteSet(Passes(M)) /\ IsFiniteSet(NotRefused(M))
  BY <1>4, PartsFinite
<1>6. InSpan(M, time, time + span) = {e}
  BY <1>1 DEF InSpan
<1>7. /\ e.told = "passed" => Passes(M) = Passes(L) \union {e}
      /\ e.told # "passed" => Passes(M) = Passes(L)
  BY <1>2, PartsAdd
<1>8. Cardinality({e}) = 1 /\ IsFiniteSet({e}) /\ Cardinality({}) = 0
  BY FS_EmptySet, FS_AddElement, FS_Singleton
<1>9. Cardinality(InSpan(Passes(M), time, time + span)) <= max
  <2>1. CASE e.told = "passed"
    <3>1. InSpan(Passes(M), time, time + span) = {e}
      BY <2>1, <1>6 DEF InSpan, Passes
    <3>2. Cardinality(InSpan(Passes(M), time, time + span)) = 1
      BY <3>1, <1>8, Zenon
    <3>3. QED
      BY <2>1, <3>2
  <2>2. CASE e.told # "passed"
    <3>1. InSpan(Passes(M), time, time + span) = {}
      BY <2>2, <1>6 DEF InSpan, Passes
    <3>2. Cardinality(InSpan(Passes(M), time, time + span)) = 0
      BY <3>1, <1>8, Zenon
    <3>3. QED
      BY <3>2
  <2>3. QED
    BY <2>1, <2>2
<1>10. Cardinality(InSpan(NotRefused(M), time, time + span)) >= Least(1, max)
  <2>1. CASE e.told = "refused"
    <3>1. InSpan(NotRefused(M), time, time + span) = {}
      BY <2>1, <1>6 DEF InSpan, NotRefused
    <3>2. Cardinality(InSpan(NotRefused(M), time, time + span)) = 0
      BY <3>1, <1>8, Zenon
    <3>3. QED
      BY <2>1, <3>2 DEF Least
  <2>2. CASE e.told # "refused"
    <3>1. InSpan(NotRefused(M), time, time + span) = {e}
      BY <2>2, <1>6 DEF InSpan, NotRefused
    <3>2. Cardinality(InSpan(NotRefused(M), time, time + span)) = 1
      BY <3>1, <1>8, Zenon
    <3>3. QED
      BY <3>2 DEF Least
  <2>3. QED
    BY <2>1, <2>2
<1>11. \A x \in Int : x > time - span => Cardinality(InSpan(Passes(M), x, time)) <= max
  <2>1. \A x \in Int : ~ (x <= e.at /\ e.at < time)
    OBVIOUS
  <2>2. \A x \in Int : InSpan(Passes(M), x, time) = InSpan(Passes(L), x, time)
    BY <2>1, <1>2, PartsAdd
  <2>3. QED
    BY <2>2
<1>12. WindowCounted(M, c, span, max)
  <2>1. c.until - span = time
    OBVIOUS
  <2>2. \A f \in M : f.at < c.until /\ (f.at >= time => f.n <= c.n)
    BY <1>1
  <2>3. QED
    BY <2>1, <2>2, <1>6, <1>8, <1>9, <1>10, <1>11 DEF WindowCounted
<1>13. SpansBounded(M, span, max)
  <2> SUFFICES ASSUME NEW x \in Int PROVE Cardinality(InSpan(Passes(M), x, x + span)) <= 2 * max
    BY DEF SpansBounded
  <2>1. Cardinality(InSpan(Passes(L), x, x + span)) <= 2 * max
    BY DEF SpansBounded
  <2>2. CASE ~ (x <= time /\ time < x + span)
    <3>1. InSpan(Passes(M), x, x + span) = InSpan(Passes(L), x, x + span)
      BY <2>2, <1>2, PartsAdd
    <3>2. QED
      BY <2>1, <3>1
  <2>3. CASE x <= time /\ time < x + span
    <3> DEFINE whole == Cardinality(InSpan(Passes(M), x, x + span))
               before == Cardinality(InSpan(Passes(M), x, time))
               after == Cardinality(InSpan(Passes(M), time, time + span))
    <3>1. \A f \in Passes(M) : f.at \in Int /\ f.at < time + span
      BY <1>1 DEF Passes
    <3>2. whole <= before + after
      <4>1. x \in Int /\ time \in Int /\ time + span \in Int /\ x + span \in Int
        OBVIOUS
      <4>2. QED
        BY <3>1, <4>1, <1>5, SpanSplit
    <3>3. whole \in Nat /\ before \in Nat /\ after \in Nat
      BY <1>5, SpanFinite
    <3>4. before <= max
      <4>1. x > time - span
        BY <2>3
      <4>2. QED
        BY <4>1, <1>11
    <3> HIDE DEF whole, before, after
    <3>5. after <= max
      BY <1>9 DEF after
    <3>6. whole <= 2 * max
      BY <3>2, <3>3, <3>4, <3>5
    <3>7. QED
      BY <3>6 DEF whole
  <2>4. QED
    BY <2>2, <2>3
<1>14. Caused(M, span, max)
  <2>1. ASSUME e.told = "refused"
        PROVE  Cardinality(InSpan(NotRefused(M), e.at - span + 1, e.at + 1)) >= max
    <3>1. Cardinality(InSpan(NotRefused(M), e.at - span + 1, e.at + 1)) \in Nat
      BY <1>5, SpanFinite
    <3>2. QED
      BY <2>1, <3>1
  <2>2. span \in Nat /\ \A f \in M : f.at \in Int
    BY <1>1
  <2>3. QED
    BY <2>1, <2>2, CausedAdd
<1>15. QED
  BY <1>12, <1>13, <1>14

(* A counter has ended: what has passed since less than a window ago is    *)
(* of its window.                                                          *)
LEMMA CountEnded ==
  ASSUME NEW span \in Nat \ {0}, NEW max \in Nat, NEW time \in Nat,
         NEW L \in SUBSET Entries, IsFiniteSet(L),
         NEW s \in CounterType, WindowCounted(L, s, span, max), s.until <= time
  PROVE  /\ \A f \in L : f.at < time
         /\ \A x \in Int : x > time - span => Cardinality(InSpan(Passes(L), x, time)) <= max
<1>1. s.until \in Int /\ \A f \in L : f.at \in Nat
  BY DEF CounterType, Entries
<1>2. \A f \in L : f.at < s.until
  BY DEF WindowCounted
<1>3. ASSUME NEW x \in Int, x > time - span
      PROVE  Cardinality(InSpan(Passes(L), x, time)) <= max
  <2> DEFINE S == InSpan(Passes(L), x, time)
             T == InSpan(Passes(L), s.until - span, s.until)
  <2>1. S \subseteq T
    BY <1>1, <1>2, <1>3 DEF InSpan, Passes
  <2>2. Cardinality(S) \in Nat /\ Cardinality(T) \in Nat /\ Cardinality(S) <= Cardinality(T)
    BY <2>1, PartsFinite, SpanFinite
  <2>3. Cardinality(T) <= max
    BY DEF WindowCounted
  <2>4. QED
    BY <2>2, <2>3
<1>4. QED
  BY <1>1, <1>2, <1>3

-----------------------------------------------------------------------------
(* The buckets                                                             *)

Addresses == {req[r].from : r \in Requests}

Of(kind, t, a) == {e \in log : e.kind = kind /\ Route(e.by).tier = t /\ req[e.by].from = a}

(* The counter of a bucket agrees with what was counted in it.             *)
CounterOK(kind, t, a) ==
  LET b == <<kind, t, a>>
  IN  /\ b \in DOMAIN hits =>
           /\ hits[b].until <= now + Span(kind)
           /\ WindowCounted(Of(kind, t, a), hits[b], Span(kind), MaxOf(kind, t))
      /\ b \notin DOMAIN hits => Of(kind, t, a) = {}
      /\ SpansBounded(Of(kind, t, a), Span(kind), MaxOf(kind, t))
      /\ Caused(Of(kind, t, a), Span(kind), MaxOf(kind, t))

Counters == \A kind \in Kinds, t \in DOMAIN Limit, a \in Addresses : CounterOK(kind, t, a)

(* Nobody is authenticated before the limiters, a limiter tells a request  *)
(* once, the burst limiter after the sustained one, and only those of a    *)
(* route with a tier are counted.                                          *)
Placed ==
  /\ \A r \in Requests :
       /\ pc[r] = "new" => answer[r] = 0
       /\ pc[r] \in {"new", "sustained", "burst"} => r \notin authed
       /\ pc[r] \in Kinds => Route(r).tier # "none"
       /\ pc[r] \in {"new", "sustained"} => \A e \in log : e.by = r => e.kind = "sustained" /\ e.told = "unheard"
       /\ pc[r] = "burst" => \A e \in log : e.by = r /\ e.kind = "burst" => e.told = "unheard"
  /\ \A e \in log : Route(e.by).tier # "none"
  /\ \A e, f \in log : e.by = f.by /\ e.kind = f.kind /\ e.told # "unheard" /\ f.told # "unheard" => e = f
  /\ IsFiniteSet(log)

(* Who came with a revoked key holds no valid one.                         *)
BarredInvalid == \A r \in barred : req[r].by \in Keys \ valid

IInv == TypeOK /\ Placed /\ Counters /\ BurstOnlyAfterDelay /\ BarredInvalid /\ RevokedStaysOut

(* What the table says of every route.                                     *)
LEMMA RouteFacts ==
  ASSUME TypeOK
  PROVE  \A r \in Requests :
           /\ Route(r).tier \in DOMAIN Limit \union {"none"}
           /\ Route(r).ok \in {200, 201, 204}
           /\ Route(r).tier = "none" => Route(r).gate = "public"
<1> SUFFICES ASSUME NEW r \in Requests
             PROVE  /\ Route(r).tier \in DOMAIN Limit \union {"none"}
                    /\ Route(r).ok \in {200, 201, 204}
                    /\ Route(r).tier = "none" => Route(r).gate = "public"
  OBVIOUS
<1>1. req[r].route \in DOMAIN RouteTable
  BY DEF TypeOK
<1>2. CASE req[r].route \in {"createJob", "listJobs", "getJob", "download"}
  BY <1>2 DEF Route, RouteTable, CreateJob, ListJobs, GetJob, Download
<1>3. CASE req[r].route \in {"createKey", "listKeys", "revokeKey", "updateKey"}
  BY <1>3 DEF Route, RouteTable, CreateKey, ListKeys, RevokeKey, UpdateKey
<1>4. CASE req[r].route \in {"invite", "changeRole", "signup", "stripe"}
  BY <1>4 DEF Route, RouteTable, InviteMember, ChangeRole, Signup, StripeEvent
<1>5. QED
  BY <1>1, <1>2, <1>3, <1>4 DEF RouteTable

(* Every step is one of these, and none changes what the requests are.     *)
LEMMA GatewaySteps ==
  ASSUME [Next]_vars
  PROVE  /\ req' = req
         /\ \/ \E r \in Requests : Arrive(r) \/ LimiterFails(r) \/ Authenticate(r) \/ Gate(r) \/ Handle(r)
            \/ \E r \in Requests, kind \in Kinds : Limits(r, kind) \/ Unheard(r, kind)
            \/ Signal \/ StopServer \/ Tick \/ UNCHANGED vars
<1>1. \/ \E r \in Requests : Arrive(r) \/ LimiterFails(r) \/ Authenticate(r) \/ Gate(r) \/ Handle(r)
      \/ \E r \in Requests, kind \in Kinds : Limits(r, kind) \/ Unheard(r, kind)
      \/ Signal \/ StopServer \/ Tick \/ UNCHANGED vars
  BY DEF Next, Step, Limiter
<1>2. req' = req
  BY <1>1 DEF vars, Arrive, LimiterFails, Authenticate, Gate, Handle, Limits, Unheard, Signal, StopServer, Tick
<1>3. QED
  BY <1>1, <1>2

LEMMA SpanFacts ==
  ASSUME NEW kind \in Kinds
  PROVE  /\ Span(kind) \in 1..Window /\ Span(kind) \in Nat \ {0}
         /\ \A t \in DOMAIN Limit : MaxOf(kind, t) \in Nat
BY DEF Kinds, Span, MaxOf, BurstMax

(* What a command does to the counter of its bucket.                       *)
LEMMA CountFacts ==
  ASSUME TypeOK, NEW b, NEW span \in 1..Window
  PROVE  /\ Count(b, span) \in [n : Nat \ {0}, until : 1..(now + Window)]
         /\ b \in DOMAIN hits /\ now < hits[b].until =>
              Count(b, span).n = hits[b].n + 1 /\ Count(b, span).until = hits[b].until
         /\ ~ (b \in DOMAIN hits /\ now < hits[b].until) =>
              Count(b, span).n = 1 /\ Count(b, span).until = now + span
<1>1. CASE b \in DOMAIN hits /\ now < hits[b].until
  <2>1. PICK n \in Nat \ {0}, until \in 1..(now + Window) : hits[b] = [n |-> n, until |-> until]
    BY <1>1 DEF TypeOK
  <2>2. Count(b, span) = [n |-> n + 1, until |-> until]
    BY <1>1, <2>1 DEF Count
  <2>3. QED
    BY <1>1, <2>1, <2>2
<1>2. CASE ~ (b \in DOMAIN hits /\ now < hits[b].until)
  <2>1. Count(b, span) = [n |-> 1, until |-> now + span]
    BY <1>2 DEF Count
  <2>2. QED
    BY <1>2, <2>1 DEF TypeOK
<1>3. QED
  BY <1>1, <1>2

(* A command that Redis runs: for a request, in its bucket, one more entry *)
(* in the log, and what it tells follows from the counter.                 *)
Command(r, kind, t, a, c, e) ==
  /\ kind \in Kinds /\ pc[r] = kind /\ t = Route(r).tier /\ t \in DOMAIN Limit /\ a = req[r].from /\ a \in Addresses
  /\ c = Count(<<kind, t, a>>, Span(kind))
  /\ e \in Entries /\ e.by = r /\ e.kind = kind /\ e.at = now /\ e.n = c.n
  /\ e.told = "refused" => c.n > MaxOf(kind, t)
  /\ e.told = "passed" => c.n <= MaxOf(kind, t)
  /\ log' = log \union {e}
  /\ hits' = [x \in DOMAIN hits \union {<<kind, t, a>>} |-> IF x = <<kind, t, a>> THEN c ELSE hits[x]]
  /\ UNCHANGED <<req, authed, barred, valid, server, now>>

LEMMA LimiterFacts ==
  ASSUME TypeOK, Placed, NEW r \in Requests, NEW kind \in Kinds, Limits(r, kind) \/ Unheard(r, kind)
  PROVE  \E t, a, c, e :
           /\ Command(r, kind, t, a, c, e)
           /\ e.told = "refused" => answer' = [answer EXCEPT ![r] = 429] /\ pc' = [pc EXCEPT ![r] = "done"]
           /\ e.told = "passed" =>
                /\ answer' = answer
                /\ kind = "sustained" => pc' = [pc EXCEPT ![r] = "burst"]
                /\ kind = "burst" => pc' = [pc EXCEPT ![r] = IF Route(r).gate = "public" THEN "handler" ELSE "auth"]
           /\ e.told = "unheard" =>
                \/ UNCHANGED <<pc, answer>>
                \/ answer' = [answer EXCEPT ![r] = 500] /\ pc' = [pc EXCEPT ![r] = "done"]
<1>1. PICK t, a : t = Route(r).tier /\ a = req[r].from
  OBVIOUS
<1>2. pc[r] = kind /\ r \notin authed /\ t \in DOMAIN Limit /\ a \in Addresses
  BY <1>1, RouteFacts DEF Limits, Unheard, Placed, Kinds, Addresses
<1>3. Bucket(r, kind) = <<kind, t, a>>
  BY <1>1, <1>2 DEF Bucket
<1>4. PICK c : c = Count(<<kind, t, a>>, Span(kind))
  OBVIOUS
<1>5. c.n \in Nat \ {0} /\ MaxOf(kind, t) \in Nat
  BY <1>2, <1>4, SpanFacts, CountFacts
<1>6. \A told \in {"passed", "refused", "unheard"} :
        [by |-> r, kind |-> kind, at |-> now, n |-> c.n, told |-> told] \in Entries
  BY <1>5 DEF Entries, TypeOK
<1>7. ASSUME NEW told \in {"passed", "refused", "unheard"}, Counts(r, kind, told),
             told = "refused" => c.n > MaxOf(kind, t), told = "passed" => c.n <= MaxOf(kind, t)
      PROVE  Command(r, kind, t, a, c, [by |-> r, kind |-> kind, at |-> now, n |-> c.n, told |-> told])
  <2>1. UNCHANGED <<req, authed, barred, valid, server, now>>
    BY DEF Limits, Unheard
  <2>2. /\ log' = log \union {[by |-> r, kind |-> kind, at |-> now, n |-> c.n, told |-> told]}
        /\ hits' = [x \in DOMAIN hits \union {<<kind, t, a>>} |-> IF x = <<kind, t, a>> THEN c ELSE hits[x]]
    BY <1>3, <1>4, <1>7 DEF Counts
  <2>3. QED
    BY <1>1, <1>2, <1>4, <1>6, <1>7, <2>1, <2>2 DEF Command
<1>8. Exceeds(r, kind) <=> c.n > MaxOf(kind, t)
  BY <1>1, <1>3, <1>4 DEF Exceeds, Over
<1>9. CASE Limits(r, kind) /\ Exceeds(r, kind)
  <2>1. Command(r, kind, t, a, c, [by |-> r, kind |-> kind, at |-> now, n |-> c.n, told |-> "refused"])
    BY <1>7, <1>8, <1>9 DEF Limits
  <2>2. answer' = [answer EXCEPT ![r] = 429] /\ pc' = [pc EXCEPT ![r] = "done"]
    BY <1>9 DEF Limits, Answer
  <2>3. QED
    BY <2>1, <2>2
<1>10. CASE Limits(r, kind) /\ ~ Exceeds(r, kind)
  <2>1. Command(r, kind, t, a, c, [by |-> r, kind |-> kind, at |-> now, n |-> c.n, told |-> "passed"])
    BY <1>5, <1>7, <1>8, <1>10 DEF Limits
  <2>2. /\ answer' = answer
        /\ kind = "sustained" => pc' = [pc EXCEPT ![r] = "burst"]
        /\ kind = "burst" => pc' = [pc EXCEPT ![r] = IF Route(r).gate = "public" THEN "handler" ELSE "auth"]
    BY <1>10 DEF Limits, GoTo
  <2>3. QED
    BY <2>1, <2>2
<1>11. CASE Unheard(r, kind)
  <2>1. Command(r, kind, t, a, c, [by |-> r, kind |-> kind, at |-> now, n |-> c.n, told |-> "unheard"])
    BY <1>7, <1>11 DEF Unheard
  <2>2. UNCHANGED <<pc, answer>> \/ (answer' = [answer EXCEPT ![r] = 500] /\ pc' = [pc EXCEPT ![r] = "done"])
    BY <1>11 DEF Unheard, Answer
  <2>3. QED
    BY <2>1, <2>2
<1>12. QED
  BY <1>9, <1>10, <1>11

-----------------------------------------------------------------------------
(* A step keeps the types.                                                 *)
LEMMA TypeStep ==
  ASSUME TypeOK, Placed, [Next]_vars
  PROVE  TypeOK'
<1> DEFINE Places == {"new", "auth", "gate", "handler", "hung"} \union Kinds \union Ended
<1>1. ASSUME NEW r \in Requests, Arrive(r) PROVE TypeOK'
  <2>1. pc' \in [Requests -> Places]
    BY <1>1 DEF Arrive, GoTo, TypeOK, Kinds
  <2>2. QED
    BY <1>1, <2>1 DEF Arrive, GoTo, TypeOK
<1>2. ASSUME NEW r \in Requests, NEW kind \in Kinds, Limits(r, kind) \/ Unheard(r, kind) PROVE TypeOK'
  <2>1. PICK t, a, c, e :
          /\ Command(r, kind, t, a, c, e)
          /\ e.told = "refused" => answer' = [answer EXCEPT ![r] = 429] /\ pc' = [pc EXCEPT ![r] = "done"]
          /\ e.told = "passed" =>
               /\ answer' = answer
               /\ kind = "sustained" => pc' = [pc EXCEPT ![r] = "burst"]
               /\ kind = "burst" => pc' = [pc EXCEPT ![r] = IF Route(r).gate = "public" THEN "handler" ELSE "auth"]
          /\ e.told = "unheard" =>
               \/ UNCHANGED <<pc, answer>>
               \/ answer' = [answer EXCEPT ![r] = 500] /\ pc' = [pc EXCEPT ![r] = "done"]
    BY <1>2, LimiterFacts
  <2>2. e.told \in {"passed", "refused", "unheard"}
    BY <2>1 DEF Command, Entries
  <2>3. pc' \in [Requests -> Places] /\ answer' \in [Requests -> Nat]
    BY <2>1, <2>2 DEF TypeOK, Kinds, Ended
  <2>4. log' \subseteq Entries /\ \A f \in log' : f.at <= now'
    BY <2>1 DEF Command, TypeOK
  <2>5. \A b \in DOMAIN hits' : hits'[b] \in [n : Nat \ {0}, until : 1..(now' + Window)]
    <3>1. c \in [n : Nat \ {0}, until : 1..(now + Window)]
      BY <2>1, SpanFacts, CountFacts DEF Command
    <3>2. now' = now /\ \A b \in DOMAIN hits' : hits'[b] = c \/ (b \in DOMAIN hits /\ hits'[b] = hits[b])
      BY <2>1 DEF Command
    <3>3. QED
      BY <3>1, <3>2 DEF TypeOK
  <2>6. UNCHANGED <<req, authed, barred, valid, server, now>>
    BY <2>1 DEF Command
  <2>7. QED
    BY <2>3, <2>4, <2>5, <2>6 DEF TypeOK
<1>3. ASSUME NEW r \in Requests, LimiterFails(r) PROVE TypeOK'
  <2>1. pc' \in [Requests -> Places] /\ answer' \in [Requests -> Nat]
    BY <1>3 DEF LimiterFails, Answer, TypeOK, Ended
  <2>2. QED
    BY <1>3, <2>1 DEF LimiterFails, TypeOK
<1>4. ASSUME NEW r \in Requests, Authenticate(r) PROVE TypeOK'
  <2>1. pc' \in [Requests -> Places] /\ answer' \in [Requests -> Nat] /\ authed' \subseteq Requests
    BY <1>4 DEF Authenticate, GoTo, Answer, TypeOK, Ended
  <2>2. QED
    BY <1>4, <2>1 DEF Authenticate, TypeOK
<1>5. ASSUME NEW r \in Requests, Gate(r) PROVE TypeOK'
  <2>1. /\ pc' \in [Requests -> Places] /\ answer' \in [Requests -> Nat]
        /\ server' \in {"up", "draining", "down"}
    BY <1>5 DEF Gate, CheckScope, RequireRole, Breaker, Open, Unhandled, GoTo, Answer, TypeOK, Ended
  <2>2. QED
    BY <1>5, <2>1 DEF Gate, TypeOK
<1>6. ASSUME NEW r \in Requests, Handle(r) PROVE TypeOK'
  <2>1. Route(r).ok \in Nat
    BY RouteFacts
  <2>2. pc' \in [Requests -> Places] /\ answer' \in [Requests -> Nat]
    BY <1>6, <2>1 DEF Handle, Unhandled, GoTo, Answer, TypeOK, Ended
  <2>3. valid' \subseteq Keys /\ server' \in {"up", "draining", "down"}
    BY <1>6 DEF Handle, Unhandled, TypeOK
  <2>4. QED
    BY <1>6, <2>2, <2>3 DEF Handle, TypeOK
<1>7. CASE StopServer
  <2>1. pc' \in [Requests -> Places]
    BY <1>7 DEF StopServer, TypeOK, Ended
  <2>2. QED
    BY <1>7, <2>1 DEF StopServer, TypeOK
<1>8. CASE Tick
  <2>1. \A b \in DOMAIN hits' : hits'[b] \in [n : Nat \ {0}, until : 1..(now' + Window)]
    <3>1. SUFFICES ASSUME NEW b \in DOMAIN hits PROVE hits[b] \in [n : Nat \ {0}, until : 1..(now + 1 + Window)]
      BY <1>8 DEF Tick
    <3>2. PICK n \in Nat \ {0}, until \in 1..(now + Window) : hits[b] = [n |-> n, until |-> until]
      BY DEF TypeOK
    <3>3. QED
      BY <3>2 DEF TypeOK
  <2>2. \A e \in log' : e.at <= now'
    BY <1>8 DEF Tick, TypeOK, Entries
  <2>3. QED
    BY <1>8, <2>1, <2>2 DEF Tick, TypeOK
<1>9. CASE Signal \/ UNCHANGED vars
  BY <1>9 DEF Signal, vars, TypeOK
<1>10. QED
  BY <1>1, <1>2, <1>3, <1>4, <1>5, <1>6, <1>7, <1>8, <1>9, GatewaySteps

(* A step keeps everybody in place.                                        *)
LEMMA PlacedStep ==
  ASSUME TypeOK, Placed, [Next]_vars
  PROVE  Placed'
<1>1. \A r \in Requests : Route(r)' = Route(r)
  BY GatewaySteps DEF Route
<1>2. \A e \in log : e.by \in Requests /\ e.kind \in Kinds
  BY DEF TypeOK, Entries
<1>3. ASSUME NEW r \in Requests, Arrive(r) PROVE Placed'
  <2>1. UNCHANGED <<log, authed, answer>> /\ pc[r] = "new" /\ r \notin authed
    BY <1>3 DEF Arrive, GoTo, Placed
  <2>2. pc' = [pc EXCEPT ![r] = pc'[r]] /\ pc'[r] \in {"sustained", "handler"}
        /\ (pc'[r] = "sustained" => Route(r).tier # "none")
    BY <1>3 DEF Arrive, GoTo, TypeOK
  <2>3. QED
    BY <1>1, <1>2, <2>1, <2>2 DEF Placed, TypeOK, Kinds
<1>4. ASSUME NEW r \in Requests, NEW kind \in Kinds, Limits(r, kind) \/ Unheard(r, kind) PROVE Placed'
  <2>1. PICK t, a, c, e :
          /\ Command(r, kind, t, a, c, e)
          /\ e.told = "refused" => answer' = [answer EXCEPT ![r] = 429] /\ pc' = [pc EXCEPT ![r] = "done"]
          /\ e.told = "passed" =>
               /\ answer' = answer
               /\ kind = "sustained" => pc' = [pc EXCEPT ![r] = "burst"]
               /\ kind = "burst" => pc' = [pc EXCEPT ![r] = IF Route(r).gate = "public" THEN "handler" ELSE "auth"]
          /\ e.told = "unheard" =>
               \/ UNCHANGED <<pc, answer>>
               \/ answer' = [answer EXCEPT ![r] = 500] /\ pc' = [pc EXCEPT ![r] = "done"]
    BY <1>4, LimiterFacts
  <2>2. /\ e.told \in {"passed", "refused", "unheard"} /\ e.by = r /\ e.kind = kind
        /\ log' = log \union {e} /\ authed' = authed /\ pc[r] = kind
        /\ Route(r).tier # "none" /\ r \notin authed
    BY <2>1 DEF Command, Entries, Placed, Kinds
  <2>3. \/ pc' = pc /\ e.told = "unheard" /\ answer' = answer
        \/ pc' = [pc EXCEPT ![r] = "burst"] /\ kind = "sustained" /\ answer' = answer
        \/ /\ pc' = [pc EXCEPT ![r] = pc'[r]] /\ pc'[r] \in {"done", "handler", "auth"}
           /\ answer' = [answer EXCEPT ![r] = answer'[r]]
    BY <2>1, <2>2 DEF TypeOK, Kinds
  <2>4. \A s \in Requests \ {r} : pc'[s] = pc[s] /\ answer'[s] = answer[s]
    BY <2>3 DEF TypeOK
  <2>5. \A s \in Requests \ {r} : \A f \in log' : f.by = s => f \in log
    BY <2>2
  <2>6. ASSUME NEW s \in Requests
        PROVE  /\ pc'[s] = "new" => answer'[s] = 0
               /\ pc'[s] \in {"new", "sustained", "burst"} => s \notin authed'
               /\ pc'[s] \in Kinds => Route(s).tier # "none"
               /\ pc'[s] \in {"new", "sustained"} => \A f \in log' : f.by = s => f.kind = "sustained" /\ f.told = "unheard"
               /\ pc'[s] = "burst" => \A f \in log' : f.by = s /\ f.kind = "burst" => f.told = "unheard"
    <3>1. CASE s # r
      BY <2>2, <2>4, <2>5, <3>1 DEF Placed
    <3>2. CASE s = r /\ pc' = pc /\ e.told = "unheard" /\ answer' = answer
      BY <2>2, <3>2 DEF Placed, Kinds
    <3>3. CASE s = r /\ pc' = [pc EXCEPT ![r] = "burst"] /\ kind = "sustained" /\ answer' = answer
      BY <2>2, <3>3 DEF Placed, Kinds, TypeOK
    <3>4. CASE s = r /\ pc'[r] \in {"done", "handler", "auth"}
      BY <3>4 DEF Kinds
    <3>5. QED
      BY <2>3, <3>1, <3>2, <3>3, <3>4
  <2>7. \A f \in log' : Route(f.by).tier # "none"
    BY <2>2 DEF Placed
  <2>8. \A f, g \in log' :
          f.by = g.by /\ f.kind = g.kind /\ f.told # "unheard" /\ g.told # "unheard" => f = g
    <3>1. \A f \in log : f.by = r /\ f.kind = kind => f.told = "unheard"
      BY <2>2 DEF Placed, Kinds
    <3>2. QED
      BY <2>2, <3>1 DEF Placed
  <2>9. IsFiniteSet(log')
    BY <2>2, FS_AddElement DEF Placed
  <2>10. \A f \in log' : f.by \in Requests
    BY <1>2, <2>2
  <2>11. QED
    BY <1>1, <2>6, <2>7, <2>8, <2>9, <2>10 DEF Placed
<1>5. ASSUME NEW r \in Requests, LimiterFails(r) PROVE Placed'
  BY <1>1, <1>2, <1>5 DEF LimiterFails, Answer, Placed, TypeOK, Kinds
<1>6. ASSUME NEW r \in Requests, Authenticate(r) PROVE Placed'
  <2>1. /\ log' = log /\ authed' \in {authed, authed \union {r}}
        /\ pc' = [pc EXCEPT ![r] = pc'[r]] /\ pc'[r] \in {"gate", "done"}
        /\ \A s \in Requests \ {r} : answer'[s] = answer[s]
    BY <1>6 DEF Authenticate, GoTo, Answer, TypeOK
  <2>2. QED
    BY <1>1, <1>2, <2>1 DEF Placed, TypeOK, Kinds
<1>7. ASSUME NEW r \in Requests, Gate(r) \/ Handle(r) PROVE Placed'
  <2>1. /\ UNCHANGED <<authed, log>>
        /\ pc' = [pc EXCEPT ![r] = pc'[r]] /\ pc'[r] \in {"handler", "done", "hung"}
        /\ \A s \in Requests \ {r} : answer'[s] = answer[s]
    BY <1>7 DEF Gate, Handle, CheckScope, RequireRole, Breaker, Open, Unhandled, GoTo, Answer, TypeOK
  <2>2. QED
    BY <1>1, <1>2, <2>1 DEF Placed, TypeOK, Kinds
<1>8. CASE StopServer
  BY <1>1, <1>2, <1>8 DEF StopServer, Placed, InFlight, TypeOK, Kinds
<1>9. CASE Signal \/ Tick \/ UNCHANGED vars
  <2>1. UNCHANGED <<req, pc, answer, authed, log>>
    BY <1>9 DEF Signal, Tick, vars
  <2>2. QED
    BY <1>1, <1>2, <2>1 DEF Placed
<1>10. QED
  BY <1>3, <1>4, <1>5, <1>6, <1>7, <1>8, <1>9, GatewaySteps

-----------------------------------------------------------------------------
(* A command keeps the counters right: that of its own bucket, which goes  *)
(* on or begins, and the others.                                           *)
LEMMA OwnCounter ==
  ASSUME TypeOK, TypeOK', Placed, Counters, NEW r \in Requests, NEW kind \in Kinds, NEW t, NEW a, NEW c, NEW e,
         Command(r, kind, t, a, c, e)
  PROVE  CounterOK(kind, t, a)'
<1> DEFINE b == <<kind, t, a>>
           span == Span(kind)
           max == MaxOf(kind, t)
<1>1. /\ t \in DOMAIN Limit /\ a \in Addresses /\ e \in Entries /\ e.at = now /\ e.n = c.n
      /\ c = Count(b, span) /\ b \in DOMAIN hits' /\ hits'[b] = c /\ now' = now
      /\ e.told = "refused" => c.n > max
      /\ e.told = "passed" => c.n <= max
  BY DEF Command
<1>2. span \in Nat \ {0} /\ max \in Nat /\ now \in Nat /\ span \in 1..Window
  BY <1>1, SpanFacts DEF TypeOK
<1>3. CounterOK(kind, t, a)
  BY <1>1 DEF Counters
<1> DEFINE L == Of(kind, t, a)
<1>4. L \in SUBSET Entries /\ IsFiniteSet(L) /\ \A f \in L : f.at <= now
  BY FS_Subset DEF Of, TypeOK, Placed
<1>5. Of(kind, t, a)' = L \union {e}
  <2>1. \A s \in Requests : Route(s)' = Route(s)
    BY DEF Command, Route
  <2>2. log' = log \union {e} /\ req' = req /\ e.kind = kind /\ Route(e.by).tier = t /\ req[e.by].from = a
    BY DEF Command
  <2>3. \A f \in log' : f.by \in Requests
    BY DEF TypeOK, Entries
  <2>4. QED
    BY <2>1, <2>2, <2>3 DEF Of
<1>6. /\ c \in CounterType /\ c.until <= now + span
      /\ b \in DOMAIN hits /\ now < hits[b].until => c.n = hits[b].n + 1 /\ c.until = hits[b].until
      /\ ~ (b \in DOMAIN hits /\ now < hits[b].until) => c.n = 1 /\ c.until = now + span
  <2>1. /\ c \in [n : Nat \ {0}, until : 1..(now + Window)]
        /\ b \in DOMAIN hits /\ now < hits[b].until => c.n = hits[b].n + 1 /\ c.until = hits[b].until
        /\ ~ (b \in DOMAIN hits /\ now < hits[b].until) => c.n = 1 /\ c.until = now + span
    BY <1>1, <1>2, CountFacts
  <2>2. b \in DOMAIN hits => hits[b].until <= now + span
    BY <1>3 DEF CounterOK
  <2>3. QED
    BY <1>2, <2>1, <2>2 DEF CounterType
<1>7. /\ SpansBounded(L, span, max) /\ Caused(L, span, max)
      /\ b \in DOMAIN hits => WindowCounted(L, hits[b], span, max) /\ hits[b].until <= now + span
      /\ b \notin DOMAIN hits => L = {}
  BY <1>3 DEF CounterOK
<1>8. b \in DOMAIN hits => hits[b] \in CounterType
  BY DEF TypeOK, CounterType
<1>9. PICK S, M : S = L /\ M = S \union {e}
  OBVIOUS
<1> HIDE DEF b, span, max, L
<1>10. WindowCounted(M, c, span, max) /\ SpansBounded(M, span, max) /\ Caused(M, span, max)
  <2>1. S \in SUBSET Entries /\ IsFiniteSet(S) /\ \A f \in S : f.at <= now
    BY <1>4, <1>9, Zenon
  <2>2. SpansBounded(S, span, max) /\ Caused(S, span, max)
    BY <1>7, <1>9, Zenon
  <2>3. CASE b \in DOMAIN hits /\ now < hits[b].until
    <3>1. PICK s \in CounterType : s = hits[b]
      BY <2>3, <1>8
    <3>2. WindowCounted(S, s, span, max) /\ s.until <= now + span
      BY <2>3, <3>1, <1>7, <1>9, Zenon
    <3>3. c.n = s.n + 1 /\ c.until = s.until /\ now < s.until
      BY <2>3, <3>1, <1>6
    <3>4. QED
      BY <1>1, <1>2, <1>6, <1>9, <2>1, <2>2, <3>2, <3>3, CountGoesOn
  <2>4. CASE ~ (b \in DOMAIN hits /\ now < hits[b].until)
    <3>1. c.n = 1 /\ c.until = now + span
      BY <2>4, <1>6
    <3>2. /\ \A f \in S : f.at < now
          /\ \A x \in Int : x > now - span => Cardinality(InSpan(Passes(S), x, now)) <= max
      <4>1. CASE b \in DOMAIN hits
        <5>1. PICK s \in CounterType : s = hits[b]
          BY <4>1, <1>8
        <5>2. WindowCounted(S, s, span, max)
          BY <4>1, <5>1, <1>7, <1>9, Zenon
        <5>3. s.until <= now
          BY <2>4, <4>1, <5>1, <1>2 DEF CounterType
        <5>4. QED
          BY <1>2, <2>1, <5>2, <5>3, CountEnded
      <4>2. CASE b \notin DOMAIN hits
        <5>1. S = {}
          BY <4>2, <1>7, <1>9, Zenon
        <5>2. \A x : InSpan(Passes(S), x, now) = {}
          BY <5>1 DEF InSpan, Passes
        <5>3. \A x : Cardinality(InSpan(Passes(S), x, now)) = 0
          BY <5>2, FS_EmptySet, Zenon
        <5>4. QED
          BY <5>1, <5>3, <1>2
      <4>3. QED
        BY <4>1, <4>2
    <3>3. QED
      BY <1>1, <1>2, <1>6, <1>9, <2>1, <2>2, <3>1, <3>2, CountBegins
  <2>5. QED
    BY <2>3, <2>4
<1>11. Of(kind, t, a)' = M
  BY <1>5, <1>9, Zenon
<1>12. Span(kind)' = span /\ MaxOf(kind, t)' = max
  BY DEF Span, MaxOf, BurstMax, span, max
<1>13. /\ b \in DOMAIN hits' /\ hits'[b] = c /\ c.until <= now' + span
       /\ WindowCounted(Of(kind, t, a)', hits'[b], span, max)
       /\ SpansBounded(Of(kind, t, a)', span, max) /\ Caused(Of(kind, t, a)', span, max)
  BY <1>1, <1>6, <1>10, <1>11, Zenon
<1>14. QED
  BY <1>13 DEF CounterOK, b, span, max, Span, MaxOf, BurstMax

(* A counter of which nothing changes but the time stays right.            *)
LEMMA CounterStays ==
  ASSUME TypeOK, TypeOK', NEW kind \in Kinds, NEW t \in DOMAIN Limit, NEW a, CounterOK(kind, t, a),
         Of(kind, t, a)' = Of(kind, t, a), now' >= now,
         <<kind, t, a>> \in DOMAIN hits' <=> <<kind, t, a>> \in DOMAIN hits,
         <<kind, t, a>> \in DOMAIN hits => hits'[<<kind, t, a>>] = hits[<<kind, t, a>>]
  PROVE  CounterOK(kind, t, a)'
<1> DEFINE b == <<kind, t, a>>
<1>1. PICK S, span, max : S = Of(kind, t, a) /\ span = Span(kind) /\ max = MaxOf(kind, t)
  OBVIOUS
<1>2. /\ b \in DOMAIN hits => hits[b].until <= now + span /\ WindowCounted(S, hits[b], span, max)
      /\ b \notin DOMAIN hits => S = {}
      /\ SpansBounded(S, span, max) /\ Caused(S, span, max)
  BY <1>1 DEF CounterOK
<1>3. span \in Nat /\ now \in Nat /\ now' \in Nat
  BY <1>1, SpanFacts DEF TypeOK
<1>4. b \in DOMAIN hits => hits[b].until \in Nat
  BY DEF TypeOK
<1>5. b \in DOMAIN hits => hits[b].until <= now' + span
  BY <1>2, <1>3, <1>4
<1>6. /\ b \in DOMAIN hits' => hits'[b].until <= now' + span /\ WindowCounted(S, hits'[b], span, max)
      /\ b \notin DOMAIN hits' => S = {}
  BY <1>2, <1>5
<1>7. Of(kind, t, a)' = S
  BY <1>1, Zenon
<1>8. QED
  BY <1>1, <1>2, <1>6, <1>7 DEF CounterOK, Span, MaxOf, BurstMax

(* A step keeps the counters right.                                        *)
LEMMA CountersStep ==
  ASSUME TypeOK, TypeOK', Placed, Counters, [Next]_vars
  PROVE  Counters'
<1>1. req' = req /\ \A s \in Requests : Route(s)' = Route(s)
  BY GatewaySteps DEF Route
<1>2. Addresses' = Addresses
  BY <1>1 DEF Addresses
<1>3. \A f \in log : f.by \in Requests
  BY DEF TypeOK, Entries
<1>4. CASE log' = log /\ hits' = hits /\ now' >= now
  <2>1. \A kind \in Kinds, t \in DOMAIN Limit, a \in Addresses : Of(kind, t, a)' = Of(kind, t, a)
    BY <1>1, <1>3, <1>4 DEF Of
  <2>2. \A kind \in Kinds, t \in DOMAIN Limit, a \in Addresses : CounterOK(kind, t, a)'
    BY <1>4, <2>1, CounterStays DEF Counters
  <2>3. QED
    BY <1>2, <2>2 DEF Counters, Kinds
<1>5. ASSUME NEW r \in Requests, NEW kind \in Kinds, Limits(r, kind) \/ Unheard(r, kind)
      PROVE  Counters'
  <2>1. PICK t, a, c, e : Command(r, kind, t, a, c, e)
    BY <1>5, LimiterFacts
  <2>2. ASSUME NEW k \in Kinds, NEW u \in DOMAIN Limit, NEW d \in Addresses PROVE CounterOK(k, u, d)'
    <3>1. CASE k = kind /\ u = t /\ d = a
      BY <2>1, <3>1, OwnCounter
    <3>2. CASE ~ (k = kind /\ u = t /\ d = a)
      <4>1. <<k, u, d>> # <<kind, t, a>>
        BY <3>2
      <4>2. /\ <<k, u, d>> \in DOMAIN hits' <=> <<k, u, d>> \in DOMAIN hits
            /\ <<k, u, d>> \in DOMAIN hits => hits'[<<k, u, d>>] = hits[<<k, u, d>>]
        BY <2>1, <4>1 DEF Command
      <4>3. log' = log \union {e} /\ ~ (e.kind = k /\ Route(e.by).tier = u /\ req[e.by].from = d) /\ e.by \in Requests
        BY <2>1, <3>2 DEF Command, Entries
      <4>4. Of(k, u, d)' = Of(k, u, d)
        BY <1>1, <1>3, <4>3 DEF Of
      <4>5. now' >= now
        BY <2>1 DEF Command, TypeOK
      <4>6. CounterOK(k, u, d)
        BY DEF Counters
      <4>7. QED
        BY <4>2, <4>4, <4>5, <4>6, CounterStays
    <3>3. QED
      BY <3>1, <3>2
  <2>3. QED
    BY <1>2, <2>2 DEF Counters, Kinds
<1>6. ASSUME NEW r \in Requests, Arrive(r) \/ LimiterFails(r) \/ Authenticate(r) \/ Gate(r) \/ Handle(r)
      PROVE  Counters'
  BY <1>4, <1>6 DEF Arrive, LimiterFails, Authenticate, Gate, Handle, TypeOK
<1>7. CASE Signal \/ StopServer \/ Tick \/ UNCHANGED vars
  BY <1>4, <1>7 DEF Signal, StopServer, Tick, vars, TypeOK
<1>8. QED
  BY <1>5, <1>6, <1>7, GatewaySteps

-----------------------------------------------------------------------------
(* The burst limiter. Within a window of its own there is a command that   *)
(* was repeated, or came later than the pass by the sustained limiter.     *)

LateCommand(e) ==
  \E f \in Counted("burst", e.by, e.at - BurstWindow + 1, e.at) :
    \/ f.told = "unheard"
    \/ ~ \E g \in Told({"passed"}) : g.kind = "sustained" /\ g.by = f.by /\ g.at = f.at

(* The counter of the burst limiter has gone over its limit just now.      *)
Spike(e, b) ==
  /\ e.kind = "burst" /\ e.at = now /\ b = <<"burst", Route(e.by).tier, req[e.by].from>>
  /\ b \in DOMAIN hits /\ hits[b].n > MaxOf("burst", Route(e.by).tier) /\ now < hits[b].until

(* Where none is repeated or late, those that the burst limiter counted in *)
(* its window are as many that the sustained limiter let through within a  *)
(* window of that one's, so no more than twice its limit.                  *)
LEMMA SpikeIsLate ==
  TypeOK /\ Placed /\ Counters => \A e \in log : (\E b : Spike(e, b)) => LateCommand(e)
<1> SUFFICES ASSUME TypeOK, Placed, Counters, NEW e \in log, NEW b, Spike(e, b), ~ LateCommand(e)
             PROVE  FALSE
  OBVIOUS
<1>1. PICK t, a : t = Route(e.by).tier /\ a = req[e.by].from
  OBVIOUS
<1>2. t \in DOMAIN Limit /\ a \in Addresses /\ e.by \in Requests
  BY <1>1, RouteFacts DEF Placed, TypeOK, Entries, Addresses
<1>3. CounterOK("burst", t, a) /\ CounterOK("sustained", t, a)
  BY <1>2 DEF Counters, Kinds
<1>4. b = <<"burst", t, a>> /\ b \in DOMAIN hits /\ hits[b].n > MaxOf("burst", t) /\ now < hits[b].until /\ e.at = now
  BY <1>1 DEF Spike
<1>5. PICK n, until : n \in Nat /\ until \in Int /\ n = hits[b].n /\ until = hits[b].until
  BY <1>4 DEF TypeOK
<1>6. PICK start \in Int : start = until - BurstWindow
  BY <1>5
<1>7. PICK W : W = InSpan(Of("burst", t, a), start, until)
  OBVIOUS
<1>8. Cardinality(W) = n
  BY <1>3, <1>4, <1>5, <1>6, <1>7 DEF CounterOK, WindowCounted, Span
<1>9. PICK G : G = InSpan(Passes(Of("sustained", t, a)), start, start + Window)
  OBVIOUS
<1>10. Cardinality(G) <= 2 * Limit[t].max
  <2>1. SpansBounded(Of("sustained", t, a), Window, Limit[t].max)
    BY <1>3 DEF CounterOK, Span, MaxOf
  <2>2. QED
    BY <2>1, <1>6, <1>9 DEF SpansBounded
<1>11. IsFiniteSet(G) /\ Cardinality(G) \in Nat
  <2>1. IsFiniteSet(Of("sustained", t, a))
    BY FS_Subset DEF Of, Placed
  <2>2. QED
    BY <2>1, <1>9, PartsFinite, SpanFinite
<1>12. ASSUME NEW f \in W
       PROVE  f \in log /\ f.kind = "burst" /\ f.told # "unheard" /\ \E g \in G : g.by = f.by /\ g.at = f.at
  <2>1. /\ f \in log /\ f.kind = "burst" /\ Route(f.by).tier = t /\ req[f.by].from = a
        /\ start <= f.at /\ f.at < until /\ f.at <= now /\ f.at \in Nat /\ now \in Nat
    BY <1>7 DEF InSpan, Of, TypeOK, Entries
  <2>2. f \in Counted("burst", e.by, e.at - BurstWindow + 1, e.at)
    BY <1>1, <1>4, <1>5, <1>6, <2>1 DEF Counted
  <2>3. f.told # "unheard"
    BY <2>2 DEF LateCommand
  <2>4. PICK g \in Told({"passed"}) : g.kind = "sustained" /\ g.by = f.by /\ g.at = f.at
    BY <2>2 DEF LateCommand
  <2>5. g.at < start + Window
    BY <1>6, <2>1, <2>4, <1>5
  <2>6. g \in G
    BY <1>9, <2>1, <2>4, <2>5 DEF InSpan, Passes, Of, Told
  <2>7. QED
    BY <2>1, <2>3, <2>4, <2>6
<1>13. PICK m : m = [f \in W |-> CHOOSE g \in G : g.by = f.by /\ g.at = f.at]
  OBVIOUS
<1>14. \A f \in W : m[f] \in G /\ m[f].by = f.by
  BY <1>12, <1>13
<1>15. \A f, g \in W : m[f] = m[g] => f = g
  BY <1>12, <1>14 DEF Placed
<1>16. m \in Injection(W, G)
  BY <1>13, <1>14, <1>15 DEF Injection, IsInjective
<1>17. Cardinality(W) <= Cardinality(G)
  BY <1>11, <1>16, FS_Injection
<1>18. MaxOf("burst", t) >= 2 * Limit[t].max /\ Limit[t].max \in Nat /\ MaxOf("burst", t) \in Nat
  BY <1>2 DEF MaxOf, BurstMax
<1>19. QED
  BY <1>4, <1>5, <1>8, <1>10, <1>11, <1>17, <1>18

(* A step keeps that the burst limiter refuses only after such a command.  *)
LEMMA BurstStep ==
  ASSUME TypeOK, TypeOK', Placed, Placed', Counters, Counters', BurstOnlyAfterDelay, [Next]_vars
  PROVE  BurstOnlyAfterDelay'
<1>1. req' = req /\ \A s \in Requests : Route(s)' = Route(s)
  BY GatewaySteps DEF Route
<1>2. \A f \in log : f.by \in Requests /\ f.at \in Nat
  BY DEF TypeOK, Entries
<1>3. \A e \in log : e.told = "refused" /\ e.kind = "burst" => LateCommand(e)
  BY DEF BurstOnlyAfterDelay, LateCommand, Told
<1>4. ASSUME log' = log PROVE BurstOnlyAfterDelay'
  <2>1. \A e \in log : Counted("burst", e.by, e.at - BurstWindow + 1, e.at)'
                         = Counted("burst", e.by, e.at - BurstWindow + 1, e.at)
    BY <1>1, <1>2, <1>4 DEF Counted
  <2>2. Told({"passed"})' = Told({"passed"}) /\ Told({"refused"})' = Told({"refused"})
    BY <1>4 DEF Told
  <2>3. \A e \in Told({"refused"}) : e \in log
    BY DEF Told
  <2>4. QED
    BY <2>1, <2>2, <2>3 DEF BurstOnlyAfterDelay
<1>5. ASSUME NEW r \in Requests, NEW kind \in Kinds, Limits(r, kind) \/ Unheard(r, kind)
      PROVE  BurstOnlyAfterDelay'
  <2>1. PICK t, a, c, d : Command(r, kind, t, a, c, d)
    BY <1>5, LimiterFacts
  <2>2. /\ log' = log \union {d} /\ d.by = r /\ d.kind = kind /\ d.at = now /\ now' = now /\ pc[r] = kind
        /\ d.told = "refused" => c.n > MaxOf(kind, t)
        /\ d \in Entries
    BY <2>1 DEF Command
  <2>3. ASSUME NEW e \in log, e.told = "refused", e.kind = "burst" PROVE LateCommand(e)'
    <3>1. PICK f \in Counted("burst", e.by, e.at - BurstWindow + 1, e.at) :
            \/ f.told = "unheard"
            \/ ~ \E g \in Told({"passed"}) : g.kind = "sustained" /\ g.by = f.by /\ g.at = f.at
      BY <1>3, <2>3 DEF LateCommand
    <3>2. f \in log /\ f.kind = "burst"
      BY <3>1 DEF Counted
    <3>3. f \in Counted("burst", e.by, e.at - BurstWindow + 1, e.at)'
      BY <1>1, <1>2, <2>2, <3>1 DEF Counted
    <3>4. d.kind = "sustained" => d.by # f.by
      BY <2>2, <3>2 DEF Placed
    <3>5. \A g \in Told({"passed"})' : g \in Told({"passed"}) \/ g = d
      BY <2>2 DEF Told
    <3>6. QED
      BY <3>1, <3>3, <3>4, <3>5 DEF LateCommand
  <2>4. ASSUME d.told = "refused", d.kind = "burst" PROVE LateCommand(d)'
    <3>1. (TypeOK /\ Placed /\ Counters => \A e \in log : (\E b : Spike(e, b)) => LateCommand(e))'
      BY SpikeIsLate, PTL
    <3>2. PICK b : b = <<"burst", t, a>>
      OBVIOUS
    <3>3. b \in DOMAIN hits' /\ hits'[b] = c /\ t = Route(r).tier /\ a = req[r].from /\ kind = "burst"
          /\ c = Count(b, BurstWindow)
      BY <2>1, <2>2, <2>4, <3>2 DEF Command, Span
    <3>4. now < c.until
      <4>1. /\ b \in DOMAIN hits /\ now < hits[b].until => c.until = hits[b].until
            /\ ~ (b \in DOMAIN hits /\ now < hits[b].until) => c.until = now + BurstWindow
        BY <3>3, CountFacts
      <4>2. QED
        BY <4>1 DEF TypeOK
    <3>5. Spike(d, b)'
      BY <1>1, <2>2, <2>4, <3>2, <3>3, <3>4 DEF Spike, MaxOf, BurstMax
    <3>6. QED
      BY <2>2, <3>1, <3>5
  <2>5. \A e \in log' : e.told = "refused" /\ e.kind = "burst" => LateCommand(e)'
    BY <2>2, <2>3, <2>4
  <2>6. QED
    BY <2>5 DEF BurstOnlyAfterDelay, LateCommand, Told
<1>6. QED
  BY <1>4, <1>5, GatewaySteps DEF Arrive, LimiterFails, Authenticate, Gate, Handle, Signal, StopServer, Tick, vars

-----------------------------------------------------------------------------
(* A step keeps a request with a revoked key out.                          *)
LEMMA BarredStep ==
  ASSUME TypeOK, Placed, BarredInvalid, RevokedStaysOut, [Next]_vars
  PROVE  BarredInvalid' /\ RevokedStaysOut'
<1>1. req' = req /\ \A s \in Requests : Route(s)' = Route(s)
  BY GatewaySteps DEF Route
<1>2. barred \subseteq Requests
  BY DEF TypeOK
<1>3. ASSUME NEW r \in Requests, Arrive(r) PROVE BarredInvalid' /\ RevokedStaysOut'
  <2>1. /\ pc[r] = "new" /\ answer[r] = 0 /\ UNCHANGED <<answer, valid>>
        /\ barred' = IF req[r].by \in Keys \ valid THEN barred \union {r} ELSE barred
        /\ pc' = [pc EXCEPT ![r] = IF Route(r).tier = "none" THEN "handler" ELSE "sustained"]
    BY <1>3 DEF Arrive, GoTo, Placed
  <2>2. BarredInvalid'
    BY <1>1, <2>1 DEF BarredInvalid
  <2>3. Route(r).gate # "public" => pc'[r] = "sustained"
    BY <2>1, RouteFacts DEF TypeOK
  <2>4. \A s \in Requests \ {r} : pc'[s] = pc[s]
    BY <2>1 DEF TypeOK
  <2>5. QED
    BY <1>1, <1>2, <2>1, <2>2, <2>3, <2>4 DEF RevokedStaysOut
<1>4. ASSUME NEW r \in Requests, UNCHANGED <<valid, barred>>, \A s \in Requests \ {r} : pc'[s] = pc[s] /\ answer'[s] = answer[s],
             r \in barred /\ Route(r).gate # "public" =>
               pc'[r] \notin {"gate", "handler", "hung"} /\ answer'[r] \in {0, 401, 429, 500}
      PROVE  BarredInvalid' /\ RevokedStaysOut'
  BY <1>1, <1>2, <1>4 DEF BarredInvalid, RevokedStaysOut
<1>5. ASSUME NEW r \in Requests, NEW kind \in Kinds, Limits(r, kind) \/ Unheard(r, kind)
      PROVE  BarredInvalid' /\ RevokedStaysOut'
  <2>1. UNCHANGED <<valid, barred>>
    BY <1>5 DEF Limits, Unheard
  <2>2. \A s \in Requests \ {r} : pc'[s] = pc[s] /\ answer'[s] = answer[s]
    BY <1>5 DEF Limits, Unheard, GoTo, Answer, TypeOK
  <2>3. Route(r).gate # "public" => /\ pc'[r] \in Kinds \union {"auth", "done"}
                                   /\ answer'[r] \in {answer[r], 429, 500}
    BY <1>5 DEF Limits, Unheard, GoTo, Answer, TypeOK, Kinds
  <2>4. QED
    BY <1>4, <2>1, <2>2, <2>3 DEF RevokedStaysOut, Kinds
<1>6. ASSUME NEW r \in Requests, LimiterFails(r) PROVE BarredInvalid' /\ RevokedStaysOut'
  BY <1>4, <1>6 DEF LimiterFails, Answer, TypeOK
<1>7. ASSUME NEW r \in Requests, Authenticate(r) PROVE BarredInvalid' /\ RevokedStaysOut'
  <2>1. UNCHANGED <<valid, barred>> /\ \A s \in Requests \ {r} : pc'[s] = pc[s] /\ answer'[s] = answer[s]
    BY <1>7 DEF Authenticate, GoTo, Answer, TypeOK
  <2>2. r \in barred => ~ Known(req[r].by)
    BY DEF BarredInvalid, Known
  <2>3. ~ Known(req[r].by) => pc'[r] = "done" /\ answer'[r] \in {401, 500}
    BY <1>7 DEF Authenticate, Answer, TypeOK
  <2>4. QED
    BY <1>4, <2>1, <2>2, <2>3
<1>8. ASSUME NEW r \in Requests, Gate(r) PROVE BarredInvalid' /\ RevokedStaysOut'
  <2>1. UNCHANGED <<valid, barred>> /\ \A s \in Requests \ {r} : pc'[s] = pc[s] /\ answer'[s] = answer[s]
    BY <1>8 DEF Gate, CheckScope, RequireRole, Breaker, Open, Unhandled, GoTo, Answer, TypeOK
  <2>2. r \in barred => Route(r).gate = "public"
    BY <1>8 DEF Gate, RevokedStaysOut
  <2>3. QED
    BY <1>4, <2>1, <2>2
<1>9. ASSUME NEW r \in Requests, Handle(r) PROVE BarredInvalid' /\ RevokedStaysOut'
  <2>1. /\ barred' = barred /\ valid' \subseteq valid
        /\ \A s \in Requests \ {r} : pc'[s] = pc[s] /\ answer'[s] = answer[s]
    BY <1>9 DEF Handle, Unhandled, GoTo, Answer, TypeOK
  <2>2. r \in barred => Route(r).gate = "public"
    BY <1>9 DEF Handle, RevokedStaysOut
  <2>3. QED
    BY <1>1, <1>2, <2>1, <2>2 DEF BarredInvalid, RevokedStaysOut
<1>10. CASE StopServer
  <2>1. UNCHANGED <<answer, valid, barred>> /\ \A s \in Requests : pc'[s] \in {pc[s], "cut"}
    BY <1>10 DEF StopServer
  <2>2. QED
    BY <1>1, <1>2, <2>1 DEF BarredInvalid, RevokedStaysOut
<1>11. CASE Signal \/ Tick \/ UNCHANGED vars
  <2>1. UNCHANGED <<pc, answer, valid, barred>>
    BY <1>11 DEF Signal, Tick, vars
  <2>2. QED
    BY <1>1, <1>2, <2>1 DEF BarredInvalid, RevokedStaysOut
<1>12. QED
  BY <1>3, <1>5, <1>6, <1>7, <1>8, <1>9, <1>10, <1>11, GatewaySteps

-----------------------------------------------------------------------------
(* The inductive invariant                                                 *)

LEMMA InitInv == Init => IInv
<1> SUFFICES ASSUME Init PROVE IInv
  OBVIOUS
<1>1. log = {} /\ barred = {} /\ DOMAIN hits = {}
  BY DEF Init
<1>2. TypeOK
  BY <1>1 DEF Init, TypeOK
<1>3. Placed
  BY <1>1, FS_EmptySet DEF Init, Placed, Kinds
<1>4. ASSUME NEW kind \in Kinds, NEW t \in DOMAIN Limit, NEW a PROVE CounterOK(kind, t, a)
  <2>1. Of(kind, t, a) = {}
    BY <1>1 DEF Of
  <2>2. \A x, y : InSpan(Passes({}), x, y) = {}
    BY DEF InSpan, Passes
  <2>3. \A x, y : Cardinality(InSpan(Passes({}), x, y)) = 0
    BY <2>2, FS_EmptySet, Zenon
  <2>4. SpansBounded({}, Span(kind), MaxOf(kind, t)) /\ Caused({}, Span(kind), MaxOf(kind, t))
    BY <2>3, SpanFacts DEF SpansBounded, Caused
  <2>5. <<kind, t, a>> \notin DOMAIN hits
    BY <1>1
  <2>6. QED
    BY <2>1, <2>4, <2>5, Zenon DEF CounterOK
<1>5. QED
  BY <1>1, <1>2, <1>3, <1>4 DEF IInv, Counters, BurstOnlyAfterDelay, Told, BarredInvalid, RevokedStaysOut

LEMMA InvStep == IInv /\ [Next]_vars => IInv'
<1> SUFFICES ASSUME IInv, [Next]_vars PROVE IInv'
  OBVIOUS
<1>1. TypeOK' /\ Placed'
  BY TypeStep, PlacedStep DEF IInv
<1>2. Counters'
  BY <1>1, CountersStep DEF IInv
<1>3. BurstOnlyAfterDelay'
  BY <1>1, <1>2, BurstStep DEF IInv
<1>4. BarredInvalid' /\ RevokedStaysOut'
  BY BarredStep DEF IInv
<1>5. QED
  BY <1>1, <1>2, <1>3, <1>4 DEF IInv

LEMMA Invariant == Spec => []IInv
BY InitInv, InvStep, PTL DEF Spec

(* An entry of the log is of a bucket whose counter is right.              *)
LEMMA EntryFacts ==
  ASSUME IInv, NEW e \in log, NEW t, t = Route(e.by).tier, NEW a, a = req[e.by].from
  PROVE  e.kind \in Kinds /\ t \in DOMAIN Limit /\ e.at \in Nat /\ CounterOK(e.kind, t, a)
<1>1. e.kind \in Kinds /\ e.by \in Requests /\ e.at \in Nat
  BY DEF IInv, TypeOK, Entries
<1>2. t \in DOMAIN Limit /\ a \in Addresses
  BY <1>1, RouteFacts DEF IInv, Placed, Addresses
<1>3. QED
  BY <1>1, <1>2 DEF IInv, Counters

LEMMA SpansKept == IInv => SpanBound
<1> SUFFICES ASSUME IInv, NEW e \in log, e.told = "passed", e.kind = "sustained"
             PROVE  Cardinality(Counted("sustained", e.by, e.at, e.at + Window - 1) \intersect Told({"passed"}))
                      <= 2 * Limit[Route(e.by).tier].max
  BY DEF SpanBound, Told
<1>1. PICK t, a : t = Route(e.by).tier /\ a = req[e.by].from
  OBVIOUS
<1>2. e.at \in Nat /\ CounterOK("sustained", t, a)
  BY <1>1, EntryFacts
<1>3. Cardinality(InSpan(Passes(Of("sustained", t, a)), e.at, e.at + Window)) <= 2 * Limit[t].max
  BY <1>2 DEF CounterOK, SpansBounded, Span, MaxOf
<1>4. \A f \in log : f.at \in Int
  BY DEF IInv, TypeOK, Entries
<1>5. Counted("sustained", e.by, e.at, e.at + Window - 1) \intersect Told({"passed"})
        = InSpan(Passes(Of("sustained", t, a)), e.at, e.at + Window)
  BY <1>1, <1>2, <1>4 DEF Counted, Told, InSpan, Passes, Of
<1>6. QED
  BY <1>1, <1>3, <1>5

LEMMA CausesKept == IInv => RefusedForCause
<1> SUFFICES ASSUME IInv, NEW e \in log, e.told = "refused"
             PROVE  Cardinality(Counted(e.kind, e.by, e.at - Span(e.kind) + 1, e.at) \intersect Told({"passed", "unheard"}))
                      >= MaxOf(e.kind, Route(e.by).tier)
  BY DEF RefusedForCause, Told
<1>1. PICK t, a : t = Route(e.by).tier /\ a = req[e.by].from
  OBVIOUS
<1>2. e.kind \in Kinds /\ e.at \in Nat /\ CounterOK(e.kind, t, a)
  BY <1>1, EntryFacts
<1>3. PICK span : span = Span(e.kind) /\ span \in Nat
  BY <1>2, SpanFacts
<1>4. e \in Of(e.kind, t, a)
  BY <1>1 DEF Of
<1>5. Cardinality(InSpan(NotRefused(Of(e.kind, t, a)), e.at - span + 1, e.at + 1)) >= MaxOf(e.kind, t)
  BY <1>2, <1>3, <1>4 DEF CounterOK, Caused
<1>6. \A f \in log : f.at \in Int /\ (f.told # "refused" <=> f.told \in {"passed", "unheard"})
  BY DEF IInv, TypeOK, Entries
<1>7. Counted(e.kind, e.by, e.at - span + 1, e.at) \intersect Told({"passed", "unheard"})
        = InSpan(NotRefused(Of(e.kind, t, a)), e.at - span + 1, e.at + 1)
  BY <1>1, <1>2, <1>3, <1>6 DEF Counted, Told, InSpan, NotRefused, Of
<1>8. QED
  BY <1>1, <1>3, <1>5, <1>7

(* The variables of ApiGateway keep their types.                           *)
THEOREM GatewayTypesHold == Spec => []TypeOK
<1>1. IInv => TypeOK
  BY DEF IInv
<1>2. QED
  BY <1>1, Invariant, PTL

(* In no span as long as the window does the sustained limiter let more    *)
(* than twice its limit through, and a refusal by either limiter follows   *)
(* as many counts within its window as its limit.                          *)
THEOREM LimitsAreKept == Spec => []LimitsKept
<1>1. IInv => LimitsKept
  BY SpansKept, CausesKept DEF LimitsKept
<1>2. QED
  BY <1>1, Invariant, PTL

(* The burst limiter refuses only after a command that was repeated or     *)
(* came later than the sustained limiter's.                                *)
THEOREM BurstNeedsDelay == Spec => []BurstOnlyAfterDelay
<1>1. IInv => BurstOnlyAfterDelay
  BY DEF IInv
<1>2. QED
  BY <1>1, Invariant, PTL

(* A request that comes with a key revoked before stays out.               *)
THEOREM RevocationHolds == Spec => []RevokedStaysOut
<1>1. IInv => RevokedStaysOut
  BY DEF IInv
<1>2. QED
  BY <1>1, Invariant, PTL

-----------------------------------------------------------------------------
(* The breaker that the gate of POST /jobs asks (RunawayBreaker): its type *)
(* invariant, the number of requests that pass in a window, that a refusal *)
(* has a cause, and that no request extends the window.                    *)

USE PostsAssumption, ThresholdAssumption, WindowSecondsAssumption

(* A key exists as long as it has a time to live.                          *)
KeyLives == count = 0 <=> ttl = 0

(* A request that is about to set the limit has created the key, which has *)
(* none yet; so there is one such request at most.                         *)
OneSetsLimit ==
  /\ \A r \in Posts : place[r] = "expire" => ttl = NoLimit
  /\ \A r, s \in Posts : place[r] = "expire" /\ place[s] = "expire" => r = s

(* That is so until an EXPIRE is sent again.                               *)
LimitSetOnce == Twice("expire") = {} => OneSetsLimit

(* Those that the present key has let through, or is about to.             *)
Through == {r \in counted : place[r] \in {"passed", "expire"}}

ThroughCounted == Cardinality(Through) <= count /\ Cardinality(Through) <= Threshold

KeyInv == BreakerTypeOK /\ KeyLives /\ LimitSetOnce /\ ThroughCounted

(* A request that was counted and is still to be counted was sent again.   *)
CountedAgain == \A r \in counted : place[r] \in {"new", "incr"} => r \in Twice("incr")

(* Without repetitions the key counts requests.                            *)
CountIsExact == counted \intersect Twice("incr") = {} => count = Cardinality(counted)

(* The key that refused a request has passed the threshold, and a key does *)
(* not go down before it goes away.                                        *)
RefusedOver == (\E r \in counted : place[r] = "blocked") => count > Threshold

CauseInv == CountedAgain /\ CountIsExact /\ RefusedOver

-----------------------------------------------------------------------------
(* The sets that are counted are finite.                                   *)
LEMMA FiniteThrough ==
  ASSUME BreakerTypeOK
  PROVE  IsFiniteSet(Through) /\ Cardinality(Through) \in Nat
<1>1. Through \subseteq Posts
  BY DEF Through, BreakerTypeOK
<1>2. QED
  BY <1>1, FS_Subset, FS_CardinalityType

(* A step that lets nobody else through and does not lower the count.      *)
LEMMA NoMoreThrough ==
  ASSUME BreakerTypeOK, BreakerTypeOK', ThroughCounted, Through' \subseteq Through, count' >= count
  PROVE  ThroughCounted'
<1>1. IsFiniteSet(Through) /\ Cardinality(Through) \in Nat
  BY FiniteThrough
<1>2. Cardinality(Through') <= Cardinality(Through) /\ Cardinality(Through') \in Nat
  BY <1>1, FS_Subset, FS_CardinalityType
<1>3. QED
  BY <1>1, <1>2 DEF ThroughCounted, BreakerTypeOK

(* A step keeps the types.                                                 *)
LEMMA KeyTypeStep ==
  ASSUME BreakerTypeOK, [BreakerNext]_breakerVars
  PROVE  BreakerTypeOK'
<1> USE DEF BreakerTypeOK, Settled, NoLimit
<1>1. ASSUME NEW r \in Posts, Enter(r) PROVE BreakerTypeOK'
  BY <1>1 DEF Enter, MoveTo
<1>2. ASSUME NEW r \in Posts, Incr(r) PROVE BreakerTypeOK'
  <2>1. place' \in [Posts -> {"new", "incr", "expire"} \union Settled]
    BY <1>2 DEF Incr, MoveTo, IsFirst, Verdict
  <2>2. maker' \subseteq counted'
    BY <1>2 DEF Incr, CountUp
  <2>3. QED
    BY <1>2, <2>1, <2>2 DEF Incr, CountUp
<1>3. ASSUME NEW r \in Posts, Expire(r) PROVE BreakerTypeOK'
  <2>1. ttl' \in 0 .. NoLimit
    BY <1>3 DEF Expire, SetLimit
  <2>2. Verdict(1) \in Settled
    BY DEF Verdict
  <2>3. place' \in [Posts -> {"new", "incr", "expire"} \union Settled]
    BY <1>3, <2>2 DEF Expire, MoveTo
  <2>4. QED
    BY <1>3, <2>1, <2>3 DEF Expire, SetLimit
<1>4. ASSUME NEW r \in Posts, FailOpen(r) \/ Crash(r) PROVE BreakerTypeOK'
  BY <1>4 DEF FailOpen, Crash, MoveTo
<1>5. ASSUME NEW r \in Posts, LoseAnswer(r) PROVE BreakerTypeOK'
  <2>1. place[r] \in {"incr", "expire"}
    BY <1>5 DEF LoseAnswer, CountUp, SetLimit
  <2>2. resent' \subseteq Posts \X {"incr", "expire"}
    BY <1>5, <2>1 DEF LoseAnswer
  <2>3. /\ count' \in Nat /\ ttl' \in 0 .. NoLimit
        /\ counted' \subseteq Posts /\ maker' \subseteq counted'
    BY <1>5 DEF LoseAnswer, CountUp, SetLimit
  <2>4. QED
    BY <1>5, <2>2, <2>3 DEF LoseAnswer
<1>6. CASE KeyTick
  <2>1. ttl' \in 0 .. NoLimit
    BY <1>6 DEF KeyTick
  <2>2. QED
    BY <1>6, <2>1 DEF KeyTick
<1>7. CASE Outage
  BY <1>7 DEF Outage
<1>8. CASE UNCHANGED breakerVars
  BY <1>8 DEF breakerVars
<1>9. QED
  BY <1>1, <1>2, <1>3, <1>4, <1>5, <1>6, <1>7, <1>8 DEF BreakerNext

(* A key has a time to live after each step, too.                          *)
LEMMA LivesStep ==
  ASSUME BreakerTypeOK, KeyLives, [BreakerNext]_breakerVars
  PROVE  KeyLives'
<1> USE DEF BreakerTypeOK, NoLimit, KeyLives
<1>1. ASSUME NEW r \in Posts, NEW told, CountUp(r, told) PROVE KeyLives'
  BY <1>1 DEF CountUp
<1>2. ASSUME NEW r \in Posts, SetLimit(r) PROVE KeyLives'
  BY <1>2 DEF SetLimit
<1>3. ASSUME NEW r \in Posts, Enter(r) \/ FailOpen(r) \/ Crash(r) PROVE KeyLives'
  BY <1>3 DEF Enter, FailOpen, Crash
<1>4. ASSUME NEW r \in Posts, Incr(r) \/ Expire(r) \/ LoseAnswer(r) PROVE KeyLives'
  BY <1>1, <1>2, <1>4 DEF Incr, Expire, LoseAnswer
<1>5. CASE KeyTick
  BY <1>5 DEF KeyTick
<1>6. CASE Outage \/ UNCHANGED breakerVars
  BY <1>6 DEF Outage, breakerVars
<1>7. QED
  BY <1>3, <1>4, <1>5, <1>6 DEF BreakerNext

(* As long as no EXPIRE is sent again, one request sets the limit.         *)
LEMMA LimitStep ==
  ASSUME BreakerTypeOK, KeyLives, LimitSetOnce, [BreakerNext]_breakerVars
  PROVE  LimitSetOnce'
<1>1. SUFFICES ASSUME Twice("expire")' = {} PROVE OneSetsLimit'
  BY DEF LimitSetOnce
<1>2. resent \subseteq resent'
  BY DEF BreakerNext, Enter, Incr, Expire, FailOpen, LoseAnswer, Crash, Outage, KeyTick, breakerVars
<1>3. Twice("expire") = {}
  BY <1>1, <1>2 DEF Twice
<1>4. OneSetsLimit
  BY <1>3 DEF LimitSetOnce
<1> USE DEF BreakerTypeOK, Settled, NoLimit, KeyLives, OneSetsLimit
<1>5. ASSUME NEW r \in Posts, Enter(r) PROVE OneSetsLimit'
  BY <1>4, <1>5 DEF Enter, MoveTo
<1>6. ASSUME NEW r \in Posts, Incr(r) PROVE OneSetsLimit'
  <2>1. CASE count = 0
    <3>1. \A s \in Posts : place[s] # "expire"
      BY <1>4, <2>1
    <3>2. ttl' = NoLimit
      BY <1>6, <2>1 DEF Incr, CountUp
    <3>3. \A s \in Posts : place'[s] = "expire" => s = r
      BY <1>6, <3>1 DEF Incr, MoveTo
    <3>4. QED
      BY <3>2, <3>3
  <2>2. CASE count # 0
    <3>1. ttl' = ttl
      BY <1>6, <2>2 DEF Incr, CountUp
    <3>2. place'[r] # "expire"
      BY <1>6, <2>2 DEF Incr, MoveTo, IsFirst, Verdict
    <3>3. \A s \in Posts \ {r} : place'[s] = place[s]
      BY <1>6 DEF Incr, MoveTo
    <3>4. QED
      BY <1>4, <3>1, <3>2, <3>3
  <2>3. QED
    BY <2>1, <2>2
<1>7. ASSUME NEW r \in Posts, Expire(r) PROVE OneSetsLimit'
  <2>1. place[r] = "expire"
    BY <1>7 DEF Expire, SetLimit
  <2>2. place'[r] # "expire" /\ \A s \in Posts \ {r} : place'[s] = place[s]
    BY <1>7 DEF Expire, MoveTo, Verdict
  <2>3. QED
    BY <1>4, <2>1, <2>2
<1>8. ASSUME NEW r \in Posts, FailOpen(r) \/ Crash(r) PROVE OneSetsLimit'
  BY <1>4, <1>8 DEF FailOpen, Crash, MoveTo
<1>9. ASSUME NEW r \in Posts, LoseAnswer(r) PROVE OneSetsLimit'
  <2>1. place[r] # "expire"
    BY <1>1, <1>9 DEF LoseAnswer, Twice
  <2>2. CountUp(r, {}) /\ place' = place
    BY <1>9, <2>1 DEF LoseAnswer, SetLimit
  <2>3. QED
    BY <1>4, <2>2 DEF CountUp
<1>10. CASE KeyTick
  BY <1>4, <1>10 DEF KeyTick
<1>11. CASE Outage \/ UNCHANGED breakerVars
  BY <1>4, <1>11 DEF Outage, breakerVars
<1>12. QED
  BY <1>5, <1>6, <1>7, <1>8, <1>9, <1>10, <1>11 DEF BreakerNext

(* A step keeps the number of those let through within the count and the   *)
(* threshold: the only one who adds to it was counted in the same step.    *)
LEMMA ThroughStep ==
  ASSUME KeyInv, BreakerTypeOK', [BreakerNext]_breakerVars
  PROVE  ThroughCounted'
<1> USE DEF KeyInv
<1>1. ASSUME NEW r \in Posts, Enter(r) \/ FailOpen(r) \/ Crash(r) \/ LoseAnswer(r) \/ Expire(r)
      PROVE  ThroughCounted'
  <2>1. Through' \subseteq Through
    BY <1>1 DEF Enter, FailOpen, Crash, LoseAnswer, Expire, CountUp, SetLimit, MoveTo, Verdict, Through, BreakerTypeOK
  <2>2. count' >= count
    BY <1>1 DEF Enter, FailOpen, Crash, LoseAnswer, Expire, CountUp, SetLimit, BreakerTypeOK
  <2>3. QED
    BY <2>1, <2>2, NoMoreThrough
<1>2. ASSUME NEW r \in Posts, Incr(r) PROVE ThroughCounted'
  <2>1. CASE count + 1 > Threshold
    <3>1. Through' \subseteq Through
      BY <1>2, <2>1 DEF Incr, CountUp, MoveTo, IsFirst, Verdict, Through, BreakerTypeOK
    <3>2. count' >= count
      BY <1>2 DEF Incr, CountUp, BreakerTypeOK
    <3>3. QED
      BY <3>1, <3>2, NoMoreThrough
  <2>2. CASE count + 1 <= Threshold
    <3>1. Through' = Through \union {r} /\ r \notin Through
      BY <1>2, <2>2 DEF Incr, CountUp, MoveTo, IsFirst, Verdict, Through, BreakerTypeOK
    <3>2. Cardinality(Through') = Cardinality(Through) + 1 /\ Cardinality(Through) \in Nat
      BY <3>1, FiniteThrough, FS_AddElement
    <3>3. count' = count + 1
      BY <1>2 DEF Incr, CountUp
    <3>4. QED
      BY <2>2, <3>2, <3>3 DEF ThroughCounted, BreakerTypeOK
  <2>3. QED
    BY <2>1, <2>2 DEF BreakerTypeOK
<1>3. CASE KeyTick
  <2>1. CASE ttl = 1
    <3>1. Through' = {} /\ count' = 0
      BY <1>3, <2>1 DEF KeyTick, Through
    <3>2. QED
      BY <3>1, FS_EmptySet DEF ThroughCounted
  <2>2. CASE ttl # 1
    BY <1>3, <2>2, NoMoreThrough DEF KeyTick, Through, BreakerTypeOK
  <2>3. QED
    BY <2>1, <2>2
<1>4. CASE Outage \/ UNCHANGED breakerVars
  BY <1>4, NoMoreThrough DEF Outage, breakerVars, Through, BreakerTypeOK
<1>5. QED
  BY <1>1, <1>2, <1>3, <1>4 DEF BreakerNext

(* A step keeps the facts about what is counted and what is refused: INCR  *)
(* counts a request that it has not counted, or one that was sent again.   *)
LEMMA CauseStep ==
  ASSUME BreakerTypeOK, BreakerTypeOK', CauseInv, [BreakerNext]_breakerVars
  PROVE  CauseInv'
<1> USE DEF BreakerTypeOK, CauseInv, CountedAgain, CountIsExact, RefusedOver
<1>1. ASSUME NEW r \in Posts, Enter(r) \/ FailOpen(r) \/ Crash(r) \/ Expire(r)
      PROVE  CauseInv'
  <2>1. UNCHANGED <<count, counted, resent>>
    BY <1>1 DEF Enter, FailOpen, Crash, Expire, SetLimit
  <2>2. \A s \in Posts : place'[s] = "blocked" => place[s] = "blocked"
    BY <1>1, ThresholdAssumption DEF Enter, FailOpen, Crash, Expire, MoveTo, Verdict
  <2>3. \A s \in Posts : place'[s] \in {"new", "incr"} => place[s] \in {"new", "incr"}
    BY <1>1 DEF Enter, FailOpen, Crash, Expire, MoveTo, Verdict
  <2>4. Twice("incr")' = Twice("incr")
    BY <2>1 DEF Twice
  <2>5. QED
    BY <2>1, <2>2, <2>3, <2>4
<1>2. ASSUME NEW r \in Posts, Incr(r) PROVE CauseInv'
  <2>1. count' = count + 1 /\ counted' = counted \union {r} /\ Twice("incr")' = Twice("incr")
    BY <1>2 DEF Incr, CountUp, Twice
  <2>2. place[r] = "incr" /\ place'[r] \notin {"new", "incr"}
    BY <1>2 DEF Incr, CountUp, MoveTo, Verdict
  <2>3. \A s \in Posts \ {r} : place'[s] = place[s]
    BY <1>2 DEF Incr, MoveTo
  <2>4. CountedAgain'
    BY <2>1, <2>2, <2>3
  <2>5. CountIsExact'
    <3>1. SUFFICES ASSUME counted' \intersect Twice("incr")' = {}
                   PROVE  count' = Cardinality(counted')
      OBVIOUS
    <3>2. r \notin counted /\ counted \intersect Twice("incr") = {}
      BY <2>1, <2>2, <3>1
    <3>3. IsFiniteSet(counted)
      BY FS_Subset
    <3>4. Cardinality(counted') = Cardinality(counted) + 1
      BY <2>1, <3>2, <3>3, FS_AddElement
    <3>5. QED
      BY <2>1, <3>2, <3>4
  <2>6. RefusedOver'
    <3>1. place'[r] = "blocked" => count' > Threshold
      BY <1>2, <2>1 DEF Incr, MoveTo, Verdict
    <3>2. QED
      BY <2>1, <2>3, <3>1
  <2>7. QED
    BY <2>4, <2>5, <2>6
<1>3. ASSUME NEW r \in Posts, LoseAnswer(r), CountUp(r, {}) PROVE CauseInv'
  <2>1. count' = count + 1 /\ counted' = counted \union {r} /\ place' = place
    BY <1>3 DEF LoseAnswer, CountUp
  <2>2. place[r] = "incr" /\ Twice("incr")' = Twice("incr") \union {r}
    BY <1>3 DEF LoseAnswer, CountUp, Twice
  <2>3. CountedAgain'
    BY <2>1, <2>2
  <2>4. CountIsExact'
    BY <2>1, <2>2
  <2>5. RefusedOver'
    BY <2>1, <2>2
  <2>6. QED
    BY <2>3, <2>4, <2>5
<1>7. ASSUME NEW r \in Posts, LoseAnswer(r), SetLimit(r) PROVE CauseInv'
  <2>1. UNCHANGED <<count, counted, place>>
    BY <1>7 DEF LoseAnswer, SetLimit
  <2>2. Twice("incr")' = Twice("incr")
    BY <1>7 DEF LoseAnswer, SetLimit, Twice
  <2>3. QED
    BY <2>1, <2>2
<1>4. CASE KeyTick
  <2>1. CASE ttl = 1
    BY <1>4, <2>1, FS_EmptySet DEF KeyTick
  <2>2. CASE ttl # 1
    BY <1>4, <2>2 DEF KeyTick, Twice
  <2>3. QED
    BY <2>1, <2>2
<1>5. CASE Outage \/ UNCHANGED breakerVars
  BY <1>5 DEF Outage, breakerVars, Twice
<1>6. QED
  BY <1>1, <1>2, <1>3, <1>4, <1>5, <1>7 DEF BreakerNext, LoseAnswer

-----------------------------------------------------------------------------
(* The inductive invariant.                                                *)
LEMMA KeyInvariant == BreakerSpec => []KeyInv
<1>1. BreakerInit => KeyInv
  <2> SUFFICES ASSUME BreakerInit PROVE KeyInv
    OBVIOUS
  <2>1. BreakerTypeOK /\ KeyLives /\ LimitSetOnce
    BY DEF BreakerInit, BreakerTypeOK, KeyLives, LimitSetOnce, OneSetsLimit, NoLimit, Settled
  <2>2. Through = {} /\ count = 0
    BY DEF BreakerInit, Through
  <2>3. ThroughCounted
    BY <2>2, FS_EmptySet DEF ThroughCounted
  <2>4. QED
    BY <2>1, <2>3 DEF KeyInv
<1>2. KeyInv /\ [BreakerNext]_breakerVars => KeyInv'
  BY KeyTypeStep, LivesStep, LimitStep, ThroughStep DEF KeyInv
<1>3. QED
  BY <1>1, <1>2, PTL DEF BreakerSpec

(* The variables of RunawayBreaker keep their types.                       *)
THEOREM BreakerTypes == BreakerSpec => []BreakerTypeOK
<1>1. KeyInv => BreakerTypeOK
  BY DEF KeyInv
<1>2. QED
  BY <1>1, KeyInvariant, PTL

(* At most Threshold of the requests that one key counts pass on its word, *)
(* with crashes, errors, outages and repeated commands.                    *)
THEOREM AtMostThresholdPass == BreakerSpec => []PassedPerWindow
<1>1. KeyInv => PassedPerWindow
  <2> SUFFICES ASSUME KeyInv PROVE PassedPerWindow
    OBVIOUS
  <2> DEFINE P == {r \in counted : place[r] = "passed"}
  <2>1. P \subseteq Through
    BY DEF Through
  <2>2. IsFiniteSet(Through) /\ Cardinality(Through) \in Nat
    BY FiniteThrough DEF KeyInv
  <2>3. Cardinality(P) <= Cardinality(Through) /\ Cardinality(P) \in Nat
    BY <2>1, <2>2, FS_Subset, FS_CardinalityType
  <2>4. QED
    BY <2>2, <2>3 DEF KeyInv, ThroughCounted, PassedPerWindow
<1>2. QED
  BY <1>1, KeyInvariant, PTL

(* As long as no request was counted twice, a refusal means that the key   *)
(* counted more requests than the threshold: the first ones are let pass.  *)
THEOREM RefusalHasCause == BreakerSpec => []BlockedForCause
<1>1. BreakerInit => CauseInv
  BY FS_EmptySet DEF BreakerInit, CauseInv, CountedAgain, CountIsExact, RefusedOver
<1>2. BreakerTypeOK /\ BreakerTypeOK' /\ CauseInv /\ [BreakerNext]_breakerVars => CauseInv'
  BY CauseStep
<1>3. CauseInv => BlockedForCause
  BY DEF CauseInv, CountIsExact, RefusedOver, BlockedForCause
<1>4. QED
  BY <1>1, <1>2, <1>3, BreakerTypes, PTL DEF BreakerSpec

(* Once set, the limit of a key is not extended by any request, as long as *)
(* no EXPIRE is sent again.                                                *)
THEOREM LimitIsKept == BreakerSpec => LimitOnlyShrinks
<1>1. KeyInv /\ [BreakerNext]_breakerVars
      => [(ttl \in 1 .. WindowSeconds) /\ Twice("expire") = {} => ttl' < ttl \/ UNCHANGED ttl]_breakerVars
  <2> SUFFICES ASSUME KeyInv, [BreakerNext]_breakerVars, ttl \in 1 .. WindowSeconds, Twice("expire") = {}
               PROVE  ttl' < ttl \/ ttl' = ttl
    OBVIOUS
  <2>1. OneSetsLimit
    BY DEF KeyInv, LimitSetOnce
  <2>2. ASSUME NEW r \in Posts, SetLimit(r) PROVE FALSE
    BY <2>1, <2>2 DEF OneSetsLimit, SetLimit, NoLimit
  <2>3. ASSUME NEW r \in Posts, NEW told, CountUp(r, told) PROVE ttl' = ttl
    BY <2>3 DEF KeyInv, KeyLives, CountUp
  <2>4. ASSUME NEW r \in Posts, Incr(r) \/ Expire(r) \/ LoseAnswer(r) PROVE ttl' = ttl
    BY <2>2, <2>3, <2>4 DEF Incr, Expire, LoseAnswer
  <2>5. CASE KeyTick
    BY <2>5 DEF KeyTick
  <2>6. QED
    BY <2>4, <2>5 DEF BreakerNext, Enter, FailOpen, Crash, Outage, breakerVars
<1>2. QED
  BY <1>1, KeyInvariant, PTL DEF BreakerSpec, LimitOnlyShrinks
=============================================================================
