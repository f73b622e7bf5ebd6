---------------------------- MODULE OfflineProofs ----------------------------
(***************************************************************************)
(* Proofs about Offline for any number of parse workers, any files and any *)
(* edits: how often the race for the anchor cache has a file read, that    *)
(* the verdicts are true, how headings are numbered, and that the two ways *)
(* to look for a section agree.  The passes over the lines are folds: the  *)
(* first part brings induction to them.                                    *)
(***************************************************************************)
EXTENDS Offline, FiniteSetTheorems, TLAPS

-----------------------------------------------------------------------------
(* Numbers, and folds over 1..n.                                           *)

\* Pairs of numbers in order.
Less == {p \in Nat \X Nat : p[1] < p[2]}

\* A set of numbers has a least element.
LEMMA Least ==
  ASSUME NEW S \in SUBSET Nat, S # {}
  PROVE  \E m \in S : \A k \in S : m <= k
<1>1. IsWellFoundedOn(Less, Nat) BY NatLessThanWellFounded DEF OpToRel, Less
<1>2. PICK m \in S : \A k \in S : <<k, m>> \notin Less BY <1>1, WFMin
<1>3. \A k \in S : m <= k
  <2> SUFFICES ASSUME NEW k \in S, k < m PROVE FALSE OBVIOUS
  <2>1. <<k, m>> \in Less BY DEF Less
  <2> QED BY <1>2, <2>1
<1> QED BY <1>3

\* Induction over a set of numbers.
LEMMA Induction ==
  ASSUME NEW S, 0 \in S, \A n \in Nat : n \in S => n + 1 \in S
  PROVE  \A n \in Nat : n \in S
<1> SUFFICES ASSUME NEW n \in Nat, n \notin S PROVE FALSE OBVIOUS
<1> DEFINE T == Nat \ S
<1>1. PICK m \in T : \A k \in T : m <= k BY Least
<1>2. m - 1 \in Nat /\ m - 1 \notin T BY <1>1
<1> QED BY <1>2

\* The maximum of some of the numbers up to n.
LEMMA MaxOfSome ==
  ASSUME NEW n \in Nat, NEW s \in SUBSET (1..n), s # {}
  PROVE  Max(s) \in s /\ \A y \in s : Max(s) >= y
<1> DEFINE U == {m \in Nat : \A y \in s : y <= m}
<1>1. PICK m \in U : \A k \in U : m <= k
  <2>1. n \in U OBVIOUS
  <2> QED BY <2>1, Least
<1>2. m \in s
  <2> SUFFICES ASSUME m \notin s PROVE FALSE OBVIOUS
  <2>1. \A y \in s : y \in Nat /\ y <= m /\ y # m /\ y > 0 BY <1>1
  <2>2. PICK y \in s : TRUE OBVIOUS
  <2>3. m - 1 \in Nat BY <2>1, <2>2
  <2>4. \A x \in s : x <= m - 1 BY <2>1
  <2>5. m - 1 \in U BY <2>3, <2>4
  <2> QED BY <1>1, <2>5
<1>3. \A y \in s : m >= y BY <1>1
<1>4. m \in s /\ \A y \in s : m >= y BY <1>2, <1>3
<1>5. \A x : x \in s /\ (\A y \in s : x >= y) => x = m BY <1>4
<1> QED BY <1>4, <1>5 DEF Max

\* What a fold over the sets of numbers up to k computes: a table in A.
Folding(g, k, A, base, step) ==
  /\ g \in [SUBSET (1..k) -> A]
  /\ \A s \in SUBSET (1..k) :
       g[s] = IF s = {} THEN base ELSE step[<<g[s \ {Max(s)}], Max(s)>>]

\* There is such a table, entry by entry.
LEMMA FoldExists ==
  ASSUME NEW n \in Nat, NEW A, NEW base \in A, NEW step \in [A \X (1..n) -> A]
  PROVE  \E g : Folding(g, n, A, base, step)
<1> DEFINE K == {k \in Nat : k <= n => \E g : Folding(g, k, A, base, step)}
<1>1. 0 \in K
  <2> DEFINE g == [s \in SUBSET (1..0) |-> base]
  <2>1. Folding(g, 0, A, base, step) BY DEF Folding
  <2> QED BY <2>1
<1>2. ASSUME NEW k \in Nat, k \in K PROVE k + 1 \in K
  <2> SUFFICES ASSUME k + 1 <= n PROVE \E g : Folding(g, k + 1, A, base, step)
      OBVIOUS
  <2>1. PICK g : Folding(g, k, A, base, step) BY <1>2
  <2> DEFINE h == [s \in SUBSET (1..(k + 1)) |->
                     IF k + 1 \in s THEN step[<<g[s \ {k + 1}], k + 1>>] ELSE g[s]]
  <2>2. \A s \in SUBSET (1..(k + 1)) : s \ {k + 1} \in SUBSET (1..k) OBVIOUS
  <2>3. h \in [SUBSET (1..(k + 1)) -> A]
    <3>1. \A s \in SUBSET (1..(k + 1)) : k + 1 \in s => step[<<g[s \ {k + 1}], k + 1>>] \in A
      BY <2>1, <2>2 DEF Folding
    <3>2. \A s \in SUBSET (1..(k + 1)) : k + 1 \notin s => g[s] \in A
      BY <2>1, <2>2 DEF Folding
    <3> QED BY <3>1, <3>2
  <2>4. \A s \in SUBSET (1..k) : h[s] = g[s] OBVIOUS
  <2>5. ASSUME NEW s \in SUBSET (1..(k + 1))
        PROVE  h[s] = IF s = {} THEN base ELSE step[<<h[s \ {Max(s)}], Max(s)>>]
    <3>0. s # {} => Max(s) \in s /\ \A y \in s : Max(s) >= y
      <4>1. k + 1 \in Nat OBVIOUS
      <4> QED BY <4>1, MaxOfSome
    <3>1. CASE k + 1 \in s
      <4>1. Max(s) = k + 1
        <5>1. Max(s) \in 1..(k + 1) /\ Max(s) >= k + 1 BY <3>0, <3>1
        <5> QED BY <5>1
      <4>2. h[s \ {k + 1}] = g[s \ {k + 1}] BY <2>2, <2>4
      <4> QED BY <3>1, <4>1, <4>2
    <3>2. CASE k + 1 \notin s
      <4>1. s \in SUBSET (1..k) /\ h[s] = g[s] BY <3>2, <2>2
      <4>3. h[s \ {Max(s)}] = g[s \ {Max(s)}] BY <4>1, <2>4
      <4> HIDE DEF h
      <4> QED BY <2>1, <4>1, <4>3 DEF Folding
    <3> QED BY <3>1, <3>2
  <2> HIDE DEF h
  <2>6. Folding(h, k + 1, A, base, step) BY <2>3, <2>5 DEF Folding
  <2> QED BY <2>6
<1>3. n \in K
  <2> HIDE DEF K
  <2> QED BY <1>1, <1>2, Induction
<1> QED BY <1>3

\* The values a fold runs through.
Path(p, n, A, base, step) ==
  /\ p \in [0..n -> A]
  /\ p[0] = base
  /\ \A i \in 1..n : p[i - 1] \in A /\ p[i] = step[<<p[i - 1], i>>]

\* They are the entries of the table for 1..i.
LEMMA FoldPath ==
  ASSUME NEW n \in Nat, NEW A, NEW base, NEW step, NEW g, Folding(g, n, A, base, step)
  PROVE  \E p : Path(p, n, A, base, step) /\ p[n] = g[1..n]
<1> DEFINE p == [i \in 0..n |-> g[1..i]]
<1>1. \A i \in 0..n : 1..i \in SUBSET (1..n) OBVIOUS
<1>2. p \in [0..n -> A] BY <1>1 DEF Folding
<1>3. p[0] = base
  <2>1. 1..0 = {} OBVIOUS
  <2>2. {} \in SUBSET (1..n) OBVIOUS
  <2>3. g[{}] = base BY <2>2 DEF Folding
  <2>4. p[0] = g[1..0] OBVIOUS
  <2> QED BY <2>1, <2>3, <2>4
<1>4. ASSUME NEW i \in 1..n PROVE p[i] = step[<<p[i - 1], i>>]
  <2>1. 1..i # {} /\ 1..i \in SUBSET (1..n) OBVIOUS
  <2>2. Max(1..i) \in 1..i /\ \A y \in 1..i : Max(1..i) >= y BY <2>1, MaxOfSome
  <2>3. Max(1..i) = i BY <2>2
  <2>4. (1..i) \ {i} = 1..(i - 1) OBVIOUS
  <2>5. p[i] = g[1..i] /\ p[i - 1] = g[1..(i - 1)] OBVIOUS
  <2>6. g[1..i] = step[<<g[(1..i) \ {Max(1..i)}], Max(1..i)>>] BY <2>1 DEF Folding
  <2> HIDE DEF p
  <2> QED BY <2>3, <2>4, <2>5, <2>6
<1>5. p[n] = g[1..n] OBVIOUS
<1> HIDE DEF p
<1>6. \A i \in 1..n : i - 1 \in 0..n OBVIOUS
<1> QED BY <1>2, <1>3, <1>4, <1>5, <1>6 DEF Path

\* What is known of a fold before its values are.
Unfolding(h, n, A, base, step) ==
  /\ h = [s \in SUBSET (1..n) |-> h[s]]
  /\ h[{}] = base
  /\ \A s \in SUBSET (1..n) :
       s # {} /\ h[s \ {Max(s)}] \in A => h[s] = step[<<h[s \ {Max(s)}], Max(s)>>]

\* Without its greatest number, a set of numbers fits in a shorter interval.
LEMMA Peel ==
  ASSUME NEW n \in Nat, NEW k \in Nat, k + 1 <= n, NEW s \in SUBSET (1..(k + 1)), s # {}
  PROVE  /\ Max(s) \in s /\ Max(s) \in 1..n
         /\ s \in SUBSET (1..n) /\ s \ {Max(s)} \in SUBSET (1..k)
<1>1. k + 1 \in Nat OBVIOUS
<1>2. Max(s) \in s /\ \A y \in s : Max(s) >= y BY <1>1, MaxOfSome
<1>3. Max(s) \in 1..(k + 1) BY <1>2
<1>4. \A y \in s \ {Max(s)} : y \in 1..k BY <1>2, <1>3
<1>5. \A y \in 1..(k + 1) : y \in 1..n OBVIOUS
<1> QED BY <1>2, <1>3, <1>4, <1>5

\* Its values follow from it.
LEMMA FoldTyped ==
  ASSUME NEW n \in Nat, NEW A, NEW base \in A, NEW step \in [A \X (1..n) -> A],
         NEW h, Unfolding(h, n, A, base, step)
  PROVE  Folding(h, n, A, base, step)
<1> DEFINE Typed(k) == \A s \in SUBSET (1..k) : h[s] \in A
           K == {k \in Nat : k <= n => Typed(k)}
<1>1. Typed(0)
  <2>1. \A s \in SUBSET (1..0) : s = {} OBVIOUS
  <2> QED BY <2>1 DEF Unfolding
<1>2. ASSUME NEW k \in Nat, k + 1 <= n, Typed(k), NEW s \in SUBSET (1..(k + 1)) PROVE h[s] \in A
  <2>1. CASE s = {} BY <2>1 DEF Unfolding
  <2>2. CASE s # {}
    <3>1. /\ Max(s) \in 1..n /\ s \in SUBSET (1..n)
          /\ s \ {Max(s)} \in SUBSET (1..k)
      BY <1>2, <2>2, Peel
    <3>2. h[s \ {Max(s)}] \in A BY <1>2, <3>1
    <3>3. h[s] = step[<<h[s \ {Max(s)}], Max(s)>>] BY <2>2, <3>1, <3>2 DEF Unfolding
    <3> QED BY <3>1, <3>2, <3>3
  <2> QED BY <2>1, <2>2
<1>3. 0 \in K BY <1>1
<1>4. ASSUME NEW k \in Nat, k \in K PROVE k + 1 \in K
  <2>1. k + 1 <= n => k <= n OBVIOUS
  <2>2. k + 1 <= n => Typed(k) BY <1>4, <2>1
  <2>3. k + 1 <= n => Typed(k + 1) BY <1>2, <2>2
  <2> HIDE DEF Typed
  <2> QED BY <2>3
<1>5. n \in K
  <2> HIDE DEF K
  <2> QED BY <1>3, <1>4, Induction
<1>6. Typed(n)
  <2> HIDE DEF Typed
  <2> QED BY <1>5
<1>7. \A s \in SUBSET (1..n) : s # {} => s \ {Max(s)} \in SUBSET (1..n) OBVIOUS
<1> QED BY <1>6, <1>7 DEF Folding, Unfolding

-----------------------------------------------------------------------------
(* Selections of lines, and what is left of a file.                        *)

\* What Picked has collected after i lines.
PickPath(p, S, lines, I, n) ==
  /\ p[0] = <<>> /\ p[n] = Picked(lines, I)
  /\ \A i \in 1..n : /\ p[i - 1] \in Seq(S)
                     /\ i \in I => p[i] = Append(p[i - 1], lines[i])
                     /\ i \notin I => p[i] = p[i - 1]

\* Picked collects line by line.
LEMMA PickedPath ==
  ASSUME NEW S, NEW lines \in Seq(S), NEW I
  PROVE  \E p : PickPath(p, S, lines, I, Len(lines))
<1> DEFINE n == Len(lines)
           A == Seq(S)
           index == [i \in DOMAIN lines |-> i]
           Op(acc, i) == IF i \in I THEN Append(acc, lines[i]) ELSE acc
           step == [q \in A \X (1..n) |-> Op(q[1], q[2])]
           Body(g) == [s \in SUBSET DOMAIN index |->
                         IF s = {} THEN <<>> ELSE Op(g[s \ {Max(s)}], index[Max(s)])]
           fold == CHOOSE g : g = Body(g)
<1>1. n \in Nat /\ DOMAIN index = 1..n /\ <<>> \in A OBVIOUS
<1>2. \A i \in 1..n : index[i] = i /\ lines[i] \in S OBVIOUS
<1>3. ASSUME NEW a \in A, NEW i \in 1..n PROVE Op(a, i) \in A BY <1>2
<1>4. step \in [A \X (1..n) -> A] BY <1>3
<1>5. \A a \in A, i \in 1..n : step[<<a, i>>] = Op(a, i) OBVIOUS
<1>6. Picked(lines, I) = fold[DOMAIN index]
  BY Zenon DEF Picked, FoldLeftDomain, FoldLeft, MapThenFoldSet
<1> HIDE DEF n, A, step, index, Op
<1>7. PICK g : Folding(g, n, A, <<>>, step) BY <1>1, <1>4, FoldExists
<1>8. g = Body(g)
  <2>1. g = [s \in SUBSET (1..n) |-> g[s]] /\ g[{}] = <<>> BY <1>7 DEF Folding
  <2>2. \A s \in SUBSET (1..n) : s # {} => Max(s) \in 1..n /\ g[s \ {Max(s)}] \in A
    BY <1>1, <1>7, MaxOfSome DEF Folding
  <2>3. \A s \in SUBSET (1..n) : s # {} => g[s] = Op(g[s \ {Max(s)}], Max(s))
    BY <1>5, <1>7, <2>2 DEF Folding
  <2> QED BY <1>1, <1>2, <2>1, <2>2, <2>3
<1>9. fold = Body(fold)
  <2> HIDE DEF Body
  <2> QED BY <1>8
<1> HIDE DEF fold
<1>10. Unfolding(fold, n, A, <<>>, step)
  <2>1. fold = [s \in SUBSET (1..n) |-> fold[s]] /\ fold[{}] = <<>> BY <1>1, <1>9
  <2>2. \A s \in SUBSET (1..n) : s # {} => Max(s) \in 1..n BY <1>1, MaxOfSome
  <2>3. \A s \in SUBSET (1..n) : s # {} => fold[s] = Op(fold[s \ {Max(s)}], Max(s))
    BY <1>1, <1>2, <1>9, <2>2
  <2> HIDE DEF Body
  <2>4. \A s \in SUBSET (1..n) : s # {} /\ fold[s \ {Max(s)}] \in A
          => fold[s] = step[<<fold[s \ {Max(s)}], Max(s)>>]
    BY <1>5, <2>2, <2>3
  <2> QED BY <2>1, <2>4 DEF Unfolding
<1>11. Folding(fold, n, A, <<>>, step) BY <1>1, <1>4, <1>10, FoldTyped
<1>12. PICK p : Path(p, n, A, <<>>, step) /\ p[n] = fold[1..n] BY <1>1, <1>11, FoldPath
<1>13. p \in [0..n -> A] /\ p[0] = <<>> /\ \A i \in 1..n : p[i - 1] \in A /\ p[i] = Op(p[i - 1], i)
  BY <1>5, <1>12 DEF Path
<1>14. PickPath(p, S, lines, I, n) BY <1>1, <1>6, <1>12, <1>13 DEF A, Op, PickPath
<1> QED BY <1>14 DEF n

\* Where the elements of a selection come from.
Places(e, out, lines, I, m) ==
  /\ e \in [1..Len(out) -> 1..m]
  /\ \A j, k \in 1..Len(out) : j < k => e[j] < e[k]
  /\ \A k \in 1..Len(out) : e[k] \in I /\ out[k] = lines[e[k]]
  /\ \A i \in I \cap 1..m : \E k \in 1..Len(out) : e[k] = i

\* One more element at the end.
LEMMA OnePlaceMore ==
  ASSUME NEW S, NEW lines, NEW I, NEW m \in Nat, NEW out \in Seq(S), NEW e,
         Places(e, out, lines, I, m), m + 1 \in I, NEW new,
         new = Append(out, lines[m + 1]), lines[m + 1] \in S
  PROVE  \E f : Places(f, new, lines, I, m + 1)
<1> DEFINE f == [k \in 1..(Len(out) + 1) |-> IF k <= Len(out) THEN e[k] ELSE m + 1]
<1>1. /\ Len(out) \in Nat /\ Len(new) = Len(out) + 1 /\ new[Len(out) + 1] = lines[m + 1]
      /\ \A k \in 1..Len(out) : new[k] = out[k]
  OBVIOUS
<1>2. /\ \A k \in 1..Len(out) : e[k] \in 1..m /\ e[k] \in I /\ out[k] = lines[e[k]]
      /\ \A j, k \in 1..Len(out) : j < k => e[j] < e[k]
      /\ \A i \in I \cap 1..m : \E k \in 1..Len(out) : e[k] = i
  BY DEF Places
<1>3. PICK n \in Nat : n = Len(out) BY <1>1
<1>4. \A k \in 1..(n + 1) : k \in 1..n \/ k = n + 1 OBVIOUS
<1>5. \A k \in 1..n : k \in 1..(n + 1) /\ f[k] = e[k] BY <1>3
<1>6. f[n + 1] = m + 1 /\ n + 1 \in 1..(n + 1) BY <1>3
<1>7. \A i \in 1..(m + 1) : i \in 1..m \/ i = m + 1 OBVIOUS
<1>8. DOMAIN f = 1..(n + 1) /\ f = [k \in 1..(n + 1) |-> f[k]] BY <1>3
<1> HIDE DEF f
<1>9. f \in [1..(n + 1) -> 1..(m + 1)]
  <2>1. \A k \in 1..(n + 1) : f[k] \in 1..(m + 1) BY <1>2, <1>3, <1>4, <1>5, <1>6
  <2> QED BY <1>8, <2>1
<1>10. \A j, k \in 1..(n + 1) : j < k => f[j] < f[k]
  <2> SUFFICES ASSUME NEW j \in 1..(n + 1), NEW k \in 1..(n + 1), j < k PROVE f[j] < f[k]
      OBVIOUS
  <2>1. j \in 1..n BY <1>4
  <2>2. e[j] \in 1..m /\ f[j] = e[j] BY <1>2, <1>3, <1>5, <2>1
  <2>3. CASE k \in 1..n BY <1>2, <1>3, <1>5, <2>1, <2>3
  <2>4. CASE k = n + 1 BY <1>6, <2>2, <2>4
  <2> QED BY <1>4, <2>3, <2>4
<1>11. \A k \in 1..(n + 1) : f[k] \in I /\ new[k] = lines[f[k]]
  <2> SUFFICES ASSUME NEW k \in 1..(n + 1) PROVE f[k] \in I /\ new[k] = lines[f[k]]
      OBVIOUS
  <2>1. CASE k \in 1..n BY <1>1, <1>2, <1>3, <1>5, <2>1
  <2>2. CASE k = n + 1 BY <1>1, <1>3, <1>6, <2>2
  <2> QED BY <1>4, <2>1, <2>2
<1>12. \A i \in I \cap 1..(m + 1) : \E k \in 1..(n + 1) : f[k] = i
  <2> SUFFICES ASSUME NEW i \in I \cap 1..(m + 1) PROVE \E k \in 1..(n + 1) : f[k] = i
      OBVIOUS
  <2>1. CASE i \in 1..m BY <1>2, <1>3, <1>5, <2>1
  <2>2. CASE i = m + 1 BY <1>6, <2>2
  <2> QED BY <1>7, <2>1, <2>2
<1>13. Len(new) = n + 1 BY <1>1, <1>3
<1>14. Places(f, new, lines, I, m + 1) BY <1>9, <1>10, <1>11, <1>12, <1>13 DEF Places
<1> QED BY <1>14

\* A line that is not selected.
LEMMA NoPlaceMore ==
  ASSUME NEW lines, NEW I, NEW m \in Nat, NEW out, NEW e,
         Places(e, out, lines, I, m), m + 1 \notin I, Len(out) \in Nat
  PROVE  Places(e, out, lines, I, m + 1)
<1>1. e \in [1..Len(out) -> 1..(m + 1)]
  <2>1. 1..m \subseteq 1..(m + 1) OBVIOUS
  <2> QED BY <2>1 DEF Places
<1>2. I \cap 1..(m + 1) = I \cap 1..m OBVIOUS
<1> QED BY <1>1, <1>2 DEF Places

\* Picked is the lines at the places, in order: none is missing and none is new.
LEMMA PickedPlaces ==
  ASSUME NEW S, NEW lines \in Seq(S), NEW I
  PROVE  /\ Picked(lines, I) \in Seq(S)
         /\ \E e : Places(e, Picked(lines, I), lines, I, Len(lines))
<1>1. PICK n \in Nat : n = Len(lines) OBVIOUS
<1>2. PICK p : PickPath(p, S, lines, I, n) BY <1>1, PickedPath
<1>3. \A i \in 1..n : lines[i] \in S BY <1>1
<1> DEFINE K == {m \in Nat : m <= n => p[m] \in Seq(S) /\ \E e : Places(e, p[m], lines, I, m)}
<1>4. 0 \in K
  <2>1. Places([k \in 1..0 |-> 0], <<>>, lines, I, 0) BY DEF Places
  <2>2. <<>> \in Seq(S) OBVIOUS
  <2> QED BY <1>2, <2>1, <2>2 DEF PickPath
<1>5. ASSUME NEW m \in Nat, m \in K PROVE m + 1 \in K
  <2> SUFFICES ASSUME m + 1 <= n
               PROVE p[m + 1] \in Seq(S) /\ \E e : Places(e, p[m + 1], lines, I, m + 1)
      OBVIOUS
  <2>1. p[m] \in Seq(S) BY <1>5
  <2>2. PICK e : Places(e, p[m], lines, I, m) BY <1>5
  <2>3. m + 1 \in 1..n /\ (m + 1) - 1 = m OBVIOUS
  <2>4. /\ m + 1 \in I => p[m + 1] = Append(p[m], lines[m + 1])
        /\ m + 1 \notin I => p[m + 1] = p[m]
    BY <1>2, <2>3 DEF PickPath
  <2>5. lines[m + 1] \in S BY <1>3, <2>3
  <2> HIDE DEF K
  <2>6. CASE m + 1 \notin I BY <2>1, <2>2, <2>4, <2>6, NoPlaceMore
  <2>7. CASE m + 1 \in I
    <3>1. Append(p[m], lines[m + 1]) \in Seq(S) BY <2>1, <2>5
    <3>2. \E e2 : Places(e2, p[m + 1], lines, I, m + 1) BY <2>1, <2>2, <2>4, <2>5, <2>7, OnePlaceMore
    <3> QED BY <2>4, <2>7, <3>1, <3>2
  <2> QED BY <2>6, <2>7
<1>6. n \in K
  <2> HIDE DEF K
  <2> QED BY <1>4, <1>5, Induction
<1> QED BY <1>1, <1>2, <1>6 DEF PickPath

\* Some of the lines, in order, some of them emptied.
KeptAt(e, c, d) ==
  /\ e \in [1..Len(c) -> 1..Len(d)]
  /\ \A j, k \in 1..Len(c) : j < k => e[j] < e[k]
  /\ \A k \in 1..Len(c) : c[k] = d[e[k]] \/ c[k] = Line("text")
\* There are places for all the lines.
LeftOf(c, d) == \E e : KeptAt(e, c, d)

\* A selection of lines.
LEMMA PickedIsLeft ==
  ASSUME NEW S, NEW lines \in Seq(S), NEW I
  PROVE  Picked(lines, I) \in Seq(S) /\ LeftOf(Picked(lines, I), lines)
<1>1. PICK out : out = Picked(lines, I) OBVIOUS
<1>2. out \in Seq(S) BY <1>1, PickedPlaces
<1>3. PICK e : Places(e, out, lines, I, Len(lines)) BY <1>1, PickedPlaces
<1>4. KeptAt(e, out, lines) BY <1>3 DEF Places, KeptAt
<1> QED BY <1>1, <1>2, <1>4 DEF LeftOf

\* What is left of what was left.
LEMMA LeftOfLeft ==
  ASSUME NEW S, NEW b \in Seq(S), NEW c \in Seq(S), NEW d \in Seq(S), LeftOf(b, c), LeftOf(c, d)
  PROVE  LeftOf(b, d)
<1>1. PICK e : KeptAt(e, b, c) BY DEF LeftOf
<1>2. PICK f : KeptAt(f, c, d) BY DEF LeftOf
<1>3. PICK l, m, n \in Nat : l = Len(b) /\ m = Len(c) /\ n = Len(d) OBVIOUS
<1>4. /\ \A k \in 1..l : e[k] \in 1..m /\ (b[k] = c[e[k]] \/ b[k] = Line("text"))
      /\ \A j, k \in 1..l : j < k => e[j] < e[k]
  BY <1>1, <1>3 DEF KeptAt
<1>5. /\ \A k \in 1..m : f[k] \in 1..n /\ (c[k] = d[f[k]] \/ c[k] = Line("text"))
      /\ \A j, k \in 1..m : j < k => f[j] < f[k]
  BY <1>2, <1>3 DEF KeptAt
<1> DEFINE g == [k \in 1..l |-> f[e[k]]]
<1>6. \A k \in 1..l : g[k] = f[e[k]] OBVIOUS
<1>7. g \in [1..l -> 1..n] BY <1>4, <1>5
<1> HIDE DEF g
<1>8. \A j, k \in 1..l : j < k => g[j] < g[k] BY <1>4, <1>5, <1>6
<1>9. \A k \in 1..l : b[k] = d[g[k]] \/ b[k] = Line("text") BY <1>4, <1>5, <1>6
<1>10. KeptAt(g, b, d) BY <1>3, <1>7, <1>8, <1>9 DEF KeptAt
<1> QED BY <1>10 DEF LeftOf

\* No pass of stripDisableDirectives brings in a line or swaps two.
LEMMA StrippedIsLeft ==
  ASSUME NEW S, NEW lines \in Seq(S), Line("text") \in S
  PROVE  Stripped(lines) \in Seq(S) /\ LeftOf(Stripped(lines), lines)
<1>1. ASSUME NEW these \in Seq(S), NEW deleted, NEW directive
      PROVE  /\ Without(these, deleted, directive) \in Seq(S)
             /\ LeftOf(Without(these, deleted, directive), these)
  <2> DEFINE emptied == [i \in DOMAIN these |->
                           IF these[i].kind = directive THEN Line("text") ELSE these[i]]
  <2>1. \A i \in DOMAIN these : emptied[i] \in S OBVIOUS
  <2>2. emptied \in Seq(S) /\ Len(emptied) = Len(these) BY <2>1
  <2>3. \A k \in 1..Len(these) : emptied[k] = these[k] \/ emptied[k] = Line("text") OBVIOUS
  <2> HIDE DEF emptied
  <2>4. LeftOf(emptied, these)
    <3> DEFINE e == [k \in 1..Len(these) |-> k]
    <3>1. e \in [1..Len(emptied) -> 1..Len(these)] BY <2>2
    <3>2. \A k \in 1..Len(emptied) : e[k] = k BY <2>2
    <3> HIDE DEF e
    <3>3. KeptAt(e, emptied, these) BY <2>2, <2>3, <3>1, <3>2 DEF KeptAt
    <3> QED BY <3>3 DEF LeftOf
  <2>5. PICK out : out = Picked(emptied, DOMAIN these \ deleted) OBVIOUS
  <2>6. out \in Seq(S) /\ LeftOf(out, emptied) BY <2>2, <2>5, PickedIsLeft
  <2>7. LeftOf(out, these) BY <2>2, <2>4, <2>6, LeftOfLeft
  <2>8. out = Without(these, deleted, directive) BY <2>5 DEF Without, emptied
  <2> QED BY <2>6, <2>7, <2>8
<1>2. PICK blocks : blocks = Without(lines, Blocks(lines), "disable") OBVIOUS
<1>3. PICK below : below = Without(blocks, Below(blocks), "next") OBVIOUS
<1>4. blocks \in Seq(S) /\ LeftOf(blocks, lines) BY <1>1, <1>2
<1>5. below \in Seq(S) /\ LeftOf(below, blocks) BY <1>1, <1>3, <1>4
<1>6. LeftOf(below, lines) BY <1>4, <1>5, LeftOfLeft
<1>7. PICK out : out = Picked(below, DOMAIN below \ WithLineOff(below)) OBVIOUS
<1>8. out \in Seq(S) /\ LeftOf(out, below) BY <1>5, <1>7, PickedIsLeft
<1>9. LeftOf(out, lines) BY <1>5, <1>6, <1>8, LeftOfLeft
<1>10. out = Stripped(lines) BY <1>2, <1>3, <1>7 DEF Stripped
<1> QED BY <1>8, <1>9, <1>10

\* Outside has lines of the kind asked for.
LEMMA OutsideLines ==
  ASSUME NEW S, NEW lines \in Seq(S), NEW code, NEW kind
  PROVE  Outside(lines, code, kind) \in Seq({l \in S : l.kind = kind})
<1> DEFINE I == OfKind(lines, kind) \ code
           out == Outside(lines, code, kind)
<1>1. out = Picked(lines, I) BY DEF Outside
<1> HIDE DEF out
<1>2. out \in Seq(S) BY <1>1, PickedPlaces
<1>3. PICK e : Places(e, out, lines, I, Len(lines)) BY <1>1, PickedPlaces
<1>4. \A k \in 1..Len(out) : out[k].kind = kind BY <1>3 DEF Places, OfKind
<1>5. \A k \in 1..Len(out) : out[k] \in {l \in S : l.kind = kind} BY <1>2, <1>4
<1>6. out \in Seq({l \in S : l.kind = kind}) BY <1>2, <1>5
<1> QED BY <1>6 DEF out

-----------------------------------------------------------------------------
(* The reads for the cache.                                                *)

USE OfflineAssumption

\* The workers that have yet to read a file's anchors, and those that have yet to store
\* what they read.
About(w, f) == Target(w).url.file = f
Opening(f) == {w \in Workers : work[w].pc = "open" /\ About(w, f)}
Storing(f) == {w \in Workers : work[w].pc = "store" /\ About(w, f)}

\* What a worker has in hand has its state, and the links that are left.
Shape ==
  /\ DOMAIN work = Workers
  /\ \A w \in Workers :
       /\ "pc" \in DOMAIN work[w]
       /\ work[w].pc \in {"handle", "lookup", "open", "store"} => "todo" \in DOMAIN work[w]

\* Until a file's anchors are stored, all who read them are still about to store them;
\* afterwards, only those who missed them before may read them again.
Reads ==
  /\ DOMAIN reads = Files
  /\ \A f \in Files :
       /\ reads[f] \in Nat
       /\ f \notin DOMAIN anchorCache => reads[f] = Cardinality(Storing(f))
       /\ f \in DOMAIN anchorCache =>
            reads[f] + Cardinality(Opening(f)) <= Cardinality(Workers)

\* Two disjoint sets of workers, and a set with one worker more or fewer.
LEMMA TwoParts ==
  ASSUME NEW W, IsFiniteSet(W), NEW S \in SUBSET W, NEW T \in SUBSET W, S \cap T = {}
  PROVE  /\ IsFiniteSet(S) /\ Cardinality(S) \in Nat
         /\ IsFiniteSet(T) /\ Cardinality(T) \in Nat
         /\ Cardinality(S) + Cardinality(T) <= Cardinality(W)
<1>1. /\ IsFiniteSet(S) /\ Cardinality(S) \in Nat
      /\ IsFiniteSet(T) /\ Cardinality(T) \in Nat
  BY FS_Subset, FS_CardinalityType
<1>2. Cardinality(S \cap T) = 0 BY FS_EmptySet
<1>3. Cardinality(S \cup T) = Cardinality(S) + Cardinality(T) - Cardinality(S \cap T)
  BY <1>1, FS_Union
<1>4. S \cup T \in SUBSET W OBVIOUS
<1>5. Cardinality(S \cup T) <= Cardinality(W) BY <1>4, FS_Subset
<1> QED BY <1>1, <1>2, <1>3, <1>5

\* A set with one more element.
LEMMA OneMore ==
  ASSUME NEW S, IsFiniteSet(S), NEW x, x \notin S
  PROVE  Cardinality(S \cup {x}) = Cardinality(S) + 1
BY FS_AddElement

\* A set with one element less.
LEMMA OneFewer ==
  ASSUME NEW S, IsFiniteSet(S), NEW x \in S
  PROVE  Cardinality(S \ {x}) = Cardinality(S) - 1
BY FS_RemoveElement

\* There are finitely many workers.
LEMMA Finite ==
  /\ Cardinality(Workers) \in Nat
  /\ \A f : /\ IsFiniteSet(Opening(f)) /\ Cardinality(Opening(f)) \in Nat
            /\ IsFiniteSet(Storing(f)) /\ Cardinality(Storing(f)) \in Nat
            /\ Cardinality(Opening(f)) + Cardinality(Storing(f)) <= Cardinality(Workers)
<1>1. \A f : /\ Opening(f) \in SUBSET Workers /\ Storing(f) \in SUBSET Workers
             /\ Opening(f) \cap Storing(f) = {}
  BY DEF Opening, Storing
<1> QED BY <1>1, TwoParts, FS_CardinalityType

\* A step of one worker leaves what the others have in hand.
LEMMA OthersStay ==
  ASSUME Shape, NEW w \in Workers, NEW item, work' = [work EXCEPT ![w] = item]
  PROVE  /\ work'[w] = item /\ DOMAIN work' = Workers
         /\ \A v \in Workers \ {w} : work'[v] = work[v]
BY DEF Shape

\* Every step keeps the shape of what the workers have in hand.
LEMMA ShapeStep == Shape /\ [Next]_vars => Shape'
<1> SUFFICES ASSUME Shape, [Next]_vars PROVE Shape'
    OBVIOUS
<1>1. ASSUME NEW w \in Workers, NEW f \in Files, TakeSource(w, f) PROVE Shape'
  BY <1>1 DEF TakeSource, Shape
<1>2. ASSUME NEW w \in Workers, ReadSource(w) PROVE Shape'
  BY <1>2 DEF ReadSource, Idle, Shape
<1>3. ASSUME NEW w \in Workers, Handle(w) \/ Stat(w) \/ Lookup(w) PROVE Shape'
  BY <1>3 DEF Handle, Stat, Lookup, Decide, After, At, Shape
<1>4. ASSUME NEW w \in Workers, OpenFail(w) \/ Open(w) PROVE Shape'
  <2> DEFINE item == [pc |-> "store", todo |-> work[w].todo, own |-> work[w].own,
                      anchors |-> Anchors(disk[Target(w).url.file])]
  <2>1. CASE OpenFail(w)
    BY <2>1 DEF OpenFail, Decide, After, At, Shape
  <2>2. CASE Open(w)
    <3>1. work' = [work EXCEPT ![w] = item] BY <2>2 DEF Open
    <3> QED BY <3>1 DEF Shape
  <2> QED BY <1>4, <2>1, <2>2
<1>5. ASSUME NEW w \in Workers, Store(w) \/ ParseReturn(w) PROVE Shape'
  BY <1>5 DEF Store, ParseReturn, Idle, Shape
<1>6. ASSUME NEW f, NEW content, Edit(f, content) PROVE Shape' BY <1>6 DEF Edit, Shape
<1>7. CASE UNCHANGED vars BY <1>7 DEF vars, Shape
<1> QED BY <1>1, <1>2, <1>3, <1>4, <1>5, <1>6, <1>7 DEF Next

\* A step of a worker that neither opens nor stores anything, before or after it.
LEMMA Elsewhere ==
  ASSUME Shape, Reads, NEW w \in Workers, NEW item, work' = [work EXCEPT ![w] = item],
         work[w].pc \notin {"open", "store"}, item.pc \notin {"open", "store"},
         UNCHANGED <<anchorCache, reads>>
  PROVE  Reads'
<1>1. \A f : Opening(f)' = Opening(f) /\ Storing(f)' = Storing(f)
  BY OthersStay DEF Opening, Storing, About, Target
<1> QED BY <1>1 DEF Reads

\* Every step keeps the account of the reads.
LEMMA ReadsStep == Shape /\ Reads /\ [Next]_vars => Reads'
<1> SUFFICES ASSUME Shape, Reads, [Next]_vars PROVE Reads'
    OBVIOUS
<1>1. ASSUME NEW w \in Workers, NEW f \in Files, TakeSource(w, f) PROVE Reads'
  <2> DEFINE item == [pc |-> "read", source |-> f]
  <2>1. work' = [work EXCEPT ![w] = item] /\ work[w].pc = "idle" /\ item.pc = "read"
    BY <1>1 DEF TakeSource, Idle
  <2> HIDE DEF item
  <2> QED BY <1>1, <2>1, Elsewhere DEF TakeSource
<1>2. ASSUME NEW w \in Workers, ReadSource(w) PROVE Reads'
  BY <1>2, Elsewhere DEF ReadSource, Idle
<1>a. \A w \in Workers : At(w, "handle") \/ At(w, "lookup") \/ At(w, "open") => After(w).pc = "handle"
  BY DEF At, After, Shape
<1>3. ASSUME NEW w \in Workers, Handle(w) PROVE Reads'
  BY <1>3, <1>a, Elsewhere DEF Handle, Decide, At
<1>4. ASSUME NEW w \in Workers, Stat(w) PROVE Reads'
  <2>1. CASE work' = [work EXCEPT ![w] = After(w)]
    BY <1>4, <1>a, <2>1, Elsewhere DEF Stat, At
  <2>2. CASE work' = [work EXCEPT ![w].pc = "lookup"]
    <3>1. work' = [work EXCEPT ![w] = [work[w] EXCEPT !.pc = "lookup"]] BY <2>2
    <3>2. [work[w] EXCEPT !.pc = "lookup"].pc = "lookup" BY DEF Shape
    <3> QED BY <1>4, <3>1, <3>2, Elsewhere DEF Stat, At
  <2> QED BY <1>4, <2>1, <2>2 DEF Stat, Decide
<1>5. ASSUME NEW w \in Workers, Lookup(w) PROVE Reads'
  <2> DEFINE g == Target(w).url.file
  <2>1. CASE g \in DOMAIN anchorCache
    BY <1>5, <1>a, <2>1, Elsewhere DEF Lookup, Decide, At
  <2>2. CASE g \notin DOMAIN anchorCache
    <3>1. work' = [work EXCEPT ![w] = [work[w] EXCEPT !.pc = "open"]]
          /\ UNCHANGED <<anchorCache, reads>>
      BY <1>5, <2>2 DEF Lookup
    <3>2. work'[w].pc = "open" /\ work[w].pc = "lookup" BY <1>5, <3>1, OthersStay DEF Lookup, At, Shape
    <3>3. \A f : Storing(f)' = Storing(f)
      BY <3>1, <3>2, OthersStay DEF Storing, About, Target
    <3>4. \A f : f # g => Opening(f)' = Opening(f)
      <4>1. Target(w)' = Target(w) BY <1>5, <3>1, OthersStay DEF Target, Shape, Lookup, At
      <4> QED BY <3>1, <3>2, <4>1, OthersStay DEF Opening, About, Target
    <3> QED BY <2>2, <3>1, <3>3, <3>4 DEF Reads
  <2> QED BY <2>1, <2>2
<1>6. ASSUME NEW w \in Workers, OpenFail(w) \/ Open(w) PROVE Reads'
  <2>g. PICK g : g = Target(w).url.file OBVIOUS
  <2>1. work[w].pc = "open" /\ w \in Opening(g) /\ w \notin Storing(g) /\ UNCHANGED anchorCache
    BY <1>6, <2>g DEF OpenFail, Open, At, Opening, Storing, About
  <2>2. CASE OpenFail(w)
    <3>1. work' = [work EXCEPT ![w] = After(w)] /\ UNCHANGED <<anchorCache, reads>>
      BY <2>2 DEF OpenFail, Decide
    <3>2. work'[w].pc = "handle" BY <1>a, <2>2, <3>1, OthersStay DEF OpenFail
    <3>3. \A f : Storing(f)' = Storing(f)
      BY <2>1, <3>1, <3>2, OthersStay DEF Storing, About, Target
    <3>4. \A f : Opening(f)' \subseteq Opening(f)
      BY <2>1, <3>1, <3>2, OthersStay DEF Opening, About, Target
    <3>5. \A f : Cardinality(Opening(f)') <= Cardinality(Opening(f))
                 /\ Cardinality(Opening(f)') \in Nat
      BY <3>4, Finite, FS_Subset, FS_CardinalityType
    <3> QED BY <3>1, <3>3, <3>5, Finite DEF Reads
  <2>3. CASE Open(w)
    <3> DEFINE item == [pc |-> "store", todo |-> work[w].todo, own |-> work[w].own,
                        anchors |-> Anchors(disk[g])]
    <3>1. work' = [work EXCEPT ![w] = item] /\ reads' = [reads EXCEPT ![g] = @ + 1]
      BY <2>g, <2>3 DEF Open
    <3>2. work'[w].pc = "store" /\ work'[w].todo = work[w].todo BY <3>1, OthersStay
    <3>3. Target(w)' = Target(w) BY <3>2 DEF Target
    <3>4. /\ Storing(g)' = Storing(g) \cup {w} /\ Opening(g)' = Opening(g) \ {w}
          /\ \A f : f # g => Storing(f)' = Storing(f) /\ Opening(f)' = Opening(f)
      <4> HIDE DEF item
      <4>1. \A v \in Workers \ {w} : work'[v] = work[v] BY <3>1, OthersStay
      <4>2. \A v \in Workers \ {w} : Target(v)' = Target(v) BY <4>1 DEF Target
      <4>3. Storing(g)' = Storing(g) \cup {w}
        BY <2>g, <2>1, <3>2, <3>3, <4>1, <4>2 DEF Storing, About
      <4>4. Opening(g)' = Opening(g) \ {w}
        BY <2>g, <2>1, <3>2, <3>3, <4>1, <4>2 DEF Opening, About
      <4>5. \A f : f # g => Storing(f)' = Storing(f)
        BY <2>g, <2>1, <3>2, <3>3, <4>1, <4>2 DEF Storing, About
      <4>6. \A f : f # g => Opening(f)' = Opening(f)
        BY <2>g, <2>1, <3>2, <3>3, <4>1, <4>2 DEF Opening, About
      <4> QED BY <4>3, <4>4, <4>5, <4>6
    <3>5. /\ Cardinality(Storing(g)') = Cardinality(Storing(g)) + 1
          /\ Cardinality(Opening(g)') = Cardinality(Opening(g)) - 1
      BY <2>1, <3>4, Finite, OneMore, OneFewer
    <3> HIDE DEF item
    <3>6. DOMAIN reads' = Files /\ DOMAIN anchorCache' = DOMAIN anchorCache
      BY <2>1, <3>1 DEF Reads
    <3>7. ASSUME NEW f \in Files, f # g
          PROVE  /\ reads'[f] \in Nat
                 /\ f \notin DOMAIN anchorCache' => reads'[f] = Cardinality(Storing(f)')
                 /\ f \in DOMAIN anchorCache' =>
                      reads'[f] + Cardinality(Opening(f)') <= Cardinality(Workers)
      BY <3>1, <3>4, <3>6, <3>7 DEF Reads
    <3>8. g \in Files => reads'[g] = reads[g] + 1 /\ reads[g] \in Nat BY <3>1 DEF Reads
    <3>9. g \in Files =>
            /\ reads'[g] \in Nat
            /\ g \notin DOMAIN anchorCache' => reads'[g] = Cardinality(Storing(g)')
            /\ g \in DOMAIN anchorCache' =>
                 reads'[g] + Cardinality(Opening(g)') <= Cardinality(Workers)
      BY <3>5, <3>6, <3>8, Finite DEF Reads
    <3> QED BY <3>6, <3>7, <3>9 DEF Reads
  <2> QED BY <1>6, <2>2, <2>3
<1>7. ASSUME NEW w \in Workers, Store(w) PROVE Reads'
  <2>g. PICK g : g = Target(w).url.file OBVIOUS
  <2> DEFINE item == [pc |-> "handle", todo |-> Tail(work[w].todo), own |-> work[w].own]
  <2>1. /\ work[w].pc = "store" /\ UNCHANGED reads
        /\ work' = [work EXCEPT ![w] = item]
        /\ anchorCache' = With(g, work[w].anchors)
    BY <1>7, <2>g DEF Store, At, Kept
  <2>2. DOMAIN anchorCache' = DOMAIN anchorCache \cup {g} BY <2>1 DEF With
  <2>3. work'[w].pc = "handle" BY <2>1, OthersStay
  <2>4. \A f : Opening(f)' = Opening(f)
    <3> HIDE DEF item
    <3> QED BY <2>1, <2>3, OthersStay DEF Opening, About, Target
  <2>5. \A f : f # g => Storing(f)' = Storing(f)
    <3> HIDE DEF item
    <3> QED BY <2>g, <2>1, <2>3, OthersStay DEF Storing, About, Target
  <2> QED BY <2>1, <2>2, <2>4, <2>5, Finite DEF Reads
<1>8. ASSUME NEW w \in Workers, ParseReturn(w) PROVE Reads'
  BY <1>8, Elsewhere DEF ParseReturn, Idle
<1>9. CASE UNCHANGED <<work, anchorCache, reads>>
  BY <1>9 DEF Reads, Opening, Storing, About, Target
<1> QED BY <1>1, <1>2, <1>3, <1>4, <1>5, <1>6, <1>7, <1>8, <1>9 DEF Next, vars, Edit

\* The anchor cache is filled outside its lock, but no worker reads a file twice for it.
THEOREM ReadsAreBounded == Spec => []ReadsBounded
<1>1. Init => Shape /\ Reads
  <2> SUFFICES ASSUME Init PROVE Shape /\ Reads
      OBVIOUS
  <2>1. \A f : Storing(f) = {} BY DEF Init, Storing, Idle
  <2>2. DOMAIN anchorCache = {} BY DEF Init
  <2>3. \A f : Cardinality(Storing(f)) = 0 BY <2>1, FS_EmptySet
  <2> QED BY <2>2, <2>3 DEF Init, Shape, Reads, Idle
<1>2. Reads => ReadsBounded
  <2> SUFFICES ASSUME Reads, NEW f \in Files PROVE reads[f] <= Cardinality(Workers)
      BY DEF ReadsBounded
  <2> QED BY Finite DEF Reads
<1> QED BY <1>1, <1>2, ShapeStep, ReadsStep, PTL DEF Spec

HIDE OfflineAssumption

-----------------------------------------------------------------------------
(* The verdicts.                                                           *)

\* What is parsed: the links of the lines a file may have.
LinesEver == UNION {Range(d) : d \in Contents \ {Gone}}
LinksIn(f) == {Classify(l.dest, Transform(l.dest), f) : l \in {l \in LinesEver : l.kind = "link"}}

\* extractTargets returns links of the file, classified.
LEMMA TargetsAreLinks ==
  ASSUME NEW d \in Contents \ {Gone}, NEW ignoreDisable, NEW f
  PROVE  Targets(Cleaned(d, ignoreDisable), f) \in Seq(LinksIn(f))
<1> DEFINE S == Range(d) \cup {Line("text")}
           L == {l \in LinesEver : l.kind = "link"}
           lines == Cleaned(d, ignoreDisable)
           links == Outside(lines, InCode(lines), "link")
           I == {i \in DOMAIN links : \E j \in 1..(i - 1) : links[j].dest = links[i].dest}
           once == Picked(links, DOMAIN links \ I)
<1>1. d \in Seq(S)
  <2>1. d \in Seq(Range(d)) BY ContentsAssumption
  <2> QED BY <2>1
<1>2. lines \in Seq(S)
  <2>1. Line("text") \in S OBVIOUS
  <2> HIDE DEF S
  <2> QED BY <1>1, <2>1, StrippedIsLeft DEF Cleaned
<1>3. links \in Seq({l \in S : l.kind = "link"})
  <2> HIDE DEF lines
  <2> QED BY <1>2, OutsideLines
<1>4. {l \in S : l.kind = "link"} \subseteq L BY DEF Line, LinesEver
<1>5. links \in Seq(L)
  <2> HIDE DEF links, L, S
  <2> QED BY <1>3, <1>4
<1>6. once \in Seq(L)
  <2> HIDE DEF links, L, I
  <2> QED BY <1>5, PickedPlaces
<1>7. Targets(lines, f) = [i \in DOMAIN once |-> Classify(once[i].dest, Transform(once[i].dest), f)]
  BY Zenon DEF Targets
<1> HIDE DEF once
<1>8. \A i \in DOMAIN once : Classify(once[i].dest, Transform(once[i].dest), f) \in LinksIn(f)
  BY <1>6 DEF LinksIn
<1> QED BY <1>6, <1>7, <1>8

\* A link is classified, and one to a file is to a file that exists.
LEMMA LinkFacts ==
  ASSUME NEW f, NEW t \in LinksIn(f)
  PROVE  /\ t.source = f
         /\ t.kind = "file" => t.url.file \in Files
<1>1. PICK l \in LinesEver : l.kind = "link" /\ t = Classify(l.dest, Transform(l.dest), f)
  BY DEF LinksIn
<1>2. PICK d \in Contents \ {Gone} : l \in Range(d) BY DEF LinesEver
<1> DEFINE u == Classify(l.dest, Transform(l.dest), None)
<1>3. u.kind = "file" => u.url.file \in Files BY <1>1, <1>2, ContentsAssumption
<1>4. t.kind = u.kind /\ t.url = u.url /\ t.source = f BY <1>1 DEF Classify
<1> QED BY <1>3, <1>4

\* What a worker has in hand is of one content of one file: its links, and its anchors;
\* and the link whose section it looks for is of a file that was there.
InHand(item) ==
  /\ item.pc = "read" => item.source \in Files
  /\ item.pc \in {"handle", "lookup", "open", "store"} =>
       \E f \in Files : /\ item.todo \in Seq(LinksIn(f))
                        /\ \E d \in had[f] \ {Gone} :
                             item.own = Anchors(Cleaned(d, cfg.ignoreDisable))
  /\ item.pc \in {"lookup", "open", "store"} =>
       /\ item.todo # <<>> /\ HasSection(Head(item.todo))
       /\ had[Head(item.todo).url.file] # {Gone}
  /\ item.pc = "store" =>
       \E d \in had[Head(item.todo).url.file] \ {Gone} : item.anchors = Anchors(d)

\* A verdict that its link deserves from some content its file had, or one that is alive
\* since its file was there and could not be read: u are the links of such files.
Earned(r, u) ==
  r.state \in {"alive", "dead"} =>
    /\ r.target.kind = "hash" =>
         /\ r.target.source \in Files
         /\ \E d \in had[r.target.source] \ {Gone} : r = Verdict(r.target, d)
    /\ r.target.kind = "file" =>
         LET f == r.target.url.file IN
         /\ f \in Files
         /\ \/ \E d \in had[f] : r = Verdict(r.target, d)
            \/ r.target \in u /\ \E d \in had[f] \ {Gone} : r = CheckFile(r.target, d)

\* The inductive invariant: all that is in hand, cached and collected is true of some
\* content the files had.
Truth ==
  /\ DOMAIN had = Files /\ DOMAIN disk = Files /\ filesCh \subseteq Files
  /\ \A f \in Files : disk[f] \in had[f] /\ had[f] \subseteq Contents
  /\ \A w \in Workers : InHand(work[w])
  /\ \A f \in DOMAIN anchorCache :
       f \in Files /\ \E d \in had[f] \ {Gone} : anchorCache[f] = Anchors(d)
  /\ \A r \in results : Earned(r, unread)

\* A verdict is about its link.
LEMMA CheckFacts ==
  ASSUME NEW t, NEW anchors, NEW content
  PROVE  /\ CheckHash(t, anchors).target = t /\ CheckFile(t, content).target = t
         /\ CheckMailto(t).target = t
BY DEF CheckHash, CheckFile, CheckMailto, Result

\* What was deserved stays so, since the contents a file had only become more.
LEMMA EarnedStays ==
  ASSUME cfg' = cfg, \A f \in Files : had[f] \subseteq had'[f],
         NEW u, u \subseteq unread', NEW r, Earned(r, u)
  PROVE  Earned(r, unread)'
<1>1. \A t, d : Verdict(t, d)' = Verdict(t, d) BY DEF Verdict, HasSection
<1>2. \A f \in Files : had[f] \ {Gone} \subseteq had'[f] \ {Gone} OBVIOUS
<1> QED BY <1>1, <1>2 DEF Earned

\* What a worker has in hand stays true as the files change.
LEMMA InHandStays ==
  ASSUME cfg' = cfg, \A f \in Files : had[f] \subseteq had'[f], NEW item, InHand(item),
         \A f \in Files : had[f] # {}
  PROVE  InHand(item)'
<1>1. \A t : HasSection(t)' = HasSection(t) BY DEF HasSection
<1>2. ASSUME NEW f \in Files, had[f] # {Gone} PROVE had'[f] # {Gone}
  <2>1. PICK d \in had[f] : d # Gone BY <1>2
  <2> QED BY <2>1
<1>3. ASSUME item.pc \in {"lookup", "open", "store"} PROVE Head(item.todo).url.file \in Files
  <2>1. PICK f \in Files : item.todo \in Seq(LinksIn(f)) BY <1>3 DEF InHand
  <2>2. item.todo # <<>> /\ Head(item.todo).kind = "file" BY <1>3 DEF InHand, HasSection
  <2>3. Head(item.todo) \in LinksIn(f) BY <2>1, <2>2
  <2> QED BY <2>2, <2>3, LinkFacts
<1> QED BY <1>1, <1>2, <1>3 DEF InHand

\* The target in a worker's hand.
LEMMA TargetFacts ==
  ASSUME Truth, NEW w \in Workers, NEW pc \in {"handle", "lookup", "open", "store"}, At(w, pc)
  PROVE  \E f \in Files :
           /\ Target(w) \in LinksIn(f) /\ Target(w).source = f
           /\ Target(w).kind = "file" => Target(w).url.file \in Files
           /\ work[w].todo \in Seq(LinksIn(f)) /\ Tail(work[w].todo) \in Seq(LinksIn(f))
           /\ \E d \in had[f] \ {Gone} : work[w].own = Anchors(Cleaned(d, cfg.ignoreDisable))
<1>1. InHand(work[w]) /\ work[w].pc = pc BY DEF Truth, At
<1>2. PICK f \in Files :
        /\ work[w].todo \in Seq(LinksIn(f))
        /\ \E d \in had[f] \ {Gone} : work[w].own = Anchors(Cleaned(d, cfg.ignoreDisable))
  BY <1>1 DEF InHand
<1>3. work[w].todo # <<>> BY <1>1 DEF InHand, At
<1>4. Target(w) \in LinksIn(f) BY <1>2, <1>3 DEF Target
<1>5. Tail(work[w].todo) \in Seq(LinksIn(f)) BY <1>2, <1>3
<1> QED BY <1>2, <1>4, <1>5, LinkFacts

\* A worker that goes on with the next link.
LEMMA AfterFacts ==
  ASSUME Truth, Shape, NEW w \in Workers, NEW pc \in {"handle", "lookup", "open"}, At(w, pc)
  PROVE  InHand(After(w))
<1>1. /\ After(w).pc = "handle" /\ After(w).todo = Tail(work[w].todo)
      /\ After(w).own = work[w].own
  BY DEF After, Shape, At
<1> QED BY <1>1, TargetFacts DEF InHand

\* A step of a worker that leaves something true in hand.
LEMMA WorkerStep ==
  ASSUME Truth, Shape, NEW w \in Workers, NEW item, InHand(item),
         work' = [work EXCEPT ![w] = item], filesCh' \subseteq filesCh,
         UNCHANGED <<cfg, disk, had>>, unread \subseteq unread',
         UNCHANGED results \/ \E r : Earned(r, unread') /\ results' = results \cup {r},
         UNCHANGED anchorCache \/
           \E f \in Files : \E d \in had[f] \ {Gone} : anchorCache' = With(f, Anchors(d))
  PROVE  Truth'
<1>1. \A f \in Files : had[f] \subseteq had'[f] /\ had[f] # {} BY DEF Truth
<1>2. \A v \in Workers : InHand(work'[v])
  BY OthersStay DEF Truth
<1>3. \A v \in Workers : InHand(work[v])'
  <2>1. ASSUME NEW i, InHand(i), NEW v \in Workers, i = work'[v] PROVE InHand(work[v])'
    <3>1. InHand(i)' BY <1>1, <2>1, InHandStays
    <3> QED BY <2>1, <3>1 DEF InHand
  <2> QED BY <1>2, <2>1
<1>4. \A r \in results' : Earned(r, unread) \/ Earned(r, unread') BY DEF Truth
<1>5. \A r \in results' : Earned(r, unread)'
  <2>1. \A r : Earned(r, unread) \/ Earned(r, unread') => Earned(r, unread)'
    BY <1>1, EarnedStays
  <2> QED BY <1>4, <2>1
<1>6. \A f \in DOMAIN anchorCache' :
        f \in Files /\ \E d \in had[f] \ {Gone} : anchorCache'[f] = Anchors(d)
  <2>1. CASE UNCHANGED anchorCache BY <2>1 DEF Truth
  <2>2. ASSUME NEW f \in Files, NEW d \in had[f] \ {Gone}, anchorCache' = With(f, Anchors(d))
        PROVE  \A g \in DOMAIN anchorCache' :
                 g \in Files /\ \E c \in had[g] \ {Gone} : anchorCache'[g] = Anchors(c)
    BY <2>2 DEF With, Truth
  <2> QED BY <2>1, <2>2
<1> QED BY <1>3, <1>5, <1>6 DEF Truth

\* A decided link.
LEMMA DecideStep ==
  ASSUME Truth, Shape, NEW w \in Workers, NEW pc \in {"handle", "lookup", "open"}, At(w, pc),
         NEW r, Earned(r, unread'), Decide(w, r), unread \subseteq unread',
         UNCHANGED <<cfg, disk, had, filesCh, anchorCache>>
  PROVE  Truth'
<1>1. InHand(After(w)) BY AfterFacts
<1> HIDE DEF After
<1>2. work' = [work EXCEPT ![w] = After(w)] /\ results' = results \cup {r}
  BY DEF Decide, Collect
<1> QED BY <1>1, <1>2, WorkerStep

\* A verdict on a section of another file, from its anchors.
LEMMA SectionEarned ==
  ASSUME NEW t, HasSection(t), t.url.file \in Files, NEW d \in had[t.url.file] \ {Gone}, NEW u
  PROVE  Earned(CheckHash(t, Anchors(d)), u)
<1>1. t.kind = "file" BY DEF HasSection
<1>2. CheckHash(t, Anchors(d)) = Verdict(t, d) BY <1>1 DEF Verdict
<1>3. CheckHash(t, Anchors(d)).target = t BY CheckFacts
<1> HIDE DEF CheckHash
<1> QED BY <1>1, <1>2, <1>3 DEF Earned

\* A verdict on a section of the own file, from its anchors.
LEMMA OwnEarned ==
  ASSUME NEW t, t.kind = "hash", t.source \in Files, NEW d \in had[t.source] \ {Gone}, NEW u
  PROVE  Earned(CheckHash(t, Anchors(Cleaned(d, cfg.ignoreDisable))), u)
<1> DEFINE anchors == Anchors(Cleaned(d, cfg.ignoreDisable))
<1>1. CheckHash(t, anchors) = Verdict(t, d)
  <2>1. ~HasSection(t) BY DEF HasSection
  <2> QED BY <2>1 DEF Verdict
<1>2. CheckHash(t, anchors).target = t BY CheckFacts
<1> HIDE DEF CheckHash, anchors
<1>3. Earned(CheckHash(t, anchors), u) BY <1>1, <1>2 DEF Earned
<1> QED BY <1>3 DEF anchors

\* A file that was there could not be read for its anchors.
LEMMA UnreadEarned ==
  ASSUME NEW t, HasSection(t), t.url.file \in Files, NEW d \in had[t.url.file] \ {Gone},
         NEW u, t \in u
  PROVE  Earned(Result(t, "alive", 200), u)
<1>1. PICK r : r = Result(t, "alive", 200) OBVIOUS
<1>2. r.target = t /\ r = CheckFile(t, d) BY <1>1 DEF CheckFile, Result
<1>3. t.kind = "file" BY DEF HasSection
<1>4. Earned(r, u) BY <1>2, <1>3 DEF Earned
<1> QED BY <1>1, <1>4

\* A link that is not an own section and not a file earns any verdict.
LEMMA OtherEarned ==
  ASSUME NEW r, r.state \notin {"alive", "dead"} \/ r.target.kind \notin {"hash", "file"}, NEW u
  PROVE  Earned(r, u)
BY DEF Earned

\* Every step keeps all of it true.
LEMMA TruthStep == Truth /\ Shape /\ [Next]_vars => Truth'
<1> SUFFICES ASSUME Truth, Shape, [Next]_vars PROVE Truth'
    OBVIOUS
<1>1. ASSUME NEW w \in Workers, NEW f \in Files, TakeSource(w, f) PROVE Truth'
  <2>1. InHand([pc |-> "read", source |-> f]) BY DEF InHand
  <2> QED BY <1>1, <2>1, WorkerStep DEF TakeSource
<1>2. ASSUME NEW w \in Workers, ReadSource(w) PROVE Truth'
  <2> DEFINE f == work[w].source
             lines == Cleaned(disk[f], cfg.ignoreDisable)
             item == [pc |-> "handle", todo |-> Targets(lines, f), own |-> Anchors(lines)]
  <2>1. f \in Files BY <1>2 DEF ReadSource, Truth, InHand
  <2>2. CASE Collect(Result(f, "error", None)) /\ work' = [work EXCEPT ![w] = Idle]
    <3>1. InHand(Idle) BY DEF InHand, Idle
    <3>2. Earned(Result(f, "error", None), unread') BY OtherEarned DEF Result
    <3> QED BY <1>2, <2>2, <3>1, <3>2, WorkerStep DEF ReadSource, Collect
  <2>3. CASE disk[f] # Gone /\ work' = [work EXCEPT ![w] = item] /\ UNCHANGED results
    <3>1. disk[f] \in had[f] \ {Gone} /\ disk[f] \in Contents \ {Gone} BY <2>1, <2>3 DEF Truth
    <3>2. Targets(lines, f) \in Seq(LinksIn(f)) BY <3>1, TargetsAreLinks
    <3>3. InHand(item) BY <2>1, <3>1, <3>2 DEF InHand
    <3> HIDE DEF item
    <3> QED BY <1>2, <2>3, <3>3, WorkerStep DEF ReadSource
  <2> QED BY <1>2, <2>2, <2>3 DEF ReadSource
<1>3. ASSUME NEW w \in Workers, Handle(w) PROVE Truth'
  <2> DEFINE t == Target(w)
  <2>1. At(w, "handle") /\ UNCHANGED <<cfg, disk, had, filesCh, anchorCache, unread>>
    BY <1>3 DEF Handle
  <2>2. PICK f \in Files :
          /\ t.source = f
          /\ \E d \in had[f] \ {Gone} : work[w].own = Anchors(Cleaned(d, cfg.ignoreDisable))
    BY <2>1, TargetFacts
  <2>3. Earned(Result(t, "ignored", None), unread') BY OtherEarned DEF Result
  <2>4. t.kind = "mailto" => Earned(CheckMailto(t), unread') BY CheckFacts, OtherEarned
  <2>5. t.kind = "hash" => Earned(CheckHash(t, work[w].own), unread')
    <3> SUFFICES ASSUME t.kind = "hash" PROVE Earned(CheckHash(t, work[w].own), unread')
        OBVIOUS
    <3>1. PICK d \in had[f] \ {Gone} : work[w].own = Anchors(Cleaned(d, cfg.ignoreDisable)) BY <2>2
    <3> QED BY <2>2, <3>1, OwnEarned
  <2>6. \/ Decide(w, Result(t, "ignored", None))
        \/ t.kind = "hash" /\ Decide(w, CheckHash(t, work[w].own))
        \/ t.kind = "mailto" /\ Decide(w, CheckMailto(t))
        \/ work' = [work EXCEPT ![w] = After(w)] /\ UNCHANGED results
    BY <1>3 DEF Handle
  <2>7. InHand(After(w)) BY <2>1, AfterFacts
  <2>8. CASE work' = [work EXCEPT ![w] = After(w)] /\ UNCHANGED results
    BY <2>1, <2>7, <2>8, WorkerStep
  <2> HIDE DEF t
  <2>9. (\E r : Earned(r, unread') /\ Decide(w, r)) => Truth' BY <2>1, DecideStep
  <2> QED BY <2>3, <2>4, <2>5, <2>6, <2>8, <2>9
<1>4. ASSUME NEW w \in Workers, Stat(w) PROVE Truth'
  <2>1. PICK t : t = Target(w) OBVIOUS
  <2>2. PICK g : g = t.url.file OBVIOUS
  <2>3. /\ At(w, "handle") /\ t.kind = "file"
        /\ UNCHANGED <<cfg, disk, had, filesCh, anchorCache, unread>>
    BY <1>4, <2>1 DEF Stat
  <2>4. g \in Files /\ disk[g] \in had[g] BY <2>1, <2>2, <2>3, TargetFacts DEF Truth
  <2>5. CASE disk[g] = Gone \/ ~HasSection(t)
    <3>1. Decide(w, CheckFile(t, disk[g])) BY <1>4, <2>1, <2>2, <2>5 DEF Stat
    <3>2. CheckFile(t, disk[g]) = Verdict(t, disk[g]) BY <2>3, <2>5 DEF Verdict
    <3>3. CheckFile(t, disk[g]).target = t BY CheckFacts
    <3> HIDE DEF CheckFile
    <3>4. Earned(CheckFile(t, disk[g]), unread') BY <2>2, <2>3, <2>4, <3>2, <3>3 DEF Earned
    <3> QED BY <2>3, <3>1, <3>4, DecideStep
  <2>6. CASE disk[g] # Gone /\ HasSection(t)
    <3> DEFINE item == [work[w] EXCEPT !.pc = "lookup"]
    <3>1. work' = [work EXCEPT ![w] = item] /\ UNCHANGED results BY <1>4, <2>1, <2>2, <2>6 DEF Stat
    <3>2. item.pc = "lookup" /\ item.todo = work[w].todo /\ item.own = work[w].own
      BY <2>3 DEF Shape, At
    <3>3. Head(item.todo) = t /\ item.todo # <<>> BY <2>1, <2>3, <3>2 DEF Target, At
    <3> HIDE DEF item
    <3>4. \E f \in Files :
            /\ item.todo \in Seq(LinksIn(f))
            /\ \E d \in had[f] \ {Gone} : item.own = Anchors(Cleaned(d, cfg.ignoreDisable))
      BY <2>3, <3>2, TargetFacts
    <3>5. had[g] # {Gone} BY <2>4, <2>6
    <3>6. InHand(item) BY <2>2, <2>6, <3>2, <3>3, <3>4, <3>5 DEF InHand
    <3> QED BY <2>3, <3>1, <3>6, WorkerStep
  <2> QED BY <2>5, <2>6
<1>5. ASSUME NEW w \in Workers, Lookup(w) PROVE Truth'
  <2>1. PICK t : t = Target(w) OBVIOUS
  <2>2. PICK g : g = t.url.file OBVIOUS
  <2>3. /\ At(w, "lookup") /\ work[w].pc = "lookup" /\ InHand(work[w])
        /\ UNCHANGED <<cfg, disk, had, filesCh, anchorCache, unread>>
    BY <1>5 DEF Lookup, At, Truth
  <2>4. HasSection(t) /\ had[g] # {Gone} /\ work[w].todo # <<>>
    BY <2>1, <2>2, <2>3 DEF InHand, Target
  <2>5. CASE g \in DOMAIN anchorCache
    <3>1. PICK d \in had[g] \ {Gone} : g \in Files /\ anchorCache[g] = Anchors(d) BY <2>5 DEF Truth
    <3>2. Decide(w, CheckHash(t, Anchors(d))) BY <1>5, <2>1, <2>2, <2>5, <3>1 DEF Lookup
    <3>3. Earned(CheckHash(t, Anchors(d)), unread') BY <2>2, <2>4, <3>1, SectionEarned
    <3> QED BY <2>3, <3>2, <3>3, DecideStep
  <2>6. CASE g \notin DOMAIN anchorCache
    <3> DEFINE item == [work[w] EXCEPT !.pc = "open"]
    <3>1. work' = [work EXCEPT ![w] = item] /\ UNCHANGED results BY <1>5, <2>1, <2>2, <2>6 DEF Lookup
    <3>2. item.pc = "open" /\ item.todo = work[w].todo /\ item.own = work[w].own
      BY <2>3 DEF Shape
    <3> HIDE DEF item
    <3>3. InHand(item) BY <2>3, <3>2 DEF InHand
    <3> QED BY <2>3, <3>1, <3>3, WorkerStep
  <2> QED BY <2>5, <2>6
<1>6. ASSUME NEW w \in Workers, OpenFail(w) \/ Open(w) PROVE Truth'
  <2>1. PICK t : t = Target(w) OBVIOUS
  <2>2. PICK g : g = t.url.file OBVIOUS
  <2>3. /\ At(w, "open") /\ work[w].pc = "open" /\ InHand(work[w])
        /\ UNCHANGED <<cfg, disk, had, filesCh, anchorCache>>
    BY <1>6 DEF OpenFail, Open, At, Truth
  <2>4. /\ HasSection(t) /\ t.kind = "file" /\ had[g] # {Gone}
        /\ work[w].todo # <<>> /\ t = Head(work[w].todo)
    BY <2>1, <2>2, <2>3 DEF InHand, Target, HasSection
  <2>5. g \in Files /\ disk[g] \in had[g] BY <2>1, <2>2, <2>3, <2>4, TargetFacts DEF Truth
  <2>6. CASE OpenFail(w)
    <3>1. Decide(w, Result(t, "alive", 200)) /\ unread' = unread \cup {t}
      BY <2>1, <2>6 DEF OpenFail
    <3>2. PICK d \in had[g] : d # Gone BY <2>4, <2>5
    <3>3. Earned(Result(t, "alive", 200), unread')
      BY <2>2, <2>4, <2>5, <3>1, <3>2, UnreadEarned
    <3> QED BY <2>3, <3>1, <3>3, DecideStep
  <2>7. CASE Open(w)
    <3> DEFINE item == [pc |-> "store", todo |-> work[w].todo, own |-> work[w].own,
                        anchors |-> Anchors(disk[g])]
    <3>1. work' = [work EXCEPT ![w] = item] /\ disk[g] # Gone /\ UNCHANGED <<results, unread>>
      BY <2>1, <2>2, <2>7 DEF Open
    <3>2. /\ item.pc = "store" /\ item.todo = work[w].todo /\ item.own = work[w].own
          /\ item.anchors = Anchors(disk[g])
      OBVIOUS
    <3> HIDE DEF item
    <3>3. InHand(item) BY <2>2, <2>3, <2>4, <2>5, <3>1, <3>2 DEF InHand
    <3> QED BY <2>3, <3>1, <3>3, WorkerStep
  <2> QED BY <1>6, <2>6, <2>7
<1>7. ASSUME NEW w \in Workers, Store(w) PROVE Truth'
  <2>1. PICK t : t = Target(w) OBVIOUS
  <2>2. PICK g : g = t.url.file OBVIOUS
  <2>3. /\ At(w, "store") /\ work[w].pc = "store" /\ InHand(work[w])
        /\ UNCHANGED <<cfg, disk, had, filesCh, unread>>
    BY <1>7 DEF Store, At, Truth
  <2>4. HasSection(t) /\ t.kind = "file" /\ t = Head(work[w].todo)
    BY <2>1, <2>3 DEF InHand, Target, HasSection
  <2>5. PICK d \in had[g] \ {Gone} : work[w].anchors = Anchors(d) BY <2>2, <2>3, <2>4 DEF InHand
  <2>6. g \in Files BY <2>1, <2>2, <2>3, <2>4, TargetFacts
  <2> DEFINE item == [pc |-> "handle", todo |-> Tail(work[w].todo), own |-> work[w].own]
  <2>7. /\ work' = [work EXCEPT ![w] = item] /\ results' = results \cup {CheckHash(t, Anchors(d))}
        /\ anchorCache' = With(g, Anchors(d))
    BY <1>7, <2>1, <2>2, <2>5 DEF Store, Collect, Kept
  <2>8. /\ item.pc = "handle" /\ item.todo = Tail(work[w].todo) /\ item.own = work[w].own
    OBVIOUS
  <2> HIDE DEF item
  <2>9. InHand(item) BY <2>3, <2>8, TargetFacts DEF InHand
  <2>10. Earned(CheckHash(t, Anchors(d)), unread') BY <2>2, <2>4, <2>6, SectionEarned
  <2> QED BY <2>3, <2>6, <2>7, <2>9, <2>10, WorkerStep
<1>8. ASSUME NEW w \in Workers, ParseReturn(w) PROVE Truth'
  <2>1. InHand(Idle) BY DEF InHand, Idle
  <2> QED BY <1>8, <2>1, WorkerStep DEF ParseReturn
<1>9. ASSUME NEW e \in Edits, Edit(e[1], e[2]) PROVE Truth'
  <2>1. /\ disk' = [disk EXCEPT ![e[1]] = e[2]] /\ had' = [had EXCEPT ![e[1]] = @ \cup {e[2]}]
        /\ UNCHANGED <<cfg, filesCh, work, anchorCache, results, unread>>
    BY <1>9 DEF Edit
  <2>2. e[2] \in Contents
    <3>1. PICK c : c = e[2] OBVIOUS
    <3>2. c \in {x[2] : x \in Edits} BY <3>1
    <3>3. c \in Contents BY <3>2 DEF Contents
    <3> QED BY <3>1, <3>3
  <2>3. /\ DOMAIN had' = Files /\ DOMAIN disk' = Files
        /\ \A f \in Files : disk'[f] \in had'[f] /\ had'[f] \subseteq Contents
    BY <2>1, <2>2 DEF Truth
  <2>4. \A f \in Files : had[f] \subseteq had'[f] /\ had[f] # {} BY <2>1 DEF Truth
  <2>5. \A w \in Workers : InHand(work[w])'
    <3>1. ASSUME NEW i, InHand(i), NEW w \in Workers, i = work[w] PROVE InHand(work[w])'
      <4>1. InHand(i)' BY <2>1, <2>4, <3>1, InHandStays
      <4> QED BY <2>1, <3>1, <4>1 DEF InHand
    <3> QED BY <3>1 DEF Truth
  <2>6. \A r \in results' : Earned(r, unread)'
    <3>1. \A r : Earned(r, unread) => Earned(r, unread)' BY <2>1, <2>4, EarnedStays
    <3> QED BY <2>1, <3>1 DEF Truth
  <2> QED BY <2>1, <2>3, <2>4, <2>5, <2>6 DEF Truth
<1>10. CASE UNCHANGED vars
  BY <1>10 DEF vars, Truth, InHand, Earned, Verdict, CheckFile, Result, HasSection
<1> QED BY <1>1, <1>2, <1>3, <1>4, <1>5, <1>6, <1>7, <1>8, <1>9, <1>10 DEF Next

\* It is true in the beginning.
LEMMA TruthInit == Init => Truth
<1> SUFFICES ASSUME Init PROVE Truth
    OBVIOUS
<1>1. PICK w \in Worlds : disk = w.disk /\ filesCh = w.sources BY DEF Init
<1>2. DOMAIN disk = Files BY <1>1, OfflineAssumption
<1>3. \A f \in Files : disk[f] \in Contents
  <2> SUFFICES ASSUME NEW f \in Files PROVE disk[f] \in Contents
      OBVIOUS
  <2>1. disk[f] \in Range(w.disk) BY <1>1, <1>2 DEF Range
  <2>2. disk[f] \in UNION {Range(x.disk) : x \in Worlds} BY <2>1
  <2> QED BY Zenon, <2>2 DEF Contents
<1>4. \A v \in Workers : InHand(work[v])
  <2>1. \A v \in Workers : work[v] = Idle BY DEF Init
  <2> QED BY <2>1 DEF InHand, Idle
<1>5. had = [f \in Files |-> {disk[f]}] /\ DOMAIN anchorCache = {} /\ results = {} BY DEF Init
<1>6. filesCh \subseteq Files BY <1>1, OfflineAssumption
<1> QED BY <1>2, <1>3, <1>4, <1>5, <1>6 DEF Truth

\* Each verdict on a file or a section is one that some content of the file in this run
\* deserves, but for a link whose file was there for os.Stat and failed os.ReadFile: that one
\* is alive without a look at the section (handleTarget, checkFileTarget, fileAnchors).
THEOREM VerdictsHold == Spec => []VerdictsAreTrue
<1>1. Truth => VerdictsAreTrue BY DEF Truth, Earned, VerdictsAreTrue, Decided
<1>2. Init => Shape BY DEF Init, Shape, Idle
<1> QED BY <1>1, <1>2, TruthInit, TruthStep, ShapeStep, PTL DEF Spec

-----------------------------------------------------------------------------
(* The slugs.                                                              *)

\* The path of headingSlugs: what it registered, and what it returned, after each heading.
Counters(U) == UNION {[D -> Nat] : D \in SUBSET Seq(U)}
\* The accumulators.
Accs(U) == [seen : Counters(U), out : Seq(Seq(U))]

\* A heading whose name was registered before, and another one.
Numbers(a, b, s, t) ==
  /\ s \in DOMAIN a.seen
  /\ t = Append(s, a.seen[s] + 1)
  /\ DOMAIN b.seen = DOMAIN a.seen \cup {t} /\ b.seen[s] = a.seen[s] + 1 /\ b.seen[t] = 0
  /\ \A x \in DOMAIN a.seen \ {s, t} : b.seen[x] = a.seen[x]
Enters(a, b, s, t) ==
  /\ s \notin DOMAIN a.seen /\ t = s
  /\ DOMAIN b.seen = DOMAIN a.seen \cup {t} /\ b.seen[t] = 0
  /\ \A x \in DOMAIN a.seen : b.seen[x] = a.seen[x]

\* Longer by one: the last element, and the rest.
LEMMA Longer ==
  ASSUME NEW U, NEW s \in Seq(U), NEW x \in U
  PROVE  /\ Append(s, x) \in Seq(U) /\ Len(Append(s, x)) = Len(s) + 1 /\ Append(s, x) # s
         /\ Front(Append(s, x)) = s /\ Append(s, x)[Len(s) + 1] = x
         /\ \A i \in 1..Len(s) : Append(s, x)[i] = s[i]
<1>1. /\ Append(s, x) \in Seq(U) /\ Len(Append(s, x)) = Len(s) + 1
      /\ Append(s, x)[Len(s) + 1] = x /\ \A i \in 1..Len(s) : Append(s, x)[i] = s[i]
  OBVIOUS
<1>2. Append(s, x) # s BY <1>1
<1>3. Front(Append(s, x)) = s
  <2>1. Front(Append(s, x)) = SubSeq(Append(s, x), 1, Len(s)) BY <1>1 DEF Front
  <2>2. SubSeq(Append(s, x), 1, Len(s)) = s BY <1>1
  <2> QED BY <2>1, <2>2
<1> QED BY <1>1, <1>2, <1>3

\* A function from names to numbers.
LEMMA CountersAre ==
  ASSUME NEW U, NEW c
  PROVE  c \in Counters(U) <=> /\ DOMAIN c \subseteq Seq(U) /\ c \in [DOMAIN c -> Nat]
<1>1. ASSUME c \in Counters(U) PROVE DOMAIN c \subseteq Seq(U) /\ c \in [DOMAIN c -> Nat]
  <2>1. PICK F \in {[D -> Nat] : D \in SUBSET Seq(U)} : c \in F BY <1>1 DEF Counters
  <2>2. PICK D \in SUBSET Seq(U) : F = [D -> Nat] BY <2>1
  <2> QED BY <2>1, <2>2
<1>2. ASSUME DOMAIN c \subseteq Seq(U), c \in [DOMAIN c -> Nat] PROVE c \in Counters(U)
  <2>1. [DOMAIN c -> Nat] \in {[D -> Nat] : D \in SUBSET Seq(U)} BY <1>2
  <2> QED BY <1>2, <2>1 DEF Counters
<1> QED BY <1>1, <1>2

\* One counter is set.
Sets(new, c, s, n) ==
  /\ DOMAIN new = DOMAIN c \cup {s} /\ new[s] = n
  /\ \A x \in DOMAIN c \ {s} : new[x] = c[x]

\* Counted sets one counter.
LEMMA CountedFacts ==
  ASSUME NEW U, NEW c \in Counters(U), NEW s \in Seq(U), NEW n \in Nat
  PROVE  /\ Counted(c, s, n) \in Counters(U)
         /\ Sets(Counted(c, s, n), c, s, n)
<1>1. DOMAIN c \subseteq Seq(U) /\ \A x \in DOMAIN c : c[x] \in Nat BY CountersAre
<1> DEFINE new == Counted(c, s, n)
<1>2. /\ DOMAIN new = DOMAIN c \cup {s} /\ new[s] = n /\ \A x \in DOMAIN c \ {s} : new[x] = c[x]
      /\ new = [x \in DOMAIN new |-> new[x]]
  BY DEF Counted
<1> HIDE DEF new
<1>3. \A x \in DOMAIN new : new[x] \in Nat BY <1>1, <1>2
<1>4. DOMAIN new \subseteq Seq(U) BY <1>1, <1>2
<1>5. new \in [DOMAIN new -> Nat] BY <1>2, <1>3
<1>6. new \in Counters(U) BY <1>4, <1>5, CountersAre
<1> QED BY <1>2, <1>6 DEF new, Sets

\* A step of headingSlugs returns t.
Registers(a, b, s, t) == b.out = Append(a.out, t) /\ (Numbers(a, b, s, t) \/ Enters(a, b, s, t))

\* What one heading does.
LEMMA RegisteredFacts ==
  ASSUME NEW U, Nat \subseteq U, NEW a \in Accs(U), NEW h, NEW s \in Seq(U), s = Slug(h.name)
  PROVE  /\ Registered(a, h) \in Accs(U)
         /\ \E t \in Seq(U) : Registers(a, Registered(a, h), s, t)
<1>1. /\ a.seen \in Counters(U) /\ a.out \in Seq(Seq(U)) BY DEF Accs
<1> DEFINE b == Registered(a, h)
<1>2. CASE s \in DOMAIN a.seen
  <2>1. PICK n : n = a.seen[s] + 1 OBVIOUS
  <2>2. PICK t : t = Append(s, n) OBVIOUS
  <2>3. n \in Nat BY <1>1, <1>2, <2>1, CountersAre
  <2>4. t \in Seq(U) /\ t # s BY <2>2, <2>3, Longer
  <2>5. PICK c : c = Counted(a.seen, s, n) OBVIOUS
  <2>6. /\ c \in Counters(U) /\ DOMAIN c = DOMAIN a.seen /\ c[s] = n
        /\ \A x \in DOMAIN a.seen \ {s} : c[x] = a.seen[x]
    <3>1. c \in Counters(U) /\ Sets(c, a.seen, s, n) BY <1>1, <2>3, <2>5, CountedFacts
    <3> QED BY <1>2, <3>1 DEF Sets
  <2>7. b = [seen |-> Counted(c, t, 0), out |-> Append(a.out, t)]
    BY <1>2, <2>1, <2>2, <2>5 DEF Registered, Numbered
  <2>8. Counted(c, t, 0) \in Counters(U) /\ Sets(Counted(c, t, 0), c, t, 0)
    <3>1. 0 \in Nat OBVIOUS
    <3> QED BY <2>4, <2>6, <3>1, CountedFacts
  <2>9. Append(a.out, t) \in Seq(Seq(U)) BY <1>1, <2>4
  <2> HIDE DEF b
  <2>10. b.seen = Counted(c, t, 0) /\ b.out = Append(a.out, t) BY <2>7
  <2>11. b \in Accs(U) BY <2>7, <2>8, <2>9 DEF Accs
  <2>12. Numbers(a, b, s, t) BY <1>2, <2>1, <2>2, <2>4, <2>6, <2>8, <2>10 DEF Numbers, Sets
  <2> QED BY <2>4, <2>10, <2>11, <2>12 DEF b, Registers
<1>3. CASE s \notin DOMAIN a.seen
  <2>1. b = [seen |-> Counted(a.seen, s, 0), out |-> Append(a.out, s)]
    BY <1>3 DEF Registered
  <2>2. Counted(a.seen, s, 0) \in Counters(U) /\ Sets(Counted(a.seen, s, 0), a.seen, s, 0)
    <3>1. 0 \in Nat OBVIOUS
    <3> QED BY <1>1, <3>1, CountedFacts
  <2>3. Append(a.out, s) \in Seq(Seq(U)) BY <1>1
  <2> HIDE DEF b
  <2>4. b.seen = Counted(a.seen, s, 0) /\ b.out = Append(a.out, s) BY <2>1
  <2>5. b \in Accs(U) BY <2>1, <2>2, <2>3 DEF Accs
  <2>6. Enters(a, b, s, s) BY <1>3, <2>2, <2>4 DEF Enters, Sets
  <2> QED BY <2>4, <2>5, <2>6 DEF b, Registers
<1> QED BY <1>2, <1>3

\* The accumulator of headingSlugs before and after each heading.
Start == [seen |-> <<>>, out |-> <<>>]
\* What headingSlugs has after each heading.
SlugPath(p, U, base, n, slugs) ==
  /\ p[0] = Start /\ p[n].out = slugs
  /\ \A i \in 1..n : /\ p[i - 1] \in Accs(U) /\ p[i] \in Accs(U)
                     /\ \E t \in Seq(U) : Registers(p[i - 1], p[i], base[i], t)

\* headingSlugs goes through the headings one by one.
LEMMA SlugPathExists ==
  ASSUME NEW U, Nat \subseteq U, NEW H, NEW lines,
         NEW heads \in Seq(H), heads = Outside(lines, InBlock(lines), "heading"),
         \A h \in H : Slug(h.name) \in Seq(U)
  PROVE  \E p : SlugPath(p, U, [i \in DOMAIN heads |-> Slug(heads[i].name)], Len(heads),
                         HeadingSlugs(lines))
<1> DEFINE n == Len(heads)
           A == Accs(U)
           base == [i \in DOMAIN heads |-> Slug(heads[i].name)]
           Op(acc, i) == Registered(acc, heads[i])
           step == [q \in A \X (1..n) |-> Op(q[1], q[2])]
           Body(g) == [s \in SUBSET DOMAIN heads |->
                         IF s = {} THEN Start ELSE Op(g[s \ {Max(s)}], Max(s))]
           fold == CHOOSE g : g = Body(g)
<1>1. n \in Nat /\ DOMAIN heads = 1..n OBVIOUS
<1>2. \A i \in 1..n : heads[i] \in H /\ base[i] = Slug(heads[i].name) /\ base[i] \in Seq(U) OBVIOUS
<1>3. Start \in A
  <2>1. <<>> \in Counters(U)
    <3>1. DOMAIN <<>> = {} /\ <<>> = [x \in {} |-> x] OBVIOUS
    <3> QED BY <3>1, CountersAre
  <2> QED BY <2>1 DEF Start, Accs
<1> HIDE DEF n, A, base
<1>4. ASSUME NEW a \in A, NEW i \in 1..n
      PROVE  Op(a, i) \in A /\ \E t \in Seq(U) : Registers(a, Op(a, i), base[i], t)
  BY <1>2, RegisteredFacts DEF A
<1>5. step \in [A \X (1..n) -> A] BY <1>4
<1>6. \A a \in A, i \in 1..n : step[<<a, i>>] = Op(a, i) OBVIOUS
<1>7. HeadingSlugs(lines) = fold[DOMAIN heads].out
  BY Zenon DEF HeadingSlugs, FoldLeft, MapThenFoldSet, Start
<1> HIDE DEF step, Op
<1>8. PICK g : Folding(g, n, A, Start, step) BY <1>1, <1>3, <1>5, FoldExists
<1>9. g = Body(g)
  <2>1. g = [s \in SUBSET (1..n) |-> g[s]] /\ g[{}] = Start BY <1>8 DEF Folding
  <2>2. \A s \in SUBSET (1..n) : s # {} => Max(s) \in 1..n /\ g[s \ {Max(s)}] \in A
    BY <1>1, <1>8, MaxOfSome DEF Folding
  <2>3. \A s \in SUBSET (1..n) : s # {} => g[s] = Op(g[s \ {Max(s)}], Max(s))
    BY <1>6, <1>8, <2>2 DEF Folding
  <2> QED BY <1>1, <2>1, <2>2, <2>3
<1>10. fold = Body(fold)
  <2> HIDE DEF Body
  <2> QED BY <1>9
<1> HIDE DEF fold
<1>11. Unfolding(fold, n, A, Start, step)
  <2>1. fold = [s \in SUBSET (1..n) |-> fold[s]] /\ fold[{}] = Start BY <1>1, <1>10
  <2>2. \A s \in SUBSET (1..n) : s # {} => Max(s) \in 1..n BY <1>1, MaxOfSome
  <2>3. \A s \in SUBSET (1..n) : s # {} => fold[s] = Op(fold[s \ {Max(s)}], Max(s))
    BY <1>1, <1>10, <2>2
  <2> HIDE DEF Body
  <2>4. \A s \in SUBSET (1..n) : s # {} /\ fold[s \ {Max(s)}] \in A
          => fold[s] = step[<<fold[s \ {Max(s)}], Max(s)>>]
    BY <1>6, <2>2, <2>3
  <2> QED BY <2>1, <2>4 DEF Unfolding
<1>12. Folding(fold, n, A, Start, step) BY <1>1, <1>3, <1>5, <1>11, FoldTyped
<1>13. PICK p : Path(p, n, A, Start, step) /\ p[n] = fold[1..n] BY <1>1, <1>12, FoldPath
<1>14. p[0] = Start /\ p[n].out = HeadingSlugs(lines) BY <1>1, <1>7, <1>13 DEF Path
<1>15. \A i \in 1..n : p[i - 1] \in A /\ p[i] = Op(p[i - 1], i) BY <1>6, <1>13 DEF Path
<1>16. \A i \in 1..n : p[i] \in A /\ \E t \in Seq(U) : Registers(p[i - 1], p[i], base[i], t)
  BY <1>4, <1>15
<1>17. SlugPath(p, U, base, n, HeadingSlugs(lines)) BY <1>14, <1>15, <1>16 DEF SlugPath, A
<1> QED BY <1>17 DEF n, base

\* How many of the first m names are b.
Among(base, b, m) == {j \in 1..m : base[j] = b}
\* Their number.
Count(base, b, m) == Cardinality(Among(base, b, m))

\* One more name, or not.
LEMMA CountFacts ==
  ASSUME NEW base, NEW b, NEW m \in Nat
  PROVE  /\ IsFiniteSet(Among(base, b, m)) /\ Count(base, b, m) \in Nat
         /\ Count(base, b, 0) = 0
         /\ base[m + 1] = b => Count(base, b, m + 1) = Count(base, b, m) + 1
         /\ base[m + 1] # b => Count(base, b, m + 1) = Count(base, b, m)
         /\ Count(base, b, m) = 0 <=> \A j \in 1..m : base[j] # b
<1>1. IsFiniteSet(Among(base, b, m)) /\ Count(base, b, m) \in Nat
  <2>1. IsFiniteSet(1..m) BY FS_Interval
  <2>2. Among(base, b, m) \in SUBSET (1..m) BY DEF Among
  <2> QED BY <2>1, <2>2, FS_Subset, FS_CardinalityType DEF Count
<1>2. Count(base, b, 0) = 0
  <2>1. Among(base, b, 0) = {} BY DEF Among
  <2> QED BY <2>1, FS_EmptySet DEF Count
<1>3. base[m + 1] = b => Count(base, b, m + 1) = Count(base, b, m) + 1
  <2>1. m + 1 \notin Among(base, b, m) BY DEF Among
  <2>2. base[m + 1] = b => Among(base, b, m + 1) = Among(base, b, m) \cup {m + 1} BY DEF Among
  <2> QED BY <1>1, <2>1, <2>2, FS_AddElement DEF Count
<1>4. base[m + 1] # b => Count(base, b, m + 1) = Count(base, b, m)
  <2>1. base[m + 1] # b => Among(base, b, m + 1) = Among(base, b, m) BY DEF Among
  <2> QED BY <2>1 DEF Count
<1>5. Count(base, b, m) = 0 <=> \A j \in 1..m : base[j] # b
  <2>1. Count(base, b, m) = 0 <=> Among(base, b, m) = {} BY <1>1, FS_EmptySet DEF Count
  <2>2. Among(base, b, m) = {} <=> \A j \in 1..m : base[j] # b BY DEF Among
  <2> QED BY <2>1, <2>2
<1> QED BY <1>1, <1>2, <1>3, <1>4, <1>5

\* A numbered name has two parts or more.
LEMMA NotOne ==
  ASSUME NEW U, NEW s \in Seq(U), Len(s) = 1, NEW x \in U
  PROVE  Len(Append(s, x)) # 1
OBVIOUS

\* A name, with how many equal ones are above it if there are any.
NameAt(base, i) ==
  IF Count(base, base[i], i - 1) = 0 THEN base[i] ELSE Append(base[i], Count(base, base[i], i - 1))

\* After m headings, of which none is literally numbered.
Plain(a, base, m) ==
  /\ Len(a.out) = m /\ \A i \in 1..m : a.out[i] = NameAt(base, i)
  /\ \A i \in 1..m : base[i] \in DOMAIN a.seen
  /\ \A s \in DOMAIN a.seen :
       Len(s) = 1 => Count(base, s, m) > 0 /\ a.seen[s] = Count(base, s, m) - 1

\* Without literally numbered headings, slugs are the names with these numbers.
LEMMA PlainSlugs ==
  ASSUME NEW U, Nat \subseteq U, NEW n \in Nat, NEW base, \A i \in 1..n : base[i] \in Seq(U),
         NEW slugs, NEW p, SlugPath(p, U, base, n, slugs),
         \A i \in 1..n : Len(base[i]) = 1
  PROVE  \A i \in 1..n : slugs[i] = NameAt(base, i)
<1> DEFINE K == {m \in Nat : m <= n => Plain(p[m], base, m)}
<1>1. 0 \in K
  <2>1. p[0] = [seen |-> <<>>, out |-> <<>>] BY DEF SlugPath, Start
  <2>2. Plain(p[0], base, 0) BY <2>1 DEF Plain
  <2> QED BY <2>2
<1>2. ASSUME NEW m \in Nat, m \in K PROVE m + 1 \in K
  <2> SUFFICES ASSUME m + 1 <= n PROVE Plain(p[m + 1], base, m + 1)
      OBVIOUS
  <2>1. Plain(p[m], base, m) BY <1>2
  <2>2. m + 1 \in 1..n /\ (m + 1) - 1 = m OBVIOUS
  <2> HIDE DEF K
  <2>3. PICK a, b, s : a = p[m] /\ b = p[m + 1] /\ s = base[m + 1] OBVIOUS
  <2>4. PICK t \in Seq(U) : Registers(a, b, s, t) BY <2>2, <2>3 DEF SlugPath
  <2>5. a \in Accs(U) /\ b \in Accs(U) BY <2>2, <2>3 DEF SlugPath
  <2>6. s \in Seq(U) /\ Len(s) = 1 BY <2>2, <2>3
  <2>7. /\ a.out \in Seq(Seq(U)) /\ a.seen \in Counters(U) BY <2>5 DEF Accs
  <2>8. PICK c \in Nat : c = Count(base, s, m) BY CountFacts
  <2>9. Count(base, s, m + 1) = c + 1 BY <2>3, <2>8, CountFacts
  <2>10. \A x : x # s => Count(base, x, m + 1) = Count(base, x, m) BY <2>3, CountFacts
  <2>11. /\ b.out = Append(a.out, t) /\ Len(b.out) = m + 1 /\ b.out[m + 1] = t
         /\ \A i \in 1..m : b.out[i] = a.out[i]
    BY <2>1, <2>3, <2>4, <2>7 DEF Registers, Plain
  <2>12. s \in DOMAIN a.seen <=> c # 0
    <3>1. s \in DOMAIN a.seen => c # 0 BY <2>1, <2>3, <2>6, <2>8 DEF Plain
    <3>2. c # 0 => \E j \in 1..m : base[j] = s BY <2>8, CountFacts
    <3> QED BY <2>1, <2>3, <3>1, <3>2 DEF Plain
  <2>13. t = NameAt(base, m + 1) /\ (t = s \/ Len(t) # 1)
    <3>1. CASE c = 0
      <4>1. t = s BY <2>4, <2>12, <3>1 DEF Registers, Numbers, Enters
      <4> QED BY <2>2, <2>3, <2>8, <3>1, <4>1 DEF NameAt
    <3>2. CASE c # 0
      <4>1. t = Append(s, a.seen[s] + 1) BY <2>4, <2>12, <3>2 DEF Registers, Numbers, Enters
      <4>2. a.seen[s] = c - 1 BY <2>1, <2>3, <2>6, <2>8, <2>12, <3>2 DEF Plain
      <4>3. t = Append(s, c) BY <4>1, <4>2
      <4>4. c \in U OBVIOUS
      <4>5. Len(t) # 1
        <5>1. Len(Append(s, c)) # 1 BY <2>6, <4>4, NotOne
        <5> QED BY <4>3, <5>1
      <4> QED BY <2>2, <2>3, <2>8, <3>2, <4>3, <4>5 DEF NameAt
    <3> QED BY <3>1, <3>2
  <2>14. \A i \in 1..(m + 1) : b.out[i] = NameAt(base, i)
    <3>1. \A i \in 1..(m + 1) : i \in 1..m \/ i = m + 1 OBVIOUS
    <3> QED BY <2>1, <2>3, <2>11, <2>13, <3>1 DEF Plain
  <2>15. DOMAIN b.seen = DOMAIN a.seen \cup {t} /\ s \in DOMAIN b.seen
    BY <2>4 DEF Registers, Numbers, Enters
  <2>16. \A i \in 1..(m + 1) : base[i] \in DOMAIN b.seen
    <3>1. \A i \in 1..(m + 1) : i \in 1..m \/ i = m + 1 OBVIOUS
    <3> QED BY <2>1, <2>3, <2>15, <3>1 DEF Plain
  <2>17. ASSUME NEW x \in DOMAIN b.seen, Len(x) = 1
         PROVE  Count(base, x, m + 1) > 0 /\ b.seen[x] = Count(base, x, m + 1) - 1
    <3>1. CASE x = s
      <4>1. c = 0 => b.seen[s] = 0 BY <2>4, <2>12 DEF Registers, Numbers, Enters
      <4>2. c # 0 => b.seen[s] = c
        <5>1. c # 0 => b.seen[s] = a.seen[s] + 1 BY <2>4, <2>12 DEF Registers, Numbers, Enters
        <5>2. c # 0 => a.seen[s] = c - 1 BY <2>1, <2>3, <2>6, <2>8, <2>12 DEF Plain
        <5>3. (c - 1) + 1 = c OBVIOUS
        <5> QED BY <5>1, <5>2, <5>3
      <4>3. b.seen[s] = Count(base, s, m + 1) - 1 /\ Count(base, s, m + 1) > 0
        <5>1. b.seen[s] = c BY <4>1, <4>2
        <5>2. (c + 1) - 1 = c /\ c + 1 > 0 OBVIOUS
        <5> QED BY <2>9, <5>1, <5>2
      <4> QED BY <3>1, <4>3
    <3>2. CASE x # s
      <4>1. x # t
        <5>1. t = s \/ Len(t) # 1 BY <2>13
        <5> QED BY Zenon, <2>17, <3>2, <5>1
      <4>2. x \in DOMAIN a.seen BY <2>15, <4>1
      <4>3. b.seen[x] = a.seen[x] BY <2>4, <3>2, <4>1, <4>2 DEF Registers, Numbers, Enters
      <4> QED BY <2>1, <2>3, <2>10, <2>17, <3>2, <4>2, <4>3 DEF Plain
    <3> QED BY <3>1, <3>2
  <2>18. Plain(b, base, m + 1) BY <2>11, <2>14, <2>16, <2>17 DEF Plain
  <2> QED BY <2>3, <2>18
<1>3. n \in K
  <2> HIDE DEF K
  <2> QED BY <1>1, <1>2, Induction
<1>4. Plain(p[n], base, n) BY <1>3
<1> QED BY <1>4 DEF Plain, SlugPath

\* A literally numbered heading comes before one of its base.
Late(base, n) ==
  \E k \in 1..n, l \in 1..n : k < l /\ Len(base[k]) > 1 /\ base[l] = Front(base[k])

\* After m headings: all that was returned is registered, and differs; a numbered name is
\* one that the counter of its base has passed.
Passed(a, s, b) == b \in DOMAIN a.seen /\ \E c \in 1..a.seen[b] : s = Append(b, c)
\* After m headings.
Distinct(a, base, m) ==
  /\ Len(a.out) = m
  /\ \A i \in 1..m : a.out[i] \in DOMAIN a.seen
  /\ \A i \in 1..m : a.out[i] = base[i] \/ Passed(a, a.out[i], base[i])
  /\ \A i, j \in 1..m : i < j => a.out[i] # a.out[j]

\* A numbered name can be taken apart.
LEMMA SameEnds ==
  ASSUME NEW U, NEW s \in Seq(U), NEW r \in Seq(U), NEW x \in U, NEW y \in U,
         Append(s, x) = Append(r, y)
  PROVE  s = r /\ x = y
<1>1. Front(Append(s, x)) = s /\ Front(Append(r, y)) = r BY Longer
<1>2. s = r BY <1>1
<1>3. Append(s, x)[Len(s) + 1] = x /\ Append(r, y)[Len(r) + 1] = y BY Longer
<1> QED BY <1>2, <1>3

\* Its base is all but the number.
LEMMA FrontOfNumbered ==
  ASSUME NEW U, NEW s \in Seq(U), s # <<>>, NEW x \in U, NEW t, t = Append(s, x)
  PROVE  Len(t) > 1 /\ Front(t) = s
<1>1. Front(Append(s, x)) = s /\ Len(Append(s, x)) = Len(s) + 1 BY Longer
<1>2. Len(s) > 0 BY DEF Front
<1> QED BY <1>1, <1>2

\* No slug is returned twice unless a counter begins again.
LEMMA DistinctSlugs ==
  ASSUME NEW U, Nat \subseteq U, NEW n \in Nat, NEW base,
         \A i \in 1..n : base[i] \in Seq(U) /\ base[i] # <<>>,
         NEW slugs, NEW p, SlugPath(p, U, base, n, slugs), ~Late(base, n)
  PROVE  Len(slugs) = n /\ \A i, j \in 1..n : i < j => slugs[i] # slugs[j]
<1> DEFINE K == {m \in Nat : m <= n => Distinct(p[m], base, m)}
<1>1. 0 \in K
  <2>1. p[0] = [seen |-> <<>>, out |-> <<>>] BY DEF SlugPath, Start
  <2>2. Distinct(p[0], base, 0) BY <2>1 DEF Distinct
  <2> QED BY <2>2
<1>2. ASSUME NEW m \in Nat, m \in K PROVE m + 1 \in K
  <2> SUFFICES ASSUME m + 1 <= n PROVE Distinct(p[m + 1], base, m + 1)
      OBVIOUS
  <2>1. Distinct(p[m], base, m) BY <1>2
  <2>2. m + 1 \in 1..n /\ (m + 1) - 1 = m /\ \A i \in 1..m : i \in 1..n OBVIOUS
  <2> HIDE DEF K
  <2>3. PICK a, b, s : a = p[m] /\ b = p[m + 1] /\ s = base[m + 1] OBVIOUS
  <2>4. PICK t \in Seq(U) : Registers(a, b, s, t) BY <2>2, <2>3 DEF SlugPath
  <2>5. a \in Accs(U) /\ b \in Accs(U) BY <2>2, <2>3 DEF SlugPath
  <2>6. s \in Seq(U) /\ s # <<>> BY <2>2, <2>3
  <2>7. /\ a.out \in Seq(Seq(U)) /\ a.seen \in Counters(U) BY <2>5 DEF Accs
  <2>8. \A x \in DOMAIN a.seen : a.seen[x] \in Nat BY <2>7, CountersAre
  <2>9. /\ b.out = Append(a.out, t) /\ Len(b.out) = m + 1 /\ b.out[m + 1] = t
        /\ \A i \in 1..m : b.out[i] = a.out[i]
    BY <2>1, <2>3, <2>4, <2>7 DEF Registers, Distinct
  <2>10. DOMAIN b.seen = DOMAIN a.seen \cup {t}
    BY <2>4 DEF Registers, Numbers, Enters
  <2>11. \A i \in 1..(m + 1) : i \in 1..m \/ i = m + 1 OBVIOUS
  <2>12. \A i \in 1..m : /\ a.out[i] \in DOMAIN a.seen /\ base[i] \in Seq(U) /\ base[i] # <<>>
                         /\ a.out[i] = base[i] \/ Passed(a, a.out[i], base[i])
    BY <2>1, <2>2, <2>3 DEF Distinct
  \* Else the counter of a literally numbered name would begin again.
  <2>13. \A i \in 1..m : ~(Len(base[i]) > 1 /\ Front(base[i]) = s) BY <2>2, <2>3 DEF Late
  <2>14. \/ t = s /\ s \notin DOMAIN a.seen
         \/ s \in DOMAIN a.seen /\ \E c \in Nat : c = a.seen[s] + 1 /\ t = Append(s, c)
    <3>1. CASE Enters(a, b, s, t) BY <3>1 DEF Enters
    <3>2. CASE Numbers(a, b, s, t)
      <4>1. PICK c : c = a.seen[s] + 1 OBVIOUS
      <4>2. s \in DOMAIN a.seen /\ t = Append(s, c) BY <3>2, <4>1 DEF Numbers
      <4>3. c \in Nat BY <2>8, <4>1, <4>2
      <4> QED BY <4>1, <4>2, <4>3
    <3> QED BY <2>4, <3>1, <3>2 DEF Registers
  <2>15. \A i \in 1..m : t # a.out[i]
    <3> SUFFICES ASSUME NEW i \in 1..m, t = a.out[i] PROVE FALSE
        OBVIOUS
    <3>1. t # s \/ s \in DOMAIN a.seen BY <2>12
    <3>2. PICK c \in Nat : s \in DOMAIN a.seen /\ c = a.seen[s] + 1 /\ t = Append(s, c) BY <2>14, <3>1
    <3>3. c \in U OBVIOUS
    <3>a. PICK g : g = base[i] OBVIOUS
    <3>b. g \in Seq(U) /\ g # <<>> BY <2>12, <3>a
    <3>4. CASE a.out[i] = base[i]
      <4>1. g = Append(s, c) BY <3>2, <3>4, <3>a
      <4>2. Len(g) > 1 /\ Front(g) = s BY <2>6, <3>3, <4>1, FrontOfNumbered
      <4> QED BY <2>13, <3>a, <4>2
    <3>5. CASE Passed(a, a.out[i], base[i])
      <4>1. PICK e \in 1..a.seen[g] : g \in DOMAIN a.seen /\ a.out[i] = Append(g, e)
        BY <3>5, <3>a DEF Passed
      <4>2. a.seen[g] \in Nat /\ e \in Nat /\ e <= a.seen[g] BY <2>8, <4>1
      <4>3. e \in U BY <4>2
      <4>4. Append(s, c) = Append(g, e) BY <3>2, <4>1
      <4>5. s = g /\ c = e BY <2>6, <3>3, <3>b, <4>3, <4>4, SameEnds
      <4> QED BY <3>2, <4>2, <4>5
    <3> QED BY <2>12, <3>4, <3>5
  <2>16. \A i \in 1..m : base[i] \in DOMAIN a.seen =>
           a.seen[base[i]] <= b.seen[base[i]] /\ b.seen[base[i]] \in Nat
    <3> SUFFICES ASSUME NEW i \in 1..m, base[i] \in DOMAIN a.seen
                 PROVE  a.seen[base[i]] <= b.seen[base[i]] /\ b.seen[base[i]] \in Nat
        OBVIOUS
    <3>1. a.seen[base[i]] \in Nat BY <2>8
    <3>2. base[i] # t
      <4> SUFFICES ASSUME base[i] = t PROVE FALSE
          OBVIOUS
      <4>1. PICK c \in Nat : t = Append(s, c) BY <2>14
      <4>2. c \in U OBVIOUS
      <4>3. Len(base[i]) > 1 /\ Front(base[i]) = s BY <2>6, <4>1, <4>2, FrontOfNumbered
      <4> QED BY <2>13, <4>3
    <3>3. CASE base[i] = s BY <2>4, <3>1, <3>3 DEF Registers, Numbers, Enters
    <3>4. CASE base[i] # s BY <2>4, <3>1, <3>2, <3>4 DEF Registers, Numbers, Enters
    <3> QED BY <3>3, <3>4
  <2>17. \A i \in 1..m : b.out[i] = base[i] \/ Passed(b, b.out[i], base[i])
    <3> SUFFICES ASSUME NEW i \in 1..m, a.out[i] # base[i] PROVE Passed(b, b.out[i], base[i])
        BY <2>9
    <3>1. PICK c \in 1..a.seen[base[i]] : base[i] \in DOMAIN a.seen /\ a.out[i] = Append(base[i], c)
      BY <2>12 DEF Passed
    <3>2. c \in 1..b.seen[base[i]] BY <2>8, <2>16, <3>1
    <3> QED BY <2>9, <2>10, <3>1, <3>2 DEF Passed
  <2>18. t = s \/ Passed(b, t, s)
    <3> SUFFICES ASSUME t # s PROVE Passed(b, t, s)
        OBVIOUS
    <3>1. PICK c \in Nat : s \in DOMAIN a.seen /\ c = a.seen[s] + 1 /\ t = Append(s, c) BY <2>14
    <3>2. b.seen[s] = c BY <2>4, <3>1 DEF Registers, Numbers, Enters
    <3>3. c \in 1..b.seen[s] BY <2>8, <3>1, <3>2
    <3> QED BY <2>10, <3>1, <3>3 DEF Passed
  <2>19. Distinct(b, base, m + 1)
    <3>1. \A i \in 1..(m + 1) : b.out[i] \in DOMAIN b.seen BY <2>9, <2>10, <2>11, <2>12
    <3>2. \A i \in 1..(m + 1) : b.out[i] = base[i] \/ Passed(b, b.out[i], base[i])
      BY <2>3, <2>9, <2>11, <2>17, <2>18
    <3>3. \A i, j \in 1..m : i < j => a.out[i] # a.out[j] BY <2>1, <2>3 DEF Distinct
    <3>4. ASSUME NEW i \in 1..(m + 1), NEW j \in 1..(m + 1), i < j PROVE b.out[i] # b.out[j]
      <4>1. i \in 1..m BY <2>11, <3>4
      <4>2. CASE j \in 1..m BY <2>9, <3>3, <3>4, <4>1, <4>2
      <4>3. CASE j = m + 1 BY <2>9, <2>15, <4>1, <4>3
      <4> QED BY <2>11, <4>2, <4>3
    <3> QED BY <2>9, <3>1, <3>2, <3>4 DEF Distinct
  <2> QED BY <2>3, <2>19
<1>3. n \in K
  <2> HIDE DEF K
  <2> QED BY <1>1, <1>2, Induction
<1>4. Distinct(p[n], base, n) BY <1>3
<1> QED BY <1>4 DEF Distinct, SlugPath

\* The slugs' parts: bases in lower case, and numbers.
Parts == Nat \cup {LowerCase[Head(l.name)] : l \in LinesEver}
HeadingsEver == {l \in LinesEver : l.kind = "heading"}

\* The slug of a heading is such parts, and not numbered unless its text is.
LEMMA HeadingFacts ==
  ASSUME NEW l \in HeadingsEver
  PROVE  /\ Slug(l.name) \in Seq(Parts) /\ Slug(l.name) # <<>>
         /\ Len(l.name) = 1 => Len(Slug(l.name)) = 1
<1>1. PICK d \in Contents \ {Gone} : l \in Range(d) BY DEF HeadingsEver, LinesEver
<1>2. Tail(l.name) \in Seq(Nat) /\ l.name = <<Head(l.name)>> \o Tail(l.name)
  BY <1>1, ContentsAssumption DEF HeadingsEver
<1>3. PICK tail, low : /\ tail \in Seq(Nat) /\ tail = Tail(l.name)
                       /\ low = LowerCase[Head(l.name)]
  BY <1>2
<1>4. low \in Parts /\ tail \in Seq(Parts) BY <1>3 DEF Parts, HeadingsEver
<1>5. Slug(l.name) = <<low>> \o tail BY <1>3 DEF Slug
<1>6. <<low>> \o tail \in Seq(Parts) /\ Len(<<low>> \o tail) = 1 + Len(tail) BY <1>4
<1>7. Len(l.name) = 1 + Len(tail) BY <1>2, <1>3
<1>8. Slug(l.name) # <<>> BY <1>5, <1>6
<1> QED BY <1>5, <1>6, <1>7, <1>8

\* The headings of some content, or of what is left of it.
Heads(lines) == Outside(lines, InBlock(lines), "heading")
\* Their texts as slugs.
Bases(lines) == [i \in DOMAIN Heads(lines) |-> Slug(Heads(lines)[i].name)]

\* The path of headingSlugs through the headings of a content.
LEMMA HeadsFacts ==
  ASSUME NEW d \in Contents \ {Gone}, NEW lines \in {d, Stripped(d)}
  PROVE  /\ Heads(lines) \in Seq(HeadingsEver) /\ DOMAIN Bases(lines) = 1..Len(Heads(lines))
         /\ \A i \in 1..Len(Heads(lines)) :
              /\ Bases(lines)[i] \in Seq(Parts) /\ Bases(lines)[i] # <<>>
              /\ Bases(lines)[i] = Slug(Heads(lines)[i].name)
         /\ \E p : SlugPath(p, Parts, Bases(lines), Len(Heads(lines)), HeadingSlugs(lines))
<1> DEFINE S == Range(d) \cup {Line("text")}
           heads == Heads(lines)
<1>1. lines \in Seq(S)
  <2>1. d \in Seq(Range(d)) BY ContentsAssumption
  <2>2. d \in Seq(S) BY <2>1
  <2>3. Stripped(d) \in Seq(S)
    <3> HIDE DEF S
    <3>1. Line("text") \in S BY DEF S
    <3> QED BY <2>2, <3>1, StrippedIsLeft
  <2> QED BY <2>2, <2>3
<1>2. heads \in Seq({l \in S : l.kind = "heading"})
  <2> HIDE DEF S
  <2> QED BY <1>1, OutsideLines DEF Heads
<1>3. {l \in S : l.kind = "heading"} \subseteq HeadingsEver BY DEF HeadingsEver, LinesEver, Line
<1>4. heads \in Seq(HeadingsEver)
  <2> HIDE DEF S, heads
  <2> QED BY <1>2, <1>3
<1>5. \A i \in 1..Len(heads) : heads[i] \in HeadingsEver BY <1>4
<1>6. DOMAIN Bases(lines) = 1..Len(heads)
      /\ \A i \in 1..Len(heads) : Bases(lines)[i] = Slug(heads[i].name)
  BY <1>4 DEF Bases
<1>7. \A i \in 1..Len(heads) : Bases(lines)[i] \in Seq(Parts) /\ Bases(lines)[i] # <<>>
  BY <1>5, <1>6, HeadingFacts
<1>8. \E p : SlugPath(p, Parts, Bases(lines), Len(heads), HeadingSlugs(lines))
  <2>1. Nat \subseteq Parts BY DEF Parts
  <2>2. \A h \in HeadingsEver : Slug(h.name) \in Seq(Parts) BY HeadingFacts
  <2>3. PICK hs : hs = heads OBVIOUS
  <2>4. hs = Outside(lines, InBlock(lines), "heading") BY <2>3 DEF Heads
  <2>5. hs \in Seq(HeadingsEver) BY <1>4, <2>3
  <2>6. \E p : SlugPath(p, Parts, [i \in DOMAIN hs |-> Slug(hs[i].name)], Len(hs),
                        HeadingSlugs(lines))
    BY <2>1, <2>2, <2>4, <2>5, SlugPathExists
  <2> QED BY <2>3, <2>6 DEF Bases
<1> QED BY <1>4, <1>6, <1>7, <1>8

\* There is one slug per heading.
LEMMA OneSlugEach ==
  ASSUME NEW U, NEW n \in Nat, NEW base, NEW slugs, NEW p, SlugPath(p, U, base, n, slugs)
  PROVE  slugs \in Seq(Seq(U)) /\ Len(slugs) = n
<1> DEFINE K == {m \in Nat : m <= n => p[m].out \in Seq(Seq(U)) /\ Len(p[m].out) = m}
<1>1. 0 \in K
  <2>1. p[0].out = <<>> BY DEF SlugPath, Start
  <2>2. <<>> \in Seq(Seq(U)) /\ Len(<<>>) = 0 OBVIOUS
  <2>3. p[0].out \in Seq(Seq(U)) /\ Len(p[0].out) = 0 BY <2>1, <2>2
  <2> QED BY <2>3
<1>2. ASSUME NEW m \in Nat, m \in K PROVE m + 1 \in K
  <2> SUFFICES ASSUME m + 1 <= n
               PROVE p[m + 1].out \in Seq(Seq(U)) /\ Len(p[m + 1].out) = m + 1
      OBVIOUS
  <2>1. p[m].out \in Seq(Seq(U)) /\ Len(p[m].out) = m BY <1>2
  <2>2. m + 1 \in 1..n /\ (m + 1) - 1 = m OBVIOUS
  <2>3. PICK t \in Seq(U) : p[m + 1].out = Append(p[m].out, t)
    BY <2>2 DEF SlugPath, Registers
  <2> QED BY <2>1, <2>3
<1>3. n \in K
  <2> HIDE DEF K
  <2> QED BY <1>1, <1>2, Induction
<1> QED BY <1>3 DEF SlugPath

\* What the property says of the slugs of some names.
AsNumbered(slugs, base, n) ==
  /\ slugs \in Seq(Seq(Parts)) /\ Len(slugs) = n
  /\ (\A i \in 1..n : Len(base[i]) = 1) => \A i \in 1..n : slugs[i] = NameAt(base, i)
  /\ (\A i, j \in 1..n : i < j => slugs[i] # slugs[j]) \/ Late(base, n)

\* It holds for every content and for what is left of it.
LEMMA SlugsOf ==
  ASSUME NEW d \in Contents \ {Gone}, NEW lines \in {d, Stripped(d)},
         NEW base, base = Bases(lines), NEW n, n = Len(Heads(lines)),
         NEW slugs, slugs = HeadingSlugs(lines)
  PROVE  AsNumbered(slugs, base, n)
<1>2. /\ n \in Nat /\ \A i \in 1..n : base[i] \in Seq(Parts) /\ base[i] # <<>>
  BY HeadsFacts
<1>3. PICK p : SlugPath(p, Parts, base, n, slugs) BY HeadsFacts
<1>4. Nat \subseteq Parts BY DEF Parts
<1>5. slugs \in Seq(Seq(Parts)) /\ Len(slugs) = n BY <1>2, <1>3, OneSlugEach
<1>6. (\A i \in 1..n : Len(base[i]) = 1) => \A i \in 1..n : slugs[i] = NameAt(base, i)
  BY <1>2, <1>3, <1>4, PlainSlugs
<1>7. ~Late(base, n) => \A i, j \in 1..n : i < j => slugs[i] # slugs[j]
  BY <1>2, <1>3, <1>4, DistinctSlugs
<1> QED BY <1>5, <1>6, <1>7 DEF AsNumbered

\* The property follows for every content the files may have.
LEMMA SlugsNumbered == Truth => SlugsAreNumbered
<1> SUFFICES ASSUME Truth PROVE SlugsAreNumbered
    OBVIOUS
<1>1. ASSUME NEW f \in Files, disk[f] # Gone,
             NEW heads, heads = Outside(disk[f], InBlock(disk[f]), "heading"),
             NEW base, base = [i \in DOMAIN heads |-> Slug(heads[i].name)],
             NEW slugs, slugs = HeadingSlugs(disk[f])
      PROVE  /\ (\A i \in DOMAIN base : Len(base[i]) = 1) =>
                  \A i \in DOMAIN base : slugs[i] = NameAt(base, i)
             /\ \A i, j \in DOMAIN slugs : i < j /\ slugs[i] = slugs[j] =>
                  \E k, l \in DOMAIN base :
                    k < l /\ Len(base[k]) > 1 /\ base[l] = Front(base[k])
  <2>1. PICK d, n : d = disk[f] /\ n = Len(Heads(d)) OBVIOUS
  <2>2. d \in Contents \ {Gone} /\ d \in {d, Stripped(d)} BY <1>1, <2>1 DEF Truth
  <2>3. base = Bases(d) BY <1>1, <2>1 DEF Bases, Heads
  <2>4. slugs = HeadingSlugs(d) BY <1>1, <2>1
  <2>5. n \in Nat /\ DOMAIN base = 1..n BY <2>1, <2>2, <2>3, HeadsFacts
  <2>6. /\ slugs \in Seq(Seq(Parts)) /\ Len(slugs) = n
        /\ (\A i \in 1..n : Len(base[i]) = 1) => \A i \in 1..n : slugs[i] = NameAt(base, i)
        /\ (\A i, j \in 1..n : i < j => slugs[i] # slugs[j]) \/ Late(base, n)
    <3>1. AsNumbered(slugs, base, n) BY <2>1, <2>2, <2>3, <2>4, SlugsOf
    <3> QED BY <3>1 DEF AsNumbered
  <2>7. DOMAIN slugs = 1..n BY <2>6
  <2> QED BY <2>5, <2>6, <2>7 DEF Late
<1>2. ASSUME NEW f \in Files, disk[f] # Gone
      PROVE  LET heads == Outside(disk[f], InBlock(disk[f]), "heading")
                 base == [i \in DOMAIN heads |-> Slug(heads[i].name)]
                 slugs == HeadingSlugs(disk[f])
                 Above(i) == Cardinality({j \in 1..(i - 1) : base[j] = base[i]})
             IN  /\ (\A i \in DOMAIN base : Len(base[i]) = 1) =>
                      \A i \in DOMAIN base :
                        slugs[i] = IF Above(i) = 0 THEN base[i] ELSE Append(base[i], Above(i))
                 /\ \A i, j \in DOMAIN slugs : i < j /\ slugs[i] = slugs[j] =>
                      \E k, l \in DOMAIN base :
                        k < l /\ Len(base[k]) > 1 /\ base[l] = Front(base[k])
  <2> DEFINE heads == Outside(disk[f], InBlock(disk[f]), "heading")
             base == [i \in DOMAIN heads |-> Slug(heads[i].name)]
             slugs == HeadingSlugs(disk[f])
             Above(i) == Cardinality({j \in 1..(i - 1) : base[j] = base[i]})
  <2>1. PICK h : h = heads OBVIOUS
  <2>2. PICK b : b = base OBVIOUS
  <2>3. PICK s : s = slugs OBVIOUS
  <2>4. /\ (\A i \in DOMAIN b : Len(b[i]) = 1) => \A i \in DOMAIN b : s[i] = NameAt(b, i)
        /\ \A i, j \in DOMAIN s : i < j /\ s[i] = s[j] =>
             \E k, l \in DOMAIN b : k < l /\ Len(b[k]) > 1 /\ b[l] = Front(b[k])
    BY <1>1, <1>2, <2>1, <2>2, <2>3
  <2> HIDE DEF heads, base, slugs
  <2>5. \A i : NameAt(base, i) = IF Above(i) = 0 THEN base[i] ELSE Append(base[i], Above(i))
    BY DEF NameAt, Count, Among
  <2> HIDE DEF Above
  <2>6. /\ (\A i \in DOMAIN base : Len(base[i]) = 1) =>
             \A i \in DOMAIN base :
               slugs[i] = IF Above(i) = 0 THEN base[i] ELSE Append(base[i], Above(i))
        /\ \A i, j \in DOMAIN slugs : i < j /\ slugs[i] = slugs[j] =>
             \E k, l \in DOMAIN base :
               k < l /\ Len(base[k]) > 1 /\ base[l] = Front(base[k])
    BY <2>2, <2>3, <2>4, <2>5
  <2> QED BY <2>6 DEF heads, base, slugs, Above
<1> QED BY <1>2 DEF SlugsAreNumbered

\* The slug of a heading is its text with the number of equal headings above it, if none
\* is literally numbered; and two headings share one only if a literally numbered one
\* comes before one of its base (headingSlugs).
THEOREM SlugsHold == Spec => []SlugsAreNumbered
<1>2. Init => Shape BY DEF Init, Shape, Idle
<1> QED BY <1>2, SlugsNumbered, TruthInit, TruthStep, ShapeStep, PTL DEF Spec

-----------------------------------------------------------------------------
(* Links into the own file.                                                *)

\* A function that maps no two elements to one.
LEMMA OneToOne ==
  ASSUME NEW A, NEW T, IsFiniteSet(T), NEW f, \A x \in A : f[x] \in T,
         \A x, y \in A : x # y => f[x] # f[y]
  PROVE  /\ IsFiniteSet(A) /\ Cardinality(A) \in Nat /\ Cardinality(T) \in Nat
         /\ Cardinality(A) <= Cardinality(T)
         /\ Cardinality(A) = Cardinality(T) <=> \A t \in T : \E x \in A : f[x] = t
<1> DEFINE g == [x \in A |-> f[x]]
<1>1. \A x \in A : g[x] = f[x] OBVIOUS
<1>2. g \in [A -> T] OBVIOUS
<1> HIDE DEF g
<1>3. g \in Injection(A, T) BY <1>1, <1>2 DEF Injection, IsInjective
<1>4. /\ IsFiniteSet(A) /\ Cardinality(A) <= Cardinality(T)
      /\ Cardinality(A) = Cardinality(T) <=> g \in Surjection(A, T)
  BY <1>3, FS_Injection
<1>5. g \in Surjection(A, T) <=> \A t \in T : \E x \in A : f[x] = t
  BY <1>1, <1>2 DEF Surjection
<1>6. Cardinality(A) \in Nat /\ Cardinality(T) \in Nat BY <1>4, FS_CardinalityType
<1> QED BY <1>4, <1>5, <1>6

\* The lines that open and close code blocks.
Fences(lines) == OfKind(lines, "fence")

\* If all fences are left, each line has as many above it as before.
LEMMA SameFences ==
  ASSUME NEW S, NEW c \in Seq(S), NEW d \in Seq(S), NEW e, KeptAt(e, c, d),
         Cardinality(Fences(c)) = Cardinality(Fences(d))
  PROVE  /\ \A k \in 1..Len(c) : FencesUpTo(c, k) = FencesUpTo(d, e[k])
         /\ FencesUpTo(c, Len(c)) = FencesUpTo(d, Len(d))
<1>1. PICK m, n \in Nat : m = Len(c) /\ n = Len(d) OBVIOUS
<1>2. /\ \A k \in 1..m : e[k] \in 1..n /\ (c[k] = d[e[k]] \/ c[k] = Line("text"))
      /\ \A j, k \in 1..m : j < k => e[j] < e[k]
  BY <1>1 DEF KeptAt
<1>3. DOMAIN c = 1..m /\ DOMAIN d = 1..n BY <1>1
<1>4. Fences(c) \in SUBSET (1..m) /\ Fences(d) \in SUBSET (1..n) BY <1>3 DEF Fences, OfKind
<1>5. IsFiniteSet(Fences(d)) /\ IsFiniteSet(Fences(c))
  <2>1. IsFiniteSet(1..m) /\ IsFiniteSet(1..n) BY FS_Interval
  <2> QED BY <1>4, <2>1, FS_Subset
<1>6. \A k \in Fences(c) : e[k] \in Fences(d)
  <2> SUFFICES ASSUME NEW k \in Fences(c) PROVE e[k] \in Fences(d)
      OBVIOUS
  <2>1. k \in 1..m /\ c[k].kind = "fence" BY <1>3 DEF Fences, OfKind
  <2>2. c[k] = d[e[k]] BY <1>2, <2>1 DEF Line
  <2> QED BY <1>2, <1>3, <2>1, <2>2 DEF Fences, OfKind
<1>7. \A j, k \in 1..m : j # k => e[j] # e[k]
  <2> SUFFICES ASSUME NEW j \in 1..m, NEW k \in 1..m, j # k PROVE e[j] # e[k]
      OBVIOUS
  <2>1. e[j] \in 1..n /\ e[k] \in 1..n BY <1>2
  <2>2. j < k \/ k < j OBVIOUS
  <2> QED BY <1>2, <2>1, <2>2
<1>8. \A t \in Fences(d) : \E k \in Fences(c) : e[k] = t
  <2>1. \A j, k \in Fences(c) : j # k => e[j] # e[k] BY <1>4, <1>7
  <2> QED BY <1>5, <1>6, <2>1, OneToOne
<1>9. ASSUME NEW k \in 1..m PROVE FencesUpTo(c, k) = FencesUpTo(d, e[k])
  <2> DEFINE A == Fences(c) \cap 1..k
             T == Fences(d) \cap 1..e[k]
  <2>1. \A j \in A : e[j] \in T
    <3> SUFFICES ASSUME NEW j \in A PROVE e[j] \in T
        OBVIOUS
    <3>1. e[j] \in Fences(d) /\ j \in 1..m BY <1>4, <1>6
    <3>2. e[j] \in 1..n /\ e[k] \in 1..n BY <1>2, <3>1
    <3>3. j = k \/ j < k OBVIOUS
    <3>4. e[j] <= e[k] BY <1>2, <3>1, <3>2, <3>3
    <3> QED BY <3>1, <3>2, <3>4
  <2>2. \A j, i \in A : j # i => e[j] # e[i] BY <1>4, <1>7
  <2>3. IsFiniteSet(T) BY <1>5, FS_Subset
  <2>4. \A t \in T : \E j \in A : e[j] = t
    <3> SUFFICES ASSUME NEW t \in T PROVE \E j \in A : e[j] = t
        OBVIOUS
    <3>1. PICK j \in Fences(c) : e[j] = t BY <1>8
    <3>2. j \in 1..m BY <1>4
    <3>3. e[j] \in 1..n /\ e[k] \in 1..n /\ e[j] <= e[k] BY <1>2, <3>1, <3>2
    <3>4. ~(k < j) BY <1>2, <3>2, <3>3
    <3>5. j \in 1..k BY <3>2, <3>4
    <3> QED BY <3>1, <3>5
  <2> HIDE DEF A, T
  <2>5. Cardinality(A) = Cardinality(T) BY <2>1, <2>2, <2>3, <2>4, OneToOne
  <2> QED BY <2>5 DEF A, T, FencesUpTo, Fences
<1>10. Fences(c) \cap 1..m = Fences(c) /\ Fences(d) \cap 1..n = Fences(d) BY <1>4
<1>11. FencesUpTo(c, m) = FencesUpTo(d, n) BY <1>10 DEF FencesUpTo, Fences
<1> QED BY <1>1, <1>9, <1>11

\* ...and so is in a code block if and only if it was.
LEMMA SameBlocks ==
  ASSUME NEW S, NEW c \in Seq(S), NEW d \in Seq(S), NEW e, KeptAt(e, c, d),
         Cardinality(Fences(c)) = Cardinality(Fences(d)),
         NEW k \in 1..Len(c), c[k].kind \notin {"fence", "text"}
  PROVE  /\ e[k] \in 1..Len(d) /\ c[k] = d[e[k]]
         /\ k \in InBlock(c) <=> e[k] \in InBlock(d)
<1>1. e[k] \in 1..Len(d) /\ c[k] = d[e[k]] BY DEF KeptAt, Line
<1>2. /\ FencesUpTo(c, k) = FencesUpTo(d, e[k])
      /\ FencesUpTo(c, Len(c)) = FencesUpTo(d, Len(d))
  BY SameFences
<1>3. DOMAIN c = 1..Len(c) /\ DOMAIN d = 1..Len(d) OBVIOUS
<1>4. k \in InBlock(c) <=> e[k] \in InBlock(d) BY <1>1, <1>2, <1>3 DEF InBlock
<1> QED BY <1>1, <1>4

\* The occurrence of a name with a given number of others above it.
LEMMA NthOne ==
  ASSUME NEW base, NEW b, NEW n \in Nat, NEW a \in Nat, Count(base, b, n) > a
  PROVE  \E q \in 1..n : base[q] = b /\ Count(base, b, q - 1) = a
<1> DEFINE M == {m \in Nat : Count(base, b, m) > a}
<1>1. PICK m \in M : \A k \in M : m <= k
  <2>1. n \in M OBVIOUS
  <2> QED BY <2>1, Least
<1>2. m \in Nat /\ Count(base, b, m) > a /\ m <= n BY <1>1
<1>3. m # 0 BY <1>2, CountFacts
<1>4. PICK k \in Nat : m = k + 1 BY <1>2, <1>3
<1>5. ~(Count(base, b, k) > a) BY <1>1, <1>4
<1>6. Count(base, b, k) \in Nat BY CountFacts
<1>7. base[k + 1] = b BY <1>2, <1>4, <1>5, CountFacts
<1>8. Count(base, b, k + 1) = Count(base, b, k) + 1 BY <1>7, CountFacts
<1>9. Count(base, b, k) = a BY <1>2, <1>4, <1>5, <1>6, <1>8
<1> QED BY <1>2, <1>4, <1>7, <1>9

\* There are fewer of a name above.
LEMMA FewerBefore ==
  ASSUME NEW base, NEW b, NEW n \in Nat, NEW m \in Nat, m <= n
  PROVE  Count(base, b, m) <= Count(base, b, n)
<1>1. Among(base, b, m) \in SUBSET Among(base, b, n) BY DEF Among
<1>2. IsFiniteSet(Among(base, b, n)) BY CountFacts
<1> QED BY <1>1, <1>2, FS_Subset DEF Count

\* The first m of one sequence among the first n of another, each at a place of its own.
Within(g, m, n, c, d) ==
  \A i \in 1..m : /\ g[i] \in 1..n /\ c[i] = d[g[i]]
                  /\ \A j \in 1..m : i # j => g[i] # g[j]

\* What is left outside the code blocks was outside them before.
LEMMA OutsideIsLeft ==
  ASSUME NEW S, NEW c \in Seq(S), NEW d \in Seq(S), LeftOf(c, d),
         Cardinality(Fences(c)) = Cardinality(Fences(d)), NEW kind \in {"heading", "id"}
  PROVE  LET oc == Outside(c, InBlock(c), kind)
             od == Outside(d, InBlock(d), kind)
         IN  \E g : Within(g, Len(oc), Len(od), oc, od)
<1>1. PICK e : KeptAt(e, c, d) BY DEF LeftOf
<1>2. PICK C, D : C = OfKind(c, kind) \ InBlock(c) /\ D = OfKind(d, kind) \ InBlock(d) OBVIOUS
<1>3. PICK oc, od : oc = Picked(c, C) /\ od = Picked(d, D) OBVIOUS
<1>4. PICK f : Places(f, oc, c, C, Len(c)) BY <1>3, PickedPlaces
<1>5. PICK h : Places(h, od, d, D, Len(d)) BY <1>3, PickedPlaces
<1>6. oc \in Seq(S) /\ od \in Seq(S) BY <1>3, PickedPlaces
<1>7. PICK m, n, x, y \in Nat : m = Len(oc) /\ n = Len(od) /\ x = Len(c) /\ y = Len(d) BY <1>6
<1>8. \A i \in 1..m : f[i] \in 1..x /\ f[i] \in C /\ oc[i] = c[f[i]] BY <1>4, <1>7 DEF Places
<1>9. \A i, j \in 1..m : i < j => f[i] < f[j] BY <1>4, <1>7 DEF Places
<1>10. \A i \in D \cap 1..y : \E k \in 1..n : h[k] = i BY <1>5, <1>7 DEF Places
<1>11. \A k \in 1..n : od[k] = d[h[k]] BY <1>5, <1>7 DEF Places
<1>12. \A j, k \in 1..x : j < k => e[j] < e[k] BY <1>1, <1>7 DEF KeptAt
<1>13. \A k \in C \cap 1..x : e[k] \in D \cap 1..y /\ c[k] = d[e[k]]
  <2> SUFFICES ASSUME NEW k \in C \cap 1..x PROVE e[k] \in D \cap 1..y /\ c[k] = d[e[k]]
      OBVIOUS
  <2>1. c[k].kind = kind /\ k \in 1..Len(c) /\ k \notin InBlock(c) BY <1>2, <1>7 DEF OfKind
  <2>2. c[k].kind \notin {"fence", "text"} BY <2>1
  <2>3. e[k] \in 1..Len(d) /\ c[k] = d[e[k]] /\ (k \in InBlock(c) <=> e[k] \in InBlock(d))
    BY <1>1, <2>1, <2>2, SameBlocks
  <2>4. e[k] \in DOMAIN d BY <2>3
  <2> QED BY <1>2, <1>7, <2>1, <2>3, <2>4 DEF OfKind
<1> DEFINE g == [i \in 1..m |-> CHOOSE k \in 1..n : h[k] = e[f[i]]]
<1>14. \A i \in 1..m : g[i] \in 1..n /\ h[g[i]] = e[f[i]] BY <1>8, <1>10, <1>13
<1> HIDE DEF g
<1>15. \A i \in 1..m : oc[i] = od[g[i]]
  <2> SUFFICES ASSUME NEW i \in 1..m PROVE oc[i] = od[g[i]]
      OBVIOUS
  <2>1. f[i] \in C \cap 1..x /\ oc[i] = c[f[i]] BY <1>8
  <2>2. c[f[i]] = d[e[f[i]]] BY <1>13, <2>1
  <2>3. od[g[i]] = d[h[g[i]]] /\ h[g[i]] = e[f[i]] BY <1>11, <1>14
  <2> QED BY <2>1, <2>2, <2>3
<1>16. \A i, j \in 1..m : i # j => g[i] # g[j]
  <2>1. ASSUME NEW i \in 1..m, NEW j \in 1..m, i < j PROVE g[i] # g[j]
    <3>1. f[i] < f[j] /\ f[i] \in 1..x /\ f[j] \in 1..x BY <1>8, <1>9, <2>1
    <3>2. e[f[i]] < e[f[j]] /\ e[f[i]] \in 1..y /\ e[f[j]] \in 1..y
      BY <1>8, <1>12, <1>13, <3>1
    <3>3. e[f[i]] # e[f[j]] BY <3>2
    <3> QED BY <1>14, <3>3
  <2>2. \A i, j \in 1..m : i # j => i < j \/ j < i OBVIOUS
  <2> QED BY <2>1, <2>2
<1>17. Within(g, Len(oc), Len(od), oc, od) BY <1>7, <1>14, <1>15, <1>16 DEF Within
<1>18. oc = Outside(c, InBlock(c), kind) /\ od = Outside(d, InBlock(d), kind)
  BY <1>2, <1>3 DEF Outside
<1> QED BY <1>17, <1>18

\* A name occurs at least as often in a longer sequence.
LEMMA CountWithin ==
  ASSUME NEW m \in Nat, NEW n \in Nat, NEW base, NEW more, NEW g, NEW b,
         Within(g, m, n, base, more)
  PROVE  Count(base, b, m) <= Count(more, b, n)
<1>1. \A i \in Among(base, b, m) : g[i] \in Among(more, b, n) BY DEF Among, Within
<1>2. \A i, j \in Among(base, b, m) : i # j => g[i] # g[j] BY DEF Among, Within
<1>3. IsFiniteSet(Among(more, b, n)) BY CountFacts
<1> QED BY <1>1, <1>2, <1>3, OneToOne DEF Count

\* ...so that each of its numbered names is one there, too.
LEMMA NamesWithin ==
  ASSUME NEW m \in Nat, NEW n \in Nat, NEW base, NEW more, NEW g,
         Within(g, m, n, base, more), NEW i \in 1..m
  PROVE  \E q \in 1..n : NameAt(more, q) = NameAt(base, i)
<1>1. PICK b, k : b = base[i] /\ k = i - 1 OBVIOUS
<1>2. k \in Nat /\ i = k + 1 BY <1>1
<1>3. PICK a \in Nat : a = Count(base, b, k) BY <1>2, CountFacts
<1>4. Count(base, b, i) = a + 1 BY <1>1, <1>2, <1>3, CountFacts
<1>5. Count(base, b, i) <= Count(base, b, m) BY FewerBefore
<1>6. Count(base, b, m) <= Count(more, b, n) BY CountWithin
<1>7. Count(base, b, m) \in Nat /\ Count(more, b, n) \in Nat BY CountFacts
<1>8. Count(more, b, n) > a BY <1>4, <1>5, <1>6, <1>7
<1>9. PICK q \in 1..n : more[q] = b /\ Count(more, b, q - 1) = a BY <1>8, NthOne
<1>10. NameAt(more, q) = NameAt(base, i) BY <1>1, <1>3, <1>9 DEF NameAt
<1> QED BY <1>10

\* The anchors of what is left of an ordinary file are anchors of the file.
LEMMA AnchorsLeft ==
  ASSUME NEW d \in Contents \ {Gone}, Ordinary(d)
  PROVE  Anchors(Cleaned(d, cfg.ignoreDisable)) \subseteq Anchors(d)
<1>1. CASE cfg.ignoreDisable BY <1>1 DEF Cleaned
<1>2. CASE ~cfg.ignoreDisable
  <2>1. PICK c : c = Stripped(d) OBVIOUS
  <2>2. c = Cleaned(d, cfg.ignoreDisable) BY <1>2, <2>1 DEF Cleaned
  <2>3. PICK S : S = Range(d) \cup {Line("text")} OBVIOUS
  <2>4. d \in Seq(S)
    <3>1. d \in Seq(Range(d)) BY ContentsAssumption
    <3> QED BY <2>3, <3>1
  <2>5. c \in Seq(S) /\ LeftOf(c, d)
    <3>1. Line("text") \in S BY <2>3
    <3> QED BY <2>1, <2>4, <3>1, StrippedIsLeft
  <2>6. Cardinality(Fences(c)) = Cardinality(Fences(d)) BY <2>2 DEF Ordinary, Fences
  <2>7. HtmlIDs(c) \subseteq HtmlIDs(d)
    <3>1. PICK oc, od : oc = Outside(c, InBlock(c), "id") /\ od = Outside(d, InBlock(d), "id")
      OBVIOUS
    <3>2. oc \in Seq(S) /\ od \in Seq(S)
      BY <2>4, <2>5, <3>1, PickedPlaces DEF Outside
    <3>3. PICK g : Within(g, Len(oc), Len(od), oc, od)
      <4>1. "id" \in {"heading", "id"} OBVIOUS
      <4> QED BY <2>4, <2>5, <2>6, <3>1, <4>1, OutsideIsLeft
    <3>4. Range(oc) \subseteq Range(od)
      <4>1. \A i \in 1..Len(oc) : g[i] \in 1..Len(od) /\ oc[i] = od[g[i]] BY <3>3 DEF Within
      <4>2. DOMAIN oc = 1..Len(oc) /\ DOMAIN od = 1..Len(od) BY <3>2
      <4> QED BY <4>1, <4>2 DEF Range
    <3> QED BY <3>1, <3>4 DEF HtmlIDs
  <2>8. Range(HeadingSlugs(c)) \subseteq Range(HeadingSlugs(d))
    <3>1. PICK hc, hd : hc = Heads(c) /\ hd = Heads(d) OBVIOUS
    <3>2. PICK bc, bd : bc = Bases(c) /\ bd = Bases(d) OBVIOUS
    <3>3. PICK sc, sd : sc = HeadingSlugs(c) /\ sd = HeadingSlugs(d) OBVIOUS
    <3>4. c \in {d, Stripped(d)} /\ d \in {d, Stripped(d)} BY <2>1
    <3>5. /\ hc \in Seq(HeadingsEver) /\ \A i \in 1..Len(hc) : bc[i] = Slug(hc[i].name)
      BY <3>1, <3>2, <3>4, HeadsFacts
    <3>6. /\ hd \in Seq(HeadingsEver) /\ \A i \in 1..Len(hd) : bd[i] = Slug(hd[i].name)
      BY <3>1, <3>2, <3>4, HeadsFacts
    <3>7. PICK m, n \in Nat : m = Len(hc) /\ n = Len(hd) BY <3>5, <3>6
    <3>8. PICK g : Within(g, m, n, hc, hd)
      <4>1. "heading" \in {"heading", "id"} OBVIOUS
      <4> QED BY <2>4, <2>5, <2>6, <3>1, <3>7, <4>1, OutsideIsLeft DEF Heads
    <3>9. \A i \in 1..m : g[i] \in 1..n /\ bc[i] = bd[g[i]] BY <3>5, <3>6, <3>7, <3>8 DEF Within
    <3>10. Within(g, m, n, bc, bd) BY <3>8, <3>9 DEF Within
    <3>11. \A q \in 1..n : Len(bd[q]) = 1
      <4>1. PICK e : Places(e, hd, d, OfKind(d, "heading") \ InBlock(d), Len(d))
        BY <2>4, <3>1, PickedPlaces DEF Heads, Outside
      <4>2. \A q \in 1..n : hd[q] = d[e[q]] /\ e[q] \in OfKind(d, "heading")
        BY <3>7, <4>1 DEF Places
      <4>3. \A q \in 1..n : Len(hd[q].name) = 1 BY <4>2 DEF Ordinary
      <4>4. \A q \in 1..n : hd[q] \in HeadingsEver BY <3>6, <3>7
      <4> QED BY <3>6, <3>7, <4>3, <4>4, HeadingFacts
    <3>12. \A i \in 1..m : Len(bc[i]) = 1 BY <3>9, <3>11
    <3>13. sc \in Seq(Seq(Parts)) /\ Len(sc) = m /\ \A i \in 1..m : sc[i] = NameAt(bc, i)
      <4>1. AsNumbered(sc, bc, m) BY <3>1, <3>2, <3>3, <3>4, <3>7, SlugsOf
      <4> QED BY <3>12, <4>1 DEF AsNumbered
    <3>14. sd \in Seq(Seq(Parts)) /\ Len(sd) = n /\ \A i \in 1..n : sd[i] = NameAt(bd, i)
      <4>1. AsNumbered(sd, bd, n) BY <3>1, <3>2, <3>3, <3>4, <3>7, SlugsOf
      <4> QED BY <3>11, <4>1 DEF AsNumbered
    <3>15. \A i \in 1..m : \E q \in 1..n : NameAt(bd, q) = NameAt(bc, i)
      BY <3>10, NamesWithin
    <3>16. DOMAIN sc = 1..m /\ DOMAIN sd = 1..n BY <3>13, <3>14
    <3>17. \A i \in 1..m : \E q \in 1..n : sd[q] = sc[i] BY <3>13, <3>14, <3>15
    <3>18. Range(sc) \subseteq Range(sd) BY <3>16, <3>17 DEF Range
    <3> QED BY <3>3, <3>18
  <2> QED BY <2>2, <2>7, <2>8 DEF Anchors
<1> QED BY <1>1, <1>2

\* The property follows from the verdicts' truth.
LEMMA SelfLinks == Truth /\ VerdictsAreTrue => SelfLinkAgrees
<1> SUFFICES ASSUME Truth, VerdictsAreTrue, NEW r \in Decided("hash"), NEW s \in Decided("file"),
                    r.target.source = s.target.url.file,
                    had[r.target.source] = {disk[r.target.source]},
                    r.target.url.fragment = s.target.url.fragment,
                    disk[r.target.source] # Gone, Ordinary(disk[r.target.source]),
                    r.state = "alive"
             PROVE  s.state = "alive"
    BY DEF SelfLinkAgrees
<1>1. PICK f, d : f = r.target.source /\ d = disk[f] OBVIOUS
<1>2. had[f] = {d} /\ d # Gone /\ Ordinary(d) BY <1>1
<1>3. f \in Files /\ d \in Contents \ {Gone} BY <1>1, <1>2 DEF Truth, Earned, Decided
<1>4. r.target.kind = "hash" /\ s.target.kind = "file" BY DEF Decided
<1>5. PICK anchors : anchors = Anchors(Cleaned(d, cfg.ignoreDisable)) OBVIOUS
<1>6. r = CheckHash(r.target, anchors)
  <2>1. r = Verdict(r.target, d) BY <1>1, <1>2 DEF VerdictsAreTrue
  <2>2. ~HasSection(r.target) BY <1>4 DEF HasSection
  <2> QED BY <1>4, <1>5, <2>1, <2>2 DEF Verdict
<1>7. r.target.url.fragment \in anchors \/ Slug(r.target.url.fragment) \in anchors
  <2> SUFFICES ASSUME ~(r.target.url.fragment \in anchors \/ Slug(r.target.url.fragment) \in anchors)
               PROVE FALSE
      OBVIOUS
  <2>1. CheckHash(r.target, anchors).state = "dead" BY DEF CheckHash, Result
  <2> QED BY <1>6, <2>1
<1>8. anchors \subseteq Anchors(d) BY <1>2, <1>3, <1>5, AnchorsLeft
<1>9. CASE s.state # "alive"
  <2>1. s = Verdict(s.target, d)
    <3>1. CheckFile(s.target, d).state = "alive" BY <1>2 DEF CheckFile, Result
    <3>2. s = Verdict(s.target, d) \/ s = CheckFile(s.target, d)
      BY <1>1, <1>2 DEF VerdictsAreTrue
    <3> QED BY <1>9, <3>1, <3>2
  <2>2. CASE HasSection(s.target)
    <3>1. s = CheckHash(s.target, Anchors(d)) BY <1>2, <1>4, <2>1, <2>2 DEF Verdict
    <3>2. s.target.url.fragment \in Anchors(d) \/ Slug(s.target.url.fragment) \in Anchors(d)
      BY <1>7, <1>8
    <3>3. CheckHash(s.target, Anchors(d)).state = "alive" BY <3>2 DEF CheckHash, Result
    <3> QED BY <3>1, <3>3
  <2>3. CASE ~HasSection(s.target)
    <3>1. s = CheckFile(s.target, d) BY <1>4, <2>1, <2>3 DEF Verdict
    <3>2. CheckFile(s.target, d).state = "alive" BY <1>2 DEF CheckFile, Result
    <3> QED BY <3>1, <3>2
  <2> QED BY <2>2, <2>3
<1> QED BY <1>9

\* A section that a link of the same file finds, links from other files find too,
\* although only for the former the disabled regions are left out (ParseFile, fileAnchors).
THEOREM SelfLinksAgree == Spec => []SelfLinkAgrees
<1>1. Init => Shape BY DEF Init, Shape, Idle
<1>2. Truth => VerdictsAreTrue BY DEF Truth, Earned, VerdictsAreTrue, Decided
<1> QED BY <1>1, <1>2, SelfLinks, TruthInit, TruthStep, ShapeStep, PTL DEF Spec
=============================================================================
