----------------------------- MODULE EditorProofs ------------------------------
(***************************************************************************)
(* Proofs about EditorDocument, for any characters, texts and limits: the  *)
(* text fits and its carets are in it and apart, a document that says it   *)
(* is saved is, the history counts the bytes it holds, and undo and redo   *)
(* walk the line of texts of EditTimeline.                                 *)
(*                                                                         *)
(* The invariant gives every state that was named one text (named) and     *)
(* says that each entry leads from the text of the state before it to that *)
(* of the state after it, and back: without it, nothing says that undo     *)
(* finds the ranges it is about to replace, or that a state which returns  *)
(* returns with its text.  Most of what follows is about what the edits of *)
(* a transaction make of a text, and that their inverse undoes it.         *)
(*                                                                         *)
(* The recursive functions of the model are reasoned about by way of sets: *)
(* less-than on the naturals is well-founded, so that a set of numbers has *)
(* a least member, and a function that the recursion describes is shown to *)
(* exist (Recurses, RecursesIn): CHOOSE then takes one.  A recursion from  *)
(* the end of a sequence has one result by Unwinds.                        *)
(***************************************************************************)
EXTENDS EditorDocument, SequenceTheorems, FiniteSetTheorems, WellFoundedInduction, TLAPS

-----------------------------------------------------------------------------
(* Induction and recursion.                                                *)

\* Less than, as a relation.
Below == {r \in Nat \X Nat : r[1] < r[2]}

\* It is well-founded, which is all the induction there is here.
LEMMA BelowWF == IsWellFoundedOn(Below, Nat)
<1>1. IsWellFoundedOn(OpToRel(<, Nat), Nat)
  BY NatLessThanWellFounded
<1> QED
  BY <1>1 DEF OpToRel, Below

\* Some numbers have a least one.
LEMMA Least ==
  ASSUME NEW T, T \subseteq Nat, T # {}
  PROVE  \E n \in T : \A m \in T : n <= m
<1>1. \E x \in T : \A y \in T : ~ (<<y, x>> \in Below)
  BY BelowWF, WFMin
<1>2. \A m, n \in Nat : m < n => <<m, n>> \in Below
  BY DEF Below
<1>3. \A m, n \in Nat : ~(m < n) => n <= m
  OBVIOUS
<1> QED
  BY <1>1, <1>2, <1>3

\* What holds of 0 and is passed on holds up to n.
LEMMA Inducts ==
  ASSUME NEW n \in Nat, NEW T, 0 \in T, \A k \in 1 .. n : k - 1 \in T => k \in T
  PROVE  \A k \in 0 .. n : k \in T
<1> DEFINE U == {k \in 0 .. n : k \notin T}
<1> SUFFICES ASSUME U # {} PROVE FALSE
  OBVIOUS
<1>0. U \subseteq Nat
  OBVIOUS
<1> HIDE DEF U
<1>1. PICK k \in U : \A m \in U : k <= m
  BY <1>0, Least
<1> USE DEF U
<1>2. k \in 1 .. n /\ k - 1 \in 0 .. n /\ ~(k <= k - 1)
  BY <1>1
<1>3. k - 1 \in T
  BY <1>1, <1>2
<1> QED
  BY <1>1, <1>2, <1>3

\* What a recursive function computes: f is what n steps make of base.
Steppers(n, S) == [(1 .. n) \X S -> S]

Runs(f, n, S, base, step) ==
  f \in [0 .. n -> S] /\ f[0] = base /\ \A k \in 1 .. n : f[k] = step[<<k, f[k - 1]>>]

\* There is one: each step makes a longer function of a shorter one.
LEMMA Recurses ==
  ASSUME NEW n \in Nat, NEW S, NEW base \in S, NEW op \in Steppers(n, S)
  PROVE  \E f : Runs(f, n, S, base, op)
<1> USE DEF Steppers
<1> DEFINE upto(k, f) == f[0] = base /\ \A j \in 1 .. k : f[j] = op[<<j, f[j - 1]>>]
           T == {k \in 0 .. n : \E f \in [0 .. k -> S] : upto(k, f)}
<1>1. 0 \in T
  <2> DEFINE g == [j \in 0 .. 0 |-> base]
  <2>1. g \in [0 .. 0 -> S] /\ upto(0, g)
    OBVIOUS
  <2> HIDE DEF g
  <2> QED
    BY <2>1
<1>2. ASSUME NEW k \in 1 .. n, k - 1 \in T PROVE k \in T
  <2>1. PICK f \in [0 .. (k - 1) -> S] : upto(k - 1, f)
    BY <1>2
  <2> DEFINE g == [j \in 0 .. k |-> IF j = k THEN op[<<k, f[k - 1]>>] ELSE f[j]]
  <2>2. k - 1 \in 0 .. (k - 1) /\ f[k - 1] \in S /\ op[<<k, f[k - 1]>>] \in S
    BY <2>1
  <2>3. g \in [0 .. k -> S]
    BY <2>1, <2>2
  <2>4. g[0] = base
    BY <2>1
  <2>5. ASSUME NEW j \in 1 .. k PROVE g[j] = op[<<j, g[j - 1]>>]
    <3>1. j \in 0 .. k /\ j - 1 \in 0 .. (k - 1) /\ j - 1 \in 0 .. k /\ j - 1 # k
      BY <2>5
    <3>2. g[j - 1] = f[j - 1]
      BY <3>1
    <3>3. CASE j = k
      BY <3>1, <3>2, <3>3
    <3>4. CASE j # k
      <4>1. j \in 1 .. (k - 1) /\ g[j] = f[j]
        BY <3>1, <3>4
      <4> QED
        BY <2>1, <3>2, <4>1
    <3> QED
      BY <3>3, <3>4
  <2> HIDE DEF g
  <2>6. upto(k, g)
    BY <2>4, <2>5
  <2> QED
    BY <2>3, <2>6
<1> HIDE DEF T
<1>3. n \in T
  BY <1>1, <1>2, Inducts
<1> QED
  BY <1>3 DEF T, Runs

\* The same when a step is only defined on what the earlier ones can have made.
Steady(n, U, T, op) ==
  /\ T \in [0 .. n -> SUBSET U]
  /\ \A k \in 1 .. n : \A x \in T[k - 1] : op[<<k, x>>] \in T[k]

RunsIn(f, n, T, base, op) ==
  /\ f = [k \in 0 .. n |-> f[k]] /\ f[0] = base /\ \A k \in 0 .. n : f[k] \in T[k]
  /\ \A k \in 1 .. n : f[k] = op[<<k, f[k - 1]>>]

\* There is one that stays in its sets.
LEMMA RecursesIn ==
  ASSUME NEW n \in Nat, NEW U, NEW T, NEW op, Steady(n, U, T, op), NEW base \in T[0]
  PROVE  \E f : RunsIn(f, n, T, base, op)
<1> DEFINE safe == [p \in (1 .. n) \X U |-> IF op[p] \in U THEN op[p] ELSE p[2]]
<1>1. safe \in Steppers(n, U)
  BY DEF Steppers
<1>2. base \in U
  BY DEF Steady
<1>3. PICK f : Runs(f, n, U, base, safe)
  <2> HIDE DEF safe
  <2> QED
    BY <1>1, <1>2, Recurses, Zenon
<1>4. f \in [0 .. n -> U] /\ f[0] = base /\ \A k \in 1 .. n : f[k] = safe[<<k, f[k - 1]>>]
  BY <1>3 DEF Runs
<1> DEFINE V == {k \in 0 .. n : f[k] \in T[k]}
<1>5. ASSUME NEW k \in 1 .. n, f[k - 1] \in T[k - 1] PROVE f[k] = op[<<k, f[k - 1]>>] /\ f[k] \in T[k]
  <2>1. k - 1 \in 0 .. n /\ k \in 0 .. n
    OBVIOUS
  <2>2. op[<<k, f[k - 1]>>] \in T[k] /\ T[k] \subseteq U /\ f[k - 1] \in U
    BY <1>4, <1>5, <2>1 DEF Steady
  <2>3. safe[<<k, f[k - 1]>>] = op[<<k, f[k - 1]>>]
    BY <2>2
  <2> QED
    BY <1>4, <2>2, <2>3
<1>6. 0 \in V
  BY <1>4
<1>10. ASSUME NEW k \in 1 .. n, k - 1 \in V PROVE k \in V
  <2>1. f[k - 1] \in T[k - 1] /\ k \in 0 .. n
    BY <1>10
  <2>2. f[k] \in T[k]
    BY <1>5, <2>1
  <2> QED
    BY <2>1, <2>2
<1> HIDE DEF V
<1>7. \A k \in 0 .. n : k \in V
  BY <1>6, <1>10, Inducts
<1>8. \A k \in 0 .. n : f[k] \in T[k]
  BY <1>7 DEF V
<1>9. \A k \in 1 .. n : f[k] = op[<<k, f[k - 1]>>]
  BY <1>5, <1>8
<1> QED
  BY <1>4, <1>8, <1>9 DEF RunsIn
-----------------------------------------------------------------------------
(* Pieces of a sequence.                                                   *)

\* A function on 1 .. n is a sequence.
LEMMA FunctionSeq ==
  ASSUME NEW S, NEW n \in Nat, NEW f \in [1 .. n -> S]
  PROVE  f \in Seq(S) /\ Len(f) = n
OBVIOUS

\* A piece of a sequence has the length it was asked for.
LEMMA CutType ==
  ASSUME NEW S, NEW t \in Seq(S), NEW a \in Nat, NEW b \in Nat, a <= b, b <= Len(t)
  PROVE  /\ Cut(t, a, b) \in Seq(S) /\ Len(Cut(t, a, b)) = b - a
         /\ \A i \in 1 .. (b - a) : Cut(t, a, b)[i] = t[a + i]
BY DEF Cut

\* Nothing, and all of it.
LEMMA CutEnds ==
  ASSUME NEW S, NEW t \in Seq(S)
  PROVE  /\ Cut(t, 0, Len(t)) = t
         /\ \A a \in Nat : Cut(t, a, a) = <<>>
<1>1. Cut(t, 0, Len(t)) = t
  BY SubSeqFull DEF Cut
<1>2. ASSUME NEW a \in Nat PROVE Cut(t, a, a) = <<>>
  BY SubSeqEmpty DEF Cut
<1> QED
  BY <1>1, <1>2

\* Two pieces that meet.
LEMMA CutJoin ==
  ASSUME NEW S, NEW t \in Seq(S), NEW a \in Nat, NEW b \in Nat, NEW c \in Nat,
         a <= b, b <= c, c <= Len(t)
  PROVE  Cut(t, a, b) \o Cut(t, b, c) = Cut(t, a, c)
<1>1. a + 1 \in 1 .. (Len(t) + 1) /\ b \in ((a + 1) - 1) .. Len(t) /\ c \in b .. Len(t)
  BY LenProperties
<1> QED
  BY <1>1, ConcatAdjacentSubSeq DEF Cut

\* A piece of the first of two.
LEMMA CutFirst ==
  ASSUME NEW S, NEW s \in Seq(S), NEW t \in Seq(S), NEW a \in Nat, NEW b \in Nat,
         a <= b, b <= Len(s)
  PROVE  Cut(s \o t, a, b) = Cut(s, a, b)
<1>0. PICK u \in Seq(S) : u = s \o t
  BY ConcatProperties
<1>1. u \in Seq(S) /\ Len(u) = Len(s) + Len(t) /\ Len(s) \in Nat /\ Len(t) \in Nat
  BY <1>0, ConcatProperties, LenProperties
<1>a. \A i \in 1 .. Len(s) : u[i] = s[i]
  <2>1. Len(s) \in Nat /\ Len(t) \in Nat
    BY LenProperties
  <2>2. \A i \in 1 .. Len(s) : i \in 1 .. (Len(s) + Len(t)) /\ i <= Len(s)
    BY <2>1
  <2> QED
    BY <1>0, <2>1, <2>2, ConcatProperties
<1>2. /\ Cut(u, a, b) \in Seq(S) /\ Len(Cut(u, a, b)) = b - a
      /\ \A i \in 1 .. (b - a) : Cut(u, a, b)[i] = u[a + i]
  <2>1. b <= Len(u)
    BY <1>1
  <2> QED
    BY <1>1, <2>1, CutType
<1>3. /\ Cut(s, a, b) \in Seq(S) /\ Len(Cut(s, a, b)) = b - a
      /\ \A i \in 1 .. (b - a) : Cut(s, a, b)[i] = s[a + i]
  BY CutType
<1>4. \A i \in 1 .. (b - a) : a + i \in 1 .. Len(s)
  BY <1>1
<1>5. Cut(u, a, b) = Cut(s, a, b)
  <2>1. \A i \in 1 .. (b - a) : Cut(u, a, b)[i] = Cut(s, a, b)[i]
    BY <1>1, <1>a, <1>2, <1>3, <1>4
  <2> QED
    BY ONLY <1>2, <1>3, <2>1, SeqEqual
<1> QED
  BY <1>0, <1>5

\* A piece of the second of two.
LEMMA CutSecond ==
  ASSUME NEW S, NEW s \in Seq(S), NEW t \in Seq(S), NEW a \in Nat, NEW b \in Nat,
         a <= b, b <= Len(t)
  PROVE  Cut(s \o t, Len(s) + a, Len(s) + b) = Cut(t, a, b)
<1>0. PICK u \in Seq(S) : u = s \o t
  BY ConcatProperties
<1>1. u \in Seq(S) /\ Len(u) = Len(s) + Len(t) /\ Len(s) \in Nat /\ Len(t) \in Nat
  BY <1>0, ConcatProperties, LenProperties
<1>a. \A i \in 1 .. Len(t) : u[Len(s) + i] = t[i]
  <2>1. Len(s) \in Nat /\ Len(t) \in Nat
    BY LenProperties
  <2>2. \A i \in 1 .. Len(t) : /\ Len(s) + i \in 1 .. (Len(s) + Len(t)) /\ ~(Len(s) + i <= Len(s))
                               /\ (Len(s) + i) - Len(s) = i
    BY <2>1
  <2>3. /\ u \in Seq(S) /\ Len(u) = Len(s) + Len(t)
        /\ \A i \in 1 .. Len(s) + Len(t) : u[i] = IF i <= Len(s) THEN s[i] ELSE t[i - Len(s)]
    BY <1>0, ConcatProperties
  <2> QED
    BY <2>1, <2>2, <2>3
<1>b. PICK c \in Nat, d \in Nat : c = Len(s) + a /\ d = Len(s) + b
  BY <1>1
<1>c. c <= d /\ d <= Len(u)
  BY <1>1, <1>b
<1>d. d - c = b - a
  BY <1>1, <1>b
<1>2. /\ Cut(u, c, d) \in Seq(S) /\ Len(Cut(u, c, d)) = b - a
      /\ \A i \in 1 .. (b - a) : Cut(u, c, d)[i] = u[c + i]
  <2>1. /\ Cut(u, c, d) \in Seq(S) /\ Len(Cut(u, c, d)) = d - c
        /\ \A i \in 1 .. (d - c) : Cut(u, c, d)[i] = u[c + i]
    BY <1>c, CutType
  <2> QED
    BY <1>d, <2>1
<1>3. /\ Cut(t, a, b) \in Seq(S) /\ Len(Cut(t, a, b)) = b - a
      /\ \A i \in 1 .. (b - a) : Cut(t, a, b)[i] = t[a + i]
  BY CutType
<1>4. \A i \in 1 .. (b - a) : a + i \in 1 .. Len(t) /\ c + i = Len(s) + (a + i)
  BY <1>1, <1>b
<1>5. \A i \in 1 .. (b - a) : Cut(u, c, d)[i] = Cut(t, a, b)[i]
  BY <1>a, <1>2, <1>3, <1>4, ZenonT(60)
<1>6. Cut(u, c, d) = Cut(t, a, b)
  BY ONLY <1>2, <1>3, <1>5, SeqEqual
<1> QED
  BY <1>0, <1>b, <1>6

\* A piece that ends in the second.
LEMMA CutAcross ==
  ASSUME NEW S, NEW s \in Seq(S), NEW t \in Seq(S), NEW b \in Nat, b <= Len(t)
  PROVE  Cut(s \o t, 0, Len(s) + b) = s \o Cut(t, 0, b)
<1>1. Len(s) \in Nat /\ Len(t) \in Nat /\ s \o t \in Seq(S) /\ Len(s \o t) = Len(s) + Len(t)
  BY LenProperties, ConcatProperties
<1>2. Cut(s \o t, 0, Len(s)) = s
  BY <1>1, CutFirst, CutEnds
<1>3. Cut(s \o t, Len(s), Len(s) + b) = Cut(t, 0, b)
  <2>1. Cut(s \o t, Len(s) + 0, Len(s) + b) = Cut(t, 0, b)
    BY CutSecond
  <2> QED
    BY <1>1, <2>1
<1>4. 0 <= Len(s) /\ Len(s) <= Len(s) + b /\ Len(s) + b <= Len(s \o t) /\ Len(s) + b \in Nat
  BY <1>1
<1> QED
  <2>1. Cut(s \o t, 0, Len(s)) \o Cut(s \o t, Len(s), Len(s) + b) = Cut(s \o t, 0, Len(s) + b)
    BY ONLY <1>1, <1>4, CutJoin, ZenonT(60)
  <2> QED
    BY <1>2, <1>3, <2>1

\* A piece of a piece.
LEMMA CutCut ==
  ASSUME NEW S, NEW t \in Seq(S), NEW a \in Nat, NEW b \in Nat, NEW c \in Nat, NEW d \in Nat,
         a <= b, b <= Len(t), c <= d, d <= b - a
  PROVE  Cut(Cut(t, a, b), c, d) = Cut(t, a + c, a + d)
<1>1. PICK u \in Seq(S) : u = Cut(t, a, b)
  BY CutType
<1>2. Len(u) = b - a
  BY <1>1, CutType
<1>3. \A i \in 1 .. (b - a) : u[i] = t[a + i]
  BY <1>1, CutType
<1>4. Len(t) \in Nat
  BY LenProperties
<1>5. PICK e \in Nat, f \in Nat : e = a + c /\ f = a + d
  OBVIOUS
<1>6. e <= f /\ f <= Len(t)
  BY <1>4, <1>5
<1>7. d <= Len(u)
  BY <1>2
<1>8. /\ Cut(u, c, d) \in Seq(S) /\ Len(Cut(u, c, d)) = d - c
      /\ \A i \in 1 .. (d - c) : Cut(u, c, d)[i] = u[c + i]
  BY <1>7, CutType, ZenonT(60)
<1>9. /\ Cut(t, e, f) \in Seq(S) /\ Len(Cut(t, e, f)) = f - e
      /\ \A i \in 1 .. (f - e) : Cut(t, e, f)[i] = t[e + i]
  BY <1>6, CutType, ZenonT(60)
<1>10. f - e = d - c /\ \A i \in 1 .. (d - c) : c + i \in 1 .. (b - a) /\ e + i = a + (c + i)
  BY <1>5
<1>11. \A i \in 1 .. (d - c) : Cut(u, c, d)[i] = Cut(t, e, f)[i]
  BY <1>3, <1>8, <1>9, <1>10
<1>12. Len(Cut(u, c, d)) = Len(Cut(t, e, f))
       /\ \A i \in 1 .. Len(Cut(u, c, d)) : Cut(u, c, d)[i] = Cut(t, e, f)[i]
  BY <1>8, <1>9, <1>10, <1>11
<1>13. Cut(u, c, d) = Cut(t, e, f)
  BY ONLY <1>8, <1>9, <1>12, SeqEqual
<1> QED
  BY <1>1, <1>5, <1>13

-----------------------------------------------------------------------------
(* Sums.                                                                   *)

\* The sums obey the recursion that defines them.
LEMMA SumsDef ==
  ASSUME NEW seq \in Seq(Int)
  PROVE  /\ Sums(seq) \in [0 .. Len(seq) -> Int] /\ Sums(seq)[0] = 0
         /\ \A n \in 1 .. Len(seq) : Sums(seq)[n] = Sums(seq)[n - 1] + seq[n]
<1>1. Len(seq) \in Nat /\ \A n \in 1 .. Len(seq) : seq[n] \in Int
  BY LenProperties
<1> DEFINE op == [p \in (1 .. Len(seq)) \X Int |-> p[2] + seq[p[1]]]
<1>2. op \in Steppers(Len(seq), Int)
  BY <1>1 DEF Steppers
<1>3. PICK f : Runs(f, Len(seq), Int, 0, op)
  <2> HIDE DEF op
  <2>1. Len(seq) \in Nat /\ 0 \in Int
    BY <1>1
  <2> QED
    BY <1>2, <2>1, Recurses, Zenon
<1>a. f \in [0 .. Len(seq) -> Int] /\ f[0] = 0
  BY <1>3 DEF Runs
<1>4. \A n \in 1 .. Len(seq) : f[n] = f[n - 1] + seq[n]
  <2> TAKE n \in 1 .. Len(seq)
  <2>1. n - 1 \in 0 .. Len(seq) /\ f[n - 1] \in Int
    BY <1>1, <1>a
  <2>2. f[n] = op[<<n, f[n - 1]>>]
    BY <1>3 DEF Runs
  <2> QED
    BY <2>1, <2>2
<1> DEFINE rec(sum) == sum = [n \in 0 .. Len(seq) |-> IF n = 0 THEN 0 ELSE sum[n - 1] + seq[n]]
<1>5. rec(f)
  <2>1. \A n \in 0 .. Len(seq) : f[n] = IF n = 0 THEN 0 ELSE f[n - 1] + seq[n]
    <3> TAKE n \in 0 .. Len(seq)
    <3>1. n = 0 \/ n \in 1 .. Len(seq)
      BY <1>1
    <3> QED
      BY <1>a, <1>4, <3>1
  <2> QED
    BY <1>a, <2>1
<1>6. Sums(seq) = CHOOSE sum : rec(sum)
  BY DEF Sums
<1>7. rec(Sums(seq))
  <2> HIDE DEF rec
  <2> QED
    BY <1>5, <1>6
<1> DEFINE g == Sums(seq)
<1>8. g = [n \in 0 .. Len(seq) |-> IF n = 0 THEN 0 ELSE g[n - 1] + seq[n]]
  BY <1>7
<1> HIDE DEF g, op
<1>9. g[0] = 0 /\ \A n \in 1 .. Len(seq) : g[n] = g[n - 1] + seq[n]
  BY <1>1, <1>8
<1>10. \A n \in 0 .. Len(seq) : g[n] \in Int
  <2> DEFINE T == {n \in 0 .. Len(seq) : g[n] \in Int}
  <2>1. 0 \in T /\ \A k \in 1 .. Len(seq) : k - 1 \in T => k \in T
    BY <1>1, <1>9
  <2> HIDE DEF T
  <2>2. \A k \in 0 .. Len(seq) : k \in T
    BY <1>1, <2>1, Inducts
  <2> QED
    BY <2>2 DEF T
<1> QED
  BY <1>8, <1>9, <1>10 DEF g

\* Two sequences that agree so far have the same sums so far.
LEMMA SumsAgree ==
  ASSUME NEW s \in Seq(Int), NEW r \in Seq(Int), NEW m \in Nat, m <= Len(s), m <= Len(r),
         \A n \in 1 .. m : s[n] = r[n]
  PROVE  \A n \in 0 .. m : Sums(s)[n] = Sums(r)[n]
<1> DEFINE T == {n \in 0 .. m : Sums(s)[n] = Sums(r)[n]}
<1>1. 0 \in T
  BY SumsDef
<1>2. ASSUME NEW n \in 1 .. m, n - 1 \in T PROVE n \in T
  <2>1. n \in 1 .. Len(s) /\ n \in 1 .. Len(r)
    BY LenProperties
  <2> QED
    BY <1>2, <2>1, SumsDef
<1> HIDE DEF T
<1>3. \A n \in 0 .. m : n \in T
  BY <1>1, <1>2, Inducts
<1> QED
  BY <1>3 DEF T

\* Sums of naturals grow.
LEMMA SumsGrow ==
  ASSUME NEW seq \in Seq(Nat)
  PROVE  /\ seq \in Seq(Int)
         /\ \A n \in 0 .. Len(seq) : Sums(seq)[n] \in Nat
<1>1. seq \in Seq(Int)
  OBVIOUS
<1> DEFINE T == {n \in 0 .. Len(seq) : Sums(seq)[n] \in Nat}
<1>2. 0 \in T
  BY <1>1, SumsDef, LenProperties
<1>3. ASSUME NEW n \in 1 .. Len(seq), n - 1 \in T PROVE n \in T
  <2>1. seq[n] \in Nat /\ Sums(seq)[n] = Sums(seq)[n - 1] + seq[n]
    BY <1>1, SumsDef
  <2> QED
    BY <1>3, <2>1
<1> HIDE DEF T
<1>4. \A n \in 0 .. Len(seq) : n \in T
  BY <1>2, <1>3, Inducts, LenProperties
<1> QED
  BY <1>1, <1>4 DEF T

\* A sum of naturals is one.
LEMMA SumType ==
  ASSUME NEW seq \in Seq(Nat)
  PROVE  SumOf(seq) \in Nat
BY SumsGrow, LenProperties DEF SumOf

\* A sum of nothing is 0.
LEMMA SumNone == SumOf(<<>>) = 0
BY SumsDef, EmptySeq DEF SumOf

\* One more member.
LEMMA SumAppend ==
  ASSUME NEW seq \in Seq(Nat), NEW x \in Nat
  PROVE  SumOf(Append(seq, x)) = SumOf(seq) + x
<1>0. PICK s \in Seq(Nat) : s = Append(seq, x)
  BY AppendProperties
<1>1. Len(s) = Len(seq) + 1 /\ Len(seq) \in Nat /\ s \in Seq(Int) /\ seq \in Seq(Int)
  BY <1>0, LenProperties, AppendProperties
<1>2. s[Len(seq) + 1] = x /\ \A n \in 1 .. Len(seq) : s[n] = seq[n]
  BY <1>0, AppendProperties
<1>3. Sums(s)[Len(seq)] = Sums(seq)[Len(seq)]
  <2>1. Len(seq) <= Len(s) /\ Len(seq) <= Len(seq) /\ Len(seq) \in 0 .. Len(seq)
    BY <1>1
  <2> QED
    BY <1>1, <1>2, <2>1, SumsAgree
<1>4. Sums(s)[Len(seq) + 1] = Sums(s)[(Len(seq) + 1) - 1] + s[Len(seq) + 1]
  <2>1. Len(seq) + 1 \in 1 .. Len(s)
    BY <1>1
  <2> QED
    BY <1>1, <2>1, SumsDef
<1> QED
  BY <1>0, <1>1, <1>2, <1>3, <1>4 DEF SumOf

\* The newest and the others.
LEMMA FrontLast ==
  ASSUME NEW S, NEW seq \in Seq(S), seq # <<>>
  PROVE  /\ Len(seq) \in Nat \ {0} /\ Last(seq) \in S /\ Front(seq) \in Seq(S)
         /\ Len(Front(seq)) = Len(seq) - 1
         /\ \A i \in 1 .. (Len(seq) - 1) : Front(seq)[i] = seq[i]
         /\ seq = Append(Front(seq), Last(seq))
<1>1. Len(seq) \in Nat \ {0} /\ \A i \in 1 .. Len(seq) : seq[i] \in S
  BY LenProperties, EmptySeq
<1>2. /\ Front(seq) \in Seq(S) /\ Len(Front(seq)) = Len(seq) - 1
      /\ \A i \in 1 .. (Len(seq) - 1) : Front(seq)[i] = seq[i]
  <2>1. Len(seq) - 1 \in Nat /\ 0 <= Len(seq) - 1 /\ Len(seq) - 1 <= Len(seq)
    BY <1>1
  <2>2. PICK m \in Nat : m = Len(seq) - 1
    BY <2>1
  <2>3. /\ Cut(seq, 0, m) \in Seq(S) /\ Len(Cut(seq, 0, m)) = m - 0
        /\ \A i \in 1 .. (m - 0) : Cut(seq, 0, m)[i] = seq[0 + i]
    <3>1. 0 \in Nat /\ 0 <= m /\ m <= Len(seq) /\ seq \in Seq(S)
      BY <2>1, <2>2
    <3> QED
      BY ONLY <3>1, m \in Nat, CutType
  <2>4. Front(seq) = Cut(seq, 0, m)
    BY <2>2 DEF Front, Cut
  <2>5. m - 0 = Len(seq) - 1 /\ \A i \in 1 .. m : 0 + i = i
    BY <2>2
  <2> QED
    BY <2>2, <2>3, <2>4, <2>5
<1>3. Last(seq) \in S /\ Last(seq) = seq[Len(seq)]
  BY <1>1 DEF Last
<1>4. PICK t \in Seq(S) : t = Append(Front(seq), Last(seq))
  BY <1>2, <1>3, AppendProperties
<1>5. Len(t) = Len(seq) /\ \A i \in 1 .. Len(seq) : t[i] = seq[i]
  <2>1. /\ Len(t) = Len(Front(seq)) + 1 /\ t[Len(Front(seq)) + 1] = Last(seq)
        /\ \A i \in 1 .. Len(Front(seq)) : t[i] = Front(seq)[i]
    BY <1>2, <1>3, <1>4, AppendProperties
  <2>2. ASSUME NEW i \in 1 .. Len(seq) PROVE t[i] = seq[i]
    <3>1. i = Len(seq) \/ i \in 1 .. (Len(seq) - 1)
      BY <1>1
    <3> QED
      BY <1>1, <1>2, <1>3, <2>1, <3>1
  <2> QED
    BY <1>1, <1>2, <2>1, <2>2
<1>6. t = seq
  BY ONLY <1>5, seq \in Seq(S), t \in Seq(S), SeqEqual
<1> QED
  BY <1>1, <1>2, <1>3, <1>4, <1>6

\* The sums of what comes after the first n.
LEMMA SumSplit ==
  ASSUME NEW seq \in Seq(Nat), NEW n \in 0 .. Len(seq)
  PROVE  /\ SubSeq(seq, 1, n) \in Seq(Nat) /\ SubSeq(seq, n + 1, Len(seq)) \in Seq(Nat)
         /\ SumOf(seq) = SumOf(SubSeq(seq, 1, n)) + SumOf(SubSeq(seq, n + 1, Len(seq)))
<1>1. Len(seq) \in Nat /\ n \in Nat /\ seq \in Seq(Int) /\ \A i \in 1 .. Len(seq) : seq[i] \in Nat
  BY LenProperties, SumsGrow
<1>2. /\ Cut(seq, 0, n) = SubSeq(seq, 1, n) /\ Cut(seq, n, Len(seq)) = SubSeq(seq, n + 1, Len(seq))
  BY DEF Cut
<1>a. 0 <= n /\ n <= Len(seq) /\ Len(seq) <= Len(seq)
  BY <1>1
<1>b. /\ Cut(seq, 0, n) \in Seq(Nat) /\ Len(Cut(seq, 0, n)) = n - 0
      /\ \A i \in 1 .. (n - 0) : Cut(seq, 0, n)[i] = seq[0 + i]
  BY <1>1, <1>a, CutType
<1>c. /\ Cut(seq, n, Len(seq)) \in Seq(Nat) /\ Len(Cut(seq, n, Len(seq))) = Len(seq) - n
      /\ \A i \in 1 .. (Len(seq) - n) : Cut(seq, n, Len(seq))[i] = seq[n + i]
  BY <1>1, <1>a, CutType
<1>3. PICK s \in Seq(Nat), r \in Seq(Nat) : s = Cut(seq, 0, n) /\ r = Cut(seq, n, Len(seq))
  BY <1>b, <1>c
<1>4. Len(s) = n /\ Len(r) = Len(seq) - n /\ s \in Seq(Int) /\ r \in Seq(Int)
  BY <1>1, <1>3, <1>b, <1>c, SumsGrow
<1>5. (\A i \in 1 .. n : s[i] = seq[i]) /\ \A i \in 1 .. Len(r) : r[i] = seq[n + i]
  BY <1>1, <1>3, <1>4, <1>b, <1>c
<1>6. Sums(s)[n] = Sums(seq)[n]
  <2>1. n <= Len(s) /\ n <= Len(seq) /\ n \in 0 .. n
    BY <1>1, <1>4
  <2> QED
    BY <1>1, <1>4, <1>5, <2>1, SumsAgree
<1>7. /\ Sums(r) \in [0 .. Len(r) -> Int] /\ Sums(r)[0] = 0
      /\ \A i \in 1 .. Len(r) : Sums(r)[i] = Sums(r)[i - 1] + r[i]
  BY <1>4, SumsDef
<1>8. /\ Sums(seq) \in [0 .. Len(seq) -> Int]
      /\ \A i \in 1 .. Len(seq) : Sums(seq)[i] = Sums(seq)[i - 1] + seq[i]
  BY <1>1, SumsDef
<1> DEFINE T == {j \in 0 .. Len(r) : Sums(seq)[n + j] = Sums(seq)[n] + Sums(r)[j]}
<1>9. 0 \in T
  <2>1. n + 0 = n /\ 0 \in 0 .. Len(r)
    BY <1>1, <1>4
  <2>2. Sums(seq)[n] \in Int
    BY <1>8
  <2> QED
    BY <1>7, <2>1, <2>2
<1>10. ASSUME NEW j \in 1 .. Len(r), j - 1 \in T PROVE j \in T
  <2>1. n + j \in 1 .. Len(seq) /\ (n + j) - 1 = n + (j - 1) /\ n + (j - 1) \in 0 .. Len(seq)
        /\ j - 1 \in 0 .. Len(r) /\ j \in 0 .. Len(r) /\ n \in 0 .. Len(seq)
    BY <1>1, <1>4
  <2>2. Sums(seq)[n + j] = Sums(seq)[n + (j - 1)] + r[j]
    BY <1>5, <1>8, <2>1
  <2>3. Sums(r)[j] = Sums(r)[j - 1] + r[j] /\ r[j] \in Int
    BY <1>4, <1>7
  <2>4. Sums(seq)[n] \in Int /\ Sums(r)[j - 1] \in Int /\ Sums(seq)[n + (j - 1)] \in Int
    BY <1>7, <1>8, <2>1
  <2>5. Sums(seq)[n + (j - 1)] = Sums(seq)[n] + Sums(r)[j - 1]
    BY <1>10
  <2>6. PICK x \in Int, y \in Int, z \in Int : x = Sums(seq)[n] /\ y = Sums(r)[j - 1] /\ z = r[j]
    BY <2>3, <2>4
  <2>7. Sums(seq)[n + j] = (x + y) + z /\ Sums(r)[j] = y + z
    BY <2>2, <2>3, <2>5, <2>6
  <2>8. Sums(seq)[n + j] = Sums(seq)[n] + Sums(r)[j]
    BY ONLY <2>6, <2>7, x \in Int, y \in Int, z \in Int
  <2> QED
    BY <2>1, <2>8
<1> HIDE DEF T
<1>11. \A j \in 0 .. Len(r) : j \in T
  BY <1>4, <1>9, <1>10, Inducts, LenProperties
<1>12. Sums(seq)[n + Len(r)] = Sums(seq)[n] + Sums(r)[Len(r)]
  BY <1>1, <1>4, <1>11 DEF T
<1>13. SumOf(seq) = Sums(seq)[n + Len(r)] /\ SumOf(s) = Sums(s)[n] /\ SumOf(r) = Sums(r)[Len(r)]
  <2>1. n + Len(r) = Len(seq)
    BY <1>1, <1>4
  <2> QED
    BY <1>4, <2>1 DEF SumOf
<1> QED
  BY <1>2, <1>3, <1>6, <1>12, <1>13

-----------------------------------------------------------------------------
(* The history.                                                            *)

Strings      == Seq(Chars)
Edits      == [from : Nat, to : Nat, insert : Strings]
Cursors    == [anchor : Nat, head : Nat]
\* Carets, one of which is the primary, and the entries of a history.
Selections == {sel \in [cursors : Seq(Cursors), primary : Nat] : sel.primary \in 1 .. Len(sel.cursors)}

Entries == [back : Seq(Edits), backSel : Seq(Selections), forth : Seq(Edits),
            forthSel : Seq(Selections), origin : Origins, before : Nat, after : Nat,
            resume : Nat, retained : Nat]

\* The bytes of each entry.
Held(entries) == [i \in DOMAIN entries |-> entries[i].retained]

\* RetainedBy is their sum.
LEMMA HeldType ==
  ASSUME NEW entries \in Seq(Entries)
  PROVE  /\ Held(entries) \in Seq(Nat) /\ Len(Held(entries)) = Len(entries)
         /\ \A i \in 1 .. Len(entries) : Held(entries)[i] = entries[i].retained
         /\ RetainedBy(entries) = SumOf(Held(entries)) /\ RetainedBy(entries) \in Nat
<1>1. Len(entries) \in Nat /\ DOMAIN entries = 1 .. Len(entries)
      /\ \A i \in 1 .. Len(entries) : entries[i] \in Entries
  BY LenProperties
<1>2. \A i \in 1 .. Len(entries) : entries[i].retained \in Nat
  BY <1>1 DEF Entries
<1>3. Held(entries) \in Seq(Nat) /\ Len(Held(entries)) = Len(entries)
      /\ \A i \in 1 .. Len(entries) : Held(entries)[i] = entries[i].retained
  BY <1>1, <1>2 DEF Held
<1>4. RetainedBy(entries) = SumOf(Held(entries))
  BY DEF RetainedBy, Held
<1> QED
  BY <1>3, <1>4, SumType

\* One more entry retains its own bytes more.
LEMMA RetainedAppend ==
  ASSUME NEW entries \in Seq(Entries), NEW e \in Entries
  PROVE  /\ Append(entries, e) \in Seq(Entries)
         /\ RetainedBy(Append(entries, e)) = RetainedBy(entries) + e.retained
<1>1. PICK s \in Seq(Entries) : s = Append(entries, e)
  BY AppendProperties
<1>2. e.retained \in Nat
  BY DEF Entries
<1>3. /\ Len(s) = Len(entries) + 1 /\ Len(entries) \in Nat /\ s[Len(entries) + 1] = e
      /\ \A i \in 1 .. Len(entries) : s[i] = entries[i]
  BY <1>1, AppendProperties, LenProperties
<1>4. Held(s) \in Seq(Nat) /\ Held(entries) \in Seq(Nat)
  BY HeldType
<1>5. PICK r \in Seq(Nat) : r = Append(Held(entries), e.retained)
  BY <1>2, <1>4, AppendProperties
<1>6. Len(r) = Len(entries) + 1 /\ Len(Held(s)) = Len(entries) + 1
  <2>1. Len(r) = Len(Held(entries)) + 1
    BY <1>2, <1>4, <1>5, AppendProperties
  <2> QED
    BY <1>3, <2>1, HeldType
<1>7. \A i \in 1 .. Len(Held(s)) : Held(s)[i] = r[i]
  <2> TAKE i \in 1 .. Len(Held(s))
  <2>1. Held(s)[i] = s[i].retained
    BY <1>3, <1>6, HeldType
  <2>2. i \in 1 .. Len(entries) \/ i = Len(entries) + 1
    BY <1>3, <1>6
  <2>3. CASE i \in 1 .. Len(entries)
    <3>1. r[i] = Held(entries)[i]
      BY <1>2, <1>4, <1>5, <2>3, HeldType, AppendProperties
    <3> QED
      BY <1>3, <2>1, <2>3, <3>1, HeldType
  <2>4. CASE i = Len(entries) + 1
    <3>1. r[i] = e.retained
      BY <1>2, <1>4, <1>5, <2>4, HeldType, AppendProperties
    <3> QED
      BY <1>3, <2>1, <2>4, <3>1
  <2> QED
    BY <2>2, <2>3, <2>4
<1>8. Held(s) = r
  BY ONLY <1>4, <1>6, <1>7, r \in Seq(Nat), SeqEqual
<1>9. SumOf(r) = SumOf(Held(entries)) + e.retained
  BY <1>2, <1>4, <1>5, SumAppend
<1> QED
  BY <1>1, <1>8, <1>9, HeldType
-----------------------------------------------------------------------------
(* Edits of a text, in order and apart.                                    *)

\* A piece of a text is a text.
LEMMA Piece ==
  ASSUME NEW t \in Strings, NEW a \in Nat, NEW b \in Nat, a <= b, b <= Len(t)
  PROVE  Cut(t, a, b) \in Strings /\ Len(Cut(t, a, b)) = b - a
BY CutType DEF Strings

\* Texts have lengths.
LEMMA Lengths == \A t \in Strings : Len(t) \in Nat
BY LenProperties DEF Strings

\* Two texts in a row are a text.
LEMMA Joins ==
  ASSUME NEW s \in Strings, NEW t \in Strings
  PROVE  s \o t \in Strings /\ Len(s \o t) = Len(s) + Len(t)
BY ConcatProperties DEF Strings

\* Edits that are in order, apart and within a text.
Fit(edits, t) ==
  /\ edits \in Seq(Edits) /\ t \in Strings /\ Disjoint(edits)
  /\ \A n \in 1 .. Len(edits) : edits[n].from <= edits[n].to /\ edits[n].to <= Len(t)

\* Where the first n edits end, in the text and in what it becomes.
End(edits, n)  == IF n = 0 THEN 0 ELSE edits[n].to
Mark(edits, n) == End(edits, n) + Shifts(edits)[n]

\* An edit among others.
LEMMA EditAt ==
  ASSUME NEW edits \in Seq(Edits), NEW n \in 1 .. Len(edits)
  PROVE  /\ edits[n] \in Edits /\ edits[n].from \in Nat /\ edits[n].to \in Nat
         /\ edits[n].insert \in Strings /\ Len(edits[n].insert) \in Nat
<1>1. edits[n] \in Edits
  BY LenProperties
<1>2. edits[n].from \in Nat /\ edits[n].to \in Nat /\ edits[n].insert \in Strings
  BY <1>1 DEF Edits
<1> QED
  BY <1>1, <1>2, LenProperties DEF Strings

\* The shifts obey the recursion that defines them.
LEMMA ShiftsDef ==
  ASSUME NEW edits \in Seq(Edits)
  PROVE  /\ Len(edits) \in Nat /\ Shifts(edits) \in [0 .. Len(edits) -> Int] /\ Shifts(edits)[0] = 0
         /\ \A n \in 1 .. Len(edits) :
              Shifts(edits)[n] = Shifts(edits)[n - 1]
                                 + (Len(edits[n].insert) - (edits[n].to - edits[n].from))
<1> DEFINE g == [i \in DOMAIN edits |-> Len(edits[i].insert) - (edits[i].to - edits[i].from)]
<1>1. Len(edits) \in Nat /\ DOMAIN edits = 1 .. Len(edits)
  BY LenProperties
<1>2. \A i \in 1 .. Len(edits) : Len(edits[i].insert) - (edits[i].to - edits[i].from) \in Int
  <2> TAKE i \in 1 .. Len(edits)
  <2>1. edits[i].from \in Nat /\ edits[i].to \in Nat /\ Len(edits[i].insert) \in Nat
    BY EditAt
  <2> QED
    BY <2>1
<1>a. g \in [1 .. Len(edits) -> Int]
  BY <1>1, <1>2
<1>b. g \in Seq(Int)
  <2> HIDE DEF g
  <2> QED
    BY <1>1, <1>a, FunctionSeq
<1>3. PICK s \in Seq(Int) : s = g
  BY <1>b
<1>4. Len(s) = Len(edits)
      /\ \A i \in 1 .. Len(edits) : s[i] = Len(edits[i].insert) - (edits[i].to - edits[i].from)
  BY <1>1, <1>3
<1>5. Shifts(edits) = Sums(s)
  BY <1>3 DEF Shifts
<1> HIDE DEF g
<1>6. /\ Sums(s) \in [0 .. Len(s) -> Int] /\ Sums(s)[0] = 0
      /\ \A n \in 1 .. Len(s) : Sums(s)[n] = Sums(s)[n - 1] + s[n]
  BY SumsDef
<1> QED
  BY <1>1, <1>4, <1>5, <1>6

\* How the marks move: the text between two edits, what is inserted, what is passed over.
LEMMA Marks ==
  ASSUME NEW t, NEW edits, Fit(edits, t)
  PROVE  /\ Len(edits) \in Nat /\ Len(t) \in Nat /\ Mark(edits, 0) = 0 /\ End(edits, 0) = 0
         /\ \A n \in 0 .. Len(edits) : /\ Mark(edits, n) \in Nat /\ End(edits, n) \in Nat
                                       /\ End(edits, n) <= Len(t)
         /\ \A n \in 1 .. Len(edits) :
              /\ End(edits, n - 1) <= edits[n].from /\ edits[n].from <= edits[n].to
              /\ End(edits, n) = edits[n].to
              /\ edits[n].from + Shifts(edits)[n - 1]
                 = Mark(edits, n - 1) + (edits[n].from - End(edits, n - 1))
              /\ edits[n].to + Shifts(edits)[n - 1]
                 = Mark(edits, n - 1) + (edits[n].to - End(edits, n - 1))
              /\ Mark(edits, n) = edits[n].from + Shifts(edits)[n - 1] + Len(edits[n].insert)
<1>1. edits \in Seq(Edits) /\ Len(edits) \in Nat /\ Len(t) \in Nat
  BY LenProperties DEF Fit, Strings
<1>2. /\ Shifts(edits) \in [0 .. Len(edits) -> Int] /\ Shifts(edits)[0] = 0
      /\ \A n \in 1 .. Len(edits) :
           Shifts(edits)[n] = Shifts(edits)[n - 1]
                              + (Len(edits[n].insert) - (edits[n].to - edits[n].from))
  BY <1>1, ShiftsDef
<1>3. \A n \in 0 .. Len(edits) : Shifts(edits)[n] \in Int
  BY <1>2
<1>4. Mark(edits, 0) = 0 /\ End(edits, 0) = 0
  BY <1>2 DEF Mark, End
<1>5. \A n \in 1 .. Len(edits) :
        /\ edits[n].from \in Nat /\ edits[n].to \in Nat /\ Len(edits[n].insert) \in Nat
        /\ edits[n].from <= edits[n].to /\ edits[n].to <= Len(t)
  BY <1>1, EditAt DEF Fit
<1>6. ASSUME NEW n \in 0 .. Len(edits)
      PROVE  End(edits, n) \in Nat /\ End(edits, n) <= Len(t)
  <2>1. n = 0 \/ n \in 1 .. Len(edits)
    BY <1>1
  <2> QED
    BY <1>1, <1>5, <2>1 DEF End
<1>7. ASSUME NEW n \in 1 .. Len(edits)
      PROVE  /\ End(edits, n - 1) <= edits[n].from /\ End(edits, n) = edits[n].to
             /\ n - 1 \in 0 .. Len(edits) /\ n \in 0 .. Len(edits)
  <2>1. n # 0 /\ n - 1 \in 0 .. Len(edits) /\ n \in 0 .. Len(edits)
    BY <1>1
  <2>2. CASE n = 1
    BY <1>5, <2>1, <2>2 DEF End
  <2>3. CASE n # 1
    <3>1. n - 1 \in 1 .. (Len(edits) - 1) /\ (n - 1) + 1 = n /\ n - 1 # 0
      BY <1>1, <2>3
    <3>2. edits[n - 1].to <= edits[(n - 1) + 1].from
      BY <3>1 DEF Fit, Disjoint
    <3> QED
      BY <2>1, <3>1, <3>2 DEF End
  <2> QED
    BY <2>2, <2>3
<1>8. ASSUME NEW n \in 1 .. Len(edits)
      PROVE  /\ edits[n].from + Shifts(edits)[n - 1]
                = Mark(edits, n - 1) + (edits[n].from - End(edits, n - 1))
             /\ edits[n].to + Shifts(edits)[n - 1]
                = Mark(edits, n - 1) + (edits[n].to - End(edits, n - 1))
             /\ Mark(edits, n) = edits[n].from + Shifts(edits)[n - 1] + Len(edits[n].insert)
  <2>1. /\ Shifts(edits)[n - 1] \in Int /\ End(edits, n - 1) \in Nat /\ End(edits, n) = edits[n].to
        /\ edits[n].from \in Nat /\ edits[n].to \in Nat /\ Len(edits[n].insert) \in Nat
    BY <1>3, <1>5, <1>6, <1>7
  <2>2. Shifts(edits)[n] = Shifts(edits)[n - 1]
                           + (Len(edits[n].insert) - (edits[n].to - edits[n].from))
    BY <1>2
  <2> QED
    BY <2>1, <2>2, SMTT(30) DEF Mark
<1> DEFINE T == {n \in 0 .. Len(edits) : Mark(edits, n) \in Nat}
<1>9. 0 \in T
  BY <1>1, <1>4
<1>10. ASSUME NEW n \in 1 .. Len(edits), n - 1 \in T PROVE n \in T
  <2>1. /\ Mark(edits, n - 1) \in Nat /\ End(edits, n - 1) <= edits[n].from
        /\ edits[n].from \in Nat /\ Len(edits[n].insert) \in Nat /\ End(edits, n - 1) \in Nat
        /\ n \in 0 .. Len(edits)
    BY <1>5, <1>6, <1>7, <1>10
  <2>2. Mark(edits, n) = Mark(edits, n - 1) + (edits[n].from - End(edits, n - 1)) + Len(edits[n].insert)
    BY <1>8
  <2> QED
    BY <2>1, <2>2
<1> HIDE DEF T
<1>11. \A n \in 0 .. Len(edits) : n \in T
  BY <1>1, <1>9, <1>10, Inducts
<1>12. \A n \in 0 .. Len(edits) : Mark(edits, n) \in Nat
  BY <1>11 DEF T
<1> QED
  BY <1>1, <1>4, <1>5, <1>6, <1>7, <1>8, <1>12

\* One edit of a text of which a part has been edited: h replaces what was before a.
Replaced(was, e, by) == Cut(was, 0, e.from + by) \o e.insert \o Cut(was, e.to + by, Len(was))

\* It keeps what is before a, and moves on to the end of the edit.
LEMMA ReplacedIs ==
  ASSUME NEW t \in Strings, NEW h \in Strings, NEW e \in Edits, NEW a \in Nat, NEW by \in Int,
         a <= e.from, e.from <= e.to, e.to <= Len(t),
         e.from + by = Len(h) + (e.from - a), e.to + by = Len(h) + (e.to - a)
  PROVE  /\ Replaced(h \o Cut(t, a, Len(t)), e, by)
            = ((h \o Cut(t, a, e.from)) \o e.insert) \o Cut(t, e.to, Len(t))
         /\ (h \o Cut(t, a, e.from)) \o e.insert \in Strings
         /\ Len((h \o Cut(t, a, e.from)) \o e.insert) = (e.from + by) + Len(e.insert)
         /\ Replaced(h \o Cut(t, a, Len(t)), e, by) \in Strings
<1>1. /\ e.from \in Nat /\ e.to \in Nat /\ e.insert \in Strings /\ Len(h) \in Nat /\ Len(t) \in Nat
      /\ Len(e.insert) \in Nat
  BY LenProperties DEF Edits, Strings
<1>a. PICK from \in Nat, to \in Nat, len \in Nat : from = e.from /\ to = e.to /\ len = Len(t)
  BY <1>1
<1>b. a <= from /\ from <= to /\ to <= len
  BY <1>a
<1>c. from - a \in Nat /\ to - a \in Nat /\ len - a \in Nat
  BY ONLY <1>b, a \in Nat, from \in Nat, to \in Nat, len \in Nat
<1>d. PICK c \in Nat, d \in Nat, n \in Nat : c = from - a /\ d = to - a /\ n = len - a
  BY ONLY <1>c
<1>2. c = e.from - a /\ d = e.to - a /\ n = Len(t) - a
  BY <1>a, <1>d
<1>e. c <= d /\ d <= n /\ a <= len /\ a + c = from /\ a + d = to /\ a + n = len
      /\ 0 <= c /\ 0 <= d /\ n <= n
  BY ONLY <1>b, <1>d, a \in Nat, from \in Nat, to \in Nat, len \in Nat, c \in Nat, d \in Nat, n \in Nat
<1>3. c <= d /\ d <= n /\ a <= Len(t) /\ a + c = e.from /\ a + d = e.to /\ a + n = Len(t)
      /\ 0 <= c /\ 0 <= d /\ n <= n
  BY <1>a, <1>e
<1>4. PICK tail \in Strings : tail = Cut(t, a, Len(t)) /\ Len(tail) = n
  <2>1. a <= Len(t) /\ Len(t) <= Len(t)
    BY <1>1, <1>3
  <2>2. Cut(t, a, Len(t)) \in Strings /\ Len(Cut(t, a, Len(t))) = Len(t) - a
    BY ONLY <1>1, <2>1, a \in Nat, t \in Strings, Piece
  <2> QED
    BY <1>2, <2>2
<1>f. h \o tail \in Strings /\ Len(h \o tail) = Len(h) + n
  BY ONLY <1>4, h \in Strings, tail \in Strings, ConcatProperties DEF Strings
<1>5. PICK was \in Strings : was = h \o tail /\ Len(was) = Len(h) + n
  BY ONLY <1>f
<1>6. Cut(was, 0, Len(h) + c) = h \o Cut(t, a, e.from)
  <2>1. c <= Len(tail)
    BY <1>3, <1>4
  <2>2. Cut(was, 0, Len(h) + c) = h \o Cut(tail, 0, c)
    BY <1>5, <2>1, CutAcross DEF Strings
  <2>3. Cut(tail, 0, c) = Cut(t, a, e.from)
    <3>1. a <= Len(t) /\ Len(t) <= Len(t) /\ 0 <= c /\ c <= Len(t) - a
      BY ONLY <1>a, <1>d, <1>e, a \in Nat, c \in Nat, d \in Nat, n \in Nat, len \in Nat, SMTT(30)
    <3>2. Cut(Cut(t, a, Len(t)), 0, c) = Cut(t, a + 0, a + c)
      BY <1>1, <3>1, CutCut DEF Strings
    <3> QED
      BY <1>3, <1>4, <3>2
  <2> QED
    BY <2>2, <2>3
<1>7. Cut(was, Len(h) + d, Len(was)) = Cut(t, e.to, Len(t))
  <2>1. d <= n /\ n <= Len(tail)
    BY <1>3, <1>4
  <2>2. Cut(was, Len(h) + d, Len(h) + n) = Cut(tail, d, n)
    BY <1>5, <2>1, CutSecond DEF Strings
  <2>3. Cut(tail, d, n) = Cut(t, e.to, Len(t))
    <3>1. a <= Len(t) /\ Len(t) <= Len(t) /\ d <= n /\ n <= Len(t) - a
      BY <1>1, <1>2, <1>3
    <3>2. Cut(Cut(t, a, Len(t)), d, n) = Cut(t, a + d, a + n)
      BY <1>1, <3>1, CutCut DEF Strings
    <3> QED
      BY <1>3, <1>4, <3>2
  <2> QED
    BY <1>5, <2>2, <2>3
<1>8. Replaced(was, e, by) = ((h \o Cut(t, a, e.from)) \o e.insert) \o Cut(t, e.to, Len(t))
  BY <1>2, <1>6, <1>7 DEF Replaced
<1>9. Cut(t, a, e.from) \in Strings /\ Len(Cut(t, a, e.from)) = c
  <2>1. a <= e.from /\ e.from <= Len(t)
    BY <1>1
  <2>2. Cut(t, a, e.from) \in Strings /\ Len(Cut(t, a, e.from)) = e.from - a
    BY ONLY <1>1, <2>1, a \in Nat, t \in Strings, Piece
  <2> QED
    BY <1>2, <2>2
<1>10. Cut(t, e.to, Len(t)) \in Strings
  <2>1. e.to <= Len(t) /\ Len(t) <= Len(t)
    BY <1>1
  <2> QED
    BY <1>1, <2>1, CutType DEF Strings
<1>g. h \o Cut(t, a, e.from) \in Strings /\ Len(h \o Cut(t, a, e.from)) = Len(h) + c
  BY ONLY <1>9, h \in Strings, ConcatProperties DEF Strings
<1>11. PICK p \in Strings : p = h \o Cut(t, a, e.from) /\ Len(p) = Len(h) + c
  BY ONLY <1>g
<1>h. p \o e.insert \in Strings /\ Len(p \o e.insert) = (Len(h) + c) + Len(e.insert)
  BY ONLY <1>1, <1>11, p \in Strings, Joins
<1>12. PICK q \in Strings : q = p \o e.insert /\ Len(q) = (Len(h) + c) + Len(e.insert)
  BY ONLY <1>h
<1>13. q \o Cut(t, e.to, Len(t)) \in Strings
  BY <1>10, ConcatProperties DEF Strings
<1>14. Len(q) = (e.from + by) + Len(e.insert)
  BY <1>2, <1>12
<1> QED
  BY <1>4, <1>5, <1>8, <1>11, <1>12, <1>13, <1>14

\* A text of which the first n edits have been made: the rest of it is as it was.
Parted(w, t, edits, n) ==
  \E h \in Strings : w = h \o Cut(t, End(edits, n), Len(t)) /\ Len(h) = Mark(edits, n)

\* The part of it that has been edited, and that the text is this and the rest.
Done(w, edits, n) == Cut(w, 0, Mark(edits, n))

Split(w, t, edits, n) == w = Done(w, edits, n) \o Cut(t, End(edits, n), Len(t))

\* The head is as long as the mark says.
LEMMA PartedHead ==
  ASSUME NEW t, NEW edits, Fit(edits, t), NEW n \in 0 .. Len(edits), NEW w, Parted(w, t, edits, n)
  PROVE  /\ w \in Strings /\ Done(w, edits, n) \in Strings /\ Len(Done(w, edits, n)) = Mark(edits, n)
         /\ Cut(t, End(edits, n), Len(t)) \in Strings
         /\ Split(w, t, edits, n)
         /\ Len(w) = Mark(edits, n) + (Len(t) - End(edits, n))
<1>1. /\ t \in Strings /\ Len(t) \in Nat /\ Mark(edits, n) \in Nat /\ End(edits, n) \in Nat
      /\ End(edits, n) <= Len(t) /\ Len(t) <= Len(t)
  BY Marks DEF Fit
<1>2. PICK h \in Strings : w = h \o Cut(t, End(edits, n), Len(t)) /\ Len(h) = Mark(edits, n)
  BY DEF Parted
<1>3. /\ Cut(t, End(edits, n), Len(t)) \in Strings
      /\ Len(Cut(t, End(edits, n), Len(t))) = Len(t) - End(edits, n)
  BY ONLY <1>1, Piece
<1>4. PICK r \in Strings : r = Cut(t, End(edits, n), Len(t))
  BY <1>3
<1>5. w \in Strings /\ Len(w) = Mark(edits, n) + (Len(t) - End(edits, n))
  BY <1>2, <1>3, <1>4, Joins
<1>6. Done(w, edits, n) = h
  <2>1. Cut(h \o r, 0, Len(h)) = Cut(h, 0, Len(h))
    <3>1. Len(h) \in Nat /\ 0 <= Len(h) /\ Len(h) <= Len(h)
      BY <1>1, <1>2
    <3> QED
      BY ONLY <3>1, h \in Strings, r \in Strings, CutFirst DEF Strings
  <2>2. Cut(h, 0, Len(h)) = h
    BY CutEnds DEF Strings
  <2> QED
    BY <1>2, <1>4, <2>1, <2>2 DEF Done
<1> QED
  BY <1>2, <1>3, <1>5, <1>6 DEF Split

\* One edit more.
LEMMA PartedStep ==
  ASSUME NEW t, NEW edits, Fit(edits, t), NEW n \in 1 .. Len(edits), NEW w,
         Parted(w, t, edits, n - 1)
  PROVE  LET r == Replaced(w, edits[n], Shifts(edits)[n - 1])
         IN /\ Parted(r, t, edits, n)
            /\ Done(r, edits, n)
               = (Done(w, edits, n - 1) \o Cut(t, End(edits, n - 1), edits[n].from)) \o edits[n].insert
<1> DEFINE r == Replaced(w, edits[n], Shifts(edits)[n - 1])
           h == Done(w, edits, n - 1)
           g == (h \o Cut(t, End(edits, n - 1), edits[n].from)) \o edits[n].insert
<1>0. Len(edits) \in Nat /\ n - 1 \in 0 .. Len(edits) /\ n \in 0 .. Len(edits)
  BY Marks
<1>1. /\ t \in Strings /\ Len(t) \in Nat /\ edits \in Seq(Edits) /\ edits[n] \in Edits
      /\ Mark(edits, n - 1) \in Nat /\ End(edits, n - 1) \in Nat
  BY <1>0, Marks, EditAt DEF Fit
<1>2. /\ End(edits, n - 1) <= edits[n].from /\ edits[n].from <= edits[n].to
      /\ edits[n].to <= Len(t) /\ End(edits, n) = edits[n].to
      /\ edits[n].from + Shifts(edits)[n - 1] = Mark(edits, n - 1) + (edits[n].from - End(edits, n - 1))
      /\ edits[n].to + Shifts(edits)[n - 1] = Mark(edits, n - 1) + (edits[n].to - End(edits, n - 1))
      /\ Mark(edits, n) = edits[n].from + Shifts(edits)[n - 1] + Len(edits[n].insert)
  BY Marks DEF Fit
<1>3. Shifts(edits)[n - 1] \in Int
  BY <1>0, <1>1, ShiftsDef
<1>4. /\ w \in Strings /\ h \in Strings /\ Len(h) = Mark(edits, n - 1)
      /\ w = h \o Cut(t, End(edits, n - 1), Len(t))
  BY <1>0, PartedHead DEF Split
<1>5. /\ r = g \o Cut(t, edits[n].to, Len(t))
      /\ g \in Strings
      /\ Len(g) = (edits[n].from + Shifts(edits)[n - 1]) + Len(edits[n].insert)
      /\ r \in Strings
  <2>1. PICK e \in Edits, a \in Nat, by \in Int :
          e = edits[n] /\ a = End(edits, n - 1) /\ by = Shifts(edits)[n - 1]
    BY <1>1, <1>3
  <2> HIDE DEF h
  <2>2. /\ a <= e.from /\ e.from <= e.to /\ e.to <= Len(t)
        /\ e.from + by = Len(h) + (e.from - a) /\ e.to + by = Len(h) + (e.to - a)
    BY <1>2, <1>4, <2>1
  <2>3. /\ Replaced(h \o Cut(t, a, Len(t)), e, by)
            = ((h \o Cut(t, a, e.from)) \o e.insert) \o Cut(t, e.to, Len(t))
        /\ (h \o Cut(t, a, e.from)) \o e.insert \in Strings
        /\ Len((h \o Cut(t, a, e.from)) \o e.insert) = (e.from + by) + Len(e.insert)
        /\ Replaced(h \o Cut(t, a, Len(t)), e, by) \in Strings
    BY ONLY <1>1, <1>4, <2>2, e \in Edits, a \in Nat, by \in Int, ReplacedIs
  <2> QED
    BY <1>4, <2>1, <2>3
<1>6. Len(g) = Mark(edits, n)
  BY <1>2, <1>5
<1> HIDE DEF g, h
<1>7. Parted(r, t, edits, n)
  BY <1>2, <1>5, <1>6 DEF Parted
<1>8. Done(r, edits, n) = g
  <2>1. PICK u \in Strings : u = Cut(t, edits[n].to, Len(t))
    <3>1. Cut(t, End(edits, n), Len(t)) \in Strings
      BY <1>0, <1>7, PartedHead
    <3> QED
      BY <1>2, <3>1
  <2>2. Cut(g \o u, 0, Len(g)) = Cut(g, 0, Len(g))
    <3>1. Len(g) \in Nat /\ 0 <= Len(g) /\ Len(g) <= Len(g) /\ g \in Strings
      BY <1>5, Lengths
    <3> QED
      BY ONLY <3>1, u \in Strings, CutFirst DEF Strings
  <2>3. Cut(g, 0, Len(g)) = g
    BY <1>5, CutEnds DEF Strings
  <2> QED
    BY <1>5, <1>6, <2>1, <2>2, <2>3 DEF Done
<1> QED
  BY <1>7, <1>8 DEF g, h

\* The texts that the edits pass through.
After(t, edits) ==
  LET after[n \in 0 .. Len(edits)] ==
        IF n = 0 THEN t ELSE Replaced(after[n - 1], edits[n], Shifts(edits)[n - 1])
  IN after

\* Applied is what the last edit makes, and each step replaces one range.
LEMMA AfterIs ==
  ASSUME NEW t, NEW edits, Fit(edits, t)
  PROVE  /\ Applied(t, edits) = After(t, edits)[Len(edits)]
         /\ \A n \in 0 .. Len(edits) : Parted(After(t, edits)[n], t, edits, n)
         /\ After(t, edits)[0] = t
         /\ \A n \in 1 .. Len(edits) :
              After(t, edits)[n] = Replaced(After(t, edits)[n - 1], edits[n], Shifts(edits)[n - 1])
<1>1. Applied(t, edits) = After(t, edits)[Len(edits)]
  BY DEF Applied, After, Replaced
<1> DEFINE T == [n \in 0 .. Len(edits) |-> {w \in Strings : Parted(w, t, edits, n)}]
           op == [p \in (1 .. Len(edits)) \X Strings |->
                    Replaced(p[2], edits[p[1]], Shifts(edits)[p[1] - 1])]
<1>2. Len(edits) \in Nat /\ t \in Strings
  BY Marks DEF Fit
<1>3. t \in T[0]
  <2>1. <<>> \in Strings /\ Len(<<>>) = 0
    BY DEF Strings
  <2>2. t = <<>> \o Cut(t, 0, Len(t))
    BY <1>2, CutEnds, ConcatEmptySeq DEF Strings
  <2>3. Parted(t, t, edits, 0)
    BY <2>1, <2>2, Marks DEF Parted
  <2> QED
    BY <1>2, <2>3
<1>4. ASSUME NEW n \in 1 .. Len(edits), NEW w \in T[n - 1]
      PROVE  op[<<n, w>>] = Replaced(w, edits[n], Shifts(edits)[n - 1]) /\ op[<<n, w>>] \in T[n]
  <2>1. n - 1 \in 0 .. Len(edits) /\ n \in 0 .. Len(edits)
    BY <1>2
  <2>2. w \in Strings /\ Parted(w, t, edits, n - 1)
    BY <1>4, <2>1
  <2>3. op[<<n, w>>] = Replaced(w, edits[n], Shifts(edits)[n - 1])
    BY <2>2
  <2>4. Parted(Replaced(w, edits[n], Shifts(edits)[n - 1]), t, edits, n)
    BY <2>2, PartedStep
  <2>5. Replaced(w, edits[n], Shifts(edits)[n - 1]) \in Strings
    BY <2>1, <2>4, PartedHead
  <2> QED
    BY <2>1, <2>3, <2>4, <2>5
<1>5. Steady(Len(edits), Strings, T, op)
  <2>1. T \in [0 .. Len(edits) -> SUBSET Strings]
    OBVIOUS
  <2> HIDE DEF T, op
  <2> QED
    BY <1>4, <2>1 DEF Steady
<1>6. PICK f : RunsIn(f, Len(edits), T, t, op)
  <2> HIDE DEF T, op
  <2> QED
    BY <1>2, <1>3, <1>5, RecursesIn, Zenon
<1>7. /\ f = [n \in 0 .. Len(edits) |-> f[n]] /\ f[0] = t
      /\ \A n \in 0 .. Len(edits) : f[n] \in T[n]
      /\ \A n \in 1 .. Len(edits) : f[n] = op[<<n, f[n - 1]>>]
  BY <1>6 DEF RunsIn
<1>8. \A n \in 1 .. Len(edits) : f[n] = Replaced(f[n - 1], edits[n], Shifts(edits)[n - 1])
  <2> TAKE n \in 1 .. Len(edits)
  <2>1. f[n - 1] \in T[n - 1]
    BY <1>2, <1>7
  <2> HIDE DEF T, op
  <2> QED
    BY <1>4, <1>7, <2>1
<1> DEFINE rec(after) == after = [n \in 0 .. Len(edits) |->
                 IF n = 0 THEN t ELSE Replaced(after[n - 1], edits[n], Shifts(edits)[n - 1])]
<1>9. rec(f)
  <2> HIDE DEF T, op
  <2>1. \A n \in 0 .. Len(edits) :
          f[n] = IF n = 0 THEN t ELSE Replaced(f[n - 1], edits[n], Shifts(edits)[n - 1])
    <3> TAKE n \in 0 .. Len(edits)
    <3>1. n = 0 \/ (n # 0 /\ n \in 1 .. Len(edits))
      BY <1>2
    <3> QED
      BY <1>7, <1>8, <3>1
  <2> QED
    BY <1>7, <2>1
<1>10. After(t, edits) = CHOOSE after : rec(after)
  BY DEF After
<1>11. rec(After(t, edits))
  <2> HIDE DEF rec
  <2> QED
    BY <1>9, <1>10
<1> DEFINE g == After(t, edits)
<1>12. g = [n \in 0 .. Len(edits) |-> IF n = 0 THEN t ELSE Replaced(g[n - 1], edits[n], Shifts(edits)[n - 1])]
  BY <1>11
<1> HIDE DEF g, rec, op, T
<1>13. g[0] = t /\ \A n \in 1 .. Len(edits) : g[n] = Replaced(g[n - 1], edits[n], Shifts(edits)[n - 1])
  BY <1>2, <1>12
<1> DEFINE V == {n \in 0 .. Len(edits) : Parted(g[n], t, edits, n)}
<1>14. 0 \in V
  BY <1>2, <1>3, <1>13 DEF T
<1>15. ASSUME NEW n \in 1 .. Len(edits), n - 1 \in V PROVE n \in V
  <2>1. Parted(g[n - 1], t, edits, n - 1) /\ n \in 0 .. Len(edits)
    BY <1>2, <1>15
  <2>2. Parted(g[n], t, edits, n)
    BY <1>13, <2>1, PartedStep
  <2> QED
    BY <2>1, <2>2
<1> HIDE DEF V
<1>16. \A n \in 0 .. Len(edits) : n \in V
  BY <1>2, <1>14, <1>15, Inducts
<1> QED
  BY <1>1, <1>13, <1>16 DEF g, V

-----------------------------------------------------------------------------
(* Ranges in order.                                                        *)

\* One range is no later than another.
UpTo(from, to, i, j) == from[i] < from[j] \/ (from[i] = from[j] /\ to[i] <= to[j])

\* Where an index goes among those that are placed.
Goes(from, to, order, i, n) ==
  /\ \A k \in 1 .. n : UpTo(from, to, order[k], i)
  /\ \A k \in (n + 1) .. Len(order) : ~UpTo(from, to, order[k], i)

\* The order with one more index in its place.
Place(from, to, order, i) ==
  InsertAt(order, (CHOOSE n \in 0 .. Len(order) : Goes(from, to, order, i, n)) + 1, i)

\* The first k indices in the order of their ranges, none left out.
Placings(from, to, k) ==
  {o \in Seq(Nat) : /\ Len(o) = k /\ \A a \in 1 .. k : o[a] \in 1 .. k
                    /\ \A a, b \in 1 .. k : a < b => UpTo(from, to, o[a], o[b])
                    /\ \A i \in 1 .. k : \E a \in 1 .. k : o[a] = i}

\* That is a total order.
LEMMA UpToOrder ==
  ASSUME NEW from \in Seq(Nat), NEW to \in Seq(Nat), Len(from) = Len(to),
         NEW i \in 1 .. Len(from), NEW j \in 1 .. Len(from), NEW k \in 1 .. Len(from)
  PROVE  /\ UpTo(from, to, i, j) /\ UpTo(from, to, j, k) => UpTo(from, to, i, k)
         /\ UpTo(from, to, i, j) \/ UpTo(from, to, j, i)
<1>1. /\ from[i] \in Nat /\ from[j] \in Nat /\ from[k] \in Nat
      /\ to[i] \in Nat /\ to[j] \in Nat /\ to[k] \in Nat
  BY LenProperties
<1>2. PICK a \in Nat, b \in Nat, c \in Nat, d \in Nat, e \in Nat, f \in Nat :
        a = from[i] /\ b = from[j] /\ c = from[k] /\ d = to[i] /\ e = to[j] /\ f = to[k]
  BY ONLY <1>1
<1>3. /\ (a < b \/ (a = b /\ d <= e)) /\ (b < c \/ (b = c /\ e <= f)) => (a < c \/ (a = c /\ d <= f))
      /\ (a < b \/ (a = b /\ d <= e)) \/ (b < a \/ (b = a /\ e <= d))
  BY ONLY a \in Nat, b \in Nat, c \in Nat, d \in Nat, e \in Nat, f \in Nat
<1> QED
  BY ONLY <1>2, <1>3 DEF UpTo

\* What a sequence is when something is inserted.
Put(s, n, x) ==
  [a \in 1 .. Len(s) + 1 |-> IF a < n + 1 THEN s[a] ELSE IF a > n + 1 THEN s[a - 1] ELSE x]

\* InsertAt is that.
LEMMA Inserted ==
  ASSUME NEW S, NEW s \in Seq(S), NEW x \in S, NEW n \in 0 .. Len(s)
  PROVE  InsertAt(s, n + 1, x) = Put(s, n, x)
<1>0. Len(s) \in Nat /\ n \in Nat /\ n <= Len(s) /\ (n + 1) - 1 = n
  BY LenProperties
<1>a. /\ n <= Len(s) /\ Len(s) <= Len(s) /\ Len(s) \in Nat /\ n \in Nat
      /\ 0 \in Nat /\ 0 <= n
  BY <1>0
<1>1. /\ Cut(s, 0, n) \in Seq(S) /\ Len(Cut(s, 0, n)) = n - 0
      /\ \A i \in 1 .. (n - 0) : Cut(s, 0, n)[i] = s[0 + i]
  BY ONLY <1>a, s \in Seq(S), CutType
<1>2. /\ Cut(s, n, Len(s)) \in Seq(S) /\ Len(Cut(s, n, Len(s))) = Len(s) - n
      /\ \A i \in 1 .. (Len(s) - n) : Cut(s, n, Len(s))[i] = s[n + i]
  BY ONLY <1>a, s \in Seq(S), CutType
<1>3. PICK q \in Seq(S), r \in Seq(S) : q = Cut(s, 0, n) /\ r = Cut(s, n, Len(s))
  BY <1>1, <1>2
<1>4. Len(q) = n /\ \A i \in 1 .. n : q[i] = s[i]
  BY <1>0, <1>1, <1>3
<1>5. Len(r) = Len(s) - n /\ \A i \in 1 .. (Len(s) - n) : r[i] = s[n + i]
  BY <1>2, <1>3
<1>b. <<x>> \in Seq(S) /\ Len(<<x>>) = 1 /\ <<x>>[1] = x
  OBVIOUS
<1>6. PICK o \in Seq(S) : o = <<x>> /\ Len(o) = 1 /\ o[1] = x
  BY ONLY <1>b
<1>c. /\ q \o o \in Seq(S) /\ Len(q \o o) = Len(q) + Len(o)
      /\ \A i \in 1 .. Len(q) + Len(o) : (q \o o)[i] = IF i <= Len(q) THEN q[i] ELSE o[i - Len(q)]
  BY ONLY q \in Seq(S), o \in Seq(S), ConcatProperties
<1>7. PICK u \in Seq(S) : /\ u = q \o o /\ Len(u) = n + 1
                          /\ \A i \in 1 .. n + 1 : u[i] = IF i <= n THEN q[i] ELSE o[i - n]
  BY ONLY <1>c, <1>4, <1>6
<1>d. /\ u \o r \in Seq(S) /\ Len(u \o r) = Len(u) + Len(r)
      /\ \A i \in 1 .. Len(u) + Len(r) : (u \o r)[i] = IF i <= Len(u) THEN u[i] ELSE r[i - Len(u)]
  BY ONLY u \in Seq(S), r \in Seq(S), ConcatProperties
<1>8. PICK v \in Seq(S) : /\ v = u \o r /\ Len(v) = (n + 1) + (Len(s) - n)
                          /\ \A i \in 1 .. (n + 1) + (Len(s) - n) : v[i] = IF i <= n + 1 THEN u[i] ELSE r[i - (n + 1)]
  <2>1. Len(u) = n + 1 /\ Len(r) = Len(s) - n
    BY <1>5, <1>7
  <2> QED
    BY ONLY <1>d, <2>1
<1>9. InsertAt(s, n + 1, x) = v
  <2>1. InsertAt(s, n + 1, x) = SubSeq(s, 1, (n + 1) - 1) \o <<x>> \o SubSeq(s, n + 1, Len(s))
    BY DEF InsertAt
  <2>2. SubSeq(s, 1, (n + 1) - 1) = q /\ SubSeq(s, n + 1, Len(s)) = r
    BY <1>0, <1>3 DEF Cut
  <2> QED
    BY <1>6, <1>7, <1>8, <2>1, <2>2
<1>10. Len(v) = Len(s) + 1
  BY <1>0, <1>8
<1>11. ASSUME NEW a \in 1 .. Len(s) + 1
       PROVE  v[a] = IF a < n + 1 THEN s[a] ELSE IF a > n + 1 THEN s[a - 1] ELSE x
  <2>1. v[a] = IF a <= n + 1 THEN u[a] ELSE r[a - (n + 1)]
    BY <1>0, <1>8
  <2>2. CASE a < n + 1
    <3>1. a \in 1 .. n /\ a \in 1 .. n + 1 /\ a <= n /\ a <= n + 1
      BY <1>0, <2>2
    <3> QED
      BY <1>4, <1>7, <2>1, <2>2, <3>1
  <2>3. CASE a > n + 1
    <3>1. a - (n + 1) \in 1 .. (Len(s) - n) /\ n + (a - (n + 1)) = a - 1 /\ ~(a <= n + 1) /\ ~(a < n + 1)
      BY <1>0, <2>3
    <3> QED
      BY <1>5, <2>1, <2>3, <3>1
  <2>4. CASE a = n + 1
    <3>1. a \in 1 .. n + 1 /\ ~(a <= n) /\ a - n = 1 /\ a <= n + 1 /\ ~(a < n + 1) /\ ~(a > n + 1)
      BY <1>0, <2>4
    <3> QED
      BY <1>6, <1>7, <2>1, <3>1
  <2> QED
    BY <1>0, <2>2, <2>3, <2>4
<1>12. v = [a \in 1 .. Len(s) + 1 |-> v[a]]
  BY <1>10
<1> QED
  BY <1>9, <1>11, <1>12 DEF Put

\* There is a place for it: after the last one that is no later.
LEMMA GoesSomewhere ==
  ASSUME NEW from \in Seq(Nat), NEW to \in Seq(Nat), Len(from) = Len(to),
         NEW k \in 1 .. Len(from), NEW o \in Placings(from, to, k - 1)
  PROVE  \E n \in 0 .. Len(o) : Goes(from, to, o, k, n)
<1>1. /\ Len(from) \in Nat /\ k \in Nat /\ k - 1 \in Nat /\ Len(o) = k - 1
      /\ \A a \in 1 .. (k - 1) : o[a] \in 1 .. (k - 1)
      /\ \A a, b \in 1 .. (k - 1) : a < b => UpTo(from, to, o[a], o[b])
  BY LenProperties DEF Placings
<1>2. \A a \in 1 .. (k - 1) : o[a] \in 1 .. Len(from)
  <2> TAKE a \in 1 .. (k - 1)
  <2>1. o[a] \in 1 .. (k - 1)
    BY <1>1
  <2>2. 1 .. (k - 1) \subseteq 1 .. Len(from)
    BY LenProperties
  <2> QED
    BY <2>1, <2>2
<1> DEFINE past == {a \in 1 .. (k - 1) : ~UpTo(from, to, o[a], k)}
<1>3. CASE past = {}
  <2>1. \A a \in 1 .. (k - 1) : UpTo(from, to, o[a], k)
    BY <1>3
  <2>2. Goes(from, to, o, k, k - 1)
    <3>1. ((k - 1) + 1) .. (k - 1) = {}
      BY <1>1
    <3> QED
      BY <1>1, <2>1, <3>1 DEF Goes
  <2> QED
    BY <1>1, <2>2
<1>4. CASE past # {}
  <2>1. past \subseteq Nat
    OBVIOUS
  <2>2. PICK m \in past : \A a \in past : m <= a
    <3> HIDE DEF past
    <3> QED
      BY <1>4, <2>1, Least
  <2>3. m \in 1 .. (k - 1) /\ ~UpTo(from, to, o[m], k)
    BY <2>2
  <2>4. \A a \in 1 .. (m - 1) : UpTo(from, to, o[a], k)
    BY <1>1, <2>2, <2>3
  <2>5. ASSUME NEW a \in m .. (k - 1) PROVE ~UpTo(from, to, o[a], k)
    <3>1. a = m \/ (m < a /\ a \in 1 .. (k - 1))
      BY <1>1, <2>3
    <3>2. CASE m < a /\ a \in 1 .. (k - 1)
      <4>1. UpTo(from, to, o[m], o[a])
        BY <1>1, <2>3, <3>2
      <4>2. o[m] \in 1 .. Len(from) /\ o[a] \in 1 .. Len(from)
        BY <1>2, <2>3, <3>2
      <4> QED
        BY <2>3, <4>1, <4>2, UpToOrder
    <3> QED
      BY <2>3, <3>1, <3>2
  <2>6. m - 1 \in 0 .. (k - 1) /\ (m - 1) + 1 = m
    BY <1>1, <2>3
  <2>7. Goes(from, to, o, k, m - 1)
    BY <1>1, <2>4, <2>5, <2>6 DEF Goes
  <2> QED
    BY <1>1, <2>6, <2>7
<1> QED
  BY <1>3, <1>4

\* Placing one more index keeps the order and forgets none.
LEMMA PlaceIs ==
  ASSUME NEW from \in Seq(Nat), NEW to \in Seq(Nat), Len(from) = Len(to),
         NEW k \in 1 .. Len(from), NEW o \in Placings(from, to, k - 1)
  PROVE  /\ Place(from, to, o, k) \in Placings(from, to, k)
         /\ \E n \in 0 .. (k - 1) : Goes(from, to, o, k, n) /\ Place(from, to, o, k) = Put(o, n, k)
<1>1. /\ Len(from) \in Nat /\ k \in Nat /\ k - 1 \in Nat /\ Len(o) = k - 1 /\ (k - 1) + 1 = k
      /\ \A a \in 1 .. (k - 1) : o[a] \in 1 .. (k - 1)
      /\ \A a, b \in 1 .. (k - 1) : a < b => UpTo(from, to, o[a], o[b])
      /\ \A i \in 1 .. (k - 1) : \E a \in 1 .. (k - 1) : o[a] = i
  BY LenProperties DEF Placings
<1>2. \A a \in 1 .. (k - 1) : o[a] \in 1 .. Len(from) /\ o[a] \in 1 .. k
  <2> TAKE a \in 1 .. (k - 1)
  <2>1. o[a] \in 1 .. (k - 1)
    BY <1>1
  <2>2. 1 .. (k - 1) \subseteq 1 .. Len(from) /\ 1 .. (k - 1) \subseteq 1 .. k
    BY LenProperties
  <2> QED
    BY <2>1, <2>2
<1> DEFINE goes == CHOOSE n \in 0 .. Len(o) : Goes(from, to, o, k, n)
<1>3. PICK n \in 0 .. (k - 1) : n = goes /\ Goes(from, to, o, k, n)
  BY <1>1, GoesSomewhere
<1> DEFINE p == [a \in 1 .. k |-> IF a < n + 1 THEN o[a] ELSE IF a > n + 1 THEN o[a - 1] ELSE k]
<1>a. k \in Nat /\ 1 <= k /\ n \in Nat /\ n <= k - 1 /\ Len(from) \in Nat /\ k <= Len(from)
  BY LenProperties
<1>4. Place(from, to, o, k) = p
  <2>1. o \in Seq(Nat) /\ n \in 0 .. Len(o)
    BY <1>1 DEF Placings
  <2>2. InsertAt(o, n + 1, k) = Put(o, n, k)
    <3>1. k \in Nat /\ o \in Seq(Nat)
      BY <1>a, <2>1
    <3> QED
      BY ONLY <2>1, <3>1, Inserted, Zenon
  <2>3. Place(from, to, o, k) = InsertAt(o, n + 1, k)
    BY <1>3 DEF Place
  <2>4. 1 .. Len(o) + 1 = 1 .. k
    BY <1>1, <1>a
  <2> QED
    BY <2>2, <2>3, <2>4 DEF Put
<1>5. ASSUME NEW a \in 1 .. k
      PROVE  \/ a \in 1 .. n /\ a \in 1 .. (k - 1) /\ p[a] = o[a]
             \/ a = n + 1 /\ p[a] = k
             \/ a \in (n + 2) .. k /\ a - 1 \in (n + 1) .. (k - 1) /\ a - 1 \in 1 .. (k - 1) /\ p[a] = o[a - 1]
  BY <1>1
<1>6. (\A a \in 1 .. k : p[a] \in 1 .. k)
  <2> TAKE a \in 1 .. k
  <2> HIDE DEF p
  <2>1. CASE a \in 1 .. n /\ a \in 1 .. (k - 1) /\ p[a] = o[a]
    BY <1>2, <2>1
  <2>2. CASE a = n + 1 /\ p[a] = k
    BY <1>a, <2>2
  <2>3. CASE a - 1 \in 1 .. (k - 1) /\ p[a] = o[a - 1]
    BY <1>2, <2>3
  <2> QED
    BY <1>5, <2>1, <2>2, <2>3
<1>7. p \in Seq(Nat) /\ Len(p) = k
  <2>1. p \in [1 .. k -> Nat]
    <3> DEFINE q == [a \in 1 .. k |-> p[a]]
    <3>1. p = q
      OBVIOUS
    <3> HIDE DEF p
    <3>2. q \in [1 .. k -> Nat]
      BY <1>1, <1>6
    <3> QED
      BY <3>1, <3>2
  <2> HIDE DEF p
  <2> QED
    BY <1>1, <2>1, FunctionSeq
<1>8. ASSUME NEW a \in 1 .. k, NEW b \in 1 .. k, a < b PROVE UpTo(from, to, p[a], p[b])
  <2> HIDE DEF p
  <2>1. CASE a = n + 1
    <3>1. p[a] = k
      BY <1>1, <2>1, <1>5
    <3>2. b - 1 \in (n + 1) .. (k - 1) /\ b - 1 \in 1 .. (k - 1) /\ p[b] = o[b - 1]
      BY <1>1, <1>5, <1>8, <2>1
    <3>3. ~UpTo(from, to, o[b - 1], k)
      BY <1>1, <1>3, <3>2 DEF Goes
    <3>4. o[b - 1] \in 1 .. Len(from)
      BY <1>2, <3>2
    <3> QED
      BY <3>1, <3>2, <3>3, <3>4, UpToOrder
  <2>2. CASE b = n + 1
    <3>0. a \in 1 .. n /\ ~(a = n + 1) /\ ~(a \in (n + 2) .. k) /\ ~(b \in 1 .. n) /\ ~(b \in (n + 2) .. k)
      BY <1>a, <1>8, <2>2
    <3>1. p[a] = o[a] /\ p[b] = k
      BY <1>5, <3>0
    <3> QED
      BY <1>3, <3>0, <3>1 DEF Goes
  <2>3. CASE a # n + 1 /\ b # n + 1
    <3>1. PICK c \in 1 .. (k - 1), d \in 1 .. (k - 1) : c < d /\ p[a] = o[c] /\ p[b] = o[d]
      <4>1. CASE a \in 1 .. n /\ b \in 1 .. n
        <5>1. /\ ~(a = n + 1) /\ ~(a \in (n + 2) .. k) /\ ~(b = n + 1) /\ ~(b \in (n + 2) .. k)
          BY <1>a, <4>1
        <5>2. a \in 1 .. (k - 1) /\ b \in 1 .. (k - 1) /\ p[a] = o[a] /\ p[b] = o[b]
          BY <1>5, <5>1
        <5> QED
          BY <1>8, <5>2
      <4>2. CASE a \in 1 .. n /\ b \in (n + 2) .. k
        <5>1. /\ ~(a = n + 1) /\ ~(a \in (n + 2) .. k) /\ ~(b = n + 1) /\ ~(b \in 1 .. n)
              /\ a < b - 1
          BY <1>a, <4>2
        <5>2. a \in 1 .. (k - 1) /\ b - 1 \in 1 .. (k - 1) /\ p[a] = o[a] /\ p[b] = o[b - 1]
          BY <1>5, <5>1
        <5> QED
          BY <5>1, <5>2
      <4>3. CASE a \in (n + 2) .. k /\ b \in (n + 2) .. k
        <5>1. /\ ~(a = n + 1) /\ ~(a \in 1 .. n) /\ ~(b = n + 1) /\ ~(b \in 1 .. n)
              /\ a - 1 < b - 1
          BY <1>a, <1>8, <4>3
        <5>2. a - 1 \in 1 .. (k - 1) /\ b - 1 \in 1 .. (k - 1) /\ p[a] = o[a - 1] /\ p[b] = o[b - 1]
          BY <1>5, <5>1
        <5> QED
          BY <5>1, <5>2
      <4>4. \/ a \in 1 .. n /\ b \in 1 .. n
            \/ a \in 1 .. n /\ b \in (n + 2) .. k
            \/ a \in (n + 2) .. k /\ b \in (n + 2) .. k
        BY <1>a, <1>8, <2>3
      <4> QED
        BY <4>1, <4>2, <4>3, <4>4
    <3> QED
      BY <1>1, <3>1
  <2> QED
    BY <2>1, <2>2, <2>3
<1>9. ASSUME NEW i \in 1 .. k PROVE \E a \in 1 .. k : p[a] = i
  <2>1. CASE i = k
    <3>1. n + 1 \in 1 .. k
      BY <1>1
    <3>2. p[n + 1] = k
      BY <3>1
    <3> QED
      BY <2>1, <3>1, <3>2
  <2>2. CASE i \in 1 .. (k - 1)
    <3>1. PICK a \in 1 .. (k - 1) : o[a] = i
      BY <1>1, <2>2
    <3>2. CASE a <= n
      <4>1. a \in 1 .. k /\ p[a] = o[a]
        BY <1>1, <3>2
      <4> QED
        BY <3>1, <4>1
    <3>3. CASE n < a
      <4>1. a + 1 \in 1 .. k /\ p[a + 1] = o[(a + 1) - 1] /\ (a + 1) - 1 = a
        BY <1>1, <3>3
      <4> QED
        BY <3>1, <4>1
    <3> QED
      BY <1>1, <3>2, <3>3
  <2> QED
    BY <1>1, <2>1, <2>2
<1>10. p \in Placings(from, to, k)
  <2> HIDE DEF p
  <2> QED
    BY <1>6, <1>7, <1>8, <1>9 DEF Placings
<1>11. p = Put(o, n, k)
  <2>1. 1 .. Len(o) + 1 = 1 .. k
    BY <1>1
  <2> QED
    BY <2>1 DEF Put
<1> QED
  BY <1>3, <1>4, <1>10, <1>11

\* The orders that Order goes through.
PlacedIn(from, to) ==
  LET placed[n \in 0 .. Len(from)] == IF n = 0 THEN <<>> ELSE Place(from, to, placed[n - 1], n)
  IN placed

\* They are orders of the first n indices.
LEMMA OrderRuns ==
  ASSUME NEW from \in Seq(Nat), NEW to \in Seq(Nat), Len(from) = Len(to)
  PROVE  /\ Order(from, to) = PlacedIn(from, to)[Len(from)]
         /\ PlacedIn(from, to)[0] = <<>>
         /\ \A n \in 0 .. Len(from) : PlacedIn(from, to)[n] \in Placings(from, to, n)
         /\ \A n \in 1 .. Len(from) :
              PlacedIn(from, to)[n] = Place(from, to, PlacedIn(from, to)[n - 1], n)
<1>1. Order(from, to) = PlacedIn(from, to)[Len(from)]
  BY DEF Order, PlacedIn, Place, Goes, UpTo
<1> DEFINE T == [n \in 0 .. Len(from) |-> Placings(from, to, n)]
           op == [p \in (1 .. Len(from)) \X Seq(Nat) |-> Place(from, to, p[2], p[1])]
<1>2. Len(from) \in Nat
  BY LenProperties
<1>3. <<>> \in Placings(from, to, 0)
  <2>1. <<>> \in Seq(Nat) /\ Len(<<>>) = 0 /\ 1 .. 0 = {}
    OBVIOUS
  <2> QED
    BY <2>1 DEF Placings
<1>4. ASSUME NEW n \in 1 .. Len(from), NEW o \in T[n - 1]
      PROVE  op[<<n, o>>] = Place(from, to, o, n) /\ op[<<n, o>>] \in T[n]
  <2>1. n - 1 \in 0 .. Len(from) /\ n \in 0 .. Len(from)
    BY <1>2
  <2>2. o \in Placings(from, to, n - 1)
    BY <1>4, <2>1
  <2>3. o \in Seq(Nat)
    BY <2>2 DEF Placings
  <2>4. op[<<n, o>>] = Place(from, to, o, n)
    BY <2>3
  <2>5. Place(from, to, o, n) \in Placings(from, to, n)
    BY <2>2, PlaceIs
  <2> QED
    BY <2>1, <2>4, <2>5
<1>5. Steady(Len(from), Seq(Nat), T, op)
  <2>1. T \in [0 .. Len(from) -> SUBSET Seq(Nat)]
    BY DEF Placings
  <2> HIDE DEF T, op
  <2> QED
    BY <1>4, <2>1 DEF Steady
<1>6. PICK f : RunsIn(f, Len(from), T, <<>>, op)
  <2>1. <<>> \in T[0]
    BY <1>2, <1>3
  <2> HIDE DEF T, op
  <2> QED
    BY <1>2, <1>5, <2>1, RecursesIn, Zenon
<1>7. /\ f = [n \in 0 .. Len(from) |-> f[n]] /\ f[0] = <<>>
      /\ \A n \in 0 .. Len(from) : f[n] \in T[n]
      /\ \A n \in 1 .. Len(from) : f[n] = op[<<n, f[n - 1]>>]
  BY <1>6 DEF RunsIn
<1>8. \A n \in 1 .. Len(from) : f[n] = Place(from, to, f[n - 1], n)
  <2> TAKE n \in 1 .. Len(from)
  <2>1. f[n - 1] \in T[n - 1]
    BY <1>2, <1>7
  <2> HIDE DEF T, op
  <2> QED
    BY <1>4, <1>7, <2>1
<1> DEFINE rec(placed) == placed = [n \in 0 .. Len(from) |->
                            IF n = 0 THEN <<>> ELSE Place(from, to, placed[n - 1], n)]
<1>9. rec(f)
  <2> HIDE DEF T, op
  <2>1. \A n \in 0 .. Len(from) : f[n] = IF n = 0 THEN <<>> ELSE Place(from, to, f[n - 1], n)
    <3> TAKE n \in 0 .. Len(from)
    <3>1. n = 0 \/ (n # 0 /\ n \in 1 .. Len(from))
      BY <1>2
    <3> QED
      BY <1>7, <1>8, <3>1
  <2> QED
    BY <1>7, <2>1
<1>10. PlacedIn(from, to) = CHOOSE placed : rec(placed)
  BY DEF PlacedIn
<1>11. rec(PlacedIn(from, to))
  <2> HIDE DEF rec
  <2> QED
    BY <1>9, <1>10
<1> DEFINE g == PlacedIn(from, to)
<1>12. g = [n \in 0 .. Len(from) |-> IF n = 0 THEN <<>> ELSE Place(from, to, g[n - 1], n)]
  BY <1>11
<1> HIDE DEF g, rec, op, T
<1>a. g[0] = <<>>
  BY <1>2, <1>12
<1>b. ASSUME NEW n \in 1 .. Len(from) PROVE g[n] = Place(from, to, g[n - 1], n)
  <2>1. n \in 0 .. Len(from) /\ n # 0
    BY <1>2
  <2> QED
    BY <1>12, <2>1
<1>13. g[0] = <<>> /\ \A n \in 1 .. Len(from) : g[n] = Place(from, to, g[n - 1], n)
  BY <1>a, <1>b
<1> DEFINE V == {n \in 0 .. Len(from) : g[n] \in Placings(from, to, n)}
<1>14. 0 \in V
  BY <1>2, <1>3, <1>13
<1>15. ASSUME NEW n \in 1 .. Len(from), n - 1 \in V PROVE n \in V
  <2>1. g[n - 1] \in Placings(from, to, n - 1) /\ n \in 0 .. Len(from)
    BY <1>2, <1>15
  <2>2. g[n] \in Placings(from, to, n)
    BY <1>13, <2>1, PlaceIs
  <2> QED
    BY <2>1, <2>2
<1> HIDE DEF V
<1>16. \A n \in 0 .. Len(from) : n \in V
  BY <1>2, <1>14, <1>15, Inducts
<1> QED
  BY <1>1, <1>13, <1>16 DEF g, V

\* Ranges that are in order stay as they are.
LEMMA OrderKept ==
  ASSUME NEW from \in Seq(Nat), NEW to \in Seq(Nat), Len(from) = Len(to),
         \A a, b \in 1 .. Len(from) : a < b => UpTo(from, to, a, b)
  PROVE  Order(from, to) = [i \in 1 .. Len(from) |-> i]
<1>1. Len(from) \in Nat
  BY LenProperties
<1> DEFINE g == PlacedIn(from, to)
           V == {n \in 0 .. Len(from) : g[n] = [i \in 1 .. n |-> i]}
<1>2. /\ Order(from, to) = g[Len(from)] /\ g[0] = <<>>
      /\ \A n \in 0 .. Len(from) : g[n] \in Placings(from, to, n)
      /\ \A n \in 1 .. Len(from) : g[n] = Place(from, to, g[n - 1], n)
  BY OrderRuns
<1> HIDE DEF g
<1>3. 0 \in V
  <2>1. [i \in 1 .. 0 |-> i] = <<>>
    OBVIOUS
  <2> QED
    BY <1>1, <1>2, <2>1
<1>4. ASSUME NEW k \in 1 .. Len(from), k - 1 \in V PROVE k \in V
  <2>0. k \in Nat /\ 1 <= k /\ k <= Len(from) /\ k - 1 \in 0 .. Len(from) /\ k \in 0 .. Len(from)
    BY <1>1
  <2>1. g[k - 1] = [i \in 1 .. (k - 1) |-> i] /\ g[k - 1] \in Placings(from, to, k - 1)
    BY <1>2, <1>4, <2>0
  <2>2. PICK o \in Placings(from, to, k - 1) : o = g[k - 1]
    BY <2>1
  <2>3. PICK n \in 0 .. (k - 1) :
          Goes(from, to, o, k, n) /\ Place(from, to, o, k) = Put(o, n, k)
    BY PlaceIs
  <2>4. Len(o) = k - 1
    BY DEF Placings
  <2>5. n = k - 1
    <3> SUFFICES ASSUME n # k - 1 PROVE FALSE
      OBVIOUS
    <3>1. n + 1 \in 1 .. (k - 1) /\ n + 1 \in (n + 1) .. (k - 1) /\ n + 1 \in 1 .. Len(from)
          /\ n + 1 < k /\ k \in 1 .. Len(from)
      BY <1>1, <2>0
    <3>2. ~UpTo(from, to, o[n + 1], k)
      BY <2>3, <2>4, <3>1 DEF Goes
    <3>3. o[n + 1] = n + 1
      BY <2>1, <2>2, <3>1
    <3>4. UpTo(from, to, n + 1, k)
      BY <3>1
    <3> QED
      BY <3>2, <3>3, <3>4
  <2>6. \A a \in 1 .. k : (IF a < n + 1 THEN o[a] ELSE IF a > n + 1 THEN o[a - 1] ELSE k) = a
    <3> TAKE a \in 1 .. k
    <3>1. (a < n + 1 /\ a \in 1 .. (k - 1)) \/ (~(a < n + 1) /\ ~(a > n + 1) /\ a = k)
      BY <2>0, <2>5
    <3>2. a \in 1 .. (k - 1) => o[a] = a
      BY <2>1, <2>2
    <3> QED
      BY <3>1, <3>2
  <2>7. g[k] = [i \in 1 .. k |-> i]
    <3>1. 1 .. Len(o) + 1 = 1 .. k
      BY <2>0, <2>4
    <3>2. g[k] = Put(o, n, k)
      BY <1>2, <2>2, <2>3
    <3> QED
      BY <2>6, <3>1, <3>2 DEF Put
  <2> QED
    BY <2>0, <2>7
<1> HIDE DEF V
<1>5. \A n \in 0 .. Len(from) : n \in V
  BY <1>1, <1>3, <1>4, Inducts
<1>6. Len(from) \in 0 .. Len(from)
  BY <1>1
<1> QED
  BY <1>2, <1>5, <1>6 DEF V

\* Sorted rearranges a sequence in that order.
SortedBy(seq, from, to) ==
  /\ Order(from, to) \in Placings(from, to, Len(seq))
  /\ \A k \in 1 .. Len(seq) : Sorted(seq, from, to)[k] = seq[Order(from, to)[k]]

\* It does, and the result is a sequence of the same members.
LEMMA SortedIs ==
  ASSUME NEW S, NEW seq \in Seq(S), NEW from \in Seq(Nat), NEW to \in Seq(Nat),
         Len(from) = Len(seq), Len(to) = Len(seq)
  PROVE  /\ Sorted(seq, from, to) \in Seq(S) /\ Len(Sorted(seq, from, to)) = Len(seq)
         /\ SortedBy(seq, from, to)
<1>1. Len(seq) \in Nat /\ DOMAIN seq = 1 .. Len(seq) /\ Len(seq) \in 0 .. Len(from)
  BY LenProperties
<1>2. PICK o \in Placings(from, to, Len(seq)) : o = Order(from, to)
  BY <1>1, OrderRuns
<1>3. \A k \in 1 .. Len(seq) : o[k] \in 1 .. Len(seq)
  BY DEF Placings
<1>4. Sorted(seq, from, to) = [k \in 1 .. Len(seq) |-> seq[o[k]]]
  BY <1>1, <1>2 DEF Sorted
<1>5. PICK r : r = [k \in 1 .. Len(seq) |-> seq[o[k]]]
  OBVIOUS
<1>6. \A k \in 1 .. Len(seq) : seq[o[k]] \in S
  BY <1>3, LenProperties
<1>7. r \in [1 .. Len(seq) -> S]
  BY <1>5, <1>6
<1>8. r \in Seq(S) /\ Len(r) = Len(seq)
  BY <1>1, <1>7, FunctionSeq
<1> QED
  BY <1>2, <1>4, <1>5, <1>8 DEF SortedBy

\* What was in order stays as it was.
LEMMA SortedKept ==
  ASSUME NEW S, NEW seq \in Seq(S), NEW from \in Seq(Nat), NEW to \in Seq(Nat),
         Len(from) = Len(seq), Len(to) = Len(seq),
         \A a, b \in 1 .. Len(seq) : a < b => UpTo(from, to, a, b)
  PROVE  Sorted(seq, from, to) = seq
<1>1. Len(seq) \in Nat /\ DOMAIN seq = 1 .. Len(seq) /\ seq = [k \in 1 .. Len(seq) |-> seq[k]]
  BY LenProperties
<1>2. Order(from, to) = [i \in 1 .. Len(seq) |-> i]
  BY OrderKept
<1>3. Sorted(seq, from, to) = [k \in 1 .. Len(seq) |-> seq[Order(from, to)[k]]]
  BY <1>1 DEF Sorted
<1> QED
  BY <1>1, <1>2, <1>3

\* Where the edits start and end.
Froms(edits) == [i \in DOMAIN edits |-> edits[i].from]
Tos(edits)   == [i \in DOMAIN edits |-> edits[i].to]

\* InOrder sorts edits by them.
LEMMA FromsTos ==
  ASSUME NEW edits \in Seq(Edits)
  PROVE  /\ Froms(edits) \in Seq(Nat) /\ Tos(edits) \in Seq(Nat)
         /\ Len(Froms(edits)) = Len(edits) /\ Len(Tos(edits)) = Len(edits)
         /\ \A i \in 1 .. Len(edits) : Froms(edits)[i] = edits[i].from /\ Tos(edits)[i] = edits[i].to
         /\ InOrder(edits) = Sorted(edits, Froms(edits), Tos(edits))
<1>1. Len(edits) \in Nat /\ DOMAIN edits = 1 .. Len(edits)
  BY LenProperties
<1>2. \A i \in 1 .. Len(edits) : edits[i].from \in Nat /\ edits[i].to \in Nat
  BY EditAt
<1>3. Froms(edits) \in [1 .. Len(edits) -> Nat] /\ Tos(edits) \in [1 .. Len(edits) -> Nat]
  BY <1>1, <1>2 DEF Froms, Tos
<1>4. \A i \in 1 .. Len(edits) : Froms(edits)[i] = edits[i].from /\ Tos(edits)[i] = edits[i].to
  BY <1>1 DEF Froms, Tos
<1>5. InOrder(edits) = Sorted(edits, Froms(edits), Tos(edits))
  BY DEF InOrder, Froms, Tos
<1> QED
  BY <1>1, <1>3, <1>4, <1>5, FunctionSeq

\* It keeps every edit and adds none.
LEMMA InOrderIs ==
  ASSUME NEW edits \in Seq(Edits)
  PROVE  /\ InOrder(edits) \in Seq(Edits) /\ Len(InOrder(edits)) = Len(edits)
         /\ \A k \in 1 .. Len(edits) : \E i \in 1 .. Len(edits) : InOrder(edits)[k] = edits[i]
         /\ \A i \in 1 .. Len(edits) : \E k \in 1 .. Len(edits) : InOrder(edits)[k] = edits[i]
<1> DEFINE from == Froms(edits)
           to == Tos(edits)
<1>1. /\ from \in Seq(Nat) /\ to \in Seq(Nat) /\ Len(from) = Len(edits) /\ Len(to) = Len(edits)
      /\ InOrder(edits) = Sorted(edits, from, to)
  BY FromsTos
<1> HIDE DEF from, to
<1>2. InOrder(edits) \in Seq(Edits) /\ Len(InOrder(edits)) = Len(edits)
  BY <1>1, SortedIs
<1>b. SortedBy(edits, from, to)
  BY ONLY <1>1, edits \in Seq(Edits), SortedIs
<1>a. /\ Order(from, to) \in Placings(from, to, Len(edits))
      /\ \A k \in 1 .. Len(edits) : InOrder(edits)[k] = edits[Order(from, to)[k]]
  BY ONLY <1>1, <1>b DEF SortedBy
<1>3. PICK o \in Placings(from, to, Len(edits)) :
        \A k \in 1 .. Len(edits) : InOrder(edits)[k] = edits[o[k]]
  BY ONLY <1>a
<1>4. /\ \A k \in 1 .. Len(edits) : o[k] \in 1 .. Len(edits)
      /\ \A i \in 1 .. Len(edits) : \E k \in 1 .. Len(edits) : o[k] = i
  BY DEF Placings
<1>5. \A k \in 1 .. Len(edits) : \E i \in 1 .. Len(edits) : InOrder(edits)[k] = edits[i]
  BY <1>3, <1>4
<1>6. ASSUME NEW i \in 1 .. Len(edits) PROVE \E k \in 1 .. Len(edits) : InOrder(edits)[k] = edits[i]
  <2>1. PICK k \in 1 .. Len(edits) : o[k] = i
    BY <1>4
  <2>2. InOrder(edits)[k] = edits[i]
    BY <1>3, <2>1
  <2> QED
    BY <2>2
<1> QED
  BY <1>2, <1>5, <1>6

\* Edits that are apart are apart two by two, in order.
LEMMA DisjointPairs ==
  ASSUME NEW edits \in Seq(Edits), Disjoint(edits),
         \A n \in 1 .. Len(edits) : edits[n].from <= edits[n].to
  PROVE  \A a, b \in 1 .. Len(edits) : a < b => edits[a].to <= edits[b].from
<1>1. Len(edits) \in Nat
  BY LenProperties
<1>2. \A n \in 1 .. Len(edits) : edits[n].from \in Nat /\ edits[n].to \in Nat
  BY EditAt
<1> SUFFICES ASSUME NEW a \in 1 .. Len(edits) PROVE \A b \in 1 .. Len(edits) : a < b => edits[a].to <= edits[b].from
  OBVIOUS
<1> DEFINE V == {b \in 0 .. Len(edits) : b > a => edits[a].to <= edits[b].from}
<1>3. 0 \in V
  BY <1>1
<1>4. ASSUME NEW b \in 1 .. Len(edits), b - 1 \in V PROVE b \in V
  <2>1. b \in 0 .. Len(edits)
    BY <1>1
  <2>2. CASE b > a
    <3>1. b - 1 \in 1 .. (Len(edits) - 1) /\ b - 1 \in 1 .. Len(edits) /\ (b - 1) + 1 = b
          /\ (b - 1 = a \/ b - 1 > a)
      BY <1>1, <2>2
    <3>2. edits[b - 1].to <= edits[(b - 1) + 1].from
      BY <3>1 DEF Disjoint
    <3>3. edits[b - 1].to <= edits[b].from
      BY <3>1, <3>2
    <3>4. edits[a].to <= edits[b - 1].to
      <4>1. CASE b - 1 = a
        BY <1>2, <4>1
      <4>2. CASE b - 1 > a
        <5>1. edits[a].to <= edits[b - 1].from
          BY <1>4, <4>2
        <5>2. edits[b - 1].from <= edits[b - 1].to
          BY <3>1
        <5>3. edits[b - 1].from \in Nat /\ edits[b - 1].to \in Nat /\ edits[a].to \in Nat
          BY <1>2, <3>1
        <5> QED
          BY <5>1, <5>2, <5>3
      <4> QED
        BY <3>1, <4>1, <4>2
    <3>5. edits[b - 1].to \in Nat /\ edits[a].to \in Nat /\ edits[b].from \in Nat
      BY <1>2, <3>1
    <3>6. edits[a].to <= edits[b].from
      BY <3>3, <3>4, <3>5
    <3> QED
      BY <2>1, <3>6
  <2> QED
    BY <2>1, <2>2
<1> HIDE DEF V
<1>5. \A b \in 0 .. Len(edits) : b \in V
  BY <1>1, <1>3, <1>4, Inducts
<1> QED
  BY <1>1, <1>5 DEF V

\* Edits that are in order and apart stay as they are.
LEMMA InOrderKept ==
  ASSUME NEW edits \in Seq(Edits), Disjoint(edits),
         \A n \in 1 .. Len(edits) : edits[n].from <= edits[n].to
  PROVE  InOrder(edits) = edits
<1>1. \A a, b \in 1 .. Len(edits) : a < b => edits[a].to <= edits[b].from
  BY DisjointPairs
<1>2. \A n \in 1 .. Len(edits) : edits[n].from \in Nat /\ edits[n].to \in Nat
  BY EditAt
<1> DEFINE from == Froms(edits)
           to == Tos(edits)
<1>3. /\ from \in Seq(Nat) /\ to \in Seq(Nat) /\ Len(from) = Len(edits) /\ Len(to) = Len(edits)
      /\ InOrder(edits) = Sorted(edits, from, to)
      /\ \A i \in 1 .. Len(edits) : from[i] = edits[i].from /\ to[i] = edits[i].to
  BY FromsTos
<1> HIDE DEF from, to
<1>4. ASSUME NEW a \in 1 .. Len(edits), NEW b \in 1 .. Len(edits), a < b
      PROVE  UpTo(from, to, a, b)
  <2>1. edits[a].from <= edits[a].to /\ edits[a].to <= edits[b].from /\ edits[b].from <= edits[b].to
    BY <1>1, <1>4
  <2>2. /\ edits[a].from \in Nat /\ edits[a].to \in Nat /\ edits[b].from \in Nat /\ edits[b].to \in Nat
    BY <1>2
  <2>3. edits[a].from < edits[b].from \/ (edits[a].from = edits[b].from /\ edits[a].to <= edits[b].to)
    BY <2>1, <2>2
  <2> QED
    BY <1>3, <2>3 DEF UpTo
<1>5. Sorted(edits, from, to) = edits
  BY <1>3, <1>4, SortedKept
<1> QED
  BY <1>3, <1>5

-----------------------------------------------------------------------------
(* The inverse of some edits.                                              *)

\* A start of a text that is the start of a longer one.
LEMMA Keeps ==
  ASSUME NEW s \in Strings, NEW t \in Strings, NEW b \in Nat, b <= Len(s)
  PROVE  Cut(s \o t, 0, b) = Cut(s, 0, b)
<1>1. 0 \in Nat /\ 0 <= b
  OBVIOUS
<1> QED
  BY <1>1, CutFirst DEF Strings

\* CutJoin, CutEnds and associativity for texts.
LEMMA Meet ==
  ASSUME NEW t \in Strings, NEW a \in Nat, NEW b \in Nat, NEW c \in Nat, a <= b, b <= c, c <= Len(t)
  PROVE  Cut(t, a, b) \o Cut(t, b, c) = Cut(t, a, c)
BY CutJoin DEF Strings

LEMMA Whole ==
  ASSUME NEW t \in Strings
  PROVE  Cut(t, 0, Len(t)) = t /\ \A a \in Nat : Cut(t, a, a) = <<>>
BY CutEnds DEF Strings

LEMMA Assoc ==
  ASSUME NEW s \in Strings, NEW t \in Strings, NEW u \in Strings
  PROVE  (s \o t) \o u = s \o (t \o u)
BY ConcatAssociative DEF Strings

\* The start of something longer.
LEMMA Starts ==
  ASSUME NEW h \in Strings, NEW x \in Strings, NEW y \in Strings, NEW m \in Nat, m <= Len(h)
  PROVE  m <= Len((h \o x) \o y) /\ Cut((h \o x) \o y, 0, m) = Cut(h, 0, m)
<1>1. PICK z \in Strings : z = h \o x /\ Len(z) = Len(h) + Len(x)
  BY Joins
<1>2. Len(h) \in Nat /\ Len(x) \in Nat /\ Len(y) \in Nat
  BY Lengths
<1>3. m <= Len(z)
  BY <1>1, <1>2
<1>4. Cut(z \o y, 0, m) = Cut(z, 0, m) /\ Len(z \o y) = Len(z) + Len(y)
  BY <1>3, Keeps, Joins
<1>5. Cut(h \o x, 0, m) = Cut(h, 0, m)
  BY Keeps
<1> QED
  BY <1>1, <1>2, <1>3, <1>4, <1>5

\* What edits make is as long as they say.
LEMMA AppliedIs ==
  ASSUME NEW t, NEW edits, Fit(edits, t)
  PROVE  Applied(t, edits) \in Strings /\ Len(Applied(t, edits)) = Len(t) + Growth(edits)
<1>1. /\ edits \in Seq(Edits) /\ Len(edits) \in Nat /\ Len(t) \in Nat /\ Len(edits) \in 0 .. Len(edits)
      /\ End(edits, Len(edits)) \in Nat
  BY Marks DEF Fit
<1>2. PICK w : w = Applied(t, edits) /\ Parted(w, t, edits, Len(edits))
  BY <1>1, AfterIs
<1>3. w \in Strings /\ Len(w) = Mark(edits, Len(edits)) + (Len(t) - End(edits, Len(edits)))
  BY <1>1, <1>2, PartedHead
<1>4. Shifts(edits)[Len(edits)] \in Int
  BY <1>1, ShiftsDef
<1>5. Mark(edits, Len(edits)) = End(edits, Len(edits)) + Shifts(edits)[Len(edits)]
  BY DEF Mark
<1>6. Len(w) = Len(t) + Shifts(edits)[Len(edits)]
  BY <1>1, <1>3, <1>4, <1>5
<1> QED
  BY <1>2, <1>3, <1>6 DEF Growth

\* What is before the end of an edit stays when later ones are made.
LEMMA Heads ==
  ASSUME NEW t, NEW edits, Fit(edits, t), NEW j \in 0 .. Len(edits)
  PROVE  \A k \in j .. Len(edits) :
           /\ Mark(edits, j) <= Mark(edits, k)
           /\ Cut(After(t, edits)[k], 0, Mark(edits, j)) = Cut(After(t, edits)[j], 0, Mark(edits, j))
<1> DEFINE A == After(t, edits)
           V == {k \in 0 .. Len(edits) : k < j \/ (/\ Mark(edits, j) <= Mark(edits, k)
                                                   /\ Cut(A[k], 0, Mark(edits, j)) = Cut(A[j], 0, Mark(edits, j)))}
<1>1. Len(edits) \in Nat /\ t \in Strings /\ edits \in Seq(Edits)
  BY Marks DEF Fit
<1>2. \A k \in 0 .. Len(edits) : Mark(edits, k) \in Nat
  BY Marks
<1>3. /\ \A n \in 0 .. Len(edits) : Parted(A[n], t, edits, n)
      /\ \A n \in 1 .. Len(edits) : A[n] = Replaced(A[n - 1], edits[n], Shifts(edits)[n - 1])
  BY AfterIs
<1>4. ASSUME NEW n \in 0 .. Len(edits)
      PROVE  /\ A[n] \in Strings /\ Done(A[n], edits, n) \in Strings
             /\ Len(Done(A[n], edits, n)) = Mark(edits, n)
             /\ \E r \in Strings : A[n] = Done(A[n], edits, n) \o r
  <2> HIDE DEF A
  <2>1. Parted(A[n], t, edits, n)
    BY <1>3
  <2>2. /\ A[n] \in Strings /\ Done(A[n], edits, n) \in Strings
        /\ Len(Done(A[n], edits, n)) = Mark(edits, n)
        /\ Cut(t, End(edits, n), Len(t)) \in Strings
        /\ Split(A[n], t, edits, n)
    BY <2>1, PartedHead
  <2> QED
    BY ONLY <2>2 DEF Split
<1>5. j \in V
  BY <1>1, <1>2
<1>6. 0 \in V
  BY <1>1, <1>5
<1>7. ASSUME NEW k \in 1 .. Len(edits), k - 1 \in V PROVE k \in V
  <2>1. k \in 0 .. Len(edits) /\ k - 1 \in 0 .. Len(edits) /\ (k < j \/ k = j \/ ~(k - 1 < j))
    BY <1>1
  <2>2. CASE ~(k - 1 < j)
    <3>1. /\ Mark(edits, j) <= Mark(edits, k - 1)
          /\ Cut(A[k - 1], 0, Mark(edits, j)) = Cut(A[j], 0, Mark(edits, j))
      BY <1>7, <2>2
    <3> HIDE DEF A
    <3>2. PICK was \in Strings, now \in Strings, h \in Strings, g \in Strings :
            /\ was = A[k - 1] /\ now = A[k]
            /\ h = Done(A[k - 1], edits, k - 1) /\ g = Done(A[k], edits, k)
            /\ Len(h) = Mark(edits, k - 1) /\ Len(g) = Mark(edits, k)
      BY <1>4, <2>1
    <3>3. PICK r \in Strings : was = h \o r
      BY <1>4, <2>1, <3>2
    <3>4. PICK q \in Strings : now = g \o q
      BY <1>4, <2>1, <3>2
    <3>5. g = (h \o Cut(t, End(edits, k - 1), edits[k].from)) \o edits[k].insert
      <4>1. Parted(A[k - 1], t, edits, k - 1)
        BY <1>3, <2>1
      <4> QED
        BY <1>3, <3>2, <4>1, PartedStep, ZenonT(60)
    <3>6. PICK x \in Strings, y \in Strings : x = Cut(t, End(edits, k - 1), edits[k].from) /\ y = edits[k].insert
      <4>1. /\ End(edits, k - 1) \in Nat /\ edits[k].from \in Nat /\ edits[k].insert \in Strings
            /\ edits[k].to \in Nat /\ Len(t) \in Nat
            /\ End(edits, k - 1) <= edits[k].from /\ edits[k].from <= edits[k].to
            /\ End(edits, k) = edits[k].to /\ End(edits, k) <= Len(t)
        BY <1>1, <2>1, Marks, EditAt
      <4>2. edits[k].from <= Len(t)
        BY <4>1
      <4>3. Cut(t, End(edits, k - 1), edits[k].from) \in Strings
        BY ONLY <1>1, <4>1, <4>2, Piece
      <4> QED
        BY <4>1, <4>3
    <3>7. g = (h \o x) \o y
      BY ONLY <3>5, <3>6
    <3>9. PICK m \in Nat : m = Mark(edits, j) /\ m <= Len(h)
      BY <1>2, <3>1, <3>2
    <3>10. m <= Len((h \o x) \o y) /\ Cut((h \o x) \o y, 0, m) = Cut(h, 0, m)
      BY ONLY <3>9, h \in Strings, x \in Strings, y \in Strings, m \in Nat, Starts
    <3>11. m <= Len(g) /\ Cut(g, 0, m) = Cut(h, 0, m)
      BY ONLY <3>7, <3>10
    <3>12. Cut(now, 0, m) = Cut(g, 0, m)
      BY <3>4, <3>11, Keeps
    <3>14. Cut(was, 0, m) = Cut(h, 0, m)
      BY <3>3, <3>9, Keeps
    <3> USE DEF A
    <3>15. Cut(A[k], 0, Mark(edits, j)) = Cut(A[j], 0, Mark(edits, j))
      BY <3>1, <3>2, <3>9, <3>11, <3>12, <3>14
    <3>16. Mark(edits, j) <= Mark(edits, k)
      BY <3>2, <3>9, <3>11
    <3> QED
      BY <2>1, <3>15, <3>16
  <2>3. CASE k < j
    BY <2>1, <2>3
  <2>4. CASE k = j
    BY <1>5, <2>4
  <2> QED
    BY <2>1, <2>2, <2>3, <2>4
<1> HIDE DEF V
<1>8. \A k \in 0 .. Len(edits) : k \in V
  BY <1>1, <1>6, <1>7, Inducts
<1>9. \A k \in j .. Len(edits) : k \in 0 .. Len(edits) /\ ~(k < j)
  BY <1>1
<1> QED
  BY <1>8, <1>9 DEF V

\* The text in the middle.
LEMMA Middle ==
  ASSUME NEW h \in Strings, NEW x \in Strings, NEW y \in Strings
  PROVE  /\ Cut((h \o x) \o y, Len(h), Len(h) + Len(x)) = x
         /\ (h \o x) \o y \in Strings /\ Len((h \o x) \o y) = Len(h) + Len(x) + Len(y)
<1>1. PICK z \in Strings : z = h \o x /\ Len(z) = Len(h) + Len(x)
  BY Joins
<1>2. Len(h) \in Nat /\ Len(x) \in Nat /\ Len(y) \in Nat
  BY Lengths
<1>3. PICK a \in Nat, b \in Nat : a = Len(h) /\ b = Len(h) + Len(x)
  BY <1>2
<1>4. a <= b /\ b <= Len(z)
  BY <1>1, <1>2, <1>3
<1>5. Cut(z \o y, a, b) = Cut(z, a, b)
  BY <1>4, CutFirst DEF Strings
<1>6. Cut(h \o x, Len(h) + 0, Len(h) + Len(x)) = Cut(x, 0, Len(x))
  <2>1. 0 \in Nat /\ 0 <= Len(x) /\ Len(x) <= Len(x)
    BY <1>2
  <2> QED
    BY ONLY <1>2, <2>1, h \in Strings, x \in Strings, CutSecond DEF Strings
<1>7. Cut(x, 0, Len(x)) = x
  BY Whole
<1>8. Len(h) + 0 = a
  BY <1>2, <1>3
<1>9. z \o y \in Strings /\ Len(z \o y) = Len(z) + Len(y)
  BY Joins
<1> QED
  BY <1>1, <1>3, <1>5, <1>6, <1>7, <1>8, <1>9

\* What is between two edits stays, where the first moved it.
LEMMA Between ==
  ASSUME NEW t, NEW edits, Fit(edits, t), NEW k \in 1 .. Len(edits)
  PROVE  Cut(Applied(t, edits), Mark(edits, k - 1), edits[k].from + Shifts(edits)[k - 1])
         = Cut(t, End(edits, k - 1), edits[k].from)
<1> DEFINE A == After(t, edits)
           N == Len(edits)
<1>1. /\ N \in Nat /\ t \in Strings /\ Len(t) \in Nat /\ edits \in Seq(Edits) /\ edits[k].insert \in Strings
      /\ k - 1 \in 0 .. N /\ k \in 0 .. N /\ N \in k .. N /\ N \in 0 .. N
  BY Marks, EditAt DEF Fit
<1>2. /\ End(edits, k - 1) \in Nat /\ edits[k].from \in Nat /\ End(edits, k - 1) <= edits[k].from
      /\ edits[k].to \in Nat /\ edits[k].from <= edits[k].to /\ edits[k].to <= Len(t)
      /\ Mark(edits, k - 1) \in Nat /\ Mark(edits, k) \in Nat
      /\ edits[k].from + Shifts(edits)[k - 1] = Mark(edits, k - 1) + (edits[k].from - End(edits, k - 1))
  BY <1>1, Marks, EditAt DEF Fit
<1>3. PICK F : F = Applied(t, edits) /\ F = A[N] /\ Parted(F, t, edits, N) /\ F \in Strings
  BY <1>1, AfterIs, AppliedIs
<1>4. PICK x \in Strings : x = Cut(t, End(edits, k - 1), edits[k].from)
                           /\ Len(x) = edits[k].from - End(edits, k - 1)
  <2>1. edits[k].from <= Len(t)
    BY <1>1, <1>2
  <2>2. /\ Cut(t, End(edits, k - 1), edits[k].from) \in Strings
        /\ Len(Cut(t, End(edits, k - 1), edits[k].from)) = edits[k].from - End(edits, k - 1)
    BY ONLY <1>1, <1>2, <2>1, Piece
  <2> QED
    BY ONLY <2>2
<1>5. PICK h \in Strings : h = Done(A[k - 1], edits, k - 1) /\ Len(h) = Mark(edits, k - 1)
  <2>1. Parted(A[k - 1], t, edits, k - 1)
    BY <1>1, AfterIs
  <2> QED
    BY <1>1, <2>1, PartedHead
<1>6. Done(A[k], edits, k) = (h \o x) \o edits[k].insert /\ Len(Done(A[k], edits, k)) = Mark(edits, k)
  <2>1. Parted(A[k - 1], t, edits, k - 1) /\ Parted(A[k], t, edits, k)
    BY <1>1, AfterIs
  <2>2. A[k] = Replaced(A[k - 1], edits[k], Shifts(edits)[k - 1])
    BY AfterIs
  <2> HIDE DEF A
  <2>3. Len(Done(A[k], edits, k)) = Mark(edits, k)
    BY <1>1, <2>1, PartedHead
  <2>4. Done(A[k], edits, k)
        = (Done(A[k - 1], edits, k - 1) \o Cut(t, End(edits, k - 1), edits[k].from)) \o edits[k].insert
    BY <2>1, <2>2, PartedStep
  <2> QED
    BY <1>4, <1>5, <2>3, <2>4
<1>7. Cut(F, 0, Mark(edits, k)) = Done(A[k], edits, k) /\ Mark(edits, k) <= Len(F)
  <2>1. /\ Mark(edits, k) <= Mark(edits, N)
        /\ Cut(A[N], 0, Mark(edits, k)) = Cut(A[k], 0, Mark(edits, k))
    BY <1>1, Heads
  <2>2. Len(F) = Mark(edits, N) + (Len(t) - End(edits, N)) /\ End(edits, N) <= Len(t)
        /\ End(edits, N) \in Nat /\ Mark(edits, N) \in Nat
    BY <1>1, <1>3, PartedHead, Marks
  <2>3. Mark(edits, k) <= Len(F)
    BY <1>1, <1>2, <2>1, <2>2
  <2> QED
    BY <1>3, <2>1, <2>3 DEF Done
<1>8. PICK y \in Strings : y = edits[k].insert
  BY <1>1
<1>9. /\ Cut((h \o x) \o y, Len(h), Len(h) + Len(x)) = x
      /\ Len((h \o x) \o y) = Len(h) + Len(x) + Len(y)
  BY ONLY h \in Strings, x \in Strings, y \in Strings, Middle
<1>10. PICK c \in Nat, d \in Nat, m \in Nat : c = Len(h) /\ d = Len(h) + Len(x) /\ m = Mark(edits, k)
  BY <1>2, Lengths
<1>11. c <= d /\ d <= m
  <2>1. Len(h) \in Nat /\ Len(x) \in Nat /\ Len(y) \in Nat
    BY Lengths
  <2>2. m = Len(h) + Len(x) + Len(y)
    BY <1>6, <1>8, <1>9, <1>10
  <2> QED
    BY <1>10, <2>1, <2>2
<1>12. Cut(Cut(F, 0, m), c, d) = Cut(F, c, d)
  <2>1. 0 \in Nat /\ 0 <= m /\ m <= Len(F) /\ c <= d /\ d <= m - 0 /\ 0 + c = c /\ 0 + d = d
    BY <1>7, <1>10, <1>11
  <2>2. Cut(Cut(F, 0, m), c, d) = Cut(F, 0 + c, 0 + d)
    BY ONLY <1>3, <2>1, c \in Nat, d \in Nat, m \in Nat, CutCut DEF Strings
  <2> QED
    BY ONLY <2>1, <2>2
<1>13. c = Mark(edits, k - 1) /\ d = edits[k].from + Shifts(edits)[k - 1]
  BY <1>2, <1>4, <1>5, <1>10
<1>14. Cut(F, c, d) = x
  BY ONLY <1>6, <1>7, <1>8, <1>9, <1>10, <1>12
<1> QED
  BY <1>3, <1>4, <1>13, <1>14

\* What undoes each edit, where the ones before it moved it.
Undoing(t, edits) ==
  [i \in DOMAIN edits |->
     Edit(edits[i].from + Shifts(edits)[i - 1],
          edits[i].from + Shifts(edits)[i - 1] + Len(edits[i].insert),
          Cut(t, edits[i].from, edits[i].to))]

\* Each undoing edit replaces what was inserted by what was displaced.
LEMMA UndoingIs ==
  ASSUME NEW t, NEW edits, Fit(edits, t)
  PROVE  /\ Undoing(t, edits) \in Seq(Edits) /\ Len(Undoing(t, edits)) = Len(edits)
         /\ \A i \in 1 .. Len(edits) :
              /\ Undoing(t, edits)[i].from = edits[i].from + Shifts(edits)[i - 1]
              /\ Undoing(t, edits)[i].to = Mark(edits, i)
              /\ Undoing(t, edits)[i].insert = Cut(t, edits[i].from, edits[i].to)
              /\ Undoing(t, edits)[i].from <= Undoing(t, edits)[i].to
              /\ Mark(edits, i - 1) <= Undoing(t, edits)[i].from
              /\ Len(Undoing(t, edits)[i].insert) = edits[i].to - edits[i].from
<1>1. /\ edits \in Seq(Edits) /\ Len(edits) \in Nat /\ DOMAIN edits = 1 .. Len(edits)
      /\ t \in Strings /\ Len(t) \in Nat
  BY Marks, LenProperties DEF Fit
<1>2. PICK u : u = Undoing(t, edits)
  OBVIOUS
<1>3. /\ DOMAIN u = 1 .. Len(edits) /\ u = [i \in 1 .. Len(edits) |-> u[i]]
      /\ \A i \in 1 .. Len(edits) :
           u[i] = Edit(edits[i].from + Shifts(edits)[i - 1],
                       edits[i].from + Shifts(edits)[i - 1] + Len(edits[i].insert),
                       Cut(t, edits[i].from, edits[i].to))
  BY <1>1, <1>2 DEF Undoing
<1>4. ASSUME NEW i \in 1 .. Len(edits)
      PROVE  /\ u[i] \in Edits
             /\ u[i].from = edits[i].from + Shifts(edits)[i - 1]
             /\ u[i].to = Mark(edits, i)
             /\ u[i].insert = Cut(t, edits[i].from, edits[i].to)
             /\ u[i].from <= u[i].to /\ Mark(edits, i - 1) <= u[i].from
             /\ Len(u[i].insert) = edits[i].to - edits[i].from
  <2>1. i \in 0 .. Len(edits) /\ i - 1 \in 0 .. Len(edits)
    BY <1>1
  <2>2. /\ edits[i].from \in Nat /\ edits[i].to \in Nat /\ Len(edits[i].insert) \in Nat
        /\ edits[i].from <= edits[i].to /\ edits[i].to <= Len(t)
        /\ End(edits, i - 1) \in Nat /\ End(edits, i - 1) <= edits[i].from
        /\ Mark(edits, i - 1) \in Nat /\ Mark(edits, i) \in Nat
        /\ edits[i].from + Shifts(edits)[i - 1] = Mark(edits, i - 1) + (edits[i].from - End(edits, i - 1))
        /\ Mark(edits, i) = edits[i].from + Shifts(edits)[i - 1] + Len(edits[i].insert)
    BY <1>1, <2>1, Marks, EditAt DEF Fit
  <2>3. /\ Cut(t, edits[i].from, edits[i].to) \in Strings
        /\ Len(Cut(t, edits[i].from, edits[i].to)) = edits[i].to - edits[i].from
    BY ONLY <1>1, <2>2, Piece
  <2>4. /\ u[i].from = edits[i].from + Shifts(edits)[i - 1]
        /\ u[i].to = edits[i].from + Shifts(edits)[i - 1] + Len(edits[i].insert)
        /\ u[i].insert = Cut(t, edits[i].from, edits[i].to)
    BY <1>3 DEF Edit
  <2>5. edits[i].from + Shifts(edits)[i - 1] \in Nat
    BY <2>2
  <2>6. u[i] \in Edits
    BY <1>3, <2>2, <2>3, <2>5 DEF Edit, Edits
  <2>7. u[i].from <= u[i].to /\ Mark(edits, i - 1) <= u[i].from
    <3>1. PICK from \in Nat, end \in Nat, mark \in Nat, len \in Nat, at \in Nat :
            /\ from = edits[i].from /\ end = End(edits, i - 1) /\ mark = Mark(edits, i - 1)
            /\ len = Len(edits[i].insert) /\ at = edits[i].from + Shifts(edits)[i - 1]
      BY <2>2, <2>5
    <3>2. end <= from /\ at = mark + (from - end)
      BY <2>2, <2>5, <3>1
    <3>3. at <= at + len /\ mark <= at
      BY ONLY <3>1, <3>2
    <3>4. u[i].from = at /\ u[i].to = at + len
      BY <2>4, <3>1
    <3> QED
      BY <3>1, <3>3, <3>4
  <2> QED
    BY <2>2, <2>3, <2>4, <2>6, <2>7
<1>5. u \in [1 .. Len(edits) -> Edits]
  BY <1>3, <1>4
<1>6. u \in Seq(Edits) /\ Len(u) = Len(edits)
  BY <1>1, <1>5, FunctionSeq
<1> QED
  BY <1>2, <1>4, <1>6

\* They are in order and apart, so that is InverseOf, and they fit what the edits made.
LEMMA InverseIs ==
  ASSUME NEW t, NEW edits, Fit(edits, t)
  PROVE  /\ InverseOf(t, edits) = Undoing(t, edits)
         /\ Fit(Undoing(t, edits), Applied(t, edits))
<1>1. /\ edits \in Seq(Edits) /\ Len(edits) \in Nat /\ DOMAIN edits = 1 .. Len(edits)
      /\ t \in Strings /\ Len(t) \in Nat
  BY Marks, LenProperties DEF Fit
<1>2. PICK u : u = Undoing(t, edits)
  OBVIOUS
<1>3. /\ u \in Seq(Edits) /\ Len(u) = Len(edits)
      /\ \A i \in 1 .. Len(edits) : /\ u[i].to = Mark(edits, i) /\ u[i].from <= u[i].to
                                    /\ Mark(edits, i - 1) <= u[i].from
  BY <1>2, UndoingIs
<1>4. Disjoint(u)
  <2> SUFFICES ASSUME NEW i \in 1 .. (Len(u) - 1) PROVE u[i].to <= u[i + 1].from
    BY DEF Disjoint
  <2>1. i \in 1 .. Len(edits) /\ i + 1 \in 1 .. Len(edits) /\ (i + 1) - 1 = i
    BY <1>1, <1>3
  <2> QED
    BY <1>3, <2>1
<1>5. InOrder(u) = u
  BY <1>3, <1>4, InOrderKept
<1>6. InverseOf(t, edits) = IF Disjoint(InOrder(u)) THEN InOrder(u) ELSE <<>>
  BY <1>2 DEF InverseOf, Undoing
<1>7. \A i \in 1 .. Len(edits) : u[i].to <= Len(Applied(t, edits))
  <2> TAKE i \in 1 .. Len(edits)
  <2>1. i \in 0 .. Len(edits) /\ Len(edits) \in i .. Len(edits) /\ Len(edits) \in 0 .. Len(edits)
    BY <1>1
  <2>2. Mark(edits, i) <= Mark(edits, Len(edits))
    BY <2>1, Heads
  <2>3. Len(Applied(t, edits)) = Mark(edits, Len(edits)) + (Len(t) - End(edits, Len(edits)))
    <3>1. Parted(Applied(t, edits), t, edits, Len(edits))
      BY <2>1, AfterIs
    <3> QED
      BY <2>1, <3>1, PartedHead
  <2>4. /\ End(edits, Len(edits)) <= Len(t) /\ End(edits, Len(edits)) \in Nat
        /\ Mark(edits, Len(edits)) \in Nat /\ Mark(edits, i) \in Nat
    BY <2>1, Marks
  <2> QED
    BY <1>1, <1>3, <2>2, <2>3, <2>4
<1>8. Fit(u, Applied(t, edits))
  BY <1>3, <1>4, <1>7, AppliedIs DEF Fit
<1> QED
  BY <1>2, <1>4, <1>5, <1>6, <1>8

\* The marks of the inverse are those of the edits, the other way round.
LEMMA InverseMarks ==
  ASSUME NEW t, NEW edits, Fit(edits, t), NEW n \in 0 .. Len(edits)
  PROVE  /\ End(Undoing(t, edits), n) = Mark(edits, n)
         /\ Mark(Undoing(t, edits), n) = End(edits, n)
<1>0. PICK u : u = Undoing(t, edits)
  OBVIOUS
<1>1. /\ Len(edits) \in Nat /\ Fit(u, Applied(t, edits)) /\ Len(u) = Len(edits)
      /\ Mark(edits, 0) = 0 /\ End(edits, 0) = 0
  BY <1>0, Marks, UndoingIs, InverseIs
<1>2. \A i \in 0 .. Len(edits) : End(u, i) = Mark(edits, i)
  <2> TAKE i \in 0 .. Len(edits)
  <2>1. i = 0 \/ i \in 1 .. Len(edits)
    BY <1>1
  <2>2. CASE i = 0
    BY <1>1, <2>2 DEF End
  <2>3. CASE i # 0
    <3>1. u[i].to = Mark(edits, i)
      BY <1>0, <2>1, <2>3, UndoingIs
    <3> QED
      BY <2>3, <3>1 DEF End
  <2> QED
    BY <2>2, <2>3
<1> DEFINE V == {i \in 0 .. Len(edits) : Mark(u, i) = End(edits, i)}
<1>3. 0 \in V
  <2>1. Mark(u, 0) = 0
    BY <1>1, Marks
  <2> QED
    BY <1>1, <2>1
<1>4. ASSUME NEW i \in 1 .. Len(edits), i - 1 \in V PROVE i \in V
  <2>1. i \in 0 .. Len(edits) /\ i - 1 \in 0 .. Len(edits) /\ i \in 1 .. Len(u)
    BY <1>1
  <2>2. Mark(u, i) = u[i].from + Shifts(u)[i - 1] + Len(u[i].insert)
    BY <1>1, <2>1, Marks
  <2>3. u[i].from + Shifts(u)[i - 1] = Mark(u, i - 1) + (u[i].from - End(u, i - 1))
    BY <1>1, <2>1, Marks
  <2>4. u[i].from = edits[i].from + Shifts(edits)[i - 1] /\ Len(u[i].insert) = edits[i].to - edits[i].from
    BY <1>0, UndoingIs
  <2>5. edits[i].from + Shifts(edits)[i - 1] = Mark(edits, i - 1) + (edits[i].from - End(edits, i - 1))
        /\ End(edits, i) = edits[i].to
    BY Marks
  <2>6. Mark(u, i - 1) = End(edits, i - 1) /\ End(u, i - 1) = Mark(edits, i - 1)
    BY <1>2, <1>4, <2>1
  <2>7. /\ Mark(edits, i - 1) \in Nat /\ End(edits, i - 1) \in Nat /\ edits[i].from \in Nat
        /\ edits[i].to \in Nat
    BY <2>1, Marks, EditAt DEF Fit
  <2>8. Mark(u, i) = End(edits, i - 1) + ((Mark(edits, i - 1) + (edits[i].from - End(edits, i - 1)))
                      - Mark(edits, i - 1)) + (edits[i].to - edits[i].from)
    BY <2>2, <2>3, <2>4, <2>5, <2>6
  <2>9. Mark(u, i) = edits[i].to
    BY <2>7, <2>8
  <2> QED
    BY <2>1, <2>5, <2>9
<1> HIDE DEF V
<1>5. \A i \in 0 .. Len(edits) : i \in V
  BY <1>1, <1>3, <1>4, Inducts
<1> QED
  BY <1>0, <1>2, <1>5 DEF V

\* Undoing what was done gives back the text.
LEMMA Undone ==
  ASSUME NEW t, NEW edits, Fit(edits, t)
  PROVE  Applied(Applied(t, edits), Undoing(t, edits)) = t
<1>0. PICK u, F : u = Undoing(t, edits) /\ F = Applied(t, edits)
  OBVIOUS
<1> DEFINE N == Len(edits)
           G == After(F, u)
<1>1. /\ N \in Nat /\ t \in Strings /\ Len(t) \in Nat /\ edits \in Seq(Edits)
      /\ Fit(u, F) /\ Len(u) = N /\ F \in Strings /\ N \in 0 .. N
  BY <1>0, Marks, UndoingIs, InverseIs, AppliedIs DEF Fit
<1>2. \A n \in 0 .. N : End(u, n) = Mark(edits, n) /\ Mark(u, n) = End(edits, n)
  BY <1>0, InverseMarks
<1>3. \A n \in 0 .. N : End(edits, n) \in Nat /\ End(edits, n) <= Len(t) /\ Mark(edits, n) \in Nat
  BY Marks
<1>4. /\ Applied(F, u) = G[N] /\ G[0] = F
      /\ \A n \in 0 .. N : Parted(G[n], F, u, n)
      /\ \A n \in 1 .. N : G[n] = Replaced(G[n - 1], u[n], Shifts(u)[n - 1])
  BY <1>1, AfterIs
<1> HIDE DEF G
<1> DEFINE V == {n \in 0 .. N : Done(G[n], u, n) = Cut(t, 0, End(edits, n))}
<1>5. 0 \in V
  <2>1. 0 \in 0 .. N /\ End(edits, 0) = 0 /\ Mark(u, 0) = 0 /\ 0 \in Nat
    BY <1>1, Marks
  <2>2. Cut(F, 0, 0) = <<>> /\ Cut(t, 0, 0) = <<>>
    BY <1>1, <2>1, Whole
  <2> QED
    BY <1>4, <2>1, <2>2 DEF Done
<1>6. ASSUME NEW n \in 1 .. N, n - 1 \in V PROVE n \in V
  <2>1. n \in 0 .. N /\ n - 1 \in 0 .. N /\ n \in 1 .. Len(u)
    BY <1>1
  <2>2. Done(G[n], u, n) = (Done(G[n - 1], u, n - 1) \o Cut(F, End(u, n - 1), u[n].from)) \o u[n].insert
    <3>1. Parted(G[n - 1], F, u, n - 1) /\ G[n] = Replaced(G[n - 1], u[n], Shifts(u)[n - 1])
      BY <1>4, <2>1
    <3> QED
      BY <1>1, <2>1, <3>1, PartedStep
  <2>3. Done(G[n - 1], u, n - 1) = Cut(t, 0, End(edits, n - 1))
    BY <1>6
  <2>4. u[n].from = edits[n].from + Shifts(edits)[n - 1] /\ u[n].insert = Cut(t, edits[n].from, edits[n].to)
    BY <1>0, UndoingIs
  <2>5. Cut(F, End(u, n - 1), u[n].from) = Cut(t, End(edits, n - 1), edits[n].from)
    BY <1>0, <1>2, <2>1, <2>4, Between
  <2>6. /\ End(edits, n - 1) \in Nat /\ edits[n].from \in Nat /\ edits[n].to \in Nat
        /\ End(edits, n - 1) <= edits[n].from /\ edits[n].from <= edits[n].to
        /\ edits[n].to <= Len(t) /\ End(edits, n) = edits[n].to
    BY <1>1, <2>1, Marks, EditAt, ZenonT(60) DEF Fit
  <2>7. edits[n].from <= Len(t) /\ 0 <= End(edits, n - 1) /\ 0 <= edits[n].from /\ 0 \in Nat
    BY <1>1, <2>6
  <2>8. Cut(t, 0, End(edits, n - 1)) \o Cut(t, End(edits, n - 1), edits[n].from) = Cut(t, 0, edits[n].from)
    BY ONLY <1>1, <2>6, <2>7, Meet
  <2>9. Cut(t, 0, edits[n].from) \o Cut(t, edits[n].from, edits[n].to) = Cut(t, 0, edits[n].to)
    BY ONLY <1>1, <2>6, <2>7, Meet, ZenonT(60)
  <2> QED
    BY <2>1, <2>2, <2>3, <2>4, <2>5, <2>6, <2>8, <2>9
<1> HIDE DEF V
<1>7. \A n \in 0 .. N : n \in V
  BY <1>1, <1>5, <1>6, Inducts
<1>8. Done(G[N], u, N) = Cut(t, 0, End(edits, N))
  BY <1>1, <1>7 DEF V
<1>9. G[N] = Done(G[N], u, N) \o Cut(F, End(u, N), Len(F))
  <2>1. Parted(G[N], F, u, N) /\ N \in 0 .. Len(u)
    BY <1>1, <1>4
  <2>2. Split(G[N], F, u, N)
    BY ONLY <1>1, <2>1, PartedHead
  <2> QED
    BY ONLY <2>2 DEF Split
<1>10. Cut(F, Mark(edits, N), Len(F)) = Cut(t, End(edits, N), Len(t))
  <2>1. Parted(F, t, edits, N)
    BY <1>0, <1>1, AfterIs
  <2>a. N \in 0 .. Len(edits) /\ Fit(edits, t)
    BY <1>1
  <2>b. /\ Done(F, edits, N) \in Strings /\ Len(Done(F, edits, N)) = Mark(edits, N)
        /\ Cut(t, End(edits, N), Len(t)) \in Strings
        /\ Split(F, t, edits, N)
    BY ONLY <2>1, <2>a, PartedHead
  <2>2. PICK h \in Strings, r \in Strings :
          /\ h = Done(F, edits, N) /\ r = Cut(t, End(edits, N), Len(t))
          /\ Len(h) = Mark(edits, N) /\ F = h \o r
    BY ONLY <2>b DEF Split
  <2>3. Len(F) = Len(h) + Len(r) /\ Len(h) \in Nat /\ Len(r) \in Nat
    BY <2>2, Joins, Lengths
  <2>4. Cut(h \o r, Len(h) + 0, Len(h) + Len(r)) = Cut(r, 0, Len(r))
    <3>1. 0 \in Nat /\ 0 <= Len(r) /\ Len(r) <= Len(r) /\ Len(r) \in Nat
      BY <2>3
    <3> QED
      BY ONLY <3>1, h \in Strings, r \in Strings, CutSecond DEF Strings
  <2>5. Cut(r, 0, Len(r)) = r /\ Len(h) + 0 = Len(h)
    BY <2>3, Whole
  <2> QED
    BY <2>2, <2>3, <2>4, <2>5
<1>11. Cut(t, 0, End(edits, N)) \o Cut(t, End(edits, N), Len(t)) = t
  <2>1. End(edits, N) \in Nat /\ 0 <= End(edits, N) /\ End(edits, N) <= Len(t) /\ Len(t) <= Len(t) /\ 0 \in Nat
    BY <1>1, <1>3
  <2>2. Cut(t, 0, End(edits, N)) \o Cut(t, End(edits, N), Len(t)) = Cut(t, 0, Len(t))
    BY ONLY <1>1, <2>1, Meet
  <2> QED
    BY <1>1, <2>2, Whole
<1> QED
  BY <1>0, <1>1, <1>2, <1>4, <1>8, <1>9, <1>10, <1>11

-----------------------------------------------------------------------------
(* Carets.                                                                 *)

\* Carets within a text, carets of which no two touch, and a selection of both.
Within(cursors, len) ==
  /\ cursors \in Seq(Cursors)
  /\ \A i \in 1 .. Len(cursors) : cursors[i].anchor <= len /\ cursors[i].head <= len

Apart(cursors) == \A i \in 1 .. (Len(cursors) - 1) : Upper(cursors[i]) < Lower(cursors[i + 1])

Good(sel, len) ==
  /\ sel \in Selections /\ Within(sel.cursors, len) /\ Apart(sel.cursors)
  /\ Len(sel.cursors) <= MaxCursors

\* The ends of a caret are its anchor and its head.
LEMMA CaretEnds ==
  ASSUME NEW c \in Cursors
  PROVE  /\ c.anchor \in Nat /\ c.head \in Nat /\ Lower(c) \in Nat /\ Upper(c) \in Nat
         /\ Lower(c) <= Upper(c)
         /\ \A len \in Nat : c.anchor <= len /\ c.head <= len <=> Upper(c) <= len
BY DEF Cursors, Lower, Upper

\* Two carets that touch become one.
LEMMA Union ==
  ASSUME NEW c \in Cursors, NEW d \in Cursors, NEW len \in Nat, Upper(c) <= len, Upper(d) <= len,
         Lower(d) <= Lower(c)
  PROVE  LET from == IF Lower(d) < Lower(c) THEN Lower(d) ELSE Lower(c)
             to   == IF Upper(d) > Upper(c) THEN Upper(d) ELSE Upper(c)
             u == IF c.head >= c.anchor THEN [anchor |-> from, head |-> to]
                  ELSE [anchor |-> to, head |-> from]
         IN u \in Cursors /\ Lower(u) = Lower(d) /\ Upper(u) <= len
<1> DEFINE from == IF Lower(d) < Lower(c) THEN Lower(d) ELSE Lower(c)
           to == IF Upper(d) > Upper(c) THEN Upper(d) ELSE Upper(c)
<1>1. /\ Lower(c) \in Nat /\ Upper(c) \in Nat /\ Lower(d) \in Nat /\ Upper(d) \in Nat
      /\ Lower(c) <= Upper(c) /\ Lower(d) <= Upper(d)
  BY CaretEnds
<1>2. from \in Nat /\ to \in Nat /\ from <= to /\ from = Lower(d) /\ to <= len
  BY <1>1
<1> HIDE DEF from, to
<1>3. /\ [anchor |-> from, head |-> to] \in Cursors /\ [anchor |-> to, head |-> from] \in Cursors
      /\ Lower([anchor |-> from, head |-> to]) = from /\ Upper([anchor |-> from, head |-> to]) = to
      /\ Lower([anchor |-> to, head |-> from]) = from /\ Upper([anchor |-> to, head |-> from]) = to
  BY <1>2 DEF Cursors, Lower, Upper
<1> QED
  BY <1>2, <1>3 DEF from, to

\* What merging has made of the first k carets.
Merging(cursors, len, k) ==
  {m \in Seq(Cursors) : /\ Within(m, len) /\ Apart(m)
                        /\ k = 0 => m = <<>>
                        /\ k # 0 => m # <<>> /\ Lower(m[Len(m)]) <= Lower(cursors[k])}

\* Carets in the order of where they start.
Climbing(cursors) ==
  \A a, b \in 1 .. Len(cursors) : a < b => Lower(cursors[a]) <= Lower(cursors[b])

\* Joining one more caret leaves them apart, and none ends after all that were joined.
LEMMA JoinedIs ==
  ASSUME NEW len \in Nat, NEW cursors, Within(cursors, len), Climbing(cursors),
         NEW k \in 1 .. Len(cursors), NEW m \in Merging(cursors, len, k - 1)
  PROVE  Joined(m, cursors[k]) \in Merging(cursors, len, k)
<1>1. /\ Len(cursors) \in Nat /\ k \in Nat /\ k # 0 /\ m \in Seq(Cursors) /\ Len(m) \in Nat
      /\ Within(m, len) /\ Apart(m)
  BY LenProperties DEF Within, Merging
<1>2. PICK c \in Cursors : c = cursors[k]
  BY LenProperties DEF Within
<1>3. Upper(c) <= len
  <2>1. c.anchor <= len /\ c.head <= len
    BY <1>2 DEF Within
  <2> QED
    BY <2>1, CaretEnds
<1>4. \A i \in 1 .. Len(m) : m[i] \in Cursors /\ Upper(m[i]) <= len
  <2> TAKE i \in 1 .. Len(m)
  <2>1. m[i] \in Cursors /\ m[i].anchor <= len /\ m[i].head <= len
    BY <1>1, LenProperties DEF Within
  <2> QED
    BY <2>1, CaretEnds
<1>a. Lower(c) \in Nat /\ Upper(c) \in Nat
  BY CaretEnds
<1>5. ASSUME NEW j \in Seq(Cursors), j # <<>>, \A i \in 1 .. Len(j) : Upper(j[i]) <= len,
             Apart(j), Lower(j[Len(j)]) <= Lower(c)
      PROVE  j \in Merging(cursors, len, k)
  <2>1. Within(j, len)
    <3> SUFFICES ASSUME NEW i \in 1 .. Len(j) PROVE j[i].anchor <= len /\ j[i].head <= len
      BY DEF Within
    <3>1. j[i] \in Cursors /\ Upper(j[i]) <= len
      BY <1>5, LenProperties
    <3> QED
      BY <3>1, CaretEnds
  <2> QED
    BY <1>1, <1>2, <1>5, <2>1 DEF Merging
<1>6. CASE m = <<>>
  <2>1. Joined(m, c) = Append(m, c)
    BY <1>6 DEF Joined
  <2>a. Append(m, c) \in Seq(Cursors) /\ Len(Append(m, c)) = 1 /\ Append(m, c)[1] = c
    <3>1. Len(m) = 0
      BY <1>6
    <3> QED
      BY ONLY <3>1, m \in Seq(Cursors), c \in Cursors, AppendProperties
  <2>2. PICK j \in Seq(Cursors) : j = Append(m, c) /\ Len(j) = 1 /\ j[1] = c
    BY ONLY <2>a
  <2>3. Apart(j)
    <3>1. 1 .. (Len(j) - 1) = {}
      BY <2>2
    <3> QED
      BY <3>1 DEF Apart
  <2>4. /\ j # <<>> /\ Lower(j[Len(j)]) <= Lower(c)
        /\ \A i \in 1 .. Len(j) : Upper(j[i]) <= len
    BY <1>3, <1>a, <2>2
  <2> QED
    BY <1>2, <1>5, <2>1, <2>2, <2>3, <2>4
<1>7. CASE m # <<>>
  <2>0. PICK n \in Nat \ {0} : n = Len(m)
    BY <1>1, <1>7, EmptySeq
  <2>1. PICK d \in Cursors : d = m[Len(m)]
    BY <1>4, <2>0
  <2>2. Lower(d) <= Lower(c) /\ Upper(d) <= len /\ Lower(d) \in Nat /\ Upper(d) \in Nat
    <3>1. Upper(d) <= len /\ Lower(d) \in Nat /\ Upper(d) \in Nat
      BY <1>4, <2>0, <2>1, CaretEnds
    <3>2. k - 1 # 0
      BY <1>1, <1>7 DEF Merging
    <3>3. Lower(d) <= Lower(cursors[k - 1])
      BY <1>1, <2>1, <3>2 DEF Merging
    <3>4. k - 1 \in 1 .. Len(cursors) /\ k - 1 < k
      BY <1>1, <3>2
    <3>5. Lower(cursors[k - 1]) <= Lower(c)
      BY <1>2, <3>4 DEF Climbing
    <3>6. cursors[k - 1] \in Cursors
      BY <3>4, LenProperties DEF Within
    <3>7. Lower(cursors[k - 1]) \in Nat
      BY <3>6, CaretEnds
    <3> QED
      BY <1>a, <3>1, <3>3, <3>5, <3>7
  <2>3. CASE Lower(c) <= Upper(d)
    <3> DEFINE from == IF Lower(d) < Lower(c) THEN Lower(d) ELSE Lower(c)
               to == IF Upper(d) > Upper(c) THEN Upper(d) ELSE Upper(c)
               w == IF c.head >= c.anchor THEN [anchor |-> from, head |-> to]
                    ELSE [anchor |-> to, head |-> from]
    <3>1. w \in Cursors /\ Lower(w) = Lower(d) /\ Upper(w) <= len
      BY <1>3, <2>2, Union
    <3>2. Joined(m, c) = [m EXCEPT ![Len(m)] = w]
      BY <1>7, <2>1, <2>3 DEF Joined
    <3> HIDE DEF w
    <3>3. PICK j \in Seq(Cursors) : /\ j = [m EXCEPT ![Len(m)] = w] /\ Len(j) = n /\ j[n] = w
                                    /\ \A i \in 1 .. (n - 1) : j[i] = m[i]
      <4>1. m \in [1 .. n -> Cursors] /\ DOMAIN m = 1 .. n
        BY <1>1, <2>0, LenProperties
      <4>2. [m EXCEPT ![Len(m)] = w] \in [1 .. n -> Cursors]
        BY <2>0, <3>1, <4>1
      <4>3. /\ [m EXCEPT ![Len(m)] = w][n] = w
            /\ \A i \in 1 .. (n - 1) : [m EXCEPT ![Len(m)] = w][i] = m[i]
        BY <2>0, <4>1
      <4>4. [m EXCEPT ![Len(m)] = w] \in Seq(Cursors) /\ Len([m EXCEPT ![Len(m)] = w]) = n
        BY <2>0, <4>2, FunctionSeq
      <4> QED
        BY <4>3, <4>4
    <3>4. j # <<>>
      BY <2>0, <3>3
    <3>5. ASSUME NEW i \in 1 .. Len(j) PROVE Upper(j[i]) <= len
      <4>1. i = n \/ (i \in 1 .. (n - 1) /\ i \in 1 .. Len(m))
        BY <2>0, <3>3
      <4> QED
        BY <1>4, <3>1, <3>3, <4>1
    <3>6. Apart(j)
      <4> SUFFICES ASSUME NEW i \in 1 .. (n - 1) PROVE Upper(j[i]) < Lower(j[i + 1])
        BY <3>3 DEF Apart
      <4>1. Upper(m[i]) < Lower(m[i + 1])
        BY <1>1, <2>0 DEF Apart
      <4>2. i + 1 = n \/ i + 1 \in 1 .. (n - 1)
        BY <2>0
      <4>3. Lower(j[i + 1]) = Lower(m[i + 1])
        BY <2>0, <2>1, <3>1, <3>3, <4>2
      <4> QED
        BY <3>3, <4>1, <4>3
    <3>7. Lower(j[Len(j)]) <= Lower(c)
      BY <2>2, <3>1, <3>3
    <3> QED
      BY <1>2, <1>5, <3>2, <3>3, <3>4, <3>5, <3>6, <3>7
  <2>4. CASE ~(Lower(c) <= Upper(d))
    <3>1. Joined(m, c) = Append(m, c)
      BY <1>7, <2>1, <2>4 DEF Joined
    <3>2. PICK j \in Seq(Cursors) : /\ j = Append(m, c) /\ Len(j) = n + 1 /\ j[n + 1] = c
                                    /\ \A i \in 1 .. n : j[i] = m[i]
      <4>1. /\ Append(m, c) \in Seq(Cursors) /\ Len(Append(m, c)) = Len(m) + 1
            /\ Append(m, c)[Len(m) + 1] = c /\ \A i \in 1 .. Len(m) : Append(m, c)[i] = m[i]
        BY ONLY <1>1, c \in Cursors, AppendProperties
      <4> QED
        BY ONLY <2>0, <4>1
    <3>3. j # <<>> /\ Lower(j[Len(j)]) <= Lower(c)
      BY <1>a, <2>0, <3>2
    <3>4. ASSUME NEW i \in 1 .. Len(j) PROVE Upper(j[i]) <= len
      <4>1. i = n + 1 \/ (i \in 1 .. n /\ i \in 1 .. Len(m))
        BY <2>0, <3>2
      <4> QED
        BY <1>3, <1>4, <3>2, <4>1
    <3>5. Apart(j)
      <4> SUFFICES ASSUME NEW i \in 1 .. n PROVE Upper(j[i]) < Lower(j[i + 1])
        BY <2>0, <3>2 DEF Apart
      <4>1. CASE i = n
        <5>1. Upper(d) < Lower(c)
          BY <1>a, <2>2, <2>4
        <5> QED
          BY <2>0, <2>1, <3>2, <4>1, <5>1
      <4>2. CASE i # n
        <5>1. i \in 1 .. (Len(m) - 1) /\ i + 1 \in 1 .. n
          BY <2>0, <4>2
        <5>2. Upper(m[i]) < Lower(m[i + 1])
          BY <1>1, <5>1 DEF Apart
        <5> QED
          BY <3>2, <5>1, <5>2
      <4> QED
        BY <4>1, <4>2
    <3> QED
      BY <1>2, <1>5, <3>1, <3>2, <3>3, <3>4, <3>5
  <2> QED
    BY <2>3, <2>4
<1> QED
  BY <1>6, <1>7

\* Merging carets in order leaves them apart.
LEMMA MergedIs ==
  ASSUME NEW len \in Nat, NEW cursors, Within(cursors, len), Climbing(cursors), cursors # <<>>
  PROVE  Within(Merged(cursors), len) /\ Apart(Merged(cursors)) /\ Merged(cursors) # <<>>
<1> DEFINE n == Len(cursors)
           T == [k \in 0 .. n |-> Merging(cursors, len, k)]
           op == [p \in (1 .. n) \X Seq(Cursors) |-> Joined(p[2], cursors[p[1]])]
<1>1. n \in Nat \ {0} /\ cursors \in Seq(Cursors)
  BY LenProperties, EmptySeq DEF Within
<1>2. <<>> \in Merging(cursors, len, 0)
  <2>1. <<>> \in Seq(Cursors) /\ Len(<<>>) = 0 /\ 1 .. 0 = {} /\ 1 .. (0 - 1) = {}
    OBVIOUS
  <2> QED
    BY <2>1 DEF Merging, Within, Apart
<1>3. ASSUME NEW k \in 1 .. n, NEW m \in T[k - 1]
      PROVE  op[<<k, m>>] = Joined(m, cursors[k]) /\ op[<<k, m>>] \in T[k]
  <2>1. k - 1 \in 0 .. n /\ k \in 0 .. n
    BY <1>1
  <2>2. m \in Merging(cursors, len, k - 1)
    BY <1>3, <2>1
  <2>3. m \in Seq(Cursors)
    BY <2>2 DEF Merging
  <2>4. op[<<k, m>>] = Joined(m, cursors[k])
    BY <2>3
  <2>5. Joined(m, cursors[k]) \in Merging(cursors, len, k)
    BY <2>2, JoinedIs
  <2> QED
    BY <2>1, <2>4, <2>5
<1>4. Steady(n, Seq(Cursors), T, op)
  <2>1. T \in [0 .. n -> SUBSET Seq(Cursors)]
    BY DEF Merging
  <2> HIDE DEF T, op
  <2> QED
    BY <1>3, <2>1 DEF Steady
<1>5. PICK f : RunsIn(f, n, T, <<>>, op)
  <2>1. <<>> \in T[0] /\ n \in Nat
    BY <1>1, <1>2
  <2> HIDE DEF T, op, n
  <2> QED
    BY <1>4, <2>1, RecursesIn, Zenon
<1>6. /\ f = [k \in 0 .. n |-> f[k]] /\ f[0] = <<>>
      /\ \A k \in 0 .. n : f[k] \in T[k]
      /\ \A k \in 1 .. n : f[k] = op[<<k, f[k - 1]>>]
  BY <1>5 DEF RunsIn
<1>7. \A k \in 1 .. n : f[k] = Joined(f[k - 1], cursors[k])
  <2> TAKE k \in 1 .. n
  <2>1. f[k - 1] \in T[k - 1]
    BY <1>1, <1>6
  <2> HIDE DEF T, op
  <2> QED
    BY <1>3, <1>6, <2>1
<1> DEFINE rec(merged) == merged = [k \in 0 .. n |-> IF k = 0 THEN <<>> ELSE Joined(merged[k - 1], cursors[k])]
<1>8. rec(f)
  <2> HIDE DEF T, op
  <2>1. \A k \in 0 .. n : f[k] = IF k = 0 THEN <<>> ELSE Joined(f[k - 1], cursors[k])
    <3> TAKE k \in 0 .. n
    <3>1. k = 0 \/ (k # 0 /\ k \in 1 .. n)
      BY <1>1
    <3> QED
      BY <1>6, <1>7, <3>1
  <2> QED
    BY <1>6, <2>1
<1> DEFINE g == CHOOSE merged : rec(merged)
<1>9. Merged(cursors) = g[n]
  BY DEF Merged
<1>10. rec(g)
  <2> HIDE DEF rec
  <2> QED
    BY <1>8
<1>11. g = [k \in 0 .. n |-> IF k = 0 THEN <<>> ELSE Joined(g[k - 1], cursors[k])]
  BY <1>10
<1> HIDE DEF g, rec, op, T
<1>a. g[0] = <<>>
  BY <1>1, <1>11
<1>b. ASSUME NEW k \in 1 .. n PROVE g[k] = Joined(g[k - 1], cursors[k])
  <2>1. k \in 0 .. n /\ k # 0
    BY <1>1
  <2> QED
    BY <1>11, <2>1
<1> DEFINE V == {k \in 0 .. n : g[k] \in Merging(cursors, len, k)}
<1>12. 0 \in V
  BY <1>1, <1>2, <1>a
<1>13. ASSUME NEW k \in 1 .. n, k - 1 \in V PROVE k \in V
  <2>1. g[k - 1] \in Merging(cursors, len, k - 1) /\ k \in 0 .. n
    BY <1>1, <1>13
  <2>2. Joined(g[k - 1], cursors[k]) \in Merging(cursors, len, k)
    BY <2>1, JoinedIs
  <2> QED
    BY <1>b, <2>1, <2>2
<1> HIDE DEF V
<1>14. \A k \in 0 .. n : k \in V
  BY <1>1, <1>12, <1>13, Inducts
<1>15. g[n] \in Merging(cursors, len, n) /\ n # 0
  BY <1>1, <1>14 DEF V
<1> QED
  BY <1>9, <1>15 DEF Merging

\* The first of some indices is an index.
LEMMA FirstOfIs ==
  ASSUME NEW n \in Nat \ {0}, NEW S, S \subseteq 1 .. n
  PROVE  FirstOf(S) \in 1 .. n
<1>1. CASE S = {}
  BY <1>1 DEF FirstOf
<1>2. CASE S # {}
  <2>1. S \subseteq Nat
    OBVIOUS
  <2>2. \E i \in S : \A j \in S : i <= j
    BY <1>2, <2>1, Least
  <2>3. Min(S) \in S
    BY <2>2 DEF Min
  <2> QED
    BY <1>2, <2>3 DEF FirstOf
<1> QED
  BY <1>1, <1>2

\* Carets sorted by where they start.
LEMMA SortedCarets ==
  ASSUME NEW len \in Nat, NEW cursors, Within(cursors, len), cursors # <<>>
  PROVE  LET sorted == Sorted(cursors, [i \in DOMAIN cursors |-> Lower(cursors[i])],
                                       [i \in DOMAIN cursors |-> Upper(cursors[i])])
         IN Within(sorted, len) /\ Climbing(sorted) /\ sorted # <<>>
<1> DEFINE n == Len(cursors)
           from == [i \in DOMAIN cursors |-> Lower(cursors[i])]
           to == [i \in DOMAIN cursors |-> Upper(cursors[i])]
           sorted == Sorted(cursors, from, to)
<1>1. cursors \in Seq(Cursors) /\ n \in Nat \ {0} /\ DOMAIN cursors = 1 .. n
  BY LenProperties, EmptySeq DEF Within
<1>2. \A i \in 1 .. n : Lower(cursors[i]) \in Nat /\ Upper(cursors[i]) \in Nat
  BY <1>1, CaretEnds
<1>3. from \in [1 .. n -> Nat] /\ to \in [1 .. n -> Nat]
  BY <1>1, <1>2
<1>4. \A i \in 1 .. n : from[i] = Lower(cursors[i]) /\ to[i] = Upper(cursors[i])
  BY <1>1
<1> HIDE DEF from, to
<1>5. from \in Seq(Nat) /\ to \in Seq(Nat) /\ Len(from) = n /\ Len(to) = n
  BY <1>1, <1>3, FunctionSeq
<1>6. sorted \in Seq(Cursors) /\ Len(sorted) = n /\ SortedBy(cursors, from, to)
  BY <1>1, <1>5, SortedIs
<1>7. PICK o : /\ \A k \in 1 .. n : o[k] \in 1 .. n /\ sorted[k] = cursors[o[k]]
               /\ \A a, b \in 1 .. n : a < b => UpTo(from, to, o[a], o[b])
  <2>1. /\ \A k \in 1 .. n : Order(from, to)[k] \in 1 .. n /\ sorted[k] = cursors[Order(from, to)[k]]
        /\ \A a, b \in 1 .. n : a < b => UpTo(from, to, Order(from, to)[a], Order(from, to)[b])
    BY <1>6 DEF SortedBy, Placings
  <2> QED
    BY ONLY <2>1
<1> HIDE DEF sorted
<1>8. Within(sorted, len)
  <2>1. \A k \in 1 .. n : sorted[k].anchor <= len /\ sorted[k].head <= len
    BY <1>7 DEF Within
  <2> QED
    BY <1>6, <2>1 DEF Within
<1>9. Climbing(sorted)
  <2> SUFFICES ASSUME NEW a \in 1 .. n, NEW b \in 1 .. n, a < b
               PROVE  Lower(sorted[a]) <= Lower(sorted[b])
    BY <1>6 DEF Climbing
  <2>1. UpTo(from, to, o[a], o[b]) /\ o[a] \in 1 .. n /\ o[b] \in 1 .. n
    BY <1>7
  <2>2. from[o[a]] \in Nat /\ from[o[b]] \in Nat
    BY <1>3, <2>1
  <2>3. from[o[a]] <= from[o[b]]
    BY <2>1, <2>2 DEF UpTo
  <2> QED
    BY <1>4, <1>7, <2>1, <2>3
<1>10. sorted # <<>>
  BY <1>1, <1>6
<1> QED
  BY <1>8, <1>9, <1>10 DEF sorted, from, to

\* A stretch of carets that are apart.
LEMMA Stretch ==
  ASSUME NEW len \in Nat, NEW m, Within(m, len), Apart(m), NEW a \in Nat, NEW b \in Nat,
         a <= b, b <= Len(m)
  PROVE  Within(Cut(m, a, b), len) /\ Apart(Cut(m, a, b)) /\ Len(Cut(m, a, b)) = b - a
<1>1. m \in Seq(Cursors) /\ Len(m) \in Nat
  BY LenProperties DEF Within
<1>2. /\ Cut(m, a, b) \in Seq(Cursors) /\ Len(Cut(m, a, b)) = b - a
      /\ \A i \in 1 .. (b - a) : Cut(m, a, b)[i] = m[a + i]
  BY <1>1, CutType
<1>3. PICK c \in Seq(Cursors) : c = Cut(m, a, b) /\ Len(c) = b - a /\ \A i \in 1 .. (b - a) : c[i] = m[a + i]
  BY ONLY <1>2
<1>4. \A i \in 1 .. Len(c) : c[i].anchor <= len /\ c[i].head <= len
  <2> TAKE i \in 1 .. Len(c)
  <2>1. a + i \in 1 .. Len(m) /\ i \in 1 .. (b - a)
    BY <1>1, <1>3
  <2> QED
    BY <1>3, <2>1 DEF Within
<1>5. Apart(c)
  <2> SUFFICES ASSUME NEW i \in 1 .. (Len(c) - 1) PROVE Upper(c[i]) < Lower(c[i + 1])
    BY DEF Apart
  <2>1. a + i \in 1 .. (Len(m) - 1) /\ i \in 1 .. (b - a) /\ i + 1 \in 1 .. (b - a) /\ a + (i + 1) = (a + i) + 1
    BY <1>1, <1>3
  <2>2. Upper(m[a + i]) < Lower(m[(a + i) + 1])
    BY <2>1 DEF Apart
  <2>3. c[i] = m[a + i] /\ c[i + 1] = m[(a + i) + 1]
    BY <1>3, <2>1
  <2> QED
    BY <2>2, <2>3
<1> QED
  BY <1>3, <1>4, <1>5 DEF Within

\* Selection::many makes a selection: sorted, apart, capped, with a primary.
LEMMA ManyIs ==
  ASSUME NEW len \in Nat, NEW cursors, Within(cursors, len), cursors # <<>>, NEW primary
  PROVE  Good(Many(cursors, primary), len)
<1> DEFINE keep == cursors[primary]
           merged == Merged(Sorted(cursors, [i \in DOMAIN cursors |-> Lower(cursors[i])],
                                            [i \in DOMAIN cursors |-> Upper(cursors[i])]))
           over == Len(merged) - MaxCursors
           chosen == {i \in DOMAIN merged : Lower(merged[i]) >= Lower(keep)}
           near == FirstOf(chosen) - (MaxCursors \div 2)
           first == IF near < 1 THEN 1 ELSE IF near > over + 1 THEN over + 1 ELSE near
           kept == IF over > 0 THEN SubSeq(merged, first, first + MaxCursors - 1) ELSE merged
           held == {i \in DOMAIN kept : \/ kept[i].head = keep.head
                                        \/ Lower(kept[i]) <= keep.head /\ keep.head < Upper(kept[i])}
<1>1. Many(cursors, primary) = [cursors |-> kept, primary |-> FirstOf(held)]
  BY DEF Many
<1>2. Within(merged, len) /\ Apart(merged) /\ merged # <<>>
  BY SortedCarets, MergedIs
<1> HIDE DEF merged
<1>3. merged \in Seq(Cursors) /\ Len(merged) \in Nat \ {0} /\ DOMAIN merged = 1 .. Len(merged)
      /\ MaxCursors \in Nat \ {0} /\ over \in Int
  BY <1>2, LenProperties, EmptySeq, DocumentAssumption DEF Within
<1>4. FirstOf(chosen) \in Nat
  <2>1. chosen \subseteq 1 .. Len(merged)
    BY <1>3
  <2> HIDE DEF chosen, over
  <2>2. PICK n \in Nat \ {0} : n = Len(merged)
    BY <1>3
  <2>3. FirstOf(chosen) \in 1 .. n
    BY ONLY <2>1, <2>2, n \in Nat \ {0}, FirstOfIs
  <2> QED
    BY ONLY <2>3
<1>5. Within(kept, len) /\ Apart(kept) /\ Len(kept) \in 1 .. MaxCursors
  <2>1. CASE ~(over > 0)
    BY <1>2, <1>3, <2>1
  <2>2. CASE over > 0
    <3>1. near \in Int
      <4>1. MaxCursors \div 2 \in Int
        BY <1>3
      <4> QED
        BY <1>4, <4>1
    <3> HIDE DEF near
    <3>2. first \in 1 .. (over + 1)
      BY <1>3, <2>2, <3>1
    <3> HIDE DEF first
    <3>3. PICK a \in Nat, b \in Nat : a = first - 1 /\ b = (first - 1) + MaxCursors
      BY <1>3, <3>2
    <3>4. a <= b /\ b <= Len(merged) /\ b - a = MaxCursors
      BY <1>3, <3>2, <3>3
    <3>5. kept = Cut(merged, a, b)
      <4>1. a + 1 = first /\ b = first + MaxCursors - 1
        BY <1>3, <3>2, <3>3
      <4> QED
        BY <2>2, <4>1 DEF Cut
    <3>6. Within(Cut(merged, a, b), len) /\ Apart(Cut(merged, a, b)) /\ Len(Cut(merged, a, b)) = MaxCursors
      BY <1>2, <3>4, Stretch
    <3> HIDE DEF kept
    <3>7. MaxCursors \in 1 .. MaxCursors
      BY <1>3
    <3> QED
      BY ONLY <3>5, <3>6, <3>7
  <2> QED
    BY <2>1, <2>2
<1> HIDE DEF kept
<1>6. kept \in Seq(Cursors) /\ DOMAIN kept = 1 .. Len(kept) /\ Len(kept) \in Nat \ {0}
  BY <1>3, <1>5, LenProperties DEF Within
<1>7. FirstOf(held) \in 1 .. Len(kept)
  <2>1. held \subseteq 1 .. Len(kept)
    BY <1>6
  <2> HIDE DEF held
  <2> QED
    BY <1>6, <2>1, FirstOfIs
<1> HIDE DEF held
<1>8. PICK sel : sel = [cursors |-> kept, primary |-> FirstOf(held)]
  OBVIOUS
<1>9. sel.cursors = kept /\ sel \in Selections
  BY <1>6, <1>7, <1>8 DEF Selections
<1> QED
  BY <1>1, <1>3, <1>5, <1>8, <1>9 DEF Good

\* A selection of any text, clamped to this one, is good for it.
LEMMA ClampedIs ==
  ASSUME NEW sel \in Selections, NEW t \in Strings
  PROVE  Good(Clamped(sel, t), Len(t))
<1> DEFINE cursors == [i \in DOMAIN sel.cursors |->
                         Selected(Clamp(sel.cursors[i].anchor, t), Clamp(sel.cursors[i].head, t))]
           n == Len(sel.cursors)
<1>1. Clamped(sel, t) = Many(cursors, sel.primary)
  BY DEF Clamped, Mapped
<1>2. Len(t) \in Nat /\ sel.cursors \in Seq(Cursors) /\ n \in Nat \ {0} /\ DOMAIN sel.cursors = 1 .. n
  BY Lengths, LenProperties DEF Selections
<1>3. ASSUME NEW i \in 1 .. n
      PROVE  cursors[i] \in Cursors /\ cursors[i].anchor <= Len(t) /\ cursors[i].head <= Len(t)
  <2>1. sel.cursors[i] \in Cursors
    BY <1>2
  <2>2. sel.cursors[i].anchor \in Nat /\ sel.cursors[i].head \in Nat
    BY <2>1 DEF Cursors
  <2>3. /\ Clamp(sel.cursors[i].anchor, t) \in Nat /\ Clamp(sel.cursors[i].anchor, t) <= Len(t)
        /\ Clamp(sel.cursors[i].head, t) \in Nat /\ Clamp(sel.cursors[i].head, t) <= Len(t)
    BY <1>2, <2>2 DEF Clamp
  <2> QED
    BY <1>2, <2>3 DEF Selected, Cursors
<1>4. cursors \in [1 .. n -> Cursors]
  BY <1>2, <1>3
<1>5. cursors \in Seq(Cursors) /\ Len(cursors) = n
  <2> HIDE DEF cursors, n
  <2> QED
    BY <1>2, <1>4, FunctionSeq
<1>6. Within(cursors, Len(t)) /\ cursors # <<>>
  <2> HIDE DEF cursors
  <2> QED
    BY <1>2, <1>3, <1>5 DEF Within
<1> HIDE DEF cursors
<1>7. Good(Many(cursors, sel.primary), Len(t))
  BY <1>2, <1>6, ManyIs
<1> QED
  BY <1>1, <1>7

-----------------------------------------------------------------------------
(* Some of the members of a sequence.                                      *)

\* What choosing has made of the first k members.
Choosing(S, seq, indices, k) ==
  {m \in Seq(S) : /\ \A a \in 1 .. Len(m) : \E i \in 1 .. k : m[a] = seq[i]
                  /\ \A i \in 1 .. k : i \in indices => \E a \in 1 .. Len(m) : m[a] = seq[i]}

\* One member more.
LEMMA ChoosingStep ==
  ASSUME NEW S, NEW seq \in Seq(S), NEW indices, NEW k \in 1 .. Len(seq),
         NEW m \in Choosing(S, seq, indices, k - 1)
  PROVE  (IF k \in indices THEN Append(m, seq[k]) ELSE m) \in Choosing(S, seq, indices, k)
<1>1. /\ k \in Nat /\ k - 1 \in Nat /\ m \in Seq(S) /\ Len(m) \in Nat /\ seq[k] \in S
      /\ \A a \in 1 .. Len(m) : \E i \in 1 .. (k - 1) : m[a] = seq[i]
      /\ \A i \in 1 .. (k - 1) : i \in indices => \E a \in 1 .. Len(m) : m[a] = seq[i]
  BY LenProperties DEF Choosing
<1>2. \A i \in 1 .. k : i \in 1 .. (k - 1) \/ i = k
  BY <1>1
<1>3. 1 .. (k - 1) \subseteq 1 .. k /\ k \in 1 .. k
  BY <1>1
<1>4. CASE k \notin indices
  <2>1. \A a \in 1 .. Len(m) : \E i \in 1 .. k : m[a] = seq[i]
    BY <1>1, <1>3
  <2>2. \A i \in 1 .. k : i \in indices => \E a \in 1 .. Len(m) : m[a] = seq[i]
    BY <1>1, <1>2, <1>4
  <2> QED
    BY <1>1, <1>4, <2>1, <2>2 DEF Choosing
<1>5. CASE k \in indices
  <2>a. /\ Append(m, seq[k]) \in Seq(S) /\ Len(Append(m, seq[k])) = Len(m) + 1
        /\ Append(m, seq[k])[Len(m) + 1] = seq[k] /\ \A a \in 1 .. Len(m) : Append(m, seq[k])[a] = m[a]
    BY ONLY <1>1, AppendProperties
  <2>1. PICK j \in Seq(S) : /\ j = Append(m, seq[k]) /\ Len(j) = Len(m) + 1 /\ j[Len(m) + 1] = seq[k]
                            /\ \A a \in 1 .. Len(m) : j[a] = m[a]
    BY ONLY <2>a
  <2>2. \A a \in 1 .. Len(j) : a \in 1 .. Len(m) \/ a = Len(m) + 1
    BY <1>1, <2>1
  <2>3. 1 .. Len(m) \subseteq 1 .. Len(j) /\ Len(m) + 1 \in 1 .. Len(j)
    BY <1>1, <2>1
  <2>4. ASSUME NEW a \in 1 .. Len(j) PROVE \E i \in 1 .. k : j[a] = seq[i]
    <3>1. CASE a \in 1 .. Len(m)
      BY <1>1, <1>3, <2>1, <3>1
    <3>2. CASE a = Len(m) + 1
      BY <1>3, <2>1, <3>2
    <3> QED
      BY <2>2, <3>1, <3>2
  <2>5. ASSUME NEW i \in 1 .. k, i \in indices PROVE \E a \in 1 .. Len(j) : j[a] = seq[i]
    <3>1. CASE i \in 1 .. (k - 1)
      <4>1. PICK a \in 1 .. Len(m) : m[a] = seq[i]
        BY <1>1, <2>5, <3>1
      <4> QED
        BY <2>1, <2>3, <4>1
    <3>2. CASE i = k
      BY <2>1, <2>3, <3>2
    <3> QED
      BY <1>2, <3>1, <3>2
  <2> QED
    BY <1>5, <2>1, <2>4, <2>5 DEF Choosing
<1> QED
  BY <1>4, <1>5

\* Chosen has the members at the indices and no others.
LEMMA ChosenIs ==
  ASSUME NEW S, NEW seq \in Seq(S), NEW indices
  PROVE  /\ Chosen(seq, indices) \in Seq(S)
         /\ \A a \in 1 .. Len(Chosen(seq, indices)) : \E i \in 1 .. Len(seq) : Chosen(seq, indices)[a] = seq[i]
         /\ \A i \in 1 .. Len(seq) :
              i \in indices => \E a \in 1 .. Len(Chosen(seq, indices)) : Chosen(seq, indices)[a] = seq[i]
<1> DEFINE n == Len(seq)
           step(m, k) == IF k \in indices THEN Append(m, seq[k]) ELSE m
           T == [k \in 0 .. n |-> Choosing(S, seq, indices, k)]
           op == [p \in (1 .. n) \X Seq(S) |-> step(p[2], p[1])]
<1>1. n \in Nat
  BY LenProperties
<1>2. <<>> \in Choosing(S, seq, indices, 0)
  <2>1. <<>> \in Seq(S) /\ Len(<<>>) = 0 /\ 1 .. 0 = {}
    OBVIOUS
  <2> QED
    BY <2>1 DEF Choosing
<1>3. ASSUME NEW k \in 1 .. n, NEW m \in T[k - 1]
      PROVE  op[<<k, m>>] = step(m, k) /\ op[<<k, m>>] \in T[k]
  <2>1. k - 1 \in 0 .. n /\ k \in 0 .. n
    BY <1>1
  <2>2. m \in Choosing(S, seq, indices, k - 1)
    BY <1>3, <2>1
  <2>3. m \in Seq(S)
    BY <2>2 DEF Choosing
  <2>4. op[<<k, m>>] = step(m, k)
    BY <2>3
  <2>5. step(m, k) \in Choosing(S, seq, indices, k)
    BY <2>2, ChoosingStep
  <2> QED
    BY <2>1, <2>4, <2>5
<1>4. Steady(n, Seq(S), T, op)
  <2>1. T \in [0 .. n -> SUBSET Seq(S)]
    BY DEF Choosing
  <2> HIDE DEF T, op
  <2> QED
    BY <1>3, <2>1 DEF Steady
<1>5. PICK f : RunsIn(f, n, T, <<>>, op)
  <2>1. <<>> \in T[0] /\ n \in Nat
    BY <1>1, <1>2
  <2> HIDE DEF T, op, n
  <2> QED
    BY <1>4, <2>1, RecursesIn, Zenon
<1>6. /\ f = [k \in 0 .. n |-> f[k]] /\ f[0] = <<>>
      /\ \A k \in 0 .. n : f[k] \in T[k]
      /\ \A k \in 1 .. n : f[k] = op[<<k, f[k - 1]>>]
  BY <1>5 DEF RunsIn
<1>7. \A k \in 1 .. n : f[k] = step(f[k - 1], k)
  <2> TAKE k \in 1 .. n
  <2>1. f[k - 1] \in T[k - 1]
    BY <1>1, <1>6
  <2> HIDE DEF T, op, step
  <2> QED
    BY <1>3, <1>6, <2>1
<1> DEFINE rec(chosen) == chosen = [k \in 0 .. n |->
                 IF k = 0 THEN <<>>
                 ELSE IF k \in indices THEN Append(chosen[k - 1], seq[k]) ELSE chosen[k - 1]]
<1>8. rec(f)
  <2> HIDE DEF T, op
  <2>1. \A k \in 0 .. n : f[k] = IF k = 0 THEN <<>>
                                 ELSE IF k \in indices THEN Append(f[k - 1], seq[k]) ELSE f[k - 1]
    <3> TAKE k \in 0 .. n
    <3>1. k = 0 \/ (k # 0 /\ k \in 1 .. n)
      BY <1>1
    <3> QED
      BY <1>6, <1>7, <3>1
  <2> QED
    BY <1>6, <2>1
<1> DEFINE g == CHOOSE chosen : rec(chosen)
<1>9. Chosen(seq, indices) = g[n]
  BY DEF Chosen
<1>10. rec(g)
  <2> HIDE DEF rec
  <2> QED
    BY <1>8
<1>11. g = [k \in 0 .. n |-> IF k = 0 THEN <<>>
                             ELSE IF k \in indices THEN Append(g[k - 1], seq[k]) ELSE g[k - 1]]
  BY <1>10
<1> HIDE DEF g, rec, op, T
<1>a. g[0] = <<>>
  BY <1>1, <1>11
<1>b. ASSUME NEW k \in 1 .. n PROVE g[k] = step(g[k - 1], k)
  <2>1. k \in 0 .. n /\ k # 0
    BY <1>1
  <2> QED
    BY <1>11, <2>1
<1> DEFINE V == {k \in 0 .. n : g[k] \in Choosing(S, seq, indices, k)}
<1>12. 0 \in V
  BY <1>1, <1>2, <1>a
<1>13. ASSUME NEW k \in 1 .. n, k - 1 \in V PROVE k \in V
  <2>1. g[k - 1] \in Choosing(S, seq, indices, k - 1) /\ k \in 0 .. n
    BY <1>1, <1>13
  <2>2. step(g[k - 1], k) \in Choosing(S, seq, indices, k)
    BY <2>1, ChoosingStep
  <2> QED
    BY <1>b, <2>1, <2>2
<1> HIDE DEF V
<1>14. \A k \in 0 .. n : k \in V
  BY <1>1, <1>12, <1>13, Inducts
<1>15. g[n] \in Choosing(S, seq, indices, n)
  BY <1>1, <1>14 DEF V
<1> QED
  BY <1>9, <1>15 DEF Choosing

-----------------------------------------------------------------------------
(* What the history forgets.                                               *)

\* The bytes of a stretch of entries.
LEMMA HeldCut ==
  ASSUME NEW entries \in Seq(Entries), NEW a \in Nat, NEW b \in Nat, a <= b, b <= Len(entries)
  PROVE  /\ Cut(entries, a, b) \in Seq(Entries) /\ Len(Cut(entries, a, b)) = b - a
         /\ \A i \in 1 .. (b - a) : Cut(entries, a, b)[i] = entries[a + i]
         /\ RetainedBy(Cut(entries, a, b)) = SumOf(Cut(Held(entries), a, b))
<1>1. PICK c : c = Cut(entries, a, b)
  OBVIOUS
<1>2. /\ c \in Seq(Entries) /\ Len(c) = b - a
      /\ \A i \in 1 .. (b - a) : c[i] = entries[a + i]
  BY <1>1, CutType
<1>3. /\ Held(entries) \in Seq(Nat) /\ Len(Held(entries)) = Len(entries)
      /\ \A i \in 1 .. Len(entries) : Held(entries)[i] = entries[i].retained
      /\ Len(entries) \in Nat
  BY HeldType, LenProperties
<1>4. PICK h : h = Cut(Held(entries), a, b)
  OBVIOUS
<1>5. /\ h \in Seq(Nat) /\ Len(h) = b - a
      /\ \A i \in 1 .. (b - a) : h[i] = Held(entries)[a + i]
  <2>1. PICK g \in Seq(Nat) : g = Held(entries)
    BY <1>3
  <2>2. /\ Cut(g, a, b) \in Seq(Nat) /\ Len(Cut(g, a, b)) = b - a
        /\ \A i \in 1 .. (b - a) : Cut(g, a, b)[i] = g[a + i]
    <3>1. a <= b /\ b <= Len(g)
      BY <1>3, <2>1
    <3> QED
      BY ONLY <3>1, a \in Nat, b \in Nat, g \in Seq(Nat), CutType
  <2> QED
    BY <1>4, <2>1, <2>2
<1>6. /\ Held(c) \in Seq(Nat) /\ Len(Held(c)) = b - a
      /\ \A i \in 1 .. (b - a) : Held(c)[i] = c[i].retained
      /\ RetainedBy(c) = SumOf(Held(c))
  BY <1>2, HeldType
<1>7. ASSUME NEW i \in 1 .. (b - a) PROVE Held(c)[i] = h[i]
  <2>1. a + i \in 1 .. Len(entries)
    BY <1>3
  <2> QED
    BY <1>2, <1>3, <1>5, <1>6, <2>1
<1>8. Held(c) = h
  BY ONLY <1>5, <1>6, <1>7, SeqEqual
<1> QED
  BY <1>1, <1>2, <1>4, <1>6, <1>8

\* The oldest entries go until the budget holds; the newest stays.
LEMMA TrimmedIs ==
  ASSUME NEW entries \in Seq(Entries), entries # <<>>
  PROVE  \E n \in 0 .. (Len(entries) - 1) :
           /\ Trimmed(entries, RetainedBy(entries)).undo = Cut(entries, n, Len(entries))
           /\ Trimmed(entries, RetainedBy(entries)).retained = RetainedBy(Cut(entries, n, Len(entries)))
           /\ Len(entries) - n <= MaxEntries
           /\ RetainedBy(Cut(entries, n, Len(entries))) > MaxBytes => Len(entries) - n = 1
<1> DEFINE bytes == RetainedBy(entries)
           left(n) == bytes - RetainedBy(SubSeq(entries, 1, n))
           count(n) == Len(entries) - n
           enough(n) == count(n) <= MaxEntries /\ (left(n) <= MaxBytes \/ count(n) <= 1)
           S == {m \in 0 .. Len(entries) : enough(m)}
           least == Min(S)
<1>1. Len(entries) \in Nat \ {0}
  BY LenProperties, EmptySeq
<1>2. MaxEntries \in Nat \ {0} /\ MaxBytes \in Nat
  BY DocumentAssumption
<1>3. \A m \in 0 .. Len(entries) : left(m) = RetainedBy(Cut(entries, m, Len(entries)))
  <2> TAKE m \in 0 .. Len(entries)
  <2>1. m \in Nat /\ 0 <= m /\ m <= Len(entries) /\ Len(entries) \in Nat /\ Len(entries) <= Len(entries)
    BY <1>1
  <2>2. /\ RetainedBy(Cut(entries, m, Len(entries))) = SumOf(Cut(Held(entries), m, Len(entries)))
        /\ RetainedBy(Cut(entries, 0, m)) = SumOf(Cut(Held(entries), 0, m))
    BY <2>1, HeldCut
  <2>3. /\ Held(entries) \in Seq(Nat) /\ Len(Held(entries)) = Len(entries)
        /\ RetainedBy(entries) = SumOf(Held(entries))
    BY HeldType
  <2>4. PICK h \in Seq(Nat) : h = Held(entries)
    BY <2>3
  <2>5. m \in 0 .. Len(h) /\ Len(h) = Len(entries)
    BY <2>1, <2>3, <2>4
  <2>6. /\ SubSeq(h, 1, m) \in Seq(Nat) /\ SubSeq(h, m + 1, Len(h)) \in Seq(Nat)
        /\ SumOf(h) = SumOf(SubSeq(h, 1, m)) + SumOf(SubSeq(h, m + 1, Len(h)))
    BY ONLY <2>5, h \in Seq(Nat), SumSplit
  <2>7. SumOf(SubSeq(h, 1, m)) \in Nat /\ SumOf(SubSeq(h, m + 1, Len(h))) \in Nat
    BY ONLY <2>6, SumType
  <2>8. SubSeq(entries, 1, m) = Cut(entries, 0, m)
    BY DEF Cut
  <2>9. SubSeq(h, 1, m) = Cut(h, 0, m) /\ SubSeq(h, m + 1, Len(h)) = Cut(h, m, Len(h))
    BY DEF Cut
  <2>10. PICK x \in Nat, y \in Nat : x = SumOf(SubSeq(h, 1, m)) /\ y = SumOf(SubSeq(h, m + 1, Len(h)))
    BY <2>7
  <2>11. bytes = x + y /\ RetainedBy(SubSeq(entries, 1, m)) = x
    BY <2>2, <2>3, <2>4, <2>6, <2>8, <2>9, <2>10
  <2>12. RetainedBy(Cut(entries, m, Len(entries))) = y
    BY <2>2, <2>4, <2>5, <2>9, <2>10
  <2>13. left(m) = (x + y) - x
    BY <2>11
  <2> QED
    BY ONLY <2>12, <2>13, x \in Nat, y \in Nat
<1>4. \A m \in 0 .. Len(entries) : RetainedBy(Cut(entries, m, Len(entries))) \in Nat
  <2> TAKE m \in 0 .. Len(entries)
  <2>1. m \in Nat /\ m <= Len(entries) /\ Len(entries) \in Nat /\ Len(entries) <= Len(entries)
    BY <1>1
  <2>2. Cut(entries, m, Len(entries)) \in Seq(Entries)
    BY <2>1, HeldCut
  <2> QED
    BY <2>2, HeldType
<1>5. Len(entries) - 1 \in S
  BY <1>1, <1>2
<1>6. S \subseteq Nat
  BY <1>1
<1>7. PICK n : n \in S /\ n = least /\ \A m \in S : n <= m
  <2> HIDE DEF S
  <2>1. S # {}
    BY <1>5
  <2>2. \E n \in S : \A m \in S : n <= m
    BY <1>6, <2>1, Least
  <2> QED
    BY <2>2 DEF Min
<1>8. n \in 0 .. Len(entries) /\ enough(n) /\ n <= Len(entries) - 1 /\ n \in 0 .. (Len(entries) - 1)
  <2>1. n <= Len(entries) - 1
    <3> HIDE DEF S
    <3> QED
      BY <1>5, <1>7
  <2>2. n \in 0 .. Len(entries) /\ enough(n)
    BY <1>7
  <2> QED
    BY <1>1, <2>1, <2>2
<1>9. Trimmed(entries, bytes) = [undo |-> SubSeq(entries, n + 1, Len(entries)), retained |-> left(n)]
  BY <1>7 DEF Trimmed
<1>10. SubSeq(entries, n + 1, Len(entries)) = Cut(entries, n, Len(entries))
  BY DEF Cut
<1>11. Len(entries) - n <= MaxEntries /\ (left(n) <= MaxBytes \/ Len(entries) - n <= 1)
  BY <1>8
<1> HIDE DEF left, enough, S, least, bytes
<1>12. left(n) = RetainedBy(Cut(entries, n, Len(entries))) /\ left(n) \in Nat
  BY <1>3, <1>4, <1>8
<1>13. left(n) > MaxBytes => Len(entries) - n = 1
  BY <1>1, <1>2, <1>8, <1>11, <1>12
<1> QED
  BY <1>8, <1>9, <1>10, <1>11, <1>12, <1>13 DEF bytes

-----------------------------------------------------------------------------
(* One edit, and where the last of several ends.                           *)

\* One edit within a text fits it.
LEMMA OneFits ==
  ASSUME NEW t \in Strings, NEW e \in Edits, e.from <= e.to, e.to <= Len(t)
  PROVE  Fit(<<e>>, t) /\ Len(<<e>>) = 1 /\ <<e>>[1] = e /\ InOrder(<<e>>) = <<e>>
<1>0. \E s \in Seq(Edits) : s = <<e>>
  <2>1. <<e>> = Append(<<>>, e) /\ <<>> \in Seq(Edits)
    BY EmptySeq
  <2> QED
    BY <2>1, AppendProperties
<1>1. PICK s \in Seq(Edits) : s = <<e>>
  BY <1>0
<1>2. Len(s) = 1 /\ s[1] = e
  BY <1>1
<1>3. Disjoint(s)
  BY <1>2 DEF Disjoint
<1>4. \A n \in 1 .. Len(s) : s[n].from <= s[n].to /\ s[n].to <= Len(t)
  BY <1>2
<1>5. InOrder(s) = s
  BY ONLY <1>3, <1>4, s \in Seq(Edits), InOrderKept
<1> QED
  BY <1>1, <1>2, <1>3, <1>4, <1>5 DEF Fit

\* What one edit does, what undoes it, and where it ends.
LEMMA AppliedOne ==
  ASSUME NEW t, NEW edits, Fit(edits, t), Len(edits) = 1
  PROVE  /\ edits[1] \in Edits /\ edits[1].from <= edits[1].to /\ edits[1].to <= Len(t)
         /\ edits = <<edits[1]>>
         /\ Applied(t, edits)
            = (Cut(t, 0, edits[1].from) \o edits[1].insert) \o Cut(t, edits[1].to, Len(t))
         /\ Undoing(t, edits)
            = <<Edit(edits[1].from, edits[1].from + Len(edits[1].insert),
                     Cut(t, edits[1].from, edits[1].to))>>
         /\ \A at : Resume(edits, at) = edits[1].from + Len(edits[1].insert)
<1>1. edits \in Seq(Edits) /\ t \in Strings /\ edits[1].from <= edits[1].to /\ edits[1].to <= Len(t)
  BY DEF Fit
<1>2. edits[1] \in Edits /\ edits[1].from \in Nat /\ edits[1].to \in Nat /\ Len(edits[1].insert) \in Nat
  BY <1>1, EditAt
<1>3. Shifts(edits)[0] = 0
  BY <1>1, ShiftsDef
<1>4. edits = <<edits[1]>>
  BY <1>1
<1>5. Applied(t, edits) = Replaced(t, edits[1], 0)
  BY <1>3, AfterIs
<1>6. edits[1].from + 0 = edits[1].from /\ edits[1].to + 0 = edits[1].to
  BY <1>2
<1>7. Applied(t, edits)
      = Cut(t, 0, edits[1].from) \o edits[1].insert \o Cut(t, edits[1].to, Len(t))
  BY <1>5, <1>6 DEF Replaced
<1>8. PICK u : u = Undoing(t, edits)
  OBVIOUS
<1>9. /\ u \in Seq(Edits) /\ Len(u) = 1
      /\ u[1] = Edit(edits[1].from + 0, edits[1].from + 0 + Len(edits[1].insert),
                     Cut(t, edits[1].from, edits[1].to))
  <2>1. u \in Seq(Edits) /\ Len(u) = 1
    BY <1>8, UndoingIs
  <2>2. 1 \in DOMAIN edits
    BY <1>4
  <2> QED
    BY <1>3, <1>8, <2>1, <2>2 DEF Undoing
<1>10. u = <<u[1]>>
  BY <1>9
<1>11. \A at : Resume(edits, at) = edits[1].from + Len(edits[1].insert)
  <2>1. edits # <<>> /\ Last(edits) = edits[1]
    BY <1>4 DEF Last
  <2>2. Len(edits) - 1 = 0
    OBVIOUS
  <2> QED
    BY <1>3, <1>6, <2>1, <2>2 DEF Resume
<1> QED
  BY <1>1, <1>2, <1>4, <1>6, <1>7, <1>8, <1>9, <1>10, <1>11

\* Where the last edit ends is an offset, and edits weigh something.
LEMMA ResumeIs ==
  ASSUME NEW t, NEW edits, Fit(edits, t), NEW at \in Nat
  PROVE  Resume(edits, at) \in Nat /\ Weight(edits) \in Nat
<1>1. /\ edits \in Seq(Edits) /\ Len(edits) \in Nat /\ DOMAIN edits = 1 .. Len(edits)
      /\ \A n \in 1 .. Len(edits) : edits[n].from <= edits[n].to
  BY Marks, LenProperties DEF Fit
<1>2. Resume(edits, at) \in Nat
  <2>1. CASE edits = <<>>
    BY <2>1 DEF Resume
  <2>2. CASE edits # <<>>
    <3>1. Len(edits) \in 1 .. Len(edits) /\ Len(edits) \in 0 .. Len(edits)
      BY <1>1, <2>2, EmptySeq
    <3>2. Resume(edits, at) = Mark(edits, Len(edits))
      BY <2>2, <3>1, Marks DEF Resume, Last
    <3> QED
      BY <3>1, <3>2, Marks
  <2> QED
    BY <2>1, <2>2
<1>3. Weight(edits) \in Nat
  <2> DEFINE w == [i \in DOMAIN edits |-> Len(edits[i].insert) + (edits[i].to - edits[i].from)]
  <2>1. \A i \in 1 .. Len(edits) : w[i] \in Nat
    <3> TAKE i \in 1 .. Len(edits)
    <3>1. /\ edits[i].from \in Nat /\ edits[i].to \in Nat /\ Len(edits[i].insert) \in Nat
          /\ edits[i].from <= edits[i].to
      BY <1>1, EditAt
    <3> QED
      BY <1>1, <3>1
  <2>2. w \in [1 .. Len(edits) -> Nat]
    BY <1>1, <2>1
  <2>3. Weight(edits) = SumOf(w)
    BY DEF Weight
  <2> HIDE DEF w
  <2>4. w \in Seq(Nat)
    BY ONLY <1>1, <2>2, FunctionSeq
  <2> QED
    BY <2>3, <2>4, SumType
<1> QED
  BY <1>2, <1>3

-----------------------------------------------------------------------------
(* A run of typing that grows.                                             *)

\* An entry that leads from one text to another, and back.
Leads(e, t, u) ==
  /\ Fit(e.forth, t)
  /\ u = Applied(t, e.forth)
  /\ e.back = Undoing(t, e.forth)
  /\ Len(e.backSel) = 1 /\ Len(e.forthSel) <= 1 /\ Good(e.backSel[1], Len(t))
  /\ Len(e.forth) = 1 => e.resume = e.forth[1].from + Len(e.forth[1].insert)

\* The fields of an entry that has grown, one by one.
LEMMA GrownFields ==
  ASSUME NEW last \in Entries, NEW new \in Entries
  PROVE  LET g      == Grown(last, new)
             insert == last.forth[1].insert \o new.forth[1].insert
             from   == last.forth[1].from
         IN /\ g = [back |-> g.back, backSel |-> last.backSel, forth |-> g.forth,
                    forthSel |-> new.forthSel, origin |-> last.origin, before |-> last.before,
                    after |-> new.after, resume |-> new.resume,
                    retained |-> last.retained + new.retained]
            /\ g.forth = [last.forth EXCEPT ![1].insert = insert]
            /\ g.back = [last.back EXCEPT ![1].from = from, ![1].to = from + Len(insert)]
<1> DEFINE insert == last.forth[1].insert \o new.forth[1].insert
           from   == last.forth[1].from
<1>1. last = [back |-> last.back, backSel |-> last.backSel, forth |-> last.forth,
              forthSel |-> last.forthSel, origin |-> last.origin, before |-> last.before,
              after |-> last.after, resume |-> last.resume, retained |-> last.retained]
  BY DEF Entries
<1>2. PICK to : to = from + Len(insert)
  OBVIOUS
<1> HIDE DEF insert, from
<1>3. Grown(last, new)
      = [last EXCEPT !.forth[1].insert = insert,
                     !.back[1].from = from, !.back[1].to = to,
                     !.forthSel = new.forthSel,
                     !.after = new.after,
                     !.resume = new.resume,
                     !.retained = @ + new.retained]
  BY <1>2 DEF Grown, insert, from
<1>4. PICK g : g = Grown(last, new)
  OBVIOUS
<1>5. g.forth = [last.forth EXCEPT ![1].insert = insert]
  BY <1>1, <1>3, <1>4
<1>6. g.back = [last.back EXCEPT ![1].from = from, ![1].to = to]
  BY <1>1, <1>3, <1>4
<1>7. DOMAIN g = DOMAIN last
  BY <1>3, <1>4
<1>8. /\ g.backSel = last.backSel /\ g.forthSel = new.forthSel /\ g.origin = last.origin
      /\ g.before = last.before /\ g.after = new.after /\ g.resume = new.resume
      /\ g.retained = last.retained + new.retained
  BY <1>1, <1>3, <1>4
<1>9. g = [back |-> g.back, backSel |-> last.backSel, forth |-> g.forth,
           forthSel |-> new.forthSel, origin |-> last.origin, before |-> last.before,
           after |-> new.after, resume |-> new.resume,
           retained |-> last.retained + new.retained]
  BY <1>1, <1>3, <1>4, <1>8
<1> QED
  BY <1>2, <1>4, <1>5, <1>6, <1>9 DEF insert, from

\* The two halves of a text.
LEMMA Halves ==
  ASSUME NEW s \in Strings, NEW r \in Strings
  PROVE  Cut(s \o r, 0, Len(s)) = s /\ Cut(s \o r, Len(s), Len(s \o r)) = r
<1>1. /\ Len(s) \in Nat /\ Len(r) \in Nat /\ Len(s \o r) = Len(s) + Len(r)
      /\ Len(s) + 0 = Len(s) /\ 0 <= Len(r) /\ Len(r) <= Len(r) /\ Len(s) <= Len(s) /\ 0 \in Nat
  BY Joins, Lengths
<1>2. Cut(s \o r, 0, Len(s)) = Cut(s, 0, Len(s))
  BY ONLY <1>1, s \in Strings, r \in Strings, Keeps
<1>3. Cut(s \o r, Len(s) + 0, Len(s) + Len(r)) = Cut(r, 0, Len(r))
  BY ONLY <1>1, s \in Strings, r \in Strings, CutSecond DEF Strings
<1>4. Cut(s, 0, Len(s)) = s /\ Cut(r, 0, Len(r)) = r
  BY Whole
<1> QED
  BY <1>1, <1>2, <1>3, <1>4

\* A run that grows leads from where it started to where the new key did, and back.
LEMMA GrownIs ==
  ASSUME NEW t0, NEW t1, NEW t2, NEW last \in Entries, NEW new \in Entries,
         Leads(last, t0, t1), Leads(new, t1, t2), Coalesces(last, new)
  PROVE  /\ Grown(last, new) \in Entries /\ Leads(Grown(last, new), t0, t2)
         /\ Grown(last, new).before = last.before /\ Grown(last, new).after = new.after
         /\ Grown(last, new).retained = last.retained + new.retained
<1> DEFINE f == last.forth[1]
           k == new.forth[1]
           insert == f.insert \o k.insert
<1>1. /\ Fit(last.forth, t0) /\ Len(last.forth) = 1 /\ Fit(new.forth, t1) /\ Len(new.forth) = 1
      /\ t1 = Applied(t0, last.forth) /\ t2 = Applied(t1, new.forth)
      /\ last.back = Undoing(t0, last.forth) /\ last.resume = f.from + Len(f.insert)
      /\ new.resume = k.from + Len(k.insert) /\ k.from = k.to /\ k.from = last.resume
      /\ Len(last.backSel) = 1 /\ Len(new.forthSel) <= 1 /\ t0 \in Strings /\ t1 \in Strings
  BY DEF Leads, Coalesces, Fit
<1>2. /\ f \in Edits /\ f.from <= f.to /\ f.to <= Len(t0) /\ last.forth = <<f>>
      /\ t1 = (Cut(t0, 0, f.from) \o f.insert) \o Cut(t0, f.to, Len(t0))
      /\ last.back = <<Edit(f.from, f.from + Len(f.insert), Cut(t0, f.from, f.to))>>
  <2>1. PICK s : s = last.forth
    OBVIOUS
  <2>2. Fit(s, t0) /\ Len(s) = 1
    BY <1>1, <2>1
  <2>3. /\ s[1] \in Edits /\ s[1].from <= s[1].to /\ s[1].to <= Len(t0) /\ s = <<s[1]>>
        /\ Applied(t0, s) = (Cut(t0, 0, s[1].from) \o s[1].insert) \o Cut(t0, s[1].to, Len(t0))
        /\ Undoing(t0, s) = <<Edit(s[1].from, s[1].from + Len(s[1].insert), Cut(t0, s[1].from, s[1].to))>>
    BY ONLY <2>2, AppliedOne
  <2> QED
    BY <1>1, <2>1, <2>3
<1>3. /\ k \in Edits /\ k.from <= k.to /\ k.to <= Len(t1)
      /\ t2 = (Cut(t1, 0, k.from) \o k.insert) \o Cut(t1, k.to, Len(t1))
  BY <1>1, AppliedOne
<1>4. /\ f.from \in Nat /\ f.to \in Nat /\ f.insert \in Strings /\ Len(f.insert) \in Nat
      /\ k.from \in Nat /\ k.insert \in Strings /\ Len(k.insert) \in Nat /\ Len(t0) \in Nat
      /\ f = [from |-> f.from, to |-> f.to, insert |-> f.insert]
  BY <1>1, <1>2, <1>3, Lengths DEF Edits
<1> HIDE DEF f, k
<1>5. insert \in Strings /\ Len(insert) = Len(f.insert) + Len(k.insert)
  BY <1>4, Joins
<1>6. PICK g : g = Grown(last, new)
  OBVIOUS
<1>7. /\ g = [back |-> g.back, backSel |-> last.backSel, forth |-> g.forth,
              forthSel |-> new.forthSel, origin |-> last.origin, before |-> last.before,
              after |-> new.after, resume |-> new.resume,
              retained |-> last.retained + new.retained]
      /\ g.forth = [last.forth EXCEPT ![1].insert = insert]
      /\ g.back = [last.back EXCEPT ![1].from = f.from, ![1].to = f.from + Len(insert)]
  BY <1>6, GrownFields DEF f, k
<1> HIDE DEF insert
<1>8. PICK e : e = Edit(f.from, f.to, insert)
  OBVIOUS
<1>9. e \in Edits /\ e.from = f.from /\ e.to = f.to /\ e.insert = insert
  BY <1>4, <1>5, <1>8 DEF Edit, Edits
<1>10. g.forth = <<e>>
  <2>1. [f EXCEPT !.insert = insert] = e
    BY <1>4, <1>8 DEF Edit
  <2>2. g.forth = <<[f EXCEPT !.insert = insert]>>
    BY <1>2, <1>7
  <2> QED
    BY <2>1, <2>2
<1>11. g.back = <<Edit(f.from, f.from + Len(insert), Cut(t0, f.from, f.to))>>
  <2>1. PICK b, to, cut : /\ b = Edit(f.from, f.from + Len(f.insert), cut)
                          /\ cut = Cut(t0, f.from, f.to) /\ to = f.from + Len(insert)
    OBVIOUS
  <2>2. [b EXCEPT !.from = f.from] = b
    BY <2>1 DEF Edit
  <2>3. [b EXCEPT !.to = to] = Edit(f.from, to, cut)
    BY <2>1 DEF Edit
  <2>4. last.back = <<b>> /\ g.back = [last.back EXCEPT ![1].from = f.from, ![1].to = to]
    BY <1>2, <1>7, <2>1
  <2>5. [<<b>> EXCEPT ![1].from = f.from] = <<b>>
    BY <2>2
  <2>6. [<<b>> EXCEPT ![1].to = to] = <<Edit(f.from, to, cut)>>
    BY <2>3
  <2> QED
    BY <2>1, <2>4, <2>5, <2>6
<1>12. Fit(<<e>>, t0) /\ Len(<<e>>) = 1 /\ <<e>>[1] = e
  BY <1>1, <1>2, <1>9, OneFits
<1>13. /\ Applied(t0, <<e>>) = (Cut(t0, 0, e.from) \o e.insert) \o Cut(t0, e.to, Len(t0))
       /\ Undoing(t0, <<e>>) = <<Edit(e.from, e.from + Len(e.insert), Cut(t0, e.from, e.to))>>
  <2>1. PICK s : s = <<e>>
    OBVIOUS
  <2>2. /\ Applied(t0, s) = (Cut(t0, 0, s[1].from) \o s[1].insert) \o Cut(t0, s[1].to, Len(t0))
        /\ Undoing(t0, s) = <<Edit(s[1].from, s[1].from + Len(s[1].insert), Cut(t0, s[1].from, s[1].to))>>
    BY <1>12, <2>1, AppliedOne
  <2> QED
    BY <1>12, <2>1, <2>2
<1>14. t2 = Applied(t0, <<e>>)
  <2>1. PICK h \in Strings, r \in Strings : h = Cut(t0, 0, f.from) /\ r = Cut(t0, f.to, Len(t0)) /\ Len(h) = f.from
    <3>1. 0 \in Nat /\ 0 <= f.from /\ f.from <= Len(t0) /\ f.to <= Len(t0) /\ Len(t0) <= Len(t0) /\ f.from - 0 = f.from
      BY <1>2, <1>4
    <3>2. Cut(t0, 0, f.from) \in Strings /\ Len(Cut(t0, 0, f.from)) = f.from - 0
      BY ONLY <1>1, <1>4, <3>1, Piece
    <3>3. Cut(t0, f.to, Len(t0)) \in Strings
      BY ONLY <1>1, <1>4, <3>1, Piece
    <3> QED
      BY <3>1, <3>2, <3>3
  <2>2. t1 = (h \o f.insert) \o r /\ k.from = Len(h) + Len(f.insert)
    BY <1>1, <1>2, <2>1
  <2>3. (Cut(t1, 0, k.from) \o k.insert) \o Cut(t1, k.from, Len(t1)) = (h \o (f.insert \o k.insert)) \o r
    <3>1. PICK x \in Strings, y \in Strings, at \in Nat : x = f.insert /\ y = k.insert /\ at = k.from
      BY <1>4
    <3>2. t1 = (h \o x) \o r /\ at = Len(h) + Len(x)
      BY <2>2, <3>1
    <3>3. (Cut(t1, 0, at) \o y) \o Cut(t1, at, Len(t1)) = (h \o (x \o y)) \o r
      <4>1. h \o x \in Strings /\ Len(h \o x) = at
        BY <3>2, Joins
      <4>2. PICK s \in Strings : s = h \o x
        BY <4>1
      <4>3. Cut(s \o r, 0, Len(s)) = s /\ Cut(s \o r, Len(s), Len(s \o r)) = r
        BY ONLY s \in Strings, r \in Strings, Halves
      <4>4. t1 = s \o r /\ Len(s) = at
        BY <3>2, <4>1, <4>2
      <4>5. Cut(t1, 0, at) = s /\ Cut(t1, at, Len(t1)) = r
        BY ONLY <4>3, <4>4
      <4>6. (h \o x) \o y = h \o (x \o y)
        BY ONLY h \in Strings, x \in Strings, y \in Strings, Assoc, SMTT(30)
      <4> QED
        BY ONLY <4>2, <4>5, <4>6
    <3> QED
      BY <3>1, <3>3
  <2> QED
    BY <1>1, <1>3, <1>9, <1>13, <2>1, <2>3 DEF insert
<1>15. /\ g.back = Undoing(t0, g.forth) /\ g.resume = e.from + Len(e.insert)
       /\ g.back \in Seq(Edits) /\ g.forth \in Seq(Edits)
  <2>1. g.back = Undoing(t0, g.forth)
    BY <1>9, <1>10, <1>11, <1>13
  <2>2. g.resume = e.from + Len(e.insert)
    <3>1. g.resume = new.resume
      BY <1>7
    <3> QED
      BY <1>1, <1>4, <1>5, <1>9, <3>1, SMTT(30)
  <2>3. Fit(g.forth, t0)
    BY <1>10, <1>12
  <2>4. Undoing(t0, g.forth) \in Seq(Edits) /\ g.forth \in Seq(Edits)
    BY <2>3, UndoingIs DEF Fit
  <2> QED
    BY <2>1, <2>2, <2>4
<1>16. g \in Entries
  <2>1. last.retained + new.retained \in Nat
    BY DEF Entries
  <2>2. /\ last.backSel \in Seq(Selections) /\ new.forthSel \in Seq(Selections)
        /\ last.origin \in Origins /\ last.before \in Nat /\ new.after \in Nat /\ new.resume \in Nat
    BY DEF Entries
  <2>3. g.back \in Seq(Edits) /\ g.forth \in Seq(Edits)
    BY <1>15
  <2>4. [back |-> g.back, backSel |-> last.backSel, forth |-> g.forth,
         forthSel |-> new.forthSel, origin |-> last.origin, before |-> last.before,
         after |-> new.after, resume |-> new.resume,
         retained |-> last.retained + new.retained] \in Entries
    BY ONLY <2>1, <2>2, <2>3 DEF Entries
  <2> QED
    BY <1>7, <2>4
<1>17. Leads(g, t0, t2)
  <2>1. g.backSel = last.backSel /\ g.forthSel = new.forthSel
    BY <1>7
  <2>2. Good(last.backSel[1], Len(t0))
    BY DEF Leads
  <2> QED
    BY <1>1, <1>10, <1>12, <1>14, <1>15, <2>1, <2>2 DEF Leads
<1>18. g.before = last.before /\ g.after = new.after /\ g.retained = last.retained + new.retained
  BY <1>7
<1> QED
  BY <1>6, <1>16, <1>17, <1>18

-----------------------------------------------------------------------------
(* The texts that states name, and the entries that lead from one to the   *)
(* next.                                                                   *)

\* Texts within the limit, and a text for every state.
Fitting == {t \in Strings : Len(t) <= MaxLen}
Names   == [Nat -> Fitting]

\* An entry between two states that were named before the next one.
Link(e, named, next) ==
  /\ e.before < e.after /\ e.after < next
  /\ Leads(e, named[e.before], named[e.after])

\* What was done, up to a state: each entry starts where the one before it ended.
Past(entries, named, at, next) ==
  /\ entries \in Seq(Entries)
  /\ \A k \in 1 .. Len(entries) :
       /\ Link(entries[k], named, next)
       /\ entries[k].after = IF k = Len(entries) THEN at ELSE entries[k + 1].before

\* What was undone, the last undone last.
Future(entries, named, at, next) ==
  /\ entries \in Seq(Entries)
  /\ \A k \in 1 .. Len(entries) :
       /\ Link(entries[k], named, next)
       /\ entries[k].before = IF k = Len(entries) THEN at ELSE entries[k + 1].after

\* One more entry.
LEMMA Appended ==
  ASSUME NEW entries \in Seq(Entries), NEW e \in Entries
  PROVE  /\ Append(entries, e) \in Seq(Entries) /\ Len(entries) \in Nat
         /\ Len(Append(entries, e)) = Len(entries) + 1
         /\ Append(entries, e)[Len(entries) + 1] = e
         /\ \A k \in 1 .. Len(entries) : Append(entries, e)[k] = entries[k]
BY AppendProperties, LenProperties

\* Undo takes the newest entry from the past; the one before it ends where it starts.
LEMMA PastPop ==
  ASSUME NEW entries, NEW named, NEW at, NEW next, Past(entries, named, at, next), entries # <<>>
  PROVE  /\ Last(entries) \in Entries /\ Link(Last(entries), named, next) /\ Last(entries).after = at
         /\ Past(Front(entries), named, Last(entries).before, next)
<1>1. /\ entries \in Seq(Entries) /\ Len(entries) \in Nat \ {0} /\ Front(entries) \in Seq(Entries)
      /\ Last(entries) \in Entries
      /\ Len(Front(entries)) = Len(entries) - 1 /\ Last(entries) = entries[Len(entries)]
      /\ \A i \in 1 .. (Len(entries) - 1) : Front(entries)[i] = entries[i]
  BY FrontLast DEF Past, Last
<1>2. Link(Last(entries), named, next) /\ Last(entries).after = at
  <2>1. Len(entries) \in 1 .. Len(entries)
    BY <1>1
  <2> QED
    BY <1>1, <2>1 DEF Past
<1>3. PICK front : front = Front(entries)
  OBVIOUS
<1>4. ASSUME NEW k \in 1 .. Len(front)
      PROVE  /\ Link(front[k], named, next)
             /\ front[k].after = IF k = Len(front) THEN Last(entries).before ELSE front[k + 1].before
  <2>1. /\ k \in 1 .. Len(entries) /\ k \in 1 .. (Len(entries) - 1) /\ k # Len(entries)
        /\ Len(front) = Len(entries) - 1
    BY <1>1, <1>3
  <2>2. front[k] = entries[k] /\ Link(entries[k], named, next) /\ entries[k].after = entries[k + 1].before
    BY <1>1, <1>3, <2>1 DEF Past
  <2>3. CASE k = Len(front)
    <3>1. k + 1 = Len(entries)
      BY <1>1, <2>1, <2>3
    <3> QED
      BY <1>1, <2>2, <2>3, <3>1
  <2>4. CASE k # Len(front)
    <3>1. k + 1 \in 1 .. (Len(entries) - 1)
      BY <1>1, <2>1, <2>4
    <3> QED
      BY <1>1, <1>3, <2>2, <2>4, <3>1
  <2> QED
    BY <2>3, <2>4
<1>5. Past(front, named, Last(entries).before, next)
  BY <1>1, <1>3, <1>4 DEF Past
<1> QED
  BY <1>1, <1>2, <1>3, <1>5

\* Redo takes the last undone one from the future.
LEMMA FuturePop ==
  ASSUME NEW entries, NEW named, NEW at, NEW next, Future(entries, named, at, next), entries # <<>>
  PROVE  /\ Last(entries) \in Entries /\ Link(Last(entries), named, next) /\ Last(entries).before = at
         /\ Future(Front(entries), named, Last(entries).after, next)
<1>1. /\ entries \in Seq(Entries) /\ Len(entries) \in Nat \ {0} /\ Front(entries) \in Seq(Entries)
      /\ Last(entries) \in Entries
      /\ Len(Front(entries)) = Len(entries) - 1 /\ Last(entries) = entries[Len(entries)]
      /\ \A i \in 1 .. (Len(entries) - 1) : Front(entries)[i] = entries[i]
  BY FrontLast DEF Future, Last
<1>2. Link(Last(entries), named, next) /\ Last(entries).before = at
  <2>1. Len(entries) \in 1 .. Len(entries)
    BY <1>1
  <2> QED
    BY <1>1, <2>1 DEF Future
<1>3. PICK front : front = Front(entries)
  OBVIOUS
<1>4. ASSUME NEW k \in 1 .. Len(front)
      PROVE  /\ Link(front[k], named, next)
             /\ front[k].before = IF k = Len(front) THEN Last(entries).after ELSE front[k + 1].after
  <2>1. /\ k \in 1 .. Len(entries) /\ k \in 1 .. (Len(entries) - 1) /\ k # Len(entries)
        /\ Len(front) = Len(entries) - 1
    BY <1>1, <1>3
  <2>2. front[k] = entries[k] /\ Link(entries[k], named, next) /\ entries[k].before = entries[k + 1].after
    BY <1>1, <1>3, <2>1 DEF Future
  <2>3. CASE k = Len(front)
    <3>1. k + 1 = Len(entries)
      BY <1>1, <2>1, <2>3
    <3> QED
      BY <1>1, <2>2, <2>3, <3>1
  <2>4. CASE k # Len(front)
    <3>1. k + 1 \in 1 .. (Len(entries) - 1)
      BY <1>1, <2>1, <2>4
    <3> QED
      BY <1>1, <1>3, <2>2, <2>4, <3>1
  <2> QED
    BY <2>3, <2>4
<1>5. Future(front, named, Last(entries).after, next)
  BY <1>1, <1>3, <1>4 DEF Future
<1> QED
  BY <1>1, <1>2, <1>3, <1>5

\* Redo and record put an entry on the past.
LEMMA PastPush ==
  ASSUME NEW entries, NEW named, NEW at, NEW next, Past(entries, named, at, next),
         NEW e \in Entries, Link(e, named, next), e.before = at
  PROVE  Past(Append(entries, e), named, e.after, next)
<1>1. PICK s : s = Append(entries, e)
  OBVIOUS
<1>2. /\ s \in Seq(Entries) /\ Len(entries) \in Nat /\ Len(s) = Len(entries) + 1
      /\ s[Len(entries) + 1] = e /\ \A k \in 1 .. Len(entries) : s[k] = entries[k]
  BY <1>1, Appended DEF Past
<1>3. ASSUME NEW k \in 1 .. Len(s)
      PROVE  Link(s[k], named, next) /\ s[k].after = IF k = Len(s) THEN e.after ELSE s[k + 1].before
  <2>1. CASE k = Len(s)
    BY <1>2, <2>1
  <2>2. CASE k = Len(entries)
    <3>1. k \in 1 .. Len(entries) /\ k # Len(s) /\ s[k + 1] = e /\ s[k] = entries[k]
      BY <1>2, <2>2
    <3> QED
      BY <2>2, <3>1 DEF Past
  <2>3. CASE k # Len(s) /\ k # Len(entries)
    <3>1. k \in 1 .. Len(entries) /\ k + 1 \in 1 .. Len(entries)
      BY <1>2, <2>3
    <3> QED
      BY <1>2, <2>3, <3>1 DEF Past
  <2> QED
    BY <2>1, <2>2, <2>3
<1> QED
  BY <1>1, <1>2, <1>3 DEF Past

\* Undo puts one on the future.
LEMMA FuturePush ==
  ASSUME NEW entries, NEW named, NEW at, NEW next, Future(entries, named, at, next),
         NEW e \in Entries, Link(e, named, next), e.after = at
  PROVE  Future(Append(entries, e), named, e.before, next)
<1>1. PICK s : s = Append(entries, e)
  OBVIOUS
<1>2. /\ s \in Seq(Entries) /\ Len(entries) \in Nat /\ Len(s) = Len(entries) + 1
      /\ s[Len(entries) + 1] = e /\ \A k \in 1 .. Len(entries) : s[k] = entries[k]
  BY <1>1, Appended DEF Future
<1>3. ASSUME NEW k \in 1 .. Len(s)
      PROVE  Link(s[k], named, next) /\ s[k].before = IF k = Len(s) THEN e.before ELSE s[k + 1].after
  <2>1. CASE k = Len(s)
    BY <1>2, <2>1
  <2>2. CASE k = Len(entries)
    <3>1. k \in 1 .. Len(entries) /\ k # Len(s) /\ s[k + 1] = e /\ s[k] = entries[k]
      BY <1>2, <2>2
    <3> QED
      BY <2>2, <3>1 DEF Future
  <2>3. CASE k # Len(s) /\ k # Len(entries)
    <3>1. k \in 1 .. Len(entries) /\ k + 1 \in 1 .. Len(entries)
      BY <1>2, <2>3
    <3> QED
      BY <1>2, <2>3, <3>1 DEF Future
  <2> QED
    BY <2>1, <2>2, <2>3
<1> QED
  BY <1>1, <1>2, <1>3 DEF Future

\* The newest entries of a past are a past.
LEMMA PastCut ==
  ASSUME NEW entries, NEW named, NEW at, NEW next, Past(entries, named, at, next),
         NEW n \in 0 .. Len(entries)
  PROVE  Past(Cut(entries, n, Len(entries)), named, at, next)
<1>1. PICK s : s = Cut(entries, n, Len(entries))
  OBVIOUS
<1>2. /\ s \in Seq(Entries) /\ Len(entries) \in Nat /\ Len(s) = Len(entries) - n
      /\ \A k \in 1 .. Len(s) : s[k] = entries[n + k]
  <2>1. /\ entries \in Seq(Entries) /\ Len(entries) \in Nat /\ n \in Nat /\ n <= Len(entries)
        /\ Len(entries) <= Len(entries)
    BY LenProperties DEF Past
  <2>2. /\ Cut(entries, n, Len(entries)) \in Seq(Entries) /\ Len(Cut(entries, n, Len(entries))) = Len(entries) - n
        /\ \A i \in 1 .. (Len(entries) - n) : Cut(entries, n, Len(entries))[i] = entries[n + i]
    BY ONLY <2>1, CutType
  <2> QED
    BY <1>1, <2>1, <2>2
<1>3. ASSUME NEW k \in 1 .. Len(s)
      PROVE  Link(s[k], named, next) /\ s[k].after = IF k = Len(s) THEN at ELSE s[k + 1].before
  <2>1. n + k \in 1 .. Len(entries) /\ s[k] = entries[n + k] /\ (n + k = Len(entries) <=> k = Len(s))
    BY <1>2
  <2>2. k # Len(s) => s[k + 1] = entries[(n + k) + 1]
    <3> SUFFICES ASSUME k # Len(s) PROVE s[k + 1] = entries[(n + k) + 1]
      OBVIOUS
    <3>0. k \in Nat /\ n \in Nat /\ Len(s) \in Nat /\ k \in 1 .. Len(s)
      BY <1>2, LenProperties
    <3>1. k + 1 \in 1 .. Len(s) /\ n + (k + 1) = (n + k) + 1
      BY <3>0
    <3> QED
      BY <1>2, <3>1
  <2> QED
    BY <2>1, <2>2 DEF Past
<1> QED
  BY <1>1, <1>2, <1>3 DEF Past

\* A past stays one when a later state is named.
LEMMA PastLater ==
  ASSUME NEW entries, NEW named, NEW at, NEW next \in Nat, Past(entries, named, at, next),
         NEW later, NEW more \in Nat, next <= more, \A s \in 0 .. (next - 1) : later[s] = named[s]
  PROVE  Past(entries, later, at, more)
<1>1. ASSUME NEW k \in 1 .. Len(entries) PROVE Link(entries[k], later, more)
  <2>1. Link(entries[k], named, next) /\ entries[k] \in Entries
    BY DEF Past
  <2>2. entries[k].before \in Nat /\ entries[k].after \in Nat
    BY <2>1 DEF Entries
  <2>3. entries[k].before < entries[k].after /\ entries[k].after < next
    BY <2>1 DEF Link
  <2>4. entries[k].before \in 0 .. (next - 1) /\ entries[k].after \in 0 .. (next - 1) /\ entries[k].after < more
    BY <2>2, <2>3
  <2>5. later[entries[k].before] = named[entries[k].before] /\ later[entries[k].after] = named[entries[k].after]
    BY <2>4
  <2> QED
    BY <2>1, <2>3, <2>4, <2>5 DEF Link
<1> QED
  BY <1>1 DEF Past

\* The entries with one more, or with a longer newest one.
Extends(list, entries, new) ==
  \/ list = Append(entries, new)
  \/ /\ entries # <<>> /\ Coalesces(Last(entries), new)
     /\ list = Append(Front(entries), Grown(Last(entries), new))

\* An edit that is recorded extends the past, or lengthens its newest entry.
LEMMA PastRecords ==
  ASSUME NEW entries, NEW named, NEW at \in Nat, NEW next \in Nat, Past(entries, named, at, next),
         at < next, NEW later, \A s \in 0 .. (next - 1) : later[s] = named[s],
         NEW new \in Entries, new.before = at, new.after = next, Leads(new, later[at], later[next]),
         NEW list, Extends(list, entries, new)
  PROVE  /\ Past(list, later, next, next + 1) /\ list # <<>>
         /\ RetainedBy(list) = RetainedBy(entries) + new.retained
<1>1. entries \in Seq(Entries) /\ next + 1 \in Nat /\ next <= next + 1 /\ next < next + 1
  BY DEF Past
<1>2. Past(entries, later, at, next + 1)
  BY ONLY <1>1, next \in Nat, Past(entries, named, at, next),
          \A s \in 0 .. (next - 1) : later[s] = named[s], PastLater
<1>3. Link(new, later, next + 1)
  BY <1>1 DEF Link
<1>4. CASE list = Append(entries, new)
  <2>1. Past(list, later, next, next + 1)
    BY <1>2, <1>3, <1>4, PastPush
  <2>2. list # <<>> /\ RetainedBy(list) = RetainedBy(entries) + new.retained
    <3>1. Len(list) = Len(entries) + 1 /\ Len(entries) \in Nat
      BY <1>1, <1>4, Appended
    <3> QED
      BY <1>1, <1>4, <3>1, RetainedAppend, EmptySeq
  <2> QED
    BY <2>1, <2>2
<1>5. CASE /\ entries # <<>> /\ Coalesces(Last(entries), new)
           /\ list = Append(Front(entries), Grown(Last(entries), new))
  <2>1. PICK last, front : last = Last(entries) /\ front = Front(entries)
    OBVIOUS
  <2>2. /\ last \in Entries /\ Link(last, later, next + 1) /\ last.after = at
        /\ Past(front, later, last.before, next + 1)
    BY <1>2, <1>5, <2>1, PastPop
  <2>3. Leads(last, later[last.before], later[at]) /\ last.before < last.after
    BY <2>2 DEF Link
  <2>4. PICK g : g = Grown(last, new)
    OBVIOUS
  <2>5. /\ g \in Entries /\ Leads(g, later[last.before], later[next])
        /\ g.before = last.before /\ g.after = next /\ g.retained = last.retained + new.retained
    BY <1>5, <2>1, <2>2, <2>3, <2>4, GrownIs
  <2>6. g.before < g.after
    <3>1. last.before \in Nat
      BY <2>2 DEF Entries
    <3> QED
      BY <2>2, <2>3, <2>5, <3>1
  <2>7. Link(g, later, next + 1)
    BY <1>1, <2>5, <2>6 DEF Link
  <2>8. list = Append(front, g)
    BY <1>5, <2>1, <2>4
  <2>9. Past(list, later, next, next + 1)
    BY <2>2, <2>5, <2>7, <2>8, PastPush
  <2>10. front \in Seq(Entries) /\ entries = Append(front, last)
    BY <1>1, <1>5, <2>1, FrontLast
  <2>11. RetainedBy(list) = RetainedBy(front) + g.retained
    BY <2>5, <2>8, <2>10, RetainedAppend
  <2>12. RetainedBy(entries) = RetainedBy(front) + last.retained
    BY <2>2, <2>10, RetainedAppend
  <2>13. RetainedBy(front) \in Nat /\ last.retained \in Nat /\ new.retained \in Nat
    BY <2>2, <2>10, HeldType DEF Entries
  <2>14. list # <<>>
    <3>1. Len(list) = Len(front) + 1 /\ Len(front) \in Nat
      BY <2>5, <2>8, <2>10, Appended
    <3> QED
      BY <3>1, EmptySeq
  <2> QED
    BY <2>5, <2>9, <2>11, <2>12, <2>13, <2>14
<1> QED
  BY <1>4, <1>5 DEF Extends

\* What is left of a past when the budget is kept.
LEMMA PastTrims ==
  ASSUME NEW list, NEW named, NEW at, NEW next, Past(list, named, at, next), list # <<>>,
         NEW trim, trim = Trimmed(list, RetainedBy(list))
  PROVE  /\ Past(trim.undo, named, at, next)
         /\ trim.retained = RetainedBy(trim.undo) /\ Len(trim.undo) <= MaxEntries
         /\ trim.retained > MaxBytes => Len(trim.undo) = 1
<1>1. list \in Seq(Entries) /\ Len(list) \in Nat
  BY LenProperties DEF Past
<1>2. PICK n \in 0 .. (Len(list) - 1) :
        /\ trim.undo = Cut(list, n, Len(list))
        /\ trim.retained = RetainedBy(Cut(list, n, Len(list)))
        /\ Len(list) - n <= MaxEntries
        /\ RetainedBy(Cut(list, n, Len(list))) > MaxBytes => Len(list) - n = 1
  BY <1>1, TrimmedIs
<1>3. n \in 0 .. Len(list) /\ n \in Nat /\ n <= Len(list) /\ Len(list) <= Len(list)
  BY <1>1
<1>4. Past(Cut(list, n, Len(list)), named, at, next)
  BY <1>3, PastCut
<1>5. Len(Cut(list, n, Len(list))) = Len(list) - n
  BY ONLY <1>1, <1>3, CutType
<1> QED
  BY <1>2, <1>4, <1>5

-----------------------------------------------------------------------------
(* The inductive invariant: every state that was named has one text, and   *)
(* the entries lead from one to the next.                                  *)

\* The document, given the text of every state.
Document(named) ==
  /\ named \in Names
  /\ state \in Nat /\ nextState \in Nat /\ state < nextState /\ nextState <= MaxEdits + 1
  /\ named[state] = text
  /\ Good(selection, Len(text))
  /\ Past(undo, named, state, nextState)
  /\ Future(redo, named, state, nextState)
  /\ retained = RetainedBy(undo) + RetainedBy(redo)
  /\ Len(undo) + Len(redo) <= MaxEntries
  /\ retained > MaxBytes => Len(undo) + Len(redo) = 1
  /\ sealed \in BOOLEAN /\ readOnly \in BOOLEAN

\* The file, and what is being written to it.
Filed(named) ==
  /\ savedState \in 0 .. (nextState - 1) /\ savedText = named[savedState]
  /\ \/ snapshot = NoSnapshot
     \/ snapshot.state \in 0 .. (nextState - 1) /\ snapshot.text = named[snapshot.state]

\* Some text for every state makes both true.
EditorInv == \E named \in Names : Document(named) /\ Filed(named)

\* What a state names is a text within the limit.
LEMMA NamedText ==
  ASSUME NEW named \in Names, NEW s \in Nat
  PROVE  named[s] \in Strings /\ Len(named[s]) \in Nat /\ Len(named[s]) <= MaxLen
BY Lengths DEF Names, Fitting

\* So is the text shown.
LEMMA DocumentText ==
  ASSUME NEW named, Document(named)
  PROVE  text \in Strings /\ Len(text) \in Nat /\ Len(text) <= MaxLen
BY NamedText DEF Document

\* The head of the primary caret is an offset.
LEMMA PrimaryIs ==
  ASSUME NEW sel \in Selections
  PROVE  PrimaryHead(sel) \in Nat
<1>1. sel.cursors \in Seq(Cursors) /\ sel.primary \in 1 .. Len(sel.cursors)
  BY DEF Selections
<1>2. sel.cursors[sel.primary] \in Cursors
  BY <1>1
<1> QED
  BY <1>2 DEF PrimaryHead, Cursors

\* One caret is a selection.
LEMMA OneIs ==
  ASSUME NEW at \in Nat
  PROVE  One(Caret(at)) \in Selections
<1>1. Caret(at) \in Cursors
  BY DEF Caret, Cursors
<1>2. PICK s : s = <<Caret(at)>>
  OBVIOUS
<1>3. s \in Seq(Cursors) /\ Len(s) = 1
  BY <1>1, <1>2
<1>4. One(Caret(at)) = [cursors |-> s, primary |-> 1]
  BY <1>2 DEF One
<1>5. PICK sel : sel = [cursors |-> s, primary |-> 1]
  OBVIOUS
<1>6. sel \in [cursors : Seq(Cursors), primary : Nat] /\ sel.primary \in 1 .. Len(sel.cursors)
  BY <1>3, <1>5
<1> QED
  BY <1>4, <1>5, <1>6 DEF Selections

\* Carets land in the text the edits make.
LEMMA LandedIs ==
  ASSUME NEW named, Document(named), NEW edits, Fit(edits, text),
         NEW after \in Seq(Selections), Len(after) <= 1
  PROVE  Good(Landed(after, edits), Len(Applied(text, edits)))
<1>1. selection \in Selections
  BY DEF Document, Good
<1>2. Resume(edits, PrimaryHead(selection)) \in Nat
  BY <1>1, PrimaryIs, ResumeIs
<1>3. Applied(text, edits) \in Strings
  BY AppliedIs
<1>4. PICK sel : sel = IF after = <<>> THEN One(Caret(Resume(edits, PrimaryHead(selection)))) ELSE after[1]
  OBVIOUS
<1>5. sel \in Selections
  <2>1. CASE after = <<>>
    BY <1>2, <1>4, <2>1, OneIs
  <2>2. CASE after # <<>>
    <3>1. Len(after) \in Nat /\ Len(after) # 0
      BY <2>2, LenProperties, EmptySeq
    <3>2. 1 \in 1 .. Len(after)
      BY <3>1
    <3> QED
      BY <1>4, <2>2, <3>2, ElementOfSeq
  <2> QED
    BY <2>1, <2>2
<1>6. Landed(after, edits) = Clamped(sel, Applied(text, edits))
  BY <1>4 DEF Landed
<1> QED
  BY <1>3, <1>5, <1>6, ClampedIs

\* What is undone is forgotten, and what is recorded is one step more or joins the newest.
Remembers ==
  /\ redo' = <<>>
  /\ \E new \in Entries, list \in Seq(Entries) :
       /\ new.before = state /\ new.backSel = <<selection>>
       /\ Extends(list, undo, new)
       /\ \E n \in 0 .. (Len(list) - 1) : undo' = Cut(list, n, Len(list))

\* A new state, named by the new text.
Advance(named, later) ==
  /\ Document(later)'
  /\ \A s \in 0 .. (nextState - 1) : later[s] = named[s]
  /\ later[state'] = text'
  /\ state' = nextState /\ nextState' = nextState + 1
  /\ Remembers

\* An edit that is recorded: the new state is named by the new text.
LEMMA Transacts ==
  ASSUME NEW named, Document(named), NEW edits, NEW origin \in Origins,
         NEW after \in Seq(Selections), Len(after) <= 1,
         Fit(InOrder(edits), text), Len(Applied(text, InOrder(edits))) <= MaxLen,
         Transact(edits, origin, after), sealed' \in BOOLEAN, readOnly' \in BOOLEAN
  PROVE  \E later \in Names : Advance(named, later)
<1>1. PICK ordered : ordered = InOrder(edits)
  OBVIOUS
<1>2. PICK back : back = InverseOf(text, ordered)
  OBVIOUS
<1>3. PICK new : new = [back |-> back, backSel |-> <<selection>>,
                forth |-> ordered, forthSel |-> after, origin |-> origin,
                before |-> state, after |-> nextState,
                resume |-> Resume(ordered, PrimaryHead(selection)),
                retained |-> Weight(back) + Weight(ordered)]
  OBVIOUS
<1>4. /\ nextState <= MaxEdits /\ text' = Applied(text, ordered)
      /\ selection' = Landed(after, ordered)
      /\ state' = nextState /\ nextState' = nextState + 1 /\ Record(new)
  BY <1>1, <1>2, <1>3 DEF Transact
<1>5. /\ named \in Names /\ state \in Nat /\ nextState \in Nat /\ state < nextState
      /\ named[state] = text /\ Good(selection, Len(text)) /\ selection \in Selections
      /\ Past(undo, named, state, nextState) /\ undo \in Seq(Entries) /\ redo \in Seq(Entries)
      /\ retained = RetainedBy(undo) + RetainedBy(redo)
  BY DEF Document, Good, Past, Future
<1>6. /\ Fit(ordered, text) /\ Len(Applied(text, ordered)) <= MaxLen
      /\ text \in Strings /\ Applied(text, ordered) \in Strings
  BY <1>1, DocumentText, AppliedIs
<1>7. PICK later : later = [named EXCEPT ![nextState] = Applied(text, ordered)]
  OBVIOUS
<1>8. /\ later \in Names /\ later[nextState] = Applied(text, ordered) /\ later[state] = text
      /\ \A s \in 0 .. (nextState - 1) : later[s] = named[s]
  <2>1. Applied(text, ordered) \in Fitting
    BY <1>6 DEF Fitting
  <2>2. /\ later \in Names /\ later[nextState] = Applied(text, ordered)
        /\ \A s \in Nat : s # nextState => later[s] = named[s]
    BY <1>5, <1>7, <2>1 DEF Names
  <2>3. \A s \in 0 .. (nextState - 1) : s \in Nat /\ s # nextState
    BY <1>5
  <2>4. state # nextState
    BY <1>5
  <2> QED
    BY <1>5, <2>2, <2>3, <2>4
<1>9. /\ back = Undoing(text, ordered) /\ back \in Seq(Edits) /\ ordered \in Seq(Edits)
      /\ Fit(back, Applied(text, ordered))
  BY <1>2, <1>6, InverseIs, UndoingIs DEF Fit
<1>10. /\ Resume(ordered, PrimaryHead(selection)) \in Nat /\ Weight(ordered) \in Nat /\ Weight(back) \in Nat
  BY <1>5, <1>6, <1>9, PrimaryIs, ResumeIs
<1>11. <<selection>> \in Seq(Selections) /\ Len(<<selection>>) = 1
  BY <1>5
<1>12. new \in Entries
  <2>1. Weight(back) + Weight(ordered) \in Nat
    BY <1>10
  <2> QED
    BY ONLY <1>3, <1>5, <1>9, <1>10, <1>11, <2>1, origin \in Origins, after \in Seq(Selections) DEF Entries
<1>13. /\ new.before = state /\ new.after = nextState /\ new.forth = ordered /\ new.back = back
       /\ new.backSel = <<selection>> /\ new.forthSel = after
       /\ new.resume = Resume(ordered, PrimaryHead(selection))
  BY <1>3
<1>14. Leads(new, later[state], later[nextState])
  <2>1. Len(ordered) = 1 => new.resume = ordered[1].from + Len(ordered[1].insert)
    BY <1>6, <1>13, AppliedOne
  <2>2. Good(new.backSel[1], Len(text))
    BY <1>5, <1>13
  <2> QED
    BY <1>6, <1>8, <1>9, <1>11, <1>13, <2>1, <2>2 DEF Leads
<1>15. PICK list : list = IF ~sealed /\ undo # <<>> /\ Coalesces(Last(undo), new)
                          THEN Append(Front(undo), Grown(Last(undo), new))
                          ELSE Append(undo, new)
  OBVIOUS
<1>16. Extends(list, undo, new)
  BY <1>15 DEF Extends
<1>17. /\ Past(list, later, nextState, nextState + 1) /\ list # <<>>
       /\ RetainedBy(list) = RetainedBy(undo) + new.retained
  <2>1. PICK u, at, next : u = undo /\ at = state /\ next = nextState
    OBVIOUS
  <2>2. /\ Past(u, named, at, next) /\ at < next /\ \A s \in 0 .. (next - 1) : later[s] = named[s]
        /\ new \in Entries /\ new.before = at /\ new.after = next /\ Leads(new, later[at], later[next])
        /\ Extends(list, u, new)
    BY <1>5, <1>8, <1>12, <1>13, <1>14, <1>16, <2>1
  <2>3. Past(list, later, next, next + 1) /\ list # <<>> /\ RetainedBy(list) = RetainedBy(u) + new.retained
    <3>1. at \in Nat /\ next \in Nat
      BY <1>5, <2>1
    <3> QED
      BY ONLY <2>2, <3>1, PastRecords
  <2> QED
    BY <2>1, <2>3
<1>18. PICK trim : trim = Trimmed(list, RetainedBy(list))
  OBVIOUS
<1>19. (retained - RetainedBy(redo)) + new.retained = RetainedBy(list)
  <2>1. RetainedBy(undo) \in Nat /\ RetainedBy(redo) \in Nat /\ new.retained \in Nat
    BY <1>5, <1>12, HeldType DEF Entries
  <2> QED
    BY <1>5, <1>17, <2>1
<1>20. undo' = trim.undo /\ retained' = trim.retained /\ redo' = <<>>
  BY <1>4, <1>15, <1>18, <1>19 DEF Record
<1>21. /\ Past(undo', later, nextState, nextState + 1)
       /\ retained' = RetainedBy(undo') /\ Len(undo') <= MaxEntries
       /\ retained' > MaxBytes => Len(undo') = 1
  BY <1>17, <1>18, <1>20, PastTrims
<1>22. /\ RetainedBy(redo') = 0 /\ Len(redo') = 0 /\ redo' \in Seq(Entries)
       /\ Future(redo', later, nextState, nextState + 1)
  <2>1. PICK none : none = <<>>
    OBVIOUS
  <2>2. none \in Seq(Entries) /\ Len(none) = 0
    BY <2>1, EmptySeq
  <2>3. Held(none) = <<>>
    BY <2>1 DEF Held
  <2>4. RetainedBy(none) = 0
    BY <2>2, <2>3, HeldType, SumNone
  <2>5. Future(none, later, nextState, nextState + 1)
    BY <2>2 DEF Future
  <2> QED
    BY <1>20, <2>1, <2>2, <2>4, <2>5
<1>23. /\ RetainedBy(undo') \in Nat /\ Len(undo') \in Nat
  BY <1>21, HeldType, LenProperties DEF Past
<1>24. Good(selection', Len(text'))
  BY <1>4, <1>6, LandedIs
<1>25. Document(later)'
  <2>1. /\ state' \in Nat /\ nextState' \in Nat /\ state' < nextState' /\ nextState' <= MaxEdits + 1
    BY <1>4, <1>5, DocumentAssumption
  <2>2. later[state'] = text'
    BY <1>4, <1>8
  <2>3. /\ Past(undo', later, state', nextState') /\ Future(redo', later, state', nextState')
    BY <1>4, <1>21, <1>22
  <2>4. /\ retained' = RetainedBy(undo') + RetainedBy(redo')
        /\ Len(undo') + Len(redo') <= MaxEntries
        /\ retained' > MaxBytes => Len(undo') + Len(redo') = 1
    BY <1>21, <1>22, <1>23
  <2> QED
    BY <1>8, <1>24, <2>1, <2>2, <2>3, <2>4 DEF Document
<1>26. Remembers
  <2>1. list \in Seq(Entries)
    BY <1>17 DEF Past
  <2>2. PICK n \in 0 .. (Len(list) - 1) : trim.undo = Cut(list, n, Len(list))
    BY <1>17, <1>18, <2>1, TrimmedIs
  <2> QED
    BY <1>12, <1>13, <1>16, <1>20, <2>1, <2>2 DEF Remembers
<1>27. Advance(named, later)
  BY <1>4, <1>8, <1>25, <1>26 DEF Advance
<1> QED
  BY <1>8, <1>27

\* Edits that are valid fit the text, and what they make is within the limit.
LEMMA ValidIs ==
  ASSUME NEW named, Document(named), NEW edits \in Seq(Edits),
         \A i \in 1 .. Len(edits) : edits[i].from <= edits[i].to, Valid(edits)
  PROVE  Fit(InOrder(edits), text) /\ Len(Applied(text, InOrder(edits))) <= MaxLen
<1>1. PICK ordered : ordered = InOrder(edits)
  OBVIOUS
<1>2. /\ ordered \in Seq(Edits) /\ Len(ordered) = Len(edits) /\ Len(edits) \in Nat
      /\ \A k \in 1 .. Len(edits) : \E i \in 1 .. Len(edits) : ordered[k] = edits[i]
  BY <1>1, InOrderIs, LenProperties
<1>3. /\ Disjoint(ordered) /\ \A i \in DOMAIN ordered : ordered[i].to <= Len(text)
      /\ Len(text) + Growth(ordered) <= MaxLen
  BY <1>1 DEF Valid
<1>4. ASSUME NEW n \in 1 .. Len(ordered) PROVE ordered[n].from <= ordered[n].to /\ ordered[n].to <= Len(text)
  <2>1. n \in DOMAIN ordered
    BY <1>2, LenProperties
  <2> QED
    BY <1>2, <1>3, <2>1
<1>5. Fit(ordered, text)
  BY <1>2, <1>3, <1>4, DocumentText DEF Fit
<1>6. Len(Applied(text, ordered)) = Len(text) + Growth(ordered)
  BY <1>5, AppliedIs
<1> QED
  BY <1>1, <1>3, <1>5, <1>6

\* What the file holds stays named when a state is added.
LEMMA FiledKept ==
  ASSUME NEW named, Document(named), Filed(named), NEW later,
         \A s \in 0 .. (nextState - 1) : later[s] = named[s],
         nextState' = nextState + 1, snapshot' = snapshot,
         \/ savedState' = savedState /\ savedText' = savedText
         \/ savedState' = nextState /\ savedText' = later[nextState]
  PROVE  Filed(later)'
<1>1. nextState \in Nat /\ 0 .. (nextState - 1) \subseteq 0 .. (nextState' - 1) /\ nextState \in 0 .. (nextState' - 1)
  BY DEF Document
<1>2. savedState' \in 0 .. (nextState' - 1) /\ savedText' = later[savedState']
  BY <1>1 DEF Filed
<1>3. \/ snapshot' = NoSnapshot
      \/ snapshot'.state \in 0 .. (nextState' - 1) /\ snapshot'.text = later[snapshot'.state]
  BY <1>1 DEF Filed
<1> QED
  BY <1>2, <1>3 DEF Filed, NoSnapshot

\* Undo goes back to the text of the state before its entry, and its carets fit it.
LEMMA UndoKeeps ==
  ASSUME NEW named, Document(named), Undo
  PROVE  Document(named)'
<1>1. PICK e : e = Last(undo)
  OBVIOUS
<1>2. /\ undo # <<>> /\ undo' = Front(undo) /\ redo' = Append(redo, e)
      /\ text' = Applied(text, e.back) /\ selection' = Landed(e.backSel, e.back)
      /\ state' = e.before /\ sealed' = TRUE /\ readOnly' = readOnly
      /\ nextState' = nextState /\ retained' = retained
  BY <1>1 DEF Undo, Replay
<1>3. /\ named \in Names /\ state \in Nat /\ nextState \in Nat /\ state < nextState
      /\ nextState <= MaxEdits + 1 /\ readOnly \in BOOLEAN
      /\ named[state] = text
      /\ Past(undo, named, state, nextState) /\ undo \in Seq(Entries)
      /\ Future(redo, named, state, nextState) /\ redo \in Seq(Entries)
      /\ retained = RetainedBy(undo) + RetainedBy(redo)
      /\ Len(undo) + Len(redo) <= MaxEntries
      /\ retained > MaxBytes => Len(undo) + Len(redo) = 1
  BY DEF Document, Past, Future
<1>4. /\ e \in Entries /\ Link(e, named, nextState) /\ e.after = state
      /\ Past(undo', named, e.before, nextState)
  BY <1>1, <1>2, <1>3, PastPop
<1>5. Future(redo', named, e.before, nextState)
  BY <1>2, <1>3, <1>4, FuturePush
<1>6. /\ Leads(e, named[e.before], text) /\ e.before < state
      /\ e.before \in Nat /\ e.backSel \in Seq(Selections) /\ e.retained \in Nat
  BY <1>3, <1>4 DEF Link, Entries
<1>7. Fit(e.back, text) /\ Applied(text, e.back) = named[e.before] /\ Len(e.backSel) = 1
  <2>1. /\ Fit(e.forth, named[e.before]) /\ text = Applied(named[e.before], e.forth)
        /\ e.back = Undoing(named[e.before], e.forth) /\ Len(e.backSel) = 1
    BY <1>6 DEF Leads
  <2> QED
    BY <2>1, InverseIs, Undone
<1>8. Good(selection', Len(text'))
  <2>1. Len(e.backSel) <= 1
    BY <1>7
  <2>2. Good(Landed(e.backSel, e.back), Len(Applied(text, e.back)))
    BY <1>6, <1>7, <2>1, LandedIs
  <2> QED
    BY <1>2, <2>2
<1>9. PICK front, last : front = Front(undo) /\ last = Append(redo, e)
  OBVIOUS
<1>10. /\ front \in Seq(Entries) /\ undo = Append(front, e)
       /\ Len(undo) = Len(front) + 1 /\ Len(front) \in Nat
  <2>1. front \in Seq(Entries) /\ undo = Append(front, e)
    BY <1>1, <1>2, <1>3, <1>9, FrontLast
  <2> QED
    BY <1>4, <2>1, Appended
<1>11. last \in Seq(Entries) /\ Len(last) = Len(redo) + 1 /\ Len(redo) \in Nat
  BY <1>3, <1>4, <1>9, Appended
<1>12. RetainedBy(undo) = RetainedBy(front) + e.retained /\ RetainedBy(last) = RetainedBy(redo) + e.retained
  BY <1>3, <1>4, <1>9, <1>10, RetainedAppend
<1>13. RetainedBy(front) \in Nat /\ RetainedBy(redo) \in Nat
  BY <1>3, <1>10, HeldType
<1>14. /\ retained' = RetainedBy(undo') + RetainedBy(redo')
       /\ Len(undo') + Len(redo') = Len(undo) + Len(redo)
  <2>1. undo' = front /\ redo' = last
    BY <1>2, <1>9
  <2>2. PICK a \in Nat, b \in Nat : a = RetainedBy(front) /\ b = RetainedBy(redo)
    BY <1>13
  <2>3. PICK c \in Nat : c = e.retained
    BY <1>6
  <2>4. retained = (a + c) + b /\ RetainedBy(last) = b + c /\ retained' = retained
    BY <1>2, <1>3, <1>12, <2>2, <2>3
  <2>5. retained' = RetainedBy(front) + RetainedBy(last)
    BY ONLY <2>2, <2>4, a \in Nat, b \in Nat, c \in Nat
  <2>6. Len(front) + Len(last) = Len(undo) + Len(redo)
    BY <1>10, <1>11
  <2> QED
    BY <2>1, <2>5, <2>6
<1>15. e.before < nextState
  BY <1>3, <1>6
<1> QED
  BY <1>2, <1>3, <1>4, <1>5, <1>6, <1>7, <1>8, <1>14, <1>15 DEF Document

\* Redo goes on to the text of the state after its entry.
LEMMA RedoKeeps ==
  ASSUME NEW named, Document(named), Redo
  PROVE  Document(named)'
<1>1. PICK e : e = Last(redo)
  OBVIOUS
<1>2. /\ redo # <<>> /\ redo' = Front(redo) /\ undo' = Append(undo, e)
      /\ text' = Applied(text, e.forth) /\ selection' = Landed(e.forthSel, e.forth)
      /\ state' = e.after /\ sealed' = TRUE /\ readOnly' = readOnly
      /\ nextState' = nextState /\ retained' = retained
  BY <1>1 DEF Redo, Replay
<1>3. /\ named \in Names /\ state \in Nat /\ nextState \in Nat /\ state < nextState
      /\ nextState <= MaxEdits + 1 /\ readOnly \in BOOLEAN
      /\ named[state] = text
      /\ Past(undo, named, state, nextState) /\ undo \in Seq(Entries)
      /\ Future(redo, named, state, nextState) /\ redo \in Seq(Entries)
      /\ retained = RetainedBy(undo) + RetainedBy(redo)
      /\ Len(undo) + Len(redo) <= MaxEntries
      /\ retained > MaxBytes => Len(undo) + Len(redo) = 1
  BY DEF Document, Past, Future
<1>4. /\ e \in Entries /\ Link(e, named, nextState) /\ e.before = state
      /\ Future(redo', named, e.after, nextState)
  BY <1>1, <1>2, <1>3, FuturePop
<1>5. Past(undo', named, e.after, nextState)
  BY <1>2, <1>3, <1>4, PastPush
<1>6. /\ Leads(e, text, named[e.after]) /\ e.after < nextState
      /\ e.after \in Nat /\ e.forthSel \in Seq(Selections) /\ e.retained \in Nat
  BY <1>3, <1>4 DEF Link, Entries
<1>7. Fit(e.forth, text) /\ Applied(text, e.forth) = named[e.after] /\ Len(e.forthSel) <= 1
  BY <1>6 DEF Leads
<1>8. Good(selection', Len(text'))
  <2>1. Good(Landed(e.forthSel, e.forth), Len(Applied(text, e.forth)))
    BY <1>6, <1>7, LandedIs
  <2> QED
    BY <1>2, <2>1
<1>9. PICK front, last : front = Front(redo) /\ last = Append(undo, e)
  OBVIOUS
<1>10. /\ front \in Seq(Entries) /\ redo = Append(front, e)
       /\ Len(redo) = Len(front) + 1 /\ Len(front) \in Nat
  <2>1. front \in Seq(Entries) /\ redo = Append(front, e)
    BY <1>1, <1>2, <1>3, <1>9, FrontLast
  <2> QED
    BY <1>4, <2>1, Appended
<1>11. last \in Seq(Entries) /\ Len(last) = Len(undo) + 1 /\ Len(undo) \in Nat
  BY <1>3, <1>4, <1>9, Appended
<1>12. RetainedBy(redo) = RetainedBy(front) + e.retained /\ RetainedBy(last) = RetainedBy(undo) + e.retained
  BY <1>3, <1>4, <1>9, <1>10, RetainedAppend
<1>13. RetainedBy(front) \in Nat /\ RetainedBy(undo) \in Nat
  BY <1>3, <1>10, HeldType
<1>14. /\ retained' = RetainedBy(undo') + RetainedBy(redo')
       /\ Len(undo') + Len(redo') = Len(undo) + Len(redo)
  <2>1. redo' = front /\ undo' = last
    BY <1>2, <1>9
  <2>2. PICK a \in Nat, b \in Nat : a = RetainedBy(front) /\ b = RetainedBy(undo)
    BY <1>13
  <2>3. PICK c \in Nat : c = e.retained
    BY <1>6
  <2>4. retained = b + (a + c) /\ RetainedBy(last) = b + c /\ retained' = retained
    BY <1>2, <1>3, <1>12, <2>2, <2>3
  <2>5. retained' = RetainedBy(last) + RetainedBy(front)
    BY ONLY <2>2, <2>4, a \in Nat, b \in Nat, c \in Nat
  <2>6. Len(last) + Len(front) = Len(undo) + Len(redo)
    BY <1>10, <1>11
  <2> QED
    BY <2>1, <2>5, <2>6
<1> QED
  BY <1>2, <1>3, <1>4, <1>5, <1>6, <1>7, <1>8, <1>14 DEF Document

-----------------------------------------------------------------------------
(* What each operation does to it.                                         *)

\* Carets are some distance into a text, however long.
LEMMA Bounded ==
  ASSUME NEW cursors \in Seq(Cursors)
  PROVE  \E len \in Nat : Within(cursors, len)
<1> DEFINE T == {k \in 0 .. Len(cursors) :
                   \E len \in Nat : \A i \in 1 .. k : cursors[i].anchor <= len /\ cursors[i].head <= len}
<1>1. Len(cursors) \in Nat
  BY LenProperties
<1>2. 0 \in T
  <2>1. 0 \in Nat /\ \A i \in 1 .. 0 : cursors[i].anchor <= 0 /\ cursors[i].head <= 0
    OBVIOUS
  <2> QED
    BY <1>1, <2>1
<1>3. ASSUME NEW k \in 1 .. Len(cursors), k - 1 \in T PROVE k \in T
  <2>1. PICK len \in Nat : \A i \in 1 .. (k - 1) : cursors[i].anchor <= len /\ cursors[i].head <= len
    BY <1>3
  <2>2. \A i \in 1 .. k : cursors[i].anchor \in Nat /\ cursors[i].head \in Nat
    <3> TAKE i \in 1 .. k
    <3>1. cursors[i] \in Cursors
      BY <1>1
    <3> QED
      BY <3>1 DEF Cursors
  <2>3. k \in 1 .. k
    BY <1>1
  <2>4. PICK a \in Nat, h \in Nat : a = cursors[k].anchor /\ h = cursors[k].head
    BY <2>2, <2>3
  <2>5. len + a + h \in Nat
    OBVIOUS
  <2>6. \A i \in 1 .. k : cursors[i].anchor <= len + a + h /\ cursors[i].head <= len + a + h
    <3> TAKE i \in 1 .. k
    <3>1. CASE i = k
      BY <2>4, <3>1
    <3>2. CASE i # k
      <4>1. i \in 1 .. (k - 1)
        BY <3>2
      <4> QED
        BY <2>1, <2>2, <4>1
    <3> QED
      BY <3>1, <3>2
  <2>7. PICK m : m = len + a + h
    OBVIOUS
  <2>8. m \in Nat /\ \A i \in 1 .. k : cursors[i].anchor <= m /\ cursors[i].head <= m
    BY <2>5, <2>6, <2>7
  <2>9. k \in 0 .. Len(cursors)
    BY <1>1
  <2> QED
    BY <2>8, <2>9
<1> HIDE DEF T
<1>4. Len(cursors) \in T
  <2>1. \A k \in 0 .. Len(cursors) : k \in T
    BY <1>1, <1>2, <1>3, Inducts
  <2> QED
    BY <1>1, <2>1
<1> QED
  BY <1>4 DEF T, Within

\* Selection::many of any carets is a selection.
LEMMA ManyType ==
  ASSUME NEW cursors \in Seq(Cursors), cursors # <<>>, NEW primary
  PROVE  Many(cursors, primary) \in Selections
<1>1. PICK len \in Nat : Within(cursors, len)
  BY Bounded
<1>2. Good(Many(cursors, primary), len)
  BY <1>1, ManyIs
<1> QED
  BY <1>2 DEF Good

\* The carets of a document.
LEMMA CaretAt ==
  ASSUME NEW sel, NEW len \in Nat, Good(sel, len)
  PROVE  /\ sel.cursors \in Seq(Cursors) /\ Len(sel.cursors) \in Nat \ {0}
         /\ DOMAIN sel.cursors = 1 .. Len(sel.cursors)
         /\ \A i \in 1 .. Len(sel.cursors) :
              /\ sel.cursors[i] \in Cursors
              /\ Lower(sel.cursors[i]) \in Nat /\ Upper(sel.cursors[i]) \in Nat
              /\ Lower(sel.cursors[i]) <= Upper(sel.cursors[i]) /\ Upper(sel.cursors[i]) <= len
         /\ \A i \in 1 .. (Len(sel.cursors) - 1) : Upper(sel.cursors[i]) < Lower(sel.cursors[i + 1])
<1>1. /\ sel.cursors \in Seq(Cursors) /\ Len(sel.cursors) \in Nat \ {0}
      /\ DOMAIN sel.cursors = 1 .. Len(sel.cursors)
      /\ \A i \in 1 .. Len(sel.cursors) : /\ sel.cursors[i] \in Cursors
                                          /\ sel.cursors[i].anchor <= len /\ sel.cursors[i].head <= len
  BY LenProperties DEF Good, Selections, Within
<1>2. ASSUME NEW i \in 1 .. Len(sel.cursors)
      PROVE  /\ Lower(sel.cursors[i]) \in Nat /\ Upper(sel.cursors[i]) \in Nat
             /\ Lower(sel.cursors[i]) <= Upper(sel.cursors[i]) /\ Upper(sel.cursors[i]) <= len
  BY <1>1, CaretEnds
<1> QED
  BY <1>1, <1>2 DEF Good, Apart

\* Where the edits before an edit move its start.
LEMMA ShiftedIs ==
  ASSUME NEW t, NEW edits, Fit(edits, t), NEW i \in 1 .. Len(edits)
  PROVE  edits[i].from + Shifts(edits)[i - 1] \in Nat
<1>1. i - 1 \in 0 .. Len(edits) /\ i \in 1 .. Len(edits)
  BY Marks
<1>2. /\ Mark(edits, i - 1) \in Nat /\ End(edits, i - 1) \in Nat /\ edits[i].from \in Nat
      /\ End(edits, i - 1) <= edits[i].from
      /\ edits[i].from + Shifts(edits)[i - 1] = Mark(edits, i - 1) + (edits[i].from - End(edits, i - 1))
  BY <1>1, Marks, EditAt DEF Fit
<1> QED
  BY <1>2

\* insert_around: what it records fits the text, and the carets land in what it makes.
LEMMA InsertKeeps ==
  ASSUME NEW named, Document(named), NEW typed \in Typed, InsertAround(typed)
  PROVE  (\E later \in Names : Advance(named, later)) /\ UNCHANGED saving
<1> DEFINE inserted == typed.before \o typed.after
           cursors == selection.cursors
           n == Len(cursors)
           edits == [i \in DOMAIN cursors |-> Edit(Lower(cursors[i]), Upper(cursors[i]), inserted)]
           landed == [i \in DOMAIN cursors |->
                        Caret(edits[i].from + Shifts(edits)[i - 1] + Len(typed.before))]
           after == <<Many(landed, selection.primary)>>
<1>1. /\ Valid(edits) /\ Transact(edits, typed.origin, after)
      /\ sealed' = FALSE /\ readOnly' = readOnly /\ UNCHANGED saving
  BY DEF InsertAround
<1>2. /\ typed.before \in Strings /\ typed.after \in Strings /\ typed.origin \in Origins
      /\ Len(typed.before) \in Nat /\ inserted \in Strings
  <2>1. typed \in [before : Seq(Chars), after : Seq(Chars), origin : Origins]
    BY DocumentAssumption
  <2>2. typed.before \in Strings /\ typed.after \in Strings /\ typed.origin \in Origins
    BY <2>1 DEF Strings
  <2> QED
    BY <2>2, Lengths, Joins
<1>3. /\ cursors \in Seq(Cursors) /\ n \in Nat \ {0} /\ DOMAIN cursors = 1 .. n
      /\ \A i \in 1 .. n :
           /\ Lower(cursors[i]) \in Nat /\ Upper(cursors[i]) \in Nat
           /\ Lower(cursors[i]) <= Upper(cursors[i]) /\ Upper(cursors[i]) <= Len(text)
      /\ \A i \in 1 .. (n - 1) : Upper(cursors[i]) < Lower(cursors[i + 1])
  <2>1. PICK sel, len : sel = selection /\ len = Len(text)
    OBVIOUS
  <2>2. Good(sel, len) /\ len \in Nat
    BY <2>1, DocumentText DEF Document
  <2> QED
    BY <2>1, <2>2, CaretAt
<1> HIDE DEF inserted, cursors, n
<1>4. \A i \in 1 .. n : /\ edits[i].from = Lower(cursors[i]) /\ edits[i].to = Upper(cursors[i])
                        /\ edits[i] \in Edits
  BY <1>2, <1>3 DEF Edit, Edits
<1>5. edits \in Seq(Edits) /\ Len(edits) = n
  <2>1. edits \in [1 .. n -> Edits] /\ n \in Nat
    BY <1>3, <1>4
  <2> HIDE DEF edits
  <2> QED
    BY ONLY <2>1, FunctionSeq
<1> HIDE DEF edits
<1>6. \A i \in 1 .. Len(edits) : edits[i].from <= edits[i].to /\ edits[i].to <= Len(text)
  BY <1>3, <1>4, <1>5
<1>7. Disjoint(edits)
  <2> SUFFICES ASSUME NEW i \in 1 .. (Len(edits) - 1) PROVE edits[i].to <= edits[i + 1].from
    BY DEF Disjoint
  <2>1. i \in 1 .. n /\ i + 1 \in 1 .. n /\ i \in 1 .. (n - 1)
    BY <1>3, <1>5
  <2> QED
    BY <1>3, <1>4, <2>1, SMTT(30)
<1>8. Fit(edits, text)
  BY <1>5, <1>6, <1>7, DocumentText DEF Fit
<1>9. landed \in Seq(Cursors) /\ landed # <<>>
  <2>1. \A i \in 1 .. n : landed[i] \in Cursors
    <3> TAKE i \in 1 .. n
    <3>1. edits[i].from + Shifts(edits)[i - 1] \in Nat
      BY <1>5, <1>8, ShiftedIs
    <3>2. edits[i].from + Shifts(edits)[i - 1] + Len(typed.before) \in Nat
      BY <1>2, <3>1
    <3> QED
      BY <1>3, <3>2 DEF Caret, Cursors
  <2>2. landed \in [1 .. n -> Cursors]
    BY <1>3, <2>1
  <2> HIDE DEF landed
  <2>3. landed \in Seq(Cursors) /\ Len(landed) = n
    BY <1>3, <2>2, FunctionSeq
  <2> QED
    BY <1>3, <2>3
<1>10. after \in Seq(Selections) /\ Len(after) <= 1
  <2> HIDE DEF landed
  <2>1. Many(landed, selection.primary) \in Selections
    BY <1>9, ManyType
  <2> QED
    BY <2>1
<1> HIDE DEF after
<1>11. Fit(InOrder(edits), text) /\ Len(Applied(text, InOrder(edits))) <= MaxLen
  BY <1>1, <1>5, <1>6, ValidIs
<1>12. \E later \in Names : Advance(named, later)
  <2>1. sealed' \in BOOLEAN /\ readOnly' \in BOOLEAN
    BY <1>1 DEF Document
  <2> QED
    BY <1>1, <1>2, <1>10, <1>11, <2>1, Transacts
<1> QED
  BY <1>1, <1>12

\* What a deletion takes at a caret starts or ends where the caret does, and is nothing
\* only at the ends of the text.
LEMMA TakenIs ==
  ASSUME text \in Strings, NEW c \in Cursors, Upper(c) <= Len(text), NEW stride \in Int
  PROVE  /\ Taken(c, stride) \in Edits
         /\ Taken(c, stride).from <= Taken(c, stride).to /\ Taken(c, stride).to <= Len(text)
         /\ stride >= 0 => Taken(c, stride).from = Lower(c)
         /\ stride <= 0 => Taken(c, stride).to = Upper(c)
         /\ Taken(c, stride).from = Taken(c, stride).to /\ stride > 0 => Taken(c, stride).from = Len(text)
         /\ Taken(c, stride).from = Taken(c, stride).to /\ stride < 0 => Taken(c, stride).to = 0
<1> DEFINE into == IF c.head + stride < 0 THEN 0 ELSE Clamp(c.head + stride, text)
           over == IF c.anchor = c.head THEN Selected(c.head, into) ELSE c
<1>1. /\ Len(text) \in Nat /\ c.anchor \in Nat /\ c.head \in Nat
      /\ c.anchor <= Len(text) /\ c.head <= Len(text)
  BY Lengths, CaretEnds
<1>2. /\ into \in Nat /\ into <= Len(text)
      /\ stride >= 0 => c.head <= into
      /\ stride <= 0 => into <= c.head
      /\ stride > 0 /\ into = c.head => c.head = Len(text)
      /\ stride < 0 /\ into = c.head => c.head = 0
  BY <1>1 DEF Clamp
<1>3. <<>> \in Strings
  BY EmptySeq DEF Strings
<1> HIDE DEF into
<1>4. CASE c.anchor = c.head
  <2>1. over.anchor = c.head /\ over.head = into
    BY <1>4 DEF Selected
  <2> HIDE DEF over
  <2>2. PICK e : e = Edit(Lower(over), Upper(over), <<>>)
    OBVIOUS
  <2>3. /\ e.from = Lower(over) /\ e.to = Upper(over) /\ e.insert = <<>>
        /\ e = [from |-> e.from, to |-> e.to, insert |-> e.insert]
    BY <2>2 DEF Edit
  <2>4. /\ e.from \in Nat /\ e.to \in Nat /\ e.from <= e.to /\ e.to <= Len(text)
        /\ stride >= 0 => e.from = c.head
        /\ stride <= 0 => e.to = c.head
        /\ e.from = e.to => into = c.head
    BY <1>1, <1>2, <2>1, <2>3 DEF Lower, Upper
  <2>5. Lower(c) = c.head /\ Upper(c) = c.head
    BY <1>4 DEF Lower, Upper
  <2>6. e \in Edits
    BY <1>3, <2>3, <2>4 DEF Edits
  <2>7. Taken(c, stride) = e
    BY <2>2 DEF Taken, over, into
  <2> QED
    BY <1>2, <2>4, <2>5, <2>6, <2>7
<1>5. CASE c.anchor # c.head
  <2>1. over = c
    BY <1>5
  <2> HIDE DEF over
  <2>2. PICK e : e = Edit(Lower(c), Upper(c), <<>>)
    OBVIOUS
  <2>3. /\ e.from = Lower(c) /\ e.to = Upper(c) /\ e.insert = <<>>
        /\ e = [from |-> e.from, to |-> e.to, insert |-> e.insert]
    BY <2>2 DEF Edit
  <2>4. /\ e.from \in Nat /\ e.to \in Nat /\ e.from < e.to /\ e.to <= Len(text)
    BY <1>1, <1>5, <2>3 DEF Lower, Upper
  <2>5. e \in Edits
    BY <1>3, <2>3, <2>4 DEF Edits
  <2>6. Taken(c, stride) = e
    BY <2>1, <2>2 DEF Taken, over, into
  <2> QED
    BY <2>3, <2>4, <2>5, <2>6
<1> QED
  BY <1>4, <1>5

\* What it takes at two carets is in their order, and apart if either is nothing.
LEMMA TakenPair ==
  ASSUME text \in Strings, NEW c \in Cursors, NEW d \in Cursors, Upper(c) < Lower(d),
         Upper(d) <= Len(text), NEW stride \in Int
  PROVE  /\ Taken(c, stride) # Taken(d, stride) /\ Taken(c, stride).from < Taken(d, stride).to
         /\ \/ Taken(c, stride).from = Taken(c, stride).to
            \/ Taken(d, stride).from = Taken(d, stride).to
            => Taken(c, stride).to <= Taken(d, stride).from
<1>1. PICK a, b : a = Taken(c, stride) /\ b = Taken(d, stride)
  OBVIOUS
<1>2. /\ Len(text) \in Nat /\ Lower(c) \in Nat /\ Upper(c) \in Nat /\ Lower(d) \in Nat /\ Upper(d) \in Nat
      /\ Lower(c) <= Upper(c) /\ Lower(d) <= Upper(d) /\ Upper(c) <= Len(text)
  <2>1. Len(text) \in Nat /\ Lower(c) \in Nat /\ Upper(c) \in Nat /\ Lower(c) <= Upper(c)
    BY Lengths, CaretEnds
  <2>2. Lower(d) \in Nat /\ Upper(d) \in Nat /\ Lower(d) <= Upper(d)
    BY CaretEnds
  <2> QED
    BY <2>1, <2>2
<1>3. /\ a \in Edits /\ a.from <= a.to /\ a.to <= Len(text)
      /\ stride >= 0 => a.from = Lower(c)
      /\ stride <= 0 => a.to = Upper(c)
      /\ a.from = a.to /\ stride > 0 => a.from = Len(text)
      /\ a.from = a.to /\ stride < 0 => a.to = 0
  BY <1>1, <1>2, TakenIs
<1>4. /\ b \in Edits /\ b.from <= b.to /\ b.to <= Len(text)
      /\ stride >= 0 => b.from = Lower(d)
      /\ stride <= 0 => b.to = Upper(d)
      /\ b.from = b.to /\ stride > 0 => b.from = Len(text)
      /\ b.from = b.to /\ stride < 0 => b.to = 0
  BY <1>1, TakenIs
<1>5. a.from \in Nat /\ a.to \in Nat /\ b.from \in Nat /\ b.to \in Nat
  BY <1>3, <1>4 DEF Edits
<1>6. a.from < b.to /\ (a.from = a.to \/ b.from = b.to => a.to <= b.from)
  <2>1. CASE stride = 0
    BY <1>2, <1>3, <1>4, <1>5, <2>1
  <2>2. CASE stride > 0
    BY <1>2, <1>3, <1>4, <1>5, <2>2
  <2>3. CASE stride < 0
    BY <1>2, <1>3, <1>4, <1>5, <2>3
  <2> QED
    BY <2>1, <2>2, <2>3
<1>7. a # b
  <2>1. CASE stride >= 0
    BY <1>2, <1>3, <1>4, <2>1
  <2>2. CASE stride <= 0
    BY <1>2, <1>3, <1>4, <2>2
  <2> QED
    BY <2>1, <2>2
<1> QED
  BY <1>1, <1>6, <1>7

\* Two edits of which the order is known are apart.
LEMMA InOrderPair ==
  ASSUME NEW edits \in Seq(Edits), \A n \in 1 .. Len(edits) : edits[n].from <= edits[n].to,
         Disjoint(InOrder(edits)), NEW i \in 1 .. Len(edits), NEW j \in 1 .. Len(edits),
         edits[i] # edits[j], edits[i].from < edits[j].to
  PROVE  edits[i].to <= edits[j].from
<1>1. PICK o : o = InOrder(edits)
  OBVIOUS
<1>2. /\ o \in Seq(Edits) /\ Len(o) = Len(edits) /\ Len(edits) \in Nat
      /\ \A k \in 1 .. Len(edits) : \E m \in 1 .. Len(edits) : o[k] = edits[m]
      /\ \A m \in 1 .. Len(edits) : \E k \in 1 .. Len(edits) : o[k] = edits[m]
  BY <1>1, InOrderIs, LenProperties
<1>3. \A n \in 1 .. Len(o) : o[n].from <= o[n].to
  BY <1>2
<1>4. \A a, b \in 1 .. Len(o) : a < b => o[a].to <= o[b].from
  BY <1>1, <1>2, <1>3, DisjointPairs
<1>5. PICK k \in 1 .. Len(o), l \in 1 .. Len(o) : o[k] = edits[i] /\ o[l] = edits[j]
  BY <1>2
<1>6. /\ edits[i].from \in Nat /\ edits[j].to \in Nat
  BY EditAt
<1>7. k < l \/ l < k
  BY <1>2, <1>5
<1>8. CASE k < l
  BY <1>4, <1>5, <1>8
<1>9. CASE l < k
  BY <1>4, <1>5, <1>6, <1>9
<1> QED
  BY <1>7, <1>8, <1>9

\* delete: the ranges that are not empty are in order and apart.
LEMMA DeleteKeeps ==
  ASSUME NEW named, Document(named), NEW stride \in Strides, Delete(stride)
  PROVE  (\E later \in Names : Advance(named, later)) /\ UNCHANGED saving
<1> DEFINE cursors == selection.cursors
           n == Len(cursors)
           ranges == [i \in DOMAIN cursors |-> Taken(cursors[i], stride)]
           landed == [i \in DOMAIN cursors |-> Caret(ranges[i].from + Shifts(ranges)[i - 1])]
           chosen == {i \in DOMAIN ranges : ranges[i].from # ranges[i].to}
           edits == Chosen(ranges, chosen)
           after == <<Many(landed, selection.primary)>>
<1>1. /\ Valid(edits) /\ Transact(edits, "Input", after)
      /\ sealed' = FALSE /\ readOnly' = readOnly /\ UNCHANGED saving
  BY DEF Delete
<1>2. stride \in Int /\ text \in Strings /\ Len(text) \in Nat
  BY DocumentAssumption, DocumentText
<1>3. /\ cursors \in Seq(Cursors) /\ n \in Nat \ {0} /\ DOMAIN cursors = 1 .. n
      /\ \A i \in 1 .. n : cursors[i] \in Cursors /\ Upper(cursors[i]) <= Len(text)
      /\ \A i \in 1 .. (n - 1) : Upper(cursors[i]) < Lower(cursors[i + 1])
  <2>1. PICK sel, len : sel = selection /\ len = Len(text)
    OBVIOUS
  <2>2. Good(sel, len) /\ len \in Nat
    BY <2>1, DocumentText DEF Document
  <2> QED
    BY <2>1, <2>2, CaretAt
<1> HIDE DEF cursors, n
<1>4. \A i \in 1 .. n : ranges[i] = Taken(cursors[i], stride)
  BY <1>3
<1>5. ranges \in [1 .. n -> Edits]
  <2>1. \A i \in 1 .. n : ranges[i] \in Edits
    BY <1>2, <1>3, <1>4, TakenIs
  <2> QED
    BY <1>3, <2>1
<1>6. DOMAIN ranges = 1 .. n
  BY <1>3
<1> HIDE DEF ranges
<1>7. ranges \in Seq(Edits) /\ Len(ranges) = n
  BY <1>3, <1>5, FunctionSeq
<1>8. \A i \in 1 .. n : ranges[i].from <= ranges[i].to /\ ranges[i].to <= Len(text)
  BY <1>2, <1>3, <1>4, TakenIs
<1>9. \A i \in 1 .. n : i \in chosen <=> ranges[i].from # ranges[i].to
  BY <1>6
<1> HIDE DEF chosen
<1>10. /\ edits \in Seq(Edits) /\ Len(edits) \in Nat
       /\ \A a \in 1 .. Len(edits) : \E i \in 1 .. n : edits[a] = ranges[i]
       /\ \A i \in 1 .. n : i \in chosen => \E a \in 1 .. Len(edits) : edits[a] = ranges[i]
  <2>1. PICK seq, indices, e : seq = ranges /\ indices = chosen /\ e = edits
    OBVIOUS
  <2>2. seq \in Seq(Edits) /\ Len(seq) = n /\ e = Chosen(seq, indices)
    BY <1>7, <2>1
  <2>3. /\ Chosen(seq, indices) \in Seq(Edits)
        /\ \A a \in 1 .. Len(Chosen(seq, indices)) : \E i \in 1 .. Len(seq) : Chosen(seq, indices)[a] = seq[i]
        /\ \A i \in 1 .. Len(seq) :
             i \in indices => \E a \in 1 .. Len(Chosen(seq, indices)) : Chosen(seq, indices)[a] = seq[i]
    BY ONLY <2>2, ChosenIs
  <2>4. /\ e \in Seq(Edits)
        /\ \A a \in 1 .. Len(e) : \E i \in 1 .. n : e[a] = seq[i]
        /\ \A i \in 1 .. n : i \in indices => \E a \in 1 .. Len(e) : e[a] = seq[i]
    BY ONLY <2>2, <2>3
  <2>5. Len(e) \in Nat
    BY <2>4, LenProperties
  <2> QED
    BY ONLY <2>1, <2>4, <2>5
<1> HIDE DEF edits
<1>11. \A a \in 1 .. Len(edits) : edits[a].from <= edits[a].to /\ edits[a].to <= Len(text)
  BY <1>8, <1>10
<1>12. Disjoint(InOrder(edits))
  BY <1>1 DEF Valid
<1>13. Disjoint(ranges)
  <2> SUFFICES ASSUME NEW i \in 1 .. (n - 1) PROVE ranges[i].to <= ranges[i + 1].from
    BY <1>7 DEF Disjoint
  <2>1. i \in 1 .. n /\ i + 1 \in 1 .. n
    BY <1>3
  <2>2. PICK c, d, r, s : /\ c = cursors[i] /\ d = cursors[i + 1]
                          /\ r = ranges[i] /\ s = ranges[i + 1]
    OBVIOUS
  <2>3. /\ c \in Cursors /\ d \in Cursors /\ Upper(c) < Lower(d) /\ Upper(d) <= Len(text)
        /\ r = Taken(c, stride) /\ s = Taken(d, stride)
    BY <1>3, <1>4, <2>1, <2>2
  <2>4. r # s /\ r.from < s.to /\ (r.from = r.to \/ s.from = s.to => r.to <= s.from)
    BY <1>2, <2>3, TakenPair
  <2>5. CASE r.from = r.to \/ s.from = s.to
    BY <2>2, <2>4, <2>5
  <2>6. CASE r.from # r.to /\ s.from # s.to
    <3>1. i \in chosen /\ i + 1 \in chosen
      BY <1>9, <2>1, <2>2, <2>6
    <3>2. PICK a \in 1 .. Len(edits), b \in 1 .. Len(edits) : edits[a] = r /\ edits[b] = s
      BY <1>10, <2>1, <2>2, <3>1
    <3>3. edits[a].to <= edits[b].from
      <4>1. edits[a] # edits[b] /\ edits[a].from < edits[b].to
        BY <2>4, <3>2
      <4> QED
        BY <1>10, <1>11, <1>12, <4>1, InOrderPair
    <3> QED
      BY <2>2, <3>2, <3>3
  <2> QED
    BY <2>5, <2>6
<1>14. Fit(ranges, text)
  BY <1>2, <1>7, <1>8, <1>13 DEF Fit
<1>15. landed \in Seq(Cursors) /\ landed # <<>>
  <2>1. \A i \in 1 .. n : landed[i] \in Cursors
    <3> TAKE i \in 1 .. n
    <3>1. ranges[i].from + Shifts(ranges)[i - 1] \in Nat
      BY <1>7, <1>14, ShiftedIs
    <3> QED
      BY <1>3, <3>1 DEF Caret, Cursors
  <2>2. landed \in [1 .. n -> Cursors]
    BY <1>3, <2>1
  <2> HIDE DEF landed
  <2>3. landed \in Seq(Cursors) /\ Len(landed) = n
    BY <1>3, <2>2, FunctionSeq
  <2> QED
    BY <1>3, <2>3
<1>16. after \in Seq(Selections) /\ Len(after) <= 1
  <2> HIDE DEF landed
  <2>1. Many(landed, selection.primary) \in Selections
    BY <1>15, ManyType
  <2> QED
    BY <2>1
<1> HIDE DEF after
<1>17. Fit(InOrder(edits), text) /\ Len(Applied(text, InOrder(edits))) <= MaxLen
  BY <1>1, <1>10, <1>11, ValidIs
<1>18. \E later \in Names : Advance(named, later)
  <2>1. sealed' \in BOOLEAN /\ readOnly' \in BOOLEAN /\ "Input" \in Origins
    BY <1>1 DEF Document, Origins
  <2> QED
    BY <1>1, <1>16, <1>17, <2>1, Transacts
<1> QED
  BY <1>1, <1>18

\* replace_all: the matches are apart.
LEMMA ReplaceKeeps ==
  ASSUME NEW named, Document(named), NEW char, NEW with \in Strings, ReplaceMatches(char, with)
  PROVE  (\E later \in Names : Advance(named, later)) /\ UNCHANGED saving
<1> DEFINE all == [i \in DOMAIN text |-> i]
           found == {i \in DOMAIN text : text[i] = char}
           matches == Chosen(all, found)
           edits == [k \in DOMAIN matches |-> Edit(matches[k] - 1, matches[k], with)]
           N == Len(text)
<1>1. /\ Valid(edits) /\ Transact(edits, "ReplaceAll", <<>>)
      /\ sealed' = TRUE /\ readOnly' = readOnly /\ UNCHANGED saving
  BY DEF ReplaceMatches
<1>2. text \in Strings /\ N \in Nat /\ DOMAIN text = 1 .. N
  BY DocumentText, LenProperties DEF Strings
<1>3. all \in [1 .. N -> 1 .. N]
  BY <1>2
<1> HIDE DEF all, found, N
<1>4. all \in Seq(1 .. N)
  BY <1>2, <1>3, FunctionSeq
<1>5. matches \in Seq(1 .. N) /\ Len(matches) \in Nat /\ DOMAIN matches = 1 .. Len(matches)
      /\ \A k \in 1 .. Len(matches) : matches[k] \in 1 .. N
  <2>1. matches \in Seq(1 .. N)
    BY <1>4, ChosenIs
  <2> HIDE DEF matches
  <2> QED
    BY <2>1, LenProperties
<1> HIDE DEF matches
<1>6. \A k \in 1 .. Len(matches) : /\ edits[k] \in Edits /\ edits[k].from <= edits[k].to
  <2> TAKE k \in 1 .. Len(matches)
  <2>1. PICK m \in 1 .. N : m = matches[k]
    BY <1>5
  <2>2. edits[k] = Edit(m - 1, m, with) /\ m \in Nat /\ m - 1 \in Nat /\ m - 1 <= m
    BY <1>2, <1>5, <2>1
  <2> QED
    BY <2>2 DEF Edit, Edits
<1>7. edits \in [1 .. Len(matches) -> Edits]
  BY <1>5, <1>6
<1> HIDE DEF edits
<1>8. edits \in Seq(Edits) /\ Len(edits) = Len(matches)
  BY <1>5, <1>7, FunctionSeq
<1>9. Fit(InOrder(edits), text) /\ Len(Applied(text, InOrder(edits))) <= MaxLen
  BY <1>1, <1>6, <1>8, ValidIs
<1>10. PICK none : none = <<>>
  OBVIOUS
<1>11. none \in Seq(Selections) /\ Len(none) <= 1
  BY <1>10, EmptySeq
<1>12. \E later \in Names : Advance(named, later)
  <2>1. sealed' \in BOOLEAN /\ readOnly' \in BOOLEAN /\ "ReplaceAll" \in Origins
    BY <1>1 DEF Document, Origins
  <2> QED
    BY <1>1, <1>9, <1>10, <1>11, <2>1, Transacts
<1> QED
  BY <1>1, <1>12

\* What a file that replaces the text leaves: its text, and that it was saved.
ReloadedTo(t) ==
  savedState' = state' /\ savedText' = t /\ snapshot' = snapshot /\ text' = t

\* reload: one edit replaces the whole text.
LEMMA ReloadKeeps ==
  ASSUME NEW named, Document(named), NEW t \in Strings, Reload(t)
  PROVE  (\E later \in Names : Advance(named, later)) /\ ReloadedTo(t)
<1> DEFINE after == <<One(Caret(Clamp(PrimaryHead(selection), t)))>>
<1>1. PICK e : e = Edit(0, Len(text), t)
  OBVIOUS
<1>2. PICK edits : edits = <<e>>
  OBVIOUS
<1>3. /\ Valid(edits) /\ Transact(edits, "Reload", after)
      /\ sealed' = FALSE /\ readOnly' = readOnly
      /\ savedState' = state' /\ savedText' = t /\ snapshot' = snapshot
  BY <1>1, <1>2 DEF Reload
<1>4. text \in Strings /\ Len(text) \in Nat
  BY DocumentText
<1>5. /\ e \in Edits /\ e.from = 0 /\ e.to = Len(text) /\ e.insert = t
  BY <1>1, <1>4 DEF Edit, Edits
<1>6. Fit(edits, text) /\ Len(edits) = 1 /\ edits[1] = e /\ InOrder(edits) = edits
  <2>1. e.from <= e.to /\ e.to <= Len(text)
    BY <1>4, <1>5
  <2> QED
    BY <1>2, <1>4, <1>5, <2>1, OneFits
<1>7. Applied(text, edits) = t
  <2>1. Applied(text, edits) = (Cut(text, 0, 0) \o t) \o Cut(text, Len(text), Len(text))
    BY <1>5, <1>6, AppliedOne, ZenonT(60)
  <2>2. Cut(text, 0, 0) = <<>> /\ Cut(text, Len(text), Len(text)) = <<>>
    BY <1>4, Whole
  <2>3. (<<>> \o t) \o <<>> = t
    BY DEF Strings
  <2> QED
    BY <2>1, <2>2, <2>3
<1>8. after \in Seq(Selections) /\ Len(after) <= 1
  <2>1. selection \in Selections /\ Len(t) \in Nat
    BY Lengths DEF Document, Good
  <2>2. Clamp(PrimaryHead(selection), t) \in Nat
    BY <2>1, PrimaryIs DEF Clamp
  <2>3. One(Caret(Clamp(PrimaryHead(selection), t))) \in Selections
    BY <2>2, OneIs
  <2> QED
    BY <2>3
<1> HIDE DEF after
<1>9. Fit(InOrder(edits), text) /\ Len(Applied(text, InOrder(edits))) <= MaxLen
  <2>1. edits \in Seq(Edits) /\ \A i \in 1 .. Len(edits) : edits[i].from <= edits[i].to
    BY <1>6 DEF Fit
  <2> QED
    BY <1>3, <2>1, ValidIs
<1>10. \E later \in Names : Advance(named, later)
  <2>1. sealed' \in BOOLEAN /\ readOnly' \in BOOLEAN /\ "Reload" \in Origins
    BY <1>3 DEF Document, Origins
  <2> QED
    BY <1>3, <1>8, <1>9, <2>1, Transacts
<1>11. text' = t
  BY <1>3, <1>6, <1>7 DEF Transact
<1> QED
  BY <1>3, <1>10, <1>11 DEF ReloadedTo

\* Some of the first numbers have a greatest one.
LEMMA Greatest ==
  ASSUME NEW n \in Nat, NEW S, S \subseteq 0 .. n, S # {}
  PROVE  Max(S) \in S
<1> DEFINE T == {k \in 0 .. n : n - k \in S}
<1>1. T \subseteq Nat /\ T # {}
  <2>1. PICK x \in S : TRUE
    OBVIOUS
  <2>2. n - x \in 0 .. n /\ n - (n - x) = x
    OBVIOUS
  <2>3. n - x \in T
    BY <2>1, <2>2
  <2>4. T \subseteq Nat
    OBVIOUS
  <2> HIDE DEF T
  <2> QED
    BY <2>3, <2>4
<1>2. PICK k \in T : \A m \in T : k <= m
  <2> HIDE DEF T
  <2> QED
    BY <1>1, Least
<1>3. n - k \in S /\ k \in 0 .. n
  BY <1>2
<1>4. \A y \in S : n - k >= y
  <2> TAKE y \in S
  <2>1. y \in 0 .. n /\ n - y \in 0 .. n /\ n - (n - y) = y
    OBVIOUS
  <2>2. n - y \in T
    BY <2>1
  <2>3. k <= n - y
    BY <1>2, <2>2
  <2> QED
    BY <1>3, <2>1, <2>3
<1> HIDE DEF T
<1>5. \E x \in S : \A y \in S : x >= y
  BY <1>3, <1>4
<1> QED
  BY <1>5 DEF Max

\* The ends that two texts share.
LEMMA Shared ==
  ASSUME NEW s \in Strings, NEW t \in Strings, NEW shorter, shorter = (IF Len(s) < Len(t) THEN Len(s) ELSE Len(t)),
         NEW start, start = Max({n \in 0 .. shorter : Cut(s, 0, n) = Cut(t, 0, n)}),
         NEW suffix, suffix = Max({n \in 0 .. (shorter - start) :
                                     Cut(s, Len(s) - n, Len(s)) = Cut(t, Len(t) - n, Len(t))})
  PROVE  /\ start \in Nat /\ suffix \in Nat /\ start + suffix <= Len(s) /\ start + suffix <= Len(t)
         /\ Cut(s, 0, start) = Cut(t, 0, start)
         /\ Cut(s, Len(s) - suffix, Len(s)) = Cut(t, Len(t) - suffix, Len(t))
<1> DEFINE P == {n \in 0 .. shorter : Cut(s, 0, n) = Cut(t, 0, n)}
           Q == {n \in 0 .. (shorter - start) :
                   Cut(s, Len(s) - n, Len(s)) = Cut(t, Len(t) - n, Len(t))}
<1>1. Len(s) \in Nat /\ Len(t) \in Nat /\ shorter \in Nat /\ shorter <= Len(s) /\ shorter <= Len(t)
  BY Lengths
<1>2. 0 \in P
  <2>1. Cut(s, 0, 0) = <<>> /\ Cut(t, 0, 0) = <<>>
    BY Whole
  <2> QED
    BY <1>1, <2>1
<1>3. P \subseteq 0 .. shorter /\ P # {}
  BY <1>2
<1>4. start \in P
  <2> HIDE DEF P
  <2>1. Max(P) \in P
    BY <1>1, <1>3, Greatest
  <2> QED
    BY <2>1 DEF P
<1>5. start \in 0 .. shorter /\ Cut(s, 0, start) = Cut(t, 0, start)
  BY <1>4
<1> HIDE DEF P
<1>6. 0 \in Q
  <2>1. Len(s) - 0 = Len(s) /\ Len(t) - 0 = Len(t) /\ 0 \in 0 .. (shorter - start)
    BY <1>1, <1>5
  <2>2. Cut(s, Len(s), Len(s)) = <<>> /\ Cut(t, Len(t), Len(t)) = <<>>
    BY <1>1, Whole
  <2> QED
    BY <2>1, <2>2
<1>7. Q \subseteq 0 .. (shorter - start) /\ Q # {} /\ shorter - start \in Nat
  <2>1. Q \subseteq 0 .. (shorter - start)
    OBVIOUS
  <2>2. shorter - start \in Nat
    BY <1>1, <1>5
  <2> HIDE DEF Q
  <2> QED
    BY <1>6, <2>1, <2>2
<1>8. suffix \in Q
  <2> HIDE DEF Q
  <2>1. Max(Q) \in Q
    BY <1>7, Greatest
  <2> QED
    BY <2>1 DEF Q
<1>9. suffix \in 0 .. (shorter - start) /\ Cut(s, Len(s) - suffix, Len(s)) = Cut(t, Len(t) - suffix, Len(t))
  BY <1>8
<1> QED
  BY <1>1, <1>5, <1>9

\* Replacing what lies between the shared ends makes the other text.
LEMMA Bridged ==
  ASSUME NEW s \in Strings, NEW t \in Strings, NEW start \in Nat, NEW suffix \in Nat,
         start + suffix <= Len(s), start + suffix <= Len(t),
         Cut(s, 0, start) = Cut(t, 0, start),
         Cut(s, Len(s) - suffix, Len(s)) = Cut(t, Len(t) - suffix, Len(t))
  PROVE  /\ Cut(t, start, Len(t) - suffix) \in Strings
         /\ (Cut(s, 0, start) \o Cut(t, start, Len(t) - suffix)) \o Cut(s, Len(s) - suffix, Len(s)) = t
<1>1. /\ Len(t) \in Nat /\ Len(t) - suffix \in Nat /\ 0 <= start /\ start <= Len(t) - suffix
      /\ Len(t) - suffix <= Len(t) /\ 0 <= Len(t) - suffix /\ Len(t) <= Len(t) /\ 0 \in Nat
  BY Lengths
<1>2. PICK b \in Nat : b = Len(t) - suffix
  BY <1>1
<1>3. Cut(t, start, b) \in Strings
  BY <1>1, <1>2, Piece
<1>a. 0 \in Nat /\ 0 <= start /\ start <= b /\ b <= Len(t) /\ 0 <= b /\ Len(t) \in Nat /\ Len(t) <= Len(t)
  BY <1>1, <1>2
<1>4. Cut(t, 0, start) \o Cut(t, start, b) = Cut(t, 0, b)
  BY ONLY <1>a, t \in Strings, b \in Nat, start \in Nat, Meet
<1>5. Cut(t, 0, b) \o Cut(t, b, Len(t)) = Cut(t, 0, Len(t))
  BY ONLY <1>a, t \in Strings, b \in Nat, Meet
<1>6. Cut(t, 0, Len(t)) = t
  BY Whole
<1> QED
  BY <1>2, <1>3, <1>4, <1>5, <1>6

\* reload_clean: the one edit it records makes the file's text.
LEMMA ReloadCleanKeeps ==
  ASSUME NEW named, Document(named), NEW t \in Strings, ReloadClean(t)
  PROVE  (\E later \in Names : Advance(named, later)) /\ ReloadedTo(t)
<1> DEFINE shorter == IF Len(text) < Len(t) THEN Len(text) ELSE Len(t)
           start   == Max({n \in 0 .. shorter : Cut(text, 0, n) = Cut(t, 0, n)})
           suffix  == Max({n \in 0 .. (shorter - start) :
                             Cut(text, Len(text) - n, Len(text)) = Cut(t, Len(t) - n, Len(t))})
           oldEnd  == Len(text) - suffix
           newEnd  == Len(t) - suffix
           map(at) == IF at < start THEN at
                      ELSE IF at >= oldEnd THEN newEnd + at - oldEnd
                      ELSE start + (IF at < newEnd THEN at - start ELSE newEnd - start)
           moved   == [i \in DOMAIN selection.cursors |->
                         Selected(map(selection.cursors[i].anchor), map(selection.cursors[i].head))]
           after   == <<Many(moved, selection.primary)>>
<1>1. PICK e : e = Edit(start, oldEnd, Cut(t, start, newEnd))
  OBVIOUS
<1>2. PICK edits : edits = <<e>>
  OBVIOUS
<1>3. /\ Len(t) <= MaxLen /\ Transact(edits, "Reload", after)
      /\ sealed' = FALSE /\ readOnly' = readOnly
      /\ savedState' = state' /\ savedText' = t /\ snapshot' = snapshot
  BY <1>1, <1>2 DEF ReloadClean, Mapped
<1>4. text \in Strings /\ Len(text) \in Nat /\ Len(t) \in Nat
  BY DocumentText, Lengths
<1>5. /\ start \in Nat /\ suffix \in Nat /\ start + suffix <= Len(text) /\ start + suffix <= Len(t)
      /\ Cut(text, 0, start) = Cut(t, 0, start)
      /\ Cut(text, Len(text) - suffix, Len(text)) = Cut(t, Len(t) - suffix, Len(t))
  <2>1. PICK s, a, b, c : s = text /\ a = shorter /\ b = start /\ c = suffix
    OBVIOUS
  <2>2. /\ s \in Strings /\ a = (IF Len(s) < Len(t) THEN Len(s) ELSE Len(t))
        /\ b = Max({n \in 0 .. a : Cut(s, 0, n) = Cut(t, 0, n)})
        /\ c = Max({n \in 0 .. (a - b) : Cut(s, Len(s) - n, Len(s)) = Cut(t, Len(t) - n, Len(t))})
    BY <1>4, <2>1
  <2>3. /\ b \in Nat /\ c \in Nat /\ b + c <= Len(s) /\ b + c <= Len(t)
        /\ Cut(s, 0, b) = Cut(t, 0, b)
        /\ Cut(s, Len(s) - c, Len(s)) = Cut(t, Len(t) - c, Len(t))
    BY ONLY <2>2, t \in Strings, Shared
  <2> HIDE DEF start, suffix, shorter
  <2> QED
    BY ONLY <2>1, <2>3
<1> HIDE DEF start, suffix, shorter
<1>6. /\ oldEnd \in Nat /\ newEnd \in Nat /\ start <= oldEnd /\ start <= newEnd
      /\ oldEnd <= Len(text) /\ newEnd <= Len(t)
  BY <1>4, <1>5
<1>7. /\ Cut(t, start, newEnd) \in Strings
      /\ (Cut(text, 0, start) \o Cut(t, start, newEnd)) \o Cut(text, oldEnd, Len(text)) = t
  <2>1. PICK s, a, b : s = text /\ a = start /\ b = suffix
    OBVIOUS
  <2>2. /\ s \in Strings /\ a \in Nat /\ b \in Nat /\ a + b <= Len(s) /\ a + b <= Len(t)
        /\ Cut(s, 0, a) = Cut(t, 0, a) /\ Cut(s, Len(s) - b, Len(s)) = Cut(t, Len(t) - b, Len(t))
    BY <1>4, <1>5, <2>1
  <2>3. /\ Cut(t, a, Len(t) - b) \in Strings
        /\ (Cut(s, 0, a) \o Cut(t, a, Len(t) - b)) \o Cut(s, Len(s) - b, Len(s)) = t
    BY ONLY <2>2, t \in Strings, Bridged, ZenonT(60)
  <2> QED
    BY ONLY <2>1, <2>3
<1> HIDE DEF oldEnd, newEnd
<1>8. /\ e \in Edits /\ e.from = start /\ e.to = oldEnd /\ e.insert = Cut(t, start, newEnd)
  BY <1>1, <1>5, <1>6, <1>7 DEF Edit, Edits
<1>9. Fit(edits, text) /\ Len(edits) = 1 /\ edits[1] = e /\ InOrder(edits) = edits
  <2>1. e.from <= e.to /\ e.to <= Len(text)
    BY <1>6, <1>8
  <2> QED
    BY <1>2, <1>4, <1>8, <2>1, OneFits
<1>10. Applied(text, edits) = t
  BY <1>7, <1>8, <1>9, AppliedOne
<1>11. \A at \in Nat : map(at) \in Nat
  BY <1>5, <1>6
<1>12. moved \in Seq(Cursors) /\ moved # <<>>
  <2>1. PICK cursors, n : cursors = selection.cursors /\ n = Len(cursors)
    OBVIOUS
  <2>2. cursors \in Seq(Cursors) /\ n \in Nat \ {0} /\ DOMAIN cursors = 1 .. n
    BY <2>1, LenProperties DEF Document, Good, Selections
  <2>3. \A i \in 1 .. n : moved[i] \in Cursors
    <3> TAKE i \in 1 .. n
    <3>1. cursors[i] \in Cursors
      BY <2>1, <2>2
    <3>2. cursors[i].anchor \in Nat /\ cursors[i].head \in Nat
      BY <3>1 DEF Cursors
    <3>3. map(cursors[i].anchor) \in Nat /\ map(cursors[i].head) \in Nat
      BY <1>11, <3>2
    <3> HIDE DEF map
    <3> QED
      BY <2>1, <2>2, <3>3 DEF Selected, Cursors
  <2>4. moved \in [1 .. n -> Cursors]
    <3> HIDE DEF map
    <3> QED
      BY <2>1, <2>2, <2>3
  <2> HIDE DEF moved
  <2>5. moved \in Seq(Cursors) /\ Len(moved) = n
    BY <2>2, <2>4, FunctionSeq
  <2> QED
    BY <2>2, <2>5
<1> HIDE DEF moved
<1>13. after \in Seq(Selections) /\ Len(after) <= 1
  <2>1. Many(moved, selection.primary) \in Selections
    BY <1>12, ManyType
  <2> QED
    BY <2>1
<1> HIDE DEF after
<1>14. \E later \in Names : Advance(named, later)
  <2>1. sealed' \in BOOLEAN /\ readOnly' \in BOOLEAN /\ "Reload" \in Origins
    BY <1>3 DEF Document, Origins
  <2>2. Fit(InOrder(edits), text) /\ Len(Applied(text, InOrder(edits))) <= MaxLen
    BY <1>3, <1>9, <1>10
  <2> QED
    BY <1>3, <1>13, <2>1, <2>2, Transacts
<1>15. text' = t
  BY <1>3, <1>9, <1>10 DEF Transact
<1> QED
  BY <1>3, <1>14, <1>15 DEF ReloadedTo

\* set_selection clamps the carets to the text.
LEMMA SelectKeeps ==
  ASSUME NEW named, Document(named), NEW sel \in Selections, SetSelection(sel)
  PROVE  Document(named)' /\ UNCHANGED saving /\ nextState' = nextState
<1>1. /\ selection' = Clamped(sel, text)
      /\ text' = text /\ state' = state /\ nextState' = nextState /\ undo' = undo /\ redo' = redo
      /\ retained' = retained /\ readOnly' = readOnly /\ UNCHANGED saving /\ sealed' \in BOOLEAN
  BY DEF SetSelection, content
<1>2. Good(selection', Len(text'))
  <2>1. Good(Clamped(sel, text), Len(text))
    BY DocumentText, ClampedIs
  <2> QED
    BY <1>1, <2>1
<1> QED
  BY <1>1, <1>2 DEF Document

\* Nothing was done, and nothing undone.
LEMMA NothingDone ==
  ASSUME NEW named, NEW at, NEW next
  PROVE  /\ Past(<<>>, named, at, next) /\ Future(<<>>, named, at, next)
         /\ RetainedBy(<<>>) = 0 /\ Len(<<>>) = 0
<1>1. PICK none : none = <<>>
  OBVIOUS
<1>2. none \in Seq(Entries) /\ Len(none) = 0
  BY <1>1, EmptySeq
<1>3. Held(none) = <<>>
  BY <1>1 DEF Held
<1>4. RetainedBy(none) = 0
  BY <1>2, <1>3, HeldType, SumNone
<1> QED
  BY <1>1, <1>2, <1>4 DEF Past, Future

\* The document as it is loaded.
LEMMA EditorInit == Init => EditorInv
<1> SUFFICES ASSUME Init PROVE EditorInv
  OBVIOUS
<1>1. Start \in Strings /\ Len(Start) \in Nat /\ Len(Start) <= MaxLen
  BY DocumentAssumption, Lengths DEF Strings
<1>2. PICK named : named = [s \in Nat |-> Start]
  OBVIOUS
<1>3. named \in Names /\ named[0] = Start
  BY <1>1, <1>2 DEF Names, Fitting
<1>4. Good(selection, Len(text))
  <2>1. selection = One(Caret(0)) /\ selection \in Selections /\ text = Start
    BY OneIs DEF Init
  <2>2. Caret(0) \in Cursors /\ Caret(0).anchor = 0 /\ Caret(0).head = 0
    BY DEF Caret, Cursors
  <2>3. selection.cursors = <<Caret(0)>>
    BY <2>1 DEF One
  <2>4. PICK cursors : cursors = <<Caret(0)>>
    OBVIOUS
  <2>5. cursors \in Seq(Cursors) /\ Len(cursors) = 1 /\ cursors[1] = Caret(0)
    BY <2>2, <2>4
  <2>6. Within(cursors, Len(text)) /\ Apart(cursors) /\ Len(cursors) <= MaxCursors
    BY <1>1, <2>1, <2>2, <2>5, DocumentAssumption DEF Within, Apart
  <2> QED
    BY <2>1, <2>3, <2>4, <2>6 DEF Good
<1>5. /\ Past(undo, named, state, nextState) /\ Future(redo, named, state, nextState)
      /\ RetainedBy(undo) = 0 /\ RetainedBy(redo) = 0 /\ Len(undo) = 0 /\ Len(redo) = 0
  BY NothingDone DEF Init
<1>6. Document(named)
  <2>1. /\ state = 0 /\ nextState = 1 /\ text = Start /\ retained = 0 /\ sealed = FALSE /\ readOnly = FALSE
    BY DEF Init
  <2>2. /\ state \in Nat /\ nextState \in Nat /\ state < nextState /\ nextState <= MaxEdits + 1
        /\ retained = RetainedBy(undo) + RetainedBy(redo)
        /\ Len(undo) + Len(redo) <= MaxEntries /\ ~(retained > MaxBytes)
    BY <1>5, <2>1, DocumentAssumption
  <2> QED
    BY <1>3, <1>4, <1>5, <2>1, <2>2 DEF Document
<1>7. Filed(named)
  BY <1>3 DEF Init, Filed
<1> QED
  BY <1>3, <1>6, <1>7 DEF EditorInv

\* A state that is named, and a file that says what it holds.
LEMMA Advances ==
  ASSUME NEW named, Document(named), Filed(named), NEW later \in Names, Advance(named, later),
         UNCHANGED saving \/ \E t : ReloadedTo(t)
  PROVE  EditorInv'
<1>1. /\ Document(later)' /\ later[nextState] = text' /\ state' = nextState
      /\ nextState' = nextState + 1 /\ \A s \in 0 .. (nextState - 1) : later[s] = named[s]
  BY DEF Advance
<1>2. /\ snapshot' = snapshot
      /\ \/ savedState' = savedState /\ savedText' = savedText
         \/ savedState' = nextState /\ savedText' = later[nextState]
  BY <1>1 DEF saving, ReloadedTo
<1>3. Filed(later)'
  BY <1>1, <1>2, FiledKept
<1> QED
  BY <1>1, <1>3 DEF EditorInv

\* What the file holds is not touched.
LEMMA Stays ==
  ASSUME NEW named \in Names, Filed(named), Document(named)', nextState' = nextState, UNCHANGED saving
  PROVE  EditorInv'
<1>1. Filed(named)'
  BY DEF Filed, saving, NoSnapshot
<1> QED
  BY <1>1 DEF EditorInv

\* Every operation keeps the invariant.
LEMMA EditorStep == EditorInv /\ [Next]_vars => EditorInv'
<1> SUFFICES ASSUME EditorInv, [Next]_vars PROVE EditorInv'
  OBVIOUS
<1>0. PICK named \in Names : Document(named) /\ Filed(named)
  BY DEF EditorInv
<1>1. ASSUME NEW typed \in Typed, InsertAround(typed) PROVE EditorInv'
  BY <1>0, <1>1, InsertKeeps, Advances
<1>2. ASSUME NEW stride \in Strides, Delete(stride) PROVE EditorInv'
  BY <1>0, <1>2, DeleteKeeps, Advances
<1>3. ASSUME NEW r \in Rewrites, ReplaceMatches(r[1], r[2]) PROVE EditorInv'
  <2>1. r[2] \in Strings
    BY DocumentAssumption DEF Strings
  <2> QED
    BY <1>0, <1>3, <2>1, ReplaceKeeps, Advances
<1>4. CASE Undo
  <2>1. Document(named)'
    BY <1>0, <1>4, UndoKeeps
  <2>2. nextState' = nextState /\ UNCHANGED saving
    BY <1>4 DEF Undo, Replay
  <2> QED
    BY <1>0, <2>1, <2>2, Stays
<1>5. CASE Redo
  <2>1. Document(named)'
    BY <1>0, <1>5, RedoKeeps
  <2>2. nextState' = nextState /\ UNCHANGED saving
    BY <1>5 DEF Redo, Replay
  <2> QED
    BY <1>0, <2>1, <2>2, Stays
<1>6. ASSUME NEW carets \in Carets, NEW primary \in DOMAIN carets, SetSelection(Many(carets, primary))
      PROVE  EditorInv'
  <2>1. carets \in Seq(Cursors) /\ carets # <<>>
    BY DocumentAssumption DEF Cursors
  <2>2. Many(carets, primary) \in Selections
    BY <2>1, ManyType
  <2> QED
    BY <1>0, <1>6, <2>2, SelectKeeps, Stays
<1>7. CASE BreakUndoGroup
  <2>1. Document(named)' /\ nextState' = nextState /\ UNCHANGED saving
    BY <1>0, <1>7 DEF BreakUndoGroup, content, Document
  <2> QED
    BY <1>0, <2>1, Stays
<1>8. ASSUME NEW t \in Reloads, ReloadRefused(t) PROVE EditorInv'
  BY <1>7, <1>8 DEF ReloadRefused
<1>9. CASE SetReadOnly
  <2>1. Document(named)' /\ nextState' = nextState /\ UNCHANGED saving
    BY <1>0, <1>9 DEF SetReadOnly, content, history, Document
  <2> QED
    BY <1>0, <2>1, Stays
<1>10. CASE TakeSnapshot
  <2>1. Document(named)'
    BY <1>0, <1>10 DEF TakeSnapshot, content, history, Document
  <2>2. /\ snapshot' = [state |-> state, text |-> text] /\ nextState' = nextState
        /\ savedState' = savedState /\ savedText' = savedText
    BY <1>10 DEF TakeSnapshot, content
  <2>3. state \in 0 .. (nextState - 1) /\ named[state] = text
    BY <1>0 DEF Document
  <2>4. Filed(named)'
    BY <1>0, <2>2, <2>3 DEF Filed
  <2> QED
    BY <2>1, <2>4 DEF EditorInv
<1>11. CASE ConfirmSave
  <2>1. Document(named)'
    BY <1>0, <1>11 DEF ConfirmSave, content, history, Document
  <2>2. Filed(named)'
    BY <1>0, <1>11 DEF ConfirmSave, content, Filed, NoSnapshot
  <2> QED
    BY <2>1, <2>2 DEF EditorInv
<1>12. ASSUME NEW t \in Reloads, ReloadClean(t) PROVE EditorInv'
  <2>1. t \in Strings
    BY DocumentAssumption DEF Strings
  <2> QED
    BY <1>0, <1>12, <2>1, ReloadCleanKeeps, Advances
<1>13. ASSUME NEW t \in Reloads, Reload(t) PROVE EditorInv'
  <2>1. t \in Strings
    BY DocumentAssumption DEF Strings
  <2> QED
    BY <1>0, <1>13, <2>1, ReloadKeeps, Advances
<1>14. CASE UNCHANGED vars
  <2>1. Document(named)' /\ nextState' = nextState /\ UNCHANGED saving
    BY <1>0, <1>14 DEF vars, history, Document, saving
  <2> QED
    BY <1>0, <2>1, Stays
<1> QED
  BY <1>1, <1>2, <1>3, <1>4, <1>5, <1>6, <1>7, <1>8, <1>9, <1>10, <1>11, <1>12, <1>13, <1>14 DEF Next

-----------------------------------------------------------------------------
(* Theorems                                                                *)

\* What the invariant says of the document that is shown.
LEMMA EditorImplies == EditorInv => EditorOK /\ CleanIsSaved /\ BytesExact
<1> SUFFICES ASSUME EditorInv PROVE EditorOK /\ CleanIsSaved /\ BytesExact
  OBVIOUS
<1>0. PICK named \in Names : Document(named) /\ Filed(named)
  BY DEF EditorInv
<1>1. /\ state \in Nat /\ nextState \in Nat /\ state < nextState /\ nextState <= MaxEdits + 1
      /\ named[state] = text /\ sealed \in BOOLEAN /\ readOnly \in BOOLEAN
      /\ Past(undo, named, state, nextState) /\ Future(redo, named, state, nextState)
      /\ undo \in Seq(Entries) /\ redo \in Seq(Entries)
      /\ retained = RetainedBy(undo) + RetainedBy(redo)
      /\ MaxEdits \in Nat
  BY <1>0, DocumentAssumption DEF Document, Past, Future
<1>2. /\ text \in Strings /\ Len(text) \in Nat /\ Len(text) <= MaxLen
  BY <1>0, DocumentText
<1>3. /\ Len(selection.cursors) \in 1 .. MaxCursors
      /\ selection.primary \in 1 .. Len(selection.cursors)
      /\ DOMAIN selection.cursors = 1 .. Len(selection.cursors)
      /\ \A i \in 1 .. Len(selection.cursors) :
           selection.cursors[i] \in [anchor : 0 .. Len(text), head : 0 .. Len(text)]
      /\ \A i \in 1 .. (Len(selection.cursors) - 1) :
           Upper(selection.cursors[i]) < Lower(selection.cursors[i + 1])
  <2>1. Good(selection, Len(text))
    BY <1>0 DEF Document
  <2>2. /\ selection \in Selections /\ Within(selection.cursors, Len(text)) /\ Apart(selection.cursors)
        /\ Len(selection.cursors) <= MaxCursors
    BY <2>1 DEF Good
  <2>3. /\ selection.cursors \in Seq(Cursors) /\ Len(selection.cursors) \in Nat \ {0}
        /\ DOMAIN selection.cursors = 1 .. Len(selection.cursors)
        /\ selection.primary \in 1 .. Len(selection.cursors)
    BY <1>2, <2>1, <2>2, CaretAt DEF Selections
  <2>4. ASSUME NEW i \in 1 .. Len(selection.cursors)
        PROVE  selection.cursors[i] \in [anchor : 0 .. Len(text), head : 0 .. Len(text)]
    <3>1. PICK c \in Cursors : c = selection.cursors[i] /\ c.anchor <= Len(text) /\ c.head <= Len(text)
      BY <2>2, <2>3 DEF Within
    <3> QED
      BY <1>2, <3>1 DEF Cursors
  <2>5. Len(selection.cursors) \in 1 .. MaxCursors
    BY <2>2, <2>3, DocumentAssumption
  <2> QED
    BY <2>2, <2>3, <2>4, <2>5 DEF Apart
<1>4. \A e \in Range(undo \o redo) : e.before \in 0 .. MaxEdits /\ e.after \in (e.before + 1) .. MaxEdits
  <2> TAKE e \in Range(undo \o redo)
  <2>1. PICK u \in Seq(Entries), r \in Seq(Entries) : u = undo /\ r = redo
    BY <1>1
  <2>2. /\ u \o r \in Seq(Entries) /\ Len(u \o r) = Len(u) + Len(r) /\ Len(u) \in Nat /\ Len(r) \in Nat
        /\ \A i \in 1 .. Len(u) + Len(r) : (u \o r)[i] = IF i <= Len(u) THEN u[i] ELSE r[i - Len(u)]
    BY ONLY u \in Seq(Entries), r \in Seq(Entries), ConcatProperties, LenProperties
  <2>3. PICK i \in 1 .. Len(u) + Len(r) : e = (u \o r)[i]
    <3>1. PICK i \in DOMAIN (u \o r) : e = (u \o r)[i]
      BY <2>1 DEF Range
    <3>2. DOMAIN (u \o r) = 1 .. Len(u) + Len(r)
      BY <2>2, LenProperties
    <3> QED
      BY <3>1, <3>2
  <2>4. e \in Entries /\ Link(e, named, nextState)
    <3>1. CASE i <= Len(u)
      <4>1. e = undo[i] /\ i \in 1 .. Len(undo)
        BY <2>1, <2>2, <2>3, <3>1
      <4> QED
        BY <1>1, <4>1 DEF Past
    <3>2. CASE ~(i <= Len(u))
      <4>1. e = redo[i - Len(u)] /\ i - Len(u) \in 1 .. Len(redo)
        BY <2>1, <2>2, <2>3, <3>2
      <4> QED
        BY <1>1, <4>1 DEF Future
    <3> QED
      BY <3>1, <3>2
  <2>5. e.before \in Nat /\ e.after \in Nat /\ e.before < e.after /\ e.after < nextState
    BY <2>4 DEF Entries, Link
  <2> QED
    BY <1>1, <2>5
<1>5. /\ savedState \in 0 .. (nextState - 1) /\ savedText = named[savedState]
      /\ \/ snapshot = NoSnapshot
         \/ snapshot.state \in 0 .. (nextState - 1) /\ snapshot.text = named[snapshot.state]
  BY <1>0 DEF Filed
<1>6. savedText \in Seq(Chars) /\ (snapshot = NoSnapshot \/ snapshot.text \in Seq(Chars))
  <2>1. \A s \in 0 .. (nextState - 1) : named[s] \in Seq(Chars)
    BY <1>0, <1>1, NamedText DEF Strings
  <2> QED
    BY <1>5, <2>1
<1>7. RetainedBy(undo) \in Nat /\ RetainedBy(redo) \in Nat
  BY <1>1, HeldType
<1>8. TypeOK
  <2>1. retained \in Nat
    BY <1>1, <1>7
  <2>2. nextState \in 1 .. (MaxEdits + 1) /\ state \in 0 .. (nextState - 1)
    BY <1>1
  <2>3. text \in Seq(Chars)
    BY <1>2 DEF Strings
  <2> QED
    BY <1>1, <1>2, <1>3, <1>4, <1>5, <1>6, <2>1, <2>2, <2>3 DEF TypeOK
<1>9. CaretsApart
  BY <1>3 DEF CaretsApart
<1>10. CleanIsSaved
  BY <1>1, <1>5 DEF CleanIsSaved
<1>11. BytesExact
  BY <1>0 DEF BytesExact, Document
<1> QED
  BY <1>8, <1>9, <1>10, <1>11 DEF EditorOK

\* There is always one text for every state that was named, which the document, the file and
\* the writer's snapshot agree on, and the entries to undo and redo lead from each to the
\* next and back (history.rs, record, pop_undo and pop_redo; transaction.rs, inverse_of).
THEOREM EditorInvariant == Spec => []EditorInv
BY EditorInit, EditorStep, PTL DEF Spec

\* Every edit, undo, redo and reload leaves a text within the limit and carets that are in it
\* and apart (document.rs, apply_validated; selection.rs, Selection::many and clamp).
THEOREM EditorCorrect == Spec => []EditorOK
BY EditorInvariant, EditorImplies, PTL

\* A document that is not dirty shows what the file holds, whatever was typed, undone or
\* reloaded while it was written (document.rs, is_dirty and confirm_save).
THEOREM EditorClean == Spec => []CleanIsSaved
BY EditorInvariant, EditorImplies, PTL

\* The bytes the history counts are those of its entries and within its budget, through
\* joins, undo, redo and trims (history.rs, record and trim).
THEOREM EditorBytes == Spec => []BytesExact
BY EditorInvariant, EditorImplies, PTL

-----------------------------------------------------------------------------
(* The refinement of EditTimeline: the texts its past and future hold are  *)
(* those that the states of the entries name.                              *)

\* What an edit inserts is in the text, where the edits before it moved it.
LEMMA InsertedAt ==
  ASSUME NEW t, NEW edits, Fit(edits, t), NEW k \in 1 .. Len(edits)
  PROVE  Cut(Applied(t, edits), edits[k].from + Shifts(edits)[k - 1], Mark(edits, k)) = edits[k].insert
<1> DEFINE A == After(t, edits)
           N == Len(edits)
<1>1. /\ N \in Nat /\ t \in Strings /\ Len(t) \in Nat /\ edits \in Seq(Edits) /\ edits[k].insert \in Strings
      /\ k - 1 \in 0 .. N /\ k \in 0 .. N /\ N \in k .. N /\ N \in 0 .. N
  BY Marks, EditAt DEF Fit
<1>2. PICK y \in Strings, m \in Nat, b \in Int :
        /\ y = edits[k].insert /\ m = Mark(edits, k)
        /\ b = edits[k].from + Shifts(edits)[k - 1] /\ m = b + Len(y)
  <2>1. edits[k].from \in Nat /\ Shifts(edits)[k - 1] \in Int
    BY <1>1, EditAt, ShiftsDef
  <2>2. edits[k].from + Shifts(edits)[k - 1] \in Int
    BY <2>1
  <2> QED
    BY <1>1, <2>2, Marks
<1>3. PICK F \in Strings : F = Applied(t, edits) /\ F = A[N] /\ Parted(F, t, edits, N)
  BY <1>1, AfterIs, AppliedIs
<1>4. PICK g \in Strings : /\ g = Done(A[k - 1], edits, k - 1) \o Cut(t, End(edits, k - 1), edits[k].from)
                           /\ Done(A[k], edits, k) = g \o y
  <2>1. Parted(A[k - 1], t, edits, k - 1) /\ A[k] = Replaced(A[k - 1], edits[k], Shifts(edits)[k - 1])
    BY <1>1, AfterIs
  <2> HIDE DEF A
  <2>2. Done(A[k], edits, k)
        = (Done(A[k - 1], edits, k - 1) \o Cut(t, End(edits, k - 1), edits[k].from)) \o edits[k].insert
    BY <2>1, PartedStep
  <2>3. Done(A[k - 1], edits, k - 1) \in Strings
    BY <1>1, <2>1, PartedHead
  <2>4. /\ End(edits, k - 1) \in Nat /\ edits[k].from \in Nat /\ End(edits, k - 1) <= edits[k].from
        /\ edits[k].from <= Len(t)
    <3>1. edits[k].from \in Nat /\ edits[k].to \in Nat /\ edits[k].from <= edits[k].to /\ edits[k].to <= Len(t)
      BY <1>1, EditAt DEF Fit
    <3>2. edits[k].from <= Len(t)
      BY <1>1, <3>1
    <3> QED
      BY <1>1, <3>1, <3>2, Marks
  <2>5. Cut(t, End(edits, k - 1), edits[k].from) \in Strings
    BY ONLY <1>1, <2>4, Piece
  <2> QED
    BY <1>2, <2>2, <2>3, <2>5, Joins
<1>5. Cut(F, 0, m) = g \o y /\ m <= Len(F)
  <2>1. /\ Mark(edits, k) <= Mark(edits, N)
        /\ Cut(A[N], 0, Mark(edits, k)) = Cut(A[k], 0, Mark(edits, k))
    BY <1>1, Heads
  <2>2. Len(F) = Mark(edits, N) + (Len(t) - End(edits, N)) /\ End(edits, N) <= Len(t)
        /\ End(edits, N) \in Nat /\ Mark(edits, N) \in Nat
    BY <1>1, <1>3, PartedHead, Marks
  <2>3. m <= Len(F)
    BY <1>1, <1>2, <2>1, <2>2
  <2> QED
    BY <1>2, <1>3, <1>4, <2>1, <2>3 DEF Done
<1>6. PICK z \in Strings : F = (g \o y) \o z
  <2>1. 0 \in Nat /\ 0 <= m /\ Len(F) \in Nat /\ Len(F) <= Len(F)
    BY Lengths
  <2>2. Cut(F, 0, m) \o Cut(F, m, Len(F)) = Cut(F, 0, Len(F)) /\ Cut(F, 0, Len(F)) = F
    BY ONLY <1>5, <2>1, F \in Strings, m \in Nat, Meet, Whole, ZenonT(60)
  <2>3. Cut(F, m, Len(F)) \in Strings
    BY ONLY <1>5, <2>1, F \in Strings, m \in Nat, Piece
  <2> QED
    BY <1>5, <2>2, <2>3
<1>7. Cut(F, Len(g), Len(g) + Len(y)) = y
  BY ONLY <1>6, g \in Strings, y \in Strings, z \in Strings, Middle
<1>8. Len(g) = b
  <2>1. Len(Cut(F, 0, m)) = m
    <3>1. 0 \in Nat /\ 0 <= m /\ m - 0 = m
      OBVIOUS
    <3>2. Len(Cut(F, 0, m)) = m - 0
      BY ONLY <1>5, <3>1, F \in Strings, m \in Nat, Piece
    <3> QED
      BY ONLY <3>1, <3>2
  <2>2. Len(g \o y) = Len(g) + Len(y) /\ Len(g) \in Nat /\ Len(y) \in Nat
    BY Joins, Lengths
  <2>3. b = m - Len(y)
    BY ONLY <1>2, <2>2, b \in Int, m \in Nat
  <2>4. m = Len(g) + Len(y)
    BY <1>5, <2>1, <2>2
  <2> QED
    BY ONLY <2>2, <2>3, <2>4, b \in Int, m \in Nat
<1> QED
  BY <1>2, <1>3, <1>7, <1>8

\* What holds of the end and is passed back holds of all.
LEMMA Backwards ==
  ASSUME NEW n \in Nat, NEW T, n + 1 \in T, \A k \in 1 .. n : k + 1 \in T => k \in T
  PROVE  \A k \in 1 .. (n + 1) : k \in T
<1> DEFINE V == {j \in 0 .. n : (n + 1) - j \in T}
<1>1. 0 \in V
  OBVIOUS
<1>2. ASSUME NEW j \in 1 .. n, j - 1 \in V PROVE j \in V
  <2>1. (n + 1) - j \in 1 .. n /\ ((n + 1) - j) + 1 = (n + 1) - (j - 1)
    OBVIOUS
  <2> QED
    BY <1>2, <2>1
<1> HIDE DEF V
<1>3. \A j \in 0 .. n : j \in V
  BY <1>1, <1>2, Inducts
<1>4. ASSUME NEW k \in 1 .. (n + 1) PROVE k \in T
  <2>1. (n + 1) - k \in 0 .. n /\ (n + 1) - ((n + 1) - k) = k
    OBVIOUS
  <2> QED
    BY <1>3, <2>1 DEF V
<1> QED
  BY <1>4

\* So a recursion from the end has one result.
LEMMA Unwinds ==
  ASSUME NEW n \in Nat, NEW p, NEW q, q[n + 1] = p[n + 1],
         \A k \in 1 .. n : q[k + 1] = p[k + 1] => q[k] = p[k]
  PROVE  \A k \in 1 .. (n + 1) : q[k] = p[k]
<1> DEFINE T == {k \in 1 .. (n + 1) : q[k] = p[k]}
<1>1. n + 1 \in T
  OBVIOUS
<1>2. \A k \in 1 .. n : k + 1 \in T => k \in T
  OBVIOUS
<1> HIDE DEF T
<1>3. \A k \in 1 .. (n + 1) : k \in T
  BY <1>1, <1>2, Backwards
<1> QED
  BY <1>3 DEF T

\* Replacing the ranges of a text all at once makes what applying them in turn makes.
LEMMA SplicedIs ==
  ASSUME NEW t, NEW edits, Fit(edits, t)
  PROVE  Spliced(t, edits) = Applied(t, edits)
<1> DEFINE n == Len(edits)
           rec(part) == part = [i \in 1 .. Len(edits) + 1 |->
                          LET from == IF i = 1 THEN 0 ELSE edits[i - 1].to
                          IN IF i > Len(edits) THEN Cut(t, from, Len(t))
                             ELSE Cut(t, from, edits[i].from) \o edits[i].insert \o part[i + 1]]
<1>1. n \in Nat /\ t \in Strings /\ Len(t) \in Nat
  BY Marks DEF Fit
<1>2. PICK F \in Strings : F = Applied(t, edits) /\ Parted(F, t, edits, n) /\ Len(F) \in Nat
  <2>1. n \in 0 .. n
    BY <1>1
  <2> QED
    BY <2>1, AfterIs, AppliedIs, Lengths
<1> DEFINE p == [i \in 1 .. (n + 1) |-> Cut(F, Mark(edits, i - 1), Len(F))]
<1>3. p[n + 1] = Cut(t, End(edits, n), Len(t)) /\ \A k \in 0 .. n : Mark(edits, k) <= Len(F)
  <2>1. PICK h \in Strings : F = h \o Cut(t, End(edits, n), Len(t)) /\ Len(h) = Mark(edits, n)
    BY <1>2 DEF Parted
  <2>2. /\ n \in 0 .. n /\ n + 1 \in 1 .. (n + 1) /\ (n + 1) - 1 = n
        /\ End(edits, n) \in Nat /\ End(edits, n) <= Len(t) /\ Mark(edits, n) \in Nat
    BY <1>1, Marks
  <2>3. PICK x \in Strings : x = Cut(t, End(edits, n), Len(t))
    <3>1. Len(t) <= Len(t)
      BY <1>1
    <3>2. Cut(t, End(edits, n), Len(t)) \in Strings
      BY ONLY <1>1, <2>2, <3>1, Piece
    <3> QED
      BY <3>2
  <2>4. F = h \o x /\ F = (h \o x) \o <<>> /\ <<>> \in Strings
    BY <2>1, <2>3, Joins, ConcatEmptySeq DEF Strings
  <2>5. Len(F) = Len(h) + Len(x) /\ Len(h) \in Nat /\ Len(x) \in Nat
    BY <2>4, Joins, Lengths
  <2>6. Cut(F, Len(h), Len(h) + Len(x)) = x
    <3>1. PICK y \in Strings : y = <<>>
      BY <2>4
    <3>2. Cut((h \o x) \o y, Len(h), Len(h) + Len(x)) = x
      BY ONLY h \in Strings, x \in Strings, y \in Strings, Middle
    <3>3. (h \o x) \o y = F
      BY ONLY <2>4, <3>1
    <3> QED
      BY ONLY <3>2, <3>3
  <2>7. p[n + 1] = x
    BY <2>1, <2>2, <2>5, <2>6
  <2>8. ASSUME NEW k \in 0 .. n PROVE Mark(edits, k) <= Len(F)
    <3>1. n \in k .. n
      BY <1>1
    <3>2. Mark(edits, k) <= Mark(edits, n) /\ Mark(edits, k) \in Nat
      BY <3>1, Heads, Marks
    <3> QED
      BY <2>1, <2>2, <2>5, <3>2
  <2> QED
    BY <2>3, <2>7, <2>8
<1>4. ASSUME NEW k \in 1 .. n
      PROVE  p[k] = Cut(t, End(edits, k - 1), edits[k].from) \o edits[k].insert \o p[k + 1]
  <2>1. PICK a \in Nat, b \in Nat, c \in Nat :
          /\ a = Mark(edits, k - 1) /\ b = edits[k].from + Shifts(edits)[k - 1] /\ c = Mark(edits, k)
          /\ a <= b /\ b <= c /\ c <= Len(F)
    <3>1. k - 1 \in 0 .. n /\ k \in 0 .. n
      BY <1>1
    <3>2. PICK e \in Nat, f \in Nat, l \in Nat, a \in Nat, c \in Nat :
            /\ e = End(edits, k - 1) /\ f = edits[k].from /\ l = Len(edits[k].insert)
            /\ a = Mark(edits, k - 1) /\ c = Mark(edits, k) /\ c <= Len(F)
      BY <1>3, <3>1, Marks, EditAt DEF Fit
    <3>3. /\ e <= f /\ edits[k].from + Shifts(edits)[k - 1] = a + (f - e)
          /\ c = edits[k].from + Shifts(edits)[k - 1] + l
      BY <3>2, Marks
    <3>4. a + (f - e) \in Nat /\ a <= a + (f - e) /\ a + (f - e) <= (a + (f - e)) + l
      BY ONLY <3>3, e \in Nat, f \in Nat, a \in Nat, l \in Nat
    <3> QED
      BY <3>2, <3>3, <3>4
  <2>2. /\ Cut(F, a, b) = Cut(t, End(edits, k - 1), edits[k].from)
        /\ Cut(F, b, c) = edits[k].insert
    BY <1>2, <2>1, Between, InsertedAt
  <2>3. (Cut(F, a, b) \o Cut(F, b, c)) \o Cut(F, c, Len(F)) = Cut(F, a, Len(F))
    <3>1. PICK l \in Nat : l = Len(F)
      BY <1>2
    <3>2. a <= b /\ b <= c /\ a <= c /\ c <= l /\ l <= Len(F) /\ c <= Len(F)
      BY ONLY <2>1, <3>1, a \in Nat, b \in Nat, c \in Nat, l \in Nat
    <3>3. Cut(F, a, b) \o Cut(F, b, c) = Cut(F, a, c)
      BY ONLY <3>2, F \in Strings, a \in Nat, b \in Nat, c \in Nat, Meet
    <3>4. Cut(F, a, c) \o Cut(F, c, l) = Cut(F, a, l)
      BY ONLY <3>2, F \in Strings, a \in Nat, c \in Nat, l \in Nat, Meet
    <3> QED
      BY <3>1, <3>3, <3>4
  <2>4. k \in 1 .. (n + 1) /\ k + 1 \in 1 .. (n + 1) /\ (k + 1) - 1 = k
    BY <1>1
  <2>5. p[k] = Cut(F, a, Len(F)) /\ p[k + 1] = Cut(F, c, Len(F))
    BY <2>1, <2>4
  <2> QED
    BY <2>2, <2>3, <2>5
<1>5. p[1] = F
  <2>1. 1 \in 1 .. (n + 1) /\ 1 - 1 = 0
    BY <1>1
  <2>2. Mark(edits, 0) = 0
    BY Marks
  <2>3. Cut(F, 0, Len(F)) = F
    BY Whole
  <2> QED
    BY <2>1, <2>2, <2>3
<1> HIDE DEF p
<1>6. rec(p)
  <2>1. p = [i \in 1 .. (n + 1) |-> p[i]]
    BY DEF p
  <2>2. ASSUME NEW i \in 1 .. (n + 1)
        PROVE  p[i] = LET from == IF i = 1 THEN 0 ELSE edits[i - 1].to
                      IN IF i > Len(edits) THEN Cut(t, from, Len(t))
                         ELSE Cut(t, from, edits[i].from) \o edits[i].insert \o p[i + 1]
    <3>1. (IF i = 1 THEN 0 ELSE edits[i - 1].to) = End(edits, i - 1)
      BY DEF End
    <3>2. \/ i = n + 1 /\ i > Len(edits) /\ i - 1 = n
          \/ i \in 1 .. n /\ ~(i > Len(edits))
      BY <1>1
    <3> QED
      BY <1>3, <1>4, <3>1, <3>2
  <2> QED
    BY <2>1, <2>2
<1>7. PICK q : rec(q) /\ Spliced(t, edits) = q[1]
  <2>1. Spliced(t, edits) = (CHOOSE part : rec(part))[1]
    BY DEF Spliced
  <2> HIDE DEF rec
  <2>2. rec(CHOOSE part : rec(part))
    BY <1>6
  <2> QED
    BY <2>1, <2>2
<1>8. q[n + 1] = p[n + 1]
  <2>1. n + 1 \in 1 .. (Len(edits) + 1) /\ n + 1 > Len(edits) /\ (n + 1) - 1 = n
    BY <1>1
  <2>2. (IF n + 1 = 1 THEN 0 ELSE edits[(n + 1) - 1].to) = End(edits, n)
    BY <1>1 DEF End
  <2> QED
    BY <1>3, <1>7, <2>1, <2>2
<1>9. ASSUME NEW k \in 1 .. n, q[k + 1] = p[k + 1] PROVE q[k] = p[k]
  <2>1. k \in 1 .. (Len(edits) + 1) /\ ~(k > Len(edits))
    BY <1>1
  <2>2. (IF k = 1 THEN 0 ELSE edits[k - 1].to) = End(edits, k - 1)
    BY DEF End
  <2>3. q[k] = Cut(t, End(edits, k - 1), edits[k].from) \o edits[k].insert \o q[k + 1]
    BY <1>7, <2>1, <2>2
  <2> QED
    BY <1>4, <1>9, <2>3
<1> HIDE DEF rec, n
<1>10. \A k \in 1 .. (n + 1) : q[k] = p[k]
  BY <1>1, <1>8, <1>9, Unwinds
<1>11. 1 \in 1 .. (n + 1)
  BY <1>1
<1> QED
  BY <1>2, <1>5, <1>7, <1>10, <1>11

\* Texts computes the texts that a sequence of lists of edits leads through, if these are
\* known.
LEMMA TextsIs ==
  ASSUME NEW t, NEW changes, NEW n \in Nat, Len(changes) = n, DOMAIN changes = 1 .. n,
         NEW to, to[n + 1] = t, \A k \in 1 .. n : Spliced(to[k + 1], changes[k]) = to[k]
  PROVE  Texts(t, changes) = [k \in 1 .. n |-> to[k]]
<1> DEFINE rec(reached) == reached = [k \in 1 .. Len(changes) + 1 |->
                 IF k > Len(changes) THEN t ELSE Spliced(reached[k + 1], changes[k])]
           p == [k \in 1 .. (n + 1) |-> to[k]]
<1>1. p[n + 1] = t /\ \A k \in 1 .. n : p[k] = Spliced(p[k + 1], changes[k])
  <2>1. n + 1 \in 1 .. (n + 1) /\ \A k \in 1 .. n : k \in 1 .. (n + 1) /\ k + 1 \in 1 .. (n + 1)
    OBVIOUS
  <2> QED
    BY <2>1
<1>2. p = [k \in 1 .. (n + 1) |-> p[k]] /\ \A k \in 1 .. n : p[k] = to[k]
  OBVIOUS
<1> HIDE DEF p
<1>3. rec(p)
  <2>1. ASSUME NEW k \in 1 .. (n + 1)
        PROVE  p[k] = IF k > Len(changes) THEN t ELSE Spliced(p[k + 1], changes[k])
    <3>1. (k = n + 1 /\ k > n) \/ (k \in 1 .. n /\ ~(k > n))
      OBVIOUS
    <3> QED
      BY <1>1, <3>1
  <2> QED
    BY <1>2, <2>1
<1>4. PICK q : rec(q) /\ Texts(t, changes) = [k \in DOMAIN changes |-> q[k]]
  <2>1. Texts(t, changes) = [k \in DOMAIN changes |-> (CHOOSE reached : rec(reached))[k]]
    BY DEF Texts
  <2> HIDE DEF rec
  <2>2. rec(CHOOSE reached : rec(reached))
    BY <1>3
  <2> QED
    BY <2>1, <2>2
<1>5. q[n + 1] = t /\ \A k \in 1 .. n : q[k] = Spliced(q[k + 1], changes[k])
  <2>1. n + 1 \in 1 .. (Len(changes) + 1) /\ n + 1 > Len(changes)
    OBVIOUS
  <2>2. q[n + 1] = t
    BY <1>4, <2>1
  <2>3. ASSUME NEW k \in 1 .. n PROVE q[k] = Spliced(q[k + 1], changes[k])
    <3>1. k \in 1 .. (Len(changes) + 1) /\ ~(k > Len(changes))
      OBVIOUS
    <3> QED
      BY <1>4, <3>1
  <2> QED
    BY <2>2, <2>3
<1> HIDE DEF rec
<1>6. q[n + 1] = p[n + 1] /\ \A k \in 1 .. n : q[k + 1] = p[k + 1] => q[k] = p[k]
  BY <1>1, <1>5
<1>7. \A k \in 1 .. (n + 1) : q[k] = p[k]
  BY <1>6, Unwinds
<1>8. \A k \in 1 .. n : q[k] = to[k]
  <2>1. \A k \in 1 .. n : k \in 1 .. (n + 1)
    OBVIOUS
  <2> QED
    BY <1>2, <1>7, <2>1
<1> QED
  BY <1>4, <1>8

\* The steps to undo and to redo, with the texts that their states name.
Steps(entries, named) ==
  [n \in DOMAIN entries |-> [text |-> named[entries[n].before], carets |-> entries[n].backSel[1]]]

Returns(entries, named) ==
  [n \in DOMAIN entries |-> [text |-> named[entries[n].after], before |-> entries[n].backSel[1]]]

\* What an entry that leads from one text to another does, all at once.
LEMMA LeadsSpliced ==
  ASSUME NEW e, NEW t, NEW u, Leads(e, t, u)
  PROVE  Spliced(t, e.forth) = u /\ Spliced(u, e.back) = t
<1>1. Fit(e.forth, t) /\ u = Applied(t, e.forth) /\ e.back = Undoing(t, e.forth)
  BY DEF Leads
<1>2. Fit(e.back, u) /\ Applied(u, e.back) = t
  BY <1>1, InverseIs, Undone
<1> QED
  BY <1>1, <1>2, SplicedIs

\* The texts of a past are those of the states its entries start in.
LEMMA UndoableIs ==
  ASSUME NEW entries, NEW named, NEW at, NEW next, Past(entries, named, at, next)
  PROVE  Undoable(named[at], entries) = Steps(entries, named)
<1> DEFINE n == Len(entries)
           changes == [k \in DOMAIN entries |-> entries[k].back]
           to == [k \in 1 .. (n + 1) |-> IF k = n + 1 THEN named[at] ELSE named[entries[k].before]]
<1>1. entries \in Seq(Entries) /\ n \in Nat /\ DOMAIN entries = 1 .. n
  BY LenProperties DEF Past
<1>2. /\ \A k \in 1 .. n : entries[k] \in Entries /\ entries[k].back \in Seq(Edits)
      /\ changes \in [1 .. n -> Seq(Edits)] /\ \A k \in 1 .. n : changes[k] = entries[k].back
  <2>1. \A k \in 1 .. n : entries[k] \in Entries
    BY <1>1
  <2>2. \A k \in 1 .. n : entries[k].back \in Seq(Edits)
    BY <2>1 DEF Entries
  <2> QED
    BY <1>1, <2>1, <2>2
<1> HIDE DEF changes
<1>3. Len(changes) = n /\ DOMAIN changes = 1 .. n
  BY <1>1, <1>2, FunctionSeq
<1>4. to[n + 1] = named[at]
  <2>1. n + 1 \in 1 .. (n + 1)
    BY <1>1
  <2> QED
    BY <2>1
<1>5. ASSUME NEW k \in 1 .. n
      PROVE  to[k] = named[entries[k].before] /\ Spliced(to[k + 1], changes[k]) = to[k]
  <2>1. k \in 1 .. (n + 1) /\ k + 1 \in 1 .. (n + 1) /\ k # n + 1 /\ (k + 1 = n + 1 => k = n)
    <3> HIDE DEF n
    <3>1. n \in Nat /\ k \in 1 .. n
      BY <1>1
    <3> QED
      BY ONLY <3>1
  <2>2. to[k] = named[entries[k].before]
    BY <2>1
  <2>3. /\ Link(entries[k], named, next)
        /\ entries[k].after = IF k = n THEN at ELSE entries[k + 1].before
    BY DEF Past
  <2>4. to[k + 1] = named[entries[k].after]
    BY <2>1, <2>3
  <2>5. Spliced(named[entries[k].after], entries[k].back) = named[entries[k].before]
    BY <2>3, LeadsSpliced DEF Link
  <2> QED
    BY <1>2, <2>2, <2>4, <2>5
<1> HIDE DEF to, n
<1>6. Texts(named[at], changes) = [k \in 1 .. n |-> to[k]]
  BY <1>1, <1>3, <1>4, <1>5, TextsIs
<1>7. \A k \in 1 .. n : Texts(named[at], changes)[k] = named[entries[k].before]
  BY <1>5, <1>6
<1>8. Undoable(named[at], entries)
      = [k \in DOMAIN entries |-> [text |-> Texts(named[at], changes)[k], carets |-> entries[k].backSel[1]]]
  BY DEF Undoable, changes
<1> QED
  BY <1>1, <1>7, <1>8 DEF Steps

\* The texts of a future are those of the states its entries end in.
LEMMA RedoableIs ==
  ASSUME NEW entries, NEW named, NEW at, NEW next, Future(entries, named, at, next)
  PROVE  Redoable(named[at], entries) = Returns(entries, named)
<1> DEFINE n == Len(entries)
           changes == [k \in DOMAIN entries |-> entries[k].forth]
           to == [k \in 1 .. (n + 1) |-> IF k = n + 1 THEN named[at] ELSE named[entries[k].after]]
<1>1. entries \in Seq(Entries) /\ n \in Nat /\ DOMAIN entries = 1 .. n
  BY LenProperties DEF Future
<1>2. /\ \A k \in 1 .. n : entries[k] \in Entries /\ entries[k].forth \in Seq(Edits)
      /\ changes \in [1 .. n -> Seq(Edits)] /\ \A k \in 1 .. n : changes[k] = entries[k].forth
  <2>1. \A k \in 1 .. n : entries[k] \in Entries
    BY <1>1
  <2>2. \A k \in 1 .. n : entries[k].forth \in Seq(Edits)
    BY <2>1 DEF Entries
  <2> QED
    BY <1>1, <2>1, <2>2
<1> HIDE DEF changes
<1>3. Len(changes) = n /\ DOMAIN changes = 1 .. n
  BY <1>1, <1>2, FunctionSeq
<1>4. to[n + 1] = named[at]
  <2>1. n + 1 \in 1 .. (n + 1)
    BY <1>1
  <2> QED
    BY <2>1
<1>5. ASSUME NEW k \in 1 .. n
      PROVE  to[k] = named[entries[k].after] /\ Spliced(to[k + 1], changes[k]) = to[k]
  <2>1. k \in 1 .. (n + 1) /\ k + 1 \in 1 .. (n + 1) /\ k # n + 1 /\ (k + 1 = n + 1 => k = n)
    <3> HIDE DEF n
    <3>1. n \in Nat /\ k \in 1 .. n
      BY <1>1
    <3> QED
      BY ONLY <3>1
  <2>2. to[k] = named[entries[k].after]
    BY <2>1
  <2>3. /\ Link(entries[k], named, next)
        /\ entries[k].before = IF k = n THEN at ELSE entries[k + 1].after
    BY DEF Future
  <2>4. to[k + 1] = named[entries[k].before]
    BY <2>1, <2>3
  <2>5. Spliced(named[entries[k].before], entries[k].forth) = named[entries[k].after]
    BY <2>3, LeadsSpliced DEF Link
  <2> QED
    BY <1>2, <2>2, <2>4, <2>5
<1> HIDE DEF to, n
<1>6. Texts(named[at], changes) = [k \in 1 .. n |-> to[k]]
  BY <1>1, <1>3, <1>4, <1>5, TextsIs
<1>7. \A k \in 1 .. n : Texts(named[at], changes)[k] = named[entries[k].after]
  BY <1>5, <1>6
<1>8. Redoable(named[at], entries)
      = [k \in DOMAIN entries |-> [text |-> Texts(named[at], changes)[k], before |-> entries[k].backSel[1]]]
  BY DEF Redoable, changes
<1> QED
  BY <1>1, <1>7, <1>8 DEF Returns

\* Carets that are apart are apart two by two.
LEMMA ApartPairs ==
  ASSUME NEW len \in Nat, NEW cursors, Within(cursors, len), Apart(cursors)
  PROVE  \A a, b \in 1 .. Len(cursors) : a < b => Upper(cursors[a]) < Lower(cursors[b])
<1>1. cursors \in Seq(Cursors) /\ Len(cursors) \in Nat
  BY LenProperties DEF Within
<1>2. \A n \in 1 .. Len(cursors) : /\ Lower(cursors[n]) \in Nat /\ Upper(cursors[n]) \in Nat
                                   /\ Lower(cursors[n]) <= Upper(cursors[n])
  BY <1>1, CaretEnds
<1> SUFFICES ASSUME NEW a \in 1 .. Len(cursors)
             PROVE  \A b \in 1 .. Len(cursors) : a < b => Upper(cursors[a]) < Lower(cursors[b])
  OBVIOUS
<1> DEFINE V == {b \in 0 .. Len(cursors) : b > a => Upper(cursors[a]) < Lower(cursors[b])}
<1>3. 0 \in V
  BY <1>1
<1>4. ASSUME NEW b \in 1 .. Len(cursors), b - 1 \in V PROVE b \in V
  <2>1. b \in 0 .. Len(cursors)
    BY <1>1
  <2>2. CASE b > a
    <3>1. b - 1 \in 1 .. (Len(cursors) - 1) /\ b - 1 \in 1 .. Len(cursors) /\ (b - 1) + 1 = b
          /\ (b - 1 = a \/ b - 1 > a)
      BY <1>1, <2>2
    <3>2. Upper(cursors[b - 1]) < Lower(cursors[b])
      BY <3>1 DEF Apart
    <3>3. Upper(cursors[a]) <= Upper(cursors[b - 1])
      <4>1. CASE b - 1 = a
        BY <1>2, <4>1
      <4>2. CASE b - 1 > a
        <5>1. Upper(cursors[a]) < Lower(cursors[b - 1])
          BY <1>4, <4>2
        <5>2. PICK x \in Nat, y \in Nat, z \in Nat :
                /\ x = Upper(cursors[a]) /\ y = Lower(cursors[b - 1]) /\ z = Upper(cursors[b - 1])
                /\ y <= z
          BY <1>2, <3>1
        <5>3. x <= z
          BY ONLY <5>1, <5>2, x \in Nat, y \in Nat, z \in Nat
        <5> QED
          BY <5>2, <5>3
      <4> QED
        BY <3>1, <4>1, <4>2
    <3>4. Upper(cursors[a]) < Lower(cursors[b])
      <4>1. PICK x \in Nat, y \in Nat, z \in Nat :
              x = Upper(cursors[a]) /\ y = Upper(cursors[b - 1]) /\ z = Lower(cursors[b])
        BY <1>2, <3>1
      <4>2. x < z
        BY ONLY <3>2, <3>3, <4>1, x \in Nat, y \in Nat, z \in Nat
      <4> QED
        BY <4>1, <4>2
    <3> QED
      BY <2>1, <3>4
  <2> QED
    BY <2>1, <2>2
<1> HIDE DEF V
<1>5. \A b \in 0 .. Len(cursors) : b \in V
  BY <1>1, <1>3, <1>4, Inducts
<1> QED
  BY <1>1, <1>5 DEF V

\* The first members of a sequence, with one more.
LEMMA CutOneMore ==
  ASSUME NEW S, NEW s \in Seq(S), NEW k \in 1 .. Len(s)
  PROVE  Append(Cut(s, 0, k - 1), s[k]) = Cut(s, 0, k)
<1>1. Len(s) \in Nat /\ k - 1 \in Nat /\ k \in Nat /\ k <= Len(s) /\ k - 1 <= Len(s) /\ s[k] \in S
  BY LenProperties
<1>2. 0 \in Nat /\ 0 <= k - 1 /\ 0 <= k /\ (k - 1) - 0 = k - 1 /\ k - 0 = k
  BY <1>1
<1>3. PICK c \in Seq(S) : /\ c = Cut(s, 0, k - 1) /\ Len(c) = k - 1
                          /\ \A i \in 1 .. (k - 1) : c[i] = s[0 + i]
  <2>1. PICK z \in Nat, j \in Nat : z = 0 /\ j = k - 1
    BY <1>1
  <2>0. z <= j /\ j <= Len(s)
    BY <1>1, <1>2, <2>1
  <2>2. /\ Cut(s, z, j) \in Seq(S) /\ Len(Cut(s, z, j)) = j - z
        /\ \A i \in 1 .. (j - z) : Cut(s, z, j)[i] = s[z + i]
    BY ONLY <2>0, s \in Seq(S), z \in Nat, j \in Nat, CutType
  <2> QED
    BY <1>2, <2>1, <2>2
<1>4. PICK d \in Seq(S) : d = Cut(s, 0, k) /\ Len(d) = k /\ \A i \in 1 .. k : d[i] = s[0 + i]
  <2>1. PICK z \in Nat, j \in Nat : z = 0 /\ j = k
    BY <1>1
  <2>0. z <= j /\ j <= Len(s)
    BY <1>1, <1>2, <2>1
  <2>2. /\ Cut(s, z, j) \in Seq(S) /\ Len(Cut(s, z, j)) = j - z
        /\ \A i \in 1 .. (j - z) : Cut(s, z, j)[i] = s[z + i]
    BY ONLY <2>0, s \in Seq(S), z \in Nat, j \in Nat, CutType
  <2> QED
    BY <1>2, <2>1, <2>2
<1>5. PICK e \in Seq(S) : e = Append(c, s[k]) /\ Len(e) = Len(c) + 1
  BY <1>1, AppendProperties
<1>6. ASSUME NEW i \in 1 .. k PROVE e[i] = d[i]
  <2>1. 0 + i = i
    OBVIOUS
  <2>2. CASE i = k
    <3>1. e[Len(c) + 1] = s[k] /\ Len(c) + 1 = k
      BY <1>1, <1>3, <1>5, AppendProperties
    <3> QED
      BY <1>4, <2>1, <2>2, <3>1
  <2>3. CASE i # k
    <3>1. i \in 1 .. (k - 1) /\ i \in 1 .. Len(c)
      BY <1>1, <1>3, <2>3
    <3>2. e[i] = c[i]
      BY <1>1, <1>5, <3>1, AppendProperties
    <3> QED
      BY <1>3, <1>4, <2>1, <3>1, <3>2
  <2> QED
    BY <2>2, <2>3
<1>7. Len(e) = k
  BY <1>1, <1>3, <1>5
<1>8. e = d
  BY <1>4, <1>6, <1>7, SeqEqual
<1> QED
  BY <1>3, <1>4, <1>5, <1>8

\* Merging leaves carets that are apart as they are.
LEMMA MergedKept ==
  ASSUME NEW len \in Nat, NEW cursors, Within(cursors, len), Apart(cursors)
  PROVE  Merged(cursors) = cursors
<1> DEFINE n == Len(cursors)
           rec(merged) == merged = [k \in 0 .. n |-> IF k = 0 THEN <<>> ELSE Joined(merged[k - 1], cursors[k])]
           p == [k \in 0 .. n |-> Cut(cursors, 0, k)]
<1>1. n \in Nat /\ cursors \in Seq(Cursors)
  BY LenProperties DEF Within
<1>2. /\ Cut(cursors, 0, 0) = <<>> /\ Cut(cursors, 0, n) = cursors
  BY <1>1, CutEnds
<1>3. ASSUME NEW k \in 1 .. n PROVE Joined(Cut(cursors, 0, k - 1), cursors[k]) = Cut(cursors, 0, k)
  <2>1. PICK z \in Nat, j \in Nat : z = 0 /\ j = k - 1
    BY <1>1
  <2>2. z <= j /\ j <= Len(cursors)
    BY <1>1, <2>1
  <2>3. /\ Cut(cursors, z, j) \in Seq(Cursors) /\ Len(Cut(cursors, z, j)) = j - z
        /\ \A i \in 1 .. (j - z) : Cut(cursors, z, j)[i] = cursors[z + i]
    BY ONLY <1>1, <2>2, z \in Nat, j \in Nat, CutType
  <2>4. PICK m \in Seq(Cursors) : /\ m = Cut(cursors, 0, k - 1) /\ Len(m) = k - 1
                                  /\ \A i \in 1 .. (k - 1) : m[i] = cursors[i]
    <3>1. j - z = j /\ \A i \in 1 .. j : z + i = i
      BY <2>1
    <3> QED
      BY <2>1, <2>3, <3>1
  <2>5. Append(m, cursors[k]) = Cut(cursors, 0, k)
    BY <1>1, <2>4, CutOneMore
  <2>6. ~(m # <<>> /\ Lower(cursors[k]) <= Upper(m[Len(m)]))
    <3> SUFFICES ASSUME m # <<>> PROVE ~(Lower(cursors[k]) <= Upper(m[Len(m)]))
      OBVIOUS
    <3>1. k - 1 \in 1 .. (k - 1) /\ k - 1 \in 1 .. n /\ k - 1 < k
      BY <1>1, <2>4, EmptySeq
    <3>2. m[Len(m)] = cursors[k - 1]
      BY <2>4, <3>1
    <3>3. Upper(cursors[k - 1]) < Lower(cursors[k])
      BY <1>1, <3>1, ApartPairs
    <3>4. PICK c \in Cursors, d \in Cursors : c = cursors[k - 1] /\ d = cursors[k]
      BY ONLY <1>1, <3>1, k \in 1 .. n DEF n
    <3>5. Upper(c) \in Nat /\ Lower(d) \in Nat
      BY ONLY c \in Cursors, d \in Cursors, CaretEnds
    <3>6. Upper(c) < Lower(d)
      BY ONLY <3>3, <3>4
    <3>7. ~(Lower(d) <= Upper(c))
      BY ONLY <3>5, <3>6
    <3> QED
      BY ONLY <3>2, <3>4, <3>7
  <2> QED
    BY <2>4, <2>5, <2>6 DEF Joined
<1>4. /\ p[0] = <<>> /\ p[n] = cursors /\ p = [k \in 0 .. n |-> p[k]]
      /\ \A k \in 1 .. n : p[k] = Joined(p[k - 1], cursors[k])
  <2>1. 0 \in 0 .. n /\ n \in 0 .. n /\ \A k \in 1 .. n : k \in 0 .. n /\ k - 1 \in 0 .. n
    BY <1>1
  <2> QED
    BY <1>2, <1>3, <2>1
<1> HIDE DEF p
<1>5. rec(p)
  <2>1. \A k \in 0 .. n : p[k] = IF k = 0 THEN <<>> ELSE Joined(p[k - 1], cursors[k])
    <3> TAKE k \in 0 .. n
    <3>1. k = 0 \/ (k # 0 /\ k \in 1 .. n)
      BY <1>1
    <3> QED
      BY <1>4, <3>1
  <2> QED
    BY <1>4, <2>1
<1> DEFINE g == CHOOSE merged : rec(merged)
<1>6. Merged(cursors) = g[n]
  BY DEF Merged
<1>7. rec(g)
  <2> HIDE DEF rec
  <2> QED
    BY <1>5
<1>8. g = [k \in 0 .. n |-> IF k = 0 THEN <<>> ELSE Joined(g[k - 1], cursors[k])]
  BY <1>7
<1> HIDE DEF g, rec
<1>9. g[0] = <<>> /\ \A k \in 1 .. n : g[k] = Joined(g[k - 1], cursors[k])
  <2>1. 0 \in 0 .. n /\ \A k \in 1 .. n : k \in 0 .. n /\ k # 0
    BY <1>1
  <2> QED
    BY <1>8, <2>1
<1> DEFINE V == {k \in 0 .. n : g[k] = p[k]}
<1>10. 0 \in V
  BY <1>1, <1>4, <1>9
<1>11. ASSUME NEW k \in 1 .. n, k - 1 \in V PROVE k \in V
  <2>1. g[k - 1] = p[k - 1] /\ k \in 0 .. n
    BY <1>1, <1>11
  <2> QED
    BY <1>4, <1>9, <2>1
<1> HIDE DEF V
<1>12. \A k \in 0 .. n : k \in V
  BY <1>1, <1>10, <1>11, Inducts
<1>13. n \in 0 .. n
  BY <1>1
<1> QED
  BY <1>4, <1>6, <1>12, <1>13 DEF V

\* Selection::many leaves a selection as it is.
LEMMA ManyKept ==
  ASSUME NEW len \in Nat, NEW sel, Good(sel, len)
  PROVE  Many(sel.cursors, sel.primary) = sel
<1>1. PICK cursors, primary : cursors = sel.cursors /\ primary = sel.primary
  OBVIOUS
<1>2. /\ cursors \in Seq(Cursors) /\ primary \in 1 .. Len(cursors) /\ Len(cursors) \in Nat
      /\ DOMAIN cursors = 1 .. Len(cursors)
      /\ Within(cursors, len) /\ Apart(cursors) /\ Len(cursors) <= MaxCursors
      /\ sel = [cursors |-> cursors, primary |-> primary]
  BY <1>1, LenProperties DEF Good, Selections
<1>3. \A i \in 1 .. Len(cursors) :
        /\ cursors[i].head \in Nat /\ Lower(cursors[i]) \in Nat /\ Upper(cursors[i]) \in Nat
        /\ Lower(cursors[i]) <= cursors[i].head /\ cursors[i].head <= Upper(cursors[i])
  <2> TAKE i \in 1 .. Len(cursors)
  <2>1. cursors[i] \in Cursors
    BY <1>2
  <2> QED
    BY <2>1 DEF Cursors, Lower, Upper
<1>4. \A a, b \in 1 .. Len(cursors) : a < b => Upper(cursors[a]) < Lower(cursors[b])
  BY <1>2, ApartPairs
<1>5. PICK from, to : from = [i \in DOMAIN cursors |-> Lower(cursors[i])] /\ to = [i \in DOMAIN cursors |-> Upper(cursors[i])]
  OBVIOUS
<1>6. /\ from \in Seq(Nat) /\ to \in Seq(Nat) /\ Len(from) = Len(cursors) /\ Len(to) = Len(cursors)
      /\ \A i \in 1 .. Len(cursors) : from[i] = Lower(cursors[i])
  <2>1. from \in [1 .. Len(cursors) -> Nat] /\ to \in [1 .. Len(cursors) -> Nat]
    BY <1>2, <1>3, <1>5
  <2>2. \A i \in 1 .. Len(cursors) : from[i] = Lower(cursors[i])
    BY <1>2, <1>5
  <2> QED
    BY <1>2, <2>1, <2>2, FunctionSeq
<1>7. ASSUME NEW a \in 1 .. Len(cursors), NEW b \in 1 .. Len(cursors), a < b PROVE UpTo(from, to, a, b)
  <2>1. Lower(cursors[a]) < Lower(cursors[b])
    <3>1. Upper(cursors[a]) < Lower(cursors[b])
      BY <1>4, <1>7
    <3>2. PICK x \in Nat, y \in Nat, z \in Nat :
            x = Lower(cursors[a]) /\ y = Upper(cursors[a]) /\ z = Lower(cursors[b]) /\ x <= y
      <4>1. Lower(cursors[a]) <= Upper(cursors[a])
        BY <1>2, CaretEnds
      <4> QED
        BY <1>3, <4>1
    <3>3. x < z
      BY ONLY <3>1, <3>2, x \in Nat, y \in Nat, z \in Nat
    <3> QED
      BY <3>2, <3>3
  <2> QED
    BY <1>6, <2>1 DEF UpTo
<1>8. Sorted(cursors, from, to) = cursors
  BY <1>2, <1>6, <1>7, SortedKept
<1>9. Merged(cursors) = cursors
  BY <1>2, MergedKept
<1>10. PICK held : held = {i \in DOMAIN cursors :
           \/ cursors[i].head = cursors[primary].head
           \/ Lower(cursors[i]) <= cursors[primary].head /\ cursors[primary].head < Upper(cursors[i])}
  OBVIOUS
<1>11. held = {primary}
  <2>1. primary \in held
    BY <1>2, <1>10
  <2>2. ASSUME NEW i \in held PROVE i = primary
    <3>1. /\ i \in 1 .. Len(cursors)
          /\ Lower(cursors[i]) <= cursors[primary].head /\ cursors[primary].head <= Upper(cursors[i])
      <4>1. i \in 1 .. Len(cursors)
        BY <1>2, <1>10
      <4>2. PICK l \in Nat, u \in Nat, h \in Nat, q \in Nat :
              /\ l = Lower(cursors[i]) /\ u = Upper(cursors[i]) /\ h = cursors[i].head
              /\ q = cursors[primary].head /\ l <= h /\ h <= u
        BY <1>2, <1>3, <4>1
      <4>3. h = q \/ (l <= q /\ q < u)
        BY <1>10, <4>2
      <4>4. l <= q /\ q <= u
        BY ONLY <4>2, <4>3, l \in Nat, u \in Nat, h \in Nat, q \in Nat
      <4> QED
        BY <4>1, <4>2, <4>4
    <3>2. PICK l \in Nat, u \in Nat, q \in Nat, a \in Nat, b \in Nat :
            /\ l = Lower(cursors[i]) /\ u = Upper(cursors[i]) /\ q = cursors[primary].head
            /\ a = Lower(cursors[primary]) /\ b = Upper(cursors[primary]) /\ a <= q /\ q <= b
      BY <1>2, <1>3, <3>1
    <3>3. l <= q /\ q <= u
      BY <3>1, <3>2
    <3>4. (i < primary => u < a) /\ (primary < i => b < l)
      BY <1>2, <1>4, <3>1, <3>2
    <3>5. ~(i < primary) /\ ~(primary < i)
      BY ONLY <3>2, <3>3, <3>4, l \in Nat, u \in Nat, q \in Nat, a \in Nat, b \in Nat
    <3> QED
      BY <1>2, <3>1, <3>5
  <2> QED
    BY <2>1, <2>2
<1>12. FirstOf(held) = primary
  <2>1. {primary} # {} /\ primary \in Nat
    BY <1>2
  <2>2. Min({primary}) = primary
    BY <2>1 DEF Min
  <2> QED
    BY <1>11, <2>1, <2>2 DEF FirstOf
<1>13. ~(Len(cursors) - MaxCursors > 0)
  BY <1>2, DocumentAssumption
<1>14. Many(cursors, primary) = [cursors |-> cursors, primary |-> FirstOf(held)]
  BY <1>5, <1>8, <1>9, <1>10, <1>13 DEF Many
<1> QED
  BY <1>1, <1>2, <1>12, <1>14

\* Clamping leaves carets that are in the text as they are.
LEMMA ClampedKept ==
  ASSUME NEW t \in Strings, NEW sel, Good(sel, Len(t))
  PROVE  Clamped(sel, t) = sel
<1>1. /\ sel \in Selections /\ sel.cursors \in Seq(Cursors) /\ Len(sel.cursors) \in Nat
      /\ DOMAIN sel.cursors = 1 .. Len(sel.cursors) /\ Within(sel.cursors, Len(t)) /\ Len(t) \in Nat
  BY Lengths, LenProperties DEF Good, Selections
<1>2. ASSUME NEW i \in DOMAIN sel.cursors
      PROVE  Selected(Clamp(sel.cursors[i].anchor, t), Clamp(sel.cursors[i].head, t)) = sel.cursors[i]
  <2>1. PICK c : c = sel.cursors[i]
    OBVIOUS
  <2>2. c \in Cursors /\ c.anchor <= Len(t) /\ c.head <= Len(t)
    BY <1>1, <2>1 DEF Within
  <2>3. c.anchor \in Nat /\ c.head \in Nat /\ c = [anchor |-> c.anchor, head |-> c.head]
    BY <2>2 DEF Cursors
  <2>4. Clamp(c.anchor, t) = c.anchor /\ Clamp(c.head, t) = c.head
    BY <1>1, <2>2, <2>3 DEF Clamp
  <2> QED
    BY <2>1, <2>3, <2>4 DEF Selected
<1>3. [i \in DOMAIN sel.cursors |->
         Selected(Clamp(sel.cursors[i].anchor, t), Clamp(sel.cursors[i].head, t))] = sel.cursors
  <2>1. sel.cursors = [i \in DOMAIN sel.cursors |-> sel.cursors[i]]
    BY <1>1
  <2> QED
    BY <1>2, <2>1
<1>4. Clamped(sel, t)
      = Many([i \in DOMAIN sel.cursors |->
                Selected(Clamp(sel.cursors[i].anchor, t), Clamp(sel.cursors[i].head, t))], sel.primary)
  BY DEF Clamped, Mapped
<1> QED
  BY <1>1, <1>3, <1>4, ManyKept

\* What is left when the oldest members go is a suffix.
LEMMA SuffixIs ==
  ASSUME NEW S, NEW s \in Seq(S), NEW n \in 0 .. Len(s)
  PROVE  Timeline!IsSuffix(Cut(s, n, Len(s)), s)
<1>1. Len(s) \in Nat /\ n \in Nat /\ n <= Len(s) /\ Len(s) <= Len(s) /\ \A k \in 1 .. Len(s) : s[k] \in S
  BY LenProperties
<1>2. PICK m \in Nat : m = Len(s) - n
  BY <1>1
<1>3. PICK u \in Seq(S) : u = Cut(s, n, Len(s)) /\ Len(u) = m /\ \A i \in 1 .. m : u[i] = s[n + i]
  <2>1. /\ Cut(s, n, Len(s)) \in Seq(S) /\ Len(Cut(s, n, Len(s))) = Len(s) - n
        /\ \A i \in 1 .. (Len(s) - n) : Cut(s, n, Len(s))[i] = s[n + i]
    BY ONLY <1>1, s \in Seq(S), CutType
  <2> QED
    BY <1>2, <2>1
<1>4. PICK q : q = [i \in 1 .. Len(s) |-> s[(Len(s) - i) + 1]]
  OBVIOUS
<1>5. q \in Seq(S) /\ Len(q) = Len(s) /\ \A i \in 1 .. Len(s) : q[i] = s[(Len(s) - i) + 1]
  <2>1. \A i \in 1 .. Len(s) : (Len(s) - i) + 1 \in 1 .. Len(s)
    BY <1>1
  <2>2. q \in [1 .. Len(s) -> S] /\ \A i \in 1 .. Len(s) : q[i] = s[(Len(s) - i) + 1]
    BY <1>1, <1>4, <2>1
  <2> QED
    BY <1>1, <2>2, FunctionSeq
<1>6. PICK r : r = [i \in 1 .. Len(u) |-> u[(Len(u) - i) + 1]]
  OBVIOUS
<1>7. r \in Seq(S) /\ Len(r) = m /\ \A i \in 1 .. m : r[i] = u[(m - i) + 1]
  <2>1. \A i \in 1 .. m : (m - i) + 1 \in 1 .. m
    OBVIOUS
  <2>2. \A i \in 1 .. m : u[i] \in S
    BY <1>3, LenProperties
  <2>3. r \in [1 .. m -> S] /\ \A i \in 1 .. m : r[i] = u[(m - i) + 1]
    BY <1>3, <1>6, <2>1, <2>2
  <2> QED
    BY <2>3, FunctionSeq
<1>8. m <= Len(q)
  BY <1>1, <1>2, <1>5
<1>9. PICK d \in Seq(S) : d = Cut(q, 0, m) /\ Len(d) = m /\ \A i \in 1 .. m : d[i] = q[i]
  <2>1. PICK z \in Nat : z = 0
    OBVIOUS
  <2>2. z <= m /\ q \in Seq(S)
    BY <1>5, <2>1
  <2>3. /\ Cut(q, z, m) \in Seq(S) /\ Len(Cut(q, z, m)) = m - z
        /\ \A i \in 1 .. (m - z) : Cut(q, z, m)[i] = q[z + i]
    BY ONLY <1>8, <2>2, z \in Nat, m \in Nat, CutType
  <2>4. m - z = m /\ \A i \in 1 .. m : z + i = i
    BY <2>1
  <2> QED
    BY <2>1, <2>3, <2>4
<1>10. ASSUME NEW i \in 1 .. m PROVE d[i] = r[i]
  <2>1. /\ (m - i) + 1 \in 1 .. m /\ n + ((m - i) + 1) = (Len(s) - i) + 1 /\ i \in 1 .. Len(s)
    BY <1>1, <1>2
  <2>2. r[i] = s[(Len(s) - i) + 1]
    BY <1>3, <1>7, <2>1
  <2> QED
    BY <1>5, <1>9, <2>1, <2>2
<1>11. d = r
  BY <1>7, <1>9, <1>10, SeqEqual
<1>12. Cut(r, 0, m) = r
  BY <1>7, CutEnds
<1>13. SubSeq(r, 1, Len(r)) = r /\ SubSeq(q, 1, Len(r)) = r
  <2>1. 0 + 1 = 1
    OBVIOUS
  <2> QED
    BY <1>7, <1>9, <1>11, <1>12, <2>1 DEF Cut
<1>14. Timeline!Reverse(s) = q /\ Timeline!Reverse(u) = r
  BY <1>4, <1>6 DEF Timeline!Reverse
<1> QED
  BY <1>3, <1>7, <1>8, <1>13, <1>14 DEF Timeline!IsSuffix, Timeline!IsPrefix

\* A sequence with one more member: the member, and the sequence without it.
LEMMA PutLast ==
  ASSUME NEW S, NEW q \in Seq(S), NEW x \in S
  PROVE  /\ Append(q, x) # <<>> /\ Timeline!Last(Append(q, x)) = x
         /\ Timeline!Front(Append(q, x)) = q
<1>1. PICK s \in Seq(S) : s = Append(q, x) /\ Len(s) = Len(q) + 1
  BY AppendProperties
<1>2. Len(q) \in Nat /\ s[Len(q) + 1] = x /\ \A i \in 1 .. Len(q) : s[i] = q[i]
  BY <1>1, AppendProperties, LenProperties
<1>3. s # <<>> /\ s[Len(s)] = x
  BY <1>1, <1>2, EmptySeq
<1>4. SubSeq(s, 1, Len(s) - 1) = q
  <2>1. PICK z \in Nat, m \in Nat : z = 0 /\ m = Len(q)
    BY <1>2
  <2>2. z <= m /\ m <= Len(s)
    BY <1>1, <2>1
  <2>3. /\ Cut(s, z, m) \in Seq(S) /\ Len(Cut(s, z, m)) = m - z
        /\ \A i \in 1 .. (m - z) : Cut(s, z, m)[i] = s[z + i]
    BY ONLY <2>2, s \in Seq(S), z \in Nat, m \in Nat, CutType
  <2>4. m - z = m /\ z + 1 = 1 /\ Len(s) - 1 = m /\ \A i \in 1 .. m : z + i = i
    BY <1>1, <1>2, <2>1
  <2>5. PICK d \in Seq(S) : d = Cut(s, z, m) /\ Len(d) = Len(q) /\ \A i \in 1 .. Len(q) : d[i] = q[i]
    BY <1>2, <2>1, <2>3, <2>4
  <2>6. d = q
    BY <2>5, SeqEqual
  <2> QED
    BY <2>4, <2>5, <2>6 DEF Cut
<1> QED
  BY <1>1, <1>3, <1>4 DEF Timeline!Last, Timeline!Front

\* The step that undoing an entry is, and the one that redoing it is.
Step(named)   == [e \in Entries |-> [text |-> named[e.before], carets |-> e.backSel[1]]]
Return(named) == [e \in Entries |-> [text |-> named[e.after], before |-> e.backSel[1]]]

\* What a function makes of each entry.
Each(f, entries) == [n \in DOMAIN entries |-> f[entries[n]]]

\* One value for every entry is a sequence, and grows with the entries.
LEMMA EachGrows ==
  ASSUME NEW entries \in Seq(Entries), NEW e \in Entries, NEW f, DOMAIN f = Entries
  PROVE  /\ Each(f, entries) \in Seq(Range(f)) /\ Len(Each(f, entries)) = Len(entries)
         /\ Each(f, Append(entries, e)) = Append(Each(f, entries), f[e])
<1>0. PICK S : S = Range(f) /\ \A x \in Entries : f[x] \in S
  <2>1. \A x \in Entries : f[x] \in Range(f)
    BY DEF Range
  <2> QED
    BY <2>1
<1>1. PICK list \in Seq(Entries), m \in Nat :
        /\ list = Append(entries, e) /\ m = Len(entries) /\ Len(list) = m + 1 /\ list[m + 1] = e
        /\ \A k \in 1 .. m : list[k] = entries[k]
  BY Appended
<1>2. /\ DOMAIN entries = 1 .. m /\ DOMAIN list = 1 .. (m + 1)
      /\ \A k \in 1 .. m : entries[k] \in Entries
      /\ \A k \in 1 .. (m + 1) : list[k] \in Entries
  BY <1>1, LenProperties
<1>3. PICK q : q = [n \in DOMAIN entries |-> f[entries[n]]]
  OBVIOUS
<1>4. PICK r : r = [n \in DOMAIN list |-> f[list[n]]]
  OBVIOUS
<1>5. q \in Seq(S) /\ Len(q) = m /\ \A k \in 1 .. m : q[k] = f[entries[k]]
  <2>1. q \in [1 .. m -> S] /\ \A k \in 1 .. m : q[k] = f[entries[k]]
    BY <1>0, <1>2, <1>3
  <2> QED
    BY <2>1, FunctionSeq
<1>6. r \in Seq(S) /\ Len(r) = m + 1 /\ \A k \in 1 .. (m + 1) : r[k] = f[list[k]]
  <2>1. r \in [1 .. (m + 1) -> S] /\ \A k \in 1 .. (m + 1) : r[k] = f[list[k]]
    BY <1>0, <1>2, <1>4
  <2>2. m + 1 \in Nat
    OBVIOUS
  <2> QED
    BY <2>1, <2>2, FunctionSeq
<1>7. f[e] \in S
  BY <1>0
<1>8. PICK a \in Seq(S) : /\ a = Append(q, f[e]) /\ Len(a) = m + 1 /\ a[m + 1] = f[e]
                          /\ \A k \in 1 .. m : a[k] = q[k]
  <2>1. PICK x \in S : x = f[e]
    BY <1>7
  <2>2. /\ Append(q, x) \in Seq(S) /\ Len(Append(q, x)) = Len(q) + 1 /\ Append(q, x)[Len(q) + 1] = x
        /\ \A k \in 1 .. Len(q) : Append(q, x)[k] = q[k]
    BY <1>5, AppendProperties
  <2> QED
    BY <1>5, <2>1, <2>2
<1>9. ASSUME NEW k \in 1 .. (m + 1) PROVE r[k] = a[k]
  <2>1. k = m + 1 \/ k \in 1 .. m
    OBVIOUS
  <2> QED
    BY <1>1, <1>5, <1>6, <1>8, <2>1
<1>10. r = a
  BY <1>6, <1>8, <1>9, SeqEqual
<1> QED
  <2>1. q = Each(f, entries) /\ r = Each(f, list)
    BY <1>3, <1>4 DEF Each
  <2> QED
    BY <1>0, <1>1, <1>5, <1>8, <1>10, <2>1

\* The steps of a past grow with its entries.
LEMMA StepsGrow ==
  ASSUME NEW entries \in Seq(Entries), NEW e \in Entries, NEW named
  PROVE  /\ Steps(entries, named) \in Seq(Range(Step(named)))
         /\ Len(Steps(entries, named)) = Len(entries)
         /\ Step(named)[e] = [text |-> named[e.before], carets |-> e.backSel[1]]
         /\ Steps(Append(entries, e), named) = Append(Steps(entries, named), Step(named)[e])
<1>1. DOMAIN Step(named) = Entries
      /\ \A x \in Entries : Step(named)[x] = [text |-> named[x.before], carets |-> x.backSel[1]]
  BY DEF Step
<1>2. Append(entries, e) \in Seq(Entries)
  BY Appended
<1>3. ASSUME NEW s \in Seq(Entries) PROVE Steps(s, named) = Each(Step(named), s)
  <2>1. \A n \in DOMAIN s : s[n] \in Entries
    BY LenProperties
  <2> QED
    BY <1>1, <2>1 DEF Steps, Each
<1>4. /\ Steps(entries, named) = Each(Step(named), entries)
      /\ Steps(Append(entries, e), named) = Each(Step(named), Append(entries, e))
  BY <1>2, <1>3
<1> QED
  BY <1>1, <1>4, EachGrows

\* So do the returns of a future.
LEMMA ReturnsGrow ==
  ASSUME NEW entries \in Seq(Entries), NEW e \in Entries, NEW named
  PROVE  /\ Returns(entries, named) \in Seq(Range(Return(named)))
         /\ Return(named)[e] = [text |-> named[e.after], before |-> e.backSel[1]]
         /\ Returns(Append(entries, e), named) = Append(Returns(entries, named), Return(named)[e])
<1>1. DOMAIN Return(named) = Entries
      /\ \A x \in Entries : Return(named)[x] = [text |-> named[x.after], before |-> x.backSel[1]]
  BY DEF Return
<1>2. Append(entries, e) \in Seq(Entries)
  BY Appended
<1>3. ASSUME NEW s \in Seq(Entries) PROVE Returns(s, named) = Each(Return(named), s)
  <2>1. \A n \in DOMAIN s : s[n] \in Entries
    BY LenProperties
  <2> QED
    BY <1>1, <2>1 DEF Returns, Each
<1>4. /\ Returns(entries, named) = Each(Return(named), entries)
      /\ Returns(Append(entries, e), named) = Each(Return(named), Append(entries, e))
  BY <1>2, <1>3
<1> QED
  BY <1>1, <1>4, EachGrows

\* The steps of a past stay when a later state is named.
LEMMA StepsLater ==
  ASSUME NEW entries, NEW named, NEW at, NEW next \in Nat, Past(entries, named, at, next),
         NEW later, \A s \in 0 .. (next - 1) : later[s] = named[s]
  PROVE  Steps(entries, later) = Steps(entries, named)
<1>1. ASSUME NEW n \in DOMAIN entries PROVE later[entries[n].before] = named[entries[n].before]
  <2>1. entries \in Seq(Entries) /\ n \in 1 .. Len(entries)
    BY LenProperties DEF Past
  <2>2. Link(entries[n], named, next) /\ entries[n] \in Entries
    BY <2>1 DEF Past
  <2>3. entries[n].before \in Nat /\ entries[n].after \in Nat
    BY <2>2 DEF Entries
  <2>4. entries[n].before < entries[n].after /\ entries[n].after < next
    BY <2>2 DEF Link
  <2>5. entries[n].before \in 0 .. (next - 1)
    BY <2>3, <2>4
  <2> QED
    BY <2>5
<1> QED
  BY <1>1 DEF Steps

\* An edit that is recorded is an edit of the timeline.
LEMMA EditMaps ==
  ASSUME NEW named, Document(named), NEW later, Advance(named, later)
  PROVE  Timeline!Edit
<1>1. /\ Past(undo, named, state, nextState) /\ undo \in Seq(Entries)
      /\ nextState \in Nat /\ state \in Nat /\ state < nextState
      /\ named[state] = text
  BY DEF Document, Past
<1>2. /\ \A s \in 0 .. (nextState - 1) : later[s] = named[s]
      /\ later[state'] = text'
      /\ Past(undo', later, state', nextState') /\ later \in Names
      /\ state' \in Nat
  BY DEF Advance, Document
<1>3. PICK new \in Entries, list \in Seq(Entries) :
        /\ redo' = <<>> /\ new.before = state /\ new.backSel = <<selection>>
        /\ Extends(list, undo, new)
        /\ \E n \in 0 .. (Len(list) - 1) : undo' = Cut(list, n, Len(list))
  BY DEF Advance, Remembers
<1>4. PICK n \in 0 .. (Len(list) - 1) : undo' = Cut(list, n, Len(list))
  BY <1>3
<1>5. later[state] = text
  <2>1. state \in 0 .. (nextState - 1)
    BY <1>1
  <2> QED
    BY <1>1, <1>2, <2>1
<1>6. PICK past : past = Steps(undo, named) /\ past = Steps(undo, later) /\ past = Undoable(text, undo)
  BY <1>1, <1>2, StepsLater, UndoableIs
<1>7. PICK next : next = Undoable(text', undo') /\ next = Steps(undo', later)
  BY <1>2, UndoableIs
<1>8. PICK all : all = Steps(list, later)
  OBVIOUS
<1>9. \/ all = Append(past, [text |-> text, carets |-> selection])
      \/ all = past
  <2>1. CASE list = Append(undo, new)
    <3>1. /\ Steps(list, later) = Append(Steps(undo, later), Step(later)[new])
          /\ Step(later)[new] = [text |-> later[new.before], carets |-> new.backSel[1]]
      BY <1>1, <2>1, StepsGrow
    <3>2. new.backSel[1] = selection
      BY <1>3
    <3> QED
      BY <1>3, <1>5, <1>6, <1>8, <3>1, <3>2
  <2>2. CASE undo # <<>> /\ list = Append(Front(undo), Grown(Last(undo), new))
    <3>1. PICK last, front, g : last = Last(undo) /\ front = Front(undo) /\ g = Grown(Last(undo), new)
      OBVIOUS
    <3>2. last \in Entries /\ front \in Seq(Entries) /\ undo = Append(front, last)
      BY <1>1, <2>2, <3>1, FrontLast
    <3>3. g.before = last.before /\ g.backSel = last.backSel
      <4>1. g = Grown(last, new)
        BY <3>1
      <4>2. g = [back |-> g.back, backSel |-> last.backSel, forth |-> g.forth,
                 forthSel |-> new.forthSel, origin |-> last.origin, before |-> last.before,
                 after |-> new.after, resume |-> new.resume,
                 retained |-> last.retained + new.retained]
        BY <3>2, <4>1, GrownFields
      <4> QED
        BY <4>2
    <3>4. g \in Entries
      <4>1. list \in Seq(Entries) /\ list = Append(front, g) /\ Len(front) \in Nat
        BY <2>2, <3>1, <3>2, LenProperties
      <4>2. Len(list) = Len(front) + 1 /\ list[Len(front) + 1] = g
        BY <3>2, <4>1
      <4>3. Len(front) + 1 \in 1 .. Len(list)
        BY <4>1, <4>2
      <4> QED
        BY <4>1, <4>2, <4>3, ElementOfSeq
    <3>5. Step(later)[g] = Step(later)[last]
      BY <3>2, <3>3, <3>4 DEF Step
    <3>6. Steps(list, later) = Append(Steps(front, later), Step(later)[g])
      BY <2>2, <3>1, <3>2, <3>4, StepsGrow
    <3>7. Steps(undo, later) = Append(Steps(front, later), Step(later)[last])
      BY <3>2, StepsGrow
    <3> QED
      BY <1>6, <1>8, <3>5, <3>6, <3>7
  <2> QED
    BY <1>3, <2>1, <2>2 DEF Extends
<1>10. /\ all \in Seq(Range(Step(later))) /\ Len(all) = Len(list) /\ Len(list) \in Nat
  <2>1. list \in Seq(Entries) /\ new \in Entries
    OBVIOUS
  <2>2. Steps(list, later) \in Seq(Range(Step(later))) /\ Len(Steps(list, later)) = Len(list)
    BY <2>1, StepsGrow
  <2> QED
    BY <1>8, <2>1, <2>2, LenProperties
<1>11. next = Cut(all, n, Len(all)) /\ next # <<>>
  <2>1. n \in Nat /\ n <= Len(list) /\ Len(list) <= Len(list) /\ n <= Len(all) /\ Len(all) <= Len(all) /\ Len(all) \in Nat
    BY <1>10
  <2>2. PICK s \in Seq(Entries), m \in Nat :
          s = undo' /\ m = Len(list) - n /\ Len(s) = m /\ m # 0 /\ \A k \in 1 .. m : s[k] = list[n + k]
    <3>1. /\ Cut(list, n, Len(list)) \in Seq(Entries) /\ Len(Cut(list, n, Len(list))) = Len(list) - n
          /\ \A k \in 1 .. (Len(list) - n) : Cut(list, n, Len(list))[k] = list[n + k]
      BY ONLY <1>10, <2>1, list \in Seq(Entries), CutType
    <3>2. Len(list) - n \in Nat /\ Len(list) - n # 0
      BY <1>10
    <3> QED
      BY <1>4, <3>1, <3>2
  <2>3. PICK d \in Seq(Range(Step(later))) :
          d = Cut(all, n, Len(all)) /\ Len(d) = m /\ \A k \in 1 .. m : d[k] = all[n + k]
    <3>1. PICK S : S = Range(Step(later))
      OBVIOUS
    <3>2. /\ Cut(all, n, Len(all)) \in Seq(S) /\ Len(Cut(all, n, Len(all))) = Len(all) - n
          /\ \A k \in 1 .. (Len(all) - n) : Cut(all, n, Len(all))[k] = all[n + k]
      <4>1. all \in Seq(S)
        BY <1>10, <3>1
      <4> QED
        BY ONLY <2>1, <4>1, CutType
    <3> QED
      BY <1>10, <2>2, <3>1, <3>2
  <2>4. next \in Seq(Range(Step(later))) /\ Len(next) = m
    <3>1. Steps(s, later) \in Seq(Range(Step(later))) /\ Len(Steps(s, later)) = Len(s)
      BY ONLY s \in Seq(Entries), new \in Entries, StepsGrow
    <3> QED
      BY <1>7, <2>2, <3>1
  <2>5. ASSUME NEW k \in 1 .. m PROVE next[k] = d[k]
    <3>1. n + k \in 1 .. Len(list) /\ k \in 1 .. Len(s)
      BY <1>10, <2>2
    <3>2. k \in DOMAIN s /\ n + k \in DOMAIN list
      BY <3>1, LenProperties
    <3>3. next[k] = [text |-> later[s[k].before], carets |-> s[k].backSel[1]]
      BY <1>7, <2>2, <3>2 DEF Steps
    <3>4. all[n + k] = [text |-> later[list[n + k].before], carets |-> list[n + k].backSel[1]]
      BY <1>8, <3>2 DEF Steps
    <3> QED
      BY <2>2, <2>3, <3>3, <3>4
  <2>6. next = d
    BY <2>3, <2>4, <2>5, SeqEqual
  <2>7. next # <<>>
    BY <2>2, <2>4, EmptySeq
  <2> QED
    BY <2>3, <2>6, <2>7
<1>12. Timeline!IsSuffix(next, all)
  <2>1. n \in 0 .. Len(all)
    BY <1>10
  <2> QED
    BY <1>10, <1>11, <2>1, SuffixIs
<1>13. Redoable(text', redo') = <<>>
  <2>1. DOMAIN redo' = {}
    BY <1>3
  <2> QED
    BY <1>3, <2>1 DEF Redoable
<1>14. text' \in Seq(Chars)
  <2>1. later[state'] \in Strings
    BY <1>2, NamedText
  <2> QED
    BY <1>2, <2>1 DEF Strings
<1> QED
  BY <1>6, <1>7, <1>9, <1>11, <1>12, <1>13, <1>14 DEF Timeline!Edit

\* Undoing goes back one text, to the carets it was left with.
LEMMA UndoMaps ==
  ASSUME NEW named, Document(named), Undo
  PROVE  Timeline!Undo
<1>1. PICK e : e = Last(undo)
  OBVIOUS
<1>2. /\ undo # <<>> /\ undo' = Front(undo) /\ redo' = Append(redo, e)
      /\ text' = Applied(text, e.back) /\ selection' = Landed(e.backSel, e.back)
      /\ state' = e.before
  BY <1>1 DEF Undo, Replay
<1>3. /\ Past(undo, named, state, nextState) /\ undo \in Seq(Entries)
      /\ Future(redo, named, state, nextState) /\ redo \in Seq(Entries)
      /\ named[state] = text
  BY DEF Document, Past, Future
<1>4. e \in Entries /\ Link(e, named, nextState) /\ e.after = state
  BY <1>1, <1>2, <1>3, PastPop
<1>5. /\ Leads(e, named[e.before], text) /\ Len(e.backSel) = 1
      /\ Good(e.backSel[1], Len(named[e.before]))
  BY <1>3, <1>4 DEF Link, Leads
<1>6. Document(named)'
  BY UndoKeeps
<1>7. /\ named[state'] = text' /\ Past(undo', named, state', nextState')
      /\ Future(redo', named, state', nextState')
  BY <1>6 DEF Document
<1>8. selection' = e.backSel[1]
  <2>1. text' = named[e.before] /\ text' \in Strings
    <3>1. text' = named[e.before]
      BY <1>2, <1>7
    <3>2. Fit(e.forth, named[e.before])
      BY <1>5 DEF Leads
    <3> QED
      BY <3>1, <3>2 DEF Fit
  <2>2. e.backSel # <<>>
    BY <1>5, EmptySeq
  <2>3. Landed(e.backSel, e.back) = Clamped(e.backSel[1], Applied(text, e.back))
    BY <2>2 DEF Landed
  <2>4. PICK t \in Strings : t = text' /\ t = named[e.before]
    BY <2>1
  <2>5. Clamped(e.backSel[1], t) = e.backSel[1]
    BY <1>5, <2>4, ClampedKept
  <2> QED
    BY <1>2, <2>3, <2>4, <2>5
<1>9. /\ Undoable(text, undo) = Steps(undo, named) /\ Redoable(text, redo) = Returns(redo, named)
  BY <1>3, UndoableIs, RedoableIs
<1>10. /\ Undoable(text', undo') = Steps(undo', named) /\ Redoable(text', redo') = Returns(redo', named)
  BY <1>7, UndoableIs, RedoableIs
<1>11. Steps(undo, named) = Append(Steps(undo', named), [text |-> text', carets |-> selection'])
  <2>1. Front(undo) \in Seq(Entries) /\ undo = Append(Front(undo), e)
    BY <1>1, <1>2, <1>3, FrontLast
  <2>2. PICK front \in Seq(Entries) : front = Front(undo) /\ undo = Append(front, e)
    BY <2>1
  <2>3. /\ Steps(undo, named) = Append(Steps(front, named), Step(named)[e])
        /\ Step(named)[e] = [text |-> named[e.before], carets |-> e.backSel[1]]
    BY <1>4, <2>2, StepsGrow
  <2>4. named[e.before] = text' /\ front = undo'
    BY <1>2, <1>7, <2>2
  <2> QED
    BY <1>8, <2>3, <2>4
<1>12. Returns(redo', named) = Append(Returns(redo, named), [text |-> text, before |-> selection'])
  <2>1. /\ Returns(Append(redo, e), named) = Append(Returns(redo, named), Return(named)[e])
        /\ Return(named)[e] = [text |-> named[e.after], before |-> e.backSel[1]]
    BY <1>3, <1>4, ReturnsGrow
  <2> QED
    BY <1>2, <1>3, <1>4, <1>8, <2>1
<1> QED
  BY <1>9, <1>10, <1>11, <1>12 DEF Timeline!Undo

\* Redoing goes on one text, and remembers the carets that undoing it would leave.
LEMMA RedoMaps ==
  ASSUME NEW named, Document(named), Redo
  PROVE  Timeline!Redo
<1>1. PICK e : e = Last(redo)
  OBVIOUS
<1>2. /\ redo # <<>> /\ redo' = Front(redo) /\ undo' = Append(undo, e) /\ state' = e.after
  BY <1>1 DEF Redo, Replay
<1>3. /\ Past(undo, named, state, nextState) /\ undo \in Seq(Entries)
      /\ Future(redo, named, state, nextState) /\ redo \in Seq(Entries)
      /\ named[state] = text
  BY DEF Document, Past, Future
<1>4. e \in Entries /\ e.before = state
  BY <1>1, <1>2, <1>3, FuturePop
<1>5. Document(named)'
  BY RedoKeeps
<1>6. /\ named[state'] = text' /\ Past(undo', named, state', nextState')
      /\ Future(redo', named, state', nextState')
  BY <1>5 DEF Document
<1>7. /\ Undoable(text, undo) = Steps(undo, named) /\ Redoable(text, redo) = Returns(redo, named)
  BY <1>3, UndoableIs, RedoableIs
<1>8. /\ Undoable(text', undo') = Steps(undo', named) /\ Redoable(text', redo') = Returns(redo', named)
  BY <1>6, UndoableIs, RedoableIs
<1>9. PICK next : next = [text |-> text', before |-> e.backSel[1]]
  OBVIOUS
<1>10. /\ Returns(redo, named) # <<>> /\ Timeline!Last(Returns(redo, named)) = next
       /\ Timeline!Front(Returns(redo, named)) = Returns(redo', named)
  <2>1. PICK front \in Seq(Entries) : front = Front(redo) /\ redo = Append(front, e)
    BY <1>1, <1>2, <1>3, FrontLast
  <2>2. /\ Returns(front, named) \in Seq(Range(Return(named)))
        /\ Return(named)[e] = [text |-> named[e.after], before |-> e.backSel[1]]
        /\ Returns(redo, named) = Append(Returns(front, named), Return(named)[e])
    BY <1>4, <2>1, ReturnsGrow
  <2>3. Return(named)[e] = next
    BY <1>2, <1>6, <1>9, <2>2
  <2>4. PICK S, q : S = Range(Return(named)) /\ q = Returns(front, named)
    OBVIOUS
  <2>5. q \in Seq(S) /\ next \in S
    <3>1. e \in DOMAIN Return(named)
      BY <1>4 DEF Return
    <3> QED
      BY <2>2, <2>3, <2>4, <3>1 DEF Range
  <2>6. /\ Append(q, next) # <<>> /\ Timeline!Last(Append(q, next)) = next
        /\ Timeline!Front(Append(q, next)) = q
    BY ONLY <2>5, PutLast
  <2> QED
    BY <1>2, <2>1, <2>2, <2>3, <2>4, <2>6
<1>11. Steps(undo', named) = Append(Steps(undo, named), [text |-> text, carets |-> e.backSel[1]])
  <2>1. /\ Steps(Append(undo, e), named) = Append(Steps(undo, named), Step(named)[e])
        /\ Step(named)[e] = [text |-> named[e.before], carets |-> e.backSel[1]]
    BY <1>3, <1>4, StepsGrow
  <2> QED
    BY <1>2, <1>3, <1>4, <2>1
<1>12. next.text = text' /\ next.before = e.backSel[1]
  BY <1>9
<1> QED
  BY <1>7, <1>8, <1>10, <1>11, <1>12 DEF Timeline!Redo

\* Nothing to undo is no past, and nothing to redo no future.
LEMMA NoSteps ==
  ASSUME NEW t
  PROVE  Undoable(t, <<>>) = <<>> /\ Redoable(t, <<>>) = <<>>
BY DEF Undoable, Redoable

\* What leaves the text and the history alone only moves carets.
LEMMA MoveMaps ==
  ASSUME UNCHANGED <<text, undo, redo>>
  PROVE  Timeline!Move
BY DEF Timeline!Move

\* Every step of the document is one of the timeline, or none.
LEMMA TimelineStep == EditorInv /\ [Next]_vars => [Timeline!Next]_(Timeline!vars)
<1> SUFFICES ASSUME EditorInv, [Next]_vars PROVE Timeline!Next
  OBVIOUS
<1>0. PICK named \in Names : Document(named) /\ Filed(named)
  BY DEF EditorInv
<1>1. ASSUME NEW typed \in Typed, InsertAround(typed) PROVE Timeline!Edit
  BY <1>0, <1>1, InsertKeeps, EditMaps
<1>2. ASSUME NEW stride \in Strides, Delete(stride) PROVE Timeline!Edit
  BY <1>0, <1>2, DeleteKeeps, EditMaps
<1>3. ASSUME NEW r \in Rewrites, ReplaceMatches(r[1], r[2]) PROVE Timeline!Edit
  <2>1. r[2] \in Strings
    BY DocumentAssumption DEF Strings
  <2> QED
    BY <1>0, <1>3, <2>1, ReplaceKeeps, EditMaps
<1>4. CASE Undo
  <2>1. Timeline!Undo
    BY <1>0, <1>4, UndoMaps
  <2> QED
    BY <2>1 DEF Timeline!Next
<1>5. CASE Redo
  <2>1. Timeline!Redo
    BY <1>0, <1>5, RedoMaps
  <2> QED
    BY <2>1 DEF Timeline!Next
<1>6. ASSUME NEW sel, SetSelection(sel) PROVE Timeline!Move
  BY <1>6, MoveMaps DEF SetSelection, content
<1>7. CASE BreakUndoGroup
  <2>1. Timeline!Move
    BY <1>7, MoveMaps DEF BreakUndoGroup, content
  <2> QED
    BY <2>1 DEF Timeline!Next
<1>8. ASSUME NEW t \in Reloads, ReloadRefused(t) PROVE Timeline!Next
  BY <1>7, <1>8 DEF ReloadRefused
<1>9. CASE SetReadOnly
  <2>1. Timeline!Move
    BY <1>9, MoveMaps DEF SetReadOnly, content, history
  <2> QED
    BY <2>1 DEF Timeline!Next
<1>10. CASE TakeSnapshot
  <2>1. Timeline!Move
    BY <1>10, MoveMaps DEF TakeSnapshot, content, history
  <2> QED
    BY <2>1 DEF Timeline!Next
<1>11. CASE ConfirmSave
  <2>1. Timeline!Move
    BY <1>11, MoveMaps DEF ConfirmSave, content, history
  <2> QED
    BY <2>1 DEF Timeline!Next
<1>12. ASSUME NEW t \in Reloads, ReloadClean(t) PROVE Timeline!Edit
  <2>1. t \in Strings
    BY DocumentAssumption DEF Strings
  <2> QED
    BY <1>0, <1>12, <2>1, ReloadCleanKeeps, EditMaps
<1>13. ASSUME NEW t \in Reloads, Reload(t) PROVE Timeline!Edit
  <2>1. t \in Strings
    BY DocumentAssumption DEF Strings
  <2> QED
    BY <1>0, <1>13, <2>1, ReloadKeeps, EditMaps
<1>14. CASE UNCHANGED vars
  <2>1. Timeline!Move
    BY <1>14, MoveMaps DEF vars, history
  <2> QED
    BY <2>1 DEF Timeline!Next
<1>15. ASSUME Timeline!Edit \/ Timeline!Move PROVE Timeline!Next
  BY <1>15 DEF Timeline!Next
<1> QED
  BY <1>1, <1>2, <1>3, <1>4, <1>5, <1>6, <1>7, <1>8, <1>9, <1>10, <1>11, <1>12, <1>13, <1>14, <1>15 DEF Next

\* The document implements EditTimeline: however edits were joined to one another or
\* forgotten, undo and redo walk the line of texts the person saw, and undo puts the carets
\* back where they were (document.rs, undo and redo; history.rs, record, coalesce and trim).
THEOREM ImplementsTimeline == Spec => KeepsTimeline
<1>1. Init => Timeline!Init
  <2> SUFFICES ASSUME Init PROVE Timeline!Init
    OBVIOUS
  <2>1. text \in Seq(Chars)
    BY DocumentAssumption DEF Init
  <2>2. Undoable(text, undo) = <<>> /\ Redoable(text, redo) = <<>>
    BY NoSteps DEF Init
  <2> QED
    BY <2>1, <2>2 DEF Timeline!Init
<1>2. EditorInv /\ [Next]_vars => [Timeline!Next]_(Timeline!vars)
  BY TimelineStep
<1> QED
  BY <1>1, <1>2, EditorInvariant, PTL DEF Spec, KeepsTimeline, Timeline!Spec
=============================================================================
