--------------------------- MODULE ApiServerProofs ---------------------------
(***************************************************************************)
(* The rate limit is held and answers are fresh, for every value of the    *)
(* constants of ApiServer.                                                 *)
(*                                                                         *)
(* The hits of a key never go back in time, so the process's window is the *)
(* end of the history of its hits: filtering it leaves exactly the hits of *)
(* the last Window ticks, although refusals do not store what they filter. *)
(***************************************************************************)
EXTENDS ApiServer, FiniteSetTheorems, SequenceTheorems, WellFoundedInduction, TLAPS

(* Numbers. *)

\* A set of naturals has a least element: induction, as the proofs below use it.
LEMMA LeastNat ==
  ASSUME NEW T \in SUBSET Nat, T # {}
  PROVE  \E x \in T : \A y \in T : x <= y
  <1> DEFINE R == {ss \in Nat \X Nat : ss[1] < ss[2]}
  <1>0. OpToRel(<, Nat) = R
    BY Zenon DEF OpToRel
  <1>1. \E x \in T : \A y \in T : ~(<<y, x>> \in R)
    <2>1. IsWellFoundedOn(R, Nat)
      BY <1>0, NatLessThanWellFounded, Zenon
    <2> HIDE DEF R
    <2> QED
      BY <2>1, WFMin, Zenon
  <1>2. PICK x \in T : \A y \in T : ~(<<y, x>> \in R)
    BY <1>1
  <1>3. ASSUME NEW y \in T PROVE x <= y
    <2>1. <<y, x>> \in Nat \X Nat /\ <<y, x>> \notin R
      BY <1>2
    <2> QED
      BY <2>1
  <1> QED
    BY <1>3

\* A number that is rounded up is not less.
LEMMA RoundedUp ==
  ASSUME NEW x \in Nat, NEW b \in Nat \ {0}
  PROVE  ((x + b - 1) \div b) * b >= x /\ (x + b - 1) \div b \in Int
  OBVIOUS

-----------------------------------------------------------------------------
(* What is left of a sequence. *)

FilterBody(s, S, n, f) ==
  [i \in 0..n |-> IF i = 0 THEN <<>> ELSE IF s[i] \in S THEN Append(f[i - 1], s[i]) ELSE f[i - 1]]

LEMMA FilterExists ==
  ASSUME NEW s, NEW S, NEW n \in Nat
  PROVE  \E f : f = FilterBody(s, S, n, f)
  <1> DEFINE bad == {m \in Nat : ~\E f : f = FilterBody(s, S, m, f)}
  <1>1. ASSUME NEW m \in bad, \A y \in bad : m <= y PROVE FALSE
    <2>1. CASE m = 0
      <3> DEFINE f == [i \in 0..0 |-> <<>>]
      <3>1. f = FilterBody(s, S, 0, f)
        BY DEF FilterBody
      <3> QED
        BY <2>1, <3>1
    <2>2. CASE m # 0
      <3>1. m - 1 \in Nat /\ m - 1 \notin bad
        BY <1>1, <2>2
      <3>2. PICK g : g = FilterBody(s, S, m - 1, g)
        BY <3>1
      <3>3. \A i \in 0..(m - 1) :
              g[i] = IF i = 0 THEN <<>> ELSE IF s[i] \in S THEN Append(g[i - 1], s[i]) ELSE g[i - 1]
        BY <3>2 DEF FilterBody
      <3> DEFINE f == [i \in 0..m |-> IF i < m THEN g[i] ELSE IF s[m] \in S THEN Append(g[m - 1], s[m]) ELSE g[m - 1]]
      <3>4. \A i \in 0..m :
              f[i] = IF i = 0 THEN <<>> ELSE IF s[i] \in S THEN Append(f[i - 1], s[i]) ELSE f[i - 1]
        BY <2>2, <3>1, <3>3
      <3>5. f = [i \in 0..m |-> f[i]]
        OBVIOUS
      <3> HIDE DEF f
      <3>6. f = FilterBody(s, S, m, f)
        BY <3>4, <3>5 DEF FilterBody
      <3> QED
        BY <3>6
    <2> QED
      BY <2>1, <2>2
  <1>2. bad = {}
    <2> HIDE DEF bad
    <2>1. bad \in SUBSET Nat
      BY DEF bad
    <2> QED
      BY <1>1, <2>1, LeastNat
  <1> QED
    BY <1>2

\* The steps by which it comes about.
LEMMA Filtering ==
  ASSUME NEW s, NEW S, Len(s) \in Nat
  PROVE  \E f : /\ f[0] = <<>> /\ Filtered(s, S) = f[Len(s)]
                /\ \A i \in 1..Len(s) : f[i] = IF s[i] \in S THEN Append(f[i - 1], s[i]) ELSE f[i - 1]
  <1> DEFINE f == CHOOSE f : f = FilterBody(s, S, Len(s), f)
  <1>1. f = FilterBody(s, S, Len(s), f)
    BY FilterExists
  <1>2. Filtered(s, S) = f[Len(s)]
    BY DEF Filtered, FilterBody
  <1> HIDE DEF f
  <1>3. \A i \in 0..Len(s) :
          f[i] = IF i = 0 THEN <<>> ELSE IF s[i] \in S THEN Append(f[i - 1], s[i]) ELSE f[i - 1]
    BY <1>1 DEF FilterBody
  <1> QED
    BY <1>2, <1>3

\* Only elements of S are left, and fewer if one was not in S.
LEMMA FilteredIs ==
  ASSUME NEW R, NEW s \in Seq(R), NEW S
  PROVE  /\ Filtered(s, S) \in Seq(R \cap S) /\ Len(Filtered(s, S)) <= Len(s)
         /\ (\E i \in 1..Len(s) : s[i] \notin S) => Len(Filtered(s, S)) < Len(s)
  <1>1. PICK f : /\ f[0] = <<>> /\ Filtered(s, S) = f[Len(s)]
                 /\ \A i \in 1..Len(s) : f[i] = IF s[i] \in S THEN Append(f[i - 1], s[i]) ELSE f[i - 1]
    BY Filtering
  <1> DEFINE Good(i) == /\ f[i] \in Seq(R \cap S) /\ Len(f[i]) <= i
                        /\ (\E j \in 1..i : s[j] \notin S) => Len(f[i]) < i
             bad == {i \in 0..Len(s) : ~Good(i)}
  <1>2. ASSUME NEW n \in bad, \A y \in bad : n <= y PROVE FALSE
    <2>1. n # 0
      <3>1. <<>> \in Seq(R) /\ <<>> \in Seq(R \cap S) /\ Len(<<>>) = 0
        OBVIOUS
      <3>2. Good(0)
        BY <1>1, <3>1
      <3> QED
        BY <3>2
    <2>2. n - 1 \in 0..Len(s) /\ n \in 1..Len(s) /\ n - 1 \notin bad
      BY <1>2, <2>1
    <2>3. Good(n - 1)
      BY <2>2
    <2>4. \A j \in 1..n : j \in 1..(n - 1) \/ j = n
      OBVIOUS
    <2>5. s[n] \in R /\ n \in Nat
      BY <2>2
    <2>6. CASE s[n] \in S
      <3>1. f[n] = Append(f[n - 1], s[n])
        BY <1>1, <2>2, <2>6
      <3>2. f[n] \in Seq(R \cap S) /\ Len(f[n]) = Len(f[n - 1]) + 1
        BY <2>3, <2>5, <2>6, <3>1
      <3> QED
        BY <2>3, <2>4, <2>5, <2>6, <3>2
    <2>7. CASE s[n] \notin S
      BY <1>1, <2>2, <2>3, <2>5, <2>7
    <2> QED
      BY <2>6, <2>7
  <1>3. bad = {}
    <2>1. bad \in SUBSET Nat
      OBVIOUS
    <2> HIDE DEF bad
    <2> QED
      BY <1>2, <2>1, LeastNat
  <1> QED
    BY <1>1, <1>3

\* If S takes all from one element on and none before, what is left is the end.
LEMMA FilteredEnd ==
  ASSUME NEW R, NEW s \in Seq(R), NEW S, NEW d \in 0..Len(s), \A i \in 1..Len(s) : s[i] \in S <=> i > d
  PROVE  Len(Filtered(s, S)) = Len(s) - d /\ \A j \in 1..(Len(s) - d) : Filtered(s, S)[j] = s[d + j]
  <1>1. PICK f : /\ f[0] = <<>> /\ Filtered(s, S) = f[Len(s)]
                 /\ \A i \in 1..Len(s) : f[i] = IF s[i] \in S THEN Append(f[i - 1], s[i]) ELSE f[i - 1]
    BY Filtering
  <1> DEFINE Good(i) == /\ f[i] \in Seq(R) /\ Len(f[i]) = IF i <= d THEN 0 ELSE i - d
                        /\ \A j \in 1..Len(f[i]) : f[i][j] = s[d + j]
             bad == {i \in 0..Len(s) : ~Good(i)}
  <1>2. ASSUME NEW n \in bad, \A y \in bad : n <= y PROVE FALSE
    <2>1. n # 0
      <3>1. <<>> \in Seq(R) /\ <<>> \in Seq(R \cap S) /\ Len(<<>>) = 0
        OBVIOUS
      <3>2. Good(0)
        BY <1>1, <3>1
      <3> QED
        BY <3>2
    <2>2. n - 1 \in 0..Len(s) /\ n \in 1..Len(s) /\ n - 1 \notin bad /\ n \in Nat
      BY <1>2, <2>1
    <2>3. Good(n - 1)
      BY <2>2
    <2>4. CASE n <= d
      BY <1>1, <2>2, <2>3, <2>4
    <2>5. CASE n > d
      <3>0. s[n] \in S /\ s[n] \in R
        BY <2>2, <2>5
      <3>1. f[n] = Append(f[n - 1], s[n]) /\ s[n] \in R
        BY <1>1, <2>2, <3>0
      <3>2. f[n - 1] \in Seq(R) /\ Len(f[n - 1]) = n - 1 - d
        BY <2>2, <2>3, <2>5
      <3>3. f[n] \in Seq(R) /\ Len(f[n]) = n - d /\ f[n][n - d] = s[n]
            /\ \A j \in 1..(n - 1 - d) : f[n][j] = f[n - 1][j]
        BY <2>2, <2>5, <3>1, <3>2
      <3>4. ASSUME NEW j \in 1..(n - d) PROVE f[n][j] = s[d + j]
        <4>1. j = n - d \/ j \in 1..(n - 1 - d)
          BY <2>2
        <4>2. j = n - d => d + j = n
          BY <2>2
        <4> QED
          BY <2>3, <3>2, <3>3, <4>1, <4>2
      <3> QED
        BY <2>5, <3>3, <3>4
    <2> QED
      BY <2>2, <2>4, <2>5
  <1>3. bad = {}
    <2>1. bad \in SUBSET Nat
      OBVIOUS
    <2> HIDE DEF bad
    <2> QED
      BY <1>2, <2>1, LeastNat
  <1>4. Good(Len(s)) /\ Len(s) \in Nat
    BY <1>3
  <1> QED
    BY <1>1, <1>4

-----------------------------------------------------------------------------
(* The hits of one key. *)

AdmittedHits == [at : Nat, limit : Int]

\* The hits never go back in time, and the window is the end of their history, with
\* all that are younger than Window; each was within the limit it was checked against.
HitsOk(w, a, time) ==
  /\ w \in Seq(Nat) /\ a \in Seq(AdmittedHits)
  /\ \A i \in 1..Len(a) : a[i].at <= time
  /\ \A i, j \in 1..Len(a) : i <= j => a[i].at <= a[j].at
  /\ Len(w) <= Len(a)
  /\ \A j \in 1..Len(w) : w[j] = a[Len(a) - Len(w) + j].at
  /\ \A i \in 1..(Len(a) - Len(w)) : time - a[i].at >= Window

\* What filtering leaves of the window are the hits after the first e, the young ones.
YoungFrom(w, a, e) ==
  /\ Recent(w) \in Seq(Nat) /\ Len(Recent(w)) = Len(a) - e
  /\ \A j \in 1..Len(Recent(w)) : Recent(w)[j] = a[e + j].at
  /\ \A i \in 1..Len(a) : now - a[i].at < Window <=> i > e

\* Filtering the window leaves the hits of the last Window ticks.
LEMMA RecentAre ==
  ASSUME NEW w, NEW a, now \in Nat, HitsOk(w, a, now)
  PROVE  \E e \in 0..Len(a) : YoungFrom(w, a, e)
  <1> DEFINE n == Len(a)
             g == n - Len(w)
             old == {i \in 1..n : ~(now - a[i].at < Window)}
             young == {e \in 0..n : \A i \in old : i <= e}
  <1>0. w \in Seq(Nat) /\ a \in Seq(AdmittedHits) /\ Len(w) <= Len(a)
    BY DEF HitsOk
  <1>1. n \in Nat /\ Len(w) \in Nat /\ g \in 0..n /\ w \in Seq(Nat)
    <2>1. Len(w) \in Nat /\ Len(a) \in Nat
      BY <1>0
    <2> QED
      BY <1>0, <2>1
  <1>2. \A i \in 1..n : a[i].at \in Nat /\ a[i].at <= now
    <2>1. \A i \in 1..n : a[i] \in AdmittedHits
      BY <1>0
    <2> QED
      BY <2>1 DEF HitsOk, AdmittedHits
  <1>3. PICK e \in young : \A y \in young : e <= y
    <2>1. n \in young /\ young \in SUBSET Nat
      BY <1>1
    <2> HIDE DEF young
    <2> QED
      BY <2>1, LeastNat
  <1>4. e \in 0..n /\ e \in Nat /\ \A i \in old : i <= e
    BY <1>3
  <1>5. e = 0 \/ e \in old
    <2> SUFFICES ASSUME e # 0, e \notin old PROVE FALSE
      OBVIOUS
    <2>1. e - 1 \in 0..n /\ \A i \in old : i <= e - 1
      BY <1>1, <1>4
    <2>2. e - 1 \in young
      BY <2>1
    <2> QED
      BY <1>3, <1>4, <2>2
  <1>6. \A i \in 1..n : now - a[i].at < Window <=> i > e
    <2> SUFFICES ASSUME NEW i \in 1..n PROVE now - a[i].at < Window <=> i > e
      OBVIOUS
    <2>1. i > e => now - a[i].at < Window
      BY <1>4
    <2>2. CASE i <= e
      <3>1. e \in old /\ e \in 1..n
        BY <1>4, <1>5, <2>2
      <3>2. a[i].at <= a[e].at
        BY <2>2, <3>1 DEF HitsOk
      <3>3. ~(now - a[e].at < Window)
        BY <3>1
      <3> QED
        BY <1>2, <1>4, <2>2, <3>1, <3>2, <3>3, TimesAssumption
    <2> QED
      BY <1>4, <2>1, <2>2
  <1>7. g <= e
    <2> SUFFICES ASSUME g > e PROVE FALSE
      BY <1>1, <1>4
    <2>1. g \in 1..n /\ g \in 1..(Len(a) - Len(w))
      BY <1>1, <1>4
    <2>2. now - a[g].at >= Window
      BY <2>1 DEF HitsOk
    <2> QED
      BY <1>2, <1>6, <2>1, <2>2, TimesAssumption
  <1> DEFINE S == {t \in ToSet(w) : now - t < Window}
             d == e - g
  <1>8. d \in 0..Len(w) /\ Len(w) - d = n - e
    BY <1>1, <1>4, <1>7
  <1>9. \A i \in 1..Len(w) : w[i] = a[g + i].at /\ g + i \in 1..n
    BY <1>1 DEF HitsOk
  <1>10. \A i \in 1..Len(w) : w[i] \in S <=> i > d
    <2> SUFFICES ASSUME NEW i \in 1..Len(w) PROVE w[i] \in S <=> i > d
      OBVIOUS
    <2>1. w[i] \in S <=> now - w[i] < Window
      BY <1>1 DEF ToSet
    <2>2. now - w[i] < Window <=> g + i > e
      BY <1>6, <1>9
    <2> QED
      BY <1>1, <1>4, <2>1, <2>2
  <1>11. Recent(w) = Filtered(w, S)
    BY DEF Recent
  <1> HIDE DEF S
  <1>12. Len(Filtered(w, S)) = Len(w) - d /\ \A j \in 1..(Len(w) - d) : Filtered(w, S)[j] = w[d + j]
    BY <1>1, <1>8, <1>10, FilteredEnd
  <1>13. Filtered(w, S) \in Seq(Nat \cap S)
    BY <1>1, FilteredIs
  <1>14. Filtered(w, S) \in Seq(Nat)
    BY <1>13
  <1>15. \A j \in 1..(Len(w) - d) : w[d + j] = a[e + j].at
    <2> SUFFICES ASSUME NEW j \in 1..(Len(w) - d) PROVE w[d + j] = a[e + j].at
      OBVIOUS
    <2>1. d + j \in 1..Len(w) /\ g + (d + j) = e + j
      BY <1>1, <1>4, <1>8
    <2> QED
      BY <1>9, <2>1
  <1>16. YoungFrom(w, a, e)
    BY <1>6, <1>8, <1>11, <1>12, <1>14, <1>15 DEF YoungFrom
  <1> QED
    BY <1>4, <1>16

\* A hit more.
LEMMA HitAdded ==
  ASSUME NEW w, NEW a, now \in Nat, HitsOk(w, a, now), NEW limit \in Int, Len(Recent(w)) < limit
  PROVE  LET more == Append(a, [at |-> now, limit |-> limit])
         IN /\ HitsOk(Append(Recent(w), now), more, now)
            /\ Cardinality({j \in 1..(Len(a) + 1) : now - more[j].at < Window}) <= limit
  <1>0. PICK e \in 0..Len(a) : YoungFrom(w, a, e)
    BY RecentAre
  <1>1. /\ Recent(w) \in Seq(Nat) /\ Len(Recent(w)) = Len(a) - e
        /\ \A j \in 1..Len(Recent(w)) : Recent(w)[j] = a[e + j].at
        /\ \A i \in 1..Len(a) : now - a[i].at < Window <=> i > e
    BY <1>0 DEF YoungFrom
  <1>2. PICK hits : hits = Recent(w)
    OBVIOUS
  <1> DEFINE hit == [at |-> now, limit |-> limit]
             more == Append(a, hit)
             n == Len(a)
             kept == Append(hits, now)
  <1>3. /\ n \in Nat /\ a \in Seq(AdmittedHits) /\ hit \in AdmittedHits
        /\ hits \in Seq(Nat) /\ Len(hits) = n - e /\ e \in 0..n
        /\ \A i \in 1..n : a[i].at \in Nat /\ a[i].at <= now
    <2>1. a \in Seq(AdmittedHits) /\ \A i \in 1..n : a[i].at <= now
      BY DEF HitsOk
    <2>2. n \in Nat /\ \A i \in 1..n : a[i] \in AdmittedHits
      BY <2>1
    <2>3. \A i \in 1..n : a[i].at \in Nat
      BY <2>2 DEF AdmittedHits
    <2>4. hit \in AdmittedHits
      BY DEF AdmittedHits
    <2> QED
      BY <1>1, <1>2, <2>1, <2>2, <2>3, <2>4
  <1>4. /\ more \in Seq(AdmittedHits) /\ Len(more) = n + 1 /\ more[n + 1].at = now
        /\ \A i \in 1..n : more[i] = a[i]
    <2>1. a \in Seq(AdmittedHits) /\ hit \in AdmittedHits
      BY <1>3
    <2> HIDE DEF hit
    <2>2. more \in Seq(AdmittedHits) /\ Len(more) = n + 1 /\ more[n + 1] = hit
          /\ \A i \in 1..n : more[i] = a[i]
      BY <2>1, AppendProperties
    <2> QED
      BY <2>2 DEF hit
  <1>5. /\ kept \in Seq(Nat) /\ Len(kept) = n + 1 - e /\ kept[n + 1 - e] = now
        /\ \A j \in 1..(n - e) : kept[j] = hits[j]
    <2>1. hits \in Seq(Nat) /\ now \in Nat /\ Len(hits) + 1 = n + 1 - e
      BY <1>3
    <2>2. kept \in Seq(Nat) /\ Len(kept) = Len(hits) + 1 /\ kept[Len(hits) + 1] = now
          /\ \A j \in 1..Len(hits) : kept[j] = hits[j]
      BY <2>1, AppendProperties
    <2> QED
      BY <1>3, <2>1, <2>2
  <1> HIDE DEF more, kept
  <1>6. \A i \in 1..(n + 1) : (i \in 1..n \/ i = n + 1) /\ more[i].at \in Nat /\ more[i].at <= now
    <2> SUFFICES ASSUME NEW i \in 1..(n + 1)
                 PROVE (i \in 1..n \/ i = n + 1) /\ more[i].at \in Nat /\ more[i].at <= now
      OBVIOUS
    <2>0. n \in Nat
      BY <1>3
    <2>1. i \in 1..n \/ i = n + 1
      BY <2>0
    <2>2. now \in Nat /\ now <= now
      OBVIOUS
    <2>3. i = n + 1 => more[i].at = now
      BY <1>4
    <2>4. i \in 1..n => more[i].at \in Nat /\ more[i].at <= now
      BY <1>3, <1>4
    <2> QED
      BY <2>1, <2>2, <2>3, <2>4
  <1>7. \A i, j \in 1..(n + 1) : i <= j => more[i].at <= more[j].at
    <2> SUFFICES ASSUME NEW i \in 1..(n + 1), NEW j \in 1..(n + 1), i <= j PROVE more[i].at <= more[j].at
      OBVIOUS
    <2>1. CASE j = n + 1
      <3>1. more[j].at = now /\ more[i].at <= now
        BY <1>4, <1>6, <2>1
      <3> QED
        BY <3>1
    <2>2. CASE j # n + 1
      <3>1. i \in 1..n /\ j \in 1..n
        BY <1>3, <2>2
      <3> QED
        BY <1>4, <3>1 DEF HitsOk
    <2> QED
      BY <2>1, <2>2
  <1>8. \A j \in 1..(n + 1 - e) : kept[j] = more[e + j].at
    <2> SUFFICES ASSUME NEW j \in 1..(n + 1 - e) PROVE kept[j] = more[e + j].at
      OBVIOUS
    <2>1. CASE j = n + 1 - e
      <3>1. e + j = n + 1
        BY <1>3, <2>1
      <3> QED
        BY <1>4, <1>5, <2>1, <3>1
    <2>2. CASE j # n + 1 - e
      <3>0. n \in Nat /\ e \in 0..n
        BY <1>3
      <3>1. j \in 1..(n - e) /\ e + j \in 1..n
        BY <2>2, <3>0
      <3> QED
        BY <1>1, <1>2, <1>3, <1>4, <1>5, <3>1
    <2> QED
      BY <2>1, <2>2
  <1>9. \A i \in 1..e : now - more[i].at >= Window
    <2> SUFFICES ASSUME NEW i \in 1..e PROVE now - more[i].at >= Window
      OBVIOUS
    <2>1. i \in 1..n /\ ~(i > e)
      BY <1>3
    <2>2. ~(now - a[i].at < Window)
      BY <1>1, <2>1
    <2> QED
      BY <1>3, <1>4, <2>1, <2>2, TimesAssumption
  <1>10. HitsOk(kept, more, now)
    <2>1. Len(more) - Len(kept) = e /\ Len(kept) <= Len(more)
      BY <1>3, <1>4, <1>5
    <2> QED
      BY <1>4, <1>5, <1>6, <1>7, <1>8, <1>9, <2>1 DEF HitsOk
  <1>11. Cardinality({j \in 1..(n + 1) : now - more[j].at < Window}) <= limit
    <2> DEFINE inside == {j \in 1..(n + 1) : now - more[j].at < Window}
    <2>1. inside \subseteq (e + 1)..(n + 1)
      <3> SUFFICES ASSUME NEW j \in inside PROVE j \in (e + 1)..(n + 1)
        OBVIOUS
      <3>1. ~(j \in 1..e)
        BY <1>6, <1>9, TimesAssumption
      <3> QED
        BY <1>3, <3>1
    <2>2. IsFiniteSet((e + 1)..(n + 1)) /\ Cardinality((e + 1)..(n + 1)) = n + 1 - e
      <3>0. n \in Nat /\ e \in 0..n
        BY <1>3
      <3>1. e + 1 \in Int /\ n + 1 \in Int /\ e + 1 <= n + 1
        BY <3>0
      <3>2. ~(e + 1 > n + 1) /\ (n + 1) - (e + 1) + 1 = n + 1 - e
        BY <3>0
      <3>3. /\ IsFiniteSet((e + 1)..(n + 1))
            /\ Cardinality((e + 1)..(n + 1)) = IF e + 1 > n + 1 THEN 0 ELSE (n + 1) - (e + 1) + 1
        BY <3>1, FS_Interval
      <3> QED
        BY <3>2, <3>3
    <2>3. Cardinality(inside) <= Cardinality((e + 1)..(n + 1)) /\ IsFiniteSet(inside)
      BY <2>1, <2>2, FS_Subset
    <2>4. Cardinality(inside) \in Nat
      BY <2>3, FS_CardinalityType
    <2>5. n + 1 - e <= limit
      BY <1>2, <1>3
    <2> QED
      BY <1>3, <2>2, <2>3, <2>4, <2>5
  <1> QED
    BY <1>2, <1>10, <1>11 DEF more, kept

\* No window of the history holds more hits than its last one was checked against.
WithinLimits(a) ==
  \A i \in 1..Len(a) : Cardinality({j \in 1..i : a[i].at - a[j].at < Window}) <= a[i].limit

\* The hit that is added is within its limit, and the windows before it stay as they are.
LEMMA LimitsKept ==
  ASSUME NEW w, NEW a, now \in Nat, HitsOk(w, a, now), WithinLimits(a),
         NEW limit \in Int, Len(Recent(w)) < limit
  PROVE  WithinLimits(Append(a, [at |-> now, limit |-> limit]))
  <1> DEFINE hit == [at |-> now, limit |-> limit]
             more == Append(a, hit)
             n == Len(a)
  <1>1. Cardinality({j \in 1..(n + 1) : now - more[j].at < Window}) <= limit
    BY HitAdded
  <1>2. a \in Seq(AdmittedHits) /\ hit \in AdmittedHits
    BY DEF HitsOk, AdmittedHits
  <1>3. hit.at = now /\ hit.limit = limit
    OBVIOUS
  <1> HIDE DEF hit
  <1>4. n \in Nat /\ Len(more) = n + 1 /\ more[n + 1] = hit /\ \A i \in 1..n : more[i] = a[i]
    BY <1>2, AppendProperties
  <1> HIDE DEF more
  <1>5. ASSUME NEW i \in 1..(n + 1)
        PROVE Cardinality({j \in 1..i : more[i].at - more[j].at < Window}) <= more[i].limit
    <2>1. CASE i = n + 1
      BY <1>1, <1>3, <1>4, <2>1
    <2>2. CASE i # n + 1
      <3>1. i \in 1..n /\ \A j \in 1..i : j \in 1..n
        BY <1>4, <2>2
      <3>2. {j \in 1..i : more[i].at - more[j].at < Window} = {j \in 1..i : a[i].at - a[j].at < Window}
        BY <1>4, <3>1
      <3>3. Cardinality({j \in 1..i : a[i].at - a[j].at < Window}) <= a[i].limit
        BY <3>1 DEF WithinLimits
      <3> QED
        BY <1>4, <3>1, <3>2, <3>3
    <2> QED
      BY <2>1, <2>2
  <1>6. WithinLimits(more)
    BY <1>4, <1>5 DEF WithinLimits
  <1> QED
    BY <1>6 DEF more, hit

\* Time passes.
LEMMA HitsLater ==
  ASSUME NEW w, NEW a, NEW t \in Nat, NEW u \in Nat, t <= u, HitsOk(w, a, t)
  PROVE  HitsOk(w, a, u)
  <1>1. a \in Seq(AdmittedHits) /\ w \in Seq(Nat)
    BY DEF HitsOk
  <1>2. Len(a) \in Nat /\ Len(w) \in Nat /\ \A i \in 1..Len(a) : a[i] \in AdmittedHits
    BY <1>1
  <1>3. \A i \in 1..Len(a) : a[i].at \in Nat
    BY <1>2 DEF AdmittedHits
  <1>4. \A i \in 1..Len(a) : a[i].at <= u
    BY <1>2, <1>3 DEF HitsOk
  <1>5. \A i \in 1..(Len(a) - Len(w)) : u - a[i].at >= Window
    <2> SUFFICES ASSUME NEW i \in 1..(Len(a) - Len(w)) PROVE u - a[i].at >= Window
      OBVIOUS
    <2>1. i \in 1..Len(a)
      BY <1>2
    <2>2. t - a[i].at >= Window /\ a[i].at \in Nat
      BY <1>3, <2>1 DEF HitsOk
    <2> QED
      BY <2>2, TimesAssumption
  <1>6. /\ \A i, j \in 1..Len(a) : i <= j => a[i].at <= a[j].at
        /\ Len(w) <= Len(a)
        /\ \A j \in 1..Len(w) : w[j] = a[Len(a) - Len(w) + j].at
    BY Zenon DEF HitsOk
  <1> QED
    BY <1>1, <1>4, <1>5, <1>6, Zenon DEF HitsOk

\* A client that waits as long as it is told to finds its oldest hit gone.
LEMMA SlotWhenTold ==
  ASSUME NEW w, NEW a, now \in Nat, HitsOk(w, a, now), NEW limit \in Int, limit > 0,
         Len(Recent(w)) = limit
  PROVE  Cardinality({j \in 1..Len(Recent(w)) :
                        (now - Recent(w)[j]) + RetryAfter(Recent(w)) * Sec < Window}) < limit
  <1>0. PICK e \in 0..Len(a) : YoungFrom(w, a, e)
    BY RecentAre
  <1>1. PICK hits : hits = Recent(w)
    OBVIOUS
  <1>2. /\ hits \in Seq(Nat) /\ Len(hits) = limit /\ Len(hits) = Len(a) - e
        /\ \A j \in 1..Len(hits) : hits[j] = a[e + j].at
        /\ \A i \in 1..Len(a) : now - a[i].at < Window <=> i > e
    BY <1>0, <1>1 DEF YoungFrom
  <1>3. Len(a) \in Nat
    BY LenProperties DEF HitsOk
  <1>4. 1 \in 1..Len(hits) /\ e + 1 \in 1..Len(a)
    BY <1>2, <1>3
  <1>5. hits[1] \in Nat /\ hits # <<>>
    BY <1>2, <1>4
  <1>6. now - hits[1] < Window
    <2>1. hits[1] = a[e + 1].at /\ e + 1 > e
      BY <1>2, <1>4
    <2> QED
      BY <1>2, <1>4, <2>1
  <1> DEFINE x == Window - (now - hits[1])
             retry == (x + Sec - 1) \div Sec
  <1>7. x \in Nat
    BY <1>5, <1>6, TimesAssumption
  <1>8. retry * Sec >= x /\ retry \in Int
    <2> HIDE DEF x
    <2> QED
      BY <1>7, RoundedUp, TimesAssumption
  <1>9. RetryAfter(hits) = retry
    BY <1>5 DEF RetryAfter
  <1> HIDE DEF retry
  <1>10. retry * Sec \in Int
    BY <1>8, TimesAssumption
  <1> DEFINE left == {j \in 1..Len(hits) : (now - hits[j]) + retry * Sec < Window}
  <1>11. left \subseteq 2..limit
    <2>1. ~((now - hits[1]) + retry * Sec < Window)
      <3>1. PICK p : p = retry * Sec
        OBVIOUS
      <3>2. p \in Int /\ p >= x
        BY <1>8, <1>10, <3>1
      <3> QED
        BY <1>5, <3>1, <3>2, TimesAssumption
    <2>2. 1 \notin left
      BY <2>1
    <2>3. \A j \in left : j \in 1..limit
      BY <1>2
    <2> HIDE DEF left
    <2> QED
      BY <2>2, <2>3
  <1>12. IsFiniteSet(2..limit) /\ Cardinality(2..limit) = limit - 1
    <2>1. IsFiniteSet(2..limit) /\ Cardinality(2..limit) = IF 2 > limit THEN 0 ELSE limit - 2 + 1
      BY FS_Interval
    <2> QED
      BY <2>1
  <1>13. IsFiniteSet(left) /\ Cardinality(left) <= Cardinality(2..limit)
    BY <1>11, <1>12, FS_Subset
  <1>14. Cardinality(left) \in Nat
    BY <1>13, FS_CardinalityType
  <1> HIDE DEF left
  <1>15. Cardinality(left) < limit
    BY <1>12, <1>13, <1>14
  <1> QED
    BY <1>1, <1>9, <1>15 DEF left

-----------------------------------------------------------------------------
(* The order of a list. *)

\* A sequence of all elements of a set, each once, has each of them.
LEMMA EachOnce ==
  ASSUME NEW S, IsFiniteSet(S), NEW s \in SetToSeqs(S)
  PROVE  /\ s \in Seq(S) /\ \A i, j \in 1..Len(s) : i # j => s[i] # s[j]
         /\ Len(s) = Cardinality(S) /\ \A x \in S : \E i \in 1..Len(s) : s[i] = x
  <1> DEFINE n == Cardinality(S)
  <1>1. n \in Nat
    BY FS_CardinalityType
  <1>2. s \in [1..n -> S] /\ \A i, j \in 1..n : i # j => s[i] # s[j]
    BY DEF SetToSeqs
  <1>3. Len(s) = n /\ s \in Seq(S)
    BY <1>1, <1>2
  <1>4. IsFiniteSet(1..n) /\ Cardinality(1..n) = n
    <2>1. IsFiniteSet(1..n) /\ Cardinality(1..n) = IF 1 > n THEN 0 ELSE n - 1 + 1
      BY <1>1, FS_Interval
    <2> QED
      BY <1>1, <2>1
  <1>5. s \in Injection(1..n, S)
    BY <1>2 DEF Injection, IsInjective
  <1>6. s \in Surjection(1..n, S)
    BY <1>4, <1>5, FS_Injection
  <1> QED
    BY <1>1, <1>2, <1>3, <1>6 DEF Surjection

\* Two rows that may each come before the other have equal keys.
LEMMA EqualKeys ==
  ASSUME NEW order, NEW x \in Int, NEW y \in Int, MayPrecede(order, x, y), MayPrecede(order, y, x)
  PROVE  x = y
  BY DEF MayPrecede, None

\* With ties broken by an id, there is one order.
LEMMA OneOrder ==
  ASSUME NEW rows, IsFiniteSet(rows), NEW key, NEW order,
         \A x \in rows : key[x] \in Int /\ x.id \in Int,
         \A x, y \in rows : x.id = y.id => x = y,
         NEW s \in TieBroken(rows, key, order), NEW t \in TieBroken(rows, key, order)
  PROVE  s = t
  <1>1. s \in SetToSeqs(rows) /\ t \in SetToSeqs(rows)
    BY DEF TieBroken, Orders
  <1>2. /\ \A i, j \in DOMAIN s : i < j => MayPrecede(order, key[s[i]], key[s[j]])
        /\ \A i, j \in DOMAIN s : (i < j /\ key[s[i]] = key[s[j]]) => s[i].id < s[j].id
    BY DEF TieBroken, Orders
  <1>3. /\ \A i, j \in DOMAIN t : i < j => MayPrecede(order, key[t[i]], key[t[j]])
        /\ \A i, j \in DOMAIN t : (i < j /\ key[t[i]] = key[t[j]]) => t[i].id < t[j].id
    BY DEF TieBroken, Orders
  <1>4. /\ s \in Seq(rows) /\ \A i, j \in 1..Len(s) : i # j => s[i] # s[j]
        /\ Len(s) = Cardinality(rows) /\ \A x \in rows : \E i \in 1..Len(s) : s[i] = x
    BY <1>1, EachOnce
  <1>5. /\ t \in Seq(rows) /\ \A i, j \in 1..Len(t) : i # j => t[i] # t[j]
        /\ Len(t) = Cardinality(rows) /\ \A x \in rows : \E i \in 1..Len(t) : t[i] = x
    BY <1>1, EachOnce
  <1> DEFINE n == Len(s)
             bad == {i \in 1..n : s[i] # t[i]}
  <1>6. n \in Nat /\ Len(t) = n /\ DOMAIN s = 1..n /\ DOMAIN t = 1..n
    BY <1>4, <1>5
  <1>7. ASSUME NEW i \in bad, \A j \in bad : i <= j PROVE FALSE
    <2>1. i \in 1..n /\ s[i] # t[i] /\ s[i] \in rows /\ t[i] \in rows
      BY <1>4, <1>5, <1>6
    <2>2. \A j \in 1..n : j < i => s[j] = t[j]
      BY <1>6, <1>7, <2>1
    <2>3. PICK j \in 1..n : s[j] = t[i]
      BY <1>4, <2>1
    <2>4. PICK k \in 1..n : t[k] = s[i]
      BY <1>5, <1>6, <2>1
    <2>5. j > i
      <3>1. j # i
        BY <2>1, <2>3
      <3>2. ~(j < i)
        <4> SUFFICES ASSUME j < i PROVE FALSE
          OBVIOUS
        <4>1. t[j] = t[i] /\ j # i
          BY <2>2, <2>3, <3>1
        <4> QED
          BY <1>5, <1>6, <2>1, <4>1
      <3> QED
        BY <1>6, <2>1, <3>1, <3>2
    <2>6. k > i
      <3>1. k # i
        BY <2>1, <2>4
      <3>2. ~(k < i)
        <4> SUFFICES ASSUME k < i PROVE FALSE
          OBVIOUS
        <4>1. s[k] = s[i] /\ k # i
          BY <2>2, <2>4, <3>1
        <4> QED
          BY <1>4, <2>1, <4>1
      <3> QED
        BY <1>6, <2>1, <3>1, <3>2
    <2>7. PICK x, y : x = s[i] /\ y = t[i]
      OBVIOUS
    <2>8. MayPrecede(order, key[x], key[y]) /\ (key[x] = key[y] => x.id < y.id)
      BY <1>2, <1>6, <2>1, <2>3, <2>5, <2>7
    <2>9. MayPrecede(order, key[y], key[x]) /\ (key[y] = key[x] => y.id < x.id)
      BY <1>3, <1>6, <2>1, <2>4, <2>6, <2>7
    <2>10. key[x] = key[y]
      BY <2>1, <2>7, <2>8, <2>9, EqualKeys
    <2>11. x.id \in Int /\ y.id \in Int /\ x.id < y.id /\ y.id < x.id
      BY <2>1, <2>7, <2>8, <2>9, <2>10
    <2> QED
      BY <2>11
  <1>8. bad = {}
    <2>1. bad \in SUBSET Nat
      OBVIOUS
    <2> HIDE DEF bad
    <2> QED
      BY <1>7, <2>1, LeastNat
  <1>9. \A i \in 1..n : s[i] = t[i]
    BY <1>8
  <1>10. s = [i \in 1..n |-> s[i]] /\ t = [i \in 1..n |-> t[i]]
    BY <1>4, <1>5, <1>6
  <1> QED
    BY <1>9, <1>10

-----------------------------------------------------------------------------
(* Pages of a list. *)

\* Two slices of rows, and the one that they are together.
Joined(R, s, x, y, z) ==
  /\ Slice(s, x) \in Seq(R) /\ Slice(s, y) \in Seq(R)
  /\ Slice(s, x) \o Slice(s, y) = Slice(s, z)

\* Two slices that follow each other are one.
LEMMA SlicesJoin ==
  ASSUME NEW R, NEW s \in Seq(R),
         NEW x, x.offset \in Nat, x.limit \in Nat, x.limit > 0,
         NEW y, y.offset = x.offset + x.limit, y.limit \in Nat, y.limit > 0,
         NEW z, z.offset = x.offset, z.limit = x.limit + y.limit
  PROVE  Joined(R, s, x, y, z)
  <1>0. PICK a, l, m : a = x.offset /\ l = x.limit /\ m = y.limit
    OBVIOUS
  <1>a. a \in Nat /\ l \in Nat \ {0} /\ m \in Nat \ {0}
    BY <1>0
  <1> DEFINE n == Len(s)
             One   == Slice(s, x)
             Two   == Slice(s, y)
             Whole == Slice(s, z)
  <1>1. n \in Nat /\ \A i \in 1..n : s[i] \in R
    OBVIOUS
  <1>2. /\ One = SubSeq(s, a + 1, Smaller(a + l, n))
        /\ Two = SubSeq(s, a + l + 1, Smaller(a + l + m, n))
        /\ Whole = SubSeq(s, a + 1, Smaller(a + (l + m), n))
    BY <1>0 DEF Slice
  <1> HIDE DEF One, Two, Whole
  <1>3. ASSUME a + l <= n PROVE One \in Seq(R) /\ Two \in Seq(R) /\ One \o Two = Whole
    <2>1. /\ Smaller(a + l, n) = a + l /\ Smaller(a + l + m, n) = Smaller(a + (l + m), n)
          /\ Smaller(a + (l + m), n) \in (a + l)..n
      BY <1>a, <1>1, <1>3 DEF Smaller
    <2>2. a + 1 \in 1..(n + 1) /\ a + l \in ((a + 1) - 1)..n
      BY <1>a, <1>1, <1>3
    <2>3. \A e \in (a + l)..n : SubSeq(s, a + 1, a + l) \o SubSeq(s, (a + l) + 1, e) = SubSeq(s, a + 1, e)
      BY <1>a, <2>2, ConcatAdjacentSubSeq
    <2>4. \A i \in (a + 1)..(a + l) : s[i] \in R
      BY <1>a, <1>1, <1>3
    <2>5. SubSeq(s, a + 1, a + l) \in Seq(R)
      BY <1>a, <2>4, SubSeqProperties
    <2>6. \A e \in (a + l)..n : SubSeq(s, a + l + 1, e) \in Seq(R)
      <3> SUFFICES ASSUME NEW e \in (a + l)..n PROVE SubSeq(s, a + l + 1, e) \in Seq(R)
        OBVIOUS
      <3>1. \A i \in (a + l + 1)..e : s[i] \in R
        BY <1>a, <1>1
      <3> QED
        BY <1>a, <1>1, <3>1, SubSeqProperties
    <2> QED
      BY <1>2, <2>1, <2>3, <2>5, <2>6
  <1>4. ASSUME a + l > n PROVE One \in Seq(R) /\ Two \in Seq(R) /\ One \o Two = Whole
    <2>1. Smaller(a + l, n) = n /\ Smaller(a + l + m, n) = n /\ Smaller(a + (l + m), n) = n
      BY <1>a, <1>1, <1>4 DEF Smaller
    <2>2. Two = <<>>
      <3>1. a + l + 1 \in Int /\ n < a + l + 1
        BY <1>a, <1>1, <1>4
      <3>2. SubSeq(s, a + l + 1, n) = <<>>
        BY <1>a, <1>1, <3>1, SubSeqEmpty
      <3> QED
        BY <1>2, <2>1, <3>2
    <2>3. One = Whole
      BY <1>2, <2>1
    <2>4. One \in Seq(R)
      <3>1. \A i \in (a + 1)..n : s[i] \in R
        BY <1>a, <1>1
      <3>2. SubSeq(s, a + 1, n) \in Seq(R)
        BY <1>a, <1>1, <3>1, SubSeqProperties
      <3> QED
        BY <1>2, <2>1, <3>2
    <2>5. One \o <<>> = One
      BY <2>4, ConcatEmptySeq
    <2>6. Two \in Seq(R)
      BY <2>2
    <2> QED
      BY <2>2, <2>3, <2>4, <2>5, <2>6
  <1>5. a + l <= n \/ a + l > n
    BY <1>a, <1>1
  <1>6. One \in Seq(R) /\ Two \in Seq(R) /\ One \o Two = Whole
    BY <1>3, <1>4, <1>5
  <1> QED
    BY <1>6 DEF One, Two, Whole, Joined

\* What is shown of two slices is what is shown of both.
LEMMA ShownJoin ==
  ASSUME NEW R, NEW s \in Seq(R), NEW t \in Seq(R)
  PROVE  Shown(s) \o Shown(t) = Shown(s \o t)
  <1> DEFINE T == {ShownToken(x) : x \in R}
  <1>1. ASSUME NEW u \in Seq(R)
        PROVE  /\ Shown(u) \in Seq(T) /\ Len(Shown(u)) = Len(u)
               /\ \A i \in 1..Len(u) : Shown(u)[i] = ShownToken(u[i])
    <2>1. Len(u) \in Nat /\ DOMAIN u = 1..Len(u) /\ \A i \in 1..Len(u) : u[i] \in R
      OBVIOUS
    <2>2. Shown(u) = [i \in 1..Len(u) |-> ShownToken(u[i])]
      BY <2>1 DEF Shown
    <2> QED
      BY <2>1, <2>2
  <1> HIDE DEF T
  <1>2. /\ s \o t \in Seq(R) /\ Len(s \o t) = Len(s) + Len(t)
        /\ \A i \in 1..(Len(s) + Len(t)) : (s \o t)[i] = IF i <= Len(s) THEN s[i] ELSE t[i - Len(s)]
    BY ConcatProperties
  <1>3. PICK p, q : p = Shown(s) /\ q = Shown(t)
    OBVIOUS
  <1>4. /\ p \o q \in Seq(T) /\ Len(p \o q) = Len(p) + Len(q)
        /\ \A i \in 1..(Len(p) + Len(q)) : (p \o q)[i] = IF i <= Len(p) THEN p[i] ELSE q[i - Len(p)]
    <2>1. p \in Seq(T) /\ q \in Seq(T)
      BY <1>1, <1>3
    <2> QED
      BY <2>1, ConcatProperties
  <1>5. PICK m, n : m = Len(s) /\ n = Len(t)
    OBVIOUS
  <1>6. m \in Nat /\ n \in Nat /\ Len(p) = m /\ Len(q) = n
    BY <1>1, <1>3, <1>5
  <1>7. ASSUME NEW i \in 1..(m + n) PROVE (p \o q)[i] = Shown(s \o t)[i]
    <2>1. Shown(s \o t)[i] = ShownToken((s \o t)[i])
      BY <1>1, <1>2, <1>5
    <2>2. CASE i <= m
      <3>1. i \in 1..m
        BY <1>6, <2>2
      <3>2. (p \o q)[i] = p[i] /\ (s \o t)[i] = s[i]
        BY <1>2, <1>4, <1>5, <1>6, <2>2
      <3> QED
        BY <1>1, <1>3, <1>5, <2>1, <3>1, <3>2
    <2>3. CASE ~(i <= m)
      <3>1. i - m \in 1..n
        BY <1>6, <2>3
      <3>2. (p \o q)[i] = q[i - m] /\ (s \o t)[i] = t[i - m]
        BY <1>2, <1>4, <1>5, <1>6, <2>3
      <3> QED
        BY <1>1, <1>3, <1>5, <2>1, <3>1, <3>2
    <2> QED
      BY <2>2, <2>3
  <1>8. Shown(s \o t) \in Seq(T) /\ Len(Shown(s \o t)) = m + n
    BY <1>1, <1>2, <1>5
  <1>9. p \o q = Shown(s \o t)
    BY <1>4, <1>6, <1>7, <1>8
  <1> QED
    BY <1>3, <1>9

-----------------------------------------------------------------------------
\* A page has a row or more and starts at one of the list.
LEMMA PageIs ==
  ASSUME NEW q, q.limit \in Int, q.offset \in Int
  PROVE  ParseTokens(q).page.limit \in Nat \ {0} /\ ParseTokens(q).page.offset \in Nat
  BY DEF ParseTokens, ParseList, ParsePage, Smaller, Larger

ListParams == {"limit", "offset", "sort", "order", "search", "issuer", "type", "verified"}

\* The list after a page: the same rows in the same order, from where the page ends.
LEMMA NextPageIs ==
  ASSUME NEW db, NEW q, q.limit \in Int, q.offset \in Int, DOMAIN q = ListParams,
         NEW p, p = ParseTokens(q).page,
         NEW after, after = [q EXCEPT !.offset = p.offset + p.limit]
  PROVE  /\ ListedTokens(db, after) = ListedTokens(db, q)
         /\ ParseTokens(after).sort = ParseTokens(q).sort
         /\ ParseTokens(after).order = ParseTokens(q).order
         /\ ParseTokens(after).page.limit = p.limit
         /\ ParseTokens(after).page.offset = p.offset + p.limit
  <1>1. PICK x : x = p.offset + p.limit
    OBVIOUS
  <1>2. /\ after.limit = q.limit /\ after.sort = q.sort /\ after.order = q.order /\ after.search = q.search
        /\ after.issuer = q.issuer /\ after.type = q.type /\ after.verified = q.verified /\ after.offset = x
    BY <1>1 DEF ListParams
  <1>3. p.limit \in Nat \ {0} /\ p.offset \in Nat
    BY PageIs
  <1>4. ListedTokens(db, after) = ListedTokens(db, q)
    BY <1>2, Zenon DEF ListedTokens, TokenMatches
  <1>5. ParseTokens(after).sort = ParseTokens(q).sort /\ ParseTokens(after).order = ParseTokens(q).order
    BY <1>2 DEF ParseTokens, ParseList
  <1>6. ParseTokens(after).page.limit = p.limit /\ ParseTokens(after).page.offset = Larger(x, 0)
    BY <1>2 DEF ParseTokens, ParseList, ParsePage
  <1>7. Larger(x, 0) = x
    BY <1>1, <1>3 DEF Larger
  <1> QED
    BY <1>1, <1>4, <1>5, <1>6, <1>7

\* A part of the list of these rows.
PartOf(rows, sort, order, page) ==
  LET key == [t \in rows |-> TokenKey(t, sort)]
  IN {WithTotal(Shown(slice), rows) : slice \in Slices(TieBroken(rows, key, order), page)}

LEMMA PageIsPart ==
  ASSUME NEW db, NEW q, NEW page
  PROVE  TokenPage(db, q, page)
           = PartOf(ListedTokens(db, q), ParseTokens(q).sort, ParseTokens(q).order, page)
  BY Zenon DEF TokenPage, PartOf

\* The rows of two answers are those from the start of the one to the end of the other.
Fit(n, q, p, after, one, two) ==
  \E all \in TokenPage(Contents[n], q,
                       [offset |-> p.offset, limit |-> p.limit + ParseTokens(after).page.limit]) :
    one.rows \o two.rows = all.rows

\* Two pages that follow each other are the part of the list from the one to the other.
LEMMA PagesFit ==
  ASSUME NEW n \in DOMAIN Contents, NEW q, q.limit \in Int, q.offset \in Int, DOMAIN q = ListParams,
         NEW p, p = ParseTokens(q).page,
         NEW after, after = [q EXCEPT !.offset = p.offset + p.limit],
         NEW one \in ListTokens(Contents[n], q), NEW two \in ListTokens(Contents[n], after)
  PROVE  Fit(n, q, p, after, one, two)
  <1> DEFINE db == Contents[n]
             sort == ParseTokens(q).sort
             order == ParseTokens(q).order
             rows == ListedTokens(db, q)
             key == [t \in rows |-> TokenKey(t, sort)]
             next == ParseTokens(after).page
             both == [offset |-> p.offset, limit |-> p.limit + next.limit]
  <1>1. /\ ListedTokens(db, after) = rows /\ ParseTokens(after).sort = sort
        /\ ParseTokens(after).order = order
        /\ next.limit = p.limit /\ next.offset = p.offset + p.limit
    BY NextPageIs
  <1>2. p.limit \in Nat \ {0} /\ p.offset \in Nat
    BY PageIs
  <1>0. \A page : PartOf(rows, sort, order, page)
                    = {WithTotal(Shown(slice), rows) : slice \in Slices(TieBroken(rows, key, order), page)}
    BY DEF PartOf
  <1>3. \A page : TokenPage(db, q, page)
                    = {WithTotal(Shown(slice), rows) : slice \in Slices(TieBroken(rows, key, order), page)}
    BY <1>0, PageIsPart
  <1>4. \A page : TokenPage(db, after, page) = TokenPage(db, q, page)
    BY <1>1, PageIsPart, Zenon
  <1>5. one \in TokenPage(db, q, p) /\ two \in TokenPage(db, after, next)
    BY DEF ListTokens
  <1>6. IsFiniteSet(rows) /\ (\A x \in rows : key[x] \in Int /\ x.id \in Int)
        /\ \A x, y \in rows : x.id = y.id => x = y
    <2>1. /\ IsFiniteSet(db.tokens) /\ rows \subseteq db.tokens
          /\ \A t, u \in db.tokens : t.id = u.id => t = u
          /\ \A t \in db.tokens : t.id \in Int /\ \A by \in TokenSorts : TokenKey(t, by) \in Int
      BY ContentsAssumption DEF ListedTokens
    <2>2. sort \in TokenSorts
      BY DEF ParseTokens, ParseList, TokenSorts
    <2>3. IsFiniteSet(rows)
      BY <2>1, FS_Subset
    <2> QED
      BY <2>1, <2>2, <2>3
  <1> HIDE DEF rows, key, sort, order, next, db
  <1>7. PICK s \in TieBroken(rows, key, order) : one = WithTotal(Shown(Slice(s, p)), rows)
    BY <1>3, <1>5 DEF Slices
  <1>8. PICK t \in TieBroken(rows, key, order) : two = WithTotal(Shown(Slice(t, next)), rows)
    BY <1>3, <1>4, <1>5 DEF Slices
  <1>9. s = t
    BY <1>6, OneOrder
  <1>10. s \in Seq(rows)
    BY <1>6, EachOnce DEF TieBroken, Orders
  <1>11. both.offset = p.offset /\ both.limit = p.limit + next.limit
    OBVIOUS
  <1> HIDE DEF both
  <1>13. /\ Slice(s, p) \in Seq(rows) /\ Slice(s, next) \in Seq(rows)
         /\ Slice(s, p) \o Slice(s, next) = Slice(s, both)
    <2>1. PICK S, x, y, z : S = rows /\ x = p /\ y = next /\ z = both
      OBVIOUS
    <2>2. /\ s \in Seq(S) /\ x.offset \in Nat /\ x.limit \in Nat /\ x.limit > 0
          /\ y.offset = x.offset + x.limit /\ y.limit \in Nat /\ y.limit > 0
          /\ z.offset = x.offset /\ z.limit = x.limit + y.limit
      BY <1>1, <1>2, <1>10, <1>11, <2>1
    <2>3. Joined(S, s, x, y, z)
      BY <2>2, SlicesJoin
    <2> QED
      BY <2>1, <2>3 DEF Joined
  <1>14. Shown(Slice(s, p)) \o Shown(Slice(s, next)) = Shown(Slice(s, both))
    <2>1. PICK x, y : x = Slice(s, p) /\ y = Slice(s, next)
      OBVIOUS
    <2>2. x \in Seq(rows) /\ y \in Seq(rows) /\ x \o y = Slice(s, both)
      BY <1>13, <2>1
    <2>3. Shown(x) \o Shown(y) = Shown(x \o y)
      BY <2>2, ShownJoin, Zenon
    <2> QED
      BY <2>1, <2>2, <2>3
  <1> DEFINE all == WithTotal(Shown(Slice(s, both)), rows)
  <1>15. all \in TokenPage(db, q, both)
    BY <1>3, <1>7 DEF Slices
  <1>16. /\ one.rows = Shown(Slice(s, p)) /\ two.rows = Shown(Slice(s, next))
         /\ all.rows = Shown(Slice(s, both))
    BY <1>7, <1>8, <1>9 DEF WithTotal
  <1>17. one.rows \o two.rows = all.rows
    BY <1>14, <1>16
  <1> HIDE DEF all
  <1>18. \E z \in TokenPage(db, q, both) : one.rows \o two.rows = z.rows
    BY <1>15, <1>17
  <1> QED
    BY <1>18 DEF both, next, db, Fit

-----------------------------------------------------------------------------
(* What a series reads: ledgers that are indexed later do not change it.   *)

\* A finite set of naturals has a bound: a smallest one without would have one.
LEMMA FiniteBounded ==
  ASSUME NEW S \in SUBSET Nat, IsFiniteSet(S)
  PROVE  \E m \in Nat : \A x \in S : x <= m
  <1> DEFINE Unbounded(T) == T \in SUBSET Nat /\ IsFiniteSet(T) /\ ~\E m \in Nat : \A x \in T : x <= m
             bad == {k \in Nat : \E T \in SUBSET Nat : Unbounded(T) /\ Cardinality(T) = k}
  <1>1. ASSUME NEW k \in bad, \A l \in bad : k <= l PROVE FALSE
    <2>1. PICK T \in SUBSET Nat : Unbounded(T) /\ Cardinality(T) = k
      BY <1>1
    <2>2. T # {}
      BY <2>1
    <2>3. PICK x \in T : TRUE
      BY <2>2
    <2>4. IsFiniteSet(T \ {x}) /\ Cardinality(T \ {x}) = k - 1 /\ k - 1 \in Nat
      <3>1. IsFiniteSet(T \ {x}) /\ Cardinality(T \ {x}) = k - 1
        BY <2>1, <2>3, FS_RemoveElement
      <3> QED
        BY <3>1, FS_CardinalityType
    <2>5. k - 1 \notin bad
      BY <1>1, <2>4
    <2>6. PICK m \in Nat : \A y \in T \ {x} : y <= m
      BY <2>4, <2>5
    <2>7. x \in Nat /\ m + x \in Nat
      BY <2>3
    <2>8. \A y \in T : y <= m + x
      BY <2>6, <2>7
    <2> QED
      BY <2>1, <2>7, <2>8
  <1>2. bad = {}
    <2>1. bad \in SUBSET Nat
      OBVIOUS
    <2> HIDE DEF bad
    <2> QED
      BY <1>1, <2>1, LeastNat
  <1>3. ~Unbounded(S)
    <2>1. Cardinality(S) \in Nat
      BY FS_CardinalityType
    <2> QED
      BY <1>2, <2>1
  <1> QED
    BY <1>3

\* The ends of the ledgers of a database are numbers.
LEMMA EndsAre ==
  ASSUME NEW n \in DOMAIN Contents
  PROVE  OldestLedger(Contents[n]) \in Nat /\ NewestLedger(Contents[n]) \in Nat
  <1>1. PICK S : S = Contents[n].ledgers
    OBVIOUS
  <1>2. S \in SUBSET Nat /\ IsFiniteSet(S)
    BY <1>1, ContentsAssumption
  <1>3. ASSUME S # {} PROVE Min(S) \in Nat /\ Max(S) \in Nat
    <2>1. \E x \in S : \A y \in S : x <= y
      BY <1>2, <1>3, LeastNat
    <2>2. \E x \in S : \A y \in S : y <= x
      <3> DEFINE bounds == {m \in Nat : \A x \in S : x <= m}
      <3>1. bounds \in SUBSET Nat /\ bounds # {}
        BY <1>2, FiniteBounded
      <3>2. PICK b \in bounds : \A y \in bounds : b <= y
        <4> HIDE DEF bounds
        <4> QED
          BY <3>1, LeastNat
      <3>3. b \in Nat /\ \A x \in S : x <= b
        OBVIOUS
      <3>4. b \in S
        <4> SUFFICES ASSUME b \notin S PROVE FALSE
          OBVIOUS
        <4>1. PICK x \in S : TRUE
          BY <1>3
        <4>2. x \in Nat /\ x < b
          BY <1>2, <3>3
        <4>3. b - 1 \in Nat /\ \A y \in S : y <= b - 1
          BY <1>2, <3>3, <4>2
        <4>4. b - 1 \in bounds
          BY <4>3
        <4> QED
          BY <3>2, <3>3, <4>4
      <3> QED
        BY <3>3, <3>4
    <2> QED
      BY <1>2, <2>1, <2>2 DEF Min, Max
  <1> QED
    BY <1>1, <1>3 DEF OldestLedger, NewestLedger

LEMMA QuotientBelow ==
  ASSUME NEW x \in Nat, NEW b \in Nat \ {0}, NEW c \in Nat, x < b * (c + 1)
  PROVE  x \div b <= c /\ x \div b \in Nat
  OBVIOUS

\* The samples of a series are ledgers up to its end.
LEMMA SamplesBelow ==
  ASSUME NEW start \in Int, NEW end \in Int, NEW points \in Nat, points >= 2
  PROVE  \E len \in Nat : /\ DOMAIN SampleSequence(start, end, points) = 1..len
                          /\ \A i \in 1..len : /\ SampleSequence(start, end, points)[i] \in Int
                                               /\ SampleSequence(start, end, points)[i] <= end
  <1>1. CASE end <= start
    <2>1. SampleSequence(start, end, points) = <<end>>
      BY <1>1 DEF SampleSequence
    <2>2. DOMAIN <<end>> = 1..1 /\ \A i \in 1..1 : <<end>>[i] = end
      OBVIOUS
    <2> QED
      BY <2>1, <2>2
  <1>2. CASE ~(end <= start)
    <2> DEFINE At(i) == start + (2 * (end - start) * (i - 1) + points - 1) \div (2 * (points - 1))
    <2>1. SampleSequence(start, end, points) = [i \in 1..points |-> At(i)]
      BY <1>2 DEF SampleSequence
    <2>2. ASSUME NEW i \in 1..points PROVE At(i) \in Int /\ At(i) <= end
      <3>1. PICK d, k, j : d = end - start /\ k = points - 1 /\ j = i - 1
        OBVIOUS
      <3>2. d \in Nat /\ k \in Nat \ {0} /\ j \in Nat /\ j <= k
        BY <1>2, <3>1
      <3>3. d * j \in Nat /\ d * k \in Nat /\ d * j <= d * k
        BY <3>2
      <3>4. 2 * d * j = 2 * (d * j)
        BY <3>2
      <3>5. 2 * k \in Nat \ {0} /\ (2 * k) * (d + 1) = 2 * (d * k) + 2 * k
        BY <3>2
      <3>6. PICK x : x = 2 * (d * j) + k
        OBVIOUS
      <3>7. x \in Nat /\ x < (2 * k) * (d + 1)
        BY <3>2, <3>3, <3>5, <3>6
      <3>8. x \div (2 * k) <= d /\ x \div (2 * k) \in Nat
        BY <3>2, <3>5, <3>7, QuotientBelow
      <3>9. 2 * (end - start) * (i - 1) + points - 1 = x /\ 2 * (points - 1) = 2 * k
        BY <3>1, <3>2, <3>3, <3>4, <3>6
      <3> QED
        BY <3>1, <3>8, <3>9
    <2> HIDE DEF At
    <2> QED
      BY <2>1, <2>2
  <1> QED
    BY <1>1, <1>2

\* The last of these points, and the price of the last of these trades.
LastOf(old) ==
  IF old = {} THEN None ELSE (CHOOSE p \in old : \A q \in old : q.seq <= p.seq).value

LastPriceOf(log, id) ==
  LET After(x, y) == x.seq > y.seq \/ (x.seq = y.seq /\ x.idx >= y.idx)
  IN IF log = {} THEN <<>> ELSE Price(CHOOSE x \in log : \A y \in log : After(x, y), id)

\* What is as of a ledger stays when only newer ledgers are added.
LEMMA AsOfKept ==
  ASSUME NEW old, NEW new, NEW top \in Int, Above(old, new, top), NEW cap \in Int, cap <= top
  PROVE  AsOf(new, cap) = AsOf(old, cap)
  <1>1. {p \in new : p.seq <= cap} = {p \in old : p.seq <= cap}
    BY DEF Above
  <1>2. \A points : AsOf(points, cap) = LastOf({p \in points : p.seq <= cap})
    BY Zenon DEF AsOf, LastOf
  <1> QED
    BY <1>1, <1>2, Zenon

LEMMA PriceKept ==
  ASSUME NEW one, NEW two, NEW top \in Int, Above(one.trades, two.trades, top), two.xrp = one.xrp,
         NEW id, NEW cap \in Int, cap <= top
  PROVE  PriceAsOf(two, id, cap) = PriceAsOf(one, id, cap)
  <1>1. {x \in two.trades : x.seq <= cap /\ {x.got.token, x.paid.token} = {id, two.xrp}}
          = {x \in one.trades : x.seq <= cap /\ {x.got.token, x.paid.token} = {id, one.xrp}}
    BY DEF Above
  <1>2. \A db : PriceAsOf(db, id, cap)
                 = LastPriceOf({x \in db.trades : x.seq <= cap /\ {x.got.token, x.paid.token} = {id, db.xrp}}, id)
    BY Zenon DEF PriceAsOf, LastPriceOf
  <1> QED
    BY <1>1, <1>2, Zenon

\* A metric of a token as of a ledger stays when newer ledgers are indexed.
LEMMA MetricKept ==
  ASSUME NEW m \in DOMAIN Contents, NEW k \in DOMAIN Contents, m <= k, NEW got,
         \E t \in Contents[m].tokens : t.id = Resolved(got),
         NEW metric, metric = "price" \/ \A t \in Contents[m].tokens : metric \in DOMAIN t.points,
         NEW l \in Int, l <= NewestLedger(Contents[m])
  PROVE  /\ \E t \in Contents[k].tokens : t.id = Resolved(got)
         /\ MetricAt(Contents[k], TokenRow(Contents[k], got), metric, l)
              = MetricAt(Contents[m], TokenRow(Contents[m], got), metric, l)
  <1> DEFINE one == Contents[m]
             two == Contents[k]
             top == NewestLedger(one)
  <1>1. /\ two.xrp = one.xrp /\ Above(one.trades, two.trades, top)
        /\ \A t \in one.tokens : \E u \in two.tokens :
             u.id = t.id /\ \A x \in DOMAIN t.points : Above(t.points[x], u.points[x], top)
    BY HistoryAssumption
  <1>2. PICK t : t = TokenRow(one, got)
    OBVIOUS
  <1>3. t \in one.tokens /\ t.id = Resolved(got)
    BY <1>2 DEF TokenRow
  <1>4. PICK u \in two.tokens : u.id = t.id /\ \A x \in DOMAIN t.points : Above(t.points[x], u.points[x], top)
    BY <1>1, <1>3
  <1>5. \A x, y \in two.tokens : x.id = y.id => x = y
    BY ContentsAssumption
  <1>6. PICK w : w = TokenRow(two, got)
    OBVIOUS
  <1>7. w \in two.tokens /\ w.id = Resolved(got)
    BY <1>3, <1>4, <1>6 DEF TokenRow
  <1>8. w = u
    BY <1>3, <1>4, <1>5, <1>7
  <1>9. top \in Int /\ l <= top
    BY EndsAre
  <1> HIDE DEF one, two, top
  <1>10. CASE metric = "price"
    <2>1. PriceAsOf(two, t.id, l) = PriceAsOf(one, t.id, l)
      BY <1>1, <1>9, PriceKept
    <2>2. MetricAt(two, w, metric, l) = MetricAt(one, t, metric, l)
      BY <1>3, <1>7, <1>10, <2>1 DEF MetricAt
    <2> QED
      BY <1>2, <1>6, <1>7, <2>2 DEF one, two
  <1>11. CASE metric # "price"
    <2>1. metric \in DOMAIN t.points
      BY <1>3, <1>11 DEF one
    <2>2. Above(t.points[metric], w.points[metric], top)
      BY <1>4, <1>8, <2>1
    <2>3. AsOf(w.points[metric], l) = AsOf(t.points[metric], l)
      BY <1>9, <2>2, AsOfKept
    <2>4. MetricAt(two, w, metric, l) = MetricAt(one, t, metric, l)
      BY <1>11, <2>3 DEF MetricAt
    <2> QED
      BY <1>2, <1>6, <1>7, <2>4 DEF one, two
  <1> QED
    BY <1>10, <1>11

-----------------------------------------------------------------------------
(* The statements of a list and of a series, in their order. *)

\* The least of some stages.
LEMMA MinIs ==
  ASSUME NEW S \in SUBSET Nat, S # {}
  PROVE  Min(S) \in S /\ \A x \in S : Min(S) <= x
  <1>1. \E x \in S : \A y \in S : x <= y
    BY LeastNat
  <1> QED
    BY <1>1 DEF Min

LEMMA TokensNext ==
  ASSUME NEW r, r.route = "tokens", NEW got
  PROVE  /\ \A p \in NextParts(r, got) : p = Part("rows") /\ p \notin DOMAIN got
         /\ NextParts(r, got) = {} => Part("rows") \in DOMAIN got
  <1>1. Stages(r, got) = <<{Part("rows")}>>
    BY DEF Stages
  <1> DEFINE stages == <<{Part("rows")}>>
             open == {i \in DOMAIN stages : ~(stages[i] \subseteq DOMAIN got)}
  <1>2. NextParts(r, got) = IF open = {} THEN {} ELSE stages[Min(open)] \ DOMAIN got
    BY <1>1, Zenon DEF NextParts
  <1>3. DOMAIN stages = 1..1 /\ stages[1] = {Part("rows")}
    OBVIOUS
  <1> HIDE DEF stages
  <1>4. CASE open = {}
    <2>1. stages[1] \subseteq DOMAIN got
      BY <1>3, <1>4
    <2> QED
      BY <1>2, <1>3, <1>4, <2>1
  <1>5. CASE open # {}
    <2>1. open \in SUBSET Nat
      BY <1>3
    <2>2. Min(open) \in open
      BY <1>5, <2>1, MinIs
    <2>3. Min(open) = 1 /\ ~(stages[1] \subseteq DOMAIN got)
      BY <1>3, <2>2
    <2> QED
      BY <1>2, <1>3, <1>5, <2>3
  <1> QED
    BY <1>4, <1>5

\* A series resolves its token, then finds its range, then reads the samples.
LEMMA SeriesNext ==
  ASSUME NEW r, r.route = "series", NEW got,
         NEW len \in Nat,
         Part("range") \in DOMAIN got => DOMAIN SampleLedgers(r, got[Part("range")]) = 1..len
  PROVE  /\ \A p \in NextParts(r, got) :
              /\ p \notin DOMAIN got
              /\ \/ p = Part("resolve")
                 \/ p = Part("range") /\ Part("resolve") \in DOMAIN got
                 \/ /\ Part("resolve") \in DOMAIN got /\ Part("range") \in DOMAIN got
                    /\ \E i \in 1..len : p = <<"sample", i>>
         /\ NextParts(r, got) = {} =>
              /\ Part("resolve") \in DOMAIN got /\ Part("range") \in DOMAIN got
              /\ \A i \in 1..len : <<"sample", i>> \in DOMAIN got
  <1> DEFINE samples == IF Part("range") \notin DOMAIN got THEN <<>>
                        ELSE [i \in DOMAIN SampleLedgers(r, got[Part("range")]) |-> {<<"sample", i>>}]
             first == <<{Part("resolve")}, {Part("range")}>>
             stages == first \o samples
             open == {i \in DOMAIN stages : ~(stages[i] \subseteq DOMAIN got)}
             count == IF Part("range") \notin DOMAIN got THEN 0 ELSE len
  <1>1. Stages(r, got) = stages
    BY DEF Stages
  <1>2. NextParts(r, got) = IF open = {} THEN {} ELSE stages[Min(open)] \ DOMAIN got
    BY <1>1, Zenon DEF NextParts
  <1>3. count \in Nat /\ Len(samples) = count /\ samples = [i \in 1..count |-> samples[i]]
        /\ \A i \in 1..count : samples[i] = {<<"sample", i>>} /\ Part("range") \in DOMAIN got
    <2>1. CASE Part("range") \notin DOMAIN got
      BY <2>1
    <2>2. CASE Part("range") \in DOMAIN got
      <3>1. samples = [i \in 1..len |-> {<<"sample", i>>}]
        BY <2>2
      <3> QED
        BY <2>2, <3>1
    <2> QED
      BY <2>1, <2>2
  <1>4. Len(first) = 2 /\ first[1] = {Part("resolve")} /\ first[2] = {Part("range")}
    OBVIOUS
  <1> HIDE DEF samples, first, count
  <1>5. /\ DOMAIN stages = 1..(2 + count)
        /\ stages[1] = {Part("resolve")} /\ stages[2] = {Part("range")}
        /\ \A i \in 1..count : stages[2 + i] = {<<"sample", i>>}
    <2>1. PICK R : R = {first[i] : i \in 1..2} \cup {samples[i] : i \in 1..count}
      OBVIOUS
    <2>2. first \in Seq(R)
      <3>1. first[1] \in R /\ first[2] \in R
        BY <2>1
      <3> QED
        BY <3>1 DEF first
    <2>6. samples \in Seq(R)
      <3>1. \A i \in 1..count : samples[i] \in R
        BY <2>1
      <3> QED
        BY <1>3, <3>1
    <2>3. /\ Len(first \o samples) = Len(first) + Len(samples)
          /\ DOMAIN (first \o samples) = 1..(Len(first) + Len(samples))
          /\ \A i \in 1..(Len(first) + Len(samples)) :
               (first \o samples)[i] = IF i <= Len(first) THEN first[i] ELSE samples[i - Len(first)]
      BY <2>2, <2>6, ConcatProperties, LenProperties
    <2>4. \A i \in 1..count : ~(2 + i <= 2) /\ (2 + i) - 2 = i /\ 2 + i \in 1..(2 + count)
      BY <1>3
    <2>5. 1 \in 1..(2 + count) /\ 2 \in 1..(2 + count)
      BY <1>3
    <2> QED
      BY <1>3, <1>4, <2>3, <2>4, <2>5
  <1> HIDE DEF stages
  <1>6. CASE open = {}
    <2>1. \A i \in 1..(2 + count) : stages[i] \subseteq DOMAIN got
      BY <1>5, <1>6
    <2>2. 1 \in 1..(2 + count) /\ 2 \in 1..(2 + count)
      BY <1>3
    <2>3. Part("resolve") \in DOMAIN got /\ Part("range") \in DOMAIN got
      BY <1>5, <2>1, <2>2
    <2>4. count = len
      BY <2>3 DEF count
    <2>5. ASSUME NEW i \in 1..len PROVE <<"sample", i>> \in DOMAIN got
      <3>1. 2 + i \in 1..(2 + count) /\ i \in 1..count
        BY <2>4
      <3> QED
        BY <1>5, <2>1, <3>1
    <2> QED
      BY <1>2, <1>6, <2>3, <2>5
  <1>7. CASE open # {}
    <2>1. open \in SUBSET Nat
      BY <1>5
    <2>2. PICK m : m = Min(open)
      OBVIOUS
    <2>3. m \in open /\ \A x \in open : m <= x
      BY <1>7, <2>1, <2>2, MinIs
    <2>4. m \in 1..(2 + count) /\ ~(stages[m] \subseteq DOMAIN got)
      BY <1>5, <2>3
    <2>5. NextParts(r, got) = stages[m] \ DOMAIN got
      BY <1>2, <1>7, <2>2
    <2>6. NextParts(r, got) # {}
      BY <2>4, <2>5
    <2>7. m # 1 => Part("resolve") \in DOMAIN got
      <3> SUFFICES ASSUME Part("resolve") \notin DOMAIN got PROVE m = 1
        OBVIOUS
      <3>1. 1 \in 1..(2 + count)
        BY <1>3
      <3>2. 1 \in open
        BY <1>5, <3>1
      <3> QED
        BY <2>3, <2>4, <3>2
    <2>8. m # 1 /\ m # 2 => Part("range") \in DOMAIN got
      <3> SUFFICES ASSUME Part("range") \notin DOMAIN got PROVE m = 1 \/ m = 2
        OBVIOUS
      <3>1. 2 \in 1..(2 + count)
        BY <1>3
      <3>2. 2 \in open
        BY <1>5, <3>1
      <3> QED
        BY <2>3, <2>4, <3>2
    <2>9. CASE m = 1
      BY <1>5, <2>5, <2>6, <2>9
    <2>10. CASE m = 2
      BY <1>5, <2>5, <2>6, <2>7, <2>10
    <2>11. CASE m # 1 /\ m # 2
      <3>1. PICK i : i = m - 2
        OBVIOUS
      <3>2. i \in 1..count /\ m = 2 + i
        BY <1>3, <2>4, <2>11, <3>1
      <3>3. stages[m] = {<<"sample", i>>}
        BY <1>5, <3>2
      <3>4. Part("range") \in DOMAIN got /\ count = len
        BY <2>8, <2>11 DEF count
      <3>5. i \in 1..len
        BY <3>2, <3>4
      <3> QED
        BY <2>5, <2>6, <2>7, <2>11, <3>3, <3>4, <3>5
    <2> QED
      BY <2>9, <2>10, <2>11
  <1> QED
    BY <1>6, <1>7

-----------------------------------------------------------------------------
(* What a handler has read. *)

\* A list is a page of the ledger the handler saw first.
ListRead(r, got, n) ==
  got = <<>> \/ (DOMAIN got = {Part("rows")} /\ got[Part("rows")] \in ListTokens(Contents[n], r.q))

\* The samples of a series are of a token and of ledgers the newest database has.
SeriesRead(r, got, top) ==
  /\ Part("resolve") \in DOMAIN got => \E t \in Contents[top].tokens : t.id = Resolved(got)
  /\ Part("range") \in DOMAIN got =>
       /\ Part("resolve") \in DOMAIN got
       /\ got[Part("range")].lo \in Int /\ got[Part("range")].hi \in Int
       /\ got[Part("range")].hi <= NewestLedger(Contents[top])
  /\ \A i : <<"sample", i>> \in DOMAIN got =>
       /\ Part("range") \in DOMAIN got
       /\ i \in DOMAIN SampleLedgers(r, got[Part("range")]) =>
            got[<<"sample", i>>] = MetricAt(Contents[top], TokenRow(Contents[top], got), r.metric,
                                            SampleLedgers(r, got[Part("range")])[i])

Closed(r, n) == \A e \in r.end : e <= NewestLedger(Contents[n])

GotOk(r, got, n, top) ==
  /\ r.route = "tokens" => ListRead(r, got, n)
  /\ (r.route = "series" /\ Closed(r, n)) => SeriesRead(r, got, top)

LEMMA NothingRead ==
  ASSUME NEW r, NEW n, NEW top PROVE GotOk(r, <<>>, n, top)
  BY DEF GotOk, ListRead, SeriesRead

LEMMA PointsAre ==
  ASSUME NEW r \in Requests, r.route = "series"
  PROVE  Points(r) \in Nat /\ Points(r) >= 2
  <1>1. r.points \in Int
    BY RequestsAssumption
  <1> QED
    BY <1>1 DEF Points, Smaller, Larger

LEMMA SamplesAre ==
  ASSUME NEW r \in Requests, r.route = "series", NEW range, range.lo \in Int, range.hi \in Int
  PROVE  \E len \in Nat : /\ DOMAIN SampleLedgers(r, range) = 1..len
                          /\ \A i \in 1..len : /\ SampleLedgers(r, range)[i] \in Int
                                               /\ SampleLedgers(r, range)[i] <= range.hi
  <1>1. Points(r) \in Nat /\ Points(r) >= 2
    BY PointsAre
  <1>2. PICK lo, hi, points : lo = range.lo /\ hi = range.hi /\ points = Points(r)
    OBVIOUS
  <1>3. SampleLedgers(r, range) = SampleSequence(lo, hi, points)
    BY <1>2 DEF SampleLedgers
  <1>4. lo \in Int /\ hi \in Int /\ points \in Nat /\ points >= 2
    BY <1>1, <1>2
  <1>5. \E len \in Nat : /\ DOMAIN SampleSequence(lo, hi, points) = 1..len
                         /\ \A i \in 1..len : /\ SampleSequence(lo, hi, points)[i] \in Int
                                              /\ SampleSequence(lo, hi, points)[i] <= hi
    BY <1>4, SamplesBelow
  <1> QED
    BY <1>2, <1>3, <1>5

\* Ledgers that are indexed leave what was read as it is.
LEMMA SeriesLater ==
  ASSUME NEW r \in Requests, r.route = "series", NEW got,
         NEW m \in DOMAIN Contents, NEW k \in DOMAIN Contents, m <= k, SeriesRead(r, got, m)
  PROVE  SeriesRead(r, got, k)
  <1>1. NewestLedger(Contents[m]) \in Nat /\ NewestLedger(Contents[k]) \in Nat
        /\ NewestLedger(Contents[m]) <= NewestLedger(Contents[k])
    BY EndsAre, HistoryAssumption
  <1>2. r.metric = "price" \/ \A t \in Contents[m].tokens : r.metric \in DOMAIN t.points
    BY RequestsAssumption
  <1>3. Part("resolve") \in DOMAIN got => \E t \in Contents[k].tokens : t.id = Resolved(got)
    <2>1. \A t \in Contents[m].tokens : \E u \in Contents[k].tokens : u.id = t.id
      BY HistoryAssumption
    <2> QED
      BY <2>1 DEF SeriesRead
  <1>4. ASSUME Part("range") \in DOMAIN got
        PROVE  /\ Part("resolve") \in DOMAIN got
               /\ got[Part("range")].lo \in Int /\ got[Part("range")].hi \in Int
               /\ got[Part("range")].hi <= NewestLedger(Contents[k])
    BY <1>1, <1>4 DEF SeriesRead
  <1>5. ASSUME NEW i, <<"sample", i>> \in DOMAIN got
        PROVE  /\ Part("range") \in DOMAIN got
               /\ i \in DOMAIN SampleLedgers(r, got[Part("range")]) =>
                    got[<<"sample", i>>] = MetricAt(Contents[k], TokenRow(Contents[k], got), r.metric,
                                                    SampleLedgers(r, got[Part("range")])[i])
    <2>1. Part("range") \in DOMAIN got
      BY <1>5 DEF SeriesRead
    <2>2. ASSUME i \in DOMAIN SampleLedgers(r, got[Part("range")])
          PROVE  got[<<"sample", i>>] = MetricAt(Contents[k], TokenRow(Contents[k], got), r.metric,
                                                 SampleLedgers(r, got[Part("range")])[i])
      <3>1. PICK l : l = SampleLedgers(r, got[Part("range")])[i]
        OBVIOUS
      <3>2. /\ got[Part("range")].lo \in Int /\ got[Part("range")].hi \in Int
            /\ got[Part("range")].hi <= NewestLedger(Contents[m]) /\ Part("resolve") \in DOMAIN got
        BY <2>1 DEF SeriesRead
      <3>3. l \in Int /\ l <= NewestLedger(Contents[m])
        <4>1. PICK len \in Nat : /\ DOMAIN SampleLedgers(r, got[Part("range")]) = 1..len
                                 /\ \A j \in 1..len : /\ SampleLedgers(r, got[Part("range")])[j] \in Int
                                                      /\ SampleLedgers(r, got[Part("range")])[j]
                                                           <= got[Part("range")].hi
          BY <3>2, SamplesAre
        <4>2. l \in Int /\ l <= got[Part("range")].hi
          BY <2>2, <3>1, <4>1
        <4> QED
          BY <1>1, <3>2, <4>2
      <3>4. \E t \in Contents[m].tokens : t.id = Resolved(got)
        BY <3>2 DEF SeriesRead
      <3>5. MetricAt(Contents[k], TokenRow(Contents[k], got), r.metric, l)
              = MetricAt(Contents[m], TokenRow(Contents[m], got), r.metric, l)
        BY <1>2, <3>3, <3>4, MetricKept
      <3>6. got[<<"sample", i>>] = MetricAt(Contents[m], TokenRow(Contents[m], got), r.metric, l)
        BY <1>5, <2>2, <3>1 DEF SeriesRead
      <3> QED
        BY <3>1, <3>5, <3>6
    <2> QED
      BY <2>1, <2>2
  <1> QED
    BY <1>3, <1>4, <1>5, Zenon DEF SeriesRead

LEMMA GotLater ==
  ASSUME NEW r \in Requests, NEW got, NEW n,
         NEW m \in DOMAIN Contents, NEW k \in DOMAIN Contents, m <= k, GotOk(r, got, n, m)
  PROVE  GotOk(r, got, n, k)
  BY SeriesLater DEF GotOk

\* What one statement adds.
Added(got, p, v) == [q \in DOMAIN got \cup {p} |-> IF q = p THEN v ELSE got[q]]

LEMMA ListMore ==
  ASSUME NEW r, r.route = "tokens", NEW got, NEW n, NEW top, ListRead(r, got, n),
         NEW p \in NextParts(r, got), NEW v \in Read(Contents[top], r, p, got)
  PROVE  ListRead(r, Added(got, p, v), IF got = <<>> THEN top ELSE n)
  <1>1. p = Part("rows") /\ p \notin DOMAIN got
    BY TokensNext
  <1>2. got = <<>>
    BY <1>1 DEF ListRead
  <1>3. DOMAIN got = {}
    BY <1>2
  <1>4. Read(Contents[top], r, Part("rows"), got) = ListTokens(Contents[top], r.q)
    BY DEF Read, Part
  <1>5. DOMAIN Added(got, p, v) = {p} /\ Added(got, p, v)[p] = v
    BY <1>3 DEF Added
  <1> QED
    BY <1>1, <1>2, <1>4, <1>5 DEF ListRead

LEMMA SeriesMore ==
  ASSUME NEW r \in Requests, r.route = "series", NEW got, NEW top \in DOMAIN Contents,
         SeriesRead(r, got, top), Closed(r, top),
         NEW p \in NextParts(r, got), NEW v \in Read(Contents[top], r, p, got)
  PROVE  SeriesRead(r, Added(got, p, v), top)
  <1>1. PICK more : more = Added(got, p, v)
    OBVIOUS
  <1>2. /\ DOMAIN more = DOMAIN got \cup {p} /\ more[p] = v
        /\ \A q \in DOMAIN got : q # p => more[q] = got[q]
    BY <1>1 DEF Added
  <1>3. /\ Part("resolve") # Part("range") /\ \A i : <<"sample", i>> # Part("resolve") /\ <<"sample", i>> # Part("range")
        /\ \A i, j : <<"sample", i>> = <<"sample", j>> => i = j
    BY DEF Part
  <1>4. p \notin DOMAIN got
    BY DEF NextParts
  <1>8. PICK len \in Nat : Part("range") \in DOMAIN got => DOMAIN SampleLedgers(r, got[Part("range")]) = 1..len
    <2>1. CASE Part("range") \in DOMAIN got
      <3>1. got[Part("range")].lo \in Int /\ got[Part("range")].hi \in Int
        BY <2>1 DEF SeriesRead
      <3> QED
        BY <3>1, SamplesAre
    <2>2. CASE Part("range") \notin DOMAIN got
      BY <2>2
    <2> QED
      BY <2>1, <2>2
  <1>9. \/ p = Part("resolve")
        \/ p = Part("range") /\ Part("resolve") \in DOMAIN got
        \/ /\ Part("resolve") \in DOMAIN got /\ Part("range") \in DOMAIN got
           /\ \E i \in 1..len : p = <<"sample", i>>
    BY <1>8, SeriesNext
  <1>5. CASE p = Part("resolve")
    <2>1. Part("range") \notin DOMAIN more /\ \A i : <<"sample", i>> \notin DOMAIN more
      BY <1>2, <1>3, <1>4, <1>5 DEF SeriesRead
    <2>2. v \in Resolve(Contents[top], r)
      BY <1>5 DEF Read, Part
    <2>3. \E t \in Contents[top].tokens : t.id = v
      BY <2>2 DEF Resolve, ResolveIou
    <2>4. Resolved(more) = v
      BY <1>2, <1>5 DEF Resolved
    <2> QED
      BY <1>1, <2>1, <2>3, <2>4 DEF SeriesRead
  <1>6. CASE p = Part("range")
    <2>1. Part("resolve") \in DOMAIN got /\ \A i : <<"sample", i>> \notin DOMAIN got
      <3>1. \A i : <<"sample", i>> \notin DOMAIN got
        BY <1>4, <1>6 DEF SeriesRead
      <3>2. Part("resolve") \in DOMAIN got
        BY <1>3, <1>6, <1>9
      <3> QED
        BY <3>1, <3>2
    <2>2. v = SeriesRange(Contents[top], r)
      BY <1>6 DEF Read, Part
    <2>3. v.lo \in Int /\ v.hi \in Int /\ v.hi <= NewestLedger(Contents[top])
      <3>1. r.start \subseteq Int /\ r.end \subseteq Int
        BY RequestsAssumption
      <3>2. OldestLedger(Contents[top]) \in Nat /\ NewestLedger(Contents[top]) \in Nat
        BY EndsAre
      <3> QED
        BY <2>2, <3>1, <3>2 DEF SeriesRange, Closed
    <2>4. /\ Part("resolve") \in DOMAIN more /\ Resolved(more) = Resolved(got)
          /\ \A i : <<"sample", i>> \notin DOMAIN more
          /\ more[Part("range")] = v
      BY <1>2, <1>3, <1>6, <2>1 DEF Resolved
    <2>5. \E t \in Contents[top].tokens : t.id = Resolved(more)
      BY <2>1, <2>4 DEF SeriesRead
    <2> QED
      BY <1>1, <2>3, <2>4, <2>5 DEF SeriesRead
  <1>7. ASSUME NEW j, p = <<"sample", j>>, Part("range") \in DOMAIN got, Part("resolve") \in DOMAIN got
        PROVE  SeriesRead(r, more, top)
    <2>1. v = MetricAt(Contents[top], TokenRow(Contents[top], got), r.metric,
                       SampleLedgers(r, got[Part("range")])[j])
      BY <1>7 DEF Read, Sample
    <2>2. /\ Part("resolve") \in DOMAIN more /\ Part("range") \in DOMAIN more
          /\ Resolved(more) = Resolved(got) /\ more[Part("range")] = got[Part("range")]
      BY <1>2, <1>3, <1>7 DEF Resolved
    <2>3. TokenRow(Contents[top], more) = TokenRow(Contents[top], got)
      BY <2>2, Zenon DEF TokenRow
    <2>4. ASSUME NEW i, <<"sample", i>> \in DOMAIN more, i \in DOMAIN SampleLedgers(r, more[Part("range")])
          PROVE  more[<<"sample", i>>] = MetricAt(Contents[top], TokenRow(Contents[top], more), r.metric,
                                                  SampleLedgers(r, more[Part("range")])[i])
      <3>1. CASE i = j
        BY <1>2, <1>7, <2>1, <2>2, <2>3, <3>1
      <3>2. CASE i # j
        <4>1. <<"sample", i>> \in DOMAIN got /\ more[<<"sample", i>>] = got[<<"sample", i>>]
          BY <1>2, <1>3, <1>7, <2>4, <3>2
        <4>2. got[<<"sample", i>>] = MetricAt(Contents[top], TokenRow(Contents[top], got), r.metric,
                                              SampleLedgers(r, got[Part("range")])[i])
          BY <2>2, <2>4, <4>1 DEF SeriesRead
        <4> QED
          BY <2>2, <2>3, <4>1, <4>2
      <3> QED
        BY <3>1, <3>2
    <2>5. /\ \E t \in Contents[top].tokens : t.id = Resolved(more)
          /\ more[Part("range")].lo \in Int /\ more[Part("range")].hi \in Int
          /\ more[Part("range")].hi <= NewestLedger(Contents[top])
      BY <1>7, <2>2 DEF SeriesRead
    <2> QED
      BY <2>2, <2>4, <2>5, Zenon DEF SeriesRead
  <1> QED
    BY <1>1, <1>5, <1>6, <1>7, <1>9

\* A statement reads what fits what was read before it.
LEMMA GotMore ==
  ASSUME NEW r \in Requests, NEW got, NEW n \in DOMAIN Contents, NEW top \in DOMAIN Contents, n <= top,
         GotOk(r, got, n, top), NEW p \in NextParts(r, got), NEW v \in Read(Contents[top], r, p, got),
         NEW m, m = IF got = <<>> THEN top ELSE n
  PROVE  GotOk(r, Added(got, p, v), m, top)
  <1>1. CASE r.route = "tokens"
    <2>1. ListRead(r, Added(got, p, v), m)
      BY <1>1, ListMore DEF GotOk
    <2> QED
      BY <1>1, <2>1 DEF GotOk
  <1>2. ASSUME r.route = "series", Closed(r, m) PROVE SeriesRead(r, Added(got, p, v), top)
    <2>1. SeriesRead(r, got, top)
      <3>1. CASE got = <<>>
        BY <3>1 DEF SeriesRead
      <3>2. CASE got # <<>>
        BY <1>2, <3>2 DEF GotOk
      <3> QED
        BY <3>1, <3>2
    <2>2. Closed(r, top)
      <3>1. NewestLedger(Contents[m]) \in Nat /\ NewestLedger(Contents[top]) \in Nat /\ r.end \subseteq Int
            /\ NewestLedger(Contents[m]) <= NewestLedger(Contents[top])
        BY <1>2, EndsAre, RequestsAssumption, HistoryAssumption, ContentsAssumption
      <3> QED
        BY <1>2, <3>1 DEF Closed
    <2> QED
      BY <1>2, <2>1, <2>2, SeriesMore
  <1> QED
    BY <1>1, <1>2 DEF GotOk

\* When the handler has read all, a list has its page and a series all its samples.
AllRead(r, got, n, top) == GotOk(r, got, n, top) /\ NextParts(r, got) = {}

LEMMA ListIsRead ==
  ASSUME NEW r, r.route = "tokens", NEW got, NEW n, NEW top, AllRead(r, got, n, top)
  PROVE  got[Part("rows")] \in ListTokens(Contents[n], r.q)
  <1>1. Part("rows") \in DOMAIN got
    BY TokensNext DEF AllRead
  <1>2. got # <<>>
    BY <1>1
  <1> QED
    BY <1>2 DEF AllRead, GotOk, ListRead

LEMMA SeriesIsRead ==
  ASSUME NEW r \in Requests, r.route = "series", NEW got, NEW n, NEW top,
         AllRead(r, got, n, top), Closed(r, n),
         NEW i \in DOMAIN SampleLedgers(r, got[Part("range")])
  PROVE  got[<<"sample", i>>] = MetricAt(Contents[top], TokenRow(Contents[top], got), r.metric,
                                         SampleLedgers(r, got[Part("range")])[i])
  <1>1. SeriesRead(r, got, top) /\ NextParts(r, got) = {}
    BY DEF AllRead, GotOk
  <1>2. PICK len \in Nat : Part("range") \in DOMAIN got => DOMAIN SampleLedgers(r, got[Part("range")]) = 1..len
    <2>1. CASE Part("range") \in DOMAIN got
      <3>1. got[Part("range")].lo \in Int /\ got[Part("range")].hi \in Int
        BY <1>1, <2>1 DEF SeriesRead
      <3> QED
        BY <3>1, SamplesAre
    <2>2. CASE Part("range") \notin DOMAIN got
      BY <2>2
    <2> QED
      BY <2>1, <2>2
  <1>3. Part("range") \in DOMAIN got /\ \A j \in 1..len : <<"sample", j>> \in DOMAIN got
    BY <1>1, <1>2, SeriesNext
  <1>4. <<"sample", i>> \in DOMAIN got
    BY <1>2, <1>3
  <1> QED
    BY <1>1, <1>4 DEF SeriesRead

-----------------------------------------------------------------------------
(* The cache. *)

EntryOk(e, time, top) ==
  /\ e.req \in Requests /\ e.value.seq \in 1..top /\ AllRead(e.req, e.value.got, e.value.seq, top)
  /\ e.value.since \in Nat /\ e.value.since <= time
  /\ e.expires \in Int /\ e.expires <= e.value.since + TtlOf(e.req) + MaxQuery

\* No entry lives longer than its lifetime and the time its statements may take.
CacheOk(s, time, top) ==
  s \in Seq(ToSet(s)) /\ \A e \in ToSet(s) : EntryOk(e, time, top)

LEMMA TtlNat ==
  ASSUME NEW r PROVE TtlOf(r) \in Nat
  BY TimesAssumption DEF TtlOf

\* A sequence of good entries.
LEMMA CacheOf ==
  ASSUME NEW R, NEW s \in Seq(R), NEW time, NEW top, \A e \in R : EntryOk(e, time, top)
  PROVE  CacheOk(s, time, top)
  <1>1. Len(s) \in Nat /\ s = [i \in 1..Len(s) |-> s[i]] /\ \A i \in 1..Len(s) : s[i] \in R
    OBVIOUS
  <1>2. ToSet(s) = {s[i] : i \in 1..Len(s)}
    BY <1>1 DEF ToSet
  <1>3. s \in Seq(ToSet(s))
    BY <1>1, <1>2
  <1>4. \A e \in ToSet(s) : e \in R
    BY <1>1, <1>2
  <1> QED
    BY <1>3, <1>4 DEF CacheOk

\* What is left when the entries of a request are taken out, and that it is less.
LEMMA OthersAre ==
  ASSUME NEW r, NEW time, NEW top, CacheOk(cache, time, top)
  PROVE  /\ CacheOk(Others(r), time, top) /\ Others(r) \in Seq(ToSet(cache))
         /\ Len(Others(r)) <= Len(cache)
         /\ Entries(r) # {} => Len(Others(r)) < Len(cache)
         /\ Entries(r) \subseteq ToSet(cache)
         /\ \A e \in Entries(r) : e.req = r
  <1> DEFINE R == ToSet(cache)
             S == {e \in R : e.req # r}
  <1>1. cache \in Seq(R) /\ Len(cache) \in Nat /\ DOMAIN cache = 1..Len(cache)
    BY DEF CacheOk
  <1>2. Others(r) = Filtered(cache, S)
    BY DEF Others
  <1>3. \A i \in DOMAIN cache : cache[i] \in R
    BY DEF ToSet
  <1>4. Entries(r) \subseteq R /\ \A e \in Entries(r) : e.req = r
    BY <1>3 DEF Entries
  <1>5. Entries(r) # {} => \E i \in 1..Len(cache) : cache[i] \notin S
    BY <1>1 DEF Entries
  <1>6. \A e \in R : EntryOk(e, time, top)
    BY DEF CacheOk
  <1> HIDE DEF R, S
  <1>7. /\ Filtered(cache, S) \in Seq(R \cap S) /\ Len(Filtered(cache, S)) <= Len(cache)
        /\ (\E i \in 1..Len(cache) : cache[i] \notin S) => Len(Filtered(cache, S)) < Len(cache)
    BY <1>1, FilteredIs
  <1>8. Filtered(cache, S) \in Seq(R)
    BY <1>7
  <1>9. CacheOk(Filtered(cache, S), time, top)
    BY <1>6, <1>8, CacheOf
  <1> QED
    BY <1>2, <1>4, <1>5, <1>7, <1>8, <1>9 DEF R

\* The cache with one entry more at its end.
LEMMA EntryAdded ==
  ASSUME NEW R, NEW s \in Seq(R), NEW e, NEW time, NEW top, \A d \in R : EntryOk(d, time, top), EntryOk(e, time, top)
  PROVE  CacheOk(Append(s, e), time, top) /\ Len(Append(s, e)) = Len(s) + 1
  <1>1. PICK T : T = R \cup {e}
    OBVIOUS
  <1>2. e \in T /\ \A d \in T : EntryOk(d, time, top)
    BY <1>1
  <1>3. s \in Seq(T)
    <2>1. Len(s) \in Nat /\ s = [i \in 1..Len(s) |-> s[i]] /\ \A i \in 1..Len(s) : s[i] \in R
      OBVIOUS
    <2> QED
      BY <1>1, <2>1
  <1>4. Append(s, e) \in Seq(T) /\ Len(Append(s, e)) = Len(s) + 1
    BY <1>2, <1>3, AppendProperties
  <1> QED
    BY <1>2, <1>4, CacheOf

\* What an answer stores.
LEMMA StoredIs ==
  ASSUME NEW e, NEW time, NEW top, CacheOk(cache, time, top), EntryOk(e, time, top), Len(cache) <= MaxEntries
  PROVE  CacheOk(Stored(e), time, top) /\ Len(Stored(e)) <= MaxEntries
  <1> DEFINE R == ToSet(cache)
             kept == IF Len(cache) >= MaxEntries THEN Tail(cache) ELSE cache
             Same(d) == d.req = e.req
             replaced == [i \in DOMAIN kept |-> IF Same(kept[i]) THEN e ELSE kept[i]]
  <1>1. cache \in Seq(R) /\ Len(cache) \in Nat
    BY DEF CacheOk
  <1>2. \A d \in R : EntryOk(d, time, top)
    BY DEF CacheOk
  <1>3. kept \in Seq(R) /\ Len(kept) \in Nat /\ Len(kept) <= MaxEntries - 1
    <2>1. CASE Len(cache) >= MaxEntries
      <3>1. cache # <<>>
        BY <1>1, <2>1, TimesAssumption
      <3> HIDE DEF R
      <3>2. Tail(cache) \in Seq(R) /\ Len(Tail(cache)) = Len(cache) - 1
        BY <1>1, <3>1, HeadTailProperties
      <3> QED
        BY <1>1, <2>1, <3>2, TimesAssumption
    <2>2. CASE ~(Len(cache) >= MaxEntries)
      BY <1>1, <2>2, TimesAssumption
    <2> QED
      BY <2>1, <2>2
  <1>4. Stored(e) = IF \E i \in DOMAIN kept : Same(kept[i]) THEN replaced ELSE Append(kept, e)
    BY DEF Stored
  <1> HIDE DEF R, kept
  <1>5. DOMAIN kept = 1..Len(kept) /\ \A i \in 1..Len(kept) : kept[i] \in R
    BY <1>3
  <1>6. CacheOk(replaced, time, top) /\ Len(replaced) <= MaxEntries
    <2>1. PICK T : T = R \cup {e}
      OBVIOUS
    <2>2. \A d \in T : EntryOk(d, time, top)
      BY <1>2, <2>1
    <2>3. replaced = [i \in 1..Len(kept) |-> IF Same(kept[i]) THEN e ELSE kept[i]]
      BY <1>5
    <2>4. \A i \in 1..Len(kept) : (IF Same(kept[i]) THEN e ELSE kept[i]) \in T
      BY <1>5, <2>1
    <2>5. replaced \in Seq(T) /\ Len(replaced) = Len(kept)
      BY <1>3, <2>3, <2>4
    <2> HIDE DEF replaced
    <2> QED
      BY <1>3, <2>2, <2>5, CacheOf, TimesAssumption
  <1>7. CacheOk(Append(kept, e), time, top) /\ Len(Append(kept, e)) <= MaxEntries
    BY <1>2, <1>3, EntryAdded, TimesAssumption
  <1> HIDE DEF replaced
  <1> QED
    BY <1>4, <1>6, <1>7

\* Time passes, and a ledger may be indexed.
LEMMA ReadLater ==
  ASSUME NEW r \in Requests, NEW got, NEW m \in DOMAIN Contents, NEW k \in DOMAIN Contents, m <= k,
         NEW n \in 1..m
  PROVE  /\ n \in 1..k
         /\ GotOk(r, got, n, m) => GotOk(r, got, n, k)
         /\ AllRead(r, got, n, m) => AllRead(r, got, n, k)
  <1>1. n \in 1..k
    BY ContentsAssumption
  <1>2. GotOk(r, got, n, m) => GotOk(r, got, n, k)
    BY GotLater
  <1> QED
    BY <1>1, <1>2 DEF AllRead

LEMMA CacheLater ==
  ASSUME NEW s, NEW t \in Nat, NEW m \in DOMAIN Contents, NEW k \in DOMAIN Contents, m <= k, CacheOk(s, t, m)
  PROVE  CacheOk(s, t + 1, k)
  <1>1. ASSUME NEW e \in ToSet(s) PROVE EntryOk(e, t + 1, k)
    <2>1. EntryOk(e, t, m)
      BY DEF CacheOk
    <2>2. e.value.seq \in 1..k /\ AllRead(e.req, e.value.got, e.value.seq, k)
      BY <2>1, ReadLater DEF EntryOk
    <2> QED
      BY <2>1, <2>2 DEF EntryOk
  <1> QED
    BY <1>1 DEF CacheOk

-----------------------------------------------------------------------------
(* The inductive invariant. *)

\* What waiting for the Retry-After of a refusal leaves of the hits it was given for.
WaitOk(v) ==
  LET Left == {j \in DOMAIN v.ages : v.ages[j] + v.retry * Sec < Window}
  IN (v.phase = "done" /\ v.status = 429 /\ v.limit > 0 /\ Len(v.ages) <= v.limit)
       => Cardinality(Left) < v.limit

CallOk(v, time, top) ==
  /\ v.phase = "check" => v.req \in Requests /\ v.key \in Keys /\ v.row.limit \in Int
  /\ v.phase = "work" =>
       /\ v = [phase |-> "work", req |-> v.req, since |-> v.since, seq |-> v.seq, got |-> v.got]
       /\ v.since \in Nat /\ v.since <= time /\ time <= v.since + MaxQuery
       /\ v.req \in Requests /\ v.seq \in 1..top /\ GotOk(v.req, v.got, v.seq, top)
  /\ (v.phase = "done" /\ v.status = 200) =>
       /\ v.age <= TtlOf(v.req) + MaxQuery
       /\ v.req \in Requests /\ v.seq \in 1..top /\ AllRead(v.req, v.got, v.seq, top)
  /\ WaitOk(v)

CallsInv == calls = [c \in Calls |-> calls[c]] /\ \A c \in Calls : CallOk(calls[c], now, seq)

RowSet == [limit : Int, scopes : {{}} \cup {r.scopes : r \in KeyRows}, valid : BOOLEAN]

KeysInv == keys \in [Keys -> RowSet]

HitsInv ==
  /\ windows = [k \in Keys |-> windows[k]] /\ admitted = [k \in Keys |-> admitted[k]]
  /\ \A k \in Keys : HitsOk(windows[k], admitted[k], now) /\ WithinLimits(admitted[k])

CacheInv == CacheOk(cache, now, seq) /\ Len(cache) <= MaxEntries

CountsInv ==
  /\ now \in 0..MaxTime /\ seq \in 1..Len(Contents)
  /\ arrived \in 0..MaxCalls /\ changed \in 0..MaxAdmin

IndInv == CountsInv /\ KeysInv /\ HitsInv /\ CacheInv /\ CallsInv

LEMMA InitInv == Init => IndInv
  <1> SUFFICES ASSUME Init PROVE IndInv
    OBVIOUS
  <1>1. CountsInv
    BY TimesAssumption, ContentsAssumption DEF Init, CountsInv
  <1>2. KeysInv
    <2>1. NoRow \in RowSet
      BY DEF NoRow, RowSet
    <2>2. \A r \in KeyRows : KeyRow(r) \in RowSet
      BY RowsAssumption DEF KeyRow, RowSet
    <2>3. {NoRow} \cup {KeyRow(r) : r \in KeyRows} \subseteq RowSet
      BY <2>1, <2>2, Zenon
    <2>4. keys \in [Keys -> {NoRow} \cup {KeyRow(r) : r \in KeyRows}]
      BY DEF Init
    <2> QED
      BY <2>3, <2>4 DEF KeysInv
  <1>3. HitsInv
    <2>1. windows = [k \in Keys |-> <<>>] /\ admitted = [k \in Keys |-> <<>>] /\ now = 0
      BY DEF Init
    <2>2. HitsOk(<<>>, <<>>, 0) /\ WithinLimits(<<>>)
      BY DEF HitsOk, WithinLimits
    <2> QED
      BY <2>1, <2>2 DEF HitsInv
  <1>4. CacheInv
    <2>1. PICK R, s : R = {} /\ s = <<>>
      OBVIOUS
    <2>2. CacheOk(<<>>, 0, 1)
      <3>1. s \in Seq(R) /\ \A e \in R : EntryOk(e, 0, 1)
        BY <2>1
      <3>2. CacheOk(s, 0, 1)
        BY <3>1, CacheOf
      <3> QED
        BY <2>1, <3>2
    <2>3. Len(<<>>) = 0
      OBVIOUS
    <2> QED
      BY <2>2, <2>3, TimesAssumption DEF Init, CacheInv
  <1>5. CallsInv
    <2>1. CallOk(Idle, 0, 1)
      BY DEF CallOk, WaitOk, Idle
    <2> QED
      BY <2>1 DEF Init, CallsInv
  <1> QED
    BY <1>1, <1>2, <1>3, <1>4, <1>5 DEF IndInv

\* One call moves on.
LEMMA CallMoves ==
  ASSUME CallsInv, NEW c \in Calls, NEW v, CallOk(v, now, seq), calls' = [calls EXCEPT ![c] = v], now' = now, seq' = seq
  PROVE  CallsInv'
  <1>1. \A d \in Calls : calls'[d] = IF d = c THEN v ELSE calls[d]
    BY DEF CallsInv
  <1>2. calls' = [d \in Calls |-> calls'[d]]
    BY DEF CallsInv
  <1>3. \A d \in Calls : CallOk(calls'[d], now', seq')
    BY <1>1 DEF CallsInv
  <1> QED
    BY <1>2, <1>3 DEF CallsInv

\* A call that failed, but for a refusal.
LEMMA FailedOk ==
  ASSUME NEW status \in {401, 403, 404, 500}, NEW time, NEW top
  PROVE  CallOk([phase |-> "done", status |-> status], time, top)
  BY DEF CallOk, WaitOk

LEMMA CallFails ==
  ASSUME CallsInv, NEW c \in Calls, NEW status \in {401, 403, 404, 500}, Fails(c, status), now' = now, seq' = seq
  PROVE  CallsInv'
  <1> DEFINE v == [phase |-> "done", status |-> status]
  <1>2. CallOk(v, now, seq)
    BY FailedOk
  <1>3. calls' = [calls EXCEPT ![c] = v]
    BY DEF Fails
  <1> HIDE DEF v
  <1> QED
    BY <1>2, <1>3, CallMoves

\* The parts of the invariant that a step does not touch.
LEMMA SameHits ==
  ASSUME HitsInv, UNCHANGED <<now, windows, admitted>> PROVE HitsInv'
  BY DEF HitsInv, HitsOk, WithinLimits

LEMMA SameCache ==
  ASSUME CacheInv, UNCHANGED <<now, seq, cache>> PROVE CacheInv'
  BY DEF CacheInv, CacheOk, EntryOk

LEMMA SameCalls ==
  ASSUME CallsInv, UNCHANGED <<now, seq, calls>> PROVE CallsInv'
  BY DEF CallsInv, CallOk, WaitOk

\* An answer that was read since a time is as old as that.
LEMMA AnswerOk ==
  ASSUME now \in Nat, NEW r \in Requests, NEW got, NEW n \in 1..seq, AllRead(r, got, n, seq),
         NEW since \in Nat, now <= since + TtlOf(r) + MaxQuery
  PROVE  CallOk([phase |-> "done", status |-> 200, req |-> r, got |-> got, seq |-> n,
                 age |-> now - since], now, seq)
  BY TtlNat, TimesAssumption DEF CallOk, WaitOk

-----------------------------------------------------------------------------
(* One lemma for each operation. *)

LEMMA SetKeyInv ==
  ASSUME IndInv, NEW k \in Keys, NEW row \in RowSet, SetKey(k, row)
  PROVE  IndInv'
  <1>1. CountsInv'
    BY TimesAssumption DEF IndInv, CountsInv, SetKey
  <1>2. KeysInv'
    BY DEF IndInv, KeysInv, SetKey
  <1>3. UNCHANGED <<now, seq, windows, admitted, cache, calls>>
    BY DEF SetKey, processVars
  <1>4. HitsInv' /\ CacheInv' /\ CallsInv'
    BY <1>3, SameHits, SameCache, SameCalls DEF IndInv
  <1> QED
    BY <1>1, <1>2, <1>4 DEF IndInv

LEMMA AdminInv ==
  ASSUME IndInv, NEW k \in Keys, CreateKey(k) \/ RevokeKey(k) \/ PatchKey(k)
  PROVE  IndInv'
  <1>1. keys[k] \in RowSet
    BY DEF IndInv, KeysInv
  <1>2. \A r \in KeyRows : KeyRow(r) \in RowSet
    BY RowsAssumption DEF KeyRow, RowSet
  <1>3. [keys[k] EXCEPT !.valid = FALSE] \in RowSet
    BY <1>1 DEF RowSet
  <1>4. \A r \in KeyRows : [keys[k] EXCEPT !.limit = r.limit, !.scopes = r.scopes] \in RowSet
    BY <1>1, RowsAssumption DEF RowSet
  <1>5. \E row \in RowSet : SetKey(k, row)
    <2>1. CASE CreateKey(k)
      BY <1>2, <2>1 DEF CreateKey
    <2>2. CASE RevokeKey(k)
      BY <1>3, <2>2 DEF RevokeKey
    <2>3. CASE PatchKey(k)
      BY <1>4, <2>3 DEF PatchKey
    <2> QED
      BY <2>1, <2>2, <2>3
  <1> QED
    BY <1>5, SetKeyInv

LEMMA VerifyInv ==
  ASSUME IndInv, NEW c \in Calls, Verify(c)
  PROVE  IndInv'
  <1>1. CountsInv'
    BY TimesAssumption DEF IndInv, CountsInv, Verify, keyVars
  <1>2. UNCHANGED <<now, seq, keys, windows, admitted, cache>>
    BY DEF Verify, keyVars, processVars
  <1>3. KeysInv' /\ HitsInv' /\ CacheInv'
    BY <1>2, SameHits, SameCache DEF IndInv, KeysInv
  <1>4. CallsInv'
    <2>1. PICK r \in Requests, k \in Keys :
            IF ~keys[k].valid THEN Fails(c, 401)
            ELSE calls' = [calls EXCEPT ![c] = [phase |-> "check", req |-> r, key |-> k, row |-> keys[k]]]
      BY DEF Verify
    <2>2. CASE ~keys[k].valid
      BY <1>2, <2>1, <2>2, CallFails DEF IndInv
    <2>3. CASE keys[k].valid
      <3>1. PICK v : v = [phase |-> "check", req |-> r, key |-> k, row |-> keys[k]]
        OBVIOUS
      <3>2. CallOk(v, now, seq)
        <4>1. keys[k].limit \in Int
          BY DEF IndInv, KeysInv, RowSet
        <4> QED
          BY <3>1, <4>1 DEF CallOk, WaitOk
      <3>3. calls' = [calls EXCEPT ![c] = v]
        BY <2>1, <2>3, <3>1
      <3> QED
        BY <1>2, <3>2, <3>3, CallMoves DEF IndInv
    <2> QED
      BY <2>2, <2>3
  <1> QED
    BY <1>1, <1>3, <1>4 DEF IndInv

\* The facts of a call whose key is verified.
LEMMA Checked ==
  ASSUME IndInv, NEW c \in Calls, calls[c].phase = "check"
  PROVE  /\ now \in Nat /\ calls[c].req \in Requests /\ calls[c].key \in Keys /\ calls[c].row.limit \in Int
         /\ HitsOk(windows[calls[c].key], admitted[calls[c].key], now)
         /\ WithinLimits(admitted[calls[c].key])
  BY DEF IndInv, CountsInv, CallsInv, CallOk, HitsInv

LEMMA RefuseInv ==
  ASSUME IndInv, NEW c \in Calls, Refuse(c)
  PROVE  IndInv'
  <1>1. UNCHANGED <<now, seq, keys, changed, windows, admitted, cache, arrived>>
    BY DEF Refuse, keyVars, processVars
  <1>2. CountsInv' /\ KeysInv' /\ HitsInv' /\ CacheInv'
    BY <1>1, SameHits, SameCache DEF IndInv, CountsInv, KeysInv
  <1>3. CallsInv'
    <2>1. PICK k, limit, w, a : k = calls[c].key /\ limit = calls[c].row.limit /\ w = windows[k] /\ a = admitted[k]
      OBVIOUS
    <2>2. now \in Nat /\ limit \in Int /\ HitsOk(w, a, now)
      BY <2>1, Checked DEF Refuse
    <2>3. PICK hits : hits = Recent(w)
      OBVIOUS
    <2> DEFINE ages == [j \in DOMAIN hits |-> now - hits[j]]
               v == [phase |-> "done", status |-> 429, retry |-> RetryAfter(hits), limit |-> limit, ages |-> ages]
    <2>4. Len(hits) >= limit /\ calls' = [calls EXCEPT ![c] = v]
      BY <2>1, <2>3 DEF Refuse
    <2>45. Len(hits) >= limit
      BY <2>4
    <2>5. hits \in Seq(Nat)
      BY <2>2, <2>3, RecentAre DEF YoungFrom
    <2>6. DOMAIN ages = 1..Len(hits) /\ Len(ages) = Len(hits) /\ Len(hits) \in Nat
      BY <2>5
    <2>7. \A j \in 1..Len(hits) : ages[j] = now - hits[j]
      BY <2>5
    <2> HIDE DEF ages
    <2>8. WaitOk(v)
      <3> SUFFICES ASSUME limit > 0, Len(ages) <= limit
                   PROVE  Cardinality({j \in DOMAIN ages : ages[j] + RetryAfter(hits) * Sec < Window}) < limit
        BY DEF WaitOk
      <3>0. Len(ages) = Len(hits) /\ Len(hits) \in Nat /\ limit \in Int
        BY <2>2, <2>6
      <3>01. Len(hits) <= limit
        BY <3>0
      <3>1. Len(hits) = limit
        BY <2>45, <3>0, <3>01
      <3>2. Cardinality({j \in 1..Len(hits) : (now - hits[j]) + RetryAfter(hits) * Sec < Window}) < limit
        BY <2>2, <2>3, <3>1, SlotWhenTold
      <3>3. {j \in DOMAIN ages : ages[j] + RetryAfter(hits) * Sec < Window}
            = {j \in 1..Len(hits) : (now - hits[j]) + RetryAfter(hits) * Sec < Window}
        BY <2>6, <2>7
      <3> QED
        BY <3>2, <3>3
    <2>9. v.phase = "done" /\ v.status = 429
      OBVIOUS
    <2> HIDE DEF v
    <2>10. CallOk(v, now, seq)
      BY <2>8, <2>9 DEF CallOk
    <2> QED
      BY <1>1, <2>4, <2>10, CallMoves DEF IndInv
  <1> QED
    BY <1>2, <1>3 DEF IndInv

\* An admitted request: its hit is the newest of its key's window and history.
LEMMA AdmitHits ==
  ASSUME IndInv, NEW c \in Calls, Admit(c)
  PROVE  HitsInv'
  <1>1. PICK k, limit, w, a : k = calls[c].key /\ limit = calls[c].row.limit /\ w = windows[k] /\ a = admitted[k]
    OBVIOUS
  <1>2. now \in Nat /\ k \in Keys /\ limit \in Int /\ HitsOk(w, a, now) /\ WithinLimits(a)
    BY <1>1, Checked DEF Admit
  <1> DEFINE kept == Append(Recent(w), now)
             more == Append(a, [at |-> now, limit |-> limit])
  <1>3. /\ Len(Recent(w)) < limit /\ now' = now
        /\ windows' = [windows EXCEPT ![k] = kept]
        /\ admitted' = [admitted EXCEPT ![k] = more]
    BY <1>1 DEF Admit
  <1>4. HitsOk(kept, more, now)
    BY <1>2, <1>3, HitAdded
  <1>5. WithinLimits(more)
    BY <1>2, <1>3, LimitsKept
  <1> HIDE DEF kept, more
  <1>6. windows = [d \in Keys |-> windows[d]] /\ admitted = [d \in Keys |-> admitted[d]]
        /\ \A d \in Keys : HitsOk(windows[d], admitted[d], now) /\ WithinLimits(admitted[d])
    BY DEF IndInv, HitsInv
  <1>7. windows' = [d \in Keys |-> windows'[d]] /\ admitted' = [d \in Keys |-> admitted'[d]]
    BY <1>3, <1>6
  <1>8. \A d \in Keys : /\ windows'[d] = IF d = k THEN kept ELSE windows[d]
                        /\ admitted'[d] = IF d = k THEN more ELSE admitted[d]
    BY <1>2, <1>3, <1>6
  <1>9. ASSUME NEW d \in Keys
        PROVE  HitsOk(windows'[d], admitted'[d], now') /\ WithinLimits(admitted'[d])
    <2>1. CASE d = k
      BY <1>3, <1>4, <1>5, <1>8, <2>1
    <2>2. CASE d # k
      BY <1>3, <1>6, <1>8, <2>2
    <2> QED
      BY <2>1, <2>2
  <1> QED
    BY <1>7, <1>9 DEF HitsInv

\* A cached answer is at most as old as its entry may live.
LEMMA HitOk ==
  ASSUME now \in Nat, NEW e, EntryOk(e, now, seq), e.expires >= now
  PROVE  CallOk([phase |-> "done", status |-> 200, req |-> e.req, got |-> e.value.got,
                 seq |-> e.value.seq, age |-> now - e.value.since], now, seq)
  <1>1. e.value.since \in Nat /\ now <= e.value.since + TtlOf(e.req) + MaxQuery
    BY TtlNat, TimesAssumption DEF EntryOk
  <1>2. e.req \in Requests /\ e.value.seq \in 1..seq /\ AllRead(e.req, e.value.got, e.value.seq, seq)
    BY DEF EntryOk
  <1> QED
    BY <1>1, <1>2, AnswerOk

LEMMA AdmitInv ==
  ASSUME IndInv, NEW c \in Calls, Admit(c)
  PROVE  IndInv'
  <1>1. HitsInv'
    BY AdmitHits
  <1>2. CountsInv' /\ KeysInv' /\ now' = now /\ seq' = seq
    BY DEF IndInv, CountsInv, KeysInv, Admit, keyVars
  <1>3. now \in Nat /\ CacheOk(cache, now, seq) /\ Len(cache) <= MaxEntries /\ Len(cache) \in Nat
    BY LenProperties DEF IndInv, CountsInv, CacheInv, CacheOk
  <1> DEFINE r == calls[c].req
  <1>4. /\ CacheOk(Others(r), now, seq) /\ Others(r) \in Seq(ToSet(cache)) /\ Len(Others(r)) <= Len(cache)
        /\ Entries(r) # {} => Len(Others(r)) < Len(cache)
        /\ Entries(r) \subseteq ToSet(cache) /\ \A e \in Entries(r) : e.req = r
    BY <1>3, OthersAre
  <1>5. Len(Others(r)) \in Nat
    BY <1>4, LenProperties
  <1>6. CASE Fails(c, 403) /\ cache' = cache
    <2>1. CallsInv'
      BY <1>2, <1>6, CallFails DEF IndInv
    <2>2. CacheInv'
      BY <1>2, <1>6, SameCache DEF IndInv
    <2> QED
      BY <1>1, <1>2, <2>1, <2>2 DEF IndInv
  <1>7. ASSUME NEW e \in Entries(r), e.expires >= now, Replies(c, e.value), cache' = Append(Others(r), Hit(e))
        PROVE  IndInv'
    <2>1. e.req = r /\ EntryOk(e, now, seq)
      BY <1>3, <1>4, <1>7 DEF CacheOk
    <2> DEFINE v == [phase |-> "done", status |-> 200, req |-> e.req, got |-> e.value.got,
                     seq |-> e.value.seq, age |-> now - e.value.since]
    <2>2. CallOk(v, now, seq)
      BY <1>3, <1>7, <2>1, HitOk
    <2>3. calls' = [calls EXCEPT ![c] = v]
      BY <1>7, <2>1 DEF Replies
    <2> HIDE DEF v
    <2>4. CallsInv'
      BY <1>2, <2>2, <2>3, CallMoves DEF IndInv
    <2>5. \A d \in ToSet(cache) : EntryOk(d, now, seq)
      BY <1>3 DEF CacheOk
    <2>6. CacheOk(Append(Others(r), e), now, seq) /\ Len(Append(Others(r), e)) = Len(Others(r)) + 1
      BY <1>4, <2>1, <2>5, EntryAdded
    <2>7. CacheOk(Append(Others(r), e), now, seq) /\ Len(Append(Others(r), e)) <= MaxEntries
      BY <1>3, <1>4, <1>5, <1>7, <2>6, TimesAssumption
    <2>8. CacheInv'
      BY <1>2, <1>7, <2>7 DEF CacheInv, Hit
    <2> QED
      BY <1>1, <1>2, <2>4, <2>8 DEF IndInv
  <1>8. CASE /\ cache' = Others(r)
             /\ calls' = [calls EXCEPT ![c] = [phase |-> "work", req |-> r, since |-> now, seq |-> seq, got |-> <<>>]]
    <2>1. CacheInv'
      BY <1>2, <1>3, <1>4, <1>5, <1>8, TimesAssumption DEF CacheInv
    <2> DEFINE v == [phase |-> "work", req |-> r, since |-> now, seq |-> seq, got |-> <<>>]
    <2>2. CallOk(v, now, seq)
      <3>1. r \in Requests /\ seq \in 1..seq
        BY ContentsAssumption, Checked DEF Admit, IndInv, CountsInv
      <3> QED
        BY <1>3, <3>1, NothingRead, TimesAssumption DEF CallOk, WaitOk
    <2>3. calls' = [calls EXCEPT ![c] = v]
      BY <1>8
    <2> HIDE DEF v
    <2>4. CallsInv'
      BY <1>2, <2>2, <2>3, CallMoves DEF IndInv
    <2> QED
      BY <1>1, <1>2, <2>1, <2>4 DEF IndInv
  <1> QED
    BY <1>6, <1>7, <1>8 DEF Admit

\* The facts of a call whose handler runs.
LEMMA Working ==
  ASSUME IndInv, NEW c \in Calls, calls[c].phase = "work"
  PROVE  /\ now \in Nat /\ calls[c].since \in Nat /\ calls[c].since <= now /\ now <= calls[c].since + MaxQuery
         /\ calls[c].req \in Requests /\ seq \in DOMAIN Contents /\ calls[c].seq \in 1..seq
         /\ GotOk(calls[c].req, calls[c].got, calls[c].seq, seq)
         /\ calls[c] = [phase |-> "work", req |-> calls[c].req, since |-> calls[c].since,
                        seq |-> calls[c].seq, got |-> calls[c].got]
  BY ContentsAssumption DEF IndInv, CountsInv, CallsInv, CallOk

LEMMA StatementInv ==
  ASSUME IndInv, NEW c \in Calls, Statement(c)
  PROVE  IndInv'
  <1>1. UNCHANGED <<now, seq, keys, changed, windows, admitted, cache, arrived>>
    BY DEF Statement, keyVars, processVars
  <1>2. CountsInv' /\ KeysInv' /\ HitsInv' /\ CacheInv'
    BY <1>1, SameHits, SameCache DEF IndInv, CountsInv, KeysInv
  <1>3. CASE Fails(c, 404)
    BY <1>1, <1>2, <1>3, CallFails DEF IndInv
  <1>4. ASSUME NEW g, NEW s \in 1..seq, GotOk(calls[c].req, g, s, seq),
               calls' = [calls EXCEPT ![c].got = g, ![c].seq = s]
        PROVE  IndInv'
    <2>1. PICK old : old = calls[c]
      OBVIOUS
    <2>0. old.req \in Requests /\ GotOk(old.req, g, s, seq)
      BY <1>4, <2>1, Working DEF Statement
    <2>2. /\ now \in Nat /\ old.since \in Nat /\ old.since <= now /\ now <= old.since + MaxQuery
          /\ old = [phase |-> "work", req |-> old.req, since |-> old.since, seq |-> old.seq, got |-> old.got]
      BY <2>1, Working DEF Statement
    <2> DEFINE v == [phase |-> "work", req |-> old.req, since |-> old.since, seq |-> s, got |-> g]
    <2>3. [old EXCEPT !.got = g, !.seq = s] = v
      <3>1. PICK req, since, sq, got : req = old.req /\ since = old.since /\ sq = old.seq /\ got = old.got
        OBVIOUS
      <3>2. old = [phase |-> "work", req |-> req, since |-> since, seq |-> sq, got |-> got]
        BY <2>2, <3>1
      <3>3. [old EXCEPT !.got = g, !.seq = s] = [[old EXCEPT !.got = g] EXCEPT !.seq = s]
        BY <3>2
      <3>4. [old EXCEPT !.got = g] = [phase |-> "work", req |-> req, since |-> since, seq |-> sq, got |-> g]
        BY <3>2
      <3>5. PICK mid : mid = [old EXCEPT !.got = g]
        OBVIOUS
      <3>6. [mid EXCEPT !.seq = s] = [phase |-> "work", req |-> req, since |-> since, seq |-> s, got |-> g]
        <4>1. mid = [phase |-> "work", req |-> req, since |-> since, seq |-> sq, got |-> g]
          BY <3>4, <3>5
        <4> QED
          BY <4>1
      <3> QED
        BY <3>1, <3>3, <3>5, <3>6
    <2>4. CallOk(v, now, seq)
      BY <1>4, <2>0, <2>2 DEF CallOk, WaitOk
    <2> HIDE DEF v
    <2>5. calls' = [calls EXCEPT ![c] = v]
      <3>1. calls = [d \in Calls |-> calls[d]]
        BY DEF IndInv, CallsInv
      <3>2. calls' = [d \in Calls |-> IF d = c THEN [old EXCEPT !.got = g, !.seq = s] ELSE calls[d]]
        BY <1>4, <2>1, <3>1
      <3> QED
        BY <2>3, <3>1, <3>2
    <2> QED
      BY <1>1, <1>2, <2>4, <2>5, CallMoves DEF IndInv
  <1>5. PICK p \in NextParts(calls[c].req, calls[c].got) :
          LET got == calls[c].got
              results == Read(Contents[seq], calls[c].req, p, got)
          IN \/ results = {} /\ Fails(c, 404)
             \/ \E v \in results :
                  calls' = [calls EXCEPT ![c].got = [q \in DOMAIN got \cup {p} |-> IF q = p THEN v ELSE got[q]],
                                         ![c].seq = IF got = <<>> THEN seq ELSE @]
    BY Zenon DEF Statement
  <1>6. ASSUME NEW v \in Read(Contents[seq], calls[c].req, p, calls[c].got),
               calls' = [calls EXCEPT ![c].got = Added(calls[c].got, p, v),
                                      ![c].seq = IF calls[c].got = <<>> THEN seq ELSE calls[c].seq]
        PROVE  IndInv'
    <2>1. PICK r, got, n, m, g : /\ r = calls[c].req /\ got = calls[c].got /\ n = calls[c].seq
                                 /\ m = IF got = <<>> THEN seq ELSE n
                                 /\ g = Added(got, p, v)
      OBVIOUS
    <2>2. /\ r \in Requests /\ seq \in DOMAIN Contents /\ n \in 1..seq /\ GotOk(r, got, n, seq)
      BY <2>1, Working DEF Statement
    <2>3. n \in DOMAIN Contents /\ n <= seq /\ m \in 1..seq
      BY <2>1, <2>2, ContentsAssumption
    <2>4. GotOk(r, g, m, seq)
      BY <1>6, <2>1, <2>2, <2>3, GotMore
    <2>5. calls' = [calls EXCEPT ![c].got = g, ![c].seq = m]
      BY <1>6, <2>1
    <2> QED
      BY <1>4, <2>1, <2>3, <2>4, <2>5
  <1>7. ASSUME NEW v \in Read(Contents[seq], calls[c].req, p, calls[c].got),
               calls' = [calls EXCEPT ![c].got = Added(calls[c].got, p, v),
                                      ![c].seq = IF calls[c].got = <<>> THEN seq ELSE @]
        PROVE  IndInv'
    BY <1>6, <1>7
  <1> QED
    BY <1>3, <1>5, <1>7 DEF Added

LEMMA AnswerInv ==
  ASSUME IndInv, NEW c \in Calls, Answer(c)
  PROVE  IndInv'
  <1>1. UNCHANGED <<now, seq, keys, changed, windows, admitted, arrived>>
    BY DEF Answer, keyVars
  <1>2. CountsInv' /\ KeysInv' /\ HitsInv'
    BY <1>1, SameHits DEF IndInv, CountsInv, KeysInv
  <1> DEFINE r == calls[c].req
             since == calls[c].since
             entry == [req |-> r, value |-> ValueOf(c), expires |-> now + TtlOf(r)]
  <1>3. now \in Nat /\ since \in Nat /\ since <= now /\ now <= since + MaxQuery /\ TtlOf(r) \in Nat
    BY Working, TtlNat DEF Answer
  <1>35. /\ r \in Requests /\ calls[c].seq \in 1..seq
         /\ AllRead(r, calls[c].got, calls[c].seq, seq)
    BY Working DEF Answer, AllRead
  <1>4. CacheInv'
    <2>1. EntryOk(entry, now, seq)
      BY <1>3, <1>35, TimesAssumption DEF EntryOk, ValueOf
    <2>2. cache' = cache \/ cache' = Stored(entry)
      BY DEF Answer
    <2> HIDE DEF entry
    <2>3. CacheOk(Stored(entry), now, seq) /\ Len(Stored(entry)) <= MaxEntries
      BY <2>1, StoredIs DEF IndInv, CacheInv
    <2>4. CASE cache' = cache
      BY <1>1, <2>4, SameCache DEF IndInv
    <2>5. CASE cache' = Stored(entry)
      BY <1>1, <2>3, <2>5 DEF CacheInv
    <2> QED
      BY <2>2, <2>4, <2>5
  <1>5. CallsInv'
    <2> DEFINE v == [phase |-> "done", status |-> 200, req |-> r, got |-> calls[c].got,
                     seq |-> calls[c].seq, age |-> now - since]
    <2>1. CallOk(v, now, seq)
      BY <1>3, <1>35, AnswerOk, TimesAssumption
    <2>2. calls' = [calls EXCEPT ![c] = v]
      BY DEF Answer, Replies, ValueOf
    <2> HIDE DEF v
    <2> QED
      BY <1>1, <2>1, <2>2, CallMoves DEF IndInv
  <1> QED
    BY <1>2, <1>4, <1>5 DEF IndInv

LEMMA TimeOutInv ==
  ASSUME IndInv, NEW c \in Calls, TimeOut(c)
  PROVE  IndInv'
  <1>1. UNCHANGED <<now, seq, keys, changed, windows, admitted, cache, arrived>>
    BY DEF TimeOut, keyVars, processVars
  <1>2. CountsInv' /\ KeysInv' /\ HitsInv' /\ CacheInv'
    BY <1>1, SameHits, SameCache DEF IndInv, CountsInv, KeysInv
  <1>3. CallsInv'
    BY <1>1, CallFails DEF IndInv, TimeOut
  <1> QED
    BY <1>2, <1>3 DEF IndInv

LEMMA TickInv ==
  ASSUME IndInv, Tick
  PROVE  IndInv'
  <1>1. now \in Nat /\ now' = now + 1 /\ now' \in Nat /\ now <= now'
    BY TimesAssumption DEF IndInv, CountsInv, Tick
  <1>2. CountsInv'
    <2>1. now' \in 0..MaxTime
      BY <1>1, TimesAssumption DEF IndInv, CountsInv, Tick
    <2>2. seq' \in 1..Len(Contents)
      BY ContentsAssumption DEF Tick
    <2> QED
      BY <2>1, <2>2 DEF IndInv, CountsInv, Tick, keyVars
  <1>25. seq \in DOMAIN Contents /\ seq' \in DOMAIN Contents /\ seq <= seq'
    BY ContentsAssumption DEF IndInv, CountsInv, Tick
  <1>3. UNCHANGED <<keys, windows, admitted, cache, calls>>
    BY DEF Tick, keyVars, processVars
  <1>4. KeysInv'
    BY <1>3 DEF IndInv, KeysInv
  <1>5. HitsInv'
    <2>1. \A k \in Keys : HitsOk(windows[k], admitted[k], now')
      BY <1>1, HitsLater DEF IndInv, HitsInv
    <2> QED
      BY <1>3, <2>1 DEF IndInv, HitsInv
  <1>6. CacheInv'
    <2>1. CacheOk(cache, now + 1, seq')
      BY <1>1, <1>25, CacheLater DEF IndInv, CacheInv
    <2> QED
      BY <1>1, <1>3, <2>1 DEF IndInv, CacheInv
  <1>7. CallsInv'
    <2>1. ASSUME NEW c \in Calls PROVE CallOk(calls[c], now', seq')
      <3>1. CallOk(calls[c], now, seq)
        BY DEF IndInv, CallsInv
      <3>2. calls[c].phase = "work" => now - calls[c].since < MaxQuery
        BY DEF Tick
      <3>3. calls[c].phase = "work" =>
              calls[c].since \in Nat /\ calls[c].since <= now' /\ now' <= calls[c].since + MaxQuery
        BY <1>1, <3>1, <3>2, TimesAssumption DEF CallOk
      <3>4. calls[c].phase = "work" =>
              calls[c].seq \in 1..seq' /\ GotOk(calls[c].req, calls[c].got, calls[c].seq, seq')
        BY <1>25, <3>1, ReadLater DEF CallOk
      <3>5. (calls[c].phase = "done" /\ calls[c].status = 200) =>
              calls[c].seq \in 1..seq' /\ AllRead(calls[c].req, calls[c].got, calls[c].seq, seq')
        BY <1>25, <3>1, ReadLater DEF CallOk
      <3> QED
        BY <3>1, <3>3, <3>4, <3>5 DEF CallOk
    <2> QED
      BY <1>3, <2>1 DEF IndInv, CallsInv
  <1> QED
    BY <1>2, <1>4, <1>5, <1>6, <1>7 DEF IndInv

LEMMA RestartInv ==
  ASSUME IndInv, Restart
  PROVE  IndInv'
  <1>1. now \in Nat /\ now' = now /\ seq' = seq
    BY TimesAssumption DEF IndInv, CountsInv, Restart
  <1>2. CountsInv' /\ KeysInv'
    BY TimesAssumption DEF IndInv, CountsInv, KeysInv, Restart
  <1>3. HitsInv'
    <2>1. HitsOk(<<>>, <<>>, now) /\ WithinLimits(<<>>)
      BY DEF HitsOk, WithinLimits
    <2> QED
      BY <1>1, <2>1 DEF HitsInv, Restart
  <1>4. CacheInv'
    <2>1. PICK R, s : R = {} /\ s = <<>>
      OBVIOUS
    <2>2. s \in Seq(R) /\ \A e \in R : EntryOk(e, now, seq)
      BY <2>1
    <2>3. CacheOk(s, now, seq) /\ Len(s) = 0
      BY <2>1, <2>2, CacheOf
    <2> QED
      BY <1>1, <2>1, <2>3, TimesAssumption DEF CacheInv, Restart
  <1>5. CallsInv'
    <2>1. CallOk(Idle, now, seq)
      BY DEF CallOk, WaitOk, Idle
    <2> QED
      BY <1>1, <2>1 DEF CallsInv, Restart
  <1> QED
    BY <1>2, <1>3, <1>4, <1>5 DEF IndInv

LEMMA NextInv == IndInv /\ [Next]_vars => IndInv'
  <1> SUFFICES ASSUME IndInv, [Next]_vars PROVE IndInv'
    OBVIOUS
  <1>1. ASSUME NEW k \in Keys, CreateKey(k) \/ RevokeKey(k) \/ PatchKey(k) PROVE IndInv'
    BY <1>1, AdminInv
  <1>2. ASSUME NEW c \in Calls, Verify(c) PROVE IndInv'
    BY <1>2, VerifyInv
  <1>3. ASSUME NEW c \in Calls, Refuse(c) PROVE IndInv'
    BY <1>3, RefuseInv
  <1>4. ASSUME NEW c \in Calls, Admit(c) PROVE IndInv'
    BY <1>4, AdmitInv
  <1>5. ASSUME NEW c \in Calls, Statement(c) PROVE IndInv'
    BY <1>5, StatementInv
  <1>6. ASSUME NEW c \in Calls, Answer(c) PROVE IndInv'
    BY <1>6, AnswerInv
  <1>7. ASSUME NEW c \in Calls, TimeOut(c) PROVE IndInv'
    BY <1>7, TimeOutInv
  <1>8. CASE Tick
    BY <1>8, TickInv
  <1>9. CASE Restart
    BY <1>9, RestartInv
  <1>10. CASE UNCHANGED vars
    <2>1. UNCHANGED <<now, seq, keys, changed, windows, admitted, cache, calls, arrived>>
      BY <1>10 DEF vars, keyVars, processVars
    <2> QED
      BY <2>1, SameHits, SameCache, SameCalls DEF IndInv, CountsInv, KeysInv
  <1> QED
    BY <1>1, <1>2, <1>3, <1>4, <1>5, <1>6, <1>7, <1>8, <1>9, <1>10 DEF Next

-----------------------------------------------------------------------------
(* The theorems. *)

\* The windows, histories, entries and calls keep their shape and their bounds.
THEOREM ApiInvariance == Spec => []IndInv
  <1>1. Init => IndInv
    BY InitInv
  <1>2. IndInv /\ [Next]_vars => IndInv'
    BY NextInv
  <1> QED
    BY <1>1, <1>2, PTL DEF Spec

\* The counts stay within their bounds and the cache within its size (cache.ts:22-29).
THEOREM ApiTypes == Spec => []TypeOK
  <1>1. IndInv => TypeOK
    BY DEF IndInv, CountsInv, KeysInv, HitsInv, CacheInv, TypeOK
  <1> QED
    BY <1>1, ApiInvariance, PTL

\* No window of a key holds more hits than the limit its last hit was checked against,
\* however large the window and however many calls interleave, and who waits for the
\* Retry-After finds a slot (auth.ts:15-24).
THEOREM RateIsHeld == Spec => []RateHeld
  <1>1. IndInv => RateHeld
    <2> SUFFICES ASSUME IndInv PROVE RateHeld
      OBVIOUS
    <2>1. ASSUME NEW k \in Keys, NEW i \in DOMAIN admitted[k]
          PROVE  Cardinality(HitsInWindow(k, i)) <= admitted[k][i].limit
      <3>1. admitted[k] \in Seq(AdmittedHits) /\ WithinLimits(admitted[k])
        BY DEF IndInv, HitsInv, HitsOk
      <3>2. i \in 1..Len(admitted[k])
        BY <3>1
      <3> QED
        BY <3>1, <3>2 DEF WithinLimits, HitsInWindow
    <2>2. \A c \in Calls : WaitOk(calls[c])
      BY DEF IndInv, CallsInv, CallOk
    <2> QED
      BY <2>1, <2>2, Zenon DEF RateHeld, WaitOk
  <1> QED
    BY <1>1, ApiInvariance, PTL

\* No answer is older than the lifetime of its route and the time its statements may
\* take, whatever was stored over what (cache.ts:10-39).
THEOREM AnswersAreFresh == Spec => []AnswersFresh
  <1>1. IndInv => AnswersFresh
    BY DEF IndInv, CallsInv, CallOk, AnswersFresh, Answered
  <1> QED
    BY <1>1, ApiInvariance, PTL

\* The facts of an answer.
LEMMA AnsweredIs ==
  ASSUME IndInv, NEW c \in Calls, Answered(c)
  PROVE  /\ calls[c].req \in Requests /\ calls[c].seq \in DOMAIN Contents
         /\ AllRead(calls[c].req, calls[c].got, calls[c].seq, seq)
  <1>1. CallOk(calls[c], now, seq) /\ seq \in 1..Len(Contents)
    BY DEF IndInv, CallsInv, CountsInv
  <1> QED
    BY <1>1, ContentsAssumption DEF CallOk, Answered

\* Two pages of a list that follow each other have each row between them once and in
\* one order, whatever rows have equal keys and however large the pages (tokens.ts:259).
THEOREM PagesAreTiles == Spec => []PagesTile
  <1>1. IndInv => PagesTile
    <2> SUFFICES ASSUME IndInv, NEW c \in Calls, NEW d \in Calls,
                        Answered(c), calls[c].req.route = "tokens", Answered(d),
                        LET p == ParseTokens(calls[c].req.q).page
                        IN calls[d].req = [calls[c].req EXCEPT !.q.offset = p.offset + p.limit],
                        calls[d].seq = calls[c].seq
                 PROVE  LET r == calls[c].req
                            p == ParseTokens(r.q).page
                            q == ParseTokens(calls[d].req.q).page
                            both == [offset |-> p.offset, limit |-> p.limit + q.limit]
                        IN \E all \in TokenPage(Contents[calls[c].seq], r.q, both) : Rows(c) \o Rows(d) = all.rows
      BY Zenon DEF PagesTile
    <2>0. PICK r, p : r = calls[c].req /\ p = ParseTokens(r.q).page
      OBVIOUS
    <2>1. PICK n, x, after : n = calls[c].seq /\ x = p.offset + p.limit /\ after = [r.q EXCEPT !.offset = x]
      OBVIOUS
    <2>2. r \in Requests /\ n \in DOMAIN Contents /\ AllRead(r, calls[c].got, n, seq)
      BY <2>0, <2>1, AnsweredIs
    <2>3. calls[d].req \in Requests /\ AllRead(calls[d].req, calls[d].got, n, seq)
      BY <2>0, <2>1, AnsweredIs
    <2>4. DOMAIN r = {"route", "q"} /\ r.q.limit \in Int /\ r.q.offset \in Int /\ DOMAIN r.q = ListParams
      BY <2>0, <2>2, RequestsAssumption DEF ListParams
    <2>5. calls[d].req.route = "tokens" /\ calls[d].req.q = after
      <3>1. calls[d].req = [r EXCEPT !.q = after]
        BY <2>0, <2>1
      <3> QED
        BY <2>0, <2>4, <3>1
    <2>6. PICK one : one = calls[c].got[Part("rows")]
      OBVIOUS
    <2>7. PICK two : two = calls[d].got[Part("rows")]
      OBVIOUS
    <2>8. one \in ListTokens(Contents[n], r.q)
      BY <2>0, <2>2, <2>6, ListIsRead
    <2>9. two \in ListTokens(Contents[n], after)
      BY <2>3, <2>5, <2>7, ListIsRead
    <2>10. \E all \in TokenPage(Contents[n], r.q,
                                [offset |-> p.offset, limit |-> p.limit + ParseTokens(after).page.limit]) :
             one.rows \o two.rows = all.rows
      <3>1. PICK q : q = r.q
        OBVIOUS
      <3>2. /\ q.limit \in Int /\ q.offset \in Int /\ DOMAIN q = ListParams /\ p = ParseTokens(q).page
            /\ after = [q EXCEPT !.offset = p.offset + p.limit]
            /\ one \in ListTokens(Contents[n], q)
        BY <2>0, <2>1, <2>4, <2>8, <3>1
      <3>3. \E all \in TokenPage(Contents[n], q,
                                 [offset |-> p.offset, limit |-> p.limit + ParseTokens(after).page.limit]) :
              one.rows \o two.rows = all.rows
        <4>1. Fit(n, q, p, after, one, two)
          BY <2>2, <2>9, <3>2, PagesFit
        <4> QED
          BY <4>1 DEF Fit
      <3> QED
        BY <3>1, <3>3
    <2> QED
      BY <2>0, <2>1, <2>5, <2>6, <2>7, <2>10 DEF Rows
  <1> QED
    BY <1>1, ApiInvariance, PTL

\* A series up to a ledger that was indexed is the history of its metric, now and for as
\* long as the answer is remembered, although its statements read the tables at different
\* ledgers (tokens.ts:138-180).
THEOREM SeriesIsHistorical == Spec => []SeriesIsHistory
  <1>1. IndInv => SeriesIsHistory
    <2> SUFFICES ASSUME IndInv, NEW c \in Calls, Answered(c), calls[c].req.route = "series",
                        \A e \in calls[c].req.end : e <= NewestLedger(Contents[calls[c].seq]),
                        NEW i \in DOMAIN SampleLedgers(calls[c].req, calls[c].got[Part("range")])
                 PROVE  calls[c].got[<<"sample", i>>]
                          = MetricAt(Contents[seq], TokenRow(Contents[seq], calls[c].got), calls[c].req.metric,
                                     SampleLedgers(calls[c].req, calls[c].got[Part("range")])[i])
      BY DEF SeriesIsHistory
    <2>1. calls[c].req \in Requests /\ AllRead(calls[c].req, calls[c].got, calls[c].seq, seq)
      BY AnsweredIs
    <2> QED
      BY <2>1, SeriesIsRead DEF Closed
  <1> QED
    BY <1>1, ApiInvariance, PTL
=============================================================================
