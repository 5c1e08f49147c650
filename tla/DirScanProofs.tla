--------------------------- MODULE DirScanProofs ---------------------------
(***************************************************************************)
(* Proofs about DirScan, for any directory, batch size, hidden names and   *)
(* buffer sizes.  The listing of a directory is a filter of its entries,   *)
(* so the proofs rest on what a filter does with concatenations and with   *)
(* filters, which is proved first by induction: as facts about sets, and   *)
(* not about operators, so that the provers can use them.                  *)
(***************************************************************************)
EXTENDS DirScan, SequenceTheorems, WellFoundedInduction, TLAPS

-----------------------------------------------------------------------------
(* Induction. *)

(* A set of numbers that is not empty has a least one. *)
LEMMA LeastNat ==
  ASSUME NEW T, T \subseteq Nat, T # {}
  PROVE  \E m \in T : \A k \in T : m <= k
<1> DEFINE R == {ss \in Nat \X Nat : ss[1] < ss[2]}
<1>1. IsWellFoundedOn(R, Nat)
  BY NatLessThanWellFounded DEF OpToRel
<1> HIDE DEF R
<1>2. PICK m \in T : \A k \in T : ~ (<<k, m>> \in R)
  BY <1>1, WFMin
<1>3. \A k \in T : k < m => <<k, m>> \in R
  BY DEF R
<1>4. \A k \in T : m <= k
  <2> SUFFICES ASSUME NEW k \in T PROVE m <= k
    OBVIOUS
  <2>1. ~ (k < m)
    BY <1>2, <1>3
  <2>2. k \in Nat /\ m \in Nat
    OBVIOUS
  <2> QED
    BY <2>1, <2>2
<1> QED
  BY <1>4

(* Induction over numbers. *)
LEMMA NatSetInduction ==
  ASSUME NEW T, 0 \in T, \A n \in Nat : n \in T => n + 1 \in T
  PROVE  Nat \subseteq T
<1> SUFFICES ASSUME Nat \ T # {} PROVE FALSE
  OBVIOUS
<1>1. PICK m \in Nat \ T : \A k \in Nat \ T : m <= k
  BY LeastNat
<1>2. m # 0 /\ m - 1 \in Nat
  BY <1>1
<1>3. m - 1 \in T
  BY <1>1, <1>2
<1>4. (m - 1) + 1 \in T
  BY <1>2, <1>3
<1> QED
  BY <1>1, <1>4

(* Induction over sequences, by their last element. *)
LEMMA SeqSetInduction ==
  ASSUME NEW S, NEW T, <<>> \in T,
         \A s \in Seq(S), e \in S : s \in T => Append(s, e) \in T
  PROVE  Seq(S) \subseteq T
<1> DEFINE L == {n \in Nat : \A s \in Seq(S) : Len(s) = n => s \in T}
<1>1. 0 \in L
  <2> SUFFICES ASSUME NEW s \in Seq(S), Len(s) = 0 PROVE s \in T
    OBVIOUS
  <2> QED
    BY EmptySeq
<1>2. \A n \in Nat : n \in L => n + 1 \in L
  <2> SUFFICES ASSUME NEW n \in Nat, n \in L, NEW s \in Seq(S), Len(s) = n + 1
               PROVE  s \in T
    OBVIOUS
  <2>1. s # <<>>
    BY EmptySeq
  <2>2. PICK r \in Seq(S), e \in S : s = Append(r, e)
    BY <2>1, SequenceEmptyOrAppend
  <2>3. Len(r) \in Nat /\ Len(s) = Len(r) + 1
    BY <2>2, AppendProperties, LenProperties
  <2>4. Len(r) = n
    BY <2>3
  <2>5. r \in T
    BY <2>4
  <2> QED
    BY <2>2, <2>5
<1> HIDE DEF L
<1>3. Nat \subseteq L
  BY <1>1, <1>2, NatSetInduction
<1> QED
  <2> SUFFICES ASSUME NEW s \in Seq(S) PROVE s \in T
    OBVIOUS
  <2>1. Len(s) \in Nat
    BY LenProperties
  <2>2. Len(s) \in L
    BY <2>1, <1>3
  <2> QED
    BY <2>2 DEF L

-----------------------------------------------------------------------------
(* Filter. *)

(* f is the function of Filter's definition for the first n entries of s. *)
Filters(f, s, S, n) ==
  f = [i \in 0 .. n |-> IF i = 0 THEN <<>>
                        ELSE IF s[i] \in S THEN Append(f[i - 1], s[i]) ELSE f[i - 1]]

(* There is such a function. *)
LEMMA FiltersExists ==
  ASSUME NEW s, NEW S, NEW n \in Nat
  PROVE  \E f : Filters(f, s, S, n)
<1> DEFINE T == {k \in Nat : \E f : Filters(f, s, S, k)}
<1>1. 0 \in T
  <2> DEFINE g == [i \in 0 .. 0 |-> <<>>]
  <2>1. Filters(g, s, S, 0)
    BY DEF Filters
  <2> QED
    BY <2>1
<1>2. \A k \in Nat : k \in T => k + 1 \in T
  <2> SUFFICES ASSUME NEW k \in Nat, NEW f, Filters(f, s, S, k)
               PROVE  \E h : Filters(h, s, S, k + 1)
    OBVIOUS
  <2> DEFINE last == IF s[k + 1] \in S THEN Append(f[k], s[k + 1]) ELSE f[k]
             h == [i \in 0 .. k + 1 |-> IF i = k + 1 THEN last ELSE f[i]]
  <2>1. \A i \in 0 .. k : h[i] = f[i]
    OBVIOUS
  <2>2. h[k + 1] = last
    OBVIOUS
  <2>3. \A i \in 0 .. k : f[i] = IF i = 0 THEN <<>>
                                 ELSE IF s[i] \in S THEN Append(f[i - 1], s[i]) ELSE f[i - 1]
    BY DEF Filters
  <2>4. \A i \in 0 .. k + 1 :
          h[i] = IF i = 0 THEN <<>>
                 ELSE IF s[i] \in S THEN Append(h[i - 1], s[i]) ELSE h[i - 1]
    <3> SUFFICES ASSUME NEW i \in 0 .. k + 1
                 PROVE  h[i] = IF i = 0 THEN <<>>
                               ELSE IF s[i] \in S THEN Append(h[i - 1], s[i]) ELSE h[i - 1]
      OBVIOUS
    <3>1. CASE i = 0
      <4>1. h[0] = f[0]
        BY <2>1
      <4>2. f[0] = <<>>
        BY <2>3
      <4> QED
        BY <3>1, <4>1, <4>2
    <3>2. CASE i # 0 /\ i <= k
      <4>1. h[i] = f[i] /\ h[i - 1] = f[i - 1]
        BY <2>1, <3>2
      <4>2. f[i] = IF s[i] \in S THEN Append(f[i - 1], s[i]) ELSE f[i - 1]
        BY <2>3, <3>2
      <4> HIDE DEF h
      <4> QED
        BY <3>2, <4>1, <4>2
    <3>3. CASE i = k + 1
      <4>1. h[k] = f[k]
        BY <2>1
      <4>2. i # 0 /\ i - 1 = k
        BY <3>3
      <4> HIDE DEF h
      <4> QED
        BY <2>2, <3>3, <4>1, <4>2
    <3> QED
      BY <3>1, <3>2, <3>3
  <2>5. DOMAIN h = 0 .. k + 1 /\ h = [i \in 0 .. k + 1 |-> h[i]]
    OBVIOUS
  <2>6. Filters(h, s, S, k + 1)
    <3> HIDE DEF h
    <3> QED
      BY <2>4, <2>5 DEF Filters
  <2> QED
    BY <2>6
<1> HIDE DEF T
<1>3. n \in T
  BY <1>1, <1>2, NatSetInduction
<1> QED
  BY <1>3 DEF T

(* What such a function is at every place. *)
LEMMA FiltersAt ==
  ASSUME NEW f, NEW s, NEW S, NEW n \in Nat, Filters(f, s, S, n)
  PROVE  /\ f[0] = <<>>
         /\ \A i \in 1 .. n : f[i] = IF s[i] \in S THEN Append(f[i - 1], s[i]) ELSE f[i - 1]
<1>1. \A i \in 0 .. n : f[i] = IF i = 0 THEN <<>>
                               ELSE IF s[i] \in S THEN Append(f[i - 1], s[i]) ELSE f[i - 1]
  BY DEF Filters
<1> QED
  BY <1>1

(* Two of them agree on what their sequences share. *)
LEMMA FiltersAgree ==
  ASSUME NEW f, NEW g, NEW s, NEW t, NEW S, NEW m \in Nat, NEW n \in Nat, m <= n,
         Filters(f, s, S, m), Filters(g, t, S, n), \A i \in 1 .. m : s[i] = t[i]
  PROVE  f[m] = g[m]
<1> DEFINE T == {k \in Nat : k <= m => f[k] = g[k]}
<1>1. 0 \in T
  BY FiltersAt
<1>2. \A k \in Nat : k \in T => k + 1 \in T
  <2> SUFFICES ASSUME NEW k \in Nat, k \in T, k + 1 <= m PROVE f[k + 1] = g[k + 1]
    OBVIOUS
  <2>1. f[k] = g[k] /\ s[k + 1] = t[k + 1] /\ (k + 1) - 1 = k
    OBVIOUS
  <2>2. f[k + 1] = IF s[k + 1] \in S THEN Append(f[k], s[k + 1]) ELSE f[k]
    BY <2>1, FiltersAt
  <2>3. g[k + 1] = IF t[k + 1] \in S THEN Append(g[k], t[k + 1]) ELSE g[k]
    BY <2>1, FiltersAt
  <2> QED
    BY <2>1, <2>2, <2>3
<1> HIDE DEF T
<1>3. m \in T
  BY <1>1, <1>2, NatSetInduction
<1> QED
  BY <1>3 DEF T

(* Filter's value is that function's last. *)
LEMMA FilterIs ==
  ASSUME NEW S, NEW s, Len(s) \in Nat
  PROVE  \E f : Filters(f, s, S, Len(s)) /\ Filter(s, S) = f[Len(s)]
<1> DEFINE f == CHOOSE f : f = [i \in 0 .. Len(s) |->
                   IF i = 0 THEN <<>>
                   ELSE IF s[i] \in S THEN Append(f[i - 1], s[i]) ELSE f[i - 1]]
<1>1. Filter(s, S) = f[Len(s)]
  BY DEF Filter
<1>2. \E g : g = [i \in 0 .. Len(s) |->
                   IF i = 0 THEN <<>>
                   ELSE IF s[i] \in S THEN Append(g[i - 1], s[i]) ELSE g[i - 1]]
  <2> HIDE DEF f
  <2>1. PICK g : Filters(g, s, S, Len(s))
    BY FiltersExists
  <2> WITNESS g
  <2> QED
    BY <2>1 DEF Filters
<1>3. f = [i \in 0 .. Len(s) |->
                   IF i = 0 THEN <<>>
                   ELSE IF s[i] \in S THEN Append(f[i - 1], s[i]) ELSE f[i - 1]]
  BY <1>2
<1> HIDE DEF f
<1> QED
  BY <1>1, <1>3 DEF Filters

(* What Filter keeps of no entries, ... *)
LEMMA FilterEmpty ==
  ASSUME NEW S
  PROVE  Filter(<<>>, S) = <<>>
<1>1. Len(<<>>) = 0
  BY EmptySeq
<1>2. PICK f : Filters(f, <<>>, S, 0) /\ Filter(<<>>, S) = f[0]
  BY <1>1, FilterIs
<1> QED
  BY <1>2, FiltersAt

(* ... and of one more. *)
LEMMA FilterAppend ==
  ASSUME NEW X, NEW S, NEW s \in Seq(X), NEW e \in X
  PROVE  /\ e \in S => Filter(Append(s, e), S) = Append(Filter(s, S), e)
         /\ e \notin S => Filter(Append(s, e), S) = Filter(s, S)
<1> PICK t : t = Append(s, e)
  OBVIOUS
<1> PICK n : n = Len(s)
  OBVIOUS
<1>1. n \in Nat /\ t \in Seq(X) /\ Len(t) = n + 1 /\ t[n + 1] = e /\ \A i \in 1 .. n : s[i] = t[i]
  BY AppendProperties, LenProperties
<1>2. PICK f : Filters(f, s, S, n) /\ Filter(s, S) = f[n]
  BY <1>1, FilterIs
<1> PICK m : m = n + 1
  OBVIOUS
<1>3. m \in Nat /\ n <= m /\ m - 1 = n /\ m \in 1 .. m /\ Len(t) = m
  BY <1>1
<1>4. PICK g : Filters(g, t, S, m) /\ Filter(t, S) = g[m]
  BY <1>3, FilterIs
<1>5. f[n] = g[n]
  BY <1>1, <1>2, <1>3, <1>4, FiltersAgree
<1>6. /\ g[0] = <<>>
      /\ \A i \in 1 .. m : g[i] = IF t[i] \in S THEN Append(g[i - 1], t[i]) ELSE g[i - 1]
  <2>1. Filters(g, t, S, m)
    BY <1>4
  <2>2. m \in Nat
    BY <1>3
  <2> QED
    BY ONLY <2>1, <2>2, FiltersAt
<1>7. g[m] = IF t[m] \in S THEN Append(g[n], t[m]) ELSE g[n]
  BY <1>3, <1>6
<1> QED
  BY <1>1, <1>2, <1>4, <1>5, <1>7

(* It keeps entries of the sequence that are in the set, and not more than *)
(* there are.                                                                *)
LEMMA FilterType ==
  ASSUME NEW X, NEW S, NEW s \in Seq(X)
  PROVE  Filter(s, S) \in Seq(X) /\ Filter(s, S) \in Seq(X \cap S) /\ Len(Filter(s, S)) <= Len(s)
<1> DEFINE T == {r \in Seq(X) : /\ Filter(r, S) \in Seq(X) /\ Filter(r, S) \in Seq(X \cap S)
                                /\ Len(Filter(r, S)) <= Len(r)}
<1>1. <<>> \in T
  <2> PICK z : z = <<>>
    OBVIOUS
  <2>1. Filter(z, S) = z
    BY FilterEmpty
  <2>2. z \in Seq(X) /\ z \in Seq(X \cap S) /\ Len(z) <= Len(z)
    BY EmptySeq
  <2>3. z \in T
    BY <2>1, <2>2
  <2> QED
    BY <2>3
<1>2. \A r \in Seq(X), e \in X : r \in T => Append(r, e) \in T
  <2> SUFFICES ASSUME NEW r \in Seq(X), NEW e \in X, r \in T PROVE Append(r, e) \in T
    OBVIOUS
  <2> PICK q : q = Filter(r, S)
    OBVIOUS
  <2> PICK t : t = Append(r, e)
    OBVIOUS
  <2>1. q \in Seq(X) /\ q \in Seq(X \cap S) /\ Len(q) <= Len(r)
    OBVIOUS
  <2>2. t \in Seq(X) /\ Len(t) = Len(r) + 1 /\ Len(r) \in Nat /\ Len(q) \in Nat
    BY <2>1, AppendProperties, LenProperties
  <2>3. CASE e \in S
    <3>1. Filter(t, S) = Append(q, e)
      BY <2>3, FilterAppend
    <3>2. Append(q, e) \in Seq(X) /\ Len(Append(q, e)) = Len(q) + 1
      BY <2>1, AppendProperties
    <3>3. Append(q, e) \in Seq(X \cap S)
      BY <2>1, <2>3, AppendProperties
    <3>4. Len(Append(q, e)) <= Len(t)
      BY <2>1, <2>2, <3>2
    <3> QED
      BY <2>2, <3>1, <3>2, <3>3, <3>4
  <2>4. CASE e \notin S
    <3>1. Filter(t, S) = q
      BY <2>4, FilterAppend
    <3> QED
      BY <2>1, <2>2, <3>1
  <2> QED
    BY <2>3, <2>4
<1> HIDE DEF T
<1>3. s \in T
  BY <1>1, <1>2, SeqSetInduction
<1> QED
  BY <1>3 DEF T

(* Concatenation is associative. *)
Assoc(a, b, c) == (a \o b) \o c = a \o (b \o c)

(* ... for sequences. *)
LEMMA AssocIs ==
  ASSUME NEW X, NEW a \in Seq(X), NEW b \in Seq(X), NEW c \in Seq(X)
  PROVE  Assoc(a, b, c)
<1>1. (a \o b) \o c = a \o (b \o c)
  BY ConcatAssociative
<1> QED
  BY <1>1 DEF Assoc

(* Append and concatenation. *)
LEMMA ConcatAppend ==
  ASSUME NEW X, NEW s \in Seq(X), NEW t \in Seq(X), NEW e \in X
  PROVE  s \o Append(t, e) = Append(s \o t, e)
<1>1. <<e>> \in Seq(X)
  OBVIOUS
<1>2. Append(t, e) = t \o <<e>>
  BY AppendIsConcat
<1>3. s \o t \in Seq(X)
  BY ConcatProperties
<1>4. Append(s \o t, e) = (s \o t) \o <<e>>
  BY <1>3, AppendIsConcat
<1>5. Assoc(s, t, <<e>>)
  BY <1>1, AssocIs
<1> QED
  BY <1>2, <1>4, <1>5 DEF Assoc

(* The filter of a concatenation is that of its parts. *)
LEMMA FilterConcat ==
  ASSUME NEW X, NEW S, NEW s \in Seq(X), NEW t \in Seq(X)
  PROVE  Filter(s \o t, S) = Filter(s, S) \o Filter(t, S)
<1> PICK p : p = Filter(s, S)
  OBVIOUS
<1>0. p \in Seq(X)
  BY FilterType
<1> DEFINE T == {r \in Seq(X) : Filter(s \o r, S) = p \o Filter(r, S)}
<1>1. <<>> \in T
  BY <1>0, FilterEmpty, EmptySeq, ConcatEmptySeq
<1>2. \A r \in Seq(X), e \in X : r \in T => Append(r, e) \in T
  <2> SUFFICES ASSUME NEW r \in Seq(X), NEW e \in X, r \in T PROVE Append(r, e) \in T
    OBVIOUS
  <2> PICK q : q = Filter(r, S)
    OBVIOUS
  <2> PICK t0 : t0 = Append(r, e)
    OBVIOUS
  <2> PICK u : u = s \o r
    OBVIOUS
  <2>1. q \in Seq(X) /\ t0 \in Seq(X) /\ u \in Seq(X)
    BY FilterType, AppendProperties, ConcatProperties
  <2>2. Filter(u, S) = p \o q
    OBVIOUS
  <2>3. s \o t0 = Append(u, e)
    <3>1. s \in Seq(X) /\ r \in Seq(X) /\ e \in X
      OBVIOUS
    <3>2. s \o Append(r, e) = Append(s \o r, e)
      BY ONLY <3>1, ConcatAppend
    <3> QED
      BY <3>2
  <2>4. CASE e \in S
    <3>1. Filter(Append(u, e), S) = Append(Filter(u, S), e)
      <4>1. u \in Seq(X)
        BY <2>1
      <4> QED
        BY ONLY <4>1, e \in X, <2>4, FilterAppend
    <3>2. Filter(t0, S) = Append(q, e)
      BY <2>4, FilterAppend
    <3>3. p \o Append(q, e) = Append(p \o q, e)
      <4>1. p \in Seq(X) /\ q \in Seq(X) /\ e \in X
        BY <1>0, <2>1
      <4> QED
        BY ONLY <4>1, ConcatAppend
    <3> QED
      BY <2>1, <2>2, <2>3, <3>1, <3>2, <3>3
  <2>5. CASE e \notin S
    <3>1. Filter(Append(u, e), S) = Filter(u, S)
      <4>1. u \in Seq(X)
        BY <2>1
      <4> QED
        BY ONLY <4>1, e \in X, <2>5, FilterAppend
    <3>2. Filter(t0, S) = q
      BY <2>5, FilterAppend
    <3> QED
      BY <2>1, <2>2, <2>3, <3>1, <3>2
  <2> QED
    BY <2>4, <2>5
<1> HIDE DEF T
<1>3. t \in T
  BY <1>1, <1>2, SeqSetInduction
<1> QED
  BY <1>3 DEF T

(* The filter of a filter keeps what is in both sets. *)
LEMMA FilterFilter ==
  ASSUME NEW X, NEW S, NEW R, NEW s \in Seq(X)
  PROVE  Filter(Filter(s, S), R) = Filter(s, S \cap R)
<1> DEFINE T == {r \in Seq(X) : Filter(Filter(r, S), R) = Filter(r, S \cap R)}
<1>1. <<>> \in T
  BY FilterEmpty, EmptySeq
<1>2. \A r \in Seq(X), e \in X : r \in T => Append(r, e) \in T
  <2> SUFFICES ASSUME NEW r \in Seq(X), NEW e \in X, r \in T PROVE Append(r, e) \in T
    OBVIOUS
  <2> PICK q : q = Filter(r, S)
    OBVIOUS
  <2> PICK t : t = Append(r, e)
    OBVIOUS
  <2>1. q \in Seq(X) /\ t \in Seq(X)
    BY FilterType, AppendProperties
  <2>2. Filter(q, R) = Filter(r, S \cap R)
    OBVIOUS
  <2>3. CASE e \in S /\ e \in R
    <3>1. Filter(t, S) = Append(q, e)
      BY <2>3, FilterAppend
    <3>2. Filter(Append(q, e), R) = Append(Filter(q, R), e)
      <4>1. q \in Seq(X) /\ e \in R
        BY <2>1, <2>3
      <4> QED
        BY ONLY <4>1, e \in X, FilterAppend
    <3>3. Filter(t, S \cap R) = Append(Filter(r, S \cap R), e)
      BY <2>3, FilterAppend
    <3> QED
      BY <2>1, <2>2, <3>1, <3>2, <3>3
  <2>4. CASE e \in S /\ e \notin R
    <3>1. Filter(t, S) = Append(q, e)
      BY <2>4, FilterAppend
    <3>2. Filter(Append(q, e), R) = Filter(q, R)
      BY <2>1, <2>4, FilterAppend
    <3>3. Filter(t, S \cap R) = Filter(r, S \cap R)
      BY <2>4, FilterAppend
    <3> QED
      BY <2>1, <2>2, <3>1, <3>2, <3>3
  <2>5. CASE e \notin S
    <3>1. Filter(t, S) = q
      BY <2>5, FilterAppend
    <3>3. Filter(t, S \cap R) = Filter(r, S \cap R)
      BY <2>5, FilterAppend
    <3> QED
      BY <2>1, <2>2, <3>1, <3>3
  <2> QED
    BY <2>3, <2>4, <2>5
<1> HIDE DEF T
<1>3. s \in T
  BY <1>1, <1>2, SeqSetInduction
<1> QED
  BY <1>3 DEF T

-----------------------------------------------------------------------------
(* The invariant. *)

(* What the client wants of the entries that are still there. *)
Keeps(p) == (live \cup {0, 1}) \cap Wanted(p)

(* What a position still has to return of K: its buffer, then the kernel's. *)
Rest(s, K) == Filter(s.buffer, K) \o Filter(Chunk(s.off, nfiles), K)

(* A handle that has not been read from is at the start, and not in a scan. *)
Fresh == dirPos = 0 => off = 0 /\ dirBuffer = <<>> /\ ~scan.active

(* What the client got, and what the handle still returns, is the listing. *)
Exact(K) ==
  /\ scan.active => Filter(scan.got, K) \o Rest(Position(FALSE), K) = Filter(Dots \o Stream, K)
  /\ scan.status = "NO_MORE_FILES" => Filter(scan.got, K) = Filter(Dots \o Stream, K)

ScanKept == ~scan.asked => Exact(Keeps(scan.pattern))

IInv == TypeOK /\ Fresh /\ ScanKept

-----------------------------------------------------------------------------
(* What the kernel returns. *)

(* The first of a set of places is one of them. *)
LEMMA FirstIs ==
  ASSUME NEW S, S \subseteq Nat, NEW d
  PROVE  First(S, d) \in S \cup {d} /\ (S # {} => First(S, d) \in S)
<1>1. CASE S = {}
  BY <1>1 DEF First
<1>2. CASE S # {}
  <2>1. \E i \in S : \A j \in S : i <= j
    BY <1>2, LeastNat
  <2>2. First(S, d) = CHOOSE i \in S : \A j \in S : i <= j
    BY <1>2 DEF First
  <2> QED
    BY <2>1, <2>2
<1> QED
  BY <1>1, <1>2

(* A query consumes a part of the batch. *)
LEMMA ConsumedIs ==
  ASSUME NEW dir \in Seq(Entries), NEW p, NEW single \in BOOLEAN, NEW maxOut
  PROVE  Consumed(dir, p, single, maxOut) \in 0 .. Len(dir)
<1>1. Len(dir) \in Nat
  BY LenProperties
<1> PICK A : A = {i \in 1 .. Len(dir) : dir[i] \in Wanted(p)}
  OBVIOUS
<1> PICK acc : acc = AccSize(dir, p)
  OBVIOUS
<1> PICK B : B = {i \in 1 .. Len(dir) : dir[i] \in Wanted(p) /\ acc[i - 1] > 0 /\ acc[i] > maxOut}
  OBVIOUS
<1>2. Consumed(dir, p, single, maxOut) =
        IF single THEN First(A, Len(dir)) ELSE First(B, Len(dir) + 1) - 1
  BY DEF Consumed
<1>3. A \subseteq 1 .. Len(dir) /\ B \subseteq 1 .. Len(dir)
  OBVIOUS
<1>4. A \subseteq Nat /\ B \subseteq Nat
  BY <1>1, <1>3
<1>5. First(A, Len(dir)) \in A \cup {Len(dir)}
  BY <1>4, FirstIs
<1>6. First(B, Len(dir) + 1) \in B \cup {Len(dir) + 1}
  BY <1>4, FirstIs
<1>7. CASE single
  <2>1. First(A, Len(dir)) \in 0 .. Len(dir)
    BY <1>1, <1>3, <1>5
  <2> QED
    BY <1>2, <1>7, <2>1
<1>8. CASE ~single
  <2>1. First(B, Len(dir) + 1) \in 1 .. Len(dir) + 1
    BY <1>1, <1>3, <1>6
  <2>2. First(B, Len(dir) + 1) - 1 \in 0 .. Len(dir)
    BY <1>1, <2>1
  <2> QED
    BY <1>2, <1>8, <2>2
<1> QED
  BY <1>7, <1>8

(* The stream of the directory. *)
LEMMA StreamIs ==
  ASSUME nfiles \in Nat
  PROVE  Stream \in Seq(Entries) /\ Len(Stream) = nfiles
<1>1. \A i \in 1 .. nfiles : i + 1 \in Entries
  BY DEF Entries
<1>2. [i \in 1 .. nfiles |-> i + 1] \in [1 .. nfiles -> Entries]
  BY <1>1
<1>3. Stream \in [1 .. nfiles -> Entries]
  BY <1>2 DEF Stream
<1>4. Stream \in Seq(Entries)
  BY <1>3, SeqDef
<1> QED
  BY <1>3, <1>4, LenProperties

(* A batch is a part of it, as long as asked for or up to the end. *)
LEMMA ChunkIs ==
  ASSUME nfiles \in Nat, NEW from \in 0 .. nfiles, NEW n \in Nat
  PROVE  /\ Chunk(from, n) = SubSeq(Stream, from + 1, Lesser(from + n, nfiles))
         /\ Chunk(from, n) \in Seq(Entries)
         /\ Lesser(from + n, nfiles) \in from .. nfiles
         /\ Len(Chunk(from, n)) = Lesser(from + n, nfiles) - from
         /\ Len(Chunk(from, n)) <= n
<1>1. Stream \in Seq(Entries) /\ Len(Stream) = nfiles
  BY StreamIs
<1> PICK k : k = Lesser(from + n, nfiles)
  OBVIOUS
<1>2. k \in from .. nfiles /\ k - from <= n
  BY DEF Lesser
<1>3. from + 1 \in Int /\ k \in Int
  BY <1>2
<1>4. \A i \in from + 1 .. k : Stream[i] \in Entries
  <2> SUFFICES ASSUME NEW i \in from + 1 .. k PROVE Stream[i] \in Entries
    OBVIOUS
  <2>1. i \in 1 .. nfiles
    BY <1>2
  <2> QED
    BY <1>1, <2>1, ElementOfSeq
<1> PICK c : c = SubSeq(Stream, from + 1, k)
  OBVIOUS
<1>5. c \in Seq(Entries) /\ Len(c) = IF from + 1 <= k THEN k - (from + 1) + 1 ELSE 0
  BY <1>3, <1>4, SubSeqProperties
<1>6. Len(c) = k - from
  BY <1>2, <1>5
<1>7. Chunk(from, n) = c
  BY DEF Chunk
<1> QED
  BY <1>2, <1>5, <1>6, <1>7

(* All of it, ... *)
LEMMA ChunkAll ==
  ASSUME nfiles \in Nat
  PROVE  Chunk(0, nfiles) = Stream
<1>1. Stream \in Seq(Entries) /\ Len(Stream) = nfiles
  BY StreamIs
<1>2. Chunk(0, nfiles) = SubSeq(Stream, 1, nfiles)
  BY DEF Chunk, Lesser
<1> QED
  BY <1>1, <1>2, SubSeqFull

(* ... none of it, ... *)
LEMMA ChunkEnd ==
  ASSUME nfiles \in Nat
  PROVE  Chunk(nfiles, nfiles) = <<>>
<1> PICK m : m = nfiles
  OBVIOUS
<1>1. m \in 0 .. nfiles /\ m \in Nat
  OBVIOUS
<1>2. Chunk(m, m) \in Seq(Entries) /\ Len(Chunk(m, m)) = Lesser(m + m, nfiles) - m
  BY <1>1, ChunkIs
<1>3. Lesser(m + m, nfiles) - m = 0
  BY <1>1 DEF Lesser
<1>4. Chunk(m, m) = <<>>
  BY <1>2, <1>3, EmptySeq
<1> QED
  BY <1>4

(* ... and it cut in two. *)
LEMMA ChunkCut ==
  ASSUME nfiles \in Nat, NEW from \in 0 .. nfiles, NEW n \in Nat,
         NEW c, c = Chunk(from, n)
  PROVE  /\ from + Len(c) \in 0 .. nfiles
         /\ c \o Chunk(from + Len(c), nfiles) = Chunk(from, nfiles)
<1>1. Stream \in Seq(Entries) /\ Len(Stream) = nfiles
  BY StreamIs
<1> PICK k : k = Lesser(from + n, nfiles)
  OBVIOUS
<1>2. c = SubSeq(Stream, from + 1, k) /\ k \in from .. nfiles /\ Len(c) = k - from
  BY ChunkIs
<1>3. from + Len(c) = k /\ k \in 0 .. nfiles
  BY <1>2
<1>4. Chunk(k, nfiles) = SubSeq(Stream, k + 1, nfiles)
  BY <1>3 DEF Chunk, Lesser
<1>5. Chunk(from, nfiles) = SubSeq(Stream, from + 1, nfiles)
  BY DEF Chunk, Lesser
<1>6. from + 1 \in 1 .. Len(Stream) + 1 /\ k \in (from + 1) - 1 .. Len(Stream)
        /\ nfiles \in k .. Len(Stream)
  BY <1>1, <1>2
<1>7. SubSeq(Stream, from + 1, k) \o SubSeq(Stream, k + 1, nfiles)
        = SubSeq(Stream, from + 1, nfiles)
  BY <1>1, <1>6, ConcatAdjacentSubSeq
<1> QED
  BY <1>2, <1>3, <1>4, <1>5, <1>7

-----------------------------------------------------------------------------
(* ReadDir. *)

(* A position of the handle. *)
Placed(s) ==
  /\ s.off \in 0 .. nfiles /\ s.dirPos \in {0, 1}
  /\ s.buffer \in Seq(Entries) /\ Len(s.buffer) <= MaxEntries + 2
  /\ s.dirPos = 0 => s.off = 0 /\ s.buffer = <<>>

DotsOf(s) == IF s.dirPos = 0 THEN Dots ELSE <<>>

(* What a reading has: its form, not more entries than there were, ... *)
ReadForm(s, rd) ==
  /\ rd.results \in Seq(Entries) /\ rd.buffer \in Seq(Entries) /\ rd.off \in 0 .. nfiles
  /\ Len(rd.results) + Len(rd.buffer) <= MaxEntries + 2
  /\ s.dirPos = 1 =>
       Len(rd.results) + Len(rd.buffer) + (nfiles - rd.off) <= Len(s.buffer) + (nfiles - s.off)

(* ... the end, only where there is one, ... *)
ReadEnd(s, rd) ==
  rd.eof => s.dirPos = 1 /\ s.buffer = <<>> /\ s.off = nfiles /\ rd.results = <<>>

(* ... and the entries that there were, as far as they are still there. *)
ReadKeeps(s, rd) ==
  \A K \in SUBSET (live \cup {0, 1}) :
    Filter(rd.results, K) \o Rest(rd, K) = Filter(DotsOf(s), K) \o Rest(s, K)

(* Its buffer is longer than a batch. *)
LEMMA ReadLong ==
  ASSUME nfiles \in Nat, NEW s, Placed(s), Len(s.buffer) > MaxEntries,
         NEW rd, rd = ReadFrom(s)
  PROVE  ReadForm(s, rd) /\ ReadEnd(s, rd) /\ ReadKeeps(s, rd)
<1> PICK b : b = s.buffer
  OBVIOUS
<1> PICK n : n = Len(b)
  OBVIOUS
<1>1. b \in Seq(Entries) /\ n \in Nat /\ n <= MaxEntries + 2 /\ s.off \in 0 .. nfiles
  BY LenProperties DEF Placed
<1>2. MaxEntries \in Nat \ {0}
  BY MaxEntriesAssumption
<1>3. b # <<>>
  BY <1>1, <1>2, EmptySeq
<1>4. s.dirPos = 1
  BY <1>3 DEF Placed
<1> PICK h : h = SubSeq(b, 1, MaxEntries)
  OBVIOUS
<1> PICK t : t = SubSeq(b, MaxEntries + 1, n)
  OBVIOUS
<1>5. rd = [results |-> <<>> \o h, buffer |-> t, off |-> s.off, eof |-> FALSE]
  BY <1>4 DEF ReadFrom
<1>6. \A i \in 1 .. n : b[i] \in Entries
  BY <1>1, ElementOfSeq
<1>7. h \in Seq(Entries) /\ Len(h) = MaxEntries
  BY <1>1, <1>2, <1>6, SubSeqProperties
<1>8. t \in Seq(Entries) /\ Len(t) = n - MaxEntries
  BY <1>1, <1>2, <1>6, SubSeqProperties
<1>9. h \o t = b
  <2>1. b \in Seq(Entries) /\ 1 \in 1 .. Len(b) + 1 /\ MaxEntries \in 1 - 1 .. Len(b)
        /\ n \in MaxEntries .. Len(b)
    BY <1>1, <1>2
  <2>2. SubSeq(b, 1, MaxEntries) \o SubSeq(b, MaxEntries + 1, n) = SubSeq(b, 1, n)
    BY ONLY <2>1, ConcatAdjacentSubSeq
  <2> QED
    BY <1>1, <2>2, SubSeqFull
<1>10. rd.results = h /\ rd.buffer = t /\ rd.off = s.off /\ rd.eof = FALSE
  <2>1. <<>> \o h = h
    BY <1>7, ConcatEmptySeq
  <2>2. rd = [results |-> h, buffer |-> t, off |-> s.off, eof |-> FALSE]
    BY <1>5, <2>1
  <2> QED
    BY ONLY <2>2
<1>11. ReadForm(s, rd)
  <2>1. MaxEntries + (n - MaxEntries) = n
    BY ONLY <1>1, <1>2
  <2>2. Len(h) + Len(t) = n
    BY ONLY <1>7, <1>8, <2>1
  <2> PICK k : k = nfiles - s.off
    OBVIOUS
  <2>3. n + k <= n + k
    BY <1>1
  <2>4. Len(h) + Len(t) + (nfiles - s.off) <= Len(b) + (nfiles - s.off)
    BY <2>2, <2>3
  <2> QED
    BY <1>1, <1>7, <1>8, <1>10, <2>2, <2>4 DEF ReadForm
<1>12. ReadEnd(s, rd)
  BY <1>10 DEF ReadEnd
<1>13. ReadKeeps(s, rd)
  <2> SUFFICES ASSUME NEW K \in SUBSET (live \cup {0, 1})
               PROVE  Filter(rd.results, K) \o Rest(rd, K) = Filter(DotsOf(s), K) \o Rest(s, K)
    BY DEF ReadKeeps
  <2> PICK c : c = Chunk(s.off, nfiles)
    OBVIOUS
  <2>1. c \in Seq(Entries)
    BY <1>1, ChunkCut, ChunkIs
  <2> PICK C : C = Filter(c, K)
    OBVIOUS
  <2> PICK H : H = Filter(h, K)
    OBVIOUS
  <2> PICK T : T = Filter(t, K)
    OBVIOUS
  <2>2. C \in Seq(Entries) /\ H \in Seq(Entries) /\ T \in Seq(Entries)
    BY <1>7, <1>8, <2>1, FilterType
  <2>3. Filter(b, K) = H \o T
    <3>1. Filter(h \o t, K) = Filter(h, K) \o Filter(t, K)
      BY ONLY <1>7, <1>8, FilterConcat
    <3> QED
      BY <1>9, <3>1
  <2>4. Rest(s, K) = (H \o T) \o C
    BY <2>3 DEF Rest
  <2>5. Rest(rd, K) = T \o C
    BY <1>10 DEF Rest
  <2>6. Filter(DotsOf(s), K) = <<>>
    BY <1>4, FilterEmpty DEF DotsOf
  <2>7. (H \o T) \o C = H \o (T \o C) /\ (H \o T) \o C \in Seq(Entries)
    <3>1. Assoc(H, T, C)
      BY ONLY <2>2, AssocIs
    <3> PICK HT : HT = H \o T
      OBVIOUS
    <3>2. HT \in Seq(Entries)
      BY ONLY <2>2, HT = H \o T, ConcatProperties
    <3>3. HT \o C \in Seq(Entries)
      BY ONLY <2>2, <3>2, ConcatProperties
    <3> QED
      BY <3>1, <3>3 DEF Assoc
  <2>8. <<>> \o ((H \o T) \o C) = (H \o T) \o C
    BY <2>7, ConcatEmptySeq
  <2> QED
    BY <1>10, <2>4, <2>5, <2>6, <2>7, <2>8
<1> QED
  BY <1>11, <1>12, <1>13

(* The dots come with the first reading, with an empty buffer. *)
LEMMA DotsIs ==
  ASSUME NEW s, Placed(s), nfiles \in Nat
  PROVE  /\ DotsOf(s) \in Seq(Entries)
         /\ s.dirPos = 1 => DotsOf(s) = <<>> /\ Len(DotsOf(s)) = 0
         /\ s.dirPos = 0 => DotsOf(s) # <<>> /\ Len(DotsOf(s)) = 2
<1>1. 0 \in Entries /\ 1 \in Entries
  BY DEF Entries
<1>2. CASE s.dirPos = 1
  BY <1>2, EmptySeq DEF DotsOf
<1>3. CASE s.dirPos = 0
  <2>1. <<0, 1>> \in Seq(Entries) /\ Len(<<0, 1>>) = 2 /\ <<0, 1>> # <<>>
    BY <1>1
  <2> QED
    BY <1>3, <2>1 DEF DotsOf, Dots
<1> QED
  BY <1>2, <1>3 DEF Placed

(* Otherwise the kernel makes up the rest. *)
LEMMA ReadShort ==
  ASSUME nfiles \in Nat, NEW s, Placed(s), Len(s.buffer) <= MaxEntries,
         NEW rd, rd = ReadFrom(s)
  PROVE  ReadForm(s, rd) /\ ReadEnd(s, rd) /\ ReadKeeps(s, rd)
<1> PICK b : b = s.buffer
  OBVIOUS
<1> PICK d : d = DotsOf(s)
  OBVIOUS
<1> PICK used : used = Len(d \o b)
  OBVIOUS
<1> PICK left : left = IF b = <<>> THEN MaxEntries ELSE MaxEntries - Lesser(used, MaxEntries)
  OBVIOUS
<1> PICK c : c = Chunk(s.off, left)
  OBVIOUS
<1> PICK a : a = Alive(c)
  OBVIOUS
<1> PICK o : o = s.off
  OBVIOUS
<1>0. MaxEntries \in Nat \ {0}
  BY MaxEntriesAssumption
<1>1. b \in Seq(Entries) /\ Len(b) \in Nat /\ o \in 0 .. nfiles
  BY LenProperties DEF Placed
<1>2. d \in Seq(Entries) /\ (s.dirPos = 1 => d = <<>> /\ Len(d) = 0)
      /\ (s.dirPos = 0 => d # <<>> /\ Len(d) = 2)
  BY DotsIs
<1>3. s.dirPos \in {0, 1} /\ (s.dirPos = 0 => b = <<>>) /\ (b = <<>> => Len(b) = 0)
  BY EmptySeq DEF Placed
<1>4. used = Len(d) + Len(b) /\ d \o b \in Seq(Entries)
  BY <1>1, <1>2, ConcatProperties
<1>5. left \in Nat /\ Len(d) + Len(b) + left <= MaxEntries + 2
  <2>1. CASE b = <<>>
    BY <2>1, <1>0, <1>2, <1>3
  <2>2. CASE b # <<>>
    <3>1. Len(d) = 0 /\ used = Len(b)
      BY <1>1, <1>2, <1>3, <1>4, <2>2
    <3>2. Lesser(used, MaxEntries) = Len(b)
      BY <1>0, <1>1, <3>1 DEF Lesser
    <3> QED
      BY <1>0, <1>1, <2>2, <3>1, <3>2
  <2> QED
    BY <2>1, <2>2
<1>6. c \in Seq(Entries) /\ Len(c) <= left /\ Len(c) \in Nat
      /\ Len(c) = Lesser(o + left, nfiles) - o
  <2>1. c = Chunk(o, left) /\ o \in 0 .. nfiles /\ left \in Nat
    BY <1>1, <1>5
  <2>2. c \in Seq(Entries) /\ Len(c) <= left /\ Len(c) = Lesser(o + left, nfiles) - o
    BY <2>1, ChunkIs
  <2> QED
    BY <2>2, LenProperties
<1>7. o + Len(c) \in 0 .. nfiles /\ c \o Chunk(o + Len(c), nfiles) = Chunk(o, nfiles)
  BY <1>1, <1>5, ChunkCut
<1>8. a \in Seq(Entries) /\ Len(a) <= Len(c) /\ Len(a) \in Nat
  <2>1. a = Filter(c, live \cup {0, 1})
    BY DEF Alive
  <2>2. a \in Seq(Entries) /\ Len(a) <= Len(c)
    BY <1>6, <2>1, FilterType
  <2> QED
    BY <2>2, LenProperties
<1> PICK r : r = d \o b \o a
  OBVIOUS
<1>9. r \in Seq(Entries) /\ Len(r) = Len(d) + Len(b) + Len(a)
  <2> PICK db : db = d \o b
    OBVIOUS
  <2>1. db \in Seq(Entries) /\ Len(db) = Len(d) + Len(b)
    BY <1>4
  <2>2. r = db \o a
    OBVIOUS
  <2> QED
    BY ONLY <2>1, <2>2, <1>8, ConcatProperties
<1>10. rd = [results |-> r, buffer |-> <<>>, off |-> o + Len(c), eof |-> c = <<>> /\ r = <<>>]
  <2>1. ~ (Len(s.buffer) > MaxEntries)
    BY <1>0, <1>1
  <2> QED
    BY <2>1 DEF ReadFrom, DotsOf
<1>11. rd.results = r /\ rd.buffer = <<>> /\ rd.off = o + Len(c)
       /\ rd.eof = (c = <<>> /\ r = <<>>)
  BY ONLY <1>10
<1> PICK lb : lb = Len(b)
  OBVIOUS
<1> PICK ld : ld = Len(d)
  OBVIOUS
<1> PICK lc : lc = Len(c)
  OBVIOUS
<1> PICK la : la = Len(a)
  OBVIOUS
<1>N. lb \in Nat /\ ld \in Nat /\ lc \in Nat /\ la \in Nat /\ left \in Nat
  BY <1>1, <1>2, <1>5, <1>6, <1>8, LenProperties
<1>L. ld + lb + left <= MaxEntries + 2 /\ lc <= left /\ la <= lc /\ Len(r) = ld + lb + la
  BY <1>5, <1>6, <1>8, <1>9
<1>12. ReadForm(s, rd)
  <2>1. <<>> \in Seq(Entries) /\ Len(<<>>) = 0
    BY EmptySeq
  <2>2. ld + lb + la <= MaxEntries + 2
    BY ONLY <1>0, <1>N, <1>L
  <2>3. Len(r) + 0 <= MaxEntries + 2
    <3> PICK lr : lr = Len(r)
      OBVIOUS
    <3>1. lr = ld + lb + la
      BY <1>L
    <3>2. lr + 0 <= MaxEntries + 2
      BY ONLY <1>0, <1>N, <2>2, <3>1
    <3> QED
      BY <3>2
  <2>4. s.dirPos = 1 => Len(r) + 0 + (nfiles - (o + Len(c))) <= Len(b) + (nfiles - o)
    <3> SUFFICES ASSUME s.dirPos = 1
                 PROVE  Len(r) + 0 + (nfiles - (o + lc)) <= lb + (nfiles - o)
      OBVIOUS
    <3>1. ld = 0
      BY <1>2
    <3> PICK k : k = nfiles
      OBVIOUS
    <3>2. k \in Nat /\ o \in Nat
      BY <1>1
    <3>3. ld + lb + la + 0 + (k - (o + lc)) <= lb + (k - o)
      BY ONLY <1>N, <1>L, <3>1, <3>2
    <3> QED
      BY <1>L, <3>3
  <2> QED
    BY <1>7, <1>9, <1>11, <2>1, <2>3, <2>4 DEF ReadForm
<1>13. ReadEnd(s, rd)
  <2> SUFFICES ASSUME c = <<>>, r = <<>>
               PROVE  s.dirPos = 1 /\ b = <<>> /\ o = nfiles
    BY <1>11 DEF ReadEnd
  <2>1. Len(c) = 0 /\ Len(r) = 0
    BY EmptySeq
  <2>2. ld + lb + la = 0
    BY <1>L, <2>1
  <2>3. ld = 0 /\ lb = 0
    BY ONLY <1>N, <2>2
  <2>4. s.dirPos = 1 /\ b = <<>>
    BY <1>1, <1>2, <1>3, <2>3, EmptySeq
  <2>5. left = MaxEntries
    BY <2>4
  <2> QED
    BY <1>0, <1>1, <1>6, <2>1, <2>4, <2>5 DEF Lesser
<1>14. ReadKeeps(s, rd)
  <2> SUFFICES ASSUME NEW K \in SUBSET (live \cup {0, 1})
               PROVE  Filter(r, K) \o Rest(rd, K) = Filter(d, K) \o Rest(s, K)
    BY <1>11 DEF ReadKeeps
  <2> PICK C : C = Chunk(o + Len(c), nfiles)
    OBVIOUS
  <2>1. C \in Seq(Entries)
    <3> PICK m : m = o + Len(c)
      OBVIOUS
    <3>1. m \in 0 .. nfiles
      BY <1>7
    <3> PICK k : k = nfiles
      OBVIOUS
    <3>2. Chunk(m, k) \in Seq(Entries)
      BY <3>1, ChunkIs
    <3> QED
      BY <3>2
  <2>2. Filter(a, K) = Filter(c, K)
    <3>1. a = Filter(c, live \cup {0, 1})
      BY DEF Alive
    <3>2. (live \cup {0, 1}) \cap K = K
      OBVIOUS
    <3>3. Filter(Filter(c, live \cup {0, 1}), K) = Filter(c, (live \cup {0, 1}) \cap K)
      BY ONLY <1>6, FilterFilter
    <3> QED
      BY <3>1, <3>2, <3>3
  <2> PICK D : D = Filter(d, K)
    OBVIOUS
  <2> PICK B : B = Filter(b, K)
    OBVIOUS
  <2> PICK A : A = Filter(c, K)
    OBVIOUS
  <2> PICK E : E = Filter(C, K)
    OBVIOUS
  <2>3. D \in Seq(Entries) /\ B \in Seq(Entries) /\ A \in Seq(Entries) /\ E \in Seq(Entries)
    BY <1>1, <1>2, <1>6, <2>1, FilterType
  <2>4. Filter(r, K) = D \o (B \o A)
    <3> PICK db : db = d \o b
      OBVIOUS
    <3>1. db \in Seq(Entries) /\ a \in Seq(Entries) /\ r = db \o a
      BY <1>4, <1>8
    <3>2. Filter(db \o a, K) = Filter(db, K) \o Filter(a, K)
      BY ONLY <3>1, FilterConcat
    <3>3. d \in Seq(Entries) /\ b \in Seq(Entries)
      BY <1>1, <1>2
    <3>4. Filter(d \o b, K) = Filter(d, K) \o Filter(b, K)
      BY ONLY <3>3, FilterConcat
    <3>5. Assoc(D, B, A)
      BY ONLY <2>3, AssocIs
    <3> QED
      BY <2>2, <3>1, <3>2, <3>4, <3>5 DEF Assoc
  <2>5. Filter(Chunk(o, nfiles), K) = A \o E
    <3>1. Filter(c \o C, K) = Filter(c, K) \o Filter(C, K)
      BY ONLY <1>6, <2>1, FilterConcat
    <3> QED
      BY <1>7, <3>1
  <2>6. Rest(s, K) = B \o (A \o E)
    BY <2>5 DEF Rest
  <2>7. Rest(rd, K) = E
    <3>1. Rest(rd, K) = Filter(<<>>, K) \o Filter(C, K)
      BY <1>11 DEF Rest
    <3>2. Filter(<<>>, K) = <<>>
      BY FilterEmpty
    <3> QED
      BY <2>3, <3>1, <3>2, ConcatEmptySeq
  <2>8. (D \o (B \o A)) \o E = D \o (B \o (A \o E))
    <3> PICK BA : BA = B \o A
      OBVIOUS
    <3>1. BA \in Seq(Entries)
      BY <2>3, ConcatProperties
    <3>2. Assoc(D, BA, E)
      BY ONLY <2>3, <3>1, AssocIs
    <3>3. Assoc(B, A, E)
      BY ONLY <2>3, AssocIs
    <3> QED
      BY <3>2, <3>3 DEF Assoc
  <2> QED
    BY <2>4, <2>6, <2>7, <2>8
<1> QED
  BY <1>12, <1>13, <1>14

(* ReadDir from any position. *)
LEMMA ReadIs ==
  ASSUME nfiles \in Nat, NEW s, Placed(s), NEW rd, rd = ReadFrom(s)
  PROVE  ReadForm(s, rd) /\ ReadEnd(s, rd) /\ ReadKeeps(s, rd)
<1>1. Len(s.buffer) \in Nat
  BY LenProperties DEF Placed
<1>2. Len(s.buffer) > MaxEntries \/ Len(s.buffer) <= MaxEntries
  BY <1>1, MaxEntriesAssumption
<1> QED
  BY <1>2, ReadLong, ReadShort

-----------------------------------------------------------------------------
(* A query. *)

(* The positions a query reads from. *)
LEMMA PositionIs ==
  ASSUME TypeOK, Fresh, NEW restart \in BOOLEAN, NEW s, s = Position(restart)
  PROVE  /\ nfiles \in Nat
         /\ Placed(s)
         /\ (restart \/ dirPos = 0) => s.dirPos = 0
         /\ ~restart => s.off = off /\ s.buffer = dirBuffer /\ s.dirPos = dirPos
<1>1. nfiles \in Nat
  BY MaxFilesAssumption DEF TypeOK
<1>2. MaxEntries \in Nat
  BY MaxEntriesAssumption
<1>3. CASE restart
  <2>1. s.off = 0 /\ s.dirPos = 0 /\ s.buffer = <<>>
    BY <1>3 DEF Position
  <2>2. <<>> \in Seq(Entries) /\ Len(<<>>) = 0
    BY EmptySeq
  <2>3. 0 <= MaxEntries + 2
    BY <1>2
  <2>4. Placed(s)
    BY <1>1, <2>1, <2>2, <2>3 DEF Placed
  <2> QED
    BY <1>1, <1>3, <2>1, <2>4
<1>4. CASE ~restart
  <2>1. s.off = off /\ s.buffer = dirBuffer /\ s.dirPos = dirPos
    BY <1>4 DEF Position
  <2>2. Placed(s)
    BY <2>1 DEF Placed, TypeOK, Fresh
  <2> QED
    BY <1>1, <1>4, <2>1, <2>2
<1> QED
  BY <1>3, <1>4

(* A query in the course of a scan, or at the start of one. *)
Scans(p, restart) == restart \/ dirPos = 0 \/ (scan.active /\ p = scan.pattern)

(* What a query leaves, in terms of what it read, h being consumed. *)
QueryLeaves(p, restart, rd, h, t) ==
  LET items == Filter(h, Wanted(p))
      goes  == scan.active /\ ~restart
  IN
  /\ off' = rd.off /\ dirPos' = 1 /\ dirBuffer' = t \o rd.buffer
  /\ scan' = [pattern |-> p, got |-> IF goes THEN scan.got \o items ELSE items,
              active |-> items # <<>>, asked |-> goes /\ scan.asked,
              status |-> IF rd.eof THEN "NO_MORE_FILES"
                         ELSE IF items = <<>> THEN "NO_SUCH_FILE" ELSE "ok"]
  /\ UNCHANGED <<nfiles, live, deleteAfterClose, handle>>

(* The batch is cut into what is consumed and what is put back. *)
Cut(rd, h, t) ==
  /\ h \in Seq(Entries) /\ t \in Seq(Entries) /\ h \o t = rd.results
  /\ Len(h) + Len(t) = Len(rd.results)

(* A query reads, cuts the batch in two and leaves the second part. *)
LEMMA QueryReads ==
  ASSUME TypeOK, Fresh, NEW p, NEW restart \in BOOLEAN, NEW single \in BOOLEAN, NEW maxOut,
         Query(p, restart, single, maxOut)
  PROVE  \E s, rd, h, t :
           /\ s = Position(restart) /\ rd = ReadFrom(s)
           /\ ReadForm(s, rd) /\ ReadEnd(s, rd) /\ ReadKeeps(s, rd)
           /\ Cut(rd, h, t) /\ QueryLeaves(p, restart, rd, h, t)
<1> PICK s : s = Position(restart)
  OBVIOUS
<1> PICK rd : rd = ReadFrom(s)
  OBVIOUS
<1>1. ReadForm(s, rd) /\ ReadEnd(s, rd) /\ ReadKeeps(s, rd)
  BY PositionIs, ReadIs
<1> PICK r : r = rd.results
  OBVIOUS
<1>2. r \in Seq(Entries) /\ Len(r) \in Nat
  BY <1>1, LenProperties DEF ReadForm
<1> PICK n : n = Consumed(r, p, single, maxOut)
  OBVIOUS
<1>3. n \in 0 .. Len(r)
  BY <1>2, ConsumedIs
<1> PICK h : h = SubSeq(r, 1, n)
  OBVIOUS
<1> PICK t : t = SubSeq(r, n + 1, Len(r))
  OBVIOUS
<1>4. \A i \in 1 .. Len(r) : r[i] \in Entries
  BY <1>2, ElementOfSeq
<1>5. h \in Seq(Entries)
  <2>1. \A i \in 1 .. n : r[i] \in Entries
    BY <1>2, <1>3, <1>4
  <2>2. 1 \in Int /\ n \in Int
    BY <1>2, <1>3
  <2> QED
    BY <2>1, <2>2, SubSeqProperties
<1>6. t \in Seq(Entries)
  <2>1. \A i \in n + 1 .. Len(r) : r[i] \in Entries
    BY <1>2, <1>3, <1>4
  <2>2. n + 1 \in Int /\ Len(r) \in Int
    BY <1>2, <1>3
  <2> QED
    BY <2>1, <2>2, SubSeqProperties
<1>7. h \o t = r
  <2> PICK k : k = Len(r)
    OBVIOUS
  <2>1. 1 \in 1 .. Len(r) + 1 /\ n \in 1 - 1 .. Len(r) /\ k \in n .. Len(r) /\ r \in Seq(Entries)
    BY <1>2, <1>3
  <2>2. SubSeq(r, 1, n) \o SubSeq(r, n + 1, k) = SubSeq(r, 1, k)
    BY ONLY <2>1, ConcatAdjacentSubSeq
  <2>3. SubSeq(r, 1, Len(r)) = r
    BY <1>2, SubSeqFull
  <2> QED
    BY <2>2, <2>3
<1>8. Len(h) + Len(t) = Len(r)
  <2>1. Len(h \o t) = Len(h) + Len(t)
    BY ONLY <1>5, <1>6, ConcatProperties
  <2> QED
    BY <1>7, <2>1
<1>9. Cut(rd, h, t)
  BY <1>5, <1>6, <1>7, <1>8 DEF Cut
<1>10. QueryLeaves(p, restart, rd, h, t)
  BY DEF Query, QueryLeaves, ReadDir, PutBackDirEntries
<1> QED
  BY <1>1, <1>9, <1>10

(* The form of what a query leaves. *)
LEMMA QueryTypes ==
  ASSUME TypeOK, Fresh, NEW p \in Patterns \cup {"*"}, NEW restart \in BOOLEAN,
         NEW single \in BOOLEAN, NEW maxOut, Query(p, restart, single, maxOut)
  PROVE  TypeOK' /\ Fresh'
<1>1. PICK s, rd, h, t :
        /\ s = Position(restart) /\ rd = ReadFrom(s)
        /\ ReadForm(s, rd) /\ ReadEnd(s, rd) /\ ReadKeeps(s, rd)
        /\ Cut(rd, h, t) /\ QueryLeaves(p, restart, rd, h, t)
  BY QueryReads
<1>2. h \in Seq(Entries) /\ t \in Seq(Entries) /\ Len(h) + Len(t) = Len(rd.results)
  BY <1>1 DEF Cut
<1>3. rd.buffer \in Seq(Entries) /\ Len(rd.results) + Len(rd.buffer) <= MaxEntries + 2
      /\ rd.off \in 0 .. nfiles
  BY <1>1 DEF ReadForm
<1> PICK b : b = rd.buffer
  OBVIOUS
<1>4. b \in Seq(Entries)
  BY <1>3
<1>5. t \o b \in Seq(Entries) /\ Len(t \o b) = Len(t) + Len(b)
  BY ONLY <1>2, <1>4, ConcatProperties
<1>6. Len(t \o b) <= MaxEntries + 2
  <2> PICK lh : lh = Len(h)
    OBVIOUS
  <2> PICK lt : lt = Len(t)
    OBVIOUS
  <2> PICK lb : lb = Len(b)
    OBVIOUS
  <2>1. lh \in Nat /\ lt \in Nat /\ lb \in Nat
    BY <1>2, <1>4, LenProperties
  <2>2. (lh + lt) + lb <= MaxEntries + 2
    BY <1>2, <1>3
  <2>3. lt + lb <= MaxEntries + 2
    BY ONLY <2>1, <2>2, MaxEntriesAssumption
  <2> QED
    BY <1>5, <2>3
<1> PICK items : items = Filter(h, Wanted(p))
  OBVIOUS
<1>7. items \in Seq(Entries)
  BY <1>2, FilterType
<1> PICK goes : goes = (scan.active /\ ~restart)
  OBVIOUS
<1>8. goes \in BOOLEAN
  BY DEF TypeOK
<1>9. scan.got \in Seq(Entries) /\ scan.asked \in BOOLEAN
  BY DEF TypeOK
<1> PICK got : got = IF goes THEN scan.got \o items ELSE items
  OBVIOUS
<1>10. got \in Seq(Entries)
  <2>1. scan.got \o items \in Seq(Entries)
    BY <1>7, <1>9, ConcatProperties
  <2> QED
    BY <1>7, <2>1
<1> PICK status : status = IF rd.eof THEN "NO_MORE_FILES"
                           ELSE IF items = <<>> THEN "NO_SUCH_FILE" ELSE "ok"
  OBVIOUS
<1>11. status \in {"none", "ok", "NO_SUCH_FILE", "NO_MORE_FILES", "ACCESS_DENIED"}
  OBVIOUS
<1>12. off' = rd.off /\ dirPos' = 1 /\ dirBuffer' = t \o b
       /\ UNCHANGED <<nfiles, live, deleteAfterClose, handle>>
  BY <1>1 DEF QueryLeaves
<1>13. scan' = [pattern |-> p, got |-> got, active |-> items # <<>>,
                asked |-> goes /\ scan.asked, status |-> status]
  BY <1>1 DEF QueryLeaves
<1>14. Entries' = Entries /\ Files' = Files
  BY <1>12 DEF Entries, Files
<1>15. scan' \in [active : BOOLEAN, pattern : Patterns \cup {"*"}, got : Seq(Entries),
                  status : {"none", "ok", "NO_SUCH_FILE", "NO_MORE_FILES", "ACCESS_DENIED"},
                  asked : BOOLEAN]
  <2> PICK act : act = (items # <<>>)
    OBVIOUS
  <2> PICK ask : ask = (goes /\ scan.asked)
    OBVIOUS
  <2>1. act \in BOOLEAN /\ ask \in BOOLEAN
    BY <1>8, <1>9
  <2>2. scan' = [pattern |-> p, got |-> got, active |-> act, asked |-> ask, status |-> status]
    BY <1>13
  <2> QED
    BY <1>10, <1>11, <2>1, <2>2
<1>16. TypeOK'
  BY <1>3, <1>5, <1>6, <1>12, <1>14, <1>15 DEF TypeOK
<1>17. Fresh'
  BY <1>12 DEF Fresh
<1> QED
  BY <1>16, <1>17

(* The entries a client has got, and those the handle has still to return,   *)
(* before and after a query that reads from s and consumes h.                *)
Regrouped(g, h, t, b, c) == (g \o h) \o ((t \o b) \o c) = g \o ((h \o t) \o (b \o c))

(* Concatenation is associative. *)
LEMMA Regroup ==
  ASSUME NEW X, NEW g \in Seq(X), NEW h \in Seq(X), NEW t \in Seq(X), NEW b \in Seq(X),
         NEW c \in Seq(X)
  PROVE  Regrouped(g, h, t, b, c)
<1> PICK bc : bc = b \o c
  OBVIOUS
<1>1. bc \in Seq(X)
  BY ConcatProperties
<1>2. Assoc(t, b, c)
  BY AssocIs
<1> PICK tbc : tbc = t \o bc
  OBVIOUS
<1>3. tbc \in Seq(X)
  BY <1>1, ConcatProperties
<1>4. Assoc(g, h, tbc)
  BY <1>3, AssocIs
<1>5. Assoc(h, t, bc)
  BY <1>1, AssocIs
<1> QED
  BY <1>2, <1>4, <1>5 DEF Regrouped, Assoc

(* What the query starts from makes up the listing: the whole of it at the   *)
(* start of a scan, the rest of it in its course.                            *)
LEMMA FromStart ==
  ASSUME nfiles \in Nat, NEW s, Placed(s), s.dirPos = 0, NEW K
  PROVE  Filter(DotsOf(s), K) \o Rest(s, K) = Filter(Dots \o Stream, K)
<1>1. s.off = 0 /\ s.buffer = <<>> /\ DotsOf(s) = Dots
  BY DEF Placed, DotsOf
<1>2. Chunk(s.off, nfiles) = Stream
  BY <1>1, ChunkAll
<1>3. Stream \in Seq(Entries) /\ Dots \in Seq(Entries)
  BY <1>1, StreamIs, DotsIs
<1> PICK st : st = Stream
  OBVIOUS
<1> PICK f : f = Filter(st, K)
  OBVIOUS
<1>4. f \in Seq(Entries)
  BY <1>3, FilterType
<1>5. Rest(s, K) = <<>> \o f
  <2>1. Filter(<<>>, K) = <<>>
    BY FilterEmpty
  <2> QED
    BY <1>1, <1>2, <2>1 DEF Rest
<1>6. <<>> \o f = f
  BY <1>4, ConcatEmptySeq
<1>7. Filter(Dots \o st, K) = Filter(Dots, K) \o Filter(st, K)
  <2> PICK d : d = Dots
    OBVIOUS
  <2>1. d \in Seq(Entries) /\ st \in Seq(Entries)
    BY <1>3
  <2>2. Filter(d \o st, K) = Filter(d, K) \o Filter(st, K)
    BY ONLY <2>1, FilterConcat
  <2> QED
    BY <2>2
<1> QED
  BY <1>1, <1>5, <1>6, <1>7

(* What the query starts from, with what the client has: G is its part of    *)
(* the answers so far.                                                       *)
Goes(restart) == scan.active /\ ~restart
GotSoFar(restart) == IF Goes(restart) THEN scan.got ELSE <<>>

Before(g, s, K) ==
  /\ g \in Seq(Entries)
  /\ Filter(g, K) \o (Filter(DotsOf(s), K) \o Rest(s, K)) = Filter(Dots \o Stream, K)
  /\ s.dirPos = 1 => Filter(g, K) \o Rest(s, K) = Filter(Dots \o Stream, K)

(* Before a query of a scan that is not disturbed it makes up the listing. *)
LEMMA BeforeQuery ==
  ASSUME IInv, NEW p, NEW restart \in BOOLEAN, Scans(p, restart), NEW s, s = Position(restart),
         NEW K, K = Keeps(p), ~ (Goes(restart) /\ scan.asked), NEW g, g = GotSoFar(restart)
  PROVE  Before(g, s, K)
<1>1. TypeOK /\ Fresh /\ ScanKept
  BY DEF IInv
<1>2. /\ nfiles \in Nat
      /\ Placed(s)
      /\ (restart \/ dirPos = 0) => s.dirPos = 0
      /\ ~restart => s.off = off /\ s.buffer = dirBuffer /\ s.dirPos = dirPos
  BY <1>1, PositionIs
<1>3. DotsOf(s) \in Seq(Entries) /\ Rest(s, K) \in Seq(Entries)
  <2>1. s.off \in 0 .. nfiles /\ s.buffer \in Seq(Entries)
    BY <1>2 DEF Placed
  <2> PICK o : o = s.off
    OBVIOUS
  <2> PICK n : n = nfiles
    OBVIOUS
  <2> PICK c : c = Chunk(o, n)
    OBVIOUS
  <2>2. c \in Seq(Entries)
    BY <1>2, <2>1, ChunkIs
  <2>3. Filter(s.buffer, K) \in Seq(Entries) /\ Filter(c, K) \in Seq(Entries)
    BY <2>1, <2>2, FilterType
  <2>4. Filter(s.buffer, K) \o Filter(c, K) \in Seq(Entries)
    BY ONLY <2>3, ConcatProperties
  <2> QED
    BY <1>2, <2>4, DotsIs DEF Rest
<1>4. CASE Goes(restart)
  <2>1. scan.active /\ ~restart /\ ~scan.asked
    BY <1>4 DEF Goes
  <2>2. dirPos = 1 /\ p = scan.pattern
    BY <1>1, <2>1 DEF Fresh, Scans, TypeOK
  <2>3. g = scan.got /\ g \in Seq(Entries)
    BY <1>1, <1>4 DEF GotSoFar, TypeOK
  <2>4. Exact(K)
    BY <1>1, <2>1, <2>2 DEF ScanKept
  <2>5. s.dirPos = 1 /\ s = Position(FALSE)
    BY <1>2, <2>1, <2>2 DEF Position
  <2>6. Filter(g, K) \o Rest(s, K) = Filter(Dots \o Stream, K)
    BY <2>1, <2>3, <2>4, <2>5 DEF Exact
  <2>7. DotsOf(s) = <<>>
    BY <2>5 DEF DotsOf
  <2>8. Filter(<<>>, K) = <<>>
    BY FilterEmpty
  <2>9. <<>> \o Rest(s, K) = Rest(s, K)
    BY <1>3, ConcatEmptySeq
  <2>10. Filter(DotsOf(s), K) \o Rest(s, K) = Rest(s, K)
    BY <2>7, <2>8, <2>9
  <2> QED
    BY <2>3, <2>6, <2>10 DEF Before
<1>5. CASE ~Goes(restart)
  <2>1. restart \/ dirPos = 0
    BY <1>5 DEF Goes, Scans
  <2>2. s.dirPos = 0
    BY <1>2, <2>1
  <2> PICK r : r = Filter(DotsOf(s), K) \o Rest(s, K)
    OBVIOUS
  <2>3. r = Filter(Dots \o Stream, K)
    BY <1>2, <2>2, FromStart
  <2>4. g = <<>> /\ g \in Seq(Entries)
    BY <1>5, EmptySeq DEF GotSoFar
  <2>5. Filter(g, K) = <<>>
    BY <2>4, FilterEmpty
  <2>6. r \in Seq(Entries)
    <3> PICK d : d = Filter(DotsOf(s), K)
      OBVIOUS
    <3>1. d \in Seq(Entries)
      BY <1>3, FilterType
    <3> QED
      BY <1>3, <3>1, ConcatProperties
  <2>7. <<>> \o r = r
    BY <2>6, ConcatEmptySeq
  <2>8. Filter(g, K) \o r = Filter(Dots \o Stream, K)
    BY <2>3, <2>5, <2>7
  <2> QED
    BY <2>2, <2>4, <2>8 DEF Before
<1> QED
  BY <1>4, <1>5

(* A query keeps the scan exact. *)
LEMMA QueryExact ==
  ASSUME IInv, NEW p \in Patterns \cup {"*"}, NEW restart \in BOOLEAN,
         NEW single \in BOOLEAN, NEW maxOut, Query(p, restart, single, maxOut),
         Scans(p, restart)
  PROVE  ScanKept'
<1>1. TypeOK /\ Fresh /\ ScanKept
  BY DEF IInv
<1>2. PICK s, rd, h, t :
        /\ s = Position(restart) /\ rd = ReadFrom(s)
        /\ ReadForm(s, rd) /\ ReadEnd(s, rd) /\ ReadKeeps(s, rd)
        /\ Cut(rd, h, t) /\ QueryLeaves(p, restart, rd, h, t)
  BY <1>1, QueryReads
<1> PICK items : items = Filter(h, Wanted(p))
  OBVIOUS
<1> PICK g : g = GotSoFar(restart)
  OBVIOUS
<1> PICK K : K = Keeps(p)
  OBVIOUS
<1> PICK b : b = rd.buffer
  OBVIOUS
<1>3. off' = rd.off /\ dirPos' = 1 /\ dirBuffer' = t \o b
      /\ UNCHANGED <<nfiles, live, deleteAfterClose, handle>>
  BY <1>2 DEF QueryLeaves
<1>4. scan' = [pattern |-> p, got |-> IF Goes(restart) THEN scan.got \o items ELSE items,
               active |-> items # <<>>, asked |-> Goes(restart) /\ scan.asked,
               status |-> IF rd.eof THEN "NO_MORE_FILES"
                          ELSE IF items = <<>> THEN "NO_SUCH_FILE" ELSE "ok"]
  BY <1>2 DEF QueryLeaves, Goes
<1>5. scan'.pattern = p
  BY <1>4
<1> SUFFICES ASSUME ~scan'.asked PROVE Exact(Keeps(scan.pattern))'
  BY DEF ScanKept
<1>6. ~ (Goes(restart) /\ scan.asked)
  BY <1>4
<1>7. Keeps(scan.pattern)' = K
  BY <1>3, <1>5 DEF Keeps, Wanted, Entries
<1>8. h \in Seq(Entries) /\ t \in Seq(Entries) /\ h \o t = rd.results
  BY <1>2 DEF Cut
<1>9. b \in Seq(Entries) /\ rd.off \in 0 .. nfiles
  BY <1>2 DEF ReadForm
<1>10. /\ g \in Seq(Entries)
       /\ Filter(g, K) \o (Filter(DotsOf(s), K) \o Rest(s, K)) = Filter(Dots \o Stream, K)
       /\ s.dirPos = 1 => Filter(g, K) \o Rest(s, K) = Filter(Dots \o Stream, K)
  <2>1. Before(g, s, K)
    BY <1>2, <1>6, BeforeQuery
  <2> QED
    BY <2>1 DEF Before
<1> PICK c : c = Chunk(rd.off, nfiles)
  OBVIOUS
<1>11. c \in Seq(Entries)
  <2> PICK o : o = rd.off
    OBVIOUS
  <2> PICK n : n = nfiles
    OBVIOUS
  <2>1. o \in 0 .. nfiles /\ n \in Nat /\ nfiles \in Nat
    BY <1>1, <1>9, MaxFilesAssumption DEF TypeOK
  <2>2. Chunk(o, n) \in Seq(Entries)
    BY <2>1, ChunkIs
  <2> QED
    BY <2>2
<1>12. Rest(Position(FALSE), K)' = Filter(t \o b, K) \o Filter(c, K)
  BY <1>3 DEF Rest, Position, Chunk, Stream, Lesser
<1>13. (Dots \o Stream)' = Dots \o Stream
  BY <1>3 DEF Dots, Stream
<1>14. Filter(items, K) = Filter(h, K)
  <2> PICK W : W = Wanted(p)
    OBVIOUS
  <2>1. W \cap K = K
    BY DEF Keeps
  <2>2. Filter(Filter(h, W), K) = Filter(h, W \cap K)
    BY ONLY <1>8, FilterFilter
  <2> QED
    BY <2>1, <2>2
<1>15. items \in Seq(Entries)
  BY <1>8, FilterType
<1>16. Filter(scan'.got, K) = Filter(g, K) \o Filter(h, K)
  <2>1. scan'.got = g \o items
    <3>1. CASE Goes(restart)
      BY <1>4, <3>1 DEF GotSoFar
    <3>2. CASE ~Goes(restart)
      <4>1. <<>> \o items = items
        BY <1>15, ConcatEmptySeq
      <4> QED
        BY <1>4, <3>2, <4>1 DEF GotSoFar
    <3> QED
      BY <3>1, <3>2
  <2>2. Filter(g \o items, K) = Filter(g, K) \o Filter(items, K)
    BY ONLY <1>10, <1>15, FilterConcat
  <2> QED
    BY <1>14, <2>1, <2>2
<1> PICK fg : fg = Filter(g, K)
  OBVIOUS
<1> PICK fh : fh = Filter(h, K)
  OBVIOUS
<1> PICK ft : ft = Filter(t, K)
  OBVIOUS
<1> PICK fb : fb = Filter(b, K)
  OBVIOUS
<1> PICK fc : fc = Filter(c, K)
  OBVIOUS
<1>17. fg \in Seq(Entries) /\ fh \in Seq(Entries) /\ ft \in Seq(Entries) /\ fb \in Seq(Entries)
       /\ fc \in Seq(Entries)
  BY <1>8, <1>9, <1>10, <1>11, FilterType
<1>18. Filter(t \o b, K) = ft \o fb
  <2>1. Filter(t \o b, K) = Filter(t, K) \o Filter(b, K)
    BY ONLY <1>8, <1>9, FilterConcat
  <2> QED
    BY <2>1
<1>19. Filter(rd.results, K) = fh \o ft
  <2>1. Filter(h \o t, K) = Filter(h, K) \o Filter(t, K)
    BY ONLY <1>8, FilterConcat
  <2> QED
    BY <1>8, <2>1
<1>20. Rest(rd, K) = fb \o fc
  BY DEF Rest
<1>21. (fh \o ft) \o (fb \o fc) = Filter(DotsOf(s), K) \o Rest(s, K)
  <2>1. K \in SUBSET (live \cup {0, 1})
    BY DEF Keeps
  <2> QED
    BY <1>2, <1>19, <1>20, <2>1 DEF ReadKeeps
<1>22. (fg \o fh) \o ((ft \o fb) \o fc) = fg \o ((fh \o ft) \o (fb \o fc))
  <2>1. Regrouped(fg, fh, ft, fb, fc)
    BY ONLY <1>17, Regroup
  <2> QED
    BY <2>1 DEF Regrouped
<1>23. Filter(scan'.got, K) \o Rest(Position(FALSE), K)' = Filter(Dots \o Stream, K)
  BY <1>10, <1>12, <1>16, <1>18, <1>21, <1>22
<1>24. scan'.status = "NO_MORE_FILES" => Filter(scan'.got, K) = Filter(Dots \o Stream, K)
  <2> SUFFICES ASSUME scan'.status = "NO_MORE_FILES"
               PROVE  Filter(scan'.got, K) = Filter(Dots \o Stream, K)
    OBVIOUS
  <2>1. rd.eof
    BY <1>4
  <2>2. s.dirPos = 1 /\ s.buffer = <<>> /\ s.off = nfiles /\ rd.results = <<>>
    BY <1>2, <2>1 DEF ReadEnd
  <2>3. h = <<>>
    <3>1. h \o t = <<>>
      BY <1>8, <2>2
    <3> QED
      BY ONLY <1>8, <3>1, ConcatEqualIffEmpty
  <2>4. fh = <<>>
    BY <2>3, FilterEmpty
  <2>5. fg \o <<>> = fg
    BY <1>17, ConcatEmptySeq
  <2>6. Rest(s, K) = <<>>
    <3>1. nfiles \in Nat
      BY <1>1, MaxFilesAssumption DEF TypeOK
    <3>2. Chunk(s.off, nfiles) = <<>>
      BY <2>2, <3>1, ChunkEnd
    <3>3. Filter(<<>>, K) = <<>>
      BY FilterEmpty
    <3>4. <<>> \o <<>> = <<>>
      BY EmptySeq, ConcatEmptySeq
    <3> QED
      BY <2>2, <3>2, <3>3, <3>4 DEF Rest
  <2>7. fg = Filter(Dots \o Stream, K)
    BY <1>10, <2>2, <2>5, <2>6
  <2> QED
    BY <1>16, <2>4, <2>5, <2>7
<1> QED
  BY <1>7, <1>13, <1>23, <1>24 DEF Exact

-----------------------------------------------------------------------------
(* The other actions. *)

(* A scan is exact for fewer entries, when it is for more. *)
LEMMA ExactNarrows ==
  ASSUME TypeOK, NEW K, NEW J, J \subseteq K, Exact(K)
  PROVE  Exact(J)
<1>1. nfiles \in Nat /\ scan.got \in Seq(Entries) /\ dirBuffer \in Seq(Entries)
        /\ off \in 0 .. nfiles
  BY MaxFilesAssumption DEF TypeOK
<1> PICK g : g = scan.got
  OBVIOUS
<1> PICK b : b = dirBuffer
  OBVIOUS
<1> PICK c : c = Chunk(off, nfiles)
  OBVIOUS
<1> PICK l : l = Dots \o Stream
  OBVIOUS
<1>2. c \in Seq(Entries)
  <2> PICK o : o = off
    OBVIOUS
  <2> PICK n : n = nfiles
    OBVIOUS
  <2>1. Chunk(o, n) \in Seq(Entries)
    BY <1>1, ChunkIs
  <2> QED
    BY <2>1
<1>3. l \in Seq(Entries)
  <2>1. 0 \in Entries /\ 1 \in Entries
    BY <1>1 DEF Entries
  <2>2. Dots \in Seq(Entries) /\ Stream \in Seq(Entries)
    BY <1>1, <2>1, StreamIs DEF Dots
  <2> QED
    BY <2>2, ConcatProperties
<1>4. g \in Seq(Entries) /\ b \in Seq(Entries)
  BY <1>1
<1>5. K \cap J = J
  OBVIOUS
<1>6. Filter(g, J) = Filter(Filter(g, K), J)
  <2>1. Filter(Filter(g, K), J) = Filter(g, K \cap J)
    BY ONLY <1>4, FilterFilter
  <2> QED
    BY <1>5, <2>1
<1>7. Filter(b, J) = Filter(Filter(b, K), J)
  <2>1. Filter(Filter(b, K), J) = Filter(b, K \cap J)
    BY ONLY <1>4, FilterFilter
  <2> QED
    BY <1>5, <2>1
<1>8. Filter(c, J) = Filter(Filter(c, K), J)
  <2>1. Filter(Filter(c, K), J) = Filter(c, K \cap J)
    BY ONLY <1>2, FilterFilter
  <2> QED
    BY <1>5, <2>1
<1>9. Filter(l, J) = Filter(Filter(l, K), J)
  <2>1. Filter(Filter(l, K), J) = Filter(l, K \cap J)
    BY ONLY <1>3, FilterFilter
  <2> QED
    BY <1>5, <2>1
<1> PICK fg : fg = Filter(g, K)
  OBVIOUS
<1> PICK fb : fb = Filter(b, K)
  OBVIOUS
<1> PICK fc : fc = Filter(c, K)
  OBVIOUS
<1>10. fg \in Seq(Entries) /\ fb \in Seq(Entries) /\ fc \in Seq(Entries)
  BY <1>2, <1>4, FilterType
<1> PICK fr : fr = fb \o fc
  OBVIOUS
<1>11. fr \in Seq(Entries)
  BY <1>10, ConcatProperties
<1>12. Filter(fb \o fc, J) = Filter(fb, J) \o Filter(fc, J)
  BY ONLY <1>10, FilterConcat
<1>13. Filter(fg \o fr, J) = Filter(fg, J) \o Filter(fr, J)
  BY ONLY <1>10, <1>11, FilterConcat
<1>14. Rest(Position(FALSE), K) = fr
  BY DEF Rest, Position
<1>15. Rest(Position(FALSE), J) = Filter(fr, J)
  <2>1. Rest(Position(FALSE), J) = Filter(b, J) \o Filter(c, J)
    BY DEF Rest, Position
  <2> QED
    BY <1>7, <1>8, <1>12, <2>1
<1>16. scan.active => Filter(g, J) \o Rest(Position(FALSE), J) = Filter(l, J)
  <2> SUFFICES ASSUME scan.active PROVE Filter(g, J) \o Rest(Position(FALSE), J) = Filter(l, J)
    OBVIOUS
  <2>1. fg \o fr = Filter(l, K)
    BY <1>14 DEF Exact
  <2> QED
    BY <1>6, <1>9, <1>13, <1>15, <2>1
<1>17. scan.status = "NO_MORE_FILES" => Filter(g, J) = Filter(l, J)
  BY <1>6, <1>9 DEF Exact
<1> QED
  BY <1>16, <1>17 DEF Exact

(* A file is removed. *)
LEMMA RemoveKeeps ==
  ASSUME IInv, NEW f \in Files, RemoveFile(f)
  PROVE  IInv'
<1>1. TypeOK /\ Fresh /\ ScanKept
  BY DEF IInv
<1>2. live' = live \ {f} /\ UNCHANGED <<nfiles, off, dirPos, dirBuffer, deleteAfterClose,
        handle, scan>>
  BY DEF RemoveFile
<1>3. Entries' = Entries /\ Files' = Files
  BY <1>2 DEF Entries, Files
<1>4. TypeOK'
  BY <1>1, <1>2, <1>3 DEF TypeOK
<1>5. Fresh'
  BY <1>1, <1>2 DEF Fresh
<1>6. ScanKept'
  <2> SUFFICES ASSUME ~scan.asked PROVE Exact(Keeps(scan.pattern))'
    BY <1>2 DEF ScanKept
  <2> PICK K : K = Keeps(scan.pattern)
    OBVIOUS
  <2> PICK J : J = Keeps(scan.pattern)'
    OBVIOUS
  <2>1. Wanted(scan.pattern)' = Wanted(scan.pattern)
    BY <1>2, <1>3 DEF Wanted
  <2>2. J \subseteq K
    BY <1>2, <2>1 DEF Keeps
  <2>3. Exact(K)
    BY <1>1 DEF ScanKept
  <2>4. Exact(J)
    BY <1>1, <2>2, <2>3, ExactNarrows
  <2>5. Exact(J)'
    BY <1>2, <2>4 DEF Exact, Rest, Position, Chunk, Stream, Lesser, Dots
  <2> QED
    BY <2>5
<1> QED
  BY <1>4, <1>5, <1>6 DEF IInv

(* A query fails. *)
LEMMA FailKeeps ==
  ASSUME IInv, NEW restart \in BOOLEAN, QueryFails(restart)
  PROVE  IInv'
<1>1. TypeOK /\ Fresh
  BY DEF IInv
<1> PICK s : s = Position(restart)
  OBVIOUS
<1>2. Placed(s) /\ nfiles \in Nat
  BY <1>1, PositionIs
<1>3. off' = s.off /\ dirPos' = s.dirPos /\ dirBuffer' = <<>>
      /\ scan' = [scan EXCEPT !.active = FALSE, !.status = "ACCESS_DENIED"]
      /\ UNCHANGED <<nfiles, live, deleteAfterClose, handle>>
  BY DEF QueryFails
<1>4. Entries' = Entries /\ Files' = Files
  BY <1>3 DEF Entries, Files
<1>5. /\ scan' \in [active : BOOLEAN, pattern : Patterns \cup {"*"}, got : Seq(Entries),
                    status : {"none", "ok", "NO_SUCH_FILE", "NO_MORE_FILES", "ACCESS_DENIED"},
                    asked : BOOLEAN]
      /\ scan'.active = FALSE /\ scan'.status = "ACCESS_DENIED"
  BY <1>1, <1>3 DEF TypeOK
<1>6. <<>> \in Seq(Entries) /\ Len(<<>>) = 0 /\ 0 <= MaxEntries + 2
  BY EmptySeq, MaxEntriesAssumption
<1>7. TypeOK'
  BY <1>1, <1>2, <1>3, <1>4, <1>5, <1>6 DEF TypeOK, Placed
<1>8. Fresh'
  BY <1>2, <1>3, <1>5 DEF Fresh, Placed
<1>9. ScanKept'
  BY <1>5 DEF ScanKept, Exact
<1> QED
  BY <1>7, <1>8, <1>9 DEF IInv

(* The directory's deletion is asked for. *)
LEMMA DispositionKeeps ==
  ASSUME IInv, SetDisposition
  PROVE  IInv'
<1>1. TypeOK /\ Fresh
  BY DEF IInv
<1> PICK s : s = Position(FALSE)
  OBVIOUS
<1>2. Placed(s) /\ nfiles \in Nat
  BY <1>1, PositionIs
<1> PICK rd : rd = ReadFrom(s)
  OBVIOUS
<1>3. ReadForm(s, rd)
  BY <1>2, ReadIs
<1>4. off' = rd.off /\ dirPos' = 1 /\ dirBuffer' = rd.buffer
      /\ scan' = [scan EXCEPT !.asked = TRUE] /\ deleteAfterClose' \in BOOLEAN
      /\ UNCHANGED <<nfiles, live, handle>>
  BY DEF SetDisposition, ReadDir
<1>5. Entries' = Entries /\ Files' = Files
  BY <1>4 DEF Entries, Files
<1>6. /\ scan' \in [active : BOOLEAN, pattern : Patterns \cup {"*"}, got : Seq(Entries),
                    status : {"none", "ok", "NO_SUCH_FILE", "NO_MORE_FILES", "ACCESS_DENIED"},
                    asked : BOOLEAN]
      /\ scan'.asked = TRUE
  BY <1>1, <1>4 DEF TypeOK
<1>7. rd.off \in 0 .. nfiles /\ rd.buffer \in Seq(Entries) /\ Len(rd.buffer) <= MaxEntries + 2
  <2>1. rd.results \in Seq(Entries) /\ rd.buffer \in Seq(Entries) /\ rd.off \in 0 .. nfiles
        /\ Len(rd.results) + Len(rd.buffer) <= MaxEntries + 2
    BY <1>3 DEF ReadForm
  <2> PICK m : m = Len(rd.results)
    OBVIOUS
  <2> PICK n : n = Len(rd.buffer)
    OBVIOUS
  <2>2. m \in Nat /\ n \in Nat
    BY <2>1, LenProperties
  <2>3. m + n <= MaxEntries + 2
    BY <2>1
  <2>4. n <= MaxEntries + 2
    BY ONLY <2>2, <2>3, MaxEntriesAssumption
  <2> QED
    BY <2>1, <2>4
<1>8. TypeOK'
  BY <1>1, <1>4, <1>5, <1>6, <1>7 DEF TypeOK
<1>9. Fresh'
  BY <1>4 DEF Fresh
<1>10. ScanKept'
  BY <1>6 DEF ScanKept
<1> QED
  BY <1>8, <1>9, <1>10 DEF IInv

(* Steps that leave the scan alone. *)
LEMMA OthersKeep ==
  ASSUME IInv, UNCHANGED <<nfiles, live, off, dirPos, dirBuffer, scan>>,
         deleteAfterClose' \in BOOLEAN, handle' \in {"open", "removed", "kept"}
  PROVE  IInv'
<1>1. TypeOK /\ Fresh /\ ScanKept
  BY DEF IInv
<1>2. Entries' = Entries /\ Files' = Files
  BY DEF Entries, Files
<1>3. TypeOK'
  BY <1>1, <1>2 DEF TypeOK
<1>4. Fresh'
  BY <1>1 DEF Fresh
<1>5. Keeps(scan.pattern)' = Keeps(scan.pattern)
  BY <1>2 DEF Keeps, Wanted
<1>6. ScanKept'
  <2> SUFFICES ASSUME ~scan.asked PROVE Exact(Keeps(scan.pattern))'
    BY DEF ScanKept
  <2> PICK K : K = Keeps(scan.pattern)
    OBVIOUS
  <2>1. Exact(K)
    BY <1>1 DEF ScanKept
  <2>2. Exact(K)'
    BY <2>1 DEF Exact, Rest, Position, Chunk, Stream, Lesser, Dots
  <2> QED
    BY <1>5, <2>2
<1> QED
  BY <1>3, <1>4, <1>6 DEF IInv

-----------------------------------------------------------------------------
(* The theorems. *)

(* Initially. *)
LEMMA InitIInv ==
  ASSUME Init
  PROVE  IInv
<1>1. nfiles \in 0 .. MaxFiles /\ nfiles \in Nat /\ MaxEntries \in Nat
  BY MaxFilesAssumption, MaxEntriesAssumption DEF Init
<1>2. <<>> \in Seq(Entries) /\ Len(<<>>) = 0
  BY EmptySeq
<1>3. scan \in [active : BOOLEAN, pattern : Patterns \cup {"*"}, got : Seq(Entries),
                status : {"none", "ok", "NO_SUCH_FILE", "NO_MORE_FILES", "ACCESS_DENIED"},
                asked : BOOLEAN]
      /\ scan.active = FALSE /\ scan.status = "none"
  BY <1>2 DEF Init
<1>4. TypeOK
  <2>1. off \in 0 .. nfiles /\ live \subseteq Files /\ dirPos \in {0, 1}
        /\ deleteAfterClose \in BOOLEAN /\ handle \in {"open", "removed", "kept"}
    <3>1. off = 0 /\ live = Files /\ dirPos = 0 /\ deleteAfterClose = FALSE /\ handle = "open"
      BY DEF Init
    <3>2. 0 \in 0 .. nfiles
      BY <1>1
    <3> QED
      BY <3>1, <3>2
  <2>2. dirBuffer = <<>> /\ 0 <= MaxEntries + 2
    BY <1>1 DEF Init
  <2>3. dirBuffer \in Seq(Entries) /\ Len(dirBuffer) <= MaxEntries + 2
    BY <1>2, <2>2
  <2> QED
    BY <1>1, <1>3, <2>1, <2>3 DEF TypeOK
<1>5. Fresh
  BY <1>3 DEF Init, Fresh
<1>6. ScanKept
  BY <1>3 DEF ScanKept, Exact
<1> QED
  BY <1>4, <1>5, <1>6 DEF IInv

(* Every step keeps the invariant. *)
LEMMA NextIInv ==
  ASSUME IInv, [Next]_vars
  PROVE  IInv'
<1>0. TypeOK /\ Fresh
  BY DEF IInv
<1>1. ASSUME NEW p \in Patterns, NEW r \in BOOLEAN, NEW s \in BOOLEAN, NEW n \in OutLens,
             StartScan(p, r, s, n)
      PROVE  IInv'
  <2>1. Query(p, r, s, n) /\ (r \/ dirPos = 0)
    BY <1>1 DEF StartScan
  <2>2. Scans(p, r)
    BY <2>1 DEF Scans
  <2>3. p \in Patterns \cup {"*"}
    OBVIOUS
  <2>4. TypeOK' /\ Fresh'
    BY <1>0, <2>1, <2>3, QueryTypes
  <2>5. ScanKept'
    BY <2>1, <2>2, <2>3, QueryExact
  <2> QED
    BY <2>4, <2>5 DEF IInv
<1>2. ASSUME NEW s \in BOOLEAN, NEW n \in OutLens, NextEntries(s, n)
      PROVE  IInv'
  <2> PICK p : p = scan.pattern
    OBVIOUS
  <2>1. Query(p, FALSE, s, n) /\ scan.active
    BY <1>2 DEF NextEntries
  <2>2. Scans(p, FALSE)
    BY <2>1 DEF Scans
  <2>3. p \in Patterns \cup {"*"}
    BY <1>0 DEF TypeOK
  <2>4. TypeOK' /\ Fresh'
    BY <1>0, <2>1, <2>3, QueryTypes
  <2>5. ScanKept'
    BY <2>1, <2>2, <2>3, QueryExact
  <2> QED
    BY <2>4, <2>5 DEF IInv
<1>3. ASSUME NEW r \in BOOLEAN, QueryFails(r) PROVE IInv'
  BY <1>3, FailKeeps
<1>4. ASSUME NEW f \in Files, RemoveFile(f) PROVE IInv'
  BY <1>4, RemoveKeeps
<1>5. CASE SetDisposition
  BY <1>5, DispositionKeeps
<1>6. CASE ClearDisposition
  <2>1. UNCHANGED <<nfiles, live, off, dirPos, dirBuffer, scan>> /\ deleteAfterClose' \in BOOLEAN
        /\ handle' \in {"open", "removed", "kept"}
    BY <1>0, <1>6 DEF ClearDisposition, TypeOK
  <2> QED
    BY <2>1, OthersKeep
<1>7. CASE Close
  <2>1. UNCHANGED <<nfiles, live, off, dirPos, dirBuffer, scan>> /\ deleteAfterClose' \in BOOLEAN
        /\ handle' \in {"open", "removed", "kept"}
    BY <1>0, <1>7 DEF Close, TypeOK
  <2> QED
    BY <2>1, OthersKeep
<1>8. CASE UNCHANGED vars
  <2>1. UNCHANGED <<nfiles, live, off, dirPos, dirBuffer, scan>> /\ deleteAfterClose' \in BOOLEAN
        /\ handle' \in {"open", "removed", "kept"}
    BY <1>0, <1>8 DEF vars, TypeOK
  <2> QED
    BY <2>1, OthersKeep
<1> QED
  BY <1>1, <1>2, <1>3, <1>4, <1>5, <1>6, <1>7, <1>8 DEF Next

(* The invariant of a handle's scan (queryDirectory, ReadDir and             *)
(* PutBackDirEntries, setDispositionInfo, removals by others).               *)
THEOREM ScanInvariant == Spec => []IInv
<1>1. Init => IInv
  BY InitIInv
<1>2. IInv /\ [Next]_vars => IInv'
  BY NextIInv
<1> QED
  BY <1>1, <1>2, PTL DEF Spec

(* Positions, buffers and answers have their form, and what is put back is   *)
(* never longer than a batch and the two dots.                               *)
THEOREM ScanTypes == Spec => []TypeOK
<1>1. IInv => TypeOK
  BY DEF IInv
<1> QED
  BY <1>1, ScanInvariant, PTL

(* Listing is the filter of the invariant. *)
LEMMA ListingIs ==
  ASSUME NEW x \in Seq(Entries)
  PROVE  Listing(x) = Filter(x, Keeps(scan.pattern))
<1> PICK A : A = live \cup {0, 1}
  OBVIOUS
<1> PICK W : W = Wanted(scan.pattern)
  OBVIOUS
<1>1. Filter(Filter(x, A), W) = Filter(x, A \cap W)
  BY FilterFilter
<1>2. Keeps(scan.pattern) = A \cap W
  BY DEF Keeps
<1> QED
  BY <1>1, <1>2 DEF Listing, Alive

(* The invariant implies the property. *)
LEMMA IInvExact ==
  ASSUME IInv
  PROVE  ScanExact
<1>1. TypeOK /\ ScanKept
  BY DEF IInv
<1>2. nfiles \in Nat /\ scan.got \in Seq(Entries) /\ dirBuffer \in Seq(Entries)
        /\ off \in 0 .. nfiles
  BY <1>1, MaxFilesAssumption DEF TypeOK
<1> SUFFICES ASSUME ~scan.asked
             PROVE  /\ scan.active =>
                         Listing(scan.got) \o Listing(dirBuffer) \o Listing(Chunk(off, nfiles))
                           = Listing(Dots \o Stream)
                    /\ scan.status = "NO_MORE_FILES" =>
                         Listing(scan.got) = Listing(Dots \o Stream)
  BY DEF ScanExact
<1> PICK K : K = Keeps(scan.pattern)
  OBVIOUS
<1>3. Exact(K)
  BY <1>1 DEF ScanKept
<1> PICK g : g = scan.got
  OBVIOUS
<1> PICK b : b = dirBuffer
  OBVIOUS
<1> PICK c : c = Chunk(off, nfiles)
  OBVIOUS
<1> PICK l : l = Dots \o Stream
  OBVIOUS
<1>4. c \in Seq(Entries)
  <2> PICK o : o = off
    OBVIOUS
  <2> PICK n : n = nfiles
    OBVIOUS
  <2>1. Chunk(o, n) \in Seq(Entries)
    BY <1>2, ChunkIs
  <2> QED
    BY <2>1
<1>5. l \in Seq(Entries)
  <2>1. 0 \in Entries /\ 1 \in Entries
    BY <1>2 DEF Entries
  <2>2. Dots \in Seq(Entries) /\ Stream \in Seq(Entries)
    BY <1>2, <2>1, StreamIs DEF Dots
  <2> QED
    BY <2>2, ConcatProperties
<1>6. g \in Seq(Entries) /\ b \in Seq(Entries)
  BY <1>2
<1>7. Listing(g) = Filter(g, K) /\ Listing(b) = Filter(b, K) /\ Listing(c) = Filter(c, K)
      /\ Listing(l) = Filter(l, K)
  BY <1>4, <1>5, <1>6, ListingIs
<1> PICK fg : fg = Filter(g, K)
  OBVIOUS
<1> PICK fb : fb = Filter(b, K)
  OBVIOUS
<1> PICK fc : fc = Filter(c, K)
  OBVIOUS
<1>8. fg \in Seq(Entries) /\ fb \in Seq(Entries) /\ fc \in Seq(Entries)
  BY <1>4, <1>6, FilterType
<1>9. Assoc(fg, fb, fc)
  BY ONLY <1>8, AssocIs
<1>10. Rest(Position(FALSE), K) = fb \o fc
  BY DEF Rest, Position
<1>11. scan.active => Listing(g) \o Listing(b) \o Listing(c) = Listing(l)
  BY <1>3, <1>7, <1>9, <1>10 DEF Exact, Assoc
<1>12. scan.status = "NO_MORE_FILES" => Listing(g) = Listing(l)
  BY <1>3, <1>7 DEF Exact
<1> QED
  BY <1>11, <1>12

(* "Put back unconsumed entries so the next QueryDirectory gets them": every *)
(* remaining entry is returned once and in order, whatever the size of the   *)
(* directory, of the batches and of the client's buffers; NO_MORE_FILES only *)
(* when all were (queryDirectory, ReadDir).                                  *)
THEOREM ScansExactly == Spec => []ScanExact
<1>1. IInv => ScanExact
  BY IInvExact
<1> QED
  BY <1>1, ScanInvariant, PTL

(* An answer with entries leaves fewer. *)
LEMMA StepProgress ==
  ASSUME IInv, NEW single \in BOOLEAN, NEW n \in OutLens, NextEntries(single, n), scan'.active
  PROVE  Remaining' < Remaining
<1>1. TypeOK /\ Fresh
  BY DEF IInv
<1> PICK p : p = scan.pattern
  OBVIOUS
<1>2. Query(p, FALSE, single, n) /\ scan.active
  BY DEF NextEntries
<1>3. PICK s, rd, h, t :
        /\ s = Position(FALSE) /\ rd = ReadFrom(s)
        /\ ReadForm(s, rd) /\ ReadEnd(s, rd) /\ ReadKeeps(s, rd)
        /\ Cut(rd, h, t) /\ QueryLeaves(p, FALSE, rd, h, t)
  BY <1>1, <1>2, QueryReads
<1>4. s.dirPos = 1 /\ s.off = off /\ s.buffer = dirBuffer
  BY <1>1, <1>2, <1>3 DEF Position, Fresh, TypeOK
<1> PICK b : b = rd.buffer
  OBVIOUS
<1>5. off' = rd.off /\ dirBuffer' = t \o b /\ nfiles' = nfiles
  BY <1>3 DEF QueryLeaves
<1>6. Filter(h, Wanted(p)) # <<>>
  BY <1>3 DEF QueryLeaves
<1>7. h \in Seq(Entries) /\ t \in Seq(Entries) /\ Len(h) + Len(t) = Len(rd.results)
  BY <1>3 DEF Cut
<1>8. b \in Seq(Entries) /\ rd.off \in 0 .. nfiles
      /\ Len(rd.results) + Len(b) + (nfiles - rd.off) <= Len(dirBuffer) + (nfiles - off)
  BY <1>3, <1>4 DEF ReadForm
<1>9. h # <<>>
  BY <1>6, FilterEmpty
<1> PICK lh : lh = Len(h)
  OBVIOUS
<1> PICK lt : lt = Len(t)
  OBVIOUS
<1> PICK lb : lb = Len(b)
  OBVIOUS
<1> PICK ld : ld = Len(dirBuffer)
  OBVIOUS
<1>10. lh \in Nat \ {0} /\ lt \in Nat /\ lb \in Nat /\ ld \in Nat
  BY <1>1, <1>7, <1>8, <1>9, LenProperties, EmptySeq DEF TypeOK
<1> PICK m : m = nfiles
  OBVIOUS
<1> PICK o : o = off
  OBVIOUS
<1> PICK q : q = rd.off
  OBVIOUS
<1>11. m \in Nat /\ o \in 0 .. m /\ q \in 0 .. m
  BY <1>1, <1>8, MaxFilesAssumption DEF TypeOK
<1>12. (lh + lt) + lb + (m - q) <= ld + (m - o)
  BY <1>7, <1>8
<1>13. lt + lb + (m - q) < ld + (m - o)
  BY ONLY <1>10, <1>11, <1>12
<1>14. Len(t \o b) = lt + lb
  <2>1. Len(t \o b) = Len(t) + Len(b)
    BY ONLY <1>7, <1>8, ConcatProperties
  <2> QED
    BY <2>1
<1>15. Remaining' = lt + lb + (m - q)
  BY <1>5, <1>14 DEF Remaining
<1>16. Remaining = ld + (m - o)
  BY DEF Remaining
<1> QED
  BY <1>13, <1>15, <1>16

(* A scan ends, however small the client's buffer: every answer with entries *)
(* takes some that are not returned again (queryDirectory).                  *)
THEOREM ScansProgress == Spec => ScanProgress
<1>1. IInv => [(\E s \in BOOLEAN, n \in OutLens : NextEntries(s, n))
                 => ~scan'.active \/ Remaining' < Remaining]_vars
  BY StepProgress
<1> QED
  BY <1>1, ScanInvariant, PTL DEF ScanProgress
=============================================================================
