----------------------------- MODULE ListProofs -----------------------------
(***************************************************************************)
(* Facts about sequences that the proofs of the other modules rest on: an  *)
(* induction over sequences, stated for a set of sequences, and what the   *)
(* flattening of a sequence of sequences is, which the models filter and   *)
(* replace lists with.                                                     *)
(***************************************************************************)
EXTENDS SequencesExt, SequenceTheorems, WellFoundedInduction, TLAPS

\* Every non-empty set of naturals has a least member.
LEMMA LeastMember ==
    ASSUME NEW T \in SUBSET Nat, T # {}
    PROVE  \E x \in T : \A y \in T : x <= y
<1>1. PICK x \in T : \A y \in T : <<y, x>> \notin OpToRel(<, Nat)
  BY NatLessThanWellFounded, WFMin, T \subseteq Nat, Zenon
<1>2. \A y \in T : ~(y < x)
  BY <1>1 DEF OpToRel
<1> QED
  BY <1>2

\* Induction over the naturals, for a set instead of a predicate.
LEMMA SetInduction ==
    ASSUME NEW T \in SUBSET Nat, 0 \in T, \A n \in T : n + 1 \in T
    PROVE  T = Nat
<1> SUFFICES ASSUME Nat \ T # {} PROVE FALSE
  OBVIOUS
<1>1. PICK x \in Nat \ T : \A y \in Nat \ T : x <= y
  BY LeastMember, Nat \ T \in SUBSET Nat
<1>2. x - 1 \in Nat /\ x - 1 \in T
  BY <1>1
<1> QED
  BY <1>1, <1>2

\* Associativity under a name: as a bare equation between concatenations it makes the
\* provers rewrite without end.
Regroups(s, t, u) == (s \o t) \o u = s \o (t \o u)

\* Concatenation is associative.
LEMMA Regrouped ==
    ASSUME NEW S, NEW s \in Seq(S), NEW t \in Seq(S), NEW u \in Seq(S)
    PROVE  Regroups(s, t, u)
BY ConcatAssociative DEF Regroups

\* Induction over sequences that grow at the end.
LEMMA SeqInduction ==
    ASSUME NEW S, NEW T \in SUBSET Seq(S), << >> \in T,
           \A s \in T, e \in S : Append(s, e) \in T
    PROVE  T = Seq(S)
<1> DEFINE N == {n \in Nat : \A s \in Seq(S) : Len(s) = n => s \in T}
<1>1. 0 \in N
  BY EmptySeq
<1>2. ASSUME NEW n \in N PROVE n + 1 \in N
  <2> SUFFICES ASSUME NEW s \in Seq(S), Len(s) = n + 1 PROVE s \in T
    OBVIOUS
  <2>1. s # << >>
    OBVIOUS
  <2>2. PICK front \in Seq(S), e \in S : s = Append(front, e)
    BY <2>1, SequenceEmptyOrAppend
  <2>3. Len(front) = n
    BY <2>2
  <2> QED
    BY <2>2, <2>3
<1>3. N = Nat
  <2> HIDE DEF N
  <2>1. N \in SUBSET Nat BY DEF N
  <2> QED BY <1>1, <1>2, <2>1, SetInduction
<1> QED
  <2> SUFFICES ASSUME NEW s \in Seq(S) PROVE s \in T
    OBVIOUS
  <2>1. Len(s) \in N BY <1>3
  <2> QED BY <2>1

\* A function on the indices of a sequence is a sequence as long.
LEMMA MappedSeq ==
    ASSUME NEW S, NEW T, NEW s \in Seq(S), NEW f, f = [i \in DOMAIN s |-> f[i]],
           \A i \in DOMAIN s : f[i] \in T
    PROVE  /\ f \in Seq(T)
           /\ Len(f) = Len(s)
           /\ DOMAIN f = 1 .. Len(s)
<1>1. DOMAIN s = 1 .. Len(s) /\ Len(s) \in Nat
  BY LenProperties
<1>2. f \in [1 .. Len(s) -> T]
  BY <1>1
<1>3. f \in Seq(T)
  BY <1>1, <1>2, SeqDef
<1>4. DOMAIN f = 1 .. Len(s) /\ DOMAIN f = 1 .. Len(f)
  BY <1>2, <1>3, LenProperties
<1> QED
  BY <1>1, <1>3, <1>4, LenProperties

---------------------------------------------------------------------------
(* FlattenSeq is a recursive function on the indices of its argument.  It is a CHOOSE, so
   that there is such a function is the first thing to show, and that any two agree the
   second. *)

\* f is the flattening of every beginning of parts up to the n-th.
Flattens(f, parts, n) ==
    f = [i \in 1 .. n |-> IF i = 1 THEN parts[i] ELSE f[i - 1] \o parts[i]]

\* One step of the flattening.
LEMMA FlattensAt ==
    ASSUME NEW f, NEW parts, NEW n, Flattens(f, parts, n), NEW i \in 1 .. n
    PROVE  f[i] = IF i = 1 THEN parts[i] ELSE f[i - 1] \o parts[i]
<1> DEFINE g == [j \in 1 .. n |-> IF j = 1 THEN parts[j] ELSE f[j - 1] \o parts[j]]
<1>1. g[i] = IF i = 1 THEN parts[i] ELSE f[i - 1] \o parts[i]
  OBVIOUS
<1>2. f = g
  BY DEF Flattens
<1> QED
  BY <1>1, <1>2, Zenon

\* There is a flattening of the first n lists, by induction over n.
LEMMA FlattensExists ==
    ASSUME NEW parts, NEW n \in Nat
    PROVE  \E f : Flattens(f, parts, n)
<1> DEFINE N == {m \in Nat : \E f : Flattens(f, parts, m)}
<1>1. 0 \in N
  <2>1. Flattens([i \in 1 .. 0 |-> << >>], parts, 0) BY DEF Flattens
  <2> QED BY <2>1
<1>2. ASSUME NEW m \in N PROVE m + 1 \in N
  <2>1. PICK f : Flattens(f, parts, m)
    OBVIOUS
  <2> DEFINE g == [i \in 1 .. (m + 1) |->
                     IF i \in 1 .. m THEN f[i]
                     ELSE IF i = 1 THEN parts[i] ELSE f[m] \o parts[i]]
  <2>2. \A i \in 1 .. m : g[i] = IF i = 1 THEN parts[i] ELSE g[i - 1] \o parts[i]
    <3> SUFFICES ASSUME NEW i \in 1 .. m
                 PROVE  g[i] = IF i = 1 THEN parts[i] ELSE g[i - 1] \o parts[i]
      OBVIOUS
    <3>1. f[i] = IF i = 1 THEN parts[i] ELSE f[i - 1] \o parts[i]
      BY <2>1, FlattensAt
    <3> QED BY <3>1
  <2>3. g[m + 1] = IF m + 1 = 1 THEN parts[m + 1] ELSE g[(m + 1) - 1] \o parts[m + 1]
    OBVIOUS
  <2>4. g = [i \in 1 .. (m + 1) |-> g[i]]
    OBVIOUS
  <2> HIDE DEF g
  <2>5. \A i \in 1 .. (m + 1) : g[i] = IF i = 1 THEN parts[i] ELSE g[i - 1] \o parts[i]
    <3>1. \A i \in 1 .. (m + 1) : i \in 1 .. m \/ i = m + 1
      OBVIOUS
    <3> QED BY <2>2, <2>3, <3>1, Zenon
  <2>6. Flattens(g, parts, m + 1)
    <3>1. [i \in 1 .. (m + 1) |-> g[i]]
            = [i \in 1 .. (m + 1) |-> IF i = 1 THEN parts[i] ELSE g[i - 1] \o parts[i]]
      BY <2>5, Zenon
    <3> QED BY <2>4, <3>1, Zenon DEF Flattens
  <2> QED
    BY <2>6
<1>3. N = Nat
  <2> HIDE DEF N
  <2>1. N \in SUBSET Nat BY DEF N
  <2> QED BY <1>1, <1>2, <2>1, SetInduction
<1> QED
  BY <1>3

\* FlattenSeq, which is a CHOOSE, is the last step of a flattening.
LEMMA FlattenSeqIs ==
    ASSUME NEW S, NEW parts \in Seq(S), parts # << >>
    PROVE  \E f : Flattens(f, parts, Len(parts)) /\ FlattenSeq(parts) = f[Len(parts)]
<1>1. Len(parts) \in Nat \ {0}
  OBVIOUS
<1> DEFINE c == CHOOSE f : Flattens(f, parts, Len(parts))
<1>2. Flattens(c, parts, Len(parts))
  BY <1>1, FlattensExists
<1>3. FlattenSeq(parts) = c[Len(parts)]
  BY <1>1 DEF FlattenSeq, Flattens
<1> QED
  BY <1>2, <1>3

\* Lists that begin with the same lists flatten to the same, as far as those go.
LEMMA FlattensAgree ==
    ASSUME NEW parts, NEW others, NEW f, NEW g, NEW n \in Nat, NEW k \in Nat, n <= k,
           Flattens(f, parts, n), Flattens(g, others, k),
           \A i \in 1 .. n : others[i] = parts[i]
    PROVE  \A i \in 1 .. n : f[i] = g[i]
<1> DEFINE N == {m \in Nat : m \in 1 .. n => f[m] = g[m]}
<1>1. 0 \in N
  OBVIOUS
<1>2. ASSUME NEW m \in N PROVE m + 1 \in N
  <2> SUFFICES ASSUME m + 1 \in 1 .. n PROVE f[m + 1] = g[m + 1]
    OBVIOUS
  <2>1. m + 1 \in 1 .. k /\ (m + 1) - 1 = m
    OBVIOUS
  <2>2. f[m + 1] = IF m + 1 = 1 THEN parts[m + 1] ELSE f[m] \o parts[m + 1]
    BY <2>1, FlattensAt
  <2>3. g[m + 1] = IF m + 1 = 1 THEN others[m + 1] ELSE g[m] \o others[m + 1]
    BY <2>1, FlattensAt
  <2>4. m # 0 => f[m] = g[m]
    OBVIOUS
  <2> QED BY <2>2, <2>3, <2>4
<1>3. N = Nat
  <2> HIDE DEF N
  <2>1. N \in SUBSET Nat BY DEF N
  <2> QED BY <1>1, <1>2, <2>1, SetInduction
<1> QED
  BY <1>3

\* Flattening no list gives the empty one.
LEMMA FlattenEmpty == FlattenSeq(<< >>) = << >>
BY DEF FlattenSeq

\* Flattening one more list appends it.
LEMMA FlattenAppend ==
    ASSUME NEW S, NEW parts \in Seq(Seq(S)), NEW part \in Seq(S)
    PROVE  FlattenSeq(Append(parts, part)) = FlattenSeq(parts) \o part
<1> DEFINE n == Len(parts)
           more == Append(parts, part)
<1>1. more \in Seq(Seq(S)) /\ more # << >> /\ Len(more) = n + 1
      /\ (\A i \in 1 .. n : more[i] = parts[i]) /\ more[n + 1] = part
  BY AppendProperties
<1>2. PICK g : Flattens(g, more, n + 1) /\ FlattenSeq(more) = g[n + 1]
  BY <1>1, FlattenSeqIs
<1>3. g[n + 1] = IF n + 1 = 1 THEN part ELSE g[n] \o part
  <2>1. n + 1 \in 1 .. (n + 1) /\ (n + 1) - 1 = n
    OBVIOUS
  <2> HIDE DEF n, more
  <2>2. g[n + 1] = IF n + 1 = 1 THEN more[n + 1] ELSE g[(n + 1) - 1] \o more[n + 1]
    BY <1>2, <2>1, FlattensAt
  <2> QED BY <1>1, <2>1, <2>2
<1>4. CASE parts = << >>
  <2>1. FlattenSeq(more) = part BY <1>2, <1>3, <1>4
  <2> QED BY <2>1, <1>4, FlattenEmpty, ConcatEmptySeq
<1>5. CASE parts # << >>
  <2>1. PICK f : Flattens(f, parts, n) /\ FlattenSeq(parts) = f[n]
    BY <1>5, FlattenSeqIs
  <2>2. n \in Nat \ {0} BY <1>5
  <2>3. f[n] = g[n]
    <3> HIDE DEF n, more
    <3>1. n <= n + 1 /\ n \in Nat /\ n + 1 \in Nat BY <2>2
    <3>2. Flattens(f, parts, n) /\ Flattens(g, more, n + 1)
          /\ \A i \in 1 .. n : more[i] = parts[i]
      BY <1>1, <1>2, <2>1
    <3>3. \A i \in 1 .. n : f[i] = g[i]
      BY <3>1, <3>2, FlattensAgree
    <3> QED BY <3>3, <2>2
  <2> QED BY <1>2, <1>3, <2>1, <2>2, <2>3
<1> QED
  BY <1>4, <1>5

\* A flattening has the elements of the lists.
LEMMA FlattenType ==
    ASSUME NEW S, NEW parts \in Seq(Seq(S))
    PROVE  FlattenSeq(parts) \in Seq(S)
<1> DEFINE T == {p \in Seq(Seq(S)) : FlattenSeq(p) \in Seq(S)}
<1>1. << >> \in T
  BY FlattenEmpty, EmptySeq
<1>2. ASSUME NEW p \in T, NEW part \in Seq(S) PROVE Append(p, part) \in T
  BY FlattenAppend, ConcatProperties, AppendProperties
<1>3. T = Seq(Seq(S))
  <2> HIDE DEF T
  <2>1. T \in SUBSET Seq(Seq(S)) BY DEF T
  <2> QED BY <1>1, <1>2, <2>1, SeqInduction
<1> QED
  BY <1>3

\* Flattening distributes over concatenation.
LEMMA FlattenConcat ==
    ASSUME NEW S, NEW p \in Seq(Seq(S)), NEW q \in Seq(Seq(S))
    PROVE  FlattenSeq(p \o q) = FlattenSeq(p) \o FlattenSeq(q)
<1> DEFINE T == {r \in Seq(Seq(S)) : FlattenSeq(p \o r) = FlattenSeq(p) \o FlattenSeq(r)}
<1>1. << >> \in T
  BY FlattenEmpty, FlattenType, ConcatEmptySeq
<1>2. ASSUME NEW r \in T, NEW part \in Seq(S) PROVE Append(r, part) \in T
  <2>1. p \o Append(r, part) = Append(p \o r, part) /\ p \o r \in Seq(Seq(S))
    OBVIOUS
  <2>2. FlattenSeq(Append(p \o r, part)) = FlattenSeq(p \o r) \o part
    BY <2>1, FlattenAppend
  <2>3. FlattenSeq(p) \in Seq(S) /\ FlattenSeq(r) \in Seq(S)
    BY FlattenType
  <2>4. FlattenSeq(Append(r, part)) = FlattenSeq(r) \o part
    BY FlattenAppend
  <2>5. FlattenSeq(p \o Append(r, part)) = (FlattenSeq(p) \o FlattenSeq(r)) \o part
    BY <2>1, <2>2
  <2>6. Regroups(FlattenSeq(p), FlattenSeq(r), part)
    BY <2>3, Regrouped
  <2>7. FlattenSeq(p \o Append(r, part)) = FlattenSeq(p) \o FlattenSeq(Append(r, part))
    BY <2>4, <2>5, <2>6, Zenon DEF Regroups
  <2> QED BY <2>7, AppendProperties
<1>3. T = Seq(Seq(S))
  <2> HIDE DEF T
  <2>1. T \in SUBSET Seq(Seq(S)) BY DEF T
  <2> QED BY <1>1, <1>2, <2>1, SeqInduction
<1> QED
  BY <1>3

\* Flattening one list gives that list.
LEMMA FlattenOne ==
    ASSUME NEW S, NEW part \in Seq(S)
    PROVE  FlattenSeq(<<part>>) = part
<1>1. << >> \in Seq(Seq(S)) /\ Append(<< >>, part) = <<part>>
  BY EmptySeq
<1>2. FlattenSeq(Append(<< >>, part)) = << >> \o part
  BY <1>1, FlattenAppend, FlattenEmpty
<1> QED
  BY <1>1, <1>2, ConcatEmptySeq

\* A list is the flattening of its elements.
LEMMA FlattenSingletons ==
    ASSUME NEW S, NEW s \in Seq(S)
    PROVE  FlattenSeq([i \in DOMAIN s |-> <<s[i]>>]) = s
<1> DEFINE ones(t) == [i \in DOMAIN t |-> <<t[i]>>]
           T == {t \in Seq(S) : FlattenSeq(ones(t)) = t}
<1>1. << >> \in T
  <2>1. ones(<< >>) = << >> OBVIOUS
  <2> QED BY <2>1, FlattenEmpty, EmptySeq
<1>2. ASSUME NEW t \in T, NEW e \in S PROVE Append(t, e) \in T
  <2>1. ones(t) \in Seq(Seq(S)) /\ <<e>> \in Seq(S)
    <3>1. \A i \in DOMAIN t : ones(t)[i] \in Seq(S)
      OBVIOUS
    <3>2. ones(t) = [i \in DOMAIN t |-> ones(t)[i]] /\ t \in Seq(S) /\ <<e>> \in Seq(S)
      OBVIOUS
    <3> HIDE DEF ones, T
    <3>3. ones(t) \in Seq(Seq(S))
      BY <3>1, <3>2, MappedSeq
    <3> QED BY <3>2, <3>3
  <2>2. ones(Append(t, e)) = Append(ones(t), <<e>>)
    OBVIOUS
  <2>3. FlattenSeq(Append(ones(t), <<e>>)) = FlattenSeq(ones(t)) \o <<e>>
    <3> HIDE DEF ones
    <3> QED BY <2>1, FlattenAppend
  <2>4. t \o <<e>> = Append(t, e)
    BY AppendIsConcat
  <2> QED
    BY <2>2, <2>3, <2>4, AppendProperties
<1>3. T = Seq(S)
  <2> HIDE DEF T
  <2>1. T \in SUBSET Seq(S) BY DEF T
  <2> QED BY <1>1, <1>2, <2>1, SeqInduction
<1> QED
  BY <1>3

\* One more part at the end.
LEMMA FlattenExtend ==
    ASSUME NEW S, NEW parts \in Seq(Seq(S)), NEW n, n = Len(parts),
           NEW more \in [1 .. n + 1 -> Seq(S)], \A i \in 1 .. n : more[i] = parts[i]
    PROVE  FlattenSeq(more) = FlattenSeq(parts) \o more[n + 1]
<1> DEFINE longer == Append(parts, more[n + 1])
<1>1. n \in Nat /\ n + 1 \in Nat /\ n + 1 \in 1 .. n + 1
  BY LenProperties
<1>2. longer \in Seq(Seq(S)) /\ Len(longer) = n + 1 /\ longer[n + 1] = more[n + 1]
      /\ \A i \in 1 .. n : longer[i] = parts[i]
  BY <1>1, AppendProperties
<1>3. FlattenSeq(longer) = FlattenSeq(parts) \o more[n + 1]
  BY <1>1, FlattenAppend
<1> HIDE DEF longer
<1>4. \A i \in 1 .. n + 1 : more[i] = longer[i]
  <2>1. \A i \in 1 .. n + 1 : i \in 1 .. n \/ i = n + 1
    BY <1>1
  <2> QED BY <1>2, <2>1, Zenon
<1>5. longer = [i \in 1 .. n + 1 |-> longer[i]]
  <2>1. longer \in [1 .. n + 1 -> Seq(S)]
    BY <1>2, LenProperties
  <2> QED BY <2>1
<1>6. [i \in 1 .. n + 1 |-> more[i]] = [i \in 1 .. n + 1 |-> longer[i]]
  BY <1>4, Zenon
<1>7. more = [i \in 1 .. n + 1 |-> more[i]]
  OBVIOUS
<1>8. more = longer
  BY <1>5, <1>6, <1>7, Zenon
<1> QED
  BY <1>3, <1>8

=============================================================================
