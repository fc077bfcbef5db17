-------------------------- MODULE HostsBlockProofs --------------------------
(***************************************************************************)
(* Proofs about the managed block, for files of any length: what the       *)
(* reading, replacing and removing of the block make of a file's lines.    *)
(*                                                                         *)
(* They follow hosts/hosts.go line by line.  Whether a line is managed     *)
(* depends on the lines before it only, so each operation is a sum over    *)
(* the lines of a file, with one bit carried from line to line: whether a  *)
(* block is open.                                                          *)
(***************************************************************************)
EXTENDS HostsBlock, ListProofs

\* inBlock at the end of the file.
Open(lines) == InBlock(lines, Len(lines) + 1)

Free(lines) == \A i \in DOMAIN lines : ~IsMarker(lines[i])

\* A file with one more line is free of markers if it was and the line is none.
LEMMA FreeAppend ==
    ASSUME NEW S, NEW lines \in Seq(S), NEW x \in S
    PROVE  Free(Append(lines, x)) <=> Free(lines) /\ ~IsMarker(x)
<1>1. /\ Len(lines) \in Nat /\ DOMAIN lines = 1 .. Len(lines)
      /\ DOMAIN Append(lines, x) = 1 .. Len(lines) + 1
      /\ \A i \in 1 .. Len(lines) : Append(lines, x)[i] = lines[i]
      /\ Append(lines, x)[Len(lines) + 1] = x
  BY AppendProperties, LenProperties
<1>2. \A i \in 1 .. Len(lines) + 1 : i \in 1 .. Len(lines) \/ i = Len(lines) + 1
  BY <1>1
<1>3. \A i \in 1 .. Len(lines) : i \in 1 .. Len(lines) + 1
  BY <1>1
<1> QED
  BY <1>1, <1>2, <1>3 DEF Free

\* Two parts of a file are free of markers if each is.
LEMMA FreeConcat ==
    ASSUME NEW S, NEW a \in Seq(S), NEW b \in Seq(S)
    PROVE  Free(a \o b) <=> Free(a) /\ Free(b)
<1>1. /\ Len(a) \in Nat /\ Len(b) \in Nat
      /\ DOMAIN a = 1 .. Len(a) /\ DOMAIN b = 1 .. Len(b)
      /\ DOMAIN (a \o b) = 1 .. Len(a) + Len(b)
      /\ \A i \in 1 .. Len(a) + Len(b) :
            (a \o b)[i] = IF i <= Len(a) THEN a[i] ELSE b[i - Len(a)]
  BY ConcatProperties, LenProperties
<1>2. ASSUME Free(a), Free(b), NEW i \in 1 .. Len(a) + Len(b)
      PROVE  ~IsMarker((a \o b)[i])
  <2>1. CASE i <= Len(a)
    BY <1>1, <1>2, <2>1 DEF Free
  <2>2. CASE ~(i <= Len(a))
    <3>1. i - Len(a) \in 1 .. Len(b) BY <1>1, <2>2
    <3> QED BY <1>1, <1>2, <2>2, <3>1 DEF Free
  <2> QED BY <2>1, <2>2
<1>3. ASSUME Free(a \o b), NEW i \in 1 .. Len(a) PROVE ~IsMarker(a[i])
  <2>1. i \in 1 .. Len(a) + Len(b) /\ i <= Len(a) BY <1>1
  <2> QED BY <1>1, <1>3, <2>1 DEF Free
<1>4. ASSUME Free(a \o b), NEW i \in 1 .. Len(b) PROVE ~IsMarker(b[i])
  <2>1. /\ i + Len(a) \in 1 .. Len(a) + Len(b) /\ ~(i + Len(a) <= Len(a))
        /\ (i + Len(a)) - Len(a) = i
    BY <1>1
  <2>2. (a \o b)[i + Len(a)] = b[i] BY <1>1, <2>1
  <2> QED BY <1>1, <1>4, <2>1, <2>2 DEF Free
<1> QED
  BY <1>1, <1>2, <1>3, <1>4 DEF Free

\* What one line becomes.
Read1(open, line) == IF IsMarker(line) \/ open THEN <<line>> ELSE << >>
Keep1(open, line) == IF IsMarker(line) \/ open THEN << >> ELSE <<line>>
Replace1(open, line, block) == IF line = Begin THEN block ELSE Keep1(open, line)

\* BEGIN and END are two lines and the only markers.
LEMMA Markers == Begin # End /\ \A line : IsMarker(line) <=> line \in {Begin, End}
BY DEF Begin, End, IsMarker

\* The lines before decide.
LEMMA ManagedBefore ==
    ASSUME NEW S, NEW lines \in Seq(S), NEW x \in S
    PROVE  /\ \A i \in 1 .. Len(lines) :
                  /\ Append(lines, x)[i] = lines[i]
                  /\ InBlock(Append(lines, x), i) <=> InBlock(lines, i)
                  /\ IsManaged(Append(lines, x), i) <=> IsManaged(lines, i)
           /\ InBlock(Append(lines, x), Len(lines) + 1) <=> Open(lines)
           /\ Open(Append(lines, x)) <=> x = Begin \/ (x # End /\ Open(lines))
<1> DEFINE n == Len(lines)
           more == Append(lines, x)
<1>1. /\ n \in Nat /\ Len(more) = n + 1
      /\ \A i \in 1 .. n : more[i] = lines[i]
      /\ more[n + 1] = x
  BY AppendProperties, LenProperties
<1> HIDE DEF more, n
<1>2. ASSUME NEW i \in 1 .. n + 1
      PROVE  InBlock(more, i) <=> InBlock(lines, i)
  <2>1. \A b \in 1 .. (i - 1) : b \in 1 .. n /\ \A e \in b .. (i - 1) : e \in 1 .. n
    BY <1>1
  <2> QED
    BY <1>1, <2>1 DEF InBlock
<1>3. InBlock(more, n + 2) <=> x = Begin \/ (x # End /\ InBlock(lines, n + 1))
  <2>1. ASSUME InBlock(more, n + 2) PROVE x = Begin \/ (x # End /\ InBlock(lines, n + 1))
    <3>1. PICK b \in 1 .. n + 1 : more[b] = Begin /\ \A e \in b .. n + 1 : more[e] # End
      BY <1>1, <2>1 DEF InBlock
    <3>2. CASE b = n + 1
      BY <1>1, <3>1, <3>2
    <3>3. CASE b \in 1 .. n
      <4>1. lines[b] = Begin /\ \A e \in b .. n : lines[e] # End
        BY <1>1, <3>1, <3>3
      <4>2. x # End
        BY <1>1, <3>1, <3>3
      <4> QED
        BY <1>1, <3>3, <4>1, <4>2 DEF InBlock
    <3> QED
      BY <1>1, <3>2, <3>3
  <2>2. ASSUME x = Begin PROVE InBlock(more, n + 2)
    <3>1. more[n + 1] = Begin /\ \A e \in n + 1 .. n + 1 : more[e] # End
      BY <1>1, <2>2, Markers
    <3> QED
      BY <1>1, <3>1 DEF InBlock
  <2>3. ASSUME x # End, InBlock(lines, n + 1) PROVE InBlock(more, n + 2)
    <3>1. PICK b \in 1 .. n : lines[b] = Begin /\ \A e \in b .. n : lines[e] # End
      BY <1>1, <2>3 DEF InBlock
    <3>2. more[b] = Begin /\ \A e \in b .. n + 1 : more[e] # End
      BY <1>1, <2>3, <3>1
    <3> QED
      BY <1>1, <3>1, <3>2 DEF InBlock
  <2> QED
    BY <2>1, <2>2, <2>3
<1>4. Open(more) <=> InBlock(more, n + 2)
  BY <1>1 DEF Open
<1> QED
  BY <1>1, <1>2, <1>3, <1>4 DEF IsManaged, Open, n, more

\* No block is open in an empty file.
LEMMA NothingOpen == ~Open(<< >>)
BY DEF Open, InBlock

\* How each operation goes on with one more line.
LEMMA ReadAppend ==
    ASSUME NEW S, NEW lines \in Seq(S), NEW x \in S
    PROVE  ReadBlock(Append(lines, x)) = ReadBlock(lines) \o Read1(Open(lines), x)
<1> DEFINE part(file) == [i \in DOMAIN file |->
                            IF IsManaged(file, i) THEN <<file[i]>> ELSE << >>]
           n == Len(lines)
           more == Append(lines, x)
<1>1. /\ n \in Nat /\ more \in Seq(S) /\ Len(more) = n + 1
      /\ \A i \in 1 .. n : more[i] = lines[i]
      /\ more[n + 1] = x /\ DOMAIN lines = 1 .. n /\ DOMAIN more = 1 .. n + 1
  BY AppendProperties, LenProperties
<1>2. \A i \in 1 .. n : IsManaged(more, i) <=> IsManaged(lines, i)
  BY ManagedBefore
<1>3. IsManaged(more, n + 1) <=> IsMarker(x) \/ Open(lines)
  BY <1>1, ManagedBefore DEF IsManaged
<1>4. \A i \in DOMAIN lines : part(lines)[i] \in Seq(S)
  BY ElementOfSeq, <1>1
<1>5. part(lines) \in Seq(Seq(S)) /\ Len(part(lines)) = n
  <2>1. part(lines) = [i \in DOMAIN lines |-> part(lines)[i]] OBVIOUS
  <2> HIDE DEF part
  <2> QED BY <1>4, <2>1, MappedSeq
<1>6. /\ \A i \in 1 .. n : part(more)[i] = part(lines)[i]
      /\ part(more)[n + 1] = Read1(Open(lines), x)
      /\ part(more) \in [1 .. n + 1 -> Seq(S)]
  BY <1>1, <1>2, <1>3 DEF Read1
<1>7. FlattenSeq(part(more)) = FlattenSeq(part(lines)) \o part(more)[n + 1]
  <2> DEFINE old == part(lines)
             new == part(more)
  <2> HIDE DEF part, n, more
  <2>1. old \in Seq(Seq(S)) /\ n = Len(old)
    BY <1>5
  <2>2. new \in [1 .. n + 1 -> Seq(S)] /\ \A i \in 1 .. n : new[i] = old[i]
    BY <1>6
  <2> HIDE DEF old, new
  <2>3. FlattenSeq(new) = FlattenSeq(old) \o new[n + 1]
    BY <2>1, <2>2, FlattenExtend
  <2> QED BY <2>3 DEF old, new
<1> QED
  BY <1>6, <1>7 DEF ReadBlock

\* replaceBlock, one line further: hosts.go:159-175.
LEMMA ReplaceAppend ==
    ASSUME NEW S, NEW lines \in Seq(S), NEW x \in S, NEW block \in Seq(S)
    PROVE  ReplaceBlock(Append(lines, x), block)
             = ReplaceBlock(lines, block) \o Replace1(Open(lines), x, block)
<1> DEFINE part(file) == [i \in DOMAIN file |->
                            IF file[i] = Begin THEN block
                            ELSE IF IsManaged(file, i) THEN << >>
                            ELSE <<file[i]>>]
           n == Len(lines)
           more == Append(lines, x)
<1>1. /\ n \in Nat /\ more \in Seq(S) /\ Len(more) = n + 1
      /\ \A i \in 1 .. n : more[i] = lines[i]
      /\ more[n + 1] = x /\ DOMAIN lines = 1 .. n /\ DOMAIN more = 1 .. n + 1
  BY AppendProperties, LenProperties
<1>2. \A i \in 1 .. n : IsManaged(more, i) <=> IsManaged(lines, i)
  BY ManagedBefore
<1>3. IsManaged(more, n + 1) <=> IsMarker(x) \/ Open(lines)
  BY <1>1, ManagedBefore DEF IsManaged
<1>4. \A i \in DOMAIN lines : part(lines)[i] \in Seq(S)
  BY ElementOfSeq, <1>1
<1>5. part(lines) \in Seq(Seq(S)) /\ Len(part(lines)) = n
  <2>1. part(lines) = [i \in DOMAIN lines |-> part(lines)[i]] OBVIOUS
  <2> HIDE DEF part
  <2> QED BY <1>4, <2>1, MappedSeq
<1>6. /\ \A i \in 1 .. n : part(more)[i] = part(lines)[i]
      /\ part(more)[n + 1] = Replace1(Open(lines), x, block)
      /\ part(more) \in [1 .. n + 1 -> Seq(S)]
  BY <1>1, <1>2, <1>3 DEF Replace1, Keep1
<1>7. FlattenSeq(part(more)) = FlattenSeq(part(lines)) \o part(more)[n + 1]
  <2> DEFINE old == part(lines)
             new == part(more)
  <2> HIDE DEF part, n, more
  <2>1. old \in Seq(Seq(S)) /\ n = Len(old)
    BY <1>5
  <2>2. new \in [1 .. n + 1 -> Seq(S)] /\ \A i \in 1 .. n : new[i] = old[i]
    BY <1>6
  <2> HIDE DEF old, new
  <2>3. FlattenSeq(new) = FlattenSeq(old) \o new[n + 1]
    BY <2>1, <2>2, FlattenExtend
  <2> QED BY <2>3 DEF old, new
<1> QED
  BY <1>6, <1>7 DEF ReplaceBlock

\* An empty file has no block, and nothing to replace.
LEMMA OfNothing ==
    /\ ReadBlock(<< >>) = << >>
    /\ \A block : ReplaceBlock(<< >>, block) = << >>
<1>1. \A f : DOMAIN f = {} /\ f = [i \in DOMAIN f |-> f[i]] => f = << >>
  OBVIOUS
<1> QED
  BY <1>1, FlattenEmpty DEF ReadBlock, ReplaceBlock

\* readBlock returns lines of the file.
LEMMA ReadType ==
    ASSUME NEW S, NEW lines \in Seq(S)
    PROVE  ReadBlock(lines) \in Seq(S)
<1> DEFINE T == {l \in Seq(S) : ReadBlock(l) \in Seq(S)}
<1>1. << >> \in T
  BY OfNothing, EmptySeq
<1>2. ASSUME NEW l \in T, NEW x \in S PROVE Append(l, x) \in T
  <2>1. Read1(Open(l), x) \in Seq(S) BY DEF Read1
  <2> QED BY <2>1, ReadAppend, ConcatProperties, AppendProperties
<1>3. T = Seq(S)
  <2> HIDE DEF T
  <2>1. T \in SUBSET Seq(S) BY DEF T
  <2> QED BY <1>1, <1>2, <2>1, SeqInduction
<1> QED
  BY <1>3

\* What replaceBlock writes for one line is that line, the block, or nothing.
LEMMA Replace1Type ==
    ASSUME NEW S, NEW x \in S, NEW block \in Seq(S), NEW open
    PROVE  Replace1(open, x, block) \in Seq(S)
BY DEF Replace1, Keep1

\* replaceBlock writes lines of the file and of the block.
LEMMA ReplaceType ==
    ASSUME NEW S, NEW lines \in Seq(S), NEW block \in Seq(S)
    PROVE  ReplaceBlock(lines, block) \in Seq(S)
<1> DEFINE T == {l \in Seq(S) : ReplaceBlock(l, block) \in Seq(S)}
<1>1. << >> \in T
  BY OfNothing, EmptySeq
<1>2. ASSUME NEW l \in T, NEW x \in S PROVE Append(l, x) \in T
  <2>1. Replace1(Open(l), x, block) \in Seq(S) BY Replace1Type
  <2>2. ReplaceBlock(Append(l, x), block)
          = ReplaceBlock(l, block) \o Replace1(Open(l), x, block)
    BY ReplaceAppend
  <2> QED BY <2>1, <2>2, ConcatProperties, AppendProperties
<1>3. T = Seq(S)
  <2> HIDE DEF T
  <2>1. T \in SUBSET Seq(S) BY DEF T
  <2> QED BY <1>1, <1>2, <2>1, SeqInduction
<1> QED
  BY <1>3

\* The lines that are not in a block.
Outside(lines) ==
    FlattenSeq([i \in DOMAIN lines |->
                  IF IsManaged(lines, i) THEN << >> ELSE <<lines[i]>>])

\* They are what is left when the block goes.
LEMMA OutsideIsRemoved ==
    ASSUME NEW lines
    PROVE  Outside(lines) = ReplaceBlock(lines, << >>)
<1> DEFINE kept == [i \in DOMAIN lines |->
                      IF IsManaged(lines, i) THEN << >> ELSE <<lines[i]>>]
           left == [i \in DOMAIN lines |->
                      IF lines[i] = Begin THEN << >>
                      ELSE IF IsManaged(lines, i) THEN << >> ELSE <<lines[i]>>]
<1>1. kept = left
  BY DEF IsManaged, IsMarker
<1> QED
  BY <1>1 DEF Outside, ReplaceBlock

---------------------------------------------------------------------------
(* Files put together *)

\* A file is read as its two parts are.
Parts(a, b, block) ==
    /\ Open(a \o b) <=> Open(b)
    /\ ReadBlock(a \o b) = ReadBlock(a) \o ReadBlock(b)
    /\ ReplaceBlock(a \o b, block) = ReplaceBlock(a, block) \o ReplaceBlock(b, block)

\* After lines with no block left open, a file is read as if it began there.
LEMMA AfterClosed ==
    ASSUME NEW S, NEW a \in Seq(S), ~Open(a), NEW b \in Seq(S), NEW block \in Seq(S)
    PROVE  Parts(a, b, block)
<1> DEFINE P(l) == /\ Open(a \o l) <=> Open(l)
                   /\ ReadBlock(a \o l) = ReadBlock(a) \o ReadBlock(l)
                   /\ ReplaceBlock(a \o l, block)
                        = ReplaceBlock(a, block) \o ReplaceBlock(l, block)
           T == {l \in Seq(S) : P(l)}
<1>1. << >> \in T
  <2>1. a \o << >> = a
    BY ConcatEmptySeq
  <2>2. ReadBlock(a) \o << >> = ReadBlock(a)
        /\ ReplaceBlock(a, block) \o << >> = ReplaceBlock(a, block)
    BY ReadType, ReplaceType, ConcatEmptySeq
  <2> QED
    BY <2>1, <2>2, NothingOpen, OfNothing, EmptySeq
<1>2. ASSUME NEW l \in T, NEW x \in S PROVE Append(l, x) \in T
  <2>1. a \o l \in Seq(S) /\ l \in Seq(S) /\ a \o Append(l, x) = Append(a \o l, x)
    OBVIOUS
  <2>2. /\ Open(a \o l) <=> Open(l)
        /\ ReadBlock(a \o l) = ReadBlock(a) \o ReadBlock(l)
        /\ ReplaceBlock(a \o l, block) = ReplaceBlock(a, block) \o ReplaceBlock(l, block)
    OBVIOUS
  <2> HIDE DEF T, P
  <2>3. Open(a \o Append(l, x)) <=> Open(Append(l, x))
    <3>1. Open(Append(a \o l, x)) <=> x = Begin \/ (x # End /\ Open(a \o l))
      BY <2>1, ManagedBefore
    <3>2. Open(Append(l, x)) <=> x = Begin \/ (x # End /\ Open(l))
      BY <2>1, ManagedBefore
    <3> QED BY <2>1, <2>2, <3>1, <3>2
  <2>4. ReadBlock(a \o Append(l, x)) = ReadBlock(a) \o ReadBlock(Append(l, x))
    <3> DEFINE p == Read1(Open(l), x)
    <3>1. ReadBlock(a) \in Seq(S) /\ ReadBlock(l) \in Seq(S) /\ p \in Seq(S)
      BY <2>1, ReadType DEF Read1
    <3>2. Read1(Open(a \o l), x) = p
      BY <2>2 DEF Read1
    <3>3. ReadBlock(Append(a \o l, x)) = (ReadBlock(a) \o ReadBlock(l)) \o p
      BY <2>1, <2>2, <3>2, ReadAppend
    <3>4. ReadBlock(Append(l, x)) = ReadBlock(l) \o p
      BY <2>1, ReadAppend
    <3> HIDE DEF p
    <3>5. Regroups(ReadBlock(a), ReadBlock(l), p)
      BY <3>1, Regrouped
    <3> QED
      BY <2>1, <3>3, <3>4, <3>5, Zenon DEF Regroups
  <2>5. ReplaceBlock(a \o Append(l, x), block)
          = ReplaceBlock(a, block) \o ReplaceBlock(Append(l, x), block)
    <3> DEFINE p == Replace1(Open(l), x, block)
               front == ReplaceBlock(a, block)
               back == ReplaceBlock(l, block)
    <3>1. front \in Seq(S) /\ back \in Seq(S) /\ p \in Seq(S)
      BY <2>1, ReplaceType, Replace1Type
    <3>2. Replace1(Open(a \o l), x, block) = p
      BY <2>2 DEF Replace1, Keep1
    <3>3. ReplaceBlock(Append(a \o l, x), block) = ReplaceBlock(a \o l, block) \o p
      <4>1. ReplaceBlock(Append(a \o l, x), block)
              = ReplaceBlock(a \o l, block) \o Replace1(Open(a \o l), x, block)
        BY <2>1, ReplaceAppend
      <4> QED BY <3>2, <4>1, Zenon
    <3>4. ReplaceBlock(Append(l, x), block) = back \o p
      BY <2>1, ReplaceAppend
    <3>5. ReplaceBlock(a \o l, block) = front \o back
      BY <2>2
    <3> HIDE DEF p, front, back
    <3>6. Regroups(front, back, p)
      BY <3>1, Regrouped
    <3>7. ReplaceBlock(a \o Append(l, x), block) = front \o ReplaceBlock(Append(l, x), block)
      BY <2>1, <3>3, <3>4, <3>5, <3>6, Zenon DEF Regroups
    <3> QED
      BY <3>7 DEF front
  <2> QED
    BY <2>1, <2>3, <2>4, <2>5, AppendProperties DEF T, P
<1>3. T = Seq(S)
  <2> HIDE DEF T
  <2>1. T \in SUBSET Seq(S) BY DEF T
  <2> QED BY <1>1, <1>2, <2>1, SeqInduction
<1> QED
  BY <1>3 DEF Parts

\* Lines without a marker, outside of a block, are nobody's but the user's.
LEMMA FreeLines ==
    ASSUME NEW S, NEW lines \in Seq(S), Free(lines), NEW block \in Seq(S)
    PROVE  /\ ~Open(lines)
           /\ ReadBlock(lines) = << >>
           /\ ReplaceBlock(lines, block) = lines
<1> DEFINE P(l) == ~Open(l) /\ ReadBlock(l) = << >> /\ ReplaceBlock(l, block) = l
           T == {l \in Seq(S) : Free(l) => P(l)}
<1>1. << >> \in T
  BY NothingOpen, OfNothing, EmptySeq
<1>2. ASSUME NEW l \in T, NEW x \in S PROVE Append(l, x) \in T
  <2>1. l \in Seq(S) /\ Append(l, x) \in Seq(S)
    BY AppendProperties
  <2> SUFFICES ASSUME Free(Append(l, x)) PROVE P(Append(l, x))
    BY <2>1
  <2>2. Free(l) /\ ~IsMarker(x)
    BY <2>1, FreeAppend
  <2>3. ~Open(l) /\ ReadBlock(l) = << >> /\ ReplaceBlock(l, block) = l
    BY <2>2
  <2> HIDE DEF T, P
  <2>4. ~Open(Append(l, x))
    BY <2>1, <2>2, <2>3, ManagedBefore, Markers
  <2>5. Read1(Open(l), x) = << >> /\ Replace1(Open(l), x, block) = <<x>>
    BY <2>2, <2>3, Markers DEF Read1, Replace1, Keep1
  <2>6. ReadBlock(Append(l, x)) = ReadBlock(l) \o Read1(Open(l), x)
        /\ ReplaceBlock(Append(l, x), block)
             = ReplaceBlock(l, block) \o Replace1(Open(l), x, block)
    BY <2>1, ReadAppend, ReplaceAppend
  <2>7. ReadBlock(Append(l, x)) = << >> \o << >>
        /\ ReplaceBlock(Append(l, x), block) = l \o <<x>>
    BY <2>3, <2>5, <2>6
  <2>8. l \o <<x>> = Append(l, x)
    BY <2>1, AppendIsConcat
  <2> QED
    BY <2>4, <2>7, <2>8 DEF P
<1>3. T = Seq(S)
  <2> HIDE DEF T
  <2>1. T \in SUBSET Seq(S) BY DEF T
  <2> QED BY <1>1, <1>2, <2>1, SeqInduction
<1> QED
  BY <1>3

\* Lines without a marker, in a block that is open, are the block's.
LEMMA InnerLines ==
    ASSUME NEW S, NEW a \in Seq(S), Open(a), NEW lines \in Seq(S), Free(lines),
           NEW block \in Seq(S)
    PROVE  /\ Open(a \o lines)
           /\ ReadBlock(a \o lines) = ReadBlock(a) \o lines
           /\ ReplaceBlock(a \o lines, block) = ReplaceBlock(a, block)
<1> DEFINE P(l) == /\ Open(a \o l)
                   /\ ReadBlock(a \o l) = ReadBlock(a) \o l
                   /\ ReplaceBlock(a \o l, block) = ReplaceBlock(a, block)
           T == {l \in Seq(S) : Free(l) => P(l)}
<1>0. ReadBlock(a) \in Seq(S) /\ ReplaceBlock(a, block) \in Seq(S)
  BY ReadType, ReplaceType
<1>1. << >> \in T
  <2>1. a \o << >> = a /\ ReadBlock(a) \o << >> = ReadBlock(a)
    BY <1>0, ConcatEmptySeq
  <2> QED
    BY <2>1, EmptySeq
<1>2. ASSUME NEW l \in T, NEW x \in S PROVE Append(l, x) \in T
  <2>1. /\ l \in Seq(S) /\ Append(l, x) \in Seq(S) /\ a \o l \in Seq(S)
        /\ a \o Append(l, x) = Append(a \o l, x)
    OBVIOUS
  <2> SUFFICES ASSUME Free(Append(l, x)) PROVE P(Append(l, x))
    BY <2>1
  <2>2. Free(l) /\ ~IsMarker(x)
    BY <2>1, FreeAppend
  <2>3. /\ Open(a \o l)
        /\ ReadBlock(a \o l) = ReadBlock(a) \o l
        /\ ReplaceBlock(a \o l, block) = ReplaceBlock(a, block)
    BY <2>2
  <2> HIDE DEF T, P
  <2>4. Open(Append(a \o l, x))
    BY <2>1, <2>2, <2>3, ManagedBefore, Markers
  <2>5. Read1(Open(a \o l), x) = <<x>> /\ Replace1(Open(a \o l), x, block) = << >>
    BY <2>2, <2>3, Markers DEF Read1, Replace1, Keep1
  <2>6. ReadBlock(Append(a \o l, x)) = ReadBlock(a \o l) \o Read1(Open(a \o l), x)
        /\ ReplaceBlock(Append(a \o l, x), block)
             = ReplaceBlock(a \o l, block) \o Replace1(Open(a \o l), x, block)
    BY <2>1, ReadAppend, ReplaceAppend
  <2>7. ReadBlock(Append(a \o l, x)) = (ReadBlock(a) \o l) \o <<x>>
        /\ ReplaceBlock(Append(a \o l, x), block) = ReplaceBlock(a, block) \o << >>
    BY <2>3, <2>5, <2>6, Zenon
  <2>8. (ReadBlock(a) \o l) \o <<x>> = ReadBlock(a) \o Append(l, x)
    <3> DEFINE front == ReadBlock(a)
    <3>1. front \in Seq(S) /\ l \in Seq(S) /\ <<x>> \in Seq(S)
      BY <1>0, <2>1
    <3>2. Append(l, x) = l \o <<x>>
      BY <2>1, AppendIsConcat
    <3> HIDE DEF front
    <3>3. Regroups(front, l, <<x>>)
      BY <3>1, Regrouped
    <3> QED BY <3>2, <3>3, Zenon DEF Regroups, front
  <2>9. ReplaceBlock(a, block) \o << >> = ReplaceBlock(a, block)
    BY <1>0, ConcatEmptySeq
  <2> QED
    BY <2>1, <2>4, <2>7, <2>8, <2>9 DEF P
<1>3. T = Seq(S)
  <2> HIDE DEF T
  <2>1. T \in SUBSET Seq(S) BY DEF T
  <2> QED BY <1>1, <1>2, <2>1, SeqInduction
<1> QED
  BY <1>3

\* No managed line is no marker.
LEMMA NothingRead ==
    ASSUME NEW S, NEW lines \in Seq(S), ReadBlock(lines) = << >>
    PROVE  Free(lines)
<1> DEFINE T == {l \in Seq(S) : ReadBlock(l) = << >> => Free(l)}
<1>1. << >> \in T
  BY EmptySeq DEF Free
<1>2. ASSUME NEW l \in T, NEW x \in S PROVE Append(l, x) \in T
  <2>1. l \in Seq(S) /\ Append(l, x) \in Seq(S)
    BY AppendProperties
  <2> SUFFICES ASSUME ReadBlock(Append(l, x)) = << >> PROVE Free(Append(l, x))
    BY <2>1
  <2>2. ReadBlock(l) \in Seq(S) /\ Read1(Open(l), x) \in Seq(S)
    BY <2>1, ReadType DEF Read1
  <2>3. ReadBlock(l) \o Read1(Open(l), x) = << >>
    BY <2>1, ReadAppend
  <2>4. ReadBlock(l) = << >> /\ Read1(Open(l), x) = << >>
    BY <2>2, <2>3, ConcatEqualIffEmpty
  <2>5. ~IsMarker(x)
    <3>1. <<x>> # << >> OBVIOUS
    <3> QED BY <2>4, <3>1 DEF Read1
  <2> QED
    BY <2>1, <2>4, <2>5, FreeAppend
<1>3. T = Seq(S)
  <2> HIDE DEF T
  <2>1. T \in SUBSET Seq(S) BY DEF T
  <2> QED BY <1>1, <1>2, <2>1, SeqInduction
<1> QED
  BY <1>3

---------------------------------------------------------------------------
(* The block that is written *)

\* The lines a block can have.
BlockLines == {Begin, End, Note, Tld, Alias} \cup Range(Alphabet)

\* The entries of a block are names, and no name is a marker.
LEMMA EntriesType ==
    ASSUME NEW domains
    PROVE  /\ Entries(domains) \in Seq({Tld, Alias} \cup Range(Alphabet))
           /\ Free(Entries(domains))
<1> DEFINE S == {Tld, Alias} \cup Range(Alphabet)
           part == [i \in DOMAIN Alphabet |->
                      IF Alphabet[i] \in domains \ {Tld} THEN <<Alphabet[i]>> ELSE << >>]
           alias == IF Alias # Tld /\ Alias \notin domains THEN <<Alias>> ELSE << >>
<1>1. Alphabet \in Seq(Range(Alphabet))
  BY NamesAssumption
<1>2. part \in Seq(Seq(S))
  <2>1. \A i \in DOMAIN Alphabet : Alphabet[i] \in Range(Alphabet)
    BY DEF Range
  <2>2. \A i \in DOMAIN Alphabet : part[i] \in Seq(S)
    <3> SUFFICES ASSUME NEW i \in DOMAIN Alphabet PROVE part[i] \in Seq(S)
      OBVIOUS
    <3>1. Alphabet[i] \in S
      BY <2>1
    <3>2. part[i] \in {<<Alphabet[i]>>, << >>}
      OBVIOUS
    <3> HIDE DEF part, S
    <3>3. <<Alphabet[i]>> \in Seq(S) /\ << >> \in Seq(S)
      BY <3>1
    <3> QED BY <3>2, <3>3, Zenon
  <2>3. part = [i \in DOMAIN Alphabet |-> part[i]]
    OBVIOUS
  <2> HIDE DEF part
  <2> QED BY <1>1, <2>2, <2>3, MappedSeq
<1>3. FlattenSeq(part) \in Seq(S)
  BY <1>2, FlattenType
<1>4. <<Tld>> \in Seq(S) /\ alias \in Seq(S)
  <2>1. Tld \in S /\ Alias \in S
    OBVIOUS
  <2> HIDE DEF S
  <2>2. <<Tld>> \in Seq(S) /\ <<Alias>> \in Seq(S) /\ << >> \in Seq(S)
    BY <2>1
  <2> QED
    BY <2>2
<1>5. Entries(domains) = (<<Tld>> \o alias) \o FlattenSeq(part)
  BY DEF Entries
<1>6. Entries(domains) \in Seq(S)
  <2> HIDE DEF S, alias, part
  <2> QED BY <1>3, <1>4, <1>5, ConcatProperties
<1>7. \A line \in S : ~IsMarker(line)
  BY NamesAssumption, Markers
<1>8. \A i \in DOMAIN Entries(domains) : Entries(domains)[i] \in S
  <2> HIDE DEF S
  <2> QED BY <1>6, ElementOfSeq, LenProperties
<1> QED
  BY <1>6, <1>7, <1>8 DEF Free

\* Reading gives the block back, and replacing it replaces all of it.
LEMMA BuildBlockIs ==
    ASSUME NEW domains, NEW S, BlockLines \subseteq S, NEW block \in Seq(S)
    PROVE  /\ BuildBlock(domains) \in Seq(S)
           /\ ~Open(BuildBlock(domains))
           /\ ReadBlock(BuildBlock(domains)) = BuildBlock(domains)
           /\ ReplaceBlock(BuildBlock(domains), block) = block
           /\ BuildBlock(domains) # << >>
<1> DEFINE begin == <<Begin>>
           inner == <<Note>> \o Entries(domains)
           open == begin \o inner
<1>1. {Begin, End, Note} \subseteq S /\ {Tld, Alias} \cup Range(Alphabet) \subseteq S
  BY DEF BlockLines
<1>2. Entries(domains) \in Seq(S) /\ Free(Entries(domains))
  BY <1>1, EntriesType, SeqMonotonic
<1>3. <<Note>> \in Seq(S) /\ Free(<<Note>>)
  <2>1. ~IsMarker(Note)
    BY DEF IsMarker, Begin, End, Note
  <2> QED BY <1>1, <2>1 DEF Free
<1>4. inner \in Seq(S) /\ Free(inner)
  <2>1. inner \in Seq(S) BY <1>2, <1>3, ConcatProperties
  <2> QED BY <1>2, <1>3, <2>1, FreeConcat
<1>5. /\ begin \in Seq(S) /\ begin = Append(<< >>, Begin) /\ << >> \in Seq(S) /\ Begin \in S
  BY <1>1
<1>6. Open(begin)
  <2>1. Open(Append(<< >>, Begin)) <=> Begin = Begin \/ (Begin # End /\ Open(<< >>))
    BY <1>5, ManagedBefore
  <2> QED
    BY <1>5, <2>1, Zenon
<1>7. ReadBlock(begin) = begin /\ ReplaceBlock(begin, block) = block
  <2>1. Read1(Open(<< >>), Begin) = <<Begin>> /\ Replace1(Open(<< >>), Begin, block) = block
    BY Markers DEF Read1, Replace1
  <2>2. ReadBlock(Append(<< >>, Begin)) = ReadBlock(<< >>) \o Read1(Open(<< >>), Begin)
    BY <1>5, ReadAppend
  <2>3. ReplaceBlock(Append(<< >>, Begin), block)
          = ReplaceBlock(<< >>, block) \o Replace1(Open(<< >>), Begin, block)
    BY <1>5, ReplaceAppend
  <2>4. ReadBlock(begin) = << >> \o <<Begin>> /\ ReplaceBlock(begin, block) = << >> \o block
    BY <1>5, <2>1, <2>2, <2>3, OfNothing, Zenon
  <2> QED
    BY <2>4, ConcatEmptySeq
<1> HIDE DEF begin, inner
<1>8. /\ open \in Seq(S) /\ Open(open) /\ ReadBlock(open) = open
      /\ ReplaceBlock(open, block) = block
  <2>1. open \in Seq(S) BY <1>4, <1>5, ConcatProperties
  <2>2. /\ Open(begin \o inner)
        /\ ReadBlock(begin \o inner) = ReadBlock(begin) \o inner
        /\ ReplaceBlock(begin \o inner, block) = ReplaceBlock(begin, block)
    BY <1>4, <1>5, <1>6, InnerLines
  <2> QED BY <1>7, <2>1, <2>2, Zenon
<1>9. BuildBlock(domains) = Append(open, End)
  <2>1. BuildBlock(domains) = (<<Begin, Note>> \o Entries(domains)) \o <<End>>
    BY DEF BuildBlock
  <2>2. <<Begin, Note>> = <<Begin>> \o <<Note>>
    OBVIOUS
  <2>3. Regroups(<<Begin>>, <<Note>>, Entries(domains))
    BY <1>1, <1>2, <1>3, <1>5, Regrouped DEF begin
  <2>4. open \o <<End>> = Append(open, End)
    BY <1>1, <1>8, AppendIsConcat
  <2> QED
    BY <2>1, <2>2, <2>3, <2>4, Zenon DEF Regroups, open, begin, inner
<1> HIDE DEF open
<1>10. Read1(Open(open), End) = <<End>> /\ Replace1(Open(open), End, block) = << >>
  BY Markers DEF Read1, Replace1, Keep1
<1>11. /\ End \in S /\ ~Open(Append(open, End))
       /\ ReadBlock(Append(open, End)) = open \o <<End>>
       /\ ReplaceBlock(Append(open, End), block) = block \o << >>
  <2>1. ~Open(Append(open, End))
    BY <1>1, <1>8, ManagedBefore, Markers
  <2>2. ReadBlock(Append(open, End)) = ReadBlock(open) \o Read1(Open(open), End)
        /\ ReplaceBlock(Append(open, End), block)
             = ReplaceBlock(open, block) \o Replace1(Open(open), End, block)
    BY <1>1, <1>8, ReadAppend, ReplaceAppend
  <2> QED BY <1>1, <1>8, <1>10, <2>1, <2>2
<1>12. open \o <<End>> = Append(open, End) /\ block \o << >> = block
       /\ Append(open, End) \in Seq(S) /\ Append(open, End) # << >>
  BY <1>1, <1>8, AppendIsConcat, AppendProperties, ConcatEmptySeq
<1> QED
  BY <1>9, <1>11, <1>12

---------------------------------------------------------------------------
(* What an operation leaves to the next *)

\* Whatever a file has for markers, a whole block in their place leaves the lines outside
\* as they were, and no block open.
LEMMA OutsideOfReplace ==
    ASSUME NEW S, NEW lines \in Seq(S), NEW block \in Seq(S),
           ~Open(block), ReplaceBlock(block, << >>) = << >>
    PROVE  /\ ~Open(ReplaceBlock(lines, block))
           /\ Outside(ReplaceBlock(lines, block)) = Outside(lines)
<1> DEFINE P(l) == /\ ~Open(ReplaceBlock(l, block))
                   /\ ReplaceBlock(ReplaceBlock(l, block), << >>) = ReplaceBlock(l, << >>)
           T == {l \in Seq(S) : P(l)}
<1>0. << >> \in Seq(S)
  OBVIOUS
<1>1. << >> \in T
  BY NothingOpen, OfNothing, EmptySeq
<1>2. ASSUME NEW l \in T, NEW x \in S PROVE Append(l, x) \in T
  <2> DEFINE kept == ReplaceBlock(l, block)
             p == Replace1(Open(l), x, block)
             q == Replace1(Open(l), x, << >>)
  <2>1. l \in Seq(S) /\ Append(l, x) \in Seq(S) /\ kept \in Seq(S) /\ p \in Seq(S)
    BY AppendProperties, ReplaceType, Replace1Type
  <2>2. ~Open(kept) /\ ReplaceBlock(kept, << >>) = ReplaceBlock(l, << >>)
    OBVIOUS
  <2> HIDE DEF T, P
  <2>3. ReplaceBlock(Append(l, x), block) = kept \o p
    BY <2>1, ReplaceAppend
  <2>4. ReplaceBlock(Append(l, x), << >>) = ReplaceBlock(l, << >>) \o q
    BY <1>0, <2>1, ReplaceAppend
  <2>5. ~Open(p) /\ ReplaceBlock(p, << >>) = q
    <3>1. CASE x = Begin
      <4>1. p = block /\ q = << >> BY <3>1 DEF Replace1
      <4> HIDE DEF p, q
      <4> QED BY <4>1
    <3>2. CASE x # Begin /\ (IsMarker(x) \/ Open(l))
      <4>1. p = << >> /\ q = << >> BY <3>2 DEF Replace1, Keep1
      <4> HIDE DEF p, q
      <4> QED BY <4>1, NothingOpen, OfNothing
    <3>3. CASE ~IsMarker(x) /\ ~Open(l)
      <4>1. p = <<x>> /\ q = <<x>> BY <3>3, Markers DEF Replace1, Keep1
      <4>2. Free(<<x>>) /\ <<x>> \in Seq(S) BY <3>3 DEF Free
      <4> HIDE DEF p, q
      <4> QED BY <1>0, <4>1, <4>2, FreeLines
    <3> QED BY <3>1, <3>2, <3>3
  <2> HIDE DEF kept, p, q
  <2>6. /\ Open(kept \o p) <=> Open(p)
        /\ ReadBlock(kept \o p) = ReadBlock(kept) \o ReadBlock(p)
        /\ ReplaceBlock(kept \o p, << >>) = ReplaceBlock(kept, << >>) \o ReplaceBlock(p, << >>)
    <3>0. kept \in Seq(S) /\ p \in Seq(S) /\ ~Open(kept)
      BY <2>1, <2>2
    <3>1. Parts(kept, p, << >>)
      BY <1>0, <3>0, AfterClosed
    <3> QED BY <3>1, Zenon DEF Parts
  <2>7. ReplaceBlock(kept \o p, << >>) = ReplaceBlock(l, << >>) \o q
    BY <2>2, <2>5, <2>6, Zenon
  <2>8. P(Append(l, x))
    BY <2>3, <2>4, <2>5, <2>6, <2>7 DEF P
  <2> QED
    BY <2>1, <2>8 DEF T
<1>3. T = Seq(S)
  <2> HIDE DEF T
  <2>1. T \in SUBSET Seq(S) BY DEF T
  <2> QED BY <1>1, <1>2, <2>1, SeqInduction
<1> QED
  BY <1>3, OutsideIsRemoved

\* A file in which a block has one place at most: after a and before b, or nowhere.
Nowhere(lines, S) ==
    \E a \in Seq(S) : Free(a) /\ \A block \in Seq(S) : ReplaceBlock(lines, block) = a
Somewhere(lines, S) ==
    \E a, b \in Seq(S) :
        Free(a) /\ Free(b) /\ \A block \in Seq(S) : ReplaceBlock(lines, block) = (a \o block) \o b
OnePlace(lines, S) == Nowhere(lines, S) \/ Somewhere(lines, S)

NoBegin(lines) == \A i \in DOMAIN lines : lines[i] # Begin

\* A file with at most one BEGIN has had at most one at every line before.
LEMMA BeginAppend ==
    ASSUME NEW S, NEW lines \in Seq(S), NEW x \in S
    PROVE  /\ NoBegin(Append(lines, x)) <=> NoBegin(lines) /\ x # Begin
           /\ OneBegin(Append(lines, x)) => OneBegin(lines)
           /\ OneBegin(Append(lines, x)) /\ x = Begin => NoBegin(lines)
<1> DEFINE n == Len(lines)
           more == Append(lines, x)
<1>1. /\ n \in Nat /\ DOMAIN lines = 1 .. n /\ DOMAIN more = 1 .. n + 1
      /\ \A i \in 1 .. n : more[i] = lines[i]
      /\ more[n + 1] = x
  BY AppendProperties, LenProperties
<1> HIDE DEF n, more
<1>2. \A i \in 1 .. n + 1 : i \in 1 .. n \/ i = n + 1
  BY <1>1
<1>3. n + 1 \in 1 .. n + 1 /\ \A i \in 1 .. n : i \in 1 .. n + 1 /\ i # n + 1
  BY <1>1
<1>4. NoBegin(more) <=> NoBegin(lines) /\ x # Begin
  BY <1>1, <1>2, <1>3 DEF NoBegin
<1>5. OneBegin(more) => OneBegin(lines)
  BY <1>1, <1>3 DEF OneBegin
<1>6. OneBegin(more) /\ x = Begin => NoBegin(lines)
  BY <1>1, <1>3 DEF OneBegin, NoBegin
<1> QED
  BY <1>4, <1>5, <1>6 DEF more

\* Another line does not change that.
LEMMA PlaceAppend ==
    ASSUME NEW S, NEW lines \in Seq(S), NEW x \in S, x # Begin
    PROVE  /\ Nowhere(lines, S) => Nowhere(Append(lines, x), S)
           /\ Somewhere(lines, S) => Somewhere(Append(lines, x), S)
<1> DEFINE p == Keep1(Open(lines), x)
<1>1. p \in Seq(S) /\ Free(p)
  BY DEF Keep1, Free
<1>2. ASSUME NEW block \in Seq(S)
      PROVE  ReplaceBlock(Append(lines, x), block) = ReplaceBlock(lines, block) \o p
  <2>1. ReplaceBlock(Append(lines, x), block)
          = ReplaceBlock(lines, block) \o Replace1(Open(lines), x, block)
    BY ReplaceAppend
  <2>2. Replace1(Open(lines), x, block) = p
    BY DEF Replace1
  <2> QED BY <2>1, <2>2, Zenon
<1> HIDE DEF p
<1>3. Nowhere(lines, S) => Nowhere(Append(lines, x), S)
  <2> SUFFICES ASSUME Nowhere(lines, S) PROVE Nowhere(Append(lines, x), S)
    OBVIOUS
  <2>1. PICK a \in Seq(S) : Free(a) /\ \A block \in Seq(S) : ReplaceBlock(lines, block) = a
    BY DEF Nowhere
  <2>2. a \o p \in Seq(S) /\ Free(a \o p)
    BY <1>1, <2>1, ConcatProperties, FreeConcat
  <2>3. \A block \in Seq(S) : ReplaceBlock(Append(lines, x), block) = a \o p
    BY <1>2, <2>1
  <2> QED BY <2>2, <2>3 DEF Nowhere
<1>4. Somewhere(lines, S) => Somewhere(Append(lines, x), S)
  <2> SUFFICES ASSUME Somewhere(lines, S) PROVE Somewhere(Append(lines, x), S)
    OBVIOUS
  <2>1. PICK a \in Seq(S), b \in Seq(S) :
           Free(a) /\ Free(b)
           /\ \A block \in Seq(S) : ReplaceBlock(lines, block) = (a \o block) \o b
    BY DEF Somewhere
  <2>2. b \o p \in Seq(S) /\ Free(b \o p)
    BY <1>1, <2>1, ConcatProperties, FreeConcat
  <2>3. ASSUME NEW block \in Seq(S)
        PROVE  ReplaceBlock(Append(lines, x), block) = (a \o block) \o (b \o p)
    <3> DEFINE front == a \o block
    <3>1. front \in Seq(S)
      BY ConcatProperties
    <3>2. ReplaceBlock(Append(lines, x), block) = (front \o b) \o p
      BY <1>2, <2>1
    <3> HIDE DEF front
    <3>3. Regroups(front, b, p)
      BY <1>1, <3>1, Regrouped
    <3> QED BY <3>2, <3>3, Zenon DEF Regroups, front
  <2> QED BY <2>1, <2>2, <2>3 DEF Somewhere
<1> QED
  BY <1>3, <1>4

\* The block goes where BEGIN is.
LEMMA PlaceOfBegin ==
    ASSUME NEW S, NEW lines \in Seq(S), OneBegin(lines)
    PROVE  OnePlace(lines, S)
<1> DEFINE P(l) == /\ NoBegin(l) => Nowhere(l, S)
                   /\ OneBegin(l) => OnePlace(l, S)
           T == {l \in Seq(S) : P(l)}
<1>1. << >> \in T
  <2>1. Free(<< >>) /\ << >> \in Seq(S) BY DEF Free
  <2>2. Nowhere(<< >>, S) BY <2>1, OfNothing DEF Nowhere
  <2> QED BY <2>1, <2>2 DEF OnePlace
<1>2. ASSUME NEW l \in T, NEW x \in S PROVE Append(l, x) \in T
  <2>1. l \in Seq(S) /\ Append(l, x) \in Seq(S) /\ P(l)
    BY AppendProperties
  <2> HIDE DEF T
  <2>2. CASE x = Begin
    <3> SUFFICES ASSUME OneBegin(Append(l, x)) PROVE Somewhere(Append(l, x), S)
      BY <2>1, <2>2, BeginAppend DEF T, OnePlace
    <3>1. PICK a \in Seq(S) : Free(a) /\ \A block \in Seq(S) : ReplaceBlock(l, block) = a
      BY <2>1, <2>2, BeginAppend DEF Nowhere
    <3>2. ASSUME NEW block \in Seq(S)
          PROVE  ReplaceBlock(Append(l, x), block) = (a \o block) \o << >>
      <4>1. ReplaceBlock(Append(l, x), block)
              = ReplaceBlock(l, block) \o Replace1(Open(l), x, block)
        BY <2>1, ReplaceAppend
      <4>2. Replace1(Open(l), x, block) = block
        BY <2>2 DEF Replace1
      <4>3. a \o block \in Seq(S)
        BY ConcatProperties
      <4>4. (a \o block) \o << >> = a \o block
        BY <4>3, ConcatEmptySeq
      <4> QED BY <3>1, <4>1, <4>2, <4>4
    <3>3. << >> \in Seq(S) /\ Free(<< >>)
      BY DEF Free
    <3> QED BY <3>1, <3>2, <3>3 DEF Somewhere
  <2>3. CASE x # Begin
    BY <2>1, <2>3, PlaceAppend, BeginAppend DEF T, OnePlace
  <2> QED
    BY <2>2, <2>3
<1>3. T = Seq(S)
  <2> HIDE DEF T
  <2>1. T \in SUBSET Seq(S) BY DEF T
  <2> QED BY <1>1, <1>2, <2>1, SeqInduction
<1> QED
  BY <1>3

\* A file with new for its block, after a and before b.
Holds(a, new, b, S) ==
    /\ (a \o new) \o b \in Seq(S)
    /\ ReadBlock((a \o new) \o b) = new
    /\ \A block \in Seq(S) : ReplaceBlock((a \o new) \o b, block) = (a \o block) \o b

\* A file that a sync has been over.
LEMMA Canonical ==
    ASSUME NEW domains, NEW S, BlockLines \subseteq S,
           NEW a \in Seq(S), Free(a), NEW b \in Seq(S), Free(b)
    PROVE  Holds(a, BuildBlock(domains), b, S)
<1> DEFINE new == BuildBlock(domains)
           front == a \o new
<1>1. \A block \in Seq(S) :
         /\ new \in Seq(S) /\ ~Open(new) /\ ReadBlock(new) = new
         /\ ReplaceBlock(new, block) = block
  BY BuildBlockIs
<1>2. << >> \in Seq(S)
  OBVIOUS
<1> HIDE DEF new
<1>3. ASSUME NEW block \in Seq(S)
      PROVE  /\ ~Open(a) /\ ReadBlock(a) = << >> /\ ReplaceBlock(a, block) = a
             /\ ReadBlock(b) = << >> /\ ReplaceBlock(b, block) = b
  BY FreeLines
<1>4. ASSUME NEW block \in Seq(S)
      PROVE  /\ front \in Seq(S) /\ ~Open(front) /\ ReadBlock(front) = << >> \o new
             /\ ReplaceBlock(front, block) = a \o block
  <2>0. new \in Seq(S) /\ ~Open(a)
    BY <1>1, <1>3
  <2>1. /\ Open(a \o new) <=> Open(new)
        /\ ReadBlock(a \o new) = ReadBlock(a) \o ReadBlock(new)
        /\ ReplaceBlock(a \o new, block) = ReplaceBlock(a, block) \o ReplaceBlock(new, block)
    <3>1. Parts(a, new, block)
      BY <2>0, AfterClosed
    <3> QED BY <3>1, Zenon DEF Parts
  <2> QED BY <1>1, <1>3, <2>1, ConcatProperties
<1>5. << >> \o new = new
  BY <1>1, <1>2, ConcatEmptySeq
<1> HIDE DEF front
<1>6. ASSUME NEW block \in Seq(S)
      PROVE  /\ ReadBlock(front \o b) = new \o << >>
             /\ ReplaceBlock(front \o b, block) = (a \o block) \o b
  <2>0. front \in Seq(S) /\ ~Open(front)
    BY <1>4
  <2>1. /\ Open(front \o b) <=> Open(b)
        /\ ReadBlock(front \o b) = ReadBlock(front) \o ReadBlock(b)
        /\ ReplaceBlock(front \o b, block) = ReplaceBlock(front, block) \o ReplaceBlock(b, block)
    <3>1. Parts(front, b, block)
      BY <2>0, AfterClosed
    <3> QED BY <3>1, Zenon DEF Parts
  <2> QED BY <1>3, <1>4, <1>5, <2>1
<1>7. new \o << >> = new /\ front \o b \in Seq(S)
  BY <1>1, <1>2, <1>4, ConcatEmptySeq, ConcatProperties
<1> QED
  BY <1>2, <1>6, <1>7 DEF front, new, Holds

\* hosts.go:51-72: a sync touches no line outside the block, and leaves no block open.
LEMMA OutsideOfSynced ==
    ASSUME NEW domains, NEW S, BlockLines \subseteq S, NEW lines \in Seq(S)
    PROVE  /\ Synced(ReadBlock(lines), lines, domains) \in Seq(S)
           /\ ~Open(Synced(ReadBlock(lines), lines, domains))
           /\ Outside(Synced(ReadBlock(lines), lines, domains)) = Outside(lines)
<1> DEFINE new == BuildBlock(domains)
<1>1. << >> \in Seq(S)
  OBVIOUS
<1>2. new \in Seq(S) /\ ~Open(new) /\ ReplaceBlock(new, << >>) = << >>
  BY <1>1, BuildBlockIs
<1> HIDE DEF new
<1>3. CASE ReadBlock(lines) # << >>
  <2>1. Synced(ReadBlock(lines), lines, domains) = ReplaceBlock(lines, new)
    BY <1>3 DEF Synced, new
  <2>2. ReplaceBlock(lines, new) \in Seq(S)
    BY <1>2, ReplaceType
  <2>3. ~Open(ReplaceBlock(lines, new)) /\ Outside(ReplaceBlock(lines, new)) = Outside(lines)
    BY <1>2, OutsideOfReplace
  <2> QED BY <2>1, <2>2, <2>3
<1>4. CASE ReadBlock(lines) = << >>
  <2>1. Synced(ReadBlock(lines), lines, domains) = lines \o new
    BY <1>4 DEF Synced, new
  <2>2. ~Open(lines)
    BY <1>1, <1>4, NothingRead, FreeLines
  <2>3. Parts(lines, new, << >>)
    BY <1>1, <1>2, <2>2, AfterClosed
  <2>4. Outside(lines \o new) = Outside(lines) \o << >>
    BY <1>2, <2>3, OutsideIsRemoved, Zenon DEF Parts
  <2>5. Outside(lines) \o << >> = Outside(lines) /\ lines \o new \in Seq(S)
    BY <1>1, <1>2, OutsideIsRemoved, ReplaceType, ConcatEmptySeq, ConcatProperties
  <2>6. ~Open(lines \o new)
    BY <1>2, <2>3 DEF Parts
  <2> QED BY <2>1, <2>4, <2>5, <2>6
<1> QED
  BY <1>3, <1>4

\* hosts.go:75-95: so does a removal.
LEMMA OutsideOfRemoved ==
    ASSUME NEW S, NEW lines \in Seq(S)
    PROVE  /\ Removed(lines) \in Seq(S)
           /\ ~Open(Removed(lines))
           /\ Outside(Removed(lines)) = Outside(lines)
<1>1. << >> \in Seq(S)
  OBVIOUS
<1>2. ~Open(ReplaceBlock(lines, << >>)) /\ Outside(ReplaceBlock(lines, << >>)) = Outside(lines)
  BY <1>1, NothingOpen, OfNothing, OutsideOfReplace
<1>3. ReplaceBlock(lines, << >>) \in Seq(S)
  BY <1>1, ReplaceType
<1> QED
  BY <1>2, <1>3 DEF Removed

\* A file without a marker has no place for a block.
LEMMA FreePlace ==
    ASSUME NEW S, NEW lines \in Seq(S), Free(lines)
    PROVE  Nowhere(lines, S)
BY FreeLines DEF Nowhere

\* hosts.go:51-70: what one sync and another after it make of a file.
LEMMA SyncedTwice ==
    ASSUME NEW domains, NEW S, BlockLines \subseteq S,
           NEW lines \in Seq(S), OnePlace(lines, S)
    PROVE  LET once == Synced(ReadBlock(lines), lines, domains)
               twice == Synced(ReadBlock(once), once, domains)
           IN /\ OnePlace(once, S)
              /\ ReadBlock(twice) = BuildBlock(domains)
              /\ ReadBlock(once) # << >> => twice = once
<1> DEFINE new == BuildBlock(domains)
           once == Synced(ReadBlock(lines), lines, domains)
           twice == Synced(ReadBlock(once), once, domains)
<1>1. << >> \in Seq(S) /\ Free(<< >>)
  BY DEF Free
<1>2. new \in Seq(S) /\ new # << >>
  BY <1>1, BuildBlockIs
<1>3. ASSUME NEW a \in Seq(S), Free(a), NEW b \in Seq(S), Free(b)
      PROVE  Holds(a, new, b, S)
  BY <1>3, Canonical
<1> HIDE DEF new
\* A file that has the block is left alone.
<1>4. ASSUME NEW a \in Seq(S), Free(a), NEW b \in Seq(S), Free(b), once = (a \o new) \o b
      PROVE  /\ OnePlace(once, S) /\ ReadBlock(twice) = new /\ twice = once
  <2>1. once \in Seq(S) /\ ReadBlock(once) = new
        /\ \A block \in Seq(S) : ReplaceBlock(once, block) = (a \o block) \o b
    <3>1. Holds(a, new, b, S)
      BY <1>3, <1>4
    <3> HIDE DEF once
    <3> QED BY <1>4, <3>1 DEF Holds
  <2> HIDE DEF once
  <2>2. twice = ReplaceBlock(once, new)
    BY <1>2, <2>1 DEF Synced, new
  <2>3. twice = once
    BY <1>2, <1>4, <2>1, <2>2
  <2>4. Somewhere(once, S)
    BY <1>4, <2>1 DEF Somewhere
  <2> QED BY <2>1, <2>3, <2>4 DEF OnePlace
\* One that has none gets it at its end.
<1>5. ASSUME NEW file \in Seq(S), Free(file)
      PROVE  Synced(ReadBlock(file), file, domains) = (file \o new) \o << >>
  <2>1. ReadBlock(file) = << >>
    BY <1>1, <1>5, FreeLines
  <2>2. file \o new \in Seq(S)
    BY <1>2, ConcatProperties
  <2>3. (file \o new) \o << >> = file \o new
    BY <2>2, ConcatEmptySeq
  <2> QED BY <2>1, <2>3 DEF Synced, new
<1>6. CASE ReadBlock(lines) = << >>
  <2>1. Free(lines)
    BY <1>6, NothingRead
  <2>2. once = (lines \o new) \o << >>
    BY <2>1, <1>5
  <2> HIDE DEF once, twice
  <2>3. OnePlace(once, S) /\ ReadBlock(twice) = new /\ twice = once
    BY <1>1, <1>4, <2>1, <2>2
  <2> QED BY <2>3 DEF once, twice, new
<1>7. CASE ReadBlock(lines) # << >> /\ Somewhere(lines, S)
  <2>1. PICK a \in Seq(S), b \in Seq(S) :
           Free(a) /\ Free(b)
           /\ \A block \in Seq(S) : ReplaceBlock(lines, block) = (a \o block) \o b
    BY <1>7 DEF Somewhere
  <2>2. once = (a \o new) \o b
    <3>1. once = ReplaceBlock(lines, new)
      BY <1>7 DEF Synced, new
    <3> QED BY <1>2, <2>1, <3>1
  <2> HIDE DEF once, twice
  <2>3. OnePlace(once, S) /\ ReadBlock(twice) = new /\ twice = once
    BY <1>4, <2>1, <2>2
  <2> QED BY <2>3 DEF once, twice, new
\* Only an END is left: it goes, and the next sync brings the block.
<1>8. CASE ReadBlock(lines) # << >> /\ Nowhere(lines, S)
  <2>1. once \in Seq(S) /\ Free(once)
    <3>1. once = ReplaceBlock(lines, new)
      BY <1>8 DEF Synced, new
    <3> QED BY <1>2, <1>8, <3>1 DEF Nowhere
  <2> HIDE DEF once
  <2>2. ReadBlock(once) = << >>
    BY <1>1, <2>1, FreeLines
  <2>3. twice = (once \o new) \o << >>
    BY <2>1, <1>5
  <2>4. OnePlace(once, S)
    BY <2>1, FreePlace DEF OnePlace
  <2>5. ReadBlock(twice) = new
    <3>1. Holds(once, new, << >>, S)
      BY <1>1, <1>3, <2>1
    <3> HIDE DEF twice
    <3> QED BY <2>3, <3>1 DEF Holds
  <2> QED BY <2>2, <2>4, <2>5 DEF once, new
<1> QED
  BY <1>6, <1>7, <1>8 DEF OnePlace

=============================================================================
