-------------------------- MODULE HostsFileProofs --------------------------
(***************************************************************************)
(* Proofs about HostsFile, for any user files, wants, number of programs,  *)
(* and bounds on their operations and faults: while no two programs were   *)
(* at the file together, the sequence of reads, writes and a rename that   *)
(* hosts/hosts.go makes is one step of AtomicHosts, whatever fails.        *)
(***************************************************************************)
EXTENDS HostsFile, HostsBlockProofs

\* The operators of the abstract specification are those of the detailed one.
LEMMA SameFlatten == \A parts : Atomic!FlattenSeq(parts) = FlattenSeq(parts)
BY DEF Atomic!FlattenSeq, FlattenSeq

\* The instance of HostsBlock in the abstract hosts file and the one here have the same
\* operators; this and the next five say so.
LEMMA SameManaged == \A lines, i : Atomic!IsManaged(lines, i) <=> IsManaged(lines, i)
BY DEF Atomic!IsManaged, IsManaged, Atomic!InBlock, InBlock, Atomic!IsMarker, IsMarker,
       Atomic!Begin, Begin, Atomic!End, End

\* readBlock is the same in both.
LEMMA SameReadBlock == \A lines : Atomic!ReadBlock(lines) = ReadBlock(lines)
BY SameFlatten, SameManaged, Zenon DEF Atomic!ReadBlock, ReadBlock

\* replaceBlock is the same in both.
LEMMA SameReplaceBlock ==
    \A lines, block : Atomic!ReplaceBlock(lines, block) = ReplaceBlock(lines, block)
BY SameFlatten, SameManaged, Zenon DEF Atomic!ReplaceBlock, ReplaceBlock, Atomic!Begin, Begin

\* buildBlock is the same in both.
LEMMA SameBuildBlock == \A domains : Atomic!BuildBlock(domains) = BuildBlock(domains)
BY SameFlatten, Zenon DEF Atomic!BuildBlock, BuildBlock, Atomic!Entries, Entries,
       Atomic!Begin, Begin, Atomic!Note, Note, Atomic!End, End

\* So is a removal.
LEMMA SameRemoved == \A lines : Atomic!Removed(lines) = Removed(lines)
BY SameReplaceBlock DEF Atomic!Removed, Removed

\* So is a sync.
LEMMA SameSynced ==
    \A block, lines, domains :
        Atomic!Synced(block, lines, domains) = Synced(block, lines, domains)
BY SameReplaceBlock, SameBuildBlock DEF Atomic!Synced, Synced

---------------------------------------------------------------------------

Stages == {"idle", "read", "open", "write", "rename"}

\* What makes the updates of pc, task and fd mean what they say.
Shape ==
    /\ wanted \in Wants
    /\ pc \in [Programs -> Stages]
    /\ task = [p \in Programs |-> task[p]]
    /\ fd \in [Programs -> {"none", "tmp", "file", "unlinked"}]
    /\ overlap \in BOOLEAN

OneBusy == \A p, q \in Programs : Busy(p) /\ Busy(q) => p = q

\* The first reading is still true of the file at the second.
Fresh(p) ==
    pc[p] = "read" =>
        \/ task[p].op = "remove"
        \/ task[p].op = "sync" /\ task[p].domains \in Wants /\ task[p].block = ReadBlock(file)

\* The content is what one whole operation makes of the file.
Good(content) ==
    \/ \E domains \in Wants : content = Synced(ReadBlock(file), file, domains)
    \/ content = Removed(file)

Prepared(p) == pc[p] \in {"open", "write", "rename"} => Good(task[p].content)

Descriptor(p) == IF pc[p] = "write" THEN fd[p] = "tmp" /\ tmp = << >> ELSE fd[p] = "none"

Written(p) == pc[p] = "rename" => tmp = task[p].content

Undisturbed ==
    ~overlap =>
        /\ OneBusy
        /\ \A p \in Programs : Fresh(p) /\ Prepared(p) /\ Descriptor(p) /\ Written(p)

\* ForeignKept does not tell what a program has read or written so far; this does.
IInv == Shape /\ Undisturbed

\* The proxy is one of the programs.
LEMMA ProxyIsProgram == Proxy \in Programs
BY DEF Programs

\* The invariant holds at the start.
LEMMA InitIInv == Init => IInv
BY DEF Init, IInv, Shape, Stages, Undisturbed, OneBusy, Busy, Fresh, Prepared, Descriptor,
       Written

\* A step of one program while no other is busy preserves it.
LEMMA NextIInv == IInv /\ [Next]_vars => IInv'
<1> SUFFICES ASSUME IInv, [Next]_vars PROVE IInv'
  OBVIOUS
<1> USE DEF IInv, Shape, Stages, Undisturbed, OneBusy, Busy, Goto
<1>1. CASE Change
  BY <1>1 DEF Change, Fresh, Prepared, Good, Descriptor, Written
<1>2. ASSUME NEW line \in Additions, Edit(line) PROVE IInv'
  BY <1>2 DEF Edit, Fresh, Prepared, Good, Descriptor, Written
<1>3. ASSUME NEW p \in Programs, NEW op \in {"sync", "remove"}, NEW domains \in Wants \cup {{}},
             op = "sync" => domains \in Wants, Begins(p, op, domains)
      PROVE  IInv'
  <2>1. Shape' BY <1>3 DEF Begins
  <2>2. ASSUME ~overlap' PROVE \A q \in Programs : pc'[q] = IF q = p THEN "read" ELSE "idle"
    BY <1>3, <2>2 DEF Begins
  <2>3. ASSUME ~overlap' PROVE \A q \in Programs : (Fresh(q) /\ Prepared(q) /\ Written(q))'
    BY <1>3, <2>3, <2>2 DEF Begins, Fresh, Prepared, Written
  <2>4. ASSUME ~overlap' PROVE \A q \in Programs : Descriptor(q)'
    BY <1>3, <2>4, <2>2 DEF Begins, Descriptor
  <2> QED BY <2>1, <2>2, <2>3, <2>4
<1>4. ASSUME NEW p \in Programs, ReadFile(p) PROVE IInv'
  <2>1. Shape' BY <1>4 DEF ReadFile
  <2>2. ASSUME ~overlap' PROVE Good(task[p].content)'
    <3>1. Fresh(p) /\ file' = file BY <1>4, <2>2 DEF ReadFile
    <3>2. CASE task[p].op = "remove"
      <4>1. task'[p].content = Removed(file) BY <1>4, <3>2 DEF ReadFile
      <4> QED BY <4>1, <3>1 DEF Good
    <3>3. CASE task[p].op = "sync"
      <4>1. task'[p].content = Synced(ReadBlock(file), file, task[p].domains)
        BY <1>4, <3>1, <3>3 DEF ReadFile, Fresh
      <4> QED BY <4>1, <1>4, <3>1, <3>3 DEF Good, Fresh, ReadFile
    <3> QED BY <1>4, <3>1, <3>2, <3>3 DEF Fresh, ReadFile
  <2> QED BY <1>4, <2>1, <2>2 DEF ReadFile, Fresh, Prepared, Good, Descriptor, Written
<1>5. ASSUME NEW p \in Programs, OpenTemp(p) PROVE IInv'
  BY <1>5 DEF OpenTemp, Fresh, Prepared, Good, Descriptor, Written
<1>6. ASSUME NEW p \in Programs, WriteTemp(p) PROVE IInv'
  <2>1. Shape' BY <1>6 DEF WriteTemp
  <2>2. ASSUME ~overlap' PROVE file' = file /\ tmp' = task[p].content
    BY <1>6, <2>2 DEF WriteTemp, Overwritten, Descriptor
  <2>3. ASSUME ~overlap'
        PROVE  \A q \in Programs : /\ pc'[q] = IF q = p THEN "rename" ELSE "idle"
                                   /\ fd'[q] = "none"
    BY <1>6, <2>3 DEF WriteTemp, Descriptor
  <2>4. ASSUME ~overlap' PROVE Good(task[p].content)'
    BY <1>6, <2>2, <2>4 DEF WriteTemp, Prepared, Good
  <2>5. task' = task
    BY <1>6 DEF WriteTemp
  <2>6. ASSUME ~overlap', NEW q \in Programs
        PROVE  (Fresh(q) /\ Prepared(q) /\ Descriptor(q) /\ Written(q))'
    BY <2>2, <2>3, <2>4, <2>5, <2>6 DEF Fresh, Prepared, Descriptor, Written
  <2>7. ASSUME ~overlap' PROVE OneBusy'
    BY <2>3, <2>7
  <2> QED BY <2>1, <2>6, <2>7
<1>7. ASSUME NEW p \in Programs, Rename(p) PROVE IInv'
  <2>1. Shape' BY <1>7 DEF Rename, Renamed, Finish
  <2>2. ASSUME ~overlap' PROVE \A q \in Programs : pc'[q] = "idle" /\ fd'[q] = "none"
    BY <1>7, <2>2 DEF Rename, Renamed, Finish, Descriptor
  <2>3. ASSUME ~overlap', NEW q \in Programs
        PROVE  (Fresh(q) /\ Prepared(q) /\ Descriptor(q) /\ Written(q))'
    BY <2>2, <2>3 DEF Fresh, Prepared, Descriptor, Written
  <2> QED BY <2>1, <2>2, <2>3
<1>8. ASSUME NEW p \in Programs, RenameFails(p) PROVE IInv'
  <2>1. Shape' BY <1>8 DEF RenameFails, Unlinked, Finish
  <2>2. ASSUME ~overlap' PROVE \A q \in Programs : pc'[q] = "idle" /\ fd'[q] = "none"
    BY <1>8, <2>2 DEF RenameFails, Unlinked, Finish, Descriptor
  <2>3. ASSUME ~overlap', NEW q \in Programs
        PROVE  (Fresh(q) /\ Prepared(q) /\ Descriptor(q) /\ Written(q))'
    BY <2>2, <2>3 DEF Fresh, Prepared, Descriptor, Written
  <2> QED BY <2>1, <2>2, <2>3
<1>9. ASSUME NEW p \in Programs, Stop(p) PROVE IInv'
  <2>1. Shape' BY <1>9 DEF Stop, Finish
  <2>2. ASSUME ~overlap' PROVE \A q \in Programs : pc'[q] = "idle" /\ fd'[q] = "none"
    BY <1>9, <2>2 DEF Stop, Finish, Descriptor
  <2>3. ASSUME ~overlap', NEW q \in Programs
        PROVE  (Fresh(q) /\ Prepared(q) /\ Descriptor(q) /\ Written(q))'
    BY <2>2, <2>3 DEF Fresh, Prepared, Descriptor, Written
  <2> QED BY <2>1, <2>2, <2>3
<1>10. CASE UNCHANGED vars
  BY <1>10 DEF vars, Fresh, Prepared, Good, Descriptor, Written
<1>11. ASSUME NEW p \in Programs, Operate(p) PROVE IInv'
  <2>1. CASE BeginSync(p) BY <2>1, <1>3 DEF BeginSync
  <2>2. CASE BeginRemove(p) BY <2>2, <1>3 DEF BeginRemove
  <2> QED BY <1>11, <2>1, <2>2, <1>4, <1>5, <1>6, <1>7, <1>8 DEF Operate
<1> QED
  BY <1>1, <1>2, <1>9, <1>10, <1>11 DEF Next

\* Whatever fails and whoever is killed, a program that has the file for itself works on
\* what is in it.
THEOREM Undisturbance == Spec => []IInv
BY InitIInv, NextIInv, PTL DEF Spec

---------------------------------------------------------------------------

\* Every step is one of AtomicHosts or changes nothing that it sees.
LEMMA StepRefines == IInv /\ [Next]_vars => [Atomic!Next]_<<file, overlap>>
<1> SUFFICES ASSUME IInv, [Next]_vars, ~overlap', ~UNCHANGED <<file, overlap>>
             PROVE  Atomic!Alone
  BY DEF Atomic!Next
<1> USE DEF IInv, Shape, Stages, Undisturbed, OneBusy, Busy, Atomic!Alone
<1>1. ASSUME NEW line \in Additions, Edit(line) PROVE Atomic!Alone
  BY <1>1 DEF Edit, Atomic!Edit
<1>2. ASSUME NEW p \in Programs, WriteTemp(p) PROVE FALSE
  BY <1>2 DEF WriteTemp, Descriptor
<1>3. ASSUME NEW p \in Programs, Rename(p) PROVE Atomic!Alone
  <2>1. ~overlap /\ Good(file')
    BY <1>3 DEF Rename, Written, Prepared
  <2>2. CASE \E domains \in Wants : file' = Synced(ReadBlock(file), file, domains)
    BY <2>2, SameSynced, SameReadBlock DEF Atomic!Sync
  <2>3. CASE file' = Removed(file)
    BY <2>3, SameRemoved DEF Atomic!Clean
  <2> QED BY <2>1, <2>2, <2>3 DEF Good
<1>4. ASSUME NEW p \in Programs,
             \/ ReadFile(p) \/ OpenTemp(p) \/ RenameFails(p) \/ Stop(p)
      PROVE  FALSE
  BY <1>4 DEF ReadFile, OpenTemp, RenameFails, Stop
<1>5. ASSUME NEW p \in Programs, NEW op, NEW domains, Begins(p, op, domains) PROVE FALSE
  BY <1>5 DEF Begins
<1>6. CASE Change
  BY <1>6 DEF Change
<1> QED
  BY <1>1, <1>2, <1>3, <1>4, <1>5, <1>6 DEF Next, Operate, BeginSync, BeginRemove, vars

\* hosts.go:185-199: to anyone who reads the hosts file, a sync or a removal that had the
\* file for itself is one step, from what was there to all of what it should be.
THEOREM AtomicRefinement == Spec => AtomicSpec
<1>1. Init => Atomic!Init
  BY DEF Init, Atomic!Init, Files
<1> QED
  BY <1>1, StepRefines, Undisturbance, PTL DEF Spec, AtomicSpec, Atomic!Spec

---------------------------------------------------------------------------
(* The user's lines *)

Own1(line) == IF line \in UserLines THEN <<line>> ELSE << >>

\* One more line is one more of the user's, or not.
LEMMA ForeignAppend ==
    ASSUME NEW S, NEW lines \in Seq(S), NEW x \in S
    PROVE  Foreign(Append(lines, x)) = Foreign(lines) \o Own1(x)
<1> DEFINE part(f) == [i \in DOMAIN f |-> IF f[i] \in UserLines THEN <<f[i]>> ELSE << >>]
           n == Len(lines)
           more == Append(lines, x)
<1>1. /\ n \in Nat /\ more \in Seq(S) /\ Len(more) = n + 1
      /\ \A i \in 1 .. n : more[i] = lines[i]
      /\ more[n + 1] = x /\ DOMAIN lines = 1 .. n /\ DOMAIN more = 1 .. n + 1
  BY AppendProperties, LenProperties
<1>2. \A i \in DOMAIN lines : part(lines)[i] \in Seq(S)
  BY ElementOfSeq, <1>1
<1>3. part(lines) \in Seq(Seq(S)) /\ Len(part(lines)) = n
  <2>1. part(lines) = [i \in DOMAIN lines |-> part(lines)[i]] OBVIOUS
  <2> HIDE DEF part
  <2> QED BY <1>2, <2>1, MappedSeq
<1>4. /\ \A i \in 1 .. n : part(more)[i] = part(lines)[i]
      /\ part(more)[n + 1] = Own1(x)
      /\ part(more) \in [1 .. n + 1 -> Seq(S)]
  BY <1>1 DEF Own1
<1>5. FlattenSeq(part(more)) = FlattenSeq(part(lines)) \o part(more)[n + 1]
  <2> DEFINE old == part(lines)
             new == part(more)
  <2> HIDE DEF part, n, more
  <2>1. old \in Seq(Seq(S)) /\ n = Len(old)
    BY <1>3
  <2>2. new \in [1 .. n + 1 -> Seq(S)] /\ \A i \in 1 .. n : new[i] = old[i]
    BY <1>4
  <2> HIDE DEF old, new
  <2>3. FlattenSeq(new) = FlattenSeq(old) \o new[n + 1]
    BY <2>1, <2>2, FlattenExtend
  <2> QED BY <2>3 DEF old, new
<1> QED
  BY <1>4, <1>5 DEF Foreign

\* A file without lines has none of the user's.
LEMMA ForeignOfNothing == Foreign(<< >>) = << >>
<1>1. \A f : DOMAIN f = {} /\ f = [i \in DOMAIN f |-> f[i]] => f = << >>
  OBVIOUS
<1> QED
  BY <1>1, FlattenEmpty DEF Foreign

\* The user's lines are lines of the file.
LEMMA ForeignType ==
    ASSUME NEW S, NEW lines \in Seq(S)
    PROVE  Foreign(lines) \in Seq(S)
<1> DEFINE T == {l \in Seq(S) : Foreign(l) \in Seq(S)}
<1>1. << >> \in T
  BY ForeignOfNothing, EmptySeq
<1>2. ASSUME NEW l \in T, NEW x \in S PROVE Append(l, x) \in T
  <2>1. Own1(x) \in Seq(S) BY DEF Own1
  <2>2. l \in Seq(S) /\ Foreign(l) \in Seq(S) /\ Append(l, x) \in Seq(S)
    BY AppendProperties
  <2> HIDE DEF T
  <2>3. Foreign(Append(l, x)) = Foreign(l) \o Own1(x)
    BY <2>2, ForeignAppend
  <2>4. Foreign(l) \o Own1(x) \in Seq(S)
    BY <2>1, <2>2, ConcatProperties
  <2> QED BY <2>2, <2>3, <2>4 DEF T
<1>3. T = Seq(S)
  <2> HIDE DEF T
  <2>1. T \in SUBSET Seq(S) BY DEF T
  <2> QED BY <1>1, <1>2, <2>1, SeqInduction
<1> QED
  BY <1>3

\* The user's lines of a file are those of its two parts.
LEMMA ForeignConcat ==
    ASSUME NEW S, NEW a \in Seq(S), NEW b \in Seq(S)
    PROVE  Foreign(a \o b) = Foreign(a) \o Foreign(b)
<1> DEFINE P(l) == Foreign(a \o l) = Foreign(a) \o Foreign(l)
           T == {l \in Seq(S) : P(l)}
<1>1. << >> \in T
  <2>1. a \o << >> = a /\ Foreign(a) \o << >> = Foreign(a)
    BY ForeignType, ConcatEmptySeq
  <2> QED BY <2>1, ForeignOfNothing, EmptySeq
<1>2. ASSUME NEW l \in T, NEW x \in S PROVE Append(l, x) \in T
  <2> DEFINE p == Own1(x)
             front == Foreign(a)
             back == Foreign(l)
  <2>1. l \in Seq(S) /\ a \o l \in Seq(S) /\ a \o Append(l, x) = Append(a \o l, x)
        /\ Append(l, x) \in Seq(S) /\ P(l)
    <3>1. l \in Seq(S) /\ P(l)
      OBVIOUS
    <3> HIDE DEF T, P
    <3>2. a \o l \in Seq(S)
      BY <3>1, ConcatProperties
    <3>3. Append(l, x) \in Seq(S)
      BY <3>1, AppendProperties
    <3>4. a \o Append(l, x) = Append(a \o l, x)
      BY <3>1
    <3> QED BY <3>1, <3>2, <3>3, <3>4
  <2>2. front \in Seq(S) /\ back \in Seq(S) /\ p \in Seq(S)
    BY <2>1, ForeignType DEF Own1
  <2>3. Foreign(Append(a \o l, x)) = Foreign(a \o l) \o p /\ Foreign(Append(l, x)) = back \o p
    BY <2>1, ForeignAppend
  <2>4. Foreign(a \o l) = front \o back
    BY <2>1
  <2> HIDE DEF T, P, p, front, back
  <2>5. Regroups(front, back, p)
    BY <2>2, Regrouped
  <2>6. Foreign(a \o Append(l, x)) = front \o Foreign(Append(l, x))
    BY <2>1, <2>3, <2>4, <2>5, Zenon DEF Regroups
  <2> QED BY <2>1, <2>6 DEF T, P, front
<1>3. T = Seq(S)
  <2> HIDE DEF T
  <2>1. T \in SUBSET Seq(S) BY DEF T
  <2> QED BY <1>1, <1>2, <2>1, SeqInduction
<1> QED
  BY <1>3

\* One line alone is the user's or not.
LEMMA ForeignOne ==
    ASSUME NEW S, NEW x \in S
    PROVE  Foreign(<<x>>) = Own1(x)
<1>1. << >> \in Seq(S) /\ <<x>> = Append(<< >>, x) /\ Own1(x) \in Seq(S)
  BY DEF Own1
<1>2. Foreign(Append(<< >>, x)) = << >> \o Own1(x)
  BY <1>1, ForeignAppend, ForeignOfNothing
<1> QED
  BY <1>1, <1>2, ConcatEmptySeq

\* No line of a block is the user's.
LEMMA ForeignOfBlock == \A domains : Foreign(BuildBlock(domains)) = << >>
<1> DEFINE T == {l \in Seq(BlockLines) : Foreign(l) = << >>}
<1>1. << >> \in T
  BY ForeignOfNothing, EmptySeq
<1>2. ASSUME NEW l \in T, NEW x \in BlockLines PROVE Append(l, x) \in T
  <2>1. Own1(x) = << >>
    BY UserLinesAssumption DEF Own1, BlockLines
  <2>2. l \in Seq(BlockLines) /\ Foreign(l) = << >> /\ Append(l, x) \in Seq(BlockLines)
    BY AppendProperties
  <2>3. Foreign(Append(l, x)) = << >> \o << >>
    BY <2>1, <2>2, ForeignAppend
  <2>4. << >> \o << >> = << >>
    BY ConcatEmptySeq, EmptySeq
  <2> QED BY <2>2, <2>3, <2>4
<1>3. T = Seq(BlockLines)
  <2> HIDE DEF T
  <2>1. T \in SUBSET Seq(BlockLines) BY DEF T
  <2> QED BY <1>1, <1>2, <2>1, SeqInduction
<1>4. \A domains : BuildBlock(domains) \in Seq(BlockLines)
  BY BuildBlockIs, EmptySeq
<1> QED
  BY <1>3, <1>4

\* Whatever takes the place of the block, the user's lines outside stay.
LEMMA ForeignReplaced ==
    ASSUME NEW S, NEW lines \in Seq(S), NEW block \in Seq(S), Foreign(block) = << >>
    PROVE  Foreign(ReplaceBlock(lines, block)) = Foreign(ReplaceBlock(lines, << >>))
<1> DEFINE P(l) == Foreign(ReplaceBlock(l, block)) = Foreign(ReplaceBlock(l, << >>))
           T == {l \in Seq(S) : P(l)}
<1>1. << >> \in T
  BY OfNothing, EmptySeq
<1>2. ASSUME NEW l \in T, NEW x \in S PROVE Append(l, x) \in T
  <2> DEFINE p == Replace1(Open(l), x, block)
             q == Replace1(Open(l), x, << >>)
             front == ReplaceBlock(l, block)
             rest == ReplaceBlock(l, << >>)
  <2>1. l \in Seq(S) /\ Append(l, x) \in Seq(S) /\ << >> \in Seq(S) /\ P(l)
    BY AppendProperties
  <2>2. p \in Seq(S) /\ q \in Seq(S) /\ front \in Seq(S) /\ rest \in Seq(S)
    BY <2>1, ReplaceType, Replace1Type
  <2>3. Foreign(p) = Foreign(q)
    BY ForeignOfNothing DEF Replace1
  <2>4. ReplaceBlock(Append(l, x), block) = front \o p
        /\ ReplaceBlock(Append(l, x), << >>) = rest \o q
    BY <2>1, ReplaceAppend
  <2>5. Foreign(front) = Foreign(rest)
    BY <2>1
  <2> HIDE DEF T, P, p, q, front, rest
  <2>6. Foreign(front \o p) = Foreign(front) \o Foreign(p)
        /\ Foreign(rest \o q) = Foreign(rest) \o Foreign(q)
    BY <2>2, ForeignConcat
  <2> QED BY <2>1, <2>3, <2>4, <2>5, <2>6 DEF T, P
<1>3. T = Seq(S)
  <2> HIDE DEF T
  <2>1. T \in SUBSET Seq(S) BY DEF T
  <2> QED BY <1>1, <1>2, <2>1, SeqInduction
<1> QED
  BY <1>3

\* hosts.go:43-72: a sync leaves the user's lines that a removal would leave.
LEMMA ForeignOfSynced ==
    ASSUME NEW domains, NEW S, BlockLines \subseteq S, NEW lines \in Seq(S)
    PROVE  Foreign(Synced(ReadBlock(lines), lines, domains)) = Foreign(Removed(lines))
<1> DEFINE new == BuildBlock(domains)
<1>1. new \in Seq(S) /\ Foreign(new) = << >> /\ << >> \in Seq(S)
  BY BuildBlockIs, ForeignOfBlock, EmptySeq
<1> HIDE DEF new
<1>2. CASE ReadBlock(lines) # << >>
  BY <1>1, <1>2, ForeignReplaced DEF Synced, Removed, new
<1>3. CASE ReadBlock(lines) = << >>
  <2>1. Removed(lines) = lines
    BY <1>1, <1>3, NothingRead, FreeLines DEF Removed
  <2>2. Foreign(lines \o new) = Foreign(lines) \o << >>
    BY <1>1, ForeignConcat
  <2>3. Foreign(lines) \o << >> = Foreign(lines)
    BY ForeignType, ConcatEmptySeq
  <2> QED BY <1>3, <2>1, <2>2, <2>3 DEF Synced, new
<1> QED
  BY <1>2, <1>3

\* A file with no line of the user's in a block keeps them all when the block goes.
LEMMA WholeKeeps ==
    ASSUME NEW S, NEW lines \in Seq(S),
           \A i \in DOMAIN lines : InBlock(lines, i) => lines[i] \notin UserLines
    PROVE  Foreign(Removed(lines)) = Foreign(lines)
<1> DEFINE Clear(l) == \A i \in DOMAIN l : InBlock(l, i) => l[i] \notin UserLines
           P(l) == Foreign(ReplaceBlock(l, << >>)) = Foreign(l)
           T == {l \in Seq(S) : Clear(l) => P(l)}
<1>1. << >> \in T
  BY OfNothing, EmptySeq
<1>2. ASSUME NEW l \in T, NEW x \in S PROVE Append(l, x) \in T
  <2> DEFINE q == Replace1(Open(l), x, << >>)
             rest == ReplaceBlock(l, << >>)
  <2>1. l \in Seq(S) /\ Append(l, x) \in Seq(S) /\ << >> \in Seq(S)
    BY AppendProperties
  <2> SUFFICES ASSUME Clear(Append(l, x)) PROVE P(Append(l, x))
    BY <2>1
  <2>2. Clear(l) /\ (Open(l) => x \notin UserLines)
    <3>1. /\ Len(l) \in Nat /\ DOMAIN l = 1 .. Len(l)
          /\ DOMAIN Append(l, x) = 1 .. Len(l) + 1
          /\ Append(l, x)[Len(l) + 1] = x
      BY <2>1, AppendProperties, LenProperties
    <3>2. /\ \A i \in 1 .. Len(l) :
                Append(l, x)[i] = l[i] /\ (InBlock(Append(l, x), i) <=> InBlock(l, i))
          /\ InBlock(Append(l, x), Len(l) + 1) <=> Open(l)
      BY <2>1, ManagedBefore
    <3>3. Len(l) + 1 \in 1 .. Len(l) + 1 /\ \A i \in 1 .. Len(l) : i \in 1 .. Len(l) + 1
      BY <3>1
    <3> QED BY <3>1, <3>2, <3>3
  <2>3. q \in Seq(S) /\ rest \in Seq(S) /\ Foreign(rest) = Foreign(l)
    BY <2>1, <2>2, ReplaceType, Replace1Type
  <2>4. Foreign(q) = Own1(x)
    <3>1. CASE IsMarker(x) \/ Open(l)
      <4>1. q = << >> /\ Own1(x) = << >>
        BY <2>2, <3>1, UserLinesAssumption, Markers DEF Replace1, Keep1, Own1
      <4> QED BY <4>1, ForeignOfNothing, Zenon
    <3>2. CASE ~(IsMarker(x) \/ Open(l))
      <4>1. q = <<x>>
        BY <3>2, Markers DEF Replace1, Keep1
      <4> QED BY <4>1, ForeignOne, Zenon
    <3> QED BY <3>1, <3>2
  <2>5. ReplaceBlock(Append(l, x), << >>) = rest \o q
    BY <2>1, ReplaceAppend
  <2>6. Foreign(Append(l, x)) = Foreign(l) \o Own1(x)
    BY <2>1, ForeignAppend
  <2> HIDE DEF T, P, Clear, q, rest
  <2>7. Foreign(rest \o q) = Foreign(rest) \o Foreign(q)
    BY <2>3, ForeignConcat
  <2> QED BY <2>3, <2>4, <2>5, <2>6, <2>7 DEF P
<1>3. T = Seq(S)
  <2> HIDE DEF T
  <2>1. T \in SUBSET Seq(S) BY DEF T
  <2> QED BY <1>1, <1>2, <2>1, SeqInduction
<1> QED
  BY <1>3 DEF Removed

\* What begins with BEGIN and has no END is one open block.
LEMMA UnendedGoes ==
    ASSUME NEW S, NEW lines \in Seq(S),
           \A i \in DOMAIN lines : lines[1] = Begin /\ lines[i] # End
    PROVE  /\ lines # << >> => Open(lines)
           /\ Removed(lines) = << >>
<1> DEFINE Unended(l) == \A i \in DOMAIN l : l[1] = Begin /\ l[i] # End
           P(l) == (l # << >> => Open(l)) /\ ReplaceBlock(l, << >>) = << >>
           T == {l \in Seq(S) : Unended(l) => P(l)}
<1>1. << >> \in T
  BY OfNothing, EmptySeq
<1>2. ASSUME NEW l \in T, NEW x \in S PROVE Append(l, x) \in T
  <2>1. l \in Seq(S) /\ Append(l, x) \in Seq(S) /\ << >> \in Seq(S)
    BY AppendProperties
  <2> SUFFICES ASSUME Unended(Append(l, x)) PROVE P(Append(l, x))
    BY <2>1
  <2>2. /\ Len(l) \in Nat /\ DOMAIN l = 1 .. Len(l)
        /\ DOMAIN Append(l, x) = 1 .. Len(l) + 1
        /\ \A i \in 1 .. Len(l) : Append(l, x)[i] = l[i] /\ i \in 1 .. Len(l) + 1
        /\ Append(l, x)[Len(l) + 1] = x /\ Len(l) + 1 \in 1 .. Len(l) + 1
        /\ (l = << >> <=> Len(l) = 0)
    BY <2>1, AppendProperties, LenProperties, EmptySeq
  <2>3. x # End /\ (l = << >> => x = Begin)
    BY <2>2
  <2>4. Unended(l)
    BY <2>2
  <2>5. l # << >> => Open(l)
    BY <2>4
  <2>6. ReplaceBlock(l, << >>) = << >>
    BY <2>4
  <2>7. Open(Append(l, x))
    BY <2>1, <2>3, <2>5, ManagedBefore
  <2>8. Replace1(Open(l), x, << >>) = << >>
    BY <2>3, <2>5 DEF Replace1, Keep1
  <2>9. ReplaceBlock(Append(l, x), << >>) = << >> \o << >>
    <3>1. ReplaceBlock(Append(l, x), << >>)
            = ReplaceBlock(l, << >>) \o Replace1(Open(l), x, << >>)
      BY <2>1, ReplaceAppend
    <3> QED BY <2>6, <2>8, <3>1, Zenon
  <2>10. << >> \o << >> = << >>
    BY <2>1, ConcatEmptySeq
  <2> QED BY <2>7, <2>9, <2>10
<1>3. T = Seq(S)
  <2> HIDE DEF T
  <2>1. T \in SUBSET Seq(S) BY DEF T
  <2> QED BY <1>1, <1>2, <2>1, SeqInduction
<1> QED
  BY <1>3 DEF Removed

---------------------------------------------------------------------------
(* Types *)

\* The descriptor of a program that has the temporary file open is that of a file.
Typed ==
    /\ TypeOK
    /\ task = [p \in Programs |-> task[p]]
    /\ \A p \in Programs : fd[p] = "tmp" => tmp \in Seq(Line)

\* The block's lines, the user's additions and the files at the start are all of lines.
LEMMA LineFacts ==
    /\ BlockLines \subseteq Line
    /\ Additions \subseteq Line
    /\ \A c \in Contents : c.whole \in Seq(Line) /\ c.unended \in Seq(Line)
    /\ << >> \in Seq(Line)
<1>1. BlockLines \subseteq Line /\ Additions \subseteq Line
  BY DEF BlockLines, Line, Range
<1>2. ASSUME NEW c \in Contents PROVE c.whole \in Seq(Line) /\ c.unended \in Seq(Line)
  <2>1. c.whole \in Seq(Range(c.whole)) /\ c.unended \in Seq(Range(c.unended))
    BY ContentsAssumption
  <2>2. Range(c.whole) \subseteq Line /\ Range(c.unended) \subseteq Line
    BY DEF Line
  <2> HIDE DEF Line
  <2> QED BY <2>1, <2>2, SeqMonotonic
<1>3. << >> \in Seq(Line)
  <2> HIDE DEF Line
  <2> QED OBVIOUS
<1> QED
  BY <1>1, <1>2, <1>3

\* Every content a program prepares is made of known lines.
LEMMA ContentType ==
    ASSUME NEW lines \in Seq(Line), NEW block \in Seq(Line), NEW domains
    PROVE  /\ ReadBlock(lines) \in Seq(Line)
           /\ Removed(lines) \in Seq(Line)
           /\ Synced(block, lines, domains) \in Seq(Line)
<1>1. ReadBlock(lines) \in Seq(Line)
  BY ReadType
<1>2. \A other \in Seq(Line) : ReplaceBlock(lines, other) \in Seq(Line)
  BY ReplaceType
<1>3. BuildBlock(domains) \in Seq(Line)
  BY LineFacts, BuildBlockIs
<1>4. lines \o BuildBlock(domains) \in Seq(Line)
  BY <1>3, ConcatProperties
<1> QED
  BY <1>1, <1>2, <1>3, <1>4, LineFacts DEF Removed, Synced

\* A write over a longer file leaves lines, some of each.
LEMMA OverwrittenType ==
    ASSUME NEW lines \in Seq(Line), NEW content \in Seq(Line)
    PROVE  Overwritten(lines, content) \in Seq(Line)
<1> DEFINE rest == SubSeq(lines, Len(content) + 1, Len(lines))
<1>1. rest \in Seq(Line)
  <2>1. /\ Len(content) \in Nat /\ Len(lines) \in Nat
        /\ \A i \in Len(content) + 1 .. Len(lines) : i \in 1 .. Len(lines)
        /\ Len(content) + 1 \in Int
    BY LenProperties
  <2>2. \A i \in Len(content) + 1 .. Len(lines) : lines[i] \in Line
    BY <2>1, ElementOfSeq
  <2> QED BY <2>1, <2>2, SubSeqProperties
<1>2. content \o rest \in Seq(Line)
  <2> HIDE DEF rest
  <2> QED BY <1>1, ConcatProperties
<1> QED
  BY <1>2 DEF Overwritten

\* The file at the start is one of Contents, and no program has anything.
LEMMA InitTyped == Init => Typed
<1> SUFFICES ASSUME Init PROVE Typed
  OBVIOUS
<1>1. file \in Seq(Line) /\ user \in Seq(Line) /\ stranded \in Seq(Line)
  <2>1. PICK c \in Contents : /\ file = c.whole \o c.unended
                             /\ user = Foreign(c.whole) /\ stranded = Foreign(c.unended)
    BY DEF Init
  <2>2. c.whole \in Seq(Line) /\ c.unended \in Seq(Line)
    BY LineFacts
  <2> HIDE DEF Line
  <2> QED BY <2>1, <2>2, ForeignType, ConcatProperties
<1>2. /\ file \in Seq(Line) /\ user \in Seq(Line) /\ stranded \in Seq(Line) /\ tmp = NoFile /\ << >> \in Seq(Line)
      /\ wanted \in Wants /\ overlap = FALSE /\ others = 0 /\ faults = 0
      /\ \A p \in Programs : pc[p] = "idle" /\ task[p] = NoTask /\ fd[p] = "none"
  BY <1>1, LineFacts DEF Init
<1>3. /\ pc = [p \in Programs |-> "idle"]
      /\ task = [p \in Programs |-> NoTask]
      /\ fd = [p \in Programs |-> "none"]
  BY DEF Init
<1>4. task = [p \in Programs |-> task[p]]
  BY <1>3
<1>5. others \in 0 .. MaxOthers /\ faults \in 0 .. MaxFaults
  BY <1>2, BoundAssumption
<1> HIDE DEF Line
<1> QED
  BY <1>2, <1>3, <1>4, <1>5 DEF Typed, TypeOK, NoTask

\* The end of an operation clears what the program held.
LEMMA FinishTyped ==
    ASSUME Typed, NEW p \in Programs, Finish(p)
    PROVE  /\ task' = [q \in Programs |-> task'[q]]
           /\ pc' \in [Programs -> {"idle", "read", "open", "write", "rename"}]
           /\ \A q \in Programs : pc'[q] = (IF q = p THEN "idle" ELSE pc[q])
           /\ \A q \in Programs :
                 /\ task'[q].op \in {"none", "sync", "remove"}
                 /\ task'[q].op = "none" <=> pc'[q] = "idle"
                 /\ task'[q].domains \in Wants \cup {{}}
                 /\ task'[q].block \in Seq(Line) /\ task'[q].content \in Seq(Line)
<1> HIDE DEF Line
<1>1. task' = [task EXCEPT ![p] = NoTask] /\ pc' = [pc EXCEPT ![p] = "idle"]
  BY DEF Finish, Goto
<1>2. /\ \A q \in Programs : task'[q] = (IF q = p THEN NoTask ELSE task[q])
      /\ \A q \in Programs : pc'[q] = (IF q = p THEN "idle" ELSE pc[q])
      /\ task' = [q \in Programs |-> task'[q]]
      /\ pc' \in [Programs -> {"idle", "read", "open", "write", "rename"}]
  BY <1>1 DEF Typed, TypeOK
<1>3. ASSUME NEW q \in Programs
      PROVE  /\ task'[q].op \in {"none", "sync", "remove"}
             /\ task'[q].op = "none" <=> pc'[q] = "idle"
             /\ task'[q].domains \in Wants \cup {{}}
             /\ task'[q].block \in Seq(Line) /\ task'[q].content \in Seq(Line)
  <2>1. CASE q = p
    <3>1. task'[q] = NoTask /\ pc'[q] = "idle"
      BY <1>2, <2>1
    <3>2. NoTask.op = "none" /\ NoTask.domains = {} /\ NoTask.block = << >> /\ NoTask.content = << >>
      BY DEF NoTask
    <3> QED BY <3>1, <3>2, LineFacts
  <2>2. CASE q # p
    BY <1>2, <2>2 DEF Typed, TypeOK
  <2> QED BY <2>1, <2>2
<1> QED
  BY <1>2, <1>3

\* Each step writes lines: of a sync, of a removal, or of the user.
LEMMA NextTyped == Typed /\ [Next]_vars => Typed'
<1> SUFFICES ASSUME Typed, [Next]_vars PROVE Typed'
  OBVIOUS
<1> USE DEF Typed, TypeOK, Busy, Goto
<1> HIDE DEF Line
<1>1. CASE Change
  BY <1>1 DEF Change
<1>2. ASSUME NEW line \in Additions, Edit(line) PROVE Typed'
  <2>1. file' \in Seq(Line) /\ user' \in Seq(Line) /\ stranded' \in Seq(Line)
    <3>1. line \in Line BY LineFacts
    <3>2. /\ Append(file, line) \in Seq(Line) /\ Append(user, line) \in Seq(Line)
          /\ Append(stranded, line) \in Seq(Line)
      BY <3>1, AppendProperties
    <3>3. /\ file' = Append(file, line)
          /\ user' \in {user, Append(user, line)}
          /\ stranded' \in {stranded, Append(stranded, line)}
      BY <1>2 DEF Edit
    <3> QED BY <3>2, <3>3
  <2> QED BY <1>2, <2>1 DEF Edit
<1>3. ASSUME NEW p \in Programs, NEW op \in {"sync", "remove"}, NEW domains \in Wants \cup {{}},
             Begins(p, op, domains)
      PROVE  Typed'
  <2>1. ReadBlock(file) \in Seq(Line) BY ContentType, LineFacts
  <2>2. others' \in 0 .. MaxOthers
    BY <1>3, BoundAssumption DEF Begins
  <2> QED BY <1>3, <2>1, <2>2, LineFacts DEF Begins
<1>4. ASSUME NEW p \in Programs, ReadFile(p) PROVE Typed'
  <2>1. task'[p].content \in Seq(Line)
    BY <1>4, ContentType DEF ReadFile
  <2> QED BY <1>4, <2>1, LineFacts DEF ReadFile
<1>5. ASSUME NEW p \in Programs, OpenTemp(p) PROVE Typed'
  BY <1>5, LineFacts DEF OpenTemp
<1>6. ASSUME NEW p \in Programs, WriteTemp(p) PROVE Typed'
  <2>1. /\ fd[p] = "tmp" => Overwritten(tmp, task[p].content) \in Seq(Line)
        /\ Overwritten(file, task[p].content) \in Seq(Line)
    BY OverwrittenType
  <2> QED BY <1>6, <2>1 DEF WriteTemp
<1>7. ASSUME NEW p \in Programs, Rename(p) PROVE Typed'
  <2>1. fd' = [q \in Programs |-> fd'[q]] /\ \A q \in Programs :
           /\ fd[q] = "tmp" => fd'[q] = "file"
           /\ fd[q] = "file" => fd'[q] = "unlinked"
           /\ fd[q] \in {"none", "unlinked"} => fd'[q] = fd[q]
    BY <1>7 DEF Rename, Renamed
  <2>2. fd' \in [Programs -> {"none", "tmp", "file", "unlinked"}]
        /\ \A q \in Programs : fd'[q] # "tmp" /\ (fd'[q] # "none" <=> fd[q] # "none")
    <3>1. \A q \in Programs : fd[q] \in {"none", "tmp", "file", "unlinked"}
      OBVIOUS
    <3>2. \A q \in Programs : fd'[q] \in {"none", "file", "unlinked"}
      BY <2>1, <3>1
    <3>3. \A q \in Programs : fd'[q] # "none" <=> fd[q] # "none"
      BY <2>1, <3>1
    <3> QED BY <2>1, <3>2, <3>3
  <2>3. file' \in Seq(Line) /\ tmp' = NoFile
    BY <1>7 DEF Rename
  <2>4. pc[p] = "rename" /\ Finish(p) /\ UNCHANGED <<wanted, user, stranded, overlap, others, faults>>
    BY <1>7 DEF Rename
  <2> QED BY <2>2, <2>3, <2>4, FinishTyped
<1>8. ASSUME NEW p \in Programs, RenameFails(p) PROVE Typed'
  <2>1. fd' = [q \in Programs |-> fd'[q]] /\ \A q \in Programs :
           /\ fd[q] = "tmp" => fd'[q] = "unlinked"
           /\ fd[q] # "tmp" => fd'[q] = fd[q]
    BY <1>8 DEF RenameFails, Unlinked
  <2>2. fd' \in [Programs -> {"none", "tmp", "file", "unlinked"}]
        /\ \A q \in Programs : fd'[q] # "tmp" /\ (fd'[q] # "none" <=> fd[q] # "none")
    BY <2>1
  <2>3. faults' \in 0 .. MaxFaults /\ tmp' = NoFile
    BY <1>8, BoundAssumption DEF RenameFails, Fault
  <2>4. pc[p] = "rename" /\ Finish(p) /\ UNCHANGED <<wanted, file, user, stranded, overlap, others>>
    BY <1>8 DEF RenameFails
  <2> QED BY <2>2, <2>3, <2>4, FinishTyped
<1>9. ASSUME NEW p \in Programs, Stop(p) PROVE Typed'
  <2>1. /\ fd' \in [Programs -> {"none", "tmp", "file", "unlinked"}]
        /\ \A q \in Programs : fd'[q] = (IF q = p THEN "none" ELSE fd[q])
    BY <1>9 DEF Stop
  <2>2. faults' \in 0 .. MaxFaults
    BY <1>9, BoundAssumption DEF Stop, Fault
  <2>3. Finish(p) /\ UNCHANGED <<wanted, file, tmp, user, stranded, overlap, others>>
    BY <1>9 DEF Stop
  <2> QED BY <2>1, <2>2, <2>3, FinishTyped
<1>10. CASE UNCHANGED vars
  BY <1>10 DEF vars
<1>11. ASSUME NEW p \in Programs, Operate(p) PROVE Typed'
  <2>1. CASE BeginSync(p) BY <2>1, <1>3 DEF BeginSync
  <2>2. CASE BeginRemove(p) BY <2>2, <1>3 DEF BeginRemove
  <2> QED BY <1>11, <2>1, <2>2, <1>4, <1>5, <1>6, <1>7, <1>8 DEF Operate
<1> QED
  BY <1>1, <1>2, <1>9, <1>10, <1>11 DEF Next

\* Typed holds in every reachable state.
LEMMA TypedInductive == Spec => []Typed
BY InitTyped, NextTyped, PTL DEF Spec

---------------------------------------------------------------------------
(* The user's lines in every state *)

\* How the file changes while no two programs are at it together.
FileStep ==
    \/ UNCHANGED <<file, user, stranded>>
    \/ \E line \in Additions :
          /\ file' = Append(file, line)
          /\ IF Open(file) THEN stranded' = Append(stranded, line) /\ user' = user
             ELSE user' = Append(user, line) /\ stranded' = stranded
    \/ /\ UNCHANGED <<user, stranded>>
       /\ \/ file' = Removed(file)
          \/ \E domains \in Wants : file' = Synced(ReadBlock(file), file, domains)

\* Every step is one of them.
LEMMA FileSteps ==
    IInv /\ [Next]_vars /\ ~overlap' => ~overlap /\ FileStep
<1> DEFINE Steps == ~overlap /\ FileStep
<1> SUFFICES ASSUME IInv, [Next]_vars, ~overlap' PROVE Steps
  OBVIOUS
<1> USE DEF IInv, Shape, Undisturbed, FileStep
<1>1. ASSUME NEW line \in Additions, Edit(line) PROVE Steps
  BY <1>1 DEF Edit, Open
<1>2. ASSUME NEW p \in Programs, WriteTemp(p) PROVE Steps
  BY <1>2 DEF WriteTemp, Descriptor
<1>3. ASSUME NEW p \in Programs, Rename(p) PROVE Steps
  <2>1. ~overlap /\ UNCHANGED <<user, stranded>>
    BY <1>3 DEF Rename
  <2>2. Good(file')
    BY <1>3, <2>1 DEF Rename, Written, Prepared
  <2> QED BY <2>1, <2>2 DEF Good
<1>4. ASSUME NEW p \in Programs,
             \/ ReadFile(p) \/ OpenTemp(p) \/ RenameFails(p) \/ Stop(p)
      PROVE  Steps
  BY <1>4 DEF ReadFile, OpenTemp, RenameFails, Stop
<1>5. ASSUME NEW p \in Programs, NEW op, NEW domains, Begins(p, op, domains) PROVE Steps
  BY <1>5 DEF Begins
<1>6. CASE Change
  BY <1>6 DEF Change
<1>7. CASE UNCHANGED vars
  BY <1>7 DEF vars
<1> HIDE DEF Steps
<1> QED
  BY <1>1, <1>2, <1>3, <1>4, <1>5, <1>6, <1>7 DEF Next, Operate, BeginSync, BeginRemove

\* ForeignKept, and what will be left of the user's lines when the block goes.
Kept ==
    /\ Foreign(file) = IF Open(file) THEN user \o stranded ELSE user
    /\ Foreign(Removed(file)) = user

\* At the start the user's lines are where ContentsAssumption has them.
LEMMA InitKept == Init => Kept
<1> SUFFICES ASSUME Init PROVE Kept
  OBVIOUS
<1>1. PICK c \in Contents : /\ file = c.whole \o c.unended
                           /\ user = Foreign(c.whole) /\ stranded = Foreign(c.unended)
  BY DEF Init
<1> DEFINE whole == c.whole
           rest == c.unended
<1>2. whole \in Seq(Line) /\ rest \in Seq(Line) /\ << >> \in Seq(Line)
  BY LineFacts
<1>3. /\ ~Open(whole)
      /\ \A i \in DOMAIN whole : InBlock(whole, i) => whole[i] \notin UserLines
      /\ \A i \in DOMAIN rest : rest[1] = Begin /\ rest[i] # End
  BY ContentsAssumption DEF Open
<1>4. file = whole \o rest /\ user = Foreign(whole) /\ stranded = Foreign(rest)
  BY <1>1
<1> HIDE DEF whole, rest, Line
<1>5. Foreign(file) = user \o stranded /\ user \in Seq(Line)
  BY <1>2, <1>4, ForeignConcat, ForeignType
<1>6. /\ Open(file) <=> Open(rest)
      /\ Removed(file) = Removed(whole) \o Removed(rest)
  <2>1. Parts(whole, rest, << >>)
    BY <1>2, <1>3, AfterClosed
  <2> QED BY <1>4, <2>1, Zenon DEF Parts, Removed
<1>7. (rest # << >> => Open(rest)) /\ Removed(rest) = << >>
  BY <1>2, <1>3, UnendedGoes
<1>8. rest = << >> => stranded = << >> /\ user \o stranded = user
  BY <1>4, <1>5, ForeignOfNothing, ConcatEmptySeq
<1>9. Removed(whole) \in Seq(Line) /\ Foreign(Removed(whole)) = user
  BY <1>2, <1>3, <1>4, WholeKeeps, OutsideOfRemoved
<1>10. Removed(file) = Removed(whole)
  BY <1>6, <1>7, <1>9, ConcatEmptySeq
<1>11. Foreign(file) = IF Open(file) THEN user \o stranded ELSE user
  BY <1>5, <1>6, <1>7, <1>8
<1> QED
  BY <1>9, <1>10, <1>11, Zenon DEF Kept

\* While no two programs overlapped, a step changes the user's lines only if it is the
\* user's, or takes a block away that has no end.
LEMMA NextKept == Typed /\ IInv /\ (~overlap => Kept) /\ [Next]_vars => (~overlap' => Kept')
<1> SUFFICES ASSUME Typed, IInv, ~overlap => Kept, [Next]_vars, ~overlap' PROVE Kept'
  OBVIOUS
<1>1. FileStep /\ Kept
  BY FileSteps
<1>2. /\ file \in Seq(Line) /\ user \in Seq(Line) /\ stranded \in Seq(Line)
      /\ BlockLines \subseteq Line /\ << >> \in Seq(Line)
  BY LineFacts DEF Typed, TypeOK
<1> HIDE DEF Line
<1>3. CASE UNCHANGED <<file, user, stranded>>
  BY <1>1, <1>3 DEF Kept
<1>4. ASSUME NEW line \in Additions, file' = Append(file, line),
             IF Open(file) THEN stranded' = Append(stranded, line) /\ user' = user
             ELSE user' = Append(user, line) /\ stranded' = stranded
      PROVE  Kept'
  <2>1. line \in Line /\ ~IsMarker(line) /\ Own1(line) = <<line>>
    BY LineFacts, UserLinesAssumption, Markers DEF Own1
  <2>2. Open(file') <=> Open(file)
    BY <1>2, <1>4, <2>1, ManagedBefore, Markers
  <2>3. Foreign(file') = Foreign(file) \o <<line>>
    BY <1>2, <1>4, <2>1, ForeignAppend
  <2>4. Removed(file') = Removed(file) \o Keep1(Open(file), line)
    <3>1. ReplaceBlock(Append(file, line), << >>)
            = ReplaceBlock(file, << >>) \o Replace1(Open(file), line, << >>)
      BY <1>2, <2>1, ReplaceAppend
    <3>2. Replace1(Open(file), line, << >>) = Keep1(Open(file), line)
      BY <2>1, Markers DEF Replace1
    <3> QED BY <1>4, <3>1, <3>2, Zenon DEF Removed
  <2>5. Removed(file) \in Seq(Line) /\ Keep1(Open(file), line) \in Seq(Line)
    BY <1>2, <2>1, OutsideOfRemoved DEF Keep1
  <2>6. Foreign(Removed(file')) = user \o Foreign(Keep1(Open(file), line))
    <3>1. Foreign(Removed(file) \o Keep1(Open(file), line))
            = Foreign(Removed(file)) \o Foreign(Keep1(Open(file), line))
      BY <2>5, ForeignConcat
    <3> QED BY <1>1, <2>4, <3>1, Zenon DEF Kept
  <2>7. CASE Open(file)
    <3>1. Foreign(file') = (user \o stranded) \o <<line>>
      BY <1>1, <2>3, <2>7 DEF Kept
    <3>2. Regroups(user, stranded, <<line>>)
      <4>1. <<line>> \in Seq(Line)
        BY <2>1
      <4> QED BY <1>2, <4>1, Regrouped
    <3>3. stranded \o <<line>> = stranded'
      BY <1>2, <1>4, <2>1, <2>7, AppendIsConcat
    <3>4. Foreign(file') = user \o stranded'
      BY <3>1, <3>2, <3>3, Zenon DEF Regroups
    <3>5. Keep1(Open(file), line) = << >> /\ user' = user
      BY <1>4, <2>7 DEF Keep1
    <3>6. Foreign(Removed(file')) = user'
      BY <1>2, <2>6, <3>5, ForeignOfNothing, ConcatEmptySeq
    <3> QED BY <2>2, <2>7, <3>4, <3>5, <3>6 DEF Kept
  <2>8. CASE ~Open(file)
    <3>1. user \o <<line>> = user'
      BY <1>2, <1>4, <2>1, <2>8, AppendIsConcat
    <3>2. Foreign(file') = user'
      BY <1>1, <2>3, <2>8, <3>1 DEF Kept
    <3>3. Keep1(Open(file), line) = <<line>> /\ Foreign(<<line>>) = <<line>>
      BY <2>1, <2>8, ForeignOne DEF Keep1
    <3>4. Foreign(Removed(file')) = user'
      BY <2>6, <3>1, <3>3, Zenon
    <3> QED BY <2>2, <2>8, <3>2, <3>4 DEF Kept
  <2> QED BY <2>7, <2>8
<1>5. CASE UNCHANGED <<user, stranded>> /\ file' = Removed(file)
  <2>1. /\ ~Open(file') /\ Removed(file') = Removed(file)
    BY <1>2, <1>5, OutsideOfRemoved, OutsideIsRemoved DEF Removed
  <2>2. Foreign(file') = user
    BY <1>1, <1>5 DEF Kept
  <2> QED BY <1>1, <1>5, <2>1, <2>2 DEF Kept
<1>6. ASSUME NEW domains \in Wants, UNCHANGED <<user, stranded>>,
             file' = Synced(ReadBlock(file), file, domains)
      PROVE  Kept'
  <2>1. /\ ~Open(file') /\ Removed(file') = Removed(file)
    BY <1>2, <1>6, OutsideOfSynced, OutsideIsRemoved DEF Removed
  <2>2. Foreign(file') = user
    BY <1>1, <1>2, <1>6, ForeignOfSynced DEF Kept
  <2> QED BY <1>1, <1>6, <2>1, <2>2 DEF Kept
<1> QED
  BY <1>1, <1>3, <1>4, <1>5, <1>6 DEF FileStep

\* hosts_test.go:75: whatever fails and whoever is killed, every line of the user's is in
\* the file, in order and once, while no two programs were at it together; but those after
\* a BEGIN without END go with the first operation that rewrites the file.
THEOREM ForeignKeptTheorem == Spec => []ForeignKept
<1>1. Init => (~overlap => Kept)
  BY InitKept
<1>2. (~overlap => Kept) => ForeignKept
  BY DEF Kept, ForeignKept, Open
<1> QED
  BY <1>1, <1>2, NextKept, TypedInductive, Undisturbance, PTL DEF Spec

---------------------------------------------------------------------------

\* hosts.go:51-70: whatever programs, kills and users have made of the file, if it has one
\* BEGIN at most then two syncs bring the block wanted, also where that BEGIN or its END
\* are missing, and a file that the first has given a block is left alone by the second.
THEOREM SettlesTheorem == Spec => []Settles
<1>1. ASSUME Typed, OneBegin(file), NEW domains \in Wants
      PROVE  LET once == Synced(ReadBlock(file), file, domains)
                 twice == Synced(ReadBlock(once), once, domains)
             IN /\ ReadBlock(twice) = BuildBlock(domains)
                /\ ReadBlock(once) # << >> => twice = once
  <2>1. file \in Seq(Line) /\ BlockLines \subseteq Line
    BY <1>1, LineFacts DEF Typed, TypeOK
  <2>2. OnePlace(file, Line)
    BY <1>1, <2>1, PlaceOfBegin
  <2> QED
    BY <2>1, <2>2, SyncedTwice
<1>2. Typed => Settles
  BY <1>1 DEF Settles
<1> QED
  BY <1>2, TypedInductive, PTL

=============================================================================
