----------------------------- MODULE HostsFile -----------------------------
(***************************************************************************)
(* The hosts file between the programs that write it: the proxy, which     *)
(* syncs it at the end of every apply (cmd.go), and others that come and   *)
(* go, devlocal-hosts (which syncs too) and the two clean commands.        *)
(* hosts/hosts.go reads the file twice, writes path.devlocal.tmp and       *)
(* renames it; nothing keeps two programs from doing so at once, with the  *)
(* same temporary file, and each may fail or be killed at every step.      *)
(*                                                                         *)
(* A program that has the temporary file open keeps the file, whatever     *)
(* name it has: writes after another program's rename go to the hosts      *)
(* file itself.                                                            *)
(***************************************************************************)
EXTENDS HostsBlock

CONSTANTS
    UserLines,  \* the lines that are the user's, whatever program reads them
    Contents,   \* the files a user may start with, in two parts: see ContentsAssumption
    Wants,      \* the sets of domains that may be wanted
    Additions,  \* the lines a user may add
    Others,     \* the programs beside the proxy
    MaxOthers,  \* bound: operations of theirs
    MaxFaults   \* bound: failures and kills

Proxy == "proxy"
Programs == {Proxy} \cup Others

ASSUME ProgramAssumption == Proxy \notin Others

\* No program writes a line that is the user's.
ASSUME UserLinesAssumption ==
    /\ Additions \subseteq UserLines
    /\ UserLines \cap ({Begin, End, Note, Tld, Alias} \cup Range(Alphabet)) = {}

\* A file has a whole part, in which every BEGIN has its END and no line of the user's is
\* between them ("do not edit", hosts.go:105), and after it, perhaps, a BEGIN that has lost
\* its END, with whatever follows.
ASSUME ContentsAssumption ==
    \A c \in Contents :
        /\ c.whole \in Seq(Range(c.whole)) /\ c.unended \in Seq(Range(c.unended))
        /\ ~InBlock(c.whole, Len(c.whole) + 1)
        /\ \A i \in DOMAIN c.whole : InBlock(c.whole, i) => c.whole[i] \notin UserLines
        /\ \A i \in DOMAIN c.unended : c.unended[1] = Begin /\ c.unended[i] # End

Files == {c.whole \o c.unended : c \in Contents}

ASSUME BoundAssumption == MaxOthers \in Nat /\ MaxFaults \in Nat

VARIABLES
    wanted,   \* gen.Domains(), the same for every program
    file,     \* the hosts file
    tmp,      \* path.devlocal.tmp, NoFile when there is none
    pc,       \* where each program is in syncToFile or removeFromFile
    task,     \* its argument and locals
    fd,       \* what the file it is writing is called now
    user,     \* history: the user's lines
    stranded, \* history: those that stand after a BEGIN that has lost its END
    overlap,  \* history: two programs, or a program and the user, were at the file together
    others,   \* operations of the others so far
    faults    \* failures and kills so far

vars == <<wanted, file, tmp, pc, task, fd, user, stranded, overlap, others, faults>>

NoFile == <<"no such file">>

Line == Additions \cup {Begin, End, Note, Tld, Alias}
            \cup {Alphabet[i] : i \in DOMAIN Alphabet}
            \cup UNION {Range(c.whole) \cup Range(c.unended) : c \in Contents}

NoTask == [op |-> "none", domains |-> {}, block |-> << >>, content |-> << >>]

TypeOK ==
    /\ wanted \in Wants
    /\ file \in Seq(Line)
    /\ tmp \in Seq(Line) \cup {NoFile}
    /\ pc \in [Programs -> {"idle", "read", "open", "write", "rename"}]
    /\ \A p \in Programs :
          /\ task[p].op \in {"none", "sync", "remove"}
          /\ task[p].op = "none" <=> pc[p] = "idle"
          /\ task[p].domains \in Wants \cup {{}}
          /\ task[p].block \in Seq(Line) /\ task[p].content \in Seq(Line)
    /\ fd \in [Programs -> {"none", "tmp", "file", "unlinked"}]
    /\ \A p \in Programs : fd[p] # "none" <=> pc[p] = "write"
    /\ user \in Seq(Line) /\ stranded \in Seq(Line)
    /\ overlap \in BOOLEAN
    /\ others \in 0 .. MaxOthers
    /\ faults \in 0 .. MaxFaults

\* The lines of the user's, by their text and not by where devlocal thinks its block is.
Foreign(lines) ==
    FlattenSeq([i \in DOMAIN lines |->
                  IF lines[i] \in UserLines THEN <<lines[i]>> ELSE << >>])

Init ==
    /\ wanted \in Wants
    /\ \E c \in Contents :
          /\ file = c.whole \o c.unended
          /\ user = Foreign(c.whole)
          /\ stranded = Foreign(c.unended)
    /\ tmp = NoFile
    /\ pc = [p \in Programs |-> "idle"]
    /\ task = [p \in Programs |-> NoTask]
    /\ fd = [p \in Programs |-> "none"]
    /\ overlap = FALSE
    /\ others = 0
    /\ faults = 0

Goto(p, stage) == pc' = [pc EXCEPT ![p] = stage]
Busy(p) == pc[p] # "idle"

---------------------------------------------------------------------------
(* Around the programs *)

Change ==
    /\ \E domains \in Wants \ {wanted} : wanted' = domains
    /\ UNCHANGED <<file, tmp, pc, task, fd, user, stranded, overlap, others, faults>>

\* The user adds a line at the end, which may be in a block that has no end.
Edit(line) ==
    /\ line \notin Range(user) \cup Range(stranded)
    /\ file' = Append(file, line)
    /\ IF InBlock(file, Len(file) + 1)
       THEN stranded' = Append(stranded, line) /\ UNCHANGED user
       ELSE user' = Append(user, line) /\ UNCHANGED stranded
    /\ overlap' = (overlap \/ \E p \in Programs : Busy(p))
    /\ UNCHANGED <<wanted, tmp, pc, task, fd, others, faults>>

---------------------------------------------------------------------------
(* syncToFile and removeFromFile *)

\* The first reading.  A file that has the block wanted is left alone.
Begins(p, op, domains) ==
    /\ pc[p] = "idle"
    /\ Goto(p, "read")
    /\ p \in Others => others < MaxOthers
    /\ others' = IF p \in Others THEN others + 1 ELSE others
    /\ task' = [task EXCEPT ![p] = [op |-> op, domains |-> domains, block |-> ReadBlock(file),
                                    content |-> << >>]]
    /\ overlap' = (overlap \/ \E q \in Programs \ {p} : Busy(q))
    /\ UNCHANGED <<wanted, file, tmp, fd, user, stranded, faults>>

\* A variant that takes any block that is there for the one wanted.
BeginSyncOnce(p) == Begins(p, "sync", wanted) /\ ReadBlock(file) = << >>

BeginSync(p) == Begins(p, "sync", wanted) /\ ReadBlock(file) # BuildBlock(wanted)

BeginRemove(p) == p \in Others /\ ReadBlock(file) # << >> /\ Begins(p, "remove", {})

\* The second reading, and the new content.
ReadFile(p) ==
    /\ pc[p] = "read"
    /\ Goto(p, "open")
    /\ task' = [task EXCEPT ![p] =
                  [op |-> task[p].op, domains |-> {}, block |-> << >>,
                   content |-> IF task[p].op = "sync"
                               THEN Synced(task[p].block, file, task[p].domains)
                               ELSE Removed(file)]]
    /\ UNCHANGED <<wanted, file, tmp, fd, user, stranded, overlap, others, faults>>

\* A variant that writes the hosts file in place.
OpenInPlace(p) ==
    /\ pc[p] = "open"
    /\ Goto(p, "write")
    /\ file' = << >>
    /\ fd' = [fd EXCEPT ![p] = "file"]
    /\ UNCHANGED <<wanted, tmp, task, user, stranded, overlap, others, faults>>

\* os.WriteFile empties the file first.
OpenTemp(p) ==
    /\ pc[p] = "open"
    /\ Goto(p, "write")
    /\ tmp' = << >>
    /\ fd' = [fd EXCEPT ![p] = "tmp"]
    /\ UNCHANGED <<wanted, file, task, user, stranded, overlap, others, faults>>

\* Another program may have written to the file meanwhile; what is longer than this
\* program's content stays.
Overwritten(lines, content) ==
    IF lines = << >> THEN content
    ELSE content \o SubSeq(lines, Len(content) + 1, Len(lines))

WriteTemp(p) ==
    /\ pc[p] = "write"
    /\ Goto(p, "rename")
    /\ tmp' = IF fd[p] = "tmp" THEN Overwritten(tmp, task[p].content) ELSE tmp
    /\ file' = IF fd[p] = "file" THEN Overwritten(file, task[p].content) ELSE file
    /\ fd' = [fd EXCEPT ![p] = "none"]
    /\ UNCHANGED <<wanted, task, user, stranded, overlap, others, faults>>

Finish(p) == Goto(p, "idle") /\ task' = [task EXCEPT ![p] = NoTask]

\* The other programs' files after a rename or a removal of the temporary one.
Renamed == [q \in Programs |-> CASE fd[q] = "tmp" -> "file"
                                 [] fd[q] = "file" -> "unlinked"
                                 [] OTHER -> fd[q]]
Unlinked == [q \in Programs |-> IF fd[q] = "tmp" THEN "unlinked" ELSE fd[q]]

Rename(p) ==
    /\ pc[p] = "rename"
    /\ Finish(p)
    /\ tmp # NoFile
    /\ file' = tmp
    /\ tmp' = NoFile
    /\ fd' = Renamed
    /\ UNCHANGED <<wanted, user, stranded, overlap, others, faults>>

Fault == faults < MaxFaults /\ faults' = faults + 1

\* os.Rename returns an error, of itself or because the temporary file is gone, and
\* the temporary file is removed.
RenameFails(p) ==
    /\ pc[p] = "rename"
    /\ Finish(p)
    /\ IF tmp = NoFile THEN UNCHANGED faults ELSE Fault
    /\ tmp' = NoFile
    /\ fd' = Unlinked
    /\ UNCHANGED <<wanted, file, user, stranded, overlap, others>>

\* A read or a write that fails, or the end of the program; the proxy is started again.
Stop(p) ==
    /\ Busy(p)
    /\ Fault
    /\ fd' = [fd EXCEPT ![p] = "none"]
    /\ Finish(p)
    /\ UNCHANGED <<wanted, file, tmp, user, stranded, overlap, others>>

Operate(p) ==
    \/ BeginSync(p) \/ BeginRemove(p) \/ ReadFile(p)
    \/ OpenTemp(p) \/ WriteTemp(p) \/ Rename(p) \/ RenameFails(p)

Next ==
    \/ Change
    \/ \E line \in Additions : Edit(line)
    \/ \E p \in Programs : Operate(p) \/ Stop(p)

Spec == Init /\ [][Next]_vars

\* The proxy syncs at the end of every apply, whether the reload succeeded or not, and
\* the poller and the stale cleanup apply for ever.  The other programs may stop anywhere.
FairSpec == Spec /\ WF_vars(Operate(Proxy))

---------------------------------------------------------------------------
(* Properties *)

\* hosts_test.go:75 "non-block entries should be preserved": whatever fails and whoever
\* is killed, every line of the user's is in the file, in order and once, as long as no
\* two were at the file together.  There is one exception, which the code makes: the lines
\* that follow a BEGIN without END are there until a sync or a removal has rewritten the
\* file (hosts.go:159-175), and then they are gone, and no others.
ForeignKept ==
    ~overlap =>
        Foreign(file) = IF InBlock(file, Len(file) + 1) THEN user \o stranded ELSE user

\* hosts.go:51-70: from any file with at most one BEGIN, also one that a kill or an overlap
\* has left behind, two syncs bring the block wanted, though its BEGIN or its END are
\* missing; and one that the first has given a block is left alone from then on.
Settles ==
    OneBegin(file) =>
        \A domains \in Wants :
            LET once == Synced(ReadBlock(file), file, domains)
                twice == Synced(ReadBlock(once), once, domains)
            IN /\ ReadBlock(twice) = BuildBlock(domains)
               /\ ReadBlock(once) # << >> => twice = once

\* cmd.go:169-171: when Docker is quiet and the other programs have ended, the names
\* the file resolves come to be those that are wanted and stay so, though programs were
\* killed half-way, overlapped, left the block twice or wrote into a file already renamed.
HostsSettle ==
    \A domains \in Wants :
        <>[](wanted = domains) =>
            <>[](Resolved(file) = {Entries(domains)[i] : i \in DOMAIN Entries(domains)})

\* hosts.go:185-199: while no two were at it together, the file goes from one whole
\* content to the next: to anyone who reads it, a sync or a removal is one step.
Atomic == INSTANCE AtomicHosts WITH Contents <- Files
AtomicSpec == Atomic!Spec

=============================================================================
