----------------------------- MODULE HostsBlock -----------------------------
(***************************************************************************)
(* The managed block of hosts/hosts.go.  A file is the sequence of its     *)
(* lines; an entry "127.0.0.1    name" is the line name.  Blank lines, and *)
(* with them the trimming at the end of a file, are left out.              *)
(***************************************************************************)
EXTENDS Naturals, SequencesExt

CONSTANTS
    Tld,      \* cfg.TLD
    Alias,    \* generator.TLDLocalhost(cfg.TLD)
    Alphabet  \* every domain name, in the order of sort.Strings

Begin == "# dev-local:BEGIN"
End == "# dev-local:END"
Note == "# Managed by caddy-dev-local"

\* No name is a comment.
ASSUME NamesAssumption ==
    /\ Alphabet \in Seq(Range(Alphabet))
    /\ ({Tld, Alias} \cup Range(Alphabet)) \cap {Begin, End} = {}

Entries(domains) ==
    <<Tld>>
    \o (IF Alias # Tld /\ Alias \notin domains THEN <<Alias>> ELSE << >>)
    \o FlattenSeq([i \in DOMAIN Alphabet |->
                      IF Alphabet[i] \in domains \ {Tld} THEN <<Alphabet[i]>> ELSE << >>])

BuildBlock(domains) == <<Begin, Note>> \o Entries(domains) \o <<End>>

IsMarker(line) == line = Begin \/ line = End

\* inBlock when line i is reached: no END after the last BEGIN.
InBlock(lines, i) ==
    \E b \in 1 .. (i - 1) : lines[b] = Begin /\ \A e \in b .. (i - 1) : lines[e] # End

\* Every marker is part of the block, wherever it stands.
IsManaged(lines, i) == IsMarker(lines[i]) \/ InBlock(lines, i)

ReadBlock(lines) ==
    FlattenSeq([i \in DOMAIN lines |->
                  IF IsManaged(lines, i) THEN <<lines[i]>> ELSE << >>])

\* A variant that takes everything from BEGIN on for the block.
ReplaceRest(lines, block) ==
    FlattenSeq([i \in DOMAIN lines |->
                  IF lines[i] = Begin THEN block
                  ELSE IF \E b \in 1 .. (i - 1) : lines[b] = Begin THEN << >>
                  ELSE <<lines[i]>>])

\* The block goes where BEGIN is: nowhere if only an END is left, twice if there are two.
ReplaceBlock(lines, block) ==
    FlattenSeq([i \in DOMAIN lines |->
                  IF lines[i] = Begin THEN block
                  ELSE IF IsManaged(lines, i) THEN << >>
                  ELSE <<lines[i]>>])

\* A variant that appends the block whatever is there.
SyncedAppending(existing, lines, domains) == lines \o BuildBlock(domains)

\* syncToFile, from the block of its first reading and the lines of its second.
Synced(existing, lines, domains) ==
    IF existing # << >> THEN ReplaceBlock(lines, BuildBlock(domains))
    ELSE lines \o BuildBlock(domains)

\* removeFromFile
Removed(lines) == ReplaceBlock(lines, << >>)

---------------------------------------------------------------------------

\* One place for the block at most.
OneBegin(lines) == \A i, j \in DOMAIN lines : lines[i] = Begin /\ lines[j] = Begin => i = j

\* The names the block gives an address.
Resolved(lines) ==
    {lines[i] : i \in {j \in DOMAIN lines : IsManaged(lines, j)}} \ {Begin, End, Note}

=============================================================================
