---------------------------- MODULE AtomicHosts ----------------------------
(***************************************************************************)
(* What hosts/hosts.go promises of the hosts file: it is replaced as a     *)
(* whole, from one good state to the next, whenever a sync or a removal    *)
(* had the file for itself.  Once two programs have been at it together    *)
(* nothing is promised.                                                    *)
(***************************************************************************)
EXTENDS HostsBlock

CONSTANTS
    Contents,  \* the files a user may start with
    Wants,     \* the sets of domains that may be wanted
    Additions  \* the lines a user may add

VARIABLES
    file,    \* the hosts file
    overlap  \* two programs, or a program and the user, have changed it together

Init == file \in Contents /\ overlap = FALSE

Sync(domains) == file' = Synced(ReadBlock(file), file, domains)

Clean == file' = Removed(file)

\* The user adds a line.
Edit(line) == file' = Append(file, line)

Alone ==
    /\ ~overlap'
    /\ \/ \E domains \in Wants : Sync(domains)
       \/ Clean
       \/ \E line \in Additions : Edit(line)

Next == overlap' \/ Alone

Spec == Init /\ [][Next]_<<file, overlap>>

=============================================================================
