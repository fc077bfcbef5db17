---------------------------- MODULE MCHostsFile ----------------------------
(***************************************************************************)
(* Instances of HostsFile for TLC.                                         *)
(***************************************************************************)
EXTENDS HostsFile

MCAlphabet == <<"app.dev.local", "app.localhost", "dev.dev.local", "dev.localhost">>

\* A container, and one whose name is that of the alias.
MCWants == {{"app.dev.local", "app.localhost"}, {"dev.dev.local", "dev.localhost"}}

OldBlock == <<Begin, "old.dev.local", End>>

MCUserLines == {"localhost", "printer", "nas"}

Whole(lines) == [whole |-> lines, unended |-> << >>]

\* No block, an old block between the user's lines, two of them, a block that has lost
\* its BEGIN, and one that has lost its END.
MCContents ==
    {Whole(<<"localhost">>),
     Whole(<<"localhost">> \o OldBlock \o <<"printer">>),
     Whole(OldBlock \o <<"printer">> \o OldBlock),
     Whole(<<"localhost", "old.dev.local", End, "printer">>),
     [whole |-> <<"localhost">>, unended |-> <<Begin, "old.dev.local", "printer">>]}

=============================================================================
