------------------------------- MODULE MCFsTree -------------------------------
(* Trees to begin with for FsTree: each holds one of the difficult cases. *)
EXTENDS FsTree, TLC

NoLinks == [p \in {} |-> <<>>]

Plain == [dirs |-> {<<>>, <<"d">>, <<"d", "s">>},
          files |-> {<<"d", "f">>, <<"d", "s", "f">>}, links |-> NoLinks]
\* d/s/f/f is longer than a path may be.
TooDeep == [dirs |-> {<<>>, <<"d">>, <<"d", "s">>, <<"d", "s", "f">>},
            files |-> {<<"d", "s", "f", "f">>}, links |-> NoLinks]
\* A file where mkdir_all wants a directory; links to a file and to nothing.
InTheWayOfMkdir == [dirs |-> {<<>>, <<"d">>}, files |-> {<<"d", "s">>},
                    links |-> <<"d", "f">> :> <<"d", "s">> @@ <<"d", "l">> :> <<"x">>]
\* d/l leads to d again.
Circle == [dirs |-> {<<>>, <<"d">>}, files |-> {<<"d", "f">>}, links |-> <<"d", "l">> :> <<"d">>]
\* d/s leads to the directory x.
Linked == [dirs |-> {<<>>, <<"d">>, <<"x">>}, files |-> {<<"x", "f">>},
           links |-> <<"d", "s">> :> <<"x">>]

\* d/s leads through the link d/l; x/f and x/s lead to each other.
Chained == [dirs |-> {<<>>, <<"d">>, <<"x">>, <<"x", "d">>}, files |-> {<<"x", "d", "f">>},
            links |-> <<"d", "l">> :> <<"x">> @@ <<"d", "s">> :> <<"d", "l", "d">>
                      @@ <<"x", "f">> :> <<"x", "s">> @@ <<"x", "s">> :> <<"x", "f">>]

Empty == [dirs |-> {<<>>}, files |-> {}, links |-> NoLinks]

AllTrees == {Empty, Plain, TooDeep, InTheWayOfMkdir, Circle, Linked, Chained}
LinkedTree == {Linked}
EmptyTree == {Empty}

Nested == {<<"d", "s">>}
ToMake == {<<"d", "s">>, <<"d", "s", "f", "f">>}
ToRemove == {<<"d">>, <<"d", "s">>}
None == {}
=============================================================================
