------------------------------ MODULE MCFiles ------------------------------
(***************************************************************************)
(* Instances of Files: two processes, /a in the initramfs, and paths that  *)
(* reach files, made-up directories and /proc, absolute and relative.      *)
(***************************************************************************)
EXTENDS Files

Abs(segs) == [abs |-> TRUE, segs |-> segs]

Rel(segs) == [abs |-> FALSE, segs |-> segs]

MCArchive == <<[name |-> <<"a", "x">>, mode |-> "reg", data |-> <<>>],
               [name |-> <<"d">>, mode |-> "dir", data |-> <<>>],
               [name |-> <<"a", "y", "z">>, mode |-> "reg", data |-> <<>>],
               [name |-> <<"T">>, mode |-> "trailer", data |-> <<>>],
               [name |-> <<"b">>, mode |-> "reg", data |-> <<>>]>>

\* Files shared by dup, appended to and read by two processes; and a directory
\* listed through two handles of one cursor while names are made in it.
MCPrograms ==
    {<<[fds |-> 2, open |-> {<<Abs(<<"b">>), {"O_RDWR", "O_CREAT", "O_APPEND"}>>},
        mkdir |-> {}, chdir |-> {}, ops |-> {"close", "dup", "read", "write", "seek"}],
       [fds |-> 1, open |-> {<<Abs(<<"proc", "2", "stat">>), {"O_RDONLY"}>>,
                             <<Rel(<<".", "..", "b">>), {"O_WRONLY", "O_CREAT"}>>},
        mkdir |-> {}, chdir |-> {Abs(<<"a">>)}, ops |-> {"close", "readv", "writev"}]>>,
     <<[fds |-> 1, open |-> {},
        mkdir |-> {Rel(<<"w">>), Rel(<<"v">>)}, chdir |-> {Abs(<<"a">>)}, ops |-> {}],
       [fds |-> 2, open |-> {<<Abs(<<"a">>), {"O_RDONLY", "O_DIRECTORY"}>>,
                             <<Rel(<<".", "..", "b">>), {"O_WRONLY", "O_CREAT"}>>},
        mkdir |-> {}, chdir |-> {}, ops |-> {"close", "dup", "list"}]>>}
MCSeeks == {<<-1, "END">>}
MCVectors == {<<1, 1>>}
=============================================================================
