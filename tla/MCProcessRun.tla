---------------------------- MODULE MCProcessRun ----------------------------
(* Model-checking instance of process.run.                                   *)
EXTENDS ProcessRun

Plain == [input |-> 0, limit |-> 3, timeout |-> 1, child |-> << >>, heir |-> << >>,
          inherited |-> << >>, explicit |-> << >>, isolated |-> FALSE, coverage |-> FALSE]

\* Programs that fill an output before they read, that read first, that close
\* their input, that end while a descendant goes on, with outputs that meet or
\* exceed the limit, and with inputs that do not fit in the pipe.
Programs == {
    [child |-> <<"out", "out", "out", "drain">>, heir |-> << >>],
    [child |-> <<"drain", "out", "err", "out", "err">>, heir |-> << >>],
    [child |-> <<"close", "err", "hang">>, heir |-> << >>],
    [child |-> <<"fork", "out">>, heir |-> <<"out", "err">>],
    [child |-> <<"fork", "abort">>, heir |-> <<"drain", "out", "hang">>],
    [child |-> <<"fork", "drain">>, heir |-> <<"leave", "out", "hang">>]}

\* And all short programs, alone or with a descendant that outlives them.
Short == {[child |-> c, heir |-> h] :
    c \in {c \in SeqOf({"drain", "out", "fork"}, 3) : Cardinality({i \in DOMAIN c : c[i] = "fork"}) <= 1},
    h \in {<<"out">>, <<"drain", "err">>}}

Streams == {[Plain EXCEPT !.input = n, !.child = p.child, !.heir = p.heir] :
                n \in {0, 3}, p \in Programs \cup Short}

Environments == {[Plain EXCEPT !.inherited = i, !.explicit = e, !.isolated = b, !.coverage = c] :
    i \in {<< >>, <<<<"A", "old">>, <<"TICKET", "old">>, <<"B", "old">>>>},
    e \in {<< >>, <<<<"B", "new">>>>, <<<<"TICKET", "new">>, <<"A", "new">>>>},
    b \in BOOLEAN, c \in BOOLEAN}

Refused == {[Plain EXCEPT !.timeout = 0], [Plain EXCEPT !.limit = 9], [Plain EXCEPT !.input = 9],
            [Plain EXCEPT !.explicit = <<<<"A", "old">>, <<"A", "new">>>>]}

Calls == Streams \cup Environments \cup Refused
=============================================================================
