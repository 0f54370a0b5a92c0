----------------------------- MODULE MCExecution -----------------------------
(***************************************************************************)
(* Programs, embedders and peers for Execution.                            *)
(***************************************************************************)
EXTENDS Execution

Names == <<"", "f", "g", "main", "nowhere">>

\* Functions and instructions.
Fn(name, flags, params, ins) ==
    [name |-> name, pure |-> flags = "pure", is_async |-> flags = "async", params |-> params, ins |-> ins,
     local_effect |-> FALSE]
Const(c) == [op |-> "CONST", constant |-> c]
Text(t) == Const([tag |-> 3, text |-> t, word |-> ""])
Naming(w) == Const([tag |-> 3, text |-> <<>>, word |-> w])
Truth(b) == Const([tag |-> 4, boolean |-> b])
Op(op) == [op |-> op]
Ret == Op("RETURN")
Named1(op, name) == [op |-> op, name |-> name]
To(op, target) == [op |-> op, target |-> target]
Call(op, name, arity) == [op |-> op, name |-> name, arity |-> arity]
Binary(code) == [op |-> "BINARY", code |-> code]
GiveUnit == <<Call("CALL", "$unit", 0), Ret>>

\* Constants, encoded.
ByteSeq(n) ==
    LET bytes[k \in Nat] == IF k = 0 THEN <<>> ELSE Append(bytes[k \div ByteValues], k % ByteValues) IN bytes[n]
DigitSeq(n) ==
    LET digits[k \in Nat] == IF k < 10 THEN <<k>> ELSE Append(digits[k \div 10], k % 10) IN digits[n]
Size(n) == IF n < 0 THEN -n ELSE n
NatConst(n) == Const([tag |-> 0, bytes |-> ByteSeq(n)])
IntConst(n) == Const([tag |-> 1, sign |-> IF n < 0 THEN 1 ELSE 0, bytes |-> ByteSeq(Size(n))])
DecConst(n, e) == Const([tag |-> 2, sign |-> IF n < 0 THEN 1 ELSE 0, digits |-> DigitSeq(Size(n)), exponent |-> e])

MCBounds ==
    [kind \in Kinds |-> [port |-> 9, length |-> 3, limit |-> IF kind = "stream" THEN 3 ELSE 2, timeout |-> 2]]

Run(functions) ==
    [program |-> functions, embedded |-> FALSE, callback |-> "none", offers |-> {}, covered |-> FALSE, peer |-> <<>>]
Embedded(functions, callback, offers) ==
    [Run(functions) EXCEPT !.embedded = TRUE, !.callback = callback, !.offers = offers]
Main(flags, ins) == <<Fn("main", flags, <<>>, ins)>>

-----------------------------------------------------------------------------
(* Arithmetic.  A limb has two digits and a byte sixteen values.            *)

Operators == {"+", "-", "*", "/", "%", "==", "<", "<="}
Pairs(operands, ops) == {Run(Main("plain", <<a, b, Binary(op), Ret>>)) : a \in operands, b \in operands, op \in ops}

Naturals1 == {0, 1, 7, 10, 99, 100, 101, 999, 1000, 9801, 9999, 10000}
Integers1 == {-9999, -1000, -100, -7, -1, 0, 7, 99, 101, 1000}
Decimals1 == {<<c, e>> : c \in {0, 1, 10, 16, -25, 75, 1005}, e \in {-1, 0, 1}}
Rationals1 == {<<1, 2>>, <<-1, 2>>, <<2, 3>>, <<-7, 99>>, <<100, 7>>, <<0, 1>>, <<6, 4>>}

Fraction(q) == <<IntConst(q[1]), IntConst(q[2]), Binary("/")>>

ArithmeticSetups ==
    Pairs({NatConst(n) : n \in Naturals1}, Operators)
    \cup Pairs({IntConst(n) : n \in Integers1}, Operators \cup {"!=", ">", ">="})
    \cup Pairs({NatConst(n) : n \in {0, 7, 1000}} \cup {IntConst(n) : n \in {-100, 0, 7}} \cup {Truth(TRUE)},
               Operators \cup {"&&"})
    \cup Pairs({NatConst(n) : n \in {99999, 100000, 999999, 1000000, 99}}, Operators \ {"*", "/", "%"})
    \cup Pairs({DecConst(d[1], d[2]) : d \in Decimals1}, Operators)
    \cup Pairs({Text(t) : t \in {<<>>, <<1>>, <<1, 2>>, <<2>>}}, {"+", "==", "<", ">="})
    \cup {Run(Main("plain", Fraction(p) \o Fraction(q) \o <<Binary(op), Ret>>)) :
             p \in Rationals1, q \in Rationals1, op \in Operators}
    \cup {Run(Main("plain", Fraction(p) \o <<NatConst(n), Binary(op), Ret>>)) :
             p \in {<<6, 3>>, <<-1, 2>>}, n \in {0, 2}, op \in Operators}
    \cup {Run(Main("plain", Fraction(p) \o <<Call("CALL", name, 1), Ret>>)) :
             p \in Rationals1 \cup {<<8, 4>>, <<5, 16>>}, name \in {"nat", "dec"}}
    \cup {Run(Main("plain", <<NatConst(a), NatConst(b), Call("CALL", "quotient", 2), Ret>>)) :
             a \in Naturals1, b \in {0, 7, 99, 101}}
    \cup {Run(Main("plain", <<c, [op |-> "UNARY", code |-> code], Ret>>)) :
             c \in {NatConst(7), IntConst(-7), DecConst(-25, 1), Truth(TRUE)}, code \in {"neg", "!"}}
    \cup {Run(Main("plain", <<Const(c), Ret>>)) :
             c \in {[tag |-> 0, bytes |-> <<0, 1>>], [tag |-> 1, sign |-> 1, bytes |-> <<>>],
                    [tag |-> 2, sign |-> 0, digits |-> <<0, 1>>, exponent |-> 0],
                    [tag |-> 2, sign |-> 0, digits |-> <<1>>, exponent |-> MaxExponent + 1], [tag |-> 9]}}

-----------------------------------------------------------------------------
(* Effects: main calls f, f calls g and g a builtin, in every way.          *)

CallOps == {"CALL", "AWAIT_CALL", "CALL_VALUE", "AWAIT_VALUE"}
Flags == {"plain", "pure", "async"}

\* The instructions of a call, with the callable below the arguments.
Calling(op, name, arguments) ==
    (IF op \in {"CALL_VALUE", "AWAIT_VALUE"} THEN <<Naming(name)>> ELSE <<>>)
    \o arguments \o <<Call(op, name, Len(arguments))>>

Arguments1(name) ==
    CASE name = "$unit" -> <<>>
      [] name = "async_fake_read" -> <<Truth(FALSE)>>
      [] OTHER -> <<Naming("text")>>

EffectSetups ==
    {Run(<<Fn("f", ff, <<>>, Calling(k2, "g", <<>>) \o <<Ret>>),
           Fn("g", gf, <<>>, Calling(k3, name, Arguments1(name)) \o <<Ret>>),
           Fn("main", mf, <<>>, Calling(k1, "f", <<>>) \o <<Op("POP")>> \o GiveUnit)>>) :
        mf \in Flags, ff \in Flags, gf \in Flags, k1 \in CallOps, k2 \in CallOps, k3 \in CallOps,
        name \in {"$unit", "print", "http_state_setup_error", "async_fake_read"}}
-----------------------------------------------------------------------------
(* Loops, branches, and the ways to end, with coverage.                     *)

Covered(s) == [s EXCEPT !.covered = TRUE]
Named2(op, name, name2, target) == [op |-> op, name |-> name, name2 |-> name2, target |-> target]

\* for item in iterable { sum = sum + f(item) }, where f returns early for nothing.
Loop(iterable) ==
    <<Fn("f", "pure", <<"x">>,
         <<Named1("LOAD", "x"), NatConst(0), Binary("=="), To("JUMP_FALSE", 7), NatConst(5), Ret,
           Named1("LOAD", "x"), Ret>>),
      Fn("main", "plain", <<>>,
         <<NatConst(0), Named1("STORE", "sum")>> \o iterable
         \o LET n == Len(iterable)
            IN  <<Named1("ITER_INIT", "it"), Named2("ITER_NEXT", "it", "item", n + 10),
                  Named1("LOAD", "sum"), Named1("LOAD", "item"), Call("CALL", "f", 1), Binary("+"),
                  Named1("STORE", "sum"), To("JUMP", n + 4),
                  Named1("LOAD", "sum"), Ret>>)>>

Range1(a, b) == <<NatConst(a), NatConst(b), Op("MAKE_RANGE")>>
Array(ins) == ins \o <<[op |-> "MAKE_ARRAY", count |-> Len(ins)]>>
Variant(name, ins) == ins \o <<[op |-> "MAKE_VARIANT", name |-> "Result", name2 |-> name, count |-> Len(ins)]>>
Record(ins) == ins \o <<[op |-> "MAKE_RECORD", name |-> "Point", items |-> <<"x", "y">>, count |-> Len(ins)]>>

\* match value { Ok(x) => x, Error(e) => 0 }
Match(value) ==
    value \o <<Named1("STORE", "v")>>
    \o LET n == Len(value)
       IN  <<Named1("LOAD", "v"), Named2("MATCH_VARIANT", "Ok", "", n + 5), Ret, Op("MATCH_FAIL"),
             Named1("LOAD", "v"), Named2("MATCH_VARIANT", "Error", "", n + 4), Op("POP"), NatConst(0), Ret>>

Straight(ins) == Main("plain", ins \o <<Ret>>)

ControlSetups ==
    {Covered(Run(p)) : p \in
        {Loop(i) : i \in {Range1(0, 2), Range1(2, 1), Range1(99, 101), Array(<<NatConst(0), NatConst(7)>>),
                          <<Text(<<3, 0>>), Call("CALL", "utf8_encode", 1)>>, Range1(0, 4), <<NatConst(1)>>}}
        \cup {Main("plain", Match(v)) :
                v \in {Variant("Ok", <<NatConst(1)>>), Variant("Error", <<Text(<<>>)>>), Variant("None", <<>>),
                       <<NatConst(1)>>}}
        \cup {Straight(Array(<<NatConst(3), NatConst(4)>>) \o <<i, Op("INDEX_GET")>>) :
                i \in {NatConst(1), NatConst(2), NatConst(3000), Truth(TRUE)}}
        \cup {Straight(Record(<<NatConst(3), NatConst(4)>>) \o <<Named1("FIELD_GET", name)>>) : name \in {"y", "z"}}
        \cup {Straight(<<Truth(b), Truth(c), Binary("||"), To("JUMP_FALSE", 5), NatConst(1)>>) :
                b \in BOOLEAN, c \in BOOLEAN}
        \cup {Straight(<<Text(<<1, 2>>), NatConst(1), Op("INDEX_GET")>>),
              Straight(<<Text(<<1, 2>>), Call("CALL", "utf8_encode", 1), NatConst(0), Op("INDEX_GET")>>),
              Straight(<<NatConst(1), NatConst(0), Op("INDEX_GET")>>),
              Straight(<<NatConst(1), Named1("FIELD_GET", "x")>>),
              Straight(<<NatConst(1), To("JUMP_FALSE", 1)>>),
              Straight(<<Named1("ITER_NEXT", "it") @@ [name2 |-> "x", target |-> 1]>>),
              Straight(<<Truth(TRUE), NatConst(1), Op("MAKE_RANGE")>>),
              Straight(<<Named1("LOAD", "unset")>>), Straight(<<Op("POP")>>), Straight(<<>>),
              Straight(<<Binary("+")>>),
              Straight(Array(Record(<<DecConst(1, 1), NatConst(2)>>)) \o Array(Record(<<DecConst(10, 0), NatConst(2)>>))
                       \o <<Binary("==")>>),
              Main("plain", <<To("JUMP", 3), Ret, NatConst(1)>>),
              Main("async", <<NatConst(1), Ret>>),
              Main("plain", <<Naming("f"), Call("CALL_VALUE", "", 0), Ret>>),
              Main("plain", <<NatConst(1), Call("CALL_VALUE", "", 0), Ret>>),
              Main("plain", <<Naming("$unit"), NatConst(1), Call("CALL_VALUE", "", 1), Ret>>),
              Main("plain", <<Call("CALL_VALUE", "", 0), Ret>>),
              Main("plain", <<Naming("a"), Call("CALL", "run_bytecode", 1), Ret>>),
              Loop(Range1(0, 1))}}
    \cup {Run(<<Fn("g", "plain", <<>>, GiveUnit), Fn("f", "plain", <<>>, GiveUnit), Fn("main", "plain", <<>>, GiveUnit)>>),
          Run(<<Fn("f", "plain", <<>>, GiveUnit)>>),
          Run(<<Fn("f", "plain", <<"x", "x">>, GiveUnit), Fn("main", "plain", <<>>, GiveUnit)>>),
          Run(<<Fn("main", "plain", <<"x">>, GiveUnit)>>),
          Run(Main("plain", <<Op("POP")>>)), Run(Main("plain", <<To("JUMP", 9), Ret>>)),
          Run(<<Fn("", "plain", <<>>, GiveUnit), Fn("main", "plain", <<>>, GiveUnit)>>),
          Run(Main("plain", <<[op |-> "INTERPOLATE", count |-> 0], Ret>>)),
          Run(Main("plain", <<Call("CALL", "nowhere", 0), Ret>>)), Run(Main("plain", <<Call("CALL", "$unit", 1), Ret>>))}

-----------------------------------------------------------------------------
(* Waits.                                                                   *)

Host == Naming("host")
Request(n) == <<Text([i \in 1 .. n |-> i]), Call("CALL", "utf8_encode", 1)>>
TcpArguments(n, limit, timeout) ==
    <<Host, NatConst(1)>> \o Request(n) \o <<NatConst(limit), NatConst(timeout)>>
HttpArguments(n, limit, timeout) ==
    <<Host, NatConst(1), Truth(FALSE)>> \o Request(n) \o <<NatConst(limit), NatConst(timeout)>>

Await(name, arguments, arity) == arguments \o <<Call("AWAIT_CALL", name, arity)>>
WaitOn(w) ==
    CASE w = "tcp" -> Await("$tcp_exchange", TcpArguments(1, 1, 1), 5)
      [] w = "http" -> Await("$http_transport_exchange", HttpArguments(1, 1, 1), 6)
      [] w = "console" -> Await("host_stdout_async", <<Naming("a")>>, 1)
      [] w = "root" -> Await("fs_root_identity_async", <<Call("CALL", "path_current", 0)>>, 1)
      [] w = "console number" -> Await("host_stdout_async", <<NatConst(1)>>, 1)
      [] w = "root text" -> Await("fs_root_identity_async", <<Naming("a")>>, 1)
      [] w = "fake" -> Await("async_fake_read", <<Truth(TRUE)>>, 1)
      [] w = "chunk" -> Await("$tcp_server_read_chunk", <<NatConst(1)>>, 1)
      [] w = "chunks" -> Await("$tcp_server_read_chunk", <<NatConst(Chunk + 1)>>, 1)
      [] w = "arguments" -> Await("host_arguments_async", <<>>, 0)
      [] w = "exit" -> Await("host_exit_async", <<NatConst(255)>>, 1)
      [] w = "exits" -> Await("host_exit_async", <<NatConst(256)>>, 1)

\* One wait after another.
Waits1(ws) == Main("async", FlattenSeq([i \in DOMAIN ws |-> WaitOn(ws[i]) \o <<Op("POP")>>]) \o GiveUnit)
Waiting(w1, w2) == Waits1(<<w1, w2>>)

\* A plain program that prints, exits or runs another.
Hosted(name, argument) == Main("plain", <<argument, Call("CALL", name, 1), Ret>>)
PlainHosted ==
    {Hosted(n, Naming("a")) : n \in {"print", "run_bytecode", "process_exit"}}
    \cup {Hosted("process_exit", NatConst(n)) : n \in {0, 1999, 2001}}
    \cup {Hosted("http_stream_read", NatConst(1))}

Capabilities == {"network", "console", "filesystem", "server_read"}
WaitKinds ==
    {"tcp", "http", "console", "root", "console number", "root text", "fake", "chunk", "chunks", "arguments", "exit",
     "exits"}

WaitSetups ==
    {[Covered(s) EXCEPT !.peer = peer] :
        s \in {Run(Waiting(w1, w2)) : w1 \in WaitKinds, w2 \in {"console", "fake", "exit"}}
              \cup {Embedded(Waiting(w1, w2), c, o) :
                      w1 \in WaitKinds, w2 \in {"root", "fake"}, c \in {"none", "read"}, o \in {{}, Capabilities}},
        peer \in {<<>>, <<"accept", "read", "eof", "write", "close">>}}
    \cup {Covered(Embedded(Waits1(ws), "none", Capabilities)) :
             ws \in {<<"root", "tcp", "http">>, <<"console", "http", "tcp">>}}
    \cup {Covered(Embedded(p, c, {})) : p \in PlainHosted, c \in {"none", "host", "print"}}
    \cup {Run(p) : p \in PlainHosted}
-----------------------------------------------------------------------------
(* Exchanges and streams.                                                   *)

\* A peer that never answers, refuses, answers, answers too early, breaks off, hangs.
Peers ==
    {<<>>, <<"refuse">>, <<"accept", "reset">>, <<"accept", "read", "eof", "write", "write", "close">>,
     <<"accept", "read", "read", "write", "close">>, <<"accept", "write", "close">>,
     <<"accept", "read", "write", "reset">>, <<"accept", "read", "write", "write", "write">>}

ExchangeSetups ==
    {[Run(Main("async", p \o <<Op("POP")>> \o GiveUnit)) EXCEPT !.peer = peer] :
        p \in {Await("$tcp_exchange", TcpArguments(n, limit, timeout), 5) :
                 n \in {0, 1, 3}, limit \in {0, 1, 2}, timeout \in {1, 2}}
              \cup {Await("$http_transport_exchange", HttpArguments(n, limit, timeout), 6) :
                 n \in {0, 1, 3}, limit \in {1, 2}, timeout \in {1, 2}},
        peer \in Peers}
    \cup
    {Run(Main("async", p \o <<Op("POP")>> \o GiveUnit)) :
        p \in {Await("$tcp_exchange", a, 5) :
                 a \in {TcpArguments(1, 1, 0), TcpArguments(1, 1, 3), TcpArguments(1, 3, 1), TcpArguments(4, 1, 1),
                        <<NatConst(1)>> \o Tail(TcpArguments(1, 1, 1)),
                        <<Host, NatConst(10)>> \o SubSeq(TcpArguments(1, 1, 1), 3, 6)}}
              \cup {Await("$http_transport_exchange", a, 6) :
                 a \in {HttpArguments(1, 1, 0), HttpArguments(1, 3, 1),
                        <<Host, NatConst(1), NatConst(1)>> \o SubSeq(HttpArguments(1, 1, 1), 4, 7)}}}

StreamDo(op, h) ==
    (CASE op = "open" -> HttpArguments(1, 3, 1) \o <<Call("CALL", "http_stream_open", 6)>>
       [] op = "read" -> <<NatConst(h), Call("CALL", "http_stream_read", 1)>>
       [] op = "close" -> <<NatConst(h), Call("CALL", "http_stream_close", 1)>>)
    \o <<Op("POP")>>

StreamSetups ==
    {[Run(Main("plain", FlattenSeq(ins) \o GiveUnit)) EXCEPT !.peer = peer] :
        ins \in {<<StreamDo("open", 0), StreamDo("read", 1), StreamDo("read", 1), StreamDo("read", 1)>>},
        peer \in {<<"accept", "read", "write", "write", "close">>, <<"accept", "read", "write", "write", "write", "write">>}}
    \cup
    {[Run(Main("plain", FlattenSeq(ins) \o GiveUnit)) EXCEPT !.peer = peer] :
        ins \in {<<StreamDo("open", 0), StreamDo("read", 1), StreamDo("open", 0), StreamDo("read", 2),
                   StreamDo("read", 1), StreamDo("open", 0)>>,
                 <<StreamDo("open", 0), StreamDo("close", 1), StreamDo("read", 1), StreamDo("open", 0),
                   StreamDo("read", 1), StreamDo("read", 2), StreamDo("close", 2), StreamDo("open", 0), StreamDo("close", 3)>>},
        peer \in {<<>>, <<"accept", "read", "write", "close">>}}
-----------------------------------------------------------------------------
MCInit ==
    \/ \E s \in ArithmeticSetups : Idle(s)
    \/ \E s \in EffectSetups : Idle(s)
    \/ \E s \in ControlSetups : Idle(s)
    \/ \E s \in WaitSetups : Idle(s)
    \/ \E s \in ExchangeSetups : Idle(s)
    \/ \E s \in StreamSetups : Idle(s)

\* An embedder that answers at any time while the program waits for files.
FileInit == \E w \in {"console", "root"} : Idle(Embedded(Waiting("root", w), "none", Capabilities))

FileSpec == FileInit /\ [][Next]_vars

MCSpec == MCInit /\ [][Next]_vars /\ Fairness
=============================================================================
