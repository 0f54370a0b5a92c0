------------------------------- MODULE Program -------------------------------
(***************************************************************************)
(* Programs: the constants of their instructions as bytecode spells them   *)
(* (src/vm/decode.c), functions and their lookup (program.c), the registry *)
(* of builtins (builtins.c) and the verification that every program passes *)
(* before it runs (verify.c).                                              *)
(*                                                                         *)
(* A program is a sequence of functions                                    *)
(*   [name, pure, is_async, params, ins, local_effect]                     *)
(* and an instruction a record with its op and the operands of that op.    *)
(* Targets are positions in ins, the first of which is 1.                  *)
(***************************************************************************)
EXTENDS Numeric, SequencesExt, Functions

CONSTANTS
    NameOrder,  \* names of functions, in the order of strcmp
    MaxDigits,  \* MAX_DIGITS
    MaxExponent \* of a decimal constant: 4096

ASSUME ProgramAssumption == {MaxDigits, MaxExponent} \subseteq Nat

-----------------------------------------------------------------------------
(* Constants.                                                               *)

Malformed == [tag |-> -1]

\* Minimal, and not too long.
read_nat(bytes) ==
    LET short(n) == IF Len(pn_big_string(n)) > MaxDigits THEN Malformed ELSE [tag |-> 0, number |-> n]
    IN  IF bytes # <<>> /\ bytes[1] = 0 THEN Malformed ELSE short(pn_big_from_bytes(bytes))

\* Two digits to a byte in the bytecode; here the digits themselves.
read_decimal(c) ==
    IF \/ c.sign > 1 \/ c.digits = <<>> \/ Len(c.digits) > MaxDigits
       \/ c.exponent \notin -MaxExponent .. MaxExponent
       \/ \E i \in DOMAIN c.digits : c.digits[i] > 9
       \/ Len(c.digits) > 1 /\ c.digits[1] = 0
    THEN Malformed
    ELSE [tag |-> 2, number |-> pn_big_from_digits(c.digits, IF c.sign = 1 THEN -1 ELSE 1),
          exponent |-> c.exponent]

read_constant(c) ==
    LET signed(n) == IF c.sign > 1 \/ n = Malformed \/ (c.sign = 1 /\ pn_big_is_zero(n.number)) THEN Malformed
                     ELSE [tag |-> 1, number |-> IF c.sign = 1 THEN WithSign(n.number, -1) ELSE n.number]
    IN
    CASE c.tag = 0 -> read_nat(c.bytes)
      [] c.tag = 1 -> signed(read_nat(c.bytes))
      [] c.tag = 2 -> read_decimal(c)
      [] c.tag \in {3, 4, 5} -> c
      [] OTHER -> Malformed

constant_value(c) ==
    CASE c.tag = 0 -> Integer("Nat", c.number)
      [] c.tag = 1 -> Integer("Int", c.number)
      [] c.tag = 2 -> Decimal(c.number, c.exponent)
      [] c.tag = 3 -> IF c.word = "" THEN Str(c.text) ELSE Word(c.word)
      [] c.tag = 4 -> Bool(c.boolean)
      [] OTHER -> [kind |-> "Void"]

\* A program whose constants are read, or <<>>.
decode(p) ==
    LET read(in) == IF in.op = "CONST" THEN [in EXCEPT !.constant = read_constant(in.constant)] ELSE in
        whole(q) == IF \E i \in DOMAIN q : \E in \in Range(q[i].ins) : in.op = "CONST" /\ in.constant = Malformed
                    THEN <<>> ELSE q
    IN  whole([i \in DOMAIN p |-> [p[i] EXCEPT !.ins = [j \in DOMAIN p[i].ins |-> read(p[i].ins[j])]]])

-----------------------------------------------------------------------------
(* Functions and builtins.                                                  *)

Rank(name) == CHOOSE i \in DOMAIN NameOrder : NameOrder[i] = name

NoFunction == [name |-> "", pure |-> FALSE, is_async |-> FALSE, params |-> <<>>, ins |-> <<>>,
               local_effect |-> FALSE]

\* By bisection once verification has found the names in order, else the first.
program_function(p, name, ordered) ==
    LET search[low \in Nat, high \in Nat] ==
            LET middle == low + (high - low) \div 2
                f == p[middle + 1]
            IN  IF low >= high THEN NoFunction
                ELSE IF f.name = name THEN f
                ELSE IF Rank(name) < Rank(f.name) THEN search[low, middle]
                ELSE search[middle + 1, high]
        named == {i \in DOMAIN p : p[i].name = name}
    IN  IF ordered THEN search[0, Len(p)]
        ELSE IF named = {} THEN NoFunction ELSE p[Min(named)]

\* The entries the programs here use: arity, purity, and whether the entry is an
\* asynchronous service or one of the builtins on the state of an HTTP server.
BUILTINS ==
    LET entry(arity, pure, async, local) ==
            [arity |-> arity, pure |-> pure, async |-> async, local |-> local]
    IN  [name \in {"quotient"} |-> entry(2, TRUE, FALSE, FALSE)]
        @@ [name \in {"nat", "dec", "utf8_encode"} |-> entry(1, TRUE, FALSE, FALSE)]
        @@ [name \in {"$unit", "path_current"} |-> entry(0, TRUE, FALSE, FALSE)]
        @@ [name \in {"http_state_setup_error"} |-> entry(1, FALSE, FALSE, TRUE)]
        @@ [name \in {"print", "process_exit", "http_stream_read", "http_stream_close", "run_bytecode"}
                |-> entry(1, FALSE, FALSE, FALSE)]
        @@ [name \in {"http_stream_open"} |-> entry(6, FALSE, FALSE, FALSE)]
        @@ [name \in {"async_fake_read", "host_stdout_async", "host_exit_async", "fs_root_identity_async",
                      "$tcp_server_read_chunk"} |-> entry(1, FALSE, TRUE, FALSE)]
        @@ [name \in {"host_arguments_async"} |-> entry(0, FALSE, TRUE, FALSE)]
        @@ [name \in {"$tcp_exchange"} |-> entry(5, FALSE, TRUE, FALSE)]
        @@ [name \in {"$http_transport_exchange"} |-> entry(6, FALSE, TRUE, FALSE)]

IsBuiltin(name) == name \in DOMAIN BUILTINS

\* What a call is judged by: of a builtin, or of a function of the program.
Callee(p, name, ordered) ==
    IF IsBuiltin(name) THEN BUILTINS[name]
    ELSE LET f == program_function(p, name, ordered)
         IN  [arity |-> Len(f.params), pure |-> f.pure, async |-> f.is_async, local |-> f.local_effect]

-----------------------------------------------------------------------------
(* Verification.                                                            *)

verify_call_edge(caller, callee, awaited) ==
    IF awaited THEN caller.is_async /\ ~caller.pure /\ callee.async
    ELSE IF caller.pure THEN ~callee.async /\ callee.pure
    ELSE ~callee.async /\ (~(caller.is_async \/ caller.local_effect) \/ callee.pure \/ callee.local)

\* Instructions that may call anything.
Unsafe == {"CALL_VALUE", "AWAIT_VALUE", "AWAIT_CALL"}

\* A function that touches nothing but the state of a server, itself or through
\* functions already found to be so, is one of local effect.  Rounds are repeated
\* until one changes nothing, which the number of functions bounds.
infer_local_effects(p) ==
    LET callee(q, in) == Callee(q, in.name, FALSE)
        local(q, f) ==
            LET calls == {in \in Range(f.ins) : in.op = "CALL"}
            IN  /\ ~f.pure /\ ~f.is_async
                /\ \A in \in Range(f.ins) : in.op \notin Unsafe
                /\ \A in \in calls : callee(q, in).pure \/ callee(q, in).local
                /\ \E in \in calls : callee(q, in).local
        rounds[n \in Nat] ==
            IF n = 0 THEN [i \in DOMAIN p |-> [p[i] EXCEPT !.local_effect = FALSE]]
            ELSE LET q == rounds[n - 1]
                 IN  [i \in DOMAIN q |-> [q[i] EXCEPT !.local_effect = @ \/ local(q, q[i])]]
    IN  rounds[Len(p)]

Calls == {"CALL", "AWAIT_CALL"}
Jumps == {"ITER_NEXT", "MATCH_VARIANT", "JUMP_FALSE", "JUMP"}

\* p with its local effects inferred.
verify(p) ==
    LET main == program_function(p, "main", FALSE)
    IN  /\ main # NoFunction /\ main.params = <<>>
        /\ \A i \in DOMAIN p :
             /\ ~(p[i].pure /\ p[i].is_async) /\ p[i].name # ""
             /\ i > 1 => Rank(p[i - 1].name) < Rank(p[i].name)
             /\ \A a, b \in DOMAIN p[i].params : p[i].params[a] = p[i].params[b] => a = b
             /\ \E in \in Range(p[i].ins) : in.op = "RETURN"
             /\ \A in \in Range(p[i].ins) :
                  /\ in.op = "INTERPOLATE" => in.count > 0
                  /\ in.op \in Jumps => in.target \in DOMAIN p[i].ins
                  /\ in.op = "AWAIT_VALUE" => p[i].is_async
                  /\ in.op \in Calls =>
                       /\ IsBuiltin(in.name) \/ program_function(p, in.name, FALSE) # NoFunction
                       /\ in.arity = Callee(p, in.name, FALSE).arity
                       /\ verify_call_edge(p[i], Callee(p, in.name, FALSE), in.op = "AWAIT_CALL")
==============================================================================
