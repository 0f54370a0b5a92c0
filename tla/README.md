# Verification of the Panackelty VM

Panackelty is a self-hosted language. Its compiler, package manager and
standard library are written in Panackelty and run on a virtual machine in C
(`src/vm`, about 12 000 lines with headers). This directory holds TLA+ models of
the parts of the VM whose correctness depends on the order of events, of the
interpreter and its arithmetic, TLC configurations for them, and TLAPS proofs.

Paths below are relative to `src/` of the repository unless they begin with
`docs/`.

## 1. The system and where its difficulty lies

### Parts with a life of their own

| Part | State | Operations | What is hard |
|---|---|---|---|
| Task sessions, `vm/tasks.c` | tasks in a tree, one request each, a bounded completion ring, virtual time, a round-robin cursor | spawn, cancel, complete, pump, destroy | late and repeated answers, a tree settled in one reverse pass, deadlines against completions, counters at their limits |
| Console writes and file reads, `vm/console_write.c`, `vm/root_read.c` | an operation shared by its owner and a detached worker, two counters of active workers | start, poll, wait, take the result, destroy; the worker's I/O | who frees the operation; lost wake-ups; compare-and-swap admission |
| Values, `vm/value.c` | reference-counted values, append stores with at most two views | make, retain, release, append | a hidden element owned by the store, release in any order, cycles through a store |
| Server owner, `vm/tcp_server.c`, `vm/http_state.c` | listener, client slots, poll snapshot, deadlines, handler executions, HTTP responses | start, poll, advance, stop, destroy | slots and descriptor numbers reused inside one poll; deadlines in the middle of everything; responses that overlap the end of handlers |
| Root invocation, `vm/execute.c`, `vm/http_runtime.c` | list of HTTP listeners, main's execution, a plain server, the stop signals | the loop of `execute`; listen, close, destroy, exit; SIGINT, SIGTERM | close requests from main and from handlers while the list is walked over; signals at any moment |
| Coverage sessions, `vm/coverage_session.c`, `compiler/coverage_session.panack` | a directory of markers and records, a locked budget, a tree of executions in several processes | reserve, claim, record, close, inherit; the reader | killed processes, a ticket inherited twice, children that cannot be registered |
| Subprocesses, `vm/host_capabilities.c` (`hc_process`) | child, pipes, timeout, output limit | one call | pipes that fill both ways, reaping against timeout, process groups |
| Filesystem stages, `vm/filesystem_stage.c` | 64 slots, staged directories | begin, publish, discard, atomic write | crashes between system calls, another process in between |
| Outbound exchanges, `vm/tcp.c`, `vm/http_transport.c` | one connection, a table of streams | start, poll, destroy; open, read, close of a stream | deadline against readiness, a peer that stalls, closes early or resets, handles after close |
| Executions, `vm/execute.c` | frames, a status, what it waits for, capabilities, coverage counters | advance, poll, answer, enable, destroy | effects through callables, counts across waits, answers for another wait |

All of them are modelled.

### Sequential parts

The verifier, the constants of the bytecode, integers, decimals and fractions are
pure functions; they are modelled as operators, and the interpreter of
`Execution` runs programs over them. The rest has no interleavings and is not
modelled: the framing of bytecode, text and collection builtins, gzip and
digests and the command line in C; the compiler, bytecode codec, package
manager, project model and standard library in Panackelty, whose correctness is
that of a language semantics.

### How the parts interact

One thread owns everything but the detached workers. `execute` advances main and
pumps the HTTP listeners in turn; each listener is a server owner with one
handler execution per client; main may run one plain server besides. Executions
start detached operations and outbound exchanges and wait for them. An embedder runs task sessions
instead of `execute`. Every execution may belong to a coverage run, and starting
a child (task, server handler, process) reserves a name for it. Values are shared
inside a thread only.

## 2. The modules

| Module | Models | Rests on |
|---|---|---|
| `VMTasks` | `vm/tasks.c` | implements `TaskScopes` |
| `TaskScopes` | what a session promises: structured concurrency | |
| `VMTasksProofs`, `VMTasksSettleProofs` | theorems about `VMTasks` | |
| `DetachedWork` | `vm/console_write.c`, `vm/root_read.c`, and how `execute.c` uses them | |
| `DetachedWorkProofs` | theorems about `DetachedWork` | |
| `ArrayStorage` | `vm/value.c`: retain, release, append | |
| `TcpServer` | `vm/tcp_server.c`, the admission and responses of `vm/http_state.c` | implements `Listener` |
| `Listener` | what a server promises its user | |
| `TcpServerProofs` | theorems about `TcpServer` | |
| `HttpRuntime` | `vm/http_runtime.c`, the loop and signals of `vm/execute.c` | uses a server as `Listener` has it |
| `HttpRuntimeProofs` | theorems about `HttpRuntime` | |
| `CoverageSession` | `vm/coverage_session.c` and the acceptance test of its reader | |
| `ProcessRun` | `hc_process` of `vm/host_capabilities.c` | |
| `ProcessRunProofs`, `ProcessRunResultProofs` | theorems about `ProcessRun` | |
| `FilesystemStage` | `vm/filesystem_stage.c` | |
| `BigInt` | `vm/bigint.c`, limb by limb | |
| `Numeric` | `vm/numeric.c`, `vm/builtins_numeric.c`, equality of `vm/value.c` | `BigInt` |
| `Program` | constants of `vm/decode.c`, `vm/program.c`, `vm/builtins.c`, `vm/verify.c` | `Numeric` |
| `Exchange` | `vm/tcp.c`, `vm/http_transport.c` | |
| `Execution` | the interpreter of `vm/execute.c`, `vm/coverage.c`, the table of streams | `Program`, `Exchange` |
| `MC...` | instances for TLC | |

Definitions keep the names of the C functions where they stand for one.
Definitions with a name of the form `operation_variant`, under a comment that
begins with "Mutant", are wrong versions of the operation below them: each is a
plausible slip, and a property has to notice it.

### VMTasks

The variables are the fields of `VMTasks` and `Task`. A call runs to completion
on the owning thread; its loops are unrolled into steps of `pc` (`settle`,
`deliver`, `dispatch`), and only the next step of the call is enabled until it is
idle again. So invariants hold at every step inside a call, not only between
calls. `descendant` says that the root belongs to every set that holds the task
and is closed under parents, which is what the walk along parent links
computes, without recursion. The host is free: it answers any task and
generation, also those that are gone. Left out: exit codes, coverage runs, the
identity word that rejects handles of another session.

### DetachedWork

Each access to shared state is a step of the owner or of the worker. Starts
load the counter, compare and exchange; allocation, thread creation and
descriptor duplication may fail. Owners are on different threads, so starts race
on the counters as they do between embedded executions. A worker publishes in two
steps, the result and then `done`, both under the mutex, so that an owner that looked
without it would be seen to read too early. Condition variables may wake up
spuriously. The end of the process while a worker is running is left
out: it frees everything.

### ArrayStorage

`release` is recursive in C; here its calls and what is left to do after them are
a stack. "opaque" stands for HTTP resources, which `append_independent` refuses
to look into. A failed allocation leaves the heap as it was. Addresses are small
numbers and are reused. The bound `Budget` is 64 in the code, the initial capacity
8.

### TcpServer

`setup` says how the server is started: the entry point, the limits, and whether its
owner goes on pumping to the end, which the run assumes only where it asks for
progress. A loop that ends several clients does so in one step, since the clients are
independent of each other. Time is counted in ticks and a deadline is the time left. Between two looks at
the clock the server is alone, so each stretch between them is one step. A C
function that depends on the outside is the set of states it may leave. `wire`
records what a peer got, as kinds of bytes. Descriptor numbers are the lowest
free ones, as POSIX has it, which makes reuse as likely as possible. `Fails`
stands for a failing clock, poll or accept and for memory that runs out. Handlers
are free: an instruction may yield, wait, end, fail, exit, trap, take a request
place, read, write an interim response or commit one, in the order that
`packages/http/src/routed_connection.panack` keeps. Two simplifications: a 504
is taken to go out in one piece, and one that follows a part of `100 Continue` is
not excluded by `OneResponse`.

### HttpRuntime

A listener's server is listening, draining or gone. Handlers may ask for any
close or destroy while the pump is at any place of the list, and for exit. A
handler that itself waits for a close is left out: it ends with its client. Other
host operations of main only delay it.

### CoverageSession

An execution is named by its path. Its kind says who starts it: `execute` runs roots,
nested programs and processes to their end before the record is closed; tasks are
spawned by the embedder below its own run or below a task; handlers and the readiness
callback of a service belong to a server. A nested program holds up its process
(`Running`). The body of a task may be closed while tasks it spawned go on; every
other run ends after what it started in its process (`CloseBegins`). Processes
interleave at each marker, lock, budget update and record, and may be killed there;
the lock ends with its holder. The budget file is rewritten by one flush.

A record says how many children its run had, whether it noted a gap, and whether its
execution ended or was left in the middle (`ended`): a cancelled task and a dropped
client leave a record whose terminal is 0. Only the caller of a nested program has a
collector to note in that a child's record was not written. `Accepted` is the reader's
decision on the directory: the records that decode (`Whole`), the kinds the reader
knows (`KnownKinds`, which leave out "server-ready", see section 6), the claims, the
numbers of children and the budget. Contents of records are left out, their sizes are
not.

### ProcessRun

Every system call of `hc_process` is a step, and so is every step of the child,
before and after `execve`, and of one descendant. What the program does is a
list of steps in `setup`: read to the end, write a byte, close the input, fork,
leave the process group, hang, abort. Pipes hold `Cap` bytes and only their
number counts; `fds` says who has which end open, so that ends of file, EPIPE and
SIGPIPE follow from it. A failing system call is possible at each place where
the code has a path for it. `vm.env` is the environment built for the child. Left
out: interrupted calls, which are repeated, the signal mask around a write, and
descriptors that another thread's fork might copy between `pipe` and `fcntl`.

### FilesystemStage

One parent directory with one target, `dir`, is shared by invocations of the VM;
each call on it is a step, and an invocation may be killed before any of them and
be followed by one with the same process id, whose private names may exist
already. Inodes are compared by number, as the code does with `st_ino`, and are
used again. So "never delete a substituted old generation" (a comment in the
code) holds as far as numbers tell: a directory that replaced the one seen and
got the same number is taken for it, and `OnlyItsOwn` is stated in these terms.
Somebody else may put another directory at the target at any moment, but
replaces a private stage only between its owner's calls: the code checks a stage
before it uses it, and the two are not atomic. Machine crashes are left out; the
code does not call `fsync`.

### BigInt and Numeric

A limb has `Digits` decimal digits, nine in the code, and every loop over limbs is
a recursive function of the limb's index: carries, borrows, the rows of a product,
the bisection for a limb of a quotient. Intermediate products are taken modulo
`Wide`, so a carry that did not fit would be lost as in the code. The exponent of a
Dec wraps at `IntMax`, one of the outcomes of the overflow that C leaves undefined.
Each operation of `numeric.c` is an operator on values that yields a value or a
trap with its kind of fault. `negative_zero`, which only rendering shows, is left
out.

### Program

A program is a sequence of functions with their instructions; a constant is what
its bytes or digits spell. `decode` refuses what `read_nat`, `read_decimal` and
`read_constant` refuse. `infer_local_effects` repeats rounds over all functions; the
code updates them in place, and both reach the same least fixpoint because a
function once found local stays so. `BUILTINS` has the entries that the programs
of the run call. What `INTERPOLATE` prints and the framing of the artifact are left out.

### Exchange

An exchange is a record: the fields of the C structure, the connection as the
kernel keeps it, and the peer as a list of what it will still do. A poll is three
steps, the look at the clock, the return of `poll` with what is ready then, and the
second look with the input and output; the peer and the clock move in between.
Sends and receives take any number of bytes up to `Chunk` and `Room`. Bytes are
numbered by the peer, so that order and completeness of a response can be said.
libcurl is the set of its outcomes: it connects, fails, or takes longer. Left out:
POLLNVAL, and a failure of curl's own poll, which ends as "connection failed"
like other failures.

### Execution

One execution from decoding to destruction, on the command line or embedded, with
the callbacks its embedder gave it. An instruction is a step, since a slice may
end after any of them. What a C case does to its frame is `Outcome`; calls,
returns, builtins and reads of a stream are actions of their own. A blocking read
of a stream is a series of steps during which nothing else of the execution
happens (`reading`). A call of a host function checks its arguments, allocates and
begins to work, or refuses, or traps when memory runs out (`Begins`); the arguments of
an exchange are held against the limits of the code, which `Bounds` keeps by kind
(`ExchangeArguments`). A result comes with the poll that finds the exchange or the
worker finished (`Delivers`).

The embedder polls, answers reads with any value whenever it likes, grants
capabilities between slices and destroys the execution whenever it is not inside one
of its calls. It answers prints too whenever it likes, as the code lets it:
`vm_execution_complete_print` refuses only a wait for a read, a server or listeners,
so an answer nobody asked for ends any other wait (section 6). `acted` remembers what
the properties need: the builtin called last, from which functions, the exchange
answered last, and whether a print was answered that was not asked for. `WaitsForOne`
is about embedders that did not do that. `pc` counts from 1. Left out: servers and HTTP
listeners, which are in `TcpServer` and `HttpRuntime`; an iterator that two locals
share; allocation failures elsewhere; and `run_bytecode`, which succeeds or traps.

## 3. The runs

| Run | Instance | Shows |
|---|---|---|
| `task_trees` | 3 tasks, every tree; budget 2 | one pass of `settle` is enough (`OnePassSettles`); `ImplementsScopes` |
| `task_requests` | 2 tasks, 2 generations, 3 registrations, ring of 2, deadlines 0 to 1 | `RequestsBalance`, `NoLostWait`, `OneCompletionPerRequest`, `ExpiredNeverRuns`; `ReadyIsDispatched` |
| `detached` | 2 operations, each a write or a read; 1 place of each kind | `MemorySafe`, `PlacesCounted`; `WaitReturns`, `AbandonedIsFreed` |
| `arrays` | 4 values, 2 stores, arrays of 2 | `ReferencesCounted`, `ArraysPersist`, `StorageOutlivesRelease` |
| `server` | the setups of `MCTcpServer`: two clients of each kind of server, three clients of two slots, responses in pieces, two connections for one request place; and one client of a service, a streaming and a routed server whose owner goes on pumping | `ClientsAccounted`, `ServesOnlyCurrent`, `OneResponse`, `SuccessIsComplete`, `ImplementsListener`; `ServerStops` |
| `http_listeners` | 2 listeners, plain servers of both kinds | `ResourcesListed`, `PhasesAdvance`, `ReleasedFirst`; `CloseReturns`, `StopEnds` |
| `http_signals_dropped` | as above, finite plain servers | the violation of section 6 |
| `coverage` | 3 executions, 2 levels, 1 crash | `WithinBudget`, `AcceptedIffComplete` |
| `process_run` | 168 calls, see `MCProcessRun`; pipes of 2 bytes | `ResultIsTrue`, `NothingLeft`; `CallReturns` |
| `stages` | 2 invocations, 3 inodes, 1 crash, failure or interference | `TargetIsWhole`, `ReportIsTrue`, `OnlyItsOwn` |
| `execution` | about 14 000 programs, embedders and peers in six families, see `MCExecution` | `ArithmeticIsExact`, `EffectsConfined`, `CoverageBalanced`, `ResponsesAreTrue`, `WaitsForOne`, `HandlesNeverReturn`; `WaitsEnd` |
| `unasked_print` | two waits in a row, the first for a file, of an embedder that answers prints at any time | the violation of `FileWaitsForItsOwn` of section 6 |

Why the bounds are enough:

- Three tasks are the smallest tree in which a failure has to pass through a
  task that is neither the failed one nor the root, and in which a sibling is
  cancelled on the way. Two tasks and two generations make an answer to an
  earlier request of the same task possible, and three registrations reach both
  counters' limits.
- Two writes for one place race in every step of admission and release. The
  kinds of operation do not share state, so one read is enough for its own code.
- Four values allow an array, its extension, an item that owns the array, and one
  more; a cycle through a store needs three. A store of two slots is full after
  one shared append.
- Three clients on two slots reuse a slot and a descriptor number while another
  client is in the same snapshot. Responses of two pieces can be cut. Deadlines of
  one and two ticks pass before, between and after any two steps.
- Two listeners are enough for one to be unlinked while another is before or
  behind it.
- Three executions contain a grandchild, two children, and a nested process, of each
  kind; a server handler's record is larger, so that two of them exceed the bytes and
  other trees do not.
- Inputs of three bytes do not fit in a pipe of two, and outputs of up to four meet
  and exceed a limit of three. All programs of up to three steps with one
  descendant are among the calls, so that each may end before the other.
- Two publishers and a target need three inodes, and each of them may be freed and
  used again; two names are tried, one of which a killed invocation may have left.
- Limbs of two digits, bytes of sixteen values and sizes up to 2000 put one, two and
  three limbs, and the ends of all ranges, within numbers of five digits: operands
  are chosen on both sides of each power of the base, with each sign, and decimals
  with factors two and five. main, f and g with every flag and every kind of call,
  down to a builtin of each effect, are the shortest chains in which an effect passes
  through a function that may not have it. Two waits in a row, of every kind and
  with every callback and capability, show whether anything of the first is left
  for the second, and three, of an embedder that answers at any time, whether an
  answer for the first reaches the third. The arguments of an exchange meet
  and exceed their limits. Requests of three bytes do not fit in a `Room` of two; responses
  meet and exceed their limit; deadlines of one and two ticks pass between any two
  steps. Two handles are opened, closed and asked for again. A loop of four rounds
  passes the `Ceiling` of the counters.

Deadlock is not checked where a system may stop: sessions and servers are
destroyed, processes end. It is checked in `arrays`, where something can always
be made or dropped.

## 4. Fairness

- `VMTasks`: a call that has begun goes on (weak, on the steps of a call); the host
  pumps again and again (strong, since pump is not enabled inside a call). Nothing is
  assumed of answers.
- `DetachedWork`: a thread in straight-line code goes on; a mutex that is free
  again and again is obtained. Nothing makes the operating system finish an I/O
  operation, so the properties begin when it is over.
- `TcpServer`: in the setups that are pumped to the end the owner pumps, which
  `execute` does in its loop, and the clock advances. Nothing is assumed of peers and
  handlers, nor of the readiness callback.
- `HttpRuntime`: the loop goes on; a server told to stop is done at some pump.
  `ServerStops` shows that of the server: it is done in the end, and every client before it.
- `Execution`: polls go on while an execution waits, which `execute` does in its loop and
  an embedder has to; the embedder answers the requests it registered; the clock
  advances; the I/O of a detached worker ends, without which `execute` waits for as long
  as the console or the filesystem does. Nothing is assumed of peers, which a deadline
  bounds, nor that a program goes on.
- `ProcessRun`: the VM's thread, the child and its descendant go on when they can
  (weak). The deadline need not pass: `CallReturns` asks for it only where a
  program hangs, so it also excludes that VM and child wait for each other.

## 5. Proofs

`VMTasksProofs` proves about `VMTasks`, for every number of tasks, ring size,
counter limit, range of deadlines and budget, from `LimitsAssumption` alone
(limits are natural numbers, at least one task and one ring slot):

| Theorem | States |
|---|---|
| `TypeCorrect` | `[]TypeOK`: counters never exceed their widths, the ring its size, the cursor the tasks |
| `RequestsAccounted` | `[]RequestsBalance`: registered minus released is the number of outstanding requests, and zero after destruction |
| `WaitsKept` | `[]NoLostWait`: a task waits in its status, its request and its execution, or in none |
| `ScopesAlwaysNest` | `[]ScopesNest`: no task outlives its parent |
| `TerminalStatusesAreFinal` | `TerminalIsFinal`: a status that ended a task never changes |

The inductive invariant is the conjunction of `TypeOK`, `Admission`,
`RequestsBalance`, `NoLostWait` and `ScopesNest`, proved in this order so that each
layer can use the ones before.

- `Admission` (a parent precedes its children, and unused slots are blank) is
  the fact that the comment "Parent ids precede children" in `tasks.c` relies on.
  It is what makes the trees that `cancel_tree` and `cancel_children` cancel closed
  downwards (`TreeClosed`, `CancellationsClosed`): the walk from a child goes
  through its parent.
- `RequestsBalance` needs the cardinality of the outstanding set when requests of
  several tasks are released at once (`ReleaseBalance`).
- `ScopesNest` is inductive given the others: a task ends by a cancellation, which
  closes everything below it; by a join, whose guard is that its children have
  ended; or by a trap, which cancels its children in the same step
  (`FinishNests`). `NoLostWait` is needed where a completion resumes a task: it was
  waiting, so it had not ended.
- `TerminalIsFinal` comes from the same case analysis (`Final` in `ScopesStep`).

`VMTasksSettleProofs` goes on from there, with the same assumption:

| Theorem | States |
|---|---|
| `ExpiredTasksNeverRun` | `[]ExpiredNeverRuns`: no bytecode runs for a task past its deadline |
| `OneCompletionEach` | `[]OneCompletionPerRequest`: the ring holds one completion for a queued request and none for another |
| `OnePassIsEnough` | `[]OnePassSettles`: one reverse pass of `settle` completes all joins and carries all failures |
| `SessionImplementsScopes` | `ImplementsScopes`: a session is structured concurrency as `TaskScopes` has it |

- Deadlines: from the deadline loop of a pump to its end every task that still runs
  has time left (`DeadlinesKept`), through every `settle` in between, because no task
  comes back to life.
- The ring: a queued request is pending, no completion is for a generation yet to
  come, no two are for the same request, and the marks agree with the ring
  (`RingKept`). Releases of several tasks at once leave entries behind that no
  generation matches any more (`RingRelease`).
- `settle`: while the pass is at task v, all tasks above v are settled (`Pass`). A
  visit keeps that because a parent precedes its children, so what it changes above v
  is only cancelled (`JoinSettles`, `TrapSettles`). `Bodies` says how status and
  outcome of a task go together.
- The refinement maps each task to the state of its scope (`ScopeOf`) and follows from
  the invariants before.

`TerminalIsFinal` says more than `ImplementsScopes` does, since `TaskScopes` does not
tell the ways of failing apart.

`DetachedWorkProofs` proves about `DetachedWork`, for every finite set of operations
and every two limits (`WorkAssumption`):

| Theorem | States |
|---|---|
| `OperationsAlwaysSafe` | `[]MemorySafe`: no use after free, no double free, no result read before it is there |
| `WorkersAlwaysBounded` | `[]PlacesCounted`: the counters are exact and within their limits |

`MemorySafe` is not inductive: that it is safe to free depends on who will come last.
The invariant `IInv` says, of each operation by itself (`OpInv`), who holds the
mutex (`Locked`), when it is done (`DoneWhen`), that the worker leaves it alone until
the owner marks it abandoned (`OwnerHolds`), and that from then on it belongs to the
owner if it was done under the mutex and to the worker otherwise (`LastFrees`).
The heart of it is `DestroyUnlock`: an owner that saw done finds the worker past
its own unlock, since both look under the mutex. A step of one operation leaves the
others alone (`OthersUntouched`, `FieldsDecide`), so one case per action suffices. `PlacesCounted`
adds that a loaded counter was within the limit (`CountsBounded`), and that each
action admits an operation, gives one place back, or neither (`PlaceTaken`,
`PlaceReturned`, `PlacesKept`).

`HttpRuntimeProofs` proves about `HttpRuntime`, for every set of handles and of plain
servers (`RuntimeAssumption`), and without fairness:

| Theorem | States |
|---|---|
| `ResourcesAlwaysListed` | `[]ResourcesListed`: a handle has a server exactly when its resource is on one list, once |
| `PhasesAlwaysAdvance` | `PhasesAdvance`: no phase goes back |
| `ListenersReleasedFirst` | `ReleasedFirst`: the loop ends, and a close returns, only after the release |

None is inductive by itself. Whether a phase may go back depends on the request: a
close of a server already asked to be destroyed must find `destroy` set, and a
release of one without a server would turn a created handle into a closed one. So
`IInv` says of each handle how its phase, its server and its requests go together
(`Good`), that the two lists hold the handles with a server, each once (`Core`),
that the pump's place is counted from one (`CursorOK`), and that the loop is left
with listeners only after an error or a trap (`EndsEmpty`). The requests of main, of
a handler and of a stop have one thing in common, stated as `Requested`: they add and
remove no server and let no phase go back. It composes (`RequestsCompose`),
so a pump in which a handler closes a listener and then exits is one argument
(`CoreByRequests`). Only a bind and a release change the lists; they change the
table in the same step (`ListenCore`, `PumpResourceCore`, `EndsCore`).

`TcpServerProofs` proves about `TcpServer`, for every set of setups that
`ServerAssumption` allows, so for every mode, number of slots and clients and all
limits, and without fairness:

| Theorem | States |
|---|---|
| `ClientsAlwaysAccounted` | `[]ClientsAccounted`: each admitted client has one slot or one outcome, and a server that ended holds nothing |
| `AlwaysServesCurrent` | `[]ServesOnlyCurrent`: a socket is used only for the client that was polled for, and in time |
| `ListenerImplemented` | `ImplementsListener`: it never listens again once it has begun to stop |

The invariant (`Accounting`) is a statement about the server record, `Well`: its shape,
that clients have numbers of their own and the counts are those of the slots
(`Counts`), that every admitted client is there or has its outcome until the server
fails (`Outcomes`), and what is over when it has ended (`Ends`). Every C function of
the model is shown once to lead from a `Well` server to a `Well` one, and to move it
only onward in the terms of `Listener` (`Onward`); most of them change nothing but
bytes (`Same`). The actions are compositions of these, one lemma each. That only the
current client is served comes from the comparison of identities in `Dispatch` and the
second look at the clock before it (`DispatchProceeds`).

`ProcessRunProofs` and `ProcessRunResultProofs` prove about `ProcessRun`, for every set
of programs and requests, pipe capacity, chunk and byte limit, and whichever system
call fails:

| Theorem | States |
|---|---|
| `NothingIsLeft` | `[]NothingLeft`: `hc_process` returns with its descriptors closed, its child reaped and, after a kill, its group gone |
| `OutcomeAlwaysTrue` | `[]OutcomeIsTrue`, the part of `ResultIsTrue` about what happened: a result carries the child's exit and all that was written, and an error names its cause |

`NothingLeft` needs the order in which the pipes are opened (`EndTypes`), where a
problem is noted and what result it leads to (`Course`), and who is alive when: nobody
before the fork, and nobody of the group after the kill that follows a problem
(`Lives`). `OutcomeIsTrue` needs who holds
which end of a pipe (`Holds`), since an end of file is a statement about all processes;
that what was written is what was received plus what is in the pipe, until the pipe is
over (`Streams`); and what each problem was caused by (`Outcome`). The environment
the child finds is the other part of `ResultIsTrue` and is only model-checked.

Only model-checked: `CoverageSession` and `FilesystemStage`; `OneResponse` and
`SuccessIsComplete` of `TcpServer`; and all liveness, which is beyond the prover.
`ArrayStorage` and `Numeric` (and with it `Program` and `Execution`) use a recursive
operator, and what the recursive functions of `BigInt` compute for every input is an
induction over data: they stay with TLC.

## 6. Where code and documentation disagree

`http_signals_dropped`: `docs/reference/SPEC.md` says of HTTP listeners "CLI signals
and explicit exit perform bounded cleanup", and `docs/reference/http-server.md`
"Normal process exit and termination signals also use bounded cleanup". When main
runs a plain TCP server beside an open listener and that server is done,
`vm_execution_pump_server` (`vm/execute.c:1670`) restores the signals the
listener had installed, and clears a pending request to stop. From then on a
SIGTERM ends the process without draining the listener. `StopEnds` is therefore
stated up to the loss of the signals.

A related observation, without a run: after the last listener has closed, main
keeps the signals caught until `execute` returns, and a `tcp_service` it starts
then traps, because the signals are taken. `docs/internals/ARCHITECTURE.md` describes
restoration at the end of a service for plain services only.

Another one: `docs/reference/SPEC.md` says of `process.run` that "Failure before execution
returns `launch_failed`, with errno". A failure of `pipe` or `fork` is one too, and
is reported under the name of its errno (the result "error" in `ProcessRun`);
`launch_failed` is what the child reports, and `ResultIsTrue` is about it.

`unasked_print`: a comment in `vm_execution_poll_filesystem` (`vm/execute.c:1593`) says
that "Fake/network completion entry points cannot inject a filesystem result into this
wait". `vm_execution_complete_print` refuses a wait for a read, a server or HTTP
listeners and no other (`vm/execute.c:1300`): called while the program waits for a
file, it gives it Void in place of the result, and the read stays behind in the
execution (`FileWaitsForItsOwn`). No caller in the repository answers a print that was
not asked for, and `WaitsForOne` holds for those that do not.

Three more without a run. `docs/reference/SOURCE_COVERAGE.md` lists what the file
expect-ID may say: "`root\n`, `nested\n`, `task\n`, `server\n` or `process\n`".
`advance_ready` registers the run of a readiness callback as "server-ready"
(`vm/tcp_server.c:917`), which `compiler/coverage_session.panack` does not know, so
`coverage_session_read` refuses every session in which a service started, however
complete it is; `AcceptedIffComplete` says that it refuses a complete session for no
other reason. `docs/reference/SPEC.md` says that a Dec "stores an arbitrarily large
base-10 coefficient and scale"; the scale is an `int` to which products and quotients
add without a check (`vm/numeric.c:129` and `:211`), and repeated squaring of a literal
with a large exponent leaves its range. `vm/README.md` says that "Explicit checked
numeric-domain failures" set `VM_FAULT_REQUEST` at the failure site; a `quotient` by
zero and an inexact `nat` leave the fault fatal (`vm/builtins_numeric.c:19` and `:34`).

## 7. What is not modelled

- The sequential parts of section 1 that have no module, for the reasons in
  `PROJECT.json`.
- Of `execute.c`: `INTERPOLATE` and re-entry from callbacks, which the running flag
  refuses. `VMTasks`, `TcpServer` and `HttpRuntime` see an execution as outcomes of
  their own and do not extend `Execution`.
- Of `decode.c`: magic, version, counts, names and operand bytes.
- Of `coverage.c`: the serializer.
- Of `http_state.c`: routes, headers, bodies.
- Memory exhaustion, except where the code has a path for it that changes state.
- WASI builds, in which servers and threads do not exist.

## 8. Plan

Models, in this order:

1. Operators: the UTF-8 decoder, `hc_read_beneath` on small trees.
2. `HttpRuntime` and `TcpServer` over the statuses of `Execution`.

Proofs, in this order:

1. `FilesystemStage`: `TargetIsWhole`.
2. `CoverageSession`: `WithinBudget`.
3. `TcpServer`: `OneResponse`.
