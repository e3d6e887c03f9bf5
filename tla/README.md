# Verification of ecsact_si_wasmer

TLA+ models, TLC runs and TLAPS proofs about the library of this repository:
the host side of Ecsact's WebAssembly system implementations, on top of wasmer.
All source paths are relative to `src/ecsact/si/wasmer/detail/` unless they
begin with `test/`.

## The system

An embedding program (`test/example/example.cc` is one) loads a wasm binary with
`ecsact_si_wasm_load`, which instantiates it a hundred times and registers one C
function, `ecsact_si_wasm_system_impl`, with the ECS runtime for every system
of the list it is given. When the program calls `ecsact_execute_systems`, the
runtime calls that function from its threads; each thread finds itself an
instance of the pool and runs the system's export in it. The guest calls back
into the runtime through imports (`ecsact_system_execution_context_*`), and into
a little WASI (`fd_write` and friends), whose output the program later collects
with `ecsact_si_wasm_consume_logs`.

| part | state it keeps | operations | what makes it correct |
| --- | --- | --- | --- |
| instance pool and load, `wasm.cc` | `all_minsts`, `next_available_minst_index` (atomic), `thread_minst` (thread local, weak), `last_error_message`, `trap_handler`; in the runtime: which systems have our impl | load, load_file, reset, set_trap_handler, ensure_minst, system_impl | systems of the load that stands always run, in an instance of that load; half a load registers nothing; instances are shared only when the pool is used up; errors and traps are reported |
| call memory, `mem_stack.cc/.hh` | `call_mem_info` (thread local): a stack buffer, an offset, in debug builds the types | set_call_mem_data, call_mem_alloc, call_mem_read, debug_trace_method | set exactly during calls; each offset keeps meaning what it was given for; never past 4096 bytes |
| context imports, `wasm_ecsact_system_execution.cc`, `guest_imports/env.hh` | none of their own | 12 imports | the runtime is called with contexts of the execution under way, with pointers into the running instance's memory, and with the arguments the signature names |
| logger, `logger.cc` | a recursive mutex, one string per log level, a list that nothing fills | push_stdio_str (from fd_write), the split of consume_logs and its transaction | nothing printed is lost or reordered; the consumer gets each message of the split once and in order; no deadlock; messages are lines |
| virtual files, `wasi_fs.cc` | two maps, a counter, an optional FILE per descriptor; none locked | allow_file_read_access, ensure_open, close, fdstat, real_path | a descriptor reads the file it was given out for, from its beginning and in order; no FILE is used after it is closed, or in place of another; none is left open; what counts as open is |
| WASI imports, `wasi.cc` | none | fd_write, fd_read, fd_close, fd_seek, fd_fdstat_get, proc_exit, environ_* | as the WASI text says |
| instantiation, `minst/` | engine, store, module, instance, import and export lists of one instance | create, initialize, func_call, find_export, move, destroy | what is created is released once and in order, on every way out of create and load; what an instance only points to stays valid as long as it does |
| import tables, `guest_imports/` | constant tables of names and signatures | looked up by the resolver of load, compared by the engine | a binary is refused with the error that says what is wrong with it |
| engine, helpers | one pointer; none | | |

What is hard here is not the size: thread locals that outlive what they refer
to, an atomic index and a vector read after it, loads that fail half way, handles
that a guest may keep and use whenever it likes, a callback that is called with
a lock held. `PROJECT.json` lists these hazards at their lines, with the
properties that watch them.

## The modules

| module | models | of |
| --- | --- | --- |
| `SystemImpl` | the pool: loads, resets, executions, threads | `wasm.cc`, the outcomes of `minst.cc` |
| `SystemHost` | what the program may rely on: loads offer systems, threads run them | abstract |
| `ExecutionContext` | call memory, handles, imports | `mem_stack.cc`, `wasm_ecsact_system_execution.cc`, `env.hh`, the ends of `wasm.cc` calls |
| `ContextTable` | a table of handles per call | abstract |
| `LogMessages` | find, substr and the messages that a string is split into, overlaps and all | `logger.cc:57-90` |
| `LogLines` | the loop that makes those messages, with its int position | `logger.cc:57-90` |
| `Logger` | mutex, strings, fd_write, consume_logs, callbacks | `logger.cc`, `wasi.cc`, `wasm.cc` |
| `LogQueue` | what the logger promises: texts are printed and taken, and their messages delivered, each in one step | abstract |
| `Minst` | the wasmer objects of the instances of a pool, create, moves, destructors, import tables | `minst.cc`, `guest_imports/`, the loop of load in `wasm.cc` |
| `WasiFs` | mappings, descriptors, FILEs, fd_read and fd_close | `wasi_fs.cc`, `wasi.cc` |
| `MCSystemImpl`, `MCExecutionContext`, `MCMinst`, `MCLogger`, `MCWasiFs` | instances for TLC | |
| `SystemImplProofs`, `ExecutionContextProofs`, `MinstProofs`, `MinstLoadProofs`, `LogMessagesProofs`, `LogLinesProofs`, `LoggerProofs`, `WasiFsProofs` | theorems | |

`SystemImpl` implements `SystemHost`, and `Minst` implements the loads of
`SystemImpl`: what is one step there (an instance is created, or is not, with
some error) is here every object that is made and deleted on the way.
`ExecutionContext` implements `ContextTable`, and `Logger` implements `LogQueue`.
`Logger` splits its strings as `LogMessages` defines, and `LogLines` shows that the loop of
the code does so.

### SystemImpl

One variable per variable of `wasm.cc`, the runtime's registrations (`impls`),
a program counter, the locals of `ecsact_si_wasm_system_impl` per thread, and
a few histories (`loads`, `offered`, `ticket`) that only properties read.
`ensure_minst` is split where threads can interleave: `LockMinst` (the weak
pointer locks), `DrawIndex` (the atomic increment), `ClaimMinst` (the read of
the vector). The calls of the embedding program are serial, and the runtime's
threads run systems only between `BeginExecute` and `EndExecute`: that is how
`test/example/example.cc` uses the API and what the code needs, as nothing in
`load` is locked. A load takes one step per instance, so that every instance can
be the one that fails. `Alive` is `weak_ptr::lock`: an object lives in the pool
or in a thread's local `shared_ptr`, and nothing else keeps it.

A binary is what the code finds in it: whether it compiles and resolves, its
exported systems, exports of other kinds, a memory. `DivideByZero`, `MissExport`,
`AbortWithoutMemory` and `AbortInInitialize` are the ways in which the process ends;
after them nothing happens (`StayHalted`).

### Minst

`live` is the set of wasmer objects that exist, each named by its kind and
by the call of `minst::create` it was made for. A `minst` is a record of pointers, and
the places it can be in are variables: `self` in create, `inst` in the result that
load holds, `pool` in `all_minsts`, and `dying` while its destructor runs, one
`wasm_*_delete` per step. A move (`ReturnMinst`, `EmplaceMinst`) copies the
record and leaves `MovedFrom` of it behind, which is destroyed like any other.
`trap` is a `minst_trap` about to be destroyed. Import and export types, the
functions made for imports and the externs of an instance are objects too: the
code deletes none of them (`Kept`), and `minst_export` points into them.

A binary has imports with a kind and a type, and exports with a name and a kind;
`EnvImports` and `WasiImports` are the tables of `guest_imports/`. The resolver goes by
names only (`Resolved`), and the engine, which is external, compares kinds
and types (`Fitting`): the first gives GUEST_IMPORT_INVALID, the second INSTANTIATE_FAIL.
The engine may also fail to instantiate what fits (a start function traps).
`WasmMem` takes the first memory among the exports, and the pool keeps copies of it and
of the systems' exports beside the moved instance. `_initialize` is found by its name
alone, and `func_call` asserts that it is a function (`AbortInInitialize`).

### ExecutionContext

The call memory of a thread is the sequence of the cells allocated in it.
Everything allocated is a pointer, so that offsets count pointers. `known` is the
set of handles an instance has ever been given since it was created, and each
import may be called with any of them: a guest has memory, and nothing stops it
from keeping a handle. (Numbers that were never handles are not modelled.)
`Checked` is the build: with assertions `call_mem_read` refuses an offset that
does not hold the type (`RefuseHandle`); without, it reads what is there, zeros
included, since `mem_data` is zero-initialized (`CellValue`). The runtime behind
the imports is external: `Live`, `Parent` and `Others` say which contexts exist
while a root context executes and how they are reached.

Where the code overruns something, the process ends in the model: `Overrun`
(the 4096 bytes), `OverrunResults` (`has`), `FailGenerate` (a negative count, a
null list), `PassNull`.

### LogMessages, LogLines and Logger

`LogMessages` has what `consume_stdio_str_as_log_lines` makes of a string, without its
loop. The code skips the first character (`idx + 1`), looks for the next newline, and
calls `substr` with that newline's position as the length: a message begins after the
first character or after a newline (`Starts`), and is as long as all that lies before
its end (`MessageAt`). So messages overlap: all but the first run on behind their
line, and what they run into is logged again. `Entries` is the split of both levels'
strings, in the order of the map.

`LogLines` takes the loop apart, one iteration per step, for every string of a bounded
length; positions count from 0 as in the code. `find` returns a `size_t` and the loop
keeps an `int`: `ToInt` narrows it, `NextPositions` has `idx + 1` for an `idx` of
INT_MAX, which is undefined (the next position when it is computed in 64 bits, a negative
one when it wraps), and a negative position, a huge one as a `size_t`, makes `substr`
throw (`ThrowOutOfRange`). `IntMax` is a constant, so that TLC meets all of this with
short strings. The properties speak of strings that an int can index (`Short`); what
happens beyond is in the model, and is not what anybody would want.

In `Logger` a thread's `stack` holds the calls it is in: a callback of
`consume_logs` may print or consume once more on its own thread, with the
mutex held. `+=` is a load and a store, the split and the clear of the strings
are separate steps, and it is the mutex alone that keeps others out: `LogQueue`, which
`Logger` implements, has neither a mutex nor those steps, and lets only one thread
consume at a time. Strings are sequences of characters, a guest prints any of the texts in
`Prints`, and a consumer's callback is called once per message of the split (`CallConsumer`),
with the texts that `Entries` gives, overlaps included. `batches` is a history: what the strings
were each time they were cleared, and what the consumer has been given of it.
`LoggerOK` assumes that no more is printed between two calls of consume_logs than an int can
index, where the split is that of `LogMessages`.

### WasiFs

Guests on several threads call fd_read and fd_close on the same two maps, and
nothing is locked. A call is therefore taken apart at each access to shared
state: `LookUp` (is there an `opened_file`?), `Fopen`, `AssignOpened`,
`ReturnOpened` (which reads the optional again), then one `Fread` per iovec;
`LookUp`, `Fclose`, `ResetOpened` for a close. Reading a `std::optional` that
another thread has meanwhile reset is undefined; the value it held last
is what an optional of a pointer yields, and `Unopened` keeps it. `fopen` may
fail, and its null pointer is stored as an opened file. A bad descriptor
(`Throw`) and a null FILE (`UseNullFile`) end the process.

A `FILE*` is a place in `files`. `fclose` frees it, and a later `Fopen` returns any place
that is not open, a new one or one that was freed (`Unused`), while another thread
may still hold the pointer: that thread then reads, or closes, whatever is open
there. A closed FILE that nobody has reused ends the process when it is used, or makes
`fread` or `fclose` fail without a word (`UseClosedFile`). One
descriptor that is closed in use therefore puts the files of all others at
risk. `raced` is the history of such descriptors, `shared` that of all that two
threads used at once, `opens` counts the opens (a bound, since places are reused), and
`stream` is what was read by each descriptor.

The program adds mappings only while no guest is in a call: the maps would
otherwise be resized under a reader. A mapping of a path that has one replaces
it, and a FILE that the old descriptor had open stays open for good; a guest that
kept the old descriptor ends in `Throw`.

## The runs

| run | bounds | shows |
| --- | --- | --- |
| `pool` | 2 threads, 2 systems, pool of 2, 2 loads, every kind of binary, systems entered at an index of up to 2 (it reaches 4) | `OfferedSystemsRun`, `FreshInstance`, `SharedOnlyAfterFullRound`, `RegistersOnlyCompletePool`, refinement of `SystemHost` |
| `calls` | 2 threads, 2 instances, 4 contexts, call memory of 6 pointers, debug build | `CallMemOnlyInCalls`, `MemoryBeforeContext`, `GivenHandlesWork`, `OverrunNeedsFullCallMem`, `RuntimeCallsStayInExecution` |
| `table` | 2 threads, 2 instances, release build | `RuntimeCallsStayInExecution` with stale handles, refinement of `ContextTable` |
| `minst` | 10 binaries of up to 2 imports and 4 exports, 2 lists, pool of 2, 2 loads | `ReleasedOnce`, `NothingLeaked`, `StoreOutlivesItsParts`, `BorrowedStayValid`, `SystemsUseOwnInstance`, refinement of `SystemImpl` |
| `logger` | 2 threads, one printing a line and one a piece of it, 4 calls, 2 iovecs | `NothingLost`, `DeliveredOnce`, `DeliveredInOrder`, `SomeCallGoesOn`, `EveryCallReturns`, refinement of `LogQueue` |
| `lines` | strings up to 14 characters, ints up to 6 | `RestIsLogged`, `MessagesBeginLines`, `SplitIsMessages`, `SplittingEnds` |
| `files` | 2 threads, 2 virtual and 2 real files (2 bytes and none), 2 descriptors, 2 fopens, 2 iovecs | `LatestGrantStands`, `ReadsOwnFile`, `StaleFileNeedsRacedClose`, `StreamInOrder`, `OpenFilesAreFound` |

Why the bounds suffice: a pool of two wraps within a run, is shared by two threads once
a thread was replaced (a third index is drawn), and can fail at its first or its last
instance; two loads are enough for an instance, a registration or an error message that
outlives its load, in either order of success and failure; two threads are enough for a
lost update, a shared instance, a handle that comes from another thread and a FILE that
one closes under the other; a call memory of six pointers takes the root and two
navigations and is exhausted by the third; four calls of the logger give a callback that
prints while another thread prints and a third call consumes, and strings of several
newlines, whose messages overlap; strings of fourteen characters have positions that a
narrowed int makes negative, or npos; two descriptors are two files or one file mapped
again, and two fopens one file opened again at the FILE* of the first, or by two threads
at once; the binaries of `minst` are a sound one and nine that each have one thing
wrong, in each place where create or load looks, so that every error is met at the first
or the second instance, with an earlier pool or without. What the theorems cover does
not depend on them.

`MaxLoads` and `MaxIndex` bound the counters of `SystemImpl` (in `BeginLoad` and
`Enter`: both threads may draw once more after the last entry), `MaxLoads` those of
`Minst`, `MaxCalls` and `MaxIov` those of `Logger`, `MaxLen` the string of `LogLines`,
`MaxFd`, `MaxFiles` and `MaxIov` those of `WasiFs` (in `AllowFileReadAccess`, `Fopen`
and `Begin`). `pool` takes threads as symmetric, and `files` threads and virtual paths:
no definition tells one from another, and they check no liveness. The logger's program
and the split loop come to an end, and their runs do not check for deadlock; that they
end where they should is `EveryCallReturns` and `SplittingEnds`. All other runs check
deadlock.

The definitions whose comments begin "As if" are variants of the code with one
mistake in it; each property is violated by one of them.

### Where the code and the repository's own words part

Each of these runs checks one property and fails:

- `export`: the assertion at `wasm.cc:94`. Load {Move, Grow}, then {Move}; Grow is
  still registered.
- `trap`: the trap handler of `test/example/example.cc:124` is never called.
- `stream`: "indexed field values" (`wasm_ecsact_system_execution.cc:309`) are made
  from the enable flag.
- `null_file`: "if set the file is open" (`wasi_fs.cc:13`). A failed `fopen` is stored: the
  descriptor counts as open, with a null FILE, and the next fd_read does not try again.
- `log_lines`: messages that should be "proper log lines" (`logger.hh:36`) overlap. Of
  a letter, two newlines and a letter, the second message is the second newline with the
  letter behind it, and the third message is that letter again.

The models show some more that no run asks about. `ecsact_system_execution_context_has` has no
result in `env.hh:79` and writes one (`wasm_ecsact_system_execution.cc:178`,
`OverrunResults`). Instances are handed out round
robin and not returned, so that two threads may run one instance although
the changelog announces concurrency support (`CHANGELOG.md:52`): how far apart
their tickets are then is `SharedOnlyAfterFullRound`. `last_error_message` is
not cleared by a load that succeeds (`FinishLoad` in `SystemImpl`). A start function
that prints meets no call memory (`no_call_mem` in `ExecutionContext`). The first
character of what is consumed is never logged (`Starts` in `LogMessages`). A string of more than
INT_MAX characters is cut short, or makes consume_logs throw (`LogLines`). Without the
hypothesis `raced = {}`, `ReadsOwnFile` fails in sixteen states: a thread is about to
read a descriptor, another closes it and opens the other descriptor, at the same FILE*, and the
first reads the other's file.

## Fairness

`Logger` assumes weak fairness of each thread's `Step`: the operating system runs
threads that can run, and callbacks return. It does not assume that calls are
made. A thread waiting for the mutex is not guaranteed it by weak fairness
as long as others keep taking it; `EveryCallReturns` holds because the number
of calls is finite (`MaxCalls`), which is also all that the code gives: a
`std::recursive_mutex` is not fair. `LogLines` assumes that the loop runs. The
other specifications state safety only and assume nothing.

## The proofs

`SystemImplProofs` holds for all threads, systems, binaries, pool sizes and bounds,
from `ConstantsOK`. The inductive invariant `Inv` is `TypeOK`, `LoadCounted`,
`PoolInv` (what is in the pool has the latest load's number and exports exactly
the systems of its list; what is offered is complete and exported) and `CallInv`
(a thread is busy only in an execution, and once it has an instance, that is
in the pool). `OfferedSystemsRun` is not inductive: it needs to know that an
offered system has a non-empty pool behind it. `FreshInstance` follows from
`CallInv`, `PoolImplementsHost` maps each action to one of `SystemHost` or a
stutter. `SharingTakesARound` needs `TicketInv`: no two threads hold the same
ticket, a bound thread is bound to the slot of its ticket, and what a thread
has cached is older than a pool under construction; the arithmetic is in
`SameSlot`.

`ExecutionContextProofs` holds for all context graphs, sizes of the call memory and
both builds, from `ContextsOK`. Its invariant is per thread: outside of calls
there is nothing, in `_initialize` the memory and nothing else, and in a system
memories and contexts alternate, the contexts being exactly those given in this
call, at odd offsets. Every handle an instance ever got is odd, whichever call
it comes from; that is why a stale handle, in a build that reads it unchecked,
still finds a context with its memory before it or nothing at all
(`HandleResolves`, `StaleHandle`), and why the runtime never gets a context of
another execution. `CallMemImplementsTable` follows.

`OverrunNeedsFullCallMem` is an argument by counting: in a system the cells at odd
offsets are contexts, each given once, and those at even offsets memories, so that
a call memory with no room for a pair has as many contexts as half its cells
(`Halves`, `CountOdd`, `GivenCount`).

`MinstProofs` holds for all binaries, lists, pool sizes and loads, from `ConstantsOK`.
None of the properties of `Minst` is inductive: that a destructor may delete a store
depends on what every other place owns. The invariant says, for each point of
load, which of the four parts each minst has (`self` whole after `Instantiate`,
`inst` whole until `EmplaceMinst`, the others empty), that all parts of one minst
are of one call of create, that no two places have the same, and that the objects
that exist are exactly the owned ones and the ones that nobody deletes. The properties
follow one by one.

`MinstLoadProofs` shows that `Minst` implements the loads of `SystemImpl`
(`MinstImplementsLoad`). There, an instance is made in one step or fails with an error
that depends on an outline of the binary; here, what is wrong with it is found out step by
step, so that the invariant gets a further part, `Examined`: by the time create or load
is at a step, the module has compiled, its imports are resolved, and the export list of the
instance is that of the binary. All steps are hidden but `BeginLoad`, `Reset`,
`EmplaceMinst`, `FinishLoad` and the failures, which map to the step of `SystemImpl`
that has their code and message. The code looks an export up by name in that list
and an outline says what it would find: that both mean the first one of the name is
`FirstExists` (from the well-foundedness of the naturals), `FirstUnique` and
`FoundIsNamed`.

`LogMessagesProofs` is about strings alone: that `find` finds the next newline rests on the
well-foundedness of the naturals (`LeastExists`), a message lies within its string
(`MessageInString`), messages begin at different places, in order (`MessagesOrdered`), and
every character but the first is a newline or in one of them (`MessagesCover`).

`LogLinesProofs` shows that the loop makes those messages (`SplitCorrect`), for every
string that an int can index and for ints of any width: up to `idx` the messages that
begin there have been found (`Splitting`), since a position that is not beyond INT_MAX
is not changed by the narrowing (`Narrowing`). The other properties are then facts about
`Messages`. Of strings that an int cannot index only `TypeCorrect` speaks: that `idx`
stays an int and messages lie within the string. `LoopMovesOn` is the variant of the
loop: each iteration leaves fewer.

`LoggerProofs` holds for any number of threads, calls and iovecs, any texts, and
callbacks nested to any depth, from `LoggerOK`. Its invariant has two halves. `Control`:
a thread has locked the mutex once for each of its calls that is past its lock, so that
only one thread is ever past one (`Mutex`), all calls but the innermost wait in a
callback (`Stacks`), and between reading the strings and writing them nobody changes
them (`Copies`), which is where the mutex is needed: what was split is what is cleared.
`Data`: what a consumer has been given of its batch and what it is yet to get are the
messages of the strings it cleared (`OwnBatches`), a batch that no call holds is
complete (`Accounted`), and one that was taken by an outermost call finds all earlier
ones complete (`Ordered`), since no other call can hold any at the same time.
`DeliveredOnce` and `DeliveredInOrder` follow. `SomeCallGoesOn` follows from `Mutex`:
who owns the mutex is in a call, and may lock it again.

For `LoggerImplementsQueue`, what the calls of a thread hold grows and shrinks at its
end (`ConsumersAre`, from `Stacks`). `StoreString` prints (`StoreIsPrint`) and
`ClearStrings` takes (`ClearIsTake`) because the copies that they work on are current,
and nobody else holds messages at that point, since the mutex has one owner. All other
steps are hidden, or are `Deliver` and `Finish`.

`WasiFsProofs` holds for any number of threads, paths, descriptors, opens and iovecs and
files of any size, from `FilesOK` and `NoCallOK`. `GrantInv`, `FilesInv` and `UsersInv`
hold whatever threads do to each other: descriptors are numbered upwards, a FILE is of
the file that the descriptor it was opened for stands for, and threads on one descriptor
are known to share it. `AloneInv` and `FoundInv` speak of descriptors that nobody
shares: where the one thread on it is determines whether the descriptor has a FILE.
`HoldsInv` and `LeadsInv` are what reuse makes necessary, and hold until a descriptor is
closed in use: the FILE that a thread is about to use, and the one that a descriptor
leads to, are open and were opened for that descriptor, and stand where the descriptor
has read up to. None of `ReadsOwnFile`, `StaleFileNeedsRacedClose`, `StreamInOrder` and
`OpenFilesAreFound` is inductive without them: a FILE* alone does not say whose file is
behind it.

Only model-checked: the two liveness properties, `EveryCallReturns` and `SplittingEnds`,
which need fairness and ENABLED, out of the reach of TLAPS. What is safety in them is
proved: that the threads never all wait (`SomeCallGoesOn`), and that the loop gets
closer to its end each time (`LoopMovesOn`).

## Not modelled

Of `wasi.cc`, fd_seek, fd_fdstat_get, proc_exit and the environment calls, which
change no state of the host: they write constants, or what a descriptor was given
out with, to the guest's memory, which is not modelled. Of `wasi_fs.cc`, `real_path`
and `fdstat`, which only read. `globals.cc` is one pointer, used by one thread;
the constructors in `util.hh` and the casts into guest memory have no state.
Component data and ids pass through unchanged. A load during an execution, or two
loads at a time, is outside of the contract and not modelled: nothing in `wasm.cc`
is locked against it. A callback of `consume_logs` that waits for another thread
is not modelled: it would wait for ever if that thread prints. In `Minst` a system's
export has the system's name, and the imports are bound by name and type only: what
they do is in the other modules.

## Plan

1. A composition of `SystemImpl` and `ExecutionContext`, in which a trap, a thread's
   pooled instance and its call memory meet.
2. fd_seek and fd_fdstat_get in `WasiFs`, once positions matter to a property.
