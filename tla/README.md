# A verification development for shl

shl is a C++ library of containers, strings, streams, threads, processes and
asynchronous I/O for Linux and Windows that avoids the C++ standard library.
This directory holds TLA+ modules that model it, TLC configurations that check
them on small instances, and TLAPS proofs for all instances. Paths below are
relative to `src/shl/` in the repository unless they say otherwise.

    tlc -config thread.cfg MCThread      # one run
    tlapm ThreadProofs.tla               # one proof module

PROJECT.json lists the runs, the lines behind every definition, a variant of
the code that each property catches, the places where documentation and code
disagree, and the hazards.

## 1. Inventory

| component | state it keeps | operations | hard behaviour | what makes it correct |
|---|---|---|---|---|
| threads (`thread.*`, `impl/linux/thread.*`, `futex`, `asm/`) | `thread` struct; a `thread_stack_head` inside each stack with state, function, result and futex word; mapped stacks | create (fresh, reuse, larger stack), destroy, start, stop, state queries, result | creator, new thread and waiters interleave; futex wakeups; timeouts; stacks unmapped while in use; mmap failures | user code keeps its stack; a stop answers truthfully and returns; the header's state diagram |
| async commands (`async_io.*`, `impl/linux/io_uring*`) | thread-local context: submission ring, entries, tasks, submit queue, completion ring | read, write, readv, writev, timeout, submit, process, await | completions in any order; partial submits; slot reuse; counters that wrap; interrupted waits | each command is carried out once, its result handed over once; an await returns |
| async commands on Windows (`impl/windows/async_context.*`) | commands, events, submit queue | issue, submit, process, await | a submit that stops half-way, operations that fail, events that stay signalled | the same |
| hash table (`hash_table.hpp`, `hash.*`) | entry array with hash, key, value; size | init, add, remove by key or hash, search, `[]`, expand, clear, free | probe chains, tombstones, rehash | it is a map; probes end; the load stays bounded |
| chunk array (`chunk_array.hpp`) | chunks with used flags, list of chunks with room, size | add, remove, at, clear, free, iteration | handles that must stay valid; three redundant counts | elements stay put; counts and list agree |
| array (`array.hpp`) | data, size, reserved size | add, insert, remove, reserve, resize, shrink, clear, free | growth, shrinking to nothing, allocation failure | contents as of a sequence; size ≤ reserved |
| linked list (`linked_list.hpp`) | first, last, size, nodes | add, insert, ranges, remove, resize, clear | splicing, the ends, the empty list | both chains agree with size |
| set, binary search (`set.hpp`, `sort.hpp`) | sorted array | insert, remove, search, contains | the empty set, the ends | sorted without duplicates; search finds |
| strings (`string.*`, `environment.*`) | data, size, reserved size, a Nul behind the last unit | init, set, copy, append, prepend, trim, case, substring, join, replace, replace all, resolve variables; searches, comparisons, split | growth that must leave room for the Nul, moves within the buffer, loops that change what they scan, a failing allocator | the text is what the header says; the Nul is there; the searches agree |
| encodings (`string_encoding.*`) | none | decode, encode, convert, count units, slice by code points | range ends, surrogates, truncated and malformed input, no room | every path between the encodings gives the same; decoders accept encodings only |
| numbers in text (`string.cpp`) | none | string to integer and to decimal | signs, bases, prefixes, limits, exponents | what is read is the longest numeral, its value or the end of the type |
| memory and file streams (`memory_stream.*`, `file_stream.*`, `streams.*`, `io.*`) | position, size, cached size, handle | open, seek, read, write, blocks, whole files, handles and pipes | ends, partial elements, failing calls, files and pipes that change meanwhile | a tape with a head; what is returned was read |
| ring buffer (`ring_buffer.*`) | mappings of one memory object next to each other | init, resize, free | retries after failed mappings | every index repeats; a resize keeps the content |
| exit functions (`exit.*`) | array of functions | register, unregister, run at exit | functions that register and unregister while they are called | called once each, in order |
| arena (`allocator_arena.*`) | bump pointer and end | alloc, realloc, free | alignment, running out, the last block | blocks apart |
| processes, pipes (`process.*`, `pipe.*`) | path, arguments, what of them is owned, handles, pid | create, set, start, stop, destroy; pipe init and free | fork and exec; descriptors duplicated in order; ownership flags | the child has the handles and arguments that were set |
| formatting and printing (`format.*`, `print.*`) | the position in the output; a ring of temporary texts, its offset | to_string, format, tformat, clean-up at exit | room that ends anywhere, placeholders cut off, growth in steps, a ring that comes around | what there is room for is the beginning of the text; a temporary text stays until the ring comes around |
| scratch buffer, default allocator, program context | a block; a record of defaults | | none | |
| fixed arrays; bits, endianness, random numbers, hashes; errors, assertions; system interface; compile-time helpers | – | – | – | – |

How they interact: containers and streams take their memory from the allocator
in the context that `get_context_pointer` returns; a new thread copies its
creator's context into an arena at the end of its stack. `async_io` registers
its clean-up with the exit functions, which keep themselves in an `array`. A
string is cast to an `array` to grow. Hash table, set and chunk array keep their
memory in `array`. `tformat` writes into a ring buffer that an exit function frees. A process is connected by pipes; files, handles and pipes are
read in full into strings and memory streams.

## 2. Modules

| module | models |
|---|---|
| `ThreadLifecycle` | what `thread.hpp` promises: its state diagram, with argument and result |
| `Thread`, `MCThread`, `ThreadProofs` | one thread object on Linux; implements `ThreadLifecycle` |
| `AsyncCommands` | what `async_io.hpp` promises of commands |
| `IoUring`, `AsyncProofs` | the io_uring context and the kernel; implements `AsyncCommands` |
| `Overlapped` | the context on Windows and its overlapped operations; implements `AsyncCommands` |
| `MCAsync`, `AsyncProofs` | one of the two |
| `Bits`, `NumberProofs` | the rounding to powers of two, by which everything that reserves room grows; lemmas about it |
| `MultiMap`, `UniqueElements` | what `hash_table.hpp` and `set.hpp` promise |
| `HashTable`, `SlotProofs` | the table; implements `MultiMap` |
| `SortedSet`, `ContainersProofs` | the set over `Array`; implements `UniqueElements` |
| `HandlePool` | what `chunk_array.hpp` promises |
| `ChunkArray`, `SlotProofs` | the chunk array; implements `HandlePool` |
| `ItemSequence` | what `array.hpp` and `linked_list.hpp` promise |
| `Array`, `LinkedList`, `ContainersProofs` | the array and the block behind it; the list, node by node; both implement `ItemSequence` |
| `MCContainers`, `SlotProofs` | one of hash table, set, chunk array, list and array |
| `Text` | what `string.hpp` promises of the functions that change a string |
| `TextSearch` | searches, comparisons, slices, split and join, as functions |
| `Strings`, `StringProofs` | the string over `Array`, with `TextSearch`; implements `Text` |
| `Encodings`, `Numbers` | the encodings; numbers read from text; as functions |
| `Format` | `to_string` and `format`, as functions from values and the room there is to what is written |
| `TemporaryFormat`, `SystemProofs` | `tformat`, its ring and its clean-up |
| `MCText` | a string, or temporary texts, or a text made up for the searches, the encodings, the numbers or the formats |
| `Tape` | what `memory_stream.hpp` and `file_stream.hpp` promise alike |
| `MemoryStream`, `FileStream` | the two streams; both implement `Tape` |
| `EntireReads`, `StreamProofs` | whole files, handles and pipes read step by step, over `FileStream` |
| `CyclicBuffer`, `RingBuffer`, `SystemProofs` | what `ring_buffer.hpp` promises; the mappings; the latter implements the former |
| `ExitFunctions` | the exit functions and the loop that calls them |
| `Arena` | the arena |
| `Process`, `CommandLine` | start info, pipes, fork, descriptors, exec; arguments from one string |
| `MCSystem`, `SystemProofs` | one of memory stream, file stream, entire read, ring, exit functions, arena, process and command line |

### Thread

`obj` is the `thread` struct, `head` the contents of a `thread_stack_head` at
each place one can be, `mapped` the pages of each address range that are mapped,
`kt` where each kernel thread is in `_clone_entry`, `call` where each caller of
`thread_stop` is. A stack of `s` pages has its head in page `s - Storage`: the
storage lies above it and the frames of the thread below.

`thread_create` is three actions, one per way through it: `CreateFresh`,
`CreateReuse`, `CreateLarger`; the last unmaps the old stack first and keeps the
dangling pointer when the new mapping fails, as the code does. `ThreadStart`
leaves the state READY; only `Enter`, a step of the new thread, sets RUNNING.
`_clone_entry` is cut where other threads can see a difference: `Enter`,
`UserReturns`, `Publish`, `Wake`, `Exit`. `thread_stop` is cut at its reads:
`StopBegin`, `StopWait`, then a wakeup, a timeout or nothing, then `StopCheck`.
The futex word is never written, so `futex_wait` always sleeps.

Address ranges are never split: a range unmapped in part is not handed out
again, which leaves out reuse of a leaked remainder. The owner is one thread.
Its calls are guarded by what the code asserts and by nothing else: destroy and
start by "not running", create by nothing; only that nobody is inside
`thread_stop` of an object that is created again or destroyed is left to it. So
it may create, start or destroy between `clone3` and the first store of the new
thread, when the object still reports READY, and create over a running thread.
`careful` is a history variable that says whether it has done neither: whether
each call was one the header's diagram allows in the state that is reported, with
no started thread before its first store. `UserCodeKeepsItsStack`, `StopTruth` and
`FollowsDiagram` speak of careful owners, by name, and fail of others.
A reader of the object faults when the head is unmapped (`UseDangling`), a thread
when its stack is unmapped or shared (`Faults`). The futex word of a stack that
was unmapped is not modelled beyond that.

### IoUring

The owning thread issues, submits, processes and awaits; a command's kind and
buffers only fill the entry, so a command is a number, the order of its call.
`KernelTakes` takes entries in ring order; `Complete` finishes any operation in
flight. `inflight` records which taking of a job it is, so that a job carried
out twice would show. `Submit` marks what it queued as RUNNING whatever number
the kernel took. `AwaitPoll`/`AwaitWake`/`AwaitInterrupted` are one round of the
loop of `io_uring_task_await`.

### Overlapped

A command's `OVERLAPPED` and manual-reset event are `overlapped[i]` and membership
in `events`. Submitting is a step per command (`WinSubmitStarts`, `WinSubmitFails`,
`WinSubmitSkips`), since it stops at the first that is refused; `submit.queue` keeps
its entries then, as in the code, and only the count says how many are meant. A wait
names the first event (`Signalled`). The entries are those of one wait, as
`ASYNC_ENTRIES` and `MAXIMUM_WAIT_OBJECTS` are both 64: with more, the index in
`_process_open_commands` would lack the batch it counts from. Assertions are those
of a build with `NDEBUG`; `WinCommand` is called with an entry free, as they demand.

### HashTable, SortedSet

The entry array is a function from 0..n-1. A probe is a closed form of
`_advance_table_it`; `LeftAt` gives the slot a loop over it is left at, or none
when it is never left: `hung` then records a call that does not return. `Rehash`
puts the live entries in slot order into the new array, as `expand_table`
does. Adding through the pointer that `add_element_by_key` returns is one step
with the add.

The set's memory is `Array`'s, its operations are compositions of the array's.
`BinarySearch` gives the index and the comparison the loop ends with, both of
which `insert_element` uses. `free` clears the compare function, and the next
`insert_element` initialises the set anew: what was reserved in between is lost.

### ChunkArray

Chunks, the list of chunks with room, and the size. `remove_element` is modelled
for an index in use, since the code relies on the caller for that. Values of new
slots are `Unset`. What an allocator that failed returned is used without a look at
it, by `add_chunk` and where a chunk goes on the list: `chunkFault`, which ends
the behaviour.

### Array, LinkedList

`arr` holds what the struct holds, with `cells` the contents of the block that
`data` points to; `data` is "freed" when the pointer outlives its block. The
allocator is `default_alloc`: it may fail, and it frees a block it is asked to
make empty, which `shrink_to_fit` takes for a failure. A store through a pointer
without memory sets `arrayFault` and ends the behaviour. `Opened` and `Removed`
are the two `memmove`s; growth doubles as `ceil_exp2` does, at exactly the
reserved size as well, one element before it is needed.

`nodes` maps the address of each allocated node to its two links and its value;
freed nodes leave it, so a node that is lost stays behind and shows. `Splice` is
the loop both `add_elements` and `insert_elements` run, `NthNode` walks from the
nearer end. The list's allocator does not fail: the code relies on that.
A removal at a negative position, which `remove_from_end` of an empty list asks for,
reads through null: it sets `listCrashed` and ends the behaviour. `ListIsSequence`
names it as the one call that may do so (`RemovesBelowZero`); the header says that it
does nothing.

Both record the latest call with its arguments, so that the abstract
`ItemSequence` says what that very call had to do. Ranges taken from the
container itself are not modelled: `add_range(&a, &a)` reads the old block.

### Strings

The three widths of unit share the templates of `string.cpp`, so one definition
stands for the template and its three overloads, and a unit is a member of a
small set. A string is `Array`'s block with its Nul: `WithRoom` is
`string_reserve` (which asks for one more than the size and rounds up to a power
of two), `Calls` is the shape most operations have: make room, change, and, when
the room was refused, store through what there is, which ends the behaviour
(`arrayFault`). One thing is not the same for the three widths: recasing a c16 or c32
string decodes and encodes the bytes at each code point as UTF-8. `Recasable` holds
the code points for which that changes the code point and nothing else, all of them
for c8, ASCII for the others; recasing a string of others ends the behaviour here,
`UpperBytes` in `Encodings` says byte by byte what it makes of them, and
`EveryPathAgrees` for which texts that is their upper case and the Nul stays. `replace_all` and `resolve_environment_variables` change the
string once per round of their loops, so each round is a step (`scan` is where
it stands); the abstract `Text` sees the change when the call is over.

`TextSearch`, `Encodings` and `Numbers` hold functions: what each call returns,
for any sequence of units. `IsBlank` goes by code points, which may take several units
(`BlankPoints`), where trimming looks at units. `Encodings` keeps the units as numbers, decodes a
point with the four units behind it, as the code reads them, and has both the
plain and the safe variants. `Numbers` keeps a digit as its value; what lies
behind the end of the string is read where the code reads it.

### Format, TemporaryFormat

A buffer in `Format` is what was written, the room there is, whether it makes room
(a string) and whether something was written past it. `WriteText`, `WriteInteger`
and `WritePointer` are what `to_string` does for each kind of value, its padding
behind the value included (`Finished`); `Formatted` folds the arguments over the
format as the recursion of `_format` does, with `LiteralRound` one round of the
loops over what is not a placeholder. Integers up to the width of s64 are written
alike, so a value has its width only where an int is taken for unsigned. The room
of a string is a power of two, as `string_reserve` makes it.

`TemporaryFormat` keeps, for each cell of the ring, which text's unit or Nul it
holds, and the texts the program may still read (`recent`): those since whose
beginning no more has been written than the ring holds. What `format` writes is a
number of units here, since `Format` says what they are. Freeing at exit and
formatting again afterwards are steps, as exit functions may format.

### Streams

`mem` and `fs` are the two structs with the bytes behind them; the file itself
is the variable `file`, which other programs change too (`FileChanged`). Every
call is one action with the position it goes to first, the bytes it moves and
what it returns recorded in `memCall` or `fileCall`; `Tape` reads that record.
Calls of the system, opening, asking for the size and closing among them, may fail
where `IoMayFail` says so, and end early, inside an element. `EntireReads` composes with `FileStream`: asking for the size, polling,
seeking, reading and seeking back are steps, and other programs add to, take from
and truncate the file or pipe between them.

### RingBuffer

Addresses are numbers and hold, or do not hold, a page of a memory object. init
is cut at its system calls: `RingBegin` (the object, which may fail), `RingReserve` (addresses
next to each other), `RingMap` or `RingMapFails` for each window, `RingEnd`.
Reservations that a retry leaves behind stay reserved, as in the code. A store
through any window changes the object, and so all windows.

### ExitFunctions, Arena, Process

The exit loop is cut at each call (`CallNext`, `Returns`), and between the two the
called function may register and unregister. The loop's pointer belongs to one
block; when the array has moved, the loop is lost.

`Arena` keeps addresses from the start of the arena's block, and gives a block
the address and size the code gives it, also where the test for room lets it
reach over the end.

`Process` has the descriptors of the program and a copy of them in the child,
and places the three handles one after the other with the tests the code makes;
`Start` may fail to fork. `StartsAsSetUp` speaks of the handles that can be moved one
by one (`Movable`), and says of an output handle of 2 what the code does and the
header does not: descriptor 2 stays what it was (`HandleFor`, `Wanted`).
`info` records whether path and arguments are owned, borrowed or absent next to
the flags that decide about freeing them.

## 3. Runs

| run | expects | shows |
|---|---|---|
| `thread` | pass | `UserCodeKeepsItsStack`, `StopTruth`, `FollowsDiagram`, `TimedStopReturns` |
| `thread_lost_wakeup` | violation | `StopReturns`: "Waits until the thread is stopped" fails when the wakeup comes between the look at the state and the sleep |
| `thread_live_stack` | violation | `NoFault`: destroying a thread that reports STOPPED may unmap the stack it still runs on |
| `async` | pass | io_uring, if slots are freed in ring order, and Windows: `ResultsFindTheirCommands`, `CommandsOnce`, `AwaitsReturn` |
| `io_uring_skipped` | violation | `RunningIsWithKernel`: with a busy slot at the tail, "submits all unsubmitted commands" fails |
| `hash_table_tombstones` | violation | `EveryCallReturns`: tombstones use up the unused slots and "returns nullptr" fails |
| `containers` | pass | hash table: `LoadBound`, `EntriesReachable`, `ProbeCoversTable`, `BehavesAsMultiMap`; set: `SetIsSearched`, `SetKeepsMembers`; chunk array: `CountsAgree`, `NonfullExact`, `GrowsOnlyWhenFull`, `ElementsStayPut`; list: `ChainsAgree`, `ListIsSequence`; array: `ReservedIsBlock`, `ArrayIsSequence` |
| `text` | pass | `StringIsText`, `Terminated`, `SearchesAgree`; `EveryPathAgrees`, `DecodersAreExact`; `NumbersAreRead`; `FormatsFit`, `TemporariesStay` |
| `slices` | violation | `ReadingEnds`: strings "are often used as slices", and reading a decimal number at the end of a slice that a digit follows never ends |
| `environment` | violation | `ResolvesByName`: "Any variable not found is replaced by an empty string" fails for a name that differs from another in its last unit |
| `system` | pass | `StreamsAreTapes`, `EntireIsRead`, `RingIsCyclic`, `ExitsAreCalled`, `BlocksApart`, `StartsAsSetUp`, `ArgumentsAreSplit` |
| `process` | violation | `StartsWithItsHandles`: "Starts the process with the parameters set" fails with the handles `process_create` sets |

A run that holds several components lets each behaviour choose one of them at its
start: the others stay as they were, so the state space is the sum and not the
product.

Bounds, and why they are enough:

- `thread`: two address ranges (an old and a new stack), stacks of up to 3 pages
  with sizes 0 (default or keep), 1 (too small for the storage) and 3 (larger
  than the default of 2), two starts (a restart that meets a leftover of the
  first thread), one caller, with and without a timeout. Callers do not meet but at the
wakeup, which is for all of them; the theorems are for any number.
- `async`: four slots, so that completions overtake each other in a submit
  and across submits; seven commands, more than slots, so that slots are reused;
  counters modulo 8, which wrap. `MaxCommands` bounds the behaviour. On Windows three
  entries and five commands: one refused between two others, with the queue left behind it
  used again, and an event before and behind the one that is awaited.
- `containers`: chunks of two slots, up to three chunks and two values: chunks
  in every state of filling next to each other. Four nodes: a splice of two
  between two, and every walk from either end. A block of up to four cells:
  growth from nothing, twice over, and shrinking from any size. One value beside
  the unset one tells positions apart.
  The real hash table starts at 32 entries; `MinTableSize = 2` lets
  three entries force two expansions. Three keys, two of which collide only
  after their hash is lifted past the reserved values. Values are symmetric:
  nothing depends on their identity. Four values and up to four of them in the
  set: searches that go left and right and end at either end, for every set.
- `text`: a string of up to two units in a block of four: growth from nothing and
  from every size, moves to either side, replacements that grow, shrink, keep and
  contain the needle. Searches over made-up texts of up to five units of three kinds
  with needles of up to two: overlapping, repeated and missing occurrences, from
  every offset. Alphabets of two units at a time (two cases of a letter, a
  letter and a blank, a letter or an escape and the dollar): no operation tells
  more than two kinds apart, so what three would show two show. Code points at
  both ends of every range of every encoding, two in a row; up to four bytes or
  three halves made of units that begin, continue and spoil an encoding; numbers
  of up to four units with both signs, a point, an exponent, prefixes and the
  limits of s8 and u8. `MantissaDigits = 3` and `MaxExponent = 9` stand for 18 and
  511, so that both limits are crossed. Formats of up to four units of eight kinds with
  at most two digits, given none, one or two arguments, in rooms of 0 to 8 and in
  strings: every field of a placeholder, cut off at every point, and every way for
  the room to end. `NarrowBits = 4` and `FormatIncrement = 4` stand for 32 each.
  Temporary texts of up to six units in a ring of five: texts that wrap in every
  unit, fill the ring and do not fit it. An interior Nul is not enumerated.
- `system`: streams and files of up to three bytes of two kinds, symmetric, with
  elements of one to three bytes: elements that fit, are cut and do not fit.
  Nine addresses for rings of up to two pages mapped twice, with a resize that
  holds two of them. Three tries stand for ten, with one failing mapping. Three
  exit functions and two changes while they are called: the array moves within
  the loop. An arena of twelve bytes aligned to four with blocks of 1, 3, 4 and 6:
  padding, exact fit and overrun. Six descriptors and ten triples of handles,
  which meet each other, the numbers 0 to 2 and closed ones. Command lines of up to
  six of the four kinds of unit.

`CHECK_DEADLOCK FALSE` where the system may stop: at a bound, after a fault,
after a call that never returns or reads what is not there.

Fairness. `Thread!FairSpec` gives weak fairness to every kernel thread (the
scheduler runs it) and every caller inside `thread_stop` (a timeout expires);
nothing to the owner, which may stop making calls. `IoUring!RingFair` gives it to
the kernel's completion of what it has taken and to the thread inside an await;
commands that never complete by themselves (a read of a silent pipe) are outside
`AwaitReturns`. A signal may interrupt an await at any time. `Overlapped!WinFair` is
the same for Windows. The other modules
state safety only: their calls run to their end in the caller's thread.

## 4. Where documentation and code disagree

Seven statements of the headers fail, each with a run: those above for threads (two),
the ring of commands, the hash table, slices, environment variables and processes. For
the ring, the passing run `async` fixes the usage under which the rest holds
(`InOrder = TRUE`: a command is issued only when the slot at the tail is free);
`io_uring_skipped` drops that. For the hash table the passing properties speak of
behaviours whose calls return.

Other disagreements that were met while modelling. The models follow the code;
the passing properties are worded for what holds, and the exception is named
where the property is:

- `windows/async_context.cpp:330`: the event of an operation that failed stays
  signalled, and every wait names it again: a process does not end, and an await of a
  later entry does not return (the exception in `WinAwaitReturns`). After a refused
  command a submit forgets as many commands as it had handled; they stay SETUP.
- `set.hpp:437`: a search of an empty set gives index -1 and comparison 0, so
  `contains` says true. `linked_list.hpp:572`: `remove_from_end` of an empty list
  removes at -1 and reads through null, where "does nothing" is said
  (`linked_list.hpp:80`; the exception in `ListIsSequence`).
- `thread.cpp:234`, `:335`, `:387`: a thread that was started reports READY until its
  first store. `thread.hpp` allows destroy, start and create in that state; each of them
  then takes the stack from under the new thread (the exception is `careful`).
- `string.cpp:1457`, `:1464`, `:1532`, `:1539`: `utf_to_upper` and `utf_to_lower` of c16
  and c32 strings treat bytes as UTF-8. U+0161 becomes U+0141, and in a u16string a last
  U+00E9 has the Nul behind it written over ("Converts the entire string s to upper
  case"; the exception is `Recasable`, and `RecaseAgrees` says where the result is right).
- `string_is_blank` (`string.cpp:410`) decodes code points, `string_trim` (`:1334`,
  `:1369`) looks at single units: U+00A0 in UTF-8 is blank and is not trimmed
  (`BlankIsTrimmed`).
- `resolve_environment_variables` puts no Nul behind a string that grew (`scan.long`
  in `Terminated`), and `string_reserve` of an empty string puts none at all.
- `utf_substring` leaves out the last code point of a slice that ends where the
  string does; `PathsAgree` speaks of slices that end before.
- Numbers: for u64 the largest value is -1 and every number overflows. An empty
  string with `next == nullptr` is written through.
- "These functions will only write up to ssize characters" (`format.hpp`): the
  second unit of an escape is written without a look at the room (`EscapeAtEdge`).
  A string makes room for `offset % 32` more units than there are, which is none when
  that is 0: a unit there and the Nul behind it rely on the room being a power of
  two, which that of a string made from a literal need not be.
- Each digit of a precision counts the ones before it eleven times: `%.12` is 13.
  `%#x` of 0 has its prefix in a string and none in a buffer. A u64 beyond the
  largest s64 is written negative, as both branches of
  `_integer_to_c_string_conv` use s64. Text of another encoding gets the room of its
  units before conversion, and its Nul may lie past the block.
- The buffer of `tformat` is shared by all threads, and a `to_string` that formats a
  temporary text itself writes over the one it is part of.
- `utf16_decode_string_safe` does not look at the room left for its last unit.
- `exit.cpp`: a function that registers another while it is called may move the
  array away under the loop, one that unregisters makes the loop skip a function.
  `ExitsAreCalled` allows for both; `AllExitsAreCalled` does not, and fails.
- `allocator_arena.cpp:39` compares what is left with 0: a block may end behind the
  arena. `free` hands back what is left and not what was allocated.
- `ring_buffer.cpp`: after ten tries init returns true without mappings; each retry
  leaves its reservation; `free` leaves the size, so a resize to that size does
  nothing.
- `read_entire_file` keeps the size asked for first when the file has shrunk;
  `read_entire_io` into a memory stream never corrects it, and takes the size of
  the whole file though it reads from the position. A pipe that was emptied
  between the poll and the read makes the read wait.
- `memory_stream`: a seek is not clamped at 0, `init` does not look at its
  allocation, and `write_block` of the nth block is refused or cut by another
  rule than `write_block` at the position.
- `process.cpp`: an output handle of 0 or an error handle of 0 or 1 is overwritten
  before it is duplicated (`Movable` in `StartsAsSetUp`); with an output handle of 2
  the error handle is never set, as line 629 tests the wrong one (`Wanted`); "Does nothing to the
  process if it's already running" is not tested anywhere; the descriptors of a
  pipe stay open in the child; setting a list of arguments twice leaks the
  first copies; the c16 and c32 lists lack the place for the closing null.
- A command line drops empty quoted arguments, and a path without a slash leaves
  no first argument (`SplitsAs` says so).

## 5. Proofs

Each theorem holds for every value of the constants that the named assumption of its
module admits.

`ThreadProofs`, for every set of regions, callers, arguments and sizes that
`ThreadAssumption` admits: `TypeCorrect`, `StackSafety` (`UserCodeKeepsItsStack`)
and `StopTellsTruth` (`StopTruth`). The owner may make every call that the code lets
pass, so the inductive invariant `Always` has two parts: `Base` holds whatever the
owner does, and `DInv` as long as it is careful (`careful`).

- `Base`: types, `LiveOnHeads` (a live thread runs on a possible head) and
  `CallersHold` (inside `thread_stop` the object is readable).
- `IInv` in `DInv`: `OnItsStack`, which is `UserCodeKeepsItsStack`, is not inductive alone:
  after a thread has passed `Publish` the owner may recycle the object, and nothing
  in it says that no other thread is still in user code. `NotYetStopped` (while a thread
  has not published, its head is not STOPPED) and `NeverStarted` (a readable object
  with no thread has a READY head) do.
- `RunsWhileInUser` in `DInv`: the head of a thread in user code is RUNNING.

`NobodyInUserCode`: a careful call that recycles the object finds it not running and no
started thread before its first store, so no thread is before its return, from
which each recycling step preserves the stack. A careful `thread_start` finds the
object READY. `CarefulBefore` has that nobody becomes careful again, so `DInv` is there
when it is needed. `StopTellsTruth` follows from `IInv` on both sides of a step:
`StoppedMeansOver` says that a STOPPED head belongs to a started thread past its user
function.

`DiagramIsFollowed` (`FollowsDiagram`) is the refinement of `ThreadLifecycle`.
`IInv` does not say enough of a thread on its way out: `RunsWhileInUser` makes `Publish` the diagram's step to STOPPED, `ResultIsKept` (the head holds
the result) makes the result it shows the right one. `OnlyOneInUser` carries both over
the steps of other threads. A stack that goes, for whatever reason, is the diagram's
destroy (`StackGoes`); a `thread_create` that reuses, replaces or loses a stack is its
create, its destroy or nothing (`CreateRefines`).

`AsyncProofs`, for every ring, width of its counters and number of commands, and
whether or not the kernel stops half-way through a submit: `RingTypes`,
`CompletionsFindTasks` and `LinuxImplementsCommands`, the refinement of
`AsyncCommands`. The ring's counters wrap, so `WrappedSlot`, `SlotsApart`, `TailMoves`
and `HeadMoves` first say what a position modulo the width means as a slot. `RingInv`
says of an open context that what lies between head and tail are commands the kernel
has not seen, each in its own slot (`RingHoldsUntaken`), that the local queue is
exactly what waits for a submit (`QueueIsSetUp`), that no command is in two slots
(`SlotsHaveTheirJobs`), and that what flies and what has completed are different
operations that were taken (`OperationsAreApart`, `OperationsAreTaken`). All three
assume `InOrder`, callers that free their slots in the order of the ring: without it
they are false, and the run `io_uring_skipped` shows an entry that is carried out
twice. A context that was destroyed is not used again.

It does the same for the overlapped commands of Windows: `WinTypes`,
`EventsFindCommands`, `WindowsImplementsCommands`. The events are in the order of
submission and the entries are not, so `WinInv` relates them both ways
(`EventFindsItsCommand`, `EntriesHaveTheirCommands`), and `EventsHaveEnded` says that a
signalled event is that of an operation that is over; `StagesAreKnown` then reads a
command's stage off its entry. `ContextsKeepTypes`, `ResultsFindCommands` and
`CommandsAreOnce` state what the run `async` checks of both contexts side by side.

`SlotProofs`, of the chunk array, for every chunk size and any number of chunks:
`ChunkTypeCorrect`, `CountsAlwaysAgree`, `NonfullAlwaysExact` and `GrowthIsNeeded`.
The invariants hold together or not at all: a free slot exists in the first
listed chunk because the list is exact, and the list stays exact because the
count is. `PoolSound` states them over arbitrary chunks, since `add_element` first
adds a chunk and then takes a slot in it; there is one lemma per operation.
`ElementsAlwaysStayPut` (`ElementsStayPut`) is the refinement of `HandlePool`, from
the same invariant and the bound on chunks: one lemma per call maps it to one step of
the pool. `NewChunkHoldsNone` and `SlotTaken` are the two halves of an `add_element`
that needs a chunk.

Of the hash table, for every least size, factor and hash: `TableKeepsTypes`,
`LoadStaysBounded` (`LoadBound`), `ChainsStayWhole` (`EntriesReachable`), `ProbesCover`
(`ProbeCoversTable`), `ExpansionIsEnough` and `TableImplementsMap`
(`BehavesAsMultiMap`).

- Probes: two probes less than the size n apart that meet would make n divide a
  product of which one factor is odd and the other less than 2n (`ProbesDiffer`, by
  `OddFactorOut`); n different probes in n slots visit each one (`ProbeVisitsAll`).
- `Chained` is the inductive form of `EntriesReachable`: from the first probe of an
  entry to its own there is no slot that was never used. `remove` keeps it because it
  leaves a mark, `add` because it takes the first slot without an entry.
- A search ends because a slot that was never used or that is marked is on its way:
  `Factor < 100` keeps one entry's room (`FindsRoom`).
- Rehash copies slot by slot; what it does for every table is not by induction but by
  the least slot at which the copy would go wrong (`RehashKeeps`, over
  `LeastExists`). `ExpansionIsEnough` is what makes it a loop at all: the adds of an
  expansion cannot expand again.
- `Counts`, how often each pair of key and value is live, is the map the table
  implements. `remove` takes one of the pairs with its key; a miss means there is none
  (`MissMeansNone`), which is `Chained` again.

The assumptions are that the least size is a power of two and that
`MinTableSize * Factor >= 100`, a new table holds an entry: the code has 32 and 75
(`MIN_TABLE_SIZE`, `TABLE_SIZE_FACTOR`).

`ContainersProofs`, for every array of any values: `ArrayKeepsBlock` (`ArrayTypeOK`,
`ReservedIsBlock`) and `ArrayImplementsSequence` (`ArrayIsSequence`), the refinement of
`ItemSequence`. `ArrayInv` says that the block is as long as `reserved_size` and that
its first `size` places hold values; what a call leaves in the rest of the block is
arbitrary, and the refinement is that no call lets it be seen. `Spliced` and `CutOut`
give the sequence that the moves of `insert_elements` and `remove_elements` leave;
index faults and refused calls are steps that change nothing.

For the set on top of it, `SearchesAreExact` (`SearchIsExact`) and
`SetImplementsMembers` (`SetHoldsMembers`), the refinement of `UniqueElements`. They
assume `ArrayValues \subseteq Int`, that `compare` is a total order. The binary search
is a recursive function; that its answers exist (`AnswersExist`) and are right
(`SearchFinds`) is shown by the least distance of bounds at which they would not
be. `SetInv` is `ArrayInv`, that the elements ascend, that elements have memory, and
that a set without compare function is empty: `insert_element` relies on the last when
it initialises such a set anew. `PutIn` and `TakenOut` keep the order, and each action
is one step of `UniqueElements` or none.

For the linked list `ChainsAlwaysAgree` (`ChainsAgree`) and `ListImplementsSequence`
(`ListIsSequence`). The two chains being each other's reverse does not say which node
is where, so `Lined` names the line `c`: the address at each position and null outside,
every node once, each linked to the positions next to its own. A walk along `next` or
`previous` then is a step in `c` (`NextIs`, `PreviousIs`), `get_node` finds the
position it is asked for from either end (`NthIs`), and each operation is shown by the
line it leaves: `SplicePuts` has the new addresses in between, `RemoveTakes` closes the
gap, where a number of elements larger than what is left makes no difference. A removal
at a negative position is the exception of the theorem (`RemovesBelowZero`). That the
allocator's addresses are free and different is `FreshIs`.

Of the run `containers`, also in `SlotProofs`: `EachContainerRuns` takes a behaviour of
the run apart into one of each container, so that what is proved of each holds there;
`ContainersKeepTypes` (`ContainersTypeOK`) follows. The run's set is an instance of
`SortedSet` over an array of its own: `RunSearchesExactly` (`SetIsSearched`) and
`RunKeepsMembers` (`SetKeepsMembers`) are the theorems about the set in that instance,
whose assumptions `RunAssumption` discharges.

`StringProofs`: `StringsAreTerminated` (`Terminated`), for every bound, set of units and
texts, case mapping and environment. `IsString` says what every call must leave: room
for a Nul behind the last unit and held units in all cells; `StringInv` adds that the Nul
is there (`EndsInNul`) and what `scan` may hold between two rounds of a loop
(`ScanIs`). The Nul is not preserved cell by cell: a call moves units over it and ends the
string afterwards, so `PutIs`, `ShiftedIs`, `RoomIs` and `SizedIs` say what each of the
steps does to the cells, and there is a lemma for each call that it ends with `Ended` or
carries the Nul along. `string_join` writes through a pointer to the units it has sized
before (`JoinedTwo`). A resolved value longer than its reference is where it fails:
`string_resolve_environment_variables` then shifts the rest of the string
without its Nul, which is `scan.long` in the model. The other way to lose it, recasing
c16 and c32 strings beyond ASCII, ends the behaviour before: `MadeOf(Now, Recasable)`
is the guard of `StringRecase`, and `Recasable` is a constant.

`StringsTellText` is the refinement of `Text`, with the environment as the code looks
variables up; `StringsAreTextByName` (`StringIsText`) is the same by name, as long as no
text that is resolved refers to a name that a variable shares all but the last unit of
(`ReferencesAreExact`): such a name finds that variable, as the run `environment` shows; the texts of the run
`text` refer to none.
A call in one step is `Told` by what it leaves of the units (`UnitsOf`). A loop shows
nothing until it ends, so `LoopInv` says at every round what the string is then: what is
before some place of the text it began with is rewritten as `Text` has it, and all behind
that place is as it was (`IsRound`), so the next round may read it there. A round passes
over the units in between (`KeepsOn`), then puts one value in place of what it found
(`PutsOn`). `Text` says what the whole becomes by a function that calls itself
(`EveryFrom`, `ResolvedFrom`): `ChainExists` has that there is one, by the least number
of units for which there is none, and a round uses its equation at one place only. The
units that `string_replace_all` puts are searched again in the next round; nothing is
found that reaches into them, as they have none in common with the needle (`AreApart`).

`SystemProofs`: `BlocksAlwaysApart` (`BlocksApart`) for every size, alignment and set of
block sizes of an arena. Apartness alone is not inductive: taking the last block back
moves the pointer by its size, which keeps the others below it only because they are
apart from it and not empty. `ArenaInv` adds the types, that no block is empty and that
there are none without an arena; `CutKeeps` is the step that both a new block and a
block that moves take.

`AlwaysStartsAsSetUp` (`StartsAsSetUp`), for every set of descriptors that holds 0 to 2
and every choice of handles: that a started child has what it was given is not
inductive. `Progress` says at each stage which handles are where they belong and which
are still where they were, as long as they can be moved one by one; an output handle of
2 counts as the error handle, as the code has it (`Wanted`). `FlagsTellOwned` is
what keeps `free` to what is owned.

`ExitsAreAlwaysCalled` (`ExitsAreCalled`): as long as no exit function takes the
array from under the loop or out of it, those that were called are the first ones of
the list, and at the end all of it. `ExitInv` counts the one being called as `Reached`.

`TemporariesAlwaysStay` (`TemporariesStay`), for every size of tformat's buffer: `TemporaryInv`
adds that each text the program may still read lies as far behind the offset as was
formatted since (`OffsetFollows`), so that a new text of so many units ends before it
in the ring (`WritesElsewhere`, by the remainders of `NumberProofs`), and that names
are different. There is always a name left (`NameIsFree`): the texts are apart and
each has a Nul, so there are no more of them than cells.

`RingImplementsCycle` (`RingIsCyclic`), for every address space, size and number of
windows: `RingInv` names the object that holds the buffer. It is mapped over and over
by the addresses of the buffer and by no others, an init that runs keeps to another
object and to addresses nothing else maps, and every other object is blank and mapped
nowhere. The theorem assumes `MapFailures < RetryCount`: an init in which as many
windows fail as it has tries returns a buffer that is not mapped, as `ring_buffer.cpp`
has it, and the runs stay below that, too.

`StreamProofs`: `EntireAlwaysRead` (`EntireIsRead`), for files and pipes of any length:
`EntireInv` says what holds between two system calls. Until the read (`Prepared`) the room is untouched and
what was there when the size was asked for is still in front of what others added,
unless one of them took some away; from then on (`ReadOut`) the result does not
change. `FilledIs` is the step from room to result: the NUL is behind it whether the
size is corrected or not.

`StreamsImplementTapes` (`StreamsAreTapes`), for streams, files, blocks and transfers of
every size: both refine `Tape`. `MemInv` keeps the position inside the stream, which is
what makes every transfer end at its end: `FittingIs` has how many whole elements fit,
`PatchIs` that a write replaces exactly those bytes. A file needs no such bound:
`BeyondIs` has what a read past its end takes, `FilledUptoIs` what a write there fills.
A behaviour of the entire reads is one of their file, too (`EntireNextSteps`), other
programs included; there `EntireInv` says that a position put back is one.

`NumberProofs` has what the others use of numbers: a set of naturals has a least
element (`LeastExists`), which stands where an induction would; remainders; powers of
two, which `CeilExp2` reaches and each of which is twice another.

Only model-checked:

- liveness (`TimedStopReturns`, `AwaitsReturn`), which is beyond the prover;
- what encodings, numbers, formats, searches and command lines compute
  (`SearchesAgree`, `EveryPathAgrees`, `DecodersAreExact`, `NumbersAreRead`,
  `FormatsFit`, `ArgumentsAreSplit`): stated over bounded inputs, as
  their folds are induction over data.


## 6. Not modelled

- Windows variants of threads, files, pipes and processes.
- Thread storage contents, `thread_sleep` and the getters; the payload of
  commands; failed set-up of the ring of commands beyond its having no effect.
- Key and value destructors of hash table and containers; removing a chunk-array
  index twice (the code does not detect it); aliased ranges, linear searches; a
  set made larger by `resize`.
- Strings: resolving into a buffer of fixed size, the end of resolving when a name
  cannot be converted, aliases of variables (none on Linux), setting a variable.
- The wchar_t overloads of encodings; floating point in numbers.
- Streams: polling for writing, hashes of their content, printing to them.
- A process's ids, and signals other than that of `process_stop`.
- Formatting: floating point, text of another encoding and text without memory, the
  case of letters, values of the program's own types; printing, which passes the
  temporary text on to `io_write`.
- Scratch buffer, fixed arrays, default allocator, context, random numbers, bits,
  endianness, errors and assertions, compile-time helpers, the thin system-call
  wrappers: one expression or call each.

## 7. Plan

1. Interleaved use: the arena as allocator of the containers on a thread's stack,
   the exit functions of `async_io`.
