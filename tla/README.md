# counterRop in TLA+

counterRop is a library (`libaddr.so`) that is preloaded into a program.
Before `main` runs it disassembles everything that direct calls and jumps
reach from `main`, remembers the address ranges it has seen, and replaces the
first byte of each indirect call and jump by `0xCC`.  When the program runs
into such a byte, the `SIGTRAP` handler puts the original byte back, reads the
target of the transfer and disassembles what that reaches, in the same way.

This directory holds the specifications of that machinery, the TLC runs that
check them on small instances, and TLAPS proofs for all instances.
Paths below are relative to the repository's root.

## The system

| Component | State | Operations | What makes it correct |
|---|---|---|---|
| `data/boundTree` | binary search tree of the disassembled ranges | `boundTree_new`, `boundTree_insert`, `boundFind`, `direct_boundTree_insert`, `boundTree_delete` | search order; nothing stored is lost; the bound returned is exact; searches end |
| `data/list` | doubly linked queue without duplicates | `list_new`, `list_find`, `list_insert`, `list_pop`, `list_delete` | first in, first out; no duplicates; head and tail agree |
| `data/hashtable` | address -> original first byte, chained buckets | `hashtable_new`, `_find`, `_insert`, `_delete`, `JenkinsHash` | a key keeps its first value; no key hides another; a search beside an insertion sees whole entries |
| static analysis, `elf/libaddr.cc` | the globals `data`, `lowerVal`, `boundVal`, `upperVal`, three lists, the table, `ud_obj` | `wrapped_main`, `printDis` | nothing found is forgotten; nothing runs uninspected; it ends |
| trap handler, `data/trap/trap.c` | `trapFlag`, `regFlag`, and all of the above | `setup_analyzer`, `trapSetup`, `trap_handler` | the original bytes are recorded and put back; sites stay armed until resolved |
| `get_address`, `get_register` | `regFlag` | target of an indirect transfer, from its operand and the registers | agrees with the processor |
| `shutdown`, interposed `exit`s | lists and table | put all first bytes back (its calls are commented out) | as long as the program runs, and when it has returned from `main`, it would give it back |
| `find_address`, `callback` | `offset`, `run` | look up `main` in the symbol tables | finds the function the program runs |
| libelfin (`elf/elf.cc`, `elf++.hh`, `data.hh`, `common.hh`, `mmap_loader.cc`) | the headers, none after loading | reads headers, sections, strings and symbols | reads what a linker writes; reads beside a file only in known cases |
| startup, `print_proc_maps` | `og_main` | replaces `main` by `wrapped_main` | - |
| udis86, the processor, the kernel | external | decoding, execution, delivery of `SIGTRAP` | - |

How they interact: `wrapped_main` and `trap_handler` run the same work loop
(`list_pop`, `boundFind`, `printDis`) on the same globals, the one before the
program starts and the other from a signal that may come at each trapped
instruction.  `printDis` hands `data`, the metadata of `boundFind`, to
`direct_boundTree_insert` at its end; in between it fills the list that the
loop pops from.  The tree, the list and the table are used by nobody else.

The behaviours that are hard to test: what a scan does that runs into code
that was already disassembled, and into planted traps; the order of writing a
trap and recording its byte, which a second thread may come between; an
insertion that another thread's search meets half-way; targets inside the range that is being scanned;
traps that are not ours, or that are in code the handler itself uses; calls
that fail half-way (`mprotect`); the window of 100 bytes; operands whose offset
has a sign; files that are cut off; the termination of
a loop that feeds itself.  `PROJECT.json` lists each at its line, with the
properties that are about it.

## The modules

| Module | Models | Extends |
|---|---|---|
| `BoundTree` | `boundTree.c`: the tree, one turn of a search, the end of a search, the attaching of a node | - |
| `BoundTreeApi`, `MCBoundTreeApi` | a client that calls the five operations in every order the header allows | `BoundTree` |
| `ListSpec`, `Queue` | `list.c` as the sequence of its addresses: operators, and a state machine of the calls | - |
| `List`, `MCList` | `list.c` with its nodes and pointers, one step per loop iteration; implements `Queue` | - |
| `HashSpec`, `FirstByteMap` | `hashtable.c` as a map that keeps first values: operators, and a state machine in which each call of each thread takes effect in one step | - |
| `HashTable`, `MCHashTable` | `hashtable.c` with its chains and entries, one access per step; implements `FirstByteMap` | - |
| `JenkinsHash` | `jhash.c` on numbers of a given width | - |
| `Worklist` | what the analysis promises of the addresses it finds, as a state machine without list, tree and scans | - |
| `Analyzer`, `MCAnalyzer` | `libaddr.cc` and `trap.c`, and the program that is analyzed; implements `Worklist` | `BoundTree`, `ListSpec`, `HashSpec` |
| `TrapThreads`, `MCTrapThreads` | `trap_handler` and the planting of traps in several threads, one access per step | `HashSpec` |
| `EffectiveAddress`, `MCEffectiveAddress` | `get_address`, `get_register`, and what the processor does with the same operand | - |
| `ElfReader` | libelfin, as far as the lookup of a symbol uses it: operators on a file | - |
| `LinkedFile` | external: what a linker writes, the file that `ElfReader` is given | `ElfReader` |
| `FindAddress`, `MCFindAddress` | `callback` and `find_address`, step by step | `LinkedFile` |
| `BoundTreeProofs`, `BoundTreeApiProofs`, `ListProofs`, `HashTableProofs`, `AnalyzerProofs`, `TrapThreadsProofs`, `EffectiveAddressProofs`, `FindAddressProofs` | theorems | the module they are about (`AnalyzerProofs` and `BoundTreeApiProofs`: `BoundTreeProofs` too) |

### BoundTree

A node is named by its position, the sequence of turns that leads to it, so
that `tree` is a function from positions to ranges; a child pointer is NULL
when the position is not in the domain.  Overwriting a child pointer
(`Attach`) drops everything that hung there, as in C.  `walk` holds the locals
of a search and one loop iteration is one action (`TurnLeft`, `TurnRight`),
because the two loops of the file are the same up to the computation of
`bound`.  `data` is the metadata, a vacant position and a bound.  The addresses
are natural numbers: `intptr_t` does not overflow at the addresses of a
process.  `NO_BOUND` (999 in the code) is a constant.

`BoundTreeApi` adds `pc`, the call that is running.  `direct_boundTree_insert`
is only called with the metadata of the `boundFind` before it and with its
key, as `libaddr.cc` does; another order would overwrite children.

### List

A node is a block of memory (`Cell`); `free` leaves its content as it is and
`malloc` may return any block that is not in use, so that a pointer to a freed
node leads to whatever is there now.  `list_find`, with which `list_insert`
begins, and `list_delete` take one step per iteration.  `cells` is a history
variable, the nodes in the order of insertion; the refinement mapping
`contents` reads the addresses of these nodes.  `ImplementsQueue` says that each
call returns what the `Queue` returns, the 0 that `list_pop` answers for an
empty list and for the address 0 included.  A client does not
call the list between `list_delete` and `list_new`; `wrapped_main` keeps to that,
except for a trap after `main` has returned, which is not modelled.

### Analyzer

| Code | Specification |
|---|---|
| `wrapped_main` up to the loop | `FindMain` |
| the loops of `wrapped_main` and `trap_handler` | `PopAddress`, `FindTurn`, `FindNull`, `FindVacancy`, `WorkDone` |
| `printDis`, one iteration | `ScanExhausted`, `ScanPastBound`, or `Inspect` with `ScanRet`, `ScanPlain`, `ScanCall`, `ScanJump`, `ScanIndirect` |
| `trapSetup`, then `hashtable_insert` | `ScanIndirect`, then `RecordStartByte`: two steps, as the trap is in the code before its byte is in the table |
| the end of `printDis` | `InsertRange` |
| `trap_handler` up to its loop | `TrapAtSite`, `TrapElsewhere`, `TrapFails` |
| the kernel kills a process that traps with `SIGTRAP` blocked | `HandlerHitsTrap` |
| `og_main` runs, and returns | `UserStep`, `Crash`, `MainReturns` |

What is abstracted:

- A byte of code is `orig`, `cc` or `zero`; `zero` is what `hashtable_find`
  answers for an unknown key, and what the handler then writes.
- An instruction has a kind, a length and a target.  What is decoded where
  the bytes are intact is a parameter (`prog.insn`), also from the middle of
  an instruction; with its first byte replaced it is an `int3` or an `ADD`, and
  with a later byte replaced it is any of `Garbled`.
- `get_address` gives the target the processor is about to take, except at the
  sites `prog.misread`, where it gives any address or reads where it faults.
- `inspected` and `resolved` are history variables; no action reads them.

- `shutdown` is an operator on the state, not an action, as nothing calls it.

`ImplementsWorklist` forgets how the work is done.  `Activity` is whether the
analysis, the program or nobody runs; `Done` are the addresses in disassembled
ranges; `ToDo` are those that wait in the list, in a search or in a scan, without
the 0 that `list_pop` answers when it is empty; `DirectTargets` is where the
transfers lead that were inspected.  `Worklist` then says that a target is either
done or to be done from the moment it is found, that what is done stays
done, and that the program does not run before nothing is left.  A target inside
the range that is about to be inserted is listed by a `Discover`, is done with that
range, and waits on until the loop pops it and finds it done.

`Followed` describes the programs of which the analyzer sees everything, and `Fits` those
in which every scan meets a `ret` or `jmp` within its window.  `InSight` is
both, with `NO_BOUND` no less than the window, and the hypothesis of `ExecutedInspected`; `MCAnalyzer` has a family of programs that are followed
(`ProgramsAreFollowed`), takes those that fit (`ClosedPrograms`), and runs them with the others.

What is left out of it: several threads (`TrapThreads`); what runs after `main` returned
(the code frees `address_list` there and leaves the traps in place; the state
`ended` is final); traps in library code that the program shares with the
handler outside the handler itself.

### HashTable

One thread inserts, as only the analysis does, and all may search.  Nothing is
locked, so each read of a chain is a step, and an entry is filled (`FillEntry`)
before it is linked into its slot (`PublishEntry`): the library is built without
optimisation (`Makefile`) for x86-64, where stores are seen in their order.  The
code tests a slot before it reads it again; between the two a slot can only get
filled, so one read (`ReadSlot`) stands for both.  `hashtable_delete` runs alone.
A freed block may be handed out again; what an unused block holds is put to one
value, since `ChainsLinked` says that nobody reads it.

`ImplementsMap` maps the chains to the map of `FirstByteMap` (`contents`).  An
insertion takes effect at `PublishEntry`; a search takes effect when it reads its
slot, for an entry that is published later does not lie in the chain it
follows: `promised` is the answer as of that moment, and the search must end with it.

`MCHashTable` evaluates `JenkinsHash` for its keys.  The table hashes the eight
bytes of an address as a C string, so that addresses at the start of a page or
of any 256 bytes all have the empty string and share slot 0, where the run puts two of
its three keys.

### TrapThreads

A step is one access to what the threads share: `trapFlag`, the table, or a byte of
code.  `trapFlag += 1` is a load and a store.  The two branches of the
handler do the same (`busy` tells them apart), except that only the second analyzes.
`list` is the `address_list` that all analyses share, each address in it named
by the site its scan comes to.  `Decode` puts any set of sites into it, all that the target
leads to; `Inspect` is one turn of the work loop, which takes a site from the list.  A site
is planted as `ReadStartByte`, `Plant`, then `hashtable_insert` as `FindKey`, or `Fill` and `Publish`.  All sites are in one slot, and `Publish`
writes the chain that `Fill` saw, so that two threads that insert lose an entry.
`Execute` is the program at a site whose byte is not `0xCC`; it
goes to any site.  `torn` and `overlapped` are history variables.

The list and `ud_obj` have no lock either.  Two threads that pop at once free a node
twice; a pop beside an insertion may leave a node that is its own successor; a scan may go on
at the place of the other.  `broken` is set when a thread comes to this part of the handler while
another is there.  From then on an analysis may come to any site, planted or not,
be done at any time, stay in `list_find` for good (`Hang`), or end the process (`Stop`).  That is
more than any one build can do, and the properties are stated accordingly.  What a block that was
freed twice does to the entries of the table is left out.

The properties say how far the code gets without a lock.  `Recoverable`: as
long as no two threads analyze at once, no original byte is lost for good, although the handler of
another thread may meanwhile write 0 (`BytesRestored` below).  `FlagCounts`:
as long as no update is lost, `trapFlag` is the number of handlers between their
raising and lowering it.  `HandlersReturn`: every handler gets to its end unless two
analyses ran at once; a thread in the busy branch, an update of the flag that was lost or
a trap of another thread on the same site keeps none from it.  That the work loop
ends rests on the tree, which lets each address be scanned once, and is the business of `Analyzer` (`AnalysisEnds`);
`MaxPlants` stands for it here.

### EffectiveAddress

`trap_handler` from the decoding of the operand to `callAddress`, trap after trap,
so that a `regFlag` that one trap leaves behind reaches the next.  `Operand` is
what udis86 makes of an instruction, external: the size of the operand is
that of the data, the displacement is in the low bytes of a cleared `lval`, the
scale 1 is given as 0, and an address-size prefix gives 32-bit registers.
`Effective` is the address the processor uses.  `Span[w]` is how many values `w`
bits have; the run scales 64, 32 and 8 bits to 5, 3 and 2.  `Analyzer` takes from here
that there are sites for which the handler computes another target (`misread`), and that reading
it may fault.

Two registers stand for sixteen: `RAX`, of which `get_register` knows the 32-bit
part (and returns all of it), and `RCX`, of which it does not (and returns -1).

### ElfReader, LinkedFile and FindAddress

A file is given by its length and by what lies at its offsets: functions from the
offset to a program header, section header, symbol or character.  Any such offset holds
something; the run puts one blank record where its files have none.  All numbers are as the
processor loads them; `canon_hdr` swaps each by the width of its field when the
byte order is not `Native`, as the sum of its `Swapped` bytes.  Bytes are scaled, with their relations kept: a link
is a word in the file and a half-word in memory, and `loads` adds modulo the
width of a long.  Sizes of structs are in units of the offsets.  The size of a table of headers
is a product of two half-words that is computed as an `int` and sign-extended to a long
(`elf.cc:97` and `105`, for which the repository's `elf.o` has `imul` and `movslq`): `TableSize`.

`LinkedFile` says what a file is that a linker writes (`AsLinked`), without the
reader's operators for its numbers.  `file.tables` are the symbol tables it means, and
`file.layout` is where it puts them, in plain numbers; no action reads these
fields.  A number of `w` bytes is written when each of its bytes stands at its
place in the order of the file (`Holds`).  The headers and the tables lie inside
the file, the sizes of the two tables of headers fit in an `int` (a table of 2 GiB is refused by
`load`, although the file is whole), entries may be larger than their structs, and names end inside their
strings.  Of the files of the run this holds of those that are not damaged, and of no other.

`FindAddress` has one action per check, table, section and symbol.  A failure
ends it: `aborted` is an exception, which nobody catches, `killed` is the null
pointer of an invalid section, `exited` is the `exit(2)`, and `stray` is a read
outside of what was loaded, after which nothing is said.  `FoundIsLast` and
`FindsGlobal` speak of the symbols that were meant, and `TablesRead` says that
of a file as a linker writes it these are the ones that are read.

## The runs

| Run | Instance | Shows |
|---|---|---|
| `boundtree_api` | 5 addresses, calls start on trees of at most 3 ranges: 84,615 states | all properties of the tree |
| `boundtree_clip` | 3 addresses | a violation, see below |
| `list` | 3 nodes, 3 addresses with 0 among them: 329,760 states | the list implements the queue and manages its memory |
| `analyzer` | 6 bytes of code, window of 4; programs with everything in them, and programs the analyzer can follow and whose scans fit: 223,076 states | safety of the traps, that the analysis implements the abstract work list, how a program gets out of sight, that every instruction of a program in sight is inspected before it runs, that `shutdown` would restore a program that runs, and that the analysis ends |
| `analyzer_first_byte` | one site whose tail is a site too | a violation, see below |
| `find_address` | whole files in both classes and byte orders, stripped ones, damaged ones, one or more loaded objects: 49,660 states | the reader reads what the linker wrote, in both byte orders; the lookup finds the program's `main`; and how it fails |
| `find_address_loader` | the same | a violation, see below |
| `hashtable` | 2 threads, 3 keys in 2 slots, 3 blocks: 215,538 states | the table is the atomic map, and manages its memory |
| `effective_address` | every combination of base, index, scale, displacement and prefix, 3 register values: 57,079 states | the handler finds the processor's target |
| `effective_address_sign` | the same | a violation, see below |
| `trap_threads` | 2 threads, 2 sites, each planted twice at most: 664,754 states | what survives without a lock |
| `trap_restore` | the same | a violation, see below |

The bounds.  Three nodes are a first, a middle and a last one, each of which can be
freed and handed out again.  Four ranges are what it takes to see a left turn below a right
turn below a left turn, and a lost subtree; a further key adds no new relation
between a key, a range on the path and its neighbours.  Six bytes of code hold two
instructions before a site of two bytes and two after it, so that
a scan can run into the site from above, past it, from its middle, out of the
window before it, and targets can lie before, in, and after the range that is
being scanned.  `MaxStack` bounds the depth of calls (a deeper call is a crash,
which real programs can have too).  The window is shorter
than the code, so that the 100-byte limit matters: in `OpenPrograms` scans are cut,
in `ClosedPrograms` they end just in time, and without `Fits` TLC finds code that
runs uninspected.  `NO_BOUND` exceeds all
addresses, as 999 exceeds the 100 bytes of a scan.

Two keys in one slot and one in another are what it takes to see a search pass an
entry, meet the end of a chain that grows, and go to another slot.  A site that is planted
twice (`MaxPlants`) meets its own entry in the table; `MaxFlag` stops a thread from
trapping when lost updates have driven the flag past 1, which is then up for good.
The files have two symbol tables, with namesakes of `main` that are local,
undefined, or no functions; the damaged ones are whole files with one field
changed, or shortened by up to 28 units, which is all of a 32-bit file.  Half-words are scaled
to two bytes of nine values, so that the product of two of them may exceed an `int`: some whole
files have a table of headers just below that size and just beyond it, and some damaged ones claim
to have one that is beyond it.  Displacements take all values of their scaled width.

The properties that are worth reading first:

- `LeavesOnlyOutOfSight`: while the program runs, it leaves the disassembled
  ranges only through a list of transfers that the analyzer does not follow.  The
  list, `OutOfSight`, is the result: calls through a register, `loop` and
  `jrcxz`, further targets of a site that was resolved once, code past the
  window, and returns to such code.
- `ExecutedInspected`: in a program without those, no instruction runs that `printDis`
  has not inspected.
- `TrapsRecorded` and `PlantedBytesSurvive`: undoing a trap never fails.
- `SitesArmed`: an inspected indirect transfer never runs unseen.
- `ImplementsMap`: a search that runs beside an insertion answers as if each had
  been one step.
- `Recoverable`: the threads may write over each other's traps, but the original
  bytes stay in the table, until two of them analyze at once.
- `FindsGlobal`: the last match is the program's own `main`, because local
  symbols come before global ones and the dynamic table before the full one.
- `ImplementsWorklist`: what is found is disassembled before the program runs again,
  and stays so, whatever the scans run into.
- `WorklistComplete`: no target is dropped on the way between two scans, also
  when it lies in the range being scanned or the scan is cut by its bound.

Five runs show that the code does not do what the repository says of it.
`boundtree_clip`: `boundTree.h:38-39` promises that `boundTree_insert` cuts a range off
before the next one; it stores it as given.  `analyzer_first_byte`:
`boundFind` forgets the bound of a left turn at the next right turn
(`boundTree.c:107`), a later scan runs over a planted trap, decodes `0xCC` as an
`int3` of one byte, goes on in the middle of the instruction there, and can
plant a trap in it (`41 ff 14 24` is `call [r12]`, `ff 14 24` is `call [rsp]`).
The instruction then runs with a changed operand once its first byte is back.
`effective_address_sign`: `get_address` takes the displacement by the size of
the data (`trap.c:176`), 64 bits, so that a negative one of 8 or 32 bits, as
in `call [rbp-0x8]`, is a large positive one.  `find_address_loader`: `elf++.hh:133-135`
says that a loader that cannot satisfy the full request "for any reason" must throw; the sum of
`mmap_loader.cc:47` wraps around, and the product of `elf.cc:97` is negative as an `int`, so that a
request for a table far beyond the end of the file is granted.  `trap_restore`: between `trapSetup` and
`hashtable_insert` a trap is in the code but not in the table; a second thread that
runs into it writes the 0 that `hashtable_find` answers (`trap.c:87`), where
`trap.c:124` says that the original byte is put back.

Two more comments say other things than the code does, and have no run of their own: the refinements
follow the code, on which the callers rely.  `list.h:33-34` says that `list_find` "finds an element
within the list and returns the data if found"; it returns 1 (`list.c:35`), and `Queue` does.
`hashtable.h:22-23` says that `hashtable_find` "Returns the key if found.  else returns NULL"; it
returns the data byte, or 0 (`hashtable.c:47` and `51`), and `FirstByteMap` does.

Fairness.  The code is sequential and waits for nothing, so a search
(`BoundTreeApi`), a call of the list (`List`) and an analysis (`Analyzer`) that
have begun go on: weak fairness of their steps.  The same holds of the lookup
(`FindAddress`).  In `HashTable` and `TrapThreads` each thread has weak
fairness of the steps of its own call or handler: the kernel schedules every
thread, and none waits for another.  A thread that hangs in `list_find` takes no step
(`Hang` leads out of the handler's steps), and fairness does not get it out.  Nothing is assumed of the program, which may
loop or stop, nor of a client, which need not call.

## The proofs

All for every value of the constants that the named assumptions of the modules
allow (`NoBoundAssumption`, `ApiAssumption`, `ListAssumption`,
`HashTableAssumption`, `AnalyzerAssumption`, `TrapThreadsAssumption`,
`EffectiveAddressAssumption`, `ElfAssumption`, `FindAddressAssumption`; TLC
evaluates each on a run): any number of addresses, blocks of memory and threads,
any set of programs, operands or files.

| Theorem | Property |
|---|---|
| `BoundTreeApiProofs`: `TypeCorrect`, `SearchOrderKept`, `LeftBoundsExact`, `NothingIsLost`, `EntriesStayDistinct` | `TypeOK`, `SearchOrder`, `LeftBoundExact`, `NothingLost`, `EntriesDistinct` |
| `ListProofs`: `TypeCorrect`, `AlwaysLinked`, `NeverLeaks`, `ListIsQueue` | `TypeOK`, `Linked`, `NoLeak`, `ImplementsQueue` |
| `HashTableProofs`: `TypeCorrect`, `ChainsAlwaysLinked`, `NeverLeaks`, `TableIsMap` | `TypeOK`, `ChainsLinked`, `NoLeak`, `ImplementsMap` |
| `AnalyzerProofs`: `TypeCorrect`, `HandlerAlwaysAnalyzes` | `TypeOK`, `HandlerNeverBusy` |
| `TrapsAlwaysRecorded`, `PlantedBytesAlwaysSurvive`, `ShutdownAlwaysRestores`, `SitesAlwaysArmed` | `TrapsRecorded`, `PlantedBytesSurvive`, `ShutdownRestores`, `SitesArmed` |
| `EntriesAlwaysDistinct`, `WorklistAlwaysComplete`, `AnalysisIsWorklist` | `EntriesDistinct`, `WorklistComplete`, `ImplementsWorklist` |
| `LeavesOnlyAsListed`, `ExecutedAlwaysInspected` | `LeavesOnlyOutOfSight`, `ExecutedInspected` |
| `TrapThreadsProofs`: `TypeCorrect`, `FlagAlwaysCounts`, `AlwaysRecoverable` | `TypeOK`, `FlagCounts`, `Recoverable` |
| `EffectiveAddressProofs`: `TypeCorrect`, `TargetAlwaysExact` | `TypeOK`, `TargetExact` |
| `FindAddressProofs`: `TypeCorrect`, `StraysAlwaysListed` | `TypeOK`, `StraysAsListed` |
| `AnswerIsLast`, `AnswerIsGlobal` | `FoundIsLast`, `FindsGlobal` |
| `LinkedFilesAlwaysRead`, `TablesAlwaysRead` | `LinkedFilesRead`, `TablesRead` |
| `MainIsFound` | `FoundIsLast` and `FindsGlobal`, of a file as a linker writes it |

### The tree

`BoundTreeProofs` has the lemmas about trees.  `TreeInv` is the inductive part:
types, `Rooted`, `SearchOrder`, nonempty ranges, `EntriesDistinct`.  A search
keeps `WalkInv`: at each node of the path it turned the way the key lies.
Therefore the vacancy it ends at is `VacantFor` the key, and attaching there
keeps `TreeInv` and loses nothing (`AttachInv`, `AttachAdds`).  `SidesApart` and
`BoundExact` strengthen the walk for the bound: whatever does not hang below
the walk starts before the key or after everything that hangs there.
Since `SearchOrder` constrains lower ends only, it survives the overlaps that
uncut insertions and `upperVal = base` give.

### The list and the table

`ListProofs` has one inductive invariant, `ListInv`: the links in both directions
agree with `cells`; a search has passed only nodes with other addresses
(`Passed`), which is why an address that it does not find is not in the list; a
deletion has freed a suffix of the nodes and its tail is the last that is left
(`FreedAfter`).

`HashTableProofs` has `HashInv`.  `Phases`: only the inserter inserts and deletes, and
it deletes alone.  `Chained`: the links of each slot lead through its
`chain`, a history variable.  `EntryReady`: what is about to be published is
filled, belongs to no chain and points to the head of its slot.  The part that the
refinement needs is `Promise`: a search is at some `k`-th entry of its chain, and the
answer it promised when it read its slot is that of the entries from the `k`-th
on.  A publication moves every search of that slot from `k` to `k + 1`, and
changes no promise.  `DeleteAt` says that a deletion has freed the slots before
its own and the entries before its next.

### The analysis

`AnalyzerProofs` goes in layers, each an inductive invariant on top of the former.
`TypeInv` adds `Phase` to the types: the flag is 1 exactly while the handler
runs (or was running when the process stopped), `data` is metadata while a scan
runs, and a trap is recorded at an address of the code.  `TrapInv` adds that a
recorded byte is that of a planted site and that a `zero` byte was never
planted.  `RangeInv` is `TreeInv` and the walk along the phases, for
`EntriesDistinct`.  `ListInv` says that what was inspected is covered or waits,
where attaching a range must not uncover anything, for `WorklistComplete`.  The
refinement of `Worklist` takes each action to its step (`WorkRefines`); beside
`ListInv` it needs that the 0 of an empty list is never looked up (`NeverZero`).

`SightInv` is for `LeavesOnlyOutOfSight`, which no program escapes: what
follows an inspected instruction that goes on is covered, or at the end of some
window, or still ahead of the running scan (`NextKnown`); a scan stays in its window
(`InWindow`); and the target that the handler lets a site take was followed
(`PendingKnown`).

`ClosedInv` is for `ExecutedInspected`.  It has two hypotheses on the program, which are part
of the property (`InSight`), so that the theorem has none.
`Followed`: no transfer is of a kind that `printDis` ignores, and a
scan that goes on behind the first byte of a site meets the end of the site.
`Fits`: from each address where a scan may begin, a `ret` or `jmp` comes within the window, or the
code ends.  A program may be longer than the window; only a straight run may not,
and what happens to one that is, is `LeavesOnlyOutOfSight`.  The third hypothesis is that
`NO_BOUND` is no less than the window (999 and 100 in the code), so that a bound
that bounds nothing stops no scan.  The hypotheses stay what they are, as no step changes the
program (`SightedStep`).
The invariant says that scans begin at entries (`EntriesKnown`),
that bounds lie just before ranges or out of reach (`BoundKnown`), that a
scan is at a start, inside a site that it met as a trap, or past the code, and has inspected every
start it passed, none of them a `ret` or `jmp` (`ScanKnown`).  Hence the window cuts no
instruction off (`ScanSees`), a scan that exhausts it is past the code (`WindowReaches`), every
start in a range is inspected (`RangesKnown`), and what comes after an inspected
instruction is covered or ahead of the running scan (`ContinuesKnown`).  Therefore
the program is at handled addresses and returns to them (`RunKnown`).

### The threads

`FlagCounts` compares `trapFlag` with the cardinality of a set of threads
(`Raisers`), to which each step adds or takes one.  `ByteInv` is `BytesKept`
as long as no two analyses overlapped: one thread analyzes (`OneAnalyzes`), the table has
only original bytes (`TableOriginal`), whoever trapped did so on a recorded site,
or on one whose byte is on its way (`TrappedRecorded`), and what is being
inserted is an original byte for a site that has none (`AddsOriginal`).

### The operand

`TargetInv`: `regFlag` is up exactly between `get_address` and the
handler's reading of it, for a register operand, so that no trap
leaves it up for the next; and what was computed is `AddressExact`.  The sums of `get_address` wrap at 64
bits, those of the processor too, and a displacement that is not negative is
itself in both readings (`SignedPositive`).  That a register operand names a
general register is an assumption on the instructions, as the encoding of x86 has it.

### The lookup

`FindInv` is for `StraysAsListed`: a running loop is a whole number of symbols
into a table that was loaded (`InTable`), hence it strays only when the table is not a whole
number of symbols, or when an offset and a size wrapped around on loading.  A table of headers
whose size is an `int` is loaded in that size (`IntSize`), and strays only when the sum wraps
or its entries are smaller than the structs (`TableStrays`).
`AnswerInv` adds that the answer is the address of the last of the `Found` places,
those the loops have passed that hold a function of the name (`LastFound`).
`AnswerIsLast` and `AnswerIsGlobal` state the properties under hypotheses on the file, inside
the box: that its tables are read as they were meant (`TablesAsMeant`), and that they
are in the order of linkers (`LinkerOrder`, which `MCFindAddress` checks of the files
of its run).

`ReadInv` takes the first hypothesis away.  A number is determined by its bytes, so that
what the processor loads, or `canon_hdr` swaps, is the number that was written
(`ReadsNumber`), for all widths, both byte orders and any size of a byte.  Hence the
header, each section header and each symbol are read as they were meant (`ReadsHeader`,
`ReadsSection`, `ReadsSymbol`); what lies inside the file loads without wrapping around
(`LoadsWhatIs`), and a text is found up to its end (`TextRead`).  The invariant is
that the reader of a file that is `AsLinked` has not failed, and that the headers it has
are those that were written.  From it follow `LinkedFilesRead` and `TablesRead`, and, with the
invariant of the answer, `MainIsFound`: its hypotheses are on the file alone.

### Only model-checked

- Liveness (`SearchEnds`, `CallsEnd`, `AnalysisEnds`, `LookupEnds`,
  `HandlersReturn`), which needs fairness and `ENABLED`.
- The five disagreements above, which are counterexamples.
- `JenkinsHash`, which uses exclusive or, of which the provers know nothing; it is
  evaluated for the keys of the run.  The proofs take any hash.

## Not modelled

- Startup (`__libc_start_main`, `print_proc_maps`) and the interposed `exit`
  functions: they forward to the C library and have no state of the analyzer.
- What runs after `main` has returned, where `address_list` is freed with traps
  in place.
- The sharing of `address_list`, the tree, `ud_obj`, `data`, `lowerVal` and `boundVal` by two
  analyses that run at once, access by access: from then on `TrapThreads` lets such an analysis
  come to anything, hang or end the process, and its properties say when it may come to that.
- Of two analyses at once, what a block of memory that was freed twice does to the
  table, and what becomes of `start_byte_list`, which nothing reads.
- Of libelfin, segment data, the lookup of a section by name and the
  conversion of enumerations to text (`to_string.cc`, `to_hex.hh`).
- Operands of 16 bits and far pointers in `get_address`.
- The tests, samples and editor backups.

## Left open

Everything that the runs check is proved but for what is listed under "Only
model-checked".  These hazards in `PROJECT.json` have no property, since no statement of
the repository is about them: what happens is in the models of a tree that is deleted before
anything was inserted, a trap in code that the handler itself uses, two analyses at once, an update
of `trapFlag` that is lost, and a link of a section that does not fit in 16 bits; it is not
in them of `address_list` after `main` has returned, nor of a tree that another thread changes
between `boundFind` and `direct_boundTree_insert`.
